----------------------------- MODULE BotDialogs -----------------------------
(***************************************************************************)
(* The conversations of the bot (app/telegram/handlers.py): filling in the *)
(* lessons or extras of a weekday in three questions with a preview, and   *)
(* renaming or deleting an entry.  Each handler is a list of storage and   *)
(* service calls that it awaits one by one; time passes, the planner on    *)
(* the web writes, and the bot may die between any two of them.            *)
(*                                                                         *)
(* Telegram keeps the keyboards of all earlier messages on the screen, so  *)
(* a button of any keyboard that the handlers make may be pressed at any   *)
(* time.  aiogram tries the handlers in the order of their registration    *)
(* and runs one update of a chat at a time (SimpleEventIsolation).         *)
(***************************************************************************)
EXTENDS DialogMemory, Sequences

CONSTANTS
    Days,      \* weekdays
    Readable,  \* texts that parse as lessons and as extras
    Rejected,  \* those the service refuses when they are saved
    Ids        \* ids of entries, never used twice

Kinds == {"lessons", "extras"}
Commands == {"/start", "/edit", "/set_lessons", "/set_extras", "/today", "/web"}

\* "/start" stands for the commands registered before the dialogs, "/today"
\* for today, week and the buttons of the menu.
Messages == Commands \cup Readable \cup {"cancel", "blank"}

Choosing ==
    [lessons |-> "lessons.choosing_day", extras |-> "extras.choosing_day",
     edit |-> "edit.choosing_day"]
Waiting == [lessons |-> "lessons.waiting_for_text", extras |-> "extras.waiting_for_text"]
Confirming == [lessons |-> "lessons.confirming", extras |-> "extras.confirming"]

DialogStates ==
    (UNION {{Choosing[kind], Waiting[kind], Confirming[kind]} : kind \in Kinds})
      \cup {"edit.choosing_day", "edit.choosing_entry", "edit.choosing_action",
            "edit.waiting_for_label"}

Previews == [kind : Kinds, day : Days, text : Readable]

ASSUME DialogAssumption ==
    /\ Keys = Callers
    /\ Fields = {"weekday", "raw_text", "entry"}
    /\ Values = Days \cup Readable \cup Ids
    /\ States = DialogStates
    /\ Rejected \subseteq Readable
    /\ None \notin Previews

Entry == [id : Ids, kind : Kinds, day : Days, label : Messages]

VARIABLES
    todo,      \* what the handler at work in a chat has still to do
    entries,   \* the schedule of the user, as the bot sees it
    unused,    \* ids that no entry has had
    offered,   \* kinds whose previews are on the screen of a chat
    preview,   \* the preview sent last in a chat: kind, day, text (a history)
    unsent,    \* or the one a dialog confirms that could not be sent (a history)
    saved,     \* whether the last of these has been saved (a history)
    renaming   \* the entry whose rename button was taken last (a history)

history == <<preview, unsent, saved, renaming>>
schedule == <<entries, unused>>
vars == <<memoryVars, todo, schedule, offered, history>>

Init ==
    /\ MemoryInit
    /\ todo = [c \in Keys |-> <<>>]
    /\ entries = {}
    /\ unused = Ids
    /\ offered = [c \in Keys |-> {}]
    /\ preview = [c \in Keys |-> None]
    /\ unsent = [c \in Keys |-> None]
    /\ saved = [c \in Keys |-> FALSE]
    /\ renaming = [c \in Keys |-> None]

-----------------------------------------------------------------------------
(* What a handler does, as a list of steps. *)

Put(s) == [do |-> "set_state", state |-> s]
Update(f, v) == [do |-> "update_data", fields |-> [Empty EXCEPT ![f] = v]]
Step(name) == [do |-> name]

\* FSMContext.clear of aiogram: two calls.
Clear == <<Put(None), Step("empty")>>

\* _show_edit_entries
Show == <<Step("show")>>

\* The message handlers in the order of their registration.
Router ==
    <<"cmd_start", "cmd_edit", "edit_receive_label", "cmd_today",
      "cmd_set_lessons", "lessons_input", "cmd_set_extras", "extras_input",
      "cmd_web">>

Accepts(h, s, msg) ==
    CASE h = "cmd_start" -> msg = "/start"
      [] h = "cmd_edit" -> msg = "/edit"
      [] h = "edit_receive_label" -> s = "edit.waiting_for_label"
      [] h = "cmd_today" -> msg = "/today"
      [] h = "cmd_set_lessons" -> msg = "/set_lessons"
      [] h = "lessons_input" -> s = Waiting.lessons
      [] h = "cmd_set_extras" -> msg = "/set_extras"
      [] h = "extras_input" -> s = Waiting.extras
      [] h = "cmd_web" -> msg = "/web"

Begun(kind) == Clear \o <<Put(Choosing[kind])>>

Reading(kind, msg) == <<[do |-> "input", kind |-> kind, text |-> msg]>>

ReceiveLabel(msg) ==
    CASE msg = "blank" -> <<>>
      [] msg = "cancel" -> <<Put("edit.choosing_entry")>> \o Show
      [] OTHER -> <<[do |-> "label", text |-> msg]>>

OnMessage(h, msg) ==
    CASE h = "cmd_edit" -> Begun("edit")
      [] h = "cmd_set_lessons" -> Begun("lessons")
      [] h = "cmd_set_extras" -> Begun("extras")
      [] h = "lessons_input" -> Reading("lessons", msg)
      [] h = "extras_input" -> Reading("extras", msg)
      [] h = "edit_receive_label" -> ReceiveLabel(msg)
      [] OTHER -> <<>>  \* cmd_start, cmd_today, cmd_web: read-only

\* A button: `on` and what its callback data carries.
Buttons ==
    [on : {"day"}, kind : Kinds \cup {"edit"}, day : Days]
      \cup [on : {"save"}, kind : Kinds]
      \cup [on : {"cancel", "back", "entries"}]
      \cup [on : {"item", "rename", "delete"}, id : Ids]

\* Seeded fault: a day of the edit dialog is taken in every state.
DayFilterLoose(kind) == IF kind = "edit" THEN None ELSE Choosing[kind]

DayFilter(kind) == Choosing[kind]

\* The state a button's handler asks for; None when it takes any.
Filter(b) ==
    CASE b.on = "day" -> DayFilter(b.kind)
      [] b.on = "save" -> Confirming[b.kind]
      [] b.on = "item" -> "edit.choosing_entry"
      [] b.on \in {"rename", "delete"} -> "edit.choosing_action"
      [] b.on \in {"cancel", "back", "entries"} -> None

\* Seeded fault: the rename button relies on the entry selected before.
RenameSelected(id) == <<Put("edit.waiting_for_label")>>

RenameSteps(id) == <<Update("entry", id), Put("edit.waiting_for_label")>>

OnButton(b) ==
    CASE b.on = "day" /\ b.kind \in Kinds ->
            <<Update("weekday", b.day), Put(Waiting[b.kind])>>
      [] b.on = "day" /\ b.kind = "edit" -> <<[do |-> "list", day |-> b.day]>>
      [] b.on = "save" -> <<[do |-> "save", kind |-> b.kind]>>
      [] b.on = "cancel" -> Clear
      [] b.on = "back" -> <<Put("edit.choosing_day")>>
      [] b.on = "entries" -> Show
      [] b.on = "item" -> <<Update("entry", b.id), Put("edit.choosing_action")>>
      [] b.on = "rename" -> RenameSteps(b.id)
      [] b.on = "delete" ->
            <<Update("entry", b.id), [do |-> "delete", id |-> b.id]>> \o Show

-----------------------------------------------------------------------------
(* An update of Telegram: the state is read once, for all filters. *)

\* What a handler reads from the storage it uses in the same step.
Reads == UNCHANGED memoryVars

Idle(c) == todo[c] = <<>>
Plan(c, steps) == todo' = [todo EXCEPT ![c] = steps]

\* The first handler in the order of registration that accepts the message.
Taken(s, msg) ==
    LET accepting == {i \in DOMAIN Router : Accepts(Router[i], s, msg)}
    IN  IF accepting = {} THEN "none"
        ELSE Router[CHOOSE i \in accepting : \A j \in accepting : i <= j]

Receive(c, msg) ==
    /\ Idle(c)
    /\ Reads
    /\ Plan(c, OnMessage(Taken(state[c], msg), msg))
    /\ UNCHANGED <<schedule, offered, history>>

\* A button that some message of the bot carries: the entries were listed, or a
\* preview was sent.
OnScreen(c, b) ==
    /\ b.on \in {"item", "rename", "delete"} => b.id \notin unused
    /\ b.on = "save" => b.kind \in offered[c]

PressButton(c, b) ==
    /\ Idle(c)
    /\ OnScreen(c, b)
    /\ Filter(b) \in {state[c], None}
    /\ b.on = "save" => unused # {}  \* bound: MaxIds, the size of Ids
    /\ Reads
    /\ Plan(c, OnButton(b))
    /\ renaming' = IF b.on = "rename" THEN [renaming EXCEPT ![c] = b.id] ELSE renaming
    /\ UNCHANGED <<schedule, offered, preview, unsent, saved>>

-----------------------------------------------------------------------------
(* The steps of a handler. *)

Doing(c, name) == todo[c] # <<>> /\ Head(todo[c]).do = name
Done(c) == Plan(c, Tail(todo[c]))

Store(c) ==
    LET step == Head(todo[c])
    IN  /\ \/ Doing(c, "set_state") /\ SetState(c, step.state)
           \/ Doing(c, "empty") /\ SetData(c, Empty)
           \/ Doing(c, "update_data") /\ SetData(c, Merge(data[c], step.fields))
        /\ Done(c)
        /\ UNCHANGED <<schedule, offered, history>>

\* Seeded fault: the text is not parsed before the preview.
Previewed(day, text) == day # None

CanPreview(day, text) == day # None /\ text \in Readable

\* lessons_input, extras_input: without a day, or with a text that does not
\* parse, there is an answer and nothing else.  The preview is sent last, when
\* the dialog confirms already.
Input(c) ==
    LET step == Head(todo[c])
        day == data[c]["weekday"]
        made == [kind |-> step.kind, day |-> day, text |-> step.text]
    IN  /\ Doing(c, "input")
        /\ Reads
        /\ IF ~CanPreview(day, step.text)
           THEN Done(c)
           ELSE Plan(c, <<Update("raw_text", step.text), Put(Confirming[step.kind]),
                          [do |-> "send", preview |-> made]>>)
        /\ UNCHANGED <<schedule, offered, history>>

\* The user has the preview and its save button.
SendPreview(c) ==
    LET sent == Head(todo[c]).preview
    IN  /\ Doing(c, "send")
        /\ offered' = [offered EXCEPT ![c] = @ \cup {sent.kind}]
        /\ preview' = [preview EXCEPT ![c] = sent]
        /\ unsent' = [unsent EXCEPT ![c] = None]
        /\ saved' = [saved EXCEPT ![c] = FALSE]
        /\ Done(c)
        /\ UNCHANGED <<memoryVars, schedule, renaming>>

\* lessons_save, extras_save: what to save is read ...
Save(c) ==
    LET step == Head(todo[c])
        day == data[c]["weekday"]
        text == data[c]["raw_text"]
    IN  /\ Doing(c, "save")
        /\ Reads
        /\ IF day = None \/ text = None
           THEN Done(c)
           ELSE Plan(c, <<[do |-> "write", kind |-> step.kind, day |-> day, text |-> text]>>)
        /\ UNCHANGED <<schedule, offered, history>>

\* Seeded fault: the dialog stays open.
Nothing == <<>>

AfterSaving == Clear

\* ... and written: set_lessons_for_day replaces the day, or raises and the
\* dialog stays as it is.
WriteDay(c) ==
    LET step == Head(todo[c])
    IN  /\ Doing(c, "write")
        /\ IF step.text \in Rejected
           THEN Done(c) /\ UNCHANGED <<schedule, saved>>
           ELSE /\ \E id \in unused :
                     /\ entries' =
                          {e \in entries : e.kind # step.kind \/ e.day # step.day}
                            \cup {[id |-> id, kind |-> step.kind, day |-> step.day,
                                   label |-> step.text]}
                     /\ unused' = unused \ {id}
                /\ saved' = [saved EXCEPT ![c] = TRUE]
                /\ Plan(c, AfterSaving)
        /\ UNCHANGED <<memoryVars, offered, preview, unsent, renaming>>

On(day) == {e \in entries : e.day = day}

\* edit_choose_day: the entries are read first; without any, the state stays.
ListDay(c) ==
    LET day == Head(todo[c]).day
    IN  /\ Doing(c, "list")
        /\ Plan(c, <<Update("weekday", day)>>
                     \o (IF On(day) = {} THEN <<>> ELSE <<Put("edit.choosing_entry")>>))
        /\ UNCHANGED <<memoryVars, schedule, offered, history>>

\* _show_edit_entries reads the day from the dialog, then its entries.
ShowEntries(c) ==
    LET day == data[c]["weekday"]
    IN  /\ Doing(c, "show")
        /\ Reads
        /\ Plan(c, <<IF day = None THEN Put("edit.choosing_day")
                                   ELSE [do |-> "show_day", day |-> day]>>)
        /\ UNCHANGED <<schedule, offered, history>>

ShowDay(c) ==
    /\ Doing(c, "show_day")
    /\ Plan(c, <<Put(IF On(Head(todo[c]).day) = {} THEN "edit.choosing_day"
                                                  ELSE "edit.choosing_entry")>>)
    /\ UNCHANGED <<memoryVars, schedule, offered, history>>

\* edit_receive_label: the entry is the one in the dialog.
Label(c) ==
    LET step == Head(todo[c])
        id == data[c]["entry"]
    IN  /\ Doing(c, "label")
        /\ Reads
        /\ Plan(c, IF id = None THEN <<Put("edit.choosing_day")>>
                   ELSE <<[do |-> "rename", id |-> id, text |-> step.text]>> \o Show)
        /\ UNCHANGED <<schedule, offered, history>>

\* update_entry_label; when it raises, the handler ends (Interrupt).
RenameEntry(c) ==
    LET step == Head(todo[c])
    IN  /\ Doing(c, "rename")
        /\ entries' = {IF e.id = step.id THEN [e EXCEPT !.label = step.text] ELSE e :
                         e \in entries}
        /\ Done(c)
        /\ UNCHANGED <<memoryVars, unused, offered, history>>

DeleteEntry(c) ==
    /\ Doing(c, "delete")
    /\ entries' = {e \in entries : e.id # Head(todo[c]).id}
    /\ Done(c)
    /\ UNCHANGED <<memoryVars, unused, offered, history>>

Work(c) ==
    \/ Store(c) \/ Input(c) \/ SendPreview(c) \/ Save(c) \/ WriteDay(c) \/ ListDay(c)
    \/ ShowEntries(c) \/ ShowDay(c) \/ Label(c) \/ RenameEntry(c) \/ DeleteEntry(c)

-----------------------------------------------------------------------------
(* The world. *)

\* The bot dies, or Telegram or the database fails a call and the handler
\* raises.  Telegram may deliver the update once more: any update may come.
Interrupt(c) ==
    /\ ~Idle(c)
    /\ Plan(c, <<>>)
    /\ saved' = [saved EXCEPT ![c] = FALSE]
    /\ IF Doing(c, "send")
       THEN /\ preview' = [preview EXCEPT ![c] = None]
            /\ unsent' = [unsent EXCEPT ![c] = Head(todo[c]).preview]
       ELSE UNCHANGED <<preview, unsent>>
    /\ UNCHANGED <<memoryVars, schedule, offered, renaming>>

TimePasses ==
    /\ Elapse
    /\ UNCHANGED <<todo, schedule, offered, history>>

\* An entry is deleted in the planner on the web.
DeletedElsewhere(e) ==
    /\ entries' = entries \ {e}
    /\ UNCHANGED <<memoryVars, todo, unused, offered, history>>

Next ==
    \/ \E c \in Keys, msg \in Messages : Receive(c, msg)
    \/ \E c \in Keys, b \in Buttons : PressButton(c, b)
    \/ \E c \in Keys : Work(c) \/ Interrupt(c)
    \/ TimePasses
    \/ \E e \in entries : DeletedElsewhere(e)

Spec == Init /\ [][Next]_vars

-----------------------------------------------------------------------------
(* Properties. *)

TypeOK ==
    /\ state \in [Keys -> States \cup {None}]
    /\ data \in [Keys -> Data]
    /\ left \in [Keys -> 0..TTL]
    /\ entries \subseteq Entry
    /\ unused \subseteq Ids
    /\ offered \in [Keys -> SUBSET Kinds]
    /\ preview \in [Keys -> Previews \cup {None}]
    /\ unsent \in [Keys -> Previews \cup {None}]
    /\ saved \in [Keys -> BOOLEAN]
    /\ renaming \in [Keys -> Ids \cup {None}]

\* The preview that a save button of the chat is for.
Current(c) == IF unsent[c] = None THEN preview[c] ELSE unsent[c]

\* What a save button writes is the preview the user saw last: the same kind,
\* day and text.  The three come from different messages, are kept in one
\* record for all dialogs, and old buttons, an expiry or a crash come between.
\* There is one exception: when the sending of a preview fails, the dialog
\* confirms already, and the save button of an earlier preview then writes the
\* one that was not sent, in whole.
SavesThePreview ==
    \A c \in Keys : Doing(c, "write") =>
      LET step == Head(todo[c])
      IN  Current(c) = [kind |-> step.kind, day |-> step.day, text |-> step.text]

\* A preview is saved once: a second press on the button finds the dialog
\* closed, unless the bot was interrupted while saving.
SavesOnce == \A c \in Keys : Doing(c, "write") => ~saved[c]

\* A new name goes to the entry whose rename button was taken last, although
\* the name comes in a message of its own and buttons of other entries are
\* still on the screen.
RenamesTheChosen ==
    \A c \in Keys : Doing(c, "rename") => Head(todo[c]).id = renaming[c]
=============================================================================
