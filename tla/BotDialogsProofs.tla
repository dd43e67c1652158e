-------------------------- MODULE BotDialogsProofs --------------------------
(***************************************************************************)
(* Whatever buttons of earlier messages are pressed, wherever the bot dies *)
(* and whenever dialogs expire, what a handler writes belongs to what its  *)
(* user saw: for any number of chats, days, texts and entries, and any     *)
(* time that a dialog lasts.                                               *)
(*                                                                         *)
(* The argument is local to a chat.  A chat is Sane when its data belong   *)
(* to the preview and the chosen entry in every state that uses them, and  *)
(* what is left of its handler is one of a few lists of steps (AtWork).    *)
(* There is a lemma for each step on the values of one chat, a lemma for   *)
(* each action that applies it, and the fact that an action works on one   *)
(* chat (Elsewhere).                                                       *)
(***************************************************************************)
EXTENDS BotDialogs, SequenceTheorems, TLAPS

Sending(n) == [do |-> "send", preview |-> n]

Naming == "edit.waiting_for_label"

Confirms(s) == \E k \in Kinds : s = Confirming[k]

\* Steps that make no dialog confirm or wait for a name.
Safe ==
    {Put(s) : s \in {x \in States \cup {None} : ~Confirms(x) /\ x # Naming}}
      \cup {Step("empty"), Step("show")}
      \cup [do : {"show_day"}, day : Values]
      \cup [do : {"delete"}, id : Ids]

Begins(t, step) == t # <<>> /\ Head(t) = step

-----------------------------------------------------------------------------
(* What holds of a chat with state s, data d, steps t still to do, preview p, *)
(* saved or not (v), and chosen entry r.                                      *)

\* Each field holds what its name says.
Fielded(d) ==
    /\ d["weekday"] \in Days \cup {None}
    /\ d["raw_text"] \in Readable \cup {None}
    /\ d["entry"] \in Ids \cup {None}

DayKept(d, p) == d["weekday"] \in {None, p.day}
TextKept(d, p) == d["raw_text"] \in {None, p.text}
Named(d, r) == d["entry"] \in {None, r}

Answers(s, d, p) ==
    \A k \in Kinds : s = Confirming[k] =>
        /\ p \in Previews /\ p.kind = k
        /\ DayKept(d, p) /\ TextKept(d, p)

Sends(s, d, t) == \E n \in Previews : Answers(s, d, n) /\ t = <<Sending(n)>>

\* A dialog that confirms holds its preview, or what is left of it ...
Kept(s, d, t, p, v) == Answers(s, d, p) /\ (Confirms(s) /\ v => t = Clear)

\* ... or one that is about to be sent.
Confirmed(s, d, t, p, v) == Kept(s, d, t, p, v) \/ Sends(s, d, t)

ChangesDay(s, t) ==
    /\ ~Confirms(s)
    /\ Tail(t) \in Seq(Safe)
    /\ \E x \in Days : Begins(t, Update("weekday", x))

ChangesEntry(s, t) ==
    /\ s # Naming
    /\ Tail(t) \in Seq(Safe)
    /\ \E x \in Ids : Begins(t, Update("entry", x))

ListsDay(s, t) ==
    /\ ~Confirms(s)
    /\ \E x \in Days : t = <<[do |-> "list", day |-> x]>>

ReadsText(s, t) ==
    /\ ~Confirms(s)
    /\ \E k \in Kinds, x \in Messages : t = <<[do |-> "input", kind |-> k, text |-> x]>>

KeepsText(s, d, t) ==
    /\ ~Confirms(s)
    /\ \E n \in Previews :
          /\ DayKept(d, n)
          /\ t = <<Update("raw_text", n.text), Put(Confirming[n.kind]), Sending(n)>>

GoesConfirming(d, t) ==
    \E n \in Previews :
        DayKept(d, n) /\ TextKept(d, n) /\ t = <<Put(Confirming[n.kind]), Sending(n)>>

GoesSaving(d, t, p, v) ==
    /\ p \in Previews /\ DayKept(d, p) /\ TextKept(d, p) /\ ~v
    /\ t = <<[do |-> "save", kind |-> p.kind]>>

Writes(t, p, v) ==
    /\ p \in Previews /\ ~v
    /\ t = <<[do |-> "write", kind |-> p.kind, day |-> p.day, text |-> p.text]>>

ChoosesEntry(s, t, r) ==
    /\ s # Naming
    /\ r \in Ids
    /\ t = <<Update("entry", r), Put(Naming)>>

GoesNaming(d, t, r) == Named(d, r) /\ t = <<Put(Naming)>>

ReadsName(d, t, r) ==
    /\ Named(d, r)
    /\ \E x \in Messages : t = <<[do |-> "label", text |-> x]>>

Renames(t, r) ==
    /\ r \in Ids
    /\ Tail(t) \in Seq(Safe)
    /\ \E x \in Messages : Begins(t, [do |-> "rename", id |-> r, text |-> x])

AtWork(s, d, t, p, v, r) ==
    \/ t \in Seq(Safe)
    \/ ChangesDay(s, t) \/ ChangesEntry(s, t) \/ ListsDay(s, t)
    \/ ReadsText(s, t) \/ KeepsText(s, d, t) \/ GoesConfirming(d, t) \/ Sends(s, d, t)
    \/ GoesSaving(d, t, p, v) \/ Writes(t, p, v)
    \/ ChoosesEntry(s, t, r) \/ GoesNaming(d, t, r) \/ ReadsName(d, t, r) \/ Renames(t, r)

Sane(s, d, t, p, v, r) ==
    /\ Fielded(d)
    /\ Confirmed(s, d, t, p, v)
    /\ s = Naming => Named(d, r)
    /\ AtWork(s, d, t, p, v, r)

Chat(c) == Sane(state[c], data[c], todo[c], Current(c), saved[c], renaming[c])

IInv ==
    /\ TypeOK
    /\ todo = [c \in Keys |-> todo[c]]
    /\ \A c \in Keys : Chat(c)

-----------------------------------------------------------------------------
(* Lists of steps. *)

LEMMA One ==
    ASSUME NEW a
    PROVE  <<a>> # <<>> /\ Head(<<a>>) = a /\ Tail(<<a>>) = <<>>
  OBVIOUS

LEMMA Two ==
    ASSUME NEW a, NEW b
    PROVE  <<a, b>> # <<>> /\ Head(<<a, b>>) = a /\ Tail(<<a, b>>) = <<b>>
  OBVIOUS

LEMMA Three ==
    ASSUME NEW a, NEW b, NEW c
    PROVE  <<a, b, c>> # <<>> /\ Head(<<a, b, c>>) = a /\ Tail(<<a, b, c>>) = <<b, c>>
  OBVIOUS

LEMMA Lengths ==
    ASSUME NEW S, NEW t \in Seq(S)
    PROVE  /\ Len(t) = 2 => t = <<t[1], t[2]>>
           /\ Len(t) = 3 => t = <<t[1], t[2], t[3]>>
  OBVIOUS

LEMMA Appended ==
    ASSUME NEW a, NEW b, NEW c
    PROVE  /\ <<a>> \o <<>> = <<a>>
           /\ <<a>> \o <<b>> = <<a, b>>
           /\ <<a, b>> \o <<c>> = <<a, b, c>>
  <1> DEFINE S == {a, b, c}
  <1>1. <<a>> \o <<>> = <<a>>
    OBVIOUS
  <1>2. /\ <<a>> \in Seq(S) /\ <<b>> \in Seq(S) /\ <<c>> \in Seq(S)
        /\ <<a, b>> \in Seq(S) /\ <<a, b, c>> \in Seq(S)
    OBVIOUS
  <1>3. <<a>> \o <<b>> = <<a, b>>
    <2> DEFINE t == <<a>> \o <<b>>
    <2>1. /\ t \in Seq(S) /\ Len(t) = 2
          /\ \A i \in 1..2 : t[i] = IF i <= 1 THEN <<a>>[i] ELSE <<b>>[i - 1]
      BY <1>2, ConcatProperties
    <2>2. t[1] = a /\ t[2] = b
      BY <2>1
    <2> QED
      BY <2>1, <2>2, Lengths
  <1>4. <<a, b>> \o <<c>> = <<a, b, c>>
    <2> DEFINE t == <<a, b>> \o <<c>>
    <2>1. /\ t \in Seq(S) /\ Len(t) = 3
          /\ \A i \in 1..3 : t[i] = IF i <= 2 THEN <<a, b>>[i] ELSE <<c>>[i - 2]
      BY <1>2, ConcatProperties
    <2>2. t[1] = a /\ t[2] = b /\ t[3] = c
      BY <2>1
    <2> QED
      BY <2>1, <2>2, Lengths
  <1> QED
    BY <1>1, <1>3, <1>4

LEMMA SafeLists ==
    /\ <<>> \in Seq(Safe)
    /\ \A a \in Safe : <<a>> \in Seq(Safe)
    /\ \A a, b \in Safe : <<a, b>> \in Seq(Safe)
    /\ \A a, b, c \in Safe : <<a, b, c>> \in Seq(Safe)
  OBVIOUS

LEMMA SafeSteps ==
    ASSUME NEW t \in Seq(Safe), t # <<>>
    PROVE  Head(t) \in Safe /\ Tail(t) \in Seq(Safe)
  OBVIOUS

\* Names of states are names, and none of them is no state.
LEMMA Names ==
    /\ None \notin States
    /\ \A k \in Kinds : {Choosing[k], Waiting[k], Confirming[k]} \subseteq States
    /\ {Choosing.edit, "edit.choosing_day", "edit.choosing_entry",
        "edit.choosing_action", Naming} \subseteq States
  <1>1. None \notin States /\ States = DialogStates
    BY DialogAssumption, MemoryAssumption
  <1>2. ASSUME NEW k \in Kinds
        PROVE  {Choosing[k], Waiting[k], Confirming[k]} \subseteq DialogStates
    <2>1. {Choosing[k], Waiting[k], Confirming[k]}
            \in {{Choosing[j], Waiting[j], Confirming[j]} : j \in Kinds}
      OBVIOUS
    <2> QED
      BY <2>1, Zenon DEF DialogStates
  <1>3. {"edit.choosing_day", "edit.choosing_entry", "edit.choosing_action", Naming}
          \subseteq DialogStates
    BY DEF DialogStates, Naming
  <1>4. Choosing.edit = "edit.choosing_day"
    BY DEF Choosing
  <1> QED
    BY <1>1, <1>2, <1>3, <1>4

\* The states in which nothing is confirmed and no name is awaited.
LEMMA Harmless ==
    /\ ~Confirms(None) /\ None # Naming
    /\ \A k \in Kinds : /\ ~Confirms(Choosing[k]) /\ Choosing[k] # Naming
                        /\ ~Confirms(Waiting[k]) /\ Waiting[k] # Naming
                        /\ Confirming[k] # Naming
    /\ \A x \in {Choosing.edit, "edit.choosing_day", "edit.choosing_entry",
                 "edit.choosing_action"} : ~Confirms(x) /\ x # Naming
    /\ ~Confirms(Naming)
  <1>1. ~Confirms(None) /\ None # Naming
    BY Names DEF Confirms
  <1> QED
    BY <1>1 DEF Confirms, Kinds, Choosing, Waiting, Confirming, Naming

\* A state confirms one kind.
LEMMA OneKind == \A j, k \in Kinds : Confirming[j] = Confirming[k] => j = k
  BY DEF Kinds, Confirming

-----------------------------------------------------------------------------
(* What is done next tells what a chat is at. *)

LEMMA SafeDoes ==
    ASSUME NEW x \in Safe
    PROVE  \/ \E s \in States \cup {None} : x = Put(s) /\ ~Confirms(s) /\ s # Naming
           \/ x = Step("empty") \/ x = Step("show")
           \/ \E day \in Values : x = [do |-> "show_day", day |-> day]
           \/ \E id \in Ids : x = [do |-> "delete", id |-> id]
  <1>1. CASE x \in {Put(s) : s \in {y \in States \cup {None} : ~Confirms(y) /\ y # Naming}}
    BY <1>1
  <1>2. CASE x \in {Step("empty"), Step("show")}
    BY <1>2
  <1>3. CASE x \in [do : {"show_day"}, day : Values]
    BY <1>3
  <1>4. CASE x \in [do : {"delete"}, id : Ids]
    BY <1>4
  <1> QED
    BY <1>1, <1>2, <1>3, <1>4 DEF Safe

LEMMA IsSafe ==
    /\ \A s \in States \cup {None} : ~Confirms(s) /\ s # Naming => Put(s) \in Safe
    /\ Step("empty") \in Safe /\ Step("show") \in Safe
    /\ \A day \in Values : [do |-> "show_day", day |-> day] \in Safe
    /\ \A id \in Ids : [do |-> "delete", id |-> id] \in Safe
  <1>1. ASSUME NEW s \in States \cup {None}, ~Confirms(s), s # Naming
        PROVE  Put(s) \in Safe
    <2>1. Put(s) \in {Put(y) : y \in {z \in States \cup {None} : ~Confirms(z) /\ z # Naming}}
      BY <1>1
    <2> QED
      BY <2>1 DEF Safe
  <1>2. Step("empty") \in Safe /\ Step("show") \in Safe
    BY DEF Safe
  <1>3. \A day \in Values : [do |-> "show_day", day |-> day] \in Safe
    BY DEF Safe
  <1>4. \A id \in Ids : [do |-> "delete", id |-> id] \in Safe
    BY DEF Safe
  <1> QED
    BY <1>1, <1>2, <1>3, <1>4

LEMMA ClearIsSafe ==
    /\ Clear \in Seq(Safe)
    /\ Clear # <<>> /\ Head(Clear) = Put(None) /\ Tail(Clear) = <<Step("empty")>>
  BY Two, SafeLists, IsSafe, Harmless DEF Clear

LEMMA ShowIsSafe == Show \in Seq(Safe)
  BY SafeLists, IsSafe DEF Show

\* The next step of a chat by what it is at.
LEMMA Heads ==
    ASSUME NEW s, NEW d, NEW t, NEW p, NEW v, NEW r,
           AtWork(s, d, t, p, v, r), t # <<>>
    PROVE  \/ t \in Seq(Safe)
           \/ /\ Head(t).do = "update_data"
              /\ \/ ChangesDay(s, t) \/ ChangesEntry(s, t)
                 \/ KeepsText(s, d, t) \/ ChoosesEntry(s, t, r)
           \/ /\ Head(t).do = "set_state"
              /\ GoesConfirming(d, t) \/ GoesNaming(d, t, r)
           \/ Head(t).do = "send" /\ Sends(s, d, t)
           \/ Head(t).do = "list" /\ ListsDay(s, t)
           \/ Head(t).do = "input" /\ ReadsText(s, t)
           \/ Head(t).do = "save" /\ GoesSaving(d, t, p, v)
           \/ Head(t).do = "write" /\ Writes(t, p, v)
           \/ Head(t).do = "label" /\ ReadsName(d, t, r)
           \/ Head(t).do = "rename" /\ Renames(t, r)
  <1>1. CASE ChangesDay(s, t)
    BY <1>1 DEF ChangesDay, Begins, Update
  <1>2. CASE ChangesEntry(s, t)
    BY <1>2 DEF ChangesEntry, Begins, Update
  <1>3. CASE ListsDay(s, t)
    BY <1>3, One DEF ListsDay
  <1>4. CASE ReadsText(s, t)
    BY <1>4, One DEF ReadsText
  <1>5. CASE KeepsText(s, d, t)
    <2>1. PICK n \in Previews :
             t = <<Update("raw_text", n.text), Put(Confirming[n.kind]), Sending(n)>>
      BY <1>5 DEF KeepsText
    <2>2. t # <<>> /\ Head(t) = Update("raw_text", n.text)
      BY <2>1, Three
    <2>3. Head(t).do = "update_data"
      BY <2>2 DEF Update
    <2> QED
      BY <1>5, <2>2, <2>3
  <1>6. CASE GoesConfirming(d, t)
    BY <1>6, Two DEF GoesConfirming, Put
  <1>7. CASE GoesSaving(d, t, p, v)
    BY <1>7, One DEF GoesSaving
  <1>8. CASE Writes(t, p, v)
    BY <1>8, One DEF Writes
  <1>9. CASE ChoosesEntry(s, t, r)
    BY <1>9, Two DEF ChoosesEntry, Update
  <1>10. CASE GoesNaming(d, t, r)
    BY <1>10, One DEF GoesNaming, Put
  <1>11. CASE ReadsName(d, t, r)
    BY <1>11, One DEF ReadsName
  <1>12. CASE Renames(t, r)
    BY <1>12 DEF Renames, Begins
  <1>13. CASE Sends(s, d, t)
    BY <1>13, One DEF Sends, Sending
  <1> QED
    BY <1>1, <1>2, <1>3, <1>4, <1>5, <1>6, <1>7, <1>8, <1>9, <1>10, <1>11, <1>12, <1>13
       DEF AtWork

\* Steps of a list of safe steps are the safe ones.
LEMMA SafeHeads ==
    ASSUME NEW t \in Seq(Safe), t # <<>>
    PROVE  /\ Head(t).do \in {"set_state", "empty", "show", "show_day", "delete"}
           /\ Head(t).do = "set_state" =>
                /\ Head(t).state \in States \cup {None}
                /\ ~Confirms(Head(t).state) /\ Head(t).state # Naming
           /\ Head(t).do = "show_day" => Head(t).day \in Values
           /\ Head(t).do = "delete" => Head(t).id \in Ids
  <1>1. Head(t) \in Safe
    BY SafeSteps
  <1> QED
    BY <1>1, SafeDoes DEF Put, Step

\* A chat that is not sending a preview holds the one it confirms, and one in a
\* harmless state confirms nothing.
LEMMA HoldsIt ==
    ASSUME NEW s, NEW d, NEW t, NEW p, NEW v,
           Confirmed(s, d, t, p, v), t = <<>> \/ Head(t).do # "send"
    PROVE  Kept(s, d, t, p, v)
  BY One DEF Confirmed, Sends, Sending

LEMMA ConfirmsNothing ==
    ASSUME NEW s, ~Confirms(s)
    PROVE  /\ \A d, p : Answers(s, d, p)
           /\ \A d, t, p, v : Confirmed(s, d, t, p, v)
  BY DEF Confirms, Answers, Kept, Confirmed

-----------------------------------------------------------------------------
(* The properties of a chat. *)

LEMMA SaneWrites ==
    ASSUME NEW s, NEW d, NEW t, NEW p, NEW v, NEW r,
           Sane(s, d, t, p, v, r), t # <<>>, Head(t).do = "write"
    PROVE  Writes(t, p, v)
  BY Heads, SafeHeads DEF Sane

LEMMA SaneRenames ==
    ASSUME NEW s, NEW d, NEW t, NEW p, NEW v, NEW r,
           Sane(s, d, t, p, v, r), t # <<>>, Head(t).do = "rename"
    PROVE  Renames(t, r)
  BY Heads, SafeHeads DEF Sane

LEMMA InvariantImplies ==
    IInv => SavesThePreview /\ SavesOnce /\ RenamesTheChosen
  <1> SUFFICES ASSUME IInv, NEW c \in Keys
               PROVE  /\ Doing(c, "write") =>
                           /\ Current(c) = [kind |-> Head(todo[c]).kind,
                                            day |-> Head(todo[c]).day,
                                            text |-> Head(todo[c]).text]
                           /\ ~saved[c]
                      /\ Doing(c, "rename") => Head(todo[c]).id = renaming[c]
    BY DEF SavesThePreview, SavesOnce, RenamesTheChosen
  <1>1. Sane(state[c], data[c], todo[c], Current(c), saved[c], renaming[c])
    BY DEF IInv, Chat
  <1>2. ASSUME Doing(c, "write")
        PROVE  /\ Current(c) = [kind |-> Head(todo[c]).kind,
                                day |-> Head(todo[c]).day,
                                text |-> Head(todo[c]).text]
               /\ ~saved[c]
    <2>1. Writes(todo[c], Current(c), saved[c])
      BY <1>1, <1>2, SaneWrites DEF Doing
    <2>2. Head(todo[c]) = [do |-> "write", kind |-> Current(c).kind,
                           day |-> Current(c).day, text |-> Current(c).text]
      BY <2>1, One DEF Writes
    <2> QED
      BY <2>1, <2>2 DEF Writes, Previews
  <1>3. ASSUME Doing(c, "rename")
        PROVE  Head(todo[c]).id = renaming[c]
    <2>1. Renames(todo[c], renaming[c])
      BY <1>1, <1>3, SaneRenames DEF Doing
    <2> QED
      BY <2>1 DEF Renames, Begins
  <1> QED
    BY <1>2, <1>3

-----------------------------------------------------------------------------
(* What one step makes of its chat. *)

LEMMA FieldNames ==
    /\ Fields = {"weekday", "raw_text", "entry"}
    /\ Days \subseteq Values /\ Readable \subseteq Values /\ Ids \subseteq Values
    /\ None \notin Values
  BY DialogAssumption, MemoryAssumption

\* An update of the data changes one field.
LEMMA Updated ==
    ASSUME NEW d \in Data, NEW f \in Fields, NEW x \in Values
    PROVE  LET e == Merge(d, Update(f, x).fields)
           IN  e \in Data /\ e[f] = x /\ \A g \in Fields \ {f} : e[g] = d[g]
  <1> DEFINE u == [Empty EXCEPT ![f] = x]
  <1>1. /\ u \in [Fields -> Values \cup {None}] /\ u[f] = x
        /\ \A g \in Fields \ {f} : u[g] = None
    BY DEF Empty
  <1>2. Merge(d, u) = [g \in Fields |-> IF u[g] = None THEN d[g] ELSE u[g]]
    BY DEF Merge
  <1>3. Update(f, x).fields = u
    BY DEF Update
  <1> HIDE DEF u
  <1>4. x # None /\ d \in [Fields -> Values \cup {None}]
    BY FieldNames DEF Data
  <1>5. Merge(d, u) \in [Fields -> Values \cup {None}]
    BY <1>1, <1>2, <1>4
  <1>6. Merge(d, u)[f] = x
    BY <1>1, <1>2, <1>4
  <1>7. \A g \in Fields \ {f} : Merge(d, u)[g] = d[g]
    BY <1>1, <1>2, <1>4
  <1> QED
    BY <1>3, <1>5, <1>6, <1>7 DEF Data

LEMMA EmptyHolds ==
    /\ Empty \in Data /\ Fielded(Empty)
    /\ \A p, r : DayKept(Empty, p) /\ TextKept(Empty, p) /\ Named(Empty, r)
  BY FieldNames DEF Empty, Data, Fielded, DayKept, TextKept, Named

LEMMA ChangedDay ==
    ASSUME NEW s, NEW d \in Data, NEW t, NEW p, NEW v, NEW r, Fielded(d),
           s = Naming => Named(d, r), ChangesDay(s, t)
    PROVE  LET e == Merge(d, Head(t).fields)
           IN  e \in Data /\ Sane(s, e, Tail(t), p, v, r)
  <1>1. PICK x \in Days : Head(t) = Update("weekday", x)
    BY DEF ChangesDay, Begins
  <1> DEFINE e == Merge(d, Head(t).fields)
  <1>2. e \in Data /\ e["weekday"] = x /\ e["raw_text"] = d["raw_text"]
        /\ e["entry"] = d["entry"]
    BY <1>1, Updated, FieldNames
  <1> HIDE DEF e
  <1>3. Fielded(e)
    BY <1>2 DEF Fielded
  <1>4. s = Naming => Named(e, r)
    BY <1>2 DEF Named
  <1>5. Confirmed(s, e, Tail(t), p, v)
    BY ConfirmsNothing DEF ChangesDay
  <1>6. Tail(t) \in Seq(Safe)
    BY DEF ChangesDay
  <1> QED
    BY <1>2, <1>3, <1>4, <1>5, <1>6 DEF Sane, AtWork, e

LEMMA ChangedEntry ==
    ASSUME NEW s, NEW d \in Data, NEW t, NEW p, NEW v, NEW r, Fielded(d),
           Confirmed(s, d, t, p, v), ChangesEntry(s, t)
    PROVE  LET e == Merge(d, Head(t).fields)
           IN  e \in Data /\ Sane(s, e, Tail(t), p, v, r)
  <1>1. PICK x \in Ids : t # <<>> /\ Head(t) = Update("entry", x)
    BY DEF ChangesEntry, Begins
  <1> DEFINE e == Merge(d, Head(t).fields)
  <1>2. e \in Data /\ e["entry"] = x /\ e["raw_text"] = d["raw_text"]
        /\ e["weekday"] = d["weekday"]
    BY <1>1, Updated, FieldNames
  <1> HIDE DEF e
  <1>3. Fielded(e)
    BY <1>2 DEF Fielded
  <1>4. t # Clear /\ Kept(s, d, t, p, v)
    BY <1>1, ClearIsSafe, HoldsIt DEF Update, Put
  <1>5. Confirmed(s, e, Tail(t), p, v)
    BY <1>2, <1>4 DEF Kept, Answers, Confirmed, DayKept, TextKept
  <1>6. Tail(t) \in Seq(Safe) /\ s # Naming
    BY DEF ChangesEntry
  <1> QED
    BY <1>2, <1>3, <1>5, <1>6 DEF Sane, AtWork, e

LEMMA KeptText ==
    ASSUME NEW s, NEW d \in Data, NEW t, NEW p, NEW v, NEW r, Fielded(d),
           s = Naming => Named(d, r), KeepsText(s, d, t)
    PROVE  LET e == Merge(d, Head(t).fields)
           IN  e \in Data /\ Sane(s, e, Tail(t), p, v, r)
  <1>1. PICK n \in Previews :
          /\ DayKept(d, n)
          /\ t = <<Update("raw_text", n.text), Put(Confirming[n.kind]), Sending(n)>>
    BY DEF KeepsText
  <1>2. /\ Head(t) = Update("raw_text", n.text)
        /\ Tail(t) = <<Put(Confirming[n.kind]), Sending(n)>>
    BY <1>1, Three
  <1> DEFINE e == Merge(d, Head(t).fields)
  <1>3. e \in Data /\ e["raw_text"] = n.text /\ e["entry"] = d["entry"]
        /\ e["weekday"] = d["weekday"]
    <2>1. n.text \in Readable
      BY DEF Previews
    <2> QED
      BY <1>2, <2>1, Updated, FieldNames
  <1> HIDE DEF e
  <1>4. Fielded(e)
    BY <1>3 DEF Fielded, Previews
  <1>5. s = Naming => Named(e, r)
    BY <1>3 DEF Named
  <1>6. Confirmed(s, e, Tail(t), p, v)
    BY ConfirmsNothing DEF KeepsText
  <1>7. GoesConfirming(e, Tail(t))
    BY <1>1, <1>2, <1>3 DEF GoesConfirming, DayKept, TextKept
  <1> QED
    BY <1>3, <1>4, <1>5, <1>6, <1>7 DEF Sane, AtWork, e

LEMMA ChosenEntry ==
    ASSUME NEW s, NEW d \in Data, NEW t, NEW p, NEW v, NEW r, Fielded(d),
           Confirmed(s, d, t, p, v), ChoosesEntry(s, t, r)
    PROVE  LET e == Merge(d, Head(t).fields)
           IN  e \in Data /\ Sane(s, e, Tail(t), p, v, r)
  <1>1. r \in Ids /\ t # <<>> /\ Head(t) = Update("entry", r) /\ Tail(t) = <<Put(Naming)>>
    BY Two DEF ChoosesEntry
  <1> DEFINE e == Merge(d, Head(t).fields)
  <1>2. e \in Data /\ e["entry"] = r /\ e["raw_text"] = d["raw_text"]
        /\ e["weekday"] = d["weekday"]
    BY <1>1, Updated, FieldNames
  <1> HIDE DEF e
  <1>3. Fielded(e)
    BY <1>1, <1>2 DEF Fielded
  <1>4. t # Clear /\ Kept(s, d, t, p, v)
    BY <1>1, ClearIsSafe, HoldsIt DEF Update, Put
  <1>5. Confirmed(s, e, Tail(t), p, v)
    BY <1>2, <1>4 DEF Kept, Answers, Confirmed, DayKept, TextKept
  <1>6. GoesNaming(e, Tail(t), r) /\ s # Naming
    BY <1>1, <1>2 DEF ChoosesEntry, GoesNaming, Named
  <1> QED
    BY <1>2, <1>3, <1>5, <1>6 DEF Sane, AtWork, e

\* update_data
LEMMA DataUpdated ==
    ASSUME NEW s, NEW d \in Data, NEW t, NEW p, NEW v, NEW r,
           Sane(s, d, t, p, v, r), t # <<>>, Head(t).do = "update_data"
    PROVE  LET e == Merge(d, Head(t).fields)
           IN  e \in Data /\ Sane(s, e, Tail(t), p, v, r)
  <1>1. \/ ChangesDay(s, t) \/ ChangesEntry(s, t)
        \/ KeepsText(s, d, t) \/ ChoosesEntry(s, t, r)
    BY Heads, SafeHeads DEF Sane
  <1> QED
    BY <1>1, ChangedDay, ChangedEntry, KeptText, ChosenEntry DEF Sane

\* set_state
LEMMA StateSet ==
    ASSUME NEW s, NEW d \in Data, NEW t, NEW p, NEW v, NEW r,
           Sane(s, d, t, p, v, r), t # <<>>, Head(t).do = "set_state"
    PROVE  LET q == Head(t).state
           IN  q \in States \cup {None} /\ Sane(q, d, Tail(t), p, v, r)
  <1> DEFINE q == Head(t).state
  <1>1. CASE t \in Seq(Safe)
    <2>1. q \in States \cup {None} /\ ~Confirms(q) /\ q # Naming
      BY <1>1, SafeHeads
    <2>2. Tail(t) \in Seq(Safe)
      BY <1>1, SafeSteps
    <2>3. Confirmed(q, d, Tail(t), p, v)
      BY <2>1, ConfirmsNothing
    <2> QED
      BY <2>1, <2>2, <2>3 DEF Sane, AtWork
  <1>2. CASE GoesConfirming(d, t)
    <2>1. PICK n \in Previews : /\ DayKept(d, n) /\ TextKept(d, n)
                                /\ t = <<Put(Confirming[n.kind]), Sending(n)>>
      BY <1>2 DEF GoesConfirming
    <2>2. q = Confirming[n.kind] /\ Tail(t) = <<Sending(n)>> /\ n.kind \in Kinds
      BY <2>1, Two DEF Put, Previews
    <2>3. q \in States /\ q # Naming
      BY <2>2, Names, Harmless
    <2>4. Sends(q, d, Tail(t))
      BY <2>1, <2>2, OneKind DEF Sends, Answers
    <2> QED
      BY <2>3, <2>4 DEF Sane, AtWork, Confirmed
  <1>3. CASE GoesNaming(d, t, r)
    <2>1. q = Naming /\ Tail(t) = <<>> /\ Named(d, r)
      BY <1>3, One DEF GoesNaming, Put
    <2>2. Confirmed(q, d, Tail(t), p, v)
      BY <2>1, Harmless, ConfirmsNothing
    <2> QED
      BY <2>1, <2>2, Names, SafeLists DEF Sane, AtWork
  <1> QED
    BY <1>1, <1>2, <1>3, Heads DEF Sane

\* set_data({}) of clear()
LEMMA DataEmptied ==
    ASSUME NEW s, NEW d \in Data, NEW t, NEW p, NEW v, NEW r,
           Sane(s, d, t, p, v, r), t # <<>>, Head(t).do = "empty"
    PROVE  Sane(s, Empty, Tail(t), p, v, r)
  <1>1. t \in Seq(Safe)
    BY Heads DEF Sane
  <1>2. Tail(t) \in Seq(Safe)
    BY <1>1, SafeSteps
  <1>3. t # Clear /\ Kept(s, d, t, p, v)
    BY ClearIsSafe, HoldsIt DEF Put, Sane
  <1>4. Confirmed(s, Empty, Tail(t), p, v)
    BY <1>3, EmptyHolds DEF Kept, Answers, Confirmed
  <1> QED
    BY <1>2, <1>4, EmptyHolds DEF Sane, AtWork

\* A chat that is neither closing its dialog nor sending a preview may do
\* anything that it is ready for.
LEMMA Replanned ==
    ASSUME NEW s, NEW d, NEW t, NEW p, NEW v, NEW r, NEW u,
           Sane(s, d, t, p, v, r), t = <<>> \/ Head(t).do \notin {"set_state", "send"},
           AtWork(s, d, u, p, v, r)
    PROVE  Sane(s, d, u, p, v, r)
  <1>1. t # Clear /\ Kept(s, d, t, p, v)
    BY ClearIsSafe, HoldsIt DEF Put, Sane
  <1> QED
    BY <1>1 DEF Sane, Confirmed, Kept

\* lessons_input, extras_input: up to the plan of the handler.
LEMMA TextRead ==
    ASSUME NEW s, NEW d \in Data, NEW t, NEW p, NEW v, NEW r,
           Sane(s, d, t, p, v, r), t # <<>>, Head(t).do = "input"
    PROVE  LET step == Head(t)
               day == d["weekday"]
               made == [kind |-> step.kind, day |-> day, text |-> step.text]
           IN  /\ Sane(s, d, Tail(t), p, v, r)
               /\ CanPreview(day, step.text) =>
                    Sane(s, d, <<Update("raw_text", step.text), Put(Confirming[step.kind]),
                                 [do |-> "send", preview |-> made]>>, p, v, r)
  <1>1. ReadsText(s, t)
    BY Heads, SafeHeads DEF Sane
  <1>2. PICK k \in Kinds, x \in Messages :
          t = <<[do |-> "input", kind |-> k, text |-> x]>>
    BY <1>1 DEF ReadsText
  <1>3. Head(t) = [do |-> "input", kind |-> k, text |-> x] /\ Tail(t) = <<>>
    BY <1>2, One
  <1>4. Sane(s, d, Tail(t), p, v, r)
    BY <1>3, Replanned, SafeLists DEF AtWork
  <1>5. ASSUME CanPreview(d["weekday"], x)
        PROVE  LET made == [kind |-> k, day |-> d["weekday"], text |-> x]
               IN  Sane(s, d, <<Update("raw_text", x), Put(Confirming[k]),
                                [do |-> "send", preview |-> made]>>, p, v, r)
    <2> DEFINE made == [kind |-> k, day |-> d["weekday"], text |-> x]
               steps == <<Update("raw_text", x), Put(Confirming[k]), Sending(made)>>
    <2>1. d["weekday"] \in Days /\ x \in Readable
      BY <1>5 DEF CanPreview, Sane, Fielded
    <2>2. /\ made \in Previews /\ DayKept(d, made)
          /\ made.kind = k /\ made.text = x
      BY <2>1 DEF Previews, DayKept
    <2> HIDE DEF made
    <2>3. KeepsText(s, d, steps)
      BY <1>1, <2>2 DEF ReadsText, KeepsText
    <2>4. Sane(s, d, steps, p, v, r)
      BY <1>3, <2>3, Replanned DEF AtWork
    <2> QED
      BY <2>4 DEF Sending, made
  <1>6. k = Head(t).kind /\ x = Head(t).text
    BY <1>3
  <1> QED
    BY <1>4, <1>5, <1>6, Zenon

\* The preview is sent, or its sending fails: from now on it is the current one.
LEMMA PreviewSent ==
    ASSUME NEW s, NEW d \in Data, NEW t, NEW p, NEW v, NEW r,
           Sane(s, d, t, p, v, r), t # <<>>, Head(t).do = "send"
    PROVE  /\ Head(t).preview \in Previews /\ Tail(t) = <<>>
           /\ Sane(s, d, <<>>, Head(t).preview, FALSE, r)
  <1>1. Sends(s, d, t)
    BY Heads, SafeHeads DEF Sane
  <1>2. PICK n \in Previews : Answers(s, d, n) /\ t = <<Sending(n)>>
    BY <1>1 DEF Sends
  <1>3. Head(t).preview = n /\ Tail(t) = <<>>
    BY <1>2, One DEF Sending
  <1>4. Confirmed(s, d, <<>>, n, FALSE)
    BY <1>2 DEF Confirmed, Kept
  <1> QED
    BY <1>3, <1>4, SafeLists DEF Sane, AtWork

\* lessons_save, extras_save: reading
LEMMA SaveRead ==
    ASSUME NEW s, NEW d \in Data, NEW t, NEW p, NEW v, NEW r,
           Sane(s, d, t, p, v, r), t # <<>>, Head(t).do = "save"
    PROVE  LET day == d["weekday"]
               text == d["raw_text"]
           IN  /\ Sane(s, d, Tail(t), p, v, r)
               /\ day # None /\ text # None =>
                    Sane(s, d, <<[do |-> "write", kind |-> Head(t).kind, day |-> day,
                                  text |-> text]>>, p, v, r)
  <1>1. GoesSaving(d, t, p, v)
    BY Heads, SafeHeads DEF Sane
  <1>2. Head(t) = [do |-> "save", kind |-> p.kind] /\ Tail(t) = <<>>
    BY <1>1, One DEF GoesSaving
  <1>3. Sane(s, d, Tail(t), p, v, r)
    BY <1>2, Replanned, SafeLists DEF AtWork
  <1>4. ASSUME d["weekday"] # None, d["raw_text"] # None
        PROVE  Sane(s, d, <<[do |-> "write", kind |-> p.kind, day |-> d["weekday"],
                             text |-> d["raw_text"]]>>, p, v, r)
    <2>1. Writes(<<[do |-> "write", kind |-> p.kind, day |-> d["weekday"],
                    text |-> d["raw_text"]]>>, p, v)
      BY <1>1, <1>4 DEF GoesSaving, Writes, DayKept, TextKept
    <2> QED
      BY <1>2, <2>1, Replanned DEF AtWork
  <1> QED
    BY <1>2, <1>3, <1>4

\* lessons_save, extras_save: writing, or the service refuses.
LEMMA DayWritten ==
    ASSUME NEW s, NEW d \in Data, NEW t, NEW p, NEW v, NEW r,
           Sane(s, d, t, p, v, r), t # <<>>, Head(t).do = "write"
    PROVE  /\ Head(t).kind \in Kinds /\ Head(t).day \in Days /\ Head(t).text \in Readable
           /\ Sane(s, d, Tail(t), p, v, r)
           /\ Sane(s, d, Clear, p, TRUE, r)
  <1>1. Writes(t, p, v)
    BY SaneWrites
  <1>2. /\ Head(t) = [do |-> "write", kind |-> p.kind, day |-> p.day, text |-> p.text]
        /\ Tail(t) = <<>> /\ p \in Previews
    BY <1>1, One DEF Writes
  <1>3. Sane(s, d, Tail(t), p, v, r)
    BY <1>2, Replanned, SafeLists DEF AtWork
  <1>4. Sane(s, d, Clear, p, TRUE, r)
    <2>1. Kept(s, d, t, p, v)
      BY HoldsIt DEF Sane
    <2> QED
      BY <2>1, ClearIsSafe DEF Sane, AtWork, Confirmed, Kept
  <1>5. Head(t).kind = p.kind /\ Head(t).day = p.day /\ Head(t).text = p.text
    BY <1>2
  <1>6. p.kind \in Kinds /\ p.day \in Days /\ p.text \in Readable
    BY <1>2 DEF Previews
  <1> QED
    BY <1>3, <1>4, <1>5, <1>6

\* edit_choose_day
LEMMA DayListed ==
    ASSUME NEW s, NEW d \in Data, NEW t, NEW p, NEW v, NEW r,
           Sane(s, d, t, p, v, r), t # <<>>, Head(t).do = "list"
    PROVE  LET first == Update("weekday", Head(t).day)
           IN  /\ Sane(s, d, <<first>>, p, v, r)
               /\ Sane(s, d, <<first, Put("edit.choosing_entry")>>, p, v, r)
  <1>1. ListsDay(s, t)
    BY Heads, SafeHeads DEF Sane
  <1>2. PICK x \in Days : t = <<[do |-> "list", day |-> x]>>
    BY <1>1 DEF ListsDay
  <1>3. Head(t) = [do |-> "list", day |-> x]
    BY <1>2, One
  <1>4. Put("edit.choosing_entry") \in Safe
    BY IsSafe, Names, Harmless
  <1>5. ChangesDay(s, <<Update("weekday", x)>>)
    BY <1>1, One, SafeLists DEF ListsDay, ChangesDay, Begins
  <1>6. ChangesDay(s, <<Update("weekday", x), Put("edit.choosing_entry")>>)
    BY <1>1, <1>4, Two, SafeLists DEF ListsDay, ChangesDay, Begins
  <1> QED
    BY <1>3, <1>5, <1>6, Replanned DEF AtWork

\* _show_edit_entries
LEMMA EntriesShown ==
    ASSUME NEW s, NEW d \in Data, NEW t, NEW p, NEW v, NEW r,
           Sane(s, d, t, p, v, r), t # <<>>, Head(t).do \in {"show", "show_day"}
    PROVE  /\ Sane(s, d, <<Put("edit.choosing_day")>>, p, v, r)
           /\ Sane(s, d, <<Put("edit.choosing_entry")>>, p, v, r)
           /\ d["weekday"] # None =>
                Sane(s, d, <<[do |-> "show_day", day |-> d["weekday"]]>>, p, v, r)
  <1>1. Put("edit.choosing_day") \in Safe /\ Put("edit.choosing_entry") \in Safe
    BY IsSafe, Names, Harmless
  <1>2. d["weekday"] # None => [do |-> "show_day", day |-> d["weekday"]] \in Safe
    BY IsSafe, FieldNames DEF Sane, Fielded
  <1>3. AtWork(s, d, <<Put("edit.choosing_day")>>, p, v, r)
    BY <1>1, SafeLists DEF AtWork
  <1>4. AtWork(s, d, <<Put("edit.choosing_entry")>>, p, v, r)
    BY <1>1, SafeLists DEF AtWork
  <1>5. d["weekday"] # None =>
          AtWork(s, d, <<[do |-> "show_day", day |-> d["weekday"]]>>, p, v, r)
    BY <1>2, SafeLists DEF AtWork
  <1>6. Head(t).do \notin {"set_state", "send"}
    OBVIOUS
  <1> QED
    BY <1>3, <1>4, <1>5, <1>6, Replanned

\* edit_receive_label: reading
LEMMA NameRead ==
    ASSUME NEW s, NEW d \in Data, NEW t, NEW p, NEW v, NEW r,
           Sane(s, d, t, p, v, r), t # <<>>, Head(t).do = "label"
    PROVE  LET id == d["entry"]
           IN  /\ Sane(s, d, <<Put("edit.choosing_day")>>, p, v, r)
               /\ id # None =>
                    Sane(s, d, <<[do |-> "rename", id |-> id, text |-> Head(t).text]>> \o Show,
                         p, v, r)
  <1>1. ReadsName(d, t, r)
    BY Heads, SafeHeads DEF Sane
  <1>2. PICK x \in Messages : t = <<[do |-> "label", text |-> x]>>
    BY <1>1 DEF ReadsName
  <1>3. Head(t) = [do |-> "label", text |-> x]
    BY <1>2, One
  <1>4. Put("edit.choosing_day") \in Safe
    BY IsSafe, Names, Harmless
  <1>5. Sane(s, d, <<Put("edit.choosing_day")>>, p, v, r)
    BY <1>3, <1>4, SafeLists, Replanned DEF AtWork
  <1>6. ASSUME d["entry"] # None
        PROVE  Sane(s, d, <<[do |-> "rename", id |-> d["entry"], text |-> x]>> \o Show,
                    p, v, r)
    <2>1. d["entry"] = r /\ r \in Ids
      BY <1>1, <1>6 DEF ReadsName, Named, Sane, Fielded
    <2> DEFINE u == <<[do |-> "rename", id |-> r, text |-> x]>> \o Show
    <2>2. u = <<[do |-> "rename", id |-> r, text |-> x], Step("show")>>
      BY Appended DEF Show
    <2>3. Begins(u, [do |-> "rename", id |-> r, text |-> x]) /\ Tail(u) \in Seq(Safe)
      BY <2>2, Two, ShowIsSafe DEF Begins, Show
    <2>4. Renames(u, r)
      BY <2>1, <2>3 DEF Renames
    <2> QED
      BY <1>3, <2>1, <2>4, Replanned DEF AtWork
  <1> QED
    BY <1>3, <1>5, <1>6

\* update_entry_label, delete_entry: they leave the dialog alone.
LEMMA EntryWritten ==
    ASSUME NEW s, NEW d \in Data, NEW t, NEW p, NEW v, NEW r,
           Sane(s, d, t, p, v, r), t # <<>>, Head(t).do \in {"rename", "delete"}
    PROVE  /\ Sane(s, d, Tail(t), p, v, r)
           /\ Head(t).do = "rename" => Head(t).id \in Ids /\ Head(t).text \in Messages
  <1>1. CASE Head(t).do = "rename"
    <2>1. Renames(t, r)
      BY <1>1, SaneRenames
    <2>2. Tail(t) \in Seq(Safe) /\ Head(t).id \in Ids /\ Head(t).text \in Messages
      BY <2>1 DEF Renames, Begins
    <2> QED
      BY <1>1, <2>2, Replanned DEF AtWork
  <1>2. CASE Head(t).do = "delete"
    <2>1. t \in Seq(Safe)
      BY <1>2, Heads DEF Sane
    <2>2. Tail(t) \in Seq(Safe)
      BY <2>1, SafeSteps
    <2> QED
      BY <1>2, <2>2, Replanned DEF AtWork
  <1> QED
    BY <1>1, <1>2

\* A handler is cut short before it has a preview to send.
LEMMA Stopped ==
    ASSUME NEW s, NEW d \in Data, NEW t, NEW p, NEW v, NEW r, Sane(s, d, t, p, v, r),
           t # <<>>, Head(t).do # "send"
    PROVE  Sane(s, d, <<>>, p, FALSE, r)
  <1>1. Kept(s, d, t, p, v)
    BY HoldsIt DEF Sane
  <1> QED
    BY <1>1, SafeLists DEF Sane, AtWork, Confirmed, Kept

\* A dialog is forgotten.
LEMMA Forgotten ==
    ASSUME NEW s, NEW d \in Data, NEW t, NEW p, NEW v, NEW r, Sane(s, d, t, p, v, r)
    PROVE  Sane(None, Empty, t, p, v, r)
  <1>1. ~Confirms(None) /\ None # Naming
    BY Harmless
  <1>2. Confirmed(None, Empty, t, p, v) /\ \A n : Answers(None, Empty, n)
    BY <1>1, ConfirmsNothing
  <1>3. AtWork(None, Empty, t, p, v, r)
    BY <1>1, <1>2, EmptyHolds DEF Sane, AtWork, ChangesDay, ChangesEntry, ListsDay, ReadsText,
       KeepsText, GoesConfirming, Sends, GoesSaving, ChoosesEntry, GoesNaming, ReadsName
  <1> QED
    BY <1>1, <1>2, <1>3, EmptyHolds DEF Sane

-----------------------------------------------------------------------------
(* Messages and buttons. *)

\* The first of the handlers that accept a message is one of them.
LEMMA First ==
    ASSUME NEW T \in SUBSET (1..9), T # {}
    PROVE  \E i \in T : \A j \in T : i <= j
  <1> SUFFICES ASSUME \A i \in T : \E j \in T : j < i
               PROVE  FALSE
    OBVIOUS
  <1>1. 1 \notin T /\ 2 \notin T /\ 3 \notin T /\ 4 \notin T
    OBVIOUS
  <1>2. 5 \notin T /\ 6 \notin T /\ 7 \notin T /\ 8 \notin T
    BY <1>1
  <1>3. 9 \notin T
    BY <1>1, <1>2
  <1>4. PICK i \in T : i \in 1..9
    OBVIOUS
  <1>5. i = 1 \/ i = 2 \/ i = 3 \/ i = 4 \/ i = 5 \/ i = 6 \/ i = 7 \/ i = 8 \/ i = 9
    BY <1>4
  <1> QED
    BY <1>1, <1>2, <1>3, <1>5

LEMMA Routed ==
    ASSUME NEW s, NEW msg
    PROVE  LET h == Taken(s, msg)
           IN  \/ h = "none"
               \/ \E i \in 1..9 : h = Router[i] /\ Accepts(h, s, msg)
  <1> DEFINE accepting == {i \in DOMAIN Router : Accepts(Router[i], s, msg)}
  <1>1. DOMAIN Router = 1..9
    BY DEF Router
  <1>2. CASE accepting = {}
    BY <1>2 DEF Taken
  <1>3. CASE accepting # {}
    <2> DEFINE first == CHOOSE i \in accepting : \A j \in accepting : i <= j
    <2>1. accepting \in SUBSET (1..9)
      BY <1>1
    <2>2. \E i \in accepting : \A j \in accepting : i <= j
      <3> HIDE DEF accepting
      <3> QED
        BY <1>3, <2>1, First
    <2>3. first \in accepting
      <3> HIDE DEF accepting
      <3> QED
        BY <2>2
    <2>4. Taken(s, msg) = Router[first]
      BY <1>3 DEF Taken
    <2>5. first \in 1..9 /\ Accepts(Router[first], s, msg)
      BY <1>1, <2>3
    <2> QED
      BY <2>4, <2>5
  <1> QED
    BY <1>2, <1>3

\* A chat with nothing to do takes up a message.
LEMMA Answered ==
    ASSUME NEW s, NEW d \in Data, NEW p, NEW v, NEW r, NEW msg \in Messages,
           Sane(s, d, <<>>, p, v, r)
    PROVE  Sane(s, d, OnMessage(Taken(s, msg), msg), p, v, r)
  <1> DEFINE h == Taken(s, msg)
  <1>1. /\ h = "none" \/ (h \in {Router[i] : i \in 1..9} /\ Accepts(h, s, msg))
    BY Routed
  <1>2. ASSUME NEW k \in Kinds \cup {"edit"}
        PROVE  Begun(k) \in Seq(Safe)
    <2>1. Choosing[k] \in States /\ ~Confirms(Choosing[k]) /\ Choosing[k] # Naming
      BY Names, Harmless
    <2>2. Begun(k) = <<Put(None), Step("empty"), Put(Choosing[k])>>
      BY Appended DEF Begun, Clear
    <2> QED
      BY <2>1, <2>2, IsSafe, Harmless, SafeLists
  <1>3. CASE h = "cmd_edit" \/ h = "cmd_set_lessons" \/ h = "cmd_set_extras"
    <2>1. OnMessage(h, msg) \in Seq(Safe)
      BY <1>2, <1>3 DEF OnMessage, Kinds
    <2> QED
      BY <2>1, Replanned DEF AtWork
  <1>4. ASSUME NEW k \in Kinds, OnMessage(h, msg) = Reading(k, msg), s = Waiting[k]
        PROVE  Sane(s, d, OnMessage(h, msg), p, v, r)
    <2>1. ReadsText(s, OnMessage(h, msg))
      BY <1>4, Harmless DEF ReadsText, Reading
    <2> QED
      BY <2>1, Replanned DEF AtWork
  <1>5. CASE h = "lessons_input"
    <2>1. OnMessage(h, msg) = Reading("lessons", msg) /\ s = Waiting["lessons"]
      BY <1>1, <1>5 DEF OnMessage, Accepts
    <2> QED
      BY <1>4, <2>1 DEF Kinds
  <1>6. CASE h = "extras_input"
    <2>1. OnMessage(h, msg) = Reading("extras", msg) /\ s = Waiting["extras"]
      BY <1>1, <1>6 DEF OnMessage, Accepts
    <2> QED
      BY <1>4, <2>1 DEF Kinds
  <1>7. CASE h = "edit_receive_label"
    <2>1. OnMessage(h, msg) = ReceiveLabel(msg) /\ s = Naming
      BY <1>1, <1>7 DEF OnMessage, Accepts, Naming
    <2>2. CASE msg = "blank"
      BY <2>1, <2>2, SafeLists, Replanned DEF ReceiveLabel, AtWork
    <2>3. CASE msg = "cancel"
      <3>1. OnMessage(h, msg) = <<Put("edit.choosing_entry"), Step("show")>>
        BY <2>1, <2>3, Appended DEF ReceiveLabel, Show
      <3>2. OnMessage(h, msg) \in Seq(Safe)
        BY <3>1, IsSafe, Names, Harmless, SafeLists
      <3> QED
        BY <3>2, Replanned DEF AtWork
    <2>4. CASE msg # "blank" /\ msg # "cancel"
      <3>1. OnMessage(h, msg) = <<[do |-> "label", text |-> msg]>>
        BY <2>1, <2>4 DEF ReceiveLabel
      <3>2. ReadsName(d, OnMessage(h, msg), r)
        BY <2>1, <3>1 DEF ReadsName, Sane
      <3> QED
        BY <3>2, Replanned DEF AtWork
    <2> QED
      BY <2>2, <2>3, <2>4
  <1>8. CASE h \in {"none", "cmd_start", "cmd_today", "cmd_web"}
    <2>1. OnMessage(h, msg) = <<>>
      BY <1>8 DEF OnMessage
    <2> QED
      BY <2>1
  <1>9. h \in {"none", "cmd_start", "cmd_edit", "edit_receive_label", "cmd_today",
               "cmd_set_lessons", "lessons_input", "cmd_set_extras", "extras_input", "cmd_web"}
    BY <1>1 DEF Router
  <1> QED
    BY <1>3, <1>5, <1>6, <1>7, <1>8, <1>9

\* A chat with nothing to do takes up a button that its state lets through.
LEMMA Pressed ==
    ASSUME NEW s, NEW d \in Data, NEW p, NEW v, NEW r, NEW b \in Buttons,
           Sane(s, d, <<>>, p, v, r), Filter(b) \in {s, None}
    PROVE  Sane(s, d, OnButton(b), p, v, IF b.on = "rename" THEN b.id ELSE r)
  <1>1. ASSUME NEW x \in States, Filter(b) = x
        PROVE  s = x
    BY <1>1, Names
  <1>2. CASE b \in [on : {"day"}, kind : Kinds \cup {"edit"}, day : Days]
    <2>1. Choosing[b.kind] \in States /\ ~Confirms(Choosing[b.kind])
      BY <1>2, Names, Harmless
    <2>2. s = Choosing[b.kind]
      BY <1>1, <1>2, <2>1 DEF Filter, DayFilter
    <2>3. CASE b.kind \in Kinds
      <3>1. OnButton(b) = <<Update("weekday", b.day), Put(Waiting[b.kind])>>
        BY <1>2, <2>3 DEF OnButton, Kinds
      <3>2. Put(Waiting[b.kind]) \in Safe
        BY <2>3, IsSafe, Names, Harmless
      <3>3. ChangesDay(s, OnButton(b))
        BY <1>2, <2>1, <2>2, <3>1, <3>2, Two, SafeLists DEF ChangesDay, Begins
      <3> QED
        BY <1>2, <3>3, Replanned DEF AtWork
    <2>4. CASE b.kind = "edit"
      <3>1. OnButton(b) = <<[do |-> "list", day |-> b.day]>>
        BY <1>2, <2>4 DEF OnButton, Kinds
      <3>2. ListsDay(s, OnButton(b))
        BY <1>2, <2>1, <2>2, <3>1 DEF ListsDay
      <3> QED
        BY <1>2, <3>2, Replanned DEF AtWork
    <2> QED
      BY <1>2, <2>3, <2>4
  <1>3. CASE b \in [on : {"save"}, kind : Kinds]
    <2>1. s = Confirming[b.kind]
      BY <1>1, <1>3, Names DEF Filter
    <2>2. OnButton(b) = <<[do |-> "save", kind |-> b.kind]>>
      BY <1>3 DEF OnButton
    <2>3. <<>> # Clear /\ Kept(s, d, <<>>, p, v) /\ Confirms(s)
      BY <1>3, <2>1, ClearIsSafe, HoldsIt DEF Sane, Confirms
    <2>4. GoesSaving(d, OnButton(b), p, v)
      BY <1>3, <2>1, <2>2, <2>3 DEF GoesSaving, Kept, Answers
    <2> QED
      BY <1>3, <2>4, Replanned DEF AtWork
  <1>4. CASE b \in [on : {"cancel", "back", "entries"}]
    <2>1. Put("edit.choosing_day") \in Safe
      BY IsSafe, Names, Harmless
    <2>2. OnButton(b) \in {Clear, <<Put("edit.choosing_day")>>, Show}
      BY <1>4 DEF OnButton
    <2>3. OnButton(b) \in Seq(Safe)
      BY <2>1, <2>2, ClearIsSafe, ShowIsSafe, SafeLists
    <2> QED
      BY <1>4, <2>3, Replanned DEF AtWork
  <1>5. CASE b \in [on : {"item"}, id : Ids]
    <2>1. s = "edit.choosing_entry"
      BY <1>1, <1>5, Names DEF Filter
    <2>2. OnButton(b) = <<Update("entry", b.id), Put("edit.choosing_action")>>
      BY <1>5 DEF OnButton
    <2>3. Put("edit.choosing_action") \in Safe /\ s # Naming
      BY <2>1, IsSafe, Names, Harmless
    <2>4. ChangesEntry(s, OnButton(b))
      BY <1>5, <2>2, <2>3, Two, SafeLists DEF ChangesEntry, Begins
    <2> QED
      BY <1>5, <2>4, Replanned DEF AtWork
  <1>6. CASE b \in [on : {"rename"}, id : Ids]
    <2>1. s = "edit.choosing_action"
      BY <1>1, <1>6, Names DEF Filter
    <2>2. s # Naming /\ ~Confirms(s)
      BY <2>1, Harmless
    <2>3. OnButton(b) = <<Update("entry", b.id), Put(Naming)>>
      BY <1>6 DEF OnButton, RenameSteps, Naming
    <2>4. ChoosesEntry(s, OnButton(b), b.id)
      BY <1>6, <2>2, <2>3 DEF ChoosesEntry
    <2>5. Confirmed(s, d, OnButton(b), p, v)
      BY <2>2, ConfirmsNothing
    <2> QED
      BY <1>6, <2>2, <2>4, <2>5 DEF Sane, AtWork
  <1>7. CASE b \in [on : {"delete"}, id : Ids]
    <2>1. s = "edit.choosing_action"
      BY <1>1, <1>7, Names DEF Filter
    <2> DEFINE first == Update("entry", b.id)
               second == [do |-> "delete", id |-> b.id]
    <2>2. OnButton(b) = <<first, second, Step("show")>>
      BY <1>7, Appended DEF OnButton, Show
    <2>3. second \in Safe /\ Step("show") \in Safe
      BY <1>7, IsSafe
    <2>4. Head(OnButton(b)) = first /\ OnButton(b) # <<>>
          /\ Tail(OnButton(b)) = <<second, Step("show")>>
      BY <2>2, Three
    <2>5. Tail(OnButton(b)) \in Seq(Safe)
      BY <2>3, <2>4, SafeLists
    <2>6. ChangesEntry(s, OnButton(b))
      BY <1>7, <2>1, <2>4, <2>5, Harmless DEF ChangesEntry, Begins
    <2> QED
      BY <1>7, <2>6, Replanned DEF AtWork
  <1>8. \/ b \in [on : {"item"}, id : Ids] \/ b \in [on : {"rename"}, id : Ids]
        \/ b \in [on : {"delete"}, id : Ids]
        \/ b \notin [on : {"item", "rename", "delete"}, id : Ids]
    OBVIOUS
  <1> QED
    BY <1>2, <1>3, <1>4, <1>5, <1>6, <1>7, <1>8 DEF Buttons

-----------------------------------------------------------------------------
(* The actions. *)

Same(k) ==
    UNCHANGED <<state[k], data[k], todo[k], preview[k], unsent[k], saved[k], renaming[k]>>

Listed == todo = [c \in Keys |-> todo[c]]

\* A step works on one chat.
LEMMA Elsewhere ==
    ASSUME IInv, TypeOK', Listed', NEW c \in Keys, Chat(c)',
           \A k \in Keys \ {c} : Same(k)
    PROVE  IInv'
  <1>1. ASSUME NEW k \in Keys \ {c}
        PROVE  Chat(k)'
    <2>1. Chat(k)
      BY DEF IInv
    <2>2. Same(k)
      OBVIOUS
    <2> QED
      BY <2>1, <2>2 DEF Chat, Same, Current
  <1> QED
    BY <1>1 DEF IInv, Listed

LEMMA Planned ==
    ASSUME Listed, NEW c \in Keys, NEW steps, Plan(c, steps)
    PROVE  Listed' /\ todo'[c] = steps /\ \A k \in Keys \ {c} : todo'[k] = todo[k]
  BY DEF Plan, Listed

LEMMA Written ==
    ASSUME TypeOK, NEW c \in Keys, NEW s \in States \cup {None}, NEW d \in Data, Write(c, s, d)
    PROVE  /\ state' \in [Keys -> States \cup {None}]
           /\ data' \in [Keys -> Data]
           /\ left' \in [Keys -> 0..TTL]
           /\ state'[c] = s /\ data'[c] = d
           /\ \A k \in Keys \ {c} : state'[k] = state[k] /\ data'[k] = data[k]
  <1>1. Lasts(s, d) \in 0..TTL
    BY MemoryAssumption DEF Lasts
  <1> QED
    BY <1>1 DEF Write, TypeOK

LEMMA Typed ==
    ASSUME IInv, NEW c \in Keys
    PROVE  /\ TypeOK /\ Listed /\ data[c] \in Data
           /\ Sane(state[c], data[c], todo[c], Current(c), saved[c], renaming[c])
  BY DEF IInv, TypeOK, Listed, Chat

LEMMA StoreKeeps ==
    ASSUME IInv, NEW c \in Keys, Store(c)
    PROVE  IInv'
  <1>1. /\ TypeOK /\ Listed /\ data[c] \in Data
        /\ Sane(state[c], data[c], todo[c], Current(c), saved[c], renaming[c])
    BY Typed
  <1> DEFINE step == Head(todo[c])
  <1>2. todo[c] # <<>> /\ Done(c) /\ UNCHANGED <<schedule, offered, history>>
    BY DEF Store, Doing
  <1>3. /\ Listed' /\ todo'[c] = Tail(todo[c])
        /\ \A k \in Keys \ {c} : todo'[k] = todo[k]
    BY <1>1, <1>2, Planned DEF Done
  <1>4. ASSUME NEW s \in States \cup {None}, NEW d \in Data, Write(c, s, d),
               Sane(s, d, Tail(todo[c]), Current(c), saved[c], renaming[c])
        PROVE  IInv'
    <2>1. /\ state' \in [Keys -> States \cup {None}]
          /\ data' \in [Keys -> Data]
          /\ left' \in [Keys -> 0..TTL]
          /\ state'[c] = s /\ data'[c] = d
          /\ \A k \in Keys \ {c} : state'[k] = state[k] /\ data'[k] = data[k]
      BY <1>1, <1>4, Written
    <2>2. TypeOK'
      BY <1>1, <1>2, <2>1 DEF TypeOK, schedule, history
    <2>3. Chat(c)'
      BY <1>2, <1>3, <1>4, <2>1 DEF Chat, Current, history
    <2>4. \A k \in Keys \ {c} : Same(k)
      BY <1>2, <1>3, <2>1 DEF Same, history
    <2> QED
      BY <1>3, <2>2, <2>3, <2>4, Elsewhere
  <1>5. CASE Doing(c, "set_state") /\ SetState(c, step.state)
    <2>1. step.do = "set_state"
      BY <1>5 DEF Doing
    <2>2. /\ step.state \in States \cup {None}
          /\ Sane(step.state, data[c], Tail(todo[c]), Current(c), saved[c], renaming[c])
      BY <1>1, <1>2, <2>1, StateSet
    <2> QED
      BY <1>1, <1>4, <1>5, <2>2 DEF SetState
  <1>6. CASE Doing(c, "empty") /\ SetData(c, Empty)
    <2>1. Sane(state[c], Empty, Tail(todo[c]), Current(c), saved[c], renaming[c])
      BY <1>1, <1>2, <1>6, DataEmptied DEF Doing
    <2>2. state[c] \in States \cup {None}
      BY <1>1 DEF TypeOK
    <2> QED
      BY <1>4, <1>6, <2>1, <2>2, EmptyHolds DEF SetData
  <1>7. CASE Doing(c, "update_data") /\ SetData(c, Merge(data[c], step.fields))
    <2>1. /\ Merge(data[c], step.fields) \in Data
          /\ Sane(state[c], Merge(data[c], step.fields), Tail(todo[c]), Current(c),
                  saved[c], renaming[c])
      BY <1>1, <1>2, <1>7, DataUpdated DEF Doing
    <2>2. state[c] \in States \cup {None}
      BY <1>1 DEF TypeOK
    <2> QED
      BY <1>4, <1>7, <2>1, <2>2 DEF SetData
  <1> QED
    BY <1>5, <1>6, <1>7 DEF Store

\* A step that writes neither the dialog nor the history of its chat.
LEMMA PlanKeeps ==
    ASSUME IInv, NEW c \in Keys, NEW steps, Plan(c, steps),
           UNCHANGED <<state, data, left, offered, history>>,
           entries' \subseteq Entry, unused' \subseteq Ids,
           Sane(state[c], data[c], steps, Current(c), saved[c], renaming[c])
    PROVE  IInv'
  <1>1. TypeOK /\ Listed
    BY Typed
  <1>2. /\ Listed' /\ todo'[c] = steps
        /\ \A k \in Keys \ {c} : todo'[k] = todo[k]
    BY <1>1, Planned
  <1>3. TypeOK'
    BY <1>1 DEF TypeOK, history
  <1>4. Chat(c)'
    BY <1>2 DEF Chat, Current, history
  <1>5. \A k \in Keys \ {c} : Same(k)
    BY <1>2 DEF Same, history
  <1> QED
    BY <1>2, <1>3, <1>4, <1>5, Elsewhere

LEMMA InputKeeps ==
    ASSUME IInv, NEW c \in Keys, Input(c)
    PROVE  IInv'
  <1>1. /\ TypeOK /\ data[c] \in Data
        /\ Sane(state[c], data[c], todo[c], Current(c), saved[c], renaming[c])
    BY Typed
  <1> DEFINE step == Head(todo[c])
             day == data[c]["weekday"]
             made == [kind |-> step.kind, day |-> day, text |-> step.text]
             steps == <<Update("raw_text", step.text), Put(Confirming[step.kind]),
                        [do |-> "send", preview |-> made]>>
  <1>2. todo[c] # <<>> /\ step.do = "input" /\ UNCHANGED memoryVars
        /\ UNCHANGED <<schedule, offered, history>>
    BY DEF Input, Doing, Reads
  <1>3. /\ Sane(state[c], data[c], Tail(todo[c]), Current(c), saved[c], renaming[c])
        /\ CanPreview(day, step.text) =>
             Sane(state[c], data[c], steps, Current(c), saved[c], renaming[c])
    BY <1>1, <1>2, TextRead
  <1>4. \E u \in {Tail(todo[c]), steps} :
          Plan(c, u) /\ (u = Tail(todo[c]) \/ CanPreview(day, step.text))
    BY DEF Input, Done
  <1> HIDE DEF steps, day, step
  <1> QED
    BY <1>1, <1>2, <1>3, <1>4, PlanKeeps DEF memoryVars, schedule, TypeOK

\* A step after which another preview is the current one of its chat.
LEMMA CurrentKeeps ==
    ASSUME IInv, NEW c \in Keys, NEW n \in Previews, Plan(c, <<>>),
           UNCHANGED <<memoryVars, schedule, renaming>>,
           offered' \in [Keys -> SUBSET Kinds],
           saved' = [saved EXCEPT ![c] = FALSE],
           preview' \in [Keys -> Previews \cup {None}],
           unsent' \in [Keys -> Previews \cup {None}],
           Current(c)' = n,
           \A k \in Keys \ {c} : preview'[k] = preview[k] /\ unsent'[k] = unsent[k],
           Sane(state[c], data[c], <<>>, n, FALSE, renaming[c])
    PROVE  IInv'
  <1>1. TypeOK /\ Listed
    BY Typed
  <1>2. /\ Listed' /\ todo'[c] = <<>>
        /\ \A k \in Keys \ {c} : todo'[k] = todo[k]
    BY <1>1, Planned
  <1>3. TypeOK'
    BY <1>1 DEF TypeOK, memoryVars, schedule
  <1>4. saved'[c] = FALSE /\ \A k \in Keys \ {c} : saved'[k] = saved[k]
    BY <1>1 DEF TypeOK
  <1>5. Chat(c)'
    BY <1>2, <1>4 DEF Chat, memoryVars
  <1>6. \A k \in Keys \ {c} : Same(k)
    BY <1>2, <1>4 DEF Same, memoryVars
  <1> QED
    BY <1>2, <1>3, <1>5, <1>6, Elsewhere

LEMMA SendPreviewKeeps ==
    ASSUME IInv, NEW c \in Keys, SendPreview(c)
    PROVE  IInv'
  <1>1. /\ TypeOK /\ data[c] \in Data
        /\ Sane(state[c], data[c], todo[c], Current(c), saved[c], renaming[c])
    BY Typed
  <1> DEFINE n == Head(todo[c]).preview
  <1>2. /\ todo[c] # <<>> /\ Head(todo[c]).do = "send" /\ Plan(c, Tail(todo[c]))
        /\ offered' = [offered EXCEPT ![c] = @ \cup {n.kind}]
        /\ preview' = [preview EXCEPT ![c] = n]
        /\ unsent' = [unsent EXCEPT ![c] = None]
        /\ saved' = [saved EXCEPT ![c] = FALSE]
        /\ UNCHANGED <<memoryVars, schedule, renaming>>
    BY DEF SendPreview, Doing, Done
  <1>3. /\ n \in Previews /\ Tail(todo[c]) = <<>>
        /\ Sane(state[c], data[c], <<>>, n, FALSE, renaming[c])
    BY <1>1, <1>2, PreviewSent
  <1> HIDE DEF n
  <1>4. n.kind \in Kinds
    BY <1>3 DEF Previews
  <1>5. /\ offered' \in [Keys -> SUBSET Kinds]
        /\ preview' \in [Keys -> Previews \cup {None}]
        /\ unsent' \in [Keys -> Previews \cup {None}]
        /\ preview'[c] = n /\ unsent'[c] = None
        /\ \A k \in Keys \ {c} : preview'[k] = preview[k] /\ unsent'[k] = unsent[k]
    BY <1>1, <1>2, <1>3, <1>4 DEF TypeOK
  <1>6. Current(c)' = n
    BY <1>5 DEF Current
  <1> QED
    BY <1>2, <1>3, <1>5, <1>6, CurrentKeeps

LEMMA SaveKeeps ==
    ASSUME IInv, NEW c \in Keys, Save(c)
    PROVE  IInv'
  <1>1. /\ TypeOK /\ data[c] \in Data
        /\ Sane(state[c], data[c], todo[c], Current(c), saved[c], renaming[c])
    BY Typed
  <1> DEFINE day == data[c]["weekday"]
             text == data[c]["raw_text"]
             steps == <<[do |-> "write", kind |-> Head(todo[c]).kind, day |-> day,
                         text |-> text]>>
  <1>2. todo[c] # <<>> /\ Head(todo[c]).do = "save" /\ UNCHANGED memoryVars
        /\ UNCHANGED <<schedule, offered, history>>
    BY DEF Save, Doing, Reads
  <1>3. /\ Sane(state[c], data[c], Tail(todo[c]), Current(c), saved[c], renaming[c])
        /\ day # None /\ text # None =>
             Sane(state[c], data[c], steps, Current(c), saved[c], renaming[c])
    BY <1>1, <1>2, SaveRead
  <1>4. \E u \in {Tail(todo[c]), steps} :
          Plan(c, u) /\ (u = Tail(todo[c]) \/ (day # None /\ text # None))
    BY DEF Save, Done
  <1> HIDE DEF steps, day, text
  <1> QED
    BY <1>1, <1>2, <1>3, <1>4, PlanKeeps DEF memoryVars, schedule, TypeOK

LEMMA WriteDayKeeps ==
    ASSUME IInv, NEW c \in Keys, WriteDay(c)
    PROVE  IInv'
  <1>1. /\ TypeOK /\ Listed /\ data[c] \in Data
        /\ Sane(state[c], data[c], todo[c], Current(c), saved[c], renaming[c])
    BY Typed
  <1> DEFINE step == Head(todo[c])
  <1>2. /\ todo[c] # <<>> /\ step.do = "write"
        /\ UNCHANGED <<memoryVars, offered, preview, unsent, renaming>>
    BY DEF WriteDay, Doing
  <1>3. /\ step.kind \in Kinds /\ step.day \in Days /\ step.text \in Readable
        /\ Sane(state[c], data[c], Tail(todo[c]), Current(c), saved[c], renaming[c])
        /\ Sane(state[c], data[c], Clear, Current(c), TRUE, renaming[c])
    BY <1>1, <1>2, DayWritten
  <1>4. CASE step.text \in Rejected
    <2>1. Plan(c, Tail(todo[c])) /\ UNCHANGED <<schedule, saved>>
      BY <1>4 DEF WriteDay, Done
    <2> QED
      BY <1>1, <1>2, <1>3, <2>1, PlanKeeps DEF memoryVars, schedule, history, TypeOK
  <1>5. CASE step.text \notin Rejected
    <2>1. Plan(c, Clear) /\ saved' = [saved EXCEPT ![c] = TRUE]
      BY <1>5 DEF WriteDay, AfterSaving
    <2>2. PICK id \in unused :
            /\ entries' = {e \in entries : e.kind # step.kind \/ e.day # step.day}
                            \cup {[id |-> id, kind |-> step.kind, day |-> step.day,
                                   label |-> step.text]}
            /\ unused' = unused \ {id}
      BY <1>5 DEF WriteDay
    <2>3. [id |-> id, kind |-> step.kind, day |-> step.day, label |-> step.text] \in Entry
      BY <1>1, <1>3 DEF Entry, Messages, TypeOK
    <2>4. entries' \subseteq Entry /\ unused' \subseteq Ids
      BY <1>1, <2>2, <2>3 DEF TypeOK
    <2>5. /\ Listed' /\ todo'[c] = Clear
          /\ \A k \in Keys \ {c} : todo'[k] = todo[k]
      BY <1>1, <2>1, Planned
    <2>6. TypeOK'
      BY <1>1, <1>2, <2>1, <2>4 DEF TypeOK, memoryVars
    <2>7. Chat(c)'
      BY <1>1, <1>2, <1>3, <2>1, <2>5 DEF Chat, Current, memoryVars, TypeOK
    <2>8. \A k \in Keys \ {c} : Same(k)
      BY <1>1, <1>2, <2>1, <2>5 DEF Same, TypeOK, memoryVars
    <2> QED
      BY <2>5, <2>6, <2>7, <2>8, Elsewhere
  <1> QED
    BY <1>4, <1>5

LEMMA ListDayKeeps ==
    ASSUME IInv, NEW c \in Keys, ListDay(c)
    PROVE  IInv'
  <1>1. /\ TypeOK /\ data[c] \in Data
        /\ Sane(state[c], data[c], todo[c], Current(c), saved[c], renaming[c])
    BY Typed
  <1> DEFINE first == Update("weekday", Head(todo[c]).day)
             second == Put("edit.choosing_entry")
  <1>2. todo[c] # <<>> /\ Head(todo[c]).do = "list"
        /\ UNCHANGED <<memoryVars, schedule, offered, history>>
    BY DEF ListDay, Doing
  <1>3. /\ Sane(state[c], data[c], <<first>>, Current(c), saved[c], renaming[c])
        /\ Sane(state[c], data[c], <<first, second>>, Current(c), saved[c], renaming[c])
    BY <1>1, <1>2, DayListed
  <1>4. <<first>> \o <<>> = <<first>> /\ <<first>> \o <<second>> = <<first, second>>
    BY Appended
  <1>5. Plan(c, <<first>>) \/ Plan(c, <<first, second>>)
    BY <1>4 DEF ListDay
  <1> HIDE DEF first, second
  <1> QED
    BY <1>1, <1>2, <1>3, <1>5, PlanKeeps DEF memoryVars, schedule, TypeOK

LEMMA ShowKeeps ==
    ASSUME IInv, NEW c \in Keys, ShowEntries(c) \/ ShowDay(c)
    PROVE  IInv'
  <1>1. /\ TypeOK /\ data[c] \in Data
        /\ Sane(state[c], data[c], todo[c], Current(c), saved[c], renaming[c])
    BY Typed
  <1> DEFINE day == data[c]["weekday"]
             days == <<Put("edit.choosing_day")>>
             list == <<Put("edit.choosing_entry")>>
             more == <<[do |-> "show_day", day |-> day]>>
  <1>2. todo[c] # <<>> /\ Head(todo[c]).do \in {"show", "show_day"}
        /\ UNCHANGED <<memoryVars, schedule, offered, history>>
    BY DEF ShowEntries, ShowDay, Doing, Reads
  <1>3. /\ Sane(state[c], data[c], days, Current(c), saved[c], renaming[c])
        /\ Sane(state[c], data[c], list, Current(c), saved[c], renaming[c])
        /\ day # None => Sane(state[c], data[c], more, Current(c), saved[c], renaming[c])
    BY <1>1, <1>2, EntriesShown
  <1>4. Plan(c, days) \/ Plan(c, list) \/ (day # None /\ Plan(c, more))
    BY DEF ShowEntries, ShowDay
  <1> HIDE DEF day, days, list, more
  <1> QED
    BY <1>1, <1>2, <1>3, <1>4, PlanKeeps DEF memoryVars, schedule, TypeOK

LEMMA LabelKeeps ==
    ASSUME IInv, NEW c \in Keys, Label(c)
    PROVE  IInv'
  <1>1. /\ TypeOK /\ data[c] \in Data
        /\ Sane(state[c], data[c], todo[c], Current(c), saved[c], renaming[c])
    BY Typed
  <1> DEFINE id == data[c]["entry"]
             days == <<Put("edit.choosing_day")>>
             steps == <<[do |-> "rename", id |-> id, text |-> Head(todo[c]).text]>> \o Show
  <1>2. todo[c] # <<>> /\ Head(todo[c]).do = "label"
        /\ UNCHANGED <<memoryVars, schedule, offered, history>>
    BY DEF Label, Doing, Reads
  <1>3. /\ Sane(state[c], data[c], days, Current(c), saved[c], renaming[c])
        /\ id # None => Sane(state[c], data[c], steps, Current(c), saved[c], renaming[c])
    BY <1>1, <1>2, NameRead
  <1>4. Plan(c, days) \/ (id # None /\ Plan(c, steps))
    BY DEF Label
  <1> HIDE DEF id, days, steps
  <1> QED
    BY <1>1, <1>2, <1>3, <1>4, PlanKeeps DEF memoryVars, schedule, TypeOK

LEMMA EntryKeeps ==
    ASSUME IInv, NEW c \in Keys, RenameEntry(c) \/ DeleteEntry(c)
    PROVE  IInv'
  <1>1. /\ TypeOK /\ data[c] \in Data
        /\ Sane(state[c], data[c], todo[c], Current(c), saved[c], renaming[c])
    BY Typed
  <1> DEFINE step == Head(todo[c])
  <1>2. todo[c] # <<>> /\ step.do \in {"rename", "delete"} /\ Plan(c, Tail(todo[c]))
        /\ UNCHANGED <<memoryVars, unused, offered, history>>
    BY DEF RenameEntry, DeleteEntry, Doing, Done
  <1>3. /\ Sane(state[c], data[c], Tail(todo[c]), Current(c), saved[c], renaming[c])
        /\ step.do = "rename" => step.id \in Ids /\ step.text \in Messages
    BY <1>1, <1>2, EntryWritten
  <1>4. CASE RenameEntry(c)
    <2>1. step.text \in Messages
      BY <1>3, <1>4 DEF RenameEntry, Doing
    <2>2. \A e \in entries : e \in Entry /\ [e EXCEPT !.label = step.text] \in Entry
      BY <1>1, <2>1 DEF Entry, TypeOK
    <2>3. entries' = {IF e.id = step.id THEN [e EXCEPT !.label = step.text] ELSE e :
                        e \in entries}
      BY <1>4 DEF RenameEntry
    <2>4. entries' \subseteq Entry
      BY <2>2, <2>3
    <2> QED
      BY <1>1, <1>2, <1>3, <2>4, PlanKeeps DEF memoryVars, TypeOK
  <1>5. CASE DeleteEntry(c)
    <2>1. entries' \subseteq Entry
      BY <1>1, <1>5 DEF DeleteEntry, TypeOK
    <2> QED
      BY <1>1, <1>2, <1>3, <2>1, PlanKeeps DEF memoryVars, TypeOK
  <1> QED
    BY <1>4, <1>5

LEMMA ReceiveKeeps ==
    ASSUME IInv, NEW c \in Keys, NEW msg \in Messages, Receive(c, msg)
    PROVE  IInv'
  <1>1. /\ TypeOK /\ data[c] \in Data
        /\ Sane(state[c], data[c], todo[c], Current(c), saved[c], renaming[c])
    BY Typed
  <1> DEFINE steps == OnMessage(Taken(state[c], msg), msg)
  <1>2. todo[c] = <<>> /\ Plan(c, steps) /\ UNCHANGED <<memoryVars, schedule, offered, history>>
    BY DEF Receive, Idle, Reads
  <1>3. Sane(state[c], data[c], steps, Current(c), saved[c], renaming[c])
    BY <1>1, <1>2, Answered
  <1> HIDE DEF steps
  <1> QED
    BY <1>1, <1>2, <1>3, PlanKeeps DEF memoryVars, schedule, TypeOK

LEMMA PressKeeps ==
    ASSUME IInv, NEW c \in Keys, NEW b \in Buttons, PressButton(c, b)
    PROVE  IInv'
  <1>1. /\ TypeOK /\ Listed /\ data[c] \in Data
        /\ Sane(state[c], data[c], todo[c], Current(c), saved[c], renaming[c])
    BY Typed
  <1> DEFINE steps == OnButton(b)
             chosen == IF b.on = "rename" THEN b.id ELSE renaming[c]
  <1>2. /\ todo[c] = <<>> /\ Plan(c, steps) /\ Filter(b) \in {state[c], None}
        /\ renaming' = IF b.on = "rename" THEN [renaming EXCEPT ![c] = b.id] ELSE renaming
        /\ UNCHANGED <<memoryVars, schedule, offered, preview, unsent, saved>>
    BY DEF PressButton, Idle, Reads
  <1>3. Sane(state[c], data[c], steps, Current(c), saved[c], chosen)
    BY <1>1, <1>2, Pressed
  <1>4. b.on = "rename" => b.id \in Ids
    <2>1. CASE b \in [on : {"item", "rename", "delete"}, id : Ids]
      BY <2>1
    <2>2. CASE b \notin [on : {"item", "rename", "delete"}, id : Ids]
      BY <2>2 DEF Buttons
    <2> QED
      BY <2>1, <2>2
  <1>5. /\ renaming' \in [Keys -> Ids \cup {None}]
        /\ renaming'[c] = chosen
        /\ \A k \in Keys \ {c} : renaming'[k] = renaming[k]
    BY <1>1, <1>2, <1>4 DEF TypeOK
  <1> HIDE DEF steps, chosen
  <1>6. /\ Listed' /\ todo'[c] = steps
        /\ \A k \in Keys \ {c} : todo'[k] = todo[k]
    BY <1>1, <1>2, Planned
  <1>7. TypeOK'
    BY <1>1, <1>2, <1>5 DEF TypeOK, memoryVars, schedule
  <1>8. Chat(c)'
    BY <1>2, <1>3, <1>5, <1>6 DEF Chat, Current, memoryVars
  <1>9. \A k \in Keys \ {c} : Same(k)
    BY <1>2, <1>5, <1>6 DEF Same, memoryVars
  <1> QED
    BY <1>6, <1>7, <1>8, <1>9, Elsewhere

LEMMA InterruptKeeps ==
    ASSUME IInv, NEW c \in Keys, Interrupt(c)
    PROVE  IInv'
  <1>1. /\ TypeOK /\ Listed /\ data[c] \in Data
        /\ Sane(state[c], data[c], todo[c], Current(c), saved[c], renaming[c])
    BY Typed
  <1>2. /\ todo[c] # <<>> /\ Plan(c, <<>>) /\ saved' = [saved EXCEPT ![c] = FALSE]
        /\ UNCHANGED <<memoryVars, schedule, offered, renaming>>
    BY DEF Interrupt, Idle
  <1>3. CASE Doing(c, "send")
    <2> DEFINE n == Head(todo[c]).preview
    <2>1. /\ preview' = [preview EXCEPT ![c] = None]
          /\ unsent' = [unsent EXCEPT ![c] = n]
      BY <1>3 DEF Interrupt
    <2>2. /\ n \in Previews
          /\ Sane(state[c], data[c], <<>>, n, FALSE, renaming[c])
      BY <1>1, <1>2, <1>3, PreviewSent DEF Doing
    <2> HIDE DEF n
    <2>3. /\ offered' \in [Keys -> SUBSET Kinds]
          /\ preview' \in [Keys -> Previews \cup {None}]
          /\ unsent' \in [Keys -> Previews \cup {None}]
          /\ unsent'[c] = n
          /\ \A k \in Keys \ {c} : preview'[k] = preview[k] /\ unsent'[k] = unsent[k]
      BY <1>1, <1>2, <2>1, <2>2 DEF TypeOK
    <2>4. Current(c)' = n
      BY <2>2, <2>3, DialogAssumption DEF Current
    <2> QED
      BY <1>2, <2>2, <2>3, <2>4, CurrentKeeps
  <1>4. CASE ~Doing(c, "send")
    <2>1. UNCHANGED <<preview, unsent>>
      BY <1>4 DEF Interrupt
    <2>2. Sane(state[c], data[c], <<>>, Current(c), FALSE, renaming[c])
      BY <1>1, <1>2, <1>4, Stopped DEF Doing
    <2>3. /\ Listed' /\ todo'[c] = <<>>
          /\ \A k \in Keys \ {c} : todo'[k] = todo[k]
      BY <1>1, <1>2, Planned
    <2>4. TypeOK'
      BY <1>1, <1>2, <2>1 DEF TypeOK, memoryVars, schedule
    <2>5. Chat(c)'
      BY <1>1, <1>2, <2>1, <2>2, <2>3 DEF Chat, Current, memoryVars, TypeOK
    <2>6. \A k \in Keys \ {c} : Same(k)
      BY <1>1, <1>2, <2>1, <2>3 DEF Same, TypeOK, memoryVars
    <2> QED
      BY <2>3, <2>4, <2>5, <2>6, Elsewhere
  <1> QED
    BY <1>3, <1>4

\* Time works on all chats.
LEMMA TimeKeeps ==
    ASSUME IInv, TimePasses
    PROVE  IInv'
  <1>1. /\ left' = [k \in Keys |-> IF left[k] = 0 THEN 0 ELSE left[k] - 1]
        /\ state' = [k \in Keys |-> IF left[k] > 1 THEN state[k] ELSE None]
        /\ data' = [k \in Keys |-> IF left[k] > 1 THEN data[k] ELSE Empty]
        /\ UNCHANGED <<todo, schedule, offered, history>>
    BY DEF TimePasses, Elapse
  <1>2. TypeOK'
    <2>1. left' \in [Keys -> 0..TTL]
      <3>1. TTL \in Nat /\ left \in [Keys -> 0..TTL]
        BY MemoryAssumption DEF IInv, TypeOK
      <3>2. \A k \in Keys : (IF left[k] = 0 THEN 0 ELSE left[k] - 1) \in 0..TTL
        BY <3>1
      <3> QED
        BY <1>1, <3>2
    <2>2. state' \in [Keys -> States \cup {None}] /\ data' \in [Keys -> Data]
      BY <1>1, EmptyHolds DEF IInv, TypeOK
    <2> QED
      BY <1>1, <2>1, <2>2 DEF IInv, TypeOK, schedule, history
  <1>3. ASSUME NEW c \in Keys
        PROVE  Chat(c)'
    <2>1. /\ data[c] \in Data
          /\ Sane(state[c], data[c], todo[c], Current(c), saved[c], renaming[c])
      BY Typed
    <2>2. Sane(None, Empty, todo[c], Current(c), saved[c], renaming[c])
      BY <2>1, Forgotten
    <2>3. \/ state'[c] = state[c] /\ data'[c] = data[c]
          \/ state'[c] = None /\ data'[c] = Empty
      BY <1>1
    <2> QED
      BY <1>1, <2>1, <2>2, <2>3 DEF Chat, Current, history
  <1> QED
    BY <1>1, <1>2, <1>3 DEF IInv

-----------------------------------------------------------------------------
(* The invariant. *)

LEMMA InvariantInit == Init => IInv
  <1> SUFFICES ASSUME Init PROVE IInv
    OBVIOUS
  <1>1. TypeOK
    BY EmptyHolds, MemoryAssumption DEF Init, MemoryInit, TypeOK
  <1>2. ASSUME NEW c \in Keys
        PROVE  Chat(c)
    <2>1. state[c] = None /\ data[c] = Empty /\ todo[c] = <<>>
      BY DEF Init, MemoryInit
    <2> QED
      BY <2>1, EmptyHolds, Harmless, SafeLists
         DEF Chat, Sane, Confirmed, Kept, Answers, Confirms, AtWork
  <1> QED
    BY <1>1, <1>2 DEF IInv, Init

LEMMA InvariantNext == IInv /\ [Next]_vars => IInv'
  <1> SUFFICES ASSUME IInv, [Next]_vars PROVE IInv'
    OBVIOUS
  <1>1. CASE UNCHANGED vars
    BY <1>1 DEF IInv, TypeOK, Chat, Current, vars, memoryVars, schedule, history
  <1>2. ASSUME NEW c \in Keys, NEW msg \in Messages, Receive(c, msg)
        PROVE  IInv'
    BY <1>2, ReceiveKeeps
  <1>3. ASSUME NEW c \in Keys, NEW b \in Buttons, PressButton(c, b)
        PROVE  IInv'
    BY <1>3, PressKeeps
  <1>4. ASSUME NEW c \in Keys, Work(c)
        PROVE  IInv'
    BY <1>4, StoreKeeps, InputKeeps, SendPreviewKeeps, SaveKeeps, WriteDayKeeps,
       ListDayKeeps, ShowKeeps, LabelKeeps, EntryKeeps DEF Work
  <1>5. ASSUME NEW c \in Keys, Interrupt(c)
        PROVE  IInv'
    BY <1>5, InterruptKeeps
  <1>6. CASE TimePasses
    BY <1>6, TimeKeeps
  <1>7. ASSUME NEW e \in entries, DeletedElsewhere(e)
        PROVE  IInv'
    <2>1. entries' \subseteq entries /\ UNCHANGED <<memoryVars, todo, unused, offered, history>>
      BY <1>7 DEF DeletedElsewhere
    <2> QED
      BY <2>1 DEF IInv, TypeOK, Chat, Current, memoryVars, history
  <1> QED
    BY <1>1, <1>2, <1>3, <1>4, <1>5, <1>6, <1>7 DEF Next

LEMMA Invariant == Spec => []IInv
  BY InvariantInit, InvariantNext, PTL DEF Spec

\* Every variable keeps its type: a preview always names a weekday and a text
\* that parses, and what is to be renamed is an entry.
THEOREM TypeCorrect == Spec => []TypeOK
  <1>1. IInv => TypeOK
    BY DEF IInv
  <1> QED
    BY <1>1, Invariant, PTL

\* What a save button writes is the preview the user saw last, or, when the
\* sending of one failed after that, the one that was not sent: whichever of the
\* keyboards on the screen are pressed and wherever the bot dies or the dialog
\* expires (lessons_input, lessons_save, extras_input, extras_save).
THEOREM ThePreviewIsSaved == Spec => []SavesThePreview
  BY Invariant, InvariantImplies, PTL

\* No preview is saved twice by a bot that is not interrupted while saving.
THEOREM OnePreviewOneSave == Spec => []SavesOnce
  BY Invariant, InvariantImplies, PTL

\* A new name goes to the entry whose rename button was taken last
\* (edit_receive_label).
THEOREM TheChosenIsRenamed == Spec => []RenamesTheChosen
  BY Invariant, InvariantImplies, PTL
=============================================================================
