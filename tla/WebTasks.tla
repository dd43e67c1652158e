------------------------------ MODULE WebTasks ------------------------------
(***************************************************************************)
(* The web client with the sheet for a homework task and the boxes that    *)
(* complete one.  Saving a task is several requests: the task, then each   *)
(* file.  Any of them may be refused, or done and its answer lost; the     *)
(* user then presses the button again, perhaps with other files.  Only     *)
(* buttons are disabled while the sheet saves: the files may be chosen     *)
(* anew at any time, and the loop over them reads the choice as it is.     *)
(***************************************************************************)
EXTENDS WebScreen, SequencesExt

CONSTANTS
    Files,      \* files the user may choose
    MaxToggles  \* bound on the boxes ticked at a time

ASSUME TaskAssumption ==
    /\ IsFiniteSet(Files) /\ MaxToggles \in Nat
    /\ None \notin Files \cup {"known"}

VARIABLES
    form,     \* the task sheet, or None
    made,     \* tasks the server has made for it
    attached, \* how often the server has attached each file for it
    lost,     \* answers lost: to making the task (None), to a file
    toggles   \* boxes whose answer is outstanding

sheet == <<form, made, attached, lost>>
vars == <<client, server, shouldSee, sheet, toggles>>

NoFiles == [f \in Files |-> 0]
NoLosses == [x \in Files \cup {None} |-> 0]

\* The sheet's history, for the properties, begins anew.
Forgotten == made' = 0 /\ attached' = NoFiles /\ lost' = NoLosses

Init ==
    /\ ScreenInit
    /\ form = None
    /\ made = 0 /\ attached = NoFiles /\ lost = NoLosses
    /\ toggles = {}

-----------------------------------------------------------------------------
(* taskForm *)

\* A sheet for a new task (task None) or one that exists.
OpenForm(task) ==
    /\ form = None /\ screen = "data"
    /\ serial < MaxRefreshes  \* bound: saved() needs a refresh
    /\ form' = [pid |-> pid, task |-> task, files |-> <<>>, uploaded |-> 0,
                at |-> "edit", sending |-> None, changed |-> FALSE]
    /\ Forgotten
    /\ UNCHANGED <<client, server, shouldSee, toggles>>

\* Files are chosen, also while a request of the sheet is under way; a new
\* choice replaces the one before.  The history `changed` says that the count of
\* uploads may belong to an earlier choice.
Choose(files) ==
    /\ form # None /\ form.at # "saved"
    /\ files # form.files
    /\ form' = [form EXCEPT !.files = files,
                  !.changed = @ \/ form.uploaded > 0 \/ form.at = "file"]
    /\ UNCHANGED <<client, server, shouldSee, made, attached, lost, toggles>>

\* Seeded fault: the count of uploads begins anew with each attempt.
SubmitRecounts ==
    /\ form # None /\ form.at = "edit"
    /\ form' = [form EXCEPT !.at = "task", !.uploaded = 0]
    /\ UNCHANGED <<client, server, shouldSee, made, attached, lost, toggles>>

Submit ==
    /\ form # None /\ form.at = "edit"
    /\ form' = [form EXCEPT !.at = "task"]
    /\ UNCHANGED <<client, server, shouldSee, made, attached, lost, toggles>>

\* The sheet closes, but not while it is saving.
CloseForm ==
    /\ form # None /\ form.at = "edit"
    /\ form' = None
    /\ Forgotten
    /\ UNCHANGED <<client, server, shouldSee, toggles>>

\* The sum of some counts.
Occurrences(count) == UNION {{x} \X (1 .. count[x]) : x \in DOMAIN count}
Total(count) == Cardinality(Occurrences(count))

Change(p) ==
    /\ p \in access
    /\ Total(changes) < MaxChanges
    /\ changes' = [changes EXCEPT ![p] = @ + 1]
    /\ UNCHANGED access

\* An answer is there: the loop goes on with the next of the files chosen by
\* now, or saved() closes the sheet and refreshes.
Proceed(f) ==
    \/ /\ f.uploaded < Len(f.files)
       /\ form' = [f EXCEPT !.at = "file", !.sending = f.files[f.uploaded + 1]]
       /\ UNCHANGED <<client, shouldSee>>
    \/ /\ f.uploaded >= Len(f.files)
       /\ form' = [f EXCEPT !.at = "saved", !.sending = None]
       /\ shouldSee' = [shouldSee EXCEPT ![f.pid] = changes'[f.pid]]
       /\ Refresh(pid, date, FALSE)

\* POST makes the task, PATCH changes the one that is known.
SaveTask ==
    /\ form # None /\ form.at = "task"
    /\ Change(form.pid)
    /\ made' = IF form.task = None THEN made + 1 ELSE made
    /\ Proceed([form EXCEPT !.task = "known"])
    /\ UNCHANGED <<attached, lost, toggles>>

UploadFile ==
    /\ form # None /\ form.at = "file"
    /\ Change(form.pid)
    /\ attached' = [attached EXCEPT ![form.sending] = @ + 1]
    /\ Proceed([form EXCEPT !.uploaded = @ + 1])
    /\ UNCHANGED <<made, lost, toggles>>

\* The sheet shows an error and can be submitted again.  When no file counts as
\* uploaded, the next attempt begins with the first of whatever is chosen.
Stopped == [form EXCEPT !.at = "edit", !.sending = None,
                        !.changed = @ /\ form.uploaded > 0]

\* Seeded fault: a file counts as uploaded before its answer is there.
RefusedCounted ==
    /\ form # None /\ form.at \in {"task", "file"}
    /\ form' = [Stopped EXCEPT !.uploaded = IF form.at = "file" THEN @ + 1 ELSE @]
    /\ UNCHANGED <<client, server, shouldSee, made, attached, lost, toggles>>

\* The server refuses, or the request does not reach it.
Refused ==
    /\ form # None /\ form.at \in {"task", "file"}
    /\ form' = Stopped
    /\ UNCHANGED <<client, server, shouldSee, made, attached, lost, toggles>>

\* The server has done it and the answer is lost: for the client the same.
AnswerLost ==
    /\ form # None /\ form.at \in {"task", "file"}
    /\ Change(form.pid)
    /\ form' = Stopped
    /\ \/ /\ form.at = "task"
          /\ made' = IF form.task = None THEN made + 1 ELSE made
          /\ lost' = [lost EXCEPT ![None] = @ + 1]
          /\ UNCHANGED attached
       \/ /\ form.at = "file"
          /\ attached' = [attached EXCEPT ![form.sending] = @ + 1]
          /\ lost' = [lost EXCEPT ![form.sending] = @ + 1]
          /\ UNCHANGED made
    /\ UNCHANGED <<client, shouldSee, toggles>>

\* The sheet that saved() closed is forgotten.
Forget ==
    /\ form # None /\ form.at = "saved"
    /\ form' = None
    /\ Forgotten
    /\ UNCHANGED <<client, server, shouldSee, toggles>>

-----------------------------------------------------------------------------
(* The box of a task in the list. *)

\* The request goes to the chosen profile, with a task of the list shown.
Tick ==
    /\ form = None /\ screen = "data"
    /\ Cardinality(toggles) < MaxToggles
    /\ serial < MaxRefreshes  \* bound: the list is fetched again
    /\ toggles' = toggles \cup {[pid |-> pid, of |-> week.pid, done |-> FALSE]}
    /\ UNCHANGED <<client, server, shouldSee, sheet>>

\* get_task finds only tasks of the profile it is given.
ServeTick(t) ==
    /\ t \in toggles /\ ~t.done /\ t.pid = t.of
    /\ Change(t.pid)
    /\ toggles' = (toggles \ {t}) \cup {[t EXCEPT !.done = TRUE]}
    /\ UNCHANGED <<client, shouldSee, sheet>>

\* The list is fetched again.
Ticked(t) ==
    /\ t \in toggles /\ t.done
    /\ toggles' = toggles \ {t}
    /\ shouldSee' = [shouldSee EXCEPT ![t.pid] = changes[t.pid]]
    /\ Refresh(pid, date, FALSE)
    /\ UNCHANGED <<server, sheet>>

\* Refused or lost: the box is set back.
NotTicked(t) ==
    /\ t \in toggles
    /\ toggles' = toggles \ {t}
    /\ UNCHANGED <<client, server, shouldSee, sheet>>

-----------------------------------------------------------------------------
FileLists == {s \in SeqOf(Files, Cardinality(Files)) : IsInjective(s)}

Next ==
    \/ Network /\ UNCHANGED <<sheet, toggles>>
    \/ form = None /\ Pages /\ UNCHANGED <<sheet, toggles>>
    \/ (\E p \in Profiles : Revoke(p)) /\ UNCHANGED <<sheet, toggles>>
    \/ \E task \in {None, "known"} : OpenForm(task)
    \/ \E files \in FileLists : Choose(files)
    \/ Submit \/ CloseForm \/ SaveTask \/ UploadFile \/ Refused \/ AnswerLost \/ Forget
    \/ Tick
    \/ \E t \in toggles : ServeTick(t) \/ Ticked(t) \/ NotTicked(t)

Spec == Init /\ [][Next]_vars

-----------------------------------------------------------------------------
(* Properties. *)

\* The server makes versions, the client keeps what it has been given: a week
\* with its profile, never more recent than the server's; a sheet that has
\* uploaded no more files than the server has attached.
TypeOK ==
    /\ pid \in Profiles \cup {None}
    /\ date \in Dates
    /\ week # None => week.pid \in Profiles /\ week.read \in 0..changes[week.pid]
    /\ \A c, d \in calls : c.serial = d.serial => c = d
    /\ \A c \in calls : c.serial \in 1..serial
    /\ Default \in access
    /\ \A p \in Profiles : shouldSee[p] \in 0..changes[p]
    /\ form # None => form.uploaded <= Total(attached)

\* Pressing "save" again after a failure repeats nothing that the client knows
\* to be done.  One sheet makes a second task only if the answer about the first
\* was lost.  It attaches a file again only then, or when the user chose other
\* files after an upload or during one that then succeeded: the count of uploads
\* is kept, and is applied to the new choice.
RetriesRepeatNothing ==
    form # None =>
        /\ made <= 1 + lost[None]
        /\ form.changed \/ \A f \in Files : attached[f] <= 1 + lost[f]

\* When the client says that a task is saved, the server has the task and every
\* file of the sheet, unless the user chose other files after an upload or during
\* one that then succeeded: of those the client skips as many as it has uploaded.
SavedWithEveryFile ==
    form # None /\ form.at = "saved" =>
        /\ form.task # None
        /\ form.changed \/ \A i \in DOMAIN form.files : attached[form.files[i]] > 0
=============================================================================
