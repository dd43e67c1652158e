------------------------------ MODULE WebScreen ------------------------------
(***************************************************************************)
(* The web client's screen (webapp/static/planner-v2.js): refresh() with    *)
(* its serial number, the chosen profile and day, the week that is kept,    *)
(* and what is drawn from them while answers are outstanding, come late,    *)
(* out of order or not at all.                                             *)
(*                                                                         *)
(* The three answers of a refresh (week, tasks, bells) are one.  What a     *)
(* profile holds is the number of changes made to it.                      *)
(***************************************************************************)
EXTENDS Integers, FiniteSets

CONSTANTS
    Profiles,
    Default,      \* the profile that bootstrap names; always accessible
    Dates,
    Today,        \* localToday() when the page is opened
    Monday(_),    \* the Monday of the week of a date
    MaxRefreshes, \* bound on the number of calls of refresh
    MaxChanges,   \* bound on the number of changes made
    None

ASSUME ScreenAssumption ==
    /\ Default \in Profiles /\ Today \in Dates
    /\ MaxRefreshes \in Nat /\ MaxChanges \in Nat
    /\ None \notin Profiles
    /\ None \notin [pid : Profiles, monday : {Monday(d) : d \in Dates}, read : Nat]

VARIABLES
    pid, date,    \* state.pid, state.date
    week,         \* state.week and state.tasks, or None: whose, which, how recent
    serial,       \* state.request
    calls,        \* the calls of refresh that have not returned
    busy,         \* aria-busy of the main panel
    screen,       \* what the main panel shows: "data" is drawn from week
    loaded,       \* the newest refresh has stored its answers
    changes,      \* the server: changes made to each profile
    access,       \* the server: profiles of the user
    shouldSee     \* the last change to each profile reported to the user

client == <<pid, date, week, serial, calls, busy, screen, loaded>>
server == <<changes, access>>

\* The first call, refresh(true) of boot.
ScreenInit ==
    /\ pid = None
    /\ date = Today
    /\ week = None
    /\ serial = 1
    /\ calls = {[serial |-> 1, boot |-> TRUE, pid |-> None, monday |-> None, read |-> None]}
    /\ busy = TRUE
    /\ screen = "loading"
    /\ loaded = FALSE
    /\ changes = [p \in Profiles |-> 0]
    /\ access = Profiles
    /\ shouldSee = [p \in Profiles |-> 0]

-----------------------------------------------------------------------------
(* refresh() *)

Newest(c) == c.serial = serial

\* refresh(boot) with p and d chosen: the calls before it are aborted.  One
\* that was reading the text of an error takes that for an error of its own.
Refresh(p, d, boot) ==
    /\ serial < MaxRefreshes
    /\ pid' = p
    /\ date' = d
    /\ serial' = serial + 1
    /\ calls' = calls \cup
         {[serial |-> serial + 1, boot |-> boot,
           pid |-> IF boot THEN None ELSE p,
           monday |-> IF boot THEN None ELSE Monday(d), read |-> None]}
    /\ busy' = TRUE
    /\ loaded' = FALSE
    /\ screen' \in {"loading"} \cup IF calls = {} THEN {} ELSE {"error"}
    /\ UNCHANGED week

\* The answer of /api/bootstrap.
Bootstrap(c) ==
    /\ c \in calls /\ c.boot
    /\ IF Newest(c)
       THEN LET p == IF pid \in access THEN pid ELSE Default
            IN  /\ pid' = p
                /\ calls' = (calls \ {c}) \cup
                     {[c EXCEPT !.boot = FALSE, !.pid = p, !.monday = Monday(date)]}
       ELSE /\ calls' = calls \ {c}
            /\ UNCHANGED pid
    /\ UNCHANGED <<date, week, serial, busy, screen, loaded, server, shouldSee>>

\* The server reads.
Serve(c) ==
    /\ c \in calls /\ ~c.boot /\ c.read = None /\ c.pid \in access
    /\ calls' = (calls \ {c}) \cup {[c EXCEPT !.read = changes[c.pid]]}
    /\ UNCHANGED <<pid, date, week, serial, busy, screen, loaded, server, shouldSee>>

\* Seeded fault: refresh() keeps whatever answer comes last.
AnswerEvery(c) ==
    /\ c \in calls /\ c.read # None
    /\ calls' = calls \ {c}
    /\ week' = [pid |-> c.pid, monday |-> c.monday, read |-> c.read]
    /\ screen' = "data"
    /\ loaded' = TRUE
    /\ busy' = IF Newest(c) THEN FALSE ELSE busy
    /\ UNCHANGED <<pid, date, serial, server, shouldSee>>

\* All answers are there.
Answer(c) ==
    /\ c \in calls /\ c.read # None
    /\ calls' = calls \ {c}
    /\ IF Newest(c) /\ c.pid = pid
       THEN /\ week' = [pid |-> c.pid, monday |-> c.monday, read |-> c.read]
            /\ screen' = "data"
            /\ loaded' = TRUE
       ELSE UNCHANGED <<week, screen, loaded>>
    /\ busy' = IF Newest(c) THEN FALSE ELSE busy
    /\ UNCHANGED <<pid, date, serial, server, shouldSee>>

\* Seeded fault: an error leaves the panel busy.
FailBusy(c) ==
    /\ c \in calls
    /\ calls' = calls \ {c}
    /\ screen' = IF Newest(c) THEN "error" ELSE screen
    /\ UNCHANGED <<pid, date, week, serial, busy, loaded, server, shouldSee>>

\* A refusal or a broken connection; AbortError for a call that was aborted.
Fail(c) ==
    /\ c \in calls
    /\ calls' = calls \ {c}
    /\ screen' = IF Newest(c) THEN "error" ELSE screen
    /\ busy' = IF Newest(c) THEN FALSE ELSE busy
    /\ UNCHANGED <<pid, date, week, serial, loaded, server, shouldSee>>

-----------------------------------------------------------------------------
(* The user, while no sheet is open, and the timer. *)

\* A tab, or the timer on the same day: the panel is drawn from what is kept,
\* also while a refresh is outstanding or after one has failed.
Draw ==
    /\ week # None
    /\ screen # "data"
    /\ screen' = "data"
    /\ UNCHANGED <<pid, date, week, serial, calls, busy, loaded, server, shouldSee>>

\* Seeded fault: a day of another week is drawn from the week that is kept.
ChangeDateOnly(d) ==
    /\ screen = "data" /\ d # date
    /\ date' = d
    /\ screen' = "data"
    /\ UNCHANGED <<pid, week, serial, calls, busy, loaded, server, shouldSee>>

\* Another day is chosen on a drawn schedule.
ChangeDate(d) ==
    /\ screen = "data" /\ d # date
    /\ \/ /\ Monday(d) = week.monday
          /\ date' = d
          /\ screen' = "data"
          /\ UNCHANGED <<pid, week, serial, calls, busy, loaded>>
       \/ /\ Monday(d) # week.monday
          /\ Refresh(pid, d, FALSE)
    /\ UNCHANGED <<server, shouldSee>>

\* switchProfile and the import of a share (boot FALSE); a profile created or
\* joined (boot TRUE).
OpenProfile(p, boot) ==
    /\ Refresh(p, date, boot)
    /\ UNCHANGED <<server, shouldSee>>

\* A profile is deleted in this client.
DeleteProfile(p) ==
    /\ p \in access \ {Default}
    /\ access' = access \ {p}
    /\ Refresh(None, date, TRUE)
    /\ UNCHANGED <<changes, shouldSee>>

\* The button of the error panel, and the page that becomes visible again.
Reload(boot) ==
    /\ boot \/ (screen = "error" /\ pid # None)
    /\ Refresh(pid, date, boot)
    /\ UNCHANGED <<server, shouldSee>>

\* An owner withdraws a profile.
Revoke(p) ==
    /\ p \in access \ {Default}
    /\ access' = access \ {p}
    /\ UNCHANGED <<client, changes, shouldSee>>

Network == \E c \in calls : Bootstrap(c) \/ Serve(c) \/ Answer(c) \/ Fail(c)

Pages ==
    \/ Draw
    \/ \E d \in Dates : ChangeDate(d)
    \/ \E p \in access, boot \in BOOLEAN : OpenProfile(p, boot)
    \/ \E p \in Profiles : DeleteProfile(p)
    \/ \E boot \in BOOLEAN : Reload(boot)

-----------------------------------------------------------------------------
(* Properties. *)

\* After a refresh the client keeps the chosen profile, at least as recent as
\* the last change it has reported to the user: an answer that was overtaken
\* by a change, by another refresh or by another profile never replaces it.
KeepsTheNewest ==
    loaded => week.pid = pid /\ week.read >= shouldSee[pid]

\* The panel is busy exactly while the newest refresh is outstanding.
BusyWhileWaiting == busy <=> \E c \in calls : Newest(c)

\* The day shown is not in the week that a refresh has loaded: the panel then
\* draws it without lessons.
Misled == loaded /\ week.monday # Monday(date)

\* That comes about in one way only: while the next week was loading the reader
\* drew the week before again and chose a day of it, for which changeDate
\* starts no refresh and aborts none.
OnlyGoingBackMisleads ==
    [][~Misled /\ Misled' =>
         busy /\ week # None /\ week.monday = Monday(date)]_<<client>>
=============================================================================
