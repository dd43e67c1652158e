----------------------------- MODULE Reminders -----------------------------
(***************************************************************************)
(* The reminder loop of app/reminders.py: every poll it reads who wants    *)
(* reminders, resolves today (late in the evening also tomorrow) of each   *)
(* user's profile, and sends what is due through a ledger of claims,       *)
(* reminder_deliveries, committed before the message is sent.              *)
(*                                                                         *)
(* A worker is one process that runs the loop; two overlap while the bot   *)
(* is redeployed.  Between any two of its steps the user may change the    *)
(* settings, leave the profile or reschedule a lesson, the clock may       *)
(* advance, and the process may die.  Time is counted in units of half a   *)
(* minute of the user's local time; days have DayLength units.             *)
(***************************************************************************)
EXTENDS Integers, FiniteSets

CONSTANTS
    Workers,       \* processes that run the loop
    Users,         \* members of the one profile modelled
    Events,        \* its events
    Summary,       \* the evening message, in the place of an event
    None,
    DayLength,     \* units in a day
    LastTime,      \* the clock stops here (a bound)
    LateFrom,      \* 22:00, from which tomorrow is inspected too
    Window,        \* 120 seconds: how long after its due time a message may go
    Grace,         \* 60 seconds: and how long after the start of the lesson
    Poll,          \* reminder_poll_seconds
    TickBound,     \* how long a tick may take (assumed by TimelySpec only)
    Starts,        \* times of day a lesson may start at
    Leads,         \* values of reminder_minutes
    Evenings,      \* values of evening_time
    Timetables,    \* values of start: when each event takes place on each day
    Changes,       \* [event, day, start]: what may be rescheduled
    Flaky          \* users whose calendar may fail to be read

Days == 0 .. LastTime \div DayLength

ASSUME ReminderAssumption ==
    /\ IsFiniteSet(Workers)
    /\ DayLength \in Nat \ {0} /\ LastTime \in Nat
    /\ Window \in Nat /\ Grace \in Nat /\ Poll \in Nat /\ TickBound \in Nat
    /\ Starts \subseteq 0 .. DayLength - 1
    /\ Evenings \subseteq 0 .. DayLength - 1
    /\ LateFrom \in 0 .. DayLength
    /\ Leads \subseteq 0 .. DayLength - LateFrom  \* at most 120 minutes
    /\ None \notin Starts \cup Evenings
    /\ None \notin {"pending", "sent", "failed"}
    /\ Summary \notin Events
    /\ Flaky \subseteq Users
    /\ Timetables \subseteq [Events -> [Days -> Starts \cup {None}]]
    /\ Changes \subseteq [event : Events, day : Days, start : Starts \cup {None}]

\* What a message is about: a start of an event on a day, or a day's summary.
Items ==
    {i \in [user : Users, event : Events \cup {Summary},
            start : Starts \cup {None}, day : Days] :
        i.event = Summary <=> i.start = None}

ASSUME NoneAssumption == None \notin Items

VARIABLES
    now,       \* the clock
    start,     \* when an event takes place on a day, None when it does not
    wants,     \* users with reminders_enabled who are members of the profile
    lead,      \* users.reminder_minutes
    evening,   \* users.evening_time
    ledger,    \* status of the reminder_deliveries row of a key, or None
    worker,    \* the state of each process
    arrived,   \* how often a message about an item reached the user
    optedOut   \* messages that reached a user since they stopped wanting any

settings == <<start, wants, lead, evening>>
vars == <<now, start, wants, lead, evening, ledger, worker, arrived, optedOut>>

Statuses == {None, "pending", "sent", "failed"}

\* at: the time the tick began; todo: the users it has not looked at, with the
\* preferences read at its beginning; queue: what is due for the current user;
\* item, outcome: what is being delivered, and how Telegram answered.
Asleep(wake) ==
    [pc |-> "asleep", at |-> wake, todo |-> {}, queue |-> {},
     item |-> None, outcome |-> None]

Reader == [user : Users, lead : Leads, evening : Evenings \cup {None}]

Worker ==
    [pc : {"asleep", "ticking", "sending", "recording", "down"},
     at : 0 .. LastTime + Poll, todo : SUBSET Reader, queue : SUBSET Items,
     item : Items \cup {None}, outcome : {None, "sent", "failed"}]

Init ==
    /\ now = 0
    /\ start \in Timetables
    /\ wants \in SUBSET Users
    /\ lead \in [Users -> Leads]
    /\ evening \in [Users -> Evenings \cup {None}]
    /\ ledger = [k \in Items |-> None]
    /\ worker = [w \in Workers |-> Asleep(0)]
    /\ arrived = [i \in Items |-> 0]
    /\ optedOut = [u \in Users |-> 0]

DayOf(t) == t \div DayLength
TimeOfDay(t) == t % DayLength

-----------------------------------------------------------------------------
(* What is due. *)

\* Seeded fault: only today is inspected.
TodayOnly(r, t) == {DayOf(t)}

\* Lead times that cross midnight need tomorrow's lessons.
Inspected(r, t) ==
    {d \in Days : \/ d = DayOf(t)
                  \/ d = DayOf(t) + 1 /\ r.lead # 0 /\ TimeOfDay(t) >= LateFrom}

StartOf(e, d) == d * DayLength + start[e][d]

IsDue(r, t, e, d) ==
    LET due == StartOf(e, d) - r.lead
    IN  /\ 0 <= t - due /\ t - due < Window
        /\ t <= StartOf(e, d) + Grace

DueEvents(r, t) ==
    {[user |-> r.user, event |-> x[1], start |-> start[x[1]][x[2]], day |-> x[2]] :
        x \in {y \in Events \X Inspected(r, t) :
                  start[y[1]][y[2]] # None /\ IsDue(r, t, y[1], y[2])}}

DueSummary(r, t) ==
    {[user |-> r.user, event |-> Summary, start |-> None, day |-> d] :
        d \in {x \in Days :
                  /\ x = DayOf(t)
                  /\ r.evening # None
                  /\ 0 <= TimeOfDay(t) - r.evening
                  /\ TimeOfDay(t) - r.evening < Window}}

\* Seeded fault: the row is dated with the day of the tick.
KeyOnTickDay(i, t) == [i EXCEPT !.day = DayOf(t)]

\* The row of reminder_deliveries that an item found at time t is claimed with:
\* the event and its start, and the day of the lesson.
KeyOf(i, t) == i

-----------------------------------------------------------------------------
(* The loop of one process. *)

BeginTick(w) ==
    /\ worker[w].pc = "asleep"
    /\ now >= worker[w].at
    /\ worker' = [worker EXCEPT ![w] =
          [worker[w] EXCEPT
              !.pc = "ticking", !.at = now,
              !.todo = {[user |-> u, lead |-> lead[u], evening |-> evening[u]] : u \in wants}]]
    /\ UNCHANGED <<now, settings, ledger, arrived, optedOut>>

Ready(w) == worker[w].pc = "ticking" /\ worker[w].queue = {}

\* The user's profile is read as it is now, for the time the tick began at.
Examine(w, r) ==
    /\ Ready(w)
    /\ r \in worker[w].todo
    /\ worker' = [worker EXCEPT ![w] =
          [worker[w] EXCEPT
              !.todo = @ \ {r},
              !.queue = DueEvents(r, worker[w].at) \cup DueSummary(r, worker[w].at)]]
    /\ UNCHANGED <<now, settings, ledger, arrived, optedOut>>

\* An error while reading one user's profile is logged; the others follow.
ExamineFails(w, r) ==
    /\ Ready(w)
    /\ r \in worker[w].todo
    /\ r.user \in Flaky
    /\ worker' = [worker EXCEPT ![w].todo = @ \ {r}]
    /\ UNCHANGED <<now, settings, ledger, arrived, optedOut>>

\* Seeded fault: the claim does not look at the user again.
ClaimUnchecked(w, i) ==
    LET key == KeyOf(i, worker[w].at)
        fresh == ledger[key] = None
    IN  /\ worker[w].pc = "ticking"
        /\ i \in worker[w].queue
        /\ ledger' = IF fresh THEN [ledger EXCEPT ![key] = "pending"] ELSE ledger
        /\ worker' = [worker EXCEPT ![w] =
              [worker[w] EXCEPT
                  !.queue = @ \ {i},
                  !.pc = IF fresh THEN "sending" ELSE @,
                  !.item = IF fresh THEN i ELSE @]]
        /\ UNCHANGED <<now, settings, arrived, optedOut>>

\* One INSERT ... WHERE EXISTS ... ON CONFLICT DO NOTHING, committed at once.
Claim(w, i) ==
    LET key == KeyOf(i, worker[w].at)
        fresh == ledger[key] = None /\ i.user \in wants
    IN  /\ worker[w].pc = "ticking"
        /\ i \in worker[w].queue
        /\ ledger' = IF fresh THEN [ledger EXCEPT ![key] = "pending"] ELSE ledger
        /\ worker' = [worker EXCEPT ![w] =
              [worker[w] EXCEPT
                  !.queue = @ \ {i},
                  !.pc = IF fresh THEN "sending" ELSE @,
                  !.item = IF fresh THEN i ELSE @]]
        /\ UNCHANGED <<now, settings, arrived, optedOut>>

\* The message reaches the user (`reaches`) or not, and the call returns
\* (`answer` is "sent") or raises: a time-out can follow a delivery.
Send(w, reaches, answer) ==
    LET i == worker[w].item
    IN  /\ worker[w].pc = "sending"
        /\ answer = "sent" => reaches
        /\ arrived' = IF reaches THEN [arrived EXCEPT ![i] = @ + 1] ELSE arrived
        /\ optedOut' = IF reaches /\ i.user \notin wants
                       THEN [optedOut EXCEPT ![i.user] = @ + 1] ELSE optedOut
        /\ worker' = [worker EXCEPT ![w].pc = "recording", ![w].outcome = answer]
        /\ UNCHANGED <<now, settings, ledger>>

\* Seeded fault: an exception is recorded as a delivery.
RecordSent(w) ==
    /\ worker[w].pc = "recording"
    /\ ledger' = [ledger EXCEPT ![KeyOf(worker[w].item, worker[w].at)] = "sent"]
    /\ worker' = [worker EXCEPT ![w] =
          [worker[w] EXCEPT !.pc = "ticking", !.item = None, !.outcome = None]]
    /\ UNCHANGED <<now, settings, arrived, optedOut>>

Record(w) ==
    /\ worker[w].pc = "recording"
    /\ ledger' = [ledger EXCEPT ![KeyOf(worker[w].item, worker[w].at)] = worker[w].outcome]
    /\ worker' = [worker EXCEPT ![w] =
          [worker[w] EXCEPT !.pc = "ticking", !.item = None, !.outcome = None]]
    /\ UNCHANGED <<now, settings, arrived, optedOut>>

\* The database fails under the claim or under the record of the outcome: what
\* is left for this user is dropped until the next tick, and the row stays as
\* it is; a claim may have been committed before the connection was lost.
Abandon(w) ==
    /\ worker[w].pc = "recording" \/ worker[w].queue # {}
    /\ worker[w].pc \in {"recording", "ticking"}
    /\ \/ UNCHANGED ledger
       \/ \E i \in worker[w].queue :
             /\ worker[w].pc = "ticking"
             /\ ledger[KeyOf(i, worker[w].at)] = None
             /\ i.user \in wants
             /\ ledger' = [ledger EXCEPT ![KeyOf(i, worker[w].at)] = "pending"]
    /\ worker' = [worker EXCEPT ![w] =
          [worker[w] EXCEPT !.pc = "ticking", !.queue = {}, !.item = None, !.outcome = None]]
    /\ UNCHANGED <<now, settings, arrived, optedOut>>

EndTick(w) ==
    /\ Ready(w)
    /\ worker[w].todo = {}
    /\ worker' = [worker EXCEPT ![w] = Asleep(now + Poll)]
    /\ UNCHANGED <<now, settings, ledger, arrived, optedOut>>

Crash(w) ==
    /\ worker[w].pc # "down"
    /\ worker' = [worker EXCEPT ![w] = [Asleep(0) EXCEPT !.pc = "down"]]
    /\ UNCHANGED <<now, settings, ledger, arrived, optedOut>>

\* The new process ticks at once and knows nothing of the old one.
Restart(w) ==
    /\ worker[w].pc = "down"
    /\ worker' = [worker EXCEPT ![w] = Asleep(0)]
    /\ UNCHANGED <<now, settings, ledger, arrived, optedOut>>

-----------------------------------------------------------------------------
(* The clock, and the people. *)

\* PATCH /api/me, and losing or regaining membership.
SwitchOff(u) ==
    /\ u \in wants
    /\ wants' = wants \ {u}
    /\ optedOut' = [optedOut EXCEPT ![u] = 0]
    /\ UNCHANGED <<now, start, lead, evening, ledger, worker, arrived>>

SwitchOn(u) ==
    /\ u \notin wants
    /\ wants' = wants \cup {u}
    /\ UNCHANGED <<now, start, lead, evening, ledger, worker, arrived, optedOut>>

\* A replacement or a cancellation of a date, or its removal.
Reschedule(e, d, s) ==
    /\ start[e][d] # s
    /\ start' = [start EXCEPT ![e][d] = s]
    /\ UNCHANGED <<now, wants, lead, evening, ledger, worker, arrived, optedOut>>

Advance ==
    /\ now < LastTime
    /\ now' = now + 1
    /\ UNCHANGED <<settings, ledger, worker, arrived, optedOut>>

LoopStep(w) ==
    \/ BeginTick(w)
    \/ \E r \in worker[w].todo : Examine(w, r) \/ ExamineFails(w, r)
    \/ \E i \in worker[w].queue : Claim(w, i)
    \/ \E reaches \in BOOLEAN, answer \in {"sent", "failed"} : Send(w, reaches, answer)
    \/ Record(w)
    \/ EndTick(w)

Next ==
    \/ \E w \in Workers : LoopStep(w) \/ Abandon(w) \/ Crash(w) \/ Restart(w)
    \/ \E u \in Users : SwitchOff(u) \/ SwitchOn(u)
    \/ \E c \in Changes : Reschedule(c.event, c.day, c.start)
    \/ Advance

Spec == Init /\ [][Next]_vars

\* What TimelySpec needs to be in time: a tick and the pause after it fit into
\* the window and into the grace after a start (120 and 60 seconds), and no due
\* time is so late in the day that the tick after it may be one of the next day,
\* which no longer inspects that day.
ASSUME TimelyAssumption ==
    /\ Workers # {}
    /\ Poll + TickBound \in 1 .. Window
    /\ Poll + TickBound <= Grace + 1
    /\ \A s \in Starts \cup Evenings : s + Poll + TickBound <= DayLength

\* A process that runs, and whose ticks take at most TickBound, while nobody
\* changes anything.
TimelyAdvance ==
    /\ \A w \in Workers : IF worker[w].pc = "asleep" THEN now < worker[w].at
                          ELSE now < worker[w].at + TickBound
    /\ Advance

TimelyNext == (\E w \in Workers : LoopStep(w)) \/ TimelyAdvance

TimelySpec == Init /\ [][TimelyNext]_vars

-----------------------------------------------------------------------------
(* Properties. *)

\* The variables are of their types, and a process holds a claimed item exactly
\* while it sends it or records how the sending went.
TypeOK ==
    /\ now \in 0 .. LastTime
    /\ start \in [Events -> [Days -> Starts \cup {None}]]
    /\ wants \subseteq Users
    /\ lead \in [Users -> Leads]
    /\ evening \in [Users -> Evenings \cup {None}]
    /\ ledger \in [Items -> Statuses]
    /\ worker \in [Workers -> Worker]
    /\ \A w \in Workers :
          /\ worker[w].item # None <=> worker[w].pc \in {"sending", "recording"}
          /\ worker[w].outcome # None <=> worker[w].pc = "recording"
    /\ arrived \in [Items -> Nat]
    /\ optedOut \in [Users -> Nat]

\* Nobody gets a message about one start of a lesson, or one day's summary,
\* twice: not from two processes, not after a crash or a time-out that followed
\* the delivery, and not because midnight passed between two ticks
\* (app/reminders.py: uncertain deliveries are not replayed).
AtMostOnce == \A i \in Items : arrived[i] <= 1

\* A row that says "sent" is a message that reached the user; "failed" says
\* only that it may not have.
LedgerHonest == \A k \in Items : ledger[k] = "sent" => arrived[k] = 1

\* Once a user has switched reminders off, or has lost the profile, each
\* process delivers at most the one message it was already sending, however
\* many it had found due.
OptOutStopsSending == \A u \in Users : optedOut[u] <= Cardinality(Workers)

\* With a process that polls in time and whose ticks take at most TickBound,
\* every lesson and summary that falls due is claimed within Window plus
\* TickBound: a tick that begins inside the window may claim up to TickBound
\* later.  At lead 0, over midnight, late in the evening, and while another
\* user's calendar cannot be read.
OnTime ==
    \A u \in wants \ Flaky :
        /\ \A e \in Events, d \in Days :
              LET due == StartOf(e, d) - lead[u]
              IN  /\ start[e][d] # None
                  /\ due >= 0
                  /\ now > due + Window + TickBound
                  => ledger[[user |-> u, event |-> e,
                             start |-> start[e][d], day |-> d]] # None
        /\ \A d \in Days :
              /\ evening[u] # None
              /\ now > d * DayLength + evening[u] + Window + TickBound
              => ledger[[user |-> u, event |-> Summary, start |-> None, day |-> d]] # None
============================================================================
