---------------------------- MODULE DialogStorage ----------------------------
(***************************************************************************)
(* PostgresStorage (app/telegram/fsm_storage.py) on the table              *)
(* bot_fsm_storage: rows that carry their expiry, reads that skip expired  *)
(* rows, and a clean-up that the calls themselves run from time to time    *)
(* while other calls go on.                                                *)
(*                                                                         *)
(* Times are what is left of them: expires_at - now(), and the time until  *)
(* the next clean-up is due.  So the clock needs no bound.                 *)
(***************************************************************************)
EXTENDS DialogData, Integers

CONSTANTS
    Keys,     \* dialogs: bot, chat, user, thread, ... of a StorageKey
    Callers,  \* coroutines of the bot
    States,   \* names of states
    TTL,      \* ttl_seconds
    Every,    \* cleanup_interval_seconds
    Offered   \* the data that callers write

Row == [state : States \cup {None}, data : Data, left : 0..TTL]

ASSUME StorageAssumption ==
    /\ None \notin Row
    /\ None \notin States \cup Values \cup Callers
    /\ TTL \in Nat \ {0}
    /\ Every \in Nat \ {0}
    /\ Offered \subseteq Data

Call ==
    [op : {"set_state"}, key : Keys, state : States \cup {None}]
      \cup [op : {"set_data", "update_data"}, key : Keys, data : Offered]
      \cup [op : {"get_state", "get_data"}, key : Keys]

VARIABLES
    row,      \* of each key; `left` is expires_at - now(), 0 once expired
    due,      \* time until _next_cleanup
    cleaner,  \* who holds _cleanup_lock, or None
    stage,    \* how far the call of each caller is
    call,     \* what each caller asks for, or None
    answer    \* what the last call of each caller read, None during a call

vars == <<row, due, cleaner, stage, call, answer>>

\* "asked": before _maybe_cleanup; "waiting": for its lock; "cleaning": holds
\* it; "ready": before the statement of the call itself.
Stages == {"idle", "asked", "waiting", "cleaning", "ready"}

Init ==
    /\ row = [k \in Keys |-> None]
    /\ due = Every
    /\ cleaner = None
    /\ stage = [c \in Callers |-> "idle"]
    /\ call = [c \in Callers |-> None]
    /\ answer = [c \in Callers |-> None]

Reach(c, s) == stage' = [stage EXCEPT ![c] = s]

-----------------------------------------------------------------------------
(* Statements on one row. *)

Live(r) == r # None /\ r.left > 0

\* DELETE ... WHERE state IS NULL AND data = '{}': whatever the expiry.
Prune(r) == IF r # None /\ r.state = None /\ r.data = Empty THEN None ELSE r

ClearState(r) ==
    Prune(IF Live(r) THEN [state |-> None, data |-> r.data, left |-> TTL] ELSE r)

ClearData(r) ==
    Prune(IF Live(r) THEN [state |-> r.state, data |-> Empty, left |-> TTL] ELSE r)

StateOf(r) == IF Live(r) THEN r.state ELSE None
DataOf(r) == IF Live(r) THEN r.data ELSE Empty

\* The upserts: what has expired is not carried over.
PutState(r, s) == [state |-> s, data |-> DataOf(r), left |-> TTL]

PutData(r, d) == [state |-> StateOf(r), data |-> d, left |-> TTL]

\* Seeded fault: update_data merges into what has expired.
MergeExpired(r, d) ==
    [state |-> StateOf(r), left |-> TTL,
     data |-> Merge(IF r = None THEN Empty ELSE r.data, d)]

MergeData(r, d) ==
    [state |-> StateOf(r), left |-> TTL, data |-> Merge(DataOf(r), d)]

-----------------------------------------------------------------------------
(* The calls.  A call that writes one row, in one statement or in one      *)
(* transaction that keeps the row locked, is a single action.              *)

Ask(c, r) ==
    /\ stage[c] = "idle"
    /\ Reach(c, "asked")
    /\ call' = [call EXCEPT ![c] = r]
    /\ answer' = [answer EXCEPT ![c] = None]
    /\ UNCHANGED <<row, due, cleaner>>

\* _maybe_cleanup before its lock.
CheckDue(c) ==
    /\ stage[c] = "asked"
    /\ Reach(c, IF due = 0 THEN "waiting" ELSE "ready")
    /\ UNCHANGED <<row, due, cleaner, call, answer>>

\* Seeded fault: no second test.
EnterUntested(c) ==
    /\ stage[c] = "waiting"
    /\ cleaner = None
    /\ Reach(c, "cleaning")
    /\ cleaner' = c
    /\ UNCHANGED <<row, due, call, answer>>

\* The lock, and the second test under it.
EnterLock(c) ==
    /\ stage[c] = "waiting"
    /\ cleaner = None
    /\ IF due = 0
       THEN Reach(c, "cleaning") /\ cleaner' = c
       ELSE Reach(c, "ready") /\ UNCHANGED cleaner
    /\ UNCHANGED <<row, due, call, answer>>

\* Seeded fault: only rows without a state are deleted.
DeleteStateless ==
    row' = [k \in Keys |->
      IF Live(row[k]) \/ (row[k] # None /\ row[k].state # None) THEN row[k] ELSE None]

DeleteExpired == row' = [k \in Keys |-> IF Live(row[k]) THEN row[k] ELSE None]

\* cleanup_expired, and the lock is released.
CleanUp(c) ==
    /\ stage[c] = "cleaning"
    /\ DeleteExpired
    /\ due' = Every
    /\ cleaner' = None
    /\ Reach(c, "ready")
    /\ UNCHANGED <<call, answer>>

\* What a call does to the row of its key, and what it returns.
Effect(a, r) ==
    CASE a.op = "set_state" -> IF a.state = None THEN ClearState(r) ELSE PutState(r, a.state)
      [] a.op = "set_data" -> IF a.data = Empty THEN ClearData(r) ELSE PutData(r, a.data)
      [] a.op = "update_data" -> MergeData(r, a.data)
      [] OTHER -> r

Reply(c, a, r) ==
    CASE a.op = "get_state" -> StateOf(r)
      [] a.op = "get_data" -> DataOf(r)
      [] a.op = "update_data" -> Merge(DataOf(r), a.data)
      [] OTHER -> answer[c]

Return(c) ==
    /\ Reach(c, "idle")
    /\ call' = [call EXCEPT ![c] = None]

Execute(c) ==
    LET a == call[c]
    IN  /\ stage[c] = "ready"
        /\ row' = [row EXCEPT ![a.key] = Effect(a, @)]
        /\ answer' = [answer EXCEPT ![c] = Reply(c, a, row[a.key])]
        /\ Return(c)
        /\ UNCHANGED <<due, cleaner>>

\* Seeded fault: an exception leaves the lock taken.
FailLocked(c) ==
    /\ stage[c] \in {"cleaning", "ready"}
    /\ Return(c)
    /\ UNCHANGED <<row, due, cleaner, answer>>

\* The database refuses the clean-up or the statement: the call raises, and
\* the lock is released on the way out.
Fail(c) ==
    /\ stage[c] \in {"cleaning", "ready"}
    /\ Return(c)
    /\ cleaner' = IF cleaner = c THEN None ELSE cleaner
    /\ UNCHANGED <<row, due, answer>>

\* The bot starts anew (main: cleanup_expired); calls in flight are lost.
Restart ==
    /\ DeleteExpired
    /\ due' = Every
    /\ cleaner' = None
    /\ stage' = [c \in Callers |-> "idle"]
    /\ call' = [c \in Callers |-> None]
    /\ UNCHANGED answer

Elapse ==
    /\ row' = [k \in Keys |->
          IF Live(row[k]) THEN [row[k] EXCEPT !.left = @ - 1] ELSE row[k]]
    /\ due' = IF due = 0 THEN 0 ELSE due - 1
    /\ UNCHANGED <<cleaner, stage, call, answer>>

Serve(c) == CheckDue(c) \/ EnterLock(c) \/ CleanUp(c) \/ Execute(c)

Next ==
    \/ \E c \in Callers, r \in Call : Ask(c, r)
    \/ \E c \in Callers : Serve(c) \/ Fail(c)
    \/ Restart
    \/ Elapse

Spec == Init /\ [][Next]_vars

\* The event loop runs every coroutine that can run, asyncio.Lock wakes those
\* who wait in the order of their arrival, and time passes.  A statement may
\* fail each time, so fairness is about the end of a step, not its success.
Fairness ==
    /\ WF_vars(Elapse)
    /\ \A c \in Callers :
          /\ WF_vars(CheckDue(c))
          /\ SF_vars(EnterLock(c))
          /\ WF_vars(CleanUp(c) \/ Execute(c) \/ Fail(c))

FairSpec == Spec /\ Fairness

-----------------------------------------------------------------------------
(* Properties. *)

TypeOK ==
    /\ row \in [Keys -> Row \cup {None}]
    /\ due \in 0..Every
    /\ cleaner \in Callers \cup {None}
    /\ stage \in [Callers -> Stages]
    /\ call \in [Callers -> Call \cup {None}]
    /\ \A c \in Callers : stage[c] # "idle" => call[c] \in Call
    /\ answer \in [Callers -> States \cup Data \cup {None}]

\* The clean-up lock: its holder is the one that cleans up, so that two never
\* delete at the same time.
OneCleaner == \A c \in Callers : stage[c] = "cleaning" <=> cleaner = c

\* Callers that queued up for the lock do not clean up one after the other:
\* whoever cleans up does so because the interval is over (the second test in
\* _maybe_cleanup).
CleanOnlyWhenDue == \A c \in Callers : stage[c] = "cleaning" => due = 0

\* What the rows mean to the bot, and the promise they keep: with expiry,
\* clean-up, concurrent callers, failures and restarts, a dialog's state and
\* data live for TTL after the last write, vanish together, and never come
\* back; and what a call reads is what was remembered at that moment.
LeftOf(r) ==
    IF Live(r) /\ ~(r.state = None /\ r.data = Empty) THEN r.left ELSE 0

Promise == INSTANCE DialogMemory WITH
    state <- [k \in Keys |-> StateOf(row[k])],
    data <- [k \in Keys |-> DataOf(row[k])],
    left <- [k \in Keys |-> LeftOf(row[k])]

KeepsPromise == Promise!MemorySpec

\* Every call returns or raises: nobody waits for the clean-up lock for ever,
\* whatever statement fails.
EveryCallEnds ==
    \A c \in Callers : stage[c] # "idle" ~> stage[c] = "idle"

\* As long as the bot is used, expired rows do not pile up: each is deleted or
\* written anew.
Expired(k) == row[k] # None /\ ~Live(row[k])

ExpiredRowsGo ==
    []<><<\E c \in Callers : Execute(c)>>_vars
      => \A k \in Keys : Expired(k) ~> ~Expired(k)
=============================================================================
