--------------------------- MODULE RemindersProofs ---------------------------
(***************************************************************************)
(* Proofs about Reminders, for any number of processes, users, events and  *)
(* days, any window and any timetable.                                     *)
(***************************************************************************)
EXTENDS Reminders, FiniteSetTheorems, TLAPS

\* A row is made before a message goes out.
Claimed == \A i \in Items : ledger[i] = None => arrived[i] = 0

\* What is under way is claimed and, until it is sent, has not arrived; an
\* answer was given to the only message.
UnderWay ==
    \A w \in Workers :
        LET i == worker[w].item
        IN  i # None =>
              /\ ledger[i] = "pending"
              /\ worker[w].pc = "sending" => arrived[i] = 0
              /\ worker[w].outcome = "sent" => arrived[i] = 1

\* No two processes deliver the same item.
Alone ==
    \A v, w \in Workers :
        worker[v].item # None /\ worker[v].item = worker[w].item => v = w

IInv == TypeOK /\ AtMostOnce /\ LedgerHonest /\ Claimed /\ UnderWay /\ Alone

-----------------------------------------------------------------------------
(* What a step makes of a process. *)

\* Nothing but the process w changes, into q, and q holds nothing.
LEMMA DroppedStep ==
    ASSUME IInv, NEW w \in Workers, NEW q \in Worker,
           worker' = [worker EXCEPT ![w] = q],
           q.item = None, q.outcome = None, q.pc \notin {"sending", "recording"},
           UNCHANGED <<now, settings, ledger, arrived, optedOut>>
    PROVE  IInv'
<1>1. \A v \in Workers : worker'[v] = IF v = w THEN q ELSE worker[v]
  BY DEF IInv, TypeOK
<1>2. TypeOK'
  BY <1>1 DEF IInv, TypeOK, settings
<1>3. AtMostOnce' /\ LedgerHonest' /\ Claimed'
  BY DEF IInv, AtMostOnce, LedgerHonest, Claimed
<1>4. UnderWay' /\ Alone'
  BY <1>1 DEF IInv, UnderWay, Alone
<1> QED
  BY <1>2, <1>3, <1>4 DEF IInv

\* What is found due are items.
LEMMA DueItems ==
    ASSUME TypeOK, NEW r \in Reader, NEW t
    PROVE  DueEvents(r, t) \cup DueSummary(r, t) \subseteq Items
<1>1. ASSUME NEW e \in Events, NEW d \in Inspected(r, t), start[e][d] # None
      PROVE  [user |-> r.user, event |-> e, start |-> start[e][d], day |-> d] \in Items
  BY <1>1, ReminderAssumption DEF TypeOK, Inspected, Items, Reader
<1>2. ASSUME NEW d \in Days
      PROVE  [user |-> r.user, event |-> Summary, start |-> None, day |-> d] \in Items
  BY DEF Items, Reader
<1>3. DueEvents(r, t) \subseteq Items
  BY <1>1 DEF DueEvents
<1>4. DueSummary(r, t) \subseteq Items
  BY <1>2 DEF DueSummary
<1> QED
  BY <1>3, <1>4

-----------------------------------------------------------------------------
(* One lemma per step of a process. *)

LEMMA BeginStep ==
    ASSUME IInv, NEW w \in Workers, BeginTick(w)
    PROVE  IInv'
<1> DEFINE T == {[user |-> u, lead |-> lead[u], evening |-> evening[u]] : u \in wants}
           q == [worker[w] EXCEPT !.pc = "ticking", !.at = now, !.todo = T]
<1>1. worker' = [worker EXCEPT ![w] = q]
  BY Zenon DEF BeginTick
<1>2. worker[w] \in Worker /\ worker[w].item = None /\ worker[w].outcome = None
  BY DEF IInv, TypeOK, BeginTick
<1>3. T \in SUBSET Reader
  BY DEF IInv, TypeOK, Reader
<1>4. now \in 0 .. LastTime + Poll
  BY ReminderAssumption DEF IInv, TypeOK
<1> HIDE DEF T
<1>5. q \in Worker /\ q.pc = "ticking" /\ q.item = None /\ q.outcome = None
  BY <1>2, <1>3, <1>4 DEF Worker
<1> HIDE DEF q
<1> QED
  BY <1>1, <1>5, DroppedStep DEF BeginTick

LEMMA ExamineStep ==
    ASSUME IInv, NEW w \in Workers, NEW r \in worker[w].todo,
           Examine(w, r) \/ ExamineFails(w, r)
    PROVE  IInv'
<1> DEFINE Q == DueEvents(r, worker[w].at) \cup DueSummary(r, worker[w].at)
           T == worker[w].todo \ {r}
           q == [worker[w] EXCEPT !.todo = T, !.queue = Q]
           f == [worker[w] EXCEPT !.todo = T]
<1>1. worker' = [worker EXCEPT ![w] = q] \/ worker' = [worker EXCEPT ![w] = f]
  <2>1. CASE Examine(w, r)
    BY <2>1, Zenon DEF Examine
  <2>2. CASE ExamineFails(w, r)
    BY <2>2, Zenon DEF ExamineFails
  <2> QED
    BY <2>1, <2>2
<1>2. /\ worker[w] \in Worker /\ worker[w].pc = "ticking"
      /\ worker[w].item = None /\ worker[w].outcome = None
  BY DEF IInv, TypeOK, Examine, ExamineFails, Ready
<1>3. r \in Reader /\ T \in SUBSET Reader
  BY <1>2 DEF Worker
<1>4. Q \in SUBSET Items
  BY <1>3, DueItems DEF IInv
<1> HIDE DEF Q, T
<1>5. /\ q \in Worker /\ q.pc = "ticking" /\ q.item = None /\ q.outcome = None
      /\ f \in Worker /\ f.pc = "ticking" /\ f.item = None /\ f.outcome = None
  BY <1>2, <1>3, <1>4 DEF Worker
<1> HIDE DEF q, f
<1> QED
  BY <1>1, <1>5, DroppedStep DEF Examine, ExamineFails

\* The end of a tick, a crash and a restart leave a process with nothing.
LEMMA IdleStep ==
    ASSUME IInv, NEW w \in Workers, EndTick(w) \/ Crash(w) \/ Restart(w)
    PROVE  IInv'
<1>1. /\ Asleep(now + Poll) \in Worker /\ Asleep(0) \in Worker
      /\ [Asleep(0) EXCEPT !.pc = "down"] \in Worker
      /\ [Asleep(0) EXCEPT !.pc = "down"].item = None
      /\ [Asleep(0) EXCEPT !.pc = "down"].outcome = None
      /\ [Asleep(0) EXCEPT !.pc = "down"].pc = "down"
  BY ReminderAssumption DEF IInv, TypeOK, Asleep, Worker
<1>2. CASE EndTick(w)
  BY <1>1, <1>2, DroppedStep DEF EndTick, Asleep
<1>3. CASE Crash(w)
  BY <1>1, <1>3, DroppedStep DEF Crash
<1>4. CASE Restart(w)
  BY <1>1, <1>4, DroppedStep DEF Restart, Asleep
<1> QED
  BY <1>2, <1>3, <1>4

\* A row for an item that had none; nothing is held that has none.
LEMMA NewRow ==
    ASSUME IInv, NEW i \in Items, ledger[i] = None,
           ledger' = [ledger EXCEPT ![i] = "pending"], UNCHANGED arrived
    PROVE  /\ ledger' \in [Items -> Statuses]
           /\ AtMostOnce' /\ LedgerHonest' /\ Claimed'
           /\ arrived[i] = 0
           /\ \A v \in Workers : worker[v].item # i
           /\ \A v \in Workers : worker[v].item # None =>
                 ledger'[worker[v].item] = ledger[worker[v].item]
<1>1. ledger \in [Items -> Statuses] /\ arrived[i] = 0 /\ None # "pending"
  BY ReminderAssumption DEF IInv, TypeOK, Claimed
<1>2. \A v \in Workers : worker[v].item \in Items \cup {None}
  BY DEF IInv, TypeOK, Worker
<1>3. \A v \in Workers : worker[v].item # i
  BY <1>1, NoneAssumption DEF IInv, UnderWay
<1> QED
  BY <1>1, <1>2, <1>3, ReminderAssumption
     DEF IInv, Statuses, AtMostOnce, LedgerHonest, Claimed

LEMMA ClaimStep ==
    ASSUME IInv, NEW w \in Workers, NEW i \in worker[w].queue, Claim(w, i)
    PROVE  IInv'
<1>1. /\ worker[w] \in Worker /\ worker[w].pc = "ticking" /\ i \in Items
      /\ worker[w].item = None /\ worker[w].outcome = None
  BY DEF IInv, TypeOK, Claim, Worker
<1>2. CASE ledger[i] = None /\ i.user \in wants
  <2> DEFINE q == [worker[w] EXCEPT !.queue = worker[w].queue \ {i}, !.pc = "sending", !.item = i]
  <2>1. /\ ledger' = [ledger EXCEPT ![i] = "pending"]
        /\ UNCHANGED <<now, settings, arrived, optedOut>>
    BY <1>2 DEF Claim, KeyOf
  <2>2. worker' = [worker EXCEPT ![w] = q]
    BY <1>2, Zenon DEF Claim, KeyOf
  <2>3. q \in Worker /\ q.pc = "sending" /\ q.item = i /\ q.outcome = None
    BY <1>1 DEF Worker
  <2> HIDE DEF q
  <2>4. \A v \in Workers : worker'[v] = IF v = w THEN q ELSE worker[v]
    BY <2>2 DEF IInv, TypeOK
  <2>5. i # None /\ None # "sent" /\ ledger'[i] = "pending"
    BY <1>1, <2>1, NoneAssumption, ReminderAssumption DEF IInv, TypeOK
  <2>6. TypeOK'
    BY <1>2, <2>1, <2>2, <2>3, <2>4, <2>5, NewRow, <1>1 DEF IInv, TypeOK, settings
  <2>7. /\ arrived[i] = 0 /\ arrived' = arrived
        /\ \A v \in Workers : worker[v].item # i
        /\ \A v \in Workers : worker[v].item # None =>
              ledger'[worker[v].item] = ledger[worker[v].item]
        /\ AtMostOnce' /\ LedgerHonest' /\ Claimed'
    BY <1>1, <1>2, <2>1, NewRow
  <2>8. UnderWay'
    <3> SUFFICES ASSUME NEW v \in Workers, worker'[v].item # None
                 PROVE  /\ ledger'[worker'[v].item] = "pending"
                        /\ worker'[v].pc = "sending" => arrived'[worker'[v].item] = 0
                        /\ worker'[v].outcome = "sent" => arrived'[worker'[v].item] = 1
      BY DEF UnderWay
    <3>1. CASE v = w
      BY <2>3, <2>4, <2>5, <2>7, <3>1
    <3>2. CASE v # w
      BY <2>4, <2>7, <3>2 DEF IInv, UnderWay
    <3> QED
      BY <3>1, <3>2
  <2>9. Alone'
    BY <2>3, <2>4, <2>7 DEF IInv, Alone
  <2> QED
    BY <2>6, <2>7, <2>8, <2>9 DEF IInv
<1>3. CASE ~(ledger[i] = None /\ i.user \in wants)
  <2> DEFINE q == [worker[w] EXCEPT !.queue = @ \ {i}, !.pc = @, !.item = @]
  <2>1. UNCHANGED <<now, settings, ledger, arrived, optedOut>>
    BY <1>3 DEF Claim, KeyOf
  <2>2. worker' = [worker EXCEPT ![w] = q]
    BY <1>3, Zenon DEF Claim, KeyOf
  <2>3. q \in Worker /\ q.pc = "ticking" /\ q.item = None /\ q.outcome = None
    BY <1>1 DEF Worker
  <2> HIDE DEF q
  <2> QED
    BY <2>1, <2>2, <2>3, DroppedStep
<1> QED
  BY <1>2, <1>3

\* The message arrives or not, and the call ends.
LEMMA SendStep ==
    ASSUME IInv, NEW w \in Workers, NEW reaches \in BOOLEAN, NEW answer \in {"sent", "failed"},
           Send(w, reaches, answer)
    PROVE  IInv'
<1> DEFINE i == worker[w].item
           q == [worker[w] EXCEPT !.pc = "recording", !.outcome = answer]
<1>1. /\ worker[w] \in Worker /\ worker[w].pc = "sending" /\ i \in Items
      /\ i # None /\ ledger[i] = "pending" /\ arrived[i] = 0 /\ answer # None
  BY ReminderAssumption DEF IInv, TypeOK, Send, Worker, UnderWay
<1>2. worker' = [worker EXCEPT ![w] = q]
  BY <1>1 DEF IInv, TypeOK, Send, Worker
<1>3. /\ arrived' = IF reaches THEN [arrived EXCEPT ![i] = @ + 1] ELSE arrived
      /\ optedOut' = IF reaches /\ i.user \notin wants
                     THEN [optedOut EXCEPT ![i.user] = @ + 1] ELSE optedOut
      /\ answer = "sent" => reaches
      /\ UNCHANGED <<now, settings, ledger>>
  BY DEF Send
<1>4. q \in Worker /\ q.pc = "recording" /\ q.item = i /\ q.outcome = answer
  BY <1>1 DEF Worker
<1> HIDE DEF q
<1>5. \A v \in Workers : worker'[v] = IF v = w THEN q ELSE worker[v]
  BY <1>2 DEF IInv, TypeOK
<1>6. \A v \in Workers \ {w} : worker[v].item # i
  BY <1>1 DEF IInv, Alone
<1> HIDE DEF i
<1>7. /\ arrived' \in [Items -> Nat]
      /\ arrived'[i] \in {0, 1}
      /\ answer = "sent" => arrived'[i] = 1
      /\ \A j \in Items \ {i} : arrived'[j] = arrived[j]
  BY <1>1, <1>3 DEF IInv, TypeOK
<1>8. TypeOK'
  <2>1. i.user \in Users
    BY <1>1 DEF Items
  <2>2. optedOut' \in [Users -> Nat]
    BY <1>3, <2>1 DEF IInv, TypeOK
  <2> QED
    BY <1>1, <1>2, <1>3, <1>4, <1>5, <1>7, <2>2 DEF IInv, TypeOK, settings
<1>9. AtMostOnce' /\ LedgerHonest' /\ Claimed'
  BY <1>1, <1>3, <1>7, ReminderAssumption DEF IInv, TypeOK, AtMostOnce, LedgerHonest, Claimed
<1>10. UnderWay'
  <2>1. \A v \in Workers \ {w} : worker[v].item # None => worker[v].item \in Items \ {i}
    BY <1>6 DEF IInv, TypeOK, Worker
  <2> SUFFICES ASSUME NEW v \in Workers, worker'[v].item # None
               PROVE  /\ ledger'[worker'[v].item] = "pending"
                      /\ worker'[v].pc = "sending" => arrived'[worker'[v].item] = 0
                      /\ worker'[v].outcome = "sent" => arrived'[worker'[v].item] = 1
    BY DEF UnderWay
  <2>2. CASE v = w
    BY <1>1, <1>3, <1>4, <1>5, <1>7, <2>2
  <2>3. CASE v # w
    BY <1>3, <1>5, <1>7, <2>1, <2>3 DEF IInv, UnderWay
  <2> QED
    BY <2>2, <2>3
<1>11. Alone'
  BY <1>4, <1>5, <1>6 DEF IInv, Alone
<1> QED
  BY <1>8, <1>9, <1>10, <1>11 DEF IInv

\* A row that was pending gets the outcome of the only sending.
LEMMA RecordStep ==
    ASSUME IInv, NEW w \in Workers, Record(w)
    PROVE  IInv'
<1> DEFINE i == worker[w].item
           q == [worker[w] EXCEPT !.pc = "ticking", !.item = None, !.outcome = None]
<1>1. /\ worker[w] \in Worker /\ worker[w].outcome \in {"sent", "failed"} /\ i \in Items
      /\ i # None
      /\ worker[w].outcome = "sent" => arrived[i] = 1
  BY DEF IInv, TypeOK, Record, Worker, UnderWay
<1>2. worker' = [worker EXCEPT ![w] = q]
  BY Zenon DEF Record
<1>3. /\ ledger' = [ledger EXCEPT ![i] = worker[w].outcome]
      /\ UNCHANGED <<now, settings, arrived, optedOut>>
  BY DEF Record, KeyOf
<1>4. q \in Worker /\ q.pc = "ticking" /\ q.item = None /\ q.outcome = None
  BY <1>1 DEF Worker
<1> HIDE DEF q
<1>5. \A v \in Workers : worker'[v] = IF v = w THEN q ELSE worker[v]
  BY <1>2 DEF IInv, TypeOK
<1>6. \A v \in Workers \ {w} : worker[v].item # None => worker[v].item \in Items \ {i}
  BY <1>1 DEF IInv, TypeOK, Alone, Worker
<1> HIDE DEF i
<1>7. \A j \in Items : ledger'[j] = IF j = i THEN worker[w].outcome ELSE ledger[j]
  BY <1>3 DEF IInv, TypeOK
<1>8. TypeOK'
  <2>1. ledger' \in [Items -> Statuses]
    BY <1>1, <1>3 DEF IInv, TypeOK, Statuses
  <2> QED
    BY <1>2, <1>3, <1>4, <1>5, <2>1 DEF IInv, TypeOK, settings
<1>9. AtMostOnce' /\ LedgerHonest' /\ Claimed'
  BY <1>1, <1>3, <1>7, ReminderAssumption DEF IInv, AtMostOnce, LedgerHonest, Claimed
<1>10. UnderWay'
  <2> SUFFICES ASSUME NEW v \in Workers, worker'[v].item # None
               PROVE  /\ ledger'[worker'[v].item] = "pending"
                      /\ worker'[v].pc = "sending" => arrived'[worker'[v].item] = 0
                      /\ worker'[v].outcome = "sent" => arrived'[worker'[v].item] = 1
    BY DEF UnderWay
  <2>1. v # w /\ worker[v].item \in Items \ {i} /\ worker'[v] = worker[v]
    BY <1>4, <1>5, <1>6
  <2> QED
    BY <1>3, <1>7, <2>1 DEF IInv, UnderWay
<1>11. Alone'
  BY <1>4, <1>5 DEF IInv, Alone
<1> QED
  BY <1>8, <1>9, <1>10, <1>11 DEF IInv

\* What is dropped stays claimed, or becomes so.
LEMMA AbandonStep ==
    ASSUME IInv, NEW w \in Workers, Abandon(w)
    PROVE  IInv'
<1> DEFINE q == [worker[w] EXCEPT !.pc = "ticking", !.queue = {},
                                  !.item = None, !.outcome = None]
<1>1. worker[w] \in Worker /\ worker[w].queue \subseteq Items
  BY DEF IInv, TypeOK, Worker
<1>2. worker' = [worker EXCEPT ![w] = q]
  BY Zenon DEF Abandon
<1>3. q \in Worker /\ q.pc = "ticking" /\ q.item = None /\ q.outcome = None
  BY <1>1 DEF Worker
<1> HIDE DEF q
<1>4. UNCHANGED <<now, settings, arrived, optedOut>>
  BY DEF Abandon
<1>5. CASE UNCHANGED ledger
  BY <1>2, <1>3, <1>4, <1>5, DroppedStep
<1>6. ASSUME NEW i \in Items, ledger[i] = None, ledger' = [ledger EXCEPT ![i] = "pending"]
      PROVE  IInv'
  <2>1. \A v \in Workers : worker'[v] = IF v = w THEN q ELSE worker[v]
    BY <1>2 DEF IInv, TypeOK
  <2>2. /\ ledger' \in [Items -> Statuses]
        /\ AtMostOnce' /\ LedgerHonest' /\ Claimed'
        /\ \A v \in Workers : worker[v].item # None =>
              ledger'[worker[v].item] = ledger[worker[v].item]
    BY <1>4, <1>6, NewRow
  <2>3. TypeOK'
    BY <1>2, <1>3, <1>4, <2>1, <2>2 DEF IInv, TypeOK, settings
  <2>4. UnderWay' /\ Alone'
    BY <1>3, <1>4, <2>1, <2>2 DEF IInv, UnderWay, Alone
  <2> QED
    BY <2>2, <2>3, <2>4 DEF IInv
<1> QED
  BY <1>1, <1>5, <1>6 DEF Abandon, KeyOf

-----------------------------------------------------------------------------
\* The people and the clock change nothing that the loop relies on.
LEMMA OtherStep ==
    ASSUME IInv, UNCHANGED <<ledger, worker, arrived>>,
           Advance \/ (\E u \in Users : SwitchOff(u) \/ SwitchOn(u))
                   \/ \E c \in Changes : Reschedule(c.event, c.day, c.start)
    PROVE  IInv'
<1>1. TypeOK'
  <2>1. CASE Advance
    BY <2>1, ReminderAssumption DEF IInv, TypeOK, Advance, settings
  <2>2. CASE \E u \in Users : SwitchOff(u) \/ SwitchOn(u)
    BY <2>2 DEF IInv, TypeOK, SwitchOff, SwitchOn
  <2>3. ASSUME NEW c \in Changes, Reschedule(c.event, c.day, c.start)
        PROVE  TypeOK'
    <3>1. c.event \in Events /\ c.day \in Days /\ c.start \in Starts \cup {None}
      BY ReminderAssumption
    <3> QED
      BY <2>3, <3>1 DEF IInv, TypeOK, Reschedule
  <2> QED
    BY <2>1, <2>2, <2>3
<1>2. (AtMostOnce /\ LedgerHonest /\ Claimed /\ UnderWay /\ Alone)'
  BY DEF IInv, AtMostOnce, LedgerHonest, Claimed, UnderWay, Alone
<1> QED
  BY <1>1, <1>2 DEF IInv

LEMMA InitIInv == Init => IInv
<1> SUFFICES ASSUME Init PROVE IInv
  OBVIOUS
<1>1. TypeOK
  BY ReminderAssumption DEF Init, TypeOK, Worker, Asleep, Statuses, Items
<1>2. AtMostOnce /\ LedgerHonest /\ Claimed /\ UnderWay /\ Alone
  BY ReminderAssumption
     DEF Init, AtMostOnce, LedgerHonest, Claimed, UnderWay, Alone, Asleep
<1> QED
  BY <1>1, <1>2 DEF IInv

LEMMA NextIInv == IInv /\ [Next]_vars => IInv'
<1> SUFFICES ASSUME IInv, [Next]_vars PROVE IInv'
  OBVIOUS
<1>1. ASSUME NEW w \in Workers, LoopStep(w) \/ Abandon(w) \/ Crash(w) \/ Restart(w)
      PROVE  IInv'
  BY <1>1, BeginStep, ExamineStep, ClaimStep, SendStep, RecordStep, IdleStep, AbandonStep
     DEF LoopStep
<1>2. CASE Advance \/ (\E u \in Users : SwitchOff(u) \/ SwitchOn(u))
                   \/ \E c \in Changes : Reschedule(c.event, c.day, c.start)
  BY <1>2, OtherStep DEF Advance, SwitchOff, SwitchOn, Reschedule
<1>3. CASE UNCHANGED vars
  BY <1>3 DEF vars, IInv, TypeOK, AtMostOnce, LedgerHonest, Claimed, UnderWay, Alone
<1> QED
  BY <1>1, <1>2, <1>3 DEF Next

LEMMA Invariance == Spec => []IInv
  BY InitIInv, NextIInv, PTL DEF Spec

-----------------------------------------------------------------------------
\* The variables keep their types, and a process holds an item exactly while it
\* delivers it, whatever fails and whoever dies.
THEOREM TypeCorrect == Spec => []TypeOK
<1>1. IInv => TypeOK
  BY DEF IInv
<1> QED
  BY <1>1, Invariance, PTL

\* No message about one start of a lesson, or one day's summary, reaches a user
\* twice, with any number of processes, crashes and failures between the claim,
\* the sending and the record of its outcome.
THEOREM NeverTwice == Spec => []AtMostOnce
<1>1. IInv => AtMostOnce
  BY DEF IInv
<1> QED
  BY <1>1, Invariance, PTL

\* A row says "sent" only of a message that arrived.
THEOREM HonestLedger == Spec => []LedgerHonest
<1>1. IInv => LedgerHonest
  BY DEF IInv
<1> QED
  BY <1>1, Invariance, PTL

-----------------------------------------------------------------------------
(* Switching reminders off. *)

Sending(u) == {w \in Workers : worker[w].pc = "sending" /\ worker[w].item.user = u}

\* Messages that arrived since the switch, and the ones that still may: only a
\* process that was sending at the switch adds to the former, and it leaves the
\* latter by doing so.
Budget ==
    \A u \in Users :
        /\ optedOut[u] <= Cardinality(Workers)
        /\ u \notin wants => optedOut[u] + Cardinality(Sending(u)) <= Cardinality(Workers)

OInv == IInv /\ Budget

LEMMA SomeWorkers ==
    ASSUME NEW S \in SUBSET Workers
    PROVE  /\ IsFiniteSet(S) /\ Cardinality(S) \in Nat
           /\ Cardinality(S) <= Cardinality(Workers)
           /\ \A T \in SUBSET S : Cardinality(T) <= Cardinality(S)
           /\ \A w \in S : Cardinality(S \ {w}) = Cardinality(S) - 1
  BY ReminderAssumption, FS_Subset, FS_CardinalityType, FS_RemoveElement

\* A step after which nobody else is sending, and which delivers nothing.
LEMMA FewerSending ==
    ASSUME IInv, Budget, UNCHANGED <<wants, optedOut>>,
           \A u \in Users \ wants : Sending(u)' \subseteq Sending(u)
    PROVE  Budget'
<1> SUFFICES ASSUME NEW u \in Users
             PROVE  /\ optedOut[u] <= Cardinality(Workers)
                    /\ u \notin wants =>
                          optedOut[u] + Cardinality(Sending(u)') <= Cardinality(Workers)
  BY DEF Budget
<1>1. optedOut[u] <= Cardinality(Workers)
  BY DEF Budget
<1>2. ASSUME u \notin wants
      PROVE  optedOut[u] + Cardinality(Sending(u)') <= Cardinality(Workers)
  <2>1. /\ Sending(u) \in SUBSET Workers /\ Sending(u)' \in SUBSET Sending(u)
        /\ Sending(u)' \in SUBSET Workers
    BY <1>2 DEF Sending
  <2>2. /\ Cardinality(Sending(u)') <= Cardinality(Sending(u))
        /\ Cardinality(Sending(u)) \in Nat /\ Cardinality(Sending(u)') \in Nat
        /\ Cardinality(Workers) \in Nat
    BY <2>1, SomeWorkers
  <2>3. optedOut[u] \in Nat /\ optedOut[u] + Cardinality(Sending(u)) <= Cardinality(Workers)
    BY <1>2 DEF Budget, IInv, TypeOK
  <2> QED
    BY <2>2, <2>3
<1> QED
  BY <1>1, <1>2

\* A claim is refused to a user who no longer wants any message.
LEMMA LoopBudget ==
    ASSUME IInv, Budget, NEW w \in Workers,
           LoopStep(w) \/ Abandon(w) \/ Crash(w) \/ Restart(w),
           ~ \E reaches \in BOOLEAN, answer \in {"sent", "failed"} : Send(w, reaches, answer)
    PROVE  Budget'
<1>1. wants' = wants /\ optedOut' = optedOut
  BY DEF LoopStep, BeginTick, Examine, ExamineFails, Claim, Record, EndTick,
         Abandon, Crash, Restart, settings
<1> DEFINE Harmless(q) == q.pc = "sending" => q.item.user \in wants
           Becomes(q) == worker' = [worker EXCEPT ![w] = q]
<1>2. \E q : Becomes(q) /\ Harmless(q)
  <2>1. worker[w] \in Worker
    BY DEF IInv, TypeOK
  <2>2. ASSUME NEW i \in worker[w].queue, Claim(w, i)
        PROVE  \E q : Becomes(q) /\ Harmless(q)
    <3> DEFINE fresh == ledger[i] = None /\ i.user \in wants
               q == [worker[w] EXCEPT !.queue = worker[w].queue \ {i},
                                      !.pc = IF fresh THEN "sending" ELSE worker[w].pc,
                                      !.item = IF fresh THEN i ELSE worker[w].item]
    <3>1. Becomes(q)
      BY <2>2, Zenon DEF Claim, KeyOf
    <3>2. worker[w].pc = "ticking"
      BY <2>2 DEF Claim
    <3>3. Harmless(q)
      BY <2>1, <3>2 DEF Worker
    <3> HIDE DEF q, Becomes, Harmless
    <3> QED
      BY <3>1, <3>3
  <2>3. CASE BeginTick(w)
    <3> DEFINE q == [worker[w] EXCEPT
                        !.pc = "ticking", !.at = now,
                        !.todo = {[user |-> u, lead |-> lead[u], evening |-> evening[u]] :
                                     u \in wants}]
    <3>1. Becomes(q)
      BY <2>3, Zenon DEF BeginTick
    <3>2. Harmless(q)
      BY <2>1 DEF Worker
    <3> HIDE DEF q, Becomes, Harmless
    <3> QED
      BY <3>1, <3>2
  <2>4. ASSUME NEW r \in worker[w].todo, Examine(w, r)
        PROVE  \E q : Becomes(q) /\ Harmless(q)
    <3> DEFINE q == [worker[w] EXCEPT
                        !.todo = worker[w].todo \ {r},
                        !.queue = DueEvents(r, worker[w].at) \cup DueSummary(r, worker[w].at)]
    <3>1. Becomes(q)
      BY <2>4, Zenon DEF Examine
    <3>2. Harmless(q)
      BY <2>1, <2>4 DEF Worker, Examine, Ready
    <3> HIDE DEF q, Becomes, Harmless
    <3> QED
      BY <3>1, <3>2
  <2>5. ASSUME NEW r \in worker[w].todo, ExamineFails(w, r)
        PROVE  \E q : Becomes(q) /\ Harmless(q)
    <3> DEFINE q == [worker[w] EXCEPT !.todo = worker[w].todo \ {r}]
    <3>1. Becomes(q)
      BY <2>5, Zenon DEF ExamineFails
    <3>2. Harmless(q)
      BY <2>1, <2>5 DEF Worker, ExamineFails, Ready
    <3> HIDE DEF q, Becomes, Harmless
    <3> QED
      BY <3>1, <3>2
  <2>6. CASE Record(w)
    <3> DEFINE q == [worker[w] EXCEPT !.pc = "ticking", !.item = None, !.outcome = None]
    <3>1. Becomes(q)
      BY <2>6, Zenon DEF Record
    <3>2. Harmless(q)
      BY <2>1 DEF Worker
    <3> HIDE DEF q, Becomes, Harmless
    <3> QED
      BY <3>1, <3>2
  <2>7. CASE Abandon(w)
    <3> DEFINE q == [worker[w] EXCEPT !.pc = "ticking", !.queue = {},
                                      !.item = None, !.outcome = None]
    <3>1. Becomes(q)
      BY <2>7, Zenon DEF Abandon
    <3>2. Harmless(q)
      BY <2>1 DEF Worker
    <3> HIDE DEF q, Becomes, Harmless
    <3> QED
      BY <3>1, <3>2
  <2>8. CASE EndTick(w)
    <3>1. Becomes(Asleep(now + Poll))
      BY <2>8 DEF EndTick
    <3>2. Harmless(Asleep(now + Poll))
      BY DEF Asleep
    <3> HIDE DEF Becomes, Harmless
    <3> QED
      BY <3>1, <3>2
  <2>9. CASE Crash(w) \/ Restart(w)
    <3>1. /\ Asleep(0).pc = "asleep"
          /\ [Asleep(0) EXCEPT !.pc = "down"].pc = "down"
      BY DEF Asleep
    <3> QED
      BY <2>9, <3>1 DEF Crash, Restart
  <2> HIDE DEF Becomes, Harmless
  <2> QED
    BY <2>2, <2>3, <2>4, <2>5, <2>6, <2>7, <2>8, <2>9 DEF LoopStep
<1>q. PICK q : worker' = [worker EXCEPT ![w] = q] /\ (q.pc = "sending" => q.item.user \in wants)
  BY <1>2
<1>3. \A v \in Workers : worker'[v] = IF v = w THEN q ELSE worker[v]
  BY <1>q DEF IInv, TypeOK
<1>4. \A u \in Users \ wants : Sending(u)' \subseteq Sending(u)
  BY <1>q, <1>3 DEF Sending
<1> QED
  BY <1>1, <1>4, FewerSending

\* A message that arrives after the switch uses up the place of its process.
LEMMA SendBudget ==
    ASSUME IInv, Budget, NEW w \in Workers, NEW reaches \in BOOLEAN,
           NEW answer \in {"sent", "failed"}, Send(w, reaches, answer)
    PROVE  Budget'
<1> DEFINE q == [worker[w] EXCEPT !.pc = "recording", !.outcome = answer]
<1>1. /\ worker[w] \in Worker /\ worker[w].pc = "sending" /\ worker[w].item \in Items
  BY DEF IInv, TypeOK, Send, Worker
<1>x. PICK x \in Users : worker[w].item.user = x /\ w \in Sending(x)
  BY <1>1 DEF Items, Sending
<1>2. worker' = [worker EXCEPT ![w] = q] /\ q.pc = "recording"
  BY <1>1 DEF IInv, TypeOK, Send, Worker
<1> HIDE DEF q
<1>3. \A v \in Workers : worker'[v] = IF v = w THEN q ELSE worker[v]
  BY <1>2 DEF IInv, TypeOK
<1>4. \A u \in Users : Sending(u)' \subseteq Sending(u) \ {w}
  BY <1>2, <1>3 DEF Sending
<1>5. wants' = wants
  BY DEF Send, settings
<1>6. CASE optedOut' = optedOut
  BY <1>4, <1>5, <1>6, FewerSending
<1>7. CASE x \notin wants /\ optedOut' = [optedOut EXCEPT ![x] = @ + 1]
  <2> SUFFICES ASSUME NEW u \in Users
               PROVE  /\ optedOut'[u] <= Cardinality(Workers)
                      /\ u \notin wants =>
                            optedOut'[u] + Cardinality(Sending(u)') <= Cardinality(Workers)
    BY <1>5 DEF Budget
  <2>1. /\ Sending(u) \in SUBSET Workers /\ Sending(u)' \in SUBSET Sending(u)
        /\ Sending(u)' \in SUBSET Workers
    BY <1>4 DEF Sending
  <2>2. /\ Cardinality(Sending(u)') <= Cardinality(Sending(u))
        /\ Cardinality(Sending(u)) \in Nat /\ Cardinality(Sending(u)') \in Nat
        /\ Cardinality(Workers) \in Nat
    BY <2>1, SomeWorkers
  <2>3. /\ optedOut \in [Users -> Nat] /\ optedOut[u] <= Cardinality(Workers)
        /\ u \notin wants => optedOut[u] + Cardinality(Sending(u)) <= Cardinality(Workers)
    BY DEF Budget, IInv, TypeOK
  <2>4. CASE u = x
    <3>1. Sending(x)' \in SUBSET (Sending(x) \ {w}) /\ Sending(x) \ {w} \in SUBSET Workers
      BY <1>4, <2>1, <2>4
    <3>2. /\ Cardinality(Sending(x)') <= Cardinality(Sending(x) \ {w})
          /\ Cardinality(Sending(x) \ {w}) = Cardinality(Sending(x)) - 1
      BY <1>x, <2>1, <2>4, <3>1, SomeWorkers
    <3>3. optedOut'[x] = optedOut[x] + 1
      BY <1>7, <2>3
    <3> QED
      BY <1>7, <2>2, <2>3, <2>4, <3>2, <3>3
  <2>5. CASE u # x
    BY <1>7, <2>2, <2>3, <2>5
  <2> QED
    BY <2>4, <2>5
<1> QED
  BY <1>x, <1>6, <1>7 DEF Send

LEMMA NextOInv == OInv /\ [Next]_vars => OInv'
<1> SUFFICES ASSUME IInv, Budget, [Next]_vars PROVE Budget'
  BY NextIInv DEF OInv
<1>1. ASSUME NEW w \in Workers, LoopStep(w) \/ Abandon(w) \/ Crash(w) \/ Restart(w)
      PROVE  Budget'
  BY <1>1, LoopBudget, SendBudget
<1>2. ASSUME NEW x \in Users, SwitchOff(x)
      PROVE  Budget'
  <2> SUFFICES ASSUME NEW u \in Users
               PROVE  /\ optedOut'[u] <= Cardinality(Workers)
                      /\ u \notin wants' =>
                            optedOut'[u] + Cardinality(Sending(u)') <= Cardinality(Workers)
    BY DEF Budget
  <2>1. /\ Sending(u)' = Sending(u) /\ Sending(u) \in SUBSET Workers
        /\ wants' = wants \ {x} /\ optedOut' = [optedOut EXCEPT ![x] = 0]
    BY <1>2 DEF SwitchOff, Sending
  <2>2. /\ Cardinality(Sending(u)) \in Nat /\ Cardinality(Workers) \in Nat
        /\ Cardinality(Sending(u)) <= Cardinality(Workers)
    BY <2>1, SomeWorkers
  <2> QED
    BY <2>1, <2>2 DEF Budget, IInv, TypeOK
<1>3. ASSUME NEW x \in Users, SwitchOn(x)
      PROVE  Budget'
  <2>1. /\ wants' = wants \cup {x} /\ optedOut' = optedOut /\ worker' = worker
        /\ \A u \in Users : Sending(u)' = Sending(u)
    BY <1>3 DEF SwitchOn, Sending
  <2> QED
    BY <2>1 DEF Budget
<1>4. CASE \/ UNCHANGED vars \/ Advance
           \/ \E c \in Changes : Reschedule(c.event, c.day, c.start)
  <2>1. UNCHANGED <<wants, optedOut, worker>>
    BY <1>4 DEF vars, Advance, Reschedule, settings
  <2>2. \A u \in Users : Sending(u)' = Sending(u)
    BY <2>1 DEF Sending
  <2> QED
    BY <2>1, <2>2, FewerSending
<1> QED
  BY <1>1, <1>2, <1>3, <1>4 DEF Next

LEMMA InitOInv == Init => OInv
<1> SUFFICES ASSUME Init PROVE Budget
  BY InitIInv DEF OInv
<1>1. \A u \in Users : optedOut[u] = 0 /\ Sending(u) = {}
  BY DEF Init, Asleep, Sending
<1>2. Cardinality({}) = 0 /\ Cardinality(Workers) \in Nat
  BY SomeWorkers, FS_EmptySet
<1> QED
  BY <1>1, <1>2 DEF Budget

\* Whoever has switched reminders off gets at most one message from each process
\* afterwards, the one it was sending, because every claim asks again.
THEOREM OptOutStops == Spec => []OptOutStopsSending
<1>1. OInv => OptOutStopsSending
  BY DEF OInv, Budget, OptOutStopsSending
<1> QED
  BY <1>1, InitOInv, NextOInv, PTL DEF Spec

-----------------------------------------------------------------------------
(* In time.                                                                *)

\* A process that keeps its times: it wakes when it should, and no tick takes
\* too long.
Clocked ==
    \A w \in Workers :
        /\ worker[w].pc # "down"
        /\ worker[w].pc = "asleep" => now <= worker[w].at
        /\ worker[w].pc # "asleep" => now <= worker[w].at + TickBound

\* The item i of the user u falls due at the time t.
DueAt(u, i, t) ==
    \/ \E e \in Events, d \in Days :
          /\ start[e][d] # None
          /\ t = StartOf(e, d) - lead[u]
          /\ i = [user |-> u, event |-> e, start |-> start[e][d], day |-> d]
    \/ \E d \in Days :
          /\ evening[u] # None
          /\ t = d * DayLength + evening[u]
          /\ i = [user |-> u, event |-> Summary, start |-> None, day |-> d]

\* The last time at which a tick that finds what fell due at t may begin.
Latest(t) == t + Poll + TickBound - 1

ReaderOf(u) == [user |-> u, lead |-> lead[u], evening |-> evening[u]]

\* i, due at t, is claimed, or the process w has still to come to it: in a tick
\* to come, or in this one, where u is still to be looked at or i is found.
Coming(w, u, i, t) ==
    \/ ledger[i] # None
    \/ worker[w].pc = "asleep" /\ worker[w].at <= Latest(t)
    \/ worker[w].pc # "asleep" /\ worker[w].at < t
    \/ /\ worker[w].pc # "asleep" /\ worker[w].at <= Latest(t)
       /\ ReaderOf(u) \in worker[w].todo \/ i \in worker[w].queue

AllComing ==
    \A w \in Workers, u \in wants \ Flaky, i \in Items, t \in Nat :
        DueAt(u, i, t) => Coming(w, u, i, t)

TInv == Clocked /\ AllComing

\* Days and times of day.
LEMMA DayTime ==
    ASSUME NEW n \in Nat \ {0}, NEW t \in Nat
    PROVE  /\ t \div n \in Int /\ t % n \in 0 .. n - 1
           /\ t = n * (t \div n) + (t % n)
OBVIOUS

LEMMA SameDay ==
    ASSUME NEW n \in Nat \ {0}, NEW t \in Nat, NEW d \in Int,
           d * n <= t, t < d * n + n
    PROVE  t \div n = d /\ t % n = t - d * n
<1>1. /\ t \div n \in Int /\ t % n \in Int /\ 0 <= t % n /\ t % n < n
      /\ t = n * (t \div n) + (t % n)
  BY DayTime
<1> DEFINE q == t \div n
           r == t % n
<1>2. /\ q \in Int /\ r \in Int /\ 0 <= r /\ r < n /\ t = n * q + r
  BY <1>1
<1> HIDE DEF q, r
<1>3. q = d
  BY <1>2
<1>4. r = t - d * n
  BY <1>2, <1>3
<1> QED BY <1>3, <1>4 DEF q, r

\* A tick that begins in time finds what fell due.
LEMMA FoundInTime ==
    ASSUME TypeOK, NEW u \in Users, NEW i, NEW due \in Nat, DueAt(u, i, due),
           NEW t \in Nat, due <= t, t <= Latest(due)
    PROVE  i \in DueEvents(ReaderOf(u), t) \cup DueSummary(ReaderOf(u), t)
<1> DEFINE r == ReaderOf(u)
<1>1. /\ DayLength \in Nat \ {0} /\ Poll \in Nat /\ TickBound \in Nat /\ Window \in Nat
      /\ Grace \in Nat /\ LateFrom \in 0 .. DayLength /\ Days \subseteq Int
      /\ Poll + TickBound <= Window /\ Poll + TickBound <= Grace + 1
  <2>1. Days \subseteq Int
    BY DEF Days
  <2> QED BY <2>1, ReminderAssumption, TimelyAssumption
<1>0. /\ \A s \in Starts \cup Evenings :
            s \in Int /\ 0 <= s /\ s + Poll + TickBound <= DayLength
      /\ \A m \in Leads : m \in Int /\ 0 <= m /\ m <= DayLength - LateFrom
  <2>1. /\ Starts \cup Evenings \subseteq 0 .. DayLength - 1
        /\ Leads \subseteq 0 .. DayLength - LateFrom
        /\ DayLength \in Int /\ LateFrom \in Int
    BY ReminderAssumption
  <2> QED BY <2>1, TimelyAssumption
<1>2. r.user = u /\ r.lead = lead[u] /\ r.evening = evening[u]
  BY DEF ReaderOf
<1>3. t - due <= Poll + TickBound - 1 /\ 0 <= t - due
  BY <1>1 DEF Latest
<1>4. CASE \E e \in Events, d \in Days :
              /\ start[e][d] # None
              /\ due = StartOf(e, d) - lead[u]
              /\ i = [user |-> u, event |-> e, start |-> start[e][d], day |-> d]
  <2>1. PICK e \in Events, d \in Days :
              /\ start[e][d] # None
              /\ due = StartOf(e, d) - lead[u]
              /\ i = [user |-> u, event |-> e, start |-> start[e][d], day |-> d]
    BY <1>4
  <2> DEFINE s == start[e][d]
             base == d * DayLength
  <2>2. s \in Starts /\ s \in Int /\ 0 <= s /\ s + Poll + TickBound <= DayLength
    <3>1. s \in Starts
      BY <2>1 DEF TypeOK
    <3> QED BY <1>0, <3>1
  <2>3. lead[u] \in Int /\ 0 <= lead[u] /\ lead[u] <= DayLength - LateFrom
    <3>1. lead[u] \in Leads
      BY DEF TypeOK
    <3> QED BY <1>0, <3>1
  <2>4. base \in Int /\ StartOf(e, d) = base + s
    BY <1>1 DEF StartOf
  <2> HIDE DEF s, base
  <2>5. IsDue(r, t, e, d)
    BY <1>1, <1>2, <1>3, <2>1, <2>2, <2>3, <2>4 DEF IsDue
  <2>6. d \in Inspected(r, t)
    <3>1. base - DayLength + LateFrom <= t /\ t < base + DayLength
      BY <1>1, <1>3, <2>1, <2>2, <2>3, <2>4
    <3>2. CASE base <= t
      <4>1. t \div DayLength = d
        BY <1>1, <3>1, <3>2, SameDay DEF base
      <4> QED BY <4>1 DEF Inspected, DayOf
    <3>3. CASE t < base
      <4>1. (d - 1) * DayLength = base - DayLength
        BY <1>1 DEF base
      <4>2. t \div DayLength = d - 1 /\ t % DayLength = t - (base - DayLength)
        <5>1. d - 1 \in Int /\ (d - 1) * DayLength <= t
              /\ t < (d - 1) * DayLength + DayLength
          BY <1>1, <2>4, <3>1, <3>3, <4>1
        <5> QED BY <1>1, <4>1, <5>1, SameDay
      <4>3. TimeOfDay(t) >= LateFrom /\ d = DayOf(t) + 1
        BY <1>1, <2>4, <3>1, <4>2 DEF TimeOfDay, DayOf
      <4>4. lead[u] # 0
        BY <1>3, <2>1, <2>2, <2>3, <2>4, <3>3
      <4> QED BY <1>2, <4>3, <4>4 DEF Inspected
    <3> QED BY <1>1, <2>4, <3>2, <3>3
  <2>7. i \in DueEvents(r, t)
    <3> HIDE DEF r
    <3>1. <<e, d>> \in {y \in Events \X Inspected(r, t) :
                          start[y[1]][y[2]] # None /\ IsDue(r, t, y[1], y[2])}
      BY <2>1, <2>5, <2>6
    <3>2. i = [user |-> r.user, event |-> <<e, d>>[1],
               start |-> start[<<e, d>>[1]][<<e, d>>[2]], day |-> <<e, d>>[2]]
      BY <1>2, <2>1
    <3> QED BY <3>1, <3>2 DEF DueEvents
  <2> QED BY <2>7
<1>5. CASE \E d \in Days :
              /\ evening[u] # None
              /\ due = d * DayLength + evening[u]
              /\ i = [user |-> u, event |-> Summary, start |-> None, day |-> d]
  <2>1. PICK d \in Days :
              /\ evening[u] # None
              /\ due = d * DayLength + evening[u]
              /\ i = [user |-> u, event |-> Summary, start |-> None, day |-> d]
    BY <1>5
  <2> DEFINE s == evening[u]
             base == d * DayLength
  <2>2. s \in Int /\ 0 <= s /\ s + Poll + TickBound <= DayLength
    <3>1. s \in Evenings
      BY <2>1 DEF TypeOK
    <3> QED BY <1>0, <3>1
  <2>3. base \in Int /\ due = base + s
    BY <1>1, <2>1
  <2> HIDE DEF s, base
  <2>4. base <= t /\ t < base + DayLength
    BY <1>1, <1>3, <2>2, <2>3
  <2>5. t \div DayLength = d /\ t % DayLength = t - base
    BY <1>1, <2>4, SameDay DEF base
  <2>6. DayOf(t) = d /\ 0 <= TimeOfDay(t) - s /\ TimeOfDay(t) - s < Window
    BY <1>1, <1>3, <2>2, <2>3, <2>5 DEF DayOf, TimeOfDay
  <2>7. i \in DueSummary(r, t)
    BY <1>2, <2>1, <2>6 DEF DueSummary, s
  <2> QED BY <2>7
<1> QED BY <1>4, <1>5 DEF DueAt

\* Nothing is due at another time while nobody changes anything.
LEMMA SameDue ==
    ASSUME UNCHANGED settings, NEW u, NEW i, NEW t
    PROVE  /\ DueAt(u, i, t)' = DueAt(u, i, t)
           /\ ReaderOf(u)' = ReaderOf(u) /\ Latest(t)' = Latest(t)
<1>1. start' = start /\ lead' = lead /\ evening' = evening
  BY DEF settings
<1> QED BY <1>1 DEF DueAt, StartOf, ReaderOf, Latest

\* A step of the process w.
LEMMA TimelyStep ==
    ASSUME TInv, NEW w \in Workers, UNCHANGED <<now, settings>>,
           \A v \in Workers \ {w} : worker'[v] = worker[v],
           \A i \in Items : ledger[i] # None => ledger'[i] # None,
           worker'[w].pc # "down",
           worker'[w].pc = "asleep" => now <= worker'[w].at,
           worker'[w].pc # "asleep" => now <= worker'[w].at + TickBound,
           \A u \in wants \ Flaky, i \in Items, t \in Nat :
             DueAt(u, i, t) /\ Coming(w, u, i, t) /\ ledger'[i] = None => Coming(w, u, i, t)'
    PROVE  TInv'
<1>1. Clocked'
  <2>1. ASSUME NEW v \in Workers
        PROVE  /\ worker'[v].pc # "down"
               /\ worker'[v].pc = "asleep" => now' <= worker'[v].at
               /\ worker'[v].pc # "asleep" => now' <= worker'[v].at + TickBound
    <3>1. CASE v = w
      BY <3>1
    <3>2. CASE v # w
      BY <3>2 DEF TInv, Clocked
    <3> QED BY <3>1, <3>2
  <2> QED BY <2>1 DEF Clocked
<1>2. UNCHANGED settings /\ wants' = wants
  BY DEF settings
<1>3. ASSUME NEW v \in Workers, NEW u \in wants' \ Flaky, NEW i \in Items, NEW t \in Nat,
             DueAt(u, i, t)'
      PROVE  Coming(v, u, i, t)'
  <2>1. DueAt(u, i, t) /\ u \in wants \ Flaky
    BY <1>2, <1>3, SameDue
  <2>2. Coming(v, u, i, t)
    BY <2>1 DEF TInv, AllComing
  <2>3. CASE ledger'[i] # None
    BY <2>3 DEF Coming
  <2>4. CASE ledger'[i] = None /\ v = w
    BY <2>1, <2>2, <2>4
  <2>5. CASE ledger'[i] = None /\ v # w
    <3>1. worker'[v] = worker[v] /\ ledger[i] = None
      BY <2>5
    <3>2. ReaderOf(u)' = ReaderOf(u) /\ Latest(t)' = Latest(t)
      BY <1>2, SameDue
    <3> QED BY <2>2, <3>1, <3>2 DEF Coming
  <2> QED BY <2>3, <2>4, <2>5
<1>4. AllComing'
  BY <1>3 DEF AllComing
<1> QED BY <1>1, <1>4 DEF TInv

\* The states of a process.
LEMMA WorkerTypes ==
    ASSUME IInv, NEW w \in Workers
    PROVE  /\ worker[w] \in Worker /\ worker[w].at \in Nat /\ now \in Nat
           /\ Poll \in Nat /\ TickBound \in Nat
           /\ worker[w].todo \subseteq Reader /\ worker[w].queue \subseteq Items
<1>1. worker[w] \in Worker /\ now \in 0 .. LastTime /\ LastTime \in Nat /\ Poll \in Nat
      /\ TickBound \in Nat
  BY ReminderAssumption DEF IInv, TypeOK
<1>2. worker[w].at \in 0 .. LastTime + Poll
  BY <1>1 DEF Worker
<1>3. worker[w].todo \subseteq Reader /\ worker[w].queue \subseteq Items
  BY <1>1 DEF Worker
<1> QED BY <1>1, <1>2, <1>3

LEMMA BeginTimely ==
    ASSUME IInv, TInv, NEW w \in Workers, BeginTick(w)
    PROVE  TInv'
<1> DEFINE T == {[user |-> u, lead |-> lead[u], evening |-> evening[u]] : u \in wants}
           q == [worker[w] EXCEPT !.pc = "ticking", !.at = now, !.todo = T]
<1>1. worker' = [worker EXCEPT ![w] = q]
  BY Zenon DEF BeginTick
<1>2. worker[w] \in Worker /\ worker[w].at \in Nat /\ now \in Nat /\ TickBound \in Nat
  BY WorkerTypes
<1>3. q.pc = "ticking" /\ q.at = now /\ q.todo = T
  BY <1>2 DEF Worker
<1> HIDE DEF T, q
<1>4. worker'[w] = q /\ \A v \in Workers \ {w} : worker'[v] = worker[v]
  BY <1>1 DEF IInv, TypeOK
<1>5. worker[w].pc = "asleep" /\ now = worker[w].at
  <2>1. worker[w].pc = "asleep" /\ now >= worker[w].at
    BY DEF BeginTick
  <2>2. now <= worker[w].at
    BY <2>1 DEF TInv, Clocked
  <2> QED BY <1>2, <2>1, <2>2
<1>6. UNCHANGED <<now, settings>> /\ ledger' = ledger
  BY DEF BeginTick
<1>7. ASSUME NEW u \in wants \ Flaky, NEW i \in Items, NEW t \in Nat,
             Coming(w, u, i, t), ledger'[i] = None
      PROVE  Coming(w, u, i, t)'
  <2>1. now <= Latest(t)
    BY <1>5, <1>6, <1>7 DEF Coming
  <2>2. ReaderOf(u) \in T
    BY DEF T, ReaderOf
  <2>3. ReaderOf(u)' = ReaderOf(u) /\ Latest(t)' = Latest(t)
    BY <1>6, SameDue
  <2> QED BY <1>3, <1>4, <2>1, <2>2, <2>3 DEF Coming
<1> QED BY <1>2, <1>3, <1>4, <1>6, <1>7, TimelyStep

LEMMA ExamineTimely ==
    ASSUME IInv, TInv, NEW w \in Workers, NEW r \in worker[w].todo,
           Examine(w, r) \/ ExamineFails(w, r)
    PROVE  TInv'
<1> DEFINE Q == DueEvents(r, worker[w].at) \cup DueSummary(r, worker[w].at)
           T == worker[w].todo \ {r}
           q == [worker[w] EXCEPT !.todo = T, !.queue = Q]
           f == [worker[w] EXCEPT !.todo = T]
<1>1. \/ worker' = [worker EXCEPT ![w] = q]
      \/ worker' = [worker EXCEPT ![w] = f] /\ r.user \in Flaky
  <2>1. CASE Examine(w, r)
    BY <2>1, Zenon DEF Examine
  <2>2. CASE ExamineFails(w, r)
    BY <2>2, Zenon DEF ExamineFails
  <2> QED BY <2>1, <2>2
<1>2. worker[w] \in Worker /\ worker[w].at \in Nat /\ now \in Nat /\ TickBound \in Nat
  BY WorkerTypes
<1>3. worker[w].pc = "ticking" /\ worker[w].queue = {}
  BY DEF Examine, ExamineFails, Ready
<1> HIDE DEF Q, T
<1>4. /\ q.pc = "ticking" /\ q.at = worker[w].at /\ q.todo = T /\ q.queue = Q
      /\ f.pc = "ticking" /\ f.at = worker[w].at /\ f.todo = T
  BY <1>2, <1>3 DEF Worker
<1> HIDE DEF q, f
<1>5. /\ worker'[w] = q \/ (worker'[w] = f /\ r.user \in Flaky)
      /\ \A v \in Workers \ {w} : worker'[v] = worker[v]
  BY <1>1 DEF IInv, TypeOK
<1>6. UNCHANGED <<now, settings>> /\ ledger' = ledger
  BY DEF Examine, ExamineFails
<1>7. /\ worker'[w].pc = "ticking" /\ worker'[w].at = worker[w].at /\ worker'[w].todo = T
  BY <1>4, <1>5
<1>8. ASSUME NEW u \in wants \ Flaky, NEW i \in Items, NEW t \in Nat,
             DueAt(u, i, t), Coming(w, u, i, t), ledger'[i] = None
      PROVE  Coming(w, u, i, t)'
  <2>1. ReaderOf(u)' = ReaderOf(u) /\ Latest(t)' = Latest(t)
    BY <1>6, SameDue
  <2>2. CASE worker[w].at < t
    BY <1>7, <2>2 DEF Coming
  <2>3. CASE ~(worker[w].at < t)
    <3>1. worker[w].at <= Latest(t) /\ ReaderOf(u) \in worker[w].todo
      BY <1>3, <1>6, <1>8, <2>3 DEF Coming
    <3>2. CASE r = ReaderOf(u)
      <4>1. r.user = u
        BY <3>2 DEF ReaderOf
      <4>2. worker'[w].queue = Q
        BY <1>4, <1>5, <4>1
      <4>3. i \in Q
        <5>1. u \in Users /\ TypeOK /\ t <= worker[w].at
          BY <1>2, <2>3 DEF IInv, TypeOK
        <5> QED BY <1>2, <1>8, <3>1, <3>2, <5>1, FoundInTime DEF Q
      <4> QED BY <1>7, <2>1, <3>1, <4>2, <4>3 DEF Coming
    <3>3. CASE r # ReaderOf(u)
      <4>1. ReaderOf(u) \in T
        BY <3>1, <3>3 DEF T
      <4> QED BY <1>7, <2>1, <3>1, <4>1 DEF Coming
    <3> QED BY <3>2, <3>3
  <2> QED BY <2>2, <2>3
<1>9. now <= worker[w].at + TickBound
  BY <1>3 DEF TInv, Clocked
<1> QED BY <1>5, <1>6, <1>7, <1>8, <1>9, TimelyStep

\* A tick goes on with the users it has to look at; what it had found it has
\* still, or has claimed.
LEMMA TickGoesOn ==
    ASSUME IInv, TInv, NEW w \in Workers, NEW q, UNCHANGED <<now, settings>>,
           worker' = [worker EXCEPT ![w] = q],
           worker[w].pc \in {"ticking", "sending", "recording"},
           q.pc \in {"ticking", "sending", "recording"},
           q.at = worker[w].at, q.todo = worker[w].todo,
           \A i \in Items : ledger[i] # None => ledger'[i] # None,
           \A i \in worker[w].queue : i.user \in wants => i \in q.queue \/ ledger'[i] # None
    PROVE  TInv'
<1>1. worker'[w] = q /\ \A v \in Workers \ {w} : worker'[v] = worker[v]
  BY DEF IInv, TypeOK
<1>2. now <= worker[w].at + TickBound
  BY DEF TInv, Clocked
<1>3. ASSUME NEW u \in wants \ Flaky, NEW i \in Items, NEW t \in Nat,
             DueAt(u, i, t), Coming(w, u, i, t), ledger'[i] = None
      PROVE  Coming(w, u, i, t)'
  <2>1. ReaderOf(u)' = ReaderOf(u) /\ Latest(t)' = Latest(t)
    BY SameDue
  <2>2. ledger[i] = None /\ i.user = u
    BY <1>3 DEF DueAt
  <2> QED BY <1>1, <1>3, <2>1, <2>2 DEF Coming
<1> QED BY <1>1, <1>2, <1>3, TimelyStep

LEMMA ClaimTimely ==
    ASSUME IInv, TInv, NEW w \in Workers, NEW i \in worker[w].queue, Claim(w, i)
    PROVE  TInv'
<1>1. worker[w] \in Worker /\ worker[w].pc = "ticking" /\ i \in Items
  BY WorkerTypes DEF Claim
<1>2. UNCHANGED <<now, settings>>
  BY DEF Claim
<1>3. CASE ledger[i] = None /\ i.user \in wants
  <2> DEFINE q == [worker[w] EXCEPT !.queue = worker[w].queue \ {i}, !.pc = "sending", !.item = i]
  <2>1. ledger' = [ledger EXCEPT ![i] = "pending"]
    BY <1>3 DEF Claim, KeyOf
  <2>2. worker' = [worker EXCEPT ![w] = q]
    BY <1>3, Zenon DEF Claim, KeyOf
  <2>3. q.pc = "sending" /\ q.at = worker[w].at /\ q.todo = worker[w].todo
        /\ q.queue = worker[w].queue \ {i}
    BY <1>1 DEF Worker
  <2> HIDE DEF q
  <2>4. ledger'[i] = "pending" /\ \A j \in Items \ {i} : ledger'[j] = ledger[j]
    BY <1>1, <2>1 DEF IInv, TypeOK
  <2>5. None # "pending"
    BY ReminderAssumption
  <2> QED BY <1>1, <1>2, <2>2, <2>3, <2>4, <2>5, TickGoesOn
<1>4. CASE ~(ledger[i] = None /\ i.user \in wants)
  <2> DEFINE q == [worker[w] EXCEPT !.queue = @ \ {i}, !.pc = @, !.item = @]
  <2>1. ledger' = ledger
    BY <1>4 DEF Claim, KeyOf
  <2>2. worker' = [worker EXCEPT ![w] = q]
    BY <1>4, Zenon DEF Claim, KeyOf
  <2>3. q.pc = "ticking" /\ q.at = worker[w].at /\ q.todo = worker[w].todo
        /\ q.queue = worker[w].queue \ {i}
    BY <1>1 DEF Worker
  <2> HIDE DEF q
  <2> QED BY <1>1, <1>2, <1>4, <2>1, <2>2, <2>3, TickGoesOn
<1> QED BY <1>3, <1>4

LEMMA SendTimely ==
    ASSUME IInv, TInv, NEW w \in Workers, NEW reaches \in BOOLEAN,
           NEW answer \in {"sent", "failed"}, Send(w, reaches, answer)
    PROVE  TInv'
<1> DEFINE q == [worker[w] EXCEPT !.pc = "recording", !.outcome = answer]
<1>1. worker[w] \in Worker /\ worker[w].pc = "sending"
  BY WorkerTypes DEF Send
<1>2. worker' = [worker EXCEPT ![w] = q]
  <2>1. worker' = [worker EXCEPT ![w].pc = "recording", ![w].outcome = answer]
    BY DEF Send
  <2> QED BY <1>1, <2>1 DEF IInv, TypeOK, Worker
<1>3. q.pc = "recording" /\ q.at = worker[w].at /\ q.todo = worker[w].todo
      /\ q.queue = worker[w].queue
  BY <1>1 DEF Worker
<1>4. UNCHANGED <<now, settings>> /\ ledger' = ledger
  BY DEF Send
<1> HIDE DEF q
<1> QED BY <1>1, <1>2, <1>3, <1>4, TickGoesOn

LEMMA RecordTimely ==
    ASSUME IInv, TInv, NEW w \in Workers, Record(w)
    PROVE  TInv'
<1> DEFINE q == [worker[w] EXCEPT !.pc = "ticking", !.item = None, !.outcome = None]
<1>1. worker[w] \in Worker /\ worker[w].pc = "recording"
  BY WorkerTypes DEF Record
<1>2. worker' = [worker EXCEPT ![w] = q]
  BY Zenon DEF Record
<1>3. q.pc = "ticking" /\ q.at = worker[w].at /\ q.todo = worker[w].todo
      /\ q.queue = worker[w].queue
  BY <1>1 DEF Worker
<1>4. UNCHANGED <<now, settings>>
      /\ ledger' = [ledger EXCEPT ![worker[w].item] = worker[w].outcome]
  BY DEF Record, KeyOf
<1>5. worker[w].outcome # None /\ worker[w].item \in Items
  BY <1>1 DEF IInv, TypeOK, Worker
<1>6. \A i \in Items : ledger'[i] = IF i = worker[w].item THEN worker[w].outcome ELSE ledger[i]
  BY <1>4, <1>5 DEF IInv, TypeOK
<1>7. \A i \in Items : ledger[i] # None => ledger'[i] # None
  BY <1>5, <1>6
<1> HIDE DEF q
<1> QED BY <1>1, <1>2, <1>3, <1>4, <1>7, TickGoesOn

\* The next tick of a process begins in time for what this one was too early for.
LEMMA EndTimely ==
    ASSUME IInv, TInv, NEW w \in Workers, EndTick(w)
    PROVE  TInv'
<1>1. /\ worker[w].pc = "ticking" /\ worker[w].queue = {} /\ worker[w].todo = {}
      /\ worker' = [worker EXCEPT ![w] = Asleep(now + Poll)]
      /\ UNCHANGED <<now, settings>> /\ ledger' = ledger
  BY DEF EndTick, Ready
<1>2. /\ worker[w].at \in Nat /\ now \in Nat /\ Poll \in Nat /\ TickBound \in Nat
      /\ now <= worker[w].at + TickBound
  BY <1>1, WorkerTypes DEF TInv, Clocked
<1>3. /\ worker'[w].pc = "asleep" /\ worker'[w].at = now + Poll
      /\ \A v \in Workers \ {w} : worker'[v] = worker[v]
  BY <1>1 DEF IInv, TypeOK, Asleep
<1>4. ASSUME NEW u \in wants \ Flaky, NEW i \in Items, NEW t \in Nat,
             DueAt(u, i, t), Coming(w, u, i, t), ledger'[i] = None
      PROVE  Coming(w, u, i, t)'
  <2>1. worker[w].at < t
    BY <1>1, <1>4 DEF Coming
  <2>2. now + Poll <= t + Poll + TickBound - 1
    BY <1>2, <2>1
  <2>3. now + Poll <= Latest(t)'
    BY <2>2 DEF Latest
  <2> QED BY <1>3, <2>3 DEF Coming
<1>5. now <= worker'[w].at
  BY <1>2, <1>3
<1> QED BY <1>1, <1>3, <1>4, <1>5, TimelyStep

LEMMA AdvanceTimely ==
    ASSUME IInv, TInv, TimelyAdvance
    PROVE  TInv'
<1>1. /\ now' = now + 1 /\ UNCHANGED settings /\ worker' = worker /\ ledger' = ledger
      /\ wants' = wants
  BY DEF TimelyAdvance, Advance, settings
<1>2. Clocked'
  <2>1. ASSUME NEW w \in Workers
        PROVE  /\ worker[w].pc # "down"
               /\ worker[w].pc = "asleep" => now + 1 <= worker[w].at
               /\ worker[w].pc # "asleep" => now + 1 <= worker[w].at + TickBound
    <3>1. IF worker[w].pc = "asleep" THEN now < worker[w].at
          ELSE now < worker[w].at + TickBound
      BY DEF TimelyAdvance
    <3> QED BY <3>1, WorkerTypes DEF TInv, Clocked
  <2> QED BY <1>1, <2>1 DEF Clocked
<1>3. ASSUME NEW w \in Workers, NEW u \in wants' \ Flaky, NEW i \in Items, NEW t \in Nat,
             DueAt(u, i, t)'
      PROVE  Coming(w, u, i, t)'
  <2>1. DueAt(u, i, t) /\ u \in wants \ Flaky
    BY <1>1, <1>3, SameDue
  <2>2. Coming(w, u, i, t)
    BY <2>1 DEF TInv, AllComing
  <2>3. ReaderOf(u)' = ReaderOf(u) /\ Latest(t)' = Latest(t)
    BY <1>1, SameDue
  <2> QED BY <1>1, <2>2, <2>3 DEF Coming
<1>4. AllComing'
  BY <1>3 DEF AllComing
<1> QED BY <1>2, <1>4 DEF TInv

LEMMA InitTInv == Init => TInv
<1> SUFFICES ASSUME Init
             PROVE  TInv
  OBVIOUS
<1>1. \A w \in Workers : worker[w].pc = "asleep" /\ worker[w].at = 0
  BY DEF Init, Asleep
<1>2. now = 0
  BY DEF Init
<1>3. Clocked
  BY <1>1, <1>2 DEF Clocked
<1>4. ASSUME NEW t \in Nat
      PROVE  0 <= Latest(t)
  <2>1. Poll + TickBound \in Int /\ 1 <= Poll + TickBound
    BY ReminderAssumption, TimelyAssumption
  <2> HIDE DEF Latest
  <2>2. Latest(t) = t + (Poll + TickBound) - 1
    BY ReminderAssumption DEF Latest
  <2> QED BY <2>1, <2>2
<1> QED BY <1>1, <1>3, <1>4 DEF TInv, AllComing, Coming

LEMMA NextTInv == IInv /\ TInv /\ [TimelyNext]_vars => TInv'
<1> SUFFICES ASSUME IInv, TInv, [TimelyNext]_vars
             PROVE  TInv'
  OBVIOUS
<1>1. CASE \E w \in Workers : LoopStep(w)
  <2>1. PICK w \in Workers : LoopStep(w)
    BY <1>1
  <2>2. CASE \E r \in worker[w].todo : Examine(w, r) \/ ExamineFails(w, r)
    BY <2>2, ExamineTimely
  <2>3. CASE \E i \in worker[w].queue : Claim(w, i)
    BY <2>3, ClaimTimely
  <2>4. CASE \E reaches \in BOOLEAN, answer \in {"sent", "failed"} : Send(w, reaches, answer)
    BY <2>4, SendTimely
  <2>5. CASE BeginTick(w) \/ Record(w) \/ EndTick(w)
    BY <2>5, BeginTimely, RecordTimely, EndTimely
  <2> QED BY <2>1, <2>2, <2>3, <2>4, <2>5 DEF LoopStep
<1>2. CASE TimelyAdvance
  BY <1>2, AdvanceTimely
<1>3. CASE UNCHANGED vars
  <2>1. /\ UNCHANGED settings /\ now' = now /\ worker' = worker /\ ledger' = ledger
        /\ wants' = wants
    BY <1>3 DEF vars, settings
  <2>2. Clocked'
    BY <2>1 DEF TInv, Clocked
  <2>3. ASSUME NEW w \in Workers, NEW u \in wants' \ Flaky, NEW i \in Items, NEW t \in Nat,
               DueAt(u, i, t)'
        PROVE  Coming(w, u, i, t)'
    <3>1. DueAt(u, i, t) /\ u \in wants \ Flaky
      BY <2>1, <2>3, SameDue
    <3>2. Coming(w, u, i, t)
      BY <3>1 DEF TInv, AllComing
    <3>3. ReaderOf(u)' = ReaderOf(u) /\ Latest(t)' = Latest(t)
      BY <2>1, SameDue
    <3> QED BY <2>1, <3>2, <3>3 DEF Coming
  <2>4. AllComing'
    BY <2>3 DEF AllComing
  <2> QED BY <2>2, <2>4 DEF TInv
<1> QED BY <1>1, <1>2, <1>3 DEF TimelyNext

\* A step of a process that keeps its times is a step of the loop.
LEMMA TimelyIsNext == [TimelyNext]_vars => [Next]_vars
BY DEF TimelyNext, Next, TimelyAdvance

\* What fell due long enough ago is claimed: no process may still have it to do.
LEMMA LongDue ==
    ASSUME IInv, TInv, NEW u \in wants \ Flaky, NEW i \in Items, NEW t \in Nat,
           DueAt(u, i, t), now > t + Window + TickBound
    PROVE  ledger[i] # None
<1>1. PICK w \in Workers : TRUE
  BY TimelyAssumption
<1>2. Coming(w, u, i, t)
  BY DEF TInv, AllComing
<1>3. /\ worker[w].at \in Nat /\ now \in Nat /\ Poll \in Nat /\ TickBound \in Nat
  BY WorkerTypes
<1>4. Window \in Nat /\ Poll + TickBound <= Window
  BY <1>3, ReminderAssumption, TimelyAssumption
<1>5. Latest(t) < now /\ Latest(t) + TickBound < now
  BY <1>3, <1>4 DEF Latest
<1>6. Latest(t) \in Int
  BY <1>3 DEF Latest
<1>7. CASE worker[w].pc = "asleep"
  <2>1. now <= worker[w].at
    BY <1>7 DEF TInv, Clocked
  <2>2. ~(worker[w].at <= Latest(t))
    BY <1>3, <1>5, <1>6, <2>1
  <2> QED BY <1>2, <1>7, <2>2 DEF Coming
<1>8. CASE worker[w].pc # "asleep"
  <2>1. now <= worker[w].at + TickBound
    BY <1>8 DEF TInv, Clocked
  <2>2. ~(worker[w].at <= Latest(t)) /\ ~(worker[w].at < t)
    BY <1>3, <1>4, <1>5, <1>6, <2>1
  <2> QED BY <1>2, <1>8, <2>2 DEF Coming
<1> QED BY <1>7, <1>8

LEMMA TInvOnTime == IInv /\ TInv => OnTime
<1> SUFFICES ASSUME IInv, TInv, NEW u \in wants \ Flaky
             PROVE  /\ \A e \in Events, d \in Days :
                          LET due == StartOf(e, d) - lead[u]
                          IN  /\ start[e][d] # None
                              /\ due >= 0
                              /\ now > due + Window + TickBound
                              => ledger[[user |-> u, event |-> e,
                                         start |-> start[e][d], day |-> d]] # None
                    /\ \A d \in Days :
                          /\ evening[u] # None
                          /\ now > d * DayLength + evening[u] + Window + TickBound
                          => ledger[[user |-> u, event |-> Summary, start |-> None,
                                     day |-> d]] # None
  BY DEF OnTime
<1>1. /\ DayLength \in Nat /\ Days \subseteq Nat /\ u \in Users
      /\ Starts \subseteq Nat /\ Evenings \subseteq Nat /\ Leads \subseteq Nat
  <2>1. DayLength \in Nat \ {0} /\ LastTime \in Nat
    BY ReminderAssumption
  <2>2. Days \subseteq Nat
    BY <2>1 DEF Days
  <2>3. u \in Users
    BY DEF IInv, TypeOK
  <2>4. Starts \subseteq Nat /\ Evenings \subseteq Nat /\ Leads \subseteq Nat
    <3>1. /\ Starts \subseteq 0 .. DayLength - 1 /\ Evenings \subseteq 0 .. DayLength - 1
          /\ Leads \subseteq 0 .. DayLength - LateFrom
      BY ReminderAssumption
    <3> QED BY <3>1
  <2> QED BY <2>1, <2>2, <2>3, <2>4
<1>2. ASSUME NEW e \in Events, NEW d \in Days, start[e][d] # None,
             StartOf(e, d) - lead[u] >= 0,
             now > (StartOf(e, d) - lead[u]) + Window + TickBound
      PROVE  ledger[[user |-> u, event |-> e, start |-> start[e][d], day |-> d]] # None
  <2> DEFINE t == StartOf(e, d) - lead[u]
             i == [user |-> u, event |-> e, start |-> start[e][d], day |-> d]
  <2>1. start[e][d] \in Starts /\ lead[u] \in Leads
    BY <1>1, <1>2 DEF IInv, TypeOK
  <2>2. StartOf(e, d) \in Nat
    <3>1. start[e][d] \in Nat /\ d \in Nat
      BY <1>1, <2>1
    <3> QED BY <1>1, <3>1 DEF StartOf
  <2>3. t \in Nat
    <3>1. lead[u] \in Nat
      BY <1>1, <2>1
    <3> QED BY <1>2, <2>2, <3>1
  <2>4. i \in Items
    BY <1>1, <1>2, <2>1, ReminderAssumption DEF Items
  <2>5. DueAt(u, i, t)
    BY <1>2 DEF DueAt
  <2>6. now > t + Window + TickBound
    BY <1>2
  <2> HIDE DEF t, i
  <2>7. ledger[i] # None
    BY <2>3, <2>4, <2>5, <2>6, LongDue
  <2> QED BY <2>7 DEF i
<1>3. ASSUME NEW d \in Days, evening[u] # None,
             now > d * DayLength + evening[u] + Window + TickBound
      PROVE  ledger[[user |-> u, event |-> Summary, start |-> None, day |-> d]] # None
  <2> DEFINE t == d * DayLength + evening[u]
             i == [user |-> u, event |-> Summary, start |-> None, day |-> d]
  <2>1. evening[u] \in Nat /\ d \in Nat
    BY <1>1, <1>3 DEF IInv, TypeOK
  <2>2. t \in Nat
    BY <1>1, <2>1
  <2>3. i \in Items
    BY <1>1 DEF Items
  <2>4. DueAt(u, i, t)
    BY <1>3 DEF DueAt
  <2>5. now > t + Window + TickBound
    BY <1>3
  <2> HIDE DEF t, i
  <2>6. ledger[i] # None
    BY <2>2, <2>3, <2>4, <2>5, LongDue
  <2> QED BY <2>6 DEF i
<1> QED BY <1>2, <1>3

\* OnTime: when a process runs and its ticks take at most TickBound, every
\* lesson and summary of a user whose calendar can be read has a row in the
\* ledger at most Window + TickBound after it fell due, for it is found by a tick
\* that begins inside its window (app/reminders.py tick and run).
THEOREM InTime == TimelySpec => []OnTime
<1>1. Init => IInv /\ TInv
  BY InitIInv, InitTInv
<1>2. IInv /\ TInv /\ [TimelyNext]_vars => (IInv /\ TInv)'
  BY NextIInv, NextTInv, TimelyIsNext
<1> QED BY <1>1, <1>2, TInvOnTime, PTL DEF TimelySpec
=============================================================================
