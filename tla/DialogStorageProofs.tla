------------------------- MODULE DialogStorageProofs -------------------------
(***************************************************************************)
(* The table keeps the promise of the dialog memory for every number of    *)
(* dialogs and callers, every expiry and every clean-up interval.          *)
(*                                                                         *)
(* The mapping reads each row on its own, so the argument is: a lemma per  *)
(* statement on what it makes of one row, and the fact that no other row   *)
(* changes.  The clean-up and a restart change no live row: they stutter.  *)
(***************************************************************************)
EXTENDS DialogStorage, TLAPS

\* A row, or no row.
RowOrNone == Row \cup {None}

\* How long a dialog lasts after it was written, in the terms of the table.
Lasts(s, d) == IF s = None /\ d = Empty THEN 0 ELSE TTL

LEMMA EmptyIsData == Empty \in Data
  BY DEF Empty, Data

\* Merging two objects gives an object.
LEMMA MergeIsData ==
    ASSUME NEW d \in Data, NEW e \in Data
    PROVE  Merge(d, e) \in Data
  BY DEF Merge, Data

\* What is read of a row has its type.
LEMMA ReadTypes ==
    ASSUME NEW r \in RowOrNone
    PROVE  /\ StateOf(r) \in States \cup {None}
           /\ DataOf(r) \in Data
  BY EmptyIsData DEF RowOrNone, Row, StateOf, DataOf, Live

\* A row written by an upsert is live and means what was written.
LEMMA Upsert ==
    ASSUME NEW s \in States \cup {None}, NEW d \in Data
    PROVE  LET r == [state |-> s, data |-> d, left |-> TTL]
           IN  /\ r \in Row
               /\ StateOf(r) = s
               /\ DataOf(r) = d
               /\ LeftOf(r) = Lasts(s, d)
  <1> DEFINE r == [state |-> s, data |-> d, left |-> TTL]
  <1>1. r \in Row
    BY StorageAssumption DEF Row
  <1>2. r # None
    BY <1>1, StorageAssumption
  <1>3. Live(r)
    BY <1>2, StorageAssumption DEF Live
  <1>4. StateOf(r) = s /\ DataOf(r) = d
    BY <1>3 DEF StateOf, DataOf
  <1>5. LeftOf(r) = Lasts(s, d)
    BY <1>3 DEF LeftOf, Lasts
  <1> QED
    BY <1>1, <1>4, <1>5

\* set_state(None), on a live row or not, leaves no state and the same data.
LEMMA ClearStateMeans ==
    ASSUME NEW r \in RowOrNone
    PROVE  LET e == ClearState(r)
           IN  /\ e \in RowOrNone
               /\ StateOf(e) = None
               /\ DataOf(e) = DataOf(r)
               /\ LeftOf(e) = Lasts(None, DataOf(r))
  <1>1. CASE ~Live(r)
    <2>1. ClearState(r) \in {r, None}
      BY <1>1 DEF ClearState, Prune
    <2>2. ~Live(ClearState(r))
      BY <1>1, <2>1 DEF Live
    <2> QED
      BY <1>1, <2>1, <2>2 DEF StateOf, DataOf, LeftOf, Lasts, RowOrNone
  <1>2. CASE Live(r)
    <2> DEFINE u == [state |-> None, data |-> r.data, left |-> TTL]
    <2>1. r \in Row /\ r.data \in Data /\ DataOf(r) = r.data
      BY <1>2 DEF RowOrNone, Live, Row, DataOf
    <2>3. /\ u \in Row
          /\ StateOf(u) = None
          /\ DataOf(u) = r.data
          /\ LeftOf(u) = Lasts(None, r.data)
      BY <2>1, Upsert
    <2>4. ClearState(r) = IF r.data = Empty THEN None ELSE u
      BY <1>2, <2>3, StorageAssumption DEF ClearState, Prune
    <2>5. CASE r.data = Empty
      BY <2>1, <2>4, <2>5
         DEF StateOf, DataOf, LeftOf, Live, Lasts, RowOrNone
    <2>6. CASE r.data # Empty
      BY <2>1, <2>3, <2>4, <2>6 DEF RowOrNone
    <2> QED
      BY <2>5, <2>6
  <1> QED
    BY <1>1, <1>2

\* set_data({}), likewise.
LEMMA ClearDataMeans ==
    ASSUME NEW r \in RowOrNone
    PROVE  LET e == ClearData(r)
           IN  /\ e \in RowOrNone
               /\ StateOf(e) = StateOf(r)
               /\ DataOf(e) = Empty
               /\ LeftOf(e) = Lasts(StateOf(r), Empty)
  <1>1. CASE ~Live(r)
    <2>1. ClearData(r) \in {r, None}
      BY <1>1 DEF ClearData, Prune
    <2>2. ~Live(ClearData(r))
      BY <1>1, <2>1 DEF Live
    <2> QED
      BY <1>1, <2>1, <2>2 DEF StateOf, DataOf, LeftOf, Lasts, RowOrNone
  <1>2. CASE Live(r)
    <2> DEFINE u == [state |-> r.state, data |-> Empty, left |-> TTL]
    <2>1. r \in Row /\ r.state \in States \cup {None} /\ StateOf(r) = r.state
      BY <1>2 DEF RowOrNone, Live, Row, StateOf
    <2>3. /\ u \in Row
          /\ StateOf(u) = r.state
          /\ DataOf(u) = Empty
          /\ LeftOf(u) = Lasts(r.state, Empty)
      BY <2>1, EmptyIsData, Upsert
    <2>4. ClearData(r) = IF r.state = None THEN None ELSE u
      BY <1>2, <2>3, StorageAssumption DEF ClearData, Prune
    <2>5. CASE r.state = None
      BY <2>1, <2>4, <2>5
         DEF StateOf, DataOf, LeftOf, Live, Lasts, RowOrNone
    <2>6. CASE r.state # None
      BY <2>1, <2>3, <2>4, <2>6 DEF RowOrNone
    <2> QED
      BY <2>5, <2>6
  <1> QED
    BY <1>1, <1>2

-----------------------------------------------------------------------------
(* Type correctness and the lock. *)

\* What a statement leaves is a row or nothing.
LEMMA EffectTypes ==
    ASSUME NEW r \in RowOrNone, NEW a \in Call
    PROVE  Effect(a, r) \in RowOrNone
  <1>1. CASE a.op = "set_state"
    <2>1. a.state \in States \cup {None}
      BY <1>1 DEF Call
    <2> QED
      BY <1>1, <2>1, ClearStateMeans, ReadTypes, Upsert
         DEF Effect, PutState, RowOrNone
  <1>2. CASE a.op = "set_data"
    <2>1. a.data \in Data
      BY <1>2, StorageAssumption DEF Call
    <2> QED
      BY <1>2, <2>1, ClearDataMeans, ReadTypes, Upsert
         DEF Effect, PutData, RowOrNone
  <1>3. CASE a.op = "update_data"
    <2>1. Merge(DataOf(r), a.data) \in Data
      BY <1>3, StorageAssumption, ReadTypes, MergeIsData DEF Call
    <2> QED
      BY <1>3, <2>1, ReadTypes, Upsert DEF Effect, MergeData, RowOrNone
  <1>4. CASE a.op \notin {"set_state", "set_data", "update_data"}
    BY <1>4 DEF Effect
  <1> QED
    BY <1>1, <1>2, <1>3, <1>4

\* The invariant of the clean-up: types, and a lock whose holder cleans up
\* because it is due.
Inv == TypeOK /\ OneCleaner /\ CleanOnlyWhenDue

\* PostgresStorage starts with the invariant.
LEMMA InitInv == Init => Inv
  BY StorageAssumption
     DEF Init, Inv, TypeOK, OneCleaner, CleanOnlyWhenDue, Stages

\* Every step of a call, a failure, a restart and time keep it.
LEMMA NextInv == Inv /\ [Next]_vars => Inv'
  <1> SUFFICES ASSUME Inv, [Next]_vars PROVE Inv'
    OBVIOUS
  <1> USE DEF Inv, TypeOK, OneCleaner, CleanOnlyWhenDue, Stages
  <1>1. ASSUME NEW c \in Callers, NEW r \in Call, Ask(c, r) PROVE Inv'
    BY <1>1 DEF Ask, Reach
  <1>2. ASSUME NEW c \in Callers, CheckDue(c) PROVE Inv'
    BY <1>2 DEF CheckDue, Reach
  <1>3. ASSUME NEW c \in Callers, EnterLock(c) PROVE Inv'
    BY <1>3, StorageAssumption DEF EnterLock, Reach
  <1>4. ASSUME NEW c \in Callers, CleanUp(c) PROVE Inv'
    BY <1>4, StorageAssumption DEF CleanUp, Reach, DeleteExpired
  <1>5. ASSUME NEW c \in Callers, Execute(c) PROVE Inv'
    <2> DEFINE a == call[c]
    <2>1. a \in Call /\ a.key \in Keys
      BY <1>5 DEF Execute, Call
    <2>2. row[a.key] \in RowOrNone
      BY <2>1 DEF RowOrNone
    <2>3. Effect(a, row[a.key]) \in RowOrNone
      BY <2>1, <2>2, EffectTypes
    <2>4. row' \in [Keys -> Row \cup {None}]
      BY <1>5, <2>1, <2>3 DEF Execute, RowOrNone
    <2>5. Reply(c, a, row[a.key]) \in States \cup Data \cup {None}
      <3>1. CASE a.op \in {"get_state", "get_data"}
        BY <3>1, <2>2, ReadTypes DEF Reply
      <3>2. CASE a.op = "update_data"
        <4>1. Merge(DataOf(row[a.key]), a.data) \in Data
          BY <3>2, <2>1, <2>2, StorageAssumption, ReadTypes, MergeIsData DEF Call
        <4> QED
          BY <3>2, <4>1 DEF Reply
      <3>3. CASE a.op \notin {"get_state", "get_data", "update_data"}
        BY <3>3 DEF Reply
      <3> QED
        BY <3>1, <3>2, <3>3
    <2> HIDE DEF a
    <2>6. /\ answer' \in [Callers -> States \cup Data \cup {None}]
          /\ UNCHANGED <<due, cleaner>>
          /\ stage[c] = "ready"
          /\ stage' = [stage EXCEPT ![c] = "idle"]
          /\ call' = [call EXCEPT ![c] = None]
      BY <1>5, <2>5 DEF Execute, Return, Reach, a
    <2> QED
      BY <2>4, <2>6
  <1>6. ASSUME NEW c \in Callers, Fail(c) PROVE Inv'
    BY <1>6, StorageAssumption DEF Fail, Return, Reach
  <1>7. ASSUME Restart PROVE Inv'
    BY <1>7, StorageAssumption DEF Restart, DeleteExpired
  <1>8. ASSUME Elapse PROVE Inv'
    <2>1. ASSUME NEW k \in Keys
          PROVE  (IF Live(row[k]) THEN [row[k] EXCEPT !.left = @ - 1] ELSE row[k])
                   \in Row \cup {None}
      <3>1. CASE Live(row[k])
        <4>1. row[k] \in Row
          BY <3>1 DEF Live
        <4>2. row[k].left - 1 \in 0..TTL
          BY <3>1, <4>1, StorageAssumption DEF Live, Row
        <4>3. [row[k] EXCEPT !.left = @ - 1] \in Row
          BY <4>1, <4>2 DEF Row
        <4> QED
          BY <3>1, <4>3
      <3> QED
        BY <3>1
    <2>2. row' \in [Keys -> Row \cup {None}]
      BY <1>8, <2>1 DEF Elapse
    <2>3. due' \in 0..Every /\ (due = 0 => due' = 0)
      BY <1>8, StorageAssumption DEF Elapse
    <2> QED
      BY <1>8, <2>2, <2>3 DEF Elapse
  <1>9. CASE UNCHANGED vars
    BY <1>9 DEF vars
  <1> QED
    BY <1>1, <1>2, <1>3, <1>4, <1>5, <1>6, <1>7, <1>8, <1>9 DEF Next, Serve

\* Whatever the number of callers, one cleans up at a time, and only when the
\* interval since the last clean-up is over.
THEOREM CleanUpIsExclusive == Spec => [](OneCleaner /\ CleanOnlyWhenDue)
  <1>1. Inv => OneCleaner /\ CleanOnlyWhenDue
    BY DEF Inv
  <1> QED
    BY <1>1, InitInv, NextInv, PTL DEF Spec

\* Rows, calls and answers have their types.
THEOREM TypeCorrect == Spec => []TypeOK
  <1>1. Inv => TypeOK
    BY DEF Inv
  <1> QED
    BY <1>1, InitInv, NextInv, PTL DEF Spec

-----------------------------------------------------------------------------
(* The refinement. *)

\* The two modules speak of the same objects.
LEMMA SameData ==
    /\ Promise!Empty = Empty
    /\ Promise!Data = Data
    /\ \A d, e : Promise!Merge(d, e) = Merge(d, e)
    /\ \A s, d : Promise!Lasts(s, d) = Lasts(s, d)
  BY DEF Promise!Empty, Empty, Promise!Data, Data, Promise!Merge, Merge,
         Promise!Lasts, Lasts

\* A statement on the row of one key is a write of that key's dialog.
LEMMA OneRow ==
    ASSUME TypeOK, NEW k \in Keys, NEW e, NEW s, NEW d,
           row' = [row EXCEPT ![k] = e],
           StateOf(e) = s, DataOf(e) = d, LeftOf(e) = Lasts(s, d)
    PROVE  Promise!Write(k, s, d)
  <1>1. [j \in Keys |-> StateOf(row[j])]'
          = [[j \in Keys |-> StateOf(row[j])] EXCEPT ![k] = s]
    BY DEF TypeOK
  <1>2. [j \in Keys |-> DataOf(row[j])]'
          = [[j \in Keys |-> DataOf(row[j])] EXCEPT ![k] = d]
    BY DEF TypeOK
  <1>3. [j \in Keys |-> LeftOf(row[j])]'
          = [[j \in Keys |-> LeftOf(row[j])] EXCEPT ![k] = Lasts(s, d)]
    BY DEF TypeOK
  <1> QED
    BY <1>1, <1>2, <1>3, SameData DEF Promise!Write

\* Deleting expired rows is invisible.
LEMMA CleaningStutters ==
    ASSUME TypeOK, DeleteExpired
    PROVE  UNCHANGED Promise!memory
  <1>1. ASSUME NEW k \in Keys
        PROVE  /\ StateOf(row'[k]) = StateOf(row[k])
               /\ DataOf(row'[k]) = DataOf(row[k])
               /\ LeftOf(row'[k]) = LeftOf(row[k])
    <2>1. row'[k] = IF Live(row[k]) THEN row[k] ELSE None
      BY DEF DeleteExpired
    <2> QED
      BY <2>1 DEF StateOf, DataOf, LeftOf, Live
  <1> QED
    BY <1>1 DEF Promise!memory

\* A statement does what the promise says of the operation.
LEMMA ExecuteKeeps ==
    ASSUME Inv, NEW c \in Callers, Execute(c)
    PROVE  Promise!MemoryNext \/ UNCHANGED Promise!memoryVars
  <1> DEFINE a == call[c]
             k == a.key
             e == Effect(a, row[k])
  <1>1. a \in Call /\ k \in Keys
    BY DEF Inv, TypeOK, Execute, Call
  <1>2. row[k] \in RowOrNone /\ TypeOK
    BY <1>1 DEF Inv, TypeOK, RowOrNone
  <1>3. row' = [row EXCEPT ![k] = e]
    BY DEF Execute
  <1>4. answer' = [answer EXCEPT ![c] = Reply(c, a, row[k])]
    BY DEF Execute
  <1>5. answer \in [Callers -> States \cup Data \cup {None}]
    BY DEF Inv, TypeOK
  <1>6. StateOf(row[k]) \in States \cup {None} /\ DataOf(row[k]) \in Data
    BY <1>2, ReadTypes
  <1> HIDE DEF a
  <1>7. CASE a.op = "set_state"
    <2>1. a.state \in States \cup {None}
      BY <1>1, <1>7 DEF Call
    <2>2. /\ StateOf(e) = a.state
          /\ DataOf(e) = DataOf(row[k])
          /\ LeftOf(e) = Lasts(a.state, DataOf(row[k]))
      <3>1. CASE a.state = None
        BY <1>7, <1>2, <3>1, ClearStateMeans DEF Effect
      <3>2. CASE a.state # None
        BY <1>7, <1>6, <2>1, <3>2, Upsert DEF Effect, PutState
      <3> QED
        BY <3>1, <3>2
    <2>3. Promise!Write(k, a.state, DataOf(row[k]))
      BY <1>1, <1>2, <1>3, <2>2, OneRow
    <2>4. UNCHANGED answer
      BY <1>4, <1>5, <1>7 DEF Reply
    <2>5. Promise!SetState(k, a.state)
      BY <1>1, <2>3, <2>4 DEF Promise!SetState
    <2> QED
      BY <1>1, <2>1, <2>5 DEF Promise!MemoryNext
  <1>8. CASE a.op = "set_data"
    <2>1. a.data \in Data
      BY <1>1, <1>8, StorageAssumption DEF Call
    <2>2. /\ StateOf(e) = StateOf(row[k])
          /\ DataOf(e) = a.data
          /\ LeftOf(e) = Lasts(StateOf(row[k]), a.data)
      <3>1. CASE a.data = Empty
        BY <1>8, <1>2, <3>1, ClearDataMeans DEF Effect
      <3>2. CASE a.data # Empty
        BY <1>8, <1>6, <2>1, <3>2, Upsert DEF Effect, PutData
      <3> QED
        BY <3>1, <3>2
    <2>3. Promise!Write(k, StateOf(row[k]), a.data)
      BY <1>1, <1>2, <1>3, <2>2, OneRow
    <2>4. UNCHANGED answer
      BY <1>4, <1>5, <1>8 DEF Reply
    <2>5. Promise!SetData(k, a.data)
      BY <1>1, <2>3, <2>4 DEF Promise!SetData
    <2> QED
      BY <1>1, <2>1, <2>5, SameData DEF Promise!MemoryNext
  <1>9. CASE a.op = "update_data"
    <2> DEFINE d == Merge(DataOf(row[k]), a.data)
    <2>1. a.data \in Data
      BY <1>1, <1>9, StorageAssumption DEF Call
    <2>2. d \in Data
      BY <2>1, <1>6, MergeIsData
    <2>3. /\ StateOf(e) = StateOf(row[k])
          /\ DataOf(e) = d
          /\ LeftOf(e) = Lasts(StateOf(row[k]), d)
      BY <1>9, <1>6, <2>2, Upsert DEF Effect, MergeData
    <2>4. Promise!Write(k, StateOf(row[k]), d)
      BY <1>1, <1>2, <1>3, <2>3, OneRow
    <2>5. answer' = [answer EXCEPT ![c] = d]
      BY <1>4, <1>9 DEF Reply
    <2>6. Promise!UpdateData(c, k, a.data)
      BY <1>1, <2>4, <2>5, SameData DEF Promise!UpdateData
    <2> QED
      BY <1>1, <2>1, <2>6, SameData DEF Promise!MemoryNext
  <1>10. CASE a.op \in {"get_state", "get_data"}
    <2>1. row' = row
      BY <1>1, <1>2, <1>3, <1>10 DEF Effect, TypeOK
    <2>2. UNCHANGED Promise!memory
      BY <2>1 DEF Promise!memory
    <2>3. Promise!GetState(c, k) \/ Promise!GetData(c, k)
      BY <1>1, <1>4, <1>10, <2>2 DEF Reply, Promise!GetState, Promise!GetData
    <2> QED
      BY <1>1, <2>3 DEF Promise!MemoryNext
  <1> QED
    BY <1>1, <1>7, <1>8, <1>9, <1>10 DEF Call

\* Time passes for every dialog at once.
LEMMA ElapseKeeps ==
    ASSUME TypeOK, Elapse
    PROVE  Promise!Elapse
  <1>1. ASSUME NEW k \in Keys
        PROVE  /\ LeftOf(row'[k]) =
                     IF LeftOf(row[k]) = 0 THEN 0 ELSE LeftOf(row[k]) - 1
               /\ StateOf(row'[k]) =
                     IF LeftOf(row[k]) > 1 THEN StateOf(row[k]) ELSE None
               /\ DataOf(row'[k]) =
                     IF LeftOf(row[k]) > 1 THEN DataOf(row[k]) ELSE Empty
    <2>1. CASE ~Live(row[k])
      <3>1. row'[k] = row[k]
        BY <2>1 DEF Elapse
      <3> QED
        BY <2>1, <3>1 DEF LeftOf, StateOf, DataOf
    <2>2. CASE Live(row[k])
      <3> DEFINE u == [state |-> row[k].state, data |-> row[k].data,
                       left |-> row[k].left - 1]
      <3>1. row[k] \in Row /\ row[k].left \in 1..TTL
        BY <2>2, StorageAssumption DEF TypeOK, Live, Row
      <3>2. row'[k] = u
        BY <2>2, <3>1 DEF Elapse, Row
      <3>3. u \in Row
        BY <3>1, StorageAssumption DEF Row
      <3>4. u # None
        BY <3>3, StorageAssumption
      <3>5. Live(u) <=> row[k].left > 1
        BY <3>1, <3>4, StorageAssumption DEF Live
      <3>6. CASE row[k].left > 1
        BY <2>2, <3>1, <3>2, <3>5, <3>6, StorageAssumption
           DEF LeftOf, StateOf, DataOf
      <3>7. CASE row[k].left = 1
        BY <2>2, <3>1, <3>2, <3>5, <3>7 DEF LeftOf, StateOf, DataOf
      <3> QED
        BY <3>1, <3>6, <3>7, StorageAssumption
    <2> QED
      BY <2>1, <2>2
  <1>2. UNCHANGED answer
    BY DEF Elapse
  <1> QED
    BY <1>1, <1>2, SameData DEF Promise!Elapse

\* The initial table means the empty memory.
LEMMA InitKeeps == Init => Promise!MemoryInit
  BY SameData DEF Init, Promise!MemoryInit, StateOf, DataOf, LeftOf, Live

\* Every step means one operation of the memory, or nothing.
LEMMA StepKeeps ==
    Inv /\ [Next]_vars => [Promise!MemoryNext]_(Promise!memoryVars)
  <1> SUFFICES ASSUME Inv, [Next]_vars
               PROVE  Promise!MemoryNext \/ UNCHANGED Promise!memoryVars
    OBVIOUS
  <1> USE DEF Promise!memoryVars, Promise!memory
  <1>1. ASSUME NEW c \in Callers, NEW r \in Call, Ask(c, r)
        PROVE  Promise!MemoryNext
    <2>1. Promise!Begin(c)
      BY <1>1 DEF Ask, Promise!Begin
    <2> QED
      BY <2>1 DEF Promise!MemoryNext
  <1>2. ASSUME NEW c \in Callers, CheckDue(c) \/ EnterLock(c) \/ Fail(c)
        PROVE  UNCHANGED Promise!memoryVars
    BY <1>2 DEF CheckDue, EnterLock, Fail
  <1>3. ASSUME NEW c \in Callers, CleanUp(c)
        PROVE  UNCHANGED Promise!memoryVars
    BY <1>3, CleaningStutters DEF CleanUp, Inv
  <1>4. ASSUME NEW c \in Callers, Execute(c)
        PROVE  Promise!MemoryNext \/ UNCHANGED Promise!memoryVars
    BY <1>4, ExecuteKeeps
  <1>5. ASSUME Restart PROVE UNCHANGED Promise!memoryVars
    BY <1>5, CleaningStutters DEF Restart, Inv
  <1>6. ASSUME Elapse PROVE Promise!MemoryNext
    BY <1>6, ElapseKeeps DEF Inv, Promise!MemoryNext
  <1>7. CASE UNCHANGED vars
    BY <1>7 DEF vars
  <1> QED
    BY <1>1, <1>2, <1>3, <1>4, <1>5, <1>6, <1>7 DEF Next, Serve

\* PostgresStorage implements the memory of dialogs that the handlers rely on.
THEOREM StorageKeepsPromise == Spec => KeepsPromise
  BY InitInv, NextInv, InitKeeps, StepKeeps, PTL
     DEF Spec, KeepsPromise, Promise!MemorySpec
=============================================================================
