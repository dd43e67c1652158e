---------------------------- MODULE DialogMemory ----------------------------
(***************************************************************************)
(* What the bot's handlers may rely on: a memory of one dialog per key     *)
(* with a state and a few data fields.  Every write makes the dialog last  *)
(* TTL from now; then state and data are forgotten together.  Nothing is   *)
(* ever half forgotten, and nothing forgotten comes back.                  *)
(*                                                                         *)
(* DialogStorage shows that the table bot_fsm_storage keeps this promise;  *)
(* BotDialogs builds the handlers on it.                                   *)
(***************************************************************************)
EXTENDS DialogData, Integers

CONSTANTS
    Keys,     \* dialogs: bot, chat, user, thread, ... of a StorageKey
    Callers,  \* coroutines that call the storage
    States,   \* names of states
    TTL       \* how long a dialog lasts after its last write

ASSUME MemoryAssumption ==
    /\ None \notin States \cup Values
    /\ TTL \in Nat \ {0}

VARIABLES
    state,  \* of each key, None when there is none
    data,   \* of each key
    left,   \* time until the dialog is forgotten, 0 when there is none
    answer  \* what each caller read last: a state, or data

memory == <<state, data, left>>
memoryVars == <<state, data, left, answer>>

MemoryInit ==
    /\ state = [k \in Keys |-> None]
    /\ data = [k \in Keys |-> Empty]
    /\ left = [k \in Keys |-> 0]
    /\ answer = [c \in Callers |-> None]

Lasts(s, d) == IF s = None /\ d = Empty THEN 0 ELSE TTL

Write(k, s, d) ==
    /\ state' = [state EXCEPT ![k] = s]
    /\ data' = [data EXCEPT ![k] = d]
    /\ left' = [left EXCEPT ![k] = Lasts(s, d)]

\* A caller starts to read: its earlier answer is out of use.
Begin(c) ==
    /\ answer' = [answer EXCEPT ![c] = None]
    /\ UNCHANGED memory

SetState(k, s) == Write(k, s, data[k]) /\ UNCHANGED answer
SetData(k, d) == Write(k, state[k], d) /\ UNCHANGED answer

\* update_data also returns the merged data.
UpdateData(c, k, d) ==
    /\ Write(k, state[k], Merge(data[k], d))
    /\ answer' = [answer EXCEPT ![c] = Merge(data[k], d)]

GetState(c, k) ==
    /\ answer' = [answer EXCEPT ![c] = state[k]]
    /\ UNCHANGED memory

GetData(c, k) ==
    /\ answer' = [answer EXCEPT ![c] = data[k]]
    /\ UNCHANGED memory

Elapse ==
    /\ left' = [k \in Keys |-> IF left[k] = 0 THEN 0 ELSE left[k] - 1]
    /\ state' = [k \in Keys |-> IF left[k] > 1 THEN state[k] ELSE None]
    /\ data' = [k \in Keys |-> IF left[k] > 1 THEN data[k] ELSE Empty]
    /\ UNCHANGED answer

MemoryNext ==
    \/ Elapse
    \/ \E c \in Callers : Begin(c)
    \/ \E k \in Keys, s \in States \cup {None} : SetState(k, s)
    \/ \E k \in Keys, d \in Data : SetData(k, d)
    \/ \E c \in Callers, k \in Keys, d \in Data : UpdateData(c, k, d)
    \/ \E c \in Callers, k \in Keys : GetState(c, k) \/ GetData(c, k)

MemorySpec == MemoryInit /\ [][MemoryNext]_memoryVars
=============================================================================
