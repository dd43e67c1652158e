------------------------------ MODULE DialogData ------------------------------
(***************************************************************************)
(* The JSON object that a dialog carries (column data of bot_fsm_storage): *)
(* a value, or none, for each field.                                       *)
(***************************************************************************)
CONSTANTS
    Fields,  \* names of data fields
    Values,  \* values of data fields
    None     \* no value

Data == [Fields -> Values \cup {None}]

Empty == [f \in Fields |-> None]

\* The operator || of JSON objects: the fields of e win.
Merge(d, e) == [f \in Fields |-> IF e[f] = None THEN d[f] ELSE e[f]]
=============================================================================
