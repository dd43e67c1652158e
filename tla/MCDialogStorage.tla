--------------------------- MODULE MCDialogStorage ---------------------------
(***************************************************************************)
(* Small instances of DialogStorage for TLC.                               *)
(***************************************************************************)
EXTENDS DialogStorage

CONSTANTS k1, k2, c1, c2, weekday, text, v, s

\* {}, one field, the other field: enough to tell a merge from a replacement.
MCOffered ==
    {Empty, [Empty EXCEPT ![weekday] = v], [Empty EXCEPT ![text] = v]}
=============================================================================
