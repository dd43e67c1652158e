---------------------------- MODULE MCWebClient ----------------------------
(* Two profiles; the last day of one week and the first of the next; two    *)
(* files, of which neither is special.                                      *)
EXTENDS WebTasks

CONSTANTS own, club, f, g

MCSymmetry == Permutations({f, g})

MCMonday(d) == IF d <= 2 THEN 1 ELSE 3
=============================================================================
