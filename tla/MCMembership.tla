--------------------------- MODULE MCMembership ---------------------------
(***************************************************************************)
(* Small instances of Membership for TLC.                                  *)
(***************************************************************************)
EXTENDS Membership, TLC

CONSTANTS anna, boris, vera, pa, pb, pv, family, club, i1, i2, c1, c2

MCMain == [u \in Users |-> CASE u = anna -> pa [] u = boris -> pb [] OTHER -> pv]

MCSymmetry == Permutations(Connections) \cup Permutations({family, club})
=============================================================================
