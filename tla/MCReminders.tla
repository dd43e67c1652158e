---------------------------- MODULE MCReminders ----------------------------
(***************************************************************************)
(* Small instances of Reminders for TLC: two short days, of which the last *)
(* part of each counts as after 22:00.                                     *)
(***************************************************************************)
EXTENDS Reminders, TLC

CONSTANTS w1, w2, u1, u2, lesson, practice

MCSymmetry == Permutations(Workers)

\* A lesson at the first minute of the second day, or none that day; its
\* reminder falls due before midnight.  It can be moved, cancelled and restored.
\* A practice of the same hour stays, so that three messages can be due at once.
NightTimetables ==
    {[e \in Events |-> (0 :> None @@ 1 :> IF e = lesson THEN s ELSE 0)] :
        s \in {0, None}}
NightChanges == {[event |-> lesson, day |-> 1, start |-> s] : s \in {0, None}}
MoveChanges == {[event |-> lesson, day |-> 1, start |-> s] : s \in {0, 1, None}}

AllTimetables == [Events -> [Days -> Starts \cup {None}]]
============================================================================
