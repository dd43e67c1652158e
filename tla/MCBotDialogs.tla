---------------------------- MODULE MCBotDialogs ----------------------------
(***************************************************************************)
(* Small instances of BotDialogs for TLC.                                  *)
(***************************************************************************)
EXTENDS BotDialogs, TLC

CONSTANTS chat, d1, d2, e1, e2

MCStates ==
    {"lessons.choosing_day", "lessons.waiting_for_text", "lessons.confirming",
     "extras.choosing_day", "extras.waiting_for_text", "extras.confirming",
     "edit.choosing_day", "edit.choosing_entry", "edit.choosing_action",
     "edit.waiting_for_label"}

MCValues == Days \cup Readable \cup Ids

MCSymmetry == Permutations(Days) \cup Permutations(Ids)
=============================================================================
