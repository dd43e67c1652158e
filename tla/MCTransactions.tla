--------------------------- MODULE MCTransactions ---------------------------
(* Two people with a main profile each and one shared profile, which has an *)
(* invitation and a task.                                                   *)
EXTENDS Transactions, TLC

CONSTANTS ann, bob, annMain, bobMain, club, invite, task

MCMain == (ann :> annMain) @@ (bob :> bobMain)
MCHome == (invite :> club) @@ (task :> club)
MCChosen == (ann :> {bobMain}) @@ (bob :> {annMain, club})

On(op, p) == [op |-> op, profile |-> p]
By(op, u) == [op |-> op, user |-> u]
ByOn(op, u, p) == [op |-> op, user |-> u, profile |-> p]

MCAsks ==
    { On("delete_profile", club), On("edit", annMain),
      ByOn("remove_member", bob, annMain), ByOn("remove_member", ann, bobMain),
      ByOn("update_user", bob, club), ByOn("update_user", bob, annMain),
      ByOn("create_task", bob, club), ByOn("claim", bob, club),
      By("create_profile", bob), By("legacy", ann), By("legacy", bob), By("view", ann),
      [op |-> "join_invite", user |-> bob, invite |-> invite],
      [op |-> "revoke_invite", invite |-> invite],
      [op |-> "attach", task |-> task], [op |-> "remove_attachment", task |-> task],
      [op |-> "remove_task", task |-> task] }
=============================================================================
