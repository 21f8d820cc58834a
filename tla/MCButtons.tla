------------------------------- MODULE MCButtons --------------------------------
(***************************************************************************)
(* What the buttons of a card reach: requests of the app-server (Approvals)*)
(* and the details of a turn (Details).  The two share no state; `which`   *)
(* says the one that runs.                                                 *)
(***************************************************************************)
EXTENDS Approvals, Details, TLC

CONSTANTS r1, r2

\* Two requests with ids of their own, which are named like them.
OwnIds == [r \in {r1, r2} |-> r]
MCSymmetry == Permutations({r1, r2})
Scene(bare, kinds, most, items) == [bare |-> bare, kinds |-> kinds, turns |-> most, items |-> items]
MCScenes ==
  {Scene(FALSE, {"say", "tool"}, 2, 3), Scene(TRUE, {"tool", "plan"}, 2, 1),
   Scene(FALSE, {"longsay", "tool", "compact"}, 1, 4)}

VARIABLE which
ButtonInit ==
  /\ which \in {"approvals", "details"} /\ Init /\ DetailsInit
  /\ which = "approvals" => scene = Scene(TRUE, {"tool", "plan"}, 2, 1) /\ turns[1].items = <<>>
ButtonNext ==
  \/ which = "approvals" /\ Next /\ UNCHANGED <<which, detailVars>>
  \/ which = "details" /\ DetailsNext /\ UNCHANGED <<which, vars>>
ButtonSpec == ButtonInit /\ [][ButtonNext]_<<which, vars, detailVars>>
=============================================================================
