------------------------- MODULE PlanStatusClaims -------------------------
(***************************************************************************)
(* What the pages of easydmp.plan tell their users about publishing a      *)
(* plan, as properties of PlanStatus.                                      *)
(***************************************************************************)
EXTENDS PlanStatus

(* "once made public it cannot be hidden again", nor be deleted.           *)
PublicForGood ==
    [][\A p \in Plan : Live(p) /\ plan[p].published =>
         Live(p)' /\ plan'[p].published]_vars
=============================================================================
