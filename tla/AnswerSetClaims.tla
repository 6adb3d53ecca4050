-------------------------- MODULE AnswerSetClaims --------------------------
(***************************************************************************)
(* What easydmp.plan says its answersets do, as properties of AnswerSets:  *)
(* the table that add_answerset keeps "for reference", and what saving a   *)
(* copy of a plan promises.                                                *)
(***************************************************************************)
EXTENDS AnswerSets

(* Where the table of add_answerset says "add", the database does not      *)
(* refuse the new row (of a plan that was not deleted meanwhile).          *)
AddIsNotRefused ==
    [][\A w \in Worker :
         req[w].pc = "create" => req'[w].result # "refused"]_vars

(* Every plan can be copied, whatever rows its users have added to it.     *)
EveryPlanCopyable == \A p \in Plan : status[p] = "live" => Clonable(p)
=============================================================================
