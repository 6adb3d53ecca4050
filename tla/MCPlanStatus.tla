--------------------------- MODULE MCPlanStatus ---------------------------
(***************************************************************************)
(* Instances of PlanStatus for TLC: one worker that gets requests of all   *)
(* kinds, or one that changes the status of plans and one that saves a row *)
(* it has read, or deletes, late.                                          *)
(***************************************************************************)
EXTENDS PlanStatusClaims, TLC

Kinds == {"start", "lock", "publish", "new version", "save as", "delete", "rename",
          "validate", "answer", "promote", "demote", "leave"}
Alone == [w \in Worker |-> Kinds]

Status == {"start", "lock", "publish", "validate", "new version", "answer"}
Late == {"rename", "delete"}
StatusAndLate == [w \in Worker |-> IF w = "w1" THEN Status ELSE Late]

Symmetry == Permutations(Plan) \union Permutations(User)
=============================================================================
