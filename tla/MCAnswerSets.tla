---------------------------- MODULE MCAnswerSets ----------------------------
(***************************************************************************)
(* Instances of AnswerSets for TLC: a top-level section "top" with the     *)
(* subsection "sub", and optionally a second top-level section "solo".     *)
(***************************************************************************)
EXTENDS AnswerSets, TLC

NestedSuper == [s \in Section |-> IF s = "sub" THEN "top" ELSE "none"]
NestedAbove == [s \in Section |-> IF s = "sub" THEN {"top"} ELSE {}]

OneTop == {"top"}
OneSub == {"sub"}
Nested == {"top", "sub"}
NestedAndSolo == {"top", "sub", "solo"}

PlanSymmetry == Permutations(Plan)
WorkerSymmetry == Permutations(Worker)
=============================================================================
