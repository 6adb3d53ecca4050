------------------------- MODULE MCAnswerSetClaims -------------------------
(* The instances of MCAnswerSets, for the properties of AnswerSetClaims.   *)
EXTENDS MCAnswerSets, AnswerSetClaims
=============================================================================
