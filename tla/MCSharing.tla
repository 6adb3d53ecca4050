----------------------------- MODULE MCSharing -----------------------------
(***************************************************************************)
(* An instance of Sharing for TLC: two users, an invitation, one worker    *)
(* that gets every kind of request and one that is late with some.         *)
(***************************************************************************)
EXTENDS Sharing, TLC

Kinds == {"create", "resend", "accept", "revoke", "change", "leave"}
AllAndLate == [w \in Worker |-> IF w = "w1" THEN Kinds ELSE {"resend", "revoke", "change", "leave"}]
=============================================================================
