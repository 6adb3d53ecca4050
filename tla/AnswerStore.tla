----------------------------- MODULE AnswerStore -----------------------------
(***************************************************************************)
(* What answering questions promises its users: an answerset is a set of   *)
(* registers, one per question.  A step writes one of them, or empties     *)
(* those the form does not show for the answers that are there.  Only of an*)
(* answerset that two people edit at once (shared) nothing is promised.    *)
(***************************************************************************)
EXTENDS Naturals

CONSTANTS AnswerSet, NQuestions, Choice, Unanswered, Visible, Given

VARIABLES data,    \* the answers of each answerset
          shared   \* the answersets two requests have edited at once

Questions == 1 .. NQuestions
Answers == [Questions -> Choice \cup {Unanswered}]

\* Visible[s][a]: the questions the form of answerset s shows for the answers a.
Keep(s, a) == [q \in Questions |-> IF q \in Visible[s][a] THEN a[q] ELSE Unanswered]

Init ==
  /\ data \in Given
  /\ shared = {}

Put(s) ==
  \E q \in Questions, c \in Choice :
    /\ data' = [data EXCEPT ![s] = [@ EXCEPT ![q] = c]]
    /\ UNCHANGED shared

HideUnseen(s) ==
  /\ data' = [data EXCEPT ![s] = Keep(s, @)]
  /\ UNCHANGED shared

Share(s) ==
  /\ shared' = shared \cup {s}
  /\ UNCHANGED data

Clobber(s) ==
  /\ s \in shared
  /\ data' \in {[data EXCEPT ![s] = a] : a \in Answers}
  /\ UNCHANGED shared

Next == \E s \in AnswerSet : Put(s) \/ HideUnseen(s) \/ Share(s) \/ Clobber(s)

Spec == Init /\ [][Next]_<<data, shared>>
=============================================================================
