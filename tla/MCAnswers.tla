------------------------------ MODULE MCAnswers ------------------------------
EXTENDS Answers, TLC
CONSTANTS v1, v2, s1, s2, yes, no

MCChoice == {yes, no}
MCBranching == {s1}
MCForks == {1}

\* In s1, question 2 is shown if question 1 is answered with yes (an answer
\* that says no jumps over it); in s2 both are.
MCVisible ==
  [s \in AnswerSet |-> [a \in [1 .. 2 -> {yes, no, Unanswered}] |->
     IF s \in Branching /\ a[1] = no THEN {1} ELSE 1 .. 2]]

\* A new plan, and the copy of a complete one.
MCGiven == {[s \in AnswerSet |-> [q \in 1 .. 2 |-> a]] : a \in {yes, Unanswered}}

MCSymmetry == Permutations(Worker)
=============================================================================
