-------------------------------- MODULE Flow --------------------------------
(***************************************************************************)
(* How a planner moves through one branching section, and what an answer   *)
(* does to the answers behind it: dmpt/flow.py, the navigation of Section  *)
(* and Question in dmpt/models/base.py, AnswerSet.hide_unreachable_answers *)
(* _after, and the views that post an answer and go to the next or the     *)
(* previous question.                                                      *)
(*                                                                         *)
(* A question is its position in the section.  The template is chosen once *)
(* and never changes: trunk, branch, and zero, whether the first question  *)
(* stands at position 0.  The plan's answerset is data, okay (the          *)
(* questions whose Answer row is valid) and valid; at is the page.         *)
(***************************************************************************)
EXTENDS Naturals, Sequences, FiniteSets, FiniteSetsExt

CONSTANTS
  NQuestions,   \* questions in the section
  Kind,         \* question -> "plain", "choice" or "notlisted"
  Conditions,      \* what a branch-capable question may be answered with
  MaxBranches   \* bound: rows of ExplicitBranch in the section

VARIABLES trunk, branch, zero, data, okay, valid, at

template == <<trunk, branch, zero>>
vars == <<trunk, branch, zero, data, okay, valid, at>>

Questions == 1 .. NQuestions
End        == 0        \* a transition to None: the section is finished
Away       == 0        \* the summary, or a question of another section
Failed     == NQuestions + 1 \* the request ended in an exception
Any        == "any"    \* the key None of a transition map
Given      == "given"  \* the answer to a question that cannot branch
Unanswered == "none"   \* the question is not a key of the data

ASSUME FlowAssumption ==
  /\ NQuestions \in Nat \ {0}
  /\ Kind \in [Questions -> {"plain", "choice", "notlisted"}]
  /\ {Any, Given, Unanswered} \cap Conditions = {}
  /\ MaxBranches \in Nat

BranchingPossible(q) == Kind[q] # "plain"
Answers(q) == IF BranchingPossible(q) THEN Conditions ELSE {Given}
Keys(q)    == {Any} \cup (Answers(q) \ {Given})
Branches   == [from : Questions, on : {Any} \cup Conditions, to : Questions \cup {End}]
Lowest(S)  == CHOOSE x \in S : \A y \in S : x <= y
Highest(S) == CHOOSE x \in S : \A y \in S : x >= y
Elements(path) == {path[i] : i \in DOMAIN path}

-----------------------------------------------------------------------------
(* Transition maps.  A map is a set of rows [from, on, to] with one row    *)
(* for each (from, on).                                                    *)

Following(q) == {r \in Questions : r > q}
ByPosition(q) ==
  [from |-> q, on |-> Any,
   to |-> IF Following(q) = {} THEN End ELSE Lowest(Following(q))]

Selected(map, q, key) == {t \in map : t.from = q /\ t.on = key}

\* TransitionMap.select_transition: an unknown condition falls back to None.
Select(map, q, key) ==
  IF Selected(map, q, key) # {} THEN Selected(map, q, key)
                                ELSE Selected(map, q, Any)

\* Question.generate_transition_map: the potential transitions first, then
\* the explicit branches again; TransitionMap.add puts a row in the place of
\* the one with its key, so the branches win over the one by position.
QuestionMap(q) ==
  LET own == {b \in branch : b.from = q}
  IN  own \cup {t \in {ByPosition(q)} : \A b \in own : b.on # t.on}

\* BUG: a question with a branch keeps no transition by position.
SectionMapBranchesOnly(lo, hi) ==
  LET own == {b \in branch : b.from >= lo /\ b.from < hi}
      fresh == {ByPosition(q) : q \in {r \in Questions : r >= lo /\ r < hi}}
  IN  own \cup {t \in fresh : \A b \in own : b.from # t.from}

\* Section.generate_transition_map for the questions from lo to below hi:
\* the explicit branches, then what does not overwrite one of them.
SectionMap(lo, hi) ==
  LET own == {b \in branch : b.from >= lo /\ b.from < hi}
      fresh == {ByPosition(q) : q \in {r \in Questions : r >= lo /\ r < hi}}
  IN  own \cup {t \in fresh : Select(own, t.from, t.on) = {}}

-----------------------------------------------------------------------------
(* Moving forwards.                                                        *)

\* Question.get_condition and get_transition_choice.
Condition(answers, q) ==
  IF answers[q] \in Conditions /\ BranchingPossible(q) THEN answers[q] ELSE Any

\* Question.get_next_question inside the section.
NextQuestion(answers, q) ==
  (CHOOSE t \in Select(QuestionMap(q), q, Condition(answers, q)) : TRUE).to

\* Section.generate_complete_path_from_data: the answered questions in the
\* order in which the form shows them.
CompletePath(answers) ==
  LET walk[q \in Questions \cup {End}] ==
        IF q = End THEN <<>>
        ELSE IF answers[q] = Unanswered THEN <<>>
        ELSE <<q>> \o walk[NextQuestion(answers, q)]
  IN  walk[1]

\* dfs_paths over the rows of a map: no node twice on a path; a node without
\* rows ends it, and so does a row to None, which is its last element.
Paths(map, start) ==
  LET After(q) == {t.to : t \in {u \in map : u.from = q}}
      partial[n \in 1 .. NQuestions] ==
        IF n = 1 THEN {<<start>>}
        ELSE UNION {{Append(p, q) : q \in After(p[n - 1]) \ (Elements(p) \cup {End})} :
                    p \in partial[n - 1]}
      grown == UNION {partial[n] : n \in 1 .. NQuestions}
  IN  {p \in grown : After(p[Len(p)]) = {}} \cup
      {Append(p, End) : p \in {g \in grown : End \in After(g[Len(g)])}}

\* Section.find_all_paths, without the None at the end of a path.
AllPaths ==
  {IF p[Len(p)] = End THEN SubSeq(p, 1, Len(p) - 1) ELSE p :
   p \in Paths(SectionMap(1, NQuestions + 1), 1)}

\* Section.validate_data of a branching section: the answered questions are
\* one of all paths.  What the forms stored is a valid answer.
ValidateData(answers) ==
  /\ \E q \in Questions : answers[q] # Unanswered
  /\ CompletePath(answers) \in AllPaths

-----------------------------------------------------------------------------
(* Moving backwards.                                                       *)

Preceding(q) == {r \in Questions : r < q}

\* Question.get_potential_prev_questions.
PotentialPrev(q) ==
  IF Preceding(q) = {} THEN {}
  ELSE IF Highest(Preceding(q)) \in trunk THEN {Highest(Preceding(q))}
  ELSE LET before == Preceding(q) \cap trunk
       IN  IF before = {} THEN {} ELSE {r \in Preceding(q) : r >= Highest(before)}

\* BUG: the walk goes on along a path although an answer leads off it.
FoundOnAny(path, end, answers) ==
  {path[i] : i \in {k \in 1 .. Len(path) - 1 : NextQuestion(answers, path[k]) = end}}

\* Question._walk_forward along one path: the first question of the path that
\* leads to end, if all before it lead to questions of the path; else {}.
FoundOn(path, end, answers) ==
  {path[i] : i \in {k \in 1 .. Len(path) - 1 :
     /\ NextQuestion(answers, path[k]) = end
     /\ \A j \in 1 .. k - 1 :
          /\ NextQuestion(answers, path[j]) # end
          /\ NextQuestion(answers, path[j]) \in Elements(path)}}

\* Question._walk_forward and TransitionMap.find_paths: which path is tried
\* first is up to the order of a set; no path at all is a ValueError.
WalkForward(start, end, answers) ==
  LET paths == {p \in Paths(SectionMap(start, end), start) : end \in Elements(p)}
      found == UNION {FoundOn(p, end, answers) : p \in paths}
  IN  IF paths = {} \/ found = {} THEN {Failed} ELSE found

\* Question._get_prev_question_new: from the last answered on_trunk question
\* before q.  With answered ones behind q only, it walks from None.  None is
\* Failed too: GetAnswerView.get_prev calls get_summary_url, which it lacks.
PrevByAnswers(q, answers) ==
  LET answered == {r \in trunk : answers[r] # Unanswered}
      before == answered \cap Preceding(q)
  IN  IF before = {} THEN {Failed}
      ELSE WalkForward(Highest(before), q, answers)

\* Question.get_prev_question; without preceding questions the previous
\* section is next.
PrevQuestions(q, answers) ==
  LET potential == PotentialPrev(q)
  IN  IF Cardinality(potential) = 0 THEN {Away}
      ELSE IF Cardinality(potential) = 1 THEN potential
      ELSE PrevByAnswers(q, answers)

-----------------------------------------------------------------------------
(* Answers behind a branch not taken.                                      *)

NextOnTrunk(q) ==
  LET after == Following(q) \cap trunk
  IN  IF after = {} THEN End ELSE Lowest(after)

\* BUG: the branch is taken to end at the next question by position.
HiddenBeforeNext(answers, q) ==
  LET stop == ByPosition(q).to
      between == {r \in Following(q) : stop = End \/ r < stop}
  IN  IF BranchingPossible(q) THEN between \ {NextQuestion(answers, q)} ELSE {}

\* AnswerSet.hide_unreachable_answers_after: what lies between q and stop,
\* without what a walk from q shows before it meets an on_trunk question.
Hidden(answers, q) ==
  LET stop == IF zero /\ q = 1 THEN NextQuestion(answers, q) ELSE NextOnTrunk(q)
      between == {r \in Following(q) : stop = End \/ r < stop}
      shown[r \in Questions \cup {End}] ==
        IF r = End \/ r \in trunk THEN {}
        ELSE {r} \cup IF r = stop THEN {} ELSE shown[NextQuestion(answers, r)]
  IN  IF ~BranchingPossible(q) \/ between = {} THEN {}
      ELSE between \ shown[NextQuestion(answers, q)]

HideAfter(answers, q) ==
  [r \in Questions |-> IF r \in Hidden(answers, q) THEN Unanswered ELSE answers[r]]

\* The result of AnswerHelper.save_choice: _serialize_condition of the old
\* and of the new answer differ.  It is None for a question that cannot
\* branch; NotListedMixin looks for "choice" inside the choice, so that it
\* returns False for every answer.
ChangedCondition(q, old, new) ==
  /\ BranchingPossible(q)
  /\ \/ old = Unanswered
     \/ Kind[q] = "choice" /\ old # new

-----------------------------------------------------------------------------
(* The template.  Branches go forwards ("There should be no loops"), and an *)
(* on_trunk question is one that "must be contemplated": no branch jumps    *)
(* over it.  A choice has at most one branch.  An optional section has all  *)
(* questions on the trunk, and the one at position 0 a branch that ends it. *)

WellDesigned(rows) ==
  /\ \A b \in rows : /\ b.on \in Keys(b.from)
                     /\ b.to # End => b.to > b.from
                     /\ \A r \in trunk \cap Following(b.from) : b.to # End /\ b.to <= r
  /\ \A b, c \in rows : b.from = c.from /\ b.on = c.on => b = c

DesignedBranches ==
  UNION {{rows \in kSubset(n, {b \in Branches : WellDesigned({b})}) : WellDesigned(rows)} :
         n \in 0 .. MaxBranches}

OptionalBranches == {{[from |-> 1, on |-> c, to |-> End]} : c \in Conditions}

Init ==
  /\ trunk \in {S \in SUBSET Questions : 1 \in S}
  /\ zero \in BOOLEAN
  /\ branch \in IF zero THEN OptionalBranches ELSE DesignedBranches
  /\ zero => BranchingPossible(1) /\ trunk = Questions
  /\ data = [q \in Questions |-> Unanswered]
  /\ okay = {}
  /\ valid = FALSE
  /\ at = Away

\* A page of the section is opened: from the summary, which lists what is on
\* the trunk or answered (Section.find_minimal_path), or from a neighbouring
\* section, on its first or last on_trunk question.
Open(q) ==
  /\ at = Away
  /\ q \in trunk \/ data[q] # Unanswered
  /\ at' = q
  /\ UNCHANGED <<template, data, okay, valid>>

\* The link "Go to plan summary", also from the page of an error.
Leave ==
  /\ at # Away
  /\ at' = Away
  /\ UNCHANGED <<template, data, okay, valid>>

\* BUGS: the section is not validated after answers were hidden; the row of
\* the answer is looked up by index from 0.
SaveChoiceUnvalidated(q, c) ==
  LET saved == [data EXCEPT ![q] = c]
  IN  /\ data' = IF ChangedCondition(q, data[q], c) THEN HideAfter(saved, q) ELSE saved
      /\ okay' = okay \cup {q}
      /\ valid' = (valid \/ (q \notin okay /\ ValidateData(saved)))
SaveChoiceByIndex(q, c) ==
  /\ data' = [data EXCEPT ![q] = c]
  /\ okay' = okay \cup {q - 1}
  /\ UNCHANGED valid

\* AnswerQuestionView.form_valid with AnswerHelper.save_choice and set_valid:
\* an answer that is new is saved, the section is marked valid if the answer
\* was not okay and the section now validates; and if the answer may lead
\* elsewhere, answers are hidden and the section is validated as a whole.
SaveChoice(q, c) ==
  IF data[q] = c THEN UNCHANGED <<data, okay, valid>>
  ELSE LET saved == [data EXCEPT ![q] = c]
           kept == HideAfter(saved, q)
       IN  IF ChangedCondition(q, data[q], c)
           THEN /\ data' = kept
                /\ okay' = {r \in Questions : kept[r] # Unanswered}
                /\ valid' = ValidateData(kept)
           ELSE /\ data' = saved
                /\ okay' = okay \cup {q}
                /\ valid' = (valid \/ (q \notin okay /\ ValidateData(saved)))

PostAndNext(q, c) ==
  /\ at = q
  /\ SaveChoice(q, c)
  /\ at' = NextQuestion(data', q)
  /\ UNCHANGED template

\* The button is shown only if there is something before q.
PostAndPrev(q, c) ==
  /\ at = q
  /\ SaveChoice(q, c)
  /\ at' \in PrevQuestions(q, data')
  /\ UNCHANGED template

\* AnswerQuestionView.form_invalid with AnswerHelper.set_invalid.
PostInvalid(q) ==
  /\ at = q
  /\ okay' = okay \ {q}
  /\ valid' = (valid /\ q \notin okay)
  /\ UNCHANGED <<template, data, at>>

Next ==
  \/ Leave
  \/ \E q \in Questions :
       \/ Open(q)
       \/ PostInvalid(q)
       \/ \E c \in Answers(q) : PostAndNext(q, c)
       \/ \E c \in Answers(q) : PostAndPrev(q, c)

Spec == Init /\ [][Next]_vars

-----------------------------------------------------------------------------
(* Properties.                                                             *)

TypeOK ==
  /\ 1 \in trunk /\ trunk \subseteq Questions
  /\ branch \subseteq Branches /\ zero \in BOOLEAN
  /\ data \in [Questions -> Conditions \cup {Given, Unanswered}]
  /\ okay \subseteq Questions
  /\ valid \in BOOLEAN
  /\ at \in Questions \cup {Away, Failed}

\* A question has a branch for one answer and another for all the rest: from a
\* question that was never shown, the walk backwards may then take the other.
MixedBranches ==
  \E b, c \in branch : b.from = c.from /\ b.on = Any /\ c.on # Any

\* The questions the form shows for these answers, unanswered ones included.
Shown(answers) ==
  LET walk[q \in Questions \cup {End}] ==
        IF q = End THEN {} ELSE {q} \cup walk[NextQuestion(answers, q)]
  IN  walk[1]

\* No answer is kept behind a branch that is not taken: what is answered is on
\* the trunk or on the way the form takes from the first question.
NothingHiddenKept ==
  ~MixedBranches => \A q \in Questions : data[q] # Unanswered => q \in trunk \cup Shown(data)

\* The transitions the form follows from a question are the ones the
\* validation and the way back know of it.
MapsAgree ==
  \A q \in Questions : {t \in SectionMap(1, NQuestions + 1) : t.from = q} = QuestionMap(q)

\* Whoever answered everything the form showed, up to the end, has taken a path
\* the validation knows.
WalkIsKnown ==
  (\A q \in Shown(data) : data[q] # Unanswered) => ValidateData(data)

\* Going back is going back: where the button leads, the form leads here.
PrevLeadsHere ==
  ~MixedBranches => \A q \in Questions \ {1} :
    (\A r \in Shown(data) : r <= q => data[r] # Unanswered) /\ q \in Shown(data)
       => \A p \in PrevQuestions(q, data) :
            p \in Questions /\ NextQuestion(data, p) = q /\ p \in Shown(data)

\* Without a branch that ends the section, its mark is never better than its
\* data, and a section that validates has no unanswered question on the way.
ShortcutToEnd == \E b \in branch : b.to = End
MarkIsEarned ==
  ~ShortcutToEnd /\ (valid \/ ValidateData(data)) =>
    /\ ValidateData(data)
    /\ \A q \in Shown(data) : data[q] # Unanswered

\* A section that validates has no unanswered question left on the way.
ValidIsComplete ==
  ValidateData(data) => \A q \in Shown(data) : data[q] # Unanswered

\* The buttons never end in an exception.
NeverFails == at # Failed
=============================================================================
