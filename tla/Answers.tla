------------------------------- MODULE Answers -------------------------------
(***************************************************************************)
(* Answering the questions of a plan, request by request and transaction   *)
(* by transaction: AnswerQuestionView (one question of a branching         *)
(* section), AnswerLinearSectionView (all questions of a section), the     *)
(* validation of a plan and the display of it, which stores a verdict too. *)
(* A request works on the rows it loaded when it began and writes whole    *)
(* rows back; the worker may be killed between two transactions.           *)
(*                                                                         *)
(* Which questions a form shows is what Flow models in detail; here it is  *)
(* given as Visible.  The other columns of Plan are in PlanStatus, rows    *)
(* that come and go in AnswerSets.                                         *)
(***************************************************************************)
EXTENDS Naturals, FiniteSets

CONSTANTS
  Worker,      \* the threads that serve requests
  AnswerSet,   \* the answersets of one plan
  NQuestions,  \* each section has the questions 1 .. NQuestions, in this order
  Choice,      \* what may be answered; a form accepts nothing else
  Unanswered,  \* no answer
  NoSet,       \* a request that is about no single answerset
  Branching,   \* the answersets whose section branches
  Forks,       \* the questions of such a section that may lead elsewhere, by an
               \* answer that save_choice tells from the one before
  Given,       \* the answers a plan may begin with: none, or those of a copy
  MaxPosts,    \* bound: how many forms are posted
  Visible      \* Visible[s][a]: the questions shown for the answers a

Questions == 1 .. NQuestions
Answers == [Questions -> Choice \cup {Unanswered}]
Empty == [q \in Questions |-> Unanswered]

ASSUME AnswersAssumption ==
  /\ NQuestions \in Nat /\ MaxPosts \in Nat
  /\ Unanswered \notin Choice /\ NoSet \notin AnswerSet
  /\ Branching \subseteq AnswerSet /\ Forks \subseteq Questions
  /\ Visible \in [AnswerSet -> [Answers -> SUBSET Questions]]
  /\ Given \subseteq [AnswerSet -> Answers]

\* What is asked depends on the forks only (Question.get_condition).
ASSUME ForkAssumption ==
  \A s \in Branching, a \in Answers, q \in Questions \ Forks, c \in Choice :
    Visible[s][[a EXCEPT ![q] = c]] = Visible[s][a]

VARIABLES
  row,         \* AnswerSet: its answers and its mark
  okay,        \* Answer.valid: the questions of each answerset so marked
  planValid,   \* Plan.valid
  req,         \* what each worker is doing, with the rows it has loaded
  posts,       \* how many forms have been posted
  shared,      \* history: answersets two requests have edited at once,
  stirred,     \*   ... whose marks were written in an edit, or whose edit was cut off,
  alone        \*   ... no two requests have overlapped and none was killed

marks == <<okay, planValid>>
history == <<posts, shared, stirred, alone>>
vars == <<row, okay, planValid, req, posts, shared, stirred, alone>>

Editing == {"update", "savePlan", "markAnswer", "markSet", "hide",
            "validate", "store", "planInvalid", "lastSave"}
Unmarking == {"unmarkAnswer", "unmarkSet", "unmarkPlan"}
Checking == {"checkSet", "checkStore", "checkPlan", "verdict", "savePlanValid"}

Idle == [pc |-> "idle", set |-> NoSet, data |-> Empty, valid |-> FALSE, okay |-> {},
         plan |-> FALSE, posted |-> Empty, q |-> 0, todo |-> {},
         rows |-> [s \in AnswerSet |-> Empty]]

\* Section.validate_data and find_validity_of_questions: each question the form
\* shows has an answer (section.questions.all() are the answered ones, valid).
Answered(a) == {q \in Questions : a[q] # Unanswered}
ValidateData(s, a) == a # Empty /\ Visible[s][a] \subseteq Answered(a)

\* The choices of the form that differ from the answers loaded.
Differing(r) == {q \in Questions : r.posted[q] # r.data[q]}

\* AnswerSet.delete_answers of the questions the form does not show.
Keep(s, a) == [q \in Questions |-> IF q \in Visible[s][a] THEN a[q] ELSE Unanswered]

\* The answersets a worker may write to.
Edits(w) == IF req[w].pc \in Editing THEN {req[w].set} ELSE {}
Touches(w) == IF req[w].pc \in Checking THEN req[w].todo
              ELSE {req[w].set} \cap AnswerSet
Others(w) == Worker \ {w}

\* A new plan, or one that AnswerSet.clone has filled with the answers and the
\* marks of a validated one.
Init ==
  /\ row \in {[s \in AnswerSet |-> [data |-> g[s], valid |-> ValidateData(s, g[s])]] : g \in Given}
  /\ okay = [s \in AnswerSet |-> Answered(row[s].data)]
  /\ planValid = FALSE
  /\ req = [w \in Worker |-> Idle]
  /\ posts = 0
  /\ shared = {} /\ stirred = {} /\ alone = TRUE

Free(w) == req[w].pc = "idle"

\* What a request that begins on the sets S meets.
Meet(w, S, edit) ==
  /\ shared' = shared \cup (IF edit THEN S \cap UNION {Edits(v) : v \in Others(w)} ELSE {})
  /\ stirred' = stirred \cup (S \cap UNION {Touches(v) : v \in Others(w)})
  /\ alone' = (alone /\ \A v \in Others(w) : Free(v))

Count == posts < MaxPosts /\ posts' = posts + 1

-----------------------------------------------------------------------------
(* Requests begin.                                                         *)

\* dispatch of both views: the answerset, its plan and the Answers are loaded,
\* the form is valid.  A choice that is not new is not saved.
Load(w, s, posted) ==
  /\ Free(w)
  /\ posted # row[s].data
  /\ req' = [req EXCEPT ![w] = [Idle EXCEPT !.pc = "update", !.set = s,
        !.data = row[s].data, !.valid = row[s].valid, !.okay = okay[s],
        !.plan = planValid, !.posted = posted]]
  /\ Meet(w, {s}, TRUE)
  /\ Count
  /\ UNCHANGED <<row, marks>>

\* A page of a branching section has one question, a linear one all of them.
PostQuestion(w, s) ==
  \E q \in Questions, c \in Choice :
    /\ s \in Branching
    /\ q \in Visible[s][row[s].data]
    /\ Load(w, s, [row[s].data EXCEPT ![q] = c])
PostSection(w, s) ==
  \E posted \in [Questions -> Choice] :
    /\ s \notin Branching
    /\ Load(w, s, posted)

\* AnswerQuestionView.form_invalid, AnswerHelper.set_invalid: nothing happens
\* unless the answer was okay.  (The view of a linear section only complains.)
PostInvalid(w, s) ==
  \E q \in okay[s] :
    /\ Free(w) /\ s \in Branching
    /\ req' = [req EXCEPT ![w] = [Idle EXCEPT !.pc = "unmarkAnswer", !.set = s, !.q = q]]
    /\ Meet(w, {s}, FALSE)
    /\ Count
    /\ UNCHANGED <<row, marks>>

\* ValidatePlanView, for a plan that is not valid: Plan.validate(recalculate).
\* The answersets are read by one query; an empty plan is not looked at.
ValidatePlan(w) ==
  /\ Free(w) /\ ~planValid
  /\ LET data == [s \in AnswerSet |-> row[s].data]
     IN  req' = [req EXCEPT ![w] =
           IF \A s \in AnswerSet : data[s] = Empty THEN [Idle EXCEPT !.pc = "savePlanValid"]
           ELSE [Idle EXCEPT !.pc = "checkSet", !.rows = data, !.todo = AnswerSet]]
  /\ Meet(w, AnswerSet, FALSE)
  /\ UNCHANGED <<row, marks, posts>>

\* PlanDetailView.get: Plan.validate() without recalculation, by any viewer.
ViewPlan(w) ==
  /\ Free(w)
  /\ req' = [req EXCEPT ![w] = [Idle EXCEPT !.pc = "verdict"]]
  /\ Meet(w, {}, FALSE)
  /\ UNCHANGED <<row, marks, posts>>

-----------------------------------------------------------------------------
(* Saving choices: AnswerHelper.save_choice and set_valid, for one question *)
(* after the other.                                                         *)

Goto(w, pc) == req' = [req EXCEPT ![w] = [@ EXCEPT !.pc = pc]]
Done(w) == req' = [req EXCEPT ![w] = Idle]

\* AnswerSet.update_answer, for the first choice of the form that is new: the
\* whole row is saved, and the Answer.
UpdateAnswer(w) ==
  \E q \in Differing(req[w]) :
    LET s == req[w].set
        data == [req[w].data EXCEPT ![q] = req[w].posted[q]]
    IN  /\ req[w].pc = "update"
        /\ \A p \in Differing(req[w]) : q <= p
        /\ row' = [row EXCEPT ![s] = [data |-> data, valid |-> req[w].valid]]
        /\ okay' = [okay EXCEPT ![s] = @ \cup {q}]
        /\ req' = [req EXCEPT ![w] = [@ EXCEPT !.pc = "savePlan", !.q = q, !.data = data]]
        /\ UNCHANGED <<planValid, history>>

\* Mutant: answers that are no longer shown are not hidden.
AfterMarkNoHide(w) ==
  IF Differing(req[w]) # {} THEN "update"
  ELSE IF req[w].set \notin Branching THEN "validate" ELSE "idle"

\* What follows the last step for a question: the next one; when there is none,
\* a section that branches is cleaned up if the answer may lead elsewhere, and
\* a linear one validated.
AfterMark(w) ==
  IF Differing(req[w]) # {} THEN "update"
  ELSE IF req[w].set \notin Branching THEN "validate"
  ELSE IF req[w].q \in Forks THEN "hide" ELSE "idle"
GoOn(w) == IF AfterMark(w) = "idle" THEN Done(w) ELSE Goto(w, AfterMark(w))

\* Plan.save(user=...): the whole row of the plan, valid as it was loaded.
SavePlan(w) ==
  /\ req[w].pc = "savePlan"
  /\ planValid' = req[w].plan
  /\ IF req[w].q \in req[w].okay THEN GoOn(w) ELSE Goto(w, "markAnswer")
  /\ UNCHANGED <<row, okay, history>>

\* Mutant: the row of the answer is looked up by an index that counts from 0.
MarkAnswerByIndex(w) ==
  /\ req[w].pc = "markAnswer"
  /\ okay' = [okay EXCEPT ![req[w].set] = @ \cup {req[w].q - 1}]
  /\ GoOn(w)
  /\ UNCHANGED <<row, planValid, history>>

MarkAnswer(w) ==
  /\ req[w].pc = "markAnswer"
  /\ okay' = [okay EXCEPT ![req[w].set] = @ \cup {req[w].q}]
  /\ IF ~req[w].valid /\ ValidateData(req[w].set, req[w].data)
     THEN Goto(w, "markSet") ELSE GoOn(w)
  /\ UNCHANGED <<row, planValid, history>>

\* The whole row of the answerset again.
MarkSet(w) ==
  /\ req[w].pc = "markSet"
  /\ row' = [row EXCEPT ![req[w].set] = [data |-> req[w].data, valid |-> TRUE]]
  /\ LET pc == AfterMark(w)
     IN  IF pc = "idle" THEN Done(w)
         ELSE req' = [req EXCEPT ![w] = [@ EXCEPT !.pc = pc, !.valid = TRUE]]
  /\ UNCHANGED <<marks, history>>

\* AnswerSet.hide_unreachable_answers_after, delete_answers.
HideUnreachable(w) ==
  /\ req[w].pc = "hide"
  /\ LET s == req[w].set
         kept == Keep(s, req[w].data)
     IN  /\ row' = [row EXCEPT ![s] = [data |-> kept, valid |-> req[w].valid]]
         /\ req' = [req EXCEPT ![w] = [@ EXCEPT !.pc = "validate", !.data = kept,
                                                !.posted = kept]]
  /\ UNCHANGED <<marks, history>>

\* AnswerSet.validate: set_validity_of_answers, then the mark alone, then the
\* mark of the plan if it is not valid.
ValidateAnswers(w) ==
  /\ req[w].pc = "validate"
  /\ okay' = [okay EXCEPT ![req[w].set] = Answered(req[w].data)]
  /\ Goto(w, "store")
  /\ UNCHANGED <<row, planValid, history>>

\* Mutant: the plan is not told.
StoreValidityOnly(w) ==
  /\ req[w].pc = "store"
  /\ row' = [row EXCEPT ![req[w].set] = [@ EXCEPT !.valid = ValidateData(req[w].set, req[w].data)]]
  /\ IF req[w].set \in Branching THEN Done(w) ELSE Goto(w, "lastSave")
  /\ UNCHANGED <<marks, history>>

StoreValidity(w) ==
  /\ req[w].pc = "store"
  /\ LET s == req[w].set
         valid == ValidateData(s, req[w].data)
     IN  /\ row' = [row EXCEPT ![s] = [@ EXCEPT !.valid = valid]]
         /\ IF ~valid THEN Goto(w, "planInvalid")
            ELSE IF s \in Branching THEN Done(w) ELSE Goto(w, "lastSave")
  /\ UNCHANGED <<marks, history>>

PlanInvalid(w) ==
  /\ req[w].pc = "planInvalid"
  /\ planValid' = FALSE
  /\ IF req[w].set \in Branching THEN Done(w)
     ELSE req' = [req EXCEPT ![w] = [@ EXCEPT !.pc = "lastSave", !.plan = FALSE]]
  /\ UNCHANGED <<row, okay, history>>

\* AnswerLinearSectionView.forms_valid saves the plan once more.
LastSave(w) ==
  /\ req[w].pc = "lastSave"
  /\ planValid' = req[w].plan
  /\ Done(w)
  /\ UNCHANGED <<row, okay, history>>

-----------------------------------------------------------------------------
(* An answer marked invalid: three saves of single columns.                *)

UnmarkAnswer(w) ==
  /\ req[w].pc = "unmarkAnswer"
  /\ okay' = [okay EXCEPT ![req[w].set] = @ \ {req[w].q}]
  /\ Goto(w, "unmarkSet")
  /\ UNCHANGED <<row, planValid, history>>

UnmarkSet(w) ==
  /\ req[w].pc = "unmarkSet"
  /\ row' = [row EXCEPT ![req[w].set].valid = FALSE]
  /\ Goto(w, "unmarkPlan")
  /\ UNCHANGED <<marks, history>>

UnmarkPlan(w) ==
  /\ req[w].pc = "unmarkPlan"
  /\ planValid' = FALSE
  /\ Done(w)
  /\ UNCHANGED <<row, okay, history>>

-----------------------------------------------------------------------------
(* Validating a plan: each answerset by what was read of it, then one look *)
(* at the marks of all, then the row of the plan.                          *)

CheckSet(w, s) ==
  /\ req[w].pc = "checkSet" /\ s \in req[w].todo
  /\ okay' = [okay EXCEPT ![s] = Answered(req[w].rows[s])]
  /\ req' = [req EXCEPT ![w] = [@ EXCEPT !.pc = "checkStore", !.set = s]]
  /\ UNCHANGED <<row, planValid, history>>

CheckOn(r) == IF r.todo # {} THEN [r EXCEPT !.pc = "checkSet"] ELSE [Idle EXCEPT !.pc = "verdict"]

\* Mutant: the row is saved without update_fields.
CheckStoreRow(w) ==
  /\ req[w].pc = "checkStore"
  /\ LET s == req[w].set
         valid == ValidateData(s, req[w].rows[s])
     IN  /\ row' = [row EXCEPT ![s] = [data |-> req[w].rows[s], valid |-> valid]]
         /\ LET r == [req[w] EXCEPT !.todo = @ \ {s}]
            IN  req' = [req EXCEPT ![w] = IF valid THEN CheckOn(r) ELSE [r EXCEPT !.pc = "checkPlan"]]
  /\ UNCHANGED <<marks, history>>

CheckStore(w) ==
  /\ req[w].pc = "checkStore"
  /\ LET s == req[w].set
         valid == ValidateData(s, req[w].rows[s])
     IN  /\ row' = [row EXCEPT ![s] = [@ EXCEPT !.valid = valid]]
         /\ LET r == [req[w] EXCEPT !.todo = @ \ {s}]
            IN  req' = [req EXCEPT ![w] = IF valid THEN CheckOn(r) ELSE [r EXCEPT !.pc = "checkPlan"]]
  /\ UNCHANGED <<marks, history>>

CheckPlan(w) ==
  /\ req[w].pc = "checkPlan"
  /\ planValid' = FALSE
  /\ req' = [req EXCEPT ![w] = CheckOn(@)]
  /\ UNCHANGED <<row, okay, history>>

AllMarked ==
  /\ \A s \in AnswerSet : row[s].valid
  /\ \E s \in AnswerSet : row[s].data # Empty

Verdict(w) ==
  /\ req[w].pc = "verdict"
  /\ req' = [req EXCEPT ![w] = [Idle EXCEPT !.pc = "savePlanValid", !.plan = AllMarked]]
  /\ UNCHANGED <<row, marks, history>>

\* Mutant: a verdict is stored only if it is a good one.
SavePlanValidOnly(w) ==
  /\ req[w].pc = "savePlanValid"
  /\ planValid' = (planValid \/ req[w].plan)
  /\ Done(w)
  /\ UNCHANGED <<row, okay, history>>

SavePlanValid(w) ==
  /\ req[w].pc = "savePlanValid"
  /\ planValid' = req[w].plan
  /\ Done(w)
  /\ UNCHANGED <<row, okay, history>>

-----------------------------------------------------------------------------
\* The worker dies, or its request fails, between two transactions.
Kill(w) ==
  /\ ~Free(w)
  /\ Done(w)
  /\ stirred' = stirred \cup Touches(w)
  /\ alone' = FALSE
  /\ UNCHANGED <<row, marks, posts, shared>>

Begin(w) ==
  \/ ValidatePlan(w)
  \/ ViewPlan(w)
  \/ \E s \in AnswerSet : PostQuestion(w, s) \/ PostSection(w, s) \/ PostInvalid(w, s)

Edit(w) ==
  \/ UpdateAnswer(w) \/ SavePlan(w) \/ MarkAnswer(w) \/ MarkSet(w) \/ HideUnreachable(w)
  \/ ValidateAnswers(w) \/ StoreValidity(w) \/ PlanInvalid(w) \/ LastSave(w)
Unmark(w) == UnmarkAnswer(w) \/ UnmarkSet(w) \/ UnmarkPlan(w)
Check(w) ==
  \/ \E s \in AnswerSet : CheckSet(w, s)
  \/ CheckStore(w) \/ CheckPlan(w) \/ Verdict(w) \/ SavePlanValid(w)
Work(w) == Edit(w) \/ Unmark(w) \/ Check(w)

Next == \E w \in Worker : Begin(w) \/ Work(w) \/ Kill(w)

\* A thread that has begun a request goes on with it; nobody has to ask, and
\* no thread has to die.
Fairness == \A w \in Worker : WF_vars(Work(w))

Spec == Init /\ [][Next]_vars /\ Fairness

-----------------------------------------------------------------------------
(* Properties.                                                             *)

TypeOK ==
  /\ row \in [AnswerSet -> [data : Answers, valid : BOOLEAN]]
  /\ okay \in [AnswerSet -> SUBSET Questions]
  /\ planValid \in BOOLEAN
  /\ req \in [Worker -> [pc : {"idle"} \cup Editing \cup Unmarking \cup Checking,
                         set : AnswerSet \cup {NoSet}, data : Answers, valid : BOOLEAN,
                         okay : SUBSET Questions, plan : BOOLEAN, posted : Answers,
                         q : Questions \cup {0}, todo : SUBSET AnswerSet,
                         rows : [AnswerSet -> Answers]]]
  /\ shared \subseteq AnswerSet /\ stirred \subseteq AnswerSet /\ alone \in BOOLEAN
  /\ posts \in 0 .. MaxPosts

\* An answerset that is not edited by two requests at once is a set of
\* registers (AnswerStore), whatever else happens: validations by others, edits
\* of other answersets of the plan, workers killed anywhere.
Store == INSTANCE AnswerStore WITH data <- [s \in AnswerSet |-> row[s].data]
StoreImplemented == Store!Init /\ [][Store!Next]_<<[s \in AnswerSet |-> row[s].data], shared>>

\* No request is busy with the answerset.
Resting(s) == \A w \in Worker : s \notin Touches(w)

\* The marks of an answerset are never better than its answers, unless a
\* validation or another edit met an edit of it, or an edit was cut off.
MarkIsEarned ==
  \A s \in AnswerSet : s \notin stirred /\ Resting(s) =>
    /\ row[s].valid => ValidateData(s, row[s].data)
    /\ okay[s] \subseteq Answered(row[s].data)

\* A valid plan has only valid answersets as long as requests follow each other.
PlanMarkIsEarned ==
  alone /\ planValid /\ (\A w \in Worker : Free(w)) =>
    \A s \in AnswerSet : ValidateData(s, row[s].data)

\* Once nobody edits any more, and displays and validations of the plan are
\* again and again finished, its mark comes to say what the marks of the
\* answersets say, whatever stale verdicts and rows were written before.
MarksSettle ==
  /\ <>[](\A w \in Worker : req[w].pc \notin Editing \cup Unmarking)
  /\ []<><<\E w \in Worker : SavePlanValid(w)>>_vars
  => <>[](planValid = AllMarked)
=============================================================================
