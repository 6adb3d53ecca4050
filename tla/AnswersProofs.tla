---------------------------- MODULE AnswersProofs ----------------------------
(***************************************************************************)
(* Proofs about Answers: its types, and that it implements AnswerStore: for*)
(* any number of threads, answersets and questions, and wherever workers   *)
(* are killed, an answerset that no two requests edit at once is a set of  *)
(* registers; and that a mark is never better than the answers, unless     *)
(* requests met on the answerset or one was cut off there, nor the mark of *)
(* a plan, as long as requests follow each other.                          *)
(***************************************************************************)
EXTENDS Answers, TLAPS

PCs == {"idle"} \cup Editing \cup Unmarking \cup Checking

Request ==
  [pc : PCs, set : AnswerSet \cup {NoSet}, data : Answers, valid : BOOLEAN,
   okay : SUBSET Questions, plan : BOOLEAN, posted : Answers, q : Questions \cup {0},
   todo : SUBSET AnswerSet, rows : [AnswerSet -> Answers]]

Rows == [AnswerSet -> [data : Answers, valid : BOOLEAN]]

-----------------------------------------------------------------------------
(* The data.                                                               *)

LEMMA EmptyAnswers == Empty \in Answers
  BY DEF Empty, Answers

LEMMA KeepAnswers ==
  ASSUME NEW s, NEW a \in Answers
  PROVE  Keep(s, a) \in Answers
  BY DEF Keep, Answers

LEMMA IdleRequest == Idle \in Request
  BY EmptyAnswers DEF Idle, Request, PCs

LEMMA TypeOfRequests == TypeOK => req \in [Worker -> Request]
  BY DEF TypeOK, Request, PCs

\* One worker's request is replaced.
LEMMA OneRequest ==
  ASSUME req \in [Worker -> Request], NEW w \in Worker, NEW r \in Request
  PROVE  [req EXCEPT ![w] = r] \in [Worker -> Request]
  OBVIOUS

\* The record of a worker after a change of some of its fields.
LEMMA Fields ==
  ASSUME NEW r \in Request
  PROVE  /\ \A pc \in PCs : [r EXCEPT !.pc = pc] \in Request
         /\ \A pc \in PCs : [r EXCEPT !.pc = pc, !.valid = TRUE] \in Request
         /\ \A pc \in PCs : [r EXCEPT !.pc = pc, !.plan = FALSE] \in Request
         /\ \A pc \in PCs, s \in AnswerSet : [r EXCEPT !.pc = pc, !.set = s] \in Request
         /\ \A pc \in PCs, q \in Questions, a \in Answers :
              [r EXCEPT !.pc = pc, !.q = q, !.data = a] \in Request
         /\ \A pc \in PCs, a, b \in Answers :
              [r EXCEPT !.pc = pc, !.data = a, !.posted = b] \in Request
         /\ \A T \in SUBSET AnswerSet : [r EXCEPT !.todo = T] \in Request
  BY DEF Request

LEMMA GotoType ==
  ASSUME req \in [Worker -> Request], NEW w \in Worker, NEW pc \in PCs, Goto(w, pc)
  PROVE  req' \in [Worker -> Request]
  <1>1. [req[w] EXCEPT !.pc = pc] \in Request
    BY Fields
  <1> QED  BY <1>1, OneRequest DEF Goto

LEMMA DoneType ==
  ASSUME req \in [Worker -> Request], NEW w \in Worker, Done(w)
  PROVE  req' \in [Worker -> Request]
  BY IdleRequest, OneRequest DEF Done

LEMMA AfterMarkType == \A w : AfterMark(w) \in {"update", "validate", "hide", "idle"}
  BY DEF AfterMark

LEMMA GoOnType ==
  ASSUME req \in [Worker -> Request], NEW w \in Worker, GoOn(w)
  PROVE  req' \in [Worker -> Request]
  <1>1. AfterMark(w) \in PCs
    BY AfterMarkType DEF PCs, Editing
  <1> QED  BY <1>1, GotoType, DoneType DEF GoOn

LEMMA CheckOnType ==
  ASSUME NEW r \in Request
  PROVE  CheckOn(r) \in Request
  <1>1. "checkSet" \in PCs /\ "verdict" \in PCs
    BY DEF PCs, Checking
  <1> QED  BY <1>1, Fields, IdleRequest DEF CheckOn

-----------------------------------------------------------------------------
(* Type correctness.                                                       *)

LEMMA InitType == Init => TypeOK
  <1> SUFFICES ASSUME Init PROVE TypeOK
    OBVIOUS
  <1> USE AnswersAssumption
  <1>1. row \in Rows
    <2>1. PICK g \in Given :
            row = [s \in AnswerSet |-> [data |-> g[s], valid |-> ValidateData(s, g[s])]]
      BY DEF Init
    <2>2. \A s \in AnswerSet : g[s] \in Answers /\ ValidateData(s, g[s]) \in BOOLEAN
      BY DEF ValidateData
    <2> QED  BY <2>1, <2>2 DEF Rows
  <1>2. okay \in [AnswerSet -> SUBSET Questions]
    BY DEF Init, Answered
  <1>3. req \in [Worker -> Request]
    BY IdleRequest DEF Init
  <1>4. planValid \in BOOLEAN /\ posts \in 0 .. MaxPosts /\ shared \subseteq AnswerSet
        /\ stirred \subseteq AnswerSet /\ alone \in BOOLEAN
    <2>1. planValid = FALSE /\ posts = 0 /\ shared = {} /\ stirred = {} /\ alone = TRUE
      BY DEF Init
    <2>2. 0 \in 0 .. MaxPosts
      OBVIOUS
    <2> QED  BY <2>1, <2>2
  <1> QED  BY <1>1, <1>2, <1>3, <1>4 DEF TypeOK, Rows, Request, PCs

LEMMA HistoryType ==
  ASSUME TypeOK, NEW w \in Worker, NEW S \in SUBSET AnswerSet, NEW edit \in BOOLEAN,
         Meet(w, S, edit)
  PROVE  shared' \subseteq AnswerSet /\ stirred' \subseteq AnswerSet /\ alone' \in BOOLEAN
  BY DEF Meet, TypeOK, Free

LEMMA LoadType ==
  ASSUME TypeOK, NEW w \in Worker, NEW s \in AnswerSet, NEW posted \in Answers,
         Load(w, s, posted)
  PROVE  TypeOK'
  <1> USE AnswersAssumption
  <1> DEFINE r == [Idle EXCEPT !.pc = "update", !.set = s,
        !.data = row[s].data, !.valid = row[s].valid, !.okay = okay[s],
        !.plan = planValid, !.posted = posted]
  <1>1. r \in Request
    BY IdleRequest DEF TypeOK, Request, PCs, Editing
  <1>2. req' = [req EXCEPT ![w] = r]
    BY DEF Load
  <1> HIDE DEF r
  <1>3. req' \in [Worker -> Request]
    BY <1>1, <1>2, TypeOfRequests, OneRequest
  <1>4. shared' \subseteq AnswerSet /\ stirred' \subseteq AnswerSet /\ alone' \in BOOLEAN
    BY HistoryType DEF Load
  <1>5. posts' \in 0 .. MaxPosts
    BY DEF Load, Count, TypeOK
  <1> QED  BY <1>3, <1>4, <1>5 DEF Load, TypeOK, Request, PCs, marks

LEMMA BeginType ==
  ASSUME TypeOK, NEW w \in Worker, Begin(w)
  PROVE  TypeOK'
  <1> USE AnswersAssumption
  <1>1. CASE ValidatePlan(w)
    <2> DEFINE d == [s \in AnswerSet |-> row[s].data]
               r == [Idle EXCEPT !.pc = "checkSet", !.rows = d, !.todo = AnswerSet]
               e == [Idle EXCEPT !.pc = "savePlanValid"]
    <2>1. r \in Request /\ e \in Request
      BY IdleRequest DEF TypeOK, Request, PCs, Checking
    <2>2. req' = [req EXCEPT ![w] = r] \/ req' = [req EXCEPT ![w] = e]
      BY <1>1 DEF ValidatePlan
    <2> HIDE DEF d, r, e
    <2>3. req' \in [Worker -> Request]
      BY <2>1, <2>2, TypeOfRequests, OneRequest
    <2>4. shared' \subseteq AnswerSet /\ stirred' \subseteq AnswerSet /\ alone' \in BOOLEAN
      BY <1>1, HistoryType DEF ValidatePlan
    <2> QED  BY <1>1, <2>3, <2>4 DEF ValidatePlan, TypeOK, Request, PCs, marks
  <1>2. CASE ViewPlan(w)
    <2> DEFINE r == [Idle EXCEPT !.pc = "verdict"]
    <2>1. r \in Request
      BY IdleRequest DEF Request, PCs, Checking
    <2>2. req' = [req EXCEPT ![w] = r]
      BY <1>2 DEF ViewPlan
    <2> HIDE DEF r
    <2>3. req' \in [Worker -> Request]
      BY <2>1, <2>2, TypeOfRequests, OneRequest
    <2>4. shared' \subseteq AnswerSet /\ stirred' \subseteq AnswerSet /\ alone' \in BOOLEAN
      BY <1>2, HistoryType DEF ViewPlan
    <2> QED  BY <1>2, <2>3, <2>4 DEF ViewPlan, TypeOK, Request, PCs, marks
  <1>3. ASSUME NEW s \in AnswerSet, PostQuestion(w, s)
        PROVE  TypeOK'
    <2>1. PICK q \in Questions, c \in Choice : Load(w, s, [row[s].data EXCEPT ![q] = c])
      BY <1>3 DEF PostQuestion
    <2>2. [row[s].data EXCEPT ![q] = c] \in Answers
      BY DEF TypeOK, Answers
    <2> QED  BY <2>1, <2>2, LoadType
  <1>4. ASSUME NEW s \in AnswerSet, PostSection(w, s)
        PROVE  TypeOK'
    <2>1. PICK posted \in [Questions -> Choice] : Load(w, s, posted)
      BY <1>4 DEF PostSection
    <2>2. posted \in Answers
      BY DEF Answers
    <2> QED  BY <2>1, <2>2, LoadType
  <1>5. ASSUME NEW s \in AnswerSet, PostInvalid(w, s)
        PROVE  TypeOK'
    <2>1. PICK q \in okay[s] :
            /\ req' = [req EXCEPT ![w] = [Idle EXCEPT !.pc = "unmarkAnswer", !.set = s, !.q = q]]
            /\ Meet(w, {s}, FALSE)
            /\ Count
            /\ UNCHANGED <<row, marks>>
      BY <1>5 DEF PostInvalid
    <2> DEFINE r == [Idle EXCEPT !.pc = "unmarkAnswer", !.set = s, !.q = q]
    <2>2. r \in Request
      BY IdleRequest DEF TypeOK, Request, PCs, Unmarking
    <2>3. req' = [req EXCEPT ![w] = r]
      BY <2>1
    <2> HIDE DEF r
    <2>4. req' \in [Worker -> Request]
      BY <2>2, <2>3, TypeOfRequests, OneRequest
    <2>5. shared' \subseteq AnswerSet /\ stirred' \subseteq AnswerSet /\ alone' \in BOOLEAN
      BY <2>1, HistoryType
    <2> QED  BY <2>1, <2>4, <2>5 DEF Count, TypeOK, Request, PCs, marks
  <1> QED  BY <1>1, <1>2, <1>3, <1>4, <1>5 DEF Begin


LEMMA RowType ==
  ASSUME TypeOK, NEW w \in Worker, NEW a \in Answers, NEW v \in BOOLEAN
  PROVE  /\ [row EXCEPT ![req[w].set] = [data |-> a, valid |-> v]] \in Rows
         /\ [row EXCEPT ![req[w].set] = [@ EXCEPT !.valid = v]] \in Rows
  BY DEF TypeOK, Rows

LEMMA OkayType ==
  ASSUME TypeOK, NEW s, NEW Q \in SUBSET Questions
  PROVE  /\ [okay EXCEPT ![s] = Q] \in [AnswerSet -> SUBSET Questions]
         /\ [okay EXCEPT ![s] = @ \cup Q] \in [AnswerSet -> SUBSET Questions]
         /\ [okay EXCEPT ![s] = @ \ Q] \in [AnswerSet -> SUBSET Questions]
  BY DEF TypeOK

LEMMA ReqFields ==
  ASSUME TypeOK, NEW w \in Worker
  PROVE  /\ req \in [Worker -> Request] /\ req[w] \in Request
         /\ req[w].data \in Answers /\ req[w].posted \in Answers
         /\ req[w].valid \in BOOLEAN /\ req[w].plan \in BOOLEAN
         /\ req[w].okay \subseteq Questions /\ req[w].q \in Questions \cup {0}
         /\ req[w].todo \subseteq AnswerSet /\ req[w].rows \in [AnswerSet -> Answers]
         /\ req[w].set \in AnswerSet \cup {NoSet}
         /\ req[w].pc \in PCs
  <1>1. req \in [Worker -> Request]
    BY TypeOfRequests
  <1> QED  BY <1>1 DEF Request

\* What a step in the middle of a request must give to be well typed.
LEMMA Assemble ==
  ASSUME TypeOK,
         req' \in [Worker -> Request],
         row' \in Rows,
         okay' \in [AnswerSet -> SUBSET Questions],
         planValid' \in BOOLEAN,
         UNCHANGED history
  PROVE  TypeOK'
  BY DEF TypeOK, Rows, Request, PCs, history

LEMMA Same ==
  ASSUME TypeOK
  PROVE  /\ row' = row => row' \in Rows
         /\ okay' = okay => okay' \in [AnswerSet -> SUBSET Questions]
         /\ planValid' = planValid => planValid' \in BOOLEAN
  BY DEF TypeOK, Rows

\* A choice that is being saved is the answer to a question.
Saving == {"savePlan", "markAnswer"}
AtQuestion == \A w \in Worker : req[w].pc \in Saving => req[w].q \in Questions

LEMMA EditType ==
  ASSUME TypeOK, AtQuestion, NEW w \in Worker, Edit(w)
  PROVE  TypeOK'
  <1> USE ReqFields, Same
  <1>1. CASE UpdateAnswer(w)
    <2>1. PICK q \in Differing(req[w]) :
            LET s == req[w].set
                data == [req[w].data EXCEPT ![q] = req[w].posted[q]]
            IN  /\ row' = [row EXCEPT ![s] = [data |-> data, valid |-> req[w].valid]]
                /\ okay' = [okay EXCEPT ![s] = @ \cup {q}]
                /\ req' = [req EXCEPT ![w] = [@ EXCEPT !.pc = "savePlan", !.q = q, !.data = data]]
                /\ UNCHANGED <<planValid, history>>
      BY <1>1 DEF UpdateAnswer
    <2> DEFINE a == [req[w].data EXCEPT ![q] = req[w].posted[q]]
    <2>2. q \in Questions
      BY DEF Differing
    <2>3. a \in Answers
      BY <2>2 DEF Answers
    <2>4. req' = [req EXCEPT ![w] = [req[w] EXCEPT !.pc = "savePlan", !.q = q, !.data = a]]
      BY <2>1
    <2>5. row' = [row EXCEPT ![req[w].set] = [data |-> a, valid |-> req[w].valid]]
      BY <2>1
    <2> HIDE DEF a
    <2>6. req' \in [Worker -> Request]
      <3>1. "savePlan" \in PCs
        BY DEF PCs, Editing
      <3>2. [req[w] EXCEPT !.pc = "savePlan", !.q = q, !.data = a] \in Request
        BY <2>2, <2>3, <3>1, Fields
      <3> QED  BY <2>4, <3>2, OneRequest
    <2>7. row' \in Rows
      BY <2>3, <2>5, RowType
    <2>8. okay' \in [AnswerSet -> SUBSET Questions]
      <3>1. okay' = [okay EXCEPT ![req[w].set] = @ \cup {q}] /\ {q} \in SUBSET Questions
        BY <2>1, <2>2
      <3> QED  BY <3>1, OkayType
    <2> QED  BY <2>1, <2>6, <2>7, <2>8, Assemble
  <1>2. CASE SavePlan(w)
    <2>1. req' \in [Worker -> Request]
      <3>1. "markAnswer" \in PCs
        BY DEF PCs, Editing
      <3> QED  BY <1>2, <3>1, GoOnType, GotoType DEF SavePlan
    <2> QED  BY <1>2, <2>1, Assemble DEF SavePlan
  <1>3. CASE MarkAnswer(w)
    <2>0. req[w].q \in Questions
      BY <1>3 DEF MarkAnswer, AtQuestion, Saving
    <2>1. req' \in [Worker -> Request]
      <3>1. "markSet" \in PCs
        BY DEF PCs, Editing
      <3> QED  BY <1>3, <3>1, GoOnType, GotoType DEF MarkAnswer
    <2>2. okay' \in [AnswerSet -> SUBSET Questions]
      <3>1. okay' = [okay EXCEPT ![req[w].set] = @ \cup {req[w].q}]
            /\ {req[w].q} \in SUBSET Questions
        BY <1>3, <2>0 DEF MarkAnswer
      <3> QED  BY <3>1, OkayType
    <2> QED  BY <1>3, <2>1, <2>2, Assemble DEF MarkAnswer
  <1>4. CASE MarkSet(w)
    <2>1. req' \in [Worker -> Request]
      <3>1. AfterMark(w) \in PCs
        BY AfterMarkType DEF PCs, Editing
      <3>2. [req[w] EXCEPT !.pc = AfterMark(w), !.valid = TRUE] \in Request
        BY <3>1, Fields
      <3>3. Done(w) \/ req' = [req EXCEPT ![w] = [req[w] EXCEPT !.pc = AfterMark(w), !.valid = TRUE]]
        BY <1>4 DEF MarkSet
      <3> QED  BY <3>2, <3>3, DoneType, OneRequest
    <2>2. row' \in Rows
      BY <1>4, RowType DEF MarkSet
    <2> QED  BY <1>4, <2>1, <2>2, Assemble DEF MarkSet, marks
  <1>5. CASE HideUnreachable(w)
    <2> DEFINE kept == Keep(req[w].set, req[w].data)
    <2>1. kept \in Answers
      BY KeepAnswers
    <2>2. /\ row' = [row EXCEPT ![req[w].set] = [data |-> kept, valid |-> req[w].valid]]
          /\ req' = [req EXCEPT ![w] =
                [req[w] EXCEPT !.pc = "validate", !.data = kept, !.posted = kept]]
      BY <1>5 DEF HideUnreachable
    <2> HIDE DEF kept
    <2>3. req' \in [Worker -> Request]
      <3>1. "validate" \in PCs
        BY DEF PCs, Editing
      <3>2. [req[w] EXCEPT !.pc = "validate", !.data = kept, !.posted = kept] \in Request
        BY <2>1, <3>1, Fields
      <3> QED  BY <2>2, <3>2, OneRequest
    <2>4. row' \in Rows
      BY <2>1, <2>2, RowType
    <2> QED  BY <1>5, <2>3, <2>4, Assemble DEF HideUnreachable, marks
  <1>6. CASE ValidateAnswers(w)
    <2>1. "store" \in PCs
      BY DEF PCs, Editing
    <2>2. Answered(req[w].data) \in SUBSET Questions
      BY DEF Answered
    <2> QED  BY <1>6, <2>1, <2>2, GotoType, OkayType, Assemble DEF ValidateAnswers
  <1>7. CASE StoreValidity(w)
    <2>1. "planInvalid" \in PCs /\ "lastSave" \in PCs
      BY DEF PCs, Editing
    <2>2. ValidateData(req[w].set, req[w].data) \in BOOLEAN
      BY DEF ValidateData
    <2>3. req' \in [Worker -> Request]
      BY <1>7, <2>1, GotoType, DoneType DEF StoreValidity
    <2>4. row' \in Rows
      BY <1>7, <2>2, RowType DEF StoreValidity
    <2> QED  BY <1>7, <2>3, <2>4, Assemble DEF StoreValidity, marks
  <1>8. CASE PlanInvalid(w)
    <2>1. "lastSave" \in PCs
      BY DEF PCs, Editing
    <2>2. [req[w] EXCEPT !.pc = "lastSave", !.plan = FALSE] \in Request
      BY <2>1, Fields
    <2>3. Done(w) \/ req' = [req EXCEPT ![w] = [req[w] EXCEPT !.pc = "lastSave", !.plan = FALSE]]
      BY <1>8 DEF PlanInvalid
    <2>4. req' \in [Worker -> Request]
      BY <2>2, <2>3, DoneType, OneRequest
    <2> QED  BY <1>8, <2>4, Assemble DEF PlanInvalid
  <1>9. CASE LastSave(w)
    BY <1>9, DoneType, Assemble DEF LastSave
  <1> QED  BY <1>1, <1>2, <1>3, <1>4, <1>5, <1>6, <1>7, <1>8, <1>9 DEF Edit

LEMMA UnmarkType ==
  ASSUME TypeOK, NEW w \in Worker, Unmark(w)
  PROVE  TypeOK'
  <1> USE ReqFields, Same
  <1>1. "unmarkSet" \in PCs /\ "unmarkPlan" \in PCs
    BY DEF PCs, Unmarking
  <1>2. CASE UnmarkAnswer(w)
    <2>1. okay' \in [AnswerSet -> SUBSET Questions]
      <3>1. okay' = [okay EXCEPT ![req[w].set] = @ \ {req[w].q}]
        BY <1>2 DEF UnmarkAnswer
      <3> QED  BY <3>1 DEF TypeOK
    <2> QED  BY <1>1, <1>2, <2>1, GotoType, Assemble DEF UnmarkAnswer
  <1>3. CASE UnmarkSet(w)
    <2>1. row' \in Rows
      BY <1>3, RowType DEF UnmarkSet
    <2> QED  BY <1>1, <1>3, <2>1, GotoType, Assemble DEF UnmarkSet, marks
  <1>4. CASE UnmarkPlan(w)
    BY <1>4, DoneType, Assemble DEF UnmarkPlan
  <1> QED  BY <1>2, <1>3, <1>4 DEF Unmark

LEMMA CheckType ==
  ASSUME TypeOK, NEW w \in Worker, Check(w)
  PROVE  TypeOK'
  <1> USE ReqFields, Same
  <1>1. {"checkSet", "checkStore", "checkPlan", "verdict", "savePlanValid"} \subseteq PCs
    BY DEF PCs, Checking
  <1>2. ASSUME NEW s \in AnswerSet, CheckSet(w, s)
        PROVE  TypeOK'
    <2>1. [req[w] EXCEPT !.pc = "checkStore", !.set = s] \in Request
      BY <1>1, Fields
    <2>2. req' = [req EXCEPT ![w] = [req[w] EXCEPT !.pc = "checkStore", !.set = s]]
      BY <1>2 DEF CheckSet
    <2>3. req' \in [Worker -> Request]
      BY <2>1, <2>2, OneRequest
    <2>4. Answered(req[w].rows[s]) \in SUBSET Questions
      BY DEF Answered
    <2>5. okay' \in [AnswerSet -> SUBSET Questions]
      BY <1>2, <2>4, OkayType DEF CheckSet
    <2> QED  BY <1>2, <2>3, <2>5, Assemble DEF CheckSet
  <1>3. CASE CheckStore(w)
    <2> DEFINE s == req[w].set
               valid == ValidateData(s, req[w].rows[s])
               r == [req[w] EXCEPT !.todo = @ \ {s}]
    <2>1. /\ row' = [row EXCEPT ![req[w].set] = [@ EXCEPT !.valid = valid]]
          /\ req' = [req EXCEPT ![w] = IF valid THEN CheckOn(r) ELSE [r EXCEPT !.pc = "checkPlan"]]
      BY <1>3 DEF CheckStore
    <2>2. valid \in BOOLEAN
      BY DEF ValidateData
    <2>3. r \in Request
      <3>1. req[w].todo \ {s} \in SUBSET AnswerSet
        OBVIOUS
      <3>2. r = [req[w] EXCEPT !.todo = req[w].todo \ {s}]
        OBVIOUS
      <3> QED  BY <3>1, <3>2, Fields
    <2> HIDE DEF r, valid
    <2>4. req' \in [Worker -> Request]
      <3>1. CheckOn(r) \in Request /\ [r EXCEPT !.pc = "checkPlan"] \in Request
        BY <1>1, <2>3, CheckOnType, Fields
      <3> QED  BY <2>1, <3>1, OneRequest
    <2>5. row' \in Rows
      BY <2>1, <2>2, RowType
    <2> QED  BY <1>3, <2>4, <2>5, Assemble DEF CheckStore, marks
  <1>4. CASE CheckPlan(w)
    <2>1. req' = [req EXCEPT ![w] = CheckOn(req[w])]
      BY <1>4 DEF CheckPlan
    <2>2. req' \in [Worker -> Request]
      BY <2>1, CheckOnType, OneRequest
    <2> QED  BY <1>4, <2>2, Assemble DEF CheckPlan
  <1>5. CASE Verdict(w)
    <2> DEFINE r == [Idle EXCEPT !.pc = "savePlanValid", !.plan = AllMarked]
    <2>1. AllMarked \in BOOLEAN
      BY DEF AllMarked
    <2>2. r \in Request
      BY <1>1, <2>1, IdleRequest DEF Request
    <2>3. req' = [req EXCEPT ![w] = r]
      BY <1>5 DEF Verdict
    <2> HIDE DEF r
    <2>4. req' \in [Worker -> Request]
      BY <2>2, <2>3, OneRequest
    <2> QED  BY <1>5, <2>4, Assemble DEF Verdict, marks, history
  <1>6. CASE SavePlanValid(w)
    BY <1>6, DoneType, Assemble DEF SavePlanValid
  <1> QED  BY <1>2, <1>3, <1>4, <1>5, <1>6 DEF Check

LEMMA KillType ==
  ASSUME TypeOK, NEW w \in Worker, Kill(w)
  PROVE  TypeOK'
  <1>1. req' \in [Worker -> Request]
    BY TypeOfRequests, DoneType DEF Kill
  <1>2. Touches(w) \subseteq AnswerSet
    BY ReqFields DEF Touches
  <1> QED  BY <1>1, <1>2 DEF Kill, TypeOK, Request, PCs, marks

\* The one request that a step changes, and how it gets to a question.
LEMMA NextRequest ==
  ASSUME TypeOK, Next
  PROVE  \E w \in Worker : \E r :
                 /\ req' = [req EXCEPT ![w] = r]
                 /\ r.pc \in Saving => r.q \in Questions \/ (r.q = req[w].q /\ req[w].pc \in Saving)
  <1> DEFINE Ok(w, r) == r.pc \in Saving =>
                           r.q \in Questions \/ (r.q = req[w].q /\ req[w].pc \in Saving)
  <1> USE ReqFields DEF Saving
  <1>1. ASSUME NEW w \in Worker, Done(w)
        PROVE  req' = [req EXCEPT ![w] = Idle] /\ Ok(w, Idle)
    BY <1>1 DEF Done, Idle
  <1>2. ASSUME NEW w \in Worker, NEW pc \in PCs \ Saving, Goto(w, pc)
        PROVE  LET r == [req[w] EXCEPT !.pc = pc]
               IN  req' = [req EXCEPT ![w] = r] /\ Ok(w, r)
    BY <1>2 DEF Goto, Request
  <1>3. ASSUME NEW w \in Worker, GoOn(w)
        PROVE  \E r : req' = [req EXCEPT ![w] = r] /\ Ok(w, r)
    <2>1. AfterMark(w) \in PCs \ Saving
      BY AfterMarkType DEF PCs, Editing
    <2> QED  BY <1>1, <1>2, <1>3, <2>1 DEF GoOn
  <1>4. ASSUME NEW w \in Worker, Begin(w)
        PROVE  \E r : req' = [req EXCEPT ![w] = r] /\ Ok(w, r)
    <2>1. ASSUME NEW r, req' = [req EXCEPT ![w] = r], r.pc \notin Saving
          PROVE  \E t : req' = [req EXCEPT ![w] = t] /\ Ok(w, t)
      BY <2>1
    <2>2. CASE ValidatePlan(w)
      <3> DEFINE d == [s \in AnswerSet |-> row[s].data]
                 r == [Idle EXCEPT !.pc = "checkSet", !.rows = d, !.todo = AnswerSet]
                 e == [Idle EXCEPT !.pc = "savePlanValid"]
      <3>1. req' = [req EXCEPT ![w] = r] \/ req' = [req EXCEPT ![w] = e]
        BY <2>2 DEF ValidatePlan
      <3>2. r.pc \notin Saving /\ e.pc \notin Saving
        BY DEF Idle
      <3> HIDE DEF d, r, e
      <3> QED  BY <2>1, <3>1, <3>2
    <2>3. CASE ViewPlan(w)
      <3> DEFINE r == [Idle EXCEPT !.pc = "verdict"]
      <3>1. req' = [req EXCEPT ![w] = r] /\ r.pc \notin Saving
        BY <2>3 DEF ViewPlan, Idle
      <3> HIDE DEF r
      <3> QED  BY <2>1, <3>1
    <2>4. ASSUME NEW s, NEW posted, Load(w, s, posted)
          PROVE  \E r : req' = [req EXCEPT ![w] = r] /\ Ok(w, r)
      <3> DEFINE r == [Idle EXCEPT !.pc = "update", !.set = s,
            !.data = row[s].data, !.valid = row[s].valid, !.okay = okay[s],
            !.plan = planValid, !.posted = posted]
      <3>1. req' = [req EXCEPT ![w] = r]
        BY <2>4 DEF Load
      <3>2. r.pc \notin Saving
        BY DEF Idle
      <3> HIDE DEF r
      <3> QED  BY <2>1, <3>1, <3>2
    <2>5. ASSUME NEW s \in AnswerSet, PostInvalid(w, s)
          PROVE  \E r : req' = [req EXCEPT ![w] = r] /\ Ok(w, r)
      <3>1. PICK q \in okay[s] :
              req' = [req EXCEPT ![w] = [Idle EXCEPT !.pc = "unmarkAnswer", !.set = s, !.q = q]]
        BY <2>5 DEF PostInvalid
      <3> DEFINE r == [Idle EXCEPT !.pc = "unmarkAnswer", !.set = s, !.q = q]
      <3>2. req' = [req EXCEPT ![w] = r] /\ r.pc \notin Saving
        BY <3>1 DEF Idle
      <3> HIDE DEF r
      <3> QED  BY <2>1, <3>2
    <2> QED  BY <1>4, <2>2, <2>3, <2>4, <2>5 DEF Begin, PostQuestion, PostSection
  <1>5. ASSUME NEW w \in Worker, Edit(w)
        PROVE  \E r : req' = [req EXCEPT ![w] = r] /\ Ok(w, r)
    <2>1. CASE UpdateAnswer(w)
      <3>1. PICK q \in Differing(req[w]) :
              LET data == [req[w].data EXCEPT ![q] = req[w].posted[q]]
              IN  req' = [req EXCEPT ![w] = [@ EXCEPT !.pc = "savePlan", !.q = q, !.data = data]]
        BY <2>1 DEF UpdateAnswer
      <3> DEFINE a == [req[w].data EXCEPT ![q] = req[w].posted[q]]
                 r == [req[w] EXCEPT !.pc = "savePlan", !.q = q, !.data = a]
      <3>2. req' = [req EXCEPT ![w] = r]
        BY <3>1
      <3>3. q \in Questions
        BY DEF Differing
      <3> HIDE DEF a
      <3>4. r.q \in Questions
        BY <3>3 DEF Request
      <3> QED  BY <3>2, <3>4
    <2>2. CASE SavePlan(w)
      <3>1. CASE req[w].q \in req[w].okay
        BY <2>2, <3>1, <1>3 DEF SavePlan
      <3>2. CASE req[w].q \notin req[w].okay
        <4> DEFINE r == [req[w] EXCEPT !.pc = "markAnswer"]
        <4>1. req' = [req EXCEPT ![w] = r] /\ req[w].pc \in Saving
          BY <2>2, <3>2 DEF SavePlan, Goto
        <4>2. r.q = req[w].q
          BY DEF Request
        <4> QED  BY <4>1, <4>2
      <3> QED  BY <3>1, <3>2
    <2>3. CASE MarkAnswer(w)
      <3>1. "markSet" \in PCs \ Saving
        BY DEF PCs, Editing
      <3> QED  BY <2>3, <3>1, <1>2, <1>3 DEF MarkAnswer
    <2>4. CASE MarkSet(w)
      <3> DEFINE r == [req[w] EXCEPT !.pc = AfterMark(w), !.valid = TRUE]
      <3>1. Done(w) \/ req' = [req EXCEPT ![w] = r]
        BY <2>4 DEF MarkSet
      <3>2. AfterMark(w) \notin Saving
        BY AfterMarkType
      <3>3. r.pc \notin Saving
        BY <3>2 DEF Request
      <3> HIDE DEF r
      <3> QED  BY <1>1, <3>1, <3>3
    <2>5. CASE HideUnreachable(w)
      <3> DEFINE a == Keep(req[w].set, req[w].data)
                 r == [req[w] EXCEPT !.pc = "validate", !.data = a, !.posted = a]
      <3>1. req' = [req EXCEPT ![w] = r]
        BY <2>5 DEF HideUnreachable
      <3> HIDE DEF a
      <3>2. r.pc = "validate"
        BY DEF Request
      <3> QED  BY <3>1, <3>2
    <2>6. CASE ValidateAnswers(w)
      <3>1. "store" \in PCs \ Saving
        BY DEF PCs, Editing
      <3> QED  BY <2>6, <3>1, <1>2 DEF ValidateAnswers
    <2>7. CASE StoreValidity(w)
      <3>1. "planInvalid" \in PCs \ Saving /\ "lastSave" \in PCs \ Saving
        BY DEF PCs, Editing
      <3>2. Goto(w, "planInvalid") \/ Goto(w, "lastSave") \/ Done(w)
        BY <2>7 DEF StoreValidity
      <3> QED  BY <3>1, <3>2, <1>1, <1>2
    <2>8. CASE PlanInvalid(w)
      <3> DEFINE r == [req[w] EXCEPT !.pc = "lastSave", !.plan = FALSE]
      <3>1. Done(w) \/ req' = [req EXCEPT ![w] = r]
        BY <2>8 DEF PlanInvalid
      <3>2. r.pc = "lastSave"
        BY DEF Request
      <3> QED  BY <1>1, <3>1, <3>2
    <2>9. CASE LastSave(w)
      BY <2>9, <1>1 DEF LastSave
    <2> QED  BY <1>5, <2>1, <2>2, <2>3, <2>4, <2>5, <2>6, <2>7, <2>8, <2>9 DEF Edit
  <1>6. ASSUME NEW w \in Worker, Unmark(w)
        PROVE  \E r : req' = [req EXCEPT ![w] = r] /\ Ok(w, r)
    <2>1. "unmarkSet" \in PCs \ Saving /\ "unmarkPlan" \in PCs \ Saving
      BY DEF PCs, Unmarking
    <2>2. Goto(w, "unmarkSet") \/ Goto(w, "unmarkPlan") \/ Done(w)
      BY <1>6 DEF Unmark, UnmarkAnswer, UnmarkSet, UnmarkPlan
    <2> QED  BY <2>1, <2>2, <1>1, <1>2
  <1>7. ASSUME NEW w \in Worker, Check(w)
        PROVE  \E r : req' = [req EXCEPT ![w] = r] /\ Ok(w, r)
    <2>1. ASSUME NEW r \in Request, r.q = req[w].q
          PROVE  CheckOn(r).pc \notin Saving
      BY DEF CheckOn, Idle, Request
    <2>2. ASSUME NEW s \in AnswerSet, CheckSet(w, s)
          PROVE  \E r : req' = [req EXCEPT ![w] = r] /\ Ok(w, r)
      <3> DEFINE r == [req[w] EXCEPT !.pc = "checkStore", !.set = s]
      <3>1. req' = [req EXCEPT ![w] = r] /\ r.pc = "checkStore"
        BY <2>2 DEF CheckSet, Request
      <3> QED  BY <3>1
    <2>3. CASE CheckStore(w)
      <3> DEFINE t == [req[w] EXCEPT !.todo = req[w].todo \ {req[w].set}]
                 c == CheckOn(t)
                 e == [t EXCEPT !.pc = "checkPlan"]
      <3>1. req' = [req EXCEPT ![w] = c] \/ req' = [req EXCEPT ![w] = e]
        BY <2>3 DEF CheckStore
      <3>2. t \in Request /\ t.q = req[w].q
        BY DEF Request
      <3> HIDE DEF t
      <3>3. e.pc = "checkPlan" /\ c.pc \notin Saving
        BY <3>2, <2>1 DEF Request
      <3> HIDE DEF e, c
      <3> QED  BY <3>1, <3>3
    <2>4. CASE CheckPlan(w)
      BY <2>4, <2>1 DEF CheckPlan
    <2>5. CASE Verdict(w)
      <3> DEFINE r == [Idle EXCEPT !.pc = "savePlanValid", !.plan = AllMarked]
      <3>1. req' = [req EXCEPT ![w] = r]
        BY <2>5 DEF Verdict
      <3>2. r.pc \notin Saving
        BY DEF Idle
      <3> HIDE DEF r
      <3> QED  BY <3>1, <3>2
    <2>6. CASE SavePlanValid(w)
      BY <2>6, <1>1 DEF SavePlanValid
    <2> QED  BY <1>7, <2>2, <2>3, <2>4, <2>5, <2>6 DEF Check
  <1>8. ASSUME NEW w \in Worker, Kill(w)
        PROVE  \E r : req' = [req EXCEPT ![w] = r] /\ Ok(w, r)
    BY <1>8, <1>1 DEF Kill
  <1> QED  BY <1>4, <1>5, <1>6, <1>7, <1>8 DEF Next, Work

LEMMA NextAtQuestion ==
  ASSUME TypeOK, AtQuestion, [Next]_vars
  PROVE  AtQuestion'
  <1>1. CASE UNCHANGED vars
    BY <1>1 DEF vars, AtQuestion
  <1>2. CASE Next
    BY <1>2, NextRequest, TypeOfRequests DEF AtQuestion
  <1> QED  BY <1>1, <1>2

LEMMA NextType == TypeOK /\ AtQuestion /\ [Next]_vars => TypeOK'
  <1> SUFFICES ASSUME TypeOK, AtQuestion, [Next]_vars PROVE TypeOK'
    OBVIOUS
  <1>1. CASE UNCHANGED vars
    BY <1>1 DEF vars, TypeOK
  <1>2. CASE Next
    BY <1>2, BeginType, EditType, UnmarkType, CheckType, KillType DEF Next, Work
  <1> QED  BY <1>1, <1>2

TypeInv == TypeOK /\ AtQuestion

THEOREM TypeInvariant == Spec => []TypeInv
  <1>1. Init => TypeInv
    BY InitType DEF Init, TypeInv, AtQuestion, Saving, Idle
  <1>2. TypeInv /\ [Next]_vars => TypeInv'
    BY NextType, NextAtQuestion DEF TypeInv
  <1> QED  BY <1>1, <1>2, PTL DEF Spec

\* The rows, the marks and what the requests hold have their types.
THEOREM TypeCorrect == Spec => []TypeOK
  <1>1. TypeInv => TypeOK
    BY DEF TypeInv
  <1> QED  BY <1>1, TypeInvariant, PTL

-----------------------------------------------------------------------------
(* The refinement.  A request that edits an answerset nobody else edits     *)
(* holds the answers that are in the table; that is what makes its saves of *)
(* whole rows writes of single registers.                                   *)

PostedAreChoices(r) == \A q \in Questions : r.posted[q] # r.data[q] => r.posted[q] \in Choice

StoreInv ==
  \A w \in Worker : req[w].pc \in Editing =>
    /\ req[w].set \in AnswerSet
    /\ req[w].set \notin shared => req[w].data = row[req[w].set].data
    /\ \A v \in Others(w) :
         req[v].pc \in Editing /\ req[v].set = req[w].set => req[w].set \in shared
    /\ PostedAreChoices(req[w])

\* What a step does to the answers: nothing, and no request becomes an edit ...
Quiet(w, r) ==
  /\ shared' = shared
  /\ \A s \in AnswerSet : row'[s].data = row[s].data
  /\ r.pc \in Editing => /\ req[w].pc \in Editing
                         /\ r.set = req[w].set /\ r.data = req[w].data /\ r.posted = req[w].posted

\* ... or a request loads a row to edit it ...
Enters(w, r) ==
  /\ row' = row
  /\ r.set \in AnswerSet /\ r.data = row[r.set].data /\ PostedAreChoices(r)
  /\ shared' = shared \cup ({r.set} \cap UNION {Edits(v) : v \in Others(w)})

\* ... or an edit saves its row, with one answer of the form or without the
\* answers that are not shown.
NewData(w, d) ==
  \/ d = req[w].data
  \/ d = Keep(req[w].set, req[w].data)
  \/ \E q \in Questions : /\ req[w].posted[q] # req[w].data[q]
                          /\ d = [req[w].data EXCEPT ![q] = req[w].posted[q]]

Writes(w, r, d) ==
  /\ req[w].pc \in Editing
  /\ shared' = shared
  /\ \A s \in AnswerSet : row'[s].data = IF s = req[w].set THEN d ELSE row[s].data
  /\ NewData(w, d)
  /\ d \in Answers
  /\ r.pc \in Editing =>
       /\ r.set = req[w].set /\ r.data = d
       /\ \A q \in Questions : r.posted[q] # d[q] =>
            r.posted[q] = req[w].posted[q] /\ req[w].posted[q] # req[w].data[q]

Effect(w) ==
  \E r, d : req' = [req EXCEPT ![w] = r] /\ (Quiet(w, r) \/ Enters(w, r) \/ Writes(w, r, d))

LEMMA QuietEffect ==
  ASSUME NEW w \in Worker, NEW r, req' = [req EXCEPT ![w] = r], Quiet(w, r)
  PROVE  Effect(w)
  BY DEF Effect

LEMMA MarksKeepData ==
  ASSUME TypeOK, NEW s, NEW v, row' = [row EXCEPT ![s] = [@ EXCEPT !.valid = v]]
  PROVE  \A t \in AnswerSet : row'[t].data = row[t].data
  BY DEF TypeOK

LEMMA DoneEffect ==
  ASSUME NEW w \in Worker, Done(w), shared' = shared,
         \A s \in AnswerSet : row'[s].data = row[s].data
  PROVE  Effect(w)
  <1>1. Idle.pc \notin Editing
    BY DEF Idle, Editing
  <1> QED  BY <1>1, QuietEffect DEF Done, Quiet

LEMMA GotoEffect ==
  ASSUME TypeOK, NEW w \in Worker, NEW pc, Goto(w, pc), shared' = shared,
         pc \in Editing => req[w].pc \in Editing,
         \A s \in AnswerSet : row'[s].data = row[s].data
  PROVE  Effect(w)
  <1> DEFINE r == [req[w] EXCEPT !.pc = pc]
  <1>1. r.pc = pc /\ r.set = req[w].set /\ r.data = req[w].data /\ r.posted = req[w].posted
    BY ReqFields DEF Request
  <1>2. req' = [req EXCEPT ![w] = r]
    BY DEF Goto
  <1> HIDE DEF r
  <1> QED  BY <1>1, <1>2, QuietEffect DEF Quiet

LEMMA GoOnEffect ==
  ASSUME TypeOK, NEW w \in Worker, GoOn(w), shared' = shared, req[w].pc \in Editing,
         \A s \in AnswerSet : row'[s].data = row[s].data
  PROVE  Effect(w)
  BY GotoEffect, DoneEffect DEF GoOn

LEMMA LoadEffect ==
  ASSUME TypeOK, NEW w \in Worker, NEW s \in AnswerSet, NEW posted, Load(w, s, posted),
         \A q \in Questions : posted[q] # row[s].data[q] => posted[q] \in Choice
  PROVE  Effect(w)
  <1> DEFINE r == [Idle EXCEPT !.pc = "update", !.set = s,
        !.data = row[s].data, !.valid = row[s].valid, !.okay = okay[s],
        !.plan = planValid, !.posted = posted]
  <1>1. req' = [req EXCEPT ![w] = r]
    BY DEF Load
  <1>2. r.set = s /\ r.data = row[s].data /\ r.posted = posted
    BY DEF Idle
  <1>3. row' = row /\ shared' = shared \cup ({s} \cap UNION {Edits(v) : v \in Others(w)})
    BY DEF Load, Meet
  <1> HIDE DEF r
  <1>4. Enters(w, r)
    BY <1>2, <1>3 DEF Enters, PostedAreChoices
  <1> QED  BY <1>1, <1>4 DEF Effect

LEMMA BeginEffect ==
  ASSUME TypeOK, NEW w \in Worker, Begin(w)
  PROVE  Effect(w)
  <1>1. ASSUME NEW r, req' = [req EXCEPT ![w] = r], r.pc \notin Editing, row' = row,
               NEW S, Meet(w, S, FALSE)
        PROVE  Effect(w)
    BY <1>1, QuietEffect DEF Quiet, Meet
  <1>2. CASE ValidatePlan(w)
    <2> DEFINE d == [s \in AnswerSet |-> row[s].data]
               r == [Idle EXCEPT !.pc = "checkSet", !.rows = d, !.todo = AnswerSet]
               e == [Idle EXCEPT !.pc = "savePlanValid"]
    <2>1. req' = [req EXCEPT ![w] = r] \/ req' = [req EXCEPT ![w] = e]
      BY <1>2 DEF ValidatePlan
    <2>2. r.pc \notin Editing /\ e.pc \notin Editing
      BY DEF Idle, Editing
    <2> HIDE DEF d, r, e
    <2> QED  BY <1>1, <1>2, <2>1, <2>2 DEF ValidatePlan
  <1>3. CASE ViewPlan(w)
    <2> DEFINE r == [Idle EXCEPT !.pc = "verdict"]
    <2>1. req' = [req EXCEPT ![w] = r] /\ r.pc \notin Editing
      BY <1>3 DEF ViewPlan, Idle, Editing
    <2> HIDE DEF r
    <2> QED  BY <1>1, <1>3, <2>1 DEF ViewPlan
  <1>4. ASSUME NEW s \in AnswerSet, PostQuestion(w, s)
        PROVE  Effect(w)
    <2>1. PICK q \in Questions, c \in Choice : Load(w, s, [row[s].data EXCEPT ![q] = c])
      BY <1>4 DEF PostQuestion
    <2>2. row[s].data \in Answers
      BY DEF TypeOK
    <2>3. \A p \in Questions : [row[s].data EXCEPT ![q] = c][p] # row[s].data[p]
                                 => [row[s].data EXCEPT ![q] = c][p] \in Choice
      BY <2>2 DEF Answers
    <2> QED  BY <2>1, <2>3, LoadEffect
  <1>5. ASSUME NEW s \in AnswerSet, PostSection(w, s)
        PROVE  Effect(w)
    <2>1. PICK posted \in [Questions -> Choice] : Load(w, s, posted)
      BY <1>5 DEF PostSection
    <2> QED  BY <2>1, LoadEffect
  <1>6. ASSUME NEW s \in AnswerSet, PostInvalid(w, s)
        PROVE  Effect(w)
    <2>1. PICK q \in okay[s] :
            /\ req' = [req EXCEPT ![w] = [Idle EXCEPT !.pc = "unmarkAnswer", !.set = s, !.q = q]]
            /\ Meet(w, {s}, FALSE) /\ row' = row
      BY <1>6 DEF PostInvalid
    <2> DEFINE r == [Idle EXCEPT !.pc = "unmarkAnswer", !.set = s, !.q = q]
    <2>2. req' = [req EXCEPT ![w] = r] /\ r.pc \notin Editing
      BY <2>1 DEF Idle, Editing
    <2> HIDE DEF r
    <2> QED  BY <1>1, <2>1, <2>2
  <1> QED  BY <1>2, <1>3, <1>4, <1>5, <1>6 DEF Begin

LEMMA EditEffect ==
  ASSUME TypeOK, NEW w \in Worker, Edit(w)
  PROVE  Effect(w)
  <1> USE ReqFields
  <1>1. CASE UpdateAnswer(w)
    <2>1. PICK q \in Differing(req[w]) :
            LET s == req[w].set
                data == [req[w].data EXCEPT ![q] = req[w].posted[q]]
            IN  /\ req[w].pc = "update"
                /\ row' = [row EXCEPT ![s] = [data |-> data, valid |-> req[w].valid]]
                /\ req' = [req EXCEPT ![w] = [@ EXCEPT !.pc = "savePlan", !.q = q, !.data = data]]
                /\ UNCHANGED <<planValid, history>>
      BY <1>1 DEF UpdateAnswer
    <2> DEFINE d == [req[w].data EXCEPT ![q] = req[w].posted[q]]
               r == [req[w] EXCEPT !.pc = "savePlan", !.q = q, !.data = d]
    <2>2. /\ row' = [row EXCEPT ![req[w].set] = [data |-> d, valid |-> req[w].valid]]
          /\ req' = [req EXCEPT ![w] = r]
          /\ shared' = shared /\ req[w].pc \in Editing
      BY <2>1 DEF history, Editing
    <2>3. q \in Questions /\ req[w].posted[q] # req[w].data[q]
      BY DEF Differing
    <2>4. d \in Answers /\ \A p \in Questions : d[p] = IF p = q THEN req[w].posted[q] ELSE req[w].data[p]
      BY <2>3 DEF Answers
    <2>5. NewData(w, d)
      BY <2>3 DEF NewData
    <2> HIDE DEF d
    <2>6. r.set = req[w].set /\ r.data = d /\ r.posted = req[w].posted
      BY DEF Request
    <2> HIDE DEF r
    <2>7. \A p \in Questions : r.posted[p] # d[p] =>
            r.posted[p] = req[w].posted[p] /\ req[w].posted[p] # req[w].data[p]
      BY <2>4, <2>6
    <2>8. \A t \in AnswerSet : row'[t].data = IF t = req[w].set THEN d ELSE row[t].data
      BY <2>2 DEF TypeOK
    <2>9. Writes(w, r, d)
      BY <2>2, <2>4, <2>5, <2>6, <2>7, <2>8 DEF Writes
    <2> QED  BY <2>2, <2>9 DEF Effect
  <1>2. CASE SavePlan(w)
    <2>1. shared' = shared /\ row' = row /\ req[w].pc \in Editing
      BY <1>2 DEF SavePlan, history, Editing
    <2>2. GoOn(w) \/ Goto(w, "markAnswer")
      BY <1>2 DEF SavePlan
    <2> QED  BY <2>1, <2>2, GoOnEffect, GotoEffect
  <1>3. CASE MarkAnswer(w)
    <2>1. shared' = shared /\ row' = row /\ req[w].pc \in Editing
      BY <1>3 DEF MarkAnswer, history, Editing
    <2>2. GoOn(w) \/ Goto(w, "markSet")
      BY <1>3 DEF MarkAnswer
    <2> QED  BY <2>1, <2>2, GoOnEffect, GotoEffect
  <1>4. CASE MarkSet(w)
    <2> DEFINE d == req[w].data
               r == [req[w] EXCEPT !.pc = AfterMark(w), !.valid = TRUE]
    <2>1. /\ row' = [row EXCEPT ![req[w].set] = [data |-> d, valid |-> TRUE]]
          /\ req' = [req EXCEPT ![w] = Idle] \/ req' = [req EXCEPT ![w] = r]
          /\ shared' = shared /\ req[w].pc \in Editing
      BY <1>4 DEF MarkSet, history, Editing, Done
    <2>2. NewData(w, d)
      BY DEF NewData
    <2>3. r.set = req[w].set /\ r.data = d /\ r.posted = req[w].posted
      BY DEF Request
    <2> HIDE DEF r
    <2>4. \A t \in AnswerSet : row'[t].data = IF t = req[w].set THEN d ELSE row[t].data
      BY <2>1 DEF TypeOK
    <2>5. Idle.pc \notin Editing
      BY DEF Idle, Editing
    <2>6. Writes(w, r, d) /\ Writes(w, Idle, d)
      BY <2>1, <2>2, <2>3, <2>4, <2>5 DEF Writes
    <2> QED  BY <2>1, <2>6 DEF Effect
  <1>5. CASE HideUnreachable(w)
    <2> DEFINE d == Keep(req[w].set, req[w].data)
               r == [req[w] EXCEPT !.pc = "validate", !.data = d, !.posted = d]
    <2>1. /\ row' = [row EXCEPT ![req[w].set] = [data |-> d, valid |-> req[w].valid]]
          /\ req' = [req EXCEPT ![w] = r]
          /\ shared' = shared /\ req[w].pc \in Editing
      BY <1>5 DEF HideUnreachable, history, Editing
    <2>2. NewData(w, d) /\ d \in Answers
      BY KeepAnswers DEF NewData
    <2> HIDE DEF d
    <2>3. r.set = req[w].set /\ r.data = d /\ r.posted = d
      BY DEF Request
    <2> HIDE DEF r
    <2>4. \A t \in AnswerSet : row'[t].data = IF t = req[w].set THEN d ELSE row[t].data
      BY <2>1 DEF TypeOK
    <2>5. Writes(w, r, d)
      BY <2>1, <2>2, <2>3, <2>4 DEF Writes
    <2> QED  BY <2>1, <2>5 DEF Effect
  <1>6. CASE ValidateAnswers(w)
    <2>1. shared' = shared /\ row' = row /\ req[w].pc \in Editing /\ Goto(w, "store")
      BY <1>6 DEF ValidateAnswers, history, Editing
    <2> QED  BY <2>1, GotoEffect
  <1>7. CASE StoreValidity(w)
    <2>1. /\ shared' = shared /\ req[w].pc \in Editing
          /\ Goto(w, "planInvalid") \/ Goto(w, "lastSave") \/ Done(w)
          /\ row' = [row EXCEPT ![req[w].set] =
                       [@ EXCEPT !.valid = ValidateData(req[w].set, req[w].data)]]
      BY <1>7 DEF StoreValidity, history, Editing
    <2>2. \A s \in AnswerSet : row'[s].data = row[s].data
      BY <2>1, MarksKeepData
    <2> QED  BY <2>1, <2>2, GotoEffect, DoneEffect
  <1>8. CASE PlanInvalid(w)
    <2> DEFINE r == [req[w] EXCEPT !.pc = "lastSave", !.plan = FALSE]
    <2>1. /\ shared' = shared /\ row' = row /\ req[w].pc \in Editing
          /\ Done(w) \/ req' = [req EXCEPT ![w] = r]
      BY <1>8 DEF PlanInvalid, history, Editing
    <2>2. r.set = req[w].set /\ r.data = req[w].data /\ r.posted = req[w].posted
      BY DEF Request
    <2> HIDE DEF r
    <2> QED  BY <2>1, <2>2, DoneEffect, QuietEffect DEF Quiet
  <1>9. CASE LastSave(w)
    BY <1>9, DoneEffect DEF LastSave, history
  <1> QED  BY <1>1, <1>2, <1>3, <1>4, <1>5, <1>6, <1>7, <1>8, <1>9 DEF Edit

LEMMA UnmarkEffect ==
  ASSUME TypeOK, NEW w \in Worker, Unmark(w)
  PROVE  Effect(w)
  <1>1. "unmarkSet" \notin Editing /\ "unmarkPlan" \notin Editing
    BY DEF Editing
  <1>2. CASE UnmarkAnswer(w)
    BY <1>1, <1>2, GotoEffect DEF UnmarkAnswer, history
  <1>3. CASE UnmarkSet(w)
    <2>1. \A s \in AnswerSet : row'[s].data = row[s].data
      BY <1>3 DEF UnmarkSet, TypeOK
    <2> QED  BY <1>1, <1>3, <2>1, GotoEffect DEF UnmarkSet, history
  <1>4. CASE UnmarkPlan(w)
    BY <1>4, DoneEffect DEF UnmarkPlan, history
  <1> QED  BY <1>2, <1>3, <1>4 DEF Unmark

LEMMA CheckEffect ==
  ASSUME TypeOK, NEW w \in Worker, Check(w)
  PROVE  Effect(w)
  <1> USE ReqFields
  <1>1. ASSUME NEW r, req' = [req EXCEPT ![w] = r], r.pc \notin Editing,
               \A s \in AnswerSet : row'[s].data = row[s].data, shared' = shared
        PROVE  Effect(w)
    BY <1>1, QuietEffect DEF Quiet
  <1>2. ASSUME NEW r \in Request
        PROVE  CheckOn(r).pc \notin Editing
    BY DEF CheckOn, Idle, Request, Editing
  <1>3. ASSUME NEW s \in AnswerSet, CheckSet(w, s)
        PROVE  Effect(w)
    <2> DEFINE r == [req[w] EXCEPT !.pc = "checkStore", !.set = s]
    <2>1. req' = [req EXCEPT ![w] = r] /\ r.pc = "checkStore" /\ row' = row /\ shared' = shared
      BY <1>3 DEF CheckSet, history, Request
    <2>2. r.pc \notin Editing
      BY <2>1 DEF Editing
    <2> HIDE DEF r
    <2> QED  BY <2>1, <2>2, <1>1
  <1>4. CASE CheckStore(w)
    <2> DEFINE t == [req[w] EXCEPT !.todo = req[w].todo \ {req[w].set}]
               c == CheckOn(t)
               e == [t EXCEPT !.pc = "checkPlan"]
               v == ValidateData(req[w].set, req[w].rows[req[w].set])
    <2>1. /\ req' = [req EXCEPT ![w] = c] \/ req' = [req EXCEPT ![w] = e]
          /\ row' = [row EXCEPT ![req[w].set] = [@ EXCEPT !.valid = v]]
          /\ shared' = shared
      BY <1>4 DEF CheckStore, history
    <2>2. t \in Request
      BY DEF Request
    <2> HIDE DEF t, v
    <2>3. e.pc \notin Editing /\ c.pc \notin Editing
      BY <2>2, <1>2 DEF Request, Editing
    <2>4. \A s \in AnswerSet : row'[s].data = row[s].data
      BY <2>1, MarksKeepData
    <2> HIDE DEF e, c
    <2> QED  BY <2>1, <2>3, <2>4, <1>1
  <1>5. CASE CheckPlan(w)
    BY <1>5, <1>1, <1>2 DEF CheckPlan, history
  <1>6. CASE Verdict(w)
    <2> DEFINE r == [Idle EXCEPT !.pc = "savePlanValid", !.plan = AllMarked]
    <2>1. req' = [req EXCEPT ![w] = r] /\ row' = row /\ shared' = shared
      BY <1>6 DEF Verdict, history
    <2>2. r.pc \notin Editing
      BY DEF Idle, Editing
    <2> HIDE DEF r
    <2> QED  BY <2>1, <2>2, <1>1
  <1>7. CASE SavePlanValid(w)
    BY <1>7, DoneEffect DEF SavePlanValid, history
  <1> QED  BY <1>3, <1>4, <1>5, <1>6, <1>7 DEF Check

LEMMA NextEffect ==
  ASSUME TypeOK, Next
  PROVE  \E w \in Worker : Effect(w)
  <1>1. ASSUME NEW w \in Worker, Kill(w)
        PROVE  Effect(w)
    BY <1>1, DoneEffect DEF Kill
  <1> QED  BY <1>1, BeginEffect, EditEffect, UnmarkEffect, CheckEffect DEF Next, Work

LEMMA StoreInvNext ==
  ASSUME TypeOK, StoreInv, [Next]_vars
  PROVE  StoreInv'
  <1>1. CASE UNCHANGED vars
    BY <1>1 DEF vars, StoreInv, PostedAreChoices, Others
  <1>2. CASE Next
    <2>0. PICK w \in Worker : Effect(w)
      BY <1>2, NextEffect
    <2>1. PICK r, d :
            req' = [req EXCEPT ![w] = r] /\ (Quiet(w, r) \/ Enters(w, r) \/ Writes(w, r, d))
      BY <2>0 DEF Effect
    <2>2. req'[w] = r /\ \A v \in Worker \ {w} : req'[v] = req[v]
      BY <2>1, ReqFields
    <2>3. CASE Quiet(w, r)
      <3> SUFFICES ASSUME NEW u \in Worker, req'[u].pc \in Editing
                   PROVE  /\ req'[u].set \in AnswerSet
                          /\ req'[u].set \notin shared' => req'[u].data = row'[req'[u].set].data
                          /\ \A v \in Worker \ {u} :
                               req'[v].pc \in Editing /\ req'[v].set = req'[u].set
                                 => req'[u].set \in shared'
                          /\ PostedAreChoices(req'[u])
        BY DEF StoreInv, Others, PostedAreChoices
      <3>1. \A v \in Worker : req'[v].pc \in Editing =>
              /\ req[v].pc \in Editing /\ req'[v].set = req[v].set
              /\ req'[v].data = req[v].data /\ req'[v].posted = req[v].posted
        BY <2>2, <2>3 DEF Quiet
      <3> QED  BY <2>3, <3>1 DEF Quiet, StoreInv, Others, PostedAreChoices
    <2>4. CASE Enters(w, r)
      <3> SUFFICES ASSUME NEW u \in Worker, req'[u].pc \in Editing
                   PROVE  /\ req'[u].set \in AnswerSet
                          /\ req'[u].set \notin shared' => req'[u].data = row'[req'[u].set].data
                          /\ \A v \in Worker \ {u} :
                               req'[v].pc \in Editing /\ req'[v].set = req'[u].set
                                 => req'[u].set \in shared'
                          /\ PostedAreChoices(req'[u])
        BY DEF StoreInv, Others, PostedAreChoices
      <3>1. \A v \in Worker \ {w} : req[v].pc \in Editing /\ req[v].set = r.set => r.set \in shared'
        BY <2>4 DEF Enters, Edits, Others
      <3>2. shared \subseteq shared'
        BY <2>4 DEF Enters
      <3>3. CASE u = w
        BY <2>2, <2>4, <3>1, <3>3 DEF Enters, PostedAreChoices
      <3>4. CASE u # w
        BY <2>2, <2>4, <3>1, <3>2, <3>4 DEF Enters, StoreInv, Others, PostedAreChoices
      <3> QED  BY <3>3, <3>4
    <2>5. CASE Writes(w, r, d)
      <3> SUFFICES ASSUME NEW u \in Worker, req'[u].pc \in Editing
                   PROVE  /\ req'[u].set \in AnswerSet
                          /\ req'[u].set \notin shared' => req'[u].data = row'[req'[u].set].data
                          /\ \A v \in Worker \ {u} :
                               req'[v].pc \in Editing /\ req'[v].set = req'[u].set
                                 => req'[u].set \in shared'
                          /\ PostedAreChoices(req'[u])
        BY DEF StoreInv, Others, PostedAreChoices
      <3>1. \A v \in Worker : req'[v].pc \in Editing =>
              req[v].pc \in Editing /\ req'[v].set = req[v].set
        BY <2>2, <2>5 DEF Writes
      <3>2. /\ req[u].pc \in Editing /\ req'[u].set = req[u].set
            /\ req[w].pc \in Editing /\ shared' = shared
        BY <2>5, <3>1 DEF Writes
      <3>3. req'[u].set \in AnswerSet /\ req[w].set \in AnswerSet
        BY <3>2 DEF StoreInv
      <3>4. \A v \in Worker \ {u} :
              req'[v].pc \in Editing /\ req'[v].set = req'[u].set => req'[u].set \in shared'
        BY <3>1, <3>2 DEF StoreInv, Others
      <3>5. CASE u = w
        <4>1. r.set = req[w].set /\ r.data = d /\ row'[r.set].data = d
          BY <2>2, <2>5, <3>3, <3>5 DEF Writes
        <4>2. PostedAreChoices(r)
          BY <2>2, <2>5, <3>2, <3>5, <4>1 DEF Writes, StoreInv, PostedAreChoices
        <4> QED  BY <2>2, <3>3, <3>4, <3>5, <4>1, <4>2
      <3>6. CASE u # w
        <4>1. req'[u] = req[u]
          BY <2>2, <3>6
        <4>2. req[u].set \notin shared => req[u].set # req[w].set
          BY <3>2, <3>6 DEF StoreInv, Others
        <4>3. req[u].set \notin shared => row'[req[u].set].data = row[req[u].set].data
          BY <2>5, <3>2, <3>3, <4>2 DEF Writes
        <4> QED  BY <3>2, <3>3, <3>4, <4>1, <4>3 DEF StoreInv, PostedAreChoices
      <3> QED  BY <3>5, <3>6
    <2> QED  BY <2>1, <2>3, <2>4, <2>5
  <1> QED  BY <1>1, <1>2

Data == [s \in AnswerSet |-> row[s].data]

LEMMA StoreInit == Init => Store!Init
  <1> SUFFICES ASSUME Init PROVE Store!Init
    OBVIOUS
  <1>1. PICK g \in Given :
          row = [s \in AnswerSet |-> [data |-> g[s], valid |-> ValidateData(s, g[s])]]
    BY DEF Init
  <1>2. Data = [s \in AnswerSet |-> g[s]]
    BY <1>1 DEF Data
  <1>3. g = [s \in AnswerSet |-> g[s]]
    BY AnswersAssumption
  <1>4. shared = {}
    BY DEF Init
  <1> QED  BY <1>2, <1>3, <1>4 DEF Store!Init, Data

\* The four ways of AnswerStore, for a given answerset.
LEMMA StoreNext ==
  ASSUME NEW s \in AnswerSet,
         Store!Put(s) \/ Store!HideUnseen(s) \/ Store!Share(s) \/ Store!Clobber(s)
  PROVE  Store!Next
  BY DEF Store!Next

LEMMA StoreStep ==
  ASSUME TypeOK, StoreInv, [Next]_vars
  PROVE  [Store!Next]_<<Data, shared>>
  <1>1. CASE UNCHANGED vars
    BY <1>1 DEF vars, Data
  <1>2. CASE Next
    <2>0. PICK w \in Worker : Effect(w)
      BY <1>2, NextEffect
    <2>1. PICK r, d :
            req' = [req EXCEPT ![w] = r] /\ (Quiet(w, r) \/ Enters(w, r) \/ Writes(w, r, d))
      BY <2>0 DEF Effect
    <2>2. CASE Quiet(w, r)
      BY <2>2 DEF Quiet, Data
    <2>3. CASE Enters(w, r)
      <3>1. Data' = Data /\ r.set \in AnswerSet
        BY <2>3 DEF Enters, Data
      <3>2. shared' = shared \/ shared' = shared \cup {r.set}
        BY <2>3 DEF Enters
      <3>3. CASE shared' = shared
        BY <3>1, <3>3
      <3>4. CASE shared' = shared \cup {r.set}
        <4>1. Store!Share(r.set)
          BY <3>1, <3>4 DEF Store!Share, Data
        <4>2. Store!Next
          BY <3>1, <4>1, StoreNext
        <4> QED  BY <4>2
      <3> QED  BY <3>2, <3>3, <3>4
    <2>4. CASE Writes(w, r, d)
      <3>1. PICK s \in AnswerSet : s = req[w].set
        BY <2>4 DEF Writes, StoreInv
      <3>2. Data' = [Data EXCEPT ![s] = d] /\ shared' = shared /\ d \in Answers
        BY <2>4, <3>1 DEF Writes, Data
      <3>3. CASE s \in shared
        <4>1. d \in Store!Answers
          BY <3>2 DEF Store!Answers, Answers, Store!Questions, Questions
        <4>2. Store!Clobber(s)
          BY <3>2, <3>3, <4>1 DEF Store!Clobber, Data
        <4>3. Store!Next
          BY <4>2, StoreNext
        <4> QED  BY <4>3
      <3>4. CASE s \notin shared
        <4>1. req[w].data = Data[s] /\ PostedAreChoices(req[w])
          BY <2>4, <3>1, <3>4 DEF Writes, StoreInv, Data
        <4>2. CASE d = req[w].data
          <5>1. Data' = Data
            BY <3>1, <3>2, <4>1, <4>2 DEF Data
          <5> QED  BY <3>2, <5>1
        <4>3. CASE d = Keep(s, req[w].data)
          <5>1. d = Store!Keep(s, Data[s])
            BY <4>1, <4>3 DEF Keep, Store!Keep, Questions, Store!Questions
          <5>2. Store!HideUnseen(s)
            BY <3>2, <5>1 DEF Store!HideUnseen, Data
          <5>3. Store!Next
            BY <5>2, StoreNext
          <5> QED  BY <5>3
        <4>4. ASSUME NEW q \in Questions, req[w].posted[q] # req[w].data[q],
                     d = [req[w].data EXCEPT ![q] = req[w].posted[q]]
              PROVE  Store!Next
          <5>1. req[w].posted[q] \in Choice /\ q \in Store!Questions
            BY <4>1, <4>4 DEF PostedAreChoices, Questions, Store!Questions
          <5>2. Data' = [Data EXCEPT ![s] = [@ EXCEPT ![q] = req[w].posted[q]]]
            BY <3>2, <4>1, <4>4
          <5>3. Store!Put(s)
            BY <3>2, <5>1, <5>2 DEF Store!Put, Data
          <5> QED  BY <5>3, StoreNext
        <4>5. NewData(w, d)
          BY <2>4 DEF Writes
        <4> QED  BY <3>1, <4>2, <4>3, <4>4, <4>5 DEF NewData
      <3> QED  BY <3>3, <3>4
    <2> QED  BY <2>1, <2>2, <2>3, <2>4
  <1> QED  BY <1>1, <1>2

\* Answering questions implements the registers of AnswerStore.
THEOREM AnswersAreRegisters == Spec => StoreImplemented
  <1>1. Init => StoreInv
    BY DEF Init, StoreInv, Idle, Editing
  <1>2. TypeOK /\ StoreInv /\ [Next]_vars => StoreInv'
    BY StoreInvNext
  <1>3. TypeOK /\ StoreInv /\ [Next]_vars
          => [Store!Next]_<<[s \in AnswerSet |-> row[s].data], shared>>
    BY StoreStep DEF Data
  <1> QED  BY <1>1, <1>2, <1>3, StoreInit, TypeCorrect, PTL DEF Spec, StoreImplemented

-----------------------------------------------------------------------------
(* Marks. The inductive invariant: what a request r still has to do to the row x  *)
(* and the okay questions k of an answerset s that it alone is busy with.  *)

Earned(s, x, k) ==
  /\ x.valid => ValidateData(s, x.data)
  /\ k \subseteq Answered(x.data)

\* Touches(w), of the request of w.
TouchedBy(r) == IF r.pc \in Checking THEN r.todo ELSE {r.set} \cap AnswerSet

Marking == {"savePlan", "markAnswer", "markSet"}
Holding == Marking \cup {"update", "hide", "validate", "store"}

\* The form of a question posts one choice that is new.
OneChoice(r) ==
  \E q \in Questions, c \in Choice :
    r.data[q] # c /\ r.posted = [r.data EXCEPT ![q] = c]

\* In a section that branches the marks are corrected only after the answer to
\* a fork; all others have to leave them earned.
BranchProgress(s, r, x, k) ==
  /\ r.pc \in Marking \cup {"update"} => r.valid = x.valid
  /\ r.pc = "update" => OneChoice(r) /\ Earned(s, x, k)
  /\ r.pc \in Marking =>
       /\ Differing(r) = {}
       /\ r.q \in Answered(x.data)
       /\ r.q \notin Forks => Earned(s, x, k)
  /\ r.pc = "markSet" => ValidateData(s, x.data)

Progress(s, r, x, k) ==
  /\ r.pc \in Holding => r.data = x.data
  /\ s \in Branching => BranchProgress(s, r, x, k)
  /\ r.pc = "store" => k = Answered(x.data)
  /\ r.pc \in Unmarking \cup Checking \cup {"planInvalid", "lastSave"} => Earned(s, x, k)
  /\ r.pc \in Checking => r.rows[s] = x.data

WellPlaced(r) ==
  /\ r.pc = "idle" => r.set = NoSet
  /\ r.pc \in Editing \cup Unmarking => r.set \in AnswerSet
  /\ r.pc = "checkStore" => r.set \in r.todo
  /\ r.pc \in {"verdict", "savePlanValid"} => r.todo = {}

MarksInv ==
  /\ \A w \in Worker : WellPlaced(req[w])
  /\ \A s \in AnswerSet \ stirred :
       /\ \A v, w \in Worker :
            s \in TouchedBy(req[v]) /\ s \in TouchedBy(req[w]) => v = w
       /\ (\A w \in Worker : s \notin TouchedBy(req[w])) => Earned(s, row[s], okay[s])
       /\ \A w \in Worker :
            s \in TouchedBy(req[w]) => Progress(s, req[w], row[s], okay[s])

-----------------------------------------------------------------------------
LEMMA TouchesOfRequest == \A w \in Worker : Touches(w) = TouchedBy(req[w])
  BY DEF Touches, TouchedBy

LEMMA TouchesOne ==
  ASSUME NEW r, r.pc \in Editing \cup Unmarking, r.set \in AnswerSet
  PROVE  TouchedBy(r) = {r.set}
  BY DEF TouchedBy, Editing, Unmarking, Checking

LEMMA IdleTouchesNothing == TouchedBy(Idle) = {} /\ WellPlaced(Idle)
  BY AnswersAssumption DEF TouchedBy, WellPlaced, Idle, Editing, Unmarking, Checking

\* What an action has to show: the request that acts, r now, leaves other
\* answersets alone, finds those it begins with untouched, and those it is
\* done with earned.
LEMMA MarksStep ==
  ASSUME TypeOK, MarksInv, NEW w \in Worker, NEW r,
         req' = [req EXCEPT ![w] = r], WellPlaced(r), stirred \subseteq stirred',
         \A s \in AnswerSet \ stirred' :
           /\ s \notin TouchedBy(req[w]) => row'[s] = row[s] /\ okay'[s] = okay[s]
           /\ s \in TouchedBy(r) =>
                /\ Progress(s, r, row'[s], okay'[s])
                /\ s \in TouchedBy(req[w]) \/ \A v \in Worker : s \notin TouchedBy(req[v])
           /\ s \in TouchedBy(req[w]) \ TouchedBy(r) => Earned(s, row'[s], okay'[s])
  PROVE  MarksInv'
  <1>1. req'[w] = r /\ \A v \in Worker \ {w} : req'[v] = req[v]
    BY DEF TypeOK
  <1>2. \A v \in Worker : WellPlaced(req'[v])
    BY <1>1 DEF MarksInv
  <1>3. ASSUME NEW s \in AnswerSet \ stirred'
        PROVE  /\ \A u, v \in Worker :
                    s \in TouchedBy(req'[u]) /\ s \in TouchedBy(req'[v]) => u = v
               /\ (\A v \in Worker : s \notin TouchedBy(req'[v])) => Earned(s, row'[s], okay'[s])
               /\ \A v \in Worker :
                    s \in TouchedBy(req'[v]) => Progress(s, req'[v], row'[s], okay'[s])
    <2>1. s \in AnswerSet \ stirred
      OBVIOUS
    <2>2. /\ \A u, v \in Worker :
               s \in TouchedBy(req[u]) /\ s \in TouchedBy(req[v]) => u = v
          /\ (\A v \in Worker : s \notin TouchedBy(req[v])) => Earned(s, row[s], okay[s])
          /\ \A v \in Worker : s \in TouchedBy(req[v]) => Progress(s, req[v], row[s], okay[s])
      BY <2>1 DEF MarksInv
    <2>3. CASE s \in TouchedBy(r)
      <3>1. \A v \in Worker \ {w} : s \notin TouchedBy(req[v])
        BY <2>2, <2>3
      <3> QED  BY <1>1, <2>3, <3>1
    <2>4. CASE s \notin TouchedBy(r) /\ s \in TouchedBy(req[w])
      <3>1. \A v \in Worker \ {w} : s \notin TouchedBy(req[v])
        BY <2>2, <2>4
      <3> QED  BY <1>1, <2>4, <3>1
    <2>5. CASE s \notin TouchedBy(r) /\ s \notin TouchedBy(req[w])
      <3>1. row'[s] = row[s] /\ okay'[s] = okay[s]
        BY <2>5
      <3> QED  BY <1>1, <2>2, <2>5, <3>1
    <2> QED  BY <2>3, <2>4, <2>5
  <1> QED  BY <1>2, <1>3 DEF MarksInv

\* The same for a request about one answerset.
LEMMA OneSetStep ==
  ASSUME TypeOK, MarksInv, NEW w \in Worker, NEW r, req' = [req EXCEPT ![w] = r],
         req[w].pc \in Editing \cup Unmarking,
         r = Idle \/ (r.pc \in Editing \cup Unmarking /\ r.set = req[w].set),
         stirred' = stirred,
         \A s \in AnswerSet \ {req[w].set} : row'[s] = row[s] /\ okay'[s] = okay[s],
         ASSUME NEW s \in AnswerSet, s = req[w].set, s \notin stirred,
                Progress(s, req[w], row[s], okay[s])
         PROVE  IF r = Idle THEN Earned(s, row'[s], okay'[s])
                ELSE Progress(s, r, row'[s], okay'[s])
  PROVE  MarksInv'
  <1>1. WellPlaced(req[w]) /\ req[w].set \in AnswerSet
    BY DEF MarksInv, WellPlaced
  <1>2. TouchedBy(req[w]) = {req[w].set}
    BY <1>1, TouchesOne
  <1>3. r # Idle => TouchedBy(r) = {req[w].set}
    BY <1>1, TouchesOne
  <1>4. WellPlaced(r)
    BY <1>1, IdleTouchesNothing DEF WellPlaced, Editing, Unmarking
  <1>5. req[w].set \notin stirred
          => Progress(req[w].set, req[w], row[req[w].set], okay[req[w].set])
    BY <1>1, <1>2 DEF MarksInv
  <1>6. req[w].set \notin stirred =>
          IF r = Idle THEN Earned(req[w].set, row'[req[w].set], okay'[req[w].set])
          ELSE Progress(req[w].set, r, row'[req[w].set], okay'[req[w].set])
    BY <1>1, <1>5
  <1>7. ASSUME NEW s \in AnswerSet \ stirred'
        PROVE  /\ s \notin TouchedBy(req[w]) => row'[s] = row[s] /\ okay'[s] = okay[s]
               /\ s \in TouchedBy(r) =>
                    /\ Progress(s, r, row'[s], okay'[s])
                    /\ s \in TouchedBy(req[w]) \/ \A v \in Worker : s \notin TouchedBy(req[v])
               /\ s \in TouchedBy(req[w]) \ TouchedBy(r) => Earned(s, row'[s], okay'[s])
    <2>1. CASE s = req[w].set
      BY <1>2, <1>3, <1>6, <2>1, IdleTouchesNothing
    <2>2. CASE s # req[w].set
      BY <1>2, <1>3, <2>2, IdleTouchesNothing
    <2> QED  BY <2>1, <2>2
  <1> QED  BY <1>4, <1>7, MarksStep

LEMMA SetRow ==
  ASSUME TypeOK, NEW t \in AnswerSet, NEW x, row' = [row EXCEPT ![t] = x]
  PROVE  row'[t] = x /\ \A s \in AnswerSet \ {t} : row'[s] = row[s]
  BY DEF TypeOK

LEMMA SetOkay ==
  ASSUME TypeOK, NEW t \in AnswerSet, NEW k, okay' = [okay EXCEPT ![t] = k]
  PROVE  okay'[t] = k /\ \A s \in AnswerSet \ {t} : okay'[s] = okay[s]
  BY DEF TypeOK

\* An answer more does not make a section less complete, unless it is to a fork.
LEMMA AnswerAdds ==
  ASSUME NEW s \in AnswerSet, NEW a \in Answers, NEW q \in Questions, NEW c \in Choice
  PROVE  /\ Answered([a EXCEPT ![q] = c]) = Answered(a) \cup {q}
         /\ s \in Branching /\ q \notin Forks /\ ValidateData(s, a)
              => ValidateData(s, [a EXCEPT ![q] = c])
  <1>1. c # Unanswered
    BY AnswersAssumption
  <1>2. Answered([a EXCEPT ![q] = c]) = Answered(a) \cup {q}
    BY <1>1 DEF Answered, Answers
  <1>3. [a EXCEPT ![q] = c] # Empty
    BY <1>1 DEF Empty, Answers
  <1>4. s \in Branching /\ q \notin Forks => Visible[s][[a EXCEPT ![q] = c]] = Visible[s][a]
    BY ForkAssumption
  <1> QED  BY <1>2, <1>3, <1>4 DEF ValidateData

-----------------------------------------------------------------------------
(* Editing, action by action.                                              *)

LEMMA EditAct ==
  ASSUME TypeOK, MarksInv, NEW w \in Worker, req[w].pc \in Editing \cup Unmarking
  PROVE  /\ req[w].set \in AnswerSet
         /\ req[w] \in Request /\ req[w].data \in Answers /\ row[req[w].set].data \in Answers
  BY ReqFields DEF MarksInv, WellPlaced, TypeOK

LEMMA UpdateAnswerMarks ==
  ASSUME TypeOK, MarksInv, NEW w \in Worker, UpdateAnswer(w)
  PROVE  MarksInv'
  <1>1. PICK q \in Differing(req[w]) :
          LET s == req[w].set
              data == [req[w].data EXCEPT ![q] = req[w].posted[q]]
          IN  /\ req[w].pc = "update"
              /\ row' = [row EXCEPT ![s] = [data |-> data, valid |-> req[w].valid]]
              /\ okay' = [okay EXCEPT ![s] = @ \cup {q}]
              /\ req' = [req EXCEPT ![w] = [@ EXCEPT !.pc = "savePlan", !.q = q, !.data = data]]
              /\ UNCHANGED <<planValid, history>>
    BY DEF UpdateAnswer
  <1> DEFINE t == req[w].set
             a == [req[w].data EXCEPT ![q] = req[w].posted[q]]
             r == [req[w] EXCEPT !.pc = "savePlan", !.q = q, !.data = a]
  <1>2. /\ req[w].pc = "update" /\ req[w].pc \in Editing
        /\ row' = [row EXCEPT ![t] = [data |-> a, valid |-> req[w].valid]]
        /\ okay' = [okay EXCEPT ![t] = okay[t] \cup {q}]
        /\ req' = [req EXCEPT ![w] = r]
        /\ stirred' = stirred
    BY <1>1 DEF history, Editing
  <1>3. t \in AnswerSet /\ req[w] \in Request /\ req[w].data \in Answers /\ q \in Questions
    BY <1>2, EditAct DEF Differing
  <1>4. r.pc = "savePlan" /\ r.set = t /\ r.q = q /\ r.data = a /\ r.valid = req[w].valid
        /\ r.posted = req[w].posted
    BY <1>3 DEF Request
  <1>5. /\ row'[t] = [data |-> a, valid |-> req[w].valid]
        /\ okay'[t] = okay[t] \cup {q}
        /\ \A s \in AnswerSet \ {t} : row'[s] = row[s] /\ okay'[s] = okay[s]
    <2> HIDE DEF a, t
    <2>1. row'[t] = [data |-> a, valid |-> req[w].valid]
          /\ \A s \in AnswerSet \ {t} : row'[s] = row[s]
      BY <1>2, <1>3, SetRow
    <2>2. okay'[t] = okay[t] \cup {q} /\ \A s \in AnswerSet \ {t} : okay'[s] = okay[s]
      BY <1>2, <1>3, SetOkay
    <2> QED  BY <2>1, <2>2
  <1>6. ASSUME t \in Branching, Progress(t, req[w], row[t], okay[t])
        PROVE  BranchProgress(t, r, row'[t], okay'[t])
    <2>1. /\ req[w].data = row[t].data /\ req[w].valid = row[t].valid
          /\ OneChoice(req[w]) /\ Earned(t, row[t], okay[t])
      BY <1>2, <1>6 DEF Progress, BranchProgress, Holding
    <2>2. PICK p \in Questions, c \in Choice :
            req[w].data[p] # c /\ req[w].posted = [req[w].data EXCEPT ![p] = c]
      BY <2>1 DEF OneChoice
    <2>3. p = q /\ a = [req[w].data EXCEPT ![q] = c]
      BY <1>3, <2>2 DEF Differing, Answers
    <2>4. a = req[w].posted
      BY <2>2, <2>3
    <2>5. Differing(r) = {}
      BY <1>4, <2>4 DEF Differing
    <2> HIDE DEF a, r
    <2>6. q \in Answered(a) /\ (q \notin Forks => Earned(t, row'[t], okay'[t]))
      BY <1>3, <1>5, <1>6, <2>1, <2>3, AnswerAdds DEF Earned
    <2> QED  BY <1>4, <1>5, <2>5, <2>6 DEF BranchProgress, Marking
  <1>7. ASSUME Progress(t, req[w], row[t], okay[t])
        PROVE  Progress(t, r, row'[t], okay'[t])
    BY <1>4, <1>5, <1>6, <1>7 DEF Progress, Holding, Marking, Unmarking, Checking
  <1>8. r.pc \in Editing
    BY <1>4 DEF Editing
  <1>9. r # Idle
    BY <1>4 DEF Idle
  <1> HIDE DEF r, t, a
  <1> QED  BY <1>2, <1>4, <1>5, <1>7, <1>8, <1>9, OneSetStep DEF t

\* What a step does to the row of the answerset a request is about, named so
\* that it can be cited.
OthersKept(w) ==
  \A s \in AnswerSet \ {req[w].set} : row'[s] = row[s] /\ okay'[s] = okay[s]
InOrder(w) ==
  /\ req[w].set \notin stirred
  /\ Progress(req[w].set, req[w], row[req[w].set], okay[req[w].set])
InOrderAfter(w, r) == Progress(req[w].set, r, row'[req[w].set], okay'[req[w].set])
EarnedAfter(w) == Earned(req[w].set, row'[req[w].set], okay'[req[w].set])

\* The effect of a step that writes a row, the okay questions, or nothing.
LEMMA RowEffect ==
  ASSUME TypeOK, NEW w \in Worker, req[w].set \in AnswerSet,
         NEW x, row' = [row EXCEPT ![req[w].set] = x], okay' = okay
  PROVE  OthersKept(w) /\ row'[req[w].set] = x /\ okay'[req[w].set] = okay[req[w].set]
  BY SetRow DEF OthersKept

LEMMA OkayEffect ==
  ASSUME TypeOK, NEW w \in Worker, req[w].set \in AnswerSet,
         NEW k, okay' = [okay EXCEPT ![req[w].set] = k], row' = row
  PROVE  OthersKept(w) /\ okay'[req[w].set] = k /\ row'[req[w].set] = row[req[w].set]
  BY SetOkay DEF OthersKept

LEMMA NoEffect ==
  ASSUME NEW w \in Worker, row' = row, okay' = okay
  PROVE  OthersKept(w) /\ row'[req[w].set] = row[req[w].set]
         /\ okay'[req[w].set] = okay[req[w].set]
  BY DEF OthersKept

LEMMA RequestStep ==
  ASSUME TypeOK, MarksInv, NEW w \in Worker, NEW r, req' = [req EXCEPT ![w] = r],
         req[w].pc \in Editing \cup Unmarking, stirred' = stirred, OthersKept(w),
         r = Idle \/ (r.pc \in Editing \cup Unmarking /\ r.set = req[w].set),
         InOrder(w) => IF r = Idle THEN EarnedAfter(w) ELSE InOrderAfter(w, r)
  PROVE  MarksInv'
  <1>1. \A s \in AnswerSet \ {req[w].set} : row'[s] = row[s] /\ okay'[s] = okay[s]
    BY DEF OthersKept
  <1>2. ASSUME NEW s \in AnswerSet, s = req[w].set, s \notin stirred,
               Progress(s, req[w], row[s], okay[s])
        PROVE  IF r = Idle THEN Earned(s, row'[s], okay'[s])
               ELSE Progress(s, r, row'[s], okay'[s])
    BY <1>2 DEF InOrder, InOrderAfter, EarnedAfter
  <1> QED  BY <1>1, <1>2, OneSetStep

LEMMA DoneMarks ==
  ASSUME TypeOK, MarksInv, NEW w \in Worker, req[w].pc \in Editing \cup Unmarking, Done(w),
         stirred' = stirred, OthersKept(w), InOrder(w) => EarnedAfter(w)
  PROVE  MarksInv'
  BY RequestStep DEF Done

LEMMA WithPc ==
  ASSUME NEW r \in Request, NEW pc
  PROVE  /\ [r EXCEPT !.pc = pc].pc = pc /\ [r EXCEPT !.pc = pc].set = r.set
         /\ [r EXCEPT !.pc = pc].data = r.data /\ [r EXCEPT !.pc = pc].valid = r.valid
         /\ [r EXCEPT !.pc = pc].posted = r.posted /\ [r EXCEPT !.pc = pc].q = r.q
         /\ [r EXCEPT !.pc = pc].plan = r.plan
  BY DEF Request

LEMMA GotoMarks ==
  ASSUME TypeOK, MarksInv, NEW w \in Worker, req[w].pc \in Editing \cup Unmarking,
         NEW pc \in Editing \cup Unmarking, Goto(w, pc), stirred' = stirred, OthersKept(w),
         InOrder(w) => InOrderAfter(w, [req[w] EXCEPT !.pc = pc])
  PROVE  MarksInv'
  <1> DEFINE r == [req[w] EXCEPT !.pc = pc]
  <1>1. req' = [req EXCEPT ![w] = r]
    BY DEF Goto
  <1>2. r.pc = pc /\ r.set = req[w].set
    BY EditAct, WithPc
  <1>3. r # Idle
    BY <1>2 DEF Idle, Editing, Unmarking
  <1>4. InOrder(w) => InOrderAfter(w, r)
    OBVIOUS
  <1> HIDE DEF r
  <1> QED  BY <1>1, <1>2, <1>3, <1>4, RequestStep

\* After the last step for a question: as AfterMark says.
AfterMarkRequest(w, v) ==
  IF AfterMark(w) = "idle" THEN Idle ELSE [req[w] EXCEPT !.pc = AfterMark(w), !.valid = v]

LEMMA GoOnMarks ==
  ASSUME TypeOK, MarksInv, NEW w \in Worker, req[w].pc \in Marking, NEW v,
         req' = [req EXCEPT ![w] = AfterMarkRequest(w, v)],
         stirred' = stirred, OthersKept(w),
         InOrder(w) =>
           /\ row'[req[w].set].data = row[req[w].set].data
           /\ req[w].set \in Branching /\ req[w].q \notin Forks => EarnedAfter(w)
  PROVE  MarksInv'
  <1> DEFINE t == req[w].set
             r == AfterMarkRequest(w, v)
  <1>1. t \in AnswerSet /\ req[w] \in Request /\ req[w].pc \in Editing
    BY EditAct DEF Marking, Editing
  <1>2. AfterMark(w) # "idle" =>
          r.pc = AfterMark(w) /\ r.set = t /\ r.data = req[w].data /\ r.posted = req[w].posted
    BY <1>1 DEF Request, AfterMarkRequest
  <1>3. AfterMark(w) # "idle" => r.pc \in Editing /\ r.set = t
    BY <1>2, AfterMarkType DEF Editing
  <1>4. ASSUME InOrder(w)
        PROVE  IF r = Idle THEN EarnedAfter(w) ELSE InOrderAfter(w, r)
    <2>1. /\ req[w].data = row[t].data /\ row'[t].data = row[t].data
          /\ t \in Branching => Differing(req[w]) = {}
          /\ t \in Branching /\ req[w].q \notin Forks => EarnedAfter(w)
      BY <1>4 DEF InOrder, Progress, BranchProgress, Holding, Marking
    <2>2. CASE AfterMark(w) = "idle"
      <3>1. t \in Branching /\ req[w].q \notin Forks
        BY <2>2 DEF AfterMark
      <3> QED  BY <2>1, <2>2, <3>1 DEF AfterMarkRequest
    <2>3. CASE AfterMark(w) # "idle"
      <3>1. t \in Branching => AfterMark(w) = "hide"
        BY <2>1, <2>3 DEF AfterMark
      <3>2. r # Idle
        BY <1>3, <2>3 DEF Idle, Editing
      <3>3. Progress(t, r, row'[t], okay'[t])
        BY <1>2, <2>1, <2>3, <3>1, AfterMarkType
           DEF Progress, BranchProgress, Holding, Marking, Unmarking, Checking
      <3> QED  BY <3>2, <3>3 DEF InOrderAfter
    <2> QED  BY <2>2, <2>3
  <1>5. r = Idle \/ (r.pc \in Editing \cup Unmarking /\ r.set = req[w].set)
    BY <1>3 DEF AfterMarkRequest
  <1>6. req' = [req EXCEPT ![w] = r]
    OBVIOUS
  <1>7. req[w].pc \in Editing \cup Unmarking
    BY <1>1
  <1> HIDE DEF r
  <1> QED  BY <1>4, <1>5, <1>6, <1>7, RequestStep

LEMMA GoOnRequest ==
  ASSUME TypeOK, NEW w \in Worker, GoOn(w)
  PROVE  req' = [req EXCEPT ![w] = AfterMarkRequest(w, req[w].valid)]
  <1>1. [req[w] EXCEPT !.pc = AfterMark(w)]
          = [req[w] EXCEPT !.pc = AfterMark(w), !.valid = req[w].valid]
    BY ReqFields DEF Request
  <1> QED  BY <1>1 DEF GoOn, Goto, Done, AfterMarkRequest

LEMMA SavePlanMarks ==
  ASSUME TypeOK, MarksInv, NEW w \in Worker, SavePlan(w)
  PROVE  MarksInv'
  <1>1. /\ req[w].pc = "savePlan" /\ req[w].pc \in Marking
        /\ req[w].pc \in Editing \cup Unmarking
        /\ row' = row /\ okay' = okay /\ stirred' = stirred
    BY DEF SavePlan, history, Marking, Editing
  <1>2. OthersKept(w)
    BY <1>1, NoEffect
  <1>3. CASE GoOn(w)
    <2>1. InOrder(w) =>
           /\ row'[req[w].set].data = row[req[w].set].data
           /\ req[w].set \in Branching /\ req[w].q \notin Forks => EarnedAfter(w)
      BY <1>1 DEF InOrder, EarnedAfter, Progress, BranchProgress
    <2> QED  BY <1>1, <1>2, <1>3, <2>1, GoOnMarks, GoOnRequest
  <1>4. CASE Goto(w, "markAnswer")
    <2>1. "markAnswer" \in Editing \cup Unmarking
      BY DEF Editing
    <2>2. InOrder(w) => InOrderAfter(w, [req[w] EXCEPT !.pc = "markAnswer"])
      BY <1>1, EditAct, WithPc
         DEF InOrder, InOrderAfter, Progress, BranchProgress, Holding, Marking, Unmarking,
             Checking, Differing
    <2> QED  BY <1>1, <1>2, <1>4, <2>1, <2>2, GotoMarks
  <1> QED  BY <1>3, <1>4 DEF SavePlan

LEMMA MarkAnswerMarks ==
  ASSUME TypeOK, MarksInv, NEW w \in Worker, MarkAnswer(w)
  PROVE  MarksInv'
  <1> DEFINE t == req[w].set
  <1>1. /\ req[w].pc = "markAnswer" /\ req[w].pc \in Marking
        /\ req[w].pc \in Editing \cup Unmarking
        /\ row' = row /\ okay' = [okay EXCEPT ![t] = okay[t] \cup {req[w].q}]
        /\ stirred' = stirred
    BY DEF MarkAnswer, history, Marking, Editing
  <1>2. OthersKept(w) /\ okay'[t] = okay[t] \cup {req[w].q} /\ row'[t] = row[t]
    BY <1>1, EditAct, OkayEffect
  <1>3. InOrder(w) =>
          /\ row'[t].data = row[t].data
          /\ t \in Branching /\ req[w].q \notin Forks => EarnedAfter(w)
    BY <1>1, <1>2 DEF InOrder, EarnedAfter, Progress, BranchProgress, Earned
  <1>4. CASE GoOn(w)
    BY <1>1, <1>2, <1>3, <1>4, GoOnMarks, GoOnRequest
  <1>5. CASE Goto(w, "markSet") /\ ValidateData(t, req[w].data)
    <2>1. "markSet" \in Editing \cup Unmarking
      BY DEF Editing
    <2>2. InOrder(w) => InOrderAfter(w, [req[w] EXCEPT !.pc = "markSet"])
      BY <1>1, <1>2, <1>3, <1>5, EditAct, WithPc
         DEF InOrder, InOrderAfter, EarnedAfter, Progress, BranchProgress, Holding, Marking,
             Unmarking, Checking, Differing
    <2> QED  BY <1>1, <1>2, <1>5, <2>1, <2>2, GotoMarks
  <1> QED  BY <1>4, <1>5 DEF MarkAnswer

LEMMA MarkSetMarks ==
  ASSUME TypeOK, MarksInv, NEW w \in Worker, MarkSet(w)
  PROVE  MarksInv'
  <1> DEFINE t == req[w].set
             x == [data |-> req[w].data, valid |-> TRUE]
  <1>1. /\ req[w].pc = "markSet" /\ req[w].pc \in Marking
        /\ req[w].pc \in Editing \cup Unmarking
        /\ row' = [row EXCEPT ![t] = x] /\ okay' = okay
        /\ stirred' = stirred
        /\ req' = [req EXCEPT ![w] = AfterMarkRequest(w, TRUE)]
    BY DEF MarkSet, history, marks, Marking, Editing, Done, AfterMarkRequest
  <1>2. OthersKept(w) /\ row'[t] = x /\ okay'[t] = okay[t]
    <2> HIDE DEF x
    <2> QED  BY <1>1, EditAct, RowEffect
  <1>3. InOrder(w) =>
          /\ row'[t].data = row[t].data
          /\ t \in Branching /\ req[w].q \notin Forks => EarnedAfter(w)
    BY <1>1, <1>2
       DEF InOrder, EarnedAfter, Progress, BranchProgress, Earned, Holding, Marking
  <1> HIDE DEF x
  <1> QED  BY <1>1, <1>2, <1>3, GoOnMarks

LEMMA HideUnreachableMarks ==
  ASSUME TypeOK, MarksInv, NEW w \in Worker, HideUnreachable(w)
  PROVE  MarksInv'
  <1> DEFINE t == req[w].set
             kept == Keep(t, req[w].data)
             x == [data |-> kept, valid |-> req[w].valid]
             r == [req[w] EXCEPT !.pc = "validate", !.data = kept, !.posted = kept]
  <1>1. /\ req[w].pc \in Editing \cup Unmarking
        /\ row' = [row EXCEPT ![t] = x] /\ okay' = okay
        /\ req' = [req EXCEPT ![w] = r]
        /\ stirred' = stirred
    BY DEF HideUnreachable, history, marks, Editing
  <1>2. t \in AnswerSet /\ req[w] \in Request
    BY <1>1, EditAct
  <1>3. r.pc = "validate" /\ r.set = t /\ r.data = kept /\ r.pc \in Editing \cup Unmarking
        /\ r # Idle
    BY <1>2 DEF Request, Editing, Idle
  <1>4. OthersKept(w) /\ row'[t] = x
    <2> HIDE DEF x
    <2> QED  BY <1>1, <1>2, RowEffect
  <1>5. InOrderAfter(w, r)
    BY <1>3, <1>4 DEF InOrderAfter, Progress, BranchProgress, Marking, Unmarking, Checking
  <1> HIDE DEF r, x
  <1> QED  BY <1>1, <1>3, <1>4, <1>5, RequestStep

LEMMA ValidateAnswersMarks ==
  ASSUME TypeOK, MarksInv, NEW w \in Worker, ValidateAnswers(w)
  PROVE  MarksInv'
  <1> DEFINE t == req[w].set
  <1>1. /\ req[w].pc = "validate" /\ req[w].pc \in Editing \cup Unmarking
        /\ "store" \in Editing \cup Unmarking
        /\ row' = row /\ okay' = [okay EXCEPT ![t] = Answered(req[w].data)]
        /\ stirred' = stirred /\ Goto(w, "store")
    BY DEF ValidateAnswers, history, Editing
  <1>2. OthersKept(w) /\ okay'[t] = Answered(req[w].data) /\ row'[t] = row[t]
    BY <1>1, EditAct, OkayEffect
  <1>3. InOrder(w) => InOrderAfter(w, [req[w] EXCEPT !.pc = "store"])
    BY <1>1, <1>2, EditAct, WithPc
       DEF InOrder, InOrderAfter, Progress, BranchProgress, Holding, Marking, Unmarking, Checking
  <1> QED  BY <1>1, <1>2, <1>3, GotoMarks

LEMMA StoreValidityMarks ==
  ASSUME TypeOK, MarksInv, NEW w \in Worker, StoreValidity(w)
  PROVE  MarksInv'
  <1> DEFINE t == req[w].set
             v == ValidateData(t, req[w].data)
             x == [row[t] EXCEPT !.valid = v]
  <1>1. /\ req[w].pc = "store" /\ req[w].pc \in Editing \cup Unmarking
        /\ {"planInvalid", "lastSave"} \subseteq Editing \cup Unmarking
        /\ row' = [row EXCEPT ![t] = x] /\ okay' = okay
        /\ stirred' = stirred
        /\ Goto(w, "planInvalid") \/ Goto(w, "lastSave") \/ Done(w)
    BY DEF StoreValidity, history, marks, Editing
  <1>2. t \in AnswerSet /\ row[t] \in [data : Answers, valid : BOOLEAN]
    BY <1>1, EditAct DEF TypeOK
  <1>3. OthersKept(w) /\ row'[t] = x /\ okay'[t] = okay[t]
    <2> HIDE DEF x
    <2> QED  BY <1>1, <1>2, RowEffect
  <1>4. InOrder(w) => EarnedAfter(w) /\ row'[t].data = row[t].data /\ req[w].data = row[t].data
    BY <1>1, <1>2, <1>3 DEF InOrder, EarnedAfter, Progress, Holding, Earned
  <1>5. ASSUME NEW pc \in {"planInvalid", "lastSave"}
        PROVE  InOrder(w) => InOrderAfter(w, [req[w] EXCEPT !.pc = pc])
    BY <1>1, <1>4, <1>5, EditAct, WithPc
       DEF EarnedAfter, InOrderAfter, Progress, BranchProgress, Holding, Marking, Unmarking,
           Checking
  <1> HIDE DEF x, v
  <1>6. CASE Done(w)
    BY <1>1, <1>3, <1>4, <1>6, DoneMarks
  <1>7. ASSUME NEW pc \in {"planInvalid", "lastSave"}, Goto(w, pc)
        PROVE  MarksInv'
    <2>1. pc \in Editing \cup Unmarking
      BY <1>1
    <2> QED  BY <1>1, <1>3, <1>5, <1>7, <2>1, GotoMarks
  <1> QED  BY <1>1, <1>6, <1>7

LEMMA PlanInvalidMarks ==
  ASSUME TypeOK, MarksInv, NEW w \in Worker, PlanInvalid(w)
  PROVE  MarksInv'
  <1> DEFINE t == req[w].set
             r == [req[w] EXCEPT !.pc = "lastSave", !.plan = FALSE]
  <1>1. /\ req[w].pc = "planInvalid" /\ req[w].pc \in Editing \cup Unmarking
        /\ row' = row /\ okay' = okay /\ stirred' = stirred
        /\ Done(w) \/ req' = [req EXCEPT ![w] = r]
    BY DEF PlanInvalid, history, Editing
  <1>2. t \in AnswerSet /\ req[w] \in Request
    BY <1>1, EditAct
  <1>3. r.pc = "lastSave" /\ r.set = t /\ r.data = req[w].data
        /\ r.pc \in Editing \cup Unmarking /\ r # Idle
    BY <1>2 DEF Request, Editing, Idle
  <1>4. OthersKept(w)
    BY <1>1, NoEffect
  <1>5. InOrder(w) => EarnedAfter(w) /\ InOrderAfter(w, r)
    BY <1>1, <1>3
       DEF InOrder, EarnedAfter, InOrderAfter, Progress, BranchProgress, Holding, Marking,
           Unmarking, Checking
  <1> HIDE DEF r
  <1>6. CASE Done(w)
    BY <1>1, <1>4, <1>5, <1>6, DoneMarks
  <1>7. CASE req' = [req EXCEPT ![w] = r]
    BY <1>1, <1>3, <1>4, <1>5, <1>7, RequestStep
  <1> QED  BY <1>1, <1>6, <1>7

LEMMA LastSaveMarks ==
  ASSUME TypeOK, MarksInv, NEW w \in Worker, LastSave(w)
  PROVE  MarksInv'
  <1>1. /\ req[w].pc = "lastSave" /\ req[w].pc \in Editing \cup Unmarking
        /\ row' = row /\ okay' = okay /\ stirred' = stirred /\ Done(w)
    BY DEF LastSave, history, Editing
  <1>2. InOrder(w) => EarnedAfter(w)
    BY <1>1 DEF InOrder, EarnedAfter, Progress
  <1>3. OthersKept(w)
    BY <1>1, NoEffect
  <1> QED  BY <1>1, <1>2, <1>3, DoneMarks

LEMMA UnmarkMarks ==
  ASSUME TypeOK, MarksInv, NEW w \in Worker, Unmark(w)
  PROVE  MarksInv'
  <1> DEFINE t == req[w].set
  <1>1. req[w].pc \in Unmarking /\ req[w].pc \in Editing \cup Unmarking /\ stirred' = stirred
    BY DEF Unmark, UnmarkAnswer, UnmarkSet, UnmarkPlan, history, Unmarking
  <1>2. t \in AnswerSet /\ row[t] \in [data : Answers, valid : BOOLEAN]
    BY <1>1, EditAct DEF TypeOK
  <1>3. /\ OthersKept(w)
        /\ row'[t].data = row[t].data /\ (row'[t].valid => row[t].valid)
        /\ okay'[t] \subseteq okay[t]
    <2>1. CASE UnmarkAnswer(w)
      <3> DEFINE k == okay[t] \ {req[w].q}
      <3>1. okay' = [okay EXCEPT ![t] = k] /\ row' = row /\ k \subseteq okay[t]
        BY <2>1 DEF UnmarkAnswer
      <3> HIDE DEF k
      <3>2. OthersKept(w) /\ okay'[t] = k /\ row'[t] = row[t]
        BY <1>2, <3>1, OkayEffect
      <3> QED  BY <3>1, <3>2
    <2>2. CASE UnmarkSet(w)
      <3> DEFINE x == [row[t] EXCEPT !.valid = FALSE]
      <3>1. row' = [row EXCEPT ![t] = x] /\ okay' = okay
        BY <2>2 DEF UnmarkSet, marks
      <3>2. x.data = row[t].data /\ x.valid = FALSE
        BY <1>2
      <3> HIDE DEF x
      <3>3. OthersKept(w) /\ row'[t] = x /\ okay'[t] = okay[t]
        BY <1>2, <3>1, RowEffect
      <3> QED  BY <3>2, <3>3
    <2>3. CASE UnmarkPlan(w)
      BY <2>3, NoEffect DEF UnmarkPlan
    <2> QED  BY <2>1, <2>2, <2>3 DEF Unmark
  <1>4. InOrder(w) => EarnedAfter(w)
    BY <1>1, <1>3 DEF InOrder, EarnedAfter, Progress, Earned
  <1>5. ASSUME NEW pc \in Unmarking, Goto(w, pc)
        PROVE  MarksInv'
    <2>1. InOrder(w) => InOrderAfter(w, [req[w] EXCEPT !.pc = pc])
      BY <1>4, EditAct, <1>1, WithPc
         DEF EarnedAfter, InOrderAfter, Progress, BranchProgress, Holding, Marking, Unmarking,
             Checking
    <2> QED  BY <1>1, <1>3, <1>5, <2>1, GotoMarks
  <1>6. CASE Done(w)
    BY <1>1, <1>3, <1>4, <1>6, DoneMarks
  <1>7. Goto(w, "unmarkSet") \/ Goto(w, "unmarkPlan") \/ Done(w)
    BY DEF Unmark, UnmarkAnswer, UnmarkSet, UnmarkPlan
  <1> QED  BY <1>5, <1>6, <1>7 DEF Unmarking

-----------------------------------------------------------------------------
(* Validating a plan: every row still to be looked at is as it was read.   *)

LEMMA CheckStep ==
  ASSUME TypeOK, MarksInv, NEW w \in Worker, NEW r, req' = [req EXCEPT ![w] = r],
         req[w].pc \in Checking, stirred' = stirred, WellPlaced(r),
         \/ TouchedBy(r) = {}
         \/ r.pc \in Checking /\ r.todo \subseteq req[w].todo /\ r.rows = req[w].rows,
         \A s \in AnswerSet \ req[w].todo : row'[s] = row[s] /\ okay'[s] = okay[s],
         \A s \in req[w].todo : Earned(s, row[s], okay[s]) /\ req[w].rows[s] = row[s].data =>
           Earned(s, row'[s], okay'[s]) /\ row'[s].data = row[s].data
  PROVE  MarksInv'
  <1>1. TouchedBy(req[w]) = req[w].todo /\ TouchedBy(r) \subseteq req[w].todo
    BY DEF TouchedBy
  <1>2. ASSUME NEW s \in AnswerSet \ stirred'
        PROVE  /\ s \notin TouchedBy(req[w]) => row'[s] = row[s] /\ okay'[s] = okay[s]
               /\ s \in TouchedBy(r) =>
                    /\ Progress(s, r, row'[s], okay'[s])
                    /\ s \in TouchedBy(req[w]) \/ \A v \in Worker : s \notin TouchedBy(req[v])
               /\ s \in TouchedBy(req[w]) \ TouchedBy(r) => Earned(s, row'[s], okay'[s])
    <2>1. CASE s \notin req[w].todo
      BY <1>1, <2>1
    <2>2. CASE s \in req[w].todo
      <3>1. Progress(s, req[w], row[s], okay[s])
        BY <1>1, <2>2 DEF MarksInv
      <3>2. Earned(s, row'[s], okay'[s]) /\ row'[s].data = row[s].data
            /\ req[w].rows[s] = row[s].data
        BY <2>2, <3>1 DEF Progress
      <3>3. s \in TouchedBy(r) => Progress(s, r, row'[s], okay'[s])
        BY <3>2 DEF Progress, BranchProgress, Holding, Marking, Unmarking, Checking
      <3> QED  BY <1>1, <2>2, <3>2, <3>3
    <2> QED  BY <2>1, <2>2
  <1>3. stirred \subseteq stirred'
    OBVIOUS
  <1> QED  BY <1>2, <1>3, MarksStep

LEMMA CheckRequest ==
  ASSUME TypeOK, NEW w \in Worker, req[w].pc \in Checking
  PROVE  req[w] \in Request /\ req[w].todo \subseteq AnswerSet
  BY ReqFields

LEMMA Untouching ==
  ASSUME NEW r, r.pc \in {"idle", "verdict", "savePlanValid"}, r.set = NoSet, r.todo = {}
  PROVE  TouchedBy(r) = {} /\ WellPlaced(r)
  BY AnswersAssumption DEF TouchedBy, WellPlaced, Editing, Unmarking, Checking

\* The request of a validation goes on with the answersets left.
LEMMA CheckOnMarks ==
  ASSUME NEW r \in Request
  PROVE  /\ WellPlaced(CheckOn(r))
         /\ \/ TouchedBy(CheckOn(r)) = {}
            \/ CheckOn(r).pc \in Checking /\ CheckOn(r).todo = r.todo /\ CheckOn(r).rows = r.rows
  <1>1. CASE r.todo = {}
    <2> DEFINE i == [Idle EXCEPT !.pc = "verdict"]
    <2>1. i.pc = "verdict" /\ i.set = NoSet /\ i.todo = {}
      BY DEF Idle
    <2>2. CheckOn(r) = i
      BY <1>1 DEF CheckOn
    <2> HIDE DEF i
    <2> QED  BY <2>1, <2>2, Untouching
  <1>2. CASE r.todo # {}
    <2> DEFINE i == [r EXCEPT !.pc = "checkSet"]
    <2>1. i.pc = "checkSet" /\ i.todo = r.todo /\ i.rows = r.rows
      BY DEF Request
    <2>2. CheckOn(r) = i
      BY <1>2 DEF CheckOn
    <2> HIDE DEF i
    <2> QED  BY <2>1, <2>2 DEF WellPlaced, Editing, Unmarking, Checking
  <1> QED  BY <1>1, <1>2

LEMMA CheckSetMarks ==
  ASSUME TypeOK, MarksInv, NEW w \in Worker, NEW t \in AnswerSet, CheckSet(w, t)
  PROVE  MarksInv'
  <1> DEFINE r == [req[w] EXCEPT !.pc = "checkStore", !.set = t]
  <1>1. /\ req[w].pc \in Checking /\ t \in req[w].todo
        /\ okay' = [okay EXCEPT ![t] = Answered(req[w].rows[t])] /\ row' = row
        /\ req' = [req EXCEPT ![w] = r] /\ stirred' = stirred
    BY DEF CheckSet, history, Checking
  <1>2. r.pc = "checkStore" /\ r.set = t /\ r.todo = req[w].todo /\ r.rows = req[w].rows
    BY <1>1, CheckRequest DEF Request
  <1>3. WellPlaced(r) /\ r.pc \in Checking
    BY <1>1, <1>2 DEF WellPlaced, Editing, Unmarking, Checking
  <1>4. okay'[t] = Answered(req[w].rows[t]) /\ \A s \in AnswerSet \ {t} : okay'[s] = okay[s]
    BY <1>1, SetOkay
  <1>5. \A s \in AnswerSet \ req[w].todo : row'[s] = row[s] /\ okay'[s] = okay[s]
    BY <1>1, <1>4
  <1>6. ASSUME NEW s \in req[w].todo, Earned(s, row[s], okay[s]), req[w].rows[s] = row[s].data
        PROVE  Earned(s, row'[s], okay'[s]) /\ row'[s].data = row[s].data
    <2>1. s \in AnswerSet
      BY <1>1, CheckRequest
    <2> QED  BY <1>1, <1>4, <1>6, <2>1 DEF Earned
  <1> HIDE DEF r
  <1> QED  BY <1>1, <1>2, <1>3, <1>5, <1>6, CheckStep

LEMMA CheckStoreMarks ==
  ASSUME TypeOK, MarksInv, NEW w \in Worker, CheckStore(w)
  PROVE  MarksInv'
  <1> DEFINE t == req[w].set
             v == ValidateData(t, req[w].rows[t])
             x == [row[t] EXCEPT !.valid = v]
             n == [req[w] EXCEPT !.todo = req[w].todo \ {t}]
             p == [n EXCEPT !.pc = "checkPlan"]
             r == IF v THEN CheckOn(n) ELSE p
  <1>1. /\ req[w].pc = "checkStore" /\ req[w].pc \in Checking
        /\ row' = [row EXCEPT ![t] = x] /\ okay' = okay
        /\ req' = [req EXCEPT ![w] = r] /\ stirred' = stirred
    BY DEF CheckStore, history, marks, Checking
  <1>2. req[w] \in Request /\ req[w].todo \subseteq AnswerSet /\ t \in req[w].todo
        /\ t \in AnswerSet /\ row[t] \in [data : Answers, valid : BOOLEAN]
    BY <1>1, CheckRequest DEF MarksInv, WellPlaced, TypeOK
  <1>3. n \in Request /\ n.todo \subseteq req[w].todo /\ n.rows = req[w].rows
    <2>1. [req[w] EXCEPT !.todo = req[w].todo \ {t}] \in Request
      BY <1>2, Fields
    <2> QED  BY <1>2, <2>1 DEF Request
  <1>4. p.pc = "checkPlan" /\ p.todo = n.todo /\ p.rows = n.rows
    BY <1>3 DEF Request
  <1>5. WellPlaced(p) /\ p.pc \in Checking
    BY <1>4 DEF WellPlaced, Editing, Unmarking, Checking
  <1>6. row'[t] = x /\ \A s \in AnswerSet \ {t} : row'[s] = row[s]
    <2> HIDE DEF x
    <2> QED  BY <1>1, <1>2, SetRow
  <1>7. x.data = row[t].data /\ x.valid = v
    BY <1>2
  <1>8. \A s \in AnswerSet \ req[w].todo : row'[s] = row[s] /\ okay'[s] = okay[s]
    BY <1>1, <1>2, <1>6
  <1>9. ASSUME NEW s \in req[w].todo, Earned(s, row[s], okay[s]), req[w].rows[s] = row[s].data
        PROVE  Earned(s, row'[s], okay'[s]) /\ row'[s].data = row[s].data
    <2> HIDE DEF x
    <2> QED  BY <1>1, <1>2, <1>6, <1>7, <1>9 DEF Earned
  <1> HIDE DEF x, v, n, p
  <1>10. /\ WellPlaced(r)
         /\ \/ TouchedBy(r) = {}
            \/ r.pc \in Checking /\ r.todo \subseteq req[w].todo /\ r.rows = req[w].rows
    BY <1>3, <1>4, <1>5, CheckOnMarks
  <1> HIDE DEF r
  <1> QED  BY <1>1, <1>8, <1>9, <1>10, CheckStep

LEMMA CheckPlanMarks ==
  ASSUME TypeOK, MarksInv, NEW w \in Worker,
         CheckPlan(w) \/ Verdict(w) \/ SavePlanValid(w)
  PROVE  MarksInv'
  <1>1. req[w].pc \in Checking /\ row' = row /\ okay' = okay /\ stirred' = stirred
    BY DEF CheckPlan, Verdict, SavePlanValid, marks, history, Checking
  <1>2. /\ \A s \in AnswerSet \ req[w].todo : row'[s] = row[s] /\ okay'[s] = okay[s]
        /\ \A s \in req[w].todo : Earned(s, row[s], okay[s]) /\ req[w].rows[s] = row[s].data =>
             Earned(s, row'[s], okay'[s]) /\ row'[s].data = row[s].data
    BY <1>1
  <1>3. PICK r : /\ req' = [req EXCEPT ![w] = r] /\ WellPlaced(r)
                 /\ \/ TouchedBy(r) = {}
                    \/ r.pc \in Checking /\ r.todo \subseteq req[w].todo /\ r.rows = req[w].rows
    <2>1. CASE CheckPlan(w)
      <3> DEFINE i == CheckOn(req[w])
      <3>1. req' = [req EXCEPT ![w] = i]
        BY <2>1 DEF CheckPlan
      <3>2. /\ WellPlaced(i)
            /\ \/ TouchedBy(i) = {}
               \/ i.pc \in Checking /\ i.todo = req[w].todo /\ i.rows = req[w].rows
        BY <1>1, CheckRequest, CheckOnMarks
      <3> HIDE DEF i
      <3> QED  BY <3>1, <3>2
    <2>2. CASE Verdict(w)
      <3> DEFINE i == [Idle EXCEPT !.pc = "savePlanValid", !.plan = AllMarked]
      <3>1. i.pc = "savePlanValid" /\ i.set = NoSet /\ i.todo = {}
        BY DEF Idle
      <3>2. req' = [req EXCEPT ![w] = i]
        BY <2>2 DEF Verdict
      <3> HIDE DEF i
      <3>3. TouchedBy(i) = {} /\ WellPlaced(i)
        BY <3>1, Untouching
      <3> QED  BY <3>2, <3>3
    <2>3. CASE SavePlanValid(w)
      <3>1. req' = [req EXCEPT ![w] = Idle]
        BY <2>3 DEF SavePlanValid, Done
      <3> QED  BY <3>1, IdleTouchesNothing
    <2> QED  BY <2>1, <2>2, <2>3
  <1> QED  BY <1>1, <1>2, <1>3, CheckStep

-----------------------------------------------------------------------------
(* Requests begin, and are cut off.                                        *)

\* A request that begins on the sets S: the others there are stirred.
LEMMA BeginStep ==
  ASSUME TypeOK, MarksInv, NEW w \in Worker, Free(w), NEW r, req' = [req EXCEPT ![w] = r],
         NEW edit, Meet(w, TouchedBy(r), edit), WellPlaced(r), row' = row, okay' = okay,
         \A s \in AnswerSet \cap TouchedBy(r) :
           Earned(s, row[s], okay[s]) => Progress(s, r, row[s], okay[s])
  PROVE  MarksInv'
  <1>1. TouchedBy(req[w]) = {}
    BY AnswersAssumption DEF MarksInv, WellPlaced, Free, TouchedBy, Checking
  <1>2. stirred' = stirred \cup (TouchedBy(r) \cap UNION {TouchedBy(req[v]) : v \in Others(w)})
    BY TouchesOfRequest DEF Meet, Others
  <1>3. ASSUME NEW s \in AnswerSet \ stirred'
        PROVE  /\ s \notin TouchedBy(req[w]) => row'[s] = row[s] /\ okay'[s] = okay[s]
               /\ s \in TouchedBy(r) =>
                    /\ Progress(s, r, row'[s], okay'[s])
                    /\ s \in TouchedBy(req[w]) \/ \A v \in Worker : s \notin TouchedBy(req[v])
               /\ s \in TouchedBy(req[w]) \ TouchedBy(r) => Earned(s, row'[s], okay'[s])
    <2>1. s \in TouchedBy(r) => \A v \in Worker : s \notin TouchedBy(req[v])
      BY <1>1, <1>2 DEF Others
    <2>2. s \in TouchedBy(r) => Progress(s, r, row[s], okay[s])
      BY <1>2, <2>1 DEF MarksInv
    <2> QED  BY <1>1, <2>1, <2>2
  <1> QED  BY <1>2, <1>3, MarksStep

LEMMA LoadMarks ==
  ASSUME TypeOK, MarksInv, NEW w \in Worker, NEW s \in AnswerSet, NEW posted,
         Load(w, s, posted),
         s \in Branching => \E q \in Questions, c \in Choice :
           row[s].data[q] # c /\ posted = [row[s].data EXCEPT ![q] = c]
  PROVE  MarksInv'
  <1> DEFINE r == [Idle EXCEPT !.pc = "update", !.set = s, !.data = row[s].data,
                     !.valid = row[s].valid, !.okay = okay[s], !.plan = planValid,
                     !.posted = posted]
  <1>1. Free(w) /\ req' = [req EXCEPT ![w] = r] /\ Meet(w, {s}, TRUE) /\ row' = row /\ okay' = okay
    BY DEF Load, marks
  <1>2. r.pc = "update" /\ r.set = s /\ r.data = row[s].data /\ r.valid = row[s].valid
        /\ r.posted = posted
    BY DEF Idle
  <1> HIDE DEF r
  <1>3. TouchedBy(r) = {s} /\ WellPlaced(r)
    BY <1>2 DEF TouchedBy, WellPlaced, Checking, Editing, Unmarking
  <1>4. Earned(s, row[s], okay[s]) => Progress(s, r, row[s], okay[s])
    BY <1>2 DEF Progress, BranchProgress, OneChoice, Holding, Marking, Unmarking, Checking
  <1> QED  BY <1>1, <1>3, <1>4, BeginStep

LEMMA BeginMarks ==
  ASSUME TypeOK, MarksInv, NEW w \in Worker, Begin(w)
  PROVE  MarksInv'
  <1>1. CASE ValidatePlan(w)
    <2> DEFINE d == [s \in AnswerSet |-> row[s].data]
               i == [Idle EXCEPT !.pc = "savePlanValid"]
               c == [Idle EXCEPT !.pc = "checkSet", !.rows = d, !.todo = AnswerSet]
               r == IF \A s \in AnswerSet : d[s] = Empty THEN i ELSE c
    <2>1. /\ Free(w) /\ req' = [req EXCEPT ![w] = r] /\ Meet(w, AnswerSet, FALSE)
          /\ row' = row /\ okay' = okay
      BY <1>1 DEF ValidatePlan, marks
    <2>2. CASE r = c
      <3>1. c.pc = "checkSet" /\ c.rows = d /\ c.todo = AnswerSet
        BY DEF Idle
      <3> HIDE DEF c
      <3>2. TouchedBy(c) = AnswerSet /\ WellPlaced(c)
        BY <3>1 DEF TouchedBy, WellPlaced, Checking, Editing, Unmarking
      <3>3. \A s \in AnswerSet : Earned(s, row[s], okay[s]) => Progress(s, c, row[s], okay[s])
        BY <3>1 DEF Progress, BranchProgress, Holding, Marking, Unmarking, Checking
      <3> HIDE DEF r
      <3> QED  BY <2>1, <2>2, <3>2, <3>3, BeginStep
    <2>3. CASE r = i
      <3>1. i.pc = "savePlanValid" /\ i.set = NoSet /\ i.todo = {}
        BY DEF Idle
      <3> HIDE DEF i, r
      <3>2. TouchedBy(i) = {} /\ WellPlaced(i)
        BY <3>1, Untouching
      <3>3. TouchedBy(req[w]) = {}
        BY <2>1, AnswersAssumption DEF MarksInv, WellPlaced, Free, TouchedBy, Checking
      <3>4. stirred \subseteq stirred'
        BY <2>1 DEF Meet
      <3> QED  BY <2>1, <2>3, <3>2, <3>3, <3>4, MarksStep
    <2> HIDE DEF i, c
    <2> QED  BY <2>2, <2>3
  <1>2. CASE ViewPlan(w)
    <2> DEFINE i == [Idle EXCEPT !.pc = "verdict"]
    <2>1. Free(w) /\ req' = [req EXCEPT ![w] = i] /\ Meet(w, {}, FALSE) /\ row' = row /\ okay' = okay
      BY <1>2 DEF ViewPlan, marks
    <2>2. i.pc = "verdict" /\ i.set = NoSet /\ i.todo = {}
      BY DEF Idle
    <2> HIDE DEF i
    <2>3. TouchedBy(i) = {} /\ WellPlaced(i)
      BY <2>2, Untouching
    <2> QED  BY <2>1, <2>3, BeginStep
  <1>3. ASSUME NEW s \in AnswerSet, PostQuestion(w, s)
        PROVE  MarksInv'
    <2>1. PICK q \in Questions, c \in Choice : Load(w, s, [row[s].data EXCEPT ![q] = c])
      BY <1>3 DEF PostQuestion
    <2>2. row[s].data \in Answers /\ [row[s].data EXCEPT ![q] = c] # row[s].data
      BY <2>1 DEF Load, TypeOK
    <2>3. row[s].data[q] # c
      BY <2>2 DEF Answers
    <2> QED  BY <2>1, <2>3, LoadMarks
  <1>4. ASSUME NEW s \in AnswerSet, PostSection(w, s)
        PROVE  MarksInv'
    BY <1>4, LoadMarks DEF PostSection
  <1>5. ASSUME NEW s \in AnswerSet, PostInvalid(w, s)
        PROVE  MarksInv'
    <2>1. PICK q \in okay[s] :
            /\ Free(w) /\ Meet(w, {s}, FALSE) /\ row' = row /\ okay' = okay
            /\ req' = [req EXCEPT ![w] = [Idle EXCEPT !.pc = "unmarkAnswer", !.set = s, !.q = q]]
      BY <1>5 DEF PostInvalid, marks
    <2> DEFINE r == [Idle EXCEPT !.pc = "unmarkAnswer", !.set = s, !.q = q]
    <2>2. r.pc = "unmarkAnswer" /\ r.set = s /\ req' = [req EXCEPT ![w] = r]
      BY <2>1 DEF Idle
    <2> HIDE DEF r
    <2>3. TouchedBy(r) = {s} /\ WellPlaced(r)
      BY <2>2 DEF TouchedBy, WellPlaced, Checking, Editing, Unmarking
    <2>4. Earned(s, row[s], okay[s]) => Progress(s, r, row[s], okay[s])
      BY <2>2 DEF Progress, BranchProgress, Holding, Marking, Unmarking, Checking
    <2>5. Meet(w, TouchedBy(r), FALSE)
      BY <2>1, <2>3
    <2>6. \A t \in AnswerSet \cap TouchedBy(r) :
            Earned(t, row[t], okay[t]) => Progress(t, r, row[t], okay[t])
      BY <2>3, <2>4
    <2> QED  BY <2>1, <2>2, <2>3, <2>5, <2>6, BeginStep
  <1> QED  BY <1>1, <1>2, <1>3, <1>4, <1>5 DEF Begin

LEMMA KillMarks ==
  ASSUME TypeOK, MarksInv, NEW w \in Worker, Kill(w)
  PROVE  MarksInv'
  <1>1. req' = [req EXCEPT ![w] = Idle] /\ stirred' = stirred \cup TouchedBy(req[w])
        /\ row' = row /\ okay' = okay
    BY TouchesOfRequest DEF Kill, Done, marks
  <1>2. \A s \in AnswerSet \ stirred' : s \notin TouchedBy(req[w]) /\ s \notin TouchedBy(Idle)
    BY <1>1, IdleTouchesNothing
  <1> QED  BY <1>1, <1>2, IdleTouchesNothing, MarksStep

-----------------------------------------------------------------------------
LEMMA MarksInit == Init => MarksInv
  <1> SUFFICES ASSUME Init
               PROVE  MarksInv
    OBVIOUS
  <1>1. \A w \in Worker : TouchedBy(req[w]) = {} /\ WellPlaced(req[w])
    BY IdleTouchesNothing DEF Init
  <1>2. ASSUME NEW s \in AnswerSet
        PROVE  Earned(s, row[s], okay[s])
    BY <1>2 DEF Init, Earned
  <1> QED  BY <1>1, <1>2 DEF MarksInv

LEMMA MarksNext == TypeOK /\ MarksInv /\ [Next]_vars => MarksInv'
  <1> SUFFICES ASSUME TypeOK, MarksInv, [Next]_vars
               PROVE  MarksInv'
    OBVIOUS
  <1>1. CASE UNCHANGED vars
    <2>1. req' = req /\ row' = row /\ okay' = okay /\ stirred' = stirred
      BY <1>1 DEF vars
    <2>2. \A w \in Worker : WellPlaced(req'[w])
      BY <2>1 DEF MarksInv
    <2>3. ASSUME NEW s \in AnswerSet \ stirred'
          PROVE  /\ \A v, w \in Worker :
                      s \in TouchedBy(req'[v]) /\ s \in TouchedBy(req'[w]) => v = w
                 /\ (\A w \in Worker : s \notin TouchedBy(req'[w]))
                      => Earned(s, row'[s], okay'[s])
                 /\ \A w \in Worker :
                      s \in TouchedBy(req'[w]) => Progress(s, req'[w], row'[s], okay'[s])
      BY <2>1 DEF MarksInv
    <2> QED  BY <2>2, <2>3 DEF MarksInv
  <1>2. ASSUME NEW w \in Worker, Edit(w)
        PROVE  MarksInv'
    BY <1>2, UpdateAnswerMarks, SavePlanMarks, MarkAnswerMarks, MarkSetMarks,
       HideUnreachableMarks, ValidateAnswersMarks, StoreValidityMarks, PlanInvalidMarks,
       LastSaveMarks DEF Edit
  <1>3. ASSUME NEW w \in Worker, Check(w)
        PROVE  MarksInv'
    BY <1>3, CheckSetMarks, CheckStoreMarks, CheckPlanMarks DEF Check
  <1> QED  BY <1>1, <1>2, <1>3, UnmarkMarks, BeginMarks, KillMarks DEF Next, Work

\* The marks of an answerset are never better than its answers, unless requests
\* met there or one was cut off, for any number of threads, answersets,
\* questions and forms.
THEOREM MarksAreEarned == Spec => []MarkIsEarned
  <1>1. TypeOK /\ MarksInv => MarkIsEarned
    BY TouchesOfRequest DEF MarkIsEarned, MarksInv, Resting, Earned
  <1>2. Spec => []MarksInv
    BY MarksInit, MarksNext, TypeCorrect, PTL DEF Spec
  <1> QED  BY <1>1, <1>2, TypeCorrect, PTL

-----------------------------------------------------------------------------
(* The mark of the plan, as long as requests follow each other: what the   *)
(* request r under way makes of a mark p and the rows x.                   *)

Complete(s, x) == ValidateData(s, x[s].data)
AllComplete(x) == \A s \in AnswerSet : Complete(s, x)

\* A request that edits holds the mark as it is in the table, and only its own
\* answerset may be less complete than the mark says, until it has been
\* validated.
PlanProgress(r, p, x) ==
  /\ r.pc \in Editing => r.plan = p
  /\ r.pc \in Editing /\ p => \A s \in AnswerSet \ {r.set} : Complete(s, x)
  /\ r.pc \in Editing /\ p /\ r.set \in Branching =>
       (r.pc = "update" \/ (r.pc \in Marking /\ r.q \notin Forks) => Complete(r.set, x))
  /\ r.pc = "lastSave" /\ p => Complete(r.set, x)
  /\ r.pc \in Unmarking \cup {"verdict", "savePlanValid"} /\ p => AllComplete(x)
  /\ r.pc = "savePlanValid" /\ r.plan => AllComplete(x)
  /\ r.pc \in {"checkSet", "checkStore", "checkPlan"} => ~p

PlanInv ==
  alone =>
    /\ stirred = {}
    /\ \A v, w \in Worker : ~Free(v) /\ ~Free(w) => v = w
    /\ planValid /\ (\A w \in Worker : Free(w)) => AllComplete(row)
    /\ \A w \in Worker : ~Free(w) => PlanProgress(req[w], planValid, row)

\* What a request that has met no other finds, and what it has to leave.
Undisturbed(w) ==
  /\ PlanProgress(req[w], planValid, row)
  /\ req[w].pc \in Editing \cup Unmarking => InOrder(w)
  /\ TouchedBy(req[w]) = {} => \A s \in AnswerSet : Earned(s, row[s], okay[s])
PlanAfter(r) ==
  IF r.pc = "idle" THEN planValid' => AllComplete(row') ELSE PlanProgress(r, planValid', row')

LEMMA FreeTouchesNothing ==
  ASSUME MarksInv, NEW w \in Worker, Free(w)
  PROVE  TouchedBy(req[w]) = {}
  BY AnswersAssumption DEF MarksInv, WellPlaced, Free, TouchedBy, Checking

LEMMA AloneIsUndisturbed ==
  ASSUME TypeOK, MarksInv, PlanInv, alone, NEW w \in Worker, ~Free(w)
  PROVE  Undisturbed(w)
  <1>1. PlanProgress(req[w], planValid, row) /\ stirred = {}
    BY DEF PlanInv
  <1>2. \A v \in Worker \ {w} : TouchedBy(req[v]) = {}
    BY FreeTouchesNothing DEF PlanInv
  <1>3. ASSUME req[w].pc \in Editing \cup Unmarking
        PROVE  InOrder(w)
    <2>1. req[w].set \in AnswerSet
      BY <1>3, EditAct
    <2>2. req[w].set \in TouchedBy(req[w])
      BY <1>3, <2>1, TouchesOne
    <2> QED  BY <1>1, <2>1, <2>2 DEF MarksInv, InOrder
  <1>4. ASSUME TouchedBy(req[w]) = {}, NEW s \in AnswerSet
        PROVE  Earned(s, row[s], okay[s])
    <2>1. \A v \in Worker : s \notin TouchedBy(req[v])
      BY <1>2, <1>4
    <2> QED  BY <1>1, <2>1 DEF MarksInv
  <1> QED  BY <1>1, <1>3, <1>4 DEF Undisturbed

LEMMA PlanStep ==
  ASSUME TypeOK, MarksInv, PlanInv, NEW w \in Worker, ~Free(w),
         NEW r, req' = [req EXCEPT ![w] = r], alone' = alone, stirred' = stirred,
         Undisturbed(w) => PlanAfter(r)
  PROVE  PlanInv'
  <1> SUFFICES ASSUME alone
               PROVE  /\ stirred' = {}
                      /\ \A u, v \in Worker : ~Free(u)' /\ ~Free(v)' => u = v
                      /\ planValid' /\ (\A v \in Worker : Free(v)') => AllComplete(row')
                      /\ \A v \in Worker : ~Free(v)' => PlanProgress(req'[v], planValid', row')
    BY DEF PlanInv
  <1>1. req'[w] = r /\ \A v \in Worker \ {w} : req'[v] = req[v]
    BY DEF TypeOK
  <1>2. stirred' = {} /\ \A v \in Worker \ {w} : Free(v)
    BY DEF PlanInv
  <1>3. \A v \in Worker \ {w} : Free(v)'
    BY <1>1, <1>2 DEF Free
  <1>4. PlanAfter(r)
    BY AloneIsUndisturbed
  <1>5. Free(w)' <=> r.pc = "idle"
    BY <1>1 DEF Free
  <1> QED  BY <1>1, <1>2, <1>3, <1>4, <1>5 DEF PlanAfter

LEMMA PlanDone ==
  ASSUME TypeOK, MarksInv, PlanInv, NEW w \in Worker, ~Free(w),
         Done(w), alone' = alone, stirred' = stirred,
         Undisturbed(w) => (planValid' => AllComplete(row'))
  PROVE  PlanInv'
  <1>1. Idle.pc = "idle"
    BY DEF Idle
  <1>2. Undisturbed(w) => PlanAfter(Idle)
    BY <1>1 DEF PlanAfter
  <1> QED  BY <1>2, PlanStep DEF Done

LEMMA PlanGoto ==
  ASSUME TypeOK, MarksInv, PlanInv, NEW w \in Worker, ~Free(w), NEW pc, pc # "idle",
         Goto(w, pc), alone' = alone, stirred' = stirred,
         Undisturbed(w) => PlanProgress([req[w] EXCEPT !.pc = pc], planValid', row')
  PROVE  PlanInv'
  <1> DEFINE r == [req[w] EXCEPT !.pc = pc]
  <1>1. req' = [req EXCEPT ![w] = r]
    BY DEF Goto
  <1>2. r.pc = pc
    BY ReqFields, WithPc
  <1>3. Undisturbed(w) => PlanProgress(r, planValid', row')
    OBVIOUS
  <1> HIDE DEF r
  <1>4. Undisturbed(w) => PlanAfter(r)
    BY <1>2, <1>3 DEF PlanAfter
  <1> QED  BY <1>1, <1>4, PlanStep

\* Completeness depends on the answers alone.
LEMMA CompleteKept ==
  ASSUME NEW w \in Worker, OthersKept(w)
  PROVE  /\ \A s \in AnswerSet \ {req[w].set} : Complete(s, row') = Complete(s, row)
         /\ row'[req[w].set].data = row[req[w].set].data =>
              /\ Complete(req[w].set, row') = Complete(req[w].set, row)
              /\ AllComplete(row') = AllComplete(row)
  <1>1. \A s \in AnswerSet \ {req[w].set} : Complete(s, row') = Complete(s, row)
    BY DEF OthersKept, Complete
  <1>2. ASSUME row'[req[w].set].data = row[req[w].set].data
        PROVE  /\ Complete(req[w].set, row') = Complete(req[w].set, row)
               /\ AllComplete(row') = AllComplete(row)
    BY <1>1, <1>2 DEF Complete, AllComplete
  <1> QED  BY <1>1, <1>2

LEMMA SameComplete ==
  ASSUME \A s \in AnswerSet : row'[s].data = row[s].data
  PROVE  AllComplete(row') = AllComplete(row)
  BY DEF AllComplete, Complete

LEMMA UpdateAnswerPlan ==
  ASSUME TypeOK, MarksInv, PlanInv, NEW w \in Worker, UpdateAnswer(w)
  PROVE  PlanInv'
  <1>1. PICK q \in Differing(req[w]) :
          LET s == req[w].set
              data == [req[w].data EXCEPT ![q] = req[w].posted[q]]
          IN  /\ req[w].pc = "update"
              /\ row' = [row EXCEPT ![s] = [data |-> data, valid |-> req[w].valid]]
              /\ okay' = [okay EXCEPT ![s] = @ \cup {q}]
              /\ req' = [req EXCEPT ![w] = [@ EXCEPT !.pc = "savePlan", !.q = q, !.data = data]]
              /\ UNCHANGED <<planValid, history>>
    BY DEF UpdateAnswer
  <1> DEFINE t == req[w].set
             a == [req[w].data EXCEPT ![q] = req[w].posted[q]]
             x == [data |-> a, valid |-> req[w].valid]
             r == [req[w] EXCEPT !.pc = "savePlan", !.q = q, !.data = a]
  <1>2. /\ req[w].pc = "update" /\ req[w].pc \in Editing \cup Unmarking
        /\ row' = [row EXCEPT ![t] = x]
        /\ req' = [req EXCEPT ![w] = r]
        /\ stirred' = stirred /\ alone' = alone /\ planValid' = planValid
    BY <1>1 DEF history, Editing
  <1>3. t \in AnswerSet /\ req[w] \in Request /\ req[w].data \in Answers /\ q \in Questions
        /\ ~Free(w)
    BY <1>2, EditAct DEF Differing, Free
  <1>4. r.pc = "savePlan" /\ r.set = t /\ r.q = q /\ r.plan = req[w].plan
    BY <1>3 DEF Request
  <1>5. row'[t].data = a /\ \A s \in AnswerSet \ {t} : row'[s] = row[s]
    <2>1. x.data = a
      OBVIOUS
    <2> HIDE DEF x
    <2>2. row'[t] = x /\ \A s \in AnswerSet \ {t} : row'[s] = row[s]
      BY <1>2, <1>3, SetRow
    <2> QED  BY <2>1, <2>2
  <1>6. ASSUME t \in Branching, InOrder(w), q \notin Forks, Complete(t, row)
        PROVE  Complete(t, row')
    <2>1. req[w].data = row[t].data /\ OneChoice(req[w])
      BY <1>2, <1>6 DEF InOrder, Progress, BranchProgress, Holding
    <2>2. PICK p \in Questions, c \in Choice :
            req[w].data[p] # c /\ req[w].posted = [req[w].data EXCEPT ![p] = c]
      BY <2>1 DEF OneChoice
    <2>3. p = q /\ a = [req[w].data EXCEPT ![q] = c]
      BY <1>3, <2>2 DEF Differing, Answers
    <2> HIDE DEF a
    <2> QED  BY <1>3, <1>5, <1>6, <2>1, <2>3, AnswerAdds DEF Complete
  <1> HIDE DEF r, a, x
  <1>7. \A s \in AnswerSet \ {t} : Complete(s, row') = Complete(s, row)
    BY <1>5 DEF Complete
  <1>8. req[w].pc \in Editing
    BY <1>2 DEF Editing
  <1>9. Undisturbed(w) => PlanAfter(r)
    BY <1>2, <1>4, <1>6, <1>7, <1>8
       DEF Undisturbed, PlanAfter, PlanProgress, Editing, Marking, Unmarking
  <1> QED  BY <1>2, <1>3, <1>9, PlanStep

LEMMA GoOnPlan ==
  ASSUME TypeOK, MarksInv, PlanInv, NEW w \in Worker, req[w].pc \in Marking, NEW v,
         req' = [req EXCEPT ![w] = AfterMarkRequest(w, v)],
         stirred' = stirred, alone' = alone, OthersKept(w),
         Undisturbed(w) =>
           planValid' = planValid /\ row'[req[w].set].data = row[req[w].set].data
  PROVE  PlanInv'
  <1> DEFINE t == req[w].set
             r == AfterMarkRequest(w, v)
  <1>1. t \in AnswerSet /\ req[w] \in Request /\ req[w].pc \in Editing /\ ~Free(w)
    BY EditAct DEF Marking, Editing, Free
  <1>2. AfterMark(w) # "idle" => r.pc = AfterMark(w) /\ r.set = t /\ r.plan = req[w].plan
    BY <1>1 DEF Request, AfterMarkRequest
  <1>3. AfterMark(w) = "idle" => r.pc = "idle"
    BY DEF AfterMarkRequest, Idle
  <1> HIDE DEF r
  <1>4. ASSUME Undisturbed(w)
        PROVE  PlanAfter(r)
    <2>1. /\ \A s \in AnswerSet \ {t} : Complete(s, row') = Complete(s, row)
          /\ Complete(t, row') = Complete(t, row)
      BY <1>4, CompleteKept
    <2>2. /\ req[w].plan = planValid /\ planValid' = planValid
          /\ planValid => \A s \in AnswerSet \ {t} : Complete(s, row)
          /\ planValid /\ t \in Branching /\ req[w].q \notin Forks => Complete(t, row)
      BY <1>1, <1>4 DEF Undisturbed, PlanProgress
    <2>3. t \in Branching => Differing(req[w]) = {}
      BY <1>1, <1>4 DEF Undisturbed, InOrder, Progress, BranchProgress
    <2>4. CASE AfterMark(w) = "idle"
      <3>1. t \in Branching /\ req[w].q \notin Forks
        BY <2>4 DEF AfterMark
      <3>2. planValid => AllComplete(row')
        BY <2>1, <2>2, <3>1 DEF AllComplete
      <3> QED  BY <1>3, <2>2, <2>4, <3>2 DEF PlanAfter
    <2>5. CASE AfterMark(w) # "idle"
      <3>1. t \in Branching => AfterMark(w) = "hide"
        BY <2>3, <2>5 DEF AfterMark
      <3>2. r.pc \in {"update", "hide", "validate"}
        BY <1>2, <2>5, AfterMarkType
      <3>3. PlanProgress(r, planValid', row')
        BY <1>2, <2>1, <2>2, <2>5, <3>1, <3>2 DEF PlanProgress, Marking, Unmarking
      <3> QED  BY <3>2, <3>3 DEF PlanAfter
    <2> QED  BY <2>4, <2>5
  <1>5. req' = [req EXCEPT ![w] = r]
    BY DEF r
  <1> QED  BY <1>1, <1>4, <1>5, PlanStep

LEMMA SavePlanPlan ==
  ASSUME TypeOK, MarksInv, PlanInv, NEW w \in Worker, SavePlan(w)
  PROVE  PlanInv'
  <1>1. /\ req[w].pc = "savePlan" /\ req[w].pc \in Marking /\ req[w].pc \in Editing
        /\ row' = row /\ okay' = okay /\ stirred' = stirred /\ alone' = alone /\ ~Free(w)
        /\ planValid' = req[w].plan
    BY DEF SavePlan, history, Marking, Editing, Free
  <1>2. OthersKept(w)
    BY <1>1, NoEffect
  <1>3. Undisturbed(w) =>
          planValid' = planValid /\ row'[req[w].set].data = row[req[w].set].data
    BY <1>1 DEF Undisturbed, PlanProgress
  <1>4. CASE GoOn(w)
    BY <1>1, <1>2, <1>3, <1>4, GoOnPlan, GoOnRequest
  <1>5. CASE Goto(w, "markAnswer")
    <2>1. Undisturbed(w) => PlanProgress([req[w] EXCEPT !.pc = "markAnswer"], planValid', row')
      BY <1>1, <1>3, EditAct, WithPc
         DEF Undisturbed, PlanProgress, Editing, Marking, Unmarking
    <2> QED  BY <1>1, <1>5, <2>1, PlanGoto
  <1> QED  BY <1>4, <1>5 DEF SavePlan

LEMMA MarkAnswerPlan ==
  ASSUME TypeOK, MarksInv, PlanInv, NEW w \in Worker, MarkAnswer(w)
  PROVE  PlanInv'
  <1>1. /\ req[w].pc = "markAnswer" /\ req[w].pc \in Marking /\ req[w].pc \in Editing
        /\ row' = row /\ okay' = [okay EXCEPT ![req[w].set] = okay[req[w].set] \cup {req[w].q}]
        /\ stirred' = stirred /\ alone' = alone /\ ~Free(w)
        /\ planValid' = planValid
    BY DEF MarkAnswer, history, Marking, Editing, Free
  <1>2. OthersKept(w) /\ row'[req[w].set].data = row[req[w].set].data
    BY <1>1, EditAct, OkayEffect
  <1>3. CASE GoOn(w)
    BY <1>1, <1>2, <1>3, GoOnPlan, GoOnRequest
  <1>4. CASE Goto(w, "markSet")
    <2>1. Undisturbed(w) => PlanProgress([req[w] EXCEPT !.pc = "markSet"], planValid', row')
      BY <1>1, EditAct, WithPc
         DEF Undisturbed, PlanProgress, Editing, Marking, Unmarking
    <2> QED  BY <1>1, <1>4, <2>1, PlanGoto
  <1> QED  BY <1>3, <1>4 DEF MarkAnswer

LEMMA MarkSetPlan ==
  ASSUME TypeOK, MarksInv, PlanInv, NEW w \in Worker, MarkSet(w)
  PROVE  PlanInv'
  <1> DEFINE t == req[w].set
             x == [data |-> req[w].data, valid |-> TRUE]
  <1>1. /\ req[w].pc = "markSet" /\ req[w].pc \in Marking
        /\ req[w].pc \in Editing \cup Unmarking
        /\ row' = [row EXCEPT ![t] = x] /\ okay' = okay
        /\ stirred' = stirred /\ alone' = alone /\ planValid' = planValid
        /\ req' = [req EXCEPT ![w] = AfterMarkRequest(w, TRUE)]
    BY DEF MarkSet, history, marks, Marking, Editing, Done, AfterMarkRequest
  <1>2. x.data = req[w].data
    OBVIOUS
  <1> HIDE DEF x
  <1>3. OthersKept(w) /\ row'[t] = x
    BY <1>1, EditAct, RowEffect
  <1>4. Undisturbed(w) => row'[t].data = row[t].data
    BY <1>1, <1>2, <1>3 DEF Undisturbed, InOrder, Progress, Holding
  <1> QED  BY <1>1, <1>3, <1>4, GoOnPlan

LEMMA HideUnreachablePlan ==
  ASSUME TypeOK, MarksInv, PlanInv, NEW w \in Worker, HideUnreachable(w)
  PROVE  PlanInv'
  <1> DEFINE t == req[w].set
             kept == Keep(t, req[w].data)
             x == [data |-> kept, valid |-> req[w].valid]
             r == [req[w] EXCEPT !.pc = "validate", !.data = kept, !.posted = kept]
  <1>1. /\ req[w].pc = "hide" /\ req[w].pc \in Editing /\ req[w].pc \in Editing \cup Unmarking
        /\ row' = [row EXCEPT ![t] = x] /\ okay' = okay
        /\ req' = [req EXCEPT ![w] = r]
        /\ stirred' = stirred /\ alone' = alone /\ planValid' = planValid /\ ~Free(w)
    BY DEF HideUnreachable, history, marks, Editing, Free
  <1>2. t \in AnswerSet /\ req[w] \in Request
    BY <1>1, EditAct
  <1>3. r.pc = "validate" /\ r.set = t /\ r.plan = req[w].plan
    BY <1>2 DEF Request
  <1> HIDE DEF r, x
  <1>4. OthersKept(w)
    BY <1>1, <1>2, RowEffect
  <1>5. \A s \in AnswerSet \ {t} : Complete(s, row') = Complete(s, row)
    BY <1>4, CompleteKept
  <1>6. Undisturbed(w) => PlanAfter(r)
    BY <1>1, <1>3, <1>5 DEF Undisturbed, PlanAfter, PlanProgress, Marking, Unmarking
  <1> QED  BY <1>1, <1>6, PlanStep

LEMMA ValidateAnswersPlan ==
  ASSUME TypeOK, MarksInv, PlanInv, NEW w \in Worker, ValidateAnswers(w)
  PROVE  PlanInv'
  <1>1. /\ req[w].pc = "validate" /\ req[w].pc \in Editing
        /\ row' = row /\ stirred' = stirred /\ alone' = alone /\ planValid' = planValid
        /\ ~Free(w) /\ Goto(w, "store")
    BY DEF ValidateAnswers, history, Editing, Free
  <1>2. Undisturbed(w) => PlanProgress([req[w] EXCEPT !.pc = "store"], planValid', row')
    BY <1>1, EditAct, WithPc DEF Undisturbed, PlanProgress, Marking, Unmarking
  <1> QED  BY <1>1, <1>2, PlanGoto

LEMMA StoreValidityPlan ==
  ASSUME TypeOK, MarksInv, PlanInv, NEW w \in Worker, StoreValidity(w)
  PROVE  PlanInv'
  <1> DEFINE t == req[w].set
             v == ValidateData(t, req[w].data)
             x == [row[t] EXCEPT !.valid = v]
  <1>1. /\ req[w].pc = "store" /\ req[w].pc \in Editing /\ req[w].pc \in Editing \cup Unmarking
        /\ row' = [row EXCEPT ![t] = x] /\ okay' = okay
        /\ stirred' = stirred /\ alone' = alone /\ planValid' = planValid /\ ~Free(w)
        /\ Goto(w, "planInvalid") \/ (v /\ Goto(w, "lastSave")) \/ (v /\ Done(w))
    BY DEF StoreValidity, history, marks, Editing, Free
  <1>2. t \in AnswerSet /\ row[t] \in [data : Answers, valid : BOOLEAN]
    BY <1>1, EditAct DEF TypeOK
  <1>3. x.data = row[t].data
    BY <1>2
  <1> HIDE DEF x
  <1>4. OthersKept(w) /\ row'[t].data = row[t].data
    BY <1>1, <1>2, <1>3, RowEffect
  <1>5. /\ \A s \in AnswerSet \ {t} : Complete(s, row') = Complete(s, row)
        /\ Complete(t, row') = Complete(t, row)
    BY <1>4, CompleteKept
  <1>6. Undisturbed(w) => (v => Complete(t, row))
    BY <1>1 DEF Undisturbed, InOrder, Progress, Holding, Complete
  <1>7. Undisturbed(w) =>
          /\ req[w].plan = planValid
          /\ planValid => \A s \in AnswerSet \ {t} : Complete(s, row)
    BY <1>1 DEF Undisturbed, PlanProgress
  <1> HIDE DEF v
  <1>8. CASE Goto(w, "planInvalid")
    <2>1. ASSUME Undisturbed(w)
          PROVE  PlanProgress([req[w] EXCEPT !.pc = "planInvalid"], planValid', row')
      <3> DEFINE r == [req[w] EXCEPT !.pc = "planInvalid"]
      <3>1. r.pc = "planInvalid" /\ r.set = t /\ r.plan = req[w].plan
        BY <1>1, EditAct, WithPc
      <3> HIDE DEF r
      <3>2. PlanProgress(r, planValid', row')
        BY <1>1, <1>5, <1>7, <2>1, <3>1 DEF PlanProgress, Marking, Unmarking
      <3> QED  BY <3>2 DEF r
    <2> QED  BY <1>1, <1>8, <2>1, PlanGoto
  <1>9. CASE v /\ Goto(w, "lastSave")
    <2>1. ASSUME Undisturbed(w)
          PROVE  PlanProgress([req[w] EXCEPT !.pc = "lastSave"], planValid', row')
      <3> DEFINE r == [req[w] EXCEPT !.pc = "lastSave"]
      <3>1. r.pc = "lastSave" /\ r.set = t /\ r.plan = req[w].plan
        BY <1>1, EditAct, WithPc
      <3> HIDE DEF r
      <3>2. PlanProgress(r, planValid', row')
        BY <1>1, <1>5, <1>6, <1>7, <1>9, <2>1, <3>1 DEF PlanProgress, Marking, Unmarking
      <3> QED  BY <3>2 DEF r
    <2> QED  BY <1>1, <1>9, <2>1, PlanGoto
  <1>10. CASE v /\ Done(w)
    <2>1. Undisturbed(w) => (planValid' => AllComplete(row'))
      BY <1>1, <1>5, <1>6, <1>7, <1>10 DEF AllComplete
    <2> QED  BY <1>1, <1>10, <2>1, PlanDone
  <1> QED  BY <1>1, <1>8, <1>9, <1>10

LEMMA PlanInvalidPlan ==
  ASSUME TypeOK, MarksInv, PlanInv, NEW w \in Worker, PlanInvalid(w)
  PROVE  PlanInv'
  <1> DEFINE r == [req[w] EXCEPT !.pc = "lastSave", !.plan = FALSE]
  <1>1. /\ req[w].pc \in Editing \cup Unmarking /\ ~Free(w)
        /\ planValid' = FALSE /\ stirred' = stirred /\ alone' = alone
        /\ Done(w) \/ req' = [req EXCEPT ![w] = r]
    BY DEF PlanInvalid, history, Editing, Free
  <1>2. r.pc = "lastSave" /\ r.plan = FALSE
    BY <1>1, EditAct DEF Request
  <1> HIDE DEF r
  <1>3. PlanAfter(r)
    BY <1>1, <1>2 DEF PlanAfter, PlanProgress, Marking, Unmarking
  <1> QED  BY <1>1, <1>3, PlanStep, PlanDone

LEMMA LastSavePlan ==
  ASSUME TypeOK, MarksInv, PlanInv, NEW w \in Worker, LastSave(w)
  PROVE  PlanInv'
  <1>1. /\ req[w].pc = "lastSave" /\ req[w].pc \in Editing /\ ~Free(w)
        /\ row' = row /\ planValid' = req[w].plan /\ stirred' = stirred /\ alone' = alone
        /\ Done(w)
    BY DEF LastSave, history, Editing, Free
  <1>2. Undisturbed(w) => (planValid' => AllComplete(row'))
    BY <1>1 DEF Undisturbed, PlanProgress, AllComplete
  <1> QED  BY <1>1, <1>2, PlanDone

LEMMA UnmarkPlanPlan ==
  ASSUME TypeOK, MarksInv, PlanInv, NEW w \in Worker, Unmark(w)
  PROVE  PlanInv'
  <1>1. /\ req[w].pc \in Unmarking /\ req[w].pc \in Editing \cup Unmarking /\ ~Free(w)
        /\ stirred' = stirred /\ alone' = alone
        /\ planValid' = planValid \/ planValid' = FALSE
        /\ row' = row \/ UnmarkSet(w)
        /\ \/ \E pc \in Unmarking : Goto(w, pc)
           \/ Done(w)
    BY DEF Unmark, UnmarkAnswer, UnmarkSet, UnmarkPlan, marks, history, Unmarking, Free
  <1>2. req[w].set \in AnswerSet /\ row \in Rows
    BY <1>1, EditAct DEF TypeOK, Rows
  <1>3. \A s \in AnswerSet : row'[s].data = row[s].data
    <2>1. CASE UnmarkSet(w)
      BY <1>2, <2>1 DEF UnmarkSet, Rows
    <2> QED  BY <1>1, <2>1
  <1>4. Undisturbed(w) => (planValid' => AllComplete(row'))
    BY <1>1, <1>3, SameComplete DEF Undisturbed, PlanProgress
  <1>5. ASSUME NEW pc \in Unmarking, Goto(w, pc)
        PROVE  PlanInv'
    <2>1. Undisturbed(w) => PlanProgress([req[w] EXCEPT !.pc = pc], planValid', row')
      BY <1>1, <1>4, EditAct, WithPc DEF PlanProgress, Editing, Marking, Unmarking
    <2>2. pc # "idle"
      BY DEF Unmarking
    <2> QED  BY <1>1, <1>5, <2>1, <2>2, PlanGoto
  <1> QED  BY <1>1, <1>4, <1>5, PlanDone

\* A validation leaves no mark on the plan until all answersets are looked at.
LEMMA StillChecking ==
  ASSUME TypeOK, MarksInv, PlanInv, NEW w \in Worker, ~Free(w),
         stirred' = stirred, alone' = alone, NEW r, req' = [req EXCEPT ![w] = r],
         r.pc \in {"checkSet", "checkStore", "checkPlan", "verdict"},
         Undisturbed(w) => planValid' = FALSE
  PROVE  PlanInv'
  <1>1. Undisturbed(w) => PlanAfter(r)
    BY DEF PlanAfter, PlanProgress, Editing, Marking, Unmarking
  <1> QED  BY <1>1, PlanStep

LEMMA CheckPlanInvNext ==
  ASSUME TypeOK, MarksInv, PlanInv, NEW w \in Worker, Check(w)
  PROVE  PlanInv'
  <1>1. /\ req[w].pc \in Checking /\ ~Free(w) /\ stirred' = stirred /\ alone' = alone
        /\ req[w] \in Request
    BY ReqFields DEF Check, CheckSet, CheckStore, CheckPlan, Verdict, SavePlanValid, marks,
                     history, Checking, Free
  <1>2. ASSUME NEW n \in Request
        PROVE  CheckOn(n).pc \in {"checkSet", "verdict"}
    BY DEF CheckOn, Idle, Request
  <1>3. ASSUME NEW s \in AnswerSet, CheckSet(w, s)
        PROVE  PlanInv'
    <2> DEFINE r == [req[w] EXCEPT !.pc = "checkStore", !.set = s]
    <2>1. r.pc = "checkStore" /\ req' = [req EXCEPT ![w] = r]
      BY <1>1, <1>3 DEF CheckSet, Request
    <2>2. Undisturbed(w) => planValid' = FALSE
      BY <1>3 DEF CheckSet, TypeOK, Undisturbed, PlanProgress
    <2> HIDE DEF r
    <2> QED  BY <1>1, <2>1, <2>2, StillChecking
  <1>4. CASE CheckStore(w)
    <2> DEFINE n == [req[w] EXCEPT !.todo = req[w].todo \ {req[w].set}]
               p == [n EXCEPT !.pc = "checkPlan"]
               r == IF ValidateData(req[w].set, req[w].rows[req[w].set]) THEN CheckOn(n) ELSE p
    <2>1. n \in Request
      BY <1>1, ReqFields, Fields
    <2>2. p.pc = "checkPlan"
      BY <2>1, WithPc
    <2>3. req' = [req EXCEPT ![w] = r]
      BY <1>4 DEF CheckStore
    <2> HIDE DEF n, p
    <2>4. r.pc \in {"checkSet", "checkPlan", "verdict"}
      BY <1>2, <2>1, <2>2
    <2>5. Undisturbed(w) => planValid' = FALSE
      BY <1>4 DEF CheckStore, marks, TypeOK, Undisturbed, PlanProgress
    <2> HIDE DEF r
    <2> QED  BY <1>1, <2>3, <2>4, <2>5, StillChecking
  <1>5. CASE CheckPlan(w)
    <2>1. req' = [req EXCEPT ![w] = CheckOn(req[w])] /\ planValid' = FALSE
      BY <1>5 DEF CheckPlan
    <2>2. CheckOn(req[w]).pc \in {"checkSet", "verdict"}
      BY <1>1, <1>2
    <2> QED  BY <1>1, <2>1, <2>2, StillChecking
  <1>6. CASE Verdict(w)
    <2> DEFINE i == [Idle EXCEPT !.pc = "savePlanValid", !.plan = AllMarked]
    <2>1. i.pc = "savePlanValid" /\ i.plan = AllMarked
      BY DEF Idle
    <2>2. req' = [req EXCEPT ![w] = i] /\ row' = row /\ planValid' = planValid
          /\ req[w].pc = "verdict"
      BY <1>6 DEF Verdict, marks
    <2>3. TouchedBy(req[w]) = {}
      BY <1>1, <2>2 DEF MarksInv, WellPlaced, TouchedBy, Checking
    <2>4. Undisturbed(w) /\ AllMarked => AllComplete(row')
      BY <2>2, <2>3 DEF Undisturbed, AllMarked, AllComplete, Complete, Earned
    <2>5. Undisturbed(w) /\ planValid' => AllComplete(row')
      BY <2>2 DEF Undisturbed, PlanProgress
    <2> HIDE DEF i
    <2>6. Undisturbed(w) => PlanAfter(i)
      BY <2>1, <2>4, <2>5 DEF PlanAfter, PlanProgress, Editing, Marking, Unmarking
    <2> QED  BY <1>1, <2>2, <2>6, PlanStep
  <1>7. CASE SavePlanValid(w)
    <2>1. Done(w) /\ planValid' = req[w].plan /\ row' = row /\ req[w].pc = "savePlanValid"
      BY <1>7 DEF SavePlanValid
    <2>2. Undisturbed(w) => (planValid' => AllComplete(row'))
      BY <2>1 DEF Undisturbed, PlanProgress
    <2> QED  BY <1>1, <2>1, <2>2, PlanDone
  <1> QED  BY <1>3, <1>4, <1>5, <1>6, <1>7 DEF Check

\* A request that begins when no other is under way.
MeetsAny(w) ==
  /\ stirred' \subseteq stirred \cup UNION {Touches(v) : v \in Others(w)}
  /\ alone' = (alone /\ \A v \in Others(w) : Free(v))

LEMMA BeginPlanStep ==
  ASSUME TypeOK, MarksInv, PlanInv, NEW w \in Worker, Free(w), NEW r, r.pc # "idle",
         req' = [req EXCEPT ![w] = r], MeetsAny(w),
         row' = row, planValid' = planValid,
         (planValid => AllComplete(row)) => PlanProgress(r, planValid, row)
  PROVE  PlanInv'
  <1> SUFFICES ASSUME alone'
               PROVE  /\ stirred' = {}
                      /\ \A u, v \in Worker : ~Free(u)' /\ ~Free(v)' => u = v
                      /\ planValid' /\ (\A v \in Worker : Free(v)') => AllComplete(row')
                      /\ \A v \in Worker : ~Free(v)' => PlanProgress(req'[v], planValid', row')
    BY DEF PlanInv
  <1>1. req'[w] = r /\ \A v \in Worker \ {w} : req'[v] = req[v]
    BY DEF TypeOK
  <1>2. alone /\ \A v \in Worker : Free(v)
    BY DEF MeetsAny, Others
  <1>3. stirred = {} /\ (planValid => AllComplete(row))
    BY <1>2 DEF PlanInv
  <1>4. \A v \in Worker : Touches(v) = {}
    BY <1>2, FreeTouchesNothing, TouchesOfRequest
  <1>5. stirred' = {}
    BY <1>3, <1>4 DEF MeetsAny, Others
  <1>6. ~Free(w)' /\ \A v \in Worker \ {w} : Free(v)'
    BY <1>1, <1>2 DEF Free
  <1> QED  BY <1>1, <1>3, <1>5, <1>6

LEMMA LoadPlan ==
  ASSUME TypeOK, MarksInv, PlanInv, NEW w \in Worker, NEW s \in AnswerSet, NEW posted,
         Load(w, s, posted)
  PROVE  PlanInv'
  <1> DEFINE r == [Idle EXCEPT !.pc = "update", !.set = s, !.data = row[s].data,
                     !.valid = row[s].valid, !.okay = okay[s], !.plan = planValid,
                     !.posted = posted]
  <1>1. Free(w) /\ req' = [req EXCEPT ![w] = r] /\ Meet(w, {s}, TRUE) /\ row' = row
        /\ planValid' = planValid
    BY DEF Load, marks
  <1>2. r.pc = "update" /\ r.set = s /\ r.plan = planValid /\ r.pc # "idle"
    BY DEF Idle
  <1> HIDE DEF r
  <1>3. (planValid => AllComplete(row)) => PlanProgress(r, planValid, row)
    BY <1>2 DEF PlanProgress, AllComplete, Marking, Unmarking
  <1>4. MeetsAny(w)
    BY <1>1 DEF Meet, MeetsAny
  <1> QED  BY <1>1, <1>2, <1>3, <1>4, BeginPlanStep

LEMMA BeginPlan ==
  ASSUME TypeOK, MarksInv, PlanInv, NEW w \in Worker, Begin(w)
  PROVE  PlanInv'
  <1>1. CASE ValidatePlan(w)
    <2> DEFINE d == [s \in AnswerSet |-> row[s].data]
               r == IF \A s \in AnswerSet : d[s] = Empty THEN [Idle EXCEPT !.pc = "savePlanValid"]
                    ELSE [Idle EXCEPT !.pc = "checkSet", !.rows = d, !.todo = AnswerSet]
    <2>1. /\ Free(w) /\ req' = [req EXCEPT ![w] = r] /\ Meet(w, AnswerSet, FALSE)
          /\ row' = row /\ planValid' = planValid /\ ~planValid
      BY <1>1 DEF ValidatePlan, marks
    <2>2. r.pc = "checkSet" \/ (r.pc = "savePlanValid" /\ r.plan = FALSE)
      BY DEF Idle
    <2> HIDE DEF r
    <2>3. PlanProgress(r, planValid, row) /\ r.pc # "idle"
      BY <2>1, <2>2 DEF PlanProgress, Editing, Marking, Unmarking
    <2>4. MeetsAny(w)
      BY <2>1 DEF Meet, MeetsAny
    <2> QED  BY <2>1, <2>3, <2>4, BeginPlanStep
  <1>2. CASE ViewPlan(w)
    <2> DEFINE i == [Idle EXCEPT !.pc = "verdict"]
    <2>1. Free(w) /\ req' = [req EXCEPT ![w] = i] /\ Meet(w, {}, FALSE) /\ row' = row
          /\ planValid' = planValid
      BY <1>2 DEF ViewPlan, marks
    <2>2. i.pc = "verdict"
      BY DEF Idle
    <2> HIDE DEF i
    <2>3. (planValid => AllComplete(row)) => PlanProgress(i, planValid, row)
      BY <2>2 DEF PlanProgress, Editing, Marking, Unmarking
    <2>4. MeetsAny(w) /\ i.pc # "idle"
      BY <2>1, <2>2 DEF Meet, MeetsAny
    <2> QED  BY <2>1, <2>3, <2>4, BeginPlanStep
  <1>3. ASSUME NEW s \in AnswerSet, PostQuestion(w, s) \/ PostSection(w, s)
        PROVE  PlanInv'
    BY <1>3, LoadPlan DEF PostQuestion, PostSection
  <1>4. ASSUME NEW s \in AnswerSet, PostInvalid(w, s)
        PROVE  PlanInv'
    <2>1. PICK q \in okay[s] :
            /\ Free(w) /\ Meet(w, {s}, FALSE) /\ row' = row /\ planValid' = planValid
            /\ req' = [req EXCEPT ![w] = [Idle EXCEPT !.pc = "unmarkAnswer", !.set = s, !.q = q]]
      BY <1>4 DEF PostInvalid, marks
    <2> DEFINE r == [Idle EXCEPT !.pc = "unmarkAnswer", !.set = s, !.q = q]
    <2>2. r.pc = "unmarkAnswer" /\ req' = [req EXCEPT ![w] = r]
      BY <2>1 DEF Idle
    <2> HIDE DEF r
    <2>3. (planValid => AllComplete(row)) => PlanProgress(r, planValid, row)
      BY <2>2 DEF PlanProgress, Editing, Marking, Unmarking
    <2>4. MeetsAny(w) /\ r.pc # "idle"
      BY <2>1, <2>2 DEF Meet, MeetsAny
    <2> QED  BY <2>1, <2>2, <2>3, <2>4, BeginPlanStep
  <1> QED  BY <1>1, <1>2, <1>3, <1>4 DEF Begin

-----------------------------------------------------------------------------
LEMMA PlanInit == Init => PlanInv
  <1> SUFFICES ASSUME Init
               PROVE  PlanInv
    OBVIOUS
  <1>1. \A w \in Worker : Free(w)
    BY DEF Init, Free, Idle
  <1> QED  BY <1>1 DEF Init, PlanInv

LEMMA PlanNext == TypeOK /\ MarksInv /\ PlanInv /\ [Next]_vars => PlanInv'
  <1> SUFFICES ASSUME TypeOK, MarksInv, PlanInv, [Next]_vars
               PROVE  PlanInv'
    OBVIOUS
  <1>1. CASE UNCHANGED vars
    <2>1. req' = req /\ row' = row /\ planValid' = planValid /\ stirred' = stirred
          /\ alone' = alone
      BY <1>1 DEF vars
    <2>2. \A v \in Worker : Free(v)' = Free(v)
      BY <2>1 DEF Free
    <2> QED  BY <2>1, <2>2 DEF PlanInv
  <1>2. ASSUME NEW w \in Worker, Edit(w)
        PROVE  PlanInv'
    BY <1>2, UpdateAnswerPlan, SavePlanPlan, MarkAnswerPlan, MarkSetPlan, HideUnreachablePlan,
       ValidateAnswersPlan, StoreValidityPlan, PlanInvalidPlan, LastSavePlan DEF Edit
  <1>3. ASSUME NEW w \in Worker, Kill(w)
        PROVE  PlanInv'
    BY <1>3 DEF Kill, PlanInv
  <1> QED  BY <1>1, <1>2, <1>3, UnmarkPlanPlan, CheckPlanInvNext, BeginPlan DEF Next, Work

\* A plan marked valid has only complete answersets as long as requests follow
\* each other and none is cut off.
THEOREM PlanMarkIsAlwaysEarned == Spec => []PlanMarkIsEarned
  <1>1. PlanInv => PlanMarkIsEarned
    BY DEF PlanInv, PlanMarkIsEarned, AllComplete, Complete
  <1>2. Spec => []MarksInv
    BY MarksInit, MarksNext, TypeCorrect, PTL DEF Spec
  <1>3. Spec => []PlanInv
    BY <1>2, PlanInit, PlanNext, TypeCorrect, PTL DEF Spec
  <1> QED  BY <1>1, <1>3, PTL
=============================================================================
