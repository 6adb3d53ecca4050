-------------------------- MODULE PlanStatusProofs --------------------------
(***************************************************************************)
(* Proofs about PlanStatus, for any number of plans, users and concurrent  *)
(* requests of any kinds.                                                  *)
(***************************************************************************)
EXTENDS PlanStatusClaims, TLAPS

-----------------------------------------------------------------------------
(***************************************************************************)
(* Types                                                                   *)
(***************************************************************************)
TablesOK ==
    /\ used \subseteq Plan
    /\ plan \in [Plan -> Row \union {NoRow}]
    /\ content \in [Plan -> Content \union {NoContent}]
    /\ access \in [Plan -> [User -> Right]]

(* What a request refers to, once it is under way.                         *)
Serving(r) ==
    /\ r.pc \in Writing => r.row # NoRow
    /\ r.pc # "idle" => r.plan \in Plan /\ r.user \in User
    /\ r.pc \in {"promote", "demote"} => r.who \in User
    /\ r.pc = "idle" => r.row = NoRow

RequestsOK ==
    /\ req \in [Worker -> Request_]
    /\ \A w \in Worker : Serving(req[w])

TypeInv == TablesOK /\ RequestsOK

(* A request that goes on: the row it holds may have been marked.          *)
LEMMA GoesOn ==
    ASSUME RequestsOK, NEW w \in Worker, req[w].pc # "idle",
           NEW pc \in PC, pc \notin {"idle", "promote", "demote"},
           pc \in Writing => req[w].pc \in Writing,
           Goto(w, pc)
    PROVE  RequestsOK'
<1>1. req' = [req EXCEPT ![w] = [req[w] EXCEPT !.pc = pc]]
  BY DEF Goto, RequestsOK, Request_
<1>2. [req[w] EXCEPT !.pc = pc] \in Request_
  BY DEF RequestsOK, Request_
<1>3. Serving([req[w] EXCEPT !.pc = pc])
  BY DEF RequestsOK, Request_, Serving
<1> QED
  BY <1>1, <1>2, <1>3 DEF RequestsOK

LEMMA GoesOnMarked ==
    ASSUME RequestsOK, NEW w \in Worker, req[w].row # NoRow, req[w].pc # "idle",
           NEW pc \in PC, pc \notin {"idle", "promote", "demote"}, NEW b \in BOOLEAN,
           req' = [req EXCEPT ![w].pc = pc, ![w].row.valid = b]
    PROVE  RequestsOK'
<1> DEFINE row == [req[w].row EXCEPT !.valid = b]
<1> DEFINE r == [req[w] EXCEPT !.pc = pc, !.row = row]
<1>1. req' = [req EXCEPT ![w] = r]
  BY DEF RequestsOK, Request_, Row
<1>2. row \in Row
  BY DEF RequestsOK, Request_, Row
<1>3. r \in Request_
  BY <1>2 DEF RequestsOK, Request_
<1>4. Serving(r)
  BY <1>2, RowAssumption DEF RequestsOK, Request_, Serving
<1> QED
  BY <1>1, <1>3, <1>4 DEF RequestsOK

LEMMA Ends ==
    ASSUME RequestsOK, NEW w \in Worker, Finish(w)
    PROVE  RequestsOK'
<1>1. Idle \in Request_
  BY DEF Idle, Request_, PC
<1>2. Serving(Idle)
  BY DEF Idle, Serving, Writing
<1> QED
  BY <1>1, <1>2 DEF RequestsOK, Finish

LEMMA Begins ==
    ASSUME RequestsOK, NEW w \in Worker, NEW u \in User, NEW p \in Plan,
           NEW pc \in PC, pc \notin {"idle", "promote", "demote"}, NEW row \in Row,
           req' = [req EXCEPT ![w] = [pc |-> pc, plan |-> p, user |-> u,
                                      who |-> NoUser, row |-> row]]
    PROVE  RequestsOK'
<1> DEFINE r == [pc |-> pc, plan |-> p, user |-> u, who |-> NoUser, row |-> row]
<1>1. r \in Request_
  BY DEF Request_
<1>2. Serving(r)
  BY RowAssumption DEF Serving
<1> QED
  BY <1>1, <1>2 DEF RequestsOK

LEMMA Loads ==
    ASSUME TypeInv, NEW w \in Worker, NEW u \in User, NEW p \in Plan, Live(p),
           NEW pc \in PC, pc \notin {"idle", "promote", "demote"}, Load(w, u, p, pc)
    PROVE  TypeInv'
<1>1. plan[p] \in Row
  BY DEF TypeInv, TablesOK, Live
<1>2. RequestsOK'
  BY <1>1, Begins DEF Load, TypeInv
<1> QED
  BY <1>2 DEF TypeInv, TablesOK, Load

LEMMA NextVersionType ==
    ASSUME NEW row \in Row, NEW p \in Plan, NEW u \in User
    PROVE  /\ NextVersion(row, p, u) \in Row
           /\ NextVersion(row, p, u).version = row.version + 1
           /\ NextVersion(row, p, u).origin = p
           /\ ~NextVersion(row, p, u).published
<1> DEFINE v == row.version + 1
<1>1. v \in Nat \ {0}
  BY DEF Row
<1>2. NextVersion(row, p, u) =
        [row EXCEPT !.version = v, !.origin = p, !.adder = u,
                    !.locked = FALSE, !.published = FALSE]
  BY DEF NextVersion
<1> HIDE DEF v
<1> DEFINE new == [row EXCEPT !.version = v, !.origin = p, !.adder = u,
                              !.locked = FALSE, !.published = FALSE]
<1>3. new \in Row /\ new.version = v /\ new.origin = p /\ ~new.published
  BY <1>1 DEF Row
<1> QED
  BY <1>2, <1>3 DEF v

(* Every row that is written is a row.                                     *)
LEMMA RowTypes ==
    ASSUME TypeInv
    PROVE  /\ \A u \in User : NewRow(u) \in Row
           /\ \A w \in Worker : req[w].pc \in Writing =>
                /\ req[w].pc # "idle" /\ req[w].plan \in Plan /\ req[w].user \in User
                /\ req[w].row \in Row
                /\ [req[w].row EXCEPT !.locked = TRUE] \in Row
                /\ \A c \in Content : PublishedRow(w, c) \in Row
                /\ NextVersion(req[w].row, req[w].plan, req[w].user) \in Row
           /\ \A p \in Plan : Live(p) =>
                /\ [plan[p] EXCEPT !.valid = FALSE] \in Row
                /\ [plan[p] EXCEPT !.origin = NoPlan] \in Row
<1>1. \A u \in User : NewRow(u) \in Row
  BY DEF NewRow, Row
<1>2. ASSUME NEW w \in Worker, req[w].pc \in Writing
      PROVE  /\ req[w].pc # "idle" /\ req[w].plan \in Plan /\ req[w].user \in User
             /\ req[w].row \in Row
             /\ [req[w].row EXCEPT !.locked = TRUE] \in Row
             /\ \A c \in Content : PublishedRow(w, c) \in Row
             /\ NextVersion(req[w].row, req[w].plan, req[w].user) \in Row
  <2>1. req[w].pc # "idle" /\ req[w].plan \in Plan /\ req[w].user \in User
    BY <1>2 DEF TypeInv, RequestsOK, Serving, Writing
  <2>2. req[w].row \in Row
    BY <1>2 DEF TypeInv, RequestsOK, Serving, Request_
  <2>3. [req[w].row EXCEPT !.locked = TRUE] \in Row
    BY <2>2 DEF Row
  <2>4. \A c \in Content : PublishedRow(w, c) \in Row
    BY <2>2 DEF Row, PublishedRow
  <2>5. NextVersion(req[w].row, req[w].plan, req[w].user) \in Row
    BY <2>1, <2>2, NextVersionType
  <2> QED
    BY <2>1, <2>2, <2>3, <2>4, <2>5
<1>3. ASSUME NEW p \in Plan, Live(p)
      PROVE  /\ [plan[p] EXCEPT !.valid = FALSE] \in Row
             /\ [plan[p] EXCEPT !.origin = NoPlan] \in Row
  <2>1. plan[p] \in Row
    BY <1>3 DEF TypeInv, TablesOK, Live
  <2> QED
    BY <2>1 DEF Row
<1> QED
  BY <1>1, <1>2, <1>3

LEMMA MarkTypes ==
    ASSUME TypeInv, NEW p \in Plan, MarkInvalid(p)
    PROVE  plan' \in [Plan -> Row \union {NoRow}]
<1>1. CASE Live(p)
  <2>1. plan' = [plan EXCEPT ![p] = [plan[p] EXCEPT !.valid = FALSE]]
    BY <1>1 DEF MarkInvalid, TypeInv, TablesOK
  <2> QED
    BY <1>1, <2>1, RowTypes DEF TypeInv, TablesOK
<1>2. CASE ~Live(p)
  BY <1>2 DEF MarkInvalid, TypeInv, TablesOK
<1> QED
  BY <1>1, <1>2
(***************************************************************************)
(* What a step may do to the table of plans: nothing, write a row of a     *)
(* plan that a request held, mark a plan invalid, delete it, or add one.   *)
(***************************************************************************)
Unwritten == UNCHANGED <<used, plan>>

(* No save unlocks or hides what the request holds; what it publishes, it  *)
(* locks, and has a document of.                                           *)
Saved(w, row) ==
    /\ req[w].pc \in Writing
    /\ WriteBack(w, row)
    /\ row \in Row
    /\ row.version = req[w].row.version
    /\ row.origin = req[w].row.origin
    /\ req[w].row.locked => row.locked
    /\ req[w].row.published => row.published
    /\ \/ row.locked /\ row.html # NoContent
       \/ row.published = req[w].row.published /\ row.html = req[w].row.html
    /\ UNCHANGED used

Marked(p) == MarkInvalid(p) /\ UNCHANGED used

Orphaned(p, q) == IF Live(q) /\ plan[q].origin = p
                  THEN [plan[q] EXCEPT !.origin = NoPlan] ELSE plan[q]

Deleted(p) ==
    /\ plan' = [q \in Plan |-> IF q = p THEN NoRow ELSE Orphaned(p, q)]
    /\ UNCHANGED used

Created(q, row) ==
    /\ q \notin used
    /\ used' = used \union {q}
    /\ plan' = [plan EXCEPT ![q] = row]
    /\ row \in Row
    /\ ~row.published
    /\ row.origin # NoPlan => \E w \in Worker :
         /\ req[w].row # NoRow
         /\ row.origin = req[w].plan
         /\ row.version = req[w].row.version + 1
         /\ Live(row.origin)

PlanEffect ==
    \/ Unwritten
    \/ \E w \in Worker, row \in Row : Saved(w, row)
    \/ \E p \in Plan : Marked(p)
    \/ \E p \in Plan : Deleted(p)
    \/ \E q \in Plan, row \in Row : Created(q, row)

(* The row a request holds was just read or written, or is the one it held *)
(* before, valid or not.                                                   *)
HeldEffect ==
    \A w \in Worker : req'[w].row # NoRow =>
        \/ req'[w].row = plan'[req'[w].plan]
        \/ /\ req[w].row # NoRow
           /\ req'[w].plan = req[w].plan
           /\ \E b \in BOOLEAN : req'[w].row = [req[w].row EXCEPT !.valid = b]

LEMMA HeldStays ==
    ASSUME TypeInv, NEW w \in Worker, NEW pc, Goto(w, pc) \/ Finish(w) \/ UNCHANGED req
    PROVE  HeldEffect
<1>1. ASSUME NEW v \in Worker, req'[v].row # NoRow
      PROVE  req[v].row # NoRow /\ req'[v].plan = req[v].plan /\ req'[v].row = req[v].row
  BY <1>1 DEF Goto, Finish, Idle, TypeInv, RequestsOK, Request_
<1>2. ASSUME NEW v \in Worker, req[v].row # NoRow
      PROVE  \E b \in BOOLEAN : req[v].row = [req[v].row EXCEPT !.valid = b]
  <2>1. req[v].row \in Row
    BY <1>2 DEF TypeInv, RequestsOK, Request_
  <2>2. req[v].row = [req[v].row EXCEPT !.valid = req[v].row.valid]
    BY <2>1 DEF Row
  <2> QED
    BY <2>1, <2>2 DEF Row
<1> QED
  BY <1>1, <1>2 DEF HeldEffect

LEMMA HeldLoaded ==
    ASSUME TypeInv, NEW w \in Worker, NEW p \in Plan, NEW pc, NEW u,
           req' = [req EXCEPT ![w] = [pc |-> pc, plan |-> p, user |-> u,
                                      who |-> NoUser, row |-> plan'[p]]]
    PROVE  HeldEffect
<1>1. ASSUME NEW v \in Worker, v # w, req'[v].row # NoRow
      PROVE  /\ req[v].row # NoRow /\ req'[v].plan = req[v].plan
             /\ \E b \in BOOLEAN : req'[v].row = [req[v].row EXCEPT !.valid = b]
  <2>1. req'[v] = req[v]
    BY <1>1 DEF TypeInv, RequestsOK
  <2>2. req[v].row \in Row
    BY <1>1, <2>1 DEF TypeInv, RequestsOK, Request_
  <2>3. req[v].row = [req[v].row EXCEPT !.valid = req[v].row.valid]
    BY <2>2 DEF Row
  <2> QED
    BY <1>1, <2>1, <2>2, <2>3 DEF Row
<1>2. req'[w].row = plan'[req'[w].plan]
  BY DEF TypeInv, RequestsOK
<1> QED
  BY <1>1, <1>2 DEF HeldEffect

LEMMA HeldMarked ==
    ASSUME TypeInv, NEW w \in Worker, req[w].row # NoRow, NEW pc, NEW b \in BOOLEAN,
           req' = [req EXCEPT ![w].pc = pc, ![w].row.valid = b]
    PROVE  HeldEffect
<1>1. ASSUME NEW v \in Worker, v # w, req'[v].row # NoRow
      PROVE  /\ req[v].row # NoRow /\ req'[v].plan = req[v].plan
             /\ \E c \in BOOLEAN : req'[v].row = [req[v].row EXCEPT !.valid = c]
  <2>1. req'[v] = req[v]
    BY <1>1 DEF TypeInv, RequestsOK
  <2>2. req[v].row \in Row
    BY <1>1, <2>1 DEF TypeInv, RequestsOK, Request_
  <2>3. req[v].row = [req[v].row EXCEPT !.valid = req[v].row.valid]
    BY <2>2 DEF Row
  <2> QED
    BY <1>1, <2>1, <2>2, <2>3 DEF Row
<1>2. req'[w].plan = req[w].plan /\ req'[w].row = [req[w].row EXCEPT !.valid = b]
  BY DEF TypeInv, RequestsOK, Request_, Row
<1> QED
  BY <1>1, <1>2 DEF HeldEffect

(* A request that saves a row: the plan gets it, the request ends or goes  *)
(* on.                                                                     *)
LEMMA Saves ==
    ASSUME TypeInv, NEW w \in Worker, NEW row \in Row, Saved(w, row)
    PROVE  plan' \in [Plan -> Row \union {NoRow}] /\ PlanEffect
<1>1. req[w].plan \in Plan
  BY RowTypes DEF Saved
<1>2. plan' \in [Plan -> Row \union {NoRow}]
  BY <1>1 DEF Saved, WriteBack, TypeInv, TablesOK
<1> QED
  BY <1>2 DEF PlanEffect

LEMMA Creates ==
    ASSUME TypeInv, NEW q \in Plan, NEW row \in Row, Created(q, row)
    PROVE  plan' \in [Plan -> Row \union {NoRow}] /\ used' \subseteq Plan /\ PlanEffect
BY DEF Created, TypeInv, TablesOK, PlanEffect

(* Every step keeps the types, and does to the plans and to what requests  *)
(* hold of them no more than the effects above.                            *)
StepOK == TypeInv' /\ PlanEffect /\ HeldEffect

LEMMA NewRequestOK ==
    ASSUME TypeInv, NEW w \in Worker, NEW u \in User, NEW p \in Plan, NewRequest(w, u, p)
    PROVE  StepOK
<1>1. CASE StartPlan(w, u, p)
  <2>1. NewRow(u) \in Row
    BY RowTypes
  <2>2. Created(p, NewRow(u))
    BY <1>1, <2>1 DEF StartPlan, Created, NewRow
  <2>3. plan'[p] = NewRow(u)
    BY <1>1 DEF StartPlan, TypeInv, TablesOK
  <2>4. RequestsOK'
    BY <1>1, <2>1, Begins DEF StartPlan, TypeInv, PC
  <2>5. HeldEffect
    BY <1>1, <2>3, HeldLoaded DEF StartPlan
  <2> QED
    BY <1>1, <2>1, <2>2, <2>4, <2>5, Creates DEF StepOK, StartPlan, TypeInv, TablesOK
<1>2. ASSUME NEW pc \in PC \ {"idle", "promote", "demote"}, Live(p), Load(w, u, p, pc)
      PROVE  StepOK
  <2>1. TypeInv'
    BY <1>2, Loads
  <2>2. HeldEffect
    BY <1>2, HeldLoaded DEF Load
  <2> QED
    BY <1>2, <2>1, <2>2 DEF StepOK, PlanEffect, Unwritten, Load
<1>3. ASSUME NEW v \in User, UpdatePlanAccess(w, u, v, p)
      PROVE  StepOK
  <2>1. PICK pc \in {"promote", "demote"} :
          req' = [req EXCEPT ![w] = [pc |-> pc, plan |-> p, user |-> u,
                                     who |-> v, row |-> NoRow]]
    BY <1>3 DEF UpdatePlanAccess
  <2> DEFINE r == [pc |-> pc, plan |-> p, user |-> u, who |-> v, row |-> NoRow]
  <2>2. r \in Request_ /\ Serving(r)
    BY DEF Request_, PC, Serving, Writing
  <2>3. RequestsOK'
    BY <2>1, <2>2 DEF RequestsOK, TypeInv
  <2>4. ASSUME NEW x \in Worker, req'[x].row # NoRow
        PROVE  req'[x] = req[x]
    BY <2>1, <2>4 DEF TypeInv, RequestsOK
  <2>5. HeldEffect
    <3>1. ASSUME NEW x \in Worker, req'[x].row # NoRow
          PROVE  \E b \in BOOLEAN : req'[x].row = [req[x].row EXCEPT !.valid = b]
      <4>1. req[x].row \in Row
        BY <3>1, <2>4 DEF TypeInv, RequestsOK, Request_
      <4>2. req[x].row = [req[x].row EXCEPT !.valid = req[x].row.valid]
        BY <4>1 DEF Row
      <4> QED
        BY <3>1, <4>1, <4>2, <2>4 DEF Row
    <3> QED
      BY <2>4, <3>1 DEF HeldEffect
  <2> QED
    BY <1>3, <2>3, <2>5
       DEF StepOK, PlanEffect, Unwritten, UpdatePlanAccess, TypeInv, TablesOK
<1>4. CASE LockPlan(w, u, p)
  BY <1>4, <1>2 DEF LockPlan, Viewable, PC
<1>5. CASE PublishPlan(w, u, p)
  BY <1>5, <1>2 DEF PublishPlan, Viewable, PC
<1>6. CASE RenamePlan(w, u, p)
  BY <1>6, <1>2 DEF RenamePlan, Viewable, PC
<1>7. CASE DeletePlan(w, u, p)
  BY <1>7, <1>2 DEF DeletePlan, Viewable, PC
<1>8. CASE SaveAsPlan(w, u, p)
  BY <1>8, <1>2 DEF SaveAsPlan, Viewable, PC
<1>9. CASE CreateNewVersionPlan(w, u, p)
  BY <1>9, <1>2 DEF CreateNewVersionPlan, Viewable, PC
<1>10. CASE ValidatePlan(w, u, p)
  BY <1>10, <1>2 DEF ValidatePlan, Viewable, PC
<1>11. CASE AnswerQuestions(w, u, p)
  BY <1>11, <1>2 DEF AnswerQuestions, Editable, PC
<1>12. CASE DeletePlanAccess(w, u, p)
  BY <1>12, <1>2 DEF DeletePlanAccess, PC
<1> QED
  BY <1>1, <1>3, <1>4, <1>5, <1>6, <1>7, <1>8, <1>9, <1>10, <1>11, <1>12 DEF NewRequest

(* A request that ends, or goes on, without touching the table of plans.   *)
LEMMA EndsQuietly ==
    ASSUME TypeInv, NEW w \in Worker, Finish(w), Unwritten,
           content' \in [Plan -> Content \union {NoContent}],
           access' \in [Plan -> [User -> Right]]
    PROVE  StepOK
<1>1. RequestsOK' /\ HeldEffect
  BY Ends, HeldStays DEF TypeInv
<1> QED
  BY <1>1 DEF StepOK, TypeInv, TablesOK, PlanEffect, Unwritten

LEMMA GoesOnQuietly ==
    ASSUME TypeInv, NEW w \in Worker, req[w].pc # "idle", NEW pc \in PC,
           pc \notin {"idle", "promote", "demote"},
           pc \in Writing => req[w].pc \in Writing,
           Goto(w, pc), Unwritten,
           content' \in [Plan -> Content \union {NoContent}],
           access' \in [Plan -> [User -> Right]]
    PROVE  StepOK
<1>1. RequestsOK' /\ HeldEffect
  BY GoesOn, HeldStays DEF TypeInv
<1> QED
  BY <1>1 DEF StepOK, TypeInv, TablesOK, PlanEffect, Unwritten

LEMMA EndsSaving ==
    ASSUME TypeInv, NEW w \in Worker, NEW row \in Row, Finish(w), Saved(w, row),
           content' \in [Plan -> Content \union {NoContent}], UNCHANGED access
    PROVE  StepOK
<1>1. RequestsOK' /\ HeldEffect
  BY Ends, HeldStays DEF TypeInv
<1>2. plan' \in [Plan -> Row \union {NoRow}] /\ PlanEffect
  BY Saves
<1> QED
  BY <1>1, <1>2 DEF StepOK, TypeInv, TablesOK, Saved

LEMMA EndsCreating ==
    ASSUME TypeInv, NEW w \in Worker, NEW q \in Plan, NEW row \in Row,
           Finish(w), Created(q, row),
           content' \in [Plan -> Content \union {NoContent}],
           access' \in [Plan -> [User -> Right]]
    PROVE  StepOK
<1>1. RequestsOK' /\ HeldEffect
  BY Ends, HeldStays DEF TypeInv
<1>2. plan' \in [Plan -> Row \union {NoRow}] /\ used' \subseteq Plan /\ PlanEffect
  BY Creates
<1> QED
  BY <1>1, <1>2 DEF StepOK, TypeInv, TablesOK

(* What a row that is only written back, or locked, keeps.                 *)
LEMMA WritesBack ==
    ASSUME TypeInv, NEW w \in Worker, req[w].pc \in Writing, UNCHANGED used
    PROVE  /\ WriteBack(w, req[w].row) => Saved(w, req[w].row)
           /\ LET row == [req[w].row EXCEPT !.locked = TRUE]
              IN  WriteBack(w, row) => Saved(w, row)
           /\ \A c \in Content :
                WriteBack(w, PublishedRow(w, c)) => Saved(w, PublishedRow(w, c))
<1>1. req[w].row \in Row
  BY RowTypes
<1>2. WriteBack(w, req[w].row) => Saved(w, req[w].row)
  BY <1>1 DEF Saved
<1> DEFINE row == [req[w].row EXCEPT !.locked = TRUE]
<1>3. row \in Row /\ row.version = req[w].row.version /\ row.origin = req[w].row.origin
      /\ row.locked /\ row.published = req[w].row.published /\ row.html = req[w].row.html
  BY <1>1 DEF Row
<1>4. WriteBack(w, row) => Saved(w, row)
  <2> HIDE DEF row
  <2> QED BY <1>3 DEF Saved
<1>5. ASSUME NEW c \in Content
      PROVE  WriteBack(w, PublishedRow(w, c)) => Saved(w, PublishedRow(w, c))
  <2>1. PublishedRow(w, c) \in Row
    BY RowTypes
  <2>2. /\ PublishedRow(w, c).version = req[w].row.version
        /\ PublishedRow(w, c).origin = req[w].row.origin
        /\ PublishedRow(w, c).locked
        /\ PublishedRow(w, c).published
        /\ PublishedRow(w, c).html = c
    BY <1>1 DEF Row, PublishedRow
  <2>3. c # NoContent
    BY ContentAssumption
  <2> QED
    BY <2>1, <2>2, <2>3 DEF Saved
<1> QED
  BY <1>2, <1>4, <1>5

LEMMA AtWork ==
    ASSUME TypeInv, NEW w \in Worker, req[w].pc # "idle"
    PROVE  req[w].plan \in Plan /\ req[w].user \in User
BY DEF TypeInv, RequestsOK, Serving

(* The answersets of a plan, or its accesses, are replaced.                *)
LEMMA ContentType ==
    ASSUME TypeInv, NEW p \in Plan, NEW c \in Content \union {NoContent},
           content' = [content EXCEPT ![p] = c]
    PROVE  content' \in [Plan -> Content \union {NoContent}]
BY DEF TypeInv, TablesOK

LEMMA AccessType ==
    ASSUME TypeInv, NEW p \in Plan, NEW u \in User, NEW right \in Right,
           access' = [access EXCEPT ![p][u] = right]
    PROVE  access' \in [Plan -> [User -> Right]]
BY DEF TypeInv, TablesOK

LEMMA TablesTyped ==
    ASSUME TypeInv
    PROVE  /\ content \in [Plan -> Content \union {NoContent}]
           /\ access \in [Plan -> [User -> Right]]
BY DEF TypeInv, TablesOK

LEMMA CopyTypes ==
    ASSUME NEW c \in Content \union {NoContent}
    PROVE  CopyOf(c) \subseteq Content \union {NoContent}
BY DEF CopyOf

(* The steps of a request that write the row of its plan.                  *)
LEMMA SavingOK ==
    ASSUME TypeInv, NEW w \in Worker,
           Lock(w) \/ Publish(w) \/ Rename(w) \/ SaveLast(w) \/ SavePlan(w)
    PROVE  StepOK
<1>1. CASE Lock(w)
  <2>1. Saved(w, [req[w].row EXCEPT !.locked = TRUE])
    BY <1>1, WritesBack DEF Lock, Writing
  <2> QED
    BY <1>1, <2>1, EndsSaving, TablesTyped DEF Lock, Saved
<1>2. CASE Publish(w)
  <2>1. req[w].pc \in Writing /\ req[w].pc # "idle"
    BY <1>2 DEF Publish, Writing
  <2>2. PICK c \in Content :
          content' = [content EXCEPT ![req[w].plan] = c] /\ WriteBack(w, PublishedRow(w, c))
    BY <1>2, ContentAssumption DEF Publish
  <2>3. Saved(w, PublishedRow(w, c))
    BY <1>2, <2>1, <2>2, WritesBack DEF Publish
  <2>4. content' \in [Plan -> Content \union {NoContent}]
    BY <2>1, <2>2, AtWork, ContentType
  <2> QED
    BY <1>2, <2>3, <2>4, EndsSaving DEF Publish, Saved
<1>3. CASE Rename(w)
  <2>1. Saved(w, req[w].row)
    BY <1>3, WritesBack DEF Rename, Writing
  <2> QED
    BY <1>3, <2>1, EndsSaving, TablesTyped DEF Rename, Saved
<1>4. CASE SaveLast(w)
  <2>1. Saved(w, req[w].row)
    BY <1>4, WritesBack DEF SaveLast, Writing
  <2> QED
    BY <1>4, <2>1, EndsSaving, TablesTyped DEF SaveLast, Saved
<1>5. CASE SavePlan(w)
  <2>1. req[w].pc \in Writing /\ req[w].pc # "idle"
    BY <1>5 DEF SavePlan, Writing
  <2>2. Saved(w, req[w].row)
    BY <1>5, <2>1, WritesBack DEF SavePlan
  <2>3. plan' \in [Plan -> Row \union {NoRow}] /\ PlanEffect
    BY <2>2, Saves DEF Saved
  <2>4. RequestsOK' /\ HeldEffect
    BY <1>5, <2>1, GoesOn, HeldStays DEF SavePlan, TypeInv, PC
  <2> QED
    BY <1>5, <2>3, <2>4 DEF StepOK, TypeInv, TablesOK, SavePlan
<1> QED
  BY <1>1, <1>2, <1>3, <1>4, <1>5

(* The steps of a request that add a plan or delete one.                   *)
LEMMA CopyingOK ==
    ASSUME TypeInv, NEW w \in Worker,
           Delete(w) \/ \E q \in Plan : SaveAs(w, q) \/ CreateNewVersion(w, q)
    PROVE  StepOK
<1>1. CASE Delete(w)
  <2> DEFINE p == req[w].plan
  <2>1. p \in Plan
    BY <1>1, AtWork DEF Delete
  <2>2. Deleted(p)
    BY <1>1 DEF Delete, Deleted, Orphaned
  <2>3. \A q \in Plan : Orphaned(p, q) \in Row \union {NoRow}
    BY RowTypes DEF Orphaned, TypeInv, TablesOK
  <2>4. plan' \in [Plan -> Row \union {NoRow}]
    BY <2>2, <2>3 DEF Deleted
  <2>5. content' \in [Plan -> Content \union {NoContent}]
    BY <1>1, <2>1, ContentType DEF Delete
  <2>6. access' \in [Plan -> [User -> Right]]
    BY <1>1, <2>1 DEF Delete, TypeInv, TablesOK, NoAccess, Right
  <2>7. RequestsOK' /\ HeldEffect
    BY <1>1, Ends, HeldStays DEF Delete, TypeInv
  <2>8. PlanEffect
    BY <2>1, <2>2 DEF PlanEffect
  <2> QED
    BY <1>1, <2>4, <2>5, <2>6, <2>7, <2>8 DEF StepOK, TypeInv, TablesOK, Delete
<1>2. ASSUME NEW q \in Plan, SaveAs(w, q)
      PROVE  StepOK
  <2> DEFINE p == req[w].plan
  <2>1. p \in Plan /\ req[w].user \in User
    BY <1>2, AtWork DEF SaveAs
  <2>2. NewRow(req[w].user) \in Row
    BY <2>1, RowTypes
  <2>3. Created(q, NewRow(req[w].user))
    BY <1>2, <2>2 DEF SaveAs, Created, NewRow
  <2>4. PICK c \in CopyOf(content[p]) : content' = [content EXCEPT ![q] = c]
    BY <1>2 DEF SaveAs
  <2>5. c \in Content \union {NoContent}
    BY <2>1, CopyTypes, TablesTyped
  <2>6. content' \in [Plan -> Content \union {NoContent}]
    BY <2>4, <2>5, ContentType
  <2>7. access' \in [Plan -> [User -> Right]]
    BY <1>2 DEF SaveAs, TypeInv, TablesOK, Right
  <2> QED
    BY <1>2, <2>2, <2>3, <2>6, <2>7, EndsCreating DEF SaveAs
<1>3. ASSUME NEW q \in Plan, CreateNewVersion(w, q)
      PROVE  StepOK
  <2> DEFINE p == req[w].plan
  <2> DEFINE new == NextVersion(req[w].row, p, req[w].user)
  <2>1. req[w].pc \in Writing
    BY <1>3 DEF CreateNewVersion, Writing
  <2>2. p \in Plan /\ req[w].user \in User /\ req[w].row \in Row
    BY <2>1, RowTypes
  <2>3. /\ new \in Row /\ ~new.published /\ new.origin = p
        /\ new.version = req[w].row.version + 1
    BY <2>2, NextVersionType
  <2>4. Live(p)
    BY <1>3, <2>2, <2>3, NullAssumption DEF CreateNewVersion, OriginLives
  <2> HIDE DEF new
  <2>5. Created(q, new)
    <3>1. q \notin used /\ used' = used \union {q} /\ plan' = [plan EXCEPT ![q] = new]
      BY <1>3 DEF CreateNewVersion, new
    <3> QED
      BY <2>2, <2>3, <2>4, <3>1, RowAssumption DEF Created
  <2>6. PICK c \in CopyOf(content[p]) : content' = [content EXCEPT ![q] = c]
    BY <1>3 DEF CreateNewVersion
  <2>7. c \in Content \union {NoContent}
    BY <2>2, CopyTypes, TablesTyped
  <2>8. content' \in [Plan -> Content \union {NoContent}]
    BY <2>6, <2>7, ContentType
  <2>9. access' \in [Plan -> [User -> Right]]
    BY <1>3, <2>2 DEF CreateNewVersion, TypeInv, TablesOK, Right
  <2> QED
    BY <1>3, <2>3, <2>5, <2>8, <2>9, EndsCreating DEF CreateNewVersion
<1> QED
  BY <1>1, <1>2, <1>3

(* The steps of a request that change answersets or mark the plan.         *)
LEMMA AnsweringOK ==
    ASSUME TypeInv, NEW w \in Worker,
           \/ ValidateData(w) \/ UpdateAnswer(w) \/ Check(w) \/ RefuseAnswer(w)
           \/ Mark(w) \/ AddMissingAnswersets(w)
    PROVE  StepOK
<1> DEFINE p == req[w].plan
<1>1. CASE ValidateData(w)
  <2>1. req[w].pc \in Writing
    BY <1>1 DEF ValidateData, Writing
  <2>2. req[w].pc # "idle" /\ p \in Plan /\ req[w].row # NoRow
    BY <2>1, RowTypes, RowAssumption
  <2>3. PICK c \in Content \union {NoContent} :
          /\ content' = [content EXCEPT ![p] = c]
          /\ req' = [req EXCEPT ![w].pc = "validated", ![w].row.valid = c \in Complete]
          /\ IF c \in Content \ Complete THEN MarkInvalid(p) ELSE UNCHANGED plan
    BY <1>1 DEF ValidateData
  <2> DEFINE b == c \in Complete
  <2>4. b \in BOOLEAN
    OBVIOUS
  <2>5. req' = [req EXCEPT ![w].pc = "validated", ![w].row.valid = b]
    BY <2>3
  <2> HIDE DEF b
  <2>6. RequestsOK'
    BY <2>2, <2>4, <2>5, GoesOnMarked DEF PC, TypeInv
  <2>7. HeldEffect
    BY <2>2, <2>4, <2>5, HeldMarked
  <2>8. content' \in [Plan -> Content \union {NoContent}]
    BY <2>2, <2>3, ContentType
  <2>9. plan' \in [Plan -> Row \union {NoRow}] /\ PlanEffect
    <3>1. CASE MarkInvalid(p)
      BY <1>1, <2>2, <3>1, MarkTypes DEF PlanEffect, Marked, ValidateData
    <3>2. CASE UNCHANGED plan
      BY <1>1, <3>2 DEF PlanEffect, Unwritten, ValidateData, TypeInv, TablesOK
    <3> QED
      BY <2>3, <3>1, <3>2
  <2> QED
    BY <1>1, <2>6, <2>7, <2>8, <2>9 DEF StepOK, TypeInv, TablesOK, ValidateData
<1>2. CASE UpdateAnswer(w)
  <2>1. req[w].pc \in Writing /\ req[w].pc # "idle"
    BY <1>2 DEF UpdateAnswer, Writing
  <2>2. PICK c \in Content : content' = [content EXCEPT ![p] = c]
    BY <1>2 DEF UpdateAnswer
  <2>3. content' \in [Plan -> Content \union {NoContent}]
    BY <2>1, <2>2, AtWork, ContentType
  <2> QED
    BY <1>2, <2>1, <2>3, GoesOnQuietly, TablesTyped DEF UpdateAnswer, Unwritten, PC
<1>3. CASE Check(w)
  <2>1. req[w].pc \in Writing /\ req[w].pc # "idle"
    BY <1>3 DEF Check, Writing
  <2>2. PICK c \in Content :
          /\ content' = [content EXCEPT ![p] = c]
          /\ \E pc \in {"final", "mark"} : Goto(w, pc)
    BY <1>3 DEF Check
  <2>3. content' \in [Plan -> Content \union {NoContent}]
    BY <2>1, <2>2, AtWork, ContentType
  <2>4. PICK pc \in {"final", "mark"} : Goto(w, pc)
    BY <2>2
  <2>5. pc \in PC /\ pc \notin {"idle", "promote", "demote"}
    BY DEF PC
  <2>6. Unwritten /\ access' \in [Plan -> [User -> Right]]
    BY <1>3, TablesTyped DEF Check, Unwritten
  <2> QED
    BY <2>1, <2>3, <2>4, <2>5, <2>6, GoesOnQuietly
<1>4. CASE RefuseAnswer(w)
  <2>1. req[w].pc \in Writing /\ req[w].pc # "idle"
    BY <1>4 DEF RefuseAnswer, Writing
  <2>2. PICK c \in Content : content' = [content EXCEPT ![p] = c]
    BY <1>4 DEF RefuseAnswer
  <2>3. content' \in [Plan -> Content \union {NoContent}]
    BY <2>1, <2>2, AtWork, ContentType
  <2> QED
    BY <1>4, <2>1, <2>3, GoesOnQuietly, TablesTyped
       DEF RefuseAnswer, Unwritten, PC, Writing
<1>5. CASE Mark(w)
  <2>1. req[w].pc # "idle" /\ p \in Plan
    BY <1>5, AtWork DEF Mark
  <2>2. plan' \in [Plan -> Row \union {NoRow}] /\ PlanEffect
    BY <1>5, <2>1, MarkTypes DEF Mark, PlanEffect, Marked
  <2>3. RequestsOK' /\ HeldEffect
    <3>1. CASE req[w].pc = "invalid"
      BY <1>5, <3>1, Ends, HeldStays DEF Mark, TypeInv
    <3>2. CASE req[w].pc = "mark"
      <4>1. req[w].row # NoRow
        BY <3>2 DEF TypeInv, RequestsOK, Serving, Writing
      <4>2. req' = [req EXCEPT ![w].pc = "final", ![w].row.valid = FALSE]
        BY <1>5, <3>2 DEF Mark
      <4> QED
        BY <2>1, <4>1, <4>2, GoesOnMarked, HeldMarked DEF PC, TypeInv
    <3> QED
      BY <1>5, <3>1, <3>2 DEF Mark
  <2> QED
    BY <1>5, <2>2, <2>3 DEF StepOK, TypeInv, TablesOK, Mark
<1>6. CASE AddMissingAnswersets(w)
  <2>1. req[w].pc # "idle" /\ p \in Plan
    BY <1>6, AtWork DEF AddMissingAnswersets
  <2>2. content' \in [Plan -> Content \union {NoContent}]
    BY <1>6, ContentAssumption DEF AddMissingAnswersets, TypeInv, TablesOK
  <2> QED
    BY <1>6, <2>1, <2>2, GoesOnQuietly, TablesTyped
       DEF AddMissingAnswersets, Unwritten, PC, Writing
<1> QED
  BY <1>1, <1>2, <1>3, <1>4, <1>5, <1>6

(* The steps that change accesses, or end a request.                       *)
LEMMA AccessOK ==
    ASSUME TypeInv, NEW w \in Worker,
           SetAdderAsEditor(w) \/ SaveAccess(w) \/ Leave(w) \/ Abort(w)
    PROVE  StepOK
<1> DEFINE p == req[w].plan
<1>1. CASE SetAdderAsEditor(w)
  <2>1. p \in Plan /\ req[w].user \in User
    BY <1>1, AtWork DEF SetAdderAsEditor
  <2>2. access' \in [Plan -> [User -> Right]]
    BY <1>1, <2>1, AccessType DEF SetAdderAsEditor, Right
  <2> QED
    BY <1>1, <2>2, EndsQuietly, TablesTyped DEF SetAdderAsEditor, Unwritten
<1>2. CASE SaveAccess(w)
  <2>1. p \in Plan /\ req[w].who \in User
    BY <1>2, AtWork DEF SaveAccess, TypeInv, RequestsOK, Serving
  <2> DEFINE right == IF req[w].pc = "promote" THEN "edit" ELSE "view"
  <2>2. right \in Right
    BY DEF Right
  <2>3. access' = [access EXCEPT ![p][req[w].who] = right]
    BY <1>2 DEF SaveAccess
  <2> HIDE DEF right
  <2>4. access' \in [Plan -> [User -> Right]]
    BY <2>1, <2>2, <2>3, AccessType
  <2> QED
    BY <1>2, <2>4, EndsQuietly, TablesTyped DEF SaveAccess, Unwritten
<1>3. CASE Leave(w)
  <2>1. p \in Plan /\ req[w].user \in User
    BY <1>3, AtWork DEF Leave
  <2>2. access' \in [Plan -> [User -> Right]]
    BY <1>3, <2>1, AccessType DEF Leave, Right
  <2> QED
    BY <1>3, <2>2, EndsQuietly, TablesTyped DEF Leave, Unwritten
<1>4. CASE Abort(w)
  BY <1>4, EndsQuietly, TablesTyped DEF Abort, Unwritten
<1> QED
  BY <1>1, <1>2, <1>3, <1>4

LEMMA NextOK ==
    ASSUME TypeInv, [Next]_vars
    PROVE  StepOK
<1>1. ASSUME NEW w \in Worker, Request(w)
      PROVE  StepOK
  BY <1>1, SavingOK, CopyingOK, AnsweringOK, AccessOK DEF Request
<1>2. ASSUME NEW w \in Worker, NEW u \in User, NEW p \in Plan, NewRequest(w, u, p)
      PROVE  StepOK
  BY <1>2, NewRequestOK
<1>3. ASSUME UNCHANGED <<used, plan, access, req>>,
             content' \in [Plan -> Content \union {NoContent}]
      PROVE  StepOK
  <2>1. HeldEffect
    <3>1. ASSUME NEW x \in Worker, req[x].row # NoRow
          PROVE  \E b \in BOOLEAN : req[x].row = [req[x].row EXCEPT !.valid = b]
      <4>1. req[x].row \in Row
        BY <3>1 DEF TypeInv, RequestsOK, Request_
      <4>2. req[x].row = [req[x].row EXCEPT !.valid = req[x].row.valid]
        BY <4>1 DEF Row
      <4> QED
        BY <4>1, <4>2 DEF Row
    <3> QED
      BY <1>3, <3>1 DEF HeldEffect
  <2> QED
    BY <1>3, <2>1 DEF StepOK, TypeInv, TablesOK, RequestsOK, PlanEffect, Unwritten
<1>4. ASSUME NEW u \in User, NEW p \in Plan, Display(u, p) \/ ChangeAnswersets(u, p)
      PROVE  StepOK
  <2>1. PICK c \in Content : content' = [content EXCEPT ![p] = c]
    BY <1>4, ContentAssumption DEF Display, ChangeAnswersets
  <2>2. content' \in [Plan -> Content \union {NoContent}]
    BY <2>1, ContentType
  <2> QED
    BY <1>3, <1>4, <2>2 DEF Display, ChangeAnswersets
<1>5. CASE UNCHANGED vars
  BY <1>3, <1>5, TablesTyped DEF vars
<1> QED
  BY <1>1, <1>2, <1>4, <1>5 DEF Next

LEMMA InitOK ==
    ASSUME Init
    PROVE  TypeInv
<1>1. NoAccess \in [User -> Right]
  BY DEF NoAccess, Right
<1>2. Idle \in Request_ /\ Serving(Idle)
  BY DEF Idle, Request_, PC, Serving, Writing
<1> QED
  BY <1>1, <1>2 DEF Init, TypeInv, TablesOK, RequestsOK

(* The inductive invariant of the types.                                   *)
THEOREM TypesKept == Spec => []TypeInv
<1>1. TypeInv /\ [Next]_vars => TypeInv'
  BY NextOK DEF StepOK
<1> QED
  BY <1>1, InitOK, PTL DEF Spec

(* The types of the tables and of the requests; and whatever the requests  *)
(* do to each other, one that is to write a row back holds one.            *)
THEOREM TypeCorrect == Spec => []TypeOK
<1>1. TypeInv => TypeOK
  BY DEF TypeInv, TypeOK, TablesOK, RequestsOK, Serving
<1> QED
  BY <1>1, TypesKept, PTL

-----------------------------------------------------------------------------
(***************************************************************************)
(* The table of plans after a step, row by row                             *)
(***************************************************************************)
(* Every row is one that was there, but for being marked or orphaned; one  *)
(* that was saved; or a new one.                                           *)
RowEffect(p) ==
    LET row == plan'[p]
    IN  \/ Live(p) /\ row = plan[p]
        \/ Live(p) /\ row = [plan[p] EXCEPT !.valid = FALSE]
        \/ Live(p) /\ row = [plan[p] EXCEPT !.origin = NoPlan]
        \/ \E w \in Worker : Saved(w, row) /\ req[w].plan = p
        \/ Created(p, row)

LEMMA RowEffects ==
    ASSUME TypeInv, StepOK, NEW p \in Plan, Live(p)'
    PROVE  RowEffect(p)
<1>1. CASE Unwritten
  BY <1>1 DEF Unwritten, RowEffect, Live
<1>2. ASSUME NEW w \in Worker, NEW row \in Row, Saved(w, row)
      PROVE  RowEffect(p)
  <2>1. req[w].plan \in Plan
    BY <1>2, RowTypes DEF Saved
  <2>2. plan'[p] = IF p = req[w].plan THEN row ELSE plan[p]
    BY <1>2, <2>1 DEF Saved, WriteBack, TypeInv, TablesOK
  <2>3. CASE p = req[w].plan
    BY <1>2, <2>2, <2>3 DEF RowEffect
  <2>4. CASE p # req[w].plan
    BY <2>2, <2>4 DEF RowEffect, Live
  <2> QED
    BY <2>3, <2>4
<1>3. ASSUME NEW q \in Plan, Marked(q)
      PROVE  RowEffect(p)
  <2>1. \/ plan'[p] = plan[p]
        \/ Live(p) /\ plan'[p] = [plan[p] EXCEPT !.valid = FALSE]
    <3>1. CASE Live(q)
      <4>1. plan' = [plan EXCEPT ![q] = [plan[q] EXCEPT !.valid = FALSE]]
        BY <1>3, <3>1 DEF Marked, MarkInvalid, TypeInv, TablesOK
      <4> QED
        BY <3>1, <4>1 DEF TypeInv, TablesOK
    <3>2. CASE ~Live(q)
      BY <1>3, <3>2 DEF Marked, MarkInvalid
    <3> QED
      BY <3>1, <3>2
  <2> QED
    BY <2>1 DEF RowEffect, Live
<1>4. ASSUME NEW q \in Plan, Deleted(q)
      PROVE  RowEffect(p)
  <2>1. p # q /\ plan'[p] = Orphaned(q, p)
    BY <1>4 DEF Deleted, Live
  <2>2. \/ plan'[p] = plan[p]
        \/ Live(p) /\ plan'[p] = [plan[p] EXCEPT !.origin = NoPlan]
    BY <2>1 DEF Orphaned
  <2> QED
    BY <2>2 DEF RowEffect, Live
<1>5. ASSUME NEW q \in Plan, NEW row \in Row, Created(q, row)
      PROVE  RowEffect(p)
  <2>1. plan'[p] = IF p = q THEN row ELSE plan[p]
    BY <1>5 DEF Created, TypeInv, TablesOK
  <2>2. CASE p = q
    BY <1>5, <2>1, <2>2 DEF RowEffect
  <2>3. CASE p # q
    BY <2>1, <2>3 DEF RowEffect, Live
  <2> QED
    BY <2>2, <2>3
<1> QED
  BY <1>1, <1>2, <1>3, <1>4, <1>5 DEF StepOK, PlanEffect

-----------------------------------------------------------------------------
(***************************************************************************)
(* Published plans are locked.  A late save writes what a request read, so *)
(* the invariant says of the rows held what it says of the table.          *)
(***************************************************************************)
Presentable(row) == row.published => row.locked /\ row.html # NoContent

LockInv ==
    /\ \A p \in Plan : Live(p) => Presentable(plan[p])
    /\ \A w \in Worker : req[w].row # NoRow => Presentable(req[w].row)

LEMMA LockKept ==
    ASSUME TypeInv, StepOK, LockInv
    PROVE  LockInv'
<1>1. ASSUME NEW p \in Plan, Live(p)'
      PROVE  Presentable(plan'[p])
  <2>1. RowEffect(p)
    BY <1>1, RowEffects
  <2>2. CASE Live(p) /\ plan'[p] = plan[p]
    BY <2>2 DEF LockInv
  <2>3. CASE Live(p) /\ plan'[p] = [plan[p] EXCEPT !.valid = FALSE]
    BY <2>3 DEF LockInv, Presentable, TypeInv, TablesOK, Live, Row
  <2>4. CASE Live(p) /\ plan'[p] = [plan[p] EXCEPT !.origin = NoPlan]
    BY <2>4 DEF LockInv, Presentable, TypeInv, TablesOK, Live, Row
  <2>5. ASSUME NEW w \in Worker, Saved(w, plan'[p])
        PROVE  Presentable(plan'[p])
    <3>1. req[w].row # NoRow
      BY <2>5, RowTypes, RowAssumption DEF Saved
    <3> QED
      BY <2>5, <3>1 DEF LockInv, Presentable, Saved
  <2>6. CASE Created(p, plan'[p])
    BY <2>6 DEF Created, Presentable
  <2> QED
    BY <2>1, <2>2, <2>3, <2>4, <2>5, <2>6 DEF RowEffect
<1>2. ASSUME NEW w \in Worker, req'[w].row # NoRow
      PROVE  Presentable(req'[w].row)
  <2>1. CASE req'[w].row = plan'[req'[w].plan]
    <3>1. req'[w].plan \in Plan
      BY <1>2 DEF StepOK, TypeInv, RequestsOK, Serving
    <3> QED
      BY <1>1, <1>2, <2>1, <3>1 DEF Live
  <2>2. ASSUME req[w].row # NoRow, NEW b \in BOOLEAN,
               req'[w].row = [req[w].row EXCEPT !.valid = b]
        PROVE  Presentable(req'[w].row)
    BY <2>2 DEF LockInv, Presentable, TypeInv, RequestsOK, Request_, Row
  <2> QED
    BY <1>2, <2>1, <2>2 DEF StepOK, HeldEffect
<1> QED
  BY <1>1, <1>2 DEF LockInv, Live

(* However the saves of concurrent requests overtake each other, a plan    *)
(* that is published is locked and has its document.                       *)
THEOREM PublishedStaysLocked == Spec => []PublishedIsLocked
<1>1. Init => LockInv
  BY DEF Init, LockInv, Live, Idle
<1>2. TypeInv /\ LockInv /\ [Next]_vars => LockInv'
  BY NextOK, LockKept
<1>3. LockInv => PublishedIsLocked
  BY DEF LockInv, PublishedIsLocked, Presentable
<1> QED
  BY <1>1, <1>2, <1>3, TypesKept, PTL DEF Spec

-----------------------------------------------------------------------------
(***************************************************************************)
(* Versions.  There is one number for each key ever used: the rows in the  *)
(* table and the rows held of one plan have the same number, and every row *)
(* with an origin has the number after its origin's.                       *)
(***************************************************************************)
Fits(U, number, p, row) ==
    /\ p \in U
    /\ row.version = number[p]
    /\ row.origin # NoPlan =>
         /\ row.origin \in U
         /\ row.origin # p
         /\ row.version = number[row.origin] + 1

AllFit(number) ==
    /\ \A p \in Plan : Live(p) => Fits(used, number, p, plan[p])
    /\ \A w \in Worker : req[w].row # NoRow => Fits(used, number, req[w].plan, req[w].row)

OriginsLive == \A p \in Plan : Live(p) => OriginLives(plan[p])

VersionInv ==
    /\ \E number \in [Plan -> Nat] : AllFit(number)
    /\ OriginsLive

(* A key that is used for the first time changes no other number.          *)
LEMMA StillFits ==
    ASSUME NEW number \in [Plan -> Nat], NEW q \in Plan, q \notin used, NEW n \in Nat,
           NEW p \in Plan, NEW row, row.origin \in Plan \union {NoPlan},
           Fits(used, number, p, row)
    PROVE  Fits(used \union {q}, [number EXCEPT ![q] = n], p, row)
BY DEF Fits

(* The rows held fit, if the rows of the table do.                         *)
LEMMA HeldFit ==
    ASSUME TypeInv, StepOK, NEW number,
           \A p \in Plan : Live(p)' => Fits(used', number, p, plan'[p]),
           \A w \in Worker : req[w].row # NoRow =>
                Fits(used', number, req[w].plan, req[w].row)
    PROVE  AllFit(number)'
<1>1. ASSUME NEW w \in Worker, req'[w].row # NoRow
      PROVE  Fits(used', number, req'[w].plan, req'[w].row)
  <2>1. CASE req'[w].row = plan'[req'[w].plan]
    <3>1. req'[w].plan \in Plan
      BY <1>1 DEF StepOK, TypeInv, RequestsOK, Serving
    <3> QED
      BY <1>1, <2>1, <3>1 DEF Live
  <2>2. ASSUME req[w].row # NoRow, req'[w].plan = req[w].plan, NEW b \in BOOLEAN,
               req'[w].row = [req[w].row EXCEPT !.valid = b]
        PROVE  Fits(used', number, req'[w].plan, req'[w].row)
    <3>1. req'[w].row.version = req[w].row.version /\ req'[w].row.origin = req[w].row.origin
      BY <2>2 DEF TypeInv, RequestsOK, Request_, Row
    <3> QED
      BY <2>2, <3>1 DEF Fits
  <2> QED
    BY <1>1, <2>1, <2>2 DEF StepOK, HeldEffect
<1> QED
  BY <1>1 DEF AllFit, Live

LEMMA VersionsKept ==
    ASSUME TypeInv, StepOK, VersionInv
    PROVE  \E number \in [Plan -> Nat] : AllFit(number)'
<1>1. PICK number \in [Plan -> Nat] : AllFit(number)
  BY DEF VersionInv
<1>2. CASE UNCHANGED used
  <2>1. ASSUME NEW p \in Plan, Live(p)'
        PROVE  Fits(used, number, p, plan'[p])
    <3>1. RowEffect(p)
      BY <2>1, RowEffects
    <3>2. CASE Live(p) /\ plan'[p] = plan[p]
      BY <1>1, <3>2 DEF AllFit
    <3>3. CASE Live(p) /\ plan'[p] = [plan[p] EXCEPT !.valid = FALSE]
      BY <1>1, <3>3 DEF AllFit, Fits, TypeInv, TablesOK, Live, Row
    <3>4. CASE Live(p) /\ plan'[p] = [plan[p] EXCEPT !.origin = NoPlan]
      BY <1>1, <3>4 DEF AllFit, Fits, TypeInv, TablesOK, Live, Row
    <3>5. ASSUME NEW w \in Worker, Saved(w, plan'[p]), req[w].plan = p
          PROVE  Fits(used, number, p, plan'[p])
      <4>1. req[w].row # NoRow
        BY <3>5, RowTypes, RowAssumption DEF Saved
      <4> QED
        BY <1>1, <3>5, <4>1 DEF AllFit, Fits, Saved
    <3>6. CASE Created(p, plan'[p])
      BY <1>2, <3>6 DEF Created
    <3> QED
      BY <3>1, <3>2, <3>3, <3>4, <3>5, <3>6 DEF RowEffect
  <2> QED
    BY <1>1, <1>2, <2>1, HeldFit DEF AllFit
<1>3. ASSUME NEW q \in Plan, NEW row \in Row, Created(q, row)
      PROVE  \E next \in [Plan -> Nat] : AllFit(next)'
  <2> DEFINE next == [number EXCEPT ![q] = row.version]
  <2>1. row.version \in Nat /\ row.origin \in Plan \union {NoPlan}
    BY DEF Row
  <2>2. q \notin used /\ used' = used \union {q} /\ plan' = [plan EXCEPT ![q] = row]
    BY <1>3 DEF Created
  <2>3. next \in [Plan -> Nat]
    BY <2>1
  <2>4. ASSUME NEW w \in Worker, req[w].row # NoRow
        PROVE  Fits(used', next, req[w].plan, req[w].row)
    <3>1. req[w].plan \in Plan /\ req[w].row \in Row
      BY <2>4 DEF TypeInv, RequestsOK, Request_, Serving
    <3>2. req[w].row.origin \in Plan \union {NoPlan}
      BY <3>1 DEF Row
    <3>3. Fits(used, number, req[w].plan, req[w].row)
      BY <1>1, <2>4 DEF AllFit
    <3> QED
      BY <2>1, <2>2, <3>1, <3>2, <3>3, StillFits
  <2>5. ASSUME NEW p \in Plan, Live(p)', p # q
        PROVE  Fits(used', next, p, plan'[p])
    <3>1. plan'[p] = plan[p] /\ Live(p)
      BY <2>2, <2>5 DEF TypeInv, TablesOK, Live
    <3>2. plan[p].origin \in Plan \union {NoPlan}
      BY <3>1 DEF TypeInv, TablesOK, Live, Row
    <3>3. Fits(used, number, p, plan[p])
      BY <1>1, <3>1 DEF AllFit
    <3> QED
      BY <2>1, <2>2, <3>1, <3>2, <3>3, StillFits
  <2>6. Fits(used', next, q, row)
    <3>1. CASE row.origin = NoPlan
      BY <2>2, <3>1 DEF Fits
    <3>2. CASE row.origin # NoPlan
      <4>1. PICK w \in Worker :
              /\ req[w].row # NoRow
              /\ row.origin = req[w].plan
              /\ row.version = req[w].row.version + 1
        BY <1>3, <3>2 DEF Created
      <4>2. req[w].plan \in used /\ req[w].row.version = number[req[w].plan]
        BY <1>1, <4>1 DEF AllFit, Fits
      <4>3. row.origin \in used /\ row.version = number[row.origin] + 1
        BY <4>1, <4>2
      <4>4. row.origin # q /\ row.origin \in Plan
        BY <2>1, <2>2, <3>2, <4>3
      <4>5. next[row.origin] = number[row.origin] /\ next[q] = row.version
        BY <4>4
      <4> HIDE DEF next
      <4> QED
        BY <2>2, <4>3, <4>4, <4>5 DEF Fits
    <3> QED
      BY <3>1, <3>2
  <2>7. plan'[q] = row
    BY <2>2 DEF TypeInv, TablesOK
  <2>8. \A p \in Plan : Live(p)' => Fits(used', next, p, plan'[p])
    BY <2>5, <2>6, <2>7
  <2> HIDE DEF next
  <2>9. AllFit(next)'
    BY <2>4, <2>8, HeldFit
  <2> QED
    BY <2>3, <2>9
<1> QED
  BY <1>2, <1>3 DEF StepOK, PlanEffect, Unwritten, Saved, Marked, Deleted

(* Only a plan that is deleted dies.                                       *)
LEMMA LivesOn ==
    ASSUME TypeInv, StepOK, NEW p \in Plan, Live(p)
    PROVE  Live(p)' \/ Deleted(p)
<1>1. CASE Unwritten
  BY <1>1 DEF Unwritten, Live
<1>2. ASSUME NEW w \in Worker, NEW row \in Row, Saved(w, row)
      PROVE  Live(p)'
  <2>1. plan' = [plan EXCEPT ![req[w].plan] = row]
    BY <1>2 DEF Saved, WriteBack
  <2> QED
    BY <2>1, RowAssumption DEF TypeInv, TablesOK, Live
<1>3. ASSUME NEW q \in Plan, Marked(q)
      PROVE  Live(p)'
  <2>1. CASE Live(q)
    <3>1. plan' = [plan EXCEPT ![q] = [plan[q] EXCEPT !.valid = FALSE]]
      BY <1>3, <2>1 DEF Marked, MarkInvalid, TypeInv, TablesOK
    <3>2. [plan[q] EXCEPT !.valid = FALSE] # NoRow
      BY <2>1, RowTypes, RowAssumption
    <3> QED
      BY <3>1, <3>2 DEF TypeInv, TablesOK, Live
  <2>2. CASE ~Live(q)
    BY <1>3, <2>2 DEF Marked, MarkInvalid, Live
  <2> QED
    BY <2>1, <2>2
<1>4. ASSUME NEW q \in Plan, Deleted(q), q # p
      PROVE  Live(p)'
  <2>1. plan'[p] = Orphaned(q, p)
    BY <1>4 DEF Deleted
  <2>2. [plan[p] EXCEPT !.origin = NoPlan] # NoRow
    BY RowTypes, RowAssumption
  <2> QED
    BY <2>1, <2>2 DEF Orphaned, Live
<1>5. ASSUME NEW q \in Plan, NEW row \in Row, Created(q, row)
      PROVE  Live(p)'
  BY <1>5, RowAssumption DEF Created, TypeInv, TablesOK, Live
<1> QED
  BY <1>1, <1>2, <1>3, <1>4, <1>5 DEF StepOK, PlanEffect

LEMMA OriginsKept ==
    ASSUME TypeInv, StepOK, OriginsLive
    PROVE  OriginsLive'
<1>1. ASSUME NEW p \in Plan, Live(p)', plan'[p].origin # NoPlan
      PROVE  plan'[p].origin \in {q \in Plan : Live(q)}
  <2>1. plan'[p] \in Row
    BY <1>1 DEF StepOK, TypeInv, TablesOK, Live
  <2>2. plan'[p].origin \in Plan
    BY <1>1, <2>1 DEF Row
  <2>3. RowEffect(p)
    BY <1>1, RowEffects
  <2>4. CASE Live(p) /\ plan'[p] = plan[p]
    BY <1>1, <2>4 DEF OriginsLive, OriginLives
  <2>5. CASE Live(p) /\ plan'[p] = [plan[p] EXCEPT !.valid = FALSE]
    <3>1. plan'[p].origin = plan[p].origin
      BY <2>5 DEF TypeInv, TablesOK, Live, Row
    <3> QED
      BY <1>1, <2>5, <3>1 DEF OriginsLive, OriginLives
  <2>6. CASE Live(p) /\ plan'[p] = [plan[p] EXCEPT !.origin = NoPlan]
    BY <1>1, <2>6 DEF TypeInv, TablesOK, Live, Row
  <2>7. ASSUME NEW w \in Worker, Saved(w, plan'[p])
        PROVE  plan'[p].origin \in {q \in Plan : Live(q)}
    BY <1>1, <2>7 DEF Saved, WriteBack, OriginLives
  <2>8. CASE Created(p, plan'[p])
    BY <1>1, <2>2, <2>8 DEF Created
  <2> QED
    BY <2>2, <2>3, <2>4, <2>5, <2>6, <2>7, <2>8 DEF RowEffect
<1>2. ASSUME NEW p \in Plan, NEW q \in Plan, Live(p)', Deleted(q)
      PROVE  plan'[p].origin # q
  <2>1. p # q /\ plan'[p] = Orphaned(q, p) /\ plan[p] \in Row
    BY <1>2 DEF Deleted, Orphaned, Live, TypeInv, TablesOK
  <2> QED
    BY <2>1, <1>2, NullAssumption, RowAssumption DEF Orphaned, Live, Row
<1>3. ASSUME NEW p \in Plan, Live(p)', plan'[p].origin # NoPlan
      PROVE  plan'[p].origin \in {q \in Plan : plan'[q] # NoRow}
  <2>1. PICK o \in Plan : o = plan'[p].origin /\ Live(o)
    BY <1>1, <1>3
  <2>2. Live(o)'
    BY <1>2, <1>3, <2>1, LivesOn
  <2> QED
    BY <2>1, <2>2 DEF Live
<1> QED
  BY <1>3 DEF OriginsLive, OriginLives, Live

LEMMA VersionInit ==
    ASSUME Init
    PROVE  VersionInv
<1>1. AllFit([p \in Plan |-> 0])
  BY DEF Init, AllFit, Live, Idle
<1>2. OriginsLive
  BY DEF Init, OriginsLive, Live
<1> QED
  BY <1>1, <1>2 DEF VersionInv

(* A new version follows the version it was made from by one, and the      *)
(* version it was made from is there, for any plans, users and requests.   *)
THEOREM VersionsAlwaysFollow == Spec => []VersionsFollow
<1>1. TypeInv /\ VersionInv /\ [Next]_vars => VersionInv'
  BY NextOK, VersionsKept, OriginsKept DEF VersionInv
<1>2. ASSUME TypeInv, VersionInv
      PROVE  VersionsFollow
  <2>1. PICK number \in [Plan -> Nat] : AllFit(number)
    BY <1>2 DEF VersionInv
  <2>2. ASSUME NEW p \in Plan, Live(p), plan[p].origin # NoPlan
        PROVE  /\ Live(plan[p].origin)
               /\ plan[p].origin # p
               /\ plan[p].version = plan[plan[p].origin].version + 1
    <3>1. plan[p].origin \in Plan /\ Live(plan[p].origin)
      BY <1>2, <2>2 DEF VersionInv, OriginsLive, OriginLives
    <3> QED
      BY <2>1, <2>2, <3>1 DEF AllFit, Fits
  <2> QED
    BY <2>2 DEF VersionsFollow
<1> QED
  BY <1>1, <1>2, VersionInit, TypesKept, PTL DEF Spec

-----------------------------------------------------------------------------
(***************************************************************************)
(* Late saves                                                              *)
(***************************************************************************)
KeysUsed == \A p \in Plan : Live(p) => p \in used

(* Nothing but the late save of what a request had read before unlocks a   *)
(* plan or hides a published one.                                          *)
THEOREM StatusIsLostOnlyToLateSaves == Spec => StatusLostOnlyToLateSave
<1>1. TypeInv /\ VersionInv /\ [Next]_vars => VersionInv'
  BY NextOK, VersionsKept, OriginsKept DEF VersionInv
<1>2. VersionInv => KeysUsed
  BY DEF VersionInv, AllFit, Fits, KeysUsed
<1>3. ASSUME TypeInv, KeysUsed, StepOK, NEW p \in Plan, Live(p), Live(p)'
      PROVE  StatusKept(p)
  <2>1. RowEffect(p)
    BY <1>3, RowEffects
  <2>2. plan[p] \in Row
    BY <1>3 DEF TypeInv, TablesOK, Live
  <2>3. CASE plan'[p] = plan[p]
    BY <2>3 DEF StatusKept
  <2>4. CASE plan'[p] = [plan[p] EXCEPT !.valid = FALSE]
    BY <2>2, <2>4 DEF Row, StatusKept
  <2>5. CASE plan'[p] = [plan[p] EXCEPT !.origin = NoPlan]
    BY <2>2, <2>5 DEF Row, StatusKept
  <2>6. ASSUME NEW w \in Worker, Saved(w, plan'[p]), req[w].plan = p
        PROVE  StatusKept(p)
    BY <2>6 DEF Saved, StatusKept, ReadBefore, Unlocked, Hidden
  <2>7. ~Created(p, plan'[p])
    BY <1>3 DEF KeysUsed, Created
  <2> QED
    BY <1>3, <2>1, <2>3, <2>4, <2>5, <2>6, <2>7 DEF RowEffect
<1>4. TypeInv /\ KeysUsed /\ [Next]_vars =>
        [\A p \in Plan : Live(p) /\ Live(p)' => StatusKept(p)]_vars
  BY <1>3, NextOK
<1>5. Spec => []KeysUsed
  BY <1>1, <1>2, VersionInit, TypesKept, PTL DEF Spec
<1> QED
  BY <1>4, <1>5, TypesKept, PTL DEF Spec, StatusLostOnlyToLateSave

-----------------------------------------------------------------------------
(***************************************************************************)
(* What a deleted plan leaves                                              *)
(***************************************************************************)
(* Enough for a step that deletes nothing: it leaves the answersets and    *)
(* accesses of the plans that are not there as they are.                   *)
LEMMA NothingLeft ==
    ASSUME DeletedLeavesNothing,
           \A p \in Plan : Live(p) => Live(p)',
           \A p \in Plan : ~Live(p)' => content'[p] = content[p] /\ access'[p] = access[p]
    PROVE  DeletedLeavesNothing'
BY DEF DeletedLeavesNothing, Live, NoAccess

LEMMA SavedLives ==
    ASSUME TypeInv, NEW w \in Worker, NEW row \in Row, Saved(w, row)
    PROVE  /\ \A p \in Plan : Live(p) => Live(p)'
           /\ req[w].plan \in Plan
           /\ plan'[req[w].plan] # NoRow
<1>1. req[w].plan \in Plan
  BY RowTypes DEF Saved
<1>2. \A p \in Plan : plan'[p] = IF p = req[w].plan THEN row ELSE plan[p]
  BY <1>1 DEF Saved, WriteBack, TypeInv, TablesOK
<1> QED
  BY <1>1, <1>2, RowAssumption DEF Live

LEMMA MarkedLives ==
    ASSUME TypeInv, NEW q \in Plan, MarkInvalid(q)
    PROVE  \A p \in Plan : Live(p) => Live(p)'
<1>1. CASE Live(q)
  <2>1. plan' = [plan EXCEPT ![q] = [plan[q] EXCEPT !.valid = FALSE]]
    BY <1>1 DEF MarkInvalid, TypeInv, TablesOK
  <2>2. [plan[q] EXCEPT !.valid = FALSE] # NoRow
    BY <1>1, RowTypes, RowAssumption
  <2> QED
    BY <2>1, <2>2 DEF TypeInv, TablesOK, Live
<1>2. CASE ~Live(q)
  BY <1>2 DEF MarkInvalid, Live
<1> QED
  BY <1>1, <1>2

LEMMA SavingLeavesNothing ==
    ASSUME TypeInv, DeletedLeavesNothing, NEW w \in Worker,
           Lock(w) \/ Publish(w) \/ Rename(w) \/ SaveLast(w) \/ SavePlan(w)
    PROVE  DeletedLeavesNothing'
<1>1. ASSUME NEW row \in Row, Saved(w, row), UNCHANGED <<content, access>>
      PROVE  DeletedLeavesNothing'
  BY <1>1, SavedLives, NothingLeft
<1>2. CASE Lock(w)
  <2>1. Saved(w, [req[w].row EXCEPT !.locked = TRUE])
    BY <1>2, WritesBack DEF Lock, Writing
  <2> QED
    BY <1>1, <1>2, <2>1 DEF Lock, Saved
<1>3. CASE Publish(w)
  <2>1. req[w].pc \in Writing
    BY <1>3 DEF Publish, Writing
  <2>2. PICK c \in Content :
          content' = [content EXCEPT ![req[w].plan] = c] /\ WriteBack(w, PublishedRow(w, c))
    BY <1>3, ContentAssumption DEF Publish
  <2>3. Saved(w, PublishedRow(w, c))
    BY <1>3, <2>1, <2>2, WritesBack DEF Publish
  <2>4. /\ \A p \in Plan : Live(p) => Live(p)'
        /\ plan'[req[w].plan] # NoRow
    BY <2>3, SavedLives DEF Saved
  <2>5. \A p \in Plan : p # req[w].plan => content'[p] = content[p]
    BY <2>2, TablesTyped
  <2> QED
    BY <1>3, <2>4, <2>5, NothingLeft DEF Publish, Live
<1>4. CASE Rename(w)
  BY <1>1, <1>4, WritesBack, RowTypes DEF Rename, Writing
<1>5. CASE SaveLast(w)
  BY <1>1, <1>5, WritesBack, RowTypes DEF SaveLast, Writing
<1>6. CASE SavePlan(w)
  BY <1>1, <1>6, WritesBack, RowTypes DEF SavePlan, Writing
<1> QED
  BY <1>2, <1>3, <1>4, <1>5, <1>6

(* Answersets and accesses, or the row of a new plan, of a plan that is    *)
(* there; the others stay.                                                 *)
LEMMA LivePlanChanges ==
    ASSUME TypeInv, DeletedLeavesNothing, NEW p \in Plan,
           \A q \in Plan : Live(q) => Live(q)',
           Live(p)' \/ (content'[p] = content[p] /\ access'[p] = access[p]),
           \/ UNCHANGED content
           \/ \E c : content' = [content EXCEPT ![p] = c],
           \/ UNCHANGED access
           \/ \E a : access' = [access EXCEPT ![p] = a]
    PROVE  DeletedLeavesNothing'
<1>1. \A q \in Plan : q # p => content'[q] = content[q] /\ access'[q] = access[q]
  BY TablesTyped
<1> QED
  BY <1>1, NothingLeft DEF Live

LEMMA CreatedLives ==
    ASSUME TypeInv, NEW q \in Plan, NEW row \in Row, plan' = [plan EXCEPT ![q] = row]
    PROVE  Live(q)' /\ \A p \in Plan : Live(p) => Live(p)'
BY RowAssumption DEF TypeInv, TablesOK, Live

LEMMA CopyingLeavesNothing ==
    ASSUME TypeInv, DeletedLeavesNothing, NEW w \in Worker,
           Delete(w) \/ \E q \in Plan : SaveAs(w, q) \/ CreateNewVersion(w, q)
    PROVE  DeletedLeavesNothing'
<1>1. CASE Delete(w)
  <2> DEFINE p == req[w].plan
  <2>1. p \in Plan
    BY <1>1, AtWork DEF Delete
  <2>2. content'[p] = NoContent /\ access'[p] = NoAccess
    BY <1>1, <2>1, TablesTyped DEF Delete
  <2>3. ASSUME NEW q \in Plan, q # p, ~Live(q)'
        PROVE  content'[q] = NoContent /\ access'[q] = NoAccess
    <3>1. plan'[q] = Orphaned(p, q)
      BY <1>1, <2>3 DEF Delete, Orphaned
    <3>2. ~Live(q)
      BY <2>3, <3>1, RowTypes, RowAssumption DEF Orphaned, Live
    <3>3. content'[q] = content[q] /\ access'[q] = access[q]
      BY <1>1, <2>3, TablesTyped DEF Delete
    <3> QED
      BY <3>2, <3>3 DEF DeletedLeavesNothing
  <2>4. NoAccess' = NoAccess
    BY DEF NoAccess
  <2> QED
    BY <2>2, <2>3, <2>4 DEF DeletedLeavesNothing, Live
<1>2. ASSUME NEW q \in Plan, SaveAs(w, q)
      PROVE  DeletedLeavesNothing'
  <2>1. NewRow(req[w].user) \in Row
    BY <1>2, AtWork, RowTypes DEF SaveAs
  <2>2. Live(q)' /\ \A p \in Plan : Live(p) => Live(p)'
    BY <1>2, <2>1, CreatedLives DEF SaveAs
  <2>3. /\ \E c : content' = [content EXCEPT ![q] = c]
        /\ \E a : access' = [access EXCEPT ![q] = a]
    BY <1>2 DEF SaveAs
  <2> QED
    BY <2>2, <2>3, LivePlanChanges
<1>3. ASSUME NEW q \in Plan, CreateNewVersion(w, q)
      PROVE  DeletedLeavesNothing'
  <2> DEFINE new == NextVersion(req[w].row, req[w].plan, req[w].user)
  <2>1. new \in Row
    BY <1>3, RowTypes DEF CreateNewVersion, Writing
  <2>2. plan' = [plan EXCEPT ![q] = new]
    BY <1>3 DEF CreateNewVersion
  <2>3. /\ \E c : content' = [content EXCEPT ![q] = c]
        /\ \E a : access' = [access EXCEPT ![q] = a]
    BY <1>3 DEF CreateNewVersion
  <2> HIDE DEF new
  <2>4. Live(q)' /\ \A p \in Plan : Live(p) => Live(p)'
    BY <2>1, <2>2, CreatedLives
  <2> QED
    BY <2>3, <2>4, LivePlanChanges
<1> QED
  BY <1>1, <1>2, <1>3

LEMMA WorkLeavesNothing ==
    ASSUME TypeInv, DeletedLeavesNothing, NEW w \in Worker,
           \/ ValidateData(w) \/ UpdateAnswer(w) \/ Check(w) \/ RefuseAnswer(w)
           \/ Mark(w) \/ AddMissingAnswersets(w)
           \/ SetAdderAsEditor(w) \/ SaveAccess(w) \/ Leave(w) \/ Abort(w)
    PROVE  DeletedLeavesNothing'
<1> DEFINE p == req[w].plan
<1>1. p \in Plan
  <2>1. req[w].pc # "idle"
    BY DEF ValidateData, UpdateAnswer, Check, RefuseAnswer, Mark, AddMissingAnswersets,
           SetAdderAsEditor, SaveAccess, Leave, Abort
  <2> QED
    BY <2>1, AtWork
<1>2. content[p] # NoContent => Live(p)
  BY <1>1 DEF DeletedLeavesNothing
<1>3. CASE ValidateData(w)
  <2>1. PICK c \in Content \union {NoContent} :
          /\ content' = [content EXCEPT ![p] = c]
          /\ content[p] = NoContent => c = NoContent
          /\ MarkInvalid(p) \/ UNCHANGED plan
    BY <1>3 DEF ValidateData
  <2>2. \A q \in Plan : Live(q) => Live(q)'
    BY <1>1, <2>1, MarkedLives DEF Live
  <2>3. content'[p] = c
    BY <1>1, <2>1, TablesTyped
  <2>4. UNCHANGED access
    BY <1>3 DEF ValidateData
  <2> QED
    BY <1>1, <1>2, <2>1, <2>2, <2>3, <2>4, LivePlanChanges
<1>4. ASSUME UNCHANGED <<plan, access>>, Live(p),
             \E c : content' = [content EXCEPT ![p] = c]
      PROVE  DeletedLeavesNothing'
  BY <1>1, <1>4, LivePlanChanges DEF Live
<1>5. CASE UpdateAnswer(w)
  BY <1>4, <1>5 DEF UpdateAnswer
<1>6. CASE Check(w)
  BY <1>2, <1>4, <1>6 DEF Check
<1>7. CASE RefuseAnswer(w)
  BY <1>2, <1>4, <1>7 DEF RefuseAnswer
<1>8. CASE AddMissingAnswersets(w)
  BY <1>4, <1>8 DEF AddMissingAnswersets
<1>9. CASE Mark(w)
  BY <1>1, <1>9, MarkedLives, NothingLeft DEF Mark
<1>10. ASSUME UNCHANGED <<plan, content>>, Live(p),
              NEW u, NEW right, access' = [access EXCEPT ![p][u] = right]
       PROVE  DeletedLeavesNothing'
  <2>1. \E a : access' = [access EXCEPT ![p] = a]
    BY <1>10
  <2> QED
    BY <1>1, <1>10, <2>1, LivePlanChanges DEF Live
<1>11. CASE SetAdderAsEditor(w)
  BY <1>10, <1>11 DEF SetAdderAsEditor
<1>12. CASE SaveAccess(w)
  BY <1>10, <1>12 DEF SaveAccess
<1>13. CASE Leave(w)
  <2>1. access' = [access EXCEPT ![p][req[w].user] = "none"] /\ UNCHANGED <<plan, content>>
    BY <1>13 DEF Leave
  <2>2. ASSUME ~Live(p)
        PROVE  access'[p] = access[p]
    <3>1. access[p] = NoAccess
      BY <1>1, <2>2 DEF DeletedLeavesNothing
    <3>2. access'[p] = [NoAccess EXCEPT ![req[w].user] = "none"]
      BY <1>1, <2>1, <3>1, TablesTyped
    <3> QED
      BY <3>1, <3>2 DEF NoAccess
  <2>3. \A q \in Plan : q # p => access'[q] = access[q]
    BY <2>1, TablesTyped
  <2> QED
    BY <2>1, <2>2, <2>3, NothingLeft DEF Live
<1>14. CASE Abort(w)
  BY <1>14, NothingLeft DEF Abort, Live
<1> QED
  BY <1>3, <1>5, <1>6, <1>7, <1>8, <1>9, <1>11, <1>12, <1>13, <1>14

(* Nothing is left of a plan that was deleted, nor does a late save, or an *)
(* answer that comes late, give it answersets or accesses again.           *)
THEOREM NothingOutlivesPlan == Spec => []DeletedLeavesNothing
<1>1. Init => DeletedLeavesNothing
  BY DEF Init, DeletedLeavesNothing
<1>2. ASSUME TypeInv, DeletedLeavesNothing, [Next]_vars
      PROVE  DeletedLeavesNothing'
  <2>1. ASSUME NEW w \in Worker, Request(w)
        PROVE  DeletedLeavesNothing'
    BY <1>2, <2>1, SavingLeavesNothing, CopyingLeavesNothing, WorkLeavesNothing DEF Request
  <2>2. ASSUME NEW w \in Worker, NEW u \in User, NEW p \in Plan, NewRequest(w, u, p)
        PROVE  DeletedLeavesNothing'
    <3>1. CASE StartPlan(w, u, p)
      <4>1. \A q \in Plan : Live(q) => Live(q)'
        BY <1>2, <3>1, RowTypes, CreatedLives DEF StartPlan
      <4> QED
        BY <1>2, <3>1, <4>1, NothingLeft DEF StartPlan
    <3>2. CASE UNCHANGED <<plan, content, access>>
      BY <1>2, <3>2, NothingLeft DEF Live
    <3> QED
      BY <2>2, <3>1, <3>2
         DEF NewRequest, LockPlan, PublishPlan, RenamePlan, DeletePlan, SaveAsPlan,
             CreateNewVersionPlan, ValidatePlan, AnswerQuestions, DeletePlanAccess,
             UpdatePlanAccess, Load
  <2>3. ASSUME NEW u \in User, NEW p \in Plan, Display(u, p) \/ ChangeAnswersets(u, p)
        PROVE  DeletedLeavesNothing'
    <3>1. /\ Live(p) /\ UNCHANGED <<plan, access>>
          /\ \E c : content' = [content EXCEPT ![p] = c]
      BY <2>3 DEF Display, ChangeAnswersets, Viewable
    <3> QED
      BY <1>2, <3>1, LivePlanChanges DEF Live
  <2>4. CASE UNCHANGED vars
    BY <1>2, <2>4, NothingLeft DEF vars, Live
  <2> QED
    BY <1>2, <2>1, <2>2, <2>3, <2>4 DEF Next
<1> QED
  BY <1>1, <1>2, TypesKept, PTL DEF Spec

-----------------------------------------------------------------------------
(***************************************************************************)
(* Requests that do not overlap                                            *)
(***************************************************************************)
OneWorker == \A v, w \in Worker : v = w

(* A plan that is public is so in what a request holds of it; and none is  *)
(* to be deleted.                                                          *)
HoldsPublic(r) ==
    /\ r.row # NoRow /\ plan[r.plan] # NoRow /\ plan[r.plan].published => r.row.published
    /\ r.pc = "delete" => r.row # NoRow /\ ~r.row.published

PublicHeld == \A w \in Worker : HoldsPublic(req[w])

(* A request that ends holds nothing.                                      *)
LEMMA EndHoldsPublic ==
    ASSUME OneWorker, TypeInv, NEW w \in Worker, Finish(w)
    PROVE  PublicHeld'
<1>1. \A v \in Worker : req'[v] = Idle
  BY DEF OneWorker, Finish, TypeInv, RequestsOK
<1>2. Idle.row = NoRow /\ Idle.pc = "idle"
  BY DEF Idle
<1> QED
  BY <1>1, <1>2 DEF PublicHeld, HoldsPublic

(* A request that goes on holds the row it held, which may just have been  *)
(* written, or marked together with that of the plan.                      *)
LEMMA GoesOnHoldingPublic ==
    ASSUME OneWorker, TypeInv, PublicHeld, NEW w \in Worker,
           req'[w].plan = req[w].plan, req'[w].pc # "delete",
           req'[w].row # NoRow => /\ req[w].row # NoRow
                                  /\ req'[w].row.published = req[w].row.published,
           LET p == req[w].plan
           IN  plan'[p] # NoRow =>
                 \/ plan[p] # NoRow /\ plan'[p].published = plan[p].published
                 \/ req'[w].row # NoRow => plan'[p].published = req'[w].row.published
    PROVE  PublicHeld'
<1>1. \A v \in Worker : v = w
  BY DEF OneWorker
<1>2. HoldsPublic(req[w])
  BY DEF PublicHeld
<1> QED
  BY <1>1, <1>2 DEF PublicHeld, HoldsPublic

LEMMA LoadHoldsPublic ==
    ASSUME OneWorker, TypeInv, NEW w \in Worker, NEW u \in User, NEW p \in Plan, NEW pc,
           Load(w, u, p, pc), pc = "delete" => plan[p] # NoRow /\ ~plan[p].published
    PROVE  PublicHeld'
<1>1. \A v \in Worker : v = w
  BY DEF OneWorker
<1>2. /\ req'[w] = [pc |-> pc, plan |-> p, user |-> u, who |-> NoUser, row |-> plan[p]]
      /\ plan' = plan
  BY DEF Load, TypeInv, RequestsOK
<1> QED
  BY <1>1, <1>2 DEF PublicHeld, HoldsPublic

LEMMA NewRequestHoldsPublic ==
    ASSUME OneWorker, TypeInv, NEW w \in Worker, NEW u \in User, NEW p \in Plan,
           NewRequest(w, u, p)
    PROVE  PublicHeld'
<1>1. CASE StartPlan(w, u, p)
  <2>1. \A v \in Worker : v = w
    BY DEF OneWorker
  <2>2. /\ req'[w] = [pc |-> "fill", plan |-> p, user |-> u, who |-> NoUser, row |-> NewRow(u)]
        /\ plan'[p] = NewRow(u)
    BY <1>1 DEF StartPlan, TypeInv, RequestsOK, TablesOK
  <2> QED
    BY <2>1, <2>2 DEF PublicHeld, HoldsPublic
<1>2. ASSUME NEW v \in User, UpdatePlanAccess(w, u, v, p)
      PROVE  PublicHeld'
  <2>1. \A x \in Worker : x = w
    BY DEF OneWorker
  <2>2. req'[w].row = NoRow /\ req'[w].pc # "delete"
    BY <1>2 DEF UpdatePlanAccess, TypeInv, RequestsOK
  <2> QED
    BY <2>1, <2>2 DEF PublicHeld, HoldsPublic
<1>3. ASSUME NEW pc \in {"lock", "publish", "rename", "save as", "new version", "validate",
                         "answer", "leave"}, Load(w, u, p, pc)
      PROVE  PublicHeld'
  BY <1>3, LoadHoldsPublic
<1>4. CASE DeletePlan(w, u, p)
  BY <1>4, LoadHoldsPublic DEF DeletePlan, Viewable, Live
<1> QED
  BY <1>1, <1>2, <1>3, <1>4
     DEF NewRequest, LockPlan, PublishPlan, RenamePlan, SaveAsPlan, CreateNewVersionPlan,
         ValidatePlan, AnswerQuestions, DeletePlanAccess

(* What a request that goes on refers to.                                  *)
LEMMA GotoKeeps ==
    ASSUME TypeInv, NEW w \in Worker, NEW pc, Goto(w, pc)
    PROVE  req'[w].pc = pc /\ req'[w].plan = req[w].plan /\ req'[w].row = req[w].row
BY DEF Goto, TypeInv, RequestsOK, Request_

LEMMA MarkKeepsPublic ==
    ASSUME TypeInv, NEW p \in Plan, MarkInvalid(p), NEW q \in Plan
    PROVE  /\ plan'[q] # NoRow <=> plan[q] # NoRow
           /\ plan[q] # NoRow => plan'[q].published = plan[q].published
<1>1. CASE Live(p)
  <2>1. plan[p] \in Row
    BY <1>1 DEF TypeInv, TablesOK, Live
  <2>2. plan' = [plan EXCEPT ![p] = [plan[p] EXCEPT !.valid = FALSE]]
    BY <1>1 DEF MarkInvalid, TypeInv, TablesOK
  <2>3. [plan[p] EXCEPT !.valid = FALSE] \in Row
    BY <2>1 DEF Row
  <2> QED
    BY <2>1, <2>2, <2>3, RowAssumption DEF TypeInv, TablesOK, Row
<1>2. CASE ~Live(p)
  BY <1>2 DEF MarkInvalid
<1> QED
  BY <1>1, <1>2

LEMMA RequestHoldsPublic ==
    ASSUME OneWorker, TypeInv, PublicHeld, NEW w \in Worker, Request(w)
    PROVE  PublicHeld'
<1>1. CASE Finish(w)
  BY <1>1, EndHoldsPublic
<1>2. ASSUME NEW pc, pc # "delete", Goto(w, pc), UNCHANGED plan
      PROVE  PublicHeld'
  <2>1. req'[w].pc = pc /\ req'[w].plan = req[w].plan /\ req'[w].row = req[w].row
    BY <1>2, GotoKeeps
  <2> QED
    BY <1>2, <2>1, GoesOnHoldingPublic
<1>3. CASE AddMissingAnswersets(w)
  BY <1>2, <1>3 DEF AddMissingAnswersets
<1>4. CASE UpdateAnswer(w)
  BY <1>2, <1>4 DEF UpdateAnswer
<1>5. CASE Check(w)
  <2>1. PICK pc \in {"final", "mark"} : Goto(w, pc)
    BY <1>5 DEF Check
  <2> QED
    BY <1>2, <1>5, <2>1 DEF Check
<1>6. CASE RefuseAnswer(w)
  BY <1>2, <1>6 DEF RefuseAnswer
<1>7. CASE SavePlan(w)
  <2>1. req[w].pc # "idle" /\ req[w].pc \in Writing
    BY <1>7 DEF SavePlan, Writing
  <2>2. req'[w].pc = "check" /\ req'[w].plan = req[w].plan /\ req'[w].row = req[w].row
    BY <1>7, GotoKeeps DEF SavePlan
  <2>3. plan'[req[w].plan] = req[w].row
    BY <1>7, <2>1, AtWork DEF SavePlan, WriteBack, TypeInv, TablesOK
  <2> QED
    BY <2>2, <2>3, GoesOnHoldingPublic
<1>8. ASSUME NEW b \in BOOLEAN, NEW pc \in {"validated", "final"}, req[w].row \in Row,
             req[w].plan \in Plan,
             req' = [req EXCEPT ![w].pc = pc, ![w].row.valid = b],
             MarkInvalid(req[w].plan) \/ UNCHANGED plan
      PROVE  PublicHeld'
  <2>1. /\ req'[w].pc = pc /\ req'[w].plan = req[w].plan
        /\ req'[w].row = [req[w].row EXCEPT !.valid = b]
    BY <1>8 DEF TypeInv, RequestsOK, Request_
  <2>2. req'[w].row.published = req[w].row.published /\ req[w].row # NoRow
    BY <1>8, <2>1, RowAssumption DEF Row
  <2>3. LET p == req[w].plan
        IN  plan'[p] # NoRow => plan[p] # NoRow /\ plan'[p].published = plan[p].published
    BY <1>8, MarkKeepsPublic
  <2> QED
    BY <2>1, <2>2, <2>3, GoesOnHoldingPublic
<1>9. CASE ValidateData(w)
  <2>1. req[w].pc \in Writing /\ req[w].pc # "idle"
    BY <1>9 DEF ValidateData, Writing
  <2>2. PICK c : /\ req' = [req EXCEPT ![w].pc = "validated", ![w].row.valid = c \in Complete]
                 /\ MarkInvalid(req[w].plan) \/ UNCHANGED plan
    BY <1>9 DEF ValidateData
  <2>3. req[w].row \in Row /\ req[w].plan \in Plan
    BY <2>1, RowTypes
  <2> DEFINE b == c \in Complete
  <2>4. b \in BOOLEAN /\ req' = [req EXCEPT ![w].pc = "validated", ![w].row.valid = b]
    BY <2>2
  <2> HIDE DEF b
  <2> QED
    BY <1>8, <2>2, <2>3, <2>4
<1>10. CASE Mark(w) /\ req[w].pc = "mark"
  <2>1. /\ req' = [req EXCEPT ![w].pc = "final", ![w].row.valid = FALSE]
        /\ MarkInvalid(req[w].plan)
    BY <1>10 DEF Mark
  <2>2. req[w].row \in Row /\ req[w].plan \in Plan
    BY <1>10, RowTypes DEF Writing
  <2> QED
    BY <1>8, <2>1, <2>2
<1>11. CASE Mark(w) /\ req[w].pc = "invalid"
  BY <1>1, <1>11 DEF Mark
<1>12. CASE \/ SetAdderAsEditor(w) \/ Lock(w) \/ Publish(w) \/ Rename(w) \/ Delete(w)
            \/ \E q \in Plan : SaveAs(w, q) \/ CreateNewVersion(w, q)
            \/ SaveLast(w) \/ SaveAccess(w) \/ Leave(w) \/ Abort(w)
  BY <1>1, <1>12
     DEF SetAdderAsEditor, Lock, Publish, Rename, Delete, SaveAs, CreateNewVersion, SaveLast,
         SaveAccess, Leave, Abort
<1>13. Mark(w) => req[w].pc \in {"mark", "invalid"}
  BY DEF Mark
<1> QED
  BY <1>3, <1>4, <1>5, <1>6, <1>7, <1>9, <1>10, <1>11, <1>12, <1>13 DEF Request

LEMMA PublicStaysHeld ==
    ASSUME OneWorker, TypeInv, PublicHeld, [Next]_vars
    PROVE  PublicHeld'
<1>1. ASSUME UNCHANGED <<plan, req>> PROVE PublicHeld'
  BY <1>1 DEF PublicHeld, HoldsPublic
<1>2. ASSUME NEW u \in User, NEW p \in Plan, Display(u, p) \/ ChangeAnswersets(u, p)
      PROVE  PublicHeld'
  BY <1>1, <1>2 DEF Display, ChangeAnswersets
<1> QED
  BY <1>1, <1>2, RequestHoldsPublic, NewRequestHoldsPublic DEF Next, vars

(* The row of a public plan after a step of the only request.              *)
LEMMA SavedStaysPublic ==
    ASSUME TypeInv, PublicHeld, NEW w \in Worker, NEW row \in Row, Saved(w, row),
           NEW p \in Plan, Live(p), plan[p].published
    PROVE  Live(p)' /\ plan'[p].published
<1>1. req[w].plan \in Plan /\ req[w].row \in Row
  BY RowTypes DEF Saved
<1>2. plan' = [plan EXCEPT ![req[w].plan] = row]
  BY DEF Saved, WriteBack
<1>3. CASE p # req[w].plan
  BY <1>1, <1>2, <1>3 DEF TypeInv, TablesOK, Live
<1>4. CASE p = req[w].plan
  <2>1. req[w].row.published
    BY <1>1, <1>4, RowAssumption DEF PublicHeld, HoldsPublic, Live
  <2>2. row.published /\ plan'[p] = row
    BY <1>1, <1>2, <1>4, <2>1 DEF Saved, TypeInv, TablesOK
  <2> QED
    BY <2>2, RowAssumption DEF Live
<1> QED
  BY <1>3, <1>4

LEMMA RequestKeepsPublic ==
    ASSUME OneWorker, TypeInv, PublicHeld, KeysUsed, NEW w \in Worker, Request(w),
           NEW p \in Plan, Live(p), plan[p].published
    PROVE  Live(p)' /\ plan'[p].published
<1>1. CASE UNCHANGED plan
  BY <1>1 DEF Live
<1>2. ASSUME NEW row \in Row, Saved(w, row) PROVE Live(p)' /\ plan'[p].published
  BY <1>2, SavedStaysPublic
<1>3. CASE Lock(w) \/ Publish(w) \/ Rename(w) \/ SaveLast(w) \/ SavePlan(w)
  <2>1. req[w].pc \in Writing /\ UNCHANGED used
    BY <1>3 DEF Lock, Publish, Rename, SaveLast, SavePlan, Writing
  <2>2. req[w].row \in Row /\ [req[w].row EXCEPT !.locked = TRUE] \in Row
        /\ \A c \in Content : PublishedRow(w, c) \in Row
    BY <2>1, RowTypes
  <2>3. CASE Lock(w)
    BY <1>2, <2>1, <2>2, <2>3, WritesBack DEF Lock
  <2>4. CASE Publish(w)
    <3>1. PICK c \in Content : WriteBack(w, PublishedRow(w, c))
      BY <2>4, ContentAssumption DEF Publish
    <3> QED
      BY <1>2, <2>1, <2>2, <3>1, WritesBack
  <2>5. CASE Rename(w) \/ SaveLast(w) \/ SavePlan(w)
    BY <1>2, <2>1, <2>2, <2>5, WritesBack DEF Rename, SaveLast, SavePlan
  <2> QED
    BY <1>3, <2>3, <2>4, <2>5
<1>4. CASE Delete(w)
  <2>1. req[w].plan # p
    BY <1>4 DEF Delete, PublicHeld, HoldsPublic, Live
  <2>2. plan[p] \in Row
    BY DEF TypeInv, TablesOK, Live
  <2>3. plan'[p] = plan[p] \/ plan'[p] = [plan[p] EXCEPT !.origin = NoPlan]
    BY <1>4, <2>1 DEF Delete
  <2>4. plan'[p] \in Row /\ plan'[p].published = plan[p].published
    BY <2>2, <2>3 DEF Row
  <2> QED
    BY <2>4, RowAssumption DEF Live
<1>5. ASSUME NEW q \in Plan, SaveAs(w, q) \/ CreateNewVersion(w, q)
      PROVE  Live(p)' /\ plan'[p].published
  <2>1. q # p
    BY <1>5 DEF SaveAs, CreateNewVersion, KeysUsed
  <2>2. plan'[p] = plan[p]
    BY <1>5, <2>1 DEF SaveAs, CreateNewVersion, TypeInv, TablesOK
  <2> QED
    BY <2>2 DEF Live
<1>6. CASE ValidateData(w) \/ Mark(w)
  <2>1. req[w].plan \in Plan
    BY <1>6, AtWork DEF ValidateData, Mark
  <2>2. UNCHANGED plan \/ MarkInvalid(req[w].plan)
    BY <1>6 DEF ValidateData, Mark
  <2> QED
    BY <1>1, <2>1, <2>2, MarkKeepsPublic DEF Live
<1>7. CASE \/ AddMissingAnswersets(w) \/ SetAdderAsEditor(w) \/ UpdateAnswer(w) \/ Check(w)
           \/ RefuseAnswer(w) \/ SaveAccess(w) \/ Leave(w) \/ Abort(w)
  BY <1>1, <1>7
     DEF AddMissingAnswersets, SetAdderAsEditor, UpdateAnswer, Check, RefuseAnswer,
         SaveAccess, Leave, Abort
<1> QED
  BY <1>3, <1>4, <1>5, <1>6, <1>7 DEF Request

LEMMA PublicStaysPublic ==
    ASSUME OneWorker, TypeInv, PublicHeld, KeysUsed, [Next]_vars,
           NEW p \in Plan, Live(p), plan[p].published
    PROVE  Live(p)' /\ plan'[p].published
<1>1. CASE UNCHANGED plan
  BY <1>1 DEF Live
<1>2. ASSUME NEW w \in Worker, NEW u \in User, NEW q \in Plan, NewRequest(w, u, q)
      PROVE  Live(p)' /\ plan'[p].published
  <2>1. CASE StartPlan(w, u, q)
    <3>1. q # p
      BY <2>1 DEF StartPlan, KeysUsed
    <3>2. plan'[p] = plan[p]
      BY <2>1, <3>1 DEF StartPlan, TypeInv, TablesOK
    <3> QED
      BY <3>2 DEF Live
  <2>2. CASE ~StartPlan(w, u, q)
    BY <1>1, <1>2, <2>2
       DEF NewRequest, LockPlan, PublishPlan, RenamePlan, DeletePlan, SaveAsPlan,
           CreateNewVersionPlan, ValidatePlan, AnswerQuestions, DeletePlanAccess,
           UpdatePlanAccess, Load
  <2> QED
    BY <2>1, <2>2
<1>3. ASSUME NEW u \in User, NEW q \in Plan, Display(u, q) \/ ChangeAnswersets(u, q)
      PROVE  Live(p)' /\ plan'[p].published
  BY <1>1, <1>3 DEF Display, ChangeAnswersets
<1> QED
  BY <1>1, <1>2, <1>3, RequestKeepsPublic DEF Next, vars

(* With requests that do not overlap, a plan that was made public is never *)
(* hidden again, nor deleted: no page offers it, and what is written back  *)
(* whole was read when the plan was public already.                        *)
THEOREM PublicStays == OneWorker => (Spec => PublicForGood)
<1> SUFFICES ASSUME OneWorker PROVE Spec => PublicForGood
  OBVIOUS
<1>1. Init => PublicHeld
  BY DEF Init, PublicHeld, HoldsPublic, Idle
<1>2. TypeInv /\ PublicHeld /\ [Next]_vars => PublicHeld'
  BY PublicStaysHeld
<1>3. TypeInv /\ PublicHeld /\ KeysUsed /\ [Next]_vars =>
        [\A p \in Plan : Live(p) /\ plan[p].published => Live(p)' /\ plan'[p].published]_vars
  BY PublicStaysPublic
<1>4. TypeInv /\ VersionInv /\ [Next]_vars => VersionInv'
  BY NextOK, VersionsKept, OriginsKept DEF VersionInv
<1>5. VersionInv => KeysUsed
  BY DEF VersionInv, AllFit, Fits, KeysUsed
<1>6. Spec => []KeysUsed
  BY <1>4, <1>5, VersionInit, TypesKept, PTL DEF Spec
<1> QED
  BY <1>1, <1>2, <1>3, <1>6, TypesKept, PTL DEF Spec, PublicForGood
=============================================================================
