---------------------------- MODULE PlanStatus ----------------------------
(***************************************************************************)
(* The life of the plans of easydmp.plan: started, answered, validated,    *)
(* locked, published, deleted, saved as another plan, made a new version   *)
(* of; and the accesses that decide who may do so.                         *)
(*                                                                         *)
(* A request loads the row of its plan, and later writes every column of   *)
(* it back: Plan.save() names no update_fields, and nothing locks or       *)
(* compares the row.  Each transaction of a request is one action.         *)
(***************************************************************************)
EXTENDS Naturals

CONSTANTS
    Plan, NoPlan,      \* primary keys; cloned_from = NULL
    NoRow,             \* no row under that key
    User, NoUser,
    Superuser,         \* users with superpowers
    Worker,            \* concurrent requests
    Serves,            \* per worker, the kinds of requests it may get
    Content,           \* what the answersets of a plan can hold
    Blank,             \* ... of a plan just started
    Complete,          \* ... all answersets valid or skipped
    NoContent          \* no answersets at all

ASSUME ContentAssumption ==
    /\ Complete \subseteq Content
    /\ Blank \in Content \ Complete
    /\ NoContent \notin Content

ASSUME KindAssumption ==
    Serves \in [Worker -> SUBSET {"start", "lock", "publish", "new version", "save as",
                                  "delete", "rename", "validate", "answer", "promote",
                                  "demote", "leave"}]

ASSUME NullAssumption == NoPlan \notin Plan /\ NoUser \notin User

ASSUME UserAssumption == Superuser \subseteq User

Right == {"none", "view", "edit"}
Row == [locked : BOOLEAN, published : BOOLEAN, valid : BOOLEAN,
        version : Nat \ {0}, origin : Plan \union {NoPlan}, adder : User,
        html : Content \union {NoContent}]

ASSUME RowAssumption == NoRow \notin Row

VARIABLES
    used,     \* the primary keys given so far
    plan,     \* the table plan_plan
    content,  \* the answersets of each plan
    access,   \* the table plan_planaccess
    req       \* per worker, the request it serves

vars == <<used, plan, content, access, req>>

PC == {"idle", "fill", "adder", "lock", "publish", "new version", "save as",
       "delete", "rename", "validate", "validated", "answer", "answered",
       "check", "mark", "final", "invalid", "promote", "demote", "leave"}
Idle == [pc |-> "idle", plan |-> NoPlan, user |-> NoUser, who |-> NoUser, row |-> NoRow]

Live(p) == plan[p] # NoRow
NoAccess == [u \in User |-> "none"]

(* PlanQuerySet.viewable and editable.                                     *)
Viewable(u, p) ==
    Live(p) /\ (u \in Superuser \/ plan[p].published \/ access[p][u] # "none")
Editable(u, p) == Live(p) /\ (u \in Superuser \/ access[p][u] = "edit")

(***************************************************************************)
(* Requests                                                                *)
(***************************************************************************)
(* get_object().                                                           *)
Load(w, u, p, pc) ==
    /\ req[w].pc = "idle"
    /\ pc \in Serves[w]
    /\ req' = [req EXCEPT ![w] = [pc |-> pc, plan |-> p, user |-> u,
                                  who |-> NoUser, row |-> plan[p]]]
    /\ UNCHANGED <<used, plan, content, access>>

Goto(w, pc) == req' = [req EXCEPT ![w].pc = pc]
Finish(w) == req' = [req EXCEPT ![w] = Idle]

(* An error answer, or a worker that is killed between two transactions.   *)
Abort(w) ==
    /\ req[w].pc # "idle"
    /\ Finish(w)
    /\ UNCHANGED <<used, plan, content, access>>

(* Mutant: no foreign key.                                                 *)
OriginUnchecked(row) == row.origin \in Plan \union {NoPlan}

(* The foreign key cloned_from.                                            *)
OriginLives(row) == row.origin \in {NoPlan} \union {p \in Plan : Live(p)}

(* Model.save(): every column of the loaded row is written over what is    *)
(* there now, and a row that was deleted is inserted again.                *)
WriteBack(w, row) ==
    /\ OriginLives(row)
    /\ plan' = [plan EXCEPT ![req[w].plan] = row]

(***************************************************************************)
(* A new plan: its row, then its answersets, then its adder as editor, in  *)
(* three transactions.                                                     *)
(***************************************************************************)
NewRow(u) ==
    [locked |-> FALSE, published |-> FALSE, valid |-> FALSE, version |-> 1,
     origin |-> NoPlan, adder |-> u, html |-> NoContent]

StartPlan(w, u, p) ==
    /\ req[w].pc = "idle"
    /\ "start" \in Serves[w]
    /\ p \notin used
    /\ used' = used \union {p}
    /\ plan' = [plan EXCEPT ![p] = NewRow(u)]
    /\ req' = [req EXCEPT ![w] = [pc |-> "fill", plan |-> p, user |-> u,
                                  who |-> NoUser, row |-> NewRow(u)]]
    /\ UNCHANGED <<content, access>>

(* Plan.add_missing_answersets, here and when a plan is displayed.         *)
AddMissingAnswersets(w) ==
    LET p == req[w].plan
    IN  /\ req[w].pc = "fill"
        /\ Live(p)
        /\ content' = [content EXCEPT ![p] = IF @ = NoContent THEN Blank ELSE @]
        /\ Goto(w, "adder")
        /\ UNCHANGED <<used, plan, access>>

Display(u, p) ==
    /\ Viewable(u, p)
    /\ content[p] = NoContent
    /\ content' = [content EXCEPT ![p] = Blank]
    /\ UNCHANGED <<used, plan, access, req>>

SetAdderAsEditor(w) ==
    LET p == req[w].plan
    IN  /\ req[w].pc = "adder"
        /\ Live(p)
        /\ access' = [access EXCEPT ![p][req[w].user] = "edit"]
        /\ Finish(w)
        /\ UNCHANGED <<used, plan, content>>

(***************************************************************************)
(* Status changes                                                          *)
(***************************************************************************)
LockPlan(w, u, p) == Viewable(u, p) /\ ~plan[p].locked /\ Load(w, u, p, "lock")

Lock(w) ==
    /\ req[w].pc = "lock"
    /\ WriteBack(w, [req[w].row EXCEPT !.locked = TRUE])
    /\ Finish(w)
    /\ UNCHANGED <<used, content, access>>

PublishPlan(w, u, p) ==
    Viewable(u, p) /\ plan[p].valid /\ plan[p].locked /\ Load(w, u, p, "publish")

(* Mutant: the lock is taken for granted, as it was read by get_object.    *)
PublishedColumns(w, c) ==
    LET p == req[w].plan
    IN  [(IF Live(p) THEN plan[p] ELSE req[w].row) EXCEPT !.published = TRUE, !.html = c]

(* The document is generated of the answers found now, after the rows have *)
(* been repaired (fix_all_answersets); a plan that is gone gets new rows.  *)
PublishedRow(w, c) ==
    [req[w].row EXCEPT !.locked = TRUE, !.published = TRUE, !.html = c]

Publish(w) ==
    LET p == req[w].plan
    IN  /\ req[w].pc = "publish"
        /\ \E c \in IF content[p] = NoContent THEN {Blank} ELSE Content :
             /\ content' = [content EXCEPT ![p] = c]
             /\ WriteBack(w, PublishedRow(w, c))
        /\ Finish(w)
        /\ UNCHANGED <<used, access>>

(* UpdatePlanView: title and abbreviation, and all the other columns.      *)
RenamePlan(w, u, p) == Viewable(u, p) /\ Load(w, u, p, "rename")

Rename(w) ==
    /\ req[w].pc = "rename"
    /\ WriteBack(w, req[w].row)
    /\ Finish(w)
    /\ UNCHANGED <<used, content, access>>

DeletePlan(w, u, p) ==
    /\ Viewable(u, p)
    /\ ~plan[p].published
    /\ plan[p].adder = u
    /\ Load(w, u, p, "delete")

(* on_delete: the answersets and accesses go, cloned_from becomes NULL.    *)
Delete(w) ==
    LET p == req[w].plan
        orphaned(q) == IF Live(q) /\ plan[q].origin = p
                       THEN [plan[q] EXCEPT !.origin = NoPlan] ELSE plan[q]
    IN  /\ req[w].pc = "delete"
        /\ plan' = [q \in Plan |-> IF q = p THEN NoRow ELSE orphaned(q)]
        /\ content' = [content EXCEPT ![p] = NoContent]
        /\ access' = [access EXCEPT ![p] = NoAccess]
        /\ Finish(w)
        /\ UNCHANGED used

(***************************************************************************)
(* Copies.  The answersets are copied without their skipped flags, so a    *)
(* complete plan may have an incomplete copy; the database may refuse the  *)
(* identifiers of the copies (Abort).  See Copy of AnswerSets.             *)
(***************************************************************************)
CopyOf(c) == {c} \union IF c = NoContent THEN {} ELSE Content \ Complete

SaveAsPlan(w, u, p) == Viewable(u, p) /\ Load(w, u, p, "save as")

(* keep_users is a string, never false: all editors are kept.              *)
SaveAs(w, q) ==
    LET p == req[w].plan
        editor(v) == IF access[p][v] = "edit" THEN "edit" ELSE "none"
    IN  /\ req[w].pc = "save as"
        /\ q \notin used
        /\ used' = used \union {q}
        /\ plan' = [plan EXCEPT ![q] = NewRow(req[w].user)]
        /\ \E c \in CopyOf(content[p]) : content' = [content EXCEPT ![q] = c]
        /\ access' = [access EXCEPT ![q] = [v \in User |-> editor(v)]]
        /\ Finish(w)

CreateNewVersionPlan(w, u, p) ==
    Viewable(u, p) /\ plan[p].locked /\ Load(w, u, p, "new version")

(* Mutant: the number goes down.                                           *)
PreviousVersion(row, p, u) ==
    [row EXCEPT !.version = @ - 1, !.origin = p, !.adder = u,
                !.locked = FALSE, !.published = FALSE]

NextVersion(row, p, u) ==
    [row EXCEPT !.version = @ + 1, !.origin = p, !.adder = u,
                !.locked = FALSE, !.published = FALSE]

CreateNewVersion(w, q) ==
    LET p == req[w].plan
        new == NextVersion(req[w].row, p, req[w].user)
    IN  /\ req[w].pc = "new version"
        /\ q \notin used
        /\ OriginLives(new)
        /\ used' = used \union {q}
        /\ plan' = [plan EXCEPT ![q] = new]
        /\ \E c \in CopyOf(content[p]) : content' = [content EXCEPT ![q] = c]
        /\ access' = [access EXCEPT ![q] = [access[p] EXCEPT ![req[w].user] = "edit"]]
        /\ Finish(w)

(* Mutant: a plan that is not valid is not public any more.                *)
MarkUnpublished(p) ==
    plan' = IF Live(p) THEN [plan EXCEPT ![p].valid = FALSE, ![p].published = FALSE] ELSE plan

(***************************************************************************)
(* Answers and validity.  Plan.valid may only be written, alone, when it   *)
(* turns false; every other write of it is a write of the whole row.       *)
(***************************************************************************)
MarkInvalid(p) == plan' = IF Live(p) THEN [plan EXCEPT ![p].valid = FALSE] ELSE plan

ValidatePlan(w, u, p) == Viewable(u, p) /\ ~plan[p].valid /\ Load(w, u, p, "validate")

(* Plan.validate_data: every answerset is checked and saved.               *)
ValidateData(w) ==
    LET p == req[w].plan
    IN  /\ req[w].pc = "validate"
        /\ \E c \in IF content[p] = NoContent THEN {NoContent} ELSE Content :
             /\ content' = [content EXCEPT ![p] = c]
             /\ req' = [req EXCEPT ![w].pc = "validated", ![w].row.valid = c \in Complete]
             /\ IF c \in Content \ Complete THEN MarkInvalid(p) ELSE UNCHANGED plan
        /\ UNCHANGED <<used, access>>

(* The last save of three requests.                                        *)
SaveLast(w) ==
    /\ req[w].pc \in {"validated", "final"}
    /\ WriteBack(w, req[w].row)
    /\ Finish(w)
    /\ UNCHANGED <<used, content, access>>

AnswerQuestions(w, u, p) ==
    Editable(u, p) /\ content[p] # NoContent /\ Load(w, u, p, "answer")

(* Mutant: answersets without a plan are not refused.                      *)
UpdateAnswerAnyway(w) ==
    /\ req[w].pc = "answer"
    /\ \E c \in Content : content' = [content EXCEPT ![req[w].plan] = c]
    /\ Goto(w, "answered")
    /\ UNCHANGED <<used, plan, access>>

(* save_choice: the answers, then the whole row of the plan.               *)
UpdateAnswer(w) ==
    LET p == req[w].plan
    IN  /\ req[w].pc = "answer"
        /\ Live(p)
        /\ \E c \in Content : content' = [content EXCEPT ![p] = c]
        /\ Goto(w, "answered")
        /\ UNCHANGED <<used, plan, access>>

SavePlan(w) ==
    /\ req[w].pc = "answered"
    /\ WriteBack(w, req[w].row)
    /\ Goto(w, "check")
    /\ UNCHANGED <<used, content, access>>

(* AnswerSet.validate: if the answerset is not valid, nor is the plan.     *)
Check(w) ==
    LET p == req[w].plan
    IN  /\ req[w].pc = "check"
        /\ content[p] # NoContent
        /\ \E c \in Content :
             /\ content' = [content EXCEPT ![p] = c]
             /\ \E pc \in IF c \in Complete THEN {"final"} ELSE {"final", "mark"} : Goto(w, pc)
        /\ UNCHANGED <<used, plan, access>>

(* AnswerHelper.set_invalid: an answer the form refuses.                   *)
RefuseAnswer(w) ==
    LET p == req[w].plan
    IN  /\ req[w].pc = "answer"
        /\ content[p] # NoContent
        /\ \E c \in Content \ Complete : content' = [content EXCEPT ![p] = c]
        /\ Goto(w, "invalid")
        /\ UNCHANGED <<used, plan, access>>

Mark(w) ==
    LET p == req[w].plan
    IN  /\ req[w].pc \in {"mark", "invalid"}
        /\ Live(p)
        /\ MarkInvalid(p)
        /\ IF req[w].pc = "invalid" THEN Finish(w)
           ELSE req' = [req EXCEPT ![w].pc = "final", ![w].row.valid = FALSE]
        /\ UNCHANGED <<used, content, access>>

(* Answersets added or removed: the row of the plan is not written.        *)
ChangeAnswersets(u, p) ==
    /\ Live(p)
    /\ access[p][u] = "edit"
    /\ content[p] # NoContent
    /\ \E c \in Content : content' = [content EXCEPT ![p] = c]
    /\ UNCHANGED <<used, plan, access, req>>

(***************************************************************************)
(* Accesses.  An editor makes anyone an editor or a viewer; anyone leaves. *)
(***************************************************************************)
UpdatePlanAccess(w, u, v, p) ==
    /\ req[w].pc = "idle"
    /\ Live(p)
    /\ access[p][u] = "edit"
    /\ access[p][v] # "none"
    /\ \E pc \in Serves[w] :
         /\ pc = IF access[p][v] = "edit" THEN "demote" ELSE "promote"
         /\ req' = [req EXCEPT ![w] = [pc |-> pc, plan |-> p, user |-> u,
                                       who |-> v, row |-> NoRow]]
    /\ UNCHANGED <<used, plan, content, access>>

SaveAccess(w) ==
    LET p == req[w].plan
        right == IF req[w].pc = "promote" THEN "edit" ELSE "view"
    IN  /\ req[w].pc \in {"promote", "demote"}
        /\ Live(p)
        /\ access' = [access EXCEPT ![p][req[w].who] = right]
        /\ Finish(w)
        /\ UNCHANGED <<used, plan, content>>

DeletePlanAccess(w, u, p) == Live(p) /\ access[p][u] # "none" /\ Load(w, u, p, "leave")

Leave(w) ==
    /\ req[w].pc = "leave"
    /\ access' = [access EXCEPT ![req[w].plan][req[w].user] = "none"]
    /\ Finish(w)
    /\ UNCHANGED <<used, plan, content>>

(***************************************************************************)
(* The specification                                                       *)
(***************************************************************************)
Init ==
    /\ used = {}
    /\ plan = [p \in Plan |-> NoRow]
    /\ content = [p \in Plan |-> NoContent]
    /\ access = [p \in Plan |-> NoAccess]
    /\ req = [w \in Worker |-> Idle]

NewRequest(w, u, p) ==
    \/ StartPlan(w, u, p) \/ LockPlan(w, u, p) \/ PublishPlan(w, u, p)
    \/ RenamePlan(w, u, p) \/ DeletePlan(w, u, p) \/ SaveAsPlan(w, u, p)
    \/ CreateNewVersionPlan(w, u, p) \/ ValidatePlan(w, u, p)
    \/ AnswerQuestions(w, u, p) \/ DeletePlanAccess(w, u, p)
    \/ \E v \in User : UpdatePlanAccess(w, u, v, p)

Request(w) ==
    \/ AddMissingAnswersets(w) \/ SetAdderAsEditor(w)
    \/ Lock(w) \/ Publish(w) \/ Rename(w) \/ Delete(w)
    \/ \E q \in Plan : SaveAs(w, q) \/ CreateNewVersion(w, q)
    \/ ValidateData(w) \/ SaveLast(w) \/ UpdateAnswer(w) \/ SavePlan(w)
    \/ Check(w) \/ RefuseAnswer(w) \/ Mark(w) \/ SaveAccess(w) \/ Leave(w)
    \/ Abort(w)

Next ==
    \/ \E w \in Worker : Request(w)
    \/ \E w \in Worker, u \in User, p \in Plan : NewRequest(w, u, p)
    \/ \E u \in User, p \in Plan : Display(u, p) \/ ChangeAnswersets(u, p)

Spec == Init /\ [][Next]_vars

(***************************************************************************)
(* Properties                                                              *)
(***************************************************************************)
(* Types; a request that may write a whole row holds one.                  *)
Writing == {"lock", "publish", "new version", "rename", "validate", "validated",
            "answer", "answered", "check", "mark", "final"}

Request_ == [pc : PC, plan : Plan \union {NoPlan}, user : User \union {NoUser},
             who : User \union {NoUser}, row : Row \union {NoRow}]

TypeOK ==
    /\ used \subseteq Plan
    /\ plan \in [Plan -> Row \union {NoRow}]
    /\ content \in [Plan -> Content \union {NoContent}]
    /\ access \in [Plan -> [User -> Right]]
    /\ req \in [Worker -> Request_]
    /\ \A w \in Worker : req[w].pc \in Writing => req[w].row # NoRow

(* "Only a locked plan can be made public", and it has its document: even  *)
(* though the lock may be lost between the check and the save of a         *)
(* request, every save writes columns that were read, or set, together.    *)
PublishedIsLocked ==
    \A p \in Plan : Live(p) /\ plan[p].published =>
        plan[p].locked /\ plan[p].html # NoContent

(* A new version follows the version it was made from by one, and knows it *)
(* until it is deleted, whatever old rows are saved late.                  *)
VersionsFollow ==
    \A p \in Plan : Live(p) /\ plan[p].origin # NoPlan =>
        /\ Live(plan[p].origin)
        /\ plan[p].origin # p
        /\ plan[p].version = plan[plan[p].origin].version + 1

(* A plan that was deleted, or was never started, has no answersets and    *)
(* nobody has access to it.                                                *)
DeletedLeavesNothing ==
    \A p \in Plan : ~Live(p) => content[p] = NoContent /\ access[p] = NoAccess

(* Unlocked or hidden again is a plan only by a request that had read it   *)
(* before it was locked or published, and then writes back what it read.   *)
ReadBefore(p, unset(_)) ==
    \E w \in Worker : req[w].plan = p /\ req[w].pc \in Writing /\ unset(req[w].row)

Unlocked(row) == ~row.locked
Hidden(row) == ~row.published

StatusKept(p) ==
    /\ plan[p].locked /\ ~plan'[p].locked => ReadBefore(p, Unlocked)
    /\ plan[p].published /\ ~plan'[p].published => ReadBefore(p, Hidden)

StatusLostOnlyToLateSave ==
    [][\A p \in Plan : Live(p) /\ Live(p)' => StatusKept(p)]_vars
=============================================================================
