--------------------------- MODULE SharingProofs ---------------------------
(***************************************************************************)
(* Proofs about Sharing, for any number of users, invitations, concurrent  *)
(* requests and days.  The types are inductive; with them, each action     *)
(* does to the tables what the action properties allow.                    *)
(***************************************************************************)
EXTENDS Sharing, TLAPS

USE SharingAssumption, NoRowAssumption

(* The rows a request makes are rows.                                      *)
LEMMA IdleType == Idle \in Request
BY DEF Idle, Request, PC, Type

LEMMA InvitationChanged ==
    ASSUME NEW row \in InvitationRow, NEW t \in Time
    PROVE  /\ [row EXCEPT !.created = t] \in InvitationRow
           /\ [row EXCEPT !.sent = t] \in InvitationRow
           /\ [row EXCEPT !.used = TRUE] \in InvitationRow
           /\ [row EXCEPT !.used = TRUE].type = row.type
BY DEF InvitationRow, Time

LEMMA AccessChanged ==
    ASSUME NEW row \in AccessRow, NEW b \in BOOLEAN
    PROVE  /\ [row EXCEPT !.may_edit = b] \in AccessRow
           /\ [row EXCEPT !.may_edit = b].may_edit = b
BY DEF AccessRow

(* What is always so of the request of a worker, g being the uuids given:  *)
(* its types, that leaving is about one's own access, and that an editor   *)
(* asked for a change.                                                     *)
RequestOK(r, g) ==
    /\ r \in Request
    /\ r.pc # "idle" => r.user \in User
    /\ r.pc \in {"send", "accept", "revoke"} => r.inv \in g /\ r.row # NoRow
    /\ r.pc \in {"change", "leave"} => r.who \in User /\ r.held # NoRow
    /\ r.pc = "leave" => r.who = r.user
    /\ r.pc = "change" => r.editor

IInv ==
    /\ TypeOK
    /\ \A w \in Worker : RequestOK(req[w], given)
    /\ \A i \in Invitation \ given : inv[i] = NoRow

(* What a step may do to the tables: the bodies of the action properties.  *)
InvitationEffect ==
    \A i \in Invitation :
        /\ Used(i) /\ ~Used(i)' =>
               \E w \in Worker : Acts(w) /\ req[w].inv = i /\ ~req[w].row.used
        /\ i \in given /\ inv[i] = NoRow /\ inv[i]' # NoRow =>
               \E w \in Worker : Acts(w) /\ req[w].inv = i /\ req[w].pc \in {"send", "accept"}

RightsEffect ==
    \A u \in User : access'[u] # access[u] =>
        \E w \in Worker : Acts(w) /\
            IF access'[u] = NoRow
            THEN req[w].pc = "leave" /\ req[w].user = u /\ req[w].held.pk = access[u].pk
            ELSE \/ /\ req[w].pc = "accept" /\ req[w].user = u
                    /\ access'[u].may_edit <=> req[w].row.type = "edit"
                 \/ req[w].pc = "change" /\ req[w].who = u /\ req[w].editor

EditorEffect ==
    Editors # {} /\ Editors' = {} =>
        \E w \in Worker : /\ Acts(w)
                          /\ \/ req[w].user \in Editors
                             \/ req[w].pc = "change" /\ req[w].editor

StepOK == IInv' /\ InvitationEffect /\ RightsEffect /\ EditorEffect

(* A step that gives one worker a request that is in order keeps all       *)
(* requests in order, and the worker acts if its place changes.            *)
LEMMA RequestsStayOK ==
    ASSUME IInv, NEW w \in Worker, NEW r, RequestOK(r, given'), given \subseteq given',
           req' = [req EXCEPT ![w] = r]
    PROVE  /\ req' \in [Worker -> Request]
           /\ \A x \in Worker : RequestOK(req'[x], given')
           /\ r.pc # req[w].pc => Acts(w)
BY DEF IInv, TypeOK, RequestOK, Acts

LEMMA IdleOK == (\A g : RequestOK(Idle, g)) /\ Idle.pc = "idle"
BY IdleType DEF RequestOK, Idle

(* The invariant after a step, put together from its parts.                *)
LEMMA InvTogether ==
    ASSUME clock' \in Time, serial' \in Nat,
           access' \in [User -> AccessRow \union {NoRow}],
           given' \subseteq Invitation,
           inv' \in [Invitation -> InvitationRow \union {NoRow}],
           req' \in [Worker -> Request],
           \A x \in Worker : RequestOK(req'[x], given'),
           \A i \in Invitation \ given' : inv'[i] = NoRow
    PROVE  IInv'
BY DEF IInv, TypeOK, RequestOK

(* Tables that stay as they are have no effect to explain.                 *)
LEMMA NoInvitationEffect == inv' = inv => InvitationEffect
BY DEF InvitationEffect, Used

LEMMA NoAccessEffect == access' = access => RightsEffect /\ EditorEffect
BY DEF RightsEffect, EditorEffect, Editors, Has

(* A request that is begun leaves the tables alone.                        *)
LEMMA StartOK ==
    ASSUME IInv, NEW w \in Worker, NEW kind, NEW r, RequestOK(r, given), Start(w, kind, r)
    PROVE  StepOK
<1>1. req' = [req EXCEPT ![w] = r]
  BY DEF Start
<1>2. IInv'
  <2>1. given' = given /\ RequestOK(r, given')
    BY DEF Start
  <2> QED
    BY <1>1, <2>1, RequestsStayOK, InvTogether DEF Start, TypeOK, IInv
<1> QED
  BY <1>2, NoInvitationEffect, NoAccessEffect DEF Start, StepOK

(* A request that ends and leaves the tables alone.                        *)
LEMMA AbortOK ==
    ASSUME IInv, NEW w \in Worker, Abort(w)
    PROVE  StepOK
<1>1. req' = [req EXCEPT ![w] = Idle]
  BY DEF Abort, Finish
<1>2. IInv'
  BY <1>1, IdleOK, RequestsStayOK, InvTogether DEF Abort, TypeOK, IInv
<1> QED
  BY <1>2, NoInvitationEffect, NoAccessEffect DEF Abort, StepOK

(* Begun requests are in order, kind by kind.                              *)
LEMMA LoadOK ==
    ASSUME IInv, NEW w \in Worker, NEW u \in User, NEW i \in Invitation,
           NEW kind, NEW pc \in {"send", "accept", "revoke"},
           LoadInvitation(w, u, i, kind, pc)
    PROVE  StepOK
<1> DEFINE r == [Idle EXCEPT !.pc = pc, !.user = u, !.inv = i, !.row = inv[i],
                             !.type = inv[i].type]
<1>1. inv[i] \in InvitationRow /\ inv[i].type \in Type
  BY DEF LoadInvitation, IInv, TypeOK, InvitationRow
<1>2. RequestOK(r, given)
  BY <1>1 DEF RequestOK, Request, Idle, PC, IInv, TypeOK, LoadInvitation
<1>3. Start(w, kind, r)
  BY DEF LoadInvitation
<1> QED
  BY <1>2, <1>3, StartOK

LEMMA OpenInviteOK ==
    ASSUME IInv, NEW w \in Worker, NEW u \in User, NEW t \in Type, OpenInvite(w, u, t)
    PROVE  StepOK
<1> DEFINE r == [Idle EXCEPT !.pc = "create", !.user = u, !.type = t, !.editor = TRUE]
<1>1. RequestOK(r, given)
  BY DEF RequestOK, Request, Idle, PC
<1> QED
  BY <1>1, StartOK DEF OpenInvite

LEMMA OpenChangeOK ==
    ASSUME IInv, NEW w \in Worker, NEW u \in User, NEW v \in User, OpenChange(w, u, v)
    PROVE  StepOK
<1> DEFINE r == [Idle EXCEPT !.pc = "change", !.user = u, !.who = v,
                             !.held = access[v], !.editor = TRUE]
<1>1. access[v] \in AccessRow
  BY DEF OpenChange, Has, IInv, TypeOK
<1>2. RequestOK(r, given)
  BY <1>1 DEF RequestOK, Request, Idle, PC, Type
<1> QED
  BY <1>2, StartOK DEF OpenChange

LEMMA OpenLeaveOK ==
    ASSUME IInv, NEW w \in Worker, NEW u \in User, OpenLeave(w, u)
    PROVE  StepOK
<1> DEFINE r == [Idle EXCEPT !.pc = "leave", !.user = u, !.who = u, !.held = access[u]]
<1>1. access[u] \in AccessRow
  BY DEF OpenLeave, Has, IInv, TypeOK
<1>2. RequestOK(r, given)
  BY <1>1 DEF RequestOK, Request, Idle, PC, Type
<1> QED
  BY <1>2, StartOK DEF OpenLeave

(* What a saved invitation does to the table.                              *)
LEMMA Saved ==
    ASSUME IInv, NEW w \in Worker, req[w].pc \in {"send", "accept"},
           NEW row \in InvitationRow, SaveInvitation(req[w].inv, row)
    PROVE  /\ inv' \in [Invitation -> InvitationRow \union {NoRow}]
           /\ req[w].inv \in Invitation /\ req[w].inv \in given
           /\ inv'[req[w].inv] # NoRow
           /\ inv'[req[w].inv].used = row.used
           /\ \A i \in Invitation \ {req[w].inv} : inv'[i] = inv[i]
<1> DEFINE new == IF inv[req[w].inv] = NoRow THEN [row EXCEPT !.created = clock] ELSE row
<1>1. new \in InvitationRow /\ new.used = row.used
  BY DEF IInv, TypeOK, InvitationRow, Time
<1>2. inv' = [inv EXCEPT ![req[w].inv] = new]
  BY DEF SaveInvitation
<1>3. req[w].inv \in Invitation /\ req[w].inv \in given
  BY DEF IInv, RequestOK, TypeOK
<1>4. inv \in [Invitation -> InvitationRow \union {NoRow}]
  BY DEF IInv, TypeOK
<1> HIDE DEF new
<1> QED
  BY <1>1, <1>2, <1>3, <1>4

LEMMA CreateOK ==
    ASSUME IInv, NEW w \in Worker, NEW i \in Invitation, CreateInvitation(w, i)
    PROVE  StepOK
<1> DEFINE row == [type |-> req[w].type, created |-> clock, sent |-> Never, used |-> FALSE]
           r == [[[req[w] EXCEPT !.pc = "send"] EXCEPT !.inv = i] EXCEPT !.row = row]
<1>1. row \in InvitationRow
  BY DEF InvitationRow, IInv, TypeOK, Request, Time
<1>2. RequestOK(r, given') /\ r.pc # req[w].pc
  <2>1. /\ req[w] \in Request /\ req[w].pc = "create" /\ req[w].user \in User
        /\ i \in given' /\ i \in Invitation
    BY DEF IInv, TypeOK, RequestOK, CreateInvitation
  <2>2. row \in InvitationRow \union {NoRow} /\ row # NoRow
    BY <1>1
  <2> HIDE DEF row
  <2>3. /\ r \in Request
        /\ r.pc = "send" /\ r.user = req[w].user /\ r.inv = i /\ r.row = row
    BY <2>1, <2>2 DEF Request, PC
  <2> QED
    BY <2>1, <2>2, <2>3 DEF RequestOK
<1>3. req' = [req EXCEPT ![w] = r]
  BY DEF CreateInvitation, IInv, TypeOK
<1>4. /\ clock' \in Time /\ serial' \in Nat
      /\ access' \in [User -> AccessRow \union {NoRow}] /\ access' = access
      /\ given' \subseteq Invitation /\ given' = given \union {i}
      /\ inv' = [inv EXCEPT ![i] = row]
      /\ inv \in [Invitation -> InvitationRow \union {NoRow}]
      /\ i \notin given
      /\ \A j \in Invitation \ given : inv[j] = NoRow
  BY DEF CreateInvitation, IInv, TypeOK
<1> HIDE DEF r, row
<1>5. inv' \in [Invitation -> InvitationRow \union {NoRow}]
  BY <1>1, <1>4
<1>6. IInv'
  BY <1>2, <1>3, <1>4, <1>5, RequestsStayOK, InvTogether
<1>7. InvitationEffect
  BY <1>4 DEF InvitationEffect, Used
<1> QED
  BY <1>4, <1>6, <1>7, NoAccessEffect DEF StepOK

LEMMA SendOK ==
    ASSUME IInv, NEW w \in Worker, SendInvitation(w)
    PROVE  StepOK
<1> DEFINE row == [req[w].row EXCEPT !.sent = clock]
           again == [req[w] EXCEPT !.pc = "create"]
<1>1. row \in InvitationRow /\ row.used = req[w].row.used
  BY DEF IInv, TypeOK, RequestOK, Request, InvitationRow, Time, SendInvitation, AccessRow
<1>2. PICK r \in {Idle, again} : req' = [req EXCEPT ![w] = r]
  BY DEF SendInvitation, IInv, TypeOK, Finish
<1>3. RequestOK(r, given') /\ r.pc # req[w].pc
  <2>1. RequestOK(again, given') /\ again.pc # req[w].pc
    BY DEF RequestOK, Request, PC, IInv, TypeOK, SendInvitation
  <2>2. Idle.pc # req[w].pc
    BY IdleOK DEF SendInvitation
  <2> QED
    BY <1>2, <2>1, <2>2, IdleOK
<1> HIDE DEF row, again
<1>4. req[w].pc = "send" /\ SaveInvitation(req[w].inv, row) /\ UNCHANGED <<clock, serial, access, given>>
  BY DEF SendInvitation, row
<1>5. /\ inv' \in [Invitation -> InvitationRow \union {NoRow}]
      /\ req[w].inv \in Invitation /\ req[w].inv \in given
      /\ inv'[req[w].inv] # NoRow
      /\ inv'[req[w].inv].used = row.used
      /\ \A i \in Invitation \ {req[w].inv} : inv'[i] = inv[i]
  BY <1>1, <1>4, Saved
<1>6. IInv'
  BY <1>2, <1>3, <1>4, <1>5, RequestsStayOK, InvTogether DEF IInv, TypeOK
<1>7. Acts(w)
  BY <1>2, <1>3, <1>4, RequestsStayOK
<1>8. InvitationEffect
  BY <1>1, <1>4, <1>5, <1>7 DEF InvitationEffect, Used, IInv, TypeOK
<1> QED
  BY <1>4, <1>6, <1>8, NoAccessEffect DEF StepOK

(* Accepting: the right is the one the invitation names.                   *)
LEMMA AcceptOK ==
    ASSUME IInv, NEW w \in Worker, AcceptInvitation(w)
    PROVE  StepOK
<1> DEFINE row == [req[w].row EXCEPT !.used = TRUE]
           edit == req[w].row.type = "edit"
           u == req[w].user
<1>1. row \in InvitationRow /\ row.used
  BY DEF IInv, TypeOK, RequestOK, Request, InvitationRow, Time, AcceptInvitation, AccessRow
<1>2. /\ req[w].pc = "accept" /\ SaveInvitation(req[w].inv, row) /\ AddUser(u, edit)
      /\ req' = [req EXCEPT ![w] = Idle] /\ UNCHANGED <<clock, given>>
  BY DEF AcceptInvitation, Finish
<1>3. u \in User /\ edit \in BOOLEAN /\ serial \in Nat /\ clock \in Time
      /\ access \in [User -> AccessRow \union {NoRow}] /\ given \subseteq Invitation
      /\ \A i \in Invitation \ given : inv[i] = NoRow
  BY <1>2 DEF IInv, RequestOK, TypeOK
<1> HIDE DEF row, edit, u
<1>4. /\ access' \in [User -> AccessRow \union {NoRow}]
      /\ access'[u] # NoRow
      /\ access'[u].may_edit = edit
      /\ \A v \in User \ {u} : access'[v] = access[v]
      /\ serial' \in Nat
  BY <1>2, <1>3 DEF AddUser, Has, AccessRow
<1>5. /\ inv' \in [Invitation -> InvitationRow \union {NoRow}]
      /\ req[w].inv \in Invitation /\ req[w].inv \in given
      /\ inv'[req[w].inv] # NoRow
      /\ inv'[req[w].inv].used = row.used
      /\ \A i \in Invitation \ {req[w].inv} : inv'[i] = inv[i]
  BY <1>1, <1>2, Saved
<1>6. /\ \A g : RequestOK(Idle, g)
      /\ Acts(w)
      /\ req' \in [Worker -> Request]
      /\ \A x \in Worker : RequestOK(req'[x], given')
  BY <1>2, IdleOK, RequestsStayOK
<1>7. IInv'
  BY <1>2, <1>3, <1>4, <1>5, <1>6, InvTogether
<1>8. InvitationEffect
  BY <1>1, <1>2, <1>5, <1>6 DEF InvitationEffect, Used
<1>9. RightsEffect
  BY <1>2, <1>3, <1>4, <1>6 DEF RightsEffect, u, edit
<1>10. EditorEffect
  BY <1>3, <1>4, <1>6 DEF EditorEffect, Editors, Has, u
<1> QED
  BY <1>7, <1>8, <1>9, <1>10 DEF StepOK

LEMMA RevokeOK ==
    ASSUME IInv, NEW w \in Worker, RevokeInvitation(w)
    PROVE  StepOK
<1>1. /\ req[w].pc = "revoke" /\ req' = [req EXCEPT ![w] = Idle]
      /\ UNCHANGED <<clock, serial, access, given>>
      /\ inv' = [inv EXCEPT ![req[w].inv] = IF req[w].row.used THEN @ ELSE NoRow]
  BY DEF RevokeInvitation, Finish
<1>2. Acts(w) /\ IInv'
  <2>1. /\ Acts(w) /\ req' \in [Worker -> Request]
        /\ \A x \in Worker : RequestOK(req'[x], given')
    BY <1>1, IdleOK, RequestsStayOK
  <2>2. req[w].inv \in Invitation
    BY <1>1 DEF IInv, TypeOK, RequestOK
  <2>3. /\ inv' \in [Invitation -> InvitationRow \union {NoRow}]
        /\ \A i \in Invitation \ given' : inv'[i] = NoRow
    BY <1>1, <2>2 DEF IInv, TypeOK
  <2> QED
    BY <1>1, <2>1, <2>3, InvTogether DEF IInv, TypeOK
<1>3. InvitationEffect
  BY <1>1, <1>2 DEF InvitationEffect, Used, IInv, TypeOK, RequestOK
<1> QED
  BY <1>1, <1>2, <1>3, NoAccessEffect DEF StepOK

LEMMA ChangeOK ==
    ASSUME IInv, NEW w \in Worker, NEW b \in BOOLEAN, ChangeAccess(w, b)
    PROVE  StepOK
<1> DEFINE new == [req[w].held EXCEPT !.may_edit = b]
           v == req[w].who
<1>1. /\ req[w].pc = "change" /\ req' = [req EXCEPT ![w] = Idle]
      /\ UNCHANGED <<clock, serial, given, inv>>
      /\ access' \in {access, [access EXCEPT ![v] = new]}
  BY DEF ChangeAccess, Finish
<1>2. /\ new \in AccessRow /\ v \in User /\ req[w].editor
      /\ access \in [User -> AccessRow \union {NoRow}]
      /\ new # NoRow
  BY <1>1 DEF IInv, TypeOK, RequestOK, Request, AccessRow
<1> HIDE DEF new
<1>3. Acts(w) /\ IInv'
  <2>1. /\ Acts(w) /\ req' \in [Worker -> Request]
        /\ \A x \in Worker : RequestOK(req'[x], given')
    BY <1>1, IdleOK, RequestsStayOK
  <2>2. access' \in [User -> AccessRow \union {NoRow}]
    BY <1>1, <1>2
  <2> QED
    BY <1>1, <2>1, <2>2, InvTogether DEF IInv, TypeOK
<1>4. RightsEffect /\ EditorEffect
  BY <1>1, <1>2, <1>3 DEF RightsEffect, EditorEffect, Editors, Has
<1> QED
  BY <1>1, <1>3, <1>4, NoInvitationEffect DEF StepOK

LEMMA LeaveOK ==
    ASSUME IInv, NEW w \in Worker, Leave(w)
    PROVE  StepOK
<1> DEFINE v == req[w].who
<1>1. /\ req[w].pc = "leave" /\ req' = [req EXCEPT ![w] = Idle]
      /\ UNCHANGED <<clock, serial, given, inv>>
      /\ access' = [access EXCEPT ![v] =
                       IF Has(v) /\ access[v].pk = req[w].held.pk THEN NoRow ELSE @]
  BY DEF Leave, Finish
<1>2. /\ v \in User /\ v = req[w].user
      /\ access \in [User -> AccessRow \union {NoRow}]
  BY <1>1 DEF IInv, TypeOK, RequestOK
<1>3. Acts(w) /\ IInv'
  <2>1. /\ Acts(w) /\ req' \in [Worker -> Request]
        /\ \A x \in Worker : RequestOK(req'[x], given')
    BY <1>1, IdleOK, RequestsStayOK
  <2>2. access' \in [User -> AccessRow \union {NoRow}]
    BY <1>1, <1>2
  <2> QED
    BY <1>1, <2>1, <2>2, InvTogether DEF IInv, TypeOK
<1>4. RightsEffect /\ EditorEffect
  BY <1>1, <1>2, <1>3 DEF RightsEffect, EditorEffect, Editors, Has
<1> QED
  BY <1>1, <1>3, <1>4, NoInvitationEffect DEF StepOK

LEMMA TickOK == IInv /\ Tick => StepOK
<1> SUFFICES ASSUME IInv, Tick PROVE StepOK
  OBVIOUS
<1>1. IInv'
  BY DEF IInv, TypeOK, Tick, Time, RequestOK
<1> QED
  BY <1>1, NoInvitationEffect, NoAccessEffect DEF Tick, StepOK

LEMMA NextOK == IInv /\ Next => StepOK
<1> SUFFICES ASSUME IInv, Next PROVE StepOK
  OBVIOUS
<1>1. CASE Tick
  BY <1>1, TickOK
<1>2. ASSUME NEW w \in Worker, Inviting(w) PROVE StepOK
  <2>1. ASSUME NEW u \in User, NEW t \in Type, OpenInvite(w, u, t) PROVE StepOK
    BY <2>1, OpenInviteOK
  <2>2. ASSUME NEW i \in Invitation, CreateInvitation(w, i) PROVE StepOK
    BY <2>2, CreateOK
  <2>3. ASSUME NEW u \in User, NEW i \in Invitation, Resend(w, u, i) PROVE StepOK
    BY <2>3, LoadOK DEF Resend
  <2> QED
    BY <1>2, <2>1, <2>2, <2>3, SendOK DEF Inviting
<1>3. ASSUME NEW w \in Worker, Answering(w) PROVE StepOK
  <2>1. ASSUME NEW u \in User, NEW i \in Invitation, OpenAccept(w, u, i) PROVE StepOK
    BY <2>1, LoadOK DEF OpenAccept
  <2>2. ASSUME NEW u \in User, NEW i \in Invitation, OpenRevoke(w, u, i) PROVE StepOK
    BY <2>2, LoadOK DEF OpenRevoke
  <2> QED
    BY <1>3, <2>1, <2>2, AcceptOK, RevokeOK DEF Answering
<1>4. ASSUME NEW w \in Worker, Changing(w) PROVE StepOK
  <2>1. ASSUME NEW u \in User, NEW v \in User, OpenChange(w, u, v) PROVE StepOK
    BY <2>1, OpenChangeOK
  <2>2. ASSUME NEW b \in BOOLEAN, ChangeAccess(w, b) PROVE StepOK
    BY <2>2, ChangeOK
  <2>3. ASSUME NEW u \in User, OpenLeave(w, u) PROVE StepOK
    BY <2>3, OpenLeaveOK
  <2> QED
    BY <1>4, <2>1, <2>2, <2>3, LeaveOK DEF Changing
<1> QED
  BY <1>1, <1>2, <1>3, <1>4, AbortOK DEF Next

LEMMA InitOK == Init => IInv
<1> SUFFICES ASSUME Init PROVE IInv
  OBVIOUS
<1>1. \A w \in Worker : req[w] = Idle
  BY DEF Init
<1>2. req \in [Worker -> Request]
  BY IdleType DEF Init
<1>3. \A w \in Worker : RequestOK(req[w], given)
  BY <1>1, IdleOK
<1> QED
  BY <1>1, <1>2, <1>3 DEF Init, IInv, TypeOK, RequestOK, AccessRow, Time

LEMMA StutterOK == IInv /\ UNCHANGED vars => IInv'
BY DEF IInv, TypeOK, RequestOK, vars

(* The inductive invariant.                                                *)
THEOREM SharingInvariant == Spec => []IInv
BY InitOK, NextOK, StutterOK, PTL DEF Spec, StepOK

(* The types of the accesses, invitations and requests.                    *)
THEOREM TypeCorrect == Spec => []TypeOK
<1>1. IInv => TypeOK
  BY DEF IInv
<1> QED
  BY <1>1, SharingInvariant, PTL

(* Used and revoked invitations are forgotten only by late saves, whatever *)
(* the number of users, invitations and concurrent requests.               *)
THEOREM InvitationsLostLate == Spec => InvitationLostOnlyToLateStep
<1>1. IInv /\ [Next]_vars => [InvitationEffect]_vars
  BY NextOK DEF StepOK
<1> QED
  BY <1>1, SharingInvariant, PTL DEF Spec, InvitationLostOnlyToLateStep, InvitationEffect

(* Rights come from invitations and editors only, and go by them or by     *)
(* leaving.                                                                *)
THEOREM RightsComeFromEditors == Spec => RightsChangeHands
<1>1. IInv /\ [Next]_vars => [RightsEffect]_vars
  BY NextOK DEF StepOK
<1> QED
  BY <1>1, SharingInvariant, PTL DEF Spec, RightsChangeHands, RightsEffect

(* Only one who is an editor, or was when the request began, takes the     *)
(* last editor from a plan.                                                *)
THEOREM EditorsOnlyByEditors == Spec => PlanKeepsEditor
<1>1. IInv /\ [Next]_vars => [EditorEffect]_vars
  BY NextOK DEF StepOK
<1> QED
  BY <1>1, SharingInvariant, PTL DEF Spec, PlanKeepsEditor, EditorEffect

(* The two ages agree, whatever TTL is, if it is what valid_only counts.   *)
THEOREM AgesAgree == Spec => []OutOfDateTogether
<1>1. ASSUME TypeOK, TTL = ListDays, NEW i \in Invitation, inv[i] # NoRow
      PROVE  \/ (IsValid(inv[i]) <=> ValidOnly(inv[i]))
             \/ clock = inv[i].created + TTL
             \/ inv[i].sent # Never /\ clock = inv[i].sent + TTL
  <2>1. /\ clock \in Nat /\ inv[i].created \in Nat /\ TTL \in Nat
        /\ inv[i].sent = Never \/ inv[i].sent \in Nat
    BY <1>1 DEF TypeOK, InvitationRow, Time
  <2> DEFINE c == inv[i].created
             s == inv[i].sent
  <2>2. CASE s = Never
    <3>1. (IsValid(inv[i]) <=> clock - c < TTL) /\ (ValidOnly(inv[i]) <=> c + ListDays >= clock)
      BY <2>2 DEF IsValid, ValidOnly
    <3> HIDE DEF c, s
    <3>2. c \in Nat
      BY <2>1 DEF c
    <3>3. \/ clock - c < TTL <=> c + TTL >= clock
          \/ clock = c + TTL
      BY <2>1, <3>2
    <3> QED
      BY <1>1, <3>1, <3>3 DEF c
  <2>3. CASE s # Never
    <3>1. /\ IsValid(inv[i]) <=> clock - (IF s > c THEN s ELSE c) < TTL
          /\ ValidOnly(inv[i]) <=> s + ListDays >= clock \/ c + ListDays >= clock
      BY <2>3 DEF IsValid, ValidOnly
    <3> HIDE DEF c, s
    <3>2. c \in Nat /\ s \in Nat
      BY <2>1, <2>3 DEF c, s
    <3>3. \/ clock - (IF s > c THEN s ELSE c) < TTL <=> s + TTL >= clock \/ c + TTL >= clock
          \/ clock = c + TTL
          \/ clock = s + TTL
      BY <2>1, <3>2
    <3> QED
      BY <1>1, <2>3, <3>1, <3>3 DEF c, s
  <2> QED
    BY <2>2, <2>3
<1>2. TypeOK => OutOfDateTogether
  BY <1>1 DEF OutOfDateTogether
<1> QED
  BY <1>2, TypeCorrect, PTL
=============================================================================
