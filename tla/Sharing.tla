------------------------------ MODULE Sharing ------------------------------
(***************************************************************************)
(* Sharing one plan: the accesses to it (easydmp.plan.views.access) and    *)
(* the invitations that give them (easydmp.invitation).                    *)
(*                                                                         *)
(* A request loads the row it is about, and a later step saves or deletes  *)
(* it: every column is written, and a row that is gone is inserted again.  *)
(* An access is told from a later one of the same user by its primary key. *)
(***************************************************************************)
EXTENDS Naturals, FiniteSets

CONSTANTS
    User, NoUser,
    Superuser,         \* may do with every plan what an editor may
    Adder,             \* who started the plan and is its first editor
    Invitation, NoInv, \* uuids
    NoRow,             \* no row under that key
    Never,             \* sent = NULL
    Worker,            \* concurrent requests
    Serves,            \* per worker, the kinds of requests it may get
    TTL,               \* EASYDMP_INVITATION_TTL, in days
    ListDays,          \* the days valid_only counts, whatever TTL is
    MaxClock,          \* bound: the days that pass
    MaxSerial          \* bound: the accesses that are created

ASSUME SharingAssumption ==
    /\ NoUser \notin User /\ Superuser \subseteq User /\ Adder \in User
    /\ NoInv \notin Invitation
    /\ TTL \in Nat /\ ListDays \in Nat /\ MaxClock \in Nat
    /\ MaxSerial \in Nat \ {0}
    /\ Never \notin Nat
    /\ Serves \in [Worker -> SUBSET {"create", "resend", "accept", "revoke",
                                     "change", "leave"}]

Time == Nat
Type == {"edit", "view"}
AccessRow == [pk : Nat, may_edit : BOOLEAN]
InvitationRow == [type : Type, created : Time, sent : Time \union {Never}, used : BOOLEAN]

ASSUME NoRowAssumption == NoRow \notin AccessRow \union InvitationRow

VARIABLES
    clock,    \* the day
    serial,   \* the last primary key of an access
    access,   \* the table of accesses to the plan, unique per user
    given,    \* the uuids given so far
    inv,      \* the table of invitations to the plan
    req       \* per worker, the request it serves

vars == <<clock, serial, access, given, inv, req>>

PC == {"idle", "create", "send", "accept", "revoke", "change", "leave"}
Idle == [pc |-> "idle", user |-> NoUser, editor |-> FALSE, type |-> "view",
         inv |-> NoInv, row |-> NoRow, who |-> NoUser, held |-> NoRow]

Has(u) == access[u] # NoRow
Editors == {u \in User : Has(u) /\ access[u].may_edit}

(* PlanQuerySet.editable.                                                  *)
Editable(u) == u \in Superuser \/ u \in Editors

(***************************************************************************)
(* How old an invitation may be                                            *)
(***************************************************************************)
(* Mutant: the date of the last mail alone, once there is one.             *)
SentRecently(row) ==
    clock - (IF row.sent # Never THEN row.sent ELSE row.created) < TTL

(* AbstractEmailInvitation.is_valid.                                       *)
IsValid(row) ==
    LET from == IF row.sent # Never /\ row.sent > row.created THEN row.sent ELSE row.created
    IN  clock - from < TTL

(* InvitationQuerySet.valid_only.                                          *)
ValidOnly(row) ==
    \/ row.sent # Never /\ row.sent + ListDays >= clock
    \/ row.created + ListDays >= clock

(***************************************************************************)
(* Requests                                                                *)
(***************************************************************************)
Start(w, kind, r) ==
    /\ req[w].pc = "idle"
    /\ kind \in Serves[w]
    /\ req' = [req EXCEPT ![w] = r]
    /\ UNCHANGED <<clock, serial, access, given, inv>>

Finish(w) == req' = [req EXCEPT ![w] = Idle]

(* An error answer, a mail that cannot be sent, a worker that is killed.   *)
Abort(w) ==
    /\ req[w].pc # "idle"
    /\ Finish(w)
    /\ UNCHANGED <<clock, serial, access, given, inv>>

(* get_object() of a view on an invitation: no view asks who the user is,  *)
(* whether the invitation is out of date or whether it was used.           *)
LoadInvitation(w, u, i, kind, pc) ==
    /\ inv[i] # NoRow
    /\ Start(w, kind, [Idle EXCEPT !.pc = pc, !.user = u, !.inv = i, !.row = inv[i],
                                   !.type = inv[i].type])

(* Model.save() of an invitation that was loaded as row: an insertion      *)
(* writes created anew (auto_now_add).                                     *)
SaveInvitation(i, row) ==
    inv' = [inv EXCEPT ![i] = IF inv[i] = NoRow THEN [row EXCEPT !.created = clock] ELSE row]

(***************************************************************************)
(* Inviting: for each address a row, and then a mail                       *)
(***************************************************************************)
OpenInvite(w, u, t) ==
    /\ Editable(u)
    /\ Start(w, "create", [Idle EXCEPT !.pc = "create", !.user = u, !.type = t,
                                       !.editor = TRUE])

(* Mutant: created is left NULL.                                           *)
CreateUndated(w, i) ==
    LET row == [type |-> req[w].type, created |-> Never, sent |-> Never, used |-> FALSE]
    IN  /\ req[w].pc = "create"
        /\ i \notin given
        /\ given' = given \union {i}
        /\ inv' = [inv EXCEPT ![i] = row]
        /\ req' = [req EXCEPT ![w].pc = "send", ![w].inv = i, ![w].row = row]
        /\ UNCHANGED <<clock, serial, access>>

CreateInvitation(w, i) ==
    LET row == [type |-> req[w].type, created |-> clock, sent |-> Never, used |-> FALSE]
    IN  /\ req[w].pc = "create"
        /\ i \notin given
        /\ given' = given \union {i}
        /\ inv' = [inv EXCEPT ![i] = row]
        /\ req' = [req EXCEPT ![w].pc = "send", ![w].inv = i, ![w].row = row]
        /\ UNCHANGED <<clock, serial, access>>

(* AbstractEmailInvitation.send_invitation, of a new one or once more.     *)
(* After a new one the form may hold another address.                      *)
SendInvitation(w) ==
    /\ req[w].pc = "send"
    /\ SaveInvitation(req[w].inv, [req[w].row EXCEPT !.sent = clock])
    /\ req' \in {[req EXCEPT ![w] = Idle]}
                \union (IF req[w].editor THEN {[req EXCEPT ![w].pc = "create"]} ELSE {})
    /\ UNCHANGED <<clock, serial, access, given>>

Resend(w, u, i) == LoadInvitation(w, u, i, "resend", "send")

(***************************************************************************)
(* Accepting and revoking                                                  *)
(***************************************************************************)
OpenAccept(w, u, i) == LoadInvitation(w, u, i, "accept", "accept")
OpenRevoke(w, u, i) == LoadInvitation(w, u, i, "revoke", "revoke")

(* Plan.add_user_to_editors, add_user_to_viewers: update_or_create.        *)
AddUser(u, may_edit) ==
    IF Has(u)
    THEN /\ access' = [access EXCEPT ![u].may_edit = may_edit]
         /\ UNCHANGED serial
    ELSE /\ serial < MaxSerial
         /\ serial' = serial + 1
         /\ access' = [access EXCEPT ![u] = [pk |-> serial + 1, may_edit |-> may_edit]]

(* accept_invitation of both kinds of invitation, one transaction.         *)
AcceptInvitation(w) ==
    /\ req[w].pc = "accept"
    /\ SaveInvitation(req[w].inv, [req[w].row EXCEPT !.used = TRUE])
    /\ AddUser(req[w].user, req[w].row.type = "edit")
    /\ Finish(w)
    /\ UNCHANGED <<clock, given>>

(* Mutant: a used invitation is deleted too.                               *)
RevokeEvenUsed(w) ==
    /\ req[w].pc = "revoke"
    /\ inv' = [inv EXCEPT ![req[w].inv] = NoRow]
    /\ Finish(w)
    /\ UNCHANGED <<clock, serial, access, given>>

(* revoke_invitation: used or not is what the row said when it was loaded. *)
RevokeInvitation(w) ==
    /\ req[w].pc = "revoke"
    /\ inv' = [inv EXCEPT ![req[w].inv] = IF req[w].row.used THEN @ ELSE NoRow]
    /\ Finish(w)
    /\ UNCHANGED <<clock, serial, access, given>>

(***************************************************************************)
(* Changing an access, one's own too, and leaving                          *)
(***************************************************************************)
(* Mutant: who may see the plan may change accesses.                       *)
OpenChangeAsViewer(w, u, v) ==
    /\ Has(u) /\ Has(v)
    /\ Start(w, "change", [Idle EXCEPT !.pc = "change", !.user = u, !.who = v,
                                       !.held = access[v], !.editor = u \in Editors])

(* UpdatePlanAccessView.get_queryset, dispatch and test_func.              *)
OpenChange(w, u, v) ==
    /\ u \in Editors
    /\ Has(v)
    /\ Start(w, "change", [Idle EXCEPT !.pc = "change", !.user = u, !.who = v,
                                       !.held = access[v], !.editor = TRUE])

(* UpdatePlanAccessView.form_valid: nothing is saved if the loaded access  *)
(* is as wanted; saving one that is gone inserts it again under its key,   *)
(* unless the user has got another one meanwhile (an IntegrityError).      *)
ChangeAccess(w, may_edit) ==
    LET held == req[w].held
        v == req[w].who
    IN  /\ req[w].pc = "change"
        /\ IF may_edit = held.may_edit
           THEN UNCHANGED access
           ELSE /\ Has(v) => access[v].pk = held.pk
                /\ access' = [access EXCEPT ![v] = [held EXCEPT !.may_edit = may_edit]]
        /\ Finish(w)
        /\ UNCHANGED <<clock, serial, given, inv>>

(* DeletePlanAccessView: the queryset is the accesses of the user.         *)
OpenLeave(w, u) ==
    /\ Has(u)
    /\ Start(w, "leave", [Idle EXCEPT !.pc = "leave", !.user = u, !.who = u,
                                      !.held = access[u]])

(* Mutant: the access of the user is deleted, whichever it is now.         *)
LeaveByUser(w) ==
    /\ req[w].pc = "leave"
    /\ access' = [access EXCEPT ![req[w].who] = NoRow]
    /\ Finish(w)
    /\ UNCHANGED <<clock, serial, given, inv>>

Leave(w) ==
    LET v == req[w].who
    IN  /\ req[w].pc = "leave"
        /\ access' = [access EXCEPT ![v] =
                         IF Has(v) /\ access[v].pk = req[w].held.pk THEN NoRow ELSE @]
        /\ Finish(w)
        /\ UNCHANGED <<clock, serial, given, inv>>

Tick ==
    /\ clock < MaxClock
    /\ clock' = clock + 1
    /\ UNCHANGED <<serial, access, given, inv, req>>

Init ==
    /\ clock = 0
    /\ serial = 1
    /\ access = [u \in User |-> IF u = Adder THEN [pk |-> 1, may_edit |-> TRUE] ELSE NoRow]
    /\ given = {}
    /\ inv = [i \in Invitation |-> NoRow]
    /\ req = [w \in Worker |-> Idle]

Inviting(w) ==
    \/ \E u \in User, t \in Type : OpenInvite(w, u, t)
    \/ \E i \in Invitation : CreateInvitation(w, i)
    \/ SendInvitation(w)
    \/ \E u \in User, i \in Invitation : Resend(w, u, i)

Answering(w) ==
    \/ \E u \in User, i \in Invitation : OpenAccept(w, u, i)
    \/ AcceptInvitation(w)
    \/ \E u \in User, i \in Invitation : OpenRevoke(w, u, i)
    \/ RevokeInvitation(w)

Changing(w) ==
    \/ \E u, v \in User : OpenChange(w, u, v)
    \/ \E may_edit \in BOOLEAN : ChangeAccess(w, may_edit)
    \/ \E u \in User : OpenLeave(w, u)
    \/ Leave(w)

Next ==
    \/ \E w \in Worker : Inviting(w) \/ Answering(w) \/ Changing(w) \/ Abort(w)
    \/ Tick

Spec == Init /\ [][Next]_vars

(***************************************************************************)
(* Properties                                                              *)
(***************************************************************************)
Request ==
    [pc : PC, user : User \union {NoUser}, editor : BOOLEAN, type : Type,
     inv : Invitation \union {NoInv}, row : InvitationRow \union {NoRow},
     who : User \union {NoUser}, held : AccessRow \union {NoRow}]

(* The types; and a request that is past its first query holds what it     *)
(* loaded.                                                                 *)
TypeOK ==
    /\ clock \in Time
    /\ serial \in Nat
    /\ access \in [User -> AccessRow \union {NoRow}]
    /\ given \subseteq Invitation
    /\ inv \in [Invitation -> InvitationRow \union {NoRow}]
    /\ req \in [Worker -> Request]
    /\ \A w \in Worker :
         /\ req[w].pc # "idle" => req[w].user \in User
         /\ req[w].pc \in {"send", "accept", "revoke"} =>
                req[w].inv \in Invitation /\ req[w].row # NoRow
         /\ req[w].pc \in {"change", "leave"} => req[w].who \in User /\ req[w].held # NoRow

Acts(w) == req'[w] # req[w]

Used(i) == inv[i] # NoRow /\ inv[i].used

(* That an invitation was used is forgotten, its row deleted or written    *)
(* over, only by a request that had loaded it before it was used; and a    *)
(* revoked one comes back only by such a late save, never because it is    *)
(* resent or accepted after the revocation.  Hazard: revoke, accept and    *)
(* resend save or delete what they loaded (invitation/models.py).          *)
InvitationLostOnlyToLateStep ==
    [][\A i \in Invitation :
        /\ Used(i) /\ ~Used(i)' =>
               \E w \in Worker : Acts(w) /\ req[w].inv = i /\ ~req[w].row.used
        /\ i \in given /\ inv[i] = NoRow /\ inv[i]' # NoRow =>
               \E w \in Worker : Acts(w) /\ req[w].inv = i /\ req[w].pc \in {"send", "accept"}]_vars

(* A user gets a right only by accepting an invitation to it, or from one  *)
(* who was an editor when the access was loaded; loses the right to edit   *)
(* only to such a one or by accepting an invitation to view; and loses the *)
(* access only by leaving, by a request about that very access and not an  *)
(* earlier one.  Hazard: the saves of changed accesses, the primary keys   *)
(* of accesses taken anew (plan/views/access.py).                          *)
RightsChangeHands ==
    [][\A u \in User : access'[u] # access[u] =>
        \E w \in Worker : Acts(w) /\
            IF access'[u] = NoRow
            THEN req[w].pc = "leave" /\ req[w].user = u /\ req[w].held.pk = access[u].pk
            ELSE \/ /\ req[w].pc = "accept" /\ req[w].user = u
                    /\ access'[u].may_edit <=> req[w].row.type = "edit"
                 \/ req[w].pc = "change" /\ req[w].who = u /\ req[w].editor]_vars

(* The last editor is lost only by an act of an editor, or of one who was  *)
(* an editor when the request began and is not any more: two editors who   *)
(* demote each other leave a plan nobody may edit, but a viewer, or an     *)
(* invitation alone, never does.  Hazard: plan/views/access.py guards a    *)
(* change when the access is loaded, not when it is saved.                 *)
PlanKeepsEditor ==
    [][Editors # {} /\ Editors' = {} =>
        \E w \in Worker : /\ Acts(w)
                          /\ \/ req[w].user \in Editors
                             \/ req[w].pc = "change" /\ req[w].editor]_vars

(* The two computations of an invitation's age agree, save at the instant  *)
(* the days are over: what the sharing page lists is what the list of      *)
(* invitations calls valid.  Rows saved late or inserted again put created *)
(* and sent in any order.  Hazard: is_valid and valid_only compute it      *)
(* apart (invitation/models.py), and agree only if TTL is the default.     *)
OutOfDateTogether ==
    TTL = ListDays => \A i \in Invitation : inv[i] # NoRow =>
        \/ (IsValid(inv[i]) <=> ValidOnly(inv[i]))
        \/ clock \in {inv[i].created + TTL} \union
                     (IF inv[i].sent = Never THEN {} ELSE {inv[i].sent + TTL})
=============================================================================
