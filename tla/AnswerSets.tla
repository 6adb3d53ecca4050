---------------------------- MODULE AnswerSets ----------------------------
(***************************************************************************)
(* The answerset rows of easydmp.plan: the tree of AnswerSet rows a plan   *)
(* keeps for the tree of sections of its template, and every operation     *)
(* that creates, copies, skips, repairs or removes rows.                   *)
(*                                                                         *)
(* A web request is a worker that loads a row, and later writes it back:   *)
(* each database transaction of the request is one action, so requests     *)
(* interleave between transactions as they do under Django without         *)
(* ATOMIC_REQUESTS.  An instance saved after its row was deleted is        *)
(* inserted again, as Model.save() does.                                   *)
(***************************************************************************)
EXTENDS Naturals, FiniteSets

CONSTANTS
    Plan,             \* primary keys a plan can get
    Section,          \* the sections of the one template
    NoSection,        \* super_section of a top-level section
    Super,            \* Section.super_section
    Above,            \* the super sections of a section, transitively
    Named,            \* sections with an identifier_question
    Name, NoName,     \* what an identifier question can be answered with
    NoRow,            \* a null parent, and the row of an idle worker
    Worker,           \* concurrent requests
    OptionalAtFirst,  \* the sections that start out optional
    RepeatableAtFirst,\* the sections that start out repeatable
    Editable,         \* sections whose two flags an administrator may change
    Deletable,        \* the plans that may be deleted
    MaxSerial         \* bound on the creations of rows in one plan

ASSUME TreeAssumption ==
    /\ NoSection \notin Section
    /\ Super \in [Section -> Section \union {NoSection}]
    /\ Above \in [Section -> SUBSET Section]
    /\ \A s \in Section :
         /\ s \notin Above[s]
         /\ Above[s] = IF Super[s] = NoSection
                       THEN {} ELSE {Super[s]} \union Above[Super[s]]
         /\ \A a \in Above[s] : Above[a] \subseteq Above[s]

ASSUME FlagAssumption ==
    /\ Named \subseteq Section
    /\ OptionalAtFirst \subseteq Section
    /\ RepeatableAtFirst \subseteq Section
    /\ Editable \subseteq Section

ASSUME BoundAssumption ==
    /\ MaxSerial \in Nat
    /\ IsFiniteSet(Section)

(***************************************************************************)
(* Rows.  A primary key is the plan, the serial number of the creation     *)
(* that inserted the row and its section: one creation inserts a row for   *)
(* a section and for the sections below it.  Serial numbers order siblings *)
(* as primary keys do.  "anc" holds the keys of all ancestors, what the    *)
(* chain of parent foreign keys leads to; "filled" is data # {}; "name"    *)
(* is the choice data holds for the identifier question.                   *)
(***************************************************************************)
Key == [plan : Plan, serial : Nat, section : Section]
Identifier == (Nat \ {0}) \union Name
Row == [plan : Plan, serial : Nat, section : Section,
        parent : Key \union {NoRow}, anc : SUBSET Key,
        ident : Identifier, skipped : BOOLEAN, filled : BOOLEAN,
        name : Name \union {NoName}]

ASSUME ModelValueAssumption ==
    NoRow \notin Key /\ NoRow \notin Row /\ NoName \notin Name

KeyOf(r) == [plan |-> r.plan, serial |-> r.serial, section |-> r.section]

VARIABLES
    status,      \* a plan: "unused", "live" or "deleted"
    rows,        \* the table plan_answerset
    serial,      \* per plan, the next serial number
    optional,    \* Section.optional
    repeatable,  \* Section.repeatable
    req          \* per worker, the request it is serving

vars == <<status, rows, serial, optional, repeatable, req>>

PC == {"idle", "add_fix", "add_last", "sibling", "unskip", "create",
       "remove_fix", "remove_count", "convert", "delete", "answer", "validate"}
Result == {"none", "ok", "noop", "refused"}
Idle == [pc |-> "idle", row |-> NoRow, result |-> "none"]

(***************************************************************************)
(* Queries                                                                 *)
(***************************************************************************)
Tree(s) == {d \in Section : d = s \/ s \in Above[d]}
Subsections(s) == {c \in Section : Super[c] = s}

Live(R, k) == \E r \in R : KeyOf(r) = k
RowsOf(R, k) == {r \in R : KeyOf(r) = k}
SlotOf(r) == [plan |-> r.plan, section |-> r.section, parent |-> r.parent]
Siblings(R, slot) == {r \in R : SlotOf(r) = slot}
Children(R, k) == {r \in R : r.parent = k}
FirstOf(G) == CHOOSE r \in G : \A x \in G : r.serial <= x.serial
LastOf(G) == CHOOSE r \in G : \A x \in G : x.serial <= r.serial

(* Mutant: the count itself, from zero.                                    *)
CountFromZero(R, p, s) == Cardinality({r \in R : r.plan = p /\ r.section = s})

(* AnswerSet.generate_next_identifier: one more than the rows the plan has *)
(* for the section, under whatever parents.                                *)
NextIdentifier(R, p, s) ==
    Cardinality({r \in R : r.plan = p /\ r.section = s}) + 1

(* AnswerSet.get_identifier, run by every save().                          *)
GetIdentifier(R, r) ==
    IF r.section \notin Named THEN r.ident
    ELSE IF r.name # NoName THEN r.name
    ELSE NextIdentifier(R, r.plan, r.section)

(***************************************************************************)
(* What the database refuses: the two unique constraints of AnswerSet and  *)
(* its foreign keys to the plan and to the parent.                         *)
(***************************************************************************)
(* Mutant: no foreign key to the parent.                                   *)
AcceptsOrphan(R, r) ==
    /\ status[r.plan] = "live"
    /\ \A x \in R : SlotOf(x) = SlotOf(r) /\ x.ident = r.ident => KeyOf(x) = KeyOf(r)

Accepts(R, r) ==
    /\ status[r.plan] = "live"
    /\ r.parent = NoRow \/ Live(R, r.parent)
    /\ \A x \in R : SlotOf(x) = SlotOf(r) /\ x.ident = r.ident => KeyOf(x) = KeyOf(r)

(* Model.save(): every column is written; a row that is gone is inserted.  *)
Saved(R, r) ==
    LET stamped == [r EXCEPT !.ident = GetIdentifier(R, r)]
    IN  {x \in R : KeyOf(x) # KeyOf(r)} \union {stamped}
SaveAccepted(R, r) == Accepts(R, [r EXCEPT !.ident = GetIdentifier(R, r)])

(* Mutant: the rows below stay.                                            *)
NoCascade(R, D) == D

(* on_delete=CASCADE of AnswerSet.parent.                                  *)
Cascade(R, D) ==
    {r \in R : r \in D \/ \E d \in D : KeyOf(d) \in r.anc}

(***************************************************************************)
(* Creating rows.  A slot is a plan, a section and a parent; filling it    *)
(* inserts a row for the section and for every section below it            *)
(* (create_answerset, ensure_answersets and get_answersets_for_section,    *)
(* then add_children).  "how" tells the three apart in the first row: only *)
(* get_answersets_for_section leaves the row of an optional section        *)
(* unskipped, and only create_answerset saves it once.  f gives each of    *)
(* the slots one transaction fills its serial number.                      *)
(***************************************************************************)
Slot == [plan : Plan, section : Section, parent : Key \union {NoRow}]

(* Mutant: Section.optional is not looked at.                              *)
BornSkippedAnyway(slot, how, d) == d # slot.section \/ how # "get"

BornSkipped(slot, how, d) == d \in optional /\ (d # slot.section \/ how # "get")

RowKey(slot, n, d) == [plan |-> slot.plan, serial |-> n, section |-> d]

NewRow(R, slots, f, how, slot, d) ==
    LET over == UNION {{slot.parent} \union r.anc : r \in RowsOf(R, slot.parent)}
        under == Above[d] \intersect Tree(slot.section)
        earlier == {x \in slots : f[x] < f[slot] /\ d \in Tree(x.section)}
        skips == BornSkipped(slot, how, d)
        twice == skips /\ d \in Named /\ (d # slot.section \/ how = "ensure")
    IN  [plan |-> slot.plan, serial |-> f[slot], section |-> d,
         parent |-> IF d = slot.section THEN slot.parent
                    ELSE RowKey(slot, f[slot], Super[d]),
         anc |-> over \union {RowKey(slot, f[slot], e) : e \in under},
         ident |-> NextIdentifier(R, slot.plan, d) + Cardinality(earlier)
                     + (IF twice THEN 1 ELSE 0),
         skipped |-> skips, filled |-> FALSE, name |-> NoName]

NewRows(R, slots, f, how) ==
    UNION {{NewRow(R, slots, f, how, slot, d) : d \in Tree(slot.section)} : slot \in slots}

Numberings(slots, n) ==
    {f \in [slots -> n .. n + Cardinality(slots) - 1] :
        \A a, b \in slots : f[a] = f[b] => a = b}

(***************************************************************************)
(* fix_answersets on a group of siblings: purge_wrongly_skipped_answersets *)
(* then remove_extraneous_answersets_for_singleton_sections.               *)
(***************************************************************************)
(* Mutants: nothing is purged; the skipped rows are kept and not the rest. *)
PurgedNothing(G) == G
PurgedUnskipped(G) ==
    LET skipped == {r \in G : r.skipped}
    IN  IF skipped # {} THEN {FirstOf(skipped)} ELSE G

Purged(G) ==
    LET unskipped == {r \in G : ~r.skipped}
    IN  IF unskipped # {} \/ G = {} THEN unskipped ELSE {FirstOf(G)}

(* Mutant: the first row is kept, whether or not it holds answers.         *)
KeptFirst(G, s) ==
    LET left == Purged(G)
    IN  IF s \in repeatable \/ Cardinality(left) <= 1 THEN left ELSE {FirstOf(left)}

Kept(G, s) ==
    LET left == Purged(G)
        filled == {r \in left : r.filled}
    IN  IF s \in repeatable \/ Cardinality(left) <= 1 THEN left
        ELSE IF filled # {} THEN filled ELSE {FirstOf(left)}

(* MultipleObjectsReturned: several rows hold answers, "panic".            *)
Ambiguous(G, s) == s \notin repeatable /\ Cardinality(Kept(G, s)) > 1

(* Mutant: a row that gets answers, or is taken again, stays skipped.      *)
StillSkipped(r) == r

Unskipped(r) == [r EXCEPT !.skipped = FALSE]
Converts(r) == r.skipped /\ r.section \notin optional

FixPossible(R, slots) ==
    \A slot \in slots :
        LET G == Siblings(R, slot)
        IN  /\ ~Ambiguous(G, slot.section)
            /\ \A r \in Kept(G, slot.section) :
                   Converts(r) => SaveAccepted(R, Unskipped(r))

AfterFix(R, slots) ==
    LET doomed == UNION {Siblings(R, slot) \ Kept(Siblings(R, slot), slot.section)
                           : slot \in slots}
        fixed(r) == IF SlotOf(r) \in slots /\ Converts(r)
                    THEN [Unskipped(r) EXCEPT !.ident = GetIdentifier(R, r)] ELSE r
    IN  {fixed(r) : r \in R \ Cascade(R, doomed)}

(* Mutant: a row is created whether or not one is there.                   *)
MissingAlways(R, slots) ==
    {slot \in slots : slot.parent = NoRow \/ Live(AfterFix(R, slots), slot.parent)}

(* get_answersets_for_section creates what is missing.                     *)
Missing(R, slots) ==
    {slot \in slots : /\ Siblings(R, slot) = {}
                      /\ slot.parent = NoRow \/ Live(AfterFix(R, slots), slot.parent)}

(* One transaction that repairs the given slots of plan p.                 *)
Repair(p, slots) ==
    LET missing == Missing(rows, slots)
        left == AfterFix(rows, slots)
    IN  /\ FixPossible(rows, slots)
        /\ serial[p] + Cardinality(missing) <= MaxSerial
        /\ \E f \in Numberings(missing, serial[p]) :
               rows' = left \union NewRows(left, missing, f, "get")
        /\ serial' = [serial EXCEPT ![p] = @ + Cardinality(missing)]

(***************************************************************************)
(* Plans                                                                   *)
(***************************************************************************)
(* Plan.save of a new plan, up to add_missing_answersets.                  *)
CreatePlan(p) ==
    /\ status[p] = "unused"
    /\ status' = [status EXCEPT ![p] = "live"]
    /\ UNCHANGED <<rows, serial, optional, repeatable, req>>

(* Plan.delete cascades to every row of the plan.                          *)
DeletePlan(p) ==
    /\ p \in Deletable
    /\ status[p] = "live"
    /\ status' = [status EXCEPT ![p] = "deleted"]
    /\ rows' = {r \in rows : r.plan # p}
    /\ UNCHANGED <<serial, optional, repeatable, req>>

(* The rows add_children visits when ensure_answersets calls it on the     *)
(* last row of each top-level section: it skips from a row with children   *)
(* to the children of those children.                                      *)
Visited(R, r) ==
    {x \in R : /\ x = r \/ KeyOf(r) \in x.anc
               /\ \/ Cardinality(Above[x.section]) % 2 = 0
                  \/ Children(R, KeyOf(x)) = {}}

EmptySlots(p) ==
    LET tops == {s \in Section : Super[s] = NoSection}
        mine == {r \in rows : r.plan = p}
        top(s) == [plan |-> p, section |-> s, parent |-> NoRow]
        below(x) == {[plan |-> p, section |-> c, parent |-> KeyOf(x)]
                       : c \in Subsections(x.section)}
        last(s) == LastOf(Siblings(mine, top(s)))
        slots(s) == IF Siblings(mine, top(s)) = {} THEN {top(s)}
                    ELSE UNION {below(x) : x \in Visited(mine, last(s))}
    IN  {slot \in UNION {slots(s) : s \in tops} : Siblings(mine, slot) = {}}

(* Plan.add_missing_answersets: a new plan, and every display of a plan.   *)
AddMissingAnswersets(p) ==
    LET slots == EmptySlots(p)
    IN  /\ status[p] = "live"
        /\ slots # {}
        /\ serial[p] + Cardinality(slots) <= MaxSerial
        /\ \E f \in Numberings(slots, serial[p]) :
               rows' = rows \union NewRows(rows, slots, f, "ensure")
        /\ serial' = [serial EXCEPT ![p] = @ + Cardinality(slots)]
        /\ UNCHANGED <<status, optional, repeatable, req>>

(* fix_children of one top-level row; fix_all_answersets runs it on each   *)
(* of them when the text of a plan is generated.                           *)
FixChildren(top) ==
    LET under == {x \in rows : x = top \/ KeyOf(top) \in x.anc}
        slots == UNION {{[plan |-> x.plan, section |-> c, parent |-> KeyOf(x)]
                           : c \in Subsections(x.section)} : x \in under}
    IN  /\ top.parent = NoRow
        /\ Repair(top.plan, slots)
        /\ UNCHANGED <<status, optional, repeatable, req>>

(***************************************************************************)
(* Copying a plan (Plan.clone_answersets, for a new version and for "save  *)
(* as").  Every row is first inserted without a parent, its identifier     *)
(* counted afresh; then the rows below others get their parent and are     *)
(* saved again.  AnswerSet.clone copies neither skipped nor identifier.    *)
(***************************************************************************)
FirstIdentifier(r) ==
    IF r.section \in Named /\ r.name # NoName THEN r.name
    ELSE Cardinality({x \in rows : /\ x.plan = r.plan /\ x.section = r.section
                                   /\ x.serial <= r.serial})

SecondIdentifier(r) ==
    IF r.parent # NoRow /\ r.section \in Named /\ r.name = NoName
    THEN NextIdentifier(rows, r.plan, r.section) ELSE FirstIdentifier(r)

(* Mutant: the copy stays below the row it was copied from.                *)
SameKey(k, q) == k

Rekey(k, q) == [k EXCEPT !.plan = q]

Copy(r, q) ==
    [r EXCEPT !.plan = q,
              !.parent = IF r.parent = NoRow THEN NoRow ELSE Rekey(r.parent, q),
              !.anc = {Rekey(k, q) : k \in r.anc},
              !.ident = SecondIdentifier(r),
              !.skipped = FALSE]

(* What the unique constraints say of the two passes.                      *)
Clonable(p) ==
    LET R == {r \in rows : r.plan = p}
    IN  \A a, b \in R :
          a # b /\ a.section = b.section =>
            /\ FirstIdentifier(a) # FirstIdentifier(b)
            /\ a.parent = b.parent => SecondIdentifier(a) # SecondIdentifier(b)

ClonePlan(p, q) ==
    /\ status[p] = "live"
    /\ status[q] = "unused"
    /\ Clonable(p)
    /\ status' = [status EXCEPT ![q] = "live"]
    /\ rows' = rows \union {Copy(r, q) : r \in {x \in rows : x.plan = p}}
    /\ serial' = [serial EXCEPT ![q] = serial[p]]
    /\ UNCHANGED <<optional, repeatable, req>>

(***************************************************************************)
(* Requests                                                                *)
(***************************************************************************)
(* The view (or the admin page) fetches the row the request is about.      *)
Load(w, r, pc) ==
    /\ req[w].pc = "idle"
    /\ req' = [req EXCEPT ![w] = [pc |-> pc, row |-> r, result |-> "none"]]
    /\ UNCHANGED <<status, rows, serial, optional, repeatable>>

Finish(w, result) ==
    req' = [req EXCEPT ![w] = [Idle EXCEPT !.result = result]]

Goto(w, pc) == req' = [req EXCEPT ![w].pc = pc]

(* A transaction the database or the code refuses.                         *)
Refused(w) ==
    Finish(w, "refused") /\ UNCHANGED <<status, rows, serial, optional, repeatable>>

(* A worker is killed, between two transactions or while it waits.         *)
Crash(w) ==
    /\ Finish(w, "none")
    /\ UNCHANGED <<status, rows, serial, optional, repeatable>>

(* The first transaction of add_answerset and remove_answerset: repair the *)
(* group of the row, then go on only for an optional, repeatable section.  *)
Fix(w, next) ==
    LET slot == SlotOf(req[w].row)
        slots == {slot}
        possible == /\ status[slot.plan] = "live"
                    /\ slot.parent = NoRow \/ Live(rows, slot.parent)
                    /\ FixPossible(rows, slots)
    IN  \/ /\ possible
           /\ Repair(slot.plan, slots)
           /\ IF slot.section \in repeatable \intersect optional
              THEN Goto(w, next) ELSE Finish(w, "noop")
           /\ UNCHANGED <<status, optional, repeatable>>
        \/ ~possible /\ Refused(w)

AddAnswerSet(w, r) == Load(w, r, "add_fix")
AddFix(w) == req[w].pc = "add_fix" /\ Fix(w, "add_last")

(* AnswerSet.add_sibling, on the last sibling or, from the admin, on any   *)
(* row: what it reads.  A skipped sibling is taken as it is read here.     *)
AddSibling(w) ==
    LET row == req[w].row
        G == Siblings(rows, SlotOf(row))
        skipped == {x \in G : x.skipped}
        n == NextIdentifier(rows, row.plan, row.section)
    IN  /\ req[w].pc \in {"add_last", "sibling"}
        /\ IF req[w].pc = "add_last" /\ G = {} THEN Finish(w, "refused")
           ELSE IF row.section \notin repeatable THEN Finish(w, "noop")
           ELSE IF row.section \in optional /\ skipped # {}
           THEN req' = [req EXCEPT ![w].pc = "unskip", ![w].row = FirstOf(skipped)]
           ELSE req' = [req EXCEPT ![w].pc = "create", ![w].row.ident = n]
        /\ UNCHANGED <<status, rows, serial, optional, repeatable>>

(* One save() of the row the worker holds.                                 *)
SaveRow(w, r) ==
    \/ /\ SaveAccepted(rows, r)
       /\ rows' = Saved(rows, r)
       /\ Finish(w, "ok")
       /\ UNCHANGED <<status, serial, optional, repeatable>>
    \/ ~SaveAccepted(rows, r) /\ Refused(w)

AddUnskip(w) == req[w].pc = "unskip" /\ SaveRow(w, Unskipped(req[w].row))

(* Plan.create_answerset: the identifier was counted before.               *)
AddCreate(w) ==
    LET slot == SlotOf(req[w].row)
        p == slot.plan
        f == [x \in {slot} |-> serial[p]]
        counted(r) == IF r.section = slot.section /\ r.section \notin Named
                      THEN [r EXCEPT !.ident = req[w].row.ident] ELSE r
        new == {counted(r) : r \in NewRows(rows, {slot}, f, "create")}
        accepted == \A r \in new : r.section = slot.section => Accepts(rows, r)
    IN  /\ req[w].pc = "create"
        /\ serial[p] < MaxSerial
        /\ \/ /\ accepted
              /\ rows' = rows \union new
              /\ serial' = [serial EXCEPT ![p] = @ + 1]
              /\ Finish(w, "ok")
              /\ UNCHANGED <<status, optional, repeatable>>
           \/ ~accepted /\ Refused(w)

AdminAddSibling(w, r) == Load(w, r, "sibling")

RemoveAnswerSet(w, r) == Load(w, r, "remove_fix")
RemoveFix(w) == req[w].pc = "remove_fix" /\ Fix(w, "remove_count")

(* Mutant: off by one.                                                     *)
NoRowLeft(G) == Cardinality(G) = 0

OnlyRowLeft(G) == Cardinality(G) = 1

RemoveCount(w) ==
    LET G == Siblings(rows, SlotOf(req[w].row))
    IN  /\ req[w].pc = "remove_count"
        /\ Goto(w, IF OnlyRowLeft(G) THEN "convert" ELSE "delete")
        /\ UNCHANGED <<status, rows, serial, optional, repeatable>>

RemoveConvert(w) ==
    /\ req[w].pc = "convert"
    /\ SaveRow(w, [req[w].row EXCEPT !.skipped = TRUE, !.filled = FALSE, !.name = NoName])

RemoveDelete(w) ==
    /\ req[w].pc = "delete"
    /\ rows' = rows \ Cascade(rows, RowsOf(rows, KeyOf(req[w].row)))
    /\ Finish(w, "ok")
    /\ UNCHANGED <<status, serial, optional, repeatable>>

(* A question of the row is answered: update_answer stores the choice in   *)
(* the data loaded with the row, un-skips it and saves every column.       *)
Answer(w, r) == Load(w, r, "answer")

AnswerSave(w) ==
    LET row == req[w].row
        names == IF row.section \in Named THEN Name \union {row.name} ELSE {NoName}
    IN  /\ req[w].pc = "answer"
        /\ \E name \in names :
               SaveRow(w, [Unskipped(row) EXCEPT !.filled = TRUE, !.name = name])

(* save_choice stores nothing when the choice has not changed.             *)
AnswerUnchanged(w) ==
    /\ req[w].pc = "answer"
    /\ req[w].row.filled
    /\ Finish(w, "noop")
    /\ UNCHANGED <<status, rows, serial, optional, repeatable>>

(* AnswerSet.validate writes back the skipped flag it loaded, nothing else *)
(* this module keeps.                                                      *)
Validate(w, r) == Load(w, r, "validate")

ValidateSave(w) ==
    LET row == req[w].row
        skipped == row.skipped /\ row.section \in optional
        write(r) == IF KeyOf(r) = KeyOf(row) THEN [r EXCEPT !.skipped = skipped] ELSE r
    IN  /\ req[w].pc = "validate"
        /\ \/ /\ Live(rows, KeyOf(row))
              /\ rows' = {write(r) : r \in rows}
              /\ Finish(w, "ok")
              /\ UNCHANGED <<status, serial, optional, repeatable>>
           \/ ~Live(rows, KeyOf(row)) /\ Refused(w)

(***************************************************************************)
(* An administrator with superpowers edits a section of a template that is *)
(* not locked, whether or not plans use it.                                *)
(***************************************************************************)
EditOptional(s) ==
    /\ s \in Editable
    /\ optional' = IF s \in optional THEN optional \ {s} ELSE optional \union {s}
    /\ UNCHANGED <<status, rows, serial, repeatable, req>>

EditRepeatable(s) ==
    /\ s \in Editable
    /\ repeatable' = IF s \in repeatable THEN repeatable \ {s} ELSE repeatable \union {s}
    /\ UNCHANGED <<status, rows, serial, optional, req>>

(***************************************************************************)
(* The specification                                                       *)
(***************************************************************************)
Init ==
    /\ status = [p \in Plan |-> "unused"]
    /\ rows = {}
    /\ serial = [p \in Plan |-> 0]
    /\ optional = OptionalAtFirst
    /\ repeatable = RepeatableAtFirst
    /\ req = [w \in Worker |-> Idle]

Request(w) ==
    \/ AddFix(w) \/ AddSibling(w) \/ AddUnskip(w) \/ AddCreate(w)
    \/ RemoveFix(w) \/ RemoveCount(w) \/ RemoveConvert(w) \/ RemoveDelete(w)
    \/ AnswerSave(w) \/ AnswerUnchanged(w) \/ ValidateSave(w) \/ Crash(w)

NewRequest(w, r) ==
    \/ AddAnswerSet(w, r) \/ AdminAddSibling(w, r) \/ RemoveAnswerSet(w, r)
    \/ Answer(w, r) \/ Validate(w, r)

Next ==
    \/ \E p \in Plan : CreatePlan(p) \/ DeletePlan(p) \/ AddMissingAnswersets(p)
    \/ \E p, q \in Plan : ClonePlan(p, q)
    \/ \E r \in rows : FixChildren(r)
    \/ \E s \in Section : EditOptional(s) \/ EditRepeatable(s)
    \/ \E w \in Worker : Request(w)
    \/ \E w \in Worker, r \in rows : NewRequest(w, r)

Spec == Init /\ [][Next]_vars

(***************************************************************************)
(* Properties                                                              *)
(***************************************************************************)
(* Types of all variables; identifiers start at one, as count() + 1 does.  *)
Request_ == [pc : PC, row : Row \union {NoRow}, result : Result]

TypeOK ==
    /\ status \in [Plan -> {"unused", "live", "deleted"}]
    /\ rows \subseteq Row
    /\ serial \in [Plan -> Nat]
    /\ optional \subseteq Section
    /\ repeatable \subseteq Section
    /\ req \in [Worker -> Request_]

(* Rows form the tree the sections form: a row of a subsection always      *)
(* hangs under a living row of the super section in the same plan, and the *)
(* rows of top-level sections under none, whatever is cascaded, copied or  *)
(* inserted again by a late save.                                          *)
TreeConsistent ==
    \A r \in rows :
        IF Super[r.section] = NoSection THEN r.parent = NoRow
        ELSE \E x \in rows : /\ KeyOf(x) = r.parent
                             /\ x.plan = r.plan
                             /\ x.section = Super[r.section]

(* Only rows of sections that are, or were, optional get skipped: "If a    *)
(* section is not optional there should be *no* skipped answersets".       *)
OnlyOptionalSkipped ==
    \A r \in rows : r.skipped => r.section \in OptionalAtFirst \union Editable

(* A skipped row holds no answers, so nothing a user wrote is hidden.      *)
SkippedHoldsNoAnswers == \A r \in rows : r.skipped => ~r.filled

(* "A non-repeatable section has only one answerset", per parent.          *)
SingletonHasOneRow ==
    \A a, b \in rows :
        SlotOf(a) = SlotOf(b) /\ a.section \notin RepeatableAtFirst \union Editable
            => a = b

(* Once it got rows, a plan has one for each top-level section: removing   *)
(* converts the last row instead of deleting it.                           *)
SectionsKeepRows ==
    \A p \in Plan : \A s \in Section :
        status[p] = "live" /\ serial[p] > 0 /\ Super[s] = NoSection =>
            \E r \in rows : r.plan = p /\ r.section = s

(* Answers disappear only with their plan, when a user asks to remove the  *)
(* row or one above it, or beneath a row that itself held no answers.      *)
RequestedBy(w, r) ==
    \/ req[w].pc = "delete" /\ KeyOf(req[w].row) \in {KeyOf(r)} \union r.anc
    \/ req[w].pc = "convert" /\ KeyOf(req[w].row) = KeyOf(r)

AnswersLostOnlyOnRequest ==
    [][\A r \in rows :
        r.filled /\ (\A x \in rows' : KeyOf(x) = KeyOf(r) => ~x.filled) =>
            \/ status'[r.plan] = "deleted"
            \/ \E w \in Worker : RequestedBy(w, r)
            \/ \E a \in rows : KeyOf(a) \in r.anc /\ ~a.filled /\ ~Live(rows', KeyOf(a))
      ]_vars

(* When fix_answersets has run, the siblings are in order: there are some, *)
(* at most one if the section is not repeatable, and they are either all   *)
(* unskipped or one skipped row of an optional section.                    *)
InOrder(G, s) ==
    /\ G # {}
    /\ s \notin repeatable => Cardinality(G) = 1
    /\ (\E r \in G : r.skipped) => s \in optional /\ Cardinality(G) = 1

FixDone(w) ==
    /\ req[w].pc \in {"add_fix", "remove_fix"}
    /\ req'[w].pc \in {"add_last", "remove_count"} \/ req'[w].result = "noop"

FixLeavesOrder ==
    [][\A w \in Worker :
         FixDone(w) => InOrder(Siblings(rows', SlotOf(req[w].row)), req[w].row.section)
      ]_vars
=============================================================================
