----------------------------- MODULE PlanTransfer -----------------------------
(***************************************************************************)
(* The contents of one plan on their way through an export                 *)
(* (plan/export_plan.py) into a new plan (plan/import_plan.py): the tree   *)
(* of its answersets, their identifiers and their answers.                 *)
(*                                                                         *)
(* The first pass of the import stores all answersets without parents, the *)
(* second gives them their parents and saves them again, which computes    *)
(* identifiers anew. What was unique below each parent need not be so on   *)
(* the way. Which imports are refused, and which template an import finds, *)
(* is in Imports: a template of the same primary key, mapped to itself.    *)
(* Marks of validity are copied as they are; Answer rows and the skipped   *)
(* flag are not. Titles and visited sections are left out.                 *)
(*                                                                         *)
(* What an export says of sections, parents, answersets and questions are  *)
(* primary keys. All but the API look them up in the database they import  *)
(* into before anything is mapped: another site, or this one after the     *)
(* plan was deleted, need not have them.                                   *)
(***************************************************************************)
EXTENDS Integers, FiniteSets, FiniteSetsExt, Functions

CONSTANTS
    PlanTemplates,  \* pairs: the template exported with, the one imported into
    Names,          \* answers to identifier questions
    FirstRows,      \* the answersets to begin with
    MaxPlanEdits,   \* how often the plan is changed
    Databases       \* to import into: the primary keys each has, of any plan and,
                    \* next to those of the template, of other templates

VARIABLES
    fitted,     \* the pair of templates
    originals,  \* the answersets of the plan, by primary key
    planEdits,  \* how they came about: added, removed, answered
    sent,       \* the export file
    copies,     \* the answersets of the imported plan, by their key before
    dbase,      \* the database it was imported into
    reply       \* what the importing user was told, and where

(* Answers are given to questions, whose numbers are not 0: 0 is for none. *)
IsFormOf(t) ==
    /\ IsFiniteSet(DOMAIN t.super)
    /\ DOMAIN t.super \subseteq Nat \ {0}
    /\ 0 \notin DOMAIN t.asks
    /\ DOMAIN t.identifies = DOMAIN t.super
    /\ \A s \in DOMAIN t.super :
           /\ t.super[s] # s
           /\ t.identifies[s] \in DOMAIN t.asks \union {0}

planTransferVars == <<fitted, originals, planEdits, sent, copies, dbase, reply>>

NoParent == 0
NotSent == [made |-> FALSE]
NoReply == [to |-> "nobody", word |-> "none", stored |-> FALSE]
NoCopies == [k \in {} |-> 0]
NoDatabase == [answersets |-> {}, sections |-> {}, questions |-> {}]

Counted(n) == <<"counted", n>>
Named(name) == <<"named", name>>

InSection(R, s) == {k \in DOMAIN R : R[k].section = s}

(* The two unique constraints: plan and section, and the parent if any.    *)
Unique(R) == IsInjective([k \in DOMAIN R |-> <<R[k].section, R[k].parent, R[k].identifier>>])

(* The identifiers are numbers, different ones in each section and none    *)
(* above the number of its rows.                                           *)
NumberedRows(R) ==
    \A k \in DOMAIN R :
        /\ \E n \in 1..Cardinality(InSection(R, R[k].section)) : R[k].identifier = Counted(n)
        /\ \A l \in DOMAIN R : R[k].section = R[l].section /\ R[k].identifier = R[l].identifier
                                  => k = l

IsRow(r) == r = [section |-> r.section, parent |-> r.parent, skipped |-> r.skipped,
                 data |-> r.data, identifier |-> r.identifier]

(* A plan begins with rows of the template it is of.                       *)
ASSUME FormsAssumption ==
    \A forms \in PlanTemplates :
        /\ IsFormOf(forms[1]) /\ IsFormOf(forms[2])
        /\ \A R \in FirstRows :
               /\ IsFiniteSet(DOMAIN R)
               /\ DOMAIN R \subseteq Nat \ {0}
               /\ \A k \in DOMAIN R : IsRow(R[k]) /\ R[k].section \in DOMAIN forms[1].super
               /\ NumberedRows(R)

(* Mutant: a row that has an identifier is counted all the same.           *)
IdentifierCounted(template, R, k) == Counted(Cardinality(InSection(R, R[k].section)) + 1)

(* AnswerSet.get_identifier when row k is saved in table R: the answer to  *)
(* the identifier question, if the section has one, or the next number.    *)
Identifier(template, R, k) ==
    LET q == template.identifies[R[k].section]
    IN  IF q = 0 THEN R[k].identifier
        ELSE IF q \in DOMAIN R[k].data THEN Named(R[k].data[q])
        ELSE Counted(Cardinality(InSection(R, R[k].section)) + 1)

-----------------------------------------------------------------------------
(* The plan. A change the database does not accept is not made. Repairs    *)
(* are left to AnswerSets.                                                 *)

Ours == fitted[1]
Theirs == fitted[2]

EditPlan(kind, R) ==
    /\ ~sent.made
    /\ Cardinality(planEdits) < MaxPlanEdits
    /\ Unique(R)
    /\ originals' = R
    /\ planEdits' = planEdits \union {<<Cardinality(planEdits), kind>>}
    /\ UNCHANGED <<fitted, sent, copies, dbase, reply>>

(* AnswerSet.save *)
Saved(R, k) == [R EXCEPT ![k].identifier = Identifier(Ours, R, k)]

SiblingsOf(k) ==
    {l \in DOMAIN originals : originals[l].section = originals[k].section
                              /\ originals[l].parent = originals[k].parent}

(* add_sibling of a repeatable section: a skipped one, or a new row and,   *)
(* below it, one of each section below. All sections are repeatable and    *)
(* optional here, but none is skipped at first.                            *)
AddSibling(k) ==
    LET s == originals[k].section
        key == Max(DOMAIN originals) + 1
        below == {t \in DOMAIN Ours.super : Ours.super[t] = s}
        skipped == {l \in SiblingsOf(k) : originals[l].skipped}
        fresh(t, parent) ==
            [section |-> t, parent |-> parent, skipped |-> TRUE, data |-> NoCopies,
             identifier |-> Counted(Cardinality(InSection(originals, t)) + 1)]
    IN  IF skipped # {} THEN EditPlan("added",
             Saved([originals EXCEPT ![Min(skipped)].skipped = FALSE], Min(skipped)))
        ELSE EditPlan("added",
             [n \in DOMAIN originals \union {key} \union {key + t : t \in below} |->
                 IF n \in DOMAIN originals THEN originals[n]
                 ELSE IF n = key THEN fresh(s, originals[k].parent)
                 ELSE fresh(n - key, key)])

(* remove_answerset: the last one is skipped, its answers go; of several,  *)
(* one goes and what is below it.                                          *)
RemoveAnswerSet(k) ==
    IF SiblingsOf(k) = {k}
    THEN EditPlan("skipped",
             Saved([originals EXCEPT ![k].skipped = TRUE, ![k].data = NoCopies], k))
    ELSE EditPlan("removed", Restrict(originals,
             {l \in DOMAIN originals : l # k /\ originals[l].parent # k}))

AnswerQuestion(k, q, name) ==
    LET answered(data) == [p \in DOMAIN data \union {q} |-> IF p = q THEN name ELSE data[p]]
    IN  /\ Ours.asks[q] = originals[k].section
        /\ EditPlan("answered",
               Saved([originals EXCEPT ![k].data = answered(@), ![k].skipped = FALSE], k))

(* create_plan_export_obj and AnswerSetExportSerializer.                   *)
ExportPlan ==
    /\ ~sent.made
    /\ sent' = [made |-> TRUE, kind |-> "export",
                rows |-> [k \in DOMAIN originals |->
                             [section |-> originals[k].section, parent |-> originals[k].parent,
                              identifier |-> originals[k].identifier, data |-> originals[k].data]]]
    /\ UNCHANGED <<fitted, originals, planEdits, copies, dbase, reply>>

(* Users may hand in something else: what is no JSON or empty, JSON that is *)
(* no object, an object of something else, an export that lacks a part     *)
(* deserialization asks for (the plan or its title, the answersets or a    *)
(* section, metadata, the template's id or copy), one that lacks a part    *)
(* nobody asks for and all read (an id, a parent, data, the version or     *)
(* variant), one whose origin is missing or not that of its template, and  *)
(* the address of a server that answers late, or not, or with an error.    *)
(* What the plan is like does not matter then.                             *)
OtherFile(kind) ==
    /\ ~sent.made
    /\ planEdits = {}
    /\ sent' = [made |-> TRUE, kind |-> kind, rows |-> NoCopies]
    /\ UNCHANGED <<fitted, originals, planEdits, copies, dbase, reply>>

-----------------------------------------------------------------------------
(* The import *)

(* _map_data_to_new_keys: answers to questions that are not there any more *)
(* are dropped.                                                            *)
MapData(data) == Restrict(data, DOMAIN data \intersect DOMAIN Theirs.asks)

(* _create_answersets, first pass.                                         *)
WithoutParents ==
    [k \in DOMAIN sent.rows |->
        [section |-> sent.rows[k].section, parent |-> NoParent, skipped |-> FALSE,
         identifier |-> sent.rows[k].identifier, data |-> MapData(sent.rows[k].data)]]

(* _create_answersets, second pass: rows with a parent are saved again.    *)
WithParents ==
    [k \in DOMAIN sent.rows |->
        IF sent.rows[k].parent = NoParent THEN WithoutParents[k]
        ELSE [WithoutParents[k] EXCEPT
                  !.parent = sent.rows[k].parent,
                  !.identifier = Identifier(Theirs, WithoutParents, k)]]

SectionIsMissing ==
    \E k \in DOMAIN sent.rows : sent.rows[k].section \notin DOMAIN Theirs.super

OfSectionsThere ==
    Restrict(WithoutParents, {k \in DOMAIN sent.rows : sent.rows[k].section \in DOMAIN Theirs.super})

Clashes == ~Unique(WithoutParents) \/ ~Unique(WithParents)

(* The lookups of AnswerSetExportSerializer and AnswerExportSerializer:    *)
(* an answerset has an Answer for each question of its section.            *)
IsKnown(h) ==
    \A k \in DOMAIN sent.rows :
        /\ sent.rows[k].section \in DOMAIN Theirs.super \union h.sections
        /\ sent.rows[k].parent \in h.answersets \union {NoParent}
        /\ \A q \in DOMAIN Ours.asks :
               Ours.asks[q] = sent.rows[k].section =>
                   k \in h.answersets /\ q \in DOMAIN Theirs.asks \union h.questions

(* What reading a file ends in, if it does. get_export_from_url catches    *)
(* time-outs; detect_export_type, in the frontend, takes the keys of what  *)
(* may be a list; deserialize_plan_export answers for the frontend, URL    *)
(* and command, not for what is posted to the API, and hands on the file   *)
(* itself, so that what it does not ask for may still be missing.          *)
ReadErrors(channel, h) ==
    CASE sent.kind = "export" ->
             IF channel = "API" \/ IsKnown(h) THEN {} ELSE {"import error"}
      [] sent.kind \in {"not JSON", "late answer", "other template"} -> {"import error"}
      [] sent.kind \in {"no export", "incomplete"} ->
             IF channel = "API" THEN {"key error"} ELSE {"import error"}
      [] sent.kind = "no object" ->
             IF channel \in {"API", "frontend"} THEN {"no keys"} ELSE {"import error"}
      [] sent.kind = "unchecked" ->
             IF channel = "API" THEN {"key error"} ELSE {"key error", "import error"}
      [] sent.kind = "no answer" -> {"request error"}

(* build_metadata, _create_imported_plan, _create_answersets: rows may     *)
(* clash before one meets a missing section, or after. PlanImporter fails  *)
(* to keep the warning that a plan is empty, when it is stored.            *)
StoreErrors(channel) ==
    IF SectionIsMissing THEN
        {"key error"} \union (IF Unique(OfSectionsThere) THEN {} ELSE {"clash"})
    ELSE IF Clashes THEN {"clash"}
    ELSE IF DOMAIN sent.rows = {} /\ channel = "frontend" THEN {"type error"}
    ELSE {"none"}

(* What becomes of an error in PlanImporter, in _import_plan of the API,   *)
(* and in the command.                                                     *)
ReplyTo(channel, error) ==
    [to |-> channel,
     stored |-> error \in {"none", "type error"},
     word |-> IF error = "none" THEN "imported"
              ELSE IF error = "import error" \/ (error = "clash" /\ channel \in {"API", "URL"})
              THEN "refused"
              ELSE "failed"]

(* import_serialized_plan_export is one transaction.                       *)
ImportPlan(channel, h) ==
    /\ sent.made
    /\ reply = NoReply
    /\ sent.kind \in {"late answer", "no answer"} => channel = "URL"
    /\ LET errors == ReadErrors(channel, h)
       IN  \E error \in IF errors # {} THEN errors ELSE StoreErrors(channel) :
               /\ reply' = ReplyTo(channel, error)
               /\ copies' = IF reply'.stored THEN WithParents ELSE copies
    /\ dbase' = h
    /\ UNCHANGED <<fitted, originals, planEdits, sent>>

-----------------------------------------------------------------------------
PlanTransferInit ==
    /\ fitted \in PlanTemplates
    /\ originals \in FirstRows
    /\ planEdits = {}
    /\ sent = NotSent
    /\ copies = NoCopies
    /\ dbase = NoDatabase
    /\ reply = NoReply

PlanTransferNext ==
    \/ \E k \in DOMAIN originals : AddSibling(k) \/ RemoveAnswerSet(k)
    \/ \E k \in DOMAIN originals, q \in DOMAIN Ours.asks, name \in Names :
           AnswerQuestion(k, q, name)
    \/ ExportPlan
    \/ \E kind \in {"not JSON", "no object", "no export", "incomplete", "unchecked",
                    "other template", "late answer", "no answer"} :
           OtherFile(kind)
    \/ \E channel \in {"frontend", "API", "URL", "command"}, h \in Databases : ImportPlan(channel, h)

PlanTransferSpec == PlanTransferInit /\ [][PlanTransferNext]_planTransferVars

-----------------------------------------------------------------------------
(* Properties *)

Identifies(template) == \E s \in DOMAIN template.super : template.identifies[s] # 0

(* The identifiers an import stores: those of the plan, but for rows below *)
(* others in sections with an identifier question, which are named by what *)
(* is answered there, or numbered after all there are.                     *)
SameIdentifier(k) ==
    \/ copies[k].identifier = sent.rows[k].identifier
    \/ /\ sent.rows[k].parent # NoParent
       /\ \E q \in DOMAIN Theirs.asks :
              /\ q = Theirs.identifies[sent.rows[k].section]
              /\ copies[k].identifier =
                     IF q \in DOMAIN sent.rows[k].data THEN Named(sent.rows[k].data[q])
                     ELSE Counted(Cardinality(InSection(sent.rows, sent.rows[k].section)) + 1)

RowsNamed == DOMAIN sent.rows \union {sent.rows[k].parent : k \in DOMAIN sent.rows}

(* A plan whose answersets were only added, and are numbered, can be       *)
(* imported wherever its sections are, though all its rows stand without   *)
(* parents for a while: over the API anywhere, over the frontend, a URL    *)
(* and the command where the database still has its answersets and         *)
(* questions, and never where it lacks a parent. The copy has the tree of  *)
(* the original, its identifiers and all its answers to questions that are *)
(* still there. Nothing is stored of a plan that cannot be imported, and   *)
(* nothing of another file; only an empty plan is stored although the      *)
(* request failed. A plan that is only not known here is refused with a    *)
(* reason, as other files are, but for those that are posted to the API,   *)
(* those that have no keys to look at or lack what nobody asks for, and    *)
(* those that cannot be fetched.                                           *)
ArrivesAsSent ==
    reply # NoReply =>
        /\ reply.word # "imported" =>
               /\ copies = NoCopies
               /\ reply.stored =>
                      sent.kind = "export" /\ sent.rows = NoCopies /\ reply.to = "frontend"
               /\ sent.kind = "export" =>
                      \/ reply.stored \/ SectionIsMissing
                      \/ \E e \in planEdits : e[2] = "removed"
                      \/ Identifies(Ours) \/ Identifies(Theirs)
                      \/ /\ reply.to # "API" /\ reply.word = "refused"
                         /\ \/ ~(RowsNamed \subseteq dbase.answersets \union {NoParent})
                            \/ ~(DOMAIN Ours.asks \subseteq DOMAIN Theirs.asks \union dbase.questions)
               /\ sent.kind # "export" =>
                      (reply.word = "failed" =>
                           reply.to = "API" \/ sent.kind \in {"no object", "unchecked", "no answer"})
        /\ reply.word = "imported" =>
               /\ sent.kind = "export"
               /\ reply.to # "API" =>
                      \A k \in DOMAIN copies : copies[k].parent \in dbase.answersets \union {NoParent}
               /\ DOMAIN copies = DOMAIN sent.rows
               /\ Unique(copies)
               /\ \A k \in DOMAIN copies :
                      /\ copies[k].section = sent.rows[k].section
                      /\ copies[k].parent = sent.rows[k].parent
                      /\ \A q \in DOMAIN Ours.asks :
                             (q \in DOMAIN copies[k].data) =
                                 (q \in DOMAIN sent.rows[k].data /\ q \in DOMAIN Theirs.asks)
                      /\ SameIdentifier(k)
=============================================================================
