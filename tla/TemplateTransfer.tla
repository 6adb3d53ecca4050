-------------------------- MODULE TemplateTransfer --------------------------
(***************************************************************************)
(* The contents of one template on their way to another site: the export   *)
(* reads them list by list (dmpt/export_template.py and                    *)
(* create_template_export_obj) while designers go on, the import makes a   *)
(* new template of them or connects them with one that is there            *)
(* (dmpt/import_template.py), in one transaction.                          *)
(*                                                                         *)
(* Rows have the keys of the site that exports; a row that is made of an   *)
(* exported one is called by the same key, so the mappings of keys are     *)
(* only seen where a key is missing. A question has one explicit branch    *)
(* and one canned answer at most, called by its key. Whether an export is  *)
(* imported, connected or known already is in Imports.                     *)
(***************************************************************************)
EXTENDS Integers, FiniteSets, Sequences, FiniteSetsExt

CONSTANTS
    DesignedTemplates, \* the templates to begin with
    NewSection,        \* keys of a section and a question that may be added
    NewQuestion,
    MaxDesignChanges   \* how often designers act during an export

VARIABLES
    design,  \* the template: its sections, questions, branches and choices
    fixture, \* the copy of it that the importing site may have
    taken,   \* what the export has read
    reading, \* the list the export reads next, 0 before it begins
    acts,    \* what designers have done since: nothing, deleted, added
    arrived  \* what the import made

transferVars == <<design, fixture, taken, reading, acts, arrived>>

NoKey == 0
Unlisted == {"unlisted"}
NotArrived == [outcome |-> "none"]

(* What the database and the forms of the admin see to: sections have      *)
(* different places, and so have the questions of a section; a section is  *)
(* identified by one of its own questions; all else refers to rows of the  *)
(* template. That depths are right is up to the designers.                 *)
IsTemplate(d) ==
    LET sections == DOMAIN d.sections
        questions == DOMAIN d.questions
    IN  /\ DOMAIN d = {"locked", "sections", "questions", "branches", "choices", "mounts"}
        /\ IsFiniteSet(sections) /\ sections \subseteq Nat \ {NoKey}
        /\ IsFiniteSet(questions) /\ questions \subseteq Nat \ {NoKey}
        /\ d.sections \in [sections ->
               [super : sections \union {NoKey}, depth : Nat, place : Nat,
                named : questions \union {NoKey}, linked : BOOLEAN]]
        /\ \A s, t \in sections : d.sections[s].place = d.sections[t].place => s = t
        /\ d.questions \in [questions ->
               [section : sections, place : Nat, special : BOOLEAN, linked : BOOLEAN]]
        /\ \A q, r \in questions :
               /\ d.questions[q].section = d.questions[r].section
               /\ d.questions[q].place = d.questions[r].place
               => q = r
        /\ \A s \in sections :
               d.sections[s].named # NoKey => d.questions[d.sections[s].named].section = s
        /\ d.branches \in [DOMAIN d.branches -> questions \union {NoKey}]
        /\ d.choices \in [DOMAIN d.choices -> DOMAIN d.branches \union {NoKey}]
        /\ DOMAIN d.branches \union DOMAIN d.choices \union d.mounts \subseteq questions

ASSUME DesignAssumption == \A d \in DesignedTemplates : IsTemplate(d)

-----------------------------------------------------------------------------
(* Designers. A template that is locked is not changed.                    *)

Begun == reading > 0 /\ reading <= 7
Without(f, K) == [x \in DOMAIN f \ K |-> f[x]]
With(f, k, row) == [x \in DOMAIN f \union {k} |-> IF x = k THEN row ELSE f[x]]

(* A section with all sections below it: they go when it goes.             *)
Beneath(sections, s) ==
    {t \in DOMAIN sections : \A S \in SUBSET DOMAIN sections :
        s \in S /\ (\A u \in DOMAIN sections : sections[u].super \in S => u \in S) => t \in S}

Changed(act, new) ==
    /\ Begun
    /\ ~design.locked
    /\ Len(acts) < MaxDesignChanges
    /\ design' = new
    /\ acts' = Append(acts, act)
    /\ UNCHANGED <<fixture, taken, reading, arrived>>

NextPlace(siblings) == Max({0} \union {row.place : row \in siblings}) + 1

AddSection(super) ==
    /\ NewSection \notin DOMAIN design.sections
    /\ LET depth == IF super = NoKey THEN 1 ELSE design.sections[super].depth + 1
           new == [super |-> super, depth |-> depth, named |-> NoKey, linked |-> FALSE,
                   place |-> NextPlace({design.sections[s] : s \in DOMAIN design.sections})]
       IN  Changed("added", [design EXCEPT !.sections = With(@, NewSection, new)])

AddQuestion(s, special, linked) ==
    /\ NewQuestion \notin DOMAIN design.questions
    /\ LET siblings == {design.questions[q] : q \in {x \in DOMAIN design.questions :
                                                        design.questions[x].section = s}}
           new == [section |-> s, place |-> NextPlace(siblings),
                   special |-> special, linked |-> linked]
       IN  Changed("added", [design EXCEPT !.questions = With(@, NewQuestion, new)])

AddBranch(q, next) ==
    /\ q \notin DOMAIN design.branches
    /\ Changed("added", [design EXCEPT !.branches = With(@, q, next)])

(* A canned answer gets a transition of its question.                      *)
AddTransition(q) ==
    /\ q \in DOMAIN design.choices \intersect DOMAIN design.branches
    /\ design.choices[q] = NoKey
    /\ Changed("added", [design EXCEPT !.choices[q] = q])

MountQuestion(q) ==
    /\ q \notin design.mounts
    /\ Changed("added", [design EXCEPT !.mounts = @ \union {q}])

(* What goes with questions (on_delete of the foreign keys)                *)
WithoutQuestions(d, Q) ==
    LET branches == {q \in DOMAIN d.branches : q \in Q \/ d.branches[q] \in Q}
    IN  [d EXCEPT
            !.sections = [s \in DOMAIN @ |->
                IF @[s].named \in Q THEN [@[s] EXCEPT !.named = NoKey] ELSE @[s]],
            !.questions = Without(@, Q),
            !.branches = Without(@, branches),
            !.mounts = @ \ Q,
            !.choices = [q \in DOMAIN @ \ Q |-> IF @[q] \in branches THEN NoKey ELSE @[q]]]

DeleteQuestion(q) == Changed("deleted", WithoutQuestions(design, {q}))

DeleteSection(s) ==
    LET S == Beneath(design.sections, s)
        Q == {q \in DOMAIN design.questions : design.questions[q].section \in S}
    IN  Changed("deleted", [WithoutQuestions(design, Q) EXCEPT !.sections = Without(@, S)])

DeleteBranch(q) ==
    Changed("deleted", [design EXCEPT
        !.branches = Without(@, {q}),
        !.choices = [c \in DOMAIN @ |-> IF @[c] = q THEN NoKey ELSE @[c]]])

-----------------------------------------------------------------------------
(* Export                                                                  *)

(* Mutant: branches are read after the canned answers that refer to them.  *)
ChoicesFirst == <<"sections", "paths", "types", "questions", "choices", "branches", "mounts">>

(* The order of the queries: sections are prefetched with the template,    *)
(* rdadcs_keys_in_use is asked for before, and input_types_in_use while,   *)
(* the serializer goes through its fields.                                 *)
Lists == <<"sections", "paths", "types", "questions", "branches", "choices", "mounts">>

Query(list) ==
    LET questions == DOMAIN design.questions
        rows == {[linked |-> design.sections[s].linked] : s \in DOMAIN design.sections}
                    \union {[linked |-> design.questions[q].linked] : q \in questions}
    IN  CASE list = "sections" -> design.sections
          [] list = "paths" -> IF \E row \in rows : row.linked THEN {"path"} ELSE {}
          [] list = "types" -> {design.questions[q].special : q \in questions}
          [] list = "questions" -> design.questions
          [] list = "branches" -> design.branches
          [] list = "choices" -> design.choices
          [] list = "mounts" -> design.mounts

BeginTransfer ==
    /\ reading = 0
    /\ reading' = 1
    /\ UNCHANGED <<design, fixture, taken, acts, arrived>>

ReadList ==
    /\ Begun
    /\ taken' = With(taken, Lists[reading], Query(Lists[reading]))
    /\ reading' = reading + 1
    /\ UNCHANGED <<design, fixture, acts, arrived>>

(* Exports did not always list the RDA DCS keys they use.                  *)
FromOldVersion ==
    /\ reading = 8
    /\ arrived = NotArrived
    /\ taken.paths # Unlisted
    /\ taken' = [taken EXCEPT !.paths = Unlisted]
    /\ UNCHANGED <<design, fixture, reading, acts, arrived>>

-----------------------------------------------------------------------------
(* Import                                                                  *)

(* clean_serialized_template_export: input types, RDA DCS keys and sources *)
(* of the EEStore that this site does not have                             *)
Unsupported(knows) ==
    \/ TRUE \in taken.types /\ "type" \notin knows
    \/ "path" \in taken.paths /\ "path" \notin knows
    \/ taken.mounts # {} /\ "store" \notin knows

AtDepth(sections, s) == {t \in DOMAIN sections : sections[t].depth = sections[s].depth}

(* A key cannot be sorted among the None of topmost sections.              *)
Sortable(sections) ==
    \A s \in DOMAIN sections : \A t \in AtDepth(sections, s) :
        (sections[s].super = NoKey) = (sections[t].super = NoKey)

SortedBefore(s, t) ==
    \/ s.super < t.super
    \/ s.super = t.super /\ s.place < t.place

CreatedBefore(sections, s, t) ==
    \/ sections[s].depth < sections[t].depth
    \/ sections[s].depth = sections[t].depth /\ SortedBefore(sections[s], sections[t])

LastCreated(sections, S) ==
    CHOOSE s \in S : \A t \in S \ {s} : CreatedBefore(sections, t, s)

(* _create_imported_sections: the second loop writes every super section   *)
(* into the section the first loop left behind, the last that was created. *)
SuperSections(sections) ==
    LET nested == {s \in DOMAIN sections : sections[s].super # NoKey}
        super == IF nested = {} THEN NoKey ELSE sections[LastCreated(sections, nested)].super
    IN  [s \in DOMAIN sections |->
            IF s = LastCreated(sections, DOMAIN sections) THEN super ELSE NoKey]

(* Without questions nothing but the sections is made.                     *)
BareSections ==
    [s \in DOMAIN taken.sections |->
        [taken.sections[s] EXCEPT
            !.super = SuperSections(taken.sections)[s], !.named = NoKey, !.linked = FALSE]]

(* A question that names answersets does so in its own section.            *)
ImportedSections ==
    LET naming == {taken.sections[s].named : s \in DOMAIN taken.sections}
        NamedBy(s) == {q \in DOMAIN taken.questions \intersect naming :
                        taken.questions[q].section = s}
    IN  [s \in DOMAIN taken.sections |->
            [BareSections[s] EXCEPT
                !.named = IF NamedBy(s) = {} THEN NoKey ELSE Max(NamedBy(s)),
                !.linked = taken.sections[s].linked]]

(* A key that is missing in a mapping, or in the database, undoes all.     *)
LinksUnknownPath(knows) ==
    /\ "path" \notin knows
    /\ \/ \E s \in DOMAIN taken.sections : taken.sections[s].linked
       \/ \E q \in DOMAIN taken.questions : taken.questions[q].linked

KeyIsMissing(knows) ==
    \/ \E q \in DOMAIN taken.questions : taken.questions[q].section \notin DOMAIN taken.sections
    \/ ~(DOMAIN taken.branches \union DOMAIN taken.choices \union taken.mounts
            \subseteq DOMAIN taken.questions)
    \/ LinksUnknownPath(knows)

TypeIsMissing(knows) ==
    "type" \notin knows /\ \E q \in DOMAIN taken.questions : taken.questions[q].special

(* The next question and the transition are allowed to be missing.         *)
OrNone(f, K) == [k \in DOMAIN f |-> IF f[k] \in K THEN f[k] ELSE NoKey]

Created ==
    [outcome |-> "done",
     sections |-> ImportedSections,
     questions |-> taken.questions,
     mounts |-> taken.mounts,
     branches |-> OrNone(taken.branches, DOMAIN taken.questions),
     choices |-> OrNone(taken.choices, DOMAIN taken.branches)]

CreatedBare ==
    [outcome |-> "done",
     sections |-> BareSections,
     questions |-> taken.questions, branches |-> <<>>, choices |-> <<>>, mounts |-> {}]

(* import_serialized_template_export. The admin and the commands tell of a *)
(* refusal, the API of a clash in the database as well; anything else is   *)
(* an internal error.                                                      *)
Told(channel, error) ==
    IF error = "refused" \/ (error = "clash" /\ channel = "API") THEN "refused" ELSE "failed"

ImportContents(knows, channel) ==
    /\ reading = 8
    /\ arrived = NotArrived
    /\ arrived' =
           IF Unsupported(knows) THEN [outcome |-> Told(channel, "refused")]
           ELSE IF ~Sortable(taken.sections) THEN [outcome |-> Told(channel, "type error")]
           ELSE IF DOMAIN taken.sections = {} \/ DOMAIN taken.questions = {} THEN CreatedBare
           ELSE IF KeyIsMissing(knows) THEN [outcome |-> Told(channel, "key error")]
           ELSE IF TypeIsMissing(knows) THEN [outcome |-> Told(channel, "clash")]
           ELSE Created
    /\ UNCHANGED <<design, fixture, taken, reading, acts>>

(* _map_imported_sections: sections of a depth are paired in their order,  *)
(* and mapped from the one here to the one there.                          *)
PlaceInDepth(sections, s) ==
    Cardinality({t \in AtDepth(sections, s) : SortedBefore(sections[t], sections[s])})

PairedSections ==
    {p \in (DOMAIN fixture.sections) \X (DOMAIN taken.sections) :
        /\ fixture.sections[p[1]].depth = taken.sections[p[2]].depth
        /\ PlaceInDepth(fixture.sections, p[1]) = PlaceInDepth(taken.sections, p[2])}

(* _map_imported_questions: the question at the same position of the       *)
(* section that is found by looking the section there up among those here. *)
Counterparts(q) ==
    {x \in DOMAIN fixture.questions :
        /\ <<taken.questions[q].section, fixture.questions[x].section>> \in PairedSections
        /\ fixture.questions[x].place = taken.questions[q].place}

Here(q) ==
    IF q \in DOMAIN taken.questions /\ Counterparts(q) # {} THEN Max(Counterparts(q)) ELSE NoKey

(* connect_template_import_to_existing_template                            *)
ConnectContents ==
    LET questions == DOMAIN taken.questions
        known == {q \in questions : Counterparts(q) # {}}
        hasBranch(q) == /\ Here(q) \in DOMAIN fixture.branches
                        /\ fixture.branches[Here(q)] = Here(taken.branches[q])
    IN  /\ reading = 8
        /\ arrived = NotArrived
        /\ arrived' =
               IF /\ Sortable(taken.sections) /\ Sortable(fixture.sections)
                  /\ known = questions
                  /\ DOMAIN taken.branches \union DOMAIN taken.choices \subseteq questions
                  /\ \A q \in DOMAIN taken.branches : hasBranch(q)
               THEN [outcome |-> "connected", sections |-> PairedSections,
                     questions |-> {<<Here(q), q>> : q \in known}]
               ELSE [outcome |-> "unconnected"]
        /\ UNCHANGED <<design, fixture, taken, reading, acts>>

-----------------------------------------------------------------------------
TransferInit ==
    /\ design \in DesignedTemplates
    /\ fixture = design
    /\ taken = <<>>
    /\ reading = 0
    /\ acts = <<>>
    /\ arrived = NotArrived

TransferNext ==
    \/ BeginTransfer \/ ReadList \/ FromOldVersion
    \/ \E super \in DOMAIN design.sections \union {NoKey} : AddSection(super)
    \/ \E s \in DOMAIN design.sections, special, linked \in BOOLEAN : AddQuestion(s, special, linked)
    \/ \E q \in DOMAIN design.questions :
           \/ \E next \in DOMAIN design.questions \union {NoKey} : AddBranch(q, next)
           \/ MountQuestion(q) \/ DeleteQuestion(q)
    \/ \E q \in DOMAIN design.choices : AddTransition(q)
    \/ \E q \in DOMAIN design.branches : DeleteBranch(q)
    \/ \E s \in DOMAIN design.sections : DeleteSection(s)
    \/ \E knows \in SUBSET {"type", "path", "store"}, channel \in {"admin", "API"} :
           ImportContents(knows, channel)
    \/ ConnectContents

TransferSpec == TransferInit /\ [][TransferNext]_transferVars

-----------------------------------------------------------------------------
(* Properties *)

RightDepths(sections) ==
    \A s \in DOMAIN sections :
        sections[s].depth =
            IF sections[s].super = NoKey THEN 1 ELSE sections[sections[s].super].depth + 1

Flat(row) == [row EXCEPT !.super = NoKey]

(* What an import is to give: every list as it was exported, names and     *)
(* links of sections included, as long as there are questions.             *)
SameContents ==
    /\ arrived.questions = taken.questions
    /\ arrived.branches = taken.branches
    /\ arrived.choices = taken.choices
    /\ arrived.mounts = taken.mounts
    /\ \A s \in DOMAIN taken.sections :
           LET named == taken.sections[s].named
           IN  Flat(arrived.sections[s]) =
                   [Flat(taken.sections[s]) EXCEPT
                       !.named = IF named \in DOMAIN taken.questions THEN named ELSE NoKey]

(* An export is not a snapshot: other requests change the template between *)
(* its lists. What is read later refers to what was read earlier, all but  *)
(* the RDA DCS keys of the sections: if they only delete, the import works *)
(* or is refused with a reason, and an import that works keeps all but the *)
(* nesting of the sections, where only the last created has its place. The *)
(* depths in the admin are right here, and the export lists its keys. Rows *)
(* are connected with themselves if nothing was changed at all.            *)
ExportIsWhole ==
    arrived.outcome # "none" /\ RightDepths(taken.sections) =>
        /\ arrived.outcome = "failed" =>
               \/ \E i \in DOMAIN acts : acts[i] = "added"
               \/ taken.paths = Unlisted
               \/ /\ acts # <<>>
                  /\ \E s \in DOMAIN taken.sections : taken.sections[s].linked
        /\ arrived.outcome = "done" /\ (\A i \in DOMAIN acts : acts[i] = "deleted") =>
               /\ DOMAIN taken.questions # {} => SameContents
               /\ \A s \in DOMAIN taken.sections :
                      arrived.sections[s].super =
                          IF s = LastCreated(taken.sections, DOMAIN taken.sections)
                          THEN taken.sections[s].super ELSE NoKey
        /\ acts = <<>> =>
               /\ arrived.outcome # "unconnected"
               /\ arrived.outcome = "connected" =>
                      /\ arrived.sections = {<<s, s>> : s \in DOMAIN taken.sections}
                      /\ arrived.questions = {<<q, q>> : q \in DOMAIN taken.questions}
=============================================================================
