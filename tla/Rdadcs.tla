------------------------------- MODULE Rdadcs -------------------------------
(***************************************************************************)
(* Plans that come as RDA DCS documents, are finished by their users and   *)
(* leave as documents again (rdadcs/lib/import_plan.py, export_plan.py),   *)
(* with the shipped template (rdadcs/data/rdadcs-v1.1.template.json).      *)
(*                                                                         *)
(* A document is a set of objects; an object is below another one, and of  *)
(* its keys only two are told apart: "main" and "side" stand for those     *)
(* that the questions, or the export, treat alike. An object of a list has *)
(* a number, in the order of the list. The answersets of the plan have the *)
(* numbers of the objects they come from; an optional section nothing was  *)
(* imported into has a skipped answerset, which nothing here sees. Each    *)
(* import makes a new plan; the one followed here is the last.             *)
(***************************************************************************)
EXTENDS Integers, FiniteSets, FiniteSetsExt

CONSTANTS
    Document,   \* what may be imported
    MaxImports, \* bound: how many imports
    MaxEdits    \* bound: how often the user changes an imported plan

VARIABLES
    plan,      \* the answersets: kind, below, keys, first, valid
    source,    \* the document the plan was made from
    export,    \* the export being made: pc, links, read, overtaken
    exported,  \* the document the last export was, of an untouched plan or not
    imports, edits,
    untouched  \* history: the plan holds what was imported, "Yes" added

rdadcsVars == <<plan, source, export, exported, imports, edits, untouched>>

Top == 0
Owner == [contact |-> -1, contributor |-> -2] \* made up from the users of the plan
MadeUp == {-1, -2}
BothKeys == {"main", "side"}
Null == {"null"} \* what a document has in place of an object: null

Obligatory == {"dmp", "contact", "dataset"}
Nested == {"dataset", "distribution", "project"} \* lists read with what is below
Kind == Obligatory \union Nested
        \union {"contributor", "cost", "technical_resource", "host", "license", "funding"}

(* What an object is in; all others are in the plan itself.                *)
Parent == [technical_resource |-> "dataset", distribution |-> "dataset",
           host |-> "distribution", license |-> "distribution", funding |-> "project"]

(* A document has a plan with a title, or validate_json refuses it, and at *)
(* most one host in a distribution; null has nothing below.                *)
IsDocument(objects) ==
    /\ IsFiniteSet(DOMAIN objects)
    /\ \A o \in DOMAIN objects :
           /\ o \in Nat \ {Top} \/ (o \in MadeUp /\ objects[o].kind \in DOMAIN Owner)
           /\ objects[o] \in [kind : Kind, below : Int, keys : (SUBSET BothKeys) \union {Null}]
           /\ objects[o].kind = "dmp" => "main" \in objects[o].keys
           /\ IF objects[o].kind \in DOMAIN Parent
              THEN /\ objects[o].below \in DOMAIN objects
                   /\ objects[objects[o].below].kind = Parent[objects[o].kind]
                   /\ objects[objects[o].below].keys # Null
              ELSE objects[o].below = Top
    /\ \A o, p \in DOMAIN objects :
           objects[o].kind = "host" /\ objects[p].kind = "host"
           /\ objects[o].below = objects[p].below => o = p

ASSUME DocumentAssumption == \A d \in Document : IsDocument(d.objects)

(* What the questions of the template that are not optional ask for. The   *)
(* urls and dates of a distribution, the grant of a funding are not        *)
(* obligatory in RDA DCS, the name of a technical resource is.             *)
Needs(kind) ==
    CASE kind \in {"distribution", "funding"} -> BothKeys
      [] kind = "technical_resource" -> {"side"}
      [] OTHER -> {"main"}

(* The keys in the rules of the export that are not optional; those of the *)
(* plan and of a dataset are made up if need be.                           *)
Rules(kind) == IF kind \in {"contributor", "cost"} THEN BothKeys ELSE {"main"}
Fallback(kind) == IF kind \in {"dmp", "dataset"} THEN {"main"} ELSE {}

(* The type of a dataset is asked for under a path that no question has.   *)
Asked(kind) == IF kind = "dataset" THEN {"main"} ELSE BothKeys

Below(objects, id, kind) == {o \in DOMAIN objects : objects[o].below = id /\ objects[o].kind = kind}

Empty == [objects |-> [o \in {} |-> 0], empty |-> {}]
Idle == [pc |-> "idle", links |-> [o \in {} |-> {}], read |-> [o \in {} |-> 0],
         overtaken |-> FALSE, untouched |-> FALSE]

(***************************************************************************)
(* Import                                                                  *)
(***************************************************************************)
(* RDADCSImportError and what is not caught: jsonblob[0] of an empty list, *)
(* a null where the objects below are asked for.                           *)
ImportFails(d) ==
    \/ \E kind \in Obligatory : Below(d.objects, Top, kind) = {}
    \/ d.empty \ {"cost", "project"} # {}
    \/ \E o \in DOMAIN d.objects :
           /\ d.objects[o].keys = Null
           /\ \/ d.objects[o].kind \in {"dataset", "distribution"}
              \/ d.objects[o].kind = "project" /\ Cardinality(Below(d.objects, Top, "project")) > 1

(* set_valid while the answers are stored: a section that branches has its *)
(* first question, which no key answers.                                   *)
Valid(row) ==
    IF row.kind \in Obligatory THEN Needs(row.kind) \subseteq row.keys
    ELSE row.first = "no" \/ (row.first = "yes" /\ Needs(row.kind) \subseteq row.keys)

Marked(row) == [row EXCEPT !.valid = Valid(row)]

(* Mutant: a later item of a list goes below the first parent there is.    *)
ImportedUnderFirst(d) ==
    [o \in {p \in DOMAIN d.objects : d.objects[p].keys # Null} |->
        LET object == d.objects[o]
        IN  Marked([kind |-> object.kind,
                    below |-> IF object.below = Top THEN Top
                              ELSE Min(Below(d.objects, d.objects[object.below].below,
                                             d.objects[object.below].kind)),
                    keys |-> object.keys, first |-> "none", valid |-> FALSE])]

(* Every item of a list becomes an answerset below that of its object, a   *)
(* sibling of the item before; of the costs, only the first one does.      *)
Imported(d) ==
    LET later == {o \in DOMAIN d.objects : d.objects[o].kind = "cost"
                                           /\ \E p \in Below(d.objects, Top, "cost") : p < o}
        known == {o \in DOMAIN d.objects \ later : d.objects[o].keys # Null}
    IN  [o \in known |-> Marked([kind |-> d.objects[o].kind, below |-> d.objects[o].below,
                                 keys |-> d.objects[o].keys, first |-> "none",
                                 valid |-> FALSE])]

(* ImportRDA11(...).import_rdadcs(), one transaction, of a document from   *)
(* elsewhere or of an export of this site.                                 *)
ImportRDADCS(d) ==
    /\ imports < MaxImports
    /\ export.pc = "idle"
    /\ imports' = imports + 1
    /\ IF ImportFails(d) THEN UNCHANGED <<plan, source, edits, untouched>>
       ELSE /\ plan' = Imported(d)
            /\ source' = d
            /\ edits' = 0
            /\ untouched' = TRUE
    /\ exported' = Empty
    /\ UNCHANGED export

(***************************************************************************)
(* The user goes on with the plan                                          *)
(***************************************************************************)
Revised == [export EXCEPT !.overtaken = export.pc # "idle"]

Edit(id, row) ==
    /\ edits < MaxEdits
    /\ edits' = edits + 1
    /\ plan' = [plan EXCEPT ![id] = Marked(row)]
    /\ export' = Revised
    /\ exported' = Empty
    /\ UNCHANGED <<source, imports>>

(* "Yes", there are such objects.                                          *)
Confirm(id) ==
    /\ plan[id].kind \notin Obligatory /\ plan[id].first # "yes"
    /\ Edit(id, [plan[id] EXCEPT !.first = "yes"])
    /\ UNCHANGED untouched

(* "No": hide_unreachable_answers_after takes the other answers away.      *)
Decline(id) ==
    /\ plan[id].kind \notin Obligatory /\ plan[id].first # "no"
    /\ Edit(id, [plan[id] EXCEPT !.first = "no", !.keys = {}])
    /\ untouched' = FALSE

Complete(id) ==
    /\ plan[id].first # "no"
    /\ plan[id].keys # BothKeys
    /\ Edit(id, [plan[id] EXCEPT !.keys = BothKeys])
    /\ untouched' = FALSE

(* A host more: the section is repeatable, the key is not.                 *)
AddHost(id) ==
    LET new == Max(DOMAIN plan) + 1
    IN  /\ plan[id].kind = "distribution"
        /\ edits < MaxEdits
        /\ edits' = edits + 1
        /\ plan' = [o \in DOMAIN plan \union {new} |->
                       IF o = new THEN Marked([kind |-> "host", below |-> id, keys |-> BothKeys,
                                               first |-> "yes", valid |-> FALSE])
                       ELSE plan[o]]
        /\ export' = Revised
        /\ exported' = Empty
        /\ untouched' = FALSE
        /\ UNCHANGED <<source, imports>>

(***************************************************************************)
(* Export: every list is a query of its own                                *)
(***************************************************************************)
(* get_rda_question_links: the helpers hold the answers of this moment.    *)
BeginExport ==
    /\ export.pc = "idle"
    /\ DOMAIN plan # {}
    /\ export' = [Idle EXCEPT !.pc = "contact", !.untouched = untouched,
                     !.links = [o \in {p \in DOMAIN plan : plan[p].valid} |-> plan[o].keys]]
    /\ exported' = Empty
    /\ UNCHANGED <<plan, source, imports, edits, untouched>>

(* Mutant: a list is read from all answersets, valid or not.               *)
AnyInList(id, kind) == Below(plan, id, kind)

InList(id, kind) == {o \in Below(plan, id, kind) : plan[o].valid}

(* _get_key of an answerset: with an obligatory key missing there is none; *)
(* an answerset that was not valid at the beginning has no keys.           *)
Entry(o) ==
    LET kind == plan[o].kind
        read == Fallback(kind) \union (IF o \in DOMAIN export.links THEN export.links[o] ELSE {})
    IN  IF Rules(kind) \subseteq read THEN read \intersect Asked(kind) ELSE Null

(* _get_flat_list leaves incomplete entries out, and takes one of those of *)
(* a key that is not repeatable.                                           *)
FlatList(id, kind) ==
    LET complete == {o \in InList(id, kind) : Entry(o) # Null}
    IN  IF kind = "host" /\ complete # {} THEN {Min(complete)} ELSE complete

Distributions(id) == InList(id, "distribution")

(* What is below an object goes into its entry.                            *)
UnderOne(o) ==
    CASE plan[o].kind = "dataset" -> FlatList(o, "technical_resource") \union Distributions(o)
      [] plan[o].kind = "distribution" -> FlatList(o, "host") \union FlatList(o, "license")
      [] plan[o].kind = "project" -> FlatList(o, "funding")
      [] OTHER -> {}

Under(objects) == UNION {UnderOne(o) : o \in objects}

(* Adding a key to an entry that is None is a TypeError.                   *)
Fails(objects) == \E o \in objects : Entry(o) = Null /\ UnderOne(o) # {}

Read(objects) ==
    [o \in DOMAIN export.read \union objects |->
        IF o \in objects THEN [kind |-> plan[o].kind, below |-> plan[o].below, keys |-> Entry(o)]
        ELSE export.read[o]]

(* Where none is complete, the users of the plan take its place.           *)
WithOwner(read, kind) ==
    [o \in DOMAIN read \union {Owner[kind]} |->
        IF o = Owner[kind] THEN [kind |-> kind, below |-> Top, keys |-> {"main"}] ELSE read[o]]

Collect(pc, next, objects) ==
    /\ export.pc = pc
    /\ export' = IF Fails(objects) THEN Idle
                 ELSE [export EXCEPT !.pc = next, !.read = Read(objects)]
    /\ UNCHANGED <<plan, source, exported, imports, edits, untouched>>

(* get_contact_object, with the keys of the plan itself: get() of a        *)
(* contact that is not valid raises DoesNotExist.                          *)
GetContactObject ==
    /\ export.pc = "contact"
    /\ LET contact == InList(Top, "contact")
           complete == {o \in contact : Entry(o) # Null}
           read == Read(Below(plan, Top, "dmp") \union complete)
       IN  export' = IF contact = {} THEN Idle
                     ELSE [export EXCEPT !.pc = "contributors",
                              !.read = IF complete = {} THEN WithOwner(read, "contact") ELSE read]
    /\ UNCHANGED <<plan, source, exported, imports, edits, untouched>>

(* get_contributor_list: without any, the users are the contributors.      *)
GetContributorList ==
    /\ export.pc = "contributors"
    /\ export' = [export EXCEPT !.pc = "datasets",
                     !.read = IF FlatList(Top, "contributor") = {} THEN WithOwner(@, "contributor")
                              ELSE Read(FlatList(Top, "contributor"))]
    /\ UNCHANGED <<plan, source, exported, imports, edits, untouched>>

GetDatasetList ==
    LET datasets == InList(Top, "dataset")
        distributions == UNION {Distributions(o) : o \in datasets}
    IN  Collect("datasets", "projects", datasets \union Under(datasets) \union Under(distributions))

GetProjectList ==
    LET projects == InList(Top, "project")
    IN  Collect("projects", "costs", projects \union Under(projects))

(* get_cost_list, the last one: the document is made.                      *)
GetCostList ==
    /\ export.pc = "costs"
    /\ exported' = [objects |-> Read(FlatList(Top, "cost")), empty |-> {},
                    overtaken |-> export.overtaken, untouched |-> export.untouched]
    /\ export' = Idle
    /\ UNCHANGED <<plan, source, imports, edits, untouched>>

RdadcsInit ==
    /\ plan = [o \in {} |-> 0]
    /\ source = Empty
    /\ export = Idle
    /\ exported = Empty
    /\ imports = 0 /\ edits = 0
    /\ untouched = FALSE

ExportedAgain == [objects |-> exported.objects, empty |-> exported.empty]

RdadcsNext ==
    \/ \E d \in Document : source = Empty /\ ImportRDADCS(d)
    \/ exported # Empty /\ ImportRDADCS(ExportedAgain)
    \/ \E id \in DOMAIN plan : Confirm(id) \/ Decline(id) \/ Complete(id) \/ AddHost(id)
    \/ BeginExport
    \/ GetContactObject \/ GetContributorList \/ GetDatasetList
    \/ GetProjectList \/ GetCostList

RdadcsSpec == RdadcsInit /\ [][RdadcsNext]_rdadcsVars

(***************************************************************************)
(* Properties                                                              *)
(***************************************************************************)
(* What of a document comes back: no cost but the first, nothing the       *)
(* questions ask more of, with all below it, and no list item the export   *)
(* asks more of.                                                           *)
ComesBack(objects) ==
    LET kept[o \in DOMAIN objects] ==
            /\ objects[o].keys # Null
            /\ Needs(objects[o].kind) \union Rules(objects[o].kind) \subseteq objects[o].keys
            /\ objects[o].kind = "cost" => o = Min(Below(objects, Top, "cost"))
            /\ objects[o].below # Top => kept[objects[o].below]
    IN  [o \in {p \in DOMAIN objects : kept[p]} |->
            [objects[o] EXCEPT !.keys = @ \intersect Asked(objects[o].kind)]]

FromElsewhere(objects) == [o \in DOMAIN objects \ MadeUp |-> objects[o]]

Confirmed == \A o \in DOMAIN plan : plan[o].kind \in Obligatory \/ plan[o].first = "yes"

(* A plan imported from a document and confirmed in every section, and     *)
(* nothing else, is exported as the document without what is known to get  *)
(* lost; if it is confirmed in some sections only, no more than that. And  *)
(* no export has null in place of an object, unless the user said there is *)
(* none or changed the plan while it was being exported.                   *)
RoundTrip ==
    exported # Empty /\ ~exported.overtaken =>
        LET made == FromElsewhere(exported.objects)
            back == ComesBack(FromElsewhere(source.objects))
        IN  /\ exported.untouched =>
                   /\ \A o \in DOMAIN made : o \in DOMAIN back /\ made[o] = back[o]
                   /\ Confirmed => DOMAIN made = DOMAIN back
            /\ \A o \in DOMAIN made : made[o].keys = Null => plan[o].first = "no"
=============================================================================
