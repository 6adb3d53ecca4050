------------------------------ MODULE Imports ------------------------------
(***************************************************************************)
(* Templates and plans that were exported by this or another site, being   *)
(* imported by requests that run at the same time (dmpt/import_template.py *)
(* and plan/import_plan.py).                                               *)
(*                                                                         *)
(* Whether an export was imported before is looked up in the import        *)
(* metadata, which no constraint keeps unique; only the uuid of a template *)
(* is. What an import stores is one transaction, READ COMMITTED.           *)
(***************************************************************************)
EXTENDS Integers

CONSTANTS
    Importer,       \* concurrent requests
    TemplateExport, \* records: origin, pk, uuid, sections
    PlanExport,     \* records: origin, pk, template, sections
    NoUuid,         \* uuid of an export made before templates had one
    HereUuid,       \* uuid of the template that was made here
    MaxKey          \* bound on the primary keys of each table

VARIABLES
    templates,      \* the table dmpt_template: uuid and sections of a key
    tims,           \* TemplateImportMetadata: template, origin, pk there
    plans,          \* plans with their PlanImportMetadata
    given,          \* the last key each table has given
    importing       \* per importer, the request being served

importVars == <<templates, tims, plans, given, importing>>

(* What the CLI takes for an origin: a uuid that is like no other.         *)
FreshOrigin == "fresh"
Waiting == [pc |-> "idle", export |-> {}, origin |-> FreshOrigin, template |-> 0,
            mapping |-> {}, seen |-> {}]

EndImport(d) == importing' = [importing EXCEPT ![d] = Waiting]

(* A template of one section, whose key comes with that of the template.   *)
ImportInit ==
    /\ templates = [t \in {1} |-> [uuid |-> HereUuid, sections |-> {1}]]
    /\ tims = [m \in {} |-> 0]
    /\ plans = [p \in {} |-> 0]
    /\ given = [templates |-> 1, tims |-> 0, plans |-> 0]
    /\ importing = [d \in Importer |-> Waiting]

(***************************************************************************)
(* import_template.py                                                      *)
(***************************************************************************)
(* Mutant: the primary key is looked up among those of this site.          *)
TimsWithLocalKey(origin, pk) ==
    {m \in DOMAIN tims : origin # FreshOrigin /\ tims[m].origin = origin /\ tims[m].template = pk}

TimsOf(origin, pk) ==
    {m \in DOMAIN tims : origin # FreshOrigin /\ tims[m].origin = origin /\ tims[m].pk = pk}

(* import_or_get_template: by uuid, then by origin and primary key. With   *)
(* one row of metadata there is nothing to do, with several get raises     *)
(* MultipleObjectsReturned.                                                *)
BeginTemplate(d, e, origin) ==
    LET same == {t \in DOMAIN templates : e.uuid # NoUuid /\ templates[t].uuid = e.uuid}
        known == IF same # {} THEN {m \in DOMAIN tims : tims[m].template \in same}
                 ELSE TimsOf(origin, e.pk)
    IN  /\ importing[d].pc = "idle"
        /\ IF known # {} THEN EndImport(d)
           ELSE importing' = [importing EXCEPT ![d] =
                    [Waiting EXCEPT !.pc = IF same = {} THEN "ensure" ELSE "connect",
                         !.export = {e}, !.origin = origin,
                         !.template = IF same = {} THEN 0 ELSE CHOOSE t \in same : TRUE,
                         !.seen = DOMAIN tims]]
        /\ UNCHANGED <<templates, tims, plans, given>>

(* ensure_unknown_template.                                                *)
EnsureTemplate(d) ==
    /\ importing[d].pc = "ensure"
    /\ \E e \in importing[d].export :
           IF TimsOf(importing[d].origin, e.pk) # {} THEN EndImport(d)
           ELSE importing' = [importing EXCEPT ![d].pc = "create", ![d].seen = DOMAIN tims]
    /\ UNCHANGED <<templates, tims, plans, given>>

AddTim(template, origin, pk) ==
    tims' = [m \in DOMAIN tims \union {given.tims + 1} |->
                IF m \in DOMAIN tims THEN tims[m]
                ELSE [template |-> template, origin |-> origin, pk |-> pk]]

(* The transaction of import_serialized_template_export. A uuid that was   *)
(* stored in the meantime is an IntegrityError.                            *)
CreateTemplate(d) ==
    LET key == given.templates + 1
    IN  /\ importing[d].pc = "create"
        /\ \E e \in importing[d].export :
               IF e.uuid # NoUuid /\ \E t \in DOMAIN templates : templates[t].uuid = e.uuid
               THEN UNCHANGED <<templates, tims, given>>
               ELSE /\ key <= MaxKey.templates /\ given.tims < MaxKey.tims
                    /\ templates' = [t \in DOMAIN templates \union {key} |->
                           IF t \in DOMAIN templates THEN templates[t]
                           ELSE [uuid |-> IF e.uuid = NoUuid THEN "uuid4" ELSE e.uuid,
                                 sections |-> {key}]]
                    /\ AddTim(key, importing[d].origin, e.pk)
                    /\ given' = [given EXCEPT !.templates = key, !.tims = @ + 1]
        /\ EndImport(d)
        /\ UNCHANGED plans

(* connect_template_import_to_existing_template. The map of sections comes *)
(* out from keys here to keys there, and is asked for those there: a       *)
(* KeyError, unless the keys are the same.                                 *)
ConnectTemplate(d) ==
    LET t == importing[d].template
    IN  /\ importing[d].pc = "connect"
        /\ \E e \in importing[d].export :
               IF t \notin DOMAIN templates \/ ~(e.sections \subseteq templates[t].sections)
               THEN UNCHANGED <<tims, given>>
               ELSE /\ given.tims < MaxKey.tims
                    /\ AddTim(t, importing[d].origin, e.pk)
                    /\ given' = [given EXCEPT !.tims = @ + 1]
        /\ EndImport(d)
        /\ UNCHANGED <<templates, plans>>

(***************************************************************************)
(* import_plan.py                                                          *)
(***************************************************************************)
PlansOf(origin, pk) == {p \in DOMAIN plans : plans[p].origin = origin /\ plans[p].pk = pk}

(* create_identity_template_mapping.                                       *)
IdentityMapping(t) == templates[t].sections

(* ensure_unknown_plan and get_template_and_mappings. The origin given is  *)
(* always the stored one, so the template is always the one with the same  *)
(* primary key here, with the identity map; without one there is no plan.  *)
(* That the plan is still here is not noticed: build_metadata compares its *)
(* origin with the way the import came.                                    *)
BeginPlan(d, e) ==
    /\ importing[d].pc = "idle"
    /\ IF PlansOf(e.origin, e.pk) # {} \/ e.template \notin DOMAIN templates
       THEN EndImport(d)
       ELSE importing' = [importing EXCEPT ![d] =
                [Waiting EXCEPT !.pc = "plan", !.export = {e}, !.origin = e.origin,
                     !.template = e.template, !.mapping = IdentityMapping(e.template),
                     !.seen = DOMAIN plans]]
    /\ UNCHANGED <<templates, tims, plans, given>>

(* _create_imported_plan looks again, then it and _create_answersets store *)
(* what no other request sees yet. An answerset of a section that has not  *)
(* been mapped is a KeyError.                                              *)
CreatePlan(d) ==
    /\ importing[d].pc = "plan"
    /\ \E e \in importing[d].export :
           IF PlansOf(e.origin, e.pk) # {} \/ ~(e.sections \subseteq importing[d].mapping)
           THEN EndImport(d)
           ELSE importing' = [importing EXCEPT ![d].pc = "commit", ![d].seen = DOMAIN plans]
    /\ UNCHANGED <<templates, tims, plans, given>>

(* The foreign keys are checked at the end of the transaction.             *)
CommitPlan(d) ==
    LET key == given.plans + 1
        t == importing[d].template
    IN  /\ importing[d].pc = "commit"
        /\ IF t \notin DOMAIN templates THEN UNCHANGED <<plans, given>>
           ELSE /\ key <= MaxKey.plans
                /\ \E e \in importing[d].export :
                       plans' = [p \in DOMAIN plans \union {key} |->
                           IF p \in DOMAIN plans THEN plans[p]
                           ELSE [template |-> t, origin |-> e.origin, pk |-> e.pk,
                                 sections |-> e.sections]]
                /\ given' = [given EXCEPT !.plans = key]
        /\ EndImport(d)
        /\ UNCHANGED <<templates, tims>>

(***************************************************************************)
(* Other requests                                                          *)
(***************************************************************************)
DeletePlan(p) ==
    /\ plans' = [q \in DOMAIN plans \ {p} |-> plans[q]]
    /\ UNCHANGED <<templates, tims, given, importing>>

(* The cascade takes its plans and its metadata along.                     *)
DeleteTemplate(t) ==
    /\ templates' = [u \in DOMAIN templates \ {t} |-> templates[u]]
    /\ tims' = [m \in {n \in DOMAIN tims : tims[n].template # t} |-> tims[m]]
    /\ plans' = [p \in {q \in DOMAIN plans : plans[q].template # t} |-> plans[p]]
    /\ UNCHANGED <<given, importing>>

(* A worker is killed: what it has not committed is rolled back.           *)
KillImporter(d) ==
    /\ importing[d].pc # "idle"
    /\ EndImport(d)
    /\ UNCHANGED <<templates, tims, plans, given>>

ImportNext ==
    \/ \E d \in Importer :
           \/ \E e \in TemplateExport : \E origin \in {FreshOrigin, e.origin} : BeginTemplate(d, e, origin)
           \/ EnsureTemplate(d) \/ CreateTemplate(d) \/ ConnectTemplate(d)
           \/ \E e \in PlanExport : BeginPlan(d, e)
           \/ CreatePlan(d) \/ CommitPlan(d) \/ KillImporter(d)
    \/ \E p \in DOMAIN plans : DeletePlan(p)
    \/ \E t \in DOMAIN templates : DeleteTemplate(t)

ImportSpec == ImportInit /\ [][ImportNext]_importVars

(***************************************************************************)
(* Properties                                                              *)
(***************************************************************************)
(* What has been imported is not imported again: no template is made of   *)
(* one of the same origin and primary key, none is connected twice, and no *)
(* plan is stored again, except by a request that had done with looking    *)
(* when the first import was stored. A template that is found by its uuid  *)
(* is connected though another was made of an export of the same origin    *)
(* and key without one.                                                    *)
SameTemplate(m, n) ==
    \/ m.template = n.template
    \/ /\ m.template \notin DOMAIN templates
       /\ m.origin = n.origin /\ m.pk = n.pk /\ m.origin # FreshOrigin

RepeatedOnlyUnseen ==
    [][/\ \A m \in DOMAIN tims' \ DOMAIN tims, n \in DOMAIN tims :
              SameTemplate(tims'[m], tims[n]) =>
                  \E d \in Importer : importing[d].pc \in {"create", "connect"}
                                      /\ importing'[d].pc = "idle" /\ n \notin importing[d].seen
       /\ \A p \in DOMAIN plans' \ DOMAIN plans, q \in DOMAIN plans :
              plans'[p].origin = plans[q].origin /\ plans'[p].pk = plans[q].pk =>
                  \E d \in Importer : importing[d].pc = "commit"
                                      /\ importing'[d].pc = "idle" /\ q \notin importing[d].seen
      ]_importVars
=============================================================================
