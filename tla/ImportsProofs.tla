---------------------------- MODULE ImportsProofs ----------------------------
(***************************************************************************)
(* Proofs about Imports, for any exports, any number of concurrent         *)
(* requests and any bound: nothing is imported twice except unseen. And    *)
(* about PlanTransfer, for any template, plan and number of edits: what is *)
(* imported is what was exported. And about Rdadcs, for any documents: a   *)
(* plan that was imported and confirmed is exported as its document. And   *)
(* about TemplateTransfer, for any templates and number of changes: the    *)
(* contents of a template arrive whole.                                    *)
(***************************************************************************)
EXTENDS Imports, PlanTransfer, Rdadcs, TemplateTransfer, FiniteSetTheorems, WellFoundedInduction, TLAPS

Given == [templates : Nat, tims : Nat, plans : Nat]

(* Keys are given in turn, and none is given again.                        *)
KeysInv ==
    /\ given \in Given
    /\ DOMAIN templates \subseteq 1..given.templates
    /\ DOMAIN tims \subseteq 1..given.tims
    /\ DOMAIN plans \subseteq 1..given.plans
    /\ \A m \in DOMAIN tims : tims[m].template \in 1..given.templates

(* What a request r still relies on among what it has seen: templates and  *)
(* their metadata, then plans.                                             *)
UnknownTemplate(r) ==
    /\ r.pc = "connect" =>
           /\ r.template \in 1..given.templates
           /\ \A n \in r.seen \intersect DOMAIN tims : tims[n].template # r.template
    /\ r.pc = "create" =>
           \A e \in r.export, n \in r.seen \intersect DOMAIN tims :
               ~(r.origin # FreshOrigin /\ tims[n].origin = r.origin /\ tims[n].pk = e.pk)
    /\ r.pc \in {"create", "connect"} => r.seen \subseteq 1..given.tims

UnknownPlan(r) ==
    r.pc = "commit" =>
        /\ r.seen \subseteq 1..given.plans
        /\ \A e \in r.export, q \in r.seen \intersect DOMAIN plans :
               ~(plans[q].origin = e.origin /\ plans[q].pk = e.pk)

RequestInv(r) == UnknownTemplate(r) /\ UnknownPlan(r)

(* A request is about one export.                                          *)
IsRequest(r) ==
    /\ r = [pc |-> r.pc, export |-> r.export, origin |-> r.origin, template |-> r.template,
            mapping |-> r.mapping, seen |-> r.seen]
    /\ \A e, f \in r.export : e = f

IInv ==
    /\ KeysInv
    /\ DOMAIN importing = Importer
    /\ \A d \in Importer : IsRequest(importing[d]) /\ RequestInv(importing[d])

(* What every step does to the tables: rows are added under new keys or    *)
(* deleted, and never changed.                                             *)
Grow ==
    /\ given'.templates >= given.templates
    /\ given'.tims >= given.tims
    /\ given'.plans >= given.plans
    /\ \A n \in DOMAIN tims' : n \in 1..given.tims => n \in DOMAIN tims /\ tims'[n] = tims[n]
    /\ \A p \in DOMAIN plans' : p \in 1..given.plans => p \in DOMAIN plans /\ plans'[p] = plans[p]

(* The body of RepeatedOnlyUnseen.                                         *)
TemplateEffect ==
    \A m \in DOMAIN tims' \ DOMAIN tims, n \in DOMAIN tims :
        SameTemplate(tims'[m], tims[n]) =>
            \E d \in Importer : importing[d].pc \in {"create", "connect"}
                                /\ importing'[d].pc = "idle" /\ n \notin importing[d].seen

PlanEffect ==
    \A p \in DOMAIN plans' \ DOMAIN plans, q \in DOMAIN plans :
        plans'[p].origin = plans[q].origin /\ plans'[p].pk = plans[q].pk =>
            \E d \in Importer : importing[d].pc = "commit"
                                /\ importing'[d].pc = "idle" /\ q \notin importing[d].seen

-----------------------------------------------------------------------------
(* A step that leaves the tables alone.                                    *)
LEMMA TablesAlone ==
    ASSUME KeysInv, UNCHANGED <<templates, tims, plans, given>>
    PROVE  KeysInv' /\ Grow /\ TemplateEffect /\ PlanEffect
BY DEF KeysInv, Given, Grow, TemplateEffect, PlanEffect

(* What a request relies on stays true while others add and delete.        *)
LEMMA Frame ==
    ASSUME KeysInv, Grow, KeysInv', NEW r, RequestInv(r)
    PROVE  /\ UnknownTemplate(r)' 
           /\ UnknownPlan(r)'
BY DEF KeysInv, Given, Grow, RequestInv, UnknownTemplate, UnknownPlan

(* The request that acts, d, changes to one that holds; others keep theirs.*)
LEMMA RequestsKept ==
    ASSUME IInv, Grow, KeysInv', NEW d \in Importer, NEW new,
           importing' = [importing EXCEPT ![d] = new],
           IsRequest(new), RequestInv(new)'
    PROVE  IInv'
<1>1. DOMAIN importing' = Importer
  BY DEF IInv
<1>2. ASSUME NEW x \in Importer
      PROVE  IsRequest(importing'[x]) /\ RequestInv(importing[x])'
  <2>1. CASE x = d
    <3>1. importing'[x] = new
      BY <2>1 DEF IInv
    <3> QED
      BY <3>1 DEF RequestInv, UnknownTemplate, UnknownPlan
  <2>2. CASE x # d
    <3>1. importing'[x] = importing[x]
      BY <2>2 DEF IInv
    <3>2. IsRequest(importing[x]) /\ RequestInv(importing[x])
      BY DEF IInv
    <3>3. UnknownTemplate(importing[x])' 
      BY <3>1, <3>2 DEF IInv, KeysInv, Given, Grow, RequestInv, UnknownTemplate
    <3>4. UnknownPlan(importing[x])' 
      BY <3>1, <3>2 DEF IInv, KeysInv, Given, Grow, RequestInv, UnknownPlan
    <3> QED
      BY <3>1, <3>2, <3>3, <3>4 DEF RequestInv
  <2> QED
    BY <2>1, <2>2
<1>3. \A x \in Importer : IsRequest(importing[x])' /\ RequestInv(importing[x])'
  BY <1>2 DEF IsRequest
<1> QED
  BY <1>1, <1>3 DEF IInv

LEMMA WaitingRelies == IsRequest(Waiting) /\ RequestInv(Waiting)'
BY DEF Waiting, IsRequest, RequestInv, UnknownTemplate, UnknownPlan

(* A request that ends, whatever it has done to the tables.                *)
LEMMA Ended ==
    ASSUME IInv, Grow, KeysInv', NEW d \in Importer, EndImport(d)
    PROVE  IInv' /\ importing'[d].pc = "idle"
<1>1. importing' = [importing EXCEPT ![d] = Waiting]
  BY DEF EndImport
<1>2. IInv'
  BY <1>1, WaitingRelies, RequestsKept
<1> QED
  BY <1>1, <1>2 DEF IInv, Waiting

(* A step that ends a request and leaves the tables alone.                 *)
LEMMA EndedIdly ==
    ASSUME IInv, NEW d \in Importer, EndImport(d), UNCHANGED <<templates, tims, plans, given>>
    PROVE  IInv' /\ TemplateEffect /\ PlanEffect
BY TablesAlone, Ended DEF IInv

-----------------------------------------------------------------------------
(* The steps                                                               *)

LEMMA BeginTemplateStep ==
    ASSUME IInv, NEW d \in Importer, NEW e \in TemplateExport, NEW origin,
           BeginTemplate(d, e, origin)
    PROVE  IInv' /\ TemplateEffect /\ PlanEffect
<1> DEFINE same == {t \in DOMAIN templates : e.uuid # NoUuid /\ templates[t].uuid = e.uuid}
           known == IF same # {} THEN {m \in DOMAIN tims : tims[m].template \in same}
                    ELSE TimsOf(origin, e.pk)
           t0 == CHOOSE t \in same : TRUE
           begun == [Waiting EXCEPT !.pc = IF same = {} THEN "ensure" ELSE "connect",
                         !.export = {e}, !.origin = origin,
                         !.template = IF same = {} THEN 0 ELSE t0,
                         !.seen = DOMAIN tims]
<1>1. UNCHANGED <<templates, tims, plans, given>>
  BY DEF BeginTemplate
<1>2. CASE known # {}
  BY <1>1, <1>2, EndedIdly DEF BeginTemplate
<1>3. CASE known = {}
  <2>1. PICK new : new = begun
    OBVIOUS
  <2>2. importing' = [importing EXCEPT ![d] = new]
    BY <1>3, <2>1 DEF BeginTemplate
  <2>3. new = [pc |-> IF same = {} THEN "ensure" ELSE "connect", export |-> {e},
               origin |-> origin, template |-> IF same = {} THEN 0 ELSE t0,
               mapping |-> {}, seen |-> DOMAIN tims]
    BY <2>1 DEF Waiting
  <2>4. IsRequest(new)
    BY <2>3 DEF IsRequest
  <2>5. KeysInv /\ KeysInv' /\ Grow /\ TemplateEffect /\ PlanEffect
    BY <1>1, TablesAlone DEF IInv
  <2>6. RequestInv(new)'
    <3>1. CASE same = {}
      BY <2>3, <3>1 DEF RequestInv, UnknownTemplate, UnknownPlan
    <3>2. CASE same # {}
      <4>1. t0 \in same
        BY <3>2
      <4>2. \A m \in DOMAIN tims : tims[m].template # t0
        BY <1>3, <3>2, <4>1
      <4>3. new.pc = "connect" /\ new.template = t0 /\ new.seen = DOMAIN tims
        BY <2>3, <3>2
      <4>4. t0 \in 1..given.templates /\ DOMAIN tims \subseteq 1..given.tims
        BY <2>5, <4>1 DEF KeysInv
      <4> HIDE DEF t0
      <4> QED
        BY <1>1, <4>2, <4>3, <4>4 DEF RequestInv, UnknownTemplate, UnknownPlan
    <3> QED
      BY <3>1, <3>2
  <2> QED
    BY <2>2, <2>4, <2>5, <2>6, RequestsKept
<1> QED
  BY <1>2, <1>3

LEMMA EnsureTemplateStep ==
    ASSUME IInv, NEW d \in Importer, EnsureTemplate(d)
    PROVE  IInv' /\ TemplateEffect /\ PlanEffect
<1>1. UNCHANGED <<templates, tims, plans, given>>
  BY DEF EnsureTemplate
<1>2. PICK e \in importing[d].export :
          IF TimsOf(importing[d].origin, e.pk) # {} THEN EndImport(d)
          ELSE importing' = [importing EXCEPT ![d].pc = "create", ![d].seen = DOMAIN tims]
  BY DEF EnsureTemplate
<1>3. CASE EndImport(d)
  BY <1>1, <1>3, EndedIdly
<1>4. CASE /\ TimsOf(importing[d].origin, e.pk) = {}
           /\ importing' = [importing EXCEPT ![d].pc = "create", ![d].seen = DOMAIN tims]
  <2>1. PICK new : new = [importing[d] EXCEPT !.pc = "create", !.seen = DOMAIN tims]
    OBVIOUS
  <2>2. importing' = [importing EXCEPT ![d] = new]
    BY <1>4, <2>1
  <2>3. IsRequest(importing[d]) /\ DOMAIN tims \subseteq 1..given.tims
    BY DEF IInv, KeysInv
  <2>4. /\ new.pc = "create" /\ new.seen = DOMAIN tims
        /\ new.origin = importing[d].origin /\ new.export = importing[d].export
        /\ IsRequest(new)
    BY <2>1, <2>3 DEF IsRequest
  <2>5. KeysInv' /\ Grow /\ TemplateEffect /\ PlanEffect
    BY <1>1, TablesAlone DEF IInv
  <2>6. \A f \in new.export : f = e
    BY <2>3, <2>4 DEF IsRequest
  <2>7. RequestInv(new)'
    BY <1>1, <1>4, <2>3, <2>4, <2>6 DEF RequestInv, UnknownTemplate, UnknownPlan, TimsOf
  <2> QED
    BY <2>2, <2>4, <2>5, <2>7, RequestsKept
<1> QED
  BY <1>2, <1>3, <1>4

(* A new row of metadata, for a template that is there or new.             *)
LEMMA TimAdded ==
    ASSUME KeysInv, NEW template, NEW origin, NEW pk,
           AddTim(template, origin, pk),
           given'.tims = given.tims + 1, given' \in Given,
           template \in 1..given'.templates, given'.templates >= given.templates
    PROVE  /\ DOMAIN tims' = DOMAIN tims \union {given.tims + 1}
           /\ DOMAIN tims' \subseteq 1..given'.tims
           /\ \A n \in DOMAIN tims : tims'[n] = tims[n]
           /\ tims'[given.tims + 1] = [template |-> template, origin |-> origin, pk |-> pk]
           /\ \A m \in DOMAIN tims' : tims'[m].template \in 1..given'.templates
           /\ DOMAIN tims' \ DOMAIN tims = {given.tims + 1}
<1>1. DOMAIN tims' = DOMAIN tims \union {given.tims + 1}
  BY DEF AddTim
<1>2. given.tims \in Nat /\ given.templates \in Nat /\ given'.templates \in Nat
      /\ DOMAIN tims \subseteq 1..given.tims
  BY DEF KeysInv, Given
<1>3. given.tims + 1 \notin DOMAIN tims
  BY <1>2
<1>4. /\ \A n \in DOMAIN tims : tims'[n] = tims[n]
      /\ tims'[given.tims + 1] = [template |-> template, origin |-> origin, pk |-> pk]
  BY <1>3 DEF AddTim
<1>5. \A m \in DOMAIN tims' : tims'[m].template \in 1..given'.templates
  BY <1>1, <1>2, <1>4 DEF KeysInv
<1> QED
  BY <1>1, <1>2, <1>3, <1>4, <1>5

LEMMA CreateTemplateStep ==
    ASSUME IInv, NEW d \in Importer, CreateTemplate(d)
    PROVE  IInv' /\ TemplateEffect /\ PlanEffect
<1> DEFINE key == given.templates + 1
<1>1. EndImport(d) /\ plans' = plans /\ importing[d].pc = "create"
  BY DEF CreateTemplate
<1>2. PICK e \in importing[d].export :
          IF e.uuid # NoUuid /\ \E t \in DOMAIN templates : templates[t].uuid = e.uuid
          THEN UNCHANGED <<templates, tims, given>>
          ELSE /\ templates' = [t \in DOMAIN templates \union {key} |->
                      IF t \in DOMAIN templates THEN templates[t]
                      ELSE [uuid |-> IF e.uuid = NoUuid THEN "uuid4" ELSE e.uuid,
                            sections |-> {key}]]
               /\ AddTim(key, importing[d].origin, e.pk)
               /\ given' = [given EXCEPT !.templates = key, !.tims = @ + 1]
  BY DEF CreateTemplate
<1>3. CASE UNCHANGED <<templates, tims, given>>
  BY <1>1, <1>3, EndedIdly
<1>4. CASE /\ DOMAIN templates' = DOMAIN templates \union {key}
           /\ AddTim(key, importing[d].origin, e.pk)
           /\ given' = [given EXCEPT !.templates = key, !.tims = @ + 1]
  <2>1. /\ KeysInv /\ IsRequest(importing[d]) /\ UnknownTemplate(importing[d])
        /\ given.templates \in Nat /\ given.tims \in Nat /\ given.plans \in Nat
    BY DEF IInv, KeysInv, Given, RequestInv
  <2>2. /\ given' \in Given
        /\ given'.templates = key /\ given'.tims = given.tims + 1
        /\ given'.plans = given.plans
    <3>1. given = [templates |-> given.templates, tims |-> given.tims, plans |-> given.plans]
      BY <2>1 DEF KeysInv, Given
    <3>2. given' = [templates |-> key, tims |-> given.tims + 1, plans |-> given.plans]
      BY <1>4, <3>1
    <3> QED
      BY <2>1, <3>2 DEF Given
  <2>3. /\ DOMAIN tims' = DOMAIN tims \union {given.tims + 1}
        /\ DOMAIN tims' \subseteq 1..given'.tims
        /\ \A n \in DOMAIN tims : tims'[n] = tims[n]
        /\ tims'[given.tims + 1] =
               [template |-> key, origin |-> importing[d].origin, pk |-> e.pk]
        /\ \A m \in DOMAIN tims' : tims'[m].template \in 1..given'.templates
        /\ DOMAIN tims' \ DOMAIN tims = {given.tims + 1}
    <3>1. key \in 1..given'.templates /\ given'.templates >= given.templates
      BY <2>1, <2>2
    <3> HIDE DEF key
    <3> QED
      BY <1>4, <2>1, <2>2, <3>1, TimAdded
  <2>4. KeysInv' /\ Grow
    BY <1>1, <1>4, <2>1, <2>2, <2>3 DEF KeysInv, Grow
  <2>5. IInv' /\ importing'[d].pc = "idle"
    BY <1>1, <2>4, Ended
  <2>6. TemplateEffect
    <3>1. SUFFICES ASSUME NEW n \in DOMAIN tims,
                          SameTemplate(tims'[given.tims + 1], tims[n])
                   PROVE  n \notin importing[d].seen
      BY <1>1, <2>3, <2>5 DEF TemplateEffect
    <3>2. tims[n].template # key
      BY <2>1 DEF KeysInv
    <3>3. /\ importing[d].origin = tims[n].origin /\ e.pk = tims[n].pk
          /\ importing[d].origin # FreshOrigin
      BY <2>3, <3>1, <3>2 DEF SameTemplate
    <3> QED
      BY <1>1, <2>1, <3>3 DEF UnknownTemplate
  <2>7. PlanEffect
    BY <1>1 DEF PlanEffect
  <2> QED
    BY <2>5, <2>6, <2>7
<1> QED
  BY <1>2, <1>3, <1>4

LEMMA ConnectTemplateStep ==
    ASSUME IInv, NEW d \in Importer, ConnectTemplate(d)
    PROVE  IInv' /\ TemplateEffect /\ PlanEffect
<1> DEFINE t == importing[d].template
<1>1. EndImport(d) /\ UNCHANGED <<templates, plans>> /\ importing[d].pc = "connect"
  BY DEF ConnectTemplate
<1>2. PICK e \in importing[d].export :
          IF t \notin DOMAIN templates \/ ~(e.sections \subseteq templates[t].sections)
          THEN UNCHANGED <<tims, given>>
          ELSE /\ AddTim(t, importing[d].origin, e.pk)
               /\ given' = [given EXCEPT !.tims = @ + 1]
  BY DEF ConnectTemplate
<1>3. CASE UNCHANGED <<tims, given>>
  BY <1>1, <1>3, EndedIdly
<1>4. CASE /\ t \in DOMAIN templates
           /\ AddTim(t, importing[d].origin, e.pk)
           /\ given' = [given EXCEPT !.tims = @ + 1]
  <2>1. /\ KeysInv /\ UnknownTemplate(importing[d])
        /\ given.templates \in Nat /\ given.tims \in Nat /\ given.plans \in Nat
    BY DEF IInv, KeysInv, Given, RequestInv
  <2>2. /\ given' \in Given
        /\ given'.templates = given.templates /\ given'.tims = given.tims + 1
        /\ given'.plans = given.plans
    BY <1>4, <2>1 DEF KeysInv, Given
  <2>3. /\ DOMAIN tims' = DOMAIN tims \union {given.tims + 1}
        /\ DOMAIN tims' \subseteq 1..given'.tims
        /\ \A n \in DOMAIN tims : tims'[n] = tims[n]
        /\ tims'[given.tims + 1] =
               [template |-> t, origin |-> importing[d].origin, pk |-> e.pk]
        /\ \A m \in DOMAIN tims' : tims'[m].template \in 1..given'.templates
        /\ DOMAIN tims' \ DOMAIN tims = {given.tims + 1}
    <3>1. t \in 1..given'.templates /\ given'.templates >= given.templates
      BY <1>4, <2>1, <2>2 DEF KeysInv
    <3> HIDE DEF t
    <3> QED
      BY <1>4, <2>1, <2>2, <3>1, TimAdded
  <2>4. KeysInv' /\ Grow
    BY <1>1, <1>4, <2>1, <2>2, <2>3 DEF KeysInv, Grow
  <2>5. IInv' /\ importing'[d].pc = "idle"
    BY <1>1, <2>4, Ended
  <2>6. TemplateEffect
    <3>1. SUFFICES ASSUME NEW n \in DOMAIN tims,
                          SameTemplate(tims'[given.tims + 1], tims[n])
                   PROVE  n \notin importing[d].seen
      BY <1>1, <2>3, <2>5 DEF TemplateEffect
    <3>2. tims[n].template = t
      BY <1>4, <2>3, <3>1 DEF SameTemplate
    <3> QED
      BY <1>1, <2>1, <3>2 DEF UnknownTemplate
  <2>7. PlanEffect
    BY <1>1 DEF PlanEffect
  <2> QED
    BY <2>5, <2>6, <2>7
<1> QED
  BY <1>2, <1>3, <1>4

LEMMA BeginPlanStep ==
    ASSUME IInv, NEW d \in Importer, NEW e \in PlanExport, BeginPlan(d, e)
    PROVE  IInv' /\ TemplateEffect /\ PlanEffect
<1>1. UNCHANGED <<templates, tims, plans, given>>
  BY DEF BeginPlan
<1>2. CASE EndImport(d)
  BY <1>1, <1>2, EndedIdly
<1>3. CASE ~EndImport(d)
  <2>1. PICK new : new = [Waiting EXCEPT !.pc = "plan", !.export = {e}, !.origin = e.origin,
                              !.template = e.template, !.mapping = IdentityMapping(e.template),
                              !.seen = DOMAIN plans]
    OBVIOUS
  <2>2. importing' = [importing EXCEPT ![d] = new]
    BY <1>3, <2>1 DEF BeginPlan
  <2>3. IsRequest(new) /\ new.pc = "plan"
    BY <2>1 DEF IsRequest, Waiting
  <2>4. RequestInv(new)'
    BY <2>3 DEF RequestInv, UnknownTemplate, UnknownPlan
  <2>5. KeysInv' /\ Grow /\ TemplateEffect /\ PlanEffect
    BY <1>1, TablesAlone DEF IInv
  <2> QED
    BY <2>2, <2>3, <2>4, <2>5, RequestsKept
<1> QED
  BY <1>2, <1>3

LEMMA CreatePlanStep ==
    ASSUME IInv, NEW d \in Importer, CreatePlan(d)
    PROVE  IInv' /\ TemplateEffect /\ PlanEffect
<1>1. UNCHANGED <<templates, tims, plans, given>>
  BY DEF CreatePlan
<1>2. PICK e \in importing[d].export :
          IF PlansOf(e.origin, e.pk) # {} \/ ~(e.sections \subseteq importing[d].mapping)
          THEN EndImport(d)
          ELSE importing' = [importing EXCEPT ![d].pc = "commit", ![d].seen = DOMAIN plans]
  BY DEF CreatePlan
<1>3. CASE EndImport(d)
  BY <1>1, <1>3, EndedIdly
<1>4. CASE /\ PlansOf(e.origin, e.pk) = {}
           /\ importing' = [importing EXCEPT ![d].pc = "commit", ![d].seen = DOMAIN plans]
  <2>1. PICK new : new = [importing[d] EXCEPT !.pc = "commit", !.seen = DOMAIN plans]
    OBVIOUS
  <2>2. importing' = [importing EXCEPT ![d] = new]
    BY <1>4, <2>1
  <2>3. IsRequest(importing[d]) /\ DOMAIN plans \subseteq 1..given.plans
    BY DEF IInv, KeysInv
  <2>4. /\ new.pc = "commit" /\ new.seen = DOMAIN plans
        /\ new.export = importing[d].export
        /\ IsRequest(new)
    BY <2>1, <2>3 DEF IsRequest
  <2>5. KeysInv' /\ Grow /\ TemplateEffect /\ PlanEffect
    BY <1>1, TablesAlone DEF IInv
  <2>6. \A f \in new.export : f = e
    BY <2>3, <2>4 DEF IsRequest
  <2>7. RequestInv(new)'
    BY <1>1, <1>4, <2>3, <2>4, <2>6 DEF RequestInv, UnknownTemplate, UnknownPlan, PlansOf
  <2> QED
    BY <2>2, <2>4, <2>5, <2>7, RequestsKept
<1> QED
  BY <1>2, <1>3, <1>4

LEMMA CommitPlanStep ==
    ASSUME IInv, NEW d \in Importer, CommitPlan(d)
    PROVE  IInv' /\ TemplateEffect /\ PlanEffect
<1> DEFINE key == given.plans + 1
<1>1. EndImport(d) /\ UNCHANGED <<templates, tims>> /\ importing[d].pc = "commit"
  BY DEF CommitPlan
<1>2. CASE UNCHANGED <<plans, given>>
  BY <1>1, <1>2, EndedIdly
<1>3. CASE ~UNCHANGED <<plans, given>>
  <2>1. PICK e \in importing[d].export :
            plans' = [p \in DOMAIN plans \union {key} |->
                         IF p \in DOMAIN plans THEN plans[p]
                         ELSE [template |-> importing[d].template, origin |-> e.origin,
                               pk |-> e.pk, sections |-> e.sections]]
    BY <1>3 DEF CommitPlan
  <2>2. given' = [given EXCEPT !.plans = key]
    BY <1>3 DEF CommitPlan
  <2>3. /\ KeysInv /\ UnknownPlan(importing[d])
        /\ given.templates \in Nat /\ given.tims \in Nat /\ given.plans \in Nat
    BY DEF IInv, KeysInv, Given, RequestInv
  <2>4. /\ given' \in Given
        /\ given'.templates = given.templates /\ given'.tims = given.tims
        /\ given'.plans = key
    BY <2>2, <2>3 DEF KeysInv, Given
  <2>5. key \notin DOMAIN plans
    BY <2>3 DEF KeysInv
  <2>6. /\ DOMAIN plans' = DOMAIN plans \union {key}
        /\ \A p \in DOMAIN plans : plans'[p] = plans[p]
        /\ plans'[key].origin = e.origin /\ plans'[key].pk = e.pk
        /\ DOMAIN plans' \ DOMAIN plans = {key}
    BY <2>1, <2>5
  <2>7. KeysInv' /\ Grow
    BY <1>1, <2>3, <2>4, <2>6 DEF KeysInv, Grow
  <2>8. IInv' /\ importing'[d].pc = "idle"
    BY <1>1, <2>7, Ended
  <2>9. PlanEffect
    <3>1. SUFFICES ASSUME NEW q \in DOMAIN plans,
                          plans[q].origin = e.origin, plans[q].pk = e.pk
                   PROVE  q \notin importing[d].seen
      BY <1>1, <2>6, <2>8 DEF PlanEffect
    <3> QED
      BY <1>1, <2>3, <3>1 DEF UnknownPlan
  <2>10. TemplateEffect
    BY <1>1 DEF TemplateEffect
  <2> QED
    BY <2>8, <2>9, <2>10
<1> QED
  BY <1>2, <1>3

(* Deletions take rows away and no request along.                          *)
LEMMA Deletion ==
    ASSUME IInv, UNCHANGED <<given, importing>>,
           DOMAIN templates' \subseteq DOMAIN templates,
           DOMAIN tims' \subseteq DOMAIN tims, \A m \in DOMAIN tims' : tims'[m] = tims[m],
           DOMAIN plans' \subseteq DOMAIN plans, \A p \in DOMAIN plans' : plans'[p] = plans[p]
    PROVE  IInv' /\ TemplateEffect /\ PlanEffect
<1>1. KeysInv' /\ Grow
  BY DEF IInv, KeysInv, Given, Grow
<1>2. TemplateEffect /\ PlanEffect
  BY DEF TemplateEffect, PlanEffect
<1>3. ASSUME NEW x \in Importer
      PROVE  RequestInv(importing[x])'
  BY <1>1 DEF IInv, RequestInv, UnknownTemplate, UnknownPlan
<1>4. \A x \in Importer : IsRequest(importing[x])'
  BY DEF IInv, IsRequest
<1> QED
  BY <1>1, <1>2, <1>3, <1>4 DEF IInv

-----------------------------------------------------------------------------
LEMMA NextOK == ASSUME IInv, [ImportNext]_importVars
                PROVE  IInv' /\ (UNCHANGED importVars \/ (TemplateEffect /\ PlanEffect))
<1>1. ASSUME NEW d \in Importer, NEW e \in TemplateExport, NEW origin, BeginTemplate(d, e, origin)
      PROVE  IInv' /\ TemplateEffect /\ PlanEffect
  BY <1>1, BeginTemplateStep
<1>2. ASSUME NEW d \in Importer, EnsureTemplate(d)
      PROVE  IInv' /\ TemplateEffect /\ PlanEffect
  BY <1>2, EnsureTemplateStep
<1>3. ASSUME NEW d \in Importer, CreateTemplate(d)
      PROVE  IInv' /\ TemplateEffect /\ PlanEffect
  BY <1>3, CreateTemplateStep
<1>4. ASSUME NEW d \in Importer, ConnectTemplate(d)
      PROVE  IInv' /\ TemplateEffect /\ PlanEffect
  BY <1>4, ConnectTemplateStep
<1>5. ASSUME NEW d \in Importer, NEW e \in PlanExport, BeginPlan(d, e)
      PROVE  IInv' /\ TemplateEffect /\ PlanEffect
  BY <1>5, BeginPlanStep
<1>6. ASSUME NEW d \in Importer, CreatePlan(d)
      PROVE  IInv' /\ TemplateEffect /\ PlanEffect
  BY <1>6, CreatePlanStep
<1>7. ASSUME NEW d \in Importer, CommitPlan(d)
      PROVE  IInv' /\ TemplateEffect /\ PlanEffect
  BY <1>7, CommitPlanStep
<1>8. ASSUME NEW d \in Importer, KillImporter(d)
      PROVE  IInv' /\ TemplateEffect /\ PlanEffect
  BY <1>8, EndedIdly DEF KillImporter
<1>9. ASSUME NEW p \in DOMAIN plans, DeletePlan(p)
      PROVE  IInv' /\ TemplateEffect /\ PlanEffect
  BY <1>9, Deletion DEF DeletePlan
<1>10. ASSUME NEW t \in DOMAIN templates, DeleteTemplate(t)
       PROVE  IInv' /\ TemplateEffect /\ PlanEffect
  BY <1>10, Deletion DEF DeleteTemplate
<1>11. CASE UNCHANGED importVars
  <2>1. KeysInv' /\ DOMAIN importing' = Importer
    BY <1>11 DEF importVars, IInv, KeysInv
  <2>2. \A d \in Importer : IsRequest(importing[d])' /\ RequestInv(importing[d])'
    BY <1>11 DEF importVars, IInv, IsRequest, RequestInv, UnknownTemplate, UnknownPlan
  <2> QED
    BY <1>11, <2>1, <2>2 DEF IInv
<1> QED
  BY <1>1, <1>2, <1>3, <1>4, <1>5, <1>6, <1>7, <1>8, <1>9, <1>10, <1>11 DEF ImportNext

LEMMA InitOK == ASSUME ImportInit PROVE IInv
<1>1. KeysInv
  BY DEF ImportInit, KeysInv, Given
<1>2. \A d \in Importer : importing[d] = Waiting
  BY DEF ImportInit
<1>3. IsRequest(Waiting) /\ RequestInv(Waiting)
  BY DEF Waiting, IsRequest, RequestInv, UnknownTemplate, UnknownPlan
<1>4. DOMAIN importing = Importer
  BY DEF ImportInit
<1> QED
  BY <1>1, <1>2, <1>3, <1>4 DEF IInv

(* Whatever is exported and however many import at once, a template or a   *)
(* plan is imported twice only by a request that had looked before the     *)
(* first of them was stored.                                               *)
THEOREM RepeatsAreUnseen == ImportSpec => RepeatedOnlyUnseen
<1>1. ImportInit => IInv
  BY InitOK
<1>2. IInv /\ [ImportNext]_importVars => IInv'
  BY NextOK
<1>3. IInv /\ [ImportNext]_importVars =>
          UNCHANGED importVars \/ (TemplateEffect /\ PlanEffect)
  BY NextOK
<1>4. IInv /\ [ImportNext]_importVars =>
          [/\ \A m \in DOMAIN tims' \ DOMAIN tims, n \in DOMAIN tims :
                  SameTemplate(tims'[m], tims[n]) =>
                      \E d \in Importer : importing[d].pc \in {"create", "connect"}
                                          /\ importing'[d].pc = "idle" /\ n \notin importing[d].seen
           /\ \A p \in DOMAIN plans' \ DOMAIN plans, q \in DOMAIN plans :
                  plans'[p].origin = plans[q].origin /\ plans'[p].pk = plans[q].pk =>
                      \E d \in Importer : importing[d].pc = "commit"
                                          /\ importing'[d].pc = "idle" /\ q \notin importing[d].seen
          ]_importVars
  BY <1>3 DEF TemplateEffect, PlanEffect
<1> QED
  BY <1>1, <1>2, <1>4, PTL DEF ImportSpec, RepeatedOnlyUnseen

-----------------------------------------------------------------------------
(***************************************************************************)
(* A plan that is sent: its rows, while they are edited.                   *)
(***************************************************************************)
GoodRows(R) ==
    /\ IsFiniteSet(DOMAIN R)
    /\ DOMAIN R \subseteq Nat \ {0}
    /\ \A k \in DOMAIN R : IsRow(R[k]) /\ R[k].section \in DOMAIN Ours.super

RowsOK == GoodRows(originals)

WasRemoved == \E e \in planEdits : e[2] = "removed"

(* Rows that are counted, once it is certain that they are.                *)
CountedInTurn == ~WasRemoved /\ ~Identifies(Ours) => NumberedRows(originals)

LEMMA FormsAre ==
  ASSUME fitted \in PlanTemplates
  PROVE  IsFormOf(Ours) /\ IsFormOf(Theirs)
BY FormsAssumption DEF Ours, Theirs

LEMMA NewIdentifier ==
  ASSUME NEW r, NEW x, IsRow(r)
  PROVE  LET e == [r EXCEPT !.identifier = x]
         IN  IsRow(e) /\ e.section = r.section /\ e.identifier = x
<1> DEFINE sec == r.section
           par == r.parent
           skip == r.skipped
           dat == r.data
           idf == r.identifier
<1>1. r = [section |-> sec, parent |-> par, skipped |-> skip, data |-> dat, identifier |-> idf]
  BY DEF IsRow
<1> HIDE DEF sec, par, skip, dat, idf
<1>2. [r EXCEPT !.identifier = x] =
        [section |-> sec, parent |-> par, skipped |-> skip, data |-> dat, identifier |-> x]
  BY <1>1
<1>3. [r EXCEPT !.identifier = x].section = sec /\ [r EXCEPT !.identifier = x].identifier = x
  BY <1>2
<1>4. IsRow([r EXCEPT !.identifier = x])
  BY <1>2 DEF IsRow
<1> QED BY <1>3, <1>4 DEF sec, idf

LEMMA NewSkipped ==
  ASSUME NEW r, NEW x, IsRow(r)
  PROVE  LET e == [r EXCEPT !.skipped = x]
         IN  IsRow(e) /\ e.section = r.section /\ e.identifier = r.identifier
<1> DEFINE sec == r.section
           par == r.parent
           skip == r.skipped
           dat == r.data
           idf == r.identifier
<1>1. r = [section |-> sec, parent |-> par, skipped |-> skip, data |-> dat, identifier |-> idf]
  BY DEF IsRow
<1> HIDE DEF sec, par, skip, dat, idf
<1>2. [r EXCEPT !.skipped = x] =
        [section |-> sec, parent |-> par, skipped |-> x, data |-> dat, identifier |-> idf]
  BY <1>1
<1>3. [r EXCEPT !.skipped = x].section = sec /\ [r EXCEPT !.skipped = x].identifier = idf
  BY <1>2
<1>4. IsRow([r EXCEPT !.skipped = x])
  BY <1>2 DEF IsRow
<1> QED BY <1>3, <1>4 DEF sec, idf

LEMMA NewData ==
  ASSUME NEW r, NEW x, IsRow(r)
  PROVE  LET e == [r EXCEPT !.data = x]
         IN  IsRow(e) /\ e.section = r.section /\ e.identifier = r.identifier
<1> DEFINE sec == r.section
           par == r.parent
           skip == r.skipped
           dat == r.data
           idf == r.identifier
<1>1. r = [section |-> sec, parent |-> par, skipped |-> skip, data |-> dat, identifier |-> idf]
  BY DEF IsRow
<1> HIDE DEF sec, par, skip, dat, idf
<1>2. [r EXCEPT !.data = x] =
        [section |-> sec, parent |-> par, skipped |-> skip, data |-> x, identifier |-> idf]
  BY <1>1
<1>3. [r EXCEPT !.data = x].section = sec /\ [r EXCEPT !.data = x].identifier = idf
  BY <1>2
<1>4. IsRow([r EXCEPT !.data = x])
  BY <1>2 DEF IsRow
<1> QED BY <1>3, <1>4 DEF sec, idf

(* Tables with the same rows in the same sections under the same           *)
(* identifiers.                                                            *)
SamePlaces(R, S) ==
    /\ DOMAIN R = DOMAIN S
    /\ \A k \in DOMAIN S :
           IsRow(R[k]) /\ R[k].section = S[k].section /\ R[k].identifier = S[k].identifier

LEMMA SameNumbers ==
  ASSUME NEW R, NEW S, SamePlaces(R, S), NumberedRows(S)
  PROVE  NumberedRows(R)
<1>1. \A s : InSection(R, s) = InSection(S, s)
  BY DEF SamePlaces, InSection
<1>2. SUFFICES ASSUME NEW k \in DOMAIN R
      PROVE  /\ \E n \in 1..Cardinality(InSection(R, R[k].section)) : R[k].identifier = Counted(n)
             /\ \A l \in DOMAIN R : R[k].section = R[l].section /\ R[k].identifier = R[l].identifier
                                       => k = l
  BY DEF NumberedRows
<1>3. InSection(R, R[k].section) = InSection(S, S[k].section)
  BY <1>1 DEF SamePlaces
<1>4. \E n \in 1..Cardinality(InSection(S, S[k].section)) : S[k].identifier = Counted(n)
  BY DEF SamePlaces, NumberedRows
<1>5. R[k].identifier = S[k].identifier
  BY DEF SamePlaces
<1>6. \A l \in DOMAIN R : R[k].section = R[l].section /\ R[k].identifier = R[l].identifier => k = l
  BY DEF SamePlaces, NumberedRows
<1> QED BY <1>3, <1>4, <1>5, <1>6

(* Saving a row where nothing is named changes no identifier.              *)
LEMMA SavedPlaces ==
  ASSUME RowsOK, fitted \in PlanTemplates, NEW k,
         NEW R, DOMAIN R = DOMAIN originals,
         \A l \in DOMAIN originals : IsRow(R[l]) /\ R[l].section = originals[l].section
  PROVE  /\ DOMAIN Saved(R, k) = DOMAIN originals
         /\ \A l \in DOMAIN originals :
                IsRow(Saved(R, k)[l]) /\ Saved(R, k)[l].section = originals[l].section
         /\ ~Identifies(Ours) =>
                \A l \in DOMAIN originals : Saved(R, k)[l].identifier = R[l].identifier
<1> DEFINE new == Identifier(Ours, R, k)
<1>1. Saved(R, k) = [R EXCEPT ![k].identifier = new]
  BY DEF Saved
<1>2. ~Identifies(Ours) /\ k \in DOMAIN originals => new = R[k].identifier
  BY DEF Identifies, Identifier, RowsOK, GoodRows
<1> HIDE DEF new
<1>3. Saved(R, k) = [l \in DOMAIN R |-> IF l = k THEN [R[k] EXCEPT !.identifier = new] ELSE R[l]]
  BY <1>1
<1>4. ASSUME NEW l \in DOMAIN originals
      PROVE  /\ IsRow(Saved(R, k)[l]) /\ Saved(R, k)[l].section = originals[l].section
             /\ ~Identifies(Ours) => Saved(R, k)[l].identifier = R[l].identifier
  <2>1. CASE l = k
    <3> DEFINE old == R[k]
    <3>1. IsRow(old) /\ old.section = originals[k].section
      BY <2>1
    <3>2. Saved(R, k)[l] = [old EXCEPT !.identifier = new]
      BY <1>3, <2>1
    <3>3. new = old.identifier \/ Identifies(Ours)
      BY <1>2, <2>1
    <3> HIDE DEF old
    <3>4. /\ IsRow([old EXCEPT !.identifier = new])
          /\ [old EXCEPT !.identifier = new].section = old.section
          /\ [old EXCEPT !.identifier = new].identifier = new
      BY <3>1, NewIdentifier
    <3> QED BY <2>1, <3>1, <3>2, <3>3, <3>4 DEF old
  <2>2. CASE l # k
    BY <1>3, <2>2
  <2> QED BY <2>1, <2>2
<1> QED BY <1>3, <1>4

(* What an edit leaves: rows of the template, and counted if they were.    *)
GoodEdit(R) ==
    GoodRows(R) /\ (~Identifies(Ours) /\ NumberedRows(originals) => NumberedRows(R))

LEMMA SavedIsGood ==
  ASSUME RowsOK, fitted \in PlanTemplates, NEW k \in DOMAIN originals,
         NEW R, DOMAIN R = DOMAIN originals,
         \A l \in DOMAIN originals \ {k} : R[l] = originals[l],
         IsRow(R[k]), R[k].section = originals[k].section,
         R[k].identifier = originals[k].identifier
  PROVE  GoodEdit(Saved(R, k))
<1>1. \A l \in DOMAIN originals :
         /\ IsRow(R[l]) /\ R[l].section = originals[l].section
         /\ R[l].identifier = originals[l].identifier
  BY DEF RowsOK, GoodRows
<1>2. /\ DOMAIN Saved(R, k) = DOMAIN originals
      /\ \A l \in DOMAIN originals :
             IsRow(Saved(R, k)[l]) /\ Saved(R, k)[l].section = originals[l].section
      /\ ~Identifies(Ours) =>
             \A l \in DOMAIN originals : Saved(R, k)[l].identifier = R[l].identifier
  BY <1>1, SavedPlaces
<1>3. GoodRows(Saved(R, k))
  BY <1>2 DEF RowsOK, GoodRows
<1>4. ~Identifies(Ours) => SamePlaces(Saved(R, k), originals)
  BY <1>1, <1>2 DEF SamePlaces
<1> QED BY <1>3, <1>4, SameNumbers DEF GoodEdit

(* One more row in some sections, with the next number each.               *)
Grows(S, R, N) ==
    /\ IsFiniteSet(DOMAIN S) /\ IsFiniteSet(N) /\ N \intersect DOMAIN S = {}
    /\ DOMAIN R = DOMAIN S \union N
    /\ \A k \in DOMAIN S : R[k].section = S[k].section /\ R[k].identifier = S[k].identifier
    /\ \A n \in N : R[n].identifier = Counted(Cardinality(InSection(S, R[n].section)) + 1)
    /\ \A n, m \in N : R[n].section = R[m].section => n = m

LEMMA AddedNumbers ==
  ASSUME NEW S, NEW R, NEW N, Grows(S, R, N), NumberedRows(S)
  PROVE  NumberedRows(R)
<1>0. /\ IsFiniteSet(DOMAIN S) /\ IsFiniteSet(N) /\ N \intersect DOMAIN S = {}
      /\ DOMAIN R = DOMAIN S \union N
      /\ \A k \in DOMAIN S : R[k].section = S[k].section /\ R[k].identifier = S[k].identifier
      /\ \A n \in N : R[n].identifier = Counted(Cardinality(InSection(S, R[n].section)) + 1)
      /\ \A n, m \in N : R[n].section = R[m].section => n = m
  BY DEF Grows
<1> USE <1>0
<1>1. ASSUME NEW s
      PROVE  /\ IsFiniteSet(InSection(S, s)) /\ IsFiniteSet(InSection(R, s))
             /\ Cardinality(InSection(S, s)) \in Nat /\ Cardinality(InSection(R, s)) \in Nat
             /\ Cardinality(InSection(S, s)) <= Cardinality(InSection(R, s))
  <2>1. InSection(S, s) \subseteq DOMAIN S /\ InSection(R, s) \subseteq DOMAIN R
    BY DEF InSection
  <2>2. InSection(S, s) \subseteq InSection(R, s)
    BY DEF InSection
  <2>3. IsFiniteSet(DOMAIN R)
    <3>1. IsFiniteSet(DOMAIN S \union N)
      BY FS_Union
    <3> QED BY <3>1
  <2>4. IsFiniteSet(InSection(S, s)) /\ IsFiniteSet(InSection(R, s))
    BY <2>1, <2>3, FS_Subset
  <2> QED BY <2>2, <2>4, FS_Subset, FS_CardinalityType
<1>2. ASSUME NEW k \in N
      PROVE  Cardinality(InSection(R, R[k].section)) = Cardinality(InSection(S, R[k].section)) + 1
  <2> DEFINE s == R[k].section
  <2>1. InSection(R, s) = InSection(S, s) \union {k} /\ k \notin InSection(S, s)
    BY DEF InSection
  <2> HIDE DEF s
  <2>2. Cardinality(InSection(S, s) \union {k}) = Cardinality(InSection(S, s)) + 1
    BY <1>1, <2>1, FS_AddElement
  <2>3. Cardinality(InSection(R, s)) = Cardinality(InSection(S, s)) + 1
    BY <2>1, <2>2
  <2> QED BY <2>3 DEF s
<1>3. ASSUME NEW k \in DOMAIN S
      PROVE  \E n \in 1..Cardinality(InSection(S, R[k].section)) : R[k].identifier = Counted(n)
  BY DEF NumberedRows
<1>4. \A i, j \in Nat : Counted(i) = Counted(j) => i = j
  BY DEF Counted
<1>5. ASSUME NEW k \in DOMAIN R
      PROVE  \E n \in 1..Cardinality(InSection(R, R[k].section)) : R[k].identifier = Counted(n)
  <2>1. CASE k \in N
    <3> DEFINE c == Cardinality(InSection(S, R[k].section))
    <3>1. c \in Nat /\ R[k].identifier = Counted(c + 1)
      BY <1>1, <2>1
    <3>2. Cardinality(InSection(R, R[k].section)) = c + 1
      BY <1>2, <2>1
    <3> HIDE DEF c
    <3> QED BY <3>1, <3>2
  <2>2. CASE k \in DOMAIN S
    <3> DEFINE c == Cardinality(InSection(S, R[k].section))
               d == Cardinality(InSection(R, R[k].section))
    <3>1. c \in Nat /\ d \in Nat /\ c <= d
      BY <1>1
    <3>2. PICK n \in 1..c : R[k].identifier = Counted(n)
      BY <1>3, <2>2
    <3> HIDE DEF c, d
    <3>3. n \in 1..d
      BY <3>1, <3>2
    <3> QED BY <3>2, <3>3 DEF d
  <2> QED BY <2>1, <2>2
<1>6. ASSUME NEW k \in N, NEW l \in DOMAIN S, R[k].section = R[l].section,
             R[k].identifier = R[l].identifier
      PROVE  FALSE
  <2> DEFINE c == Cardinality(InSection(S, R[k].section))
  <2>1. c \in Nat /\ R[k].identifier = Counted(c + 1)
    BY <1>1
  <2>2. PICK n \in 1..c : R[l].identifier = Counted(n)
    BY <1>3, <1>6
  <2> HIDE DEF c
  <2>3. n = c + 1
    <3>1. Counted(n) = Counted(c + 1)
      BY <1>6, <2>1, <2>2
    <3>2. n \in Nat /\ c + 1 \in Nat
      BY <2>1, <2>2
    <3> QED BY <1>4, <3>1, <3>2
  <2> QED BY <2>1, <2>2, <2>3
<1>7. ASSUME NEW k \in DOMAIN S, NEW l \in DOMAIN S, R[k].section = R[l].section,
             R[k].identifier = R[l].identifier
      PROVE  k = l
  BY <1>7 DEF NumberedRows
<1>8. ASSUME NEW k \in DOMAIN R, NEW l \in DOMAIN R, R[k].section = R[l].section,
             R[k].identifier = R[l].identifier
      PROVE  k = l
  <2>1. CASE k \in N /\ l \in N
    BY <1>8, <2>1
  <2>2. CASE k \in N /\ l \in DOMAIN S
    BY <1>6, <1>8, <2>2
  <2>3. CASE k \in DOMAIN S /\ l \in N
    BY <1>6, <1>8, <2>3
  <2>4. CASE k \in DOMAIN S /\ l \in DOMAIN S
    BY <1>7, <1>8, <2>4
  <2> QED BY <2>1, <2>2, <2>3, <2>4
<1> QED BY <1>5, <1>8 DEF NumberedRows

-----------------------------------------------------------------------------
(***************************************************************************)
(* The edits.                                                              *)
(***************************************************************************)
LEMMA RemovalEdit ==
  ASSUME RowsOK, NEW R, \E K \in SUBSET DOMAIN originals : R = Restrict(originals, K)
  PROVE  GoodRows(R)
<1>1. PICK K \in SUBSET DOMAIN originals : R = Restrict(originals, K)
  OBVIOUS
<1>2. DOMAIN R = K /\ \A k \in K : R[k] = originals[k]
  BY <1>1 DEF Restrict
<1>3. IsFiniteSet(K)
  BY <1>1, FS_Subset DEF RowsOK, GoodRows
<1> QED BY <1>2, <1>3 DEF RowsOK, GoodRows

(* A finite set of numbers has a largest one.                              *)
LEMMA FiniteHasLargest ==
  ASSUME NEW K \in SUBSET Nat, IsFiniteSet(K), K # {}
  PROVE  Max(K) \in K /\ \A k \in K : k <= Max(K)
<1> DEFINE Topped(L) == \E x \in L : \A y \in L : x >= y
           Open == {L \in FiniteSubsetsOf(Nat) : L # {} /\ ~Topped(L)}
<1>1. Topped(K)
  <2>1. SUFFICES ASSUME Open # {} PROVE FALSE
    BY DEF FiniteSubsetsOf
  <2>2. IsWellFoundedOn(StrictSubsetOrdering(Nat), FiniteSubsetsOf(Nat))
    BY FS_StrictSubsetOrderingWellFounded
  <2>3. Open \subseteq FiniteSubsetsOf(Nat)
    OBVIOUS
  <2>4. PICK L \in Open : \A M \in Open : <<M, L>> \notin StrictSubsetOrdering(Nat)
    <3> HIDE DEF Open
    <3> QED BY <2>1, <2>2, <2>3, WFMin
  <2>5. L \subseteq Nat /\ IsFiniteSet(L) /\ L # {} /\ ~Topped(L)
    BY DEF FiniteSubsetsOf
  <2>6. PICK x \in L : TRUE
    BY <2>5
  <2> DEFINE M == L \ {x}
  <2>7. M \subseteq Nat /\ IsFiniteSet(M)
    BY <2>5, FS_Subset
  <2>8. <<M, L>> \in StrictSubsetOrdering(Nat)
    BY <2>5, <2>6 DEF StrictSubsetOrdering
  <2>9. M \notin Open
    <3> HIDE DEF M, Open
    <3> QED BY <2>4, <2>8
  <2>10. M = {} \/ Topped(M)
    BY <2>7, <2>9 DEF FiniteSubsetsOf
  <2>11. CASE M = {}
    BY <2>5, <2>6, <2>11
  <2>12. CASE Topped(M)
    <3>1. PICK m \in M : \A y \in M : m >= y
      BY <2>12
    <3>2. CASE m >= x
      BY <2>5, <3>1, <3>2
    <3>3. CASE x > m
      <4>1. \A y \in L : x >= y
        BY <2>5, <2>6, <3>1, <3>3
      <4> QED BY <2>5, <2>6, <4>1
    <3> QED BY <2>5, <2>6, <3>1, <3>2, <3>3
  <2> QED BY <2>10, <2>11, <2>12
<1>2. Max(K) \in K /\ \A k \in K : Max(K) >= k
  BY <1>1 DEF Max
<1>3. Max(K) \in Nat
  BY <1>2
<1> QED BY <1>2, <1>3

LEMMA LeastInSet ==
  ASSUME NEW T, T \subseteq Nat, T # {}
  PROVE  Min(T) \in T
<1> DEFINE Less == {pair \in Nat \X Nat : pair[1] < pair[2]}
<1>1. IsWellFoundedOn(Less, Nat)
  BY NatLessThanWellFounded DEF OpToRel
<1> HIDE DEF Less
<1>2. PICK x \in T : \A y \in T : <<y, x>> \notin Less
  BY <1>1, WFMin
<1>3. \A y \in T : ~(y < x)
  BY <1>2 DEF Less
<1>4. \A y \in T : x <= y
  BY <1>3
<1> QED BY <1>4 DEF Min

(* The rows AddSibling adds to section s: the new sibling under the next   *)
(* key, and one in every section below.                                    *)
AddsSiblings(R, k, s, key, below, N) ==
    /\ s = originals[k].section
    /\ key = Max(DOMAIN originals) + 1
    /\ below = {t \in DOMAIN Ours.super : Ours.super[t] = s}
    /\ N = {key} \union {key + t : t \in below}
    /\ DOMAIN R = DOMAIN originals \union N
    /\ \A l \in DOMAIN originals : R[l] = originals[l]
    /\ \A n \in N :
           /\ IsRow(R[n])
           /\ R[n].section = (IF n = key THEN s ELSE n - key)
           /\ R[n].identifier = Counted(Cardinality(InSection(originals, R[n].section)) + 1)

LEMMA SiblingsAdded ==
  ASSUME RowsOK, fitted \in PlanTemplates, NEW k \in DOMAIN originals,
         NEW s, NEW key, NEW below, NEW N, NEW R, AddsSiblings(R, k, s, key, below, N)
  PROVE  GoodEdit(R)
<1>01. s = originals[k].section
  BY DEF AddsSiblings
<1>02. key = Max(DOMAIN originals) + 1
  BY DEF AddsSiblings
<1>03. below = {t \in DOMAIN Ours.super : Ours.super[t] = s}
  BY DEF AddsSiblings
<1>04. N = {key} \union {key + t : t \in below}
  BY DEF AddsSiblings
<1>05. DOMAIN R = DOMAIN originals \union N
  BY DEF AddsSiblings
<1>06. \A l \in DOMAIN originals : R[l] = originals[l]
  BY DEF AddsSiblings
<1>07. \A n \in N : IsRow(R[n]) /\ R[n].section = IF n = key THEN s ELSE n - key
  BY DEF AddsSiblings
<1>08. \A n \in N : R[n].identifier =
                         Counted(Cardinality(InSection(originals, R[n].section)) + 1)
  BY DEF AddsSiblings
<1>1. DOMAIN originals \in SUBSET Nat /\ IsFiniteSet(DOMAIN originals)
  BY DEF RowsOK, GoodRows
<1>2. key \in Nat /\ key # 0 /\ \A l \in DOMAIN originals : l < key
  BY <1>01, <1>02, <1>1, FiniteHasLargest
<1>3. /\ DOMAIN Ours.super \in SUBSET Nat /\ 0 \notin DOMAIN Ours.super
      /\ IsFiniteSet(DOMAIN Ours.super)
      /\ \A t \in DOMAIN Ours.super : Ours.super[t] # t
  BY FormsAre DEF IsFormOf
<1>4. s \in DOMAIN Ours.super
  BY <1>01 DEF RowsOK, GoodRows
<1>5. below \subseteq DOMAIN Ours.super /\ s \notin below
  BY <1>03, <1>3
<1>6. ASSUME NEW n \in N
      PROVE  /\ n \in Nat /\ n # 0 /\ n \notin DOMAIN originals
             /\ n # key => n - key \in below
  <2>1. CASE n = key
    BY <1>1, <1>2, <2>1
  <2>2. CASE \E t \in below : n = key + t
    <3>1. PICK t \in below : n = key + t
      BY <2>2
    <3>2. t \in Nat /\ n - key = t
      BY <1>2, <1>3, <1>5, <3>1
    <3> QED BY <1>1, <1>2, <3>1, <3>2
  <2> QED BY <1>04, <2>1, <2>2
<1>7. IsFiniteSet(N)
  <2>1. DOMAIN Ours.super # {}
    BY <1>4
  <2>2. PICK b \in Nat : \A t \in DOMAIN Ours.super : t <= b
    BY <1>3, <2>1, FiniteHasLargest
  <2>3. ASSUME NEW n \in N PROVE n <= key + b
    <3>1. CASE n = key
      BY <1>2, <3>1
    <3>2. CASE n # key
      <4>1. n - key \in below
        BY <1>6, <3>2
      <4>2. n - key <= b
        BY <1>5, <2>2, <4>1
      <4> QED BY <1>2, <1>6, <4>2
    <3> QED BY <3>1, <3>2
  <2>4. N \in SUBSET Nat
    BY <1>6
  <2>5. key + b \in Nat
    BY <1>2
  <2> QED BY <2>3, <2>4, <2>5, FS_BoundedSetOfNaturals
<1>8. N \intersect DOMAIN originals = {}
  BY <1>6
<1>9. \A n \in N : R[n].section \in DOMAIN Ours.super
  BY <1>07, <1>4, <1>5, <1>6
<1>10. ASSUME NEW n \in N, NEW m \in N, R[n].section = R[m].section PROVE n = m
  <2>1. CASE n = key /\ m # key
    BY <1>07, <1>5, <1>6, <1>10, <2>1
  <2>2. CASE n # key /\ m = key
    BY <1>07, <1>5, <1>6, <1>10, <2>2
  <2>3. CASE n # key /\ m # key
    <3>1. n - key = m - key /\ n \in Nat /\ m \in Nat
      BY <1>07, <1>6, <1>10, <2>3
    <3> QED BY <1>2, <3>1
  <2> QED BY <2>1, <2>2, <2>3
<1>11. GoodRows(R)
  <2>1. IsFiniteSet(DOMAIN originals \union N)
    BY <1>1, <1>7, FS_Union
  <2>2. DOMAIN R \subseteq Nat \ {0}
    BY <1>05, <1>6 DEF RowsOK, GoodRows
  <2>3. \A l \in DOMAIN R : IsRow(R[l]) /\ R[l].section \in DOMAIN Ours.super
    BY <1>05, <1>06, <1>07, <1>9 DEF RowsOK, GoodRows
  <2> QED BY <1>05, <2>1, <2>2, <2>3 DEF GoodRows
<1>12. Grows(originals, R, N)
  BY <1>05, <1>06, <1>08, <1>1, <1>7, <1>8, <1>10 DEF Grows
<1>13. NumberedRows(originals) => NumberedRows(R)
  BY <1>12, AddedNumbers
<1> QED BY <1>11, <1>13 DEF GoodEdit

-----------------------------------------------------------------------------
(***************************************************************************)
(* The plan, its export and the reply.                                     *)
(***************************************************************************)
OtherKinds == {"not JSON", "no object", "no export", "incomplete", "unchecked",
               "other template", "late answer", "no answer"}
Channels == {"frontend", "API", "URL", "command"}

Exported ==
  [k \in DOMAIN originals |->
      [section |-> originals[k].section, parent |-> originals[k].parent,
       identifier |-> originals[k].identifier, data |-> originals[k].data]]

SentOK ==
  \/ sent = NotSent
  \/ sent.made = TRUE /\ sent.kind = "export" /\ sent.rows = Exported
  \/ sent.made = TRUE /\ sent.kind \in OtherKinds

TransferInv ==
  /\ fitted \in PlanTemplates
  /\ RowsOK
  /\ CountedInTurn
  /\ SentOK
  /\ reply = NoReply => copies = NoCopies
  /\ reply # NoReply => sent.made = TRUE
  /\ ArrivesAsSent

LEMMA EditKeeps ==
  ASSUME TransferInv, NEW kind, NEW R, EditPlan(kind, R),
         GoodRows(R), kind = "removed" \/ GoodEdit(R)
  PROVE  TransferInv'
<1>1. sent = NotSent /\ reply = NoReply /\ copies = NoCopies
  BY DEF TransferInv, SentOK, EditPlan
<1>2. /\ originals' = R
      /\ planEdits' = planEdits \union {<<Cardinality(planEdits), kind>>}
      /\ UNCHANGED <<fitted, sent, copies, dbase, reply>>
  BY DEF EditPlan
<1>3. fitted' \in PlanTemplates /\ SentOK' /\ reply' = NoReply /\ copies' = NoCopies
  BY <1>1, <1>2 DEF TransferInv, SentOK
<1>4. RowsOK'
  BY <1>2 DEF RowsOK, GoodRows, Ours
<1>5. CountedInTurn'
  <2>1. SUFFICES ASSUME ~WasRemoved', ~Identifies(Ours)' PROVE NumberedRows(originals)'
    BY DEF CountedInTurn
  <2>2. kind # "removed" /\ ~WasRemoved
    <3> DEFINE e == <<Cardinality(planEdits), kind>>
    <3>1. e \in planEdits' /\ e[2] = kind
      BY <1>2
    <3>2. \A d \in planEdits' : d[2] # "removed"
      BY <2>1 DEF WasRemoved
    <3> HIDE DEF e
    <3>3. kind # "removed"
      BY <3>1, <3>2
    <3>4. planEdits \subseteq planEdits'
      BY <1>2
    <3> QED BY <3>2, <3>3, <3>4 DEF WasRemoved
  <2>3. ~Identifies(Ours)
    BY <1>2, <2>1 DEF Identifies, Ours
  <2>4. NumberedRows(R)
    BY <2>2, <2>3 DEF TransferInv, CountedInTurn, GoodEdit
  <2> QED BY <1>2, <2>4 DEF NumberedRows, InSection
<1>6. ArrivesAsSent'
  BY <1>3 DEF ArrivesAsSent
<1> QED BY <1>3, <1>4, <1>5, <1>6 DEF TransferInv

LEMMA AddSiblingKeeps ==
  ASSUME TransferInv, NEW k \in DOMAIN originals, AddSibling(k)
  PROVE  TransferInv'
<1> DEFINE s == originals[k].section
           key == Max(DOMAIN originals) + 1
           below == {t \in DOMAIN Ours.super : Ours.super[t] = s}
           skipped == {l \in SiblingsOf(k) : originals[l].skipped}
           N == {key} \union {key + t : t \in below}
           fresh(t, parent) ==
             [section |-> t, parent |-> parent, skipped |-> TRUE, data |-> NoCopies,
              identifier |-> Counted(Cardinality(InSection(originals, t)) + 1)]
           added == [n \in DOMAIN originals \union N |->
                       IF n \in DOMAIN originals THEN originals[n]
                       ELSE IF n = key THEN fresh(s, originals[k].parent)
                       ELSE fresh(n - key, key)]
           used == [originals EXCEPT ![Min(skipped)].skipped = FALSE]
<1>1. \/ skipped # {} /\ EditPlan("added", Saved(used, Min(skipped)))
      \/ EditPlan("added", added)
  <2>1. DOMAIN originals \union {key} \union {key + t : t \in below} = DOMAIN originals \union N
    OBVIOUS
  <2> QED BY <2>1 DEF AddSibling
<1>2. CASE skipped # {} /\ EditPlan("added", Saved(used, Min(skipped)))
  <2> DEFINE m == Min(skipped)
  <2>1. skipped \subseteq DOMAIN originals /\ skipped \subseteq Nat
    BY DEF SiblingsOf, TransferInv, RowsOK, GoodRows
  <2>2. m \in DOMAIN originals
    <3> HIDE DEF skipped
    <3> QED BY <1>2, <2>1, LeastInSet
  <2> HIDE DEF skipped, m
  <2>3. used = [originals EXCEPT ![m] = [originals[m] EXCEPT !.skipped = FALSE]]
    BY DEF m
  <2>4. IsRow(originals[m])
    BY <2>2 DEF TransferInv, RowsOK, GoodRows
  <2>5. /\ DOMAIN used = DOMAIN originals
        /\ \A l \in DOMAIN originals \ {m} : used[l] = originals[l]
        /\ used[m] = [originals[m] EXCEPT !.skipped = FALSE]
    BY <2>2, <2>3
  <2> HIDE DEF used
  <2>6. /\ IsRow(used[m]) /\ used[m].section = originals[m].section
        /\ used[m].identifier = originals[m].identifier
    BY <2>4, <2>5, NewSkipped
  <2>7. GoodEdit(Saved(used, m))
    BY <2>2, <2>5, <2>6, SavedIsGood DEF TransferInv
  <2> QED BY <1>2, <2>7, EditKeeps DEF GoodEdit, m
<1>3. CASE EditPlan("added", added)
  <2>1. \A n \in N : n \notin DOMAIN originals
    <3>1. DOMAIN originals \in SUBSET Nat /\ IsFiniteSet(DOMAIN originals)
      BY DEF TransferInv, RowsOK, GoodRows
    <3>2. key \in Nat /\ \A l \in DOMAIN originals : l < key
      BY <3>1, FiniteHasLargest
    <3>3. below \subseteq Nat
      BY FormsAre DEF TransferInv, IsFormOf
    <3>4. \A n \in N : n \in Nat /\ n >= key
      BY <3>2, <3>3
    <3> QED BY <3>1, <3>2, <3>4
  <2>2. DOMAIN added = DOMAIN originals \union N
    OBVIOUS
  <2>3. \A l \in DOMAIN originals : added[l] = originals[l]
    OBVIOUS
  <2>4. ASSUME NEW n \in N
        PROVE  /\ IsRow(added[n])
               /\ added[n].section = IF n = key THEN s ELSE n - key
               /\ added[n].identifier =
                      Counted(Cardinality(InSection(originals, added[n].section)) + 1)
    <3>1. added[n] = IF n = key THEN fresh(s, originals[k].parent) ELSE fresh(n - key, key)
      BY <2>1
    <3> HIDE DEF added, s, key, N
    <3>2. CASE n = key
      BY <3>1, <3>2 DEF IsRow
    <3>3. CASE n # key
      BY <3>1, <3>3 DEF IsRow
    <3> QED BY <3>2, <3>3
  <2> HIDE DEF added
  <2>5. /\ s = originals[k].section
        /\ key = Max(DOMAIN originals) + 1
        /\ below = {t \in DOMAIN Ours.super : Ours.super[t] = s}
        /\ N = {key} \union {key + t : t \in below}
    OBVIOUS
  <2> HIDE DEF s, key, below, N
  <2>7. AddsSiblings(added, k, s, key, below, N)
    BY <2>2, <2>3, <2>4, <2>5 DEF AddsSiblings
  <2>6. GoodEdit(added)
    BY <2>7, SiblingsAdded DEF TransferInv
  <2> QED BY <1>3, <2>6, EditKeeps DEF GoodEdit
<1> QED BY <1>1, <1>2, <1>3

LEMMA RemoveKeeps ==
  ASSUME TransferInv, NEW k \in DOMAIN originals, RemoveAnswerSet(k)
  PROVE  TransferInv'
<1> DEFINE K == {l \in DOMAIN originals : l # k /\ originals[l].parent # k}
           gone == [originals EXCEPT ![k].skipped = TRUE, ![k].data = NoCopies]
<1>1. \/ EditPlan("removed", Restrict(originals, K))
      \/ EditPlan("skipped", Saved(gone, k))
  BY DEF RemoveAnswerSet
<1>2. CASE EditPlan("removed", Restrict(originals, K))
  <2>1. GoodRows(Restrict(originals, K))
    BY RemovalEdit DEF TransferInv
  <2> HIDE DEF K
  <2> QED BY <1>2, <2>1, EditKeeps
<1>3. CASE EditPlan("skipped", Saved(gone, k))
  <2> DEFINE e == [originals[k] EXCEPT !.skipped = TRUE]
  <2>1. /\ DOMAIN gone = DOMAIN originals
        /\ \A l \in DOMAIN originals \ {k} : gone[l] = originals[l]
        /\ gone[k] = [e EXCEPT !.data = NoCopies]
    OBVIOUS
  <2>2. IsRow(originals[k])
    BY DEF TransferInv, RowsOK, GoodRows
  <2>3. IsRow(e) /\ e.section = originals[k].section /\ e.identifier = originals[k].identifier
    BY <2>2, NewSkipped
  <2> HIDE DEF e, gone
  <2>4. /\ IsRow(gone[k]) /\ gone[k].section = originals[k].section
        /\ gone[k].identifier = originals[k].identifier
    BY <2>1, <2>3, NewData
  <2>5. GoodEdit(Saved(gone, k))
    BY <2>1, <2>4, SavedIsGood DEF TransferInv
  <2> QED BY <1>3, <2>5, EditKeeps DEF GoodEdit
<1> QED BY <1>1, <1>2, <1>3

LEMMA AnswerKeeps ==
  ASSUME TransferInv, NEW k \in DOMAIN originals, NEW q, NEW name, AnswerQuestion(k, q, name)
  PROVE  TransferInv'
<1> DEFINE old == originals[k].data
           data == [p \in DOMAIN old \union {q} |-> IF p = q THEN name ELSE old[p]]
           answered == [originals EXCEPT ![k].data = data, ![k].skipped = FALSE]
           e == [originals[k] EXCEPT !.data = data]
<1>1. EditPlan("answered", Saved(answered, k))
  BY DEF AnswerQuestion
<1> HIDE DEF data
<1>2. /\ DOMAIN answered = DOMAIN originals
      /\ \A l \in DOMAIN originals \ {k} : answered[l] = originals[l]
      /\ answered[k] = [e EXCEPT !.skipped = FALSE]
  OBVIOUS
<1>3. IsRow(originals[k])
  BY DEF TransferInv, RowsOK, GoodRows
<1>4. IsRow(e) /\ e.section = originals[k].section /\ e.identifier = originals[k].identifier
  BY <1>3, NewData
<1> HIDE DEF e, answered
<1>5. /\ IsRow(answered[k]) /\ answered[k].section = originals[k].section
      /\ answered[k].identifier = originals[k].identifier
  BY <1>2, <1>4, NewSkipped
<1>6. GoodEdit(Saved(answered, k))
  BY <1>2, <1>5, SavedIsGood DEF TransferInv
<1> QED BY <1>1, <1>6, EditKeeps DEF GoodEdit

LEMMA SendKeeps ==
  ASSUME TransferInv, ExportPlan \/ \E kind \in OtherKinds : OtherFile(kind)
  PROVE  TransferInv'
<1>1. sent = NotSent /\ reply = NoReply /\ copies = NoCopies
  BY DEF TransferInv, SentOK, ExportPlan, OtherFile
<1>2. UNCHANGED <<fitted, originals, planEdits, copies, dbase, reply>>
  BY DEF ExportPlan, OtherFile
<1>3. SentOK'
  <2>1. CASE ExportPlan
    <3>1. sent' = [made |-> TRUE, kind |-> "export", rows |-> Exported]
      BY <2>1 DEF ExportPlan, Exported
    <3>2. Exported' = Exported
      BY <1>2 DEF Exported
    <3> HIDE DEF Exported
    <3> QED BY <3>1, <3>2 DEF SentOK
  <2>2. CASE \E kind \in OtherKinds : OtherFile(kind)
    BY <2>2 DEF OtherFile, SentOK
  <2> QED BY <2>1, <2>2
<1>4. RowsOK' /\ CountedInTurn' /\ fitted' \in PlanTemplates
  BY <1>2 DEF TransferInv, RowsOK, GoodRows, CountedInTurn, WasRemoved, Identifies, Ours,
              NumberedRows, InSection
<1>5. ArrivesAsSent' /\ reply' = NoReply /\ copies' = NoCopies
  BY <1>1, <1>2 DEF ArrivesAsSent
<1> QED BY <1>3, <1>4, <1>5 DEF TransferInv

-----------------------------------------------------------------------------
(***************************************************************************)
(* The import.                                                             *)
(***************************************************************************)
ExportIsRead == RowsOK /\ fitted \in PlanTemplates /\ sent.rows = Exported

LEMMA RowsSent ==
  ASSUME ExportIsRead
  PROVE  /\ DOMAIN sent.rows = DOMAIN originals
         /\ \A k \in DOMAIN originals :
                /\ sent.rows[k].section = originals[k].section
                /\ sent.rows[k].parent = originals[k].parent
                /\ sent.rows[k].identifier = originals[k].identifier
                /\ sent.rows[k].data = originals[k].data
<1>1. sent.rows = Exported
  BY DEF ExportIsRead
<1>2. DOMAIN Exported = DOMAIN originals
  BY DEF Exported
<1>3. ASSUME NEW k \in DOMAIN originals
      PROVE  /\ Exported[k].section = originals[k].section
             /\ Exported[k].parent = originals[k].parent
             /\ Exported[k].identifier = originals[k].identifier
             /\ Exported[k].data = originals[k].data
  BY DEF Exported
<1> QED BY <1>1, <1>2, <1>3

LEMMA FirstPass ==
  /\ DOMAIN WithoutParents = DOMAIN sent.rows
  /\ \A k \in DOMAIN sent.rows :
         /\ WithoutParents[k].section = sent.rows[k].section
         /\ WithoutParents[k].parent = NoParent
         /\ WithoutParents[k].identifier = sent.rows[k].identifier
         /\ WithoutParents[k].data = MapData(sent.rows[k].data)
BY DEF WithoutParents

(* The second pass changes two fields of a row.                            *)
LEMMA NewParent ==
  ASSUME NEW k \in DOMAIN sent.rows, NEW x, NEW y
  PROVE  LET e == [WithoutParents[k] EXCEPT !.parent = x, !.identifier = y]
         IN  /\ e.section = sent.rows[k].section
             /\ e.parent = x
             /\ e.identifier = y
             /\ e.data = MapData(sent.rows[k].data)
<1> DEFINE r == WithoutParents[k]
           skip == FALSE
           sec == sent.rows[k].section
           idf == sent.rows[k].identifier
           dat == MapData(sent.rows[k].data)
<1>1. r = [section |-> sec, parent |-> NoParent, skipped |-> skip,
             identifier |-> idf, data |-> dat]
  BY DEF WithoutParents
<1> HIDE DEF r, skip, sec, idf, dat
<1> DEFINE h == [r EXCEPT !.parent = x]
<1>2. [r EXCEPT !.parent = x, !.identifier = y] = [h EXCEPT !.identifier = y]
  OBVIOUS
<1>4. h = [section |-> sec, parent |-> x, skipped |-> skip, identifier |-> idf, data |-> dat]
  BY <1>1
<1> HIDE DEF h
<1>5. [h EXCEPT !.identifier = y] =
          [section |-> sec, parent |-> x, skipped |-> skip, identifier |-> y, data |-> dat]
  BY <1>4
<1>3. LET e == [r EXCEPT !.parent = x, !.identifier = y]
      IN  e.section = sec /\ e.parent = x /\ e.identifier = y /\ e.data = dat
  BY <1>2, <1>5
<1> QED BY <1>3 DEF r, sec, dat

LEMMA SecondPass ==
  /\ DOMAIN WithParents = DOMAIN sent.rows
  /\ \A k \in DOMAIN sent.rows :
         /\ WithParents[k].section = sent.rows[k].section
         /\ WithParents[k].parent = sent.rows[k].parent
         /\ WithParents[k].identifier =
                IF sent.rows[k].parent = NoParent THEN sent.rows[k].identifier
                ELSE Identifier(Theirs, WithoutParents, k)
         /\ WithParents[k].data = MapData(sent.rows[k].data)
<1>1. DOMAIN WithParents = DOMAIN sent.rows
  BY DEF WithParents
<1>2. ASSUME NEW k \in DOMAIN sent.rows
      PROVE  /\ WithParents[k].section = sent.rows[k].section
             /\ WithParents[k].parent = sent.rows[k].parent
             /\ WithParents[k].identifier =
                    IF sent.rows[k].parent = NoParent THEN sent.rows[k].identifier
                    ELSE Identifier(Theirs, WithoutParents, k)
             /\ WithParents[k].data = MapData(sent.rows[k].data)
  <2> DEFINE par == sent.rows[k].parent
             new == Identifier(Theirs, WithoutParents, k)
             e == [WithoutParents[k] EXCEPT !.parent = par, !.identifier = new]
  <2>1. WithParents[k] = IF par = NoParent THEN WithoutParents[k] ELSE e
    BY DEF WithParents
  <2> HIDE DEF par, new
  <2>2. /\ e.section = sent.rows[k].section /\ e.parent = par /\ e.identifier = new
        /\ e.data = MapData(sent.rows[k].data)
    BY NewParent
  <2> HIDE DEF e
  <2>3. CASE par = NoParent
    BY <2>1, <2>3, FirstPass DEF par
  <2>4. CASE par # NoParent
    BY <2>1, <2>2, <2>4 DEF par, new
  <2> QED BY <2>3, <2>4
<1> QED BY <1>1, <1>2

(* What the second pass makes of an identifier.                            *)
LEMMA IdentifierIs ==
  ASSUME ExportIsRead, ~SectionIsMissing, NEW k \in DOMAIN sent.rows
  PROVE  LET s == sent.rows[k].section
             q == Theirs.identifies[s]
         IN  /\ q \in DOMAIN Theirs.asks \union {0}
             /\ q = 0 <=> q \notin DOMAIN Theirs.asks
             /\ Identifier(Theirs, WithoutParents, k) =
                    IF q = 0 THEN sent.rows[k].identifier
                    ELSE IF q \in DOMAIN sent.rows[k].data THEN Named(sent.rows[k].data[q])
                    ELSE Counted(Cardinality(InSection(sent.rows, s)) + 1)
<1> DEFINE s == sent.rows[k].section
           q == Theirs.identifies[s]
           data == sent.rows[k].data
<1>1. s \in DOMAIN Theirs.super
  BY DEF SectionIsMissing
<1>2. q \in DOMAIN Theirs.asks \union {0} /\ 0 \notin DOMAIN Theirs.asks
  BY <1>1, FormsAre DEF IsFormOf, ExportIsRead
<1>3. InSection(WithoutParents, s) = InSection(sent.rows, s)
  BY FirstPass DEF InSection
<1>4. DOMAIN MapData(data) = DOMAIN data \intersect DOMAIN Theirs.asks
  BY DEF MapData, Restrict
<1>5. \A p \in DOMAIN data \intersect DOMAIN Theirs.asks : MapData(data)[p] = data[p]
  BY DEF MapData, Restrict
<1>6. /\ WithoutParents[k].section = s
      /\ WithoutParents[k].identifier = sent.rows[k].identifier
      /\ WithoutParents[k].data = MapData(data)
  BY FirstPass
<1>7. Identifier(Theirs, WithoutParents, k) =
         IF q = 0 THEN sent.rows[k].identifier
         ELSE IF q \in DOMAIN MapData(data) THEN Named(MapData(data)[q])
         ELSE Counted(Cardinality(InSection(sent.rows, s)) + 1)
  BY <1>3, <1>6 DEF Identifier
<1>8. Identifier(Theirs, WithoutParents, k) =
         IF q = 0 THEN sent.rows[k].identifier
         ELSE IF q \in DOMAIN data THEN Named(data[q])
         ELSE Counted(Cardinality(InSection(sent.rows, s)) + 1)
  <2> HIDE DEF q, s, data
  <2> QED BY <1>2, <1>4, <1>5, <1>7
<1> QED BY <1>2, <1>8

(* Rows that are numbered clash nowhere, whatever their parents.           *)
LEMMA NumberedAreUnique ==
  ASSUME NEW R, DOMAIN R = DOMAIN originals, NumberedRows(originals),
         \A k \in DOMAIN originals : /\ R[k].section = originals[k].section
                                     /\ R[k].identifier = originals[k].identifier
  PROVE  Unique(R)
<1> DEFINE f == [k \in DOMAIN R |-> <<R[k].section, R[k].parent, R[k].identifier>>]
<1>1. SUFFICES ASSUME NEW k \in DOMAIN f, NEW l \in DOMAIN f, f[k] = f[l] PROVE k = l
  BY DEF Unique, IsInjective
<1>2. k \in DOMAIN originals /\ l \in DOMAIN originals
  OBVIOUS
<1>3. R[k].section = R[l].section /\ R[k].identifier = R[l].identifier
  BY <1>1
<1> HIDE DEF f
<1>4. originals[k].section = originals[l].section /\ originals[k].identifier = originals[l].identifier
  BY <1>2, <1>3
<1> QED BY <1>2, <1>4 DEF NumberedRows

LEMMA NoClash ==
  ASSUME ExportIsRead, CountedInTurn, ~WasRemoved, ~SectionIsMissing,
         ~Identifies(Ours), ~Identifies(Theirs)
  PROVE  ~Clashes
<1>1. NumberedRows(originals)
  BY DEF CountedInTurn
<1>2. Unique(WithoutParents)
  BY <1>1, FirstPass, RowsSent, NumberedAreUnique
<1>3. ASSUME NEW k \in DOMAIN sent.rows
      PROVE  WithParents[k].identifier = sent.rows[k].identifier
  <2>1. sent.rows[k].section \in DOMAIN Theirs.super
    BY DEF SectionIsMissing
  <2>2. Theirs.identifies[sent.rows[k].section] = 0
    BY <2>1 DEF Identifies
  <2>3. Identifier(Theirs, WithoutParents, k) = sent.rows[k].identifier
    BY <2>2, IdentifierIs
  <2> QED BY <2>3, SecondPass
<1>4. Unique(WithParents)
  BY <1>1, <1>3, SecondPass, RowsSent, NumberedAreUnique
<1> QED BY <1>2, <1>4 DEF Clashes

(* What stays as it is while an import is made.                            *)
LEMMA ImportLeaves ==
  ASSUME TransferInv, NEW channel \in Channels, NEW h, ImportPlan(channel, h)
  PROVE  /\ sent.made = TRUE /\ copies = NoCopies /\ dbase' = h
         /\ sent.kind \in OtherKinds \/ (sent.kind = "export" /\ ExportIsRead)
         /\ fitted' = fitted /\ originals' = originals /\ planEdits' = planEdits /\ sent' = sent
         /\ fitted' \in PlanTemplates /\ RowsOK' /\ CountedInTurn' /\ SentOK'
<1>1. /\ sent.made /\ reply = NoReply /\ dbase' = h
      /\ UNCHANGED <<fitted, originals, planEdits, sent>>
  BY DEF ImportPlan
<1>2. sent # NotSent
  BY <1>1 DEF NotSent
<1>3. sent.made = TRUE /\ (sent.kind \in OtherKinds \/ (sent.kind = "export" /\ ExportIsRead))
  BY <1>2 DEF TransferInv, SentOK, ExportIsRead
<1>4. fitted' \in PlanTemplates /\ RowsOK' /\ CountedInTurn'
  BY <1>1 DEF TransferInv, RowsOK, GoodRows, CountedInTurn, WasRemoved, Identifies, Ours,
              NumberedRows, InSection
<1>5. Exported' = Exported
  BY <1>1 DEF Exported
<1>6. SentOK'
  <2> HIDE DEF Exported
  <2> QED BY <1>1, <1>5 DEF TransferInv, SentOK
<1> QED BY <1>1, <1>3, <1>4, <1>6 DEF TransferInv

LEMMA RepliesAre ==
  ASSUME NEW channel \in Channels, NEW error
  PROVE  /\ ReplyTo(channel, error) # NoReply
         /\ ReplyTo(channel, error).to = channel
         /\ ReplyTo(channel, error).stored <=> error \in {"none", "type error"}
         /\ ReplyTo(channel, error).word = "imported" <=> error = "none"
         /\ error = "import error" => ReplyTo(channel, error).word = "refused"
<1>1. ReplyTo(channel, error).to = channel /\ NoReply.to = "nobody"
  BY DEF ReplyTo, NoReply
<1>2. ReplyTo(channel, error) # NoReply
  BY <1>1 DEF Channels
<1>3. ReplyTo(channel, error).stored <=> error \in {"none", "type error"}
  BY DEF ReplyTo
<1>4. /\ ReplyTo(channel, error).word = "imported" <=> error = "none"
      /\ error = "import error" => ReplyTo(channel, error).word = "refused"
  BY DEF ReplyTo
<1> QED BY <1>1, <1>2, <1>3, <1>4

(* Of the errors there may be, one is met.                                 *)
LEMMA ErrorIsMet ==
  ASSUME NEW channel \in Channels, NEW h, ImportPlan(channel, h)
  PROVE  \E error : /\ \/ error \in ReadErrors(channel, h)
                       \/ (ReadErrors(channel, h) = {} /\ error \in StoreErrors(channel))
                     /\ reply' = ReplyTo(channel, error)
                     /\ copies' = IF reply'.stored THEN WithParents ELSE copies
<1> DEFINE errors == ReadErrors(channel, h)
           later == StoreErrors(channel)
<1> HIDE DEF errors, later
<1>1. PICK error \in IF errors # {} THEN errors ELSE later :
               /\ reply' = ReplyTo(channel, error)
               /\ copies' = IF reply'.stored THEN WithParents ELSE copies
  BY DEF ImportPlan, errors, later
<1>2. error \in errors \/ (errors = {} /\ error \in later)
  BY <1>1
<1> QED BY <1>1, <1>2 DEF errors, later

LEMMA OtherKeeps ==
  ASSUME TransferInv, NEW channel \in Channels, NEW h, ImportPlan(channel, h), sent.kind # "export"
  PROVE  TransferInv'
<1> DEFINE errors == ReadErrors(channel, h)
<1>1. sent.kind \in OtherKinds
  BY ImportLeaves
<1>2. /\ errors # {}
      /\ \A e \in errors :
             \/ e = "import error"
             \/ /\ e \in {"key error", "no keys", "request error"}
                /\ channel = "API" \/ sent.kind \in {"no object", "unchecked", "no answer"}
  BY <1>1 DEF ReadErrors, OtherKinds
<1>3. PICK error : /\ error \in errors
                   /\ reply' = ReplyTo(channel, error)
                   /\ copies' = IF reply'.stored THEN WithParents ELSE copies
  BY <1>2, ErrorIsMet
<1> HIDE DEF errors
<1>4. \/ error = "import error"
      \/ /\ error \in {"key error", "no keys", "request error"}
         /\ channel = "API" \/ sent.kind \in {"no object", "unchecked", "no answer"}
  BY <1>2, <1>3
<1>5. reply' # NoReply /\ reply'.to = channel /\ ~reply'.stored /\ reply'.word # "imported"
  BY <1>3, <1>4, RepliesAre
<1>6. reply'.word = "failed" =>
          channel = "API" \/ sent.kind \in {"no object", "unchecked", "no answer"}
  BY <1>3, <1>4, RepliesAre
<1>7. copies' = NoCopies /\ sent' = sent
  BY <1>3, <1>5, ImportLeaves
<1>8. ArrivesAsSent'
  BY <1>5, <1>6, <1>7 DEF ArrivesAsSent
<1> QED BY <1>5, <1>7, <1>8, ImportLeaves DEF TransferInv

(* The copy that is stored.                                                *)
LEMMA CopyIsWhole ==
  ASSUME ExportIsRead, ~SectionIsMissing, NEW k \in DOMAIN sent.rows
  PROVE  /\ WithParents[k].section = sent.rows[k].section
         /\ WithParents[k].parent = sent.rows[k].parent
         /\ \A q \in DOMAIN Ours.asks :
                (q \in DOMAIN WithParents[k].data) =
                    (q \in DOMAIN sent.rows[k].data /\ q \in DOMAIN Theirs.asks)
         /\ \/ WithParents[k].identifier = sent.rows[k].identifier
            \/ /\ sent.rows[k].parent # NoParent
               /\ \E q \in DOMAIN Theirs.asks :
                     /\ q = Theirs.identifies[sent.rows[k].section]
                     /\ WithParents[k].identifier =
                            IF q \in DOMAIN sent.rows[k].data THEN Named(sent.rows[k].data[q])
                            ELSE Counted(Cardinality(InSection(sent.rows, sent.rows[k].section)) + 1)
<1>1. /\ WithParents[k].section = sent.rows[k].section
      /\ WithParents[k].parent = sent.rows[k].parent
      /\ WithParents[k].data = MapData(sent.rows[k].data)
  BY SecondPass
<1>2. DOMAIN MapData(sent.rows[k].data) = DOMAIN sent.rows[k].data \intersect DOMAIN Theirs.asks
  BY DEF MapData, Restrict
<1>3. \A q \in DOMAIN Ours.asks :
         (q \in DOMAIN WithParents[k].data) =
             (q \in DOMAIN sent.rows[k].data /\ q \in DOMAIN Theirs.asks)
  BY <1>1, <1>2
<1>4. CASE sent.rows[k].parent = NoParent
  BY <1>1, <1>3, <1>4, SecondPass
<1>5. CASE sent.rows[k].parent # NoParent
  <2> DEFINE q == Theirs.identifies[sent.rows[k].section]
  <2>1. WithParents[k].identifier = Identifier(Theirs, WithoutParents, k)
    BY <1>5, SecondPass
  <2>2. CASE q = 0
    BY <1>1, <1>3, <2>1, <2>2, IdentifierIs
  <2>3. CASE q # 0
    <3>1. q \in DOMAIN Theirs.asks
      BY <2>3, IdentifierIs
    <3>2. WithParents[k].identifier =
             IF q \in DOMAIN sent.rows[k].data THEN Named(sent.rows[k].data[q])
             ELSE Counted(Cardinality(InSection(sent.rows, sent.rows[k].section)) + 1)
      BY <2>1, <2>3, IdentifierIs
    <3> QED BY <1>1, <1>3, <1>5, <3>1, <3>2
  <2> QED BY <2>2, <2>3
<1> QED BY <1>4, <1>5

(* An export that is refused before anything is mapped.                    *)
LEMMA UnknownKeeps ==
  ASSUME TransferInv, NEW channel \in Channels, NEW h, ImportPlan(channel, h),
         sent.kind = "export", NEW error, error \in ReadErrors(channel, h),
         reply' = ReplyTo(channel, error),
         copies' = IF reply'.stored THEN WithParents ELSE copies
  PROVE  TransferInv'
<1>1. error = "import error" /\ channel # "API" /\ ~IsKnown(h)
  BY DEF ReadErrors
<1>2. /\ copies = NoCopies /\ ExportIsRead /\ fitted' = fitted /\ planEdits' = planEdits
      /\ sent' = sent /\ dbase' = h
  BY ImportLeaves DEF Channels, OtherKinds
<1>3. /\ reply' # NoReply /\ reply'.to = channel /\ ~reply'.stored
      /\ reply'.word = "refused"
  <2>1. reply' # NoReply /\ reply'.to = channel
    BY RepliesAre
  <2>2. reply'.word = "refused"
    BY <1>1, RepliesAre
  <2>3. ~reply'.stored
    <3>1. error \notin {"none", "type error"}
      BY <1>1
    <3> QED BY <3>1, RepliesAre
  <2> QED BY <2>1, <2>2, <2>3
<1>4. copies' = NoCopies
  BY <1>2, <1>3
<1>5. \/ SectionIsMissing
      \/ ~(RowsNamed \subseteq h.answersets \union {NoParent})
      \/ ~(DOMAIN Ours.asks \subseteq DOMAIN Theirs.asks \union h.questions)
  <2>1. SUFFICES ASSUME ~SectionIsMissing,
                        RowsNamed \subseteq h.answersets \union {NoParent},
                        DOMAIN Ours.asks \subseteq DOMAIN Theirs.asks \union h.questions
                 PROVE  IsKnown(h)
    BY <1>1
  <2>2. ASSUME NEW k \in DOMAIN sent.rows
        PROVE  /\ sent.rows[k].section \in DOMAIN Theirs.super \union h.sections
               /\ sent.rows[k].parent \in h.answersets \union {NoParent}
               /\ k \in h.answersets
    <3>1. sent.rows[k].section \in DOMAIN Theirs.super
      BY <2>1 DEF SectionIsMissing
    <3>2. k \in RowsNamed /\ sent.rows[k].parent \in RowsNamed
      BY DEF RowsNamed
    <3>3. k # NoParent
      BY <1>2, RowsSent DEF ExportIsRead, RowsOK, GoodRows, NoParent
    <3> QED BY <2>1, <3>1, <3>2, <3>3
  <2> QED BY <2>1, <2>2 DEF IsKnown
<1>6. \/ SectionIsMissing'
      \/ ~(RowsNamed' \subseteq dbase'.answersets \union {NoParent})
      \/ ~(DOMAIN Ours'.asks \subseteq DOMAIN Theirs'.asks \union dbase'.questions)
  BY <1>2, <1>5 DEF SectionIsMissing, RowsNamed, Ours, Theirs
<1>7. reply'.to # "API" /\ sent'.kind = "export"
  BY <1>1, <1>2, <1>3
<1>8. ArrivesAsSent'
  BY <1>3, <1>4, <1>6, <1>7 DEF ArrivesAsSent
<1> QED BY <1>2, <1>3, <1>4, <1>8, ImportLeaves DEF TransferInv

LEMMA ExportKeeps ==
  ASSUME TransferInv, NEW channel \in Channels, NEW h, ImportPlan(channel, h), sent.kind = "export"
  PROVE  TransferInv'
<1>0. PICK error : /\ \/ error \in ReadErrors(channel, h)
                      \/ (ReadErrors(channel, h) = {} /\ error \in StoreErrors(channel))
                   /\ reply' = ReplyTo(channel, error)
                   /\ copies' = IF reply'.stored THEN WithParents ELSE copies
  BY ErrorIsMet
<1>6. CASE error \in ReadErrors(channel, h)
  BY <1>0, <1>6, UnknownKeeps
<1>7. SUFFICES ASSUME ReadErrors(channel, h) = {}, error \in StoreErrors(channel)
               PROVE  TransferInv'
  BY <1>0, <1>6
<1>1. /\ reply' = ReplyTo(channel, error)
      /\ copies' = IF reply'.stored THEN WithParents ELSE copies
  BY <1>0
<1>2. /\ copies = NoCopies /\ ExportIsRead /\ fitted' = fitted /\ planEdits' = planEdits
      /\ sent' = sent /\ dbase' = h
  BY ImportLeaves DEF Channels, OtherKinds
<1>8. channel = "API" \/ IsKnown(h)
  BY <1>7 DEF ReadErrors
<1>3. CASE SectionIsMissing \/ Clashes
  <2>1. error \in {"key error", "clash"}
    BY <1>3, <1>7 DEF StoreErrors
  <2>2. \/ SectionIsMissing \/ WasRemoved \/ Identifies(Ours) \/ Identifies(Theirs)
    BY <1>2, <1>3, NoClash DEF TransferInv
  <2>3. reply' # NoReply /\ ~reply'.stored /\ reply'.word # "imported"
    BY <1>1, <2>1, RepliesAre
  <2>4. copies' = NoCopies
    BY <1>1, <1>2, <2>3
  <2>5. \/ SectionIsMissing' \/ WasRemoved' \/ Identifies(Ours)' \/ Identifies(Theirs)'
    BY <1>2, <2>2 DEF SectionIsMissing, WasRemoved, Identifies, Ours, Theirs
  <2>6. ArrivesAsSent'
    BY <1>2, <2>3, <2>4, <2>5 DEF ArrivesAsSent, WasRemoved
  <2> QED BY <1>2, <2>3, <2>4, <2>6, ImportLeaves DEF TransferInv
<1>4. CASE ~SectionIsMissing /\ ~Clashes /\ DOMAIN sent.rows = {} /\ channel = "frontend"
  <2>1. error = "type error"
    BY <1>4, <1>7 DEF StoreErrors
  <2>2. /\ reply' # NoReply /\ reply'.stored /\ reply'.word # "imported"
        /\ reply'.to = "frontend"
    <3>1. reply' # NoReply /\ reply'.to = "frontend"
      BY <1>1, <1>4, RepliesAre
    <3>2. reply'.stored
      BY <1>1, <2>1, RepliesAre
    <3>3. reply'.word # "imported"
      <4>1. error # "none"
        BY <2>1
      <4>2. ReplyTo(channel, error).word # "imported"
        BY <4>1, RepliesAre
      <4> QED BY <1>1, <4>2
    <3> QED BY <3>1, <3>2, <3>3
  <2>3. copies' = NoCopies
    BY <1>1, <1>4, <2>2 DEF WithParents, NoCopies
  <2>4. sent.rows = NoCopies
    <3>1. sent.rows = Exported /\ DOMAIN originals = {}
      BY <1>2, <1>4, RowsSent DEF ExportIsRead
    <3> QED BY <3>1 DEF Exported, NoCopies
  <2>5. ArrivesAsSent'
    BY <1>2, <2>2, <2>3, <2>4 DEF ArrivesAsSent
  <2> QED BY <1>2, <2>2, <2>3, <2>5, ImportLeaves DEF TransferInv
<1>5. CASE ~SectionIsMissing /\ ~Clashes /\ ~(DOMAIN sent.rows = {} /\ channel = "frontend")
  <2>1. error = "none"
    BY <1>5, <1>7 DEF StoreErrors
  <2>2. /\ reply' # NoReply /\ reply'.word = "imported" /\ reply'.stored
        /\ reply'.to = channel
    BY <1>1, <2>1, RepliesAre
  <2>3. copies' = WithParents
    BY <1>1, <2>2
  <2>4. Unique(copies')
    BY <1>5, <2>3 DEF Clashes
  <2>5. Unique(copies)'
    BY <2>4 DEF Unique, IsInjective
  <2>6. DOMAIN copies' = DOMAIN sent'.rows
    BY <1>2, <2>3, SecondPass
  <2>7. ASSUME NEW k \in DOMAIN copies'
        PROVE  /\ copies'[k].section = sent'.rows[k].section
               /\ copies'[k].parent = sent'.rows[k].parent
               /\ \A q \in DOMAIN Ours'.asks :
                      (q \in DOMAIN copies'[k].data) =
                          (q \in DOMAIN sent'.rows[k].data /\ q \in DOMAIN Theirs'.asks)
               /\ SameIdentifier(k)'
    <3>1. k \in DOMAIN sent.rows
      BY <1>2, <2>6, <2>7
    <3>2. Ours' = Ours /\ Theirs' = Theirs /\ InSection(sent.rows, sent.rows[k].section)' =
                                                 InSection(sent.rows, sent.rows[k].section)
      BY <1>2 DEF Ours, Theirs, InSection
    <3>3. /\ WithParents[k].section = sent.rows[k].section
          /\ WithParents[k].parent = sent.rows[k].parent
          /\ \A q \in DOMAIN Ours.asks :
                 (q \in DOMAIN WithParents[k].data) =
                     (q \in DOMAIN sent.rows[k].data /\ q \in DOMAIN Theirs.asks)
      BY <1>2, <1>5, <3>1, CopyIsWhole
    <3>4. SameIdentifier(k)'
      BY <1>2, <1>5, <2>3, <3>1, <3>2, CopyIsWhole DEF SameIdentifier
    <3> QED BY <1>2, <2>3, <3>2, <3>3, <3>4
  <2>9. reply'.to # "API" =>
            \A k \in DOMAIN copies' : copies'[k].parent \in dbase'.answersets \union {NoParent}
    BY <1>2, <1>8, <2>2, <2>3, SecondPass DEF IsKnown
  <2>8. ArrivesAsSent'
    <3>1. sent'.kind = "export"
      BY <1>2
    <3> QED BY <2>2, <2>5, <2>6, <2>7, <2>9, <3>1 DEF ArrivesAsSent
  <2> QED BY <1>2, <2>2, <2>8, ImportLeaves DEF TransferInv
<1> QED BY <1>3, <1>4, <1>5

-----------------------------------------------------------------------------
LEMMA InitTransfer ==
  ASSUME PlanTransferInit
  PROVE  TransferInv
<1>1. RowsOK /\ NumberedRows(originals)
  BY FormsAssumption DEF PlanTransferInit, RowsOK, GoodRows, Ours
<1>2. SentOK /\ fitted \in PlanTemplates /\ reply = NoReply /\ copies = NoCopies
  BY DEF PlanTransferInit, SentOK
<1>3. CountedInTurn /\ ArrivesAsSent
  BY <1>1, <1>2 DEF CountedInTurn, ArrivesAsSent
<1> QED BY <1>1, <1>2, <1>3 DEF TransferInv

LEMMA NextTransfer ==
  ASSUME TransferInv, [PlanTransferNext]_planTransferVars
  PROVE  TransferInv'
<1>1. ASSUME NEW k \in DOMAIN originals, AddSibling(k) PROVE TransferInv'
  BY <1>1, AddSiblingKeeps
<1>2. ASSUME NEW k \in DOMAIN originals, RemoveAnswerSet(k) PROVE TransferInv'
  BY <1>2, RemoveKeeps
<1>3. ASSUME NEW k \in DOMAIN originals, NEW q \in DOMAIN Ours.asks, NEW name \in Names,
             AnswerQuestion(k, q, name)
      PROVE  TransferInv'
  BY <1>3, AnswerKeeps
<1>4. CASE ExportPlan \/ \E kind \in OtherKinds : OtherFile(kind)
  BY <1>4, SendKeeps
<1>5. ASSUME NEW channel \in Channels, NEW h \in Databases, ImportPlan(channel, h) PROVE TransferInv'
  BY <1>5, OtherKeeps, ExportKeeps
<1>6. CASE UNCHANGED planTransferVars
  <2>1. /\ fitted' = fitted /\ originals' = originals /\ planEdits' = planEdits
        /\ sent' = sent /\ copies' = copies /\ dbase' = dbase /\ reply' = reply
    BY <1>6 DEF planTransferVars
  <2>2. RowsOK' /\ CountedInTurn'
    BY <2>1 DEF TransferInv, RowsOK, GoodRows, CountedInTurn, WasRemoved, Identifies, Ours,
                NumberedRows, InSection
  <2>3. Exported' = Exported
    BY <2>1 DEF Exported
  <2>4. SentOK'
    <3> HIDE DEF Exported
    <3> QED BY <2>1, <2>3 DEF TransferInv, SentOK
  <2>5. ArrivesAsSent'
    <3>1. Ours' = Ours /\ Theirs' = Theirs
      BY <2>1 DEF Ours, Theirs
    <3>2. /\ SectionIsMissing' = SectionIsMissing /\ RowsNamed' = RowsNamed
          /\ Identifies(Ours)' = Identifies(Ours) /\ Identifies(Theirs)' = Identifies(Theirs)
      BY <2>1, <3>1 DEF SectionIsMissing, RowsNamed, Identifies
    <3>3. Unique(copies)' = Unique(copies)
      BY <2>1 DEF Unique, IsInjective
    <3>4. ASSUME NEW k PROVE SameIdentifier(k)' = SameIdentifier(k)
      BY <2>1, <3>1 DEF SameIdentifier, InSection
    <3> QED BY <2>1, <3>1, <3>2, <3>3, <3>4 DEF TransferInv, ArrivesAsSent
  <2> QED BY <2>1, <2>2, <2>4, <2>5 DEF TransferInv
<1> QED BY <1>1, <1>2, <1>3, <1>4, <1>5, <1>6 DEF PlanTransferNext, OtherKinds, Channels

(* What an import makes of an exported plan has its tree, its identifiers  *)
(* and all answers that still have a question. An export that is not       *)
(* stored is of a plan something was removed from, or of sections that are *)
(* missing or have an identifier question (the first pass of               *)
(* _create_answersets, plan/import_plan.py, lets no identifiers clash that *)
(* were only ever counted), or names what the database does not have, and  *)
(* is refused with a reason then, on every way in but the API.             *)
THEOREM CopiesArrive == PlanTransferSpec => []ArrivesAsSent
<1>1. PlanTransferInit => TransferInv
  BY InitTransfer
<1>2. TransferInv /\ [PlanTransferNext]_planTransferVars => TransferInv'
  BY NextTransfer
<1>3. TransferInv => ArrivesAsSent
  BY DEF TransferInv
<1> QED BY <1>1, <1>2, <1>3, PTL DEF PlanTransferSpec

(***************************************************************************)
(* Documents that come and go                                              *)
(***************************************************************************)
(* What the export has asked for, list by list, up to a place in it.       *)
ContactObjects ==
    Below(plan, Top, "dmp") \union {o \in InList(Top, "contact") : Entry(o) # Null}

ContributorObjects == FlatList(Top, "contributor")

DatasetObjects ==
    LET datasets == InList(Top, "dataset")
    IN  datasets \union Under(datasets) \union Under(UNION {Distributions(o) : o \in datasets})

ProjectObjects == InList(Top, "project") \union Under(InList(Top, "project"))

CostObjects == FlatList(Top, "cost")

AskedBefore(pc) ==
    CASE pc = "contributors" -> ContactObjects
      [] pc = "datasets" -> ContactObjects \union ContributorObjects
      [] pc = "projects" -> ContactObjects \union ContributorObjects \union DatasetObjects
      [] pc = "costs" -> ContactObjects \union ContributorObjects \union DatasetObjects
                         \union ProjectObjects
      [] OTHER -> {}

KindsBefore(pc) ==
    CASE pc = "contributors" -> {"dmp", "contact"}
      [] pc = "datasets" -> {"dmp", "contact", "contributor"}
      [] pc = "projects" -> {"dmp", "contact", "contributor", "dataset", "technical_resource",
                             "distribution", "host", "license"}
      [] pc = "costs" -> Kind \ {"cost"}
      [] OTHER -> {}

(* The rows of the plan.                                                   *)
RowOK(o) ==
    /\ o \in Nat \ {Top} \/ (o \in MadeUp /\ plan[o].kind \in DOMAIN Owner)
    /\ plan[o] \in [kind : Kind, below : Int, keys : SUBSET BothKeys,
                    first : {"none", "yes", "no"}, valid : BOOLEAN]
    /\ plan[o].valid <=> Valid(plan[o])
    /\ IF plan[o].kind \in DOMAIN Parent
       THEN plan[o].below \in DOMAIN plan /\ plan[plan[o].below].kind = Parent[plan[o].kind]
       ELSE plan[o].below = Top
    /\ plan[o].kind \in Obligatory => plan[o].first = "none"

PlanOK == IsFiniteSet(DOMAIN plan) /\ \A o \in DOMAIN plan : RowOK(o)

FirstCost(o) == \A p \in Below(source.objects, Top, "cost") : ~(p < o)

(* The plan is still the document it was made from.                        *)
AsImported ==
    /\ \A o \in DOMAIN plan :
           /\ o \in DOMAIN source.objects
           /\ plan[o].kind = source.objects[o].kind
           /\ plan[o].below = source.objects[o].below
           /\ plan[o].keys = source.objects[o].keys
           /\ plan[o].first # "no"
           /\ plan[o].kind = "cost" => FirstCost(o)
    /\ \A o \in DOMAIN source.objects :
           source.objects[o].keys # Null /\ (source.objects[o].kind = "cost" => FirstCost(o)) =>
               o \in DOMAIN plan

(* An export that nobody has overtaken knows the plan as it is, and has    *)
(* made an entry for everything it has asked for.                          *)
LinksOK ==
    \A o \in DOMAIN plan :
        /\ o \in DOMAIN export.links <=> plan[o].valid
        /\ o \in DOMAIN export.links => export.links[o] = plan[o].keys

ReadOK ==
    /\ \A o \in DOMAIN export.read \ MadeUp :
           o \in AskedBefore(export.pc)
           /\ export.read[o] = [kind |-> plan[o].kind, below |-> plan[o].below, keys |-> Entry(o)]
    /\ AskedBefore(export.pc) \subseteq DOMAIN export.read

ExportOK ==
    /\ DOMAIN export = {"pc", "links", "read", "overtaken", "untouched"}
    /\ export.pc \in {"idle", "contact", "contributors", "datasets", "projects", "costs"}
    /\ IsDocument(export.read)
    /\ \A o \in DOMAIN export.read :
           /\ export.read[o].kind \in KindsBefore(export.pc)
           /\ o \notin MadeUp => o \in DOMAIN plan /\ export.read[o].kind = plan[o].kind
    /\ export.pc # "idle" /\ ~export.overtaken =>
           LinksOK /\ ReadOK /\ (export.untouched => untouched)

DocumentsOK == IsDocument(source.objects) /\ IsDocument(exported.objects)

RdadcsInv ==
    /\ PlanOK
    /\ DocumentsOK
    /\ untouched => AsImported
    /\ ExportOK
    /\ RoundTrip

-----------------------------------------------------------------------------
(* What can be in an object, and what is asked of it.                      *)
LEMMA PartsAre ==
  /\ \A kind \in Kind : kind \in DOMAIN Parent => Parent[kind] \in Kind \ DOMAIN Owner
  /\ DOMAIN Parent = {"technical_resource", "distribution", "host", "license", "funding"}
  /\ DOMAIN Owner = {"contact", "contributor"}
  /\ Top \notin Nat \ {Top}
  /\ MadeUp \intersect Nat = {}
BY DEF Parent, Owner, Top, MadeUp, Kind, Obligatory, Nested

LEMMA EntryIsKeys ==
  ASSUME NEW o
  PROVE  Entry(o) \in (SUBSET BothKeys) \union {Null}
BY DEF Entry, Asked, BothKeys, Null

LEMMA TitleIsIn ==
  ASSUME NEW o, plan[o].kind = "dmp"
  PROVE  "main" \in Entry(o)
BY DEF Entry, Asked, Rules, Fallback, BothKeys

LEMMA KeysAreNotNull ==
  ASSUME NEW K, K \in SUBSET BothKeys
  PROVE  K # Null
BY DEF BothKeys, Null

(* A list of the export, with what is below one of its objects.            *)
LEMMA InListIs ==
  ASSUME NEW id, NEW kind, NEW o \in InList(id, kind)
  PROVE  o \in DOMAIN plan /\ plan[o].below = id /\ plan[o].kind = kind /\ plan[o].valid
BY DEF InList, Below

LEMMA FlatListIs ==
  ASSUME PlanOK, NEW id, NEW kind
  PROVE  /\ \A o \in FlatList(id, kind) : o \in InList(id, kind) /\ Entry(o) # Null
         /\ kind = "host" => \A o, p \in FlatList(id, kind) : o = p
<1> DEFINE complete == {o \in InList(id, kind) : Entry(o) # Null}
<1>1. FlatList(id, kind) = IF kind = "host" /\ complete # {} THEN {Min(complete)} ELSE complete
  BY DEF FlatList
<1>2. CASE kind = "host" /\ complete # {}
  <2>1. complete \subseteq Nat
    <3>1. \A o \in complete : o \in DOMAIN plan /\ plan[o].kind = "host"
      BY <1>2, InListIs
    <3> HIDE DEF complete
    <3> QED BY <3>1, PartsAre DEF PlanOK, RowOK
  <2>2. Min(complete) \in complete
    <3> HIDE DEF complete
    <3> QED BY <1>2, <2>1, LeastInSet
  <2> QED BY <1>1, <1>2, <2>2
<1>3. CASE kind # "host"
  BY <1>1, <1>3
<1>4. CASE complete = {}
  BY <1>1, <1>4
<1> QED BY <1>2, <1>3, <1>4

LEMMA UnderIs ==
  ASSUME PlanOK, NEW b \in DOMAIN plan
  PROVE  /\ \A o \in UnderOne(b) :
                /\ o \in InList(b, plan[o].kind)
                /\ plan[o].kind \in DOMAIN Parent
                /\ Parent[plan[o].kind] = plan[b].kind
                /\ plan[o].kind = "distribution" \/ Entry(o) # Null
         /\ \A o, p \in UnderOne(b) : plan[o].kind = "host" /\ plan[p].kind = "host" => o = p
<1>1. \A id, kind : \A o \in InList(id, kind) : plan[o].kind = kind
  BY InListIs
<1>2. \A id, kind : \A o \in FlatList(id, kind) :
         o \in InList(id, kind) /\ plan[o].kind = kind /\ Entry(o) # Null
  BY <1>1, FlatListIs
<1>3. \A id, kind : kind = "host" => \A o, p \in FlatList(id, kind) : o = p
  BY FlatListIs
<1>4. CASE plan[b].kind = "dataset"
  <2>1. UnderOne(b) = FlatList(b, "technical_resource") \union InList(b, "distribution")
    BY <1>4 DEF UnderOne, Distributions
  <2> QED BY <1>1, <1>2, <1>4, <2>1 DEF Parent
<1>5. CASE plan[b].kind = "distribution"
  <2>1. UnderOne(b) = FlatList(b, "host") \union FlatList(b, "license")
    BY <1>5 DEF UnderOne
  <2>2. \A o \in UnderOne(b) : plan[o].kind = "host" => o \in FlatList(b, "host")
    BY <1>2, <2>1
  <2> QED BY <1>2, <1>3, <1>5, <2>1, <2>2 DEF Parent
<1>6. CASE plan[b].kind = "project"
  <2>1. UnderOne(b) = FlatList(b, "funding")
    BY <1>6 DEF UnderOne
  <2> QED BY <1>2, <1>6, <2>1 DEF Parent
<1>7. CASE plan[b].kind \notin {"dataset", "distribution", "project"}
  <2>1. UnderOne(b) = {}
    BY <1>7 DEF UnderOne
  <2> QED BY <2>1
<1> QED BY <1>4, <1>5, <1>6, <1>7

(* An object is read with everything it is in.                             *)
Closed(objects) ==
    \A o \in objects : plan[o].kind \in DOMAIN Parent =>
        plan[o].below \in objects /\ o \in UnderOne(plan[o].below)

DatasetKinds == {"dataset", "technical_resource", "distribution", "host", "license"}

LEMMA DatasetsAreClosed ==
  ASSUME PlanOK
  PROVE  /\ DatasetObjects \subseteq DOMAIN plan
         /\ \A o \in DatasetObjects : plan[o].kind \in DatasetKinds
         /\ Closed(DatasetObjects)
<1> DEFINE datasets == InList(Top, "dataset")
           distributions == UNION {Distributions(o) : o \in datasets}
<1>1. \A o \in datasets : o \in DOMAIN plan /\ plan[o].kind = "dataset"
  BY InListIs
<1>2. \A o \in distributions : o \in DOMAIN plan /\ plan[o].kind = "distribution"
  BY InListIs DEF Distributions
<1>3. distributions \subseteq Under(datasets)
  BY <1>1 DEF Under, UnderOne
<1>4. DatasetObjects = datasets \union Under(datasets) \union Under(distributions)
  BY DEF DatasetObjects
<1> HIDE DEF datasets, distributions
<1>5. ASSUME NEW o \in Under(datasets)
      PROVE  /\ o \in DOMAIN plan /\ plan[o].below \in datasets /\ o \in UnderOne(plan[o].below)
             /\ plan[o].kind \in DatasetKinds
  <2>1. PICK b \in datasets : o \in UnderOne(b)
    BY DEF Under
  <2>2. b \in DOMAIN plan /\ plan[b].kind = "dataset"
    BY <1>1
  <2>3. o \in InList(b, plan[o].kind) /\ plan[o].kind \in DOMAIN Parent
        /\ Parent[plan[o].kind] = "dataset"
    BY <2>1, <2>2, UnderIs
  <2>4. o \in DOMAIN plan /\ plan[o].below = b
    BY <2>3, InListIs
  <2> QED BY <2>1, <2>3, <2>4 DEF Parent, DatasetKinds
<1>6. ASSUME NEW o \in Under(distributions)
      PROVE  /\ o \in DOMAIN plan /\ plan[o].below \in distributions
             /\ o \in UnderOne(plan[o].below) /\ plan[o].kind \in DatasetKinds
  <2>1. PICK b \in distributions : o \in UnderOne(b)
    BY DEF Under
  <2>2. b \in DOMAIN plan /\ plan[b].kind = "distribution"
    BY <1>2
  <2>3. o \in InList(b, plan[o].kind) /\ plan[o].kind \in DOMAIN Parent
        /\ Parent[plan[o].kind] = "distribution"
    BY <2>1, <2>2, UnderIs
  <2>4. o \in DOMAIN plan /\ plan[o].below = b
    BY <2>3, InListIs
  <2> QED BY <2>1, <2>3, <2>4 DEF Parent, DatasetKinds
<1>7. "dataset" \in DatasetKinds /\ "dataset" \notin DOMAIN Parent
  BY DEF DatasetKinds, Parent
<1> QED BY <1>1, <1>3, <1>4, <1>5, <1>6, <1>7 DEF Closed

LEMMA ProjectsAreClosed ==
  ASSUME PlanOK
  PROVE  /\ ProjectObjects \subseteq DOMAIN plan
         /\ \A o \in ProjectObjects : plan[o].kind \in {"project", "funding"}
         /\ Closed(ProjectObjects)
<1> DEFINE projects == InList(Top, "project")
<1>1. \A o \in projects : o \in DOMAIN plan /\ plan[o].kind = "project"
  BY InListIs
<1>2. ProjectObjects = projects \union Under(projects)
  BY DEF ProjectObjects
<1> HIDE DEF projects
<1>3. ASSUME NEW o \in Under(projects)
      PROVE  /\ o \in DOMAIN plan /\ plan[o].below \in projects /\ o \in UnderOne(plan[o].below)
             /\ plan[o].kind = "funding"
  <2>1. PICK b \in projects : o \in UnderOne(b)
    BY DEF Under
  <2>2. b \in DOMAIN plan /\ plan[b].kind = "project"
    BY <1>1
  <2>3. o \in InList(b, plan[o].kind) /\ plan[o].kind \in DOMAIN Parent
        /\ Parent[plan[o].kind] = "project"
    BY <2>1, <2>2, UnderIs
  <2>4. o \in DOMAIN plan /\ plan[o].below = b
    BY <2>3, InListIs
  <2> QED BY <2>1, <2>3, <2>4 DEF Parent
<1>4. "project" \notin DOMAIN Parent
  BY DEF Parent
<1> QED BY <1>1, <1>2, <1>3, <1>4 DEF Closed

(* Reading a list keeps the document made so far one.                      *)
LEMMA ReadIsDocument ==
  ASSUME PlanOK, ExportOK, NEW objects, NEW kinds, kinds \subseteq Kind,
         objects \subseteq DOMAIN plan, Closed(objects), ~Fails(objects),
         \A o \in objects : plan[o].kind \in kinds,
         kinds \intersect KindsBefore(export.pc) = {}
  PROVE  /\ IsDocument(Read(objects))
         /\ \A o \in DOMAIN Read(objects) :
                /\ Read(objects)[o].kind \in KindsBefore(export.pc) \union kinds
                /\ o \notin MadeUp => o \in DOMAIN plan /\ Read(objects)[o].kind = plan[o].kind
<1> DEFINE R == Read(objects)
           old == export.read
<1>1. DOMAIN R = DOMAIN old \union objects
  BY DEF Read
<1>2. \A o \in objects : R[o] = [kind |-> plan[o].kind, below |-> plan[o].below, keys |-> Entry(o)]
  BY DEF Read
<1>3. \A o \in DOMAIN old : o \notin objects => R[o] = old[o]
  BY DEF Read
<1>4. IsDocument(old) /\ \A o \in DOMAIN old :
           /\ old[o].kind \in KindsBefore(export.pc)
           /\ o \notin MadeUp => o \in DOMAIN plan /\ old[o].kind = plan[o].kind
  BY DEF ExportOK
<1> HIDE DEF R, old
<1>5. IsFiniteSet(DOMAIN R)
  <2>1. IsFiniteSet(objects)
    BY FS_Subset DEF PlanOK
  <2>2. IsFiniteSet(DOMAIN old)
    BY <1>4 DEF IsDocument
  <2> QED BY <1>1, <2>1, <2>2, FS_Union
<1>6. \A o \in objects :
         /\ R[o].kind = plan[o].kind /\ R[o].below = plan[o].below /\ R[o].keys = Entry(o)
         /\ R[o] \in [kind : Kind, below : Int, keys : (SUBSET BothKeys) \union {Null}]
         /\ R[o].kind \in kinds
  <2> SUFFICES ASSUME NEW o \in objects
               PROVE  /\ R[o].kind = plan[o].kind /\ R[o].below = plan[o].below
                      /\ R[o].keys = Entry(o)
                      /\ R[o] \in [kind : Kind, below : Int,
                                   keys : (SUBSET BothKeys) \union {Null}]
                      /\ R[o].kind \in kinds
    OBVIOUS
  <2>1. plan[o].kind \in Kind /\ plan[o].below \in Int
    BY DEF PlanOK, RowOK
  <2>2. Entry(o) \in (SUBSET BothKeys) \union {Null}
    BY EntryIsKeys
  <2> DEFINE kind == plan[o].kind  below == plan[o].below  keys == Entry(o)
  <2>3. R[o] = [kind |-> kind, below |-> below, keys |-> keys]
    BY <1>2
  <2>4. kind \in kinds
    OBVIOUS
  <2> HIDE DEF kind, below, keys
  <2>5. R[o].kind = kind /\ R[o].below = below /\ R[o].keys = keys
    BY <2>3
  <2>6. R[o] \in [kind : Kind, below : Int, keys : (SUBSET BothKeys) \union {Null}]
    BY <2>1, <2>2, <2>3 DEF kind, below, keys
  <2> QED BY <2>4, <2>5, <2>6 DEF kind, below, keys
<1>7. \A o \in DOMAIN old : old[o].kind \in DOMAIN Parent => old[o].below \notin objects
  <2> SUFFICES ASSUME NEW o \in DOMAIN old, old[o].kind \in DOMAIN Parent, old[o].below \in objects
               PROVE  FALSE
    OBVIOUS
  <2> DEFINE b == old[o].below
  <2>1. b \in DOMAIN old /\ old[b].kind = Parent[old[o].kind]
    BY <1>4 DEF IsDocument
  <2>2. old[b].kind \notin DOMAIN Owner
    BY <1>4, <2>1, PartsAre DEF IsDocument
  <2>3. b \notin MadeUp
    BY <1>4, <2>1, <2>2, PartsAre DEF IsDocument
  <2> QED BY <1>4, <2>1, <2>3
<1>8. ASSUME NEW o \in DOMAIN R
      PROVE  /\ o \in Nat \ {Top} \/ (o \in MadeUp /\ R[o].kind \in DOMAIN Owner)
             /\ R[o] \in [kind : Kind, below : Int, keys : (SUBSET BothKeys) \union {Null}]
             /\ R[o].kind = "dmp" => "main" \in R[o].keys
  <2>1. CASE o \in objects
    BY <1>6, <2>1, TitleIsIn DEF PlanOK, RowOK
  <2>2. CASE o \notin objects
    BY <1>1, <1>3, <1>4, <2>2 DEF IsDocument
  <2> QED BY <2>1, <2>2
<1>9. ASSUME NEW o \in DOMAIN R
      PROVE  IF R[o].kind \in DOMAIN Parent
             THEN /\ R[o].below \in DOMAIN R
                  /\ R[R[o].below].kind = Parent[R[o].kind]
                  /\ R[R[o].below].keys # Null
             ELSE R[o].below = Top
  <2>1. CASE o \in objects
    <3>1. CASE R[o].kind \in DOMAIN Parent
      <4>1. plan[o].below \in objects /\ o \in UnderOne(plan[o].below)
        BY <1>6, <2>1, <3>1 DEF Closed
      <4>2. Entry(plan[o].below) # Null
        BY <4>1 DEF Fails
      <4>3. plan[plan[o].below].kind = Parent[plan[o].kind]
        BY <1>6, <2>1, <3>1 DEF PlanOK, RowOK
      <4> QED BY <1>1, <1>6, <2>1, <3>1, <4>1, <4>2, <4>3
    <3>2. CASE R[o].kind \notin DOMAIN Parent
      BY <1>6, <2>1, <3>2 DEF PlanOK, RowOK
    <3> QED BY <3>1, <3>2
  <2>2. CASE o \notin objects
    <3>1. o \in DOMAIN old /\ R[o] = old[o]
      BY <1>1, <1>3, <2>2
    <3>2. CASE old[o].kind \in DOMAIN Parent
      <4>1. old[o].below \in DOMAIN old /\ old[o].below \notin objects
        BY <1>4, <1>7, <3>1, <3>2 DEF IsDocument
      <4>2. R[old[o].below] = old[old[o].below]
        BY <1>3, <4>1
      <4> QED BY <1>1, <1>4, <3>1, <3>2, <4>1, <4>2 DEF IsDocument
    <3>3. CASE old[o].kind \notin DOMAIN Parent
      BY <1>4, <3>1, <3>3 DEF IsDocument
    <3> QED BY <3>2, <3>3
  <2> QED BY <2>1, <2>2
<1>10. ASSUME NEW o \in DOMAIN R, NEW p \in DOMAIN R,
              R[o].kind = "host", R[p].kind = "host", R[o].below = R[p].below
       PROVE  o = p
  <2>1. CASE "host" \in kinds
    <3>1. o \in objects /\ p \in objects
      BY <1>1, <1>3, <1>4, <1>10, <2>1
    <3>2. plan[o].kind = "host" /\ plan[p].kind = "host" /\ plan[o].below = plan[p].below
      BY <1>6, <1>10, <3>1
    <3>3. plan[o].below \in objects /\ o \in UnderOne(plan[o].below) /\ p \in UnderOne(plan[o].below)
      BY <3>1, <3>2, PartsAre DEF Closed
    <3> QED BY <3>2, <3>3, UnderIs
  <2>2. CASE "host" \notin kinds
    <3>1. o \notin objects /\ p \notin objects
      BY <1>6, <1>10, <2>2
    <3>2. o \in DOMAIN old /\ p \in DOMAIN old /\ R[o] = old[o] /\ R[p] = old[p]
      BY <1>1, <1>3, <3>1
    <3> QED BY <1>4, <1>10, <3>2 DEF IsDocument
  <2> QED BY <2>1, <2>2
<1>11. IsDocument(R)
  BY <1>5, <1>8, <1>9, <1>10 DEF IsDocument
<1>12. \A o \in DOMAIN R : /\ R[o].kind \in KindsBefore(export.pc) \union kinds
                           /\ o \notin MadeUp => o \in DOMAIN plan /\ R[o].kind = plan[o].kind
  BY <1>1, <1>3, <1>4, <1>6
<1> QED BY <1>11, <1>12 DEF R

(* The users of the plan are a contact or a contributor like any other.    *)
LEMMA OwnerIsDocument ==
  ASSUME NEW read, IsDocument(read), NEW kind \in DOMAIN Owner, NEW made,
         made = WithOwner(read, kind)
  PROVE  /\ IsDocument(made)
         /\ DOMAIN made = DOMAIN read \union {Owner[kind]}
         /\ Owner[kind] \in MadeUp
         /\ \A o \in DOMAIN read \ MadeUp : made[o] = read[o]
         /\ \A o \in DOMAIN made : made[o].kind = kind \/ (o \in DOMAIN read /\ made[o].kind = read[o].kind)
<1>1. DOMAIN made = DOMAIN read \union {Owner[kind]} /\ Owner[kind] \in MadeUp
  BY DEF WithOwner, Owner, MadeUp
<1>2. made[Owner[kind]] = [kind |-> kind, below |-> Top, keys |-> {"main"}]
  BY DEF WithOwner
<1>3. \A o \in DOMAIN read : o # Owner[kind] => made[o] = read[o]
  BY DEF WithOwner
<1>4. kind \in Kind /\ kind \notin DOMAIN Parent /\ kind \notin {"dmp", "host"}
  BY PartsAre DEF Kind, Obligatory, Nested
<1>5. IsFiniteSet(DOMAIN made)
  <2>1. IsFiniteSet(DOMAIN read)
    BY DEF IsDocument
  <2> QED BY <1>1, <2>1, FS_AddElement
<1>6. made[Owner[kind]] \in [kind : Kind, below : Int, keys : (SUBSET BothKeys) \union {Null}]
  <2>1. {"main"} \in (SUBSET BothKeys) \union {Null} /\ Top \in Int
    BY DEF BothKeys, Top
  <2> QED BY <1>2, <1>4, <2>1
<1>7. ASSUME NEW o \in DOMAIN made
      PROVE  /\ o \in Nat \ {Top} \/ (o \in MadeUp /\ made[o].kind \in DOMAIN Owner)
             /\ made[o] \in [kind : Kind, below : Int, keys : (SUBSET BothKeys) \union {Null}]
             /\ made[o].kind = "dmp" => "main" \in made[o].keys
  <2>1. CASE o = Owner[kind]
    BY <1>1, <1>2, <1>4, <1>6, <2>1
  <2>2. CASE o # Owner[kind]
    BY <1>1, <1>3, <2>2 DEF IsDocument
  <2> QED BY <2>1, <2>2
<1>8. ASSUME NEW o \in DOMAIN made
      PROVE  IF made[o].kind \in DOMAIN Parent
             THEN /\ made[o].below \in DOMAIN made
                  /\ made[made[o].below].kind = Parent[made[o].kind]
                  /\ made[made[o].below].keys # Null
             ELSE made[o].below = Top
  <2>1. CASE o = Owner[kind]
    BY <1>2, <1>4, <2>1
  <2>2. CASE o # Owner[kind]
    <3>1. o \in DOMAIN read /\ made[o] = read[o]
      BY <1>1, <1>3, <2>2
    <3>2. CASE read[o].kind \in DOMAIN Parent
      <4>1. /\ read[o].below \in DOMAIN read
            /\ read[read[o].below].kind = Parent[read[o].kind]
            /\ read[read[o].below].keys # Null
        BY <3>1, <3>2 DEF IsDocument
      <4>2. read[read[o].below].kind \notin DOMAIN Owner
        BY <3>1, <3>2, <4>1, PartsAre DEF IsDocument
      <4>3. read[o].below # Owner[kind]
        BY <1>1, <4>1, <4>2, PartsAre DEF IsDocument
      <4> QED BY <1>1, <1>3, <3>1, <3>2, <4>1, <4>3
    <3>3. CASE read[o].kind \notin DOMAIN Parent
      BY <3>1, <3>3 DEF IsDocument
    <3> QED BY <3>2, <3>3
  <2> QED BY <2>1, <2>2
<1>9. ASSUME NEW o \in DOMAIN made, NEW p \in DOMAIN made,
             made[o].kind = "host", made[p].kind = "host", made[o].below = made[p].below
      PROVE  o = p
  <2>1. o # Owner[kind] /\ p # Owner[kind]
    BY <1>2, <1>4, <1>9
  <2>2. o \in DOMAIN read /\ p \in DOMAIN read /\ made[o] = read[o] /\ made[p] = read[p]
    BY <1>1, <1>3, <2>1
  <2> QED BY <1>9, <2>2 DEF IsDocument
<1>10. IsDocument(made)
  BY <1>5, <1>7, <1>8, <1>9 DEF IsDocument
<1>11. \A o \in DOMAIN made : made[o].kind = kind \/ (o \in DOMAIN read /\ made[o].kind = read[o].kind)
  BY <1>1, <1>2, <1>3
<1> QED BY <1>1, <1>3, <1>10, <1>11

-----------------------------------------------------------------------------
(* The export                                                              *)

(* The fields of an export that goes on.                                   *)
LEMMA GoesOn ==
  ASSUME ExportOK, NEW next, NEW R,
         export' = [export EXCEPT !.pc = next, !.read = R]
  PROVE  /\ DOMAIN export' = {"pc", "links", "read", "overtaken", "untouched"}
         /\ export'.pc = next /\ export'.read = R /\ export'.links = export.links
         /\ export'.overtaken = export.overtaken /\ export'.untouched = export.untouched
BY DEF ExportOK

(* The plan as the export sees it does not depend on where it has come to. *)
LEMMA SameObjects ==
  ASSUME UNCHANGED plan, export'.links = export.links
  PROVE  /\ \A o : Entry(o)' = Entry(o)
         /\ ContactObjects' = ContactObjects
         /\ ContributorObjects' = ContributorObjects
         /\ DatasetObjects' = DatasetObjects
         /\ ProjectObjects' = ProjectObjects
         /\ CostObjects' = CostObjects
         /\ LinksOK' <=> LinksOK
BY DEF Entry, ContactObjects, ContributorObjects, DatasetObjects, ProjectObjects, CostObjects,
       LinksOK, InList, FlatList, Below, Under, UnderOne, Distributions

(* Collecting a list takes the export on to the next one.                  *)
LEMMA CollectKeeps ==
  ASSUME PlanOK, ExportOK, UNCHANGED <<plan, untouched>>,
         NEW objects, NEW kinds, NEW next,
         IsDocument(export'.read),
         export' = [export EXCEPT !.pc = next, !.read = export'.read],
         \A o \in DOMAIN export'.read :
             /\ export'.read[o].kind \in KindsBefore(export.pc) \union kinds
             /\ o \notin MadeUp => o \in DOMAIN plan /\ export'.read[o].kind = plan[o].kind,
         \A o \in DOMAIN export'.read \ MadeUp :
             \/ o \in objects /\ export'.read[o] = [kind |-> plan[o].kind, below |-> plan[o].below,
                                                   keys |-> Entry(o)]
             \/ o \in DOMAIN export.read /\ export'.read[o] = export.read[o],
         DOMAIN export.read \union objects \subseteq DOMAIN export'.read,
         export.pc # "idle",
         next \in {"contributors", "datasets", "projects", "costs"},
         KindsBefore(next) = KindsBefore(export.pc) \union kinds,
         AskedBefore(next) = AskedBefore(export.pc) \union objects
  PROVE  ExportOK'
<1> DEFINE R == export'.read
<1>1. export' = [export EXCEPT !.pc = next, !.read = R]
  OBVIOUS
<1>2. /\ DOMAIN export' = {"pc", "links", "read", "overtaken", "untouched"}
      /\ export'.pc = next /\ export'.links = export.links
      /\ export'.overtaken = export.overtaken /\ export'.untouched = export.untouched
  <2> HIDE DEF R
  <2> QED BY <1>1, GoesOn
<1>3. /\ \A o : Entry(o)' = Entry(o)
      /\ AskedBefore(next)' = AskedBefore(next)
      /\ LinksOK' <=> LinksOK
  BY <1>2, SameObjects DEF AskedBefore
<1>4. AskedBefore(export.pc)' = AskedBefore(next)
  BY <1>2, <1>3 DEF AskedBefore
<1>5. ASSUME export.pc # "idle", ~export.overtaken
      PROVE  LinksOK' /\ ReadOK' /\ (export'.untouched => untouched')
  <2>1. LinksOK /\ ReadOK /\ (export.untouched => untouched)
    BY <1>5 DEF ExportOK
  <2>2. \A o \in DOMAIN R \ MadeUp :
           o \in AskedBefore(next)
           /\ R[o] = [kind |-> plan[o].kind, below |-> plan[o].below, keys |-> Entry(o)]
    BY <2>1 DEF ReadOK
  <2>3. AskedBefore(next) \subseteq DOMAIN R
    BY <2>1 DEF ReadOK
  <2>4. ReadOK'
    BY <1>3, <1>4, <2>2, <2>3 DEF ReadOK
  <2> QED BY <1>2, <1>3, <2>1, <2>4
<1>6. \A o \in DOMAIN R : /\ R[o].kind \in KindsBefore(next)
                          /\ o \notin MadeUp => o \in DOMAIN plan' /\ R[o].kind = plan'[o].kind
  OBVIOUS
<1> QED BY <1>2, <1>5, <1>6 DEF ExportOK

(* A list of objects with nothing below.                                   *)
LEMMA PlainIsClosed ==
  ASSUME NEW objects, \A o \in objects : plan[o].kind \in {"dmp", "contact", "contributor", "cost"}
  PROVE  Closed(objects) /\ ~Fails(objects)
BY PartsAre DEF Closed, Fails, UnderOne

LEMMA ReadParts ==
  ASSUME NEW objects
  PROVE  /\ DOMAIN Read(objects) = DOMAIN export.read \union objects
         /\ \A o \in objects : Read(objects)[o] =
                [kind |-> plan[o].kind, below |-> plan[o].below, keys |-> Entry(o)]
         /\ \A o \in DOMAIN export.read \ objects : Read(objects)[o] = export.read[o]
BY DEF Read

(* Reading one more list, and nothing else.                                *)
LEMMA ReadKeeps ==
  ASSUME PlanOK, ExportOK, UNCHANGED <<plan, untouched>>,
         NEW objects, NEW kinds, NEW next, kinds \subseteq Kind,
         objects \subseteq DOMAIN plan, Closed(objects), ~Fails(objects),
         \A o \in objects : plan[o].kind \in kinds,
         kinds \intersect KindsBefore(export.pc) = {},
         export' = [export EXCEPT !.pc = next, !.read = Read(objects)],
         export.pc # "idle",
         next \in {"contributors", "datasets", "projects", "costs"},
         KindsBefore(next) = KindsBefore(export.pc) \union kinds,
         AskedBefore(next) = AskedBefore(export.pc) \union objects
  PROVE  ExportOK'
<1>1. /\ IsDocument(Read(objects))
      /\ \A o \in DOMAIN Read(objects) :
             /\ Read(objects)[o].kind \in KindsBefore(export.pc) \union kinds
             /\ o \notin MadeUp => o \in DOMAIN plan /\ Read(objects)[o].kind = plan[o].kind
  BY ReadIsDocument
<1>2. export'.read = Read(objects)
  BY GoesOn
<1>3. export' = [export EXCEPT !.pc = next, !.read = export'.read]
  BY <1>2
<1>4. /\ \A o \in DOMAIN export'.read \ MadeUp :
             \/ o \in objects /\ export'.read[o] = [kind |-> plan[o].kind, below |-> plan[o].below,
                                                   keys |-> Entry(o)]
             \/ o \in DOMAIN export.read /\ export'.read[o] = export.read[o]
      /\ DOMAIN export.read \union objects \subseteq DOMAIN export'.read
  <2>1. /\ DOMAIN Read(objects) = DOMAIN export.read \union objects
        /\ \A o \in objects : Read(objects)[o] =
               [kind |-> plan[o].kind, below |-> plan[o].below, keys |-> Entry(o)]
        /\ \A o \in DOMAIN export.read \ objects : Read(objects)[o] = export.read[o]
    BY ReadParts
  <2> QED BY <1>2, <2>1
<1>5. IsDocument(export'.read)
  BY <1>1, <1>2
<1>6. \A o \in DOMAIN export'.read :
         /\ export'.read[o].kind \in KindsBefore(export.pc) \union kinds
         /\ o \notin MadeUp => o \in DOMAIN plan /\ export'.read[o].kind = plan[o].kind
  BY <1>1, <1>2
<1> QED BY <1>3, <1>4, <1>5, <1>6, CollectKeeps

(* Reading one more list and taking the users of the plan, with or without *)
(* an incomplete list.                                                     *)
LEMMA OwnerKeeps ==
  ASSUME PlanOK, ExportOK, UNCHANGED <<plan, untouched>>,
         NEW objects, NEW kinds, NEW next, kinds \subseteq Kind,
         NEW owner \in DOMAIN Owner, owner \in kinds,
         objects \subseteq DOMAIN plan, Closed(objects), ~Fails(objects),
         \A o \in objects : plan[o].kind \in kinds,
         kinds \intersect KindsBefore(export.pc) = {},
         NEW read, read = Read(objects) \/ (read = export.read /\ objects = {}),
         export' = [export EXCEPT !.pc = next, !.read = WithOwner(read, owner)],
         export.pc # "idle",
         next \in {"contributors", "datasets", "projects", "costs"},
         KindsBefore(next) = KindsBefore(export.pc) \union kinds,
         AskedBefore(next) = AskedBefore(export.pc) \union objects
  PROVE  ExportOK'
<1>1. /\ IsDocument(read)
      /\ \A o \in DOMAIN read :
             /\ read[o].kind \in KindsBefore(export.pc) \union kinds
             /\ o \notin MadeUp => o \in DOMAIN plan /\ read[o].kind = plan[o].kind
  <2>1. CASE read = Read(objects)
    BY <2>1, ReadIsDocument
  <2>2. CASE read = export.read
    BY <2>2 DEF ExportOK
  <2> QED BY <2>1, <2>2
<1>2. /\ \A o \in DOMAIN read :
             \/ o \in objects /\ read[o] = [kind |-> plan[o].kind, below |-> plan[o].below,
                                            keys |-> Entry(o)]
             \/ o \in DOMAIN export.read /\ read[o] = export.read[o]
      /\ DOMAIN export.read \union objects \subseteq DOMAIN read
  <2>1. /\ DOMAIN Read(objects) = DOMAIN export.read \union objects
        /\ \A o \in objects : Read(objects)[o] =
               [kind |-> plan[o].kind, below |-> plan[o].below, keys |-> Entry(o)]
        /\ \A o \in DOMAIN export.read \ objects : Read(objects)[o] = export.read[o]
    BY ReadParts
  <2>2. CASE read = Read(objects)
    BY <2>1, <2>2
  <2>3. CASE read = export.read /\ objects = {}
    BY <2>3
  <2> QED BY <2>2, <2>3
<1>3. export'.read = WithOwner(read, owner)
  BY GoesOn
<1>4. export' = [export EXCEPT !.pc = next, !.read = export'.read]
  BY <1>3
<1>5. /\ IsDocument(export'.read)
      /\ DOMAIN export'.read = DOMAIN read \union {Owner[owner]}
      /\ Owner[owner] \in MadeUp
      /\ \A o \in DOMAIN read \ MadeUp : export'.read[o] = read[o]
      /\ \A o \in DOMAIN export'.read :
             \/ export'.read[o].kind = owner
             \/ o \in DOMAIN read /\ export'.read[o].kind = read[o].kind
  BY <1>1, <1>3, OwnerIsDocument
<1>6. /\ \A o \in DOMAIN export'.read \ MadeUp :
             \/ o \in objects /\ export'.read[o] = [kind |-> plan[o].kind, below |-> plan[o].below,
                                                   keys |-> Entry(o)]
             \/ o \in DOMAIN export.read /\ export'.read[o] = export.read[o]
      /\ DOMAIN export.read \union objects \subseteq DOMAIN export'.read
  BY <1>2, <1>5
<1>7. \A o \in DOMAIN export'.read :
         /\ export'.read[o].kind \in KindsBefore(export.pc) \union kinds
         /\ o \notin MadeUp => o \in DOMAIN plan /\ export'.read[o].kind = plan[o].kind
  BY <1>1, <1>5
<1>8. IsDocument(export'.read)
  BY <1>5
<1> QED BY <1>4, <1>6, <1>7, <1>8, CollectKeeps

LEMMA EmptyIsDocument ==
  ASSUME NEW f, DOMAIN f = {}
  PROVE  IsDocument(f)
BY FS_EmptySet DEF IsDocument

LEMMA IdleKeeps ==
  ASSUME export' = Idle
  PROVE  ExportOK'
<1>1. /\ DOMAIN export' = {"pc", "links", "read", "overtaken", "untouched"}
      /\ export'.pc = "idle" /\ DOMAIN export'.read = {}
  BY DEF Idle
<1>2. IsDocument(export'.read)
  BY <1>1, EmptyIsDocument
<1> QED BY <1>1, <1>2 DEF ExportOK

(* An export that goes on changes nothing else.                            *)
LEMMA ExportAlone ==
  ASSUME RdadcsInv, ExportOK', UNCHANGED <<plan, source, exported, untouched>>
  PROVE  RdadcsInv'
<1>1. PlanOK' /\ DocumentsOK' /\ (untouched' => AsImported')
  BY DEF RdadcsInv, PlanOK, RowOK, DocumentsOK, AsImported, FirstCost
<1>2. RoundTrip'
  BY DEF RdadcsInv, RoundTrip, Confirmed
<1> QED BY <1>1, <1>2 DEF RdadcsInv

LEMMA ContactStep ==
  ASSUME RdadcsInv, GetContactObject
  PROVE  RdadcsInv'
<1>1. PlanOK /\ ExportOK /\ export.pc = "contact"
      /\ UNCHANGED <<plan, source, exported, untouched>>
  BY DEF RdadcsInv, GetContactObject
<1> DEFINE objects == ContactObjects
           complete == {o \in InList(Top, "contact") : Entry(o) # Null}
           kinds == {"dmp", "contact"}
<1>2. \/ export' = Idle
      \/ export' = [export EXCEPT !.pc = "contributors", !.read = Read(objects)]
      \/ export' = [export EXCEPT !.pc = "contributors", !.read = WithOwner(Read(objects), "contact")]
  BY DEF GetContactObject, ContactObjects
<1>3. objects \subseteq DOMAIN plan /\ \A o \in objects : plan[o].kind \in kinds
  BY DEF ContactObjects, InList, Below
<1>4. /\ kinds \subseteq Kind /\ kinds \intersect KindsBefore(export.pc) = {}
      /\ KindsBefore("contributors") = KindsBefore(export.pc) \union kinds
      /\ AskedBefore("contributors") = AskedBefore(export.pc) \union objects
  BY <1>1 DEF KindsBefore, AskedBefore, Kind, Obligatory, Nested
<1>5. Closed(objects) /\ ~Fails(objects)
  BY <1>3, PlainIsClosed
<1>6. "contact" \in DOMAIN Owner /\ "contact" \in kinds
  BY PartsAre
<1> HIDE DEF objects, kinds
<1>7. CASE export' = Idle
  BY <1>1, <1>7, IdleKeeps, ExportAlone
<1>8. CASE export' = [export EXCEPT !.pc = "contributors", !.read = Read(objects)]
  <2>1. ExportOK'
    BY <1>1, <1>3, <1>4, <1>5, <1>8, ReadKeeps
  <2> QED BY <1>1, <2>1, ExportAlone
<1>9. CASE export' = [export EXCEPT !.pc = "contributors", !.read = WithOwner(Read(objects), "contact")]
  <2> DEFINE read == Read(objects)
  <2>1. export' = [export EXCEPT !.pc = "contributors", !.read = WithOwner(read, "contact")]
    BY <1>9
  <2>2. read = Read(objects) \/ (read = export.read /\ objects = {})
    OBVIOUS
  <2> HIDE DEF read
  <2>3. ExportOK'
    BY <1>1, <1>3, <1>4, <1>5, <1>6, <2>1, <2>2, OwnerKeeps
  <2> QED BY <1>1, <2>3, ExportAlone
<1> QED BY <1>2, <1>7, <1>8, <1>9

LEMMA ContributorStep ==
  ASSUME RdadcsInv, GetContributorList
  PROVE  RdadcsInv'
<1>1. PlanOK /\ ExportOK /\ export.pc = "contributors"
      /\ UNCHANGED <<plan, source, exported, untouched>>
  BY DEF RdadcsInv, GetContributorList
<1> DEFINE objects == ContributorObjects
           kinds == {"contributor"}
<1>2. \/ export' = [export EXCEPT !.pc = "datasets", !.read = Read(objects)]
      \/ /\ export' = [export EXCEPT !.pc = "datasets", !.read = WithOwner(export.read, "contributor")]
         /\ objects = {}
  BY DEF GetContributorList, ContributorObjects
<1>3. objects \subseteq DOMAIN plan /\ \A o \in objects : plan[o].kind \in kinds
  BY <1>1, FlatListIs, InListIs DEF ContributorObjects
<1>4. /\ kinds \subseteq Kind /\ kinds \intersect KindsBefore(export.pc) = {}
      /\ KindsBefore("datasets") = KindsBefore(export.pc) \union kinds
      /\ AskedBefore("datasets") = AskedBefore(export.pc) \union objects
  BY <1>1 DEF KindsBefore, AskedBefore, Kind, Obligatory, Nested
<1>5. Closed(objects) /\ ~Fails(objects)
  BY <1>3, PlainIsClosed
<1>6. "contributor" \in DOMAIN Owner /\ "contributor" \in kinds
  BY PartsAre
<1> HIDE DEF objects, kinds
<1>7. CASE export' = [export EXCEPT !.pc = "datasets", !.read = Read(objects)]
  <2>1. ExportOK'
    BY <1>1, <1>3, <1>4, <1>5, <1>7, ReadKeeps
  <2> QED BY <1>1, <2>1, ExportAlone
<1>8. CASE /\ export' = [export EXCEPT !.pc = "datasets",
                             !.read = WithOwner(export.read, "contributor")]
           /\ objects = {}
  <2> DEFINE read == export.read
  <2>1. export' = [export EXCEPT !.pc = "datasets", !.read = WithOwner(read, "contributor")]
    BY <1>8
  <2>2. read = Read(objects) \/ (read = export.read /\ objects = {})
    BY <1>8
  <2> HIDE DEF read
  <2>3. ExportOK'
    BY <1>1, <1>3, <1>4, <1>5, <1>6, <2>1, <2>2, OwnerKeeps
  <2> QED BY <1>1, <2>3, ExportAlone
<1> QED BY <1>2, <1>7, <1>8

LEMMA DatasetStep ==
  ASSUME RdadcsInv, GetDatasetList
  PROVE  RdadcsInv'
<1>1. PlanOK /\ ExportOK /\ export.pc = "datasets"
      /\ UNCHANGED <<plan, source, exported, untouched>>
  BY DEF RdadcsInv, GetDatasetList, Collect
<1> DEFINE objects == DatasetObjects
<1>2. export' = IF Fails(objects) THEN Idle
                ELSE [export EXCEPT !.pc = "projects", !.read = Read(objects)]
  BY DEF GetDatasetList, Collect, DatasetObjects
<1>3. /\ objects \subseteq DOMAIN plan
      /\ \A o \in objects : plan[o].kind \in DatasetKinds
      /\ Closed(objects)
  BY <1>1, DatasetsAreClosed
<1>4. /\ DatasetKinds \subseteq Kind /\ DatasetKinds \intersect KindsBefore(export.pc) = {}
      /\ KindsBefore("projects") = KindsBefore(export.pc) \union DatasetKinds
      /\ AskedBefore("projects") = AskedBefore(export.pc) \union objects
  BY <1>1 DEF DatasetKinds, KindsBefore, AskedBefore, Kind, Obligatory, Nested
<1> HIDE DEF objects
<1>5. CASE Fails(objects)
  BY <1>1, <1>2, <1>5, IdleKeeps, ExportAlone
<1>6. CASE ~Fails(objects)
  <2>1. export' = [export EXCEPT !.pc = "projects", !.read = Read(objects)]
    BY <1>2, <1>6
  <2>2. ExportOK'
    BY <1>1, <1>3, <1>4, <1>6, <2>1, ReadKeeps
  <2> QED BY <1>1, <2>2, ExportAlone
<1> QED BY <1>5, <1>6

LEMMA ProjectStep ==
  ASSUME RdadcsInv, GetProjectList
  PROVE  RdadcsInv'
<1>1. PlanOK /\ ExportOK /\ export.pc = "projects"
      /\ UNCHANGED <<plan, source, exported, untouched>>
  BY DEF RdadcsInv, GetProjectList, Collect
<1> DEFINE objects == ProjectObjects
           kinds == {"project", "funding"}
<1>2. export' = IF Fails(objects) THEN Idle
                ELSE [export EXCEPT !.pc = "costs", !.read = Read(objects)]
  BY DEF GetProjectList, Collect, ProjectObjects
<1>3. /\ objects \subseteq DOMAIN plan
      /\ \A o \in objects : plan[o].kind \in kinds
      /\ Closed(objects)
  BY <1>1, ProjectsAreClosed
<1>4. /\ kinds \subseteq Kind /\ kinds \intersect KindsBefore(export.pc) = {}
      /\ KindsBefore("costs") = KindsBefore(export.pc) \union kinds
      /\ AskedBefore("costs") = AskedBefore(export.pc) \union objects
  BY <1>1 DEF KindsBefore, AskedBefore, Kind, Obligatory, Nested
<1> HIDE DEF objects, kinds
<1>5. CASE Fails(objects)
  BY <1>1, <1>2, <1>5, IdleKeeps, ExportAlone
<1>6. CASE ~Fails(objects)
  <2>1. export' = [export EXCEPT !.pc = "costs", !.read = Read(objects)]
    BY <1>2, <1>6
  <2>2. ExportOK'
    BY <1>1, <1>3, <1>4, <1>6, <2>1, ReadKeeps
  <2> QED BY <1>1, <2>2, ExportAlone
<1> QED BY <1>5, <1>6

LEMMA BeginStep ==
  ASSUME RdadcsInv, BeginExport
  PROVE  RdadcsInv'
<1> DEFINE links == [o \in {p \in DOMAIN plan : plan[p].valid} |-> plan[o].keys]
<1>1. /\ export' = [Idle EXCEPT !.pc = "contact", !.untouched = untouched, !.links = links]
      /\ exported' = Empty
      /\ UNCHANGED <<plan, source, untouched>>
  BY DEF BeginExport
<1>2. \A o \in DOMAIN plan : /\ o \in DOMAIN links <=> plan[o].valid
                             /\ o \in DOMAIN links => links[o] = plan[o].keys
  OBVIOUS
<1> HIDE DEF links
<1>3. /\ DOMAIN export' = {"pc", "links", "read", "overtaken", "untouched"}
      /\ export'.pc = "contact" /\ DOMAIN export'.read = {} /\ export'.links = links
      /\ export'.untouched = untouched
  BY <1>1 DEF Idle
<1>4. LinksOK' /\ ReadOK'
  BY <1>1, <1>2, <1>3 DEF LinksOK, ReadOK, AskedBefore
<1>5. IsDocument(export'.read)
  BY <1>3, EmptyIsDocument
<1>6. ExportOK'
  BY <1>1, <1>3, <1>4, <1>5 DEF ExportOK
<1>7. PlanOK' /\ (untouched' => AsImported')
  BY <1>1 DEF RdadcsInv, PlanOK, RowOK, AsImported, FirstCost
<1>8. DocumentsOK'
  <2>1. DOMAIN exported'.objects = {}
    BY <1>1 DEF Empty
  <2> QED BY <1>1, <2>1, EmptyIsDocument DEF RdadcsInv, DocumentsOK
<1>9. RoundTrip'
  BY <1>1 DEF RoundTrip, Empty
<1> QED BY <1>6, <1>7, <1>8, <1>9 DEF RdadcsInv

Row == [kind : Kind, below : Int, keys : SUBSET BothKeys,
        first : {"none", "yes", "no"}, valid : BOOLEAN]

(* set_valid changes the mark, and nothing the mark depends on.            *)
LEMMA MarkedIs ==
  ASSUME NEW row \in Row
  PROVE  /\ Marked(row) \in Row
         /\ Marked(row).kind = row.kind /\ Marked(row).below = row.below
         /\ Marked(row).keys = row.keys /\ Marked(row).first = row.first
         /\ Marked(row).valid <=> Valid(Marked(row))
<1>1. Valid(row) \in BOOLEAN
  BY DEF Valid
<1> DEFINE mark == Valid(row)
           new == [row EXCEPT !.valid = mark]
<1>2. Marked(row) = new
  BY DEF Marked
<1>3. mark \in BOOLEAN
  BY <1>1
<1> HIDE DEF mark
<1>4. /\ new \in Row /\ new.kind = row.kind /\ new.below = row.below
      /\ new.keys = row.keys /\ new.first = row.first /\ new.valid = mark
  BY <1>3 DEF Row
<1> HIDE DEF new
<1>5. Valid(new) <=> Valid(row)
  BY <1>4 DEF Valid
<1>6. new.valid <=> Valid(new)
  BY <1>4, <1>5 DEF mark
<1> QED BY <1>2, <1>4, <1>6

(* A plan that changes overtakes the export.                               *)
LEMMA Overtaken ==
  ASSUME ExportOK, export' = Revised, DOMAIN plan \subseteq DOMAIN plan',
         \A o \in DOMAIN plan : plan'[o].kind = plan[o].kind
  PROVE  ExportOK'
<1> DEFINE late == export.pc # "idle"
<1>1. export' = [export EXCEPT !.overtaken = late]
  BY DEF Revised
<1> HIDE DEF late
<1>2. /\ DOMAIN export' = {"pc", "links", "read", "overtaken", "untouched"}
      /\ export'.pc = export.pc /\ export'.read = export.read /\ export'.overtaken = late
  BY <1>1 DEF ExportOK
<1>3. export'.pc # "idle" => export'.overtaken
  BY <1>2 DEF late
<1>4. IsDocument(export'.read) /\ \A o \in DOMAIN export'.read :
         /\ export'.read[o].kind \in KindsBefore(export'.pc)
         /\ o \notin MadeUp => o \in DOMAIN plan' /\ export'.read[o].kind = plan'[o].kind
  BY <1>2 DEF ExportOK
<1>5. export'.pc \in {"idle", "contact", "contributors", "datasets", "projects", "costs"}
  BY <1>2 DEF ExportOK
<1> QED BY <1>2, <1>3, <1>4, <1>5 DEF ExportOK

LEMMA NothingExported ==
  ASSUME exported' = Empty
  PROVE  RoundTrip' /\ IsDocument(exported'.objects)
<1>1. DOMAIN exported'.objects = {}
  BY DEF Empty
<1> QED BY <1>1, EmptyIsDocument DEF RoundTrip, Empty

LEMMA EditKeepsPlan ==
  ASSUME RdadcsInv, NEW id \in DOMAIN plan, NEW row \in Row, Edit(id, row),
         row.kind = plan[id].kind, row.below = plan[id].below,
         row.kind \in Obligatory => row.first = "none"
  PROVE  /\ PlanOK' /\ ExportOK' /\ DocumentsOK' /\ RoundTrip'
         /\ DOMAIN plan' = DOMAIN plan
         /\ plan'[id].kind = row.kind /\ plan'[id].below = row.below
         /\ plan'[id].keys = row.keys /\ plan'[id].first = row.first
         /\ \A o \in DOMAIN plan : o # id => plan'[o] = plan[o]
<1> DEFINE new == Marked(row)
<1>1. plan' = [plan EXCEPT ![id] = new] /\ export' = Revised /\ exported' = Empty /\ source' = source
  BY DEF Edit
<1>2. /\ new \in Row
      /\ new.kind = row.kind /\ new.below = row.below
      /\ new.keys = row.keys /\ new.first = row.first
      /\ new.valid <=> Valid(new)
  BY MarkedIs
<1> HIDE DEF new
<1>3. DOMAIN plan' = DOMAIN plan /\ plan'[id] = new /\ \A o \in DOMAIN plan : o # id => plan'[o] = plan[o]
  BY <1>1
<1>4. \A o \in DOMAIN plan : plan'[o].kind = plan[o].kind /\ plan'[o].below = plan[o].below
  BY <1>2, <1>3
<1>5. PlanOK /\ ExportOK /\ DocumentsOK
  BY DEF RdadcsInv
<1>6. ASSUME NEW o \in DOMAIN plan
      PROVE  RowOK(o)'
  <2>1. RowOK(o)
    BY <1>5 DEF PlanOK
  <2>2. /\ o \in Nat \ {Top} \/ (o \in MadeUp /\ plan'[o].kind \in DOMAIN Owner)
        /\ IF plan'[o].kind \in DOMAIN Parent
           THEN plan'[o].below \in DOMAIN plan' /\ plan'[plan'[o].below].kind = Parent[plan'[o].kind]
           ELSE plan'[o].below = Top
    BY <1>3, <1>4, <2>1 DEF RowOK
  <2>3. /\ plan'[o] \in Row
        /\ plan'[o].valid <=> Valid(plan'[o])
        /\ plan'[o].kind \in Obligatory => plan'[o].first = "none"
    <3>1. CASE o = id
      BY <1>2, <1>3, <3>1
    <3>2. CASE o # id
      BY <1>3, <2>1, <3>2 DEF RowOK, Row
    <3> QED BY <3>1, <3>2
  <2> QED BY <2>2, <2>3 DEF RowOK, Row
<1>7. PlanOK'
  BY <1>3, <1>5, <1>6 DEF PlanOK
<1>8. ExportOK'
  BY <1>1, <1>3, <1>4, <1>5, Overtaken
<1>9. DocumentsOK' /\ RoundTrip'
  BY <1>1, <1>5, NothingExported DEF DocumentsOK
<1> QED BY <1>2, <1>3, <1>7, <1>8, <1>9

LEMMA ConfirmStep ==
  ASSUME RdadcsInv, NEW id \in DOMAIN plan, Confirm(id)
  PROVE  RdadcsInv'
<1> DEFINE old == plan[id]
           row == [old EXCEPT !.first = "yes"]
<1>1. Edit(id, row) /\ untouched' = untouched /\ old.kind \notin Obligatory /\ source' = source
  BY DEF Confirm, Edit
<1>2. old \in Row
  BY DEF RdadcsInv, PlanOK, RowOK, Row
<1> HIDE DEF old
<1>3. row \in Row /\ row.kind = old.kind /\ row.below = old.below /\ row.keys = old.keys
      /\ row.first = "yes"
  BY <1>2 DEF Row
<1> HIDE DEF row
<1>4. row.kind = plan[id].kind /\ row.below = plan[id].below /\ row.keys = plan[id].keys
  BY <1>3 DEF old
<1>5. row.kind \in Obligatory => row.first = "none"
  BY <1>1, <1>3
<1>6. /\ PlanOK' /\ ExportOK' /\ DocumentsOK' /\ RoundTrip'
      /\ DOMAIN plan' = DOMAIN plan
      /\ plan'[id].kind = row.kind /\ plan'[id].below = row.below
      /\ plan'[id].keys = row.keys /\ plan'[id].first = row.first
      /\ \A o \in DOMAIN plan : o # id => plan'[o] = plan[o]
  BY <1>1, <1>3, <1>4, <1>5, EditKeepsPlan
<1>7. untouched' => AsImported'
  <2>1. SUFFICES ASSUME untouched PROVE AsImported'
    BY <1>1
  <2>2. AsImported
    BY <2>1 DEF RdadcsInv
  <2>3. \A o \in DOMAIN plan :
            /\ plan'[o].kind = plan[o].kind /\ plan'[o].below = plan[o].below
            /\ plan'[o].keys = plan[o].keys
            /\ plan[o].first # "no" => plan'[o].first # "no"
    BY <1>3, <1>4, <1>6
  <2> QED BY <1>1, <1>6, <2>2, <2>3 DEF AsImported, FirstCost
<1> QED BY <1>6, <1>7 DEF RdadcsInv

LEMMA DeclineStep ==
  ASSUME RdadcsInv, NEW id \in DOMAIN plan, Decline(id)
  PROVE  RdadcsInv'
<1> DEFINE old == plan[id]
           row == [old EXCEPT !.first = "no", !.keys = {}]
<1>1. Edit(id, row) /\ untouched' = FALSE /\ old.kind \notin Obligatory
  BY DEF Decline
<1>2. old \in Row
  BY DEF RdadcsInv, PlanOK, RowOK, Row
<1> HIDE DEF old
<1>3. row \in Row /\ row.kind = old.kind /\ row.below = old.below
  BY <1>2 DEF Row
<1> HIDE DEF row
<1>4. row.kind = plan[id].kind /\ row.below = plan[id].below
      /\ (row.kind \in Obligatory => row.first = "none")
  BY <1>1, <1>3 DEF old
<1>5. PlanOK' /\ ExportOK' /\ DocumentsOK' /\ RoundTrip'
  BY <1>1, <1>3, <1>4, EditKeepsPlan
<1> QED BY <1>1, <1>5 DEF RdadcsInv

LEMMA CompleteStep ==
  ASSUME RdadcsInv, NEW id \in DOMAIN plan, Complete(id)
  PROVE  RdadcsInv'
<1> DEFINE old == plan[id]
           row == [old EXCEPT !.keys = BothKeys]
<1>1. Edit(id, row) /\ untouched' = FALSE
  BY DEF Complete
<1>2. old \in Row /\ (old.kind \in Obligatory => old.first = "none")
  BY DEF RdadcsInv, PlanOK, RowOK, Row
<1> HIDE DEF old
<1>3. row \in Row /\ row.kind = old.kind /\ row.below = old.below /\ row.first = old.first
  BY <1>2 DEF Row
<1> HIDE DEF row
<1>4. row.kind = plan[id].kind /\ row.below = plan[id].below
      /\ (row.kind \in Obligatory => row.first = "none")
  BY <1>2, <1>3 DEF old
<1>5. PlanOK' /\ ExportOK' /\ DocumentsOK' /\ RoundTrip'
  BY <1>1, <1>3, <1>4, EditKeepsPlan
<1> QED BY <1>1, <1>5 DEF RdadcsInv

(* The next number is above those of all objects.                          *)
LEMMA NextNumber ==
  ASSUME PlanOK, NEW id \in DOMAIN plan, plan[id].kind = "distribution"
  PROVE  Max(DOMAIN plan) + 1 \in Nat \ {Top} /\ Max(DOMAIN plan) + 1 \notin DOMAIN plan
<1> DEFINE K == DOMAIN plan \intersect Nat
<1>1. \A o \in DOMAIN plan : o \in Nat \/ o \in MadeUp
  BY DEF PlanOK, RowOK
<1>2. id \in K /\ IsFiniteSet(K)
  <2>1. id \in Nat
    BY PartsAre DEF PlanOK, RowOK
  <2> QED BY <2>1, FS_Subset DEF PlanOK
<1>3. Max(K) \in K /\ \A k \in K : k <= Max(K)
  <2> HIDE DEF K
  <2> QED BY <1>2, FiniteHasLargest DEF K
<1>4. \E m \in DOMAIN plan : \A o \in DOMAIN plan : m >= o
  BY <1>1, <1>3 DEF MadeUp
<1>5. Max(DOMAIN plan) \in DOMAIN plan /\ \A o \in DOMAIN plan : Max(DOMAIN plan) >= o
  BY <1>4 DEF Max
<1> HIDE DEF K
<1>6. Max(DOMAIN plan) \in Nat
  BY <1>1, <1>2, <1>5 DEF MadeUp, K
<1> QED BY <1>1, <1>5, <1>6 DEF MadeUp, Top

LEMMA AddHostStep ==
  ASSUME RdadcsInv, NEW id \in DOMAIN plan, AddHost(id)
  PROVE  RdadcsInv'
<1>1. PlanOK /\ ExportOK /\ DocumentsOK
  BY DEF RdadcsInv
<1> DEFINE new == Max(DOMAIN plan) + 1
           bare == [kind |-> "host", below |-> id, keys |-> BothKeys,
                    first |-> "yes", valid |-> FALSE]
           host == Marked(bare)
<1>2. /\ plan[id].kind = "distribution"
      /\ DOMAIN plan' = DOMAIN plan \union {new}
      /\ plan'[new] = host
      /\ \A o \in DOMAIN plan : o # new => plan'[o] = plan[o]
      /\ export' = Revised /\ exported' = Empty /\ untouched' = FALSE /\ source' = source
  BY DEF AddHost
<1>3. new \in Nat \ {Top} /\ new \notin DOMAIN plan
  BY <1>1, <1>2, NextNumber
<1>4. bare \in Row /\ bare.kind = "host" /\ bare.below = id
  BY <1>1 DEF Row, Kind, PlanOK, RowOK, MadeUp
<1>5. host \in Row /\ host.kind = "host" /\ host.below = id /\ (host.valid <=> Valid(host))
  <2> HIDE DEF bare
  <2> QED BY <1>4, MarkedIs
<1> HIDE DEF new, host
<1>6. \A o \in DOMAIN plan : plan'[o] = plan[o]
  BY <1>2, <1>3
<1>7. ASSUME NEW o \in DOMAIN plan'
      PROVE  RowOK(o)'
  <2>1. CASE o = new
    <3>1. plan'[id] = plan[id] /\ id \in DOMAIN plan'
      BY <1>2, <1>6
    <3>2. "host" \in DOMAIN Parent /\ Parent["host"] = "distribution" /\ "host" \notin Obligatory
      BY DEF Parent, Obligatory
    <3> QED BY <1>2, <1>3, <1>5, <2>1, <3>1, <3>2 DEF RowOK, Row
  <2>2. CASE o # new
    <3>1. o \in DOMAIN plan /\ plan'[o] = plan[o] /\ RowOK(o)
      BY <1>1, <1>2, <1>6, <2>2 DEF PlanOK
    <3>2. /\ o \in Nat \ {Top} \/ (o \in MadeUp /\ plan'[o].kind \in DOMAIN Owner)
          /\ plan'[o] \in Row
          /\ plan'[o].valid <=> Valid(plan'[o])
          /\ plan'[o].kind \in Obligatory => plan'[o].first = "none"
      BY <3>1 DEF RowOK, Row
    <3>3. IF plan'[o].kind \in DOMAIN Parent
          THEN plan'[o].below \in DOMAIN plan' /\ plan'[plan'[o].below].kind = Parent[plan'[o].kind]
          ELSE plan'[o].below = Top
      BY <1>2, <1>6, <3>1 DEF RowOK
    <3> QED BY <3>2, <3>3 DEF RowOK, Row
  <2> QED BY <2>1, <2>2
<1>8. IsFiniteSet(DOMAIN plan')
  <2>1. IsFiniteSet(DOMAIN plan)
    BY <1>1 DEF PlanOK
  <2> QED BY <1>2, <2>1, FS_AddElement
<1>9. PlanOK'
  BY <1>7, <1>8 DEF PlanOK
<1>10. ExportOK'
  BY <1>1, <1>2, <1>6, Overtaken
<1>11. DocumentsOK' /\ RoundTrip'
  BY <1>1, <1>2, NothingExported DEF DocumentsOK
<1> QED BY <1>2, <1>9, <1>10, <1>11 DEF RdadcsInv

LEMMA ImportStep ==
  ASSUME RdadcsInv, NEW d, IsDocument(d.objects), ImportRDADCS(d)
  PROVE  RdadcsInv'
<1>1. PlanOK /\ ExportOK /\ DocumentsOK /\ (untouched => AsImported)
  BY DEF RdadcsInv
<1>2. export' = export /\ exported' = Empty /\ export.pc = "idle"
  BY DEF ImportRDADCS
<1>3. DOMAIN export.read = {}
  BY <1>1, <1>2 DEF ExportOK, KindsBefore
<1>4. ExportOK'
  BY <1>1, <1>2, <1>3 DEF ExportOK
<1>5. RoundTrip' /\ IsDocument(exported'.objects)
  BY <1>2, NothingExported
<1>6. CASE ImportFails(d)
  <2>1. UNCHANGED <<plan, source, untouched>>
    BY <1>6 DEF ImportRDADCS
  <2>2. PlanOK' /\ DocumentsOK' /\ (untouched' => AsImported')
    BY <1>1, <1>5, <2>1 DEF PlanOK, RowOK, DocumentsOK, AsImported, FirstCost
  <2> QED BY <1>4, <1>5, <2>2 DEF RdadcsInv
<1>7. CASE ~ImportFails(d)
  <2> DEFINE objects == d.objects
             later == {o \in DOMAIN objects : objects[o].kind = "cost"
                           /\ \E p \in Below(objects, Top, "cost") : p < o}
             known == {o \in DOMAIN objects \ later : objects[o].keys # Null}
             Bare(o) == [kind |-> objects[o].kind, below |-> objects[o].below,
                         keys |-> objects[o].keys, first |-> "none", valid |-> FALSE]
  <2>1. /\ DOMAIN plan' = known /\ \A o \in known : plan'[o] = Marked(Bare(o))
        /\ source' = d
    BY <1>7 DEF ImportRDADCS, Imported
  <2>2. IsDocument(objects)
    OBVIOUS
  <2>3. /\ known \subseteq DOMAIN objects
        /\ \A o \in known : objects[o].keys # Null
        /\ \A o \in DOMAIN objects : objects[o].keys # Null /\ objects[o].kind # "cost" => o \in known
        /\ \A o \in DOMAIN objects :
               objects[o].keys # Null /\ (\A p \in Below(objects, Top, "cost") : ~(p < o)) => o \in known
        /\ \A o \in known : objects[o].kind = "cost" =>
               \A p \in Below(objects, Top, "cost") : ~(p < o)
    OBVIOUS
  <2> HIDE DEF known, later, objects
  <2>4. ASSUME NEW o \in known
        PROVE  /\ plan'[o] \in Row
               /\ plan'[o].kind = objects[o].kind /\ plan'[o].below = objects[o].below
               /\ plan'[o].keys = objects[o].keys /\ plan'[o].first = "none"
               /\ plan'[o].valid <=> Valid(plan'[o])
    <3> DEFINE kind == objects[o].kind  below == objects[o].below  keys == objects[o].keys
               bare == [kind |-> kind, below |-> below, keys |-> keys,
                        first |-> "none", valid |-> FALSE]
    <3>1. plan'[o] = Marked(bare)
      BY <2>1
    <3>2. kind \in Kind /\ below \in Int /\ keys \in SUBSET BothKeys
      BY <2>2, <2>3 DEF IsDocument
    <3> HIDE DEF kind, below, keys
    <3>3. bare \in Row /\ bare.kind = kind /\ bare.below = below /\ bare.keys = keys
          /\ bare.first = "none"
      BY <3>2 DEF Row
    <3> HIDE DEF bare
    <3> QED BY <3>1, <3>3, MarkedIs DEF kind, below, keys
  <2>5. ASSUME NEW o \in known
        PROVE  RowOK(o)'
    <3>1. o \in DOMAIN objects
      BY <2>3
    <3>2. o \in Nat \ {Top} \/ (o \in MadeUp /\ plan'[o].kind \in DOMAIN Owner)
      BY <2>2, <2>4, <3>1 DEF IsDocument
    <3>3. IF plan'[o].kind \in DOMAIN Parent
          THEN plan'[o].below \in DOMAIN plan' /\ plan'[plan'[o].below].kind = Parent[plan'[o].kind]
          ELSE plan'[o].below = Top
      <4>1. CASE objects[o].kind \in DOMAIN Parent
        <5> DEFINE b == objects[o].below
        <5>1. b \in DOMAIN objects /\ objects[b].kind = Parent[objects[o].kind]
              /\ objects[b].keys # Null
          BY <2>2, <3>1, <4>1 DEF IsDocument
        <5>2. Parent[objects[o].kind] # "cost"
          BY <4>1 DEF Parent
        <5>3. b \in known
          BY <2>3, <5>1, <5>2
        <5> QED BY <2>1, <2>4, <4>1, <5>1, <5>3
      <4>2. CASE objects[o].kind \notin DOMAIN Parent
        BY <2>2, <2>4, <3>1, <4>2 DEF IsDocument
      <4> QED BY <4>1, <4>2
    <3> QED BY <2>4, <3>2, <3>3 DEF RowOK, Row
  <2>6. IsFiniteSet(known)
    <3>1. IsFiniteSet(DOMAIN objects)
      BY <2>2 DEF IsDocument
    <3> QED BY <2>3, <3>1, FS_Subset
  <2>7. PlanOK'
    BY <2>1, <2>5, <2>6 DEF PlanOK
  <2>8. source'.objects = objects
    BY <2>1 DEF objects
  <2>9. DocumentsOK'
    BY <1>5, <2>2, <2>8 DEF DocumentsOK
  <2>10. AsImported'
    <3>1. \A o : FirstCost(o)' <=> (\A p \in Below(objects, Top, "cost") : ~(p < o))
      BY <2>8 DEF FirstCost
    <3>2. ASSUME NEW o \in DOMAIN objects, objects[o].keys # Null,
                 objects[o].kind = "cost" => FirstCost(o)'
          PROVE  o \in known
      BY <2>3, <3>1, <3>2
    <3> QED BY <2>1, <2>3, <2>4, <2>8, <3>1, <3>2 DEF AsImported
  <2> QED BY <1>4, <1>5, <2>7, <2>9, <2>10 DEF RdadcsInv
<1> QED BY <1>6, <1>7

-----------------------------------------------------------------------------
(* What comes back                                                         *)

Whole(objects, o) ==
    /\ objects[o].keys # Null
    /\ Needs(objects[o].kind) \union Rules(objects[o].kind) \subseteq objects[o].keys
    /\ objects[o].kind = "cost" => o = Min(Below(objects, Top, "cost"))

(* A document is three objects deep at most.                               *)
LEMMA ThreeDeep ==
  ASSUME NEW objects, IsDocument(objects), NEW o \in DOMAIN objects, objects[o].below # Top
  PROVE  LET b == objects[o].below IN
         /\ b \in DOMAIN objects
         /\ objects[b].below # Top =>
                /\ objects[b].below \in DOMAIN objects
                /\ objects[objects[b].below].below = Top
<1> DEFINE b == objects[o].below  c == objects[b].below
<1>1. b \in DOMAIN objects /\ objects[b].kind = Parent[objects[o].kind]
      /\ objects[o].kind \in DOMAIN Parent
  BY DEF IsDocument
<1>2. SUFFICES ASSUME c # Top PROVE c \in DOMAIN objects /\ objects[c].below = Top
  BY <1>1
<1>3. c \in DOMAIN objects /\ objects[c].kind = Parent[objects[b].kind]
      /\ objects[b].kind \in DOMAIN Parent
  BY <1>1, <1>2 DEF IsDocument
<1>4. objects[c].kind \notin DOMAIN Parent
  BY <1>1, <1>3 DEF Parent
<1> QED BY <1>3, <1>4 DEF IsDocument

LEMMA KeptIs ==
  ASSUME NEW objects, IsDocument(objects)
  PROVE  \E kept :
            /\ \A o \in DOMAIN objects :
                   kept[o] <=> /\ Whole(objects, o)
                               /\ objects[o].below # Top => kept[objects[o].below]
            /\ ComesBack(objects) =
                   [o \in {p \in DOMAIN objects : kept[p]} |->
                       [objects[o] EXCEPT !.keys = @ \intersect Asked(objects[o].kind)]]
<1> DEFINE W(o) == Whole(objects, o)
           up(o) == objects[o].below
           Line(o) == W(o) /\ (up(o) # Top => W(up(o)) /\ (up(up(o)) # Top => W(up(up(o)))))
           f == [o \in DOMAIN objects |-> Line(o)]
           Body(g, o) == /\ objects[o].keys # Null
                         /\ Needs(objects[o].kind) \union Rules(objects[o].kind) \subseteq objects[o].keys
                         /\ objects[o].kind = "cost" => o = Min(Below(objects, Top, "cost"))
                         /\ objects[o].below # Top => g[objects[o].below]
           kept == CHOOSE g : g = [o \in DOMAIN objects |-> Body(g, o)]
<1>1. \A g, o : Body(g, o) <=> W(o) /\ (up(o) # Top => g[up(o)])
  BY DEF Whole
<1>2. ASSUME NEW o \in DOMAIN objects
      PROVE  Line(o) <=> W(o) /\ (up(o) # Top => f[up(o)])
  <2>1. CASE up(o) = Top
    BY <2>1
  <2>2. CASE up(o) # Top
    <3>1. up(o) \in DOMAIN objects /\ (up(up(o)) # Top => up(up(up(o))) = Top)
      BY <2>2, ThreeDeep
    <3>2. f[up(o)] <=> Line(up(o))
      BY <3>1
    <3> HIDE DEF f, W, up
    <3> QED BY <2>2, <3>1, <3>2
  <2> QED BY <2>1, <2>2
<1>3. \A o \in DOMAIN objects : Line(o) = Body(f, o)
  <2> HIDE DEF f
  <2> QED BY <1>1, <1>2
<1>4. f = [o \in DOMAIN objects |-> Body(f, o)]
  <2>1. f = [o \in DOMAIN objects |-> Line(o)]
    OBVIOUS
  <2> HIDE DEF f, Line, Body
  <2> QED BY <1>3, <2>1
<1>5. kept = [o \in DOMAIN objects |-> Body(kept, o)]
  <2> HIDE DEF f, Body
  <2> QED BY <1>4
<1>6. ComesBack(objects) =
         [o \in {p \in DOMAIN objects : kept[p]} |->
             [objects[o] EXCEPT !.keys = @ \intersect Asked(objects[o].kind)]]
  BY DEF ComesBack
<1> HIDE DEF kept
<1>7. \A o \in DOMAIN objects : kept[o] <=> W(o) /\ (up(o) # Top => kept[up(o)])
  <2>1. \A o \in DOMAIN objects : kept[o] = Body(kept, o)
    <3> HIDE DEF Body
    <3> QED BY <1>5
  <2> QED BY <1>1, <2>1
<1> QED BY <1>6, <1>7

(* Every object the export asks for.                                       *)
AskedFor == AskedBefore("costs") \union CostObjects

LEMMA AskedForIs ==
  ASSUME PlanOK, NEW o \in AskedFor
  PROVE  /\ o \in DOMAIN plan
         /\ plan[o].kind = "dmp" \/ plan[o].valid
         /\ plan[o].kind \in Nested \/ Entry(o) # Null
         /\ plan[o].below # Top => plan[o].below \in AskedFor
<1>1. \/ o \in ContactObjects \/ o \in ContributorObjects \/ o \in DatasetObjects
      \/ o \in ProjectObjects \/ o \in CostObjects
  BY DEF AskedFor, AskedBefore
<1>2. CASE o \in ContactObjects
  <2>1. CASE o \in Below(plan, Top, "dmp")
    BY <2>1, TitleIsIn DEF Below, Null
  <2>2. CASE o \in InList(Top, "contact") /\ Entry(o) # Null
    BY <2>2, InListIs
  <2> QED BY <1>2, <2>1, <2>2 DEF ContactObjects
<1>3. CASE o \in ContributorObjects \/ o \in CostObjects
  BY <1>3, FlatListIs, InListIs DEF ContributorObjects, CostObjects
<1>4. CASE o \in DatasetObjects
  <2>1. o \in DOMAIN plan /\ Closed(DatasetObjects) /\ DatasetObjects \subseteq DOMAIN plan
    BY <1>4, DatasetsAreClosed
  <2>2. CASE plan[o].kind \in DOMAIN Parent
    <3>1. plan[o].below \in DatasetObjects /\ o \in UnderOne(plan[o].below)
      BY <1>4, <2>1, <2>2 DEF Closed
    <3>2. o \in InList(plan[o].below, plan[o].kind)
          /\ (plan[o].kind = "distribution" \/ Entry(o) # Null)
      BY <2>1, <3>1, UnderIs
    <3>3. plan[o].below \in AskedFor
      BY <3>1 DEF AskedFor, AskedBefore
    <3> QED BY <2>1, <3>2, <3>3, InListIs DEF Nested
  <2>3. CASE plan[o].kind \notin DOMAIN Parent
    <3>1. plan[o].below = Top
      BY <2>1, <2>3 DEF PlanOK, RowOK
    <3>2. plan[o].kind \in DatasetKinds
      BY <1>4, DatasetsAreClosed
    <3>3. plan[o].kind = "dataset"
      BY <2>3, <3>2 DEF DatasetKinds, Parent
    <3>4. \A datasets : o \in Under(datasets) /\ datasets \subseteq DOMAIN plan => plan[o].kind \in DOMAIN Parent
      BY UnderIs DEF Under
    <3>5. o \in InList(Top, "dataset")
      <4>1. InList(Top, "dataset") \subseteq DOMAIN plan
        BY InListIs
      <4>2. UNION {Distributions(x) : x \in InList(Top, "dataset")} \subseteq DOMAIN plan
        BY InListIs DEF Distributions
      <4> QED BY <1>4, <2>3, <3>4, <4>1, <4>2 DEF DatasetObjects
    <3> QED BY <2>1, <3>1, <3>3, <3>5, InListIs DEF Nested
  <2> QED BY <2>2, <2>3
<1>5. CASE o \in ProjectObjects
  <2>1. o \in DOMAIN plan /\ Closed(ProjectObjects) /\ ProjectObjects \subseteq DOMAIN plan
    BY <1>5, ProjectsAreClosed
  <2>2. CASE plan[o].kind \in DOMAIN Parent
    <3>1. plan[o].below \in ProjectObjects /\ o \in UnderOne(plan[o].below)
      BY <1>5, <2>1, <2>2 DEF Closed
    <3>2. o \in InList(plan[o].below, plan[o].kind)
          /\ (plan[o].kind = "distribution" \/ Entry(o) # Null)
      BY <2>1, <3>1, UnderIs
    <3>3. plan[o].below \in AskedFor
      BY <3>1 DEF AskedFor, AskedBefore
    <3> QED BY <2>1, <3>2, <3>3, InListIs DEF Nested
  <2>3. CASE plan[o].kind \notin DOMAIN Parent
    <3>1. plan[o].below = Top
      BY <2>1, <2>3 DEF PlanOK, RowOK
    <3>2. \A projects : o \in Under(projects) /\ projects \subseteq DOMAIN plan => plan[o].kind \in DOMAIN Parent
      BY UnderIs DEF Under
    <3>3. o \in InList(Top, "project")
      <4>1. InList(Top, "project") \subseteq DOMAIN plan
        BY InListIs
      <4> QED BY <1>5, <2>3, <3>2, <4>1 DEF ProjectObjects
    <3> QED BY <2>1, <3>1, <3>3, InListIs DEF Nested
  <2> QED BY <2>2, <2>3
<1> QED BY <1>1, <1>2, <1>3, <1>4, <1>5

(* The entry of an object, while nobody overtakes the export.              *)
LEMMA EntryIs ==
  ASSUME LinksOK, NEW o \in DOMAIN plan, plan[o].valid
  PROVE  LET read == Fallback(plan[o].kind) \union plan[o].keys
         IN  Entry(o) = IF Rules(plan[o].kind) \subseteq read
                        THEN read \intersect Asked(plan[o].kind) ELSE Null
<1>1. o \in DOMAIN export.links /\ export.links[o] = plan[o].keys
  BY DEF LinksOK
<1> QED BY <1>1 DEF Entry

LEMMA NeedsCover ==
  ASSUME NEW kind
  PROVE  /\ Fallback(kind) \subseteq Needs(kind)
         /\ kind \in Nested \union {"dmp"} => Rules(kind) \subseteq Needs(kind)
         /\ Asked(kind) \subseteq BothKeys
BY DEF Fallback, Needs, Rules, Asked, Nested, BothKeys

(* An object that has all it needs has an entry, with all its keys.        *)
LEMMA EntryOfComplete ==
  ASSUME PlanOK, LinksOK, NEW o \in DOMAIN plan, plan[o].valid, plan[o].first # "no"
  PROVE  /\ Needs(plan[o].kind) \subseteq plan[o].keys
         /\ plan[o].kind \in Nested \union {"dmp"} => Entry(o) # Null
         /\ Entry(o) # Null => /\ Rules(plan[o].kind) \subseteq plan[o].keys
                               /\ Entry(o) = plan[o].keys \intersect Asked(plan[o].kind)
         /\ Rules(plan[o].kind) \subseteq plan[o].keys => Entry(o) # Null
<1> DEFINE kind == plan[o].kind  keys == plan[o].keys
<1>1. Needs(kind) \subseteq keys /\ keys \in SUBSET BothKeys
  BY DEF PlanOK, RowOK, Valid
<1>2. /\ Fallback(kind) \subseteq Needs(kind)
      /\ kind \in Nested \union {"dmp"} => Rules(kind) \subseteq Needs(kind)
      /\ Asked(kind) \subseteq BothKeys
  BY NeedsCover
<1>3. Entry(o) = IF Rules(kind) \subseteq Fallback(kind) \union keys
                 THEN (Fallback(kind) \union keys) \intersect Asked(kind) ELSE Null
  BY EntryIs
<1> HIDE DEF kind, keys
<1>4. Fallback(kind) \union keys = keys
  BY <1>1, <1>2
<1>5. Entry(o) = IF Rules(kind) \subseteq keys THEN keys \intersect Asked(kind) ELSE Null
  BY <1>3, <1>4
<1>6. keys \intersect Asked(kind) # Null
  BY <1>1, KeysAreNotNull
<1>7. /\ kind \in Nested \union {"dmp"} => Entry(o) # Null
      /\ Entry(o) # Null => Rules(kind) \subseteq keys /\ Entry(o) = keys \intersect Asked(kind)
      /\ Rules(kind) \subseteq keys => Entry(o) # Null
  BY <1>1, <1>2, <1>5, <1>6
<1> QED BY <1>1, <1>7 DEF kind, keys

(* Without an entry is only what the user said there is none of.           *)
LEMMA NoneIsDeclined ==
  ASSUME PlanOK, LinksOK, NEW o \in AskedFor, Entry(o) = Null
  PROVE  plan[o].first = "no"
<1>1. o \in DOMAIN plan /\ (plan[o].kind = "dmp" \/ plan[o].valid) /\ plan[o].kind \in Nested
  BY AskedForIs
<1>2. plan[o].valid
  BY <1>1 DEF Nested
<1> QED BY <1>1, <1>2, EntryOfComplete

-----------------------------------------------------------------------------
(* The plan is still the document it was made from.                        *)
Faithful == PlanOK /\ LinksOK /\ AsImported /\ IsDocument(source.objects)

Known == FromElsewhere(source.objects)

LEMMA KnownIs ==
  ASSUME IsDocument(source.objects)
  PROVE  /\ DOMAIN Known = DOMAIN source.objects \ MadeUp
         /\ \A o \in DOMAIN Known : Known[o] = source.objects[o]
         /\ IsDocument(Known)
         /\ Below(Known, Top, "cost") = Below(source.objects, Top, "cost")
         /\ Below(Known, Top, "cost") \subseteq Nat
<1> DEFINE all == source.objects
<1>1. DOMAIN Known = DOMAIN all \ MadeUp /\ \A o \in DOMAIN Known : Known[o] = all[o]
  BY DEF Known, FromElsewhere
<1> HIDE DEF all
<1>2. IsDocument(all)
  BY DEF all
<1>3. IsFiniteSet(DOMAIN Known)
  <2>1. IsFiniteSet(DOMAIN all)
    BY <1>2 DEF IsDocument
  <2> QED BY <1>1, <2>1, FS_Subset
<1>4. ASSUME NEW o \in DOMAIN Known, Known[o].kind \in DOMAIN Parent
      PROVE  /\ Known[o].below \in DOMAIN Known
             /\ Known[Known[o].below].kind = Parent[Known[o].kind]
             /\ Known[Known[o].below].keys # Null
  <2> DEFINE b == all[o].below
  <2>1. b \in DOMAIN all /\ all[b].kind = Parent[all[o].kind] /\ all[b].keys # Null
    BY <1>1, <1>2, <1>4 DEF IsDocument
  <2>2. all[b].kind \notin DOMAIN Owner
    BY <1>1, <1>2, <1>4, <2>1, PartsAre DEF IsDocument
  <2>3. b \notin MadeUp
    BY <1>2, <2>1, <2>2, PartsAre DEF IsDocument
  <2> QED BY <1>1, <2>1, <2>3
<1>5. \A o \in DOMAIN Known : Known[o].kind \notin DOMAIN Parent => Known[o].below = Top
  BY <1>1, <1>2 DEF IsDocument
<1>6. \A o \in DOMAIN Known :
         /\ o \in Nat \ {Top} \/ (o \in MadeUp /\ Known[o].kind \in DOMAIN Owner)
         /\ Known[o] \in [kind : Kind, below : Int, keys : (SUBSET BothKeys) \union {Null}]
         /\ Known[o].kind = "dmp" => "main" \in Known[o].keys
  BY <1>1, <1>2 DEF IsDocument
<1>7. \A o, p \in DOMAIN Known :
         Known[o].kind = "host" /\ Known[p].kind = "host" /\ Known[o].below = Known[p].below => o = p
  BY <1>1, <1>2 DEF IsDocument
<1>8. IsDocument(Known)
  BY <1>3, <1>4, <1>5, <1>6, <1>7 DEF IsDocument
<1>9. Below(all, Top, "cost") \subseteq DOMAIN all \intersect Nat
  BY <1>2, PartsAre DEF IsDocument, Below
<1>10. Below(Known, Top, "cost") = Below(all, Top, "cost")
  BY <1>1, <1>9, PartsAre DEF Below
<1> QED BY <1>1, <1>8, <1>9, <1>10 DEF all

LEMMA FirstIsLeast ==
  ASSUME IsDocument(source.objects), NEW o \in Below(Known, Top, "cost")
  PROVE  FirstCost(o) <=> o = Min(Below(Known, Top, "cost"))
<1> DEFINE C == Below(Known, Top, "cost")
<1>2. C \subseteq Nat
  BY KnownIs
<1>3. o \in C
  OBVIOUS
<1> HIDE DEF C
<1>4. ASSUME \A p \in C : ~(p < o) PROVE o = Min(C)
  <2>1. \A p \in C : o <= p
    BY <1>2, <1>3, <1>4
  <2>2. \A x \in C : (\A p \in C : x <= p) => x = o
    BY <1>2, <1>3, <2>1
  <2> QED BY <1>3, <2>1, <2>2 DEF Min
<1>5. ASSUME o = Min(C) PROVE \A p \in C : ~(p < o)
  <2>1. PICK x \in C : \A p \in C : ~(p < x)
    <3> DEFINE Less == {pair \in Nat \X Nat : pair[1] < pair[2]}
    <3>1. IsWellFoundedOn(Less, Nat)
      BY NatLessThanWellFounded DEF OpToRel
    <3> HIDE DEF Less
    <3>2. PICK x \in C : \A y \in C : <<y, x>> \notin Less
      BY <1>2, <1>3, <3>1, WFMin
    <3> QED BY <1>2, <3>2 DEF Less
  <2>2. \A p \in C : x <= p
    BY <1>2, <2>1
  <2>3. \A p \in C : o <= p
    BY <1>5, <2>2 DEF Min
  <2> QED BY <1>2, <1>3, <2>3
<1>6. FirstCost(o) <=> (\A p \in C : ~(p < o))
  BY KnownIs DEF FirstCost, C
<1> QED BY <1>4, <1>5, <1>6 DEF C

(* There is one host at most, so a list has everything complete.           *)
LEMMA FlatListHas ==
  ASSUME Faithful, NEW id, NEW kind, NEW o \in InList(id, kind), Entry(o) # Null
  PROVE  o \in FlatList(id, kind)
<1> DEFINE complete == {p \in InList(id, kind) : Entry(p) # Null}
<1>1. o \in complete
  OBVIOUS
<1>2. FlatList(id, kind) = IF kind = "host" /\ complete # {} THEN {Min(complete)} ELSE complete
  BY DEF FlatList
<1>3. CASE kind = "host"
  <2>1. \A p \in complete : /\ p \in DOMAIN plan /\ plan[p].below = id /\ plan[p].kind = "host"
    BY <1>3, InListIs
  <2>2. \A p \in complete : p \in DOMAIN source.objects /\ source.objects[p].below = id
                            /\ source.objects[p].kind = "host"
    BY <2>1 DEF Faithful, AsImported
  <2>3. \A p \in complete : p = o
    BY <1>1, <2>2 DEF Faithful, IsDocument
  <2>4. complete \subseteq Nat
    BY <2>1, PartsAre DEF Faithful, PlanOK, RowOK
  <2> HIDE DEF complete
  <2>5. Min(complete) \in complete
    BY <1>1, <2>4, LeastInSet
  <2> QED BY <1>1, <1>2, <2>3, <2>5
<1>4. CASE kind # "host"
  BY <1>1, <1>2, <1>4
<1> QED BY <1>3, <1>4

(* What the export asks for, with its parents, comes back.                 *)
LEMMA AskedIsWhole ==
  ASSUME Faithful, NEW o \in AskedFor, o \notin MadeUp
  PROVE  /\ o \in DOMAIN Known /\ Whole(Known, o)
         /\ Known[o].kind = plan[o].kind /\ Known[o].below = plan[o].below
         /\ Entry(o) = Known[o].keys \intersect Asked(Known[o].kind)
         /\ Known[o].below # Top => Known[o].below \in AskedFor \ MadeUp
<1>1. PlanOK /\ LinksOK /\ AsImported /\ IsDocument(source.objects)
  BY DEF Faithful
<1>2. /\ o \in DOMAIN plan /\ (plan[o].kind = "dmp" \/ plan[o].valid)
      /\ plan[o].kind \in Nested \/ Entry(o) # Null
      /\ plan[o].below # Top => plan[o].below \in AskedFor
  BY <1>1, AskedForIs
<1>3. /\ o \in DOMAIN source.objects
      /\ plan[o].kind = source.objects[o].kind
      /\ plan[o].below = source.objects[o].below
      /\ plan[o].keys = source.objects[o].keys
      /\ plan[o].first # "no"
      /\ plan[o].kind = "cost" => FirstCost(o)
  BY <1>1, <1>2 DEF AsImported
<1>4. o \in DOMAIN Known /\ Known[o] = source.objects[o] /\ IsDocument(Known)
  BY <1>1, <1>3, KnownIs
<1>5. plan[o].valid
  <2>1. CASE plan[o].kind = "dmp"
    <3>1. "main" \in plan[o].keys
      BY <1>1, <1>3, <2>1 DEF IsDocument
    <3>2. Valid(plan[o])
      BY <2>1, <3>1 DEF Valid, Obligatory, Needs
    <3> QED BY <1>1, <1>2, <3>2 DEF PlanOK, RowOK
  <2> QED BY <1>2, <2>1
<1>6. /\ Needs(plan[o].kind) \subseteq plan[o].keys
      /\ Rules(plan[o].kind) \subseteq plan[o].keys
      /\ Entry(o) = plan[o].keys \intersect Asked(plan[o].kind)
  BY <1>1, <1>2, <1>3, <1>5, EntryOfComplete
<1>7. Known[o].keys # Null
  BY <1>1, <1>2, <1>3, <1>4, KeysAreNotNull DEF PlanOK, RowOK
<1>8. Known[o].kind = "cost" => o = Min(Below(Known, Top, "cost"))
  <2>1. SUFFICES ASSUME Known[o].kind = "cost" PROVE o = Min(Below(Known, Top, "cost"))
    OBVIOUS
  <2>2. FirstCost(o) /\ "cost" \notin DOMAIN Parent
    BY <1>3, <1>4, <2>1 DEF Parent
  <2>3. o \in Below(Known, Top, "cost")
    BY <1>4, <2>1, <2>2 DEF IsDocument, Below
  <2> QED BY <1>1, <2>2, <2>3, FirstIsLeast
<1>9. Whole(Known, o)
  BY <1>3, <1>4, <1>6, <1>7, <1>8 DEF Whole
<1>10. Known[o].below # Top => Known[o].below \in AskedFor \ MadeUp
  <2>1. SUFFICES ASSUME Known[o].below # Top PROVE Known[o].below \in AskedFor \ MadeUp
    OBVIOUS
  <2>2. Known[o].below \in DOMAIN Known
    BY <1>4, <2>1 DEF IsDocument
  <2>3. Known[o].below \notin MadeUp
    BY <1>1, <2>2, KnownIs
  <2> QED BY <1>2, <1>3, <1>4, <2>1, <2>3
<1> QED BY <1>3, <1>4, <1>6, <1>9, <1>10

LEMMA AskedComesBack ==
  ASSUME Faithful, NEW o \in AskedFor, o \notin MadeUp
  PROVE  /\ o \in DOMAIN ComesBack(Known)
         /\ ComesBack(Known)[o] = [kind |-> plan[o].kind, below |-> plan[o].below, keys |-> Entry(o)]
<1>1. IsDocument(Known)
  BY KnownIs DEF Faithful
<1>2. PICK kept :
         /\ \A x \in DOMAIN Known : kept[x] <=> /\ Whole(Known, x)
                                                /\ Known[x].below # Top => kept[Known[x].below]
         /\ ComesBack(Known) =
                [x \in {p \in DOMAIN Known : kept[p]} |->
                    [Known[x] EXCEPT !.keys = @ \intersect Asked(Known[x].kind)]]
  BY <1>1, KeptIs
<1>3. \A x \in AskedFor \ MadeUp : /\ x \in DOMAIN Known /\ Whole(Known, x)
                                   /\ Known[x].below # Top => Known[x].below \in AskedFor \ MadeUp
  BY AskedIsWhole
<1>4. \A x \in AskedFor \ MadeUp : Known[x].below = Top => kept[x]
  BY <1>2, <1>3
<1>5. \A x \in AskedFor \ MadeUp :
         Known[x].below # Top /\ Known[Known[x].below].below = Top => kept[x]
  BY <1>2, <1>3, <1>4
<1>6. kept[o]
  BY <1>1, <1>2, <1>3, <1>4, <1>5, ThreeDeep
<1> DEFINE known == Known[o]
           keys == Known[o].keys \intersect Asked(Known[o].kind)
<1>7. o \in DOMAIN Known /\ known.kind = plan[o].kind /\ known.below = plan[o].below
      /\ Entry(o) = keys
  BY AskedIsWhole
<1>8. o \in DOMAIN ComesBack(Known) /\ ComesBack(Known)[o] = [known EXCEPT !.keys = keys]
  BY <1>2, <1>6, <1>7
<1>9. known \in [kind : Kind, below : Int, keys : (SUBSET BothKeys) \union {Null}]
  BY <1>1, <1>7 DEF IsDocument
<1> HIDE DEF known, keys
<1>10. [known EXCEPT !.keys = keys] = [kind |-> known.kind, below |-> known.below, keys |-> keys]
  BY <1>9
<1> QED BY <1>7, <1>8, <1>10

(* All that comes back is asked for, once every section is confirmed.      *)
LEMMA ConfirmedIsAsked ==
  ASSUME Faithful, Confirmed, NEW o \in DOMAIN ComesBack(Known)
  PROVE  o \in AskedFor \ MadeUp
<1>1. PlanOK /\ LinksOK /\ AsImported /\ IsDocument(source.objects) /\ IsDocument(Known)
  BY KnownIs DEF Faithful
<1>2. PICK kept :
         /\ \A x \in DOMAIN Known : kept[x] <=> /\ Whole(Known, x)
                                                /\ Known[x].below # Top => kept[Known[x].below]
         /\ ComesBack(Known) =
                [x \in {p \in DOMAIN Known : kept[p]} |->
                    [Known[x] EXCEPT !.keys = @ \intersect Asked(Known[x].kind)]]
  BY <1>1, KeptIs
<1>3. o \in DOMAIN Known /\ kept[o]
  BY <1>2
<1>4. ASSUME NEW x \in DOMAIN Known, kept[x]
      PROVE  /\ x \in InList(Known[x].below, Known[x].kind) /\ Entry(x) # Null
             /\ x \notin MadeUp /\ x \in DOMAIN plan
             /\ Known[x].kind = plan[x].kind /\ Known[x].below = plan[x].below
             /\ Known[x].below # Top => /\ Known[x].below \in DOMAIN Known
                                        /\ kept[Known[x].below]
                                        /\ Known[Known[x].below].kind = Parent[Known[x].kind]
                                        /\ Known[x].kind \in DOMAIN Parent
             /\ Known[x].below = Top => Known[x].kind \notin DOMAIN Parent
  <2>1. Whole(Known, x) /\ (Known[x].below # Top => kept[Known[x].below])
    BY <1>2, <1>4
  <2>2. x \in DOMAIN source.objects /\ x \notin MadeUp /\ Known[x] = source.objects[x]
    BY <1>1, KnownIs
  <2>3. Known[x].kind = "cost" => FirstCost(x)
    <3>1. SUFFICES ASSUME Known[x].kind = "cost" PROVE FirstCost(x)
      OBVIOUS
    <3>2. "cost" \notin DOMAIN Parent
      BY DEF Parent
    <3>3. x \in Below(Known, Top, "cost")
      BY <1>1, <3>1, <3>2 DEF IsDocument, Below
    <3> QED BY <1>1, <2>1, <3>1, <3>3, FirstIsLeast DEF Whole
  <2>4. x \in DOMAIN plan
    BY <1>1, <2>1, <2>2, <2>3 DEF AsImported, Whole
  <2>5. /\ plan[x].kind = Known[x].kind /\ plan[x].below = Known[x].below
        /\ plan[x].keys = Known[x].keys
    BY <1>1, <2>2, <2>4 DEF AsImported
  <2>6. Needs(plan[x].kind) \subseteq plan[x].keys /\ Rules(plan[x].kind) \subseteq plan[x].keys
    BY <2>1, <2>5 DEF Whole
  <2>7. plan[x].valid /\ plan[x].first # "no"
    <3>1. plan[x].kind \in Obligatory \/ plan[x].first = "yes"
      BY <2>4 DEF Confirmed
    <3>2. Valid(plan[x])
      BY <2>6, <3>1 DEF Valid
    <3> QED BY <1>1, <2>4, <3>2 DEF PlanOK, RowOK, AsImported
  <2>8. Entry(x) # Null
    BY <1>1, <2>4, <2>6, <2>7, EntryOfComplete
  <2>9. x \in InList(Known[x].below, Known[x].kind)
    BY <2>4, <2>5, <2>7 DEF InList, Below
  <2>10. /\ Known[x].below # Top => /\ Known[x].below \in DOMAIN Known
                                    /\ Known[Known[x].below].kind = Parent[Known[x].kind]
                                    /\ Known[x].kind \in DOMAIN Parent
         /\ Known[x].below = Top => Known[x].kind \notin DOMAIN Parent
    <3>1. Top \notin DOMAIN Known
      BY <1>1 DEF IsDocument, Top, MadeUp
    <3> QED BY <1>1, <3>1 DEF IsDocument
  <2> QED BY <2>1, <2>2, <2>4, <2>5, <2>8, <2>9, <2>10
<1>5. /\ ContactObjects \subseteq AskedFor /\ ContributorObjects \subseteq AskedFor
      /\ DatasetObjects \subseteq AskedFor /\ ProjectObjects \subseteq AskedFor
      /\ CostObjects \subseteq AskedFor
  BY DEF AskedFor, AskedBefore
<1> DEFINE kind == Known[o].kind  b == Known[o].below
<1>6. o \in InList(b, kind) /\ Entry(o) # Null /\ o \in DOMAIN plan /\ o \notin MadeUp
  BY <1>3, <1>4
<1>7. o \in FlatList(b, kind)
  BY <1>6, FlatListHas
<1>8. CASE b = Top
  <2>1. kind \in {"dmp", "contact", "dataset", "contributor", "cost", "project"}
    <3>1. kind \in Kind /\ kind \notin DOMAIN Parent
      BY <1>1, <1>3, <1>4, <1>8 DEF IsDocument
    <3> QED BY <3>1 DEF Kind, Obligatory, Nested, Parent
  <2>2. CASE kind = "dmp"
    BY <1>5, <1>6, <1>8, <2>2 DEF ContactObjects, InList
  <2>3. CASE kind = "contact"
    BY <1>5, <1>6, <1>8, <2>3 DEF ContactObjects
  <2>4. CASE kind = "dataset"
    BY <1>5, <1>6, <1>8, <2>4 DEF DatasetObjects
  <2>5. CASE kind = "contributor"
    BY <1>5, <1>6, <1>7, <1>8, <2>5 DEF ContributorObjects
  <2>6. CASE kind = "cost"
    BY <1>5, <1>6, <1>7, <1>8, <2>6 DEF CostObjects
  <2>7. CASE kind = "project"
    BY <1>5, <1>6, <1>8, <2>7 DEF ProjectObjects
  <2> QED BY <2>1, <2>2, <2>3, <2>4, <2>5, <2>6, <2>7
<1>9. CASE b # Top
  <2>1. b \in DOMAIN Known /\ kept[b] /\ Known[b].kind = Parent[kind] /\ kind \in DOMAIN Parent
    BY <1>3, <1>4, <1>9
  <2>2. b \in InList(Known[b].below, Known[b].kind) /\ plan[b].kind = Known[b].kind
        /\ (Known[b].below # Top => Known[b].kind \in DOMAIN Parent)
        /\ (Known[b].below = Top => Known[b].kind \notin DOMAIN Parent)
    BY <1>4, <2>1
  <2>3. CASE kind \in {"technical_resource", "distribution"}
    <3>1. Known[b].kind = "dataset" /\ Known[b].below = Top
      BY <2>1, <2>2, <2>3 DEF Parent
    <3>2. o \in UnderOne(b)
      BY <1>6, <1>7, <2>2, <2>3, <3>1 DEF UnderOne, Distributions
    <3> QED BY <1>5, <1>6, <2>2, <3>1, <3>2 DEF DatasetObjects, Under
  <2>4. CASE kind \in {"host", "license"}
    <3> DEFINE c == Known[b].below
    <3>1. Known[b].kind = "distribution" /\ c # Top
      BY <2>1, <2>2, <2>4 DEF Parent
    <3>2. c \in DOMAIN Known /\ kept[c] /\ Known[c].kind = Parent[Known[b].kind]
      BY <1>4, <2>1, <3>1
    <3>3. Known[c].kind = "dataset"
      BY <3>1, <3>2 DEF Parent
    <3>4. c \in InList(Known[c].below, Known[c].kind)
          /\ (Known[c].below # Top => Known[c].kind \in DOMAIN Parent)
      BY <1>4, <3>2
    <3>5. c \in InList(Top, "dataset")
      BY <3>3, <3>4 DEF Parent
    <3>6. b \in Distributions(c)
      BY <2>2, <3>1 DEF Distributions
    <3>7. o \in UnderOne(b)
      BY <1>6, <1>7, <2>2, <2>4, <3>1 DEF UnderOne
    <3>8. o \in Under(UNION {Distributions(x) : x \in InList(Top, "dataset")})
      BY <3>5, <3>6, <3>7 DEF Under
    <3> QED BY <1>5, <1>6, <3>8 DEF DatasetObjects
  <2>5. CASE kind = "funding"
    <3>1. Known[b].kind = "project" /\ Known[b].below = Top
      BY <2>1, <2>2, <2>5 DEF Parent
    <3>2. o \in UnderOne(b)
      BY <1>6, <1>7, <2>2, <2>5, <3>1 DEF UnderOne
    <3> QED BY <1>5, <1>6, <2>2, <3>1, <3>2 DEF ProjectObjects, Under
  <2> QED BY <2>1, <2>3, <2>4, <2>5 DEF Parent
<1> QED BY <1>8, <1>9

LEMMA CostStep ==
  ASSUME RdadcsInv, GetCostList
  PROVE  RdadcsInv'
<1>1. /\ PlanOK /\ ExportOK /\ DocumentsOK /\ (untouched => AsImported)
      /\ export.pc = "costs" /\ export' = Idle
      /\ UNCHANGED <<plan, source, untouched>>
  BY DEF RdadcsInv, GetCostList
<1> DEFINE R == Read(CostObjects)
<1>2. /\ exported'.objects = R /\ exported'.overtaken = export.overtaken
      /\ exported'.untouched = export.untouched
  BY DEF GetCostList, CostObjects
<1>3. CostObjects \subseteq DOMAIN plan /\ \A o \in CostObjects : plan[o].kind = "cost"
  BY <1>1, FlatListIs, InListIs DEF CostObjects
<1>4. Closed(CostObjects) /\ ~Fails(CostObjects)
  BY <1>3, PlainIsClosed
<1>5. IsDocument(R)
  <2> DEFINE kinds == {"cost"}
  <2>1. kinds \subseteq Kind /\ kinds \intersect KindsBefore(export.pc) = {}
        /\ \A o \in CostObjects : plan[o].kind \in kinds
    BY <1>1, <1>3 DEF KindsBefore, Kind
  <2> HIDE DEF kinds
  <2> QED BY <1>1, <1>3, <1>4, <2>1, ReadIsDocument
<1>6. ExportOK'
  BY <1>1, IdleKeeps
<1>7. PlanOK' /\ (untouched' => AsImported')
  BY <1>1 DEF PlanOK, RowOK, AsImported, FirstCost
<1>8. DocumentsOK'
  BY <1>1, <1>2, <1>5 DEF DocumentsOK
<1>9. ASSUME ~export.overtaken
      PROVE  LET made == FromElsewhere(R)
                 back == ComesBack(FromElsewhere(source.objects))
             IN  /\ export.untouched =>
                        /\ \A o \in DOMAIN made : o \in DOMAIN back /\ made[o] = back[o]
                        /\ Confirmed => DOMAIN made = DOMAIN back
                 /\ \A o \in DOMAIN made : made[o].keys = Null => plan[o].first = "no"
  <2>1. LinksOK /\ ReadOK /\ (export.untouched => untouched)
    BY <1>1, <1>9 DEF ExportOK
  <2> DEFINE made == FromElsewhere(R)
             back == ComesBack(Known)
  <2>2. /\ DOMAIN R = DOMAIN export.read \union CostObjects
        /\ \A o \in CostObjects : R[o] =
               [kind |-> plan[o].kind, below |-> plan[o].below, keys |-> Entry(o)]
        /\ \A o \in DOMAIN export.read \ CostObjects : R[o] = export.read[o]
    BY ReadParts
  <2>3. DOMAIN made = DOMAIN R \ MadeUp /\ \A o \in DOMAIN made : made[o] = R[o]
    BY DEF FromElsewhere
  <2>4. DOMAIN made = AskedFor \ MadeUp
    BY <1>1, <2>1, <2>2, <2>3 DEF ReadOK, AskedFor
  <2>5. \A o \in DOMAIN made :
           made[o] = [kind |-> plan[o].kind, below |-> plan[o].below, keys |-> Entry(o)]
    BY <1>1, <2>1, <2>2, <2>3 DEF ReadOK
  <2> HIDE DEF made, R
  <2>6. ASSUME NEW o \in DOMAIN made, made[o].keys = Null
        PROVE  plan[o].first = "no"
    <3>1. Entry(o) = Null
      BY <2>5, <2>6
    <3> QED BY <1>1, <2>1, <2>4, <3>1, NoneIsDeclined
  <2>7. ASSUME export.untouched
        PROVE  /\ \A o \in DOMAIN made : o \in DOMAIN back /\ made[o] = back[o]
               /\ Confirmed => DOMAIN made = DOMAIN back
    <3>1. Faithful
      BY <1>1, <2>1, <2>7 DEF Faithful, DocumentsOK
    <3>2. \A o \in DOMAIN made : o \in DOMAIN back /\ made[o] = back[o]
      BY <2>4, <2>5, <3>1, AskedComesBack
    <3>3. Confirmed => DOMAIN made = DOMAIN back
      <4>1. Confirmed => DOMAIN back \subseteq DOMAIN made
        BY <2>4, <3>1, ConfirmedIsAsked
      <4> QED BY <3>2, <4>1
    <3> QED BY <3>2, <3>3
  <2> QED BY <2>6, <2>7 DEF made, Known
<1>10. RoundTrip'
  <2> HIDE DEF R
  <2>1. SUFFICES ASSUME ~exported'.overtaken PROVE RoundTrip'
    BY DEF RoundTrip
  <2>2. ~export.overtaken
    BY <1>2, <2>1
  <2>3. Confirmed' <=> Confirmed
    BY <1>1 DEF Confirmed
  <2> QED BY <1>1, <1>2, <1>9, <2>2, <2>3 DEF RoundTrip
<1> QED BY <1>6, <1>7, <1>8, <1>10 DEF RdadcsInv

LEMMA InitDocuments == RdadcsInit => RdadcsInv
<1> SUFFICES ASSUME RdadcsInit PROVE RdadcsInv
  OBVIOUS
<1>1. DOMAIN plan = {} /\ source = Empty /\ export = Idle /\ exported = Empty /\ untouched = FALSE
  BY DEF RdadcsInit
<1>2. PlanOK
  BY <1>1, FS_EmptySet DEF PlanOK
<1>3. DOMAIN source.objects = {} /\ DOMAIN exported.objects = {}
  BY <1>1 DEF Empty
<1>4. DocumentsOK
  BY <1>3, EmptyIsDocument DEF DocumentsOK
<1>5. /\ DOMAIN export = {"pc", "links", "read", "overtaken", "untouched"}
      /\ export.pc = "idle" /\ DOMAIN export.read = {}
  BY <1>1 DEF Idle
<1>6. IsDocument(export.read)
  BY <1>5, EmptyIsDocument
<1>7. ExportOK
  BY <1>5, <1>6 DEF ExportOK
<1>8. RoundTrip
  BY <1>1 DEF RoundTrip
<1> QED BY <1>1, <1>2, <1>4, <1>7, <1>8 DEF RdadcsInv

LEMMA NextDocuments == RdadcsInv /\ [RdadcsNext]_rdadcsVars => RdadcsInv'
<1> SUFFICES ASSUME RdadcsInv, [RdadcsNext]_rdadcsVars PROVE RdadcsInv'
  OBVIOUS
<1>1. ASSUME NEW d \in Document, ImportRDADCS(d) PROVE RdadcsInv'
  <2>1. IsDocument(d.objects)
    BY DocumentAssumption
  <2> QED BY <1>1, <2>1, ImportStep
<1>2. ASSUME ImportRDADCS(ExportedAgain) PROVE RdadcsInv'
  <2> DEFINE d == ExportedAgain
  <2>1. IsDocument(d.objects)
    BY DEF ExportedAgain, RdadcsInv, DocumentsOK
  <2> HIDE DEF d
  <2> QED BY <1>2, <2>1, ImportStep DEF d
<1>3. ASSUME NEW id \in DOMAIN plan, Confirm(id) \/ Decline(id) \/ Complete(id) \/ AddHost(id)
      PROVE  RdadcsInv'
  BY <1>3, ConfirmStep, DeclineStep, CompleteStep, AddHostStep
<1>4. CASE UNCHANGED rdadcsVars
  <2>1. UNCHANGED <<plan, source, export, exported, untouched>>
    BY <1>4 DEF rdadcsVars
  <2>2. /\ \A o : Entry(o)' = Entry(o)
        /\ AskedBefore(export.pc)' = AskedBefore(export.pc)
        /\ LinksOK' <=> LinksOK
    BY <2>1, SameObjects DEF AskedBefore
  <2>3. ReadOK' <=> ReadOK
    BY <2>1, <2>2 DEF ReadOK
  <2>4. ExportOK'
    BY <2>1, <2>2, <2>3 DEF RdadcsInv, ExportOK
  <2> QED BY <2>1, <2>4, ExportAlone
<1>5. CASE RdadcsNext
  BY <1>1, <1>2, <1>3, <1>5, BeginStep, ContactStep, ContributorStep, DatasetStep, ProjectStep,
     CostStep DEF RdadcsNext
<1> QED BY <1>4, <1>5

(* A plan imported from an RDA DCS document and confirmed, and nothing     *)
(* else, is exported as that document without what is known to get lost    *)
(* (RoundTrip; ImportRDA11 in import_plan.py, GenerateRDA11 in             *)
(* export_plan.py), for any documents and any number of imports, exports   *)
(* and edits, in any order.                                                *)
THEOREM DocumentsComeBack == RdadcsSpec => []RoundTrip
<1>1. RdadcsInv => RoundTrip
  BY DEF RdadcsInv
<1> QED BY <1>1, InitDocuments, NextDocuments, PTL DEF RdadcsSpec

-----------------------------------------------------------------------------
(* TemplateTransfer *)

OnlyDeleted == \A i \in DOMAIN acts : acts[i] = "deleted"

(* What the export has read of a list, or would read now.                  *)
Seen(list) == IF list \in DOMAIN taken THEN taken[list] ELSE Query(list)

(* What is read later refers to what was read earlier.                     *)
Fits(sections, paths, types, questions, branches, choices, mounts) ==
    /\ IsFiniteSet(DOMAIN sections) /\ DOMAIN sections \subseteq Nat \ {NoKey}
    /\ sections \in [DOMAIN sections ->
           [super : DOMAIN sections \union {NoKey}, depth : Nat, place : Nat,
            named : Nat, linked : BOOLEAN]]
    /\ \A s, t \in DOMAIN sections : sections[s].place = sections[t].place => s = t
    /\ \A s \in DOMAIN sections :
           sections[s].named \in DOMAIN questions => questions[sections[s].named].section = s
    /\ \A q \in DOMAIN questions :
           /\ q \in Nat \ {NoKey}
           /\ questions[q].section \in DOMAIN sections
           /\ questions[q].linked => paths # {}
           /\ questions[q].special => TRUE \in types
    /\ paths \in {{}, {"path"}, Unlisted}
    /\ branches \in [DOMAIN branches -> DOMAIN questions \union {NoKey}]
    /\ choices \in [DOMAIN choices -> DOMAIN branches \union {NoKey}]
    /\ DOMAIN branches \union DOMAIN choices \union mounts \subseteq DOMAIN questions

SeenFits ==
    Fits(Seen("sections"), Seen("paths"), Seen("types"), Seen("questions"),
         Seen("branches"), Seen("choices"), Seen("mounts"))

ListNames == {"sections", "paths", "types", "questions", "branches", "choices", "mounts"}

TransferOK ==
    /\ IsTemplate(design)
    /\ \A i \in 1..7 : Lists[i] \in DOMAIN taken <=> i < reading
    /\ SeenFits
    /\ acts = <<>> =>
           /\ fixture = design
           /\ \A l \in ListNames \intersect DOMAIN taken :
                  taken[l] = Query(l) \/ (l = "paths" /\ taken[l] = Unlisted)

ContentsInv ==
    /\ ExportIsWhole
    /\ reading \in 0..8
    /\ arrived = NotArrived \/ reading = 8
    /\ acts \in Seq({"deleted", "added"})
    /\ OnlyDeleted => TransferOK

-----------------------------------------------------------------------------
LEMMA ListsAre ==
  /\ Lists[1] = "sections" /\ Lists[2] = "paths" /\ Lists[3] = "types"
  /\ Lists[4] = "questions" /\ Lists[5] = "branches" /\ Lists[6] = "choices"
  /\ Lists[7] = "mounts"
  /\ \A i \in 1..7 : Lists[i] \in ListNames
  /\ \A i, j \in 1..7 : Lists[i] = Lists[j] => i = j
  /\ \A l \in ListNames : \E i \in 1..7 : l = Lists[i]
<1>1. /\ Lists[1] = "sections" /\ Lists[2] = "paths" /\ Lists[3] = "types"
      /\ Lists[4] = "questions" /\ Lists[5] = "branches" /\ Lists[6] = "choices"
      /\ Lists[7] = "mounts"
  BY DEF Lists
<1>2. \A i \in 1..7 : i = 1 \/ i = 2 \/ i = 3 \/ i = 4 \/ i = 5 \/ i = 6 \/ i = 7
  OBVIOUS
<1> QED BY <1>1, <1>2 DEF ListNames

LEMMA QueriesAre ==
  /\ Query("sections") = design.sections
  /\ Query("questions") = design.questions
  /\ Query("branches") = design.branches
  /\ Query("choices") = design.choices
  /\ Query("mounts") = design.mounts
  /\ Query("types") = {design.questions[q].special : q \in DOMAIN design.questions}
  /\ Query("paths") \in {{}, {"path"}}
  /\ \A q \in DOMAIN design.questions : design.questions[q].linked => Query("paths") # {}
  /\ \A s \in DOMAIN design.sections : design.sections[s].linked => Query("paths") # {}
<1>1. Query("sections") = design.sections
  BY DEF Query
<1>2. Query("questions") = design.questions
  BY DEF Query
<1>3. Query("branches") = design.branches
  BY DEF Query
<1>4. Query("choices") = design.choices
  BY DEF Query
<1>5. Query("mounts") = design.mounts
  BY DEF Query
<1>6. Query("types") = {design.questions[q].special : q \in DOMAIN design.questions}
  BY DEF Query
<1> DEFINE rows == {[linked |-> design.sections[s].linked] : s \in DOMAIN design.sections}
                       \union {[linked |-> design.questions[q].linked] : q \in DOMAIN design.questions}
<1>7. Query("paths") = IF \E row \in rows : row.linked THEN {"path"} ELSE {}
  BY DEF Query
<1>8. \A q \in DOMAIN design.questions : design.questions[q].linked => Query("paths") # {}
  <2> SUFFICES ASSUME NEW q \in DOMAIN design.questions, design.questions[q].linked
               PROVE  \E row \in rows : row.linked
    BY <1>7
  <2> WITNESS [linked |-> design.questions[q].linked] \in rows
  <2> QED OBVIOUS
<1>9. \A s \in DOMAIN design.sections : design.sections[s].linked => Query("paths") # {}
  <2> SUFFICES ASSUME NEW s \in DOMAIN design.sections, design.sections[s].linked
               PROVE  \E row \in rows : row.linked
    BY <1>7
  <2> WITNESS [linked |-> design.sections[s].linked] \in rows
  <2> QED OBVIOUS
<1> HIDE DEF rows
<1>10. Query("paths") \in {{}, {"path"}}
  BY <1>7
<1> QED BY <1>1, <1>2, <1>3, <1>4, <1>5, <1>6, <1>8, <1>9, <1>10

LEMMA TemplateFits ==
  ASSUME IsTemplate(design)
  PROVE  Fits(Query("sections"), Query("paths"), Query("types"), Query("questions"),
              Query("branches"), Query("choices"), Query("mounts"))
<1> DEFINE sections == design.sections
           questions == design.questions
           branches == design.branches
           choices == design.choices
           mounts == design.mounts
<1>1. /\ IsFiniteSet(DOMAIN sections) /\ DOMAIN sections \subseteq Nat \ {NoKey}
      /\ DOMAIN questions \subseteq Nat \ {NoKey}
      /\ sections \in [DOMAIN sections ->
             [super : DOMAIN sections \union {NoKey}, depth : Nat, place : Nat,
              named : DOMAIN questions \union {NoKey}, linked : BOOLEAN]]
      /\ questions \in [DOMAIN questions ->
             [section : DOMAIN sections, place : Nat, special : BOOLEAN, linked : BOOLEAN]]
      /\ \A s, t \in DOMAIN sections : sections[s].place = sections[t].place => s = t
      /\ \A s \in DOMAIN sections :
             sections[s].named # NoKey => questions[sections[s].named].section = s
      /\ branches \in [DOMAIN branches -> DOMAIN questions \union {NoKey}]
      /\ choices \in [DOMAIN choices -> DOMAIN branches \union {NoKey}]
      /\ DOMAIN branches \union DOMAIN choices \union mounts \subseteq DOMAIN questions
  BY DEF IsTemplate
<1>2. /\ Query("sections") = sections /\ Query("questions") = questions
      /\ Query("branches") = branches /\ Query("choices") = choices
      /\ Query("mounts") = mounts
      /\ Query("types") = {questions[q].special : q \in DOMAIN questions}
      /\ \A q \in DOMAIN questions : questions[q].linked => Query("paths") # {}
  BY QueriesAre
<1> HIDE DEF sections, questions, branches, choices, mounts
<1>3. sections \in [DOMAIN sections ->
           [super : DOMAIN sections \union {NoKey}, depth : Nat, place : Nat,
            named : Nat, linked : BOOLEAN]]
  BY <1>1 DEF NoKey
<1>4. \A s \in DOMAIN sections :
           sections[s].named \in DOMAIN questions => questions[sections[s].named].section = s
  BY <1>1
<1>5. \A q \in DOMAIN questions :
           /\ q \in Nat \ {NoKey}
           /\ questions[q].section \in DOMAIN sections
           /\ questions[q].linked => Query("paths") # {}
           /\ questions[q].special => TRUE \in Query("types")
  <2> TAKE q \in DOMAIN questions
  <2>1. /\ questions[q].section \in DOMAIN sections /\ questions[q].special \in BOOLEAN
    BY <1>1
  <2> QED BY <1>1, <1>2, <2>1
<1>6. Query("paths") \in {{}, {"path"}, Unlisted}
  BY QueriesAre
<1> QED BY <1>1, <1>2, <1>3, <1>4, <1>5, <1>6 DEF Fits

(* What deletions do to the lists that are read later.                     *)
Shrunk(d, e) ==
    /\ DOMAIN e.questions \subseteq DOMAIN d.questions
    /\ \A q \in DOMAIN e.questions : e.questions[q] = d.questions[q]
    /\ DOMAIN e.branches \subseteq DOMAIN d.branches
    /\ \A q \in DOMAIN e.branches : e.branches[q] = d.branches[q]
    /\ DOMAIN e.choices \subseteq DOMAIN d.choices
    /\ \A q \in DOMAIN e.choices : e.choices[q] \in {d.choices[q], NoKey}
    /\ e.mounts \subseteq d.mounts

LEMMA WithoutQuestionsIs ==
  ASSUME NEW d, IsTemplate(d), NEW Q
  PROVE  /\ IsTemplate(WithoutQuestions(d, Q)) /\ Shrunk(d, WithoutQuestions(d, Q))
         /\ DOMAIN WithoutQuestions(d, Q).sections = DOMAIN d.sections
         /\ \A s \in DOMAIN d.sections :
                /\ WithoutQuestions(d, Q).sections[s].super = d.sections[s].super
         /\ WithoutQuestions(d, Q).questions = [q \in DOMAIN d.questions \ Q |-> d.questions[q]]
<1> DEFINE sections == d.sections
           questions == d.questions
           gone == {q \in DOMAIN d.branches : q \in Q \/ d.branches[q] \in Q}
           e == WithoutQuestions(d, Q)
           cut == [s \in DOMAIN sections |->
                      IF sections[s].named \in Q THEN [sections[s] EXCEPT !.named = NoKey]
                      ELSE sections[s]]
           kept == DOMAIN questions \ Q
           branches == DOMAIN d.branches \ gone
           choices == DOMAIN d.choices \ Q
<1>1. /\ DOMAIN d = {"locked", "sections", "questions", "branches", "choices", "mounts"}
      /\ IsFiniteSet(DOMAIN sections) /\ DOMAIN sections \subseteq Nat \ {NoKey}
      /\ IsFiniteSet(DOMAIN questions) /\ DOMAIN questions \subseteq Nat \ {NoKey}
      /\ sections \in [DOMAIN sections ->
             [super : DOMAIN sections \union {NoKey}, depth : Nat, place : Nat,
              named : DOMAIN questions \union {NoKey}, linked : BOOLEAN]]
      /\ \A s, t \in DOMAIN sections : sections[s].place = sections[t].place => s = t
      /\ questions \in [DOMAIN questions ->
             [section : DOMAIN sections, place : Nat, special : BOOLEAN, linked : BOOLEAN]]
      /\ \A q, r \in DOMAIN questions :
             questions[q].section = questions[r].section /\ questions[q].place = questions[r].place
             => q = r
      /\ \A s \in DOMAIN sections :
             sections[s].named # NoKey => questions[sections[s].named].section = s
      /\ d.branches \in [DOMAIN d.branches -> DOMAIN questions \union {NoKey}]
      /\ d.choices \in [DOMAIN d.choices -> DOMAIN d.branches \union {NoKey}]
      /\ (DOMAIN d.branches) \union (DOMAIN d.choices) \union d.mounts \subseteq DOMAIN questions
  BY DEF IsTemplate
<1>2. /\ DOMAIN e = {"locked", "sections", "questions", "branches", "choices", "mounts"}
      /\ e.sections = cut
      /\ e.questions = [q \in kept |-> questions[q]]
      /\ e.branches = [q \in branches |-> d.branches[q]]
      /\ e.mounts = d.mounts \ Q
      /\ e.choices = [q \in choices |-> IF d.choices[q] \in gone THEN NoKey ELSE d.choices[q]]
  BY <1>1 DEF WithoutQuestions, Without
<1>3. \A s \in DOMAIN sections :
          /\ cut[s] \in [super : DOMAIN sections \union {NoKey}, depth : Nat, place : Nat,
                         named : kept \union {NoKey}, linked : BOOLEAN]
          /\ cut[s].super = sections[s].super /\ cut[s].place = sections[s].place
          /\ cut[s].named # NoKey => cut[s].named = sections[s].named /\ cut[s].named \in kept
  <2> TAKE s \in DOMAIN sections
  <2> DEFINE row == sections[s]
  <2>1. row \in [super : DOMAIN sections \union {NoKey}, depth : Nat, place : Nat,
                 named : DOMAIN questions \union {NoKey}, linked : BOOLEAN]
    BY <1>1
  <2>2. cut[s] = IF row.named \in Q THEN [row EXCEPT !.named = NoKey] ELSE row
    OBVIOUS
  <2> HIDE DEF row, cut
  <2>3. CASE row.named \in Q
    BY <2>1, <2>2, <2>3 DEF row
  <2>4. CASE row.named \notin Q
    BY <2>1, <2>2, <2>4 DEF row
  <2> QED BY <2>3, <2>4
<1>4. DOMAIN cut = DOMAIN sections
  OBVIOUS
<1> HIDE DEF e, cut, gone, kept, branches, choices, sections, questions
<1>5. /\ DOMAIN e.sections = DOMAIN sections /\ DOMAIN e.questions = kept
      /\ DOMAIN e.branches = branches /\ DOMAIN e.choices = choices
  BY <1>2, <1>4
<1>6. /\ kept \subseteq DOMAIN questions /\ IsFiniteSet(kept)
      /\ branches \subseteq DOMAIN d.branches /\ choices \subseteq DOMAIN d.choices
  <2>1. kept \subseteq DOMAIN questions
    BY DEF kept
  <2>2. IsFiniteSet(kept)
    BY <1>1, <2>1, FS_Subset
  <2> QED BY <2>1, <2>2 DEF branches, choices
<1>7. Shrunk(d, e)
  BY <1>2, <1>5, <1>6 DEF Shrunk, questions
<1>8. e.sections \in [DOMAIN sections ->
          [super : DOMAIN sections \union {NoKey}, depth : Nat, place : Nat,
           named : kept \union {NoKey}, linked : BOOLEAN]]
  BY <1>2, <1>3, <1>4 DEF cut
<1>9. \A s, t \in DOMAIN sections : e.sections[s].place = e.sections[t].place => s = t
  BY <1>1, <1>2, <1>3
<1>10. e.questions \in [kept ->
          [section : DOMAIN sections, place : Nat, special : BOOLEAN, linked : BOOLEAN]]
  BY <1>1, <1>2, <1>6
<1>11. \A q, r \in kept :
          /\ e.questions[q].section = e.questions[r].section
          /\ e.questions[q].place = e.questions[r].place
          => q = r
  BY <1>1, <1>2, <1>6
<1>12. \A s \in DOMAIN sections :
          e.sections[s].named # NoKey => e.questions[e.sections[s].named].section = s
  <2> SUFFICES ASSUME NEW s \in DOMAIN sections, e.sections[s].named # NoKey
               PROVE  e.questions[e.sections[s].named].section = s
    OBVIOUS
  <2>1. e.sections[s].named = sections[s].named /\ sections[s].named \in kept
    BY <1>2, <1>3
  <2>2. e.questions[sections[s].named] = questions[sections[s].named]
    BY <1>2, <2>1
  <2>3. sections[s].named # NoKey
    BY <2>1
  <2> QED BY <1>1, <2>1, <2>2, <2>3
<1>13. e.branches \in [branches -> kept \union {NoKey}]
  <2>1. \A q \in branches : d.branches[q] \in kept \union {NoKey}
    <3> TAKE q \in branches
    <3>1. q \in DOMAIN d.branches /\ q \notin gone
      BY DEF branches
    <3>2. d.branches[q] \notin Q
      BY <3>1 DEF gone
    <3> QED BY <1>1, <3>1, <3>2 DEF kept
  <2> QED BY <1>2, <2>1
<1>14. e.choices \in [choices -> branches \union {NoKey}]
  <2>1. \A q \in choices : d.choices[q] \in (DOMAIN d.branches) \union {NoKey}
    BY <1>1, <1>6
  <2> QED BY <1>2, <2>1 DEF branches
<1>15. branches \union choices \union e.mounts \subseteq kept
  <2>1. branches \subseteq kept
    BY <1>1 DEF branches, gone, kept
  <2>2. choices \subseteq kept
    BY <1>1 DEF choices, kept
  <2>3. e.mounts \subseteq kept
    BY <1>1, <1>2 DEF kept
  <2> QED BY <2>1, <2>2, <2>3
<1>16. IsTemplate(e)
  <2>1. kept \subseteq Nat \ {NoKey}
    BY <1>1, <1>6
  <2> QED
    BY <1>1, <1>2, <1>5, <1>6, <1>8, <1>9, <1>10, <1>11, <1>12, <1>13, <1>14, <1>15, <2>1
    DEF IsTemplate
<1>17. \A s \in DOMAIN d.sections : e.sections[s].super = d.sections[s].super
  BY <1>2, <1>3 DEF sections
<1> QED BY <1>2, <1>5, <1>7, <1>16, <1>17 DEF e, sections, questions, kept

LEMMA BeneathIsClosed ==
  ASSUME NEW sections, NEW s \in DOMAIN sections
  PROVE  /\ Beneath(sections, s) \subseteq DOMAIN sections
         /\ s \in Beneath(sections, s)
         /\ \A t \in DOMAIN sections :
                sections[t].super \in Beneath(sections, s) => t \in Beneath(sections, s)
<1>1. Beneath(sections, s) \subseteq DOMAIN sections /\ s \in Beneath(sections, s)
  BY DEF Beneath
<1>2. ASSUME NEW t \in DOMAIN sections, sections[t].super \in Beneath(sections, s)
      PROVE  t \in Beneath(sections, s)
  <2>1. SUFFICES ASSUME NEW S \in SUBSET DOMAIN sections, s \in S,
                        \A u \in DOMAIN sections : sections[u].super \in S => u \in S
                 PROVE  t \in S
    BY DEF Beneath
  <2>2. sections[t].super \in S
    BY <1>2, <2>1 DEF Beneath
  <2> QED BY <2>1, <2>2
<1> QED BY <1>1, <1>2

LEMMA DeleteQuestionIs ==
  ASSUME IsTemplate(design), NEW q, DeleteQuestion(q)
  PROVE  IsTemplate(design') /\ Shrunk(design, design')
<1>1. design' = WithoutQuestions(design, {q})
  BY DEF DeleteQuestion, Changed
<1> QED BY <1>1, WithoutQuestionsIs

LEMMA DeleteSectionIs ==
  ASSUME IsTemplate(design), NEW s \in DOMAIN design.sections, DeleteSection(s)
  PROVE  IsTemplate(design') /\ Shrunk(design, design')
<1> DEFINE S == Beneath(design.sections, s)
           Q == {q \in DOMAIN design.questions : design.questions[q].section \in S}
           d == WithoutQuestions(design, Q)
           kept == (DOMAIN d.sections) \ S
           e == [d EXCEPT !.sections = Without(@, S)]
<1>1. design' = e
  BY DEF DeleteSection, Changed
<1>2. /\ S \subseteq DOMAIN design.sections
      /\ \A t \in DOMAIN design.sections : design.sections[t].super \in S => t \in S
  BY BeneathIsClosed
<1>3. /\ IsTemplate(d) /\ Shrunk(design, d)
      /\ DOMAIN d.sections = DOMAIN design.sections
      /\ \A t \in DOMAIN design.sections : d.sections[t].super = design.sections[t].super
      /\ d.questions = [q \in (DOMAIN design.questions) \ Q |-> design.questions[q]]
  <2> HIDE DEF Q
  <2> QED BY WithoutQuestionsIs
<1>4. \A q \in DOMAIN d.questions : d.questions[q].section \notin S
  BY <1>3
<1>5. \A t \in kept : d.sections[t].super \notin S
  BY <1>2, <1>3
<1> HIDE DEF d, S, Q
<1>6. /\ DOMAIN d = {"locked", "sections", "questions", "branches", "choices", "mounts"}
      /\ IsFiniteSet(DOMAIN d.sections) /\ DOMAIN d.sections \subseteq Nat \ {NoKey}
      /\ IsFiniteSet(DOMAIN d.questions) /\ DOMAIN d.questions \subseteq Nat \ {NoKey}
      /\ d.sections \in [DOMAIN d.sections ->
             [super : DOMAIN d.sections \union {NoKey}, depth : Nat, place : Nat,
              named : DOMAIN d.questions \union {NoKey}, linked : BOOLEAN]]
      /\ \A x, t \in DOMAIN d.sections : d.sections[x].place = d.sections[t].place => x = t
      /\ d.questions \in [DOMAIN d.questions ->
             [section : DOMAIN d.sections, place : Nat, special : BOOLEAN, linked : BOOLEAN]]
      /\ \A q, r \in DOMAIN d.questions :
             /\ d.questions[q].section = d.questions[r].section
             /\ d.questions[q].place = d.questions[r].place
             => q = r
      /\ \A x \in DOMAIN d.sections :
             d.sections[x].named # NoKey => d.questions[d.sections[x].named].section = x
      /\ d.branches \in [DOMAIN d.branches -> DOMAIN d.questions \union {NoKey}]
      /\ d.choices \in [DOMAIN d.choices -> DOMAIN d.branches \union {NoKey}]
      /\ (DOMAIN d.branches) \union (DOMAIN d.choices) \union d.mounts \subseteq DOMAIN d.questions
  BY <1>3 DEF IsTemplate
<1>7. /\ e.sections = [t \in kept |-> d.sections[t]]
      /\ e.questions = d.questions /\ e.branches = d.branches
      /\ e.choices = d.choices /\ e.mounts = d.mounts
      /\ DOMAIN e = DOMAIN d
  BY <1>6 DEF Without
<1> HIDE DEF e
<1>8. kept \subseteq DOMAIN d.sections /\ IsFiniteSet(kept) /\ DOMAIN e.sections = kept
  BY <1>6, <1>7, FS_Subset
<1>9. e.sections \in [kept ->
          [super : kept \union {NoKey}, depth : Nat, place : Nat,
           named : DOMAIN d.questions \union {NoKey}, linked : BOOLEAN]]
  <2>1. ASSUME NEW t \in kept
        PROVE  d.sections[t] \in [super : kept \union {NoKey}, depth : Nat, place : Nat,
                   named : DOMAIN d.questions \union {NoKey}, linked : BOOLEAN]
    <3> DEFINE row == d.sections[t]
    <3>1. row \in [super : DOMAIN d.sections \union {NoKey}, depth : Nat, place : Nat,
              named : DOMAIN d.questions \union {NoKey}, linked : BOOLEAN]
      BY <1>6, <1>8
    <3>2. row.super \notin S
      BY <1>5
    <3> HIDE DEF row
    <3>3. row.super \in kept \union {NoKey}
      BY <3>1, <3>2
    <3>4. row \in [super : kept \union {NoKey}, depth : Nat, place : Nat,
                   named : DOMAIN d.questions \union {NoKey}, linked : BOOLEAN]
      BY <3>1, <3>3
    <3> QED BY <3>4 DEF row
  <2> HIDE DEF kept
  <2> QED BY <1>7, <2>1
<1>10. e.questions \in [DOMAIN d.questions ->
          [section : kept, place : Nat, special : BOOLEAN, linked : BOOLEAN]]
  <2>1. ASSUME NEW q \in DOMAIN d.questions
        PROVE  d.questions[q] \in
                   [section : kept, place : Nat, special : BOOLEAN, linked : BOOLEAN]
    <3> DEFINE row == d.questions[q]
    <3>1. row \in [section : DOMAIN d.sections, place : Nat, special : BOOLEAN, linked : BOOLEAN]
      BY <1>6
    <3>2. row.section \in kept
      BY <1>4, <3>1
    <3> HIDE DEF row, kept
    <3>3. row \in [section : kept, place : Nat, special : BOOLEAN, linked : BOOLEAN]
      BY <3>1, <3>2
    <3> QED BY <3>3 DEF row
  <2> HIDE DEF kept
  <2>2. d.questions = [q \in DOMAIN d.questions |-> d.questions[q]]
    BY <1>6
  <2> QED BY <1>7, <2>1, <2>2
<1> HIDE DEF kept
<1>11. \A x, t \in kept : e.sections[x].place = e.sections[t].place => x = t
  BY <1>6, <1>7, <1>8
<1>12. \A x \in kept : e.sections[x].named # NoKey => d.questions[e.sections[x].named].section = x
  BY <1>6, <1>7, <1>8
<1>13. IsTemplate(e)
  <2>1. kept \subseteq Nat \ {NoKey}
    BY <1>6, <1>8
  <2> QED BY <1>6, <1>7, <1>8, <1>9, <1>10, <1>11, <1>12, <2>1 DEF IsTemplate
<1>14. Shrunk(design, e)
  BY <1>3, <1>7 DEF Shrunk
<1> QED BY <1>1, <1>13, <1>14

LEMMA DeleteBranchIs ==
  ASSUME IsTemplate(design), NEW q \in DOMAIN design.branches, DeleteBranch(q)
  PROVE  IsTemplate(design') /\ Shrunk(design, design')
<1> DEFINE d == design
           e == [design EXCEPT
                    !.branches = Without(@, {q}),
                    !.choices = [c \in DOMAIN @ |-> IF @[c] = q THEN NoKey ELSE @[c]]]
           branches == (DOMAIN d.branches) \ {q}
<1>1. design' = e
  BY DEF DeleteBranch, Changed
<1>2. /\ DOMAIN d = {"locked", "sections", "questions", "branches", "choices", "mounts"}
      /\ d.branches \in [DOMAIN d.branches -> DOMAIN d.questions \union {NoKey}]
      /\ d.choices \in [DOMAIN d.choices -> DOMAIN d.branches \union {NoKey}]
      /\ (DOMAIN d.branches) \union (DOMAIN d.choices) \union d.mounts \subseteq DOMAIN d.questions
  BY DEF IsTemplate
<1>3. /\ e.sections = d.sections /\ e.questions = d.questions /\ e.mounts = d.mounts
      /\ e.branches = [b \in branches |-> d.branches[b]]
      /\ e.choices = [c \in DOMAIN d.choices |-> IF d.choices[c] = q THEN NoKey ELSE d.choices[c]]
      /\ DOMAIN e = DOMAIN d
  BY <1>2 DEF Without
<1> HIDE DEF e
<1>4. /\ DOMAIN e.branches = branches /\ DOMAIN e.choices = DOMAIN d.choices
      /\ branches \subseteq DOMAIN d.branches
  BY <1>3
<1>5. e.branches \in [branches -> DOMAIN d.questions \union {NoKey}]
  <2>1. \A b \in branches : d.branches[b] \in DOMAIN d.questions \union {NoKey}
    BY <1>2, <1>4
  <2> HIDE DEF branches, d
  <2> QED BY <1>3, <2>1
<1>6. e.choices \in [DOMAIN d.choices -> branches \union {NoKey}]
  <2>1. \A c \in DOMAIN d.choices : d.choices[c] \in DOMAIN d.branches \union {NoKey}
    BY <1>2
  <2> QED BY <1>3, <2>1
<1>7. IsTemplate(e)
  <2> HIDE DEF branches
  <2> QED BY <1>2, <1>3, <1>4, <1>5, <1>6 DEF IsTemplate
<1>8. Shrunk(design, e)
  BY <1>3, <1>4 DEF Shrunk
<1> QED BY <1>1, <1>7, <1>8

LEMMA SeenAre ==
  ASSUME NEW l \in ListNames
  PROVE  /\ l \in DOMAIN taken => Seen(l) = taken[l]
         /\ l \notin DOMAIN taken => Seen(l) = Query(l)
BY DEF Seen

(* Which lists have been read before which.                                *)
LEMMA InTurn ==
  ASSUME reading \in 0..8, \A i \in 1..7 : Lists[i] \in DOMAIN taken <=> i < reading
  PROVE  /\ "paths" \in DOMAIN taken => "sections" \in DOMAIN taken
         /\ "types" \in DOMAIN taken => "paths" \in DOMAIN taken
         /\ "questions" \in DOMAIN taken => "types" \in DOMAIN taken
         /\ "branches" \in DOMAIN taken => "questions" \in DOMAIN taken
         /\ "choices" \in DOMAIN taken => "branches" \in DOMAIN taken
         /\ "mounts" \in DOMAIN taken => "choices" \in DOMAIN taken
         /\ reading = 8 => ListNames \subseteq DOMAIN taken
         /\ reading <= 1 => ListNames \intersect DOMAIN taken = {}
BY ListsAre DEF ListNames

LEMMA ShrunkFits ==
  ASSUME reading \in 0..8, TransferOK, IsTemplate(design'), Shrunk(design, design'),
         UNCHANGED <<taken, reading>>
  PROVE  SeenFits'
<1>1. IsTemplate(design) /\ SeenFits
      /\ (\A i \in 1..7 : Lists[i] \in DOMAIN taken <=> i < reading)
  BY DEF TransferOK
<1> DEFINE sections == Seen("sections")
           questions == Seen("questions")
           branches == Seen("branches")
           choices == Seen("choices")
           mounts == Seen("mounts")
<1> DEFINE R(l) == l \in DOMAIN taken
<1>2. /\ R("paths") => R("sections")
      /\ R("types") => R("paths")
      /\ R("questions") => R("types")
      /\ R("branches") => R("questions")
      /\ R("choices") => R("branches")
      /\ R("mounts") => R("choices")
  BY <1>1, InTurn
<1>3. \A l \in ListNames : Seen(l)' = IF R(l) THEN Seen(l) ELSE Query(l)'
  BY DEF Seen
<1>4. \A l \in ListNames : ~R(l) => Seen(l) = Query(l)
  BY DEF Seen
<1>5. {"sections", "paths", "types", "questions", "branches", "choices", "mounts"} = ListNames
  BY DEF ListNames
<1>6. /\ Query("sections")' = design'.sections
      /\ Query("questions")' = design'.questions
      /\ Query("branches")' = design'.branches
      /\ Query("choices")' = design'.choices
      /\ Query("mounts")' = design'.mounts
      /\ Query("sections") = design.sections
      /\ Query("questions") = design.questions
      /\ Query("branches") = design.branches
      /\ Query("choices") = design.choices
      /\ Query("mounts") = design.mounts
  BY QueriesAre DEF Query
<1>7. Fits(Query("sections"), Query("paths"), Query("types"), Query("questions"),
           Query("branches"), Query("choices"), Query("mounts"))'
  <2>1. IsTemplate(design)'
    BY <1>1
  <2> QED BY <2>1, TemplateFits, PTL
<1>8. Fits(Seen("sections"), Seen("paths"), Seen("types"), Seen("questions"),
           Seen("branches"), Seen("choices"), Seen("mounts"))
  BY <1>1 DEF SeenFits
<1>9. CASE ~R("sections")
  <2>1. \A l \in ListNames : Seen(l)' = Query(l)'
    BY <1>2, <1>3, <1>5, <1>9
  <2>2. /\ Seen("sections")' = Query("sections")' /\ Seen("paths")' = Query("paths")'
        /\ Seen("types")' = Query("types")' /\ Seen("questions")' = Query("questions")'
        /\ Seen("branches")' = Query("branches")' /\ Seen("choices")' = Query("choices")'
        /\ Seen("mounts")' = Query("mounts")'
    BY <1>5, <2>1
  <2> HIDE DEF R
  <2> QED BY <1>7, <2>2 DEF SeenFits
<1>10. CASE R("sections")
  <2> DEFINE S == Seen("sections")
             Q == Seen("questions")
             B == Seen("branches")
             C == Seen("choices")
             M == Seen("mounts")
             P == Seen("paths")
             T == Seen("types")
             Q1 == Seen("questions")'
             B1 == Seen("branches")'
             C1 == Seen("choices")'
             M1 == Seen("mounts")'
             P1 == Seen("paths")'
             T1_ == Seen("types")'
  <2>1. Seen("sections")' = S
    BY <1>3, <1>5, <1>10
  <2>2. /\ R("questions") => Q1 = Q
        /\ R("branches") => B1 = B
        /\ R("choices") => C1 = C
        /\ R("mounts") => M1 = M
        /\ R("paths") => P1 = P
        /\ R("types") => T1_ = T
    BY <1>3, <1>5
  <2>3. /\ DOMAIN Q1 \subseteq DOMAIN Q
        /\ \A q \in DOMAIN Q1 : Q1[q] = Q[q]
    BY <1>3, <1>4, <1>5, <1>6, <2>2 DEF Shrunk
  <2>4. /\ DOMAIN B1 \subseteq DOMAIN B
        /\ \A q \in DOMAIN B1 : B1[q] = B[q]
    BY <1>3, <1>4, <1>5, <1>6, <2>2 DEF Shrunk
  <2>5. /\ DOMAIN C1 \subseteq DOMAIN C
        /\ \A q \in DOMAIN C1 : C1[q] \in {C[q], NoKey}
    BY <1>3, <1>4, <1>5, <1>6, <2>2 DEF Shrunk
  <2>6. M1 \subseteq M
    BY <1>3, <1>4, <1>5, <1>6, <2>2 DEF Shrunk
  <2>7. /\ ~R("questions") => Q1 = Query("questions")'
        /\ ~R("branches") => B1 = Query("branches")'
        /\ ~R("choices") => C1 = Query("choices")'
        /\ ~R("mounts") => M1 = Query("mounts")'
        /\ ~R("paths") => P1 = Query("paths")'
        /\ ~R("types") => T1_ = Query("types")'
    BY <1>3, <1>5
  <2> HIDE DEF R, S, Q, B, C, M, P, T, Q1, B1, C1, M1, P1, T1_
  <2>8. Fits(S, P, T, Q, B, C, M)
    BY <1>8 DEF S, Q, B, C, M, P, T
  <2>9. /\ IsFiniteSet(DOMAIN S) /\ DOMAIN S \subseteq Nat \ {NoKey}
        /\ S \in [DOMAIN S ->
               [super : DOMAIN S \union {NoKey}, depth : Nat, place : Nat,
                named : Nat, linked : BOOLEAN]]
        /\ \A s, t \in DOMAIN S : S[s].place = S[t].place => s = t
    BY <2>8 DEF Fits
  <2>10. \A s \in DOMAIN S : S[s].named \in DOMAIN Q1 => Q1[S[s].named].section = s
    BY <2>3, <2>8 DEF Fits
  <2>11. \A q \in DOMAIN Q1 :
             /\ q \in Nat \ {NoKey}
             /\ Q1[q].section \in DOMAIN S
             /\ Q1[q].linked => P1 # {}
             /\ Q1[q].special => TRUE \in T1_
    <3> TAKE q \in DOMAIN Q1
    <3>1. /\ q \in Nat \ {NoKey} /\ Q1[q].section \in DOMAIN S
          /\ Q1[q].linked => P # {}
          /\ Q1[q].special => TRUE \in T
      BY <2>3, <2>8 DEF Fits
    <3>2. ~R("questions") => /\ Q1[q].linked => Query("paths")' # {}
                             /\ Q1[q].special => TRUE \in Query("types")'
      BY <1>7, <2>7 DEF Fits
    <3>3. Q1[q].linked => P1 # {}
      BY <1>2, <2>2, <2>7, <3>1, <3>2
    <3>4. Q1[q].special => TRUE \in T1_
      BY <1>2, <2>2, <2>7, <3>1, <3>2
    <3> QED BY <3>1, <3>3, <3>4
  <2>12. /\ B1 \in [DOMAIN B1 -> DOMAIN Q1 \union {NoKey}]
         /\ DOMAIN B1 \subseteq DOMAIN Q1
    <3>1. CASE R("questions")
      <4>1. /\ B \in [DOMAIN B -> DOMAIN Q \union {NoKey}]
            /\ DOMAIN B \subseteq DOMAIN Q /\ Q1 = Q
        BY <2>2, <2>8, <3>1 DEF Fits
      <4>2. CASE R("branches")
        BY <2>2, <4>1, <4>2
      <4>3. CASE ~R("branches")
        <5>1. B1 = [q \in DOMAIN B1 |-> B1[q]]
          BY <1>7, <2>7, <4>3 DEF Fits
        <5> QED BY <2>4, <4>1, <5>1
      <4> QED BY <4>2, <4>3
    <3>2. CASE ~R("questions")
      BY <1>2, <1>7, <2>7, <3>2 DEF Fits
    <3> QED BY <3>1, <3>2
  <2>13. /\ C1 \in [DOMAIN C1 -> DOMAIN B1 \union {NoKey}]
         /\ DOMAIN C1 \subseteq DOMAIN Q1
    <3>1. CASE R("branches")
      <4>1. /\ C \in [DOMAIN C -> DOMAIN B \union {NoKey}]
            /\ DOMAIN C \subseteq DOMAIN Q /\ Q1 = Q /\ B1 = B
        BY <1>2, <2>2, <2>8, <3>1 DEF Fits
      <4>2. CASE R("choices")
        BY <2>2, <4>1, <4>2
      <4>3. CASE ~R("choices")
        <5>1. C1 = [q \in DOMAIN C1 |-> C1[q]]
          BY <1>7, <2>7, <4>3 DEF Fits
        <5>2. \A q \in DOMAIN C1 : C1[q] \in DOMAIN B1 \union {NoKey}
          BY <2>5, <4>1
        <5> QED BY <2>5, <4>1, <5>1, <5>2
      <4> QED BY <4>2, <4>3
    <3>2. CASE ~R("branches")
      <4>1. CASE R("questions")
        <5>1. DOMAIN C \subseteq DOMAIN Q /\ Q1 = Q
          BY <2>2, <2>8, <4>1 DEF Fits
        <5>2. C1 \in [DOMAIN C1 -> DOMAIN B1 \union {NoKey}]
          BY <1>2, <1>7, <2>7, <3>2 DEF Fits
        <5> QED BY <2>5, <5>1, <5>2
      <4>2. CASE ~R("questions")
        BY <1>2, <1>7, <2>7, <3>2, <4>2 DEF Fits
      <4> QED BY <4>1, <4>2
    <3> QED BY <3>1, <3>2
  <2>14. M1 \subseteq DOMAIN Q1
    <3>1. CASE R("questions")
      BY <2>2, <2>6, <2>8, <3>1 DEF Fits
    <3>2. CASE ~R("questions")
      BY <1>2, <1>7, <2>7, <3>2 DEF Fits
    <3> QED BY <3>1, <3>2
  <2>15. P1 \in {{}, {"path"}, Unlisted}
    BY <1>7, <2>2, <2>7, <2>8 DEF Fits
  <2>16. Fits(S, P1, T1_, Q1, B1, C1, M1)
    BY <2>9, <2>10, <2>11, <2>12, <2>13, <2>14, <2>15 DEF Fits
  <2> QED BY <2>1, <2>16 DEF SeenFits, S, Q1, B1, C1, M1, P1, T1_
<1> QED BY <1>9, <1>10

LEMMA ReadListStep ==
  ASSUME ContentsInv, ReadList
  PROVE  ContentsInv'
<1>1. /\ reading \in 1..7 /\ reading' = reading + 1
      /\ taken' = With(taken, Lists[reading], Query(Lists[reading]))
      /\ UNCHANGED <<design, fixture, acts, arrived>>
      /\ arrived = NotArrived
  BY DEF ReadList, Begun, ContentsInv
<1>2. OnlyDeleted' <=> OnlyDeleted
  BY <1>1 DEF OnlyDeleted
<1>3. ASSUME OnlyDeleted PROVE TransferOK'
  <2>1. TransferOK
    BY <1>3 DEF ContentsInv
  <2> DEFINE n == Lists[reading]
  <2>2. /\ n \in ListNames /\ n \notin DOMAIN taken
        /\ DOMAIN taken' = (DOMAIN taken) \union {n}
        /\ taken'[n] = Query(n)
        /\ \A l \in DOMAIN taken : taken'[l] = taken[l]
    <3>1. n \in ListNames /\ n \notin DOMAIN taken
      BY <1>1, <2>1, ListsAre DEF TransferOK
    <3> HIDE DEF n
    <3> QED BY <1>1, <3>1 DEF With, n
  <2>3. \A l : Query(l)' = Query(l)
    BY <1>1 DEF Query
  <2>4. \A l : Seen(l)' = Seen(l)
    <3> HIDE DEF n
    <3> QED BY <2>2, <2>3 DEF Seen
  <2>5. SeenFits'
    BY <2>1, <2>4 DEF TransferOK, SeenFits
  <2>6. IsTemplate(design)'
    BY <1>1, <2>1 DEF TransferOK
  <2>7. (\A i \in 1..7 : Lists[i] \in DOMAIN taken <=> i < reading)'
    <3> SUFFICES ASSUME NEW i \in 1..7
                 PROVE  Lists[i] \in DOMAIN taken' <=> i < reading + 1
      BY <1>1
    <3>1. Lists[i] \in DOMAIN taken <=> i < reading
      BY <2>1 DEF TransferOK
    <3>2. Lists[i] = n <=> i = reading
      BY <1>1, ListsAre
    <3> HIDE DEF n
    <3> QED BY <1>1, <2>2, <3>1, <3>2
  <2>8. (acts = <<>> =>
           /\ fixture = design
           /\ \A l \in ListNames \intersect DOMAIN taken :
                  taken[l] = Query(l) \/ (l = "paths" /\ taken[l] = Unlisted))'
    <3> SUFFICES ASSUME acts = <<>>
                 PROVE  /\ fixture = design
                        /\ \A l \in ListNames \intersect DOMAIN taken' :
                               taken'[l] = Query(l) \/ (l = "paths" /\ taken'[l] = Unlisted)
      BY <1>1, <2>3
    <3>1. /\ fixture = design
          /\ \A l \in ListNames \intersect DOMAIN taken :
                  taken[l] = Query(l) \/ (l = "paths" /\ taken[l] = Unlisted)
      BY <2>1 DEF TransferOK
    <3> HIDE DEF n
    <3> QED BY <2>2, <3>1
  <2> QED BY <2>5, <2>6, <2>7, <2>8 DEF TransferOK
<1>4. ExportIsWhole'
  BY <1>1 DEF ExportIsWhole, NotArrived
<1>5. reading' \in 0..8 /\ arrived' = NotArrived /\ acts' \in Seq({"deleted", "added"})
  BY <1>1 DEF ContentsInv
<1> QED BY <1>2, <1>3, <1>4, <1>5 DEF ContentsInv

LEMMA BeginTransferStep ==
  ASSUME ContentsInv, BeginTransfer
  PROVE  ContentsInv'
<1>1. /\ reading = 0 /\ reading' = 1 /\ arrived = NotArrived
      /\ UNCHANGED <<design, fixture, taken, acts, arrived>>
  BY DEF BeginTransfer, ContentsInv
<1>2. OnlyDeleted' <=> OnlyDeleted
  BY <1>1 DEF OnlyDeleted
<1>3. ASSUME OnlyDeleted PROVE TransferOK'
  <2>1. TransferOK
    BY <1>3 DEF ContentsInv
  <2>2. \A l : Seen(l)' = Seen(l) /\ Query(l)' = Query(l)
    BY <1>1 DEF Seen, Query
  <2>3. SeenFits'
    BY <2>1, <2>2 DEF TransferOK, SeenFits
  <2>4. (\A i \in 1..7 : Lists[i] \in DOMAIN taken <=> i < reading)'
    <3>1. \A i \in 1..7 : ~(i < 0) /\ ~(i < 1)
      OBVIOUS
    <3> QED BY <1>1, <2>1, <3>1 DEF TransferOK
  <2> QED BY <1>1, <2>1, <2>2, <2>3, <2>4 DEF TransferOK
<1>4. ExportIsWhole'
  BY <1>1 DEF ExportIsWhole, NotArrived
<1> QED BY <1>1, <1>2, <1>3, <1>4 DEF ContentsInv

LEMMA OldVersionStep ==
  ASSUME ContentsInv, FromOldVersion
  PROVE  ContentsInv'
<1>1. /\ reading = 8 /\ arrived = NotArrived
      /\ taken' = [taken EXCEPT !.paths = Unlisted]
      /\ UNCHANGED <<design, fixture, reading, acts, arrived>>
  BY DEF FromOldVersion
<1>2. OnlyDeleted' <=> OnlyDeleted
  BY <1>1 DEF OnlyDeleted
<1>3. ASSUME OnlyDeleted PROVE TransferOK'
  <2>1. TransferOK
    BY <1>3 DEF ContentsInv
  <2>2. ListNames \subseteq DOMAIN taken
    BY <1>1, <2>1, InTurn DEF TransferOK
  <2>3. /\ DOMAIN taken' = DOMAIN taken
        /\ taken'["paths"] = Unlisted
        /\ \A l \in DOMAIN taken : l # "paths" => taken'[l] = taken[l]
    BY <1>1, <2>2 DEF ListNames
  <2>4. \A l : Query(l)' = Query(l)
    BY <1>1 DEF Query
  <2>5. /\ \A l \in ListNames \ {"paths"} : Seen(l)' = Seen(l)
        /\ Seen("paths")' = Unlisted
    BY <2>2, <2>3 DEF Seen, ListNames
  <2>6. /\ Seen("sections")' = Seen("sections") /\ Seen("types")' = Seen("types")
        /\ Seen("questions")' = Seen("questions") /\ Seen("branches")' = Seen("branches")
        /\ Seen("choices")' = Seen("choices") /\ Seen("mounts")' = Seen("mounts")
    BY <2>5 DEF ListNames
  <2>7. Unlisted # {}
    BY DEF Unlisted
  <2>8. SeenFits'
    <3>1. Fits(Seen("sections"), Unlisted, Seen("types"), Seen("questions"),
               Seen("branches"), Seen("choices"), Seen("mounts"))
      BY <2>1, <2>7 DEF TransferOK, SeenFits, Fits
    <3> QED BY <2>5, <2>6, <3>1 DEF SeenFits
  <2>9. (acts = <<>> =>
           /\ fixture = design
           /\ \A l \in ListNames \intersect DOMAIN taken :
                  taken[l] = Query(l) \/ (l = "paths" /\ taken[l] = Unlisted))'
    BY <1>1, <2>1, <2>3, <2>4 DEF TransferOK
  <2> QED BY <1>1, <2>1, <2>3, <2>8, <2>9 DEF TransferOK
<1>4. ExportIsWhole'
  BY <1>1 DEF ExportIsWhole, NotArrived
<1> QED BY <1>1, <1>2, <1>3, <1>4 DEF ContentsInv

LEMMA ChangedStep ==
  ASSUME ContentsInv, NEW act \in {"deleted", "added"}, NEW new, Changed(act, new),
         act = "deleted" /\ OnlyDeleted => IsTemplate(design') /\ Shrunk(design, design')
  PROVE  ContentsInv'
<1>1. /\ reading \in 1..7 /\ arrived = NotArrived
      /\ acts' = Append(acts, act)
      /\ UNCHANGED <<fixture, taken, reading, arrived>>
  BY DEF Changed, Begun, ContentsInv
<1>2. acts \in Seq({"deleted", "added"})
  BY DEF ContentsInv
<1>3. acts' \in Seq({"deleted", "added"}) /\ acts' # <<>>
  BY <1>1, <1>2
<1>4. OnlyDeleted' => act = "deleted" /\ OnlyDeleted
  <2>1. /\ DOMAIN acts' = 1..(Len(acts) + 1) /\ DOMAIN acts = 1..Len(acts)
        /\ acts'[Len(acts) + 1] = act
        /\ \A i \in 1..Len(acts) : acts'[i] = acts[i]
        /\ Len(acts) \in Nat
    BY <1>1, <1>2
  <2> QED BY <2>1 DEF OnlyDeleted
<1>5. ASSUME OnlyDeleted' PROVE TransferOK'
  <2>1. /\ TransferOK /\ IsTemplate(design') /\ Shrunk(design, design')
    BY <1>4, <1>5 DEF ContentsInv
  <2>2. SeenFits'
    BY <1>1, <2>1, ShrunkFits
  <2> QED BY <1>1, <1>3, <2>1, <2>2 DEF TransferOK
<1>6. ExportIsWhole'
  BY <1>1 DEF ExportIsWhole, NotArrived
<1> QED BY <1>1, <1>3, <1>5, <1>6 DEF ContentsInv

LEMMA AllRead ==
  ASSUME reading = 8, TransferOK
  PROVE  Fits(taken.sections, taken.paths, taken.types, taken.questions,
              taken.branches, taken.choices, taken.mounts)
<1>1. ListNames \subseteq DOMAIN taken /\ SeenFits
  BY InTurn DEF TransferOK
<1>2. /\ Seen("sections") = taken.sections /\ Seen("paths") = taken.paths
      /\ Seen("types") = taken.types /\ Seen("questions") = taken.questions
      /\ Seen("branches") = taken.branches /\ Seen("choices") = taken.choices
      /\ Seen("mounts") = taken.mounts
  BY <1>1 DEF Seen, ListNames
<1> QED BY <1>1, <1>2 DEF SeenFits

(* The sections of a template that designers kept right.                   *)
Sections(sections) ==
    /\ IsFiniteSet(DOMAIN sections) /\ DOMAIN sections \subseteq Nat \ {NoKey}
    /\ sections \in [DOMAIN sections ->
           [super : DOMAIN sections \union {NoKey}, depth : Nat, place : Nat,
            named : Nat, linked : BOOLEAN]]
    /\ \A s, t \in DOMAIN sections : sections[s].place = sections[t].place => s = t

LEMMA RowsAre ==
  ASSUME NEW sections, Sections(sections), NEW s \in DOMAIN sections
  PROVE  /\ sections[s].super \in (DOMAIN sections) \union {NoKey}
         /\ sections[s].super \in Nat /\ sections[s].depth \in Nat /\ sections[s].place \in Nat
         /\ s \in Nat \ {NoKey}
<1>1. sections[s] \in [super : DOMAIN sections \union {NoKey}, depth : Nat, place : Nat,
                       named : Nat, linked : BOOLEAN]
  BY DEF Sections
<1> QED BY <1>1 DEF Sections, NoKey

LEMMA DepthsSort ==
  ASSUME NEW sections, Sections(sections), RightDepths(sections)
  PROVE  /\ Sortable(sections)
         /\ \A s \in DOMAIN sections : IF sections[s].super = NoKey THEN sections[s].depth = 1
                                       ELSE sections[s].depth > 1
<1>1. \A s \in DOMAIN sections : IF sections[s].super = NoKey THEN sections[s].depth = 1
                                 ELSE sections[s].depth > 1
  <2> TAKE s \in DOMAIN sections
  <2>1. sections[s].super = NoKey => sections[s].depth = 1
    BY DEF RightDepths
  <2>2. ASSUME sections[s].super # NoKey PROVE sections[s].depth > 1
    <3> DEFINE u == sections[s].super
    <3>1. u \in DOMAIN sections
      BY <2>2, RowsAre
    <3>2. sections[s].depth = sections[u].depth + 1
      BY <2>2 DEF RightDepths
    <3>3. /\ sections[u].depth \in Nat
          /\ \/ sections[sections[u].super].depth \in Nat
             \/ sections[u].super = NoKey
      BY <3>1, RowsAre
    <3>4. sections[u].depth > 0
      <4> HIDE DEF u
      <4> QED BY <3>1, <3>3 DEF RightDepths
    <3> HIDE DEF u
    <3> QED BY <3>2, <3>3, <3>4
  <2> QED BY <2>1, <2>2
<1>2. Sortable(sections)
  <2> SUFFICES ASSUME NEW s \in DOMAIN sections, NEW t \in AtDepth(sections, s)
               PROVE  (sections[s].super = NoKey) = (sections[t].super = NoKey)
    BY DEF Sortable
  <2>1. t \in DOMAIN sections /\ sections[t].depth = sections[s].depth
    BY DEF AtDepth
  <2> QED BY <1>1, <2>1
<1> QED BY <1>1, <1>2

LEMMA CreatedOneByOne ==
  ASSUME NEW sections, Sections(sections), NEW s \in DOMAIN sections, NEW t \in DOMAIN sections
  PROVE  /\ s # t => CreatedBefore(sections, s, t) \/ CreatedBefore(sections, t, s)
         /\ ~(CreatedBefore(sections, s, t) /\ CreatedBefore(sections, t, s))
         /\ \A u \in DOMAIN sections :
                CreatedBefore(sections, s, t) /\ CreatedBefore(sections, t, u)
                => CreatedBefore(sections, s, u)
<1> DEFINE row(x) == sections[x]
<1>1. \A x \in DOMAIN sections :
          row(x).super \in Nat /\ row(x).depth \in Nat /\ row(x).place \in Nat
  BY RowsAre
<1>2. s # t => row(s).place # row(t).place
  BY DEF Sections
<1>3. \A x, y \in DOMAIN sections : CreatedBefore(sections, x, y) <=>
          \/ row(x).depth < row(y).depth
          \/ row(x).depth = row(y).depth /\ row(x).super < row(y).super
          \/ row(x).depth = row(y).depth /\ row(x).super = row(y).super
                /\ row(x).place < row(y).place
  BY DEF CreatedBefore, SortedBefore
<1> HIDE DEF row
<1>4. s # t => CreatedBefore(sections, s, t) \/ CreatedBefore(sections, t, s)
  BY <1>1, <1>2, <1>3
<1>5. ~(CreatedBefore(sections, s, t) /\ CreatedBefore(sections, t, s))
  BY <1>1, <1>3
<1>6. ASSUME NEW u \in DOMAIN sections,
             CreatedBefore(sections, s, t), CreatedBefore(sections, t, u)
      PROVE  CreatedBefore(sections, s, u)
  BY <1>1, <1>3, <1>6
<1> QED BY <1>4, <1>5, <1>6

LEMMA LastIsThere ==
  ASSUME NEW sections, Sections(sections), NEW K \in SUBSET DOMAIN sections, K # {}
  PROVE  /\ LastCreated(sections, K) \in K
         /\ \A t \in K \ {LastCreated(sections, K)} :
                CreatedBefore(sections, t, LastCreated(sections, K))
<1> DEFINE D == DOMAIN sections
           Topped(L) == \E x \in L : \A y \in L \ {x} : CreatedBefore(sections, y, x)
           Open == {L \in FiniteSubsetsOf(D) : L # {} /\ ~Topped(L)}
<1>1. IsFiniteSet(K)
  BY FS_Subset DEF Sections
<1>2. Topped(K)
  <2>1. SUFFICES ASSUME Open # {} PROVE FALSE
    BY <1>1 DEF FiniteSubsetsOf
  <2>2. IsWellFoundedOn(StrictSubsetOrdering(D), FiniteSubsetsOf(D))
    <3> HIDE DEF D
    <3> QED BY FS_StrictSubsetOrderingWellFounded
  <2>3. Open \subseteq FiniteSubsetsOf(D)
    OBVIOUS
  <2>4. PICK L \in Open : \A M \in Open : <<M, L>> \notin StrictSubsetOrdering(D)
    <3> HIDE DEF Open, D
    <3> QED BY <2>1, <2>2, <2>3, WFMin
  <2>5. L \subseteq D /\ IsFiniteSet(L) /\ L # {} /\ ~Topped(L)
    BY DEF FiniteSubsetsOf
  <2>6. PICK x \in L : TRUE
    BY <2>5
  <2> DEFINE M == L \ {x}
  <2>7. M \subseteq D /\ IsFiniteSet(M)
    BY <2>5, FS_Subset
  <2>8. <<M, L>> \in StrictSubsetOrdering(D)
    BY <2>5, <2>6 DEF StrictSubsetOrdering
  <2>9. M \notin Open
    <3> HIDE DEF M, Open
    <3> QED BY <2>4, <2>8
  <2>10. M = {} \/ Topped(M)
    BY <2>7, <2>9 DEF FiniteSubsetsOf
  <2>11. CASE M = {}
    BY <2>5, <2>6, <2>11
  <2>12. CASE Topped(M)
    <3>1. PICK m \in M : \A y \in M \ {m} : CreatedBefore(sections, y, m)
      BY <2>12
    <3>2. m \in L /\ m \in D /\ x \in D /\ m # x
      BY <2>5, <2>6, <3>1
    <3>3. CASE CreatedBefore(sections, x, m)
      <4>1. \A y \in L \ {m} : CreatedBefore(sections, y, m)
        BY <3>1, <3>3
      <4> QED BY <2>5, <3>2, <4>1
    <3>4. CASE CreatedBefore(sections, m, x)
      <4>1. \A y \in L \ {x} : y \in D /\ (y = m \/ CreatedBefore(sections, y, m))
        BY <2>5, <3>1
      <4>2. \A y \in L \ {x} : CreatedBefore(sections, y, x)
        BY <3>2, <3>4, <4>1, CreatedOneByOne
      <4> QED BY <2>5, <2>6, <4>2
    <3> QED BY <3>2, <3>3, <3>4, CreatedOneByOne
  <2> QED BY <2>10, <2>11, <2>12
<1> QED BY <1>2 DEF LastCreated

(* The last section created has its place.                                 *)
LEMMA OneSuperIsLeft ==
  ASSUME NEW sections, Sections(sections), RightDepths(sections), NEW s \in DOMAIN sections
  PROVE  SuperSections(sections)[s] =
             IF s = LastCreated(sections, DOMAIN sections) THEN sections[s].super ELSE NoKey
<1> DEFINE nested == {t \in DOMAIN sections : sections[t].super # NoKey}
           last == LastCreated(sections, DOMAIN sections)
<1>1. SuperSections(sections)[s] =
          IF s = last
          THEN IF nested = {} THEN NoKey ELSE sections[LastCreated(sections, nested)].super
          ELSE NoKey
  BY DEF SuperSections
<1>2. CASE s # last
  BY <1>1, <1>2
<1>3. CASE s = last /\ nested = {}
  BY <1>1, <1>3
<1>4. CASE s = last /\ nested # {}
  <2> DEFINE other == LastCreated(sections, nested)
  <2>1. /\ other \in nested
        /\ \A t \in nested \ {other} : CreatedBefore(sections, t, other)
    <3>1. nested \in SUBSET DOMAIN sections
      OBVIOUS
    <3> HIDE DEF nested
    <3> QED BY <1>4, <3>1, LastIsThere
  <2>2. \A t \in (DOMAIN sections) \ {last} : CreatedBefore(sections, t, last)
    <3>1. DOMAIN sections # {}
      OBVIOUS
    <3> QED BY <3>1, LastIsThere
  <2> HIDE DEF other, last
  <2>3. other = s
    <3>1. SUFFICES ASSUME other # s PROVE FALSE
      OBVIOUS
    <3>2. other \in DOMAIN sections /\ CreatedBefore(sections, other, s)
      BY <1>4, <2>1, <2>2, <3>1
    <3>3. s \in nested => CreatedBefore(sections, s, other)
      BY <2>1, <3>1
    <3>4. s \notin nested
      BY <3>2, <3>3, CreatedOneByOne
    <3>5. sections[s].depth = 1 /\ sections[other].depth > 1
      BY <2>1, <3>4, DepthsSort
    <3>6. sections[other].depth \in Nat
      BY <3>2, RowsAre
    <3> QED BY <3>2, <3>5, <3>6 DEF CreatedBefore
  <2> QED BY <1>1, <1>4, <2>3 DEF other, last
<1> QED BY <1>2, <1>3, <1>4

LEMMA FailureIs ==
  ASSUME reading = 8, TransferOK, NEW knows, ~Unsupported(knows),
         KeyIsMissing(knows) \/ TypeIsMissing(knows)
  PROVE  \/ taken.paths = Unlisted
         \/ acts # <<>> /\ \E s \in DOMAIN taken.sections : taken.sections[s].linked
<1> DEFINE S == taken.sections
           Q == taken.questions
           P == taken.paths
           T == taken.types
           B == taken.branches
           C == taken.choices
           M == taken.mounts
<1>1. Fits(S, P, T, Q, B, C, M)
  BY AllRead
<1>2. ~(TRUE \in T /\ "type" \notin knows) /\ ~("path" \in P /\ "path" \notin knows)
  BY DEF Unsupported
<1>3. ListNames \subseteq DOMAIN taken
  BY InTurn DEF TransferOK
<1>4. KeyIsMissing(knows) =>
          \/ \E q \in DOMAIN Q : Q[q].section \notin DOMAIN S
          \/ ~((DOMAIN B) \union (DOMAIN C) \union M \subseteq DOMAIN Q)
          \/ LinksUnknownPath(knows)
  BY DEF KeyIsMissing
<1>5. LinksUnknownPath(knows) => /\ "path" \notin knows
                                 /\ \/ \E s \in DOMAIN S : S[s].linked
                                    \/ \E q \in DOMAIN Q : Q[q].linked
  BY DEF LinksUnknownPath
<1>6. TypeIsMissing(knows) => "type" \notin knows /\ \E q \in DOMAIN Q : Q[q].special
  BY DEF TypeIsMissing
<1>7. acts = <<>> => /\ S = Query("sections")
                     /\ P = Query("paths") \/ P = Unlisted
  BY <1>3 DEF TransferOK, ListNames
<1>8. Query("sections") = design.sections /\ Query("paths") \in {{"path"}, {}}
      /\ (\A s \in DOMAIN design.sections : design.sections[s].linked => Query("paths") # {})
  BY QueriesAre DEF Query
<1> HIDE DEF S, Q, P, T, B, C, M
<1>9. /\ \A q \in DOMAIN Q : Q[q].section \in DOMAIN S
      /\ (DOMAIN B) \union (DOMAIN C) \union M \subseteq DOMAIN Q
      /\ \A q \in DOMAIN Q : (Q[q].linked => P # {}) /\ (Q[q].special => TRUE \in T)
  BY <1>1 DEF Fits
<1>10. ~TypeIsMissing(knows)
  BY <1>2, <1>6, <1>9
<1>11. LinksUnknownPath(knows)
  BY <1>4, <1>9, <1>10
<1>12. P \in {{}, {"path"}, Unlisted}
  BY <1>1 DEF Fits
<1>13. CASE \E q \in DOMAIN Q : Q[q].linked
  <2>1. P # {} /\ P # {"path"}
    BY <1>2, <1>5, <1>9, <1>11, <1>13
  <2> QED BY <1>12, <2>1 DEF P
<1>14. CASE \E s \in DOMAIN S : S[s].linked
  <2>1. CASE acts = <<>>
    <3>1. (P # {} /\ P # {"path"}) \/ P = Unlisted
      BY <1>2, <1>5, <1>7, <1>8, <1>11, <1>14, <2>1
    <3> QED BY <1>12, <3>1 DEF P
  <2>2. CASE acts # <<>>
    BY <1>14, <2>2 DEF S
  <2> QED BY <2>1, <2>2
<1> QED BY <1>5, <1>11, <1>13, <1>14

LEMMA KeptRows ==
  ASSUME NEW f, NEW K, f \in [DOMAIN f -> K \union {NoKey}]
  PROVE  OrNone(f, K) = f
BY DEF OrNone

LEMMA ImportedIs ==
  ASSUME reading = 8, TransferOK, RightDepths(taken.sections), DOMAIN taken.questions # {},
         arrived' = Created, UNCHANGED taken
  PROVE  /\ SameContents'
         /\ \A s \in DOMAIN taken.sections :
                arrived'.sections[s].super =
                    IF s = LastCreated(taken.sections, DOMAIN taken.sections)
                    THEN taken.sections[s].super ELSE NoKey
<1> DEFINE S == taken.sections
           Q == taken.questions
           naming == {S[x].named : x \in DOMAIN S}
           NamedBy(s) == {q \in (DOMAIN Q) \intersect naming : Q[q].section = s}
           bare == BareSections
           made == ImportedSections
<1>1. Fits(S, taken.paths, taken.types, Q, taken.branches, taken.choices, taken.mounts)
  BY AllRead
<1>2. Sections(S)
  BY <1>1 DEF Fits, Sections
<1>3. /\ arrived'.questions = Q
      /\ arrived'.mounts = taken.mounts
      /\ arrived'.branches = OrNone(taken.branches, DOMAIN Q)
      /\ arrived'.choices = OrNone(taken.choices, DOMAIN taken.branches)
      /\ arrived'.sections = made
  BY DEF Created
<1>4. arrived'.branches = taken.branches /\ arrived'.choices = taken.choices
  <2> HIDE DEF Q, S
  <2> QED BY <1>1, <1>3, KeptRows DEF Fits
<1>5. ASSUME NEW s \in DOMAIN S
      PROVE  /\ made[s].super = SuperSections(S)[s]
             /\ Flat(made[s]) = [Flat(S[s]) EXCEPT
                    !.named = IF S[s].named \in DOMAIN Q THEN S[s].named ELSE NoKey]
  <2> DEFINE row == S[s]
             name == IF NamedBy(s) = {} THEN NoKey ELSE Max(NamedBy(s))
             super == SuperSections(S)[s]
  <2>1. bare[s] = [row EXCEPT !.super = super, !.named = NoKey, !.linked = FALSE]
    BY DEF BareSections
  <2>2. made[s] = [bare[s] EXCEPT !.named = name, !.linked = row.linked]
    BY DEF ImportedSections
  <2>3. name = IF row.named \in DOMAIN Q THEN row.named ELSE NoKey
    <3>1. \A q \in NamedBy(s) : q = row.named
      <4> TAKE q \in NamedBy(s)
      <4>1. PICK x \in DOMAIN S : q = S[x].named
        OBVIOUS
      <4>2. Q[q].section = x
        BY <1>1, <4>1 DEF Fits
      <4> QED BY <4>1, <4>2
    <3>2. row.named \in DOMAIN Q => row.named \in NamedBy(s) /\ row.named \in Nat
      BY <1>1 DEF Fits
    <3>3. row.named \notin DOMAIN Q => NamedBy(s) = {}
      BY <3>1
    <3>4. row.named \in DOMAIN Q => NamedBy(s) = {row.named}
      BY <3>1, <3>2
    <3> DEFINE n == row.named
    <3> HIDE DEF n
    <3>5. n \in Nat => Max({n}) = n
      BY DEF Max
    <3> QED BY <3>2, <3>3, <3>4, <3>5 DEF n
  <2>4. row \in [super : DOMAIN S \union {NoKey}, depth : Nat, place : Nat,
                 named : Nat, linked : BOOLEAN]
    BY <1>2 DEF Sections
  <2> HIDE DEF row, name, bare, made, super
  <2>5. made[s] = [row EXCEPT !.super = super, !.named = name, !.linked = row.linked]
    BY <2>1, <2>2, <2>4
  <2>6. made[s].super = super /\ Flat(made[s]) = [row EXCEPT !.super = NoKey, !.named = name]
    BY <2>4, <2>5 DEF Flat
  <2>7. Flat(made[s]) = [Flat(row) EXCEPT !.named = name]
    BY <2>4, <2>6 DEF Flat
  <2> QED BY <2>3, <2>6, <2>7 DEF row, super
<1>6. SameContents'
  <2> HIDE DEF made, S, Q
  <2>1. \A s \in DOMAIN S :
            LET named == S[s].named
            IN  Flat(arrived'.sections[s]) = [Flat(S[s]) EXCEPT
                    !.named = IF named \in DOMAIN Q THEN named ELSE NoKey]
    BY <1>3, <1>5
  <2> QED BY <1>3, <1>4, <2>1 DEF SameContents, S, Q, Flat
<1>7. \A s \in DOMAIN S :
          made[s].super = IF s = LastCreated(S, DOMAIN S) THEN S[s].super ELSE NoKey
  BY <1>2, <1>5, OneSuperIsLeft
<1> QED BY <1>3, <1>6, <1>7

LEMMA BareIs ==
  ASSUME reading = 8, TransferOK, RightDepths(taken.sections),
         arrived' = CreatedBare
  PROVE  \A s \in DOMAIN taken.sections :
                arrived'.sections[s].super =
                    IF s = LastCreated(taken.sections, DOMAIN taken.sections)
                    THEN taken.sections[s].super ELSE NoKey
<1> TAKE s \in DOMAIN taken.sections
<1> DEFINE S == taken.sections
           super == SuperSections(S)[s]
<1>1. Fits(S, taken.paths, taken.types, taken.questions, taken.branches, taken.choices, taken.mounts)
  BY AllRead
<1>2. Sections(S)
  BY <1>1 DEF Fits, Sections
<1>3. arrived'.sections[s] = [S[s] EXCEPT !.super = super, !.named = NoKey, !.linked = FALSE]
  BY DEF CreatedBare, BareSections
<1>4. S[s] \in [super : DOMAIN S \union {NoKey}, depth : Nat, place : Nat,
                named : Nat, linked : BOOLEAN]
  BY <1>2 DEF Sections
<1> HIDE DEF super
<1>5. arrived'.sections[s].super = super
  BY <1>3, <1>4
<1> QED BY <1>2, <1>5, OneSuperIsLeft DEF super

LEMMA AddedLater ==
  ASSUME acts \in Seq({"deleted", "added"}), ~OnlyDeleted
  PROVE  (\E i \in DOMAIN acts : acts[i] = "added") /\ acts # <<>>
<1>1. PICK i \in DOMAIN acts : acts[i] # "deleted"
  BY DEF OnlyDeleted
<1>2. acts[i] = "added"
  BY <1>1
<1> QED BY <1>1, <1>2

LEMMA ImportContentsStep ==
  ASSUME ContentsInv, NEW knows, NEW channel, ImportContents(knows, channel)
  PROVE  ContentsInv'
<1>1. /\ reading = 8 /\ UNCHANGED <<design, fixture, taken, reading, acts>>
      /\ arrived' =
           IF Unsupported(knows) THEN [outcome |-> Told(channel, "refused")]
           ELSE IF ~Sortable(taken.sections) THEN [outcome |-> Told(channel, "type error")]
           ELSE IF DOMAIN taken.sections = {} \/ DOMAIN taken.questions = {} THEN CreatedBare
           ELSE IF KeyIsMissing(knows) THEN [outcome |-> Told(channel, "key error")]
           ELSE IF TypeIsMissing(knows) THEN [outcome |-> Told(channel, "clash")]
           ELSE Created
  BY DEF ImportContents
<1>2. OnlyDeleted' <=> OnlyDeleted
  BY <1>1 DEF OnlyDeleted
<1>3. OnlyDeleted => TransferOK'
  <2>1. SUFFICES ASSUME OnlyDeleted PROVE TransferOK'
    OBVIOUS
  <2>2. TransferOK
    BY <2>1 DEF ContentsInv
  <2>3. \A l : Seen(l)' = Seen(l) /\ Query(l)' = Query(l)
    <3>1. UNCHANGED <<design, taken>>
      BY <1>1
    <3>2. \A l : Query(l)' = Query(l)
      BY <3>1 DEF Query
    <3> QED BY <3>1, <3>2 DEF Seen
  <2>4. SeenFits'
    BY <2>2, <2>3 DEF TransferOK, SeenFits
  <2> QED BY <1>1, <2>2, <2>3, <2>4 DEF TransferOK
<1>4. acts \in Seq({"deleted", "added"})
  BY DEF ContentsInv
<1>5. Told(channel, "refused") = "refused" /\ \A e : Told(channel, e) \in {"refused", "failed"}
  BY DEF Told
<1>6. CreatedBare.outcome = "done" /\ Created.outcome = "done"
  BY DEF CreatedBare, Created
<1>7. arrived'.outcome \in {"refused", "failed", "done"}
  <2>1. \A e : [outcome |-> Told(channel, e)].outcome \in {"refused", "failed"}
    BY <1>5
  <2> HIDE DEF Told
  <2> QED BY <1>1, <1>6, <2>1
<1>8. ASSUME RightDepths(taken.sections), OnlyDeleted
      PROVE  /\ arrived'.outcome = "failed" =>
                    \/ taken.paths = Unlisted
                    \/ acts # <<>> /\ \E s \in DOMAIN taken.sections : taken.sections[s].linked
             /\ arrived'.outcome = "done" =>
                    /\ DOMAIN taken.questions # {} => SameContents'
                    /\ \A s \in DOMAIN taken.sections :
                           arrived'.sections[s].super =
                               IF s = LastCreated(taken.sections, DOMAIN taken.sections)
                               THEN taken.sections[s].super ELSE NoKey
  <2>1. TransferOK
    BY <1>8 DEF ContentsInv
  <2>2. Fits(taken.sections, taken.paths, taken.types, taken.questions,
             taken.branches, taken.choices, taken.mounts)
    BY <1>1, <2>1, AllRead
  <2>3. Sortable(taken.sections)
    <3>1. Sections(taken.sections)
      BY <2>2 DEF Fits, Sections
    <3> QED BY <1>8, <3>1, DepthsSort
  <2>4. CASE Unsupported(knows)
    <3>1. arrived'.outcome = "refused"
      BY <1>1, <1>5, <2>4
    <3> QED BY <3>1
  <2>5. CASE ~Unsupported(knows) /\ (DOMAIN taken.sections = {} \/ DOMAIN taken.questions = {})
    <3>1. arrived' = CreatedBare /\ arrived'.outcome = "done"
      BY <1>1, <1>6, <2>3, <2>5
    <3>2. DOMAIN taken.questions = {}
      BY <2>2, <2>5 DEF Fits
    <3> QED BY <1>1, <2>1, <3>1, <3>2, <1>8, BareIs
  <2>6. CASE /\ ~Unsupported(knows) /\ DOMAIN taken.sections # {} /\ DOMAIN taken.questions # {}
             /\ (KeyIsMissing(knows) \/ TypeIsMissing(knows))
    <3>1. \/ taken.paths = Unlisted
          \/ acts # <<>> /\ \E s \in DOMAIN taken.sections : taken.sections[s].linked
      BY <1>1, <2>1, <2>6, FailureIs
    <3>2. \/ arrived' = [outcome |-> Told(channel, "key error")]
          \/ arrived' = [outcome |-> Told(channel, "clash")]
      BY <1>1, <2>3, <2>6
    <3>3. arrived'.outcome # "done"
      <4>1. \A e : Told(channel, e) # "done"
        BY <1>5
      <4>2. arrived'.outcome = Told(channel, "key error") \/ arrived'.outcome = Told(channel, "clash")
        <5> DEFINE key == Told(channel, "key error")
                   clash == Told(channel, "clash")
        <5>1. arrived' = [outcome |-> key] \/ arrived' = [outcome |-> clash]
          BY <3>2
        <5> HIDE DEF key, clash
        <5>2. arrived'.outcome = key \/ arrived'.outcome = clash
          BY <5>1
        <5> QED BY <5>2 DEF key, clash
      <4> QED BY <4>1, <4>2
    <3> QED BY <3>1, <3>3
  <2>7. CASE /\ ~Unsupported(knows) /\ DOMAIN taken.sections # {} /\ DOMAIN taken.questions # {}
             /\ ~KeyIsMissing(knows) /\ ~TypeIsMissing(knows)
    <3>1. arrived' = Created /\ arrived'.outcome = "done"
      BY <1>1, <1>6, <2>3, <2>7
    <3> QED BY <1>1, <1>8, <2>1, <2>7, <3>1, ImportedIs
  <2> QED BY <2>4, <2>5, <2>6, <2>7
<1>9. ExportIsWhole'
  <2>1. SUFFICES ASSUME RightDepths(taken.sections)
                 PROVE  ExportIsWhole'
    BY <1>1 DEF ExportIsWhole, RightDepths
  <2>2. arrived'.outcome # "unconnected" /\ arrived'.outcome # "connected"
    BY <1>7
  <2>3. acts' = acts /\ taken' = taken
    BY <1>1
  <2>4. (\A i \in DOMAIN acts : acts[i] = "deleted") <=> OnlyDeleted
    BY DEF OnlyDeleted
  <2>5. CASE OnlyDeleted
    BY <1>8, <2>1, <2>2, <2>3, <2>4, <2>5 DEF ExportIsWhole
  <2>6. CASE ~OnlyDeleted
    BY <1>4, <2>2, <2>3, <2>4, <2>6, AddedLater DEF ExportIsWhole
  <2> QED BY <2>5, <2>6
<1> QED BY <1>1, <1>2, <1>3, <1>4, <1>9 DEF ContentsInv

(* Sections of one depth have different places in it.                      *)
LEMMA PlacesDiffer ==
  ASSUME NEW sections, Sections(sections), NEW s \in DOMAIN sections, NEW t \in DOMAIN sections,
         sections[s].depth = sections[t].depth,
         PlaceInDepth(sections, s) = PlaceInDepth(sections, t)
  PROVE  s = t
<1> DEFINE Before(x) == {u \in AtDepth(sections, x) : SortedBefore(sections[u], sections[x])}
<1>1. ASSUME NEW x \in DOMAIN sections, NEW y \in DOMAIN sections,
             sections[x].depth = sections[y].depth, SortedBefore(sections[x], sections[y])
      PROVE  Cardinality(Before(x)) < Cardinality(Before(y))
  <2>1. Before(x) \subseteq DOMAIN sections /\ Before(y) \subseteq DOMAIN sections
    BY DEF AtDepth
  <2>2. IsFiniteSet(Before(x)) /\ IsFiniteSet(Before(y))
    <3> HIDE DEF Before
    <3> QED BY <2>1, FS_Subset DEF Sections
  <2>3. x \in Before(y)
    BY <1>1 DEF AtDepth
  <2>4. x \notin Before(x)
    BY RowsAre DEF SortedBefore
  <2>5. \A u \in Before(x) : u \in Before(y)
    <3> TAKE u \in Before(x)
    <3>1. u \in DOMAIN sections /\ sections[u].depth = sections[x].depth
          /\ SortedBefore(sections[u], sections[x])
      BY DEF AtDepth
    <3>2. SortedBefore(sections[u], sections[y])
      <4>1. \A z \in DOMAIN sections : sections[z].super \in Nat /\ sections[z].place \in Nat
        BY RowsAre
      <4> QED BY <1>1, <3>1, <4>1 DEF SortedBefore
    <3> QED BY <1>1, <3>1, <3>2 DEF AtDepth
  <2> HIDE DEF Before
  <2>6. Before(x) \union {x} \subseteq Before(y)
    BY <2>3, <2>5
  <2>7. Cardinality(Before(x) \union {x}) = Cardinality(Before(x)) + 1
    BY <2>2, <2>4, FS_AddElement
  <2>8. Cardinality(Before(x) \union {x}) <= Cardinality(Before(y))
    BY <2>2, <2>6, FS_Subset
  <2>9. Cardinality(Before(x)) \in Nat /\ Cardinality(Before(y)) \in Nat
    BY <2>2, FS_CardinalityType
  <2> QED BY <2>7, <2>8, <2>9
<1>2. /\ PlaceInDepth(sections, s) = Cardinality(Before(s))
      /\ PlaceInDepth(sections, t) = Cardinality(Before(t))
  BY DEF PlaceInDepth
<1>3. Cardinality(Before(s)) \in Nat
  <2>1. Before(s) \subseteq DOMAIN sections
    BY DEF AtDepth
  <2> HIDE DEF Before
  <2> QED BY <2>1, FS_Subset, FS_CardinalityType DEF Sections
<1> HIDE DEF Before
<1>4. s # t => SortedBefore(sections[s], sections[t]) \/ SortedBefore(sections[t], sections[s])
  <2>1. sections[s].place = sections[t].place => s = t
    BY DEF Sections
  <2> QED BY <2>1, RowsAre DEF SortedBefore
<1>5. ~SortedBefore(sections[s], sections[t])
  <2>1. SUFFICES ASSUME SortedBefore(sections[s], sections[t]) PROVE FALSE
    OBVIOUS
  <2>2. Cardinality(Before(s)) < Cardinality(Before(t))
    BY <1>1, <2>1
  <2>3. Cardinality(Before(s)) = Cardinality(Before(t))
    BY <1>2
  <2> DEFINE n == Cardinality(Before(s))
  <2>4. n \in Nat /\ n < n
    BY <1>3, <2>2, <2>3
  <2> HIDE DEF n
  <2> QED BY <2>4
<1>6. ~SortedBefore(sections[t], sections[s])
  <2>1. SUFFICES ASSUME SortedBefore(sections[t], sections[s]) PROVE FALSE
    OBVIOUS
  <2>2. Cardinality(Before(t)) < Cardinality(Before(s))
    BY <1>1, <2>1
  <2>3. Cardinality(Before(t)) = Cardinality(Before(s))
    BY <1>2
  <2> DEFINE n == Cardinality(Before(t))
  <2>4. n \in Nat /\ n < n
    BY <1>3, <2>2, <2>3
  <2> HIDE DEF n
  <2> QED BY <2>4
<1> QED BY <1>4, <1>5, <1>6

LEMMA ConnectedIs ==
  ASSUME ContentsInv, ConnectContents, acts = <<>>, RightDepths(taken.sections)
  PROVE  /\ arrived'.outcome = "connected"
         /\ arrived'.sections = {<<s, s>> : s \in DOMAIN taken.sections}
         /\ arrived'.questions = {<<q, q>> : q \in DOMAIN taken.questions}
<1> DEFINE S == taken.sections
           Q == taken.questions
           B == taken.branches
           known == {q \in DOMAIN Q : Counterparts(q) # {}}
<1>1. TransferOK /\ reading = 8
  <2>1. OnlyDeleted
    BY DEF OnlyDeleted
  <2> QED BY <2>1 DEF ContentsInv, ConnectContents
<1>2. ListNames \subseteq DOMAIN taken
  BY <1>1, InTurn DEF TransferOK
<1>3. /\ fixture.sections = S /\ fixture.questions = Q /\ fixture.branches = B
      /\ IsTemplate(design) /\ design.questions = Q
  BY <1>1, <1>2, QueriesAre DEF TransferOK, ListNames
<1>4. Fits(S, taken.paths, taken.types, Q, B, taken.choices, taken.mounts)
  BY <1>1, AllRead
<1>5. Sections(S)
  BY <1>4 DEF Fits, Sections
<1>6. Sortable(S)
  BY <1>5, DepthsSort
<1>7. PairedSections = {<<s, s>> : s \in DOMAIN S}
  <2> HIDE DEF S
  <2>1. PairedSections =
            {p \in (DOMAIN S) \X (DOMAIN S) :
                /\ S[p[1]].depth = S[p[2]].depth
                /\ PlaceInDepth(S, p[1]) = PlaceInDepth(S, p[2])}
    BY <1>3 DEF PairedSections, S
  <2>2. \A p \in PairedSections : p[1] \in DOMAIN S /\ p = <<p[1], p[1]>>
    <3> TAKE p \in PairedSections
    <3>1. /\ p \in (DOMAIN S) \X (DOMAIN S)
          /\ S[p[1]].depth = S[p[2]].depth
          /\ PlaceInDepth(S, p[1]) = PlaceInDepth(S, p[2])
      BY <2>1
    <3>2. p[1] = p[2]
      BY <1>5, <3>1, PlacesDiffer
    <3> QED BY <3>1, <3>2
  <2>3. \A s \in DOMAIN S : <<s, s>> \in PairedSections
    BY <2>1
  <2> QED BY <2>2, <2>3
<1>8. \A q \in DOMAIN Q : Counterparts(q) = {q}
  <2> TAKE q \in DOMAIN Q
  <2>1. Counterparts(q) = {x \in DOMAIN Q :
            /\ <<Q[q].section, Q[x].section>> \in PairedSections
            /\ Q[x].place = Q[q].place}
    BY <1>3 DEF Counterparts
  <2>2. Q[q].section \in DOMAIN S
    BY <1>4 DEF Fits
  <2>3. \A x \in DOMAIN Q :
            <<Q[q].section, Q[x].section>> \in PairedSections <=> Q[q].section = Q[x].section
    <3> HIDE DEF S, Q
    <3> QED BY <1>7, <2>2
  <2>4. \A x \in DOMAIN Q : Q[x].section = Q[q].section /\ Q[x].place = Q[q].place => x = q
    BY <1>3 DEF IsTemplate
  <2> HIDE DEF S, Q
  <2> QED BY <2>1, <2>3, <2>4
<1>9. \A q \in DOMAIN Q : Here(q) = q
  <2> TAKE q \in DOMAIN Q
  <2>1. q \in Nat
    BY <1>4 DEF Fits
  <2>2. Max({q}) = q
    BY <2>1 DEF Max
  <2> QED BY <1>8, <2>2 DEF Here
<1>10. Here(NoKey) = NoKey
  <2>1. NoKey \notin DOMAIN Q
    BY <1>4 DEF Fits
  <2> QED BY <2>1 DEF Here
<1>11. /\ (DOMAIN B) \union (DOMAIN taken.choices) \subseteq DOMAIN Q
       /\ \A q \in DOMAIN B : B[q] \in (DOMAIN Q) \union {NoKey}
  BY <1>4 DEF Fits
<1>12. known = DOMAIN Q
  BY <1>8
<1>13. \A q \in DOMAIN B : /\ Here(q) \in DOMAIN fixture.branches
                           /\ fixture.branches[Here(q)] = Here(B[q])
  BY <1>3, <1>9, <1>10, <1>11
<1>14. arrived' = [outcome |-> "connected", sections |-> PairedSections,
                   questions |-> {<<Here(q), q>> : q \in known}]
  BY <1>3, <1>6, <1>11, <1>12, <1>13 DEF ConnectContents
<1>15. {<<Here(q), q>> : q \in known} = {<<q, q>> : q \in DOMAIN Q}
  BY <1>9, <1>12
<1> QED BY <1>7, <1>14, <1>15

LEMMA ConnectContentsStep ==
  ASSUME ContentsInv, ConnectContents
  PROVE  ContentsInv'
<1>1. /\ reading = 8 /\ UNCHANGED <<design, fixture, taken, reading, acts>>
      /\ arrived'.outcome \in {"connected", "unconnected"}
  BY DEF ConnectContents
<1>2. OnlyDeleted' <=> OnlyDeleted
  BY <1>1 DEF OnlyDeleted
<1>3. OnlyDeleted => TransferOK'
  <2>1. SUFFICES ASSUME OnlyDeleted PROVE TransferOK'
    OBVIOUS
  <2>2. TransferOK
    BY <2>1 DEF ContentsInv
  <2>3. \A l : Seen(l)' = Seen(l) /\ Query(l)' = Query(l)
    <3>1. UNCHANGED <<design, taken>>
      BY <1>1
    <3>2. \A l : Query(l)' = Query(l)
      BY <3>1 DEF Query
    <3> QED BY <3>1, <3>2 DEF Seen
  <2>4. SeenFits'
    BY <2>2, <2>3 DEF TransferOK, SeenFits
  <2> QED BY <1>1, <2>2, <2>3, <2>4 DEF TransferOK
<1>4. ExportIsWhole'
  <2>1. SUFFICES ASSUME RightDepths(taken.sections) PROVE ExportIsWhole'
    BY <1>1 DEF ExportIsWhole, RightDepths
  <2>2. arrived'.outcome # "failed" /\ arrived'.outcome # "done"
    BY <1>1
  <2>3. acts = <<>> =>
            /\ arrived'.outcome = "connected"
            /\ arrived'.sections = {<<s, s>> : s \in DOMAIN taken.sections}
            /\ arrived'.questions = {<<q, q>> : q \in DOMAIN taken.questions}
    BY <2>1, ConnectedIs
  <2> QED BY <1>1, <2>2, <2>3 DEF ExportIsWhole
<1> QED BY <1>1, <1>2, <1>3, <1>4 DEF ContentsInv

LEMMA InitContents == TransferInit => ContentsInv
<1> SUFFICES ASSUME TransferInit PROVE ContentsInv
  OBVIOUS
<1>1. /\ design \in DesignedTemplates /\ fixture = design /\ taken = <<>>
      /\ reading = 0 /\ acts = <<>> /\ arrived = NotArrived
  BY DEF TransferInit
<1>2. IsTemplate(design)
  BY <1>1, DesignAssumption
<1>3. DOMAIN taken = {}
  BY <1>1
<1>4. \A l : Seen(l) = Query(l)
  BY <1>3 DEF Seen
<1>5. SeenFits
  BY <1>2, <1>4, TemplateFits DEF SeenFits
<1>6. \A i \in 1..7 : ~(i < 0)
  OBVIOUS
<1>7. TransferOK
  BY <1>1, <1>2, <1>3, <1>5, <1>6 DEF TransferOK
<1>8. ExportIsWhole
  BY <1>1 DEF ExportIsWhole, NotArrived
<1>9. acts \in Seq({"deleted", "added"})
  BY <1>1
<1> QED BY <1>1, <1>7, <1>8, <1>9 DEF ContentsInv

LEMMA NextContents == ContentsInv /\ [TransferNext]_transferVars => ContentsInv'
<1> SUFFICES ASSUME ContentsInv, [TransferNext]_transferVars PROVE ContentsInv'
  OBVIOUS
<1>1. ASSUME NEW new, Changed("added", new) PROVE ContentsInv'
  BY <1>1, ChangedStep
<1>2. ASSUME NEW super, AddSection(super) PROVE ContentsInv'
  BY <1>1, <1>2 DEF AddSection
<1>3. ASSUME NEW s, NEW special, NEW linked, AddQuestion(s, special, linked) PROVE ContentsInv'
  BY <1>1, <1>3 DEF AddQuestion
<1>4. ASSUME NEW q, NEW next, AddBranch(q, next) PROVE ContentsInv'
  BY <1>1, <1>4 DEF AddBranch
<1>5. ASSUME NEW q, AddTransition(q) PROVE ContentsInv'
  BY <1>1, <1>5 DEF AddTransition
<1>6. ASSUME NEW q, MountQuestion(q) PROVE ContentsInv'
  BY <1>1, <1>6 DEF MountQuestion
<1>7. OnlyDeleted => IsTemplate(design)
  BY DEF ContentsInv, TransferOK
<1>8. ASSUME NEW q \in DOMAIN design.questions, DeleteQuestion(q) PROVE ContentsInv'
  BY <1>7, <1>8, ChangedStep, DeleteQuestionIs DEF DeleteQuestion
<1>9. ASSUME NEW s \in DOMAIN design.sections, DeleteSection(s) PROVE ContentsInv'
  BY <1>7, <1>9, ChangedStep, DeleteSectionIs DEF DeleteSection
<1>10. ASSUME NEW q \in DOMAIN design.branches, DeleteBranch(q) PROVE ContentsInv'
  BY <1>7, <1>10, ChangedStep, DeleteBranchIs DEF DeleteBranch
<1>11. CASE UNCHANGED transferVars
  <2>1. UNCHANGED <<design, fixture, taken, reading, acts, arrived>>
    BY <1>11 DEF transferVars
  <2>2. \A l : Seen(l)' = Seen(l) /\ Query(l)' = Query(l)
    BY <2>1 DEF Seen, Query
  <2>3. SeenFits' <=> SeenFits
    BY <2>2 DEF SeenFits
  <2>4. TransferOK' <=> TransferOK
    BY <2>1, <2>2, <2>3 DEF TransferOK
  <2>5. OnlyDeleted' <=> OnlyDeleted
    BY <2>1 DEF OnlyDeleted
  <2>6. ExportIsWhole' <=> ExportIsWhole
    BY <2>1 DEF ExportIsWhole, SameContents, RightDepths
  <2> QED BY <2>1, <2>4, <2>5, <2>6 DEF ContentsInv
<1> QED
  BY <1>2, <1>3, <1>4, <1>5, <1>6, <1>8, <1>9, <1>10, <1>11, BeginTransferStep, ReadListStep,
     OldVersionStep, ImportContentsStep, ConnectContentsStep DEF TransferNext

(* A template of any nesting, exported while designers go on in any number *)
(* and imported or connected at another site, arrives whole or is refused  *)
(* as ExportIsWhole says: what is read later refers to what was read       *)
(* earlier (create_template_export_obj, TemplateExportSerializer), so that *)
(* import_serialized_template_export finds a key for each reference, and   *)
(* connect_template_import_to_existing_template connects equal rows.       *)
THEOREM ContentsArrive == TransferSpec => []ExportIsWhole
<1>1. ContentsInv => ExportIsWhole
  BY DEF ContentsInv
<1> QED BY <1>1, InitContents, NextContents, PTL DEF TransferSpec
=============================================================================
