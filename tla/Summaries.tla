------------------------------ MODULE Summaries ------------------------------
(***************************************************************************)
(* Two pages that show a whole plan: its summary (get_nested_summary) and  *)
(* its generated text (get_nested_canned_text). To be fast, both read the  *)
(* sections and the answersets list by list, into maps, and put the page   *)
(* together from the maps. Other requests change answersets and sections   *)
(* between two lists.                                                      *)
(*                                                                         *)
(* A page is the set of answersets it shows; which answers are in them is  *)
(* in CannedTexts. Left out are the order of the page and the head of a    *)
(* section. Identifiers and the validity of answersets are in AnswerSets   *)
(* and Answers; so is the order of the transactions of a repair, which is  *)
(* one step here.                                                          *)
(***************************************************************************)
EXTENDS Integers, FiniteSets, Sequences, FiniteSetsExt

CONSTANTS
    WrittenPlans,  \* sections and answersets to begin with
    View,          \* the pages that may be asked for
    MaxPages,      \* how many are
    MaxRequests    \* how often other requests change something

VARIABLES
    tree,        \* sections of the template: super section and flags
    answersets,  \* answersets of the plan, by primary key
    numbered,    \* the last primary key that an answerset was given
    viewing,     \* the request for a page: what it has read, how it ended
    gaps,        \* sections were added since the answersets were last repaired
    interruptions, \* how often other requests have changed something
    lasting,     \* history: what there was to show and to tell, all the time
    ever         \* history: what there was to show at any time

summaryVars == <<tree, answersets, numbered, viewing, gaps, interruptions, lasting, ever>>

Topmost == 0

(* How deep sections may be: no section is below itself.                   *)
Levels(T) ==
    {level \in [DOMAIN T -> 0..Cardinality(DOMAIN T)] :
        \A s \in DOMAIN T : T[s].super # Topmost => level[T[s].super] < level[s]}

IsTree(T) ==
    /\ IsFiniteSet(DOMAIN T) /\ DOMAIN T \subseteq Nat \ {Topmost}
    /\ T \in [DOMAIN T -> [super : Nat, optional : BOOLEAN, repeatable : BOOLEAN,
                           standIn : BOOLEAN, answeredElsewhere : BOOLEAN]]
    /\ \A s \in DOMAIN T : T[s].super \in (DOMAIN T) \union {Topmost}
    /\ Levels(T) # {}

(* An answerset is below one of its section's super section.               *)
Fits(T, R) ==
    /\ IsFiniteSet(DOMAIN R) /\ DOMAIN R \subseteq Nat \ {Topmost}
    /\ R \in [DOMAIN R -> [section : DOMAIN T, parent : (DOMAIN R) \union {Topmost},
                           skipped : BOOLEAN, filled : BOOLEAN]]
    /\ \A r \in DOMAIN R :
           T[R[r].section].super = IF R[r].parent = Topmost THEN Topmost
                                   ELSE R[R[r].parent].section

RowsAt(R, s, parent) == {r \in DOMAIN R : R[r].section = s /\ R[r].parent = parent}

(* Every section has an answerset below each of its super section.         *)
Gapless(T, R) ==
    \A s \in DOMAIN T :
        IF T[s].super = Topmost THEN RowsAt(R, s, Topmost) # {}
        ELSE \A r \in DOMAIN R : R[r].section = T[s].super => RowsAt(R, s, r) # {}

ASSUME WrittenPlansAssumption ==
    \A plan \in WrittenPlans :
        /\ IsTree(plan.tree)
        /\ Fits(plan.tree, plan.answersets)
        /\ Gapless(plan.tree, plan.answersets)

-----------------------------------------------------------------------------
(* The answersets of the plan *)

(* What is reached from some of D in steps from x to next[x].              *)
Closure(D, next, start) ==
    LET Spread[S \in SUBSET D] ==
            LET more == S \union UNION {next[x] : x \in S}
            IN  IF more = S THEN S ELSE Spread[more]
    IN  Spread[start]

Subsections(s) == {t \in DOMAIN tree : tree[t].super = s}
SectionTree(s) == Closure(DOMAIN tree, [t \in DOMAIN tree |-> Subsections(t)], {s})

ChildRows(R, r) == {c \in DOMAIN R : R[c].parent = r}

(* create_answerset, and add_children of a row that has none: a row for    *)
(* every section below, here by its section and the parent of the first.   *)
NewRows(slots) == UNION {{slot[2]} \X SectionTree(slot[1]) : slot \in slots}

(* Their keys follow the last one given.                                   *)
NewKey(slots, last, new) ==
    last + Cardinality({x \in NewRows(slots) :
                           x[1] < new[1] \/ (x[1] = new[1] /\ x[2] <= new[2])})

(* They are skipped where that is allowed, but for the one that is asked   *)
(* for when a row is only looked for (get_answersets_for_section).         *)
NewRow(slots, last, how, new) ==
    [section |-> new[2],
     parent |-> IF <<new[2], new[1]>> \in slots THEN new[1]
                ELSE NewKey(slots, last, <<new[1], tree[new[2]].super>>),
     skipped |-> tree[new[2]].optional /\ (how = "get" => <<new[2], new[1]>> \notin slots),
     filled |-> FALSE]

PlantAll(R, slots, last, how) ==
    [r \in (DOMAIN R) \union {NewKey(slots, last, new) : new \in NewRows(slots)} |->
        IF r \in DOMAIN R THEN R[r]
        ELSE NewRow(slots, last, how, CHOOSE new \in NewRows(slots) : NewKey(slots, last, new) = r)]

LastKey(last, R) == Max({last} \union DOMAIN R)

(* on_delete *)
DeleteRows(R, gone) ==
    [r \in DOMAIN R \ Closure(DOMAIN R, [x \in DOMAIN R |-> ChildRows(R, x)], gone) |-> R[r]]

(* add_children: what it looks at below a row. From a row that has         *)
(* children it goes on to those and leaves out the row itself.             *)
LooksAt(R, r) ==
    LET next(x) == UNION {IF ChildRows(R, c) = {} THEN {c} ELSE ChildRows(R, c) : c \in ChildRows(R, x)}
    IN  Closure(DOMAIN R, [x \in DOMAIN R |-> next(x)], {r})

(* add_missing_answersets: of several top-level rows, the last.            *)
Missing(R) ==
    LET slots(s) ==
            LET tops == RowsAt(R, s, Topmost)
            IN  IF tops = {} THEN {<<s, Topmost>>}
                ELSE UNION {Subsections(R[r].section) \X {r} : r \in LooksAt(R, Max(tops))}
    IN  {slot \in UNION {slots(s) : s \in Subsections(Topmost)} : RowsAt(R, slot[1], slot[2]) = {}}

Ensured(R) == PlantAll(R, Missing(R), numbered, "ensure")

(* fix_answersets: skipped rows beside others go, but for the first of     *)
(* several that are all skipped. That only optional sections have skipped  *)
(* rows and only repeatable ones several is in AnswerSets.                 *)
WronglySkipped(R, s, parent) ==
    LET all == RowsAt(R, s, parent)
        skipped == {r \in all : R[r].skipped}
    IN  IF skipped = all THEN {r \in skipped : \E x \in skipped : x < r} ELSE skipped

Purged(R) ==
    DeleteRows(R, UNION {WronglySkipped(R, slot[1], slot[2]) : slot \in (DOMAIN tree) \X (DOMAIN R)})

(* fix_all_answersets: this, below every top-level row.                    *)
Repaired(R) ==
    LET purged == Purged(Ensured(R))
        slots == UNION {Subsections(purged[r].section) \X {r} : r \in DOMAIN purged}
    IN  PlantAll(purged, {slot \in slots : RowsAt(purged, slot[1], slot[2]) = {}},
                 LastKey(numbered, Ensured(R)), "get")

-----------------------------------------------------------------------------
(* What there is to show: the row of an optional section that nobody wants *)
(* has none below it, and is not in the text unless a stand-in is.         *)

InText(R, r) == ~R[r].skipped \/ tree[R[r].section].standIn

Unfolded(R) ==
    Closure(DOMAIN R, [r \in DOMAIN R |-> IF R[r].skipped THEN {} ELSE ChildRows(R, r)],
            ChildRows(R, Topmost))

Apparent(R, view) == {r \in Unfolded(R) : view = "text" => InText(R, r)}

ToShow(R, view) ==
    [rows |-> Apparent(R, view), filled |-> {r \in Apparent(R, view) : R[r].filled}]

NothingToShow == [rows |-> {}, filled |-> {}]
Both(a, b) == [rows |-> a.rows \intersect b.rows, filled |-> a.filled \intersect b.filled]

-----------------------------------------------------------------------------
(* Other requests *)

QueryNames == {"below", "sections", "keys", "children", "rows", "parents", "told"}
NothingTaken == [query \in QueryNames |-> {}]
NotShown == [outcome |-> "none", rows |-> {}, told |-> {}]
NotViewing(count) == [page |-> "none", next |-> 0, disturbed |-> {}, taken |-> NothingTaken,
                      shown |-> NotShown, count |-> count]

Viewing == viewing.next > 0

Disturb(kind, newRows) ==
    /\ interruptions < MaxRequests
    /\ interruptions' = interruptions + 1
    /\ answersets' = newRows
    /\ numbered' = LastKey(numbered, newRows)
    /\ viewing' = IF Viewing THEN [viewing EXCEPT !.disturbed = @ \union {kind}]
                  ELSE NotViewing(viewing.count)
    /\ lasting' = IF Viewing THEN Both(lasting, ToShow(newRows, viewing.page)) ELSE NothingToShow
    /\ ever' = IF Viewing THEN ever \union Apparent(newRows, viewing.page) ELSE {}

(* A designer adds a section.                                              *)
AddSubsection(super) ==
    /\ tree' = [s \in (DOMAIN tree) \union {LastKey(Topmost, tree) + 1} |->
                   IF s \in DOMAIN tree THEN tree[s]
                   ELSE [super |-> super, optional |-> FALSE, repeatable |-> FALSE,
                         standIn |-> FALSE, answeredElsewhere |-> FALSE]]
    /\ gaps' = TRUE
    /\ Disturb("section", answersets)

(* AnswerSet.add_sibling *)
AddRow(r) ==
    LET s == answersets[r].section
        skipped == {x \in RowsAt(answersets, s, answersets[r].parent) : answersets[x].skipped}
    IN  /\ tree[s].repeatable
        /\ IF skipped # {} THEN Disturb("row", [answersets EXCEPT ![Min(skipped)].skipped = FALSE])
           ELSE Disturb("row", PlantAll(answersets, {<<s, answersets[r].parent>>}, numbered, "create"))
        /\ UNCHANGED <<tree, gaps>>

(* remove_answerset: skips the last one.                                   *)
RemoveRow(r) ==
    LET s == answersets[r].section
        fixed == DeleteRows(answersets, WronglySkipped(answersets, s, answersets[r].parent))
    IN  /\ tree[s].optional /\ tree[s].repeatable
        /\ ~answersets[r].skipped
        /\ IF RowsAt(fixed, s, answersets[r].parent) = {r}
           THEN Disturb("row gone", [fixed EXCEPT ![r].skipped = TRUE, ![r].filled = FALSE])
           ELSE Disturb("row gone", DeleteRows(fixed, {r}))
        /\ UNCHANGED <<tree, gaps>>

(* An answer, which also unskips.                                          *)
AnswerRow(r) ==
    /\ ~answersets[r].filled
    /\ Disturb("row", [answersets EXCEPT ![r].skipped = FALSE, ![r].filled = TRUE])
    /\ UNCHANGED <<tree, gaps>>

-----------------------------------------------------------------------------
(* The request for a page *)

(* The order of the queries in get_nested_summary and, the other way       *)
(* round, in get_nested_canned_text.                                       *)
SummaryQueries == <<"below", "sections", "keys", "children", "rows", "parents">>
TextQueries == <<"keys", "children", "rows", "parents", "told", "below", "sections">>

Queries(view) == IF view = "summary" THEN SummaryQueries ELSE TextQueries

(* is_skipped: no answerset of the section has answers, in whatever plan.  *)
AllBlank(s) ==
    /\ tree[s].optional
    /\ ~tree[s].answeredElsewhere
    /\ \A r \in DOMAIN answersets : answersets[r].section = s => ~answersets[r].filled

(* generate_canned_text of the section of a row.                           *)
TellRow(r) ==
    LET s == viewing.taken.rows[r].section
    IN  IF AllBlank(s) THEN (IF tree[s].standIn THEN "stand-in" ELSE "nothing")
        ELSE IF tree[s].optional /\ ~viewing.taken.rows[r].filled THEN "nothing" ELSE "answers"

(* The maps: sections below each section and all sections, answersets by   *)
(* section and parent, answersets that have some below them, answersets.   *)
SectionChildmap == [s \in DOMAIN tree |-> Subsections(s)]
SectionLookupMap == DOMAIN tree
MapByParentKey == answersets
Listed(r) == viewing.page = "text" => InText(answersets, r)
Childmap == {answersets[r].parent : r \in {x \in DOMAIN answersets : Listed(x)}}
LookupMap == [r \in {x \in DOMAIN answersets : Listed(x)} |-> answersets[r]]

Answered(query) ==
    CASE query = "below" -> SectionChildmap
      [] query = "sections" -> SectionLookupMap
      [] query = "keys" -> MapByParentKey
      [] query = "children" -> Childmap
      [] query = "rows" -> LookupMap
      [] query = "told" -> [r \in DOMAIN viewing.taken.rows |-> TellRow(r)]
      [] query = "parents" ->
             \A r \in DOMAIN viewing.taken.rows :
                 viewing.taken.rows[r].parent \in DOMAIN answersets \union {Topmost}

Begin(view, readied) ==
    /\ view \in View
    /\ viewing.next = 0
    /\ viewing.count < MaxPages
    /\ answersets' = readied
    /\ numbered' = LastKey(LastKey(numbered, Ensured(answersets)), readied)
    /\ viewing' = [NotViewing(viewing.count + 1) EXCEPT !.page = view, !.next = 1]
    /\ lasting' = ToShow(readied, view)
    /\ ever' = Apparent(readied, view)
    /\ UNCHANGED <<tree, interruptions>>

(* Both repair the answersets first: the summary adds what it finds        *)
(* missing, the text puts everything right. That the summary validates the *)
(* plan afterwards is in Answers.                                          *)
ViewSummary == Begin("summary", Ensured(answersets)) /\ UNCHANGED gaps
ViewText == Begin("text", Repaired(answersets)) /\ gaps' = FALSE

RunQuery ==
    LET query == Queries(viewing.page)[viewing.next]
    IN  /\ Viewing
        /\ viewing.next <= Len(Queries(viewing.page))
        /\ viewing' = [viewing EXCEPT !.next = @ + 1, !.taken[query] = Answered(query)]
        /\ UNCHANGED <<tree, answersets, numbered, gaps, interruptions, lasting, ever>>

(* Mutant: the answersets below a skipped one are shown as well.           *)
OpensAnyway(maps, r) == r \in maps.children

(* Answersets below which the page goes on.                                *)
Opens(maps, r) == r \in maps.children /\ ~maps.rows[r].skipped

Keyed(maps, slot) == RowsAt(maps.keys, slot[1], slot[2])
FoundAt(maps, slot) == Keyed(maps, slot) \intersect DOMAIN maps.rows

(* get_summary_for_section and get_canned_text_for_section: what they are  *)
(* called for, and what they call themselves for.                          *)
Calls(maps, slot) ==
    IF slot[1] \in maps.sections \intersect DOMAIN maps.below
    THEN maps.below[slot[1]] \X {r \in FoundAt(maps, slot) : Opens(maps, r)}
    ELSE {}

Entered(maps) ==
    LET slots == (DOMAIN tree) \X ((DOMAIN maps.rows) \union {Topmost})
    IN  Closure(slots, [slot \in slots |-> Calls(maps, slot)], Subsections(Topmost) \X {Topmost})

(* The summary stumbles over an answerset or its section that is not in    *)
(* the maps, and over the first of no answersets; the text passes over.    *)
SummaryStumbles(maps) ==
    \/ \E r \in DOMAIN maps.rows : maps.rows[r].section \notin maps.sections
    \/ \E slot \in Entered(maps) :
           \/ Keyed(maps, slot) = {}
           \/ ~(Keyed(maps, slot) \subseteq DOMAIN maps.rows)

(* Both, over a section that is not in the map of sections, and over an    *)
(* answerset whose parent is gone.                                         *)
Stumbles(view, maps) ==
    \/ ~maps.parents
    \/ \E slot \in Entered(maps) : slot[1] \notin maps.sections
    \/ view = "summary" /\ SummaryStumbles(maps)

PutTogether ==
    LET maps == viewing.taken
        shown == UNION {FoundAt(maps, slot) : slot \in Entered(maps)}
    IN  /\ Viewing
        /\ viewing.next > Len(Queries(viewing.page))
        /\ viewing' = [viewing EXCEPT
               !.next = 0,
               !.taken = NothingTaken,
               !.shown = IF Stumbles(viewing.page, maps) THEN [NotShown EXCEPT !.outcome = "failed"]
                         ELSE [outcome |-> "shown", rows |-> shown,
                               told |-> IF viewing.page = "text"
                                        THEN [r \in shown |-> maps.told[r]] ELSE {}]]
        /\ UNCHANGED <<tree, answersets, numbered, gaps, interruptions, lasting, ever>>

-----------------------------------------------------------------------------
SummaryInit ==
    /\ \E written \in WrittenPlans : tree = written.tree /\ answersets = written.answersets
    /\ numbered = LastKey(0, answersets)
    /\ viewing = NotViewing(0)
    /\ gaps = FALSE
    /\ interruptions = 0
    /\ lasting = NothingToShow
    /\ ever = {}

SummaryNext ==
    \/ ViewSummary \/ ViewText
    \/ RunQuery \/ PutTogether
    \/ \E super \in DOMAIN tree \union {Topmost} : AddSubsection(super)
    \/ \E r \in DOMAIN answersets : AddRow(r) \/ RemoveRow(r) \/ AnswerRow(r)

SummarySpec == SummaryInit /\ [][SummaryNext]_summaryVars

-----------------------------------------------------------------------------
(* Properties *)

(* Between any two lists other requests may add, answer, skip and remove   *)
(* answersets and add sections. A page that is shown still has everything  *)
(* that was there to be shown all the time, and nothing that never was;    *)
(* answers that were there all the time are told in the text, but for the  *)
(* stand-in, which is told as long as nobody answered that section in any  *)
(* plan. A page is not shown if answersets went away or sections were      *)
(* added meanwhile, the summary neither if sections were added since the   *)
(* text was last asked for, because it does not repair all answersets.     *)
PageIsWhole ==
    viewing.page # "none" /\ viewing.next = 0 =>
        \/ /\ viewing.shown.outcome = "shown"
           /\ lasting.rows \subseteq viewing.shown.rows
           /\ viewing.shown.rows \subseteq ever
           /\ viewing.page = "text" =>
                  /\ \A r \in lasting.filled : viewing.shown.told[r] = "answers"
                  /\ viewing.disturbed = {} =>
                         \A r \in viewing.shown.rows \intersect DOMAIN answersets :
                             answersets[r].skipped =>
                                 (viewing.shown.told[r] = "stand-in") = AllBlank(answersets[r].section)
        \/ /\ viewing.shown.outcome = "failed"
           /\ \/ viewing.disturbed \intersect {"section", "row gone"} # {}
              \/ viewing.page = "summary" /\ gaps
=============================================================================
