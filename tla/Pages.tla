------------------------------- MODULE Pages -------------------------------
(***************************************************************************)
(* How a planner gets from page to page of one plan: the pages of sections *)
(* and of questions with their Next and Prev, the pages of sections        *)
(* without questions, the summary with its links (plan/views/__init__.py), *)
(* and the walk along the answersets (AnswerSet, "Traversal").             *)
(*                                                                         *)
(* A section is its position in the template. An answerset is its section  *)
(* and its number there, in the order of the keys. One section at most     *)
(* repeats, and has two answersets at most, each with answersets of all    *)
(* sections below it. What a branching section asks next is in Flow: here  *)
(* it is any of its later questions, or none.                              *)
(***************************************************************************)
EXTENDS Integers, FiniteSets, FiniteSetsExt

CONSTANTS
    SectionsInTemplate, \* how many sections the template has
    QuestionsAsked      \* how many questions a section that has any has

ASSUME PagesAssumption ==
    SectionsInTemplate \in Nat \ {0} /\ QuestionsAsked \in Nat \ {0}

VARIABLES
    outline,   \* Section.super_section, 0 for a topmost one
    asks,      \* "nothing", or "linear" or "branching" questions
    optionals, \* the sections that are optional
    repeaters, \* the sections that repeat
    twice,     \* the section that has two answersets, or 0
    skipping,  \* the answersets that are skipped
    page       \* what the browser shows

pageVars == <<outline, asks, optionals, repeaters, twice, skipping, page>>
outlineVars == <<outline, asks, optionals, repeaters>>

Place == 1..SectionsInTemplate
NoAnswerSet == <<0, 0>>
Summary == [shows |-> "summary"]
Failed == [shows |-> "failed"]
LinearPage(row) == [shows |-> "linear", row |-> row]
EmptyPage(row) == [shows |-> "empty", row |-> row]
QuestionPage(row, s, n) == [shows |-> "question", row |-> row, asked |-> s, number |-> n]

-----------------------------------------------------------------------------
(* Sections *)

LeastOf(S) == IF S = {} THEN 0 ELSE Min(S)
LargestOf(S) == IF S = {} THEN 0 ELSE Max(S)

HigherUp(s) ==
    LET Up[t \in Place \union {0}] == IF t = 0 THEN {} ELSE {t} \union Up[outline[t]]
    IN  Up[outline[s]]

HasQuestions(s) == asks[s] # "nothing"
NextNonempty(s) == LeastOf({t \in Place : t > s /\ HasQuestions(t)})
PrevNonempty(s) == LargestOf({t \in Place : t < s /\ HasQuestions(t)})

-----------------------------------------------------------------------------
(* Answersets *)

Doubled(s) == twice # 0 /\ twice \in {s} \union HigherUp(s)
RowsIn(s) == {<<s, n>> : n \in IF Doubled(s) THEN {1, 2} ELSE {1}}
AnswerRows == UNION {RowsIn(s) : s \in Place}
Precedes(r, x) == r[1] < x[1] \/ (r[1] = x[1] /\ r[2] < x[2])
FirstIn(R) == CHOOSE r \in R : \A x \in R \ {r} : Precedes(r, x)
LastIn(R) == CHOOSE r \in R : \A x \in R \ {r} : Precedes(x, r)

ParentOf(r) ==
    LET super == outline[r[1]]
    IN  IF super = 0 THEN NoAnswerSet ELSE <<super, IF Doubled(super) THEN r[2] ELSE 1>>

ChildrenOf(r) == {x \in AnswerRows : ParentOf(x) = r}
AllSiblings(r) == {x \in AnswerRows : ParentOf(x) = ParentOf(r)}
FullSiblings(r) == {x \in AllSiblings(r) : x[1] = r[1]}

(* The children of a skipped answerset are not in the summary.             *)
InSummary(r) ==
    LET Seen[x \in AnswerRows \union {NoAnswerSet}] ==
            IF x = NoAnswerSet THEN TRUE ELSE x \notin skipping /\ Seen[ParentOf(x)]
    IN  Seen[ParentOf(r)]

(* Mutant: the next section before the siblings.                           *)
SectionBeforeSiblings(r) ==
    LET section == NextNonempty(r[1])
    IN  IF r \notin skipping /\ ChildrenOf(r) # {} THEN FirstIn(ChildrenOf(r))
        ELSE IF section # 0 THEN FirstIn(RowsIn(section))
        ELSE NoAnswerSet

(* AnswerSet.get_next_answerset                                            *)
NextAnswerSet(r) ==
    LET children == ChildrenOf(r)
        younger == {x \in FullSiblings(r) : r[1] \in repeaters /\ Precedes(r, x)}
        section == NextNonempty(r[1])
    IN  IF r \notin skipping /\ children # {} THEN FirstIn(children)
        ELSE IF r \notin skipping /\ younger # {} THEN FirstIn(younger)
        ELSE IF section # 0 THEN FirstIn(RowsIn(section))
        ELSE NoAnswerSet

(* One step of AnswerSet.get_prev_answerset, that of another row given.    *)
(* The sibling may be of another section.                                  *)
RowBefore(Prev, x) ==
    LET older == {y \in AllSiblings(x) : x[1] \in repeaters /\ Precedes(y, x)}
        sibling == LastIn(older)
        section == PrevNonempty(x[1])
        row == LastIn(RowsIn(section))
        child == LastIn(ChildrenOf(row))
        InSection ==
            IF section = 0 THEN NoAnswerSet
            ELSE IF row \in skipping THEN Prev[row]
            ELSE IF ChildrenOf(row) # {} /\ child \notin skipping THEN child
            ELSE row
    IN  IF older = {} THEN InSection
        ELSE IF sibling \in skipping THEN Prev[sibling]
        ELSE IF ChildrenOf(sibling) # {} THEN LastIn(ChildrenOf(sibling))
        ELSE IF HasQuestions(sibling[1]) THEN sibling
        ELSE InSection

PrevAnswerSet(r) ==
    LET Prev[x \in AnswerRows] == RowBefore(Prev, x)
    IN  Prev[r]

-----------------------------------------------------------------------------
(* Links and buttons. What can be done at a page is what it shows a link   *)
(* or a button for.                                                        *)

Visit(p) == page' = p /\ UNCHANGED <<outlineVars, twice, skipping>>

(* AnswerSetDetailView.get and, of the section of the plan's first         *)
(* question, StartPlanView.get_success_url                                 *)
FirstPage(r) ==
    CASE asks[r[1]] = "nothing" -> EmptyPage(r)
      [] asks[r[1]] = "linear" -> LinearPage(r)
      [] asks[r[1]] = "branching" -> QuestionPage(r, r[1], 1)

StartPage == IF HasQuestions(1) THEN FirstPage(<<1, 1>>) ELSE Failed

(* The titles in the summary lead to the first answerset of a section, and *)
(* so does the progress bar, on the other pages, for the topmost ones.     *)
Open(s) ==
    /\ \/ page = Summary
       \/ page # Failed /\ outline[s] = 0
    /\ \E r \in RowsIn(s) :
           /\ page = Summary => InSummary(r)
           /\ r = FirstIn(FullSiblings(r))
           /\ page # Summary => r = FirstIn(RowsIn(s))
           /\ Visit(FirstPage(r))

GoToSummary == page # Summary /\ Visit(Summary)

(* "Edit" and "Edit all" *)
EditOne(r, n) ==
    /\ page = Summary
    /\ InSummary(r) /\ r \notin skipping
    /\ HasQuestions(r[1])
    /\ Visit(QuestionPage(r, r[1], n))

EditAll(r) ==
    /\ page = Summary
    /\ InSummary(r) /\ r \notin skipping
    /\ asks[r[1]] = "linear"
    /\ Visit(LinearPage(r))

(* The list of the questions of the section *)
Jump(n) ==
    /\ page.shows = "question"
    /\ Visit([page EXCEPT !.number = n])

(* A post stores the answers in the answerset of the page, which is not    *)
(* skipped any more. It goes on to one of the next three actions.          *)
PostAnswers ==
    /\ page.shows \in {"linear", "question"}
    /\ page.row \in skipping
    /\ skipping' = skipping \ {page.row}
    /\ UNCHANGED <<outlineVars, twice, page>>

(* GetAnswerSetView.get_url; there is no question in an empty section.     *)
SectionPage(r, n) ==
    IF r = NoAnswerSet \/ ~HasQuestions(r[1]) THEN Failed
    ELSE IF asks[r[1]] = "branching" THEN QuestionPage(r, r[1], n)
    ELSE LinearPage(r)

NextSection ==
    /\ page.shows = "linear"
    /\ Visit(IF NextNonempty(page.row[1]) = 0 THEN Summary
             ELSE SectionPage(NextAnswerSet(page.row), 1))

PrevSection ==
    /\ page.shows = "linear"
    /\ Visit(IF PrevNonempty(page.row[1]) = 0 THEN Summary
             ELSE SectionPage(PrevAnswerSet(page.row), QuestionsAsked))

(* Mutant: another section's question in the same answerset.               *)
AskHere(r, s, n) == QuestionPage(page.row, s, n)

(* GetAnswerView: the question is known, and r the answerset to take if it *)
(* is not of the section of the present answerset.                         *)
AskIn(r, s, n) ==
    IF s = page.row[1] THEN QuestionPage(page.row, s, n)
    ELSE IF r = NoAnswerSet THEN Failed
    ELSE QuestionPage(r, s, n)

NextQuestion ==
    /\ page.shows = "question"
    /\ \/ \E n \in page.number + 1 .. QuestionsAsked :
              /\ asks[page.asked] = "linear" => n = page.number + 1
              /\ Visit(AskIn(NextAnswerSet(page.row), page.asked, n))
       \/ /\ page.number = QuestionsAsked \/ asks[page.asked] = "branching"
          /\ LET s == NextNonempty(page.asked)
             IN  Visit(IF s = 0 THEN Summary ELSE AskIn(NextAnswerSet(page.row), s, 1))

(* The question before the first is the last that was answered, or the     *)
(* last that cannot be branched around, in the section before.             *)
PrevQuestion ==
    /\ page.shows = "question"
    /\ \/ \E n \in 1 .. page.number - 1 :
              /\ asks[page.asked] = "linear" => n = page.number - 1
              /\ Visit(AskIn(PrevAnswerSet(page.row), page.asked, n))
       \/ LET s == PrevNonempty(page.asked)
          IN  /\ page.number = 1
              /\ s # 0
              /\ \E n \in 1..QuestionsAsked : Visit(AskIn(PrevAnswerSet(page.row), s, n))

(* AnswerSetDetailView.next and prev, by position, to a question or to     *)
(* another empty section                                                   *)
Neighbour(s, r) ==
    /\ page.shows = "empty"
    /\ Visit(IF s \notin Place THEN Summary
             ELSE IF HasQuestions(s) THEN QuestionPage(r, s, 1)
             ELSE EmptyPage(r))

NextOfEmpty ==
    LET s == page.row[1] + 1
    IN  Neighbour(s, FirstIn(RowsIn(s)))

PrevOfEmpty ==
    LET s == page.row[1] - 1
    IN  Neighbour(s, LastIn(RowsIn(s)))

(* AddAnswerSetView: an answerset that is skipped is used, another one is  *)
(* only added to a section that repeats and is optional, and is skipped.   *)
Add(s) ==
    LET Added(r) == IF asks[s] = "branching" THEN QuestionPage(r, s, 1) ELSE LinearPage(r)
    IN  /\ \/ page = Summary /\ s \in repeaters
           \/ page.shows = "linear" /\ page.row[1] = s
        /\ s \in optionals
        /\ twice = 0
        /\ \/ /\ <<s, 1>> \in skipping
              /\ skipping' = skipping \ {<<s, 1>>}
              /\ page' = Added(<<s, 1>>)
              /\ UNCHANGED twice
           \/ /\ <<s, 1>> \notin skipping
              /\ s \in repeaters
              /\ twice' = s
              /\ skipping' = skipping \union {<<s, 2>>}
              /\ page' = Added(<<s, 2>>)
        /\ UNCHANGED outlineVars

-----------------------------------------------------------------------------
(* A new plan, or one that was imported, of any template with questions.   *)
PagesInit ==
    /\ outline \in [Place -> Place \union {0}]
    /\ \A s \in Place : outline[s] < s
    /\ asks \in [Place -> {"nothing", "linear", "branching"}]
    /\ \E s \in Place : HasQuestions(s)
    /\ optionals \in {S \in SUBSET Place : Cardinality(S) <= 1}
    /\ repeaters \in {S \in SUBSET Place : Cardinality(S) <= 1}
    /\ twice \in repeaters \union {0}
    /\ skipping \in SUBSET UNION {RowsIn(s) : s \in optionals}
    /\ twice \in optionals => <<twice, 1>> \notin skipping
    /\ page \in {StartPage, Summary}

PagesNext ==
    \/ \E s \in Place : Open(s) \/ Add(s)
    \/ \E r \in AnswerRows : EditAll(r) \/ \E n \in 1..QuestionsAsked : EditOne(r, n)
    \/ \E n \in 1..QuestionsAsked : Jump(n)
    \/ GoToSummary \/ PostAnswers
    \/ NextSection \/ PrevSection \/ NextQuestion \/ PrevQuestion
    \/ NextOfEmpty \/ PrevOfEmpty

PagesSpec == PagesInit /\ [][PagesNext]_pageVars

-----------------------------------------------------------------------------
(* Properties *)

SomeQuestions == {s \in Place : HasQuestions(s)}
HasSubsections(s) == \E t \in Place : outline[t] = s

(* An answer is stored in an answerset of the section of its question. The *)
(* question and the answerset are found along two ways, by position and    *)
(* through the tree, and nothing compares them; they stay together as long *)
(* as no section with questions has subsections, repeats or is optional.   *)
AskedInOwnSection ==
    /\ page.shows = "question"
    /\ \A s \in SomeQuestions :
           ~HasSubsections(s) /\ s \notin repeaters /\ s \notin optionals
    => page.asked = page.row[1]

InOrder == \A s \in Place \ {1} : outline[s] \in {0, s - 1} \union HigherUp(s - 1)
OnlyLeavesRepeat == \A s \in repeaters : ~HasSubsections(s)
Wanted == {r \in AnswerRows : HasQuestions(r[1]) /\ r \notin skipping}

(* Next, at a section that is answered in one go, leads to the very next   *)
(* answerset that is asked for, when there is one in a later section.      *)
NextGoesOn ==
    page'.shows \notin {"summary", "failed"} =>
        /\ Precedes(page.row, page'.row)
        /\ \A r \in Wanted : ~(Precedes(page.row, r) /\ Precedes(r, page'.row))

(* Prev leads back to the one before, skipped ones left out.               *)
PrevGoesBack ==
    LET before == {r \in Wanted : Precedes(r, page.row)}
    IN  PrevNonempty(page.row[1]) # 0 =>
            page' = IF before = {} THEN Failed ELSE SectionPage(LastIn(before), QuestionsAsked)

(* The walk through the answersets passes none over and comes back the way *)
(* it went, once the sections are numbered through the tree and only those *)
(* without subsections repeat. Prev needs more: no section with questions  *)
(* has subsections, as the first of them leads to itself; the present one  *)
(* does not repeat, as answersets of other sections count as siblings; and *)
(* none that repeats is skipped altogether, as such a sibling may lead on  *)
(* to a section without questions.                                         *)
WalkIsStraight ==
    [][/\ InOrder
       /\ OnlyLeavesRepeat
       => /\ NextSection => NextGoesOn
          /\ /\ PrevSection
             /\ page.row[1] \notin repeaters
             /\ \A s \in repeaters : <<s, 1>> \notin skipping
             /\ \A s \in SomeQuestions : ~HasSubsections(s)
             => PrevGoesBack]_pageVars
=============================================================================
