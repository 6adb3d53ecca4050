---------------------------- MODULE PagesProofs ----------------------------
(***************************************************************************)
(* Proofs about Pages, for any number of sections and questions, any tree  *)
(* of sections and any flags, and about Positions, for any number of       *)
(* sections and designers.                                                 *)
(*                                                                         *)
(* Rows are ordered as the pairs of numbers they are. A number for each    *)
(* (RankOf) turns a least or last row into a least number, and gives the   *)
(* walk backwards, which is recursive, the values of its steps (BackIs).   *)
(*                                                                         *)
(* The sections of a template are a tree, told by the line above each of   *)
(* them; the order depth first is a strict total order of the sections     *)
(* that are found, so the sequence of them is the only one that rises. A   *)
(* move changes the places as Moved does, and what a request that nobody   *)
(* overtook has read still holds (TurnHolds).                              *)
(***************************************************************************)
EXTENDS Pages, Positions, FiniteSetTheorems, SequenceTheorems, WellFoundedInduction, TLAPS

-----------------------------------------------------------------------------
(***************************************************************************)
(* Least and largest.                                                      *)
(***************************************************************************)
LEMMA LeastNumber ==
  ASSUME NEW T, T \subseteq Nat, T # {}
  PROVE  \E x \in T : \A y \in T : x <= y
<1> DEFINE Below == {pair \in Nat \X Nat : pair[1] < pair[2]}
<1>1. IsWellFoundedOn(Below, Nat)
  BY NatLessThanWellFounded DEF OpToRel
<1> HIDE DEF Below
<1>2. PICK x \in T : \A y \in T : <<y, x>> \notin Below
  BY <1>1, WFMin
<1>3. \A y \in T : ~(y < x)
  BY <1>2 DEF Below
<1> QED BY <1>3

LEMMA LargestNumber ==
  ASSUME NEW T, NEW bound \in Nat, T \subseteq 0..bound, T # {}
  PROVE  \E x \in T : \A y \in T : y <= x
<1> DEFINE Gaps == {bound - y : y \in T}
<1>1. Gaps \subseteq Nat /\ Gaps # {}
  <2>1. \A y \in T : bound - y \in Nat
    OBVIOUS
  <2> QED BY <2>1
<1>2. PICK g \in Gaps : \A h \in Gaps : g <= h
  <2> HIDE DEF Gaps
  <2> QED BY <1>1, LeastNumber
<1>3. PICK x \in T : g = bound - x
  OBVIOUS
<1>4. ASSUME NEW y \in T PROVE y <= x
  <2>1. g <= bound - y
    BY <1>2
  <2> QED BY <1>3, <2>1
<1> QED BY <1>4

(***************************************************************************)
(* The next section with questions, and the one before.                    *)
(***************************************************************************)
LEMMA NextNonemptyIs ==
  ASSUME NEW s \in Int
  PROVE  /\ \/ NextNonempty(s) = 0
            \/ NextNonempty(s) \in Place /\ NextNonempty(s) > s /\ HasQuestions(NextNonempty(s))
         /\ \A t \in SomeQuestions : t > s => NextNonempty(s) # 0 /\ NextNonempty(s) <= t
<1> DEFINE After == {t \in Place : t > s /\ HasQuestions(t)}
<1>1. CASE After = {}
  BY <1>1 DEF NextNonempty, LeastOf, SomeQuestions
<1>2. CASE After # {}
  <2>1. After \subseteq Nat
    BY PagesAssumption DEF Place
  <2>2. PICK x \in After : \A y \in After : x <= y
    <3> HIDE DEF After
    <3> QED BY <1>2, <2>1, LeastNumber
  <2>3. Min(After) \in After /\ \A y \in After : Min(After) <= y
    <3> HIDE DEF After
    <3> QED BY <2>2 DEF Min
  <2>4. NextNonempty(s) = Min(After)
    BY <1>2 DEF NextNonempty, LeastOf
  <2>5. NextNonempty(s) # 0
    BY <2>3, <2>4, PagesAssumption DEF Place
  <2> QED BY <2>3, <2>4, <2>5 DEF SomeQuestions
<1> QED BY <1>1, <1>2

LEMMA PrevNonemptyIs ==
  ASSUME NEW s \in Int
  PROVE  /\ \/ PrevNonempty(s) = 0
            \/ PrevNonempty(s) \in Place /\ PrevNonempty(s) < s /\ HasQuestions(PrevNonempty(s))
         /\ \A t \in SomeQuestions : t < s => PrevNonempty(s) # 0 /\ t <= PrevNonempty(s)
<1> DEFINE Before == {t \in Place : t < s /\ HasQuestions(t)}
<1>1. CASE Before = {}
  BY <1>1 DEF PrevNonempty, LargestOf, SomeQuestions
<1>2. CASE Before # {}
  <2>1. Before \subseteq 0..SectionsInTemplate
    BY PagesAssumption DEF Place
  <2>2. SectionsInTemplate \in Nat
    BY PagesAssumption
  <2>3. PICK x \in Before : \A y \in Before : y <= x
    <3> HIDE DEF Before
    <3> QED BY <1>2, <2>1, <2>2, LargestNumber
  <2>4. \A y \in Before : x >= y
    BY <2>1, <2>3
  <2>5. Max(Before) \in Before /\ \A y \in Before : Max(Before) >= y
    <3> HIDE DEF Before
    <3> QED BY <2>4 DEF Max
  <2>6. PrevNonempty(s) = Max(Before)
    BY <1>2 DEF PrevNonempty, LargestOf
  <2>7. PrevNonempty(s) # 0
    BY <2>5, <2>6, PagesAssumption DEF Place
  <2>8. \A y \in Before : y \in Int /\ Max(Before) \in Int
    BY <2>1, <2>5
  <2> QED BY <2>5, <2>6, <2>7, <2>8 DEF SomeQuestions
<1> QED BY <1>1, <1>2

-----------------------------------------------------------------------------
(***************************************************************************)
(* Rows and their order.                                                   *)
(***************************************************************************)
RankOf(r) == 2 * r[1] + r[2]
LastRank == 2 * SectionsInTemplate + 2

LEMMA RowsAre ==
  ASSUME NEW s \in Place
  PROVE  RowsIn(s) = {<<s, 1>>} \/ RowsIn(s) = {<<s, 1>>, <<s, 2>>}
<1>1. RowsIn(s) = {<<s, n>> : n \in IF Doubled(s) THEN {1, 2} ELSE {1}}
  BY DEF RowsIn
<1>2. CASE Doubled(s)
  BY <1>1, <1>2
<1>3. CASE ~Doubled(s)
  BY <1>1, <1>3
<1> QED BY <1>2, <1>3

LEMMA RowsOfSection ==
  ASSUME NEW s \in Place
  PROVE  RowsIn(s) \subseteq AnswerRows /\ RowsIn(s) # {}
BY RowsAre DEF AnswerRows

LEMMA RowInSection ==
  ASSUME NEW s \in Place, NEW r \in RowsIn(s)
  PROVE  r[1] = s /\ r[2] \in {1, 2} /\ r = <<r[1], r[2]>>
BY RowsAre

LEMMA RowIs ==
  ASSUME NEW r \in AnswerRows
  PROVE  r[1] \in Place /\ r[2] \in {1, 2} /\ r = <<r[1], r[2]>> /\ r \in RowsIn(r[1])
<1>1. PICK s \in Place : r \in RowsIn(s)
  BY DEF AnswerRows
<1> QED BY <1>1, RowInSection

LEMMA RowIsSomewhere ==
  ASSUME NEW r \in AnswerRows
  PROVE  r # NoAnswerSet
BY RowIs, PagesAssumption DEF NoAnswerSet, Place

LEMMA RankIs ==
  ASSUME NEW r \in AnswerRows
  PROVE  RankOf(r) \in 0..LastRank
BY RowIs, PagesAssumption DEF RankOf, LastRank, Place

LEMMA RanksOrder ==
  ASSUME NEW r \in AnswerRows, NEW x \in AnswerRows
  PROVE  /\ Precedes(r, x) <=> RankOf(r) < RankOf(x)
         /\ RankOf(r) = RankOf(x) => r = x
<1>1. r[1] \in Int /\ x[1] \in Int /\ r[2] \in {1, 2} /\ x[2] \in {1, 2}
  BY RowIs, PagesAssumption DEF Place
<1>2. Precedes(r, x) <=> RankOf(r) < RankOf(x)
  BY <1>1 DEF Precedes, RankOf
<1>3. RankOf(r) = RankOf(x) => r[1] = x[1] /\ r[2] = x[2]
  BY <1>1 DEF RankOf
<1>4. r = <<r[1], r[2]>> /\ x = <<x[1], x[2]>>
  BY RowIs
<1> QED BY <1>2, <1>3, <1>4

LEMMA FirstRow ==
  ASSUME NEW R, R \subseteq AnswerRows, R # {}
  PROVE  FirstIn(R) \in R /\ \A x \in R : x = FirstIn(R) \/ Precedes(FirstIn(R), x)
<1> DEFINE Ranks == {RankOf(r) : r \in R}
<1>1. Ranks \subseteq Nat /\ Ranks # {}
  BY RankIs
<1>2. PICK n \in Ranks : \A m \in Ranks : n <= m
  <2> HIDE DEF Ranks
  <2> QED BY <1>1, LeastNumber
<1>3. PICK r \in R : n = RankOf(r)
  OBVIOUS
<1>4. ASSUME NEW x \in R \ {r} PROVE Precedes(r, x)
  <2>1. RankOf(r) <= RankOf(x)
    BY <1>2, <1>3
  <2>2. RankOf(r) \in Int /\ RankOf(x) \in Int
    BY RankIs
  <2> QED BY <2>1, <2>2, RanksOrder
<1>5. \E f \in R : \A x \in R \ {f} : Precedes(f, x)
  BY <1>4
<1> QED BY <1>5 DEF FirstIn

LEMMA LastRow ==
  ASSUME NEW R, R \subseteq AnswerRows, R # {}
  PROVE  LastIn(R) \in R /\ \A x \in R : x = LastIn(R) \/ Precedes(x, LastIn(R))
<1> DEFINE Ranks == {RankOf(r) : r \in R}
<1>1. Ranks \subseteq 0..LastRank /\ Ranks # {} /\ LastRank \in Nat
  BY RankIs, PagesAssumption DEF LastRank
<1>2. PICK n \in Ranks : \A m \in Ranks : m <= n
  <2> HIDE DEF Ranks
  <2> QED BY <1>1, LargestNumber
<1>3. PICK r \in R : n = RankOf(r)
  OBVIOUS
<1>4. ASSUME NEW x \in R \ {r} PROVE Precedes(x, r)
  <2>1. RankOf(x) <= RankOf(r)
    BY <1>2, <1>3
  <2>2. RankOf(r) \in Int /\ RankOf(x) \in Int
    BY RankIs
  <2> QED BY <2>1, <2>2, RanksOrder
<1>5. \E l \in R : \A x \in R \ {l} : Precedes(x, l)
  BY <1>4
<1> QED BY <1>5 DEF LastIn

LEMMA LastIs ==
  ASSUME NEW R, R \subseteq AnswerRows, NEW l \in R,
         \A x \in R : x = l \/ Precedes(x, l)
  PROVE  LastIn(R) = l
<1>1. LastIn(R) \in R /\ (l = LastIn(R) \/ Precedes(l, LastIn(R)))
  BY LastRow
<1>2. LastIn(R) = l \/ Precedes(LastIn(R), l)
  BY <1>1
<1>3. l \in AnswerRows /\ LastIn(R) \in AnswerRows
  BY <1>1
<1>4. RankOf(l) \in Int /\ RankOf(LastIn(R)) \in Int
  BY <1>3, RankIs
<1> QED BY <1>1, <1>2, <1>3, <1>4, RanksOrder

LEMMA ChildrenAreRows ==
  ASSUME NEW r
  PROVE  ChildrenOf(r) \subseteq AnswerRows
BY DEF ChildrenOf

LEMMA LastOfSection ==
  ASSUME NEW s \in Place
  PROVE  LastIn(RowsIn(s)) \in RowsIn(s)
BY LastRow, RowsOfSection

LEMMA FirstOfSection ==
  ASSUME NEW s \in Place
  PROVE  FirstIn(RowsIn(s)) \in RowsIn(s)
BY FirstRow, RowsOfSection

-----------------------------------------------------------------------------
(***************************************************************************)
(* The walk onwards: from a row to a row, or to its end.                   *)
(***************************************************************************)
LEMMA NextIsRow ==
  ASSUME NEW r \in AnswerRows
  PROVE  NextAnswerSet(r) \in AnswerRows \union {NoAnswerSet}
<1> DEFINE children == ChildrenOf(r)
           younger == {x \in FullSiblings(r) : r[1] \in repeaters /\ Precedes(r, x)}
           section == NextNonempty(r[1])
<1>1. children # {} => FirstIn(children) \in AnswerRows
  BY FirstRow, ChildrenAreRows
<1>2. younger \subseteq AnswerRows
  BY DEF FullSiblings, AllSiblings
<1>3. younger # {} => FirstIn(younger) \in AnswerRows
  <2> HIDE DEF younger
  <2> QED BY <1>2, FirstRow
<1>4. section # 0 => FirstIn(RowsIn(section)) \in AnswerRows
  <2>1. r[1] \in Int
    BY RowIs, PagesAssumption DEF Place
  <2>2. section # 0 => section \in Place
    BY <2>1, NextNonemptyIs
  <2> QED BY <2>2, FirstOfSection, RowsOfSection
<1>5. \/ NextAnswerSet(r) = FirstIn(children) /\ children # {}
      \/ NextAnswerSet(r) = FirstIn(younger) /\ younger # {}
      \/ NextAnswerSet(r) = FirstIn(RowsIn(section)) /\ section # 0
      \/ NextAnswerSet(r) = NoAnswerSet
  BY DEF NextAnswerSet
<1> HIDE DEF children, younger, section
<1> QED BY <1>1, <1>3, <1>4, <1>5

-----------------------------------------------------------------------------
(***************************************************************************)
(* The walk backwards.                                                     *)
(***************************************************************************)

(* The rows a step backwards may go on from instead.                       *)
OlderSiblings(x) == {y \in AllSiblings(x) : x[1] \in repeaters /\ Precedes(y, x)}

LEMMA OlderIs ==
  ASSUME NEW x \in AnswerRows, OlderSiblings(x) # {}
  PROVE  /\ LastIn(OlderSiblings(x)) \in AnswerRows
         /\ RankOf(LastIn(OlderSiblings(x))) < RankOf(x)
<1>1. OlderSiblings(x) \subseteq AnswerRows
  BY DEF OlderSiblings, AllSiblings
<1>2. LastIn(OlderSiblings(x)) \in OlderSiblings(x)
  BY <1>1, LastRow
<1>3. Precedes(LastIn(OlderSiblings(x)), x)
  BY <1>2 DEF OlderSiblings
<1> QED BY <1>1, <1>2, <1>3, RanksOrder

LEMMA LastBeforeIs ==
  ASSUME NEW x \in AnswerRows, PrevNonempty(x[1]) # 0
  PROVE  /\ PrevNonempty(x[1]) \in Place
         /\ HasQuestions(PrevNonempty(x[1]))
         /\ LastIn(RowsIn(PrevNonempty(x[1]))) \in AnswerRows
         /\ LastIn(RowsIn(PrevNonempty(x[1])))[1] = PrevNonempty(x[1])
         /\ RankOf(LastIn(RowsIn(PrevNonempty(x[1])))) < RankOf(x)
<1> DEFINE s == PrevNonempty(x[1])
           l == LastIn(RowsIn(s))
<1>1. x[1] \in Int
  BY RowIs, PagesAssumption DEF Place
<1>2. s \in Place /\ s < x[1] /\ HasQuestions(s)
  BY <1>1, PrevNonemptyIs
<1>3. l \in RowsIn(s) /\ l \in AnswerRows /\ l[1] = s
  <2> HIDE DEF s
  <2> QED BY <1>2, LastOfSection, RowsOfSection, RowInSection
<1>4. Precedes(l, x)
  BY <1>2, <1>3 DEF Precedes
<1> QED BY <1>2, <1>3, <1>4, RanksOrder

LEMMA StepIs ==
  ASSUME NEW f, NEW x \in AnswerRows
  PROVE  LET section == PrevNonempty(x[1])
             row == LastIn(RowsIn(section))
             sibling == LastIn(OlderSiblings(x))
         IN  \/ RowBefore(f, x) = NoAnswerSet
             \/ RowBefore(f, x) \in AnswerRows
             \/ OlderSiblings(x) # {} /\ RowBefore(f, x) = f[sibling]
             \/ section # 0 /\ RowBefore(f, x) = f[row]
<1> DEFINE section == PrevNonempty(x[1])
           row == LastIn(RowsIn(section))
           sibling == LastIn(OlderSiblings(x))
           child == LastIn(ChildrenOf(row))
           InSection ==
             IF section = 0 THEN NoAnswerSet
             ELSE IF row \in skipping THEN f[row]
             ELSE IF ChildrenOf(row) # {} /\ child \notin skipping THEN child
             ELSE row
<1>1. RowBefore(f, x) =
        IF OlderSiblings(x) = {} THEN InSection
        ELSE IF sibling \in skipping THEN f[sibling]
        ELSE IF ChildrenOf(sibling) # {} THEN LastIn(ChildrenOf(sibling))
        ELSE IF HasQuestions(sibling[1]) THEN sibling
        ELSE InSection
  BY DEF RowBefore, OlderSiblings
<1>2. section # 0 => row \in AnswerRows
  BY LastBeforeIs
<1>3. OlderSiblings(x) # {} => sibling \in AnswerRows
  BY OlderIs
<1>4. ChildrenOf(row) # {} => child \in AnswerRows
  BY LastRow, ChildrenAreRows
<1>5. ChildrenOf(sibling) # {} => LastIn(ChildrenOf(sibling)) \in AnswerRows
  BY LastRow, ChildrenAreRows
<1> HIDE DEF section, row, sibling, child
<1>6. \/ InSection = NoAnswerSet \/ InSection \in AnswerRows
      \/ section # 0 /\ InSection = f[row]
  BY <1>2, <1>4
<1> HIDE DEF InSection
<1>7. \/ RowBefore(f, x) = NoAnswerSet
      \/ RowBefore(f, x) \in AnswerRows
      \/ OlderSiblings(x) # {} /\ RowBefore(f, x) = f[sibling]
      \/ section # 0 /\ RowBefore(f, x) = f[row]
  BY <1>1, <1>3, <1>5, <1>6
<1> QED BY <1>7 DEF section, row, sibling

(* A step backwards asks for rows before it only.                          *)
LEMMA StepLooksBack ==
  ASSUME NEW f, NEW g, NEW x \in AnswerRows,
         \A y \in AnswerRows : RankOf(y) < RankOf(x) => f[y] = g[y]
  PROVE  RowBefore(f, x) = RowBefore(g, x)
<1> DEFINE section == PrevNonempty(x[1])
           row == LastIn(RowsIn(section))
           sibling == LastIn(OlderSiblings(x))
           child == LastIn(ChildrenOf(row))
           InSection(h) ==
             IF section = 0 THEN NoAnswerSet
             ELSE IF row \in skipping THEN h[row]
             ELSE IF ChildrenOf(row) # {} /\ child \notin skipping THEN child
             ELSE row
           Step(h) ==
             IF OlderSiblings(x) = {} THEN InSection(h)
             ELSE IF sibling \in skipping THEN h[sibling]
             ELSE IF ChildrenOf(sibling) # {} THEN LastIn(ChildrenOf(sibling))
             ELSE IF HasQuestions(sibling[1]) THEN sibling
             ELSE InSection(h)
<1>1. RowBefore(f, x) = Step(f) /\ RowBefore(g, x) = Step(g)
  BY DEF RowBefore, OlderSiblings
<1>2. section # 0 => f[row] = g[row]
  BY LastBeforeIs
<1>3. OlderSiblings(x) # {} => f[sibling] = g[sibling]
  BY OlderIs
<1> HIDE DEF section, row, sibling, child
<1>4. InSection(f) = InSection(g)
  BY <1>2
<1> HIDE DEF InSection
<1>5. Step(f) = Step(g)
  BY <1>3, <1>4
<1> QED BY <1>1, <1>5

(* A function that follows the steps below some rank.                      *)
StepsBelow(f, n) == \A x \in AnswerRows : RankOf(x) < n => f[x] = RowBefore(f, x)

LEMMA OneRankMore ==
  ASSUME NEW f, NEW n \in Nat, StepsBelow(f, n)
  PROVE  \E g : StepsBelow(g, n + 1)
<1> DEFINE g == [x \in AnswerRows |-> IF RankOf(x) < n THEN f[x] ELSE RowBefore(f, x)]
<1>1. ASSUME NEW x \in AnswerRows, RankOf(x) < n + 1 PROVE g[x] = RowBefore(g, x)
  <2>1. RankOf(x) \in Int /\ \A y \in AnswerRows : RankOf(y) \in Int
    BY RankIs
  <2>2. \A y \in AnswerRows : RankOf(y) < RankOf(x) => f[y] = g[y]
    BY <1>1, <2>1
  <2>3. g[x] = RowBefore(f, x)
    BY <2>1 DEF StepsBelow
  <2> HIDE DEF g
  <2> QED BY <2>2, <2>3, StepLooksBack
<1> HIDE DEF g
<1>2. StepsBelow(g, n + 1)
  BY <1>1 DEF StepsBelow
<1> QED BY <1>2

LEMMA AllRanks ==
  ASSUME NEW n \in Nat
  PROVE  \E f : StepsBelow(f, n)
<1> DEFINE Missing == {m \in Nat : ~\E f : StepsBelow(f, m)}
<1>1. SUFFICES ASSUME Missing # {} PROVE FALSE
  OBVIOUS
<1>2. PICK m \in Missing : \A k \in Missing : m <= k
  <2>1. Missing \subseteq Nat
    OBVIOUS
  <2> HIDE DEF Missing
  <2> QED BY <1>1, <2>1, LeastNumber
<1>3. StepsBelow([x \in {} |-> 0], 0)
  BY RankIs DEF StepsBelow
<1>4. m # 0
  BY <1>3
<1>5. m - 1 \in Nat /\ m - 1 \notin Missing
  BY <1>2, <1>4
<1>6. PICK f : StepsBelow(f, m - 1)
  BY <1>5
<1>7. \E g : StepsBelow(g, (m - 1) + 1)
  BY <1>5, <1>6, OneRankMore
<1>8. (m - 1) + 1 = m
  OBVIOUS
<1> QED BY <1>7, <1>8

(* The walk backwards takes the steps it is defined by.                    *)
LEMMA BackIs ==
  \E f : \A x \in AnswerRows : PrevAnswerSet(x) = f[x] /\ f[x] = RowBefore(f, x)
<1>1. LastRank \in Nat /\ LastRank + 1 \in Nat
  BY PagesAssumption DEF LastRank
<1>2. PICK g : StepsBelow(g, LastRank + 1)
  BY <1>1, AllRanks
<1>3. \A x \in AnswerRows : g[x] = RowBefore(g, x)
  <2>1. \A x \in AnswerRows : RankOf(x) < LastRank + 1
    BY <1>1, RankIs
  <2> QED BY <1>2, <2>1 DEF StepsBelow
<1> DEFINE h == [x \in AnswerRows |-> g[x]]
<1>4. \A x \in AnswerRows : RowBefore(h, x) = RowBefore(g, x)
  <2>1. \A x \in AnswerRows : h[x] = g[x]
    OBVIOUS
  <2> HIDE DEF h
  <2> QED BY <2>1, StepLooksBack
<1>5. h = [x \in AnswerRows |-> RowBefore(h, x)]
  BY <1>3, <1>4
<1> HIDE DEF h
<1> DEFINE Prev == CHOOSE f : f = [x \in AnswerRows |-> RowBefore(f, x)]
<1>6. Prev = [x \in AnswerRows |-> RowBefore(Prev, x)]
  BY <1>5
<1>7. \A x \in AnswerRows : PrevAnswerSet(x) = Prev[x]
  BY DEF PrevAnswerSet
<1> HIDE DEF Prev
<1>8. \A x \in AnswerRows : Prev[x] = RowBefore(Prev, x)
  BY <1>6
<1> QED BY <1>7, <1>8

LEMMA PrevIsRow ==
  ASSUME NEW r \in AnswerRows
  PROVE  PrevAnswerSet(r) \in AnswerRows \union {NoAnswerSet}
<1>1. PICK f : \A x \in AnswerRows : PrevAnswerSet(x) = f[x] /\ f[x] = RowBefore(f, x)
  BY BackIs
<1> DEFINE Rows == AnswerRows \union {NoAnswerSet}
           Astray == {n \in Nat : \E x \in AnswerRows : RankOf(x) = n /\ f[x] \notin Rows}
<1>2. SUFFICES ASSUME Astray # {} PROVE FALSE
  <2>1. RankOf(r) \in Nat
    BY RankIs
  <2> QED BY <1>1, <2>1
<1>3. PICK n \in Astray : \A m \in Astray : n <= m
  <2>1. Astray \subseteq Nat
    OBVIOUS
  <2> HIDE DEF Astray
  <2> QED BY <1>2, <2>1, LeastNumber
<1>4. PICK x \in AnswerRows : RankOf(x) = n /\ f[x] \notin Rows
  BY <1>3
<1>5. ASSUME NEW y \in AnswerRows, RankOf(y) < RankOf(x) PROVE f[y] \in Rows
  <2>1. RankOf(y) \in Nat
    BY RankIs
  <2>2. RankOf(y) \notin Astray
    BY <1>3, <1>4, <1>5, <2>1
  <2> QED BY <2>1, <2>2
<1> HIDE DEF Astray
<1>6. \/ RowBefore(f, x) \in Rows
      \/ OlderSiblings(x) # {} /\ RowBefore(f, x) = f[LastIn(OlderSiblings(x))]
      \/ PrevNonempty(x[1]) # 0 /\ RowBefore(f, x) = f[LastIn(RowsIn(PrevNonempty(x[1])))]
  BY StepIs
<1> HIDE DEF Rows
<1>7. RowBefore(f, x) \in Rows
  BY <1>5, <1>6, OlderIs, LastBeforeIs
<1> QED BY <1>1, <1>4, <1>7
-----------------------------------------------------------------------------
(***************************************************************************)
(* Templates whose sections with questions have no subsections, do not     *)
(* repeat and are not optional.                                            *)
(***************************************************************************)
Plain ==
  \A s \in SomeQuestions : ~HasSubsections(s) /\ s \notin repeaters /\ s \notin optionals

OptionalSkipped == \A r \in skipping : r[1] \in optionals

LEMMA ChildInSubsection ==
  ASSUME NEW r \in AnswerRows, ChildrenOf(r) # {}
  PROVE  HasSubsections(r[1])
<1>1. PICK x \in AnswerRows : ParentOf(x) = r
  BY DEF ChildrenOf
<1>2. outline[x[1]] = r[1]
  BY <1>1, RowIsSomewhere DEF ParentOf
<1> QED BY <1>1, <1>2, RowIs DEF HasSubsections

(* Next from a section with questions leads to the next such section.      *)
LEMMA PlainNext ==
  ASSUME Plain, OptionalSkipped, NEW r \in AnswerRows, HasQuestions(r[1]),
         NextNonempty(r[1]) # 0
  PROVE  NextAnswerSet(r) \in RowsIn(NextNonempty(r[1]))
<1>1. r[1] \in SomeQuestions
  BY RowIs DEF SomeQuestions
<1>2. ChildrenOf(r) = {}
  BY <1>1, ChildInSubsection DEF Plain
<1>3. r[1] \notin repeaters
  BY <1>1 DEF Plain
<1>4. NextAnswerSet(r) = FirstIn(RowsIn(NextNonempty(r[1])))
  BY <1>2, <1>3 DEF NextAnswerSet
<1>5. NextNonempty(r[1]) \in Place
  <2>1. r[1] \in Int
    BY RowIs, PagesAssumption DEF Place
  <2> QED BY <2>1, NextNonemptyIs
<1> QED BY <1>4, <1>5, FirstOfSection

(* Prev leads to the one before.                                           *)
LEMMA PlainPrev ==
  ASSUME Plain, OptionalSkipped, NEW r \in AnswerRows, HasQuestions(r[1]),
         PrevNonempty(r[1]) # 0
  PROVE  PrevAnswerSet(r) \in RowsIn(PrevNonempty(r[1]))
<1> DEFINE s == PrevNonempty(r[1])
           l == LastIn(RowsIn(s))
<1>1. PICK f : PrevAnswerSet(r) = f[r] /\ f[r] = RowBefore(f, r)
  BY BackIs
<1>2. r[1] \in SomeQuestions
  BY RowIs DEF SomeQuestions
<1>3. r[1] \notin repeaters
  BY <1>2 DEF Plain
<1>4. s \in SomeQuestions /\ l \in AnswerRows /\ l[1] = s
  BY LastBeforeIs DEF SomeQuestions
<1>5. ~HasSubsections(s) /\ s \notin optionals
  BY <1>4 DEF Plain
<1>6. l \notin skipping
  BY <1>4, <1>5 DEF OptionalSkipped
<1>7. ChildrenOf(l) = {}
  BY <1>4, <1>5, ChildInSubsection
<1>8. RowBefore(f, r) = l
  BY <1>3, <1>6, <1>7 DEF RowBefore
<1>9. l \in RowsIn(s)
  BY <1>4, LastOfSection DEF SomeQuestions
<1> QED BY <1>1, <1>8, <1>9

-----------------------------------------------------------------------------
(***************************************************************************)
(* The pages of a plan: what they show exists, and what they ask belongs   *)
(* to the answerset they ask it in.                                        *)
(***************************************************************************)
OutlineOK ==
  /\ outline \in [Place -> Place \union {0}]
  /\ asks \in [Place -> {"nothing", "linear", "branching"}]

RowOK(p) == p.shows \in {"linear", "empty", "question"} => p.row \in AnswerRows

QuestionOK(p) ==
  p.shows = "question" =>
    /\ p = QuestionPage(p.row, p.asked, p.number)
    /\ p.asked \in SomeQuestions
    /\ Plain => p.asked = p.row[1]

PageInv == OutlineOK /\ OptionalSkipped /\ RowOK(page) /\ QuestionOK(page)

LEMMA SummaryOK == RowOK(Summary) /\ QuestionOK(Summary)
BY DEF RowOK, QuestionOK, Summary

LEMMA FailedOK == RowOK(Failed) /\ QuestionOK(Failed)
BY DEF RowOK, QuestionOK, Failed

LEMMA LinearOK ==
  ASSUME NEW r \in AnswerRows
  PROVE  RowOK(LinearPage(r)) /\ QuestionOK(LinearPage(r))
BY DEF RowOK, QuestionOK, LinearPage

LEMMA EmptyOK ==
  ASSUME NEW r \in AnswerRows
  PROVE  RowOK(EmptyPage(r)) /\ QuestionOK(EmptyPage(r))
BY DEF RowOK, QuestionOK, EmptyPage

LEMMA AskedOK ==
  ASSUME NEW r \in AnswerRows, NEW s \in SomeQuestions, NEW n, Plain => s = r[1]
  PROVE  RowOK(QuestionPage(r, s, n)) /\ QuestionOK(QuestionPage(r, s, n))
BY DEF RowOK, QuestionOK, QuestionPage

LEMMA FirstPageOK ==
  ASSUME OutlineOK, NEW r \in AnswerRows
  PROVE  RowOK(FirstPage(r)) /\ QuestionOK(FirstPage(r))
<1>1. r[1] \in Place /\ asks[r[1]] \in {"nothing", "linear", "branching"}
  BY RowIs DEF OutlineOK
<1>2. CASE asks[r[1]] = "nothing"
  BY <1>2, EmptyOK DEF FirstPage
<1>3. CASE asks[r[1]] = "linear"
  BY <1>3, LinearOK DEF FirstPage
<1>4. CASE asks[r[1]] = "branching"
  <2>1. r[1] \in SomeQuestions
    BY <1>1, <1>4 DEF SomeQuestions, HasQuestions
  <2>2. FirstPage(r) = QuestionPage(r, r[1], 1)
    BY <1>4 DEF FirstPage
  <2> QED BY <2>1, <2>2, AskedOK
<1> QED BY <1>1, <1>2, <1>3, <1>4

LEMMA SectionPageOK ==
  ASSUME NEW r \in AnswerRows \union {NoAnswerSet}, NEW n
  PROVE  RowOK(SectionPage(r, n)) /\ QuestionOK(SectionPage(r, n))
<1>1. CASE r = NoAnswerSet \/ ~HasQuestions(r[1])
  BY <1>1, FailedOK DEF SectionPage
<1>2. CASE r \in AnswerRows /\ HasQuestions(r[1])
  <2>1. r # NoAnswerSet
    BY <1>2, RowIsSomewhere
  <2>2. r[1] \in SomeQuestions
    BY <1>2, RowIs DEF SomeQuestions
  <2>3. CASE asks[r[1]] = "branching"
    <3>1. SectionPage(r, n) = QuestionPage(r, r[1], n)
      BY <1>2, <2>1, <2>3 DEF SectionPage
    <3> QED BY <1>2, <2>2, <3>1, AskedOK
  <2>4. CASE asks[r[1]] # "branching"
    <3>1. SectionPage(r, n) = LinearPage(r)
      BY <1>2, <2>1, <2>4 DEF SectionPage
    <3> QED BY <1>2, <3>1, LinearOK
  <2> QED BY <2>3, <2>4
<1> QED BY <1>1, <1>2

(* A question is asked in the row of the page if it is of the row's        *)
(* section, and in the row given, or not at all, otherwise.                *)
LEMMA AskInOK ==
  ASSUME NEW r \in AnswerRows \union {NoAnswerSet}, NEW s \in SomeQuestions, NEW n,
         page.row \in AnswerRows,
         Plain /\ s # page.row[1] /\ r # NoAnswerSet => r[1] = s
  PROVE  RowOK(AskIn(r, s, n)) /\ QuestionOK(AskIn(r, s, n))
<1>1. CASE s = page.row[1]
  <2>1. AskIn(r, s, n) = QuestionPage(page.row, s, n)
    BY <1>1 DEF AskIn
  <2> QED BY <1>1, <2>1, AskedOK
<1>2. CASE s # page.row[1] /\ r = NoAnswerSet
  BY <1>2, FailedOK DEF AskIn
<1>3. CASE s # page.row[1] /\ r # NoAnswerSet
  <2>1. AskIn(r, s, n) = QuestionPage(r, s, n)
    BY <1>3 DEF AskIn
  <2>2. Plain => s = r[1]
    BY <1>3
  <2>3. r \in AnswerRows
    BY <1>3
  <2> QED BY <2>1, <2>2, <2>3, AskedOK
<1> QED BY <1>1, <1>2, <1>3

-----------------------------------------------------------------------------
(***************************************************************************)
(* The steps.                                                              *)
(***************************************************************************)
LEMMA SameOutline ==
  ASSUME UNCHANGED outlineVars
  PROVE  /\ OutlineOK => OutlineOK'
         /\ Plain' <=> Plain
         /\ SomeQuestions' = SomeQuestions
         /\ UNCHANGED twice => AnswerRows' = AnswerRows
<1> USE DEF outlineVars
<1>1. OutlineOK => OutlineOK'
  BY DEF OutlineOK
<1>2. SomeQuestions' = SomeQuestions
  BY DEF SomeQuestions, HasQuestions
<1>3. Plain' <=> Plain
  BY <1>2 DEF Plain, HasSubsections
<1>4. UNCHANGED twice => AnswerRows' = AnswerRows
  BY DEF AnswerRows, RowsIn, Doubled, HigherUp
<1> QED BY <1>1, <1>2, <1>3, <1>4

LEMMA ShowsKeeps ==
  ASSUME NEW p, RowOK(p), QuestionOK(p), PageInv,
         UNCHANGED outlineVars, UNCHANGED twice, page' = p, OptionalSkipped'
  PROVE  PageInv'
<1>1. OutlineOK' /\ (Plain' <=> Plain) /\ SomeQuestions' = SomeQuestions /\ AnswerRows' = AnswerRows
  BY SameOutline DEF PageInv
<1>2. RowOK(page)'
  BY <1>1 DEF RowOK
<1>3. QuestionOK(page)'
  BY <1>1 DEF QuestionOK, QuestionPage
<1> QED BY <1>1, <1>2, <1>3 DEF PageInv

LEMMA VisitKeeps ==
  ASSUME NEW p, RowOK(p), QuestionOK(p), PageInv, Visit(p)
  PROVE  PageInv'
<1>1. OptionalSkipped'
  BY DEF PageInv, OptionalSkipped, Visit, outlineVars
<1>2. UNCHANGED outlineVars /\ UNCHANGED twice /\ page' = p
  BY DEF Visit
<1> QED BY <1>1, <1>2, ShowsKeeps

LEMMA PageIsRow ==
  ASSUME PageInv, page.shows \in {"linear", "empty", "question"}
  PROVE  page.row \in AnswerRows
BY DEF PageInv, RowOK

LEMMA OpenKeeps ==
  ASSUME PageInv, NEW s \in Place, Open(s)
  PROVE  PageInv'
<1>1. PICK r \in RowsIn(s) : Visit(FirstPage(r))
  BY DEF Open
<1>2. r \in AnswerRows
  BY RowsOfSection
<1>3. RowOK(FirstPage(r)) /\ QuestionOK(FirstPage(r))
  BY <1>2, FirstPageOK DEF PageInv
<1> QED BY <1>1, <1>3, VisitKeeps

LEMMA EditOneKeeps ==
  ASSUME PageInv, NEW r \in AnswerRows, NEW n, EditOne(r, n)
  PROVE  PageInv'
<1>1. r[1] \in SomeQuestions
  BY RowIs DEF EditOne, SomeQuestions
<1>2. Visit(QuestionPage(r, r[1], n))
  BY DEF EditOne
<1>3. RowOK(QuestionPage(r, r[1], n)) /\ QuestionOK(QuestionPage(r, r[1], n))
  BY <1>1, AskedOK
<1> QED BY <1>2, <1>3, VisitKeeps

LEMMA EditAllKeeps ==
  ASSUME PageInv, NEW r \in AnswerRows, EditAll(r)
  PROVE  PageInv'
BY LinearOK, VisitKeeps DEF EditAll

LEMMA JumpKeeps ==
  ASSUME PageInv, NEW n, Jump(n)
  PROVE  PageInv'
<1>1. page.shows = "question" /\ Visit([page EXCEPT !.number = n])
  BY DEF Jump
<1>2. /\ page = QuestionPage(page.row, page.asked, page.number)
      /\ page.asked \in SomeQuestions
      /\ Plain => page.asked = page.row[1]
  BY <1>1 DEF PageInv, QuestionOK
<1>3. [page EXCEPT !.number = n] = QuestionPage(page.row, page.asked, n)
  BY <1>2 DEF QuestionPage
<1>4. page.row \in AnswerRows
  BY <1>1, PageIsRow
<1>5. /\ RowOK(QuestionPage(page.row, page.asked, n))
      /\ QuestionOK(QuestionPage(page.row, page.asked, n))
  BY <1>2, <1>4, AskedOK
<1> QED BY <1>1, <1>3, <1>5, VisitKeeps

LEMMA PostAnswersKeeps ==
  ASSUME PageInv, PostAnswers
  PROVE  PageInv'
<1>1. OptionalSkipped'
  BY DEF PageInv, OptionalSkipped, PostAnswers, outlineVars
<1> QED BY <1>1, ShowsKeeps DEF PostAnswers, PageInv

LEMMA NextSectionKeeps ==
  ASSUME PageInv, NextSection
  PROVE  PageInv'
<1> DEFINE r == NextAnswerSet(page.row)
<1>1. r \in AnswerRows \union {NoAnswerSet}
  BY PageIsRow, NextIsRow DEF NextSection
<1>2. Visit(Summary) \/ Visit(SectionPage(r, 1))
  BY DEF NextSection
<1> HIDE DEF r
<1> QED BY <1>1, <1>2, SummaryOK, SectionPageOK, VisitKeeps

LEMMA PrevSectionKeeps ==
  ASSUME PageInv, PrevSection
  PROVE  PageInv'
<1> DEFINE r == PrevAnswerSet(page.row)
<1>1. r \in AnswerRows \union {NoAnswerSet}
  BY PageIsRow, PrevIsRow DEF PrevSection
<1>2. Visit(Summary) \/ Visit(SectionPage(r, QuestionsAsked))
  BY DEF PrevSection
<1> HIDE DEF r
<1> QED BY <1>1, <1>2, SummaryOK, SectionPageOK, VisitKeeps

LEMMA NextQuestionKeeps ==
  ASSUME PageInv, NextQuestion
  PROVE  PageInv'
<1> DEFINE r == NextAnswerSet(page.row)
           s == NextNonempty(page.asked)
<1>1. page.row \in AnswerRows /\ r \in AnswerRows \union {NoAnswerSet}
  BY PageIsRow, NextIsRow DEF NextQuestion
<1>2. page.asked \in SomeQuestions /\ (Plain => page.asked = page.row[1])
  BY DEF PageInv, QuestionOK, NextQuestion
<1>3. CASE \E n \in page.number + 1 .. QuestionsAsked : Visit(AskIn(r, page.asked, n))
  <2>1. PICK n : Visit(AskIn(r, page.asked, n))
    BY <1>3
  <2>2. RowOK(AskIn(r, page.asked, n)) /\ QuestionOK(AskIn(r, page.asked, n))
    BY <1>1, <1>2, AskInOK
  <2> QED BY <2>1, <2>2, VisitKeeps
<1>4. CASE Visit(IF s = 0 THEN Summary ELSE AskIn(r, s, 1))
  <2>1. CASE s = 0
    BY <1>4, <2>1, SummaryOK, VisitKeeps
  <2>2. CASE s # 0
    <3>1. page.asked \in Int
      BY <1>2, PagesAssumption DEF SomeQuestions, Place
    <3>2. s \in Place /\ s \in SomeQuestions
      BY <2>2, <3>1, NextNonemptyIs DEF SomeQuestions
    <3>3. ASSUME Plain PROVE r[1] = s
      <4>1. page.asked = page.row[1] /\ HasQuestions(page.row[1])
        BY <1>2, <3>3 DEF SomeQuestions
      <4>2. r \in RowsIn(s)
        BY <1>1, <2>2, <3>3, <4>1, PlainNext DEF PageInv
      <4> HIDE DEF r, s
      <4> QED BY <3>2, <4>2, RowInSection
    <3> HIDE DEF r, s
    <3>4. RowOK(AskIn(r, s, 1)) /\ QuestionOK(AskIn(r, s, 1))
      BY <1>1, <3>2, <3>3, AskInOK
    <3> QED BY <1>4, <2>2, <3>4, VisitKeeps
  <2> QED BY <2>1, <2>2
<1> QED BY <1>3, <1>4 DEF NextQuestion

LEMMA PrevQuestionKeeps ==
  ASSUME PageInv, PrevQuestion
  PROVE  PageInv'
<1> DEFINE r == PrevAnswerSet(page.row)
           s == PrevNonempty(page.asked)
<1>1. page.row \in AnswerRows /\ r \in AnswerRows \union {NoAnswerSet}
  BY PageIsRow, PrevIsRow DEF PrevQuestion
<1>2. page.asked \in SomeQuestions /\ (Plain => page.asked = page.row[1])
  BY DEF PageInv, QuestionOK, PrevQuestion
<1>3. CASE \E n \in 1 .. page.number - 1 : Visit(AskIn(r, page.asked, n))
  <2>1. PICK n : Visit(AskIn(r, page.asked, n))
    BY <1>3
  <2>2. RowOK(AskIn(r, page.asked, n)) /\ QuestionOK(AskIn(r, page.asked, n))
    BY <1>1, <1>2, AskInOK
  <2> QED BY <2>1, <2>2, VisitKeeps
<1>4. CASE s # 0 /\ \E n \in 1..QuestionsAsked : Visit(AskIn(r, s, n))
  <2>1. PICK n : Visit(AskIn(r, s, n))
    BY <1>4
  <2>2. page.asked \in Int
    BY <1>2, PagesAssumption DEF SomeQuestions, Place
  <2>3. s \in Place /\ s \in SomeQuestions
    BY <1>4, <2>2, PrevNonemptyIs DEF SomeQuestions
  <2>4. ASSUME Plain PROVE r[1] = s
    <3>1. page.asked = page.row[1] /\ HasQuestions(page.row[1])
      BY <1>2, <2>4 DEF SomeQuestions
    <3>2. r \in RowsIn(s)
      BY <1>1, <1>4, <2>4, <3>1, PlainPrev DEF PageInv
    <3> HIDE DEF r, s
    <3> QED BY <2>3, <3>2, RowInSection
  <2> HIDE DEF r, s
  <2>5. RowOK(AskIn(r, s, n)) /\ QuestionOK(AskIn(r, s, n))
    BY <1>1, <2>3, <2>4, AskInOK
  <2> QED BY <2>1, <2>5, VisitKeeps
<1> QED BY <1>3, <1>4 DEF PrevQuestion

LEMMA NeighbourKeeps ==
  ASSUME PageInv, NEW s \in Int, NEW r, s \in Place => r \in RowsIn(s), Neighbour(s, r)
  PROVE  PageInv'
<1>1. CASE s \notin Place
  BY <1>1, SummaryOK, VisitKeeps DEF Neighbour
<1>2. CASE s \in Place /\ HasQuestions(s)
  <2>1. Visit(QuestionPage(r, s, 1))
    BY <1>2 DEF Neighbour
  <2>2. r \in AnswerRows /\ r[1] = s /\ s \in SomeQuestions
    BY <1>2, RowsOfSection, RowInSection DEF SomeQuestions
  <2>3. RowOK(QuestionPage(r, s, 1)) /\ QuestionOK(QuestionPage(r, s, 1))
    BY <2>2, AskedOK
  <2> QED BY <2>1, <2>3, VisitKeeps
<1>3. CASE s \in Place /\ ~HasQuestions(s)
  <2>1. Visit(EmptyPage(r))
    BY <1>3 DEF Neighbour
  <2>2. r \in AnswerRows
    BY <1>3, RowsOfSection
  <2> QED BY <2>1, <2>2, EmptyOK, VisitKeeps
<1> QED BY <1>1, <1>2, <1>3

LEMMA EmptyNeighboursKeep ==
  ASSUME PageInv, NextOfEmpty \/ PrevOfEmpty
  PROVE  PageInv'
<1> DEFINE next == page.row[1] + 1
           prev == page.row[1] - 1
<1>1. page.row[1] \in Int
  BY PageIsRow, RowIs, PagesAssumption DEF NextOfEmpty, PrevOfEmpty, Neighbour, Place
<1>2. next \in Int /\ prev \in Int
  BY <1>1
<1>3. Neighbour(next, FirstIn(RowsIn(next))) \/ Neighbour(prev, LastIn(RowsIn(prev)))
  BY DEF NextOfEmpty, PrevOfEmpty
<1> HIDE DEF next, prev
<1>4. next \in Place => FirstIn(RowsIn(next)) \in RowsIn(next)
  BY FirstOfSection
<1>5. prev \in Place => LastIn(RowsIn(prev)) \in RowsIn(prev)
  BY LastOfSection
<1> QED BY <1>2, <1>3, <1>4, <1>5, NeighbourKeeps

(* A row that is added is of the section it is added to.                   *)
LEMMA AddedRows ==
  ASSUME NEW s \in Place, Add(s)
  PROVE  \E n \in {1, 2} :
           /\ <<s, n>> \in AnswerRows'
           /\ page' = IF asks[s] = "branching" THEN QuestionPage(<<s, n>>, s, 1)
                      ELSE LinearPage(<<s, n>>)
           /\ skipping' \subseteq skipping \union {<<s, n>>}
<1>1. <<s, 1>> \in AnswerRows'
  BY DEF AnswerRows, RowsIn
<1>2. CASE page' = (IF asks[s] = "branching" THEN QuestionPage(<<s, 1>>, s, 1)
                    ELSE LinearPage(<<s, 1>>))
           /\ skipping' = skipping \ {<<s, 1>>}
  BY <1>1, <1>2
<1>3. CASE /\ twice' = s
           /\ page' = IF asks[s] = "branching" THEN QuestionPage(<<s, 2>>, s, 1)
                      ELSE LinearPage(<<s, 2>>)
           /\ skipping' = skipping \union {<<s, 2>>}
  <2>1. twice' # 0
    BY <1>3, PagesAssumption DEF Place
  <2>2. Doubled(s)'
    BY <1>3, <2>1 DEF Doubled
  <2>3. <<s, 2>> \in RowsIn(s)'
    BY <2>2 DEF RowsIn
  <2>4. <<s, 2>> \in AnswerRows'
    BY <2>3 DEF AnswerRows
  <2> QED BY <1>3, <2>4
<1> QED BY <1>2, <1>3 DEF Add

LEMMA AddKeeps ==
  ASSUME PageInv, NEW s \in Place, Add(s)
  PROVE  PageInv'
<1>1. UNCHANGED outlineVars /\ s \in optionals
  BY DEF Add
<1>2. OutlineOK' /\ SomeQuestions' = SomeQuestions
  BY <1>1, SameOutline DEF PageInv
<1>3. PICK n \in {1, 2} :
        /\ <<s, n>> \in AnswerRows'
        /\ page' = IF asks[s] = "branching" THEN QuestionPage(<<s, n>>, s, 1)
                   ELSE LinearPage(<<s, n>>)
        /\ skipping' \subseteq skipping \union {<<s, n>>}
  BY AddedRows
<1>4. OptionalSkipped'
  <2>1. optionals' = optionals
    BY <1>1 DEF outlineVars
  <2> QED BY <1>1, <1>3, <2>1 DEF OptionalSkipped, PageInv
<1>5. CASE asks[s] = "branching"
  <2>1. page' = QuestionPage(<<s, n>>, s, 1)
    BY <1>3, <1>5
  <2>2. s \in SomeQuestions'
    BY <1>2, <1>5 DEF SomeQuestions, HasQuestions
  <2>3. RowOK(page)'
    BY <1>3, <2>1 DEF RowOK, QuestionPage
  <2>4. QuestionOK(page)'
    BY <2>1, <2>2 DEF QuestionOK, QuestionPage
  <2> QED BY <1>2, <1>4, <2>3, <2>4 DEF PageInv
<1>6. CASE asks[s] # "branching"
  <2>1. page' = LinearPage(<<s, n>>)
    BY <1>3, <1>6
  <2>2. RowOK(page)' /\ QuestionOK(page)'
    BY <1>3, <2>1 DEF RowOK, QuestionOK, LinearPage
  <2> QED BY <1>2, <1>4, <2>2 DEF PageInv
<1> QED BY <1>5, <1>6

-----------------------------------------------------------------------------
LEMMA InitPage == PagesInit => PageInv
<1> SUFFICES ASSUME PagesInit PROVE PageInv
  OBVIOUS
<1>1. OutlineOK
  BY DEF PagesInit, OutlineOK
<1>2. OptionalSkipped
  <2>1. skipping \subseteq UNION {RowsIn(s) : s \in optionals} /\ optionals \subseteq Place
    BY DEF PagesInit
  <2>2. ASSUME NEW r \in skipping PROVE r[1] \in optionals
    <3>1. PICK s \in optionals : r \in RowsIn(s)
      BY <2>1
    <3> QED BY <2>1, <3>1, RowInSection
  <2> QED BY <2>2 DEF OptionalSkipped
<1>3. RowOK(StartPage) /\ QuestionOK(StartPage)
  <2>1. 1 \in Place
    BY PagesAssumption DEF Place
  <2>2. <<1, 1>> \in AnswerRows
    BY <2>1, RowsAre, RowsOfSection
  <2> QED BY <1>1, <2>2, FirstPageOK, FailedOK DEF StartPage
<1>4. RowOK(page) /\ QuestionOK(page)
  BY <1>3, SummaryOK DEF PagesInit
<1> QED BY <1>1, <1>2, <1>4 DEF PageInv

LEMMA NextPage == PageInv /\ [PagesNext]_pageVars => PageInv'
<1> SUFFICES ASSUME PageInv, [PagesNext]_pageVars PROVE PageInv'
  OBVIOUS
<1>1. CASE UNCHANGED pageVars
  <2>1. UNCHANGED outlineVars /\ UNCHANGED twice /\ page' = page /\ skipping' = skipping
    BY <1>1 DEF pageVars, outlineVars
  <2>2. OptionalSkipped'
    BY <2>1 DEF PageInv, OptionalSkipped, outlineVars
  <2> QED BY <2>1, <2>2, ShowsKeeps DEF PageInv
<1>2. CASE GoToSummary
  BY <1>2, SummaryOK, VisitKeeps DEF GoToSummary
<1>3. CASE \E s \in Place : Open(s) \/ Add(s)
  BY <1>3, OpenKeeps, AddKeeps
<1>4. CASE \E r \in AnswerRows : EditAll(r) \/ \E n \in 1..QuestionsAsked : EditOne(r, n)
  BY <1>4, EditAllKeeps, EditOneKeeps
<1>5. CASE \E n \in 1..QuestionsAsked : Jump(n)
  BY <1>5, JumpKeeps
<1>6. CASE PostAnswers
  BY <1>6, PostAnswersKeeps
<1>7. CASE NextSection \/ PrevSection
  BY <1>7, NextSectionKeeps, PrevSectionKeeps
<1>8. CASE NextQuestion \/ PrevQuestion
  BY <1>8, NextQuestionKeeps, PrevQuestionKeeps
<1>9. CASE NextOfEmpty \/ PrevOfEmpty
  BY <1>9, EmptyNeighboursKeep
<1> QED BY <1>1, <1>2, <1>3, <1>4, <1>5, <1>6, <1>7, <1>8, <1>9 DEF PagesNext

(* An answer is stored in an answerset of the section of its question, on  *)
(* whatever way the page was reached, in a template no section of which    *)
(* has both questions and subsections, repeats or is optional: the page    *)
(* finds the question by position (get_next_question) and the answerset    *)
(* through the tree (get_next_answerset), and both arrive at one section.  *)
THEOREM AskedWhereStored == PagesSpec => []AskedInOwnSection
<1>1. PageInv => AskedInOwnSection
  BY DEF PageInv, QuestionOK, AskedInOwnSection, Plain
<1> QED BY <1>1, InitPage, NextPage, PTL DEF PagesSpec

-----------------------------------------------------------------------------
(***************************************************************************)
(* The sections above a section: the least set that contains the one above *)
(* it and, with a section, the one above that.                             *)
(***************************************************************************)
Upwards(C) == \A t \in C : t # 0 => outline[t] \in C
FromHereUp(s) ==
  {t \in Place : \A C \in SUBSET (Place \union {0}) : s \in C /\ Upwards(C) => t \in C}

LEMMA OneUp ==
  ASSUME OutlineOK, NEW s \in Place
  PROVE  FromHereUp(s) = {s} \union (IF outline[s] = 0 THEN {} ELSE FromHereUp(outline[s]))
<1>1. outline[s] \in Place \union {0} /\ s # 0
  BY PagesAssumption DEF OutlineOK, Place
<1>2. s \in FromHereUp(s)
  BY DEF FromHereUp
<1>3. ASSUME outline[s] # 0, NEW t \in FromHereUp(outline[s]) PROVE t \in FromHereUp(s)
  BY <1>1, <1>3 DEF FromHereUp, Upwards
<1>4. ASSUME outline[s] = 0, NEW t \in FromHereUp(s) PROVE t = s
  <2>1. Upwards({s, 0})
    BY <1>4 DEF Upwards
  <2>2. {s, 0} \in SUBSET (Place \union {0})
    OBVIOUS
  <2>3. t \in {s, 0} /\ t \in Place
    BY <1>4, <2>1, <2>2 DEF FromHereUp
  <2> QED BY <2>3, PagesAssumption DEF Place
<1>5. ASSUME outline[s] # 0, NEW t \in FromHereUp(s), t # s PROVE t \in FromHereUp(outline[s])
  <2>1. SUFFICES ASSUME NEW C \in SUBSET (Place \union {0}), outline[s] \in C, Upwards(C)
                 PROVE  t \in C
    BY <1>5 DEF FromHereUp
  <2>2. Upwards(C \union {s})
    BY <2>1 DEF Upwards
  <2>3. t \in C \union {s}
    BY <1>5, <2>1, <2>2 DEF FromHereUp
  <2> QED BY <1>5, <2>3
<1> QED BY <1>2, <1>3, <1>4, <1>5

LEMMA HigherUpIs ==
  ASSUME OutlineOK, NEW s \in Place
  PROVE  HigherUp(s) = IF outline[s] = 0 THEN {} ELSE {outline[s]} \union HigherUp(outline[s])
<1> DEFINE Steps(f) ==
             [t \in Place \union {0} |-> IF t = 0 THEN {} ELSE {t} \union f[outline[t]]]
           above == [t \in Place \union {0} |-> IF t = 0 THEN {} ELSE FromHereUp(t)]
           Up == CHOOSE f : f = Steps(f)
<1>1. \A t \in Place : outline[t] \in Place \union {0} /\ t # 0
  BY PagesAssumption DEF OutlineOK, Place
<1>2. above = Steps(above)
  <2>1. ASSUME NEW t \in Place
        PROVE  above[t] = {t} \union above[outline[t]]
    <3>1. above[t] = FromHereUp(t)
      BY <1>1
    <3>2. above[outline[t]] = IF outline[t] = 0 THEN {} ELSE FromHereUp(outline[t])
      BY <1>1
    <3> HIDE DEF above
    <3> QED BY <3>1, <3>2, OneUp
  <2>2. above[0] = {}
    OBVIOUS
  <2>3. above = [t \in Place \union {0} |-> above[t]]
    OBVIOUS
  <2> HIDE DEF above
  <2> QED BY <1>1, <2>1, <2>2, <2>3
<1>3. Up = Steps(Up)
  <2> HIDE DEF above, Steps
  <2> QED BY <1>2
<1>4. \A t \in Place \union {0} : Up[t] = IF t = 0 THEN {} ELSE {t} \union Up[outline[t]]
  <2> HIDE DEF Up
  <2> QED BY <1>3
<1>5. \A t \in Place : HigherUp(t) = Up[outline[t]]
  BY DEF HigherUp
<1> HIDE DEF Up
<1> QED BY <1>1, <1>4, <1>5

(* Between a section and one above it there is a subsection of the latter. *)
LEMMA SubsectionBetween ==
  ASSUME OutlineOK, \A t \in Place : outline[t] < t,
         NEW s \in Place, NEW u \in HigherUp(s)
  PROVE  \E t \in Place : t <= s /\ outline[t] = u
<1> DEFINE Odd == {n \in Place : \E v \in HigherUp(n) : ~\E t \in Place : t <= n /\ outline[t] = v}
<1>1. Odd \subseteq Nat
  BY PagesAssumption DEF Place
<1>2. SUFFICES ASSUME Odd # {} PROVE FALSE
  OBVIOUS
<1>3. PICK n \in Odd : \A m \in Odd : n <= m
  <2> HIDE DEF Odd
  <2> QED BY <1>1, <1>2, LeastNumber
<1>4. PICK v \in HigherUp(n) : ~\E t \in Place : t <= n /\ outline[t] = v
  BY <1>3
<1>5. n \in Place /\ n \in Int /\ outline[n] \in Place \union {0} /\ outline[n] < n
  BY <1>1, <1>3 DEF OutlineOK
<1>6. v # outline[n]
  BY <1>4, <1>5
<1>7. outline[n] # 0 /\ v \in HigherUp(outline[n])
  BY <1>4, <1>5, <1>6, HigherUpIs
<1>8. outline[n] \in Place /\ outline[n] \in Int
  BY <1>5, <1>7, PagesAssumption DEF Place
<1>9. outline[n] \notin Odd
  BY <1>3, <1>5, <1>8
<1>10. PICK t \in Place : t <= outline[n] /\ outline[t] = v
  BY <1>7, <1>8, <1>9
<1>11. t <= n
  BY <1>5, <1>8, <1>10, PagesAssumption DEF Place
<1> QED BY <1>4, <1>10, <1>11

LEMMA HigherHasSubsections ==
  ASSUME OutlineOK, \A t \in Place : outline[t] < t,
         NEW s \in Place, NEW u \in HigherUp(s)
  PROVE  HasSubsections(u)
BY SubsectionBetween DEF HasSubsections

(* Sections are numbered through the tree: the first subsection is next.   *)
LEMMA FirstSubsectionIsNext ==
  ASSUME OutlineOK, \A t \in Place : outline[t] < t, InOrder,
         NEW s \in Place, HasSubsections(s)
  PROVE  s + 1 \in Place /\ outline[s + 1] = s
<1> DEFINE Subs == {t \in Place : outline[t] = s}
<1>1. Subs \subseteq Nat /\ Subs # {}
  BY PagesAssumption DEF Place, HasSubsections
<1>2. PICK t \in Subs : \A u \in Subs : t <= u
  <2> HIDE DEF Subs
  <2> QED BY <1>1, LeastNumber
<1>3. t \in Place /\ outline[t] = s /\ s < t /\ t \in Int /\ s \in Int /\ s > 0
  BY <1>1, <1>2, PagesAssumption DEF Place
<1>4. CASE t = s + 1
  BY <1>3, <1>4
<1>5. CASE t # s + 1
  <2>1. t - 1 \in Place /\ t # 1
    BY <1>3, PagesAssumption DEF Place
  <2>2. s \in HigherUp(t - 1)
    BY <1>3, <1>5, <2>1 DEF InOrder
  <2>3. PICK u \in Place : u <= t - 1 /\ outline[u] = s
    BY <2>1, <2>2, SubsectionBetween
  <2>4. t <= u
    BY <1>2, <2>3
  <2> QED BY <1>3, <2>3, <2>4, PagesAssumption DEF Place
<1> QED BY <1>4, <1>5

-----------------------------------------------------------------------------
(***************************************************************************)
(* The flags: at most one section is optional, only one that repeats has   *)
(* two answersets, and the first of two is not skipped.                    *)
(***************************************************************************)
FlagsOK ==
  /\ \A s \in Place : outline[s] < s
  /\ optionals \subseteq Place /\ repeaters \subseteq Place
  /\ \A s, t \in optionals : s = t
  /\ twice \in repeaters \union {0}
  /\ twice \in optionals => <<twice, 1>> \notin skipping

WalkInv == PageInv /\ FlagsOK

LEMMA AtMostOne ==
  ASSUME NEW S, S \subseteq Place, Cardinality(S) <= 1
  PROVE  \A s, t \in S : s = t
<1>1. IsFiniteSet(Place)
  BY PagesAssumption, FS_Interval DEF Place
<1>2. IsFiniteSet(S)
  BY <1>1, FS_Subset
<1>3. Cardinality(S) \in Nat
  BY <1>2, FS_CardinalityType
<1>4. CASE Cardinality(S) = 0
  BY <1>2, <1>4, FS_EmptySet
<1>5. CASE Cardinality(S) = 1
  BY <1>2, <1>5, FS_Singleton
<1> QED BY <1>3, <1>4, <1>5

LEMMA InitFlags == PagesInit => FlagsOK
<1> SUFFICES ASSUME PagesInit PROVE FlagsOK
  OBVIOUS
<1>1. optionals \subseteq Place /\ Cardinality(optionals) <= 1 /\ repeaters \subseteq Place
  BY DEF PagesInit
<1>2. \A s, t \in optionals : s = t
  BY <1>1, AtMostOne
<1> QED BY <1>1, <1>2 DEF PagesInit, FlagsOK

LEMMA FlagsStay ==
  ASSUME FlagsOK, UNCHANGED outlineVars, UNCHANGED twice, skipping' \subseteq skipping
  PROVE  FlagsOK'
BY DEF FlagsOK, outlineVars

LEMMA AddKeepsFlags ==
  ASSUME FlagsOK, NEW s \in Place, Add(s)
  PROVE  FlagsOK'
<1>1. UNCHANGED outlineVars
  BY DEF Add
<1>2. CASE UNCHANGED twice /\ skipping' = skipping \ {<<s, 1>>}
  BY <1>1, <1>2, FlagsStay
<1>3. CASE /\ <<s, 1>> \notin skipping /\ s \in repeaters
           /\ twice' = s /\ skipping' = skipping \union {<<s, 2>>}
  <2>1. <<s, 1>> \notin skipping'
    BY <1>3
  <2> QED BY <1>1, <1>3, <2>1 DEF FlagsOK, outlineVars
<1> QED BY <1>2, <1>3 DEF Add

LEMMA NextFlags == FlagsOK /\ [PagesNext]_pageVars => FlagsOK'
<1> SUFFICES ASSUME FlagsOK, [PagesNext]_pageVars PROVE FlagsOK'
  OBVIOUS
<1>1. CASE \E s \in Place : Add(s)
  BY <1>1, AddKeepsFlags
<1>2. CASE PostAnswers
  BY <1>2, FlagsStay DEF PostAnswers
<1>3. ASSUME NEW p, Visit(p) PROVE FlagsOK'
  BY <1>3, FlagsStay DEF Visit
<1>4. CASE \/ \E s \in Place : Open(s)
           \/ \E r \in AnswerRows : EditAll(r) \/ \E n \in 1..QuestionsAsked : EditOne(r, n)
           \/ \E n \in 1..QuestionsAsked : Jump(n)
           \/ GoToSummary \/ NextSection \/ PrevSection
  BY <1>3, <1>4 DEF Open, EditAll, EditOne, Jump, GoToSummary, NextSection, PrevSection
<1>5. CASE NextQuestion \/ PrevQuestion
  BY <1>3, <1>5 DEF NextQuestion, PrevQuestion
<1>6. CASE NextOfEmpty \/ PrevOfEmpty
  BY <1>3, <1>6 DEF NextOfEmpty, PrevOfEmpty, Neighbour
<1>7. CASE UNCHANGED pageVars
  BY <1>7, FlagsStay DEF pageVars, outlineVars
<1> QED BY <1>1, <1>2, <1>4, <1>5, <1>6, <1>7 DEF PagesNext

-----------------------------------------------------------------------------
(***************************************************************************)
(* Rows when only sections without subsections repeat.                     *)
(***************************************************************************)
LEMMA OnlyTwiceDoubled ==
  ASSUME WalkInv, OnlyLeavesRepeat, NEW s \in Place
  PROVE  Doubled(s) <=> twice = s
<1>1. OutlineOK /\ \A t \in Place : outline[t] < t
  BY DEF WalkInv, PageInv, FlagsOK
<1>2. twice # 0 => twice \in repeaters /\ ~HasSubsections(twice)
  BY DEF WalkInv, FlagsOK, OnlyLeavesRepeat
<1>3. twice # 0 => twice \notin HigherUp(s)
  BY <1>1, <1>2, HigherHasSubsections
<1>4. s # 0
  BY PagesAssumption DEF Place
<1> QED BY <1>3, <1>4 DEF Doubled

LEMMA SecondRow ==
  ASSUME WalkInv, OnlyLeavesRepeat, NEW r \in AnswerRows, r[2] = 2
  PROVE  r[1] = twice /\ r[1] \in repeaters
<1>1. r[1] \in Place /\ r \in RowsIn(r[1])
  BY RowIs
<1>2. Doubled(r[1])
  BY <1>1 DEF RowsIn
<1>3. r[1] = twice
  BY <1>1, <1>2, OnlyTwiceDoubled
<1>4. twice # 0
  BY <1>2 DEF Doubled
<1> QED BY <1>3, <1>4 DEF WalkInv, FlagsOK

LEMMA ParentIs ==
  ASSUME WalkInv, OnlyLeavesRepeat, NEW r \in AnswerRows
  PROVE  ParentOf(r) = IF outline[r[1]] = 0 THEN NoAnswerSet ELSE <<outline[r[1]], 1>>
<1> DEFINE super == outline[r[1]]
<1>1. CASE super = 0
  BY <1>1 DEF ParentOf
<1>2. CASE super # 0
  <2>1. super \in Place
    BY <1>2, RowIs DEF WalkInv, PageInv, OutlineOK
  <2>2. HasSubsections(super)
    BY RowIs DEF HasSubsections
  <2>3. super \notin repeaters
    BY <2>2 DEF OnlyLeavesRepeat
  <2>4. super # twice
    BY <1>2, <2>3 DEF WalkInv, FlagsOK
  <2>5. ~Doubled(super)
    BY <2>1, <2>4, OnlyTwiceDoubled
  <2> QED BY <1>2, <2>5 DEF ParentOf
<1> QED BY <1>1, <1>2

LEMMA ChildrenAre ==
  ASSUME WalkInv, OnlyLeavesRepeat, NEW r \in AnswerRows, r[2] = 1
  PROVE  ChildrenOf(r) = {x \in AnswerRows : outline[x[1]] = r[1]}
<1>1. r = <<r[1], 1>> /\ r[1] # 0
  BY RowIs, PagesAssumption DEF Place
<1>2. ASSUME NEW x \in AnswerRows PROVE ParentOf(x) = r <=> outline[x[1]] = r[1]
  <2>1. ParentOf(x) = IF outline[x[1]] = 0 THEN NoAnswerSet ELSE <<outline[x[1]], 1>>
    BY ParentIs
  <2> QED BY <1>1, <2>1 DEF NoAnswerSet
<1> QED BY <1>2 DEF ChildrenOf

LEMMA SameSectionSiblings ==
  ASSUME WalkInv, OnlyLeavesRepeat, NEW r \in AnswerRows, NEW x \in AnswerRows, x[1] = r[1]
  PROVE  x \in FullSiblings(r)
BY ParentIs DEF FullSiblings, AllSiblings

LEMMA PrecedesOneWay ==
  ASSUME NEW r \in AnswerRows, NEW x \in AnswerRows
  PROVE  ~(Precedes(r, x) /\ Precedes(x, r)) /\ ~Precedes(r, r)
BY RowIs, PagesAssumption DEF Precedes, Place

-----------------------------------------------------------------------------
(***************************************************************************)
(* Next.                                                                   *)
(***************************************************************************)
GoesOn(r, n) ==
  Precedes(r, n) /\ \A x \in Wanted : ~(Precedes(r, x) /\ Precedes(x, n))

LEMMA OnToChild ==
  ASSUME WalkInv, OnlyLeavesRepeat, InOrder, NEW r \in AnswerRows, ChildrenOf(r) # {}
  PROVE  GoesOn(r, FirstIn(ChildrenOf(r)))
<1> DEFINE c == FirstIn(ChildrenOf(r))
<1>1. HasSubsections(r[1]) /\ r[1] \in Place
  BY ChildInSubsection, RowIs
<1>2. r[1] \notin repeaters
  BY <1>1 DEF OnlyLeavesRepeat
<1>3. r[2] = 1
  BY <1>2, SecondRow, RowIs
<1>4. ChildrenOf(r) = {x \in AnswerRows : outline[x[1]] = r[1]}
  BY <1>3, ChildrenAre
<1>5. c \in ChildrenOf(r) /\ \A x \in ChildrenOf(r) : x = c \/ Precedes(c, x)
  BY FirstRow, ChildrenAreRows
<1>6. c \in AnswerRows /\ outline[c[1]] = r[1] /\ c[1] \in Place
  BY <1>4, <1>5, RowIs
<1> HIDE DEF c
<1>7. OutlineOK /\ \A t \in Place : outline[t] < t
  BY DEF WalkInv, PageInv, FlagsOK
<1>8. r[1] + 1 \in Place /\ outline[r[1] + 1] = r[1]
  BY <1>1, <1>7, FirstSubsectionIsNext
<1>9. r[1] < c[1] /\ r[1] \in Int /\ c[1] \in Int
  BY <1>1, <1>6, <1>7, PagesAssumption DEF Place
<1>10. <<r[1] + 1, 1>> \in ChildrenOf(r)
  <2>1. <<r[1] + 1, 1>> \in AnswerRows
    BY <1>8, RowsAre, RowsOfSection
  <2> QED BY <1>4, <1>8, <2>1
<1>11. c[1] = r[1] + 1
  <2>1. c[1] <= r[1] + 1
    BY <1>5, <1>9, <1>10 DEF Precedes
  <2> QED BY <1>9, <2>1
<1>12. ASSUME NEW x \in Wanted, Precedes(r, x), Precedes(x, c) PROVE FALSE
  <2>1. x \in AnswerRows /\ x[1] \in Int /\ x[2] \in {1, 2}
    BY RowIs, PagesAssumption DEF Wanted, Place
  <2>2. r[1] <= x[1] /\ x[1] <= c[1]
    BY <1>9, <1>12, <2>1 DEF Precedes
  <2>3. CASE x[1] = r[1]
    <3>1. x[2] = 2
      BY <1>3, <1>9, <1>12, <2>1, <2>3 DEF Precedes
    <3> QED BY <1>2, <2>1, <2>3, <3>1, SecondRow
  <2>4. CASE x[1] = c[1]
    <3>1. x \in ChildrenOf(r)
      BY <1>4, <1>6, <2>1, <2>4
    <3> QED BY <1>5, <1>6, <1>12, <2>1, <3>1, PrecedesOneWay
  <2> QED BY <1>9, <1>11, <2>1, <2>2, <2>3, <2>4
<1>13. Precedes(r, c)
  BY <1>9 DEF Precedes
<1> QED BY <1>12, <1>13 DEF GoesOn, c

LEMMA OnToYounger ==
  ASSUME WalkInv, OnlyLeavesRepeat, NEW r \in AnswerRows,
         NEW Y, Y = {x \in FullSiblings(r) : r[1] \in repeaters /\ Precedes(r, x)}, Y # {}
  PROVE  GoesOn(r, FirstIn(Y))
<1>1. Y \subseteq AnswerRows
  BY DEF FullSiblings, AllSiblings
<1>2. FirstIn(Y) \in Y /\ \A x \in Y : x = FirstIn(Y) \/ Precedes(FirstIn(Y), x)
  BY <1>1, FirstRow
<1>3. /\ FirstIn(Y) \in AnswerRows /\ FirstIn(Y)[1] = r[1]
      /\ Precedes(r, FirstIn(Y)) /\ r[1] \in repeaters
  BY <1>1, <1>2 DEF FullSiblings
<1>4. ASSUME NEW x \in Wanted, Precedes(r, x), Precedes(x, FirstIn(Y)) PROVE FALSE
  <2>1. x \in AnswerRows /\ x[1] \in Int /\ r[1] \in Int
    BY RowIs, PagesAssumption DEF Wanted, Place
  <2>2. x[1] = r[1]
    BY <1>3, <1>4, <2>1 DEF Precedes
  <2>3. x \in Y
    BY <1>3, <1>4, <2>1, <2>2, SameSectionSiblings
  <2> QED BY <1>2, <1>3, <1>4, <2>1, <2>3, PrecedesOneWay
<1> QED BY <1>3, <1>4 DEF GoesOn

LEMMA OnToSection ==
  ASSUME WalkInv, OnlyLeavesRepeat, NEW r \in AnswerRows, NextNonempty(r[1]) # 0,
         \/ r \in skipping
         \/ {x \in FullSiblings(r) : r[1] \in repeaters /\ Precedes(r, x)} = {}
  PROVE  GoesOn(r, FirstIn(RowsIn(NextNonempty(r[1]))))
<1> DEFINE s == NextNonempty(r[1])
           n == FirstIn(RowsIn(s))
<1>1. r[1] \in Int /\ r[2] \in {1, 2} /\ r = <<r[1], r[2]>>
  BY RowIs, PagesAssumption DEF Place
<1>2. /\ s \in Place /\ s > r[1] /\ s \in Int
      /\ \A t \in SomeQuestions : t > r[1] => s <= t
  BY <1>1, NextNonemptyIs, PagesAssumption DEF Place
<1>3. /\ n \in RowsIn(s) /\ n \in AnswerRows /\ n[1] = s
      /\ \A x \in RowsIn(s) : x = n \/ Precedes(n, x)
  <2> HIDE DEF s
  <2> QED BY <1>2, FirstRow, RowsOfSection, RowInSection
<1> HIDE DEF n
<1>4. Precedes(r, n)
  BY <1>2, <1>3 DEF Precedes
<1>5. ASSUME NEW x \in Wanted, Precedes(r, x), Precedes(x, n) PROVE FALSE
  <2>1. /\ x \in AnswerRows /\ x[1] \in Int /\ x[2] \in {1, 2} /\ x[1] \in SomeQuestions
        /\ x \in RowsIn(x[1])
    BY RowIs, PagesAssumption DEF Wanted, SomeQuestions, Place
  <2>2. CASE x[1] = r[1]
    <3>1. x[2] = 2 /\ r[2] = 1
      BY <1>1, <1>5, <2>1, <2>2 DEF Precedes
    <3>2. r[1] = twice /\ r[1] \in repeaters
      BY <2>1, <2>2, <3>1, SecondRow
    <3>3. r \in skipping
      BY <1>5, <2>1, <2>2, <3>2, SameSectionSiblings
    <3>4. twice \in optionals
      BY <3>2, <3>3 DEF WalkInv, PageInv, OptionalSkipped
    <3>5. r = <<twice, 1>>
      BY <1>1, <3>1, <3>2
    <3> QED BY <3>3, <3>4, <3>5 DEF WalkInv, FlagsOK
  <2>3. CASE x[1] # r[1]
    <3>1. x[1] > r[1]
      BY <1>1, <1>5, <2>1, <2>3 DEF Precedes
    <3>2. s <= x[1]
      BY <1>2, <2>1, <3>1
    <3>3. x[1] = s
      BY <1>2, <1>3, <1>5, <2>1, <3>2 DEF Precedes
    <3> HIDE DEF s
    <3> QED BY <1>3, <1>5, <2>1, <3>3, PrecedesOneWay
  <2> QED BY <2>2, <2>3
<1> QED BY <1>4, <1>5 DEF GoesOn, n

LEMMA NextIsNext ==
  ASSUME WalkInv, OnlyLeavesRepeat, InOrder, NEW r \in AnswerRows,
         NextAnswerSet(r) # NoAnswerSet
  PROVE  GoesOn(r, NextAnswerSet(r))
<1> DEFINE Y == {x \in FullSiblings(r) : r[1] \in repeaters /\ Precedes(r, x)}
<1>1. CASE r \notin skipping /\ ChildrenOf(r) # {}
  <2>1. NextAnswerSet(r) = FirstIn(ChildrenOf(r))
    BY <1>1 DEF NextAnswerSet
  <2> QED BY <1>1, <2>1, OnToChild
<1>2. CASE r \notin skipping /\ ChildrenOf(r) = {} /\ Y # {}
  <2>1. NextAnswerSet(r) = FirstIn(Y)
    BY <1>2 DEF NextAnswerSet
  <2> QED BY <1>2, <2>1, OnToYounger
<1>3. CASE r \in skipping \/ (ChildrenOf(r) = {} /\ Y = {})
  <2>1. /\ NextNonempty(r[1]) # 0
        /\ NextAnswerSet(r) = FirstIn(RowsIn(NextNonempty(r[1])))
    BY <1>3 DEF NextAnswerSet
  <2> QED BY <1>3, <2>1, OnToSection
<1> QED BY <1>1, <1>2, <1>3

LEMMA NextSectionGoesOn ==
  ASSUME WalkInv, OnlyLeavesRepeat, InOrder, NextSection
  PROVE  NextGoesOn
<1> DEFINE n == NextAnswerSet(page.row)
<1>1. page.row \in AnswerRows
  BY PageIsRow DEF WalkInv, NextSection
<1>2. page' = Summary \/ page' = SectionPage(n, 1)
  BY DEF NextSection, Visit
<1>3. SUFFICES ASSUME page'.shows \notin {"summary", "failed"}
      PROVE  GoesOn(page.row, page'.row)
  BY DEF NextGoesOn, GoesOn
<1>4. n # NoAnswerSet /\ (page' = QuestionPage(n, n[1], 1) \/ page' = LinearPage(n))
  <2> HIDE DEF n
  <2> QED BY <1>2, <1>3 DEF SectionPage, Summary, Failed
<1>5. page'.row = n
  <2> HIDE DEF n
  <2> QED BY <1>4 DEF QuestionPage, LinearPage
<1> QED BY <1>1, <1>4, <1>5, NextIsNext

-----------------------------------------------------------------------------
(***************************************************************************)
(* Prev.                                                                   *)
(***************************************************************************)
WantedBefore(r) == {x \in Wanted : Precedes(x, r)}
LeavesAsk == \A s \in SomeQuestions : ~HasSubsections(s)
FirstsUsed == \A s \in repeaters : <<s, 1>> \notin skipping
Back(r, p) == p = IF WantedBefore(r) = {} THEN NoAnswerSet ELSE LastIn(WantedBefore(r))

(* What is wanted before a row that does not repeat is in the section with *)
(* questions before its own, or earlier.                                   *)
LEMMA WantedIsEarlier ==
  ASSUME WalkInv, OnlyLeavesRepeat, NEW r \in AnswerRows, r[1] \notin repeaters,
         NEW x \in WantedBefore(r)
  PROVE  /\ x \in AnswerRows /\ x \notin skipping /\ x[1] \in SomeQuestions
         /\ x \in RowsIn(x[1]) /\ x[1] \in Int
         /\ x[1] < r[1]
         /\ PrevNonempty(r[1]) # 0 /\ x[1] <= PrevNonempty(r[1])
<1>1. x \in AnswerRows /\ x \notin skipping /\ HasQuestions(x[1]) /\ Precedes(x, r)
  BY DEF WantedBefore, Wanted
<1>2. x[1] \in SomeQuestions /\ x[1] \in Int /\ r[1] \in Int /\ x \in RowsIn(x[1])
  BY <1>1, RowIs, PagesAssumption DEF SomeQuestions, Place
<1>3. x[1] # r[1]
  <2> SUFFICES ASSUME x[1] = r[1] PROVE FALSE
    OBVIOUS
  <2>1. x[2] \in {1, 2} /\ r[2] \in {1, 2} /\ x[2] < r[2]
    BY <1>1, <1>2, RowIs DEF Precedes
  <2>2. r[2] = 2
    BY <2>1
  <2> QED BY <2>2, SecondRow
<1>4. x[1] < r[1]
  BY <1>1, <1>2, <1>3 DEF Precedes
<1> QED BY <1>1, <1>2, <1>4, PrevNonemptyIs

LEMMA WantedRow ==
  ASSUME NEW r \in AnswerRows, NEW l \in AnswerRows, l[1] \in SomeQuestions,
         l \notin skipping, Precedes(l, r)
  PROVE  l \in WantedBefore(r)
BY DEF WantedBefore, Wanted, SomeQuestions

(* It is the last wanted if no other of its section comes after it.        *)
LEMMA LastWanted ==
  ASSUME WalkInv, OnlyLeavesRepeat, NEW r \in AnswerRows, r[1] \notin repeaters,
         NEW l \in WantedBefore(r),
         \A x \in WantedBefore(r) : x[1] <= l[1],
         \A x \in WantedBefore(r) : x \in RowsIn(l[1]) => x = l \/ Precedes(x, l)
  PROVE  Back(r, l)
<1>1. WantedBefore(r) \subseteq AnswerRows
  BY DEF WantedBefore, Wanted
<1>2. ASSUME NEW x \in WantedBefore(r) PROVE x = l \/ Precedes(x, l)
  <2>1. x \in RowsIn(x[1]) /\ x[1] \in Int /\ l[1] \in Int
    BY WantedIsEarlier
  <2>2. CASE x[1] = l[1]
    BY <2>1, <2>2
  <2>3. CASE x[1] # l[1]
    BY <2>1, <2>3 DEF Precedes
  <2> QED BY <2>2, <2>3
<1>3. LastIn(WantedBefore(r)) = l
  BY <1>1, <1>2, LastIs
<1> QED BY <1>3 DEF Back

(* The last row of the section before, if it is used.                      *)
LEMMA StepToSection ==
  ASSUME LeavesAsk, NEW f, NEW r \in AnswerRows, r[1] \notin repeaters,
         PrevNonempty(r[1]) # 0, LastIn(RowsIn(PrevNonempty(r[1]))) \notin skipping
  PROVE  RowBefore(f, r) = LastIn(RowsIn(PrevNonempty(r[1])))
<1> DEFINE s == PrevNonempty(r[1])
           l == LastIn(RowsIn(s))
<1>1. s \in SomeQuestions /\ l \in AnswerRows /\ l[1] = s
  BY LastBeforeIs DEF SomeQuestions
<1>2. ChildrenOf(l) = {}
  BY <1>1, ChildInSubsection DEF LeavesAsk
<1> QED BY <1>2 DEF RowBefore

LEMMA BackToUsed ==
  ASSUME WalkInv, OnlyLeavesRepeat, NEW r \in AnswerRows, r[1] \notin repeaters,
         PrevNonempty(r[1]) # 0, LastIn(RowsIn(PrevNonempty(r[1]))) \notin skipping
  PROVE  Back(r, LastIn(RowsIn(PrevNonempty(r[1]))))
<1> DEFINE s == PrevNonempty(r[1])
           l == LastIn(RowsIn(s))
<1>1. /\ s \in Place /\ s \in SomeQuestions /\ l \in AnswerRows /\ l[1] = s
      /\ RankOf(l) < RankOf(r)
  BY LastBeforeIs DEF SomeQuestions
<1>2. l \in WantedBefore(r)
  BY <1>1, RanksOrder, WantedRow
<1>3. \A x \in RowsIn(s) : x = l \/ Precedes(x, l)
  <2> HIDE DEF s
  <2> QED BY <1>1, LastRow, RowsOfSection
<1>4. \A x \in WantedBefore(r) : x[1] <= s
  BY WantedIsEarlier
<1> HIDE DEF s, l
<1>5. Back(r, l)
  BY <1>1, <1>2, <1>3, <1>4, LastWanted
<1> QED BY <1>5 DEF s, l

(* Over a second row that is skipped to the first.                         *)
LEMMA BackToFirst ==
  ASSUME WalkInv, OnlyLeavesRepeat, LeavesAsk, NEW r \in AnswerRows, r[1] \notin repeaters,
         NEW s, s = PrevNonempty(r[1]), s # 0, s \in repeaters,
         <<s, 1>> \notin skipping, LastIn(RowsIn(s)) \in skipping, NEW f
  PROVE  Back(r, RowBefore(f, LastIn(RowsIn(s))))
<1> DEFINE l == LastIn(RowsIn(s))
           k == <<s, 1>>
<1>1. s \in Place /\ s \in SomeQuestions /\ l \in AnswerRows /\ l[1] = s
  BY LastBeforeIs DEF SomeQuestions
<1>2. l \in RowsIn(s) /\ k \in RowsIn(s) /\ k \in AnswerRows
  BY <1>1, RowsAre, LastOfSection, RowsOfSection
<1>3. l = <<s, 2>> /\ RowsIn(s) = {k, l}
  BY <1>1, <1>2, RowsAre
<1>4. s \in Int /\ s < r[1] /\ r[1] \in Int
  BY <1>1, RowIs, PrevNonemptyIs, PagesAssumption DEF Place
<1>5. Precedes(k, l) /\ Precedes(k, r)
  BY <1>3, <1>4 DEF Precedes
<1>6. RowBefore(f, l) = k
  <2>1. k \in OlderSiblings(l)
    BY <1>1, <1>2, <1>5, SameSectionSiblings DEF OlderSiblings, FullSiblings
  <2>2. OlderSiblings(l) \subseteq AnswerRows
    BY DEF OlderSiblings, AllSiblings
  <2>3. ASSUME NEW y \in OlderSiblings(l) PROVE y = k \/ Precedes(y, k)
    <3>1. Precedes(y, l) /\ y \in AnswerRows
      BY <2>2 DEF OlderSiblings
    <3>2. y[1] \in Int /\ y[2] \in {1, 2} /\ y = <<y[1], y[2]>>
      BY <3>1, RowIs, PagesAssumption DEF Place
    <3>3. y[1] < s \/ (y[1] = s /\ y[2] = 1)
      BY <1>3, <3>1, <3>2 DEF Precedes
    <3> QED BY <1>4, <3>2, <3>3 DEF Precedes
  <2>4. LastIn(OlderSiblings(l)) = k
    BY <2>1, <2>2, <2>3, LastIs
  <2>5. ChildrenOf(k) = {}
    BY <1>1, <1>2, ChildInSubsection DEF LeavesAsk
  <2>6. HasQuestions(s)
    BY <1>1 DEF SomeQuestions
  <2> HIDE DEF l
  <2> QED BY <2>1, <2>4, <2>5, <2>6 DEF RowBefore, OlderSiblings
<1>7. k \in WantedBefore(r)
  BY <1>1, <1>2, <1>5, WantedRow
<1>8. \A x \in WantedBefore(r) : x[1] <= s /\ x \notin skipping
  BY WantedIsEarlier
<1>9. \A x \in WantedBefore(r) : x \in RowsIn(s) => x = k
  BY <1>3, <1>8
<1>10. Back(r, k)
  <2>1. k[1] = s
    OBVIOUS
  <2> HIDE DEF k, l
  <2> QED BY <1>7, <1>8, <1>9, <2>1, LastWanted
<1> QED BY <1>6, <1>10

(* Over a section that is skipped to the one before that, if any.          *)
LEMMA BackOverSection ==
  ASSUME WalkInv, OnlyLeavesRepeat, LeavesAsk, NEW r \in AnswerRows, r[1] \notin repeaters,
         NEW s, s = PrevNonempty(r[1]), s # 0, s \notin repeaters,
         LastIn(RowsIn(s)) \in skipping, NEW f
  PROVE  Back(r, RowBefore(f, LastIn(RowsIn(s))))
<1> DEFINE l == LastIn(RowsIn(s))
<1>1. s \in Place /\ s \in SomeQuestions /\ l \in AnswerRows /\ l[1] = s /\ s \in Int
  BY LastBeforeIs, PagesAssumption DEF SomeQuestions, Place
<1>2. RowsIn(s) = {l}
  <2>1. ~Doubled(s)
    BY <1>1, OnlyTwiceDoubled DEF WalkInv, FlagsOK, Doubled
  <2>2. RowsIn(s) = {<<s, 1>>}
    BY <2>1 DEF RowsIn
  <2>3. l \in RowsIn(s)
    BY <1>1, LastOfSection
  <2> QED BY <2>2, <2>3
<1>3. s \in optionals
  BY <1>1 DEF WalkInv, PageInv, OptionalSkipped
<1> HIDE DEF l
<1>4. WantedBefore(r) = WantedBefore(l)
  <2>1. ASSUME NEW x \in WantedBefore(r) PROVE x \in WantedBefore(l)
    <3>1. /\ x \in Wanted /\ x \notin skipping /\ x \in RowsIn(x[1])
          /\ x[1] <= s /\ x[1] \in Int
      BY WantedIsEarlier DEF WantedBefore
    <3>2. x[1] # s
      BY <1>2, <3>1 DEF l
    <3>3. Precedes(x, l)
      BY <1>1, <3>1, <3>2 DEF Precedes
    <3> QED BY <3>1, <3>3 DEF WantedBefore
  <2>2. ASSUME NEW x \in WantedBefore(l) PROVE x \in WantedBefore(r)
    <3>1. x \in Wanted /\ x[1] < s /\ x[1] \in Int
      BY <1>1, WantedIsEarlier DEF WantedBefore
    <3>2. s < r[1] /\ r[1] \in Int
      BY <1>1, RowIs, PrevNonemptyIs, PagesAssumption DEF Place
    <3>3. Precedes(x, r)
      BY <1>1, <3>1, <3>2 DEF Precedes
    <3> QED BY <3>1, <3>3 DEF WantedBefore
  <2> QED BY <2>1, <2>2
<1>5. CASE PrevNonempty(s) = 0
  <2>1. WantedBefore(l) = {}
    BY <1>1, <1>5, WantedIsEarlier
  <2>2. RowBefore(f, l) = NoAnswerSet
    BY <1>1, <1>5 DEF RowBefore
  <2> QED BY <1>4, <2>1, <2>2 DEF Back, l
<1>6. CASE PrevNonempty(s) # 0
  <2> DEFINE m == LastIn(RowsIn(PrevNonempty(s)))
  <2>1. /\ PrevNonempty(s) \in Place /\ m \in AnswerRows /\ m[1] = PrevNonempty(s)
        /\ PrevNonempty(s) < s
    BY <1>1, <1>6, LastBeforeIs, PrevNonemptyIs
  <2>2. m \notin skipping
    <3>1. PrevNonempty(s) # s
      BY <1>1, <2>1
    <3> HIDE DEF m
    <3> QED BY <1>3, <2>1, <3>1 DEF WalkInv, PageInv, OptionalSkipped, FlagsOK
  <2>3. RowBefore(f, l) = m
    BY <1>1, <1>6, <2>2, StepToSection
  <2>4. Back(l, m)
    BY <1>1, <1>6, <2>2, BackToUsed
  <2> HIDE DEF m
  <2> QED BY <1>4, <2>3, <2>4 DEF Back, l
<1> QED BY <1>5, <1>6

LEMMA PrevIsBefore ==
  ASSUME WalkInv, OnlyLeavesRepeat, LeavesAsk, FirstsUsed,
         NEW r \in AnswerRows, r[1] \notin repeaters, PrevNonempty(r[1]) # 0
  PROVE  Back(r, PrevAnswerSet(r))
<1> DEFINE s == PrevNonempty(r[1])
           l == LastIn(RowsIn(s))
<1>1. PICK f : \A x \in AnswerRows : PrevAnswerSet(x) = f[x] /\ f[x] = RowBefore(f, x)
  BY BackIs
<1>2. l \in AnswerRows
  BY LastBeforeIs
<1>3. CASE l \notin skipping
  BY <1>1, <1>3, StepToSection, BackToUsed
<1>4. CASE l \in skipping
  <2>1. OlderSiblings(r) = {}
    BY DEF OlderSiblings
  <2>2. RowBefore(f, r) = f[l]
    BY <1>4, <2>1 DEF RowBefore, OlderSiblings
  <2>3. PrevAnswerSet(r) = RowBefore(f, l)
    BY <1>1, <1>2, <2>2
  <2>4. CASE s \in repeaters
    BY <1>4, <2>3, <2>4, BackToFirst DEF FirstsUsed
  <2>5. CASE s \notin repeaters
    BY <1>4, <2>3, <2>5, BackOverSection
  <2> QED BY <2>4, <2>5
<1> QED BY <1>3, <1>4

LEMMA PrevSectionGoesBack ==
  ASSUME WalkInv, OnlyLeavesRepeat, LeavesAsk, FirstsUsed, PrevSection,
         page.row[1] \notin repeaters
  PROVE  PrevGoesBack
<1> SUFFICES ASSUME PrevNonempty(page.row[1]) # 0
             PROVE  page' = IF WantedBefore(page.row) = {} THEN Failed
                            ELSE SectionPage(LastIn(WantedBefore(page.row)), QuestionsAsked)
  BY DEF PrevGoesBack, WantedBefore
<1>1. page.row \in AnswerRows
  BY PageIsRow DEF WalkInv, PrevSection
<1>2. page' = SectionPage(PrevAnswerSet(page.row), QuestionsAsked)
  BY DEF PrevSection, Visit
<1>3. Back(page.row, PrevAnswerSet(page.row))
  BY <1>1, PrevIsBefore
<1>4. SectionPage(NoAnswerSet, QuestionsAsked) = Failed
  BY DEF SectionPage
<1> QED BY <1>2, <1>3, <1>4 DEF Back

-----------------------------------------------------------------------------
LEMMA InitWalk == PagesInit => WalkInv
BY InitPage, InitFlags DEF WalkInv

LEMMA NextWalk == WalkInv /\ [PagesNext]_pageVars => WalkInv'
BY NextPage, NextFlags DEF WalkInv

(* Next and Prev of the sections that are answered in one go: none that is *)
(* asked for is passed over, and Prev leads back to the one before, in a   *)
(* template that is numbered through its tree (get_next_answerset,         *)
(* get_prev_answerset; the hypotheses are those of WalkIsStraight).        *)
THEOREM WalkStaysStraight == PagesSpec => WalkIsStraight
<1>1. WalkInv /\ InOrder /\ OnlyLeavesRepeat /\ NextSection => NextGoesOn
  BY NextSectionGoesOn
<1>2. /\ WalkInv /\ OnlyLeavesRepeat /\ PrevSection /\ page.row[1] \notin repeaters
      /\ \A s \in repeaters : <<s, 1>> \notin skipping
      /\ \A s \in SomeQuestions : ~HasSubsections(s)
      => PrevGoesBack
  BY PrevSectionGoesBack DEF LeavesAsk, FirstsUsed
<1> QED BY <1>1, <1>2, InitWalk, NextWalk, PTL DEF PagesSpec, WalkIsStraight

-----------------------------------------------------------------------------
(***************************************************************************)
(* Lines of sections                                                       *)
(***************************************************************************)
Upward(rows, S) == \A u \in S : rows[u].super \in DOMAIN rows => rows[u].super \in S

(* The line is the least set that holds the section and is closed upwards. *)
LEMMA LineIsLeast ==
    ASSUME NEW rows, NEW s, NEW S \in SUBSET DOMAIN rows, s \in S, Upward(rows, S)
    PROVE  Line(rows, s) \subseteq S
BY DEF Line, Upward

LEMMA LineStarts ==
    ASSUME NEW rows, NEW s \in DOMAIN rows
    PROVE  /\ s \in Line(rows, s)
           /\ Line(rows, s) \subseteq DOMAIN rows
           /\ Upward(rows, Line(rows, s))
BY DEF Line, Upward

(* Whoever is above one who is above the section is above the section.     *)
LEMMA LineAbove ==
    ASSUME NEW rows, NEW s \in DOMAIN rows, NEW u \in Line(rows, s)
    PROVE  u \in DOMAIN rows /\ Line(rows, u) \subseteq Line(rows, s)
BY LineStarts, LineIsLeast

LEMMA LineGrows ==
    ASSUME NEW rows, NEW s \in DOMAIN rows
    PROVE  /\ rows[s].super \in DOMAIN rows =>
                  Line(rows, s) = {s} \union Line(rows, rows[s].super)
           /\ rows[s].super \notin DOMAIN rows => Line(rows, s) = {s}
<1>1. ASSUME rows[s].super \in DOMAIN rows
      PROVE  Line(rows, s) = {s} \union Line(rows, rows[s].super)
  <2> DEFINE above == rows[s].super
             S == {s} \union Line(rows, above)
  <2>1. above \in Line(rows, above) /\ Line(rows, above) \subseteq DOMAIN rows
        /\ Upward(rows, Line(rows, above))
    BY <1>1, LineStarts
  <2>2. S \in SUBSET DOMAIN rows /\ s \in S
    BY <2>1
  <2>3. Upward(rows, S)
    BY <2>1 DEF Upward
  <2>4. Line(rows, s) \subseteq S
    BY <2>2, <2>3, LineIsLeast
  <2>5. s \in Line(rows, s) /\ above \in Line(rows, s)
    BY <1>1, LineStarts DEF Upward
  <2>6. Line(rows, above) \subseteq Line(rows, s)
    BY <2>5, LineAbove
  <2> QED BY <2>4, <2>5, <2>6
<1>2. ASSUME rows[s].super \notin DOMAIN rows
      PROVE  Line(rows, s) = {s}
  <2>1. {s} \in SUBSET DOMAIN rows /\ Upward(rows, {s})
    BY <1>2 DEF Upward
  <2> QED BY <2>1, LineIsLeast, LineStarts
<1> QED BY <1>1, <1>2

(* Every other one of the line is the super section of one of them.        *)
LEMMA LineFrom ==
    ASSUME NEW rows, NEW s \in DOMAIN rows, NEW p \in Line(rows, s), p # s
    PROVE  \E v \in Line(rows, s) : rows[v].super = p
<1> DEFINE S == {x \in Line(rows, s) : x = s \/ \E v \in Line(rows, s) : rows[v].super = x}
<1>1. S \in SUBSET DOMAIN rows /\ s \in S
  BY LineStarts
<1>2. Upward(rows, S)
  BY LineStarts DEF Upward
<1>3. Line(rows, s) \subseteq S
  BY <1>1, <1>2, LineIsLeast
<1> QED BY <1>3

(* Of two in a line one is above the other.                                *)
LEMMA LineIsChain ==
    ASSUME NEW rows, NEW s \in DOMAIN rows, NEW a \in Line(rows, s), NEW b \in Line(rows, s)
    PROVE  a \in Line(rows, b) \/ b \in Line(rows, a)
<1> DEFINE S == {x \in Line(rows, s) :
                    \A y \in Line(rows, s) : x \in Line(rows, y) \/ y \in Line(rows, x)}
<1>1. S \in SUBSET DOMAIN rows /\ s \in S
  BY LineStarts
<1>2. ASSUME NEW x \in S, rows[x].super \in DOMAIN rows
      PROVE  rows[x].super \in S
  <2> DEFINE up == rows[x].super
  <2>1. x \in DOMAIN rows /\ up \in Line(rows, s)
    BY <1>2, LineStarts DEF Upward
  <2>2. Line(rows, x) = {x} \union Line(rows, up)
    BY <2>1, <1>2, LineGrows
  <2>3. ASSUME NEW y \in Line(rows, s)
        PROVE  up \in Line(rows, y) \/ y \in Line(rows, up)
    <3>1. y \in DOMAIN rows
      BY LineAbove
    <3>2. CASE x \in Line(rows, y)
      BY <3>1, <3>2, <1>2, LineStarts DEF Upward
    <3>3. CASE y \in Line(rows, x)
      <4>1. CASE y = x
        BY <4>1, <3>1, <1>2, LineStarts DEF Upward
      <4> QED BY <4>1, <3>3, <2>2
    <3> QED BY <3>2, <3>3
  <2> QED BY <2>1, <2>3
<1>3. Upward(rows, S)
  BY <1>2 DEF Upward
<1>4. Line(rows, s) \subseteq S
  BY <1>1, <1>3, LineIsLeast
<1> QED BY <1>4

(* A section that is found is not its own super section through others.    *)
LEMMA ReachedIsNoLoop ==
    ASSUME NEW rows, NoSection \notin DOMAIN rows, NEW s \in Reached(rows),
           rows[s].super \in DOMAIN rows
    PROVE  s \notin Line(rows, rows[s].super)
<1> SUFFICES ASSUME s \in Line(rows, rows[s].super)
             PROVE  FALSE
  OBVIOUS
<1>1. s \in DOMAIN rows
  BY DEF Reached
<1> DEFINE S == {u \in Line(rows, s) : s \in Line(rows, u)}
<1>2. S \in SUBSET DOMAIN rows /\ s \in S
  BY <1>1, LineStarts
<1>3. ASSUME NEW u \in S, rows[u].super \in DOMAIN rows
      PROVE  rows[u].super \in S
  <2>1. u \in DOMAIN rows /\ rows[u].super \in Line(rows, s)
    BY <1>1, <1>3, LineStarts DEF Upward
  <2>2. Line(rows, u) = {u} \union Line(rows, rows[u].super)
    BY <2>1, <1>3, LineGrows
  <2>3. s \in Line(rows, u)
    BY <1>3
  <2>4. s \in Line(rows, rows[u].super)
    BY <2>2, <2>3
  <2> QED BY <2>1, <2>4
<1>4. Upward(rows, S)
  BY <1>3 DEF Upward
<1>5. Line(rows, s) \subseteq S
  BY <1>2, <1>4, LineIsLeast
<1>6. PICK t \in Line(rows, s) : rows[t].super = NoSection
  BY DEF Reached
<1>7. t \in DOMAIN rows /\ s \in Line(rows, t)
  BY <1>1, <1>5, LineStarts
<1>8. Line(rows, t) = {t}
  BY <1>6, <1>7, LineGrows
<1> QED BY <1>6, <1>7, <1>8

LEMMA ReachedAboveOnce ==
    ASSUME NEW rows, NoSection \notin DOMAIN rows, NEW s \in Reached(rows),
           NEW a \in Line(rows, s), s \in Line(rows, a)
    PROVE  a = s
<1> SUFFICES ASSUME a # s
             PROVE  FALSE
  OBVIOUS
<1>1. s \in DOMAIN rows
  BY DEF Reached
<1>2. rows[s].super \in DOMAIN rows /\ a \in Line(rows, rows[s].super)
  BY <1>1, LineGrows
<1>3. Line(rows, a) \subseteq Line(rows, rows[s].super)
  BY <1>2, LineAbove
<1> QED BY <1>2, <1>3, ReachedIsNoLoop

(* What is above a section that is found is found.                         *)
LEMMA ReachedUpwards ==
    ASSUME NEW rows, NoSection \notin DOMAIN rows, NEW s \in Reached(rows),
           NEW a \in Line(rows, s)
    PROVE  a \in Reached(rows)
<1>1. s \in DOMAIN rows /\ a \in DOMAIN rows
  BY LineStarts DEF Reached
<1>2. PICK t \in Line(rows, s) : rows[t].super = NoSection
  BY DEF Reached
<1>3. t \in DOMAIN rows
  BY <1>1, LineStarts
<1>4. Line(rows, t) = {t}
  BY <1>2, <1>3, LineGrows
<1>5. a \in Line(rows, t) \/ t \in Line(rows, a)
  BY <1>1, LineIsChain
<1>6. t \in Line(rows, a)
  BY <1>1, <1>4, <1>5, LineStarts
<1> QED BY <1>1, <1>2, <1>6 DEF Reached

LEMMA ReachedDownwards ==
    ASSUME NEW rows, NEW s \in DOMAIN rows,
           rows[s].super = NoSection \/ rows[s].super \in Reached(rows)
    PROVE  s \in Reached(rows)
<1>1. CASE rows[s].super = NoSection
  BY <1>1, LineStarts DEF Reached
<1>2. CASE rows[s].super \in Reached(rows)
  <2>1. rows[s].super \in DOMAIN rows
    BY <1>2 DEF Reached
  <2>2. Line(rows, s) = {s} \union Line(rows, rows[s].super)
    BY <2>1, LineGrows
  <2> QED BY <1>2, <2>2 DEF Reached
<1> QED BY <1>1, <1>2

LEMMA ReachedBelow ==
    ASSUME NEW rows, NoSection \notin DOMAIN rows, NEW s \in Reached(rows)
    PROVE  /\ s \in DOMAIN rows
           /\ rows[s].super = NoSection \/ rows[s].super \in Reached(rows)
<1>1. s \in DOMAIN rows
  BY DEF Reached
<1>2. CASE rows[s].super \in DOMAIN rows
  <2>1. rows[s].super \in Line(rows, s)
    BY <1>1, <1>2, LineStarts DEF Upward
  <2> QED BY <1>1, <2>1, ReachedUpwards
<1>3. CASE rows[s].super \notin DOMAIN rows
  BY <1>1, <1>3, LineGrows DEF Reached
<1> QED BY <1>1, <1>2, <1>3

(* Siblings are found together.                                            *)
LEMMA SiblingsReached ==
    ASSUME NEW rows, NoSection \notin DOMAIN rows, NEW s \in Reached(rows),
           NEW t \in DOMAIN rows, rows[t].super = rows[s].super
    PROVE  t \in Reached(rows)
BY ReachedBelow, ReachedDownwards

(* There is one of each set of siblings in a line.                         *)
LEMMA OneSiblingInLine ==
    ASSUME NEW rows, NoSection \notin DOMAIN rows, NEW s \in Reached(rows),
           NEW a \in Line(rows, s), NEW b \in Line(rows, s), rows[a].super = rows[b].super
    PROVE  a = b
<1>1. s \in DOMAIN rows
  BY DEF Reached
<1>2. a \in Reached(rows) /\ b \in Reached(rows) /\ a \in DOMAIN rows /\ b \in DOMAIN rows
  BY ReachedUpwards, LineAbove, <1>1
<1>3. ASSUME NEW x \in Reached(rows), NEW y \in Reached(rows), x \in DOMAIN rows,
             y \in DOMAIN rows, rows[x].super = rows[y].super, x \in Line(rows, y), x # y
      PROVE  FALSE
  <2>1. rows[y].super \in DOMAIN rows /\ x \in Line(rows, rows[y].super)
    BY <1>3, LineGrows
  <2>2. rows[x].super \in DOMAIN rows /\ x \in Line(rows, rows[x].super)
    BY <2>1, <1>3
  <2> QED BY <2>2, ReachedIsNoLoop
<1>4. a \in Line(rows, b) \/ b \in Line(rows, a)
  BY <1>1, LineIsChain
<1> QED BY <1>2, <1>3, <1>4

(***************************************************************************)
(* Before and after among the sections of a template                       *)
(***************************************************************************)
Fork(rows, s, t, u, v) ==
    /\ u \in Line(rows, s)
    /\ v \in Line(rows, t)
    /\ rows[u].super = rows[v].super
    /\ rows[u].position < rows[v].position

LEMMA PrecedesByFork ==
    ASSUME NEW rows, NEW s, NEW t, NEW u, NEW v, Fork(rows, s, t, u, v)
    PROVE  ComesBefore(rows, s, t)
BY DEF Fork, ComesBefore

LEMMA PrecedesCases ==
    ASSUME NEW rows, NEW s, NEW t, ComesBefore(rows, s, t)
    PROVE  \/ s # t /\ s \in Line(rows, t)
           \/ \E u \in Line(rows, s), v \in Line(rows, t) : Fork(rows, s, t, u, v)
BY DEF Fork, ComesBefore

(* The rows of the table, as the assumptions on the keys leave them.       *)
SectionRows(rows) ==
    /\ DOMAIN rows \subseteq Section
    /\ rows \in [DOMAIN rows -> [super : Section \union {NoSection}, position : Nat \ {0}]]

LEMMA RowsAreFinite ==
    ASSUME NEW rows, SectionRows(rows)
    PROVE  /\ NoSection \notin DOMAIN rows
           /\ IsFiniteSet(DOMAIN rows)
           /\ Reached(rows) \subseteq DOMAIN rows
           /\ IsFiniteSet(Reached(rows))
<1>1. NoSection \notin DOMAIN rows /\ IsFiniteSet(DOMAIN rows)
  BY SectionAssumption, FS_Subset DEF SectionRows
<1>2. Reached(rows) \subseteq DOMAIN rows
  BY DEF Reached
<1> QED BY <1>1, <1>2, FS_Subset

LEMMA PositionOf ==
    ASSUME NEW rows, SectionRows(rows), NEW s \in DOMAIN rows
    PROVE  rows[s].position \in Nat \ {0} /\ rows[s].super \in Section \union {NoSection}
BY DEF SectionRows

LEMMA NothingBeforeItself ==
    ASSUME NEW rows, SectionRows(rows), NEW s \in Reached(rows)
    PROVE  ~ComesBefore(rows, s, s)
<1> SUFFICES ASSUME ComesBefore(rows, s, s)
             PROVE  FALSE
  OBVIOUS
<1>1. NoSection \notin DOMAIN rows /\ s \in DOMAIN rows
  BY RowsAreFinite
<1>2. PICK u \in Line(rows, s), v \in Line(rows, s) : Fork(rows, s, s, u, v)
  BY PrecedesCases
<1>3. u = v
  BY <1>1, <1>2, OneSiblingInLine DEF Fork
<1>4. rows[u].position \in Nat
  BY <1>1, <1>2, LineAbove, PositionOf
<1> QED BY <1>2, <1>3, <1>4 DEF Fork

LEMMA PrecedesIsTransitive ==
    ASSUME NEW rows, SectionRows(rows), NEW r \in Reached(rows), NEW s \in Reached(rows),
           NEW t \in Reached(rows), ComesBefore(rows, r, s), ComesBefore(rows, s, t)
    PROVE  ComesBefore(rows, r, t)
<1>1. /\ NoSection \notin DOMAIN rows
      /\ r \in DOMAIN rows /\ s \in DOMAIN rows /\ t \in DOMAIN rows
  BY RowsAreFinite
<1>2. ASSUME NEW x \in Reached(rows), NEW a \in Line(rows, x), NEW b \in Line(rows, x),
             a \in Line(rows, b), a # b
      PROVE  rows[b].super \in DOMAIN rows /\ a \in Line(rows, rows[b].super)
  <2>1. x \in DOMAIN rows
    BY RowsAreFinite
  <2>2. b \in DOMAIN rows
    BY <2>1, LineAbove
  <2> QED BY <1>2, <2>2, LineGrows
<1>3. ASSUME NEW x \in Reached(rows), NEW v \in Line(rows, x), rows[v].super \in DOMAIN rows
      PROVE  rows[v].super \in Line(rows, x)
             /\ Line(rows, rows[v].super) \subseteq Line(rows, x)
  <2>1. x \in DOMAIN rows
    BY RowsAreFinite
  <2>2. rows[v].super \in Line(rows, x)
    BY <1>3, <2>1, LineStarts DEF Upward
  <2> QED BY <2>1, <2>2, LineAbove
<1>4. CASE r # s /\ r \in Line(rows, s) /\ s # t /\ s \in Line(rows, t)
  <2>1. r \in Line(rows, t)
    BY <1>1, <1>4, LineAbove
  <2>2. r # t
    BY <1>1, <1>4, ReachedAboveOnce
  <2> QED BY <2>1, <2>2 DEF ComesBefore
<1>5. ASSUME r # s, r \in Line(rows, s), NEW u, NEW v, Fork(rows, s, t, u, v)
      PROVE  ComesBefore(rows, r, t)
  <2>1. CASE u \in Line(rows, r)
    BY <2>1, <1>5, PrecedesByFork DEF Fork
  <2>2. CASE u \notin Line(rows, r)
    <3>1. r \in Line(rows, u) /\ r # u
      BY <1>1, <1>5, <2>2, LineIsChain, LineStarts DEF Fork
    <3>2. rows[u].super \in DOMAIN rows /\ r \in Line(rows, rows[u].super)
      BY <1>2, <1>5, <3>1 DEF Fork
    <3>3. rows[v].super \in DOMAIN rows /\ r \in Line(rows, rows[v].super)
      BY <3>2, <1>5 DEF Fork
    <3>4. r \in Line(rows, t)
      BY <3>3, <1>3, <1>5 DEF Fork
    <3>5. ASSUME r = t
          PROVE  FALSE
      <4>1. v \in Reached(rows) /\ v \in DOMAIN rows
        BY <1>1, <1>5, ReachedUpwards, LineAbove DEF Fork
      <4>2. Line(rows, v) = {v} \union Line(rows, rows[v].super)
        BY <4>1, <3>3, LineGrows
      <4>3. Line(rows, t) \subseteq Line(rows, rows[v].super)
        BY <3>3, <3>5, LineAbove
      <4>4. v \in Line(rows, rows[v].super)
        BY <4>3, <1>5 DEF Fork
      <4> QED BY <1>1, <3>3, <4>1, <4>4, ReachedIsNoLoop
    <3> QED BY <3>4, <3>5 DEF ComesBefore
  <2> QED BY <2>1, <2>2
<1>6. ASSUME NEW u, NEW v, Fork(rows, r, s, u, v), s # t, s \in Line(rows, t)
      PROVE  ComesBefore(rows, r, t)
  <2>1. v \in Line(rows, t)
    BY <1>1, <1>6, LineAbove DEF Fork
  <2>2. Fork(rows, r, t, u, v)
    BY <2>1, <1>6 DEF Fork
  <2> QED BY <2>2, PrecedesByFork
<1>7. ASSUME NEW u, NEW v, Fork(rows, r, s, u, v), NEW x, NEW y, Fork(rows, s, t, x, y)
      PROVE  ComesBefore(rows, r, t)
  <2>1. v \in Line(rows, s) /\ x \in Line(rows, s)
    BY <1>7 DEF Fork
  <2>2. v \in Line(rows, x) \/ x \in Line(rows, v)
    BY <1>1, <2>1, LineIsChain
  <2>3. CASE v = x
    <3>1. u \in DOMAIN rows /\ x \in DOMAIN rows /\ y \in DOMAIN rows
      BY <1>1, <1>7, LineAbove DEF Fork
    <3>2. /\ rows[u].position \in Nat
          /\ rows[x].position \in Nat
          /\ rows[y].position \in Nat
      BY <3>1, PositionOf
    <3>3. rows[u].position < rows[y].position
      BY <3>2, <2>3, <1>7 DEF Fork
    <3>4. Fork(rows, r, t, u, y)
      BY <3>3, <2>3, <1>7 DEF Fork
    <3> QED BY <3>4, PrecedesByFork
  <2>4. CASE v # x /\ v \in Line(rows, x)
    <3>1. rows[x].super \in DOMAIN rows /\ v \in Line(rows, rows[x].super)
      BY <1>2, <2>1, <2>4
    <3>2. rows[y].super \in DOMAIN rows /\ v \in Line(rows, rows[y].super)
      BY <3>1, <1>7 DEF Fork
    <3>3. v \in Line(rows, t)
      BY <3>2, <1>3, <1>7 DEF Fork
    <3>4. Fork(rows, r, t, u, v)
      BY <3>3, <1>7 DEF Fork
    <3> QED BY <3>4, PrecedesByFork
  <2>5. CASE v # x /\ x \in Line(rows, v)
    <3>1. rows[v].super \in DOMAIN rows /\ x \in Line(rows, rows[v].super)
      BY <1>2, <2>1, <2>5
    <3>2. rows[u].super \in DOMAIN rows /\ x \in Line(rows, rows[u].super)
      BY <3>1, <1>7 DEF Fork
    <3>3. x \in Line(rows, r)
      BY <3>2, <1>3, <1>7 DEF Fork
    <3>4. Fork(rows, r, t, x, y)
      BY <3>3, <1>7 DEF Fork
    <3> QED BY <3>4, PrecedesByFork
  <2> QED BY <2>2, <2>3, <2>4, <2>5
<1>8. \/ r # s /\ r \in Line(rows, s)
      \/ \E u \in Line(rows, r), v \in Line(rows, s) : Fork(rows, r, s, u, v)
  BY PrecedesCases
<1>9. \/ s # t /\ s \in Line(rows, t)
      \/ \E u \in Line(rows, s), v \in Line(rows, t) : Fork(rows, s, t, u, v)
  BY PrecedesCases
<1> QED BY <1>4, <1>5, <1>6, <1>7, <1>8, <1>9

LEMMA PrecedesIsTotal ==
    ASSUME NEW rows, SectionRows(rows), PositionsDiffer(rows),
           NEW s \in Reached(rows), NEW t \in Reached(rows), s # t
    PROVE  ComesBefore(rows, s, t) \/ ComesBefore(rows, t, s)
<1>1. NoSection \notin DOMAIN rows /\ s \in DOMAIN rows /\ t \in DOMAIN rows
  BY RowsAreFinite
<1>2. CASE s \in Line(rows, t) \/ t \in Line(rows, s)
  BY <1>2 DEF ComesBefore
<1>3. CASE s \notin Line(rows, t) /\ t \notin Line(rows, s)
  <2> DEFINE S == {x \in Line(rows, s) : x \notin Line(rows, t)}
  <2>1. PICK top \in Line(rows, s) : rows[top].super = NoSection
    BY DEF Reached
  <2>2. \E u \in S : rows[u].super = NoSection \/ rows[u].super \in Line(rows, t)
    <3> SUFFICES ASSUME \A u \in S : rows[u].super # NoSection /\ rows[u].super \notin Line(rows, t)
                 PROVE  FALSE
      OBVIOUS
    <3>1. S \in SUBSET DOMAIN rows /\ s \in S
      BY <1>1, <1>3, LineStarts
    <3>2. Upward(rows, S)
      BY <1>1, LineStarts DEF Upward
    <3>3. Line(rows, s) \subseteq S
      BY <3>1, <3>2, LineIsLeast
    <3> QED BY <3>3, <2>1
  <2>3. PICK u \in S : rows[u].super = NoSection \/ rows[u].super \in Line(rows, t)
    BY <2>2
  <2>4. \E v \in Line(rows, t) : rows[v].super = rows[u].super
    <3>1. CASE rows[u].super = NoSection
      BY <3>1 DEF Reached
    <3>2. CASE rows[u].super \in Line(rows, t)
      <4>1. rows[u].super \in DOMAIN rows
        BY <3>2, <1>1, LineAbove
      <4>2. rows[u].super \in Line(rows, s)
        BY <4>1, <1>1, <2>3, LineStarts DEF Upward
      <4>3. rows[u].super # t
        BY <4>2, <1>3
      <4> QED BY <3>2, <4>3, <1>1, LineFrom
    <3> QED BY <2>3, <3>1, <3>2
  <2>5. PICK v \in Line(rows, t) : rows[v].super = rows[u].super
    BY <2>4
  <2>6. u \in DOMAIN rows /\ v \in DOMAIN rows /\ u # v
    BY <1>1, <2>3, <2>5, LineAbove
  <2>7. /\ rows[u].position \in Nat
        /\ rows[v].position \in Nat
        /\ rows[u].position # rows[v].position
    BY <2>6, PositionOf DEF PositionsDiffer
  <2>8. Fork(rows, s, t, u, v) \/ Fork(rows, t, s, v, u)
    BY <2>3, <2>5, <2>7 DEF Fork
  <2> QED BY <2>8, PrecedesByFork
<1> QED BY <1>2, <1>3

(***************************************************************************)
(* A finite set in order                                                   *)
(***************************************************************************)
Orders(S, before) ==
    /\ IsFiniteSet(S)
    /\ \A s \in S : <<s, s>> \notin before
    /\ \A r, s, t \in S : <<r, s>> \in before /\ <<s, t>> \in before => <<r, t>> \in before
    /\ \A s, t \in S : s # t => <<s, t>> \in before \/ <<t, s>> \in before

(* A sequence of all of a set, each of them once.                          *)
Enumerates(seq, S) ==
    /\ seq \in Seq(S)
    /\ \A s \in S : \E i \in DOMAIN seq : seq[i] = s
    /\ \A i, j \in DOMAIN seq : seq[i] = seq[j] => i = j

Increases(seq, before) ==
    \A i, j \in DOMAIN seq : i < j => <<seq[i], seq[j]>> \in before

Sooner(S, before, s) == {t \in S : <<t, s>> \in before}
Rank(S, before, s) == Cardinality(Sooner(S, before, s))

LEMMA RanksDiffer ==
    ASSUME NEW S, NEW before, Orders(S, before)
    PROVE  /\ Cardinality(S) \in Nat
           /\ \A s \in S : Rank(S, before, s) \in 0..(Cardinality(S) - 1)
           /\ \A s, t \in S : <<s, t>> \in before => Rank(S, before, s) < Rank(S, before, t)
           /\ \A s, t \in S : Rank(S, before, s) = Rank(S, before, t) => s = t
           /\ \A i \in 1..Cardinality(S) : \E s \in S : Rank(S, before, s) = i - 1
<1> DEFINE n == Cardinality(S)
<1>1. n \in Nat
  BY FS_CardinalityType DEF Orders
<1>2. ASSUME NEW s \in S
      PROVE  IsFiniteSet(Sooner(S, before, s)) /\ Rank(S, before, s) \in 0..(n - 1)
  <2> DEFINE T == Sooner(S, before, s)
  <2>1. T \in SUBSET S /\ s \notin T
    BY DEF Sooner, Orders
  <2>2. IsFiniteSet(T) /\ Cardinality(T) <= n /\ (n = Cardinality(T) => S = T)
    BY <2>1, FS_Subset DEF Orders
  <2>3. Cardinality(T) \in Nat /\ Cardinality(T) # n
    BY <2>1, <2>2, FS_CardinalityType
  <2> HIDE DEF T, n
  <2>4. Cardinality(T) \in 0..(n - 1)
    BY <1>1, <2>2, <2>3
  <2> QED BY <2>2, <2>4 DEF T, Rank
<1>3. ASSUME NEW s \in S, NEW t \in S, <<s, t>> \in before
      PROVE  Rank(S, before, s) < Rank(S, before, t)
  <2> DEFINE A == Sooner(S, before, s)
             B == Sooner(S, before, t)
  <2>1. A \in SUBSET B /\ s \in B /\ s \notin A
    BY <1>3 DEF Sooner, Orders
  <2>2. IsFiniteSet(B)
    BY <1>2
  <2>3. Cardinality(A) <= Cardinality(B) /\ (Cardinality(B) = Cardinality(A) => B = A)
    BY <2>1, <2>2, FS_Subset
  <2>4. Cardinality(A) \in 0..(n - 1) /\ Cardinality(B) \in 0..(n - 1)
    BY <1>2 DEF Rank
  <2>5. Cardinality(A) # Cardinality(B)
    BY <2>1, <2>3
  <2> HIDE DEF A, B, n
  <2>6. Cardinality(A) < Cardinality(B)
    BY <1>1, <2>3, <2>4, <2>5
  <2> QED BY <2>6 DEF A, B, Rank
<1>4. ASSUME NEW s \in S, NEW t \in S, Rank(S, before, s) = Rank(S, before, t)
      PROVE  s = t
  <2>1. Rank(S, before, s) \in 0..(n - 1) /\ Rank(S, before, t) \in 0..(n - 1)
    BY <1>2
  <2> HIDE DEF n
  <2>2. <<s, t>> \notin before /\ <<t, s>> \notin before
    BY <1>1, <1>3, <1>4, <2>1
  <2> QED BY <2>2 DEF Orders
<1>5. ASSUME NEW i \in 1..n
      PROVE  \E s \in S : Rank(S, before, s) = i - 1
  <2> DEFINE f == [s \in S |-> Rank(S, before, s)]
             T == 0..(n - 1)
  <2>1. f \in [S -> T]
    BY <1>2
  <2>2. f \in Injection(S, T)
    BY <2>1, <1>4 DEF Injection, IsInjective
  <2>3. IsFiniteSet(T) /\ Cardinality(T) = n
    <3> HIDE DEF n
    <3>1. 0 \in Int /\ n - 1 \in Int
      BY <1>1
    <3>2. IsFiniteSet(0..(n - 1))
          /\ Cardinality(0..(n - 1)) = IF 0 > n - 1 THEN 0 ELSE (n - 1) - 0 + 1
      BY <3>1, FS_Interval
    <3> QED BY <1>1, <3>2
  <2>4. f \in Surjection(S, T)
    BY <2>2, <2>3, FS_Injection
  <2>5. i - 1 \in T
    BY <1>1
  <2>6. \E s \in S : f[s] = i - 1
    BY <2>4, <2>5 DEF Surjection
  <2> QED BY <2>6
<1> QED BY <1>1, <1>2, <1>3, <1>4, <1>5

LEMMA InOrderSorts ==
    ASSUME NEW S, NEW before, Orders(S, before)
    PROVE  /\ Enumerates(Arranged(S, before), S)
           /\ Increases(Arranged(S, before), before)
           /\ DOMAIN Arranged(S, before) = 1..Cardinality(S)
           /\ Len(Arranged(S, before)) = Cardinality(S)
<1> DEFINE n == Cardinality(S)
           seq == Arranged(S, before)
<1>1. /\ n \in Nat
      /\ \A s \in S : Rank(S, before, s) \in 0..(n - 1)
      /\ \A s, t \in S : <<s, t>> \in before => Rank(S, before, s) < Rank(S, before, t)
      /\ \A s, t \in S : Rank(S, before, s) = Rank(S, before, t) => s = t
      /\ \A i \in 1..n : \E s \in S : Rank(S, before, s) = i - 1
  BY RanksDiffer
<1>2. seq = [i \in 1..n |-> CHOOSE s \in S : Rank(S, before, s) = i - 1]
  BY DEF Arranged, Rank, Sooner
<1>3. ASSUME NEW i \in 1..n
      PROVE  seq[i] \in S /\ Rank(S, before, seq[i]) = i - 1
  BY <1>1, <1>2
<1> HIDE DEF n, seq
<1>4. DOMAIN seq = 1..n
  BY <1>2
<1>5. seq \in [1..n -> S]
  BY <1>2, <1>3
<1>6. seq \in Seq(S) /\ Len(seq) = n
  BY <1>1, <1>5
<1>7. ASSUME NEW s \in S
      PROVE  \E i \in 1..n : seq[i] = s
  <2>1. Rank(S, before, s) \in 0..(n - 1)
    BY <1>1
  <2>2. Rank(S, before, s) + 1 \in 1..n /\ (Rank(S, before, s) + 1) - 1 = Rank(S, before, s)
    BY <1>1, <2>1
  <2>3. seq[Rank(S, before, s) + 1] \in S
        /\ Rank(S, before, seq[Rank(S, before, s) + 1]) = Rank(S, before, s)
    BY <1>3, <2>2
  <2>4. seq[Rank(S, before, s) + 1] = s
    BY <1>1, <2>3
  <2> QED BY <2>2, <2>4
<1>8. ASSUME NEW i \in 1..n, NEW j \in 1..n, seq[i] = seq[j]
      PROVE  i = j
  <2>1. i - 1 = j - 1
    BY <1>3, <1>8
  <2> QED BY <2>1, <1>1
<1>9. ASSUME NEW i \in 1..n, NEW j \in 1..n, i < j
      PROVE  <<seq[i], seq[j]>> \in before
  <2>1. /\ seq[i] \in S
        /\ seq[j] \in S
        /\ Rank(S, before, seq[i]) = i - 1
        /\ Rank(S, before, seq[j]) = j - 1
    BY <1>3
  <2>2. i \in Nat /\ j \in Nat
    BY <1>1
  <2>3. seq[i] # seq[j]
    BY <2>1, <2>2, <1>9
  <2>4. <<seq[j], seq[i]>> \in before => j - 1 < i - 1
    BY <1>1, <2>1
  <2>5. <<seq[j], seq[i]>> \notin before
    BY <2>2, <2>4, <1>9
  <2> QED BY <2>1, <2>3, <2>5 DEF Orders
<1> QED BY <1>4, <1>6, <1>7, <1>8, <1>9 DEF Enumerates, Increases, n, seq

(* There is only one sequence of the set that the relation agrees with.    *)
LEMMA OrderIsUnique ==
    ASSUME NEW S, NEW before, Orders(S, before), NEW seq, Enumerates(seq, S), Increases(seq, before)
    PROVE  seq = Arranged(S, before)
<1> DEFINE n == Cardinality(S)
           m == Len(seq)
<1>1. /\ n \in Nat
      /\ \A s, t \in S : Rank(S, before, s) = Rank(S, before, t) => s = t
  BY RanksDiffer
<1>2. /\ m \in Nat
      /\ DOMAIN seq = 1..m
      /\ \A i \in 1..m : seq[i] \in S
      /\ seq = [i \in 1..m |-> seq[i]]
  BY DEF Enumerates
<1> HIDE DEF n, m
<1>3. ASSUME NEW k \in 0..m
      PROVE  /\ IsFiniteSet({seq[i] : i \in 1..k})
             /\ Cardinality({seq[i] : i \in 1..k}) = k
  <2> DEFINE T == {seq[i] : i \in 1..k}
             f == [i \in 1..k |-> seq[i]]
  <2>1. k \in Nat /\ \A i \in 1..k : i \in 1..m
    BY <1>2
  <2>2. f \in [1..k -> T]
    OBVIOUS
  <2>3. \A i, j \in 1..k : f[i] = f[j] => i = j
    BY <1>2, <2>1 DEF Enumerates
  <2>4. \A t \in T : \E i \in 1..k : f[i] = t
    OBVIOUS
  <2>5. f \in Bijection(1..k, T)
    BY <2>2, <2>3, <2>4 DEF Bijection, Injection, Surjection, IsInjective
  <2>6. ExistsBijection(1..k, T)
    BY <2>5 DEF ExistsBijection
  <2>7. IsFiniteSet(1..k) /\ Cardinality(1..k) = k
    <3>1. 1 \in Int /\ k \in Int
      BY <2>1
    <3>2. IsFiniteSet(1..k) /\ Cardinality(1..k) = IF 1 > k THEN 0 ELSE k - 1 + 1
      BY <3>1, FS_Interval
    <3> QED BY <2>1, <3>2
  <2> QED BY <2>6, <2>7, FS_Bijection
<1>4. m = n
  <2>1. {seq[i] : i \in 1..m} = S
    BY <1>2 DEF Enumerates
  <2>2. m \in 0..m
    BY <1>2
  <2> QED BY <1>3, <2>1, <2>2 DEF n
<1>5. ASSUME NEW i \in 1..m
      PROVE  Rank(S, before, seq[i]) = i - 1
  <2>1. i - 1 \in 0..m /\ i \in Nat
    BY <1>2
  <2>2. ASSUME NEW j \in 1..m, <<seq[j], seq[i]>> \in before
        PROVE  j \in 1..(i - 1)
    <3>1. j \in Nat
      BY <1>2
    <3>2. seq[i] \in S /\ seq[j] \in S
      BY <1>2
    <3>3. j # i
      BY <2>2, <3>2 DEF Orders
    <3>4. ~(i < j)
      <4> SUFFICES ASSUME i < j
                   PROVE  FALSE
        OBVIOUS
      <4>1. <<seq[i], seq[j]>> \in before
        BY <1>2 DEF Increases
      <4> QED BY <4>1, <2>2, <3>2 DEF Orders
    <3> QED BY <3>1, <3>3, <3>4, <2>1
  <2>3. ASSUME NEW j \in 1..(i - 1)
        PROVE  seq[j] \in S /\ <<seq[j], seq[i]>> \in before
    <3>1. j \in 1..m /\ j < i
      BY <1>2, <2>1
    <3> QED BY <1>2, <3>1 DEF Increases
  <2>4. Sooner(S, before, seq[i]) = {seq[j] : j \in 1..(i - 1)}
    <3>1. ASSUME NEW t \in Sooner(S, before, seq[i])
          PROVE  t \in {seq[j] : j \in 1..(i - 1)}
      <4>1. PICK j \in 1..m : seq[j] = t
        BY <1>2 DEF Sooner, Enumerates
      <4>2. j \in 1..(i - 1)
        BY <4>1, <2>2 DEF Sooner
      <4> QED BY <4>1, <4>2
    <3>2. ASSUME NEW j \in 1..(i - 1)
          PROVE  seq[j] \in Sooner(S, before, seq[i])
      BY <2>3 DEF Sooner
    <3> QED BY <3>1, <3>2
  <2> QED BY <2>1, <2>4, <1>3 DEF Rank
<1>6. Arranged(S, before) = [i \in 1..n |-> CHOOSE s \in S : Rank(S, before, s) = i - 1]
  BY DEF Arranged, Rank, Sooner, n
<1>7. ASSUME NEW i \in 1..m
      PROVE  (CHOOSE s \in S : Rank(S, before, s) = i - 1) = seq[i]
  BY <1>1, <1>2, <1>5
<1> QED BY <1>2, <1>4, <1>6, <1>7

(***************************************************************************)
(* The sequences of the model                                              *)
(***************************************************************************)
Table(rows) == SectionRows(rows) /\ PositionsDiffer(rows)
Children(rows, super) == {s \in DOMAIN rows : rows[s].super = super}

LEMMA IndexIsPlace ==
    ASSUME NEW seq, NEW x, \E i \in DOMAIN seq : seq[i] = x
    PROVE  Index(seq, x) \in DOMAIN seq /\ seq[Index(seq, x)] = x
BY DEF Index

LEMMA IndexOfListed ==
    ASSUME NEW S, NEW seq, Enumerates(seq, S)
    PROVE  /\ ToSet(seq) = S
           /\ DOMAIN seq = 1..Len(seq)
           /\ Len(seq) \in Nat
           /\ \A i \in DOMAIN seq : seq[i] \in S /\ Index(seq, seq[i]) = i
           /\ \A s \in S : Index(seq, s) \in 1..Len(seq) /\ seq[Index(seq, s)] = s
<1>1. Len(seq) \in Nat /\ DOMAIN seq = 1..Len(seq) /\ \A i \in DOMAIN seq : seq[i] \in S
  BY DEF Enumerates
<1>2. ToSet(seq) = S
  BY <1>1 DEF ToSet, Enumerates
<1>3. \A s \in S : Index(seq, s) \in DOMAIN seq /\ seq[Index(seq, s)] = s
  BY IndexIsPlace DEF Enumerates
<1>4. \A i \in DOMAIN seq : Index(seq, seq[i]) = i
  BY <1>1, <1>3 DEF Enumerates
<1> QED BY <1>1, <1>2, <1>3, <1>4

LEMMA SiblingsInOrder ==
    ASSUME NEW rows, Table(rows), NEW super
    PROVE  /\ Enumerates(Siblings(rows, super), Children(rows, super))
           /\ \A i, j \in DOMAIN Siblings(rows, super) : i < j =>
                  rows[Siblings(rows, super)[i]].position < rows[Siblings(rows, super)[j]].position
<1> DEFINE below == Children(rows, super)
           before == {p \in below \X below : rows[p[1]].position < rows[p[2]].position}
<1>1. \A s \in below : s \in DOMAIN rows /\ rows[s].position \in Nat
  BY PositionOf DEF Children, Table
<1>2. IsFiniteSet(below)
  <2>1. below \in SUBSET DOMAIN rows
    BY DEF Children
  <2> QED BY <2>1, RowsAreFinite, FS_Subset DEF Table
<1>3. \A s, t \in below : s # t => rows[s].position # rows[t].position
  BY DEF Children, Table, PositionsDiffer
<1>4. \A s, t \in below : <<s, t>> \in before <=> rows[s].position < rows[t].position
  OBVIOUS
<1>5. Siblings(rows, super) = Arranged(below, before)
  BY DEF Siblings, Children
<1>6. before \in SUBSET (below \X below)
  OBVIOUS
<1> HIDE DEF below, before
<1>7. Orders(below, before)
  BY <1>1, <1>2, <1>3, <1>4 DEF Orders
<1>8. Enumerates(Siblings(rows, super), below) /\ Increases(Siblings(rows, super), before)
  BY <1>5, <1>7, InOrderSorts
<1>9. \A i \in DOMAIN Siblings(rows, super) : Siblings(rows, super)[i] \in below
  BY <1>8 DEF Enumerates
<1> QED BY <1>4, <1>8, <1>9 DEF below, Increases

(* A sequence of the siblings with rising positions is theirs.             *)
LEMMA SiblingsByPosition ==
    ASSUME NEW rows, Table(rows), NEW super, NEW seq, Enumerates(seq, Children(rows, super)),
           \A i, j \in DOMAIN seq : i < j => rows[seq[i]].position < rows[seq[j]].position
    PROVE  Siblings(rows, super) = seq
<1> DEFINE below == Children(rows, super)
           before == {p \in below \X below : rows[p[1]].position < rows[p[2]].position}
<1>1. \A s \in below : s \in DOMAIN rows /\ rows[s].position \in Nat
  BY PositionOf DEF Children, Table
<1>2. IsFiniteSet(below)
  <2>1. below \in SUBSET DOMAIN rows
    BY DEF Children
  <2> QED BY <2>1, RowsAreFinite, FS_Subset DEF Table
<1>3. \A s, t \in below : s # t => rows[s].position # rows[t].position
  BY DEF Children, Table, PositionsDiffer
<1>4. \A s, t \in below : <<s, t>> \in before <=> rows[s].position < rows[t].position
  OBVIOUS
<1>5. Siblings(rows, super) = Arranged(below, before)
  BY DEF Siblings, Children
<1>6. Enumerates(seq, below)
  OBVIOUS
<1> HIDE DEF below, before
<1>7. Orders(below, before)
  BY <1>1, <1>2, <1>3, <1>4 DEF Orders
<1>8. \A i \in DOMAIN seq : seq[i] \in below
  BY <1>6 DEF Enumerates
<1>9. Increases(seq, before)
  BY <1>4, <1>8 DEF Increases
<1> QED BY <1>5, <1>6, <1>7, <1>9, OrderIsUnique

LEMMA SectionsInOrder ==
    ASSUME NEW rows, Table(rows)
    PROVE  /\ Enumerates(OrderedSections(rows), Reached(rows))
           /\ Len(OrderedSections(rows)) = Cardinality(Reached(rows))
           /\ \A s, t \in Reached(rows) :
                  rows[s].super = rows[t].super /\ rows[s].position < rows[t].position
                      => Index(OrderedSections(rows), s) < Index(OrderedSections(rows), t)
<1> DEFINE R == Reached(rows)
           before == {p \in R \X R : ComesBefore(rows, p[1], p[2])}
           order == OrderedSections(rows)
<1>1. order = Arranged(R, before)
  BY DEF OrderedSections
<1>2. \A s, t \in R : <<s, t>> \in before <=> ComesBefore(rows, s, t)
  OBVIOUS
<1>3. IsFiniteSet(R) /\ R \subseteq DOMAIN rows
  BY RowsAreFinite DEF Table
<1>4. \A s \in R : ~ComesBefore(rows, s, s)
  BY NothingBeforeItself DEF Table
<1>5. \A r, s, t \in R : ComesBefore(rows, r, s) /\ ComesBefore(rows, s, t) => ComesBefore(rows, r, t)
  BY PrecedesIsTransitive DEF Table
<1>6. \A s, t \in R : s # t => ComesBefore(rows, s, t) \/ ComesBefore(rows, t, s)
  BY PrecedesIsTotal DEF Table
<1>7. ASSUME NEW s \in R, NEW t \in R, rows[s].super = rows[t].super,
             rows[s].position < rows[t].position
      PROVE  ComesBefore(rows, s, t) /\ s # t
  <2>1. s \in Line(rows, s) /\ t \in Line(rows, t)
    BY <1>3, LineStarts
  <2>2. Fork(rows, s, t, s, t)
    BY <2>1, <1>7 DEF Fork
  <2>3. rows[s].position \in Nat
    BY <1>3, PositionOf DEF Table
  <2> QED BY <2>2, <2>3, <1>7, PrecedesByFork
<1> HIDE DEF R, before, order
<1>8. Orders(R, before)
  BY <1>2, <1>3, <1>4, <1>5, <1>6 DEF Orders
<1>9. Enumerates(order, R) /\ Increases(order, before) /\ Len(order) = Cardinality(R)
  BY <1>1, <1>8, InOrderSorts
<1>10. ASSUME NEW s \in R, NEW t \in R, rows[s].super = rows[t].super,
              rows[s].position < rows[t].position
       PROVE  Index(order, s) < Index(order, t)
  <2>1. /\ Index(order, s) \in 1..Len(order)
        /\ Index(order, t) \in 1..Len(order)
        /\ order[Index(order, s)] = s
        /\ order[Index(order, t)] = t
        /\ DOMAIN order = 1..Len(order)
        /\ Len(order) \in Nat
    BY <1>9, IndexOfListed
  <2>2. ComesBefore(rows, s, t) /\ s # t
    BY <1>7, <1>10
  <2>3. ~ComesBefore(rows, t, s)
    BY <2>2, <1>4, <1>5
  <2>4. Index(order, t) < Index(order, s) => <<t, s>> \in before
    BY <2>1, <1>9 DEF Increases
  <2>5. ~(Index(order, t) < Index(order, s))
    BY <2>3, <2>4, <1>2
  <2>6. Index(order, t) # Index(order, s)
    BY <2>1, <2>2
  <2>7. Index(order, s) \in Nat /\ Index(order, t) \in Nat
    BY <2>1
  <2> QED BY <2>5, <2>6, <2>7
<1> QED BY <1>9, <1>10 DEF R, order

(* Two tables with the same super sections and the same order of siblings. *)
SameTree(rows, new) ==
    DOMAIN new = DOMAIN rows /\ \A s \in DOMAIN rows : new[s].super = rows[s].super

LEMMA SameTreeReached ==
    ASSUME NEW rows, NEW new, SameTree(rows, new)
    PROVE  /\ \A s \in DOMAIN rows : Line(new, s) = Line(rows, s)
           /\ Reached(new) = Reached(rows)
           /\ \A super : Children(new, super) = Children(rows, super)
<1>1. ASSUME NEW S \in SUBSET DOMAIN rows
      PROVE  Upward(new, S) <=> Upward(rows, S)
  BY DEF SameTree, Upward
<1>2. ASSUME NEW s \in DOMAIN rows
      PROVE  Line(new, s) = Line(rows, s)
  <2>1. /\ s \in Line(rows, s)
        /\ Line(rows, s) \in SUBSET DOMAIN rows
        /\ Upward(rows, Line(rows, s))
    BY LineStarts
  <2>2. /\ s \in Line(new, s)
        /\ Line(new, s) \in SUBSET DOMAIN rows
        /\ Upward(new, Line(new, s))
        /\ DOMAIN new = DOMAIN rows
    BY LineStarts DEF SameTree
  <2>3. Line(rows, s) \subseteq Line(new, s)
    BY <2>2, <1>1, LineIsLeast
  <2>4. Line(new, s) \subseteq Line(rows, s)
    BY <2>1, <2>2, <1>1, LineIsLeast
  <2> QED BY <2>3, <2>4
<1>3. \A s \in DOMAIN rows : Line(rows, s) \subseteq DOMAIN rows
  BY LineStarts
<1>4. Reached(new) = Reached(rows)
  BY <1>2, <1>3 DEF Reached, SameTree
<1>5. \A super : Children(new, super) = Children(rows, super)
  BY DEF Children, SameTree
<1> QED BY <1>2, <1>4, <1>5

LEMMA SameOrder ==
    ASSUME NEW rows, NEW new, SameTree(rows, new), SectionRows(rows),
           \A s, t \in Reached(rows) : rows[s].super = rows[t].super =>
               (rows[s].position < rows[t].position <=> new[s].position < new[t].position)
    PROVE  OrderedSections(new) = OrderedSections(rows)
<1> DEFINE R == Reached(rows)
<1>1. Reached(new) = R /\ R \subseteq DOMAIN rows
  BY SameTreeReached, RowsAreFinite
<1>2. ASSUME NEW s \in R, NEW t \in R
      PROVE  ComesBefore(new, s, t) <=> ComesBefore(rows, s, t)
  <2>1. Line(new, s) = Line(rows, s) /\ Line(new, t) = Line(rows, t)
    BY <1>1, SameTreeReached
  <2>2. \A u \in Line(rows, s) : u \in R /\ new[u].super = rows[u].super
    BY ReachedUpwards, RowsAreFinite DEF SameTree
  <2>3. \A v \in Line(rows, t) : v \in R /\ new[v].super = rows[v].super
    BY ReachedUpwards, RowsAreFinite DEF SameTree
  <2>4. \A u \in Line(rows, s), v \in Line(rows, t) :
            new[u].super = new[v].super /\ new[u].position < new[v].position
            <=> rows[u].super = rows[v].super /\ rows[u].position < rows[v].position
    BY <2>2, <2>3
  <2> QED BY <2>1, <2>4 DEF ComesBefore
<1>3. {p \in R \X R : ComesBefore(new, p[1], p[2])} = {p \in R \X R : ComesBefore(rows, p[1], p[2])}
  BY <1>2
<1> QED BY <1>1, <1>3 DEF OrderedSections

(***************************************************************************)
(* flat_reorder                                                            *)
(***************************************************************************)
(* Where a move puts what was at a place.                                  *)
Moved(from, to, j) ==
    IF j = from THEN to
    ELSE IF from < j /\ j <= to THEN j - 1
    ELSE IF to <= j /\ j < from THEN j + 1
    ELSE j

(* And where it has taken it from.                                         *)
Taken(from, to, i) ==
    IF i = to THEN from
    ELSE IF from <= i /\ i < to THEN i + 1
    ELSE IF to < i /\ i <= from THEN i - 1
    ELSE i

LEMMA MovedAndTaken ==
    ASSUME NEW n \in Nat, NEW from \in 1..n, NEW to \in 1..n
    PROVE  /\ \A j \in 1..n : Moved(from, to, j) \in 1..n
           /\ \A i \in 1..n : Taken(from, to, i) \in 1..n
           /\ \A j \in 1..n : Taken(from, to, Moved(from, to, j)) = j
           /\ \A i \in 1..n : Moved(from, to, Taken(from, to, i)) = i
           /\ \A i, j \in 1..n : i # from /\ j # from /\ i < j =>
                  Moved(from, to, i) < Moved(from, to, j)
BY DEF Moved, Taken

LEMMA PlacedIsMoved ==
    ASSUME NEW S, NEW order, Enumerates(order, S), NEW key \in S, NEW to \in 1..Len(order)
    PROVE  /\ Enumerates(Placed(order, key, to), S)
           /\ Len(Placed(order, key, to)) = Len(order)
           /\ \A i \in 1..Len(order) :
                  Placed(order, key, to)[i] = order[Taken(Index(order, key), to, i)]
           /\ \A s \in S : Index(Placed(order, key, to), s)
                               = Moved(Index(order, key), to, Index(order, s))
<1> DEFINE n == Len(order)
           from == Index(order, key)
           new == Placed(order, key, to)
<1>1. /\ n \in Nat
      /\ DOMAIN order = 1..n
      /\ from \in 1..n
      /\ order[from] = key
      /\ \A i \in 1..n : order[i] \in S /\ Index(order, order[i]) = i
      /\ \A s \in S : Index(order, s) \in 1..n /\ order[Index(order, s)] = s
  BY IndexOfListed
<1>2. new = [i \in 1..n |->
            CASE i = to -> key
              [] from <= i /\ i < to -> order[i + 1]
              [] to < i /\ i <= from -> order[i - 1]
              [] OTHER -> order[i]]
  BY <1>1 DEF Placed
<1> HIDE DEF n, from, new
<1>3. DOMAIN new = 1..n
  BY <1>2
<1>4. ASSUME NEW i \in 1..n
      PROVE  new[i] = order[Taken(from, to, i)]
  <2>1. i \in Int /\ to \in Int /\ from \in Int
    BY <1>1 DEF n
  <2>2. CASE i = to
    BY <1>1, <1>2, <2>2 DEF Taken
  <2>3. CASE i # to /\ from <= i /\ i < to
    BY <1>1, <1>2, <2>1, <2>3 DEF Taken
  <2>4. CASE to < i /\ i <= from
    BY <1>1, <1>2, <2>1, <2>4 DEF Taken
  <2>5. CASE i # to /\ ~(from <= i /\ i < to) /\ ~(to < i /\ i <= from)
    BY <1>1, <1>2, <2>1, <2>5 DEF Taken
  <2> QED BY <2>1, <2>2, <2>3, <2>4, <2>5
<1>5. /\ \A j \in 1..n : Moved(from, to, j) \in 1..n
      /\ \A i \in 1..n : Taken(from, to, i) \in 1..n
      /\ \A j \in 1..n : Taken(from, to, Moved(from, to, j)) = j
      /\ \A i \in 1..n : Moved(from, to, Taken(from, to, i)) = i
  BY <1>1, MovedAndTaken DEF n
<1>6. \A i \in 1..n : new[i] \in S
  BY <1>1, <1>4, <1>5
<1>7. new \in [1..n -> S]
  BY <1>2, <1>6
<1>8. new \in Seq(S) /\ Len(new) = n
  BY <1>1, <1>7
<1>9. \A i, j \in 1..n : new[i] = new[j] => i = j
  <2> SUFFICES ASSUME NEW i \in 1..n, NEW j \in 1..n, new[i] = new[j]
               PROVE  i = j
    OBVIOUS
  <2>1. Taken(from, to, i) = Taken(from, to, j)
    <3>1. order[Taken(from, to, i)] = order[Taken(from, to, j)]
      BY <1>4
    <3> QED BY <3>1, <1>1, <1>5
  <2> QED BY <2>1, <1>5
<1>10. \A s \in S : Moved(from, to, Index(order, s)) \in 1..n
                    /\ new[Moved(from, to, Index(order, s))] = s
  BY <1>1, <1>4, <1>5
<1>11. Enumerates(new, S)
  BY <1>3, <1>8, <1>9, <1>10 DEF Enumerates
<1>12. \A s \in S : Index(new, s) = Moved(from, to, Index(order, s))
  <2>1. \A i \in 1..n : Index(new, new[i]) = i
    BY <1>3, <1>11, IndexOfListed
  <2> QED BY <2>1, <1>10
<1> QED BY <1>4, <1>8, <1>11, <1>12 DEF n, from, new

(* Removed and inserted, a section is where it was asked to be.            *)
LEMMA FlatReorderPlaces ==
    ASSUME NEW S, NEW order, Enumerates(order, S), NEW key \in S, NEW to \in 1..Len(order)
    PROVE  FlatReorder(order, key, to) = Placed(order, key, to)
<1> DEFINE n == Len(order)
           from == Index(order, key)
           without == RemoveAt(order, from)
           new == InsertAt(without, to, key)
<1>1. /\ n \in Nat
      /\ DOMAIN order = 1..n
      /\ from \in 1..n
      /\ order[from] = key
      /\ \A i \in 1..n : order[i] \in S
      /\ ToSet(order) = S
      /\ order \in Seq(S)
  BY IndexOfListed DEF Enumerates
<1>2. FlatReorder(order, key, to) = new
  BY <1>1 DEF FlatReorder
<1>3. Placed(order, key, to) = [i \in 1..n |->
            CASE i = to -> key
              [] from <= i /\ i < to -> order[i + 1]
              [] to < i /\ i <= from -> order[i - 1]
              [] OTHER -> order[i]]
  BY <1>1 DEF Placed
<1> HIDE DEF n, from
<1>4. from \in Nat /\ from >= 1 /\ from <= n /\ to \in Nat /\ to >= 1 /\ to <= n
  BY <1>1 DEF n
<1>5. /\ without \in Seq(S)
      /\ Len(without) = n - 1
      /\ \A i \in 1..(n - 1) : without[i] = IF i < from THEN order[i] ELSE order[i + 1]
  <2> DEFINE a == SubSeq(order, 1, from - 1)
             b == SubSeq(order, from + 1, n)
  <2>1. a \in Seq(S) /\ Len(a) = from - 1 /\ \A i \in 1..(from - 1) : a[i] = order[i]
    <3>1. 1 \in Int /\ from - 1 \in Int /\ \A i \in 1..(from - 1) : order[i] \in S
      BY <1>1, <1>4
    <3>2. /\ a \in Seq(S)
          /\ Len(a) = IF 1 <= from - 1 THEN (from - 1) - 1 + 1 ELSE 0
          /\ \A i \in 1..((from - 1) - 1 + 1) : a[i] = order[1 + i - 1]
      BY <3>1, SubSeqProperties
    <3> HIDE DEF a
    <3>3. (from - 1) - 1 + 1 = from - 1 /\ \A i \in 1..(from - 1) : 1 + i - 1 = i
      BY <1>4
    <3> QED BY <1>4, <3>2, <3>3
  <2>2. b \in Seq(S) /\ Len(b) = n - from /\ \A i \in 1..(n - from) : b[i] = order[from + i]
    <3>1. n \in Int /\ from + 1 \in Int /\ \A i \in (from + 1)..n : order[i] \in S
      BY <1>1, <1>4
    <3>2. /\ b \in Seq(S)
          /\ Len(b) = IF from + 1 <= n THEN n - (from + 1) + 1 ELSE 0
          /\ \A i \in 1..(n - (from + 1) + 1) : b[i] = order[(from + 1) + i - 1]
      BY <3>1, SubSeqProperties
    <3> HIDE DEF b
    <3>3. n - (from + 1) + 1 = n - from /\ \A i \in 1..(n - from) : (from + 1) + i - 1 = from + i
      BY <1>4, <3>1
    <3> QED BY <1>4, <3>1, <3>2, <3>3
  <2>3. without = a \o b
    BY DEF RemoveAt, n
  <2> HIDE DEF a, b, without
  <2>4. without \in Seq(S) /\ Len(without) = n - 1
    <3>1. without \in Seq(S) /\ Len(without) = Len(a) + Len(b)
      BY <2>1, <2>2, <2>3, ConcatProperties
    <3> QED BY <3>1, <2>1, <2>2, <1>1, <1>4
  <2>c. \A i \in 1..(Len(a) + Len(b)) : without[i] = IF i <= Len(a) THEN a[i] ELSE b[i - Len(a)]
    BY <2>1, <2>2, <2>3, ConcatProperties
  <2>5. ASSUME NEW i \in 1..(n - 1)
        PROVE  without[i] = IF i < from THEN order[i] ELSE order[i + 1]
    <3>1. CASE i < from
      <4>1. i <= Len(a) /\ i \in 1..(Len(a) + Len(b)) /\ i \in 1..(from - 1)
        BY <2>1, <2>2, <3>1, <1>1, <1>4
      <4> QED BY <4>1, <2>1, <2>c, <3>1
    <3>2. CASE ~(i < from)
      <4>1. /\ i - Len(a) \in 1..(n - from)
            /\ i \in 1..(Len(a) + Len(b))
            /\ ~(i <= Len(a))
            /\ from + (i - Len(a)) = i + 1
        BY <2>1, <2>2, <3>2, <1>1, <1>4
      <4>2. without[i] = b[i - Len(a)]
        BY <4>1, <2>c
      <4>3. b[i - Len(a)] = order[i + 1]
        BY <4>1, <2>2
      <4> QED BY <4>2, <4>3, <3>2
    <3> QED BY <3>1, <3>2
  <2> QED BY <2>4, <2>5
<1> HIDE DEF without
<1>6. /\ new \in Seq(S)
      /\ Len(new) = n
      /\ \A i \in 1..n : new[i] = IF i < to THEN without[i]
                                  ELSE IF i = to THEN key ELSE without[i - 1]
  <2> DEFINE a == SubSeq(without, 1, to - 1)
             b == SubSeq(without, to, n - 1)
             c == <<key>>
  <2>1. a \in Seq(S) /\ Len(a) = to - 1 /\ \A i \in 1..(to - 1) : a[i] = without[i]
    <3>1. 1 \in Int /\ to - 1 \in Int /\ \A i \in 1..(to - 1) : without[i] \in S
      <4>1. \A i \in 1..(n - 1) : without[i] \in S
        BY <1>5, ElementOfSeq
      <4> QED BY <1>1, <1>4, <4>1
    <3>2. /\ a \in Seq(S)
          /\ Len(a) = IF 1 <= to - 1 THEN (to - 1) - 1 + 1 ELSE 0
          /\ \A i \in 1..((to - 1) - 1 + 1) : a[i] = without[1 + i - 1]
      BY <3>1, SubSeqProperties
    <3> HIDE DEF a
    <3>3. (to - 1) - 1 + 1 = to - 1 /\ \A i \in 1..(to - 1) : 1 + i - 1 = i
      BY <1>4
    <3> QED BY <1>4, <3>2, <3>3
  <2>2. b \in Seq(S) /\ Len(b) = n - to /\ \A i \in 1..(n - to) : b[i] = without[to + i - 1]
    <3>1. n - 1 \in Int /\ to \in Int /\ \A i \in to..(n - 1) : without[i] \in S
      <4>1. \A i \in 1..(n - 1) : without[i] \in S
        BY <1>5, ElementOfSeq
      <4> QED BY <1>1, <1>4, <4>1
    <3>2. /\ b \in Seq(S)
          /\ Len(b) = IF to <= n - 1 THEN (n - 1) - to + 1 ELSE 0
          /\ \A i \in 1..((n - 1) - to + 1) : b[i] = without[to + i - 1]
      BY <3>1, SubSeqProperties
    <3> HIDE DEF b
    <3>3. (n - 1) - to + 1 = n - to
      BY <1>1, <1>4
    <3> QED BY <1>1, <1>4, <3>2, <3>3
  <2>3. c \in Seq(S) /\ Len(c) = 1 /\ c[1] = key
    OBVIOUS
  <2>4. new = (a \o c) \o b
    BY <1>5 DEF InsertAt
  <2> HIDE DEF a, b, c, new
  <2>5. /\ a \o c \in Seq(S)
        /\ Len(a \o c) = to
        /\ \A i \in 1..(to - 1) : (a \o c)[i] = a[i]
        /\ (a \o c)[to] = key
    <3>1. /\ a \o c \in Seq(S)
          /\ Len(a \o c) = Len(a) + Len(c)
          /\ \A i \in 1..(Len(a) + Len(c)) : (a \o c)[i] = IF i <= Len(a) THEN a[i] ELSE c[i - Len(a)]
      BY <2>1, <2>3, ConcatProperties
    <3>2. Len(a) + Len(c) = to /\ to - Len(a) = 1 /\ ~(to <= Len(a)) /\ to \in 1..to
      BY <2>1, <2>3, <1>4
    <3>3. \A i \in 1..(to - 1) : i \in 1..to /\ i <= Len(a)
      BY <2>1, <1>4
    <3> QED BY <2>3, <3>1, <3>2, <3>3
  <2>d. /\ new \in Seq(S)
        /\ Len(new) = to + Len(b)
        /\ \A i \in 1..(to + Len(b)) : new[i] = IF i <= to THEN (a \o c)[i] ELSE b[i - to]
    <3> DEFINE ac == a \o c
    <3>1. ac \in Seq(S) /\ Len(ac) = to /\ new = ac \o b
      BY <2>4, <2>5
    <3> HIDE DEF ac
    <3>2. /\ ac \o b \in Seq(S)
          /\ Len(ac \o b) = Len(ac) + Len(b)
          /\ \A i \in 1..(Len(ac) + Len(b)) : (ac \o b)[i] = IF i <= Len(ac) THEN ac[i] ELSE b[i - Len(ac)]
      BY <3>1, <2>2, ConcatProperties
    <3> QED BY <3>1, <3>2 DEF ac
  <2>6. new \in Seq(S) /\ Len(new) = n
    BY <2>2, <2>d, <1>1, <1>4
  <2>c. \A i \in 1..(to + Len(b)) : new[i] = IF i <= to THEN (a \o c)[i] ELSE b[i - to]
    BY <2>d
  <2>7. ASSUME NEW i \in 1..n
        PROVE  new[i] = IF i < to THEN without[i] ELSE IF i = to THEN key ELSE without[i - 1]
    <3>1. CASE i < to
      <4>1. i \in 1..(to - 1) /\ i <= to /\ i \in 1..(to + Len(b))
        BY <2>2, <3>1, <1>1, <1>4
      <4>2. new[i] = (a \o c)[i]
        BY <4>1, <2>c
      <4> QED BY <4>1, <4>2, <2>1, <2>5, <3>1
    <3>2. CASE i = to
      <4>1. i <= to /\ i \in 1..(to + Len(b))
        BY <2>2, <3>2, <1>1, <1>4
      <4>2. new[i] = (a \o c)[i]
        BY <4>1, <2>c
      <4> QED BY <4>2, <2>5, <3>2, <1>4
    <3>3. CASE i > to
      <4>1. /\ i - to \in 1..(n - to)
            /\ i \in 1..(to + Len(b))
            /\ ~(i <= to)
            /\ to + (i - to) - 1 = i - 1
        BY <3>3, <2>2, <1>1, <1>4
      <4>2. new[i] = b[i - to]
        BY <4>1, <2>c
      <4>3. b[i - to] = without[i - 1]
        BY <4>1, <2>2
      <4> QED BY <4>2, <4>3, <3>3, <1>4
    <3>4. i < to \/ i = to \/ i > to
      BY <1>1, <1>4
    <3> QED BY <3>1, <3>2, <3>3, <3>4
  <2> QED BY <2>6, <2>7
<1> HIDE DEF new
<1>7. new = [i \in 1..n |-> new[i]]
  BY <1>1, <1>6
<1>8. ASSUME NEW i \in 1..n
      PROVE  new[i] = (CASE i = to -> key
                         [] from <= i /\ i < to -> order[i + 1]
                         [] to < i /\ i <= from -> order[i - 1]
                         [] OTHER -> order[i])
  <2>1. i \in Nat /\ i >= 1 /\ i <= n
    BY <1>1
  <2>2. CASE i = to
    BY <2>1, <2>2, <1>4, <1>6
  <2>3. CASE i < to
    <3>1. i \in 1..(n - 1)
      BY <2>1, <2>3, <1>1, <1>4
    <3> QED BY <2>1, <2>3, <3>1, <1>4, <1>5, <1>6
  <2>4. CASE i > to
    <3>1. i - 1 \in 1..(n - 1) /\ (i - 1) + 1 = i
      BY <2>1, <2>4, <1>1, <1>4
    <3>2. new[i] = without[i - 1]
      BY <2>1, <2>4, <1>4, <1>6
    <3>3. without[i - 1] = IF i - 1 < from THEN order[i - 1] ELSE order[i]
      BY <3>1, <1>5
    <3> QED BY <2>1, <2>4, <3>2, <3>3, <1>4
  <2> QED BY <2>1, <2>2, <2>3, <2>4, <1>4
<1> QED BY <1>2, <1>3, <1>7, <1>8

LEMMA OthersKeepOrder ==
    ASSUME NEW S, NEW order, Enumerates(order, S), NEW key \in S, NEW to \in 1..Len(order),
           NEW s \in S, NEW t \in S, s # key, t # key, Index(order, s) < Index(order, t)
    PROVE  Index(Placed(order, key, to), s) < Index(Placed(order, key, to), t)
<1> DEFINE n == Len(order)
           from == Index(order, key)
           i == Index(order, s)
           j == Index(order, t)
<1>1. /\ n \in Nat
      /\ from \in 1..n /\ i \in 1..n /\ j \in 1..n
      /\ order[from] = key /\ order[i] = s /\ order[j] = t
  BY IndexOfListed
<1>2. Index(Placed(order, key, to), s) = Moved(from, to, i)
      /\ Index(Placed(order, key, to), t) = Moved(from, to, j)
  BY PlacedIsMoved
<1>3. i # from /\ j # from /\ i < j
  BY <1>1
<1>4. to \in 1..n
  OBVIOUS
<1> HIDE DEF n, from, i, j
<1>5. Moved(from, to, i) < Moved(from, to, j)
  BY <1>1, <1>3, <1>4, MovedAndTaken
<1> QED BY <1>2, <1>5

(* Moving a section to the place of a sibling among all sections, it is    *)
(* at the place of the sibling among the siblings.                         *)
LEMMA MovedAmongSiblings ==
    ASSUME NEW S, NEW full, Enumerates(full, S), NEW B \in SUBSET S, NEW part, Enumerates(part, B),
           \A i, j \in DOMAIN part : i < j => Index(full, part[i]) < Index(full, part[j]),
           NEW key \in B, NEW index \in 1..Len(part),
           NEW i \in 1..Len(part), NEW j \in 1..Len(part), i < j
    PROVE  LET asked == Placed(part, key, index)
               new == Placed(full, key, Index(full, part[index]))
           IN  Index(new, asked[i]) < Index(new, asked[j])
<1> DEFINE m == Len(part)
           n == Len(full)
           h(k) == Index(full, part[k])
           home == Index(part, key)
           from == Index(full, key)
           to == h(index)
           asked == Placed(part, key, index)
           new == Placed(full, key, to)
           a == Taken(home, index, i)
           b == Taken(home, index, j)
<1>1. /\ m \in Nat
      /\ DOMAIN part = 1..m
      /\ home \in 1..m
      /\ part[home] = key
      /\ \A k \in 1..m : part[k] \in B
  BY IndexOfListed
<1>2. /\ n \in Nat
      /\ \A s \in S : Index(full, s) \in 1..n /\ full[Index(full, s)] = s
  BY IndexOfListed
<1>3. \A k \in 1..m : h(k) \in 1..n
  BY <1>1, <1>2
<1>4. h(home) = from /\ from \in 1..n /\ to \in 1..n
  BY <1>1, <1>3
<1>5. a \in 1..m /\ b \in 1..m /\ asked[i] = part[a] /\ asked[j] = part[b]
  <2>1. a \in 1..m /\ b \in 1..m
    BY <1>1, MovedAndTaken
  <2>2. \A k \in 1..m : asked[k] = part[Taken(home, index, k)]
    BY PlacedIsMoved
  <2> QED BY <2>1, <2>2
<1>6. Index(new, asked[i]) = Moved(from, to, h(a)) /\ Index(new, asked[j]) = Moved(from, to, h(b))
  <2>1. key \in S /\ part[a] \in S /\ part[b] \in S
    BY <1>1, <1>5
  <2> QED BY <2>1, <1>4, <1>5, PlacedIsMoved
<1>7. \A x, y \in 1..m : (x < y => h(x) < h(y)) /\ (x = y => h(x) = h(y))
  BY <1>1
<1>8. /\ a < b => h(a) < h(b)
      /\ b < a => h(b) < h(a)
      /\ a = b => h(a) = h(b)
      /\ a < home => h(a) < from
      /\ a = home => h(a) = from
      /\ a > home => h(a) > from
      /\ b < home => h(b) < from
      /\ b = home => h(b) = from
      /\ b > home => h(b) > from
      /\ a < index => h(a) < to
      /\ a = index => h(a) = to
      /\ a > index => h(a) > to
      /\ b < index => h(b) < to
      /\ b = index => h(b) = to
      /\ b > index => h(b) > to
      /\ home < index => from < to
      /\ home = index => from = to
      /\ home > index => from > to
  BY <1>1, <1>4, <1>5, <1>7
<1>9. h(a) \in Int /\ h(b) \in Int /\ from \in Int /\ to \in Int
  BY <1>2, <1>3, <1>4, <1>5
<1>10. home \in Int /\ index \in Int /\ i \in Int /\ j \in Int
  BY <1>1
<1>11. a = Taken(home, index, i) /\ b = Taken(home, index, j)
  OBVIOUS
<1> DEFINE ha == h(a)
           hb == h(b)
<1> HIDE DEF m, n, h, home, from, to, asked, new, a, b, ha, hb
<1>12. Moved(from, to, ha) < Moved(from, to, hb)
  BY <1>8, <1>9, <1>10, <1>11 DEF Moved, Taken, ha, hb
<1> QED BY <1>6, <1>12 DEF asked, new, to, ha, hb, h

(***************************************************************************)
(* The inductive invariant                                                 *)
(***************************************************************************)
TurnType ==
    [pc : {"idle", "start", "shift", "settle", "renumber", "save"},
     key : Section \union {NoSection}, super : Section \union {NoSection},
     order : Seq(Section), start : Nat, asked : Seq(Section), again : BOOLEAN,
     overtaken : BOOLEAN, result : {"none", "refused", "moved", "saved", "fails"}]

(* The order to come keeps that of the siblings, but for the one moved.    *)
Follows(rows, order, free) ==
    \A s, t \in Reached(rows) \ free :
        rows[s].super = rows[t].super /\ rows[s].position < rows[t].position
            => Index(order, s) < Index(order, t)

(* It has the siblings where they were asked to be.                        *)
AsAsked(rows, T) ==
    /\ Children(rows, T.super) \subseteq Reached(rows)
    /\ Enumerates(T.asked, Children(rows, T.super))
    /\ \A i, j \in DOMAIN T.asked :
           i < j => Index(T.order, T.asked[i]) < Index(T.order, T.asked[j])

Numbering == {"start", "shift", "settle"}

(* What a request nobody overtook knows of the sections.                   *)
TurnHolds(rows, T) ==
    /\ T.pc \in Numbering => Enumerates(T.order, Reached(rows)) /\ AsAsked(rows, T)
    /\ T.pc \in {"start", "shift"} =>
           Follows(rows, T.order, IF T.again THEN {} ELSE {T.key})
    /\ T.pc \in Numbering /\ T.again => T.order = OrderedSections(rows)
    /\ T.pc = "shift" => T.start = NextPosition(rows)
    /\ T.pc = "settle" =>
           /\ T.start > Cardinality(DOMAIN rows)
           /\ \A s \in Reached(rows) : rows[s].position = T.start + Index(T.order, s) - 1
    /\ T.pc = "renumber" =>
           Children(rows, T.super) \subseteq Reached(rows) /\ T.asked = Siblings(rows, T.super)
    /\ T.pc = "save" =>
           IF T.key = NoSection THEN T.start = NextPosition(rows)
           ELSE T.key \in DOMAIN rows /\ T.start = rows[T.key].position
    /\ T.result = "moved" => Siblings(rows, T.super) = T.asked /\ Numbered(rows)
    /\ T.result = "fails" => Unreached(rows)

TurnStands(T) ==
    /\ T \in TurnType
    /\ T.pc \in {"shift", "settle", "save"} => T.start > 0
    /\ T.pc # "idle" => T.result = "none"

PositionInv ==
    /\ Table(place)
    /\ unused \subseteq Section
    /\ unused \intersect DOMAIN place = {}
    /\ DOMAIN turn = Designer
    /\ \A d \in Designer :
           /\ TurnStands(turn[d])
           /\ turn[d].overtaken => turn[d].result = "none"
           /\ ~turn[d].overtaken => TurnHolds(place, turn[d])

(***************************************************************************)
(* Numbers                                                                 *)
(***************************************************************************)
LEMMA ListLength ==
    ASSUME NEW S, IsFiniteSet(S), NEW seq, Enumerates(seq, S)
    PROVE  Len(seq) = Cardinality(S) /\ Len(seq) \in Nat
<1> DEFINE m == Len(seq)
<1>1. m \in Nat /\ seq \in [1..m -> S] /\ DOMAIN seq = 1..m
  BY DEF Enumerates
<1>2. seq \in Bijection(1..m, S)
  BY <1>1 DEF Enumerates, Bijection, Injection, Surjection, IsInjective
<1>3. ExistsBijection(1..m, S)
  BY <1>2 DEF ExistsBijection
<1> HIDE DEF m
<1>4. IsFiniteSet(1..m) /\ Cardinality(1..m) = m
  <2>1. 1 \in Int /\ m \in Int
    BY <1>1
  <2>2. IsFiniteSet(1..m) /\ Cardinality(1..m) = IF 1 > m THEN 0 ELSE m - 1 + 1
    BY <2>1, FS_Interval
  <2> QED BY <1>1, <2>2
<1>5. Cardinality(S) = m
  BY <1>3, <1>4, FS_Bijection
<1> QED BY <1>1, <1>5 DEF m

(* One of the sections is the last of all.                                 *)
LEMMA LastPosition ==
    ASSUME NEW rows, Table(rows), DOMAIN rows # {}
    PROVE  \E t \in DOMAIN rows : \A s \in DOMAIN rows : rows[s].position <= rows[t].position
<1> DEFINE all == DOMAIN rows
           before == {p \in all \X all : rows[p[1]].position < rows[p[2]].position}
           seq == Arranged(all, before)
           n == Cardinality(all)
<1>1. \A s \in all : rows[s].position \in Nat
  BY PositionOf DEF Table
<1>2. IsFiniteSet(all)
  BY RowsAreFinite DEF Table
<1>3. \A s, t \in all : s # t => rows[s].position # rows[t].position
  BY DEF Table, PositionsDiffer
<1>4. \A s, t \in all : <<s, t>> \in before <=> rows[s].position < rows[t].position
  OBVIOUS
<1>5. all # {}
  OBVIOUS
<1> HIDE DEF all, before, seq, n
<1>6. Orders(all, before)
  BY <1>1, <1>2, <1>3, <1>4 DEF Orders
<1>7. Enumerates(seq, all) /\ Increases(seq, before) /\ DOMAIN seq = 1..n
  BY <1>6, InOrderSorts DEF seq, n
<1>8. n \in Nat /\ n # 0
  BY <1>2, <1>5, FS_CardinalityType, FS_EmptySet DEF n
<1>9. n \in 1..n
  BY <1>8
<1>10. seq[n] \in all
  BY <1>7, <1>9 DEF Enumerates
<1>11. ASSUME NEW s \in all
       PROVE  rows[s].position <= rows[seq[n]].position
  <2>1. PICK i \in 1..n : seq[i] = s
    BY <1>7 DEF Enumerates
  <2>2. CASE i = n
    BY <1>1, <2>1, <2>2
  <2>3. CASE i # n
    <3>1. i < n
      BY <1>8, <2>3
    <3>2. <<s, seq[n]>> \in before
      BY <1>7, <1>9, <2>1, <3>1 DEF Increases
    <3> QED BY <1>1, <1>4, <1>10, <3>2
  <2> QED BY <2>2, <2>3
<1> QED BY <1>10, <1>11 DEF all

(* get_next_position is above all positions, and above how many there are. *)
LEMMA NextIsAbove ==
    ASSUME NEW rows, Table(rows)
    PROVE  /\ NextPosition(rows) \in Nat \ {0}
           /\ \A s \in DOMAIN rows : rows[s].position < NextPosition(rows)
           /\ Cardinality(DOMAIN rows) \in Nat
           /\ Cardinality(DOMAIN rows) < NextPosition(rows)
<1>1. IsFiniteSet(DOMAIN rows) /\ Cardinality(DOMAIN rows) \in Nat
  BY RowsAreFinite, FS_CardinalityType DEF Table
<1>2. \A s \in DOMAIN rows : rows[s].position \in Nat \ {0}
  BY PositionOf DEF Table
<1>3. CASE DOMAIN rows = {}
  <2>1. NextPosition(rows) = 1
    BY <1>3 DEF NextPosition
  <2>2. Cardinality(DOMAIN rows) = 0
    BY <1>3, FS_EmptySet
  <2> QED BY <1>3, <2>1, <2>2
<1>4. CASE DOMAIN rows # {}
  <2> DEFINE last == CHOOSE n \in {rows[s].position : s \in DOMAIN rows} :
                         \A s \in DOMAIN rows : rows[s].position <= n
  <2>1. \E n \in {rows[s].position : s \in DOMAIN rows} :
            \A s \in DOMAIN rows : rows[s].position <= n
    BY <1>4, LastPosition
  <2>2. last \in {rows[s].position : s \in DOMAIN rows}
        /\ \A s \in DOMAIN rows : rows[s].position <= last
    BY <2>1
  <2>3. NextPosition(rows) = 1 + last
    BY <1>4 DEF NextPosition
  <2> HIDE DEF last
  <2>4. last \in Nat
    BY <1>2, <2>2
  <2> DEFINE f == [s \in DOMAIN rows |-> rows[s].position]
             T == 1..last
  <2>5. f \in [DOMAIN rows -> T]
    BY <1>2, <2>2, <2>4
  <2>6. f \in Injection(DOMAIN rows, T)
    BY <2>5 DEF Injection, IsInjective, Table, PositionsDiffer
  <2>7. IsFiniteSet(T) /\ Cardinality(T) = last
    <3>1. 1 \in Int /\ last \in Int
      BY <2>4
    <3>2. IsFiniteSet(1..last) /\ Cardinality(1..last) = IF 1 > last THEN 0 ELSE last - 1 + 1
      BY <3>1, FS_Interval
    <3> QED BY <2>4, <3>2
  <2> HIDE DEF f, T
  <2>8. Cardinality(DOMAIN rows) <= last
    BY <2>6, <2>7, FS_Injection
  <2> QED BY <1>1, <1>2, <2>2, <2>3, <2>4, <2>8
<1> QED BY <1>3, <1>4

(***************************************************************************)
(* _set_order                                                              *)
(***************************************************************************)
LEMMA RenumberedRows ==
    ASSUME NEW rows, SectionRows(rows), NEW order \in Seq(Section), NEW start \in Nat \ {0}
    PROVE  LET new == Renumbered(rows, order, start)
           IN  /\ SectionRows(new)
               /\ SameTree(rows, new)
               /\ \A s \in DOMAIN rows :
                      new[s].position = IF s \in ToSet(order) THEN start + Index(order, s) - 1
                                        ELSE rows[s].position
<1> DEFINE new == Renumbered(rows, order, start)
           place0(s) == start + Index(order, s) - 1
<1>1. DOMAIN new = DOMAIN rows
  BY DEF Renumbered
<1>2. \A s \in DOMAIN rows : rows[s] \in [super : Section \union {NoSection}, position : Nat \ {0}]
  BY DEF SectionRows
<1>3. ASSUME NEW s \in DOMAIN rows, s \in ToSet(order)
      PROVE  place0(s) \in Nat \ {0}
  <2>1. Index(order, s) \in DOMAIN order
    BY <1>3, IndexIsPlace DEF ToSet
  <2>2. DOMAIN order = 1..Len(order) /\ Len(order) \in Nat
    OBVIOUS
  <2>3. Index(order, s) \in Nat \ {0}
    BY <2>1, <2>2
  <2> QED BY <2>3
<1>4. ASSUME NEW s \in DOMAIN rows
      PROVE  /\ new[s] \in [super : Section \union {NoSection}, position : Nat \ {0}]
             /\ new[s].super = rows[s].super
             /\ new[s].position = IF s \in ToSet(order) THEN place0(s) ELSE rows[s].position
  <2>1. CASE s \in ToSet(order)
    <3>1. new[s] = [rows[s] EXCEPT !.position = place0(s)]
      BY <2>1 DEF Renumbered
    <3>2. place0(s) \in Nat \ {0}
      BY <1>3, <2>1
    <3> HIDE DEF new, place0
    <3> QED BY <1>2, <2>1, <3>1, <3>2
  <2>2. CASE s \notin ToSet(order)
    BY <1>2, <2>2 DEF Renumbered
  <2> QED BY <2>1, <2>2
<1>5. new = [s \in DOMAIN rows |-> new[s]]
  BY DEF Renumbered
<1> HIDE DEF new, place0
<1>6. new \in [DOMAIN new -> [super : Section \union {NoSection}, position : Nat \ {0}]]
  BY <1>1, <1>4, <1>5
<1>7. SectionRows(new)
  BY <1>1, <1>6 DEF SectionRows
<1>8. SameTree(rows, new)
  BY <1>1, <1>4 DEF SameTree
<1> QED BY <1>4, <1>7, <1>8 DEF new, place0

(* A numbering in the order of the sections found.                         *)
LEMMA NumbersFollow ==
    ASSUME NEW rows, Table(rows), NEW order, Enumerates(order, Reached(rows)),
           NEW start \in Nat \ {0}
    PROVE  LET new == Renumbered(rows, order, start)
           IN  /\ order \in Seq(Section)
               /\ Len(order) <= Cardinality(DOMAIN rows)
               /\ SectionRows(new)
               /\ SameTree(rows, new)
               /\ Reached(new) = Reached(rows)
               /\ DOMAIN new = DOMAIN rows
               /\ \A super : Children(new, super) = Children(rows, super)
               /\ \A s \in Reached(rows) :
                      /\ new[s].position = start + Index(order, s) - 1
                      /\ Index(order, s) \in 1..Len(order)
               /\ \A s \in DOMAIN rows \ Reached(rows) : new[s].position = rows[s].position
<1> DEFINE new == Renumbered(rows, order, start)
<1>1. /\ Reached(rows) \subseteq DOMAIN rows
      /\ DOMAIN rows \subseteq Section
      /\ IsFiniteSet(Reached(rows))
      /\ IsFiniteSet(DOMAIN rows)
  BY RowsAreFinite DEF Table, SectionRows
<1>2. order \in Seq(Section)
  <2>1. order \in Seq(Reached(rows)) /\ Reached(rows) \subseteq Section
    BY <1>1 DEF Enumerates
  <2> QED BY <2>1, SeqMonotonic
<1>3. Len(order) <= Cardinality(DOMAIN rows)
  <2>1. Len(order) = Cardinality(Reached(rows))
    BY <1>1, ListLength
  <2>2. Cardinality(Reached(rows)) <= Cardinality(DOMAIN rows)
    BY <1>1, FS_Subset
  <2> QED BY <2>1, <2>2
<1>4. ToSet(order) = Reached(rows) /\ \A s \in Reached(rows) : Index(order, s) \in 1..Len(order)
  BY IndexOfListed
<1>5. /\ SectionRows(new)
      /\ SameTree(rows, new)
      /\ \A s \in DOMAIN rows :
             new[s].position = IF s \in ToSet(order) THEN start + Index(order, s) - 1
                               ELSE rows[s].position
  BY <1>2, RenumberedRows DEF Table
<1>6. /\ Reached(new) = Reached(rows)
      /\ \A super : Children(new, super) = Children(rows, super)
      /\ DOMAIN new = DOMAIN rows
  BY <1>5, SameTreeReached DEF SameTree
<1> HIDE DEF new
<1> QED BY <1>1, <1>2, <1>3, <1>4, <1>5, <1>6 DEF new

(* Siblings whose numbers follow the order keep theirs.                    *)
LEMMA NumbersKeepOrder ==
    ASSUME NEW rows, Table(rows), NEW order, Enumerates(order, Reached(rows)),
           NEW start \in Nat \ {0}, NEW free, Follows(rows, order, free),
           NEW s \in DOMAIN rows, NEW t \in DOMAIN rows, s \notin free, t \notin free,
           rows[s].super = rows[t].super
    PROVE  LET new == Renumbered(rows, order, start)
           IN  rows[s].position < rows[t].position <=> new[s].position < new[t].position
<1> DEFINE new == Renumbered(rows, order, start)
           i == Index(order, s)
           j == Index(order, t)
<1>1. NoSection \notin DOMAIN rows
  BY RowsAreFinite DEF Table
<1>2. rows[s].position \in Nat /\ rows[t].position \in Nat
  BY PositionOf DEF Table
<1>3. /\ \A x \in Reached(rows) :
             /\ new[x].position = start + Index(order, x) - 1
             /\ Index(order, x) \in 1..Len(order)
      /\ \A x \in DOMAIN rows \ Reached(rows) : new[x].position = rows[x].position
  BY NumbersFollow
<1> HIDE DEF new
<1>4. CASE s \in Reached(rows)
  <2>1. t \in Reached(rows)
    BY <1>1, <1>4, SiblingsReached
  <2>2. /\ new[s].position = start + i - 1
        /\ new[t].position = start + j - 1
        /\ i \in 1..Len(order)
        /\ j \in 1..Len(order)
    BY <1>3, <1>4, <2>1
  <2>3. /\ rows[s].position < rows[t].position => i < j
        /\ rows[t].position < rows[s].position => j < i
    BY <1>4, <2>1 DEF Follows
  <2>4. rows[s].position = rows[t].position => i = j
    BY DEF Table, PositionsDiffer
  <2> HIDE DEF i, j
  <2>5. rows[s].position < rows[t].position <=> new[s].position < new[t].position
    BY <1>2, <2>2, <2>3, <2>4
  <2> QED BY <2>5 DEF new
<1>5. CASE s \notin Reached(rows)
  <2>1. t \notin Reached(rows)
    BY <1>1, <1>5, SiblingsReached
  <2>2. new[s].position = rows[s].position /\ new[t].position = rows[t].position
    BY <1>3, <1>5, <2>1
  <2> QED BY <2>2 DEF new
<1> QED BY <1>4, <1>5

(***************************************************************************)
(* The numberings of a request that nobody overtook                        *)
(***************************************************************************)
LEMMA RestingHolds ==
    ASSUME NEW rows
    PROVE  /\ TurnHolds(rows, Resting)
           /\ TurnStands(Resting)
           /\ ~Resting.overtaken
           /\ Resting.result = "none"
           /\ Resting.pc = "idle"
<1>1. <<>> \in Seq(Section)
  BY EmptySeq
<1>2. Resting \in TurnType
  BY <1>1 DEF Resting, TurnType
<1> QED BY <1>2 DEF Resting, TurnHolds, TurnStands, Numbering

(* The first update: numbers above all others, none is taken.              *)
LEMMA ShiftFits ==
    ASSUME NEW rows, Table(rows), NEW T, TurnStands(T), TurnHolds(rows, T), T.pc = "shift"
    PROVE  LET new == Renumbered(rows, T.order, T.start)
           IN  /\ ~MayCollide(rows, new)
               /\ Len(T.order) <= Cardinality(DOMAIN rows)
               /\ PositionsDiffer(new) => TurnHolds(new, [T EXCEPT !.pc = "settle"])
<1> DEFINE order == T.order
           start == T.start
           new == Renumbered(rows, order, start)
           next == [T EXCEPT !.pc = "settle"]
<1>1. /\ Enumerates(order, Reached(rows))
      /\ AsAsked(rows, T)
      /\ Follows(rows, order, IF T.again THEN {} ELSE {T.key})
      /\ T.again => order = OrderedSections(rows)
      /\ start = NextPosition(rows)
  BY DEF TurnHolds, Numbering
<1>2. /\ start \in Nat \ {0}
      /\ \A s \in DOMAIN rows : rows[s].position < start
      /\ Cardinality(DOMAIN rows) \in Nat
      /\ Cardinality(DOMAIN rows) < start
  BY <1>1, NextIsAbove
<1>3. /\ order \in Seq(Section)
      /\ Len(order) <= Cardinality(DOMAIN rows)
      /\ SectionRows(new)
      /\ SameTree(rows, new)
      /\ Reached(new) = Reached(rows)
      /\ DOMAIN new = DOMAIN rows
      /\ \A super : Children(new, super) = Children(rows, super)
      /\ \A s \in Reached(rows) :
             /\ new[s].position = start + Index(order, s) - 1
             /\ Index(order, s) \in 1..Len(order)
      /\ \A s \in DOMAIN rows \ Reached(rows) : new[s].position = rows[s].position
  BY <1>1, <1>2, NumbersFollow
<1>4. \A s \in DOMAIN rows : rows[s].position \in Nat
  BY PositionOf DEF Table
<1>5. /\ next.pc = "settle"
      /\ next.order = order
      /\ next.start = start
      /\ next.again = T.again
      /\ next.super = T.super
      /\ next.asked = T.asked
      /\ next.result = "none"
  BY DEF TurnType, TurnStands
<1> HIDE DEF order, start, new, next
<1>6. ~MayCollide(rows, new)
  <2> SUFFICES ASSUME NEW s \in DOMAIN rows, NEW t \in DOMAIN rows, s # t,
                      new[s].position = rows[t].position
               PROVE  FALSE
    BY DEF MayCollide
  <2>1. CASE s \in Reached(rows)
    <3>1. new[s].position = start + Index(order, s) - 1 /\ Index(order, s) \in 1..Len(order)
      BY <1>3, <2>1
    <3>2. rows[t].position < start
      BY <1>2
    <3> QED BY <1>2, <1>4, <3>1, <3>2
  <2>2. CASE s \notin Reached(rows)
    <3>1. new[s].position = rows[s].position
      BY <1>3, <2>2
    <3> QED BY <3>1 DEF Table, PositionsDiffer
  <2> QED BY <2>1, <2>2
<1>7. ASSUME PositionsDiffer(new)
      PROVE  TurnHolds(new, next)
  <2>1. Enumerates(order, Reached(new))
    BY <1>1, <1>3
  <2>2. AsAsked(new, next)
    BY <1>1, <1>3, <1>5 DEF AsAsked, order
  <2>3. T.again => order = OrderedSections(new)
    <3> SUFFICES ASSUME T.again
                 PROVE  order = OrderedSections(new)
      OBVIOUS
    <3>1. Follows(rows, order, {})
      BY <1>1
    <3>2. Reached(rows) \subseteq DOMAIN rows
      BY RowsAreFinite DEF Table
    <3>3. \A s, t \in Reached(rows) : rows[s].super = rows[t].super =>
              (rows[s].position < rows[t].position <=> new[s].position < new[t].position)
      BY <1>1, <1>2, <3>1, <3>2, NumbersKeepOrder DEF new
    <3>4. OrderedSections(new) = OrderedSections(rows)
      BY <1>3, <3>3, SameOrder DEF Table
    <3> QED BY <1>1, <3>4
  <2>4. start > Cardinality(DOMAIN new)
    BY <1>2, <1>3
  <2>5. \A s \in Reached(new) : new[s].position = start + Index(order, s) - 1
    BY <1>3
  <2> QED BY <1>5, <2>1, <2>2, <2>3, <2>4, <2>5 DEF TurnHolds, Numbering
<1> QED BY <1>3, <1>6, <1>7 DEF order, start, new, next

(* The second: the numbers from one on are free when every section has     *)
(* been found, and the siblings are as they were asked to be.              *)
LEMMA SettleFits ==
    ASSUME NEW rows, Table(rows), NEW T, TurnStands(T), TurnHolds(rows, T), T.pc = "settle"
    PROVE  LET new == Renumbered(rows, T.order, 1)
           IN  /\ Unreached(rows) \/ ~MayCollide(rows, new)
               /\ Len(T.order) <= Cardinality(DOMAIN rows)
               /\ Follows(rows, T.order, {})
               /\ PositionsDiffer(new) =>
                      /\ Children(new, T.super) \subseteq Reached(new)
                      /\ Siblings(new, T.super) = T.asked
                      /\ T.again => Numbered(new)
<1> DEFINE order == T.order
           start == T.start
           new == Renumbered(rows, order, 1)
<1>1. /\ Enumerates(order, Reached(rows))
      /\ AsAsked(rows, T)
      /\ T.again => order = OrderedSections(rows)
      /\ start > Cardinality(DOMAIN rows)
      /\ \A s \in Reached(rows) : rows[s].position = start + Index(order, s) - 1
  BY DEF TurnHolds, Numbering
<1>2. start \in Nat /\ Cardinality(DOMAIN rows) \in Nat
  BY RowsAreFinite, FS_CardinalityType DEF TurnStands, TurnType, Table
<1>3. /\ order \in Seq(Section)
      /\ Len(order) <= Cardinality(DOMAIN rows)
      /\ SectionRows(new)
      /\ SameTree(rows, new)
      /\ Reached(new) = Reached(rows)
      /\ DOMAIN new = DOMAIN rows
      /\ \A super : Children(new, super) = Children(rows, super)
      /\ \A s \in Reached(rows) :
             /\ new[s].position = 1 + Index(order, s) - 1
             /\ Index(order, s) \in 1..Len(order)
  BY <1>1, NumbersFollow
<1>4. /\ Reached(rows) \subseteq DOMAIN rows
      /\ IsFiniteSet(Reached(rows))
      /\ Len(order) \in Nat
      /\ DOMAIN order = 1..Len(order)
  BY <1>1, RowsAreFinite, IndexOfListed DEF Table
<1>5. \A s \in Reached(rows) : new[s].position = Index(order, s)
  BY <1>3, <1>4
<1>6. Follows(rows, order, {})
  <2> SUFFICES ASSUME NEW s \in Reached(rows), NEW t \in Reached(rows),
                      rows[s].position < rows[t].position
               PROVE  Index(order, s) < Index(order, t)
    BY DEF Follows
  <2> DEFINE i == Index(order, s)
             j == Index(order, t)
  <2>1. start + i - 1 < start + j - 1 /\ i \in 1..Len(order) /\ j \in 1..Len(order)
    BY <1>1, <1>3
  <2> HIDE DEF i, j, start, order
  <2>2. i < j
    BY <1>2, <1>4, <2>1
  <2> QED BY <2>2 DEF i, j
<1>7. Unreached(rows) \/ ~MayCollide(rows, new)
  <2> SUFFICES ASSUME ~Unreached(rows), NEW s \in DOMAIN rows, NEW t \in DOMAIN rows,
                      new[s].position = rows[t].position
               PROVE  FALSE
    BY DEF MayCollide
  <2>1. ToSet(OrderedSections(rows)) = Reached(rows)
    BY SectionsInOrder, IndexOfListed
  <2>2. s \in Reached(rows) /\ t \in Reached(rows)
    BY <2>1 DEF Unreached
  <2> DEFINE i == Index(order, s)
             j == Index(order, t)
  <2>3. i = start + j - 1 /\ i \in 1..Len(order) /\ j \in 1..Len(order)
    BY <1>1, <1>3, <1>5, <2>2
  <2> HIDE DEF i, j, start, order
  <2> QED BY <1>1, <1>2, <1>3, <1>4, <2>3
<1> HIDE DEF order, start, new
<1>8. ASSUME PositionsDiffer(new)
      PROVE  /\ Children(new, T.super) \subseteq Reached(new)
             /\ Siblings(new, T.super) = T.asked
             /\ T.again => Numbered(new)
  <2>1. Table(new)
    BY <1>3, <1>8 DEF Table
  <2>2. /\ Children(new, T.super) \subseteq Reached(new)
        /\ Enumerates(T.asked, Children(new, T.super))
        /\ \A i, j \in DOMAIN T.asked : i < j => Index(order, T.asked[i]) < Index(order, T.asked[j])
    BY <1>1, <1>3 DEF AsAsked, order
  <2>3. \A i \in DOMAIN T.asked : T.asked[i] \in Reached(rows)
    BY <1>3, <2>2 DEF Enumerates
  <2>4. \A i, j \in DOMAIN T.asked : i < j => new[T.asked[i]].position < new[T.asked[j]].position
    BY <1>5, <2>2, <2>3
  <2>5. Siblings(new, T.super) = T.asked
    BY <2>1, <2>2, <2>4, SiblingsByPosition
  <2>6. ASSUME T.again
        PROVE  Numbered(new)
    <3>1. \A s, t \in Reached(rows) : rows[s].super = rows[t].super =>
              (rows[s].position < rows[t].position <=> new[s].position < new[t].position)
      BY <1>1, <1>4, <1>6, NumbersKeepOrder DEF new
    <3>2. OrderedSections(new) = OrderedSections(rows)
      BY <1>3, <3>1, SameOrder DEF Table
    <3>3. OrderedSections(new) = order
      BY <1>1, <2>6, <3>2
    <3>4. \A i \in DOMAIN order : order[i] \in Reached(rows) /\ Index(order, order[i]) = i
      BY <1>1, IndexOfListed
    <3> QED BY <1>5, <3>3, <3>4 DEF Numbered
  <2> QED BY <2>2, <2>5, <2>6
<1> QED BY <1>3, <1>6, <1>7, <1>8 DEF order, new

(* The tree of the numbered sections, to be numbered once more.            *)
LEMMA RenumberFits ==
    ASSUME NEW rows, Table(rows), NEW T, TurnStands(T), TurnHolds(rows, T), T.pc = "renumber"
    PROVE  LET next == [T EXCEPT !.pc = "start", !.again = TRUE, !.order = OrderedSections(rows)]
           IN  TurnStands(next) /\ TurnHolds(rows, next)
<1> DEFINE order == OrderedSections(rows)
           next == [T EXCEPT !.pc = "start", !.again = TRUE, !.order = OrderedSections(rows)]
<1>1. /\ Enumerates(order, Reached(rows))
      /\ \A s, t \in Reached(rows) :
             rows[s].super = rows[t].super /\ rows[s].position < rows[t].position
                 => Index(order, s) < Index(order, t)
  BY SectionsInOrder
<1>2. Children(rows, T.super) \subseteq Reached(rows) /\ T.asked = Siblings(rows, T.super)
  BY DEF TurnHolds
<1>3. /\ Enumerates(T.asked, Children(rows, T.super))
      /\ \A i, j \in DOMAIN T.asked : i < j => rows[T.asked[i]].position < rows[T.asked[j]].position
  BY <1>2, SiblingsInOrder
<1>4. order \in Seq(Section)
  <2>1. order \in Seq(Reached(rows))
    BY <1>1 DEF Enumerates
  <2>2. Reached(rows) \subseteq Section
    BY RowsAreFinite DEF Table, SectionRows
  <2> QED BY <2>1, <2>2, SeqMonotonic
<1> HIDE DEF order
<1>5. /\ next \in TurnType
      /\ next.pc = "start"
      /\ next.order = order
      /\ next.again = TRUE
      /\ next.super = T.super
      /\ next.asked = T.asked
      /\ next.result = "none"
  BY <1>4 DEF TurnType, TurnStands, order
<1> HIDE DEF next
<1>6. TurnStands(next)
  BY <1>5 DEF TurnStands
<1>7. \A i \in DOMAIN T.asked : T.asked[i] \in Reached(rows) /\ rows[T.asked[i]].super = T.super
  BY <1>2, <1>3 DEF Enumerates, Children
<1>8. AsAsked(rows, next)
  BY <1>1, <1>2, <1>3, <1>5, <1>7 DEF AsAsked
<1>9. Follows(rows, order, {})
  BY <1>1 DEF Follows
<1>10. TurnHolds(rows, next)
  BY <1>1, <1>5, <1>8, <1>9 DEF TurnHolds, Numbering, order
<1> QED BY <1>6, <1>10 DEF next

LEMMA NewIndexIsPlace ==
    ASSUME NEW S, NEW order, Enumerates(order, S), NEW key, NEW movement \in Movement,
           GetNewIndex(movement, order, key) # 0
    PROVE  key \in S /\ GetNewIndex(movement, order, key) \in 1..Len(order)
<1>1. ToSet(order) = S /\ Len(order) \in Nat /\ \A s \in S : Index(order, s) \in 1..Len(order)
  BY IndexOfListed
<1>2. key \in S
  BY <1>1 DEF GetNewIndex
<1> DEFINE index == Index(order, key)
           last == Len(order)
<1>3. index \in 1..last /\ last \in Nat
  BY <1>1, <1>2
<1>4. GetNewIndex(movement, order, key) =
          CASE movement = "up" -> index - 1
            [] movement = "top" -> IF index = 1 THEN 0 ELSE 1
            [] movement = "down" -> IF index = last THEN 0 ELSE index + 1
            [] movement = "bottom" -> IF index = last THEN 0 ELSE last
  BY <1>1, <1>2 DEF GetNewIndex
<1> HIDE DEF index, last
<1>5. movement \in {"up", "down", "top", "bottom"}
  BY DEF Movement
<1>6. GetNewIndex(movement, order, key) \in 1..last
  BY <1>3, <1>4, <1>5
<1> QED BY <1>2, <1>6 DEF last

(* A move, with the new order of the whole template.                       *)
LEMMA MoveFits ==
    ASSUME NEW rows, Table(rows), NEW super \in Section, NEW key, NEW index,
           key \in Children(rows, super), index \in 1..Len(Siblings(rows, super)),
           Siblings(rows, super)[index] \in ToSet(OrderedSections(rows))
    PROVE  LET order == Siblings(rows, super)
               full == OrderedSections(rows)
               next == [Resting EXCEPT !.pc = "start", !.key = key, !.super = super,
                           !.order = FlatReorder(full, key, Index(full, order[index])),
                           !.asked = Placed(order, key, index)]
           IN  TurnStands(next) /\ TurnHolds(rows, next) /\ ~next.overtaken
<1> DEFINE order == Siblings(rows, super)
           full == OrderedSections(rows)
           to == Index(full, order[index])
           asked == Placed(order, key, index)
           new == FlatReorder(full, key, to)
           next == [Resting EXCEPT !.pc = "start", !.key = key, !.super = super,
                       !.order = new, !.asked = asked]
           R == Reached(rows)
           B == Children(rows, super)
<1>1. /\ Enumerates(order, B)
      /\ \A i, j \in DOMAIN order : i < j => rows[order[i]].position < rows[order[j]].position
  BY SiblingsInOrder
<1>2. /\ Enumerates(full, R)
      /\ \A s, t \in R : rows[s].super = rows[t].super /\ rows[s].position < rows[t].position
             => Index(full, s) < Index(full, t)
  BY SectionsInOrder
<1>3. /\ NoSection \notin DOMAIN rows
      /\ R \subseteq DOMAIN rows
      /\ DOMAIN rows \subseteq Section
  BY RowsAreFinite DEF Table, SectionRows
<1>4. order[index] \in R /\ order[index] \in B /\ DOMAIN order = 1..Len(order)
  BY <1>1, <1>2, IndexOfListed
<1>5. B \subseteq R
  <2> SUFFICES ASSUME NEW t \in B
               PROVE  t \in R
    OBVIOUS
  <2>1. t \in DOMAIN rows /\ rows[t].super = rows[order[index]].super
    BY <1>4 DEF Children
  <2> QED BY <1>3, <1>4, <2>1, SiblingsReached
<1>6. key \in R /\ key \in B /\ index \in 1..Len(order)
  BY <1>5
<1>7. \A i \in DOMAIN order : order[i] \in B
  BY <1>1 DEF Enumerates
<1>8. \A b \in B : rows[b].super = super
  BY DEF Children
<1>9. to \in 1..Len(full) /\ (\A s \in R : Index(full, s) \in 1..Len(full)) /\ Len(full) \in Nat
  BY <1>2, <1>4, IndexOfListed
<1> HIDE DEF order, full, to, asked, new, next, R, B
<1>10. \A i, j \in DOMAIN order : i < j => Index(full, order[i]) < Index(full, order[j])
  BY <1>1, <1>2, <1>5, <1>7, <1>8
<1>11. new = Placed(full, key, to)
  BY <1>2, <1>6, <1>9, FlatReorderPlaces DEF new
<1>12. Enumerates(new, R)
  BY <1>2, <1>6, <1>9, <1>11, PlacedIsMoved
<1>13. Enumerates(asked, B) /\ Len(asked) = Len(order)
  BY <1>1, <1>6, PlacedIsMoved DEF asked
<1>14. \A i, j \in DOMAIN asked : i < j => Index(new, asked[i]) < Index(new, asked[j])
  <2>1. DOMAIN asked = 1..Len(order)
    BY <1>13, IndexOfListed
  <2>2. B \in SUBSET R
    BY <1>5
  <2> QED BY <1>1, <1>2, <1>6, <1>10, <1>11, <2>1, <2>2, MovedAmongSiblings DEF asked, to
<1>15. ASSUME NEW s \in R \ {key}, NEW t \in R \ {key}, rows[s].super = rows[t].super,
              rows[s].position < rows[t].position
       PROVE  Index(new, s) < Index(new, t)
  <2>1. Index(full, s) < Index(full, t)
    BY <1>2, <1>15
  <2> QED BY <1>2, <1>6, <1>9, <1>11, <2>1, OthersKeepOrder
<1>16. new \in Seq(Section) /\ asked \in Seq(Section)
  <2>1. R \subseteq Section /\ B \subseteq Section
    BY <1>3, <1>5
  <2>2. new \in Seq(R) /\ asked \in Seq(B)
    BY <1>12, <1>13 DEF Enumerates
  <2> QED BY <2>1, <2>2, SeqMonotonic
<1>17. key \in Section
  BY <1>3, <1>6
<1>18. /\ next \in TurnType
       /\ next.pc = "start"
       /\ next.key = key
       /\ next.super = super
       /\ next.order = new
       /\ next.asked = asked
       /\ next.again = FALSE
       /\ next.overtaken = FALSE
       /\ next.result = "none"
  BY <1>16, <1>17 DEF next, Resting, TurnType
<1>19. TurnStands(next)
  BY <1>18 DEF TurnStands
<1>20. AsAsked(rows, next)
  BY <1>5, <1>13, <1>14, <1>18 DEF AsAsked, B, R
<1>21. Follows(rows, new, {key})
  BY <1>15 DEF Follows, R
<1>22. TurnHolds(rows, next)
  BY <1>12, <1>18, <1>20, <1>21 DEF TurnHolds, Numbering, R
<1> QED BY <1>18, <1>19, <1>22 DEF next, new, asked, to, order, full

(***************************************************************************)
(* Steps                                                                   *)
(***************************************************************************)
Stands(rows, T) ==
    /\ TurnStands(T)
    /\ T.overtaken => T.result = "none"
    /\ ~T.overtaken => TurnHolds(rows, T)

LEMMA InvStands ==
    PositionInv <=>
        /\ Table(place)
        /\ unused \subseteq Section
        /\ unused \intersect DOMAIN place = {}
        /\ DOMAIN turn = Designer
        /\ \A d \in Designer : Stands(place, turn[d])
BY DEF PositionInv, Stands

(* The sections change: what others have read of them is old.              *)
LEMMA ChangeStands ==
    ASSUME PositionInv, NEW d \in Designer, NEW mine, Overtake(d, mine),
           Table(place'), unused' \subseteq Section, unused' \intersect DOMAIN place' = {},
           Stands(place', mine)
    PROVE  PositionInv' /\ turn'[d] = mine
<1>1. turn' = [e \in Designer |-> IF e = d THEN mine
                                  ELSE IF turn[e].pc = "idle" THEN Resting
                                  ELSE [turn[e] EXCEPT !.overtaken = TRUE]]
  BY DEF Overtake
<1>2. ASSUME NEW e \in Designer
      PROVE  Stands(place', turn'[e])
  <2>1. CASE e = d
    BY <1>1, <2>1
  <2>2. CASE e # d /\ turn[e].pc = "idle"
    <3>1. turn'[e] = Resting
      BY <1>1, <2>2
    <3> QED BY <3>1, RestingHolds DEF Stands
  <2>3. CASE e # d /\ turn[e].pc # "idle"
    <3> DEFINE T == turn[e]
               old == [T EXCEPT !.overtaken = TRUE]
    <3>1. turn'[e] = old
      BY <1>1, <2>3
    <3>2. TurnStands(T) /\ T.pc # "idle"
      BY <2>3, InvStands DEF Stands
    <3> HIDE DEF T
    <3>3. /\ old \in TurnType
          /\ old.pc = T.pc
          /\ old.start = T.start
          /\ old.result = T.result
          /\ old.overtaken = TRUE
      BY <3>2 DEF TurnStands, TurnType
    <3> HIDE DEF old
    <3>4. Stands(place', old)
      BY <3>2, <3>3 DEF Stands, TurnStands
    <3> QED BY <3>1, <3>4
  <2> QED BY <2>1, <2>2, <2>3
<1>3. DOMAIN turn' = Designer /\ turn'[d] = mine
  BY <1>1
<1> QED BY <1>2, <1>3 DEF PositionInv, Stands

LEMMA OwnStepStands ==
    ASSUME PositionInv, NEW d \in Designer, NEW mine, turn' = [turn EXCEPT ![d] = mine],
           UNCHANGED <<place, unused>>, Stands(place, mine)
    PROVE  PositionInv' /\ turn'[d] = mine
<1>1. DOMAIN turn = Designer
  BY InvStands
<1>2. DOMAIN turn' = Designer /\ turn'[d] = mine
  BY <1>1
<1>3. ASSUME NEW e \in Designer
      PROVE  Stands(place', turn'[e])
  <2>1. CASE e = d
    BY <1>2, <2>1
  <2>2. CASE e # d
    <3>1. turn'[e] = turn[e]
      BY <1>1, <2>2
    <3> QED BY <3>1, InvStands
  <2> QED BY <2>1, <2>2
<1>4. Table(place') /\ unused' \subseteq Section /\ unused' \intersect DOMAIN place' = {}
  BY InvStands
<1> QED BY <1>2, <1>3, <1>4 DEF PositionInv, Stands

LEMMA DoneStands ==
    ASSUME NEW d, NEW rows, TurnStands(turn[d]),
           NEW result \in {"none", "refused", "moved", "saved", "fails"},
           result = "moved" /\ ~turn[d].overtaken =>
               Siblings(rows, turn[d].super) = turn[d].asked /\ Numbered(rows),
           result = "fails" /\ ~turn[d].overtaken => Unreached(rows)
    PROVE  Stands(rows, Done(d, result)) /\ Done(d, result).pc = "idle"
<1>1. CASE turn[d].overtaken
  BY <1>1, RestingHolds DEF Done, Stands
<1>2. CASE ~turn[d].overtaken /\ result = "moved"
  <2> DEFINE T == turn[d]
             done == [Resting EXCEPT !.result = result, !.super = T.super, !.asked = T.asked]
  <2>1. Done(d, result) = done
    BY <1>2 DEF Done
  <2>2. T \in TurnType /\ Siblings(rows, T.super) = T.asked /\ Numbered(rows)
    BY <1>2 DEF TurnStands
  <2>3. Resting \in TurnType
    BY RestingHolds DEF TurnStands
  <2> HIDE DEF T
  <2>4. /\ done \in TurnType
        /\ done.pc = "idle"
        /\ done.result = "moved"
        /\ done.super = T.super
        /\ done.asked = T.asked
        /\ done.overtaken = FALSE
    BY <1>2, <2>2, <2>3 DEF TurnType, Resting
  <2> HIDE DEF done
  <2>5. Stands(rows, done)
    BY <2>2, <2>4 DEF Stands, TurnStands, TurnHolds, Numbering
  <2> QED BY <2>1, <2>4, <2>5
<1>3. CASE ~turn[d].overtaken /\ result # "moved"
  <2> DEFINE done == [Resting EXCEPT !.result = result]
  <2>1. Done(d, result) = done
    BY <1>3 DEF Done
  <2>3. Resting \in TurnType
    BY RestingHolds DEF TurnStands
  <2>4. /\ done \in TurnType
        /\ done.pc = "idle"
        /\ done.result = result
        /\ done.overtaken = FALSE
    BY <2>3 DEF TurnType, Resting
  <2> HIDE DEF done
  <2>5. Stands(rows, done)
    BY <1>3, <2>4 DEF Stands, TurnStands, TurnHolds, Numbering
  <2> QED BY <2>1, <2>4, <2>5
<1> QED BY <1>1, <1>2, <1>3

LEMMA FinishStands ==
    ASSUME PositionInv, NEW d \in Designer, NEW result \in {"none", "refused", "saved", "fails"},
           Finish(d, result), UNCHANGED <<place, unused>>,
           result = "fails" /\ ~turn[d].overtaken => Unreached(place)
    PROVE  PositionInv'
<1>1. TurnStands(turn[d])
  BY InvStands DEF Stands
<1>2. Stands(place, Done(d, result))
  BY <1>1, DoneStands
<1> QED BY <1>2, OwnStepStands DEF Finish

LEMMA MoveStands ==
    ASSUME PositionInv, NEW d \in Designer, NEW super \in DOMAIN place, NEW key \in DOMAIN place,
           NEW movement \in Movement, Move(d, super, key, movement)
    PROVE  PositionInv'
<1> DEFINE order == Siblings(place, super)
           index == GetNewIndex(movement, order, key)
           full == OrderedSections(place)
           next == [Resting EXCEPT !.pc = "start", !.key = key, !.super = super,
                       !.order = FlatReorder(full, key, Index(full, order[index])),
                       !.asked = Placed(order, key, index)]
<1>1. Table(place) /\ super \in Section
  BY InvStands DEF Table, SectionRows
<1>2. UNCHANGED <<place, unused>>
  BY DEF Move
<1>3. \/ Finish(d, "refused")
      \/ /\ index # 0
         /\ order[index] \in ToSet(full)
         /\ turn' = [turn EXCEPT ![d] = next]
  BY DEF Move
<1>4. CASE Finish(d, "refused")
  BY <1>2, <1>4, FinishStands
<1>5. CASE index # 0 /\ order[index] \in ToSet(full) /\ turn' = [turn EXCEPT ![d] = next]
  <2>1. Enumerates(order, Children(place, super))
    BY <1>1, SiblingsInOrder
  <2>2. key \in Children(place, super) /\ index \in 1..Len(order)
    BY <1>5, <2>1, NewIndexIsPlace
  <2>3. TurnStands(next) /\ TurnHolds(place, next) /\ ~next.overtaken
    BY <1>1, <1>5, <2>2, MoveFits
  <2> HIDE DEF next
  <2>4. Stands(place, next)
    BY <2>3 DEF Stands
  <2> QED BY <1>2, <1>5, <2>4, OwnStepStands
<1> HIDE DEF order, index, full, next
<1> QED BY <1>3, <1>4, <1>5

LEMMA StartStands ==
    ASSUME PositionInv, NEW d \in Designer, Start(d)
    PROVE  PositionInv'
<1> DEFINE T == turn[d]
           next == [T EXCEPT !.pc = "shift", !.start = NextPosition(place)]
<1>1. Stands(place, T) /\ T.pc = "start" /\ Table(place)
  BY InvStands DEF Start
<1>2. UNCHANGED <<place, unused>>
  BY DEF Start
<1>3. turn' = [turn EXCEPT ![d] = next]
  BY DEF Start
<1>4. NextPosition(place) \in Nat \ {0}
  BY <1>1, NextIsAbove
<1> HIDE DEF T
<1>5. /\ next \in TurnType
      /\ next.pc = "shift"
      /\ next.start = NextPosition(place)
      /\ next.key = T.key
      /\ next.super = T.super
      /\ next.order = T.order
      /\ next.asked = T.asked
      /\ next.again = T.again
      /\ next.overtaken = T.overtaken
      /\ next.result = "none"
  BY <1>1, <1>4 DEF Stands, TurnStands, TurnType
<1> HIDE DEF next
<1>6. TurnStands(next)
  BY <1>4, <1>5 DEF TurnStands
<1>7. ASSUME ~T.overtaken
      PROVE  TurnHolds(place, next)
  <2>1. TurnHolds(place, T)
    BY <1>1, <1>7 DEF Stands
  <2>2. AsAsked(place, T) <=> AsAsked(place, next)
    BY <1>5 DEF AsAsked
  <2> QED BY <1>1, <1>5, <2>1, <2>2 DEF TurnHolds, Numbering
<1>8. Stands(place, next)
  BY <1>5, <1>6, <1>7 DEF Stands
<1> QED BY <1>2, <1>3, <1>8, OwnStepStands

LEMMA ShiftStands ==
    ASSUME PositionInv, NEW d \in Designer, Shift(d)
    PROVE  PositionInv'
<1> DEFINE T == turn[d]
           mine == [T EXCEPT !.pc = "settle"]
           new == Renumbered(place, T.order, T.start)
<1>1. Stands(place, T) /\ T.pc = "shift" /\ Table(place)
  BY InvStands DEF Shift
<1>2. \/ PositionsDiffer(new) /\ place' = new /\ Overtake(d, mine)
      \/ /\ Len(T.order) > Cardinality(DOMAIN place) \/ MayCollide(place, new)
         /\ Finish(d, "fails")
         /\ UNCHANGED place
  BY DEF Shift, SetOrder
<1>3. unused' = unused
  BY DEF Shift, SetOrder
<1>4. /\ T \in TurnType
      /\ T.order \in Seq(Section)
      /\ T.start \in Nat \ {0}
  BY <1>1 DEF Stands, TurnStands, TurnType
<1>5. ~T.overtaken =>
          /\ ~MayCollide(place, new)
          /\ Len(T.order) <= Cardinality(DOMAIN place)
          /\ PositionsDiffer(new) => TurnHolds(new, mine)
  BY <1>1, ShiftFits DEF Stands
<1>6. SectionRows(new) /\ DOMAIN new = DOMAIN place
  BY <1>1, <1>4, RenumberedRows DEF Table, SameTree
<1>7. /\ mine \in TurnType
      /\ mine.pc = "settle"
      /\ mine.start = T.start
      /\ mine.overtaken = T.overtaken
      /\ mine.result = "none"
  BY <1>1, <1>4 DEF TurnType, Stands, TurnStands
<1>8. Cardinality(DOMAIN place) \in Nat /\ Len(T.order) \in Nat
  BY <1>1, <1>4, RowsAreFinite, FS_CardinalityType, LenProperties DEF Table
<1>9. unused \subseteq Section /\ unused \intersect DOMAIN place = {}
  BY InvStands
<1> HIDE DEF new, mine
<1>10. CASE PositionsDiffer(new) /\ place' = new /\ Overtake(d, mine)
  <2>1. Table(place')
    BY <1>6, <1>10 DEF Table
  <2>2. Stands(place', mine)
    BY <1>4, <1>5, <1>7, <1>10 DEF Stands, TurnStands
  <2>3. unused' \subseteq Section /\ unused' \intersect DOMAIN place' = {}
    BY <1>3, <1>6, <1>9, <1>10
  <2> QED BY <1>10, <2>1, <2>2, <2>3, ChangeStands
<1>11. CASE /\ Len(T.order) > Cardinality(DOMAIN place) \/ MayCollide(place, new)
            /\ Finish(d, "fails")
            /\ UNCHANGED place
  <2>1. T.overtaken
    <3> HIDE DEF T
    <3> QED BY <1>5, <1>8, <1>11
  <2> QED BY <1>3, <1>11, <2>1, FinishStands
<1> QED BY <1>2, <1>10, <1>11

LEMMA SettleStands ==
    ASSUME PositionInv, NEW d \in Designer, Settle(d)
    PROVE  PositionInv'
<1> DEFINE T == turn[d]
           mine == IF T.again THEN Done(d, "moved") ELSE [T EXCEPT !.pc = "renumber"]
           new == Renumbered(place, T.order, 1)
<1>1. Stands(place, T) /\ T.pc = "settle" /\ Table(place)
  BY InvStands DEF Settle
<1>2. \/ PositionsDiffer(new) /\ place' = new /\ Overtake(d, mine)
      \/ /\ Len(T.order) > Cardinality(DOMAIN place) \/ MayCollide(place, new)
         /\ Finish(d, "fails")
         /\ UNCHANGED place
  BY DEF Settle, SetOrder
<1>3. unused' = unused
  BY DEF Settle, SetOrder
<1>4. T \in TurnType /\ T.order \in Seq(Section)
  BY <1>1 DEF Stands, TurnStands, TurnType
<1>5. ~T.overtaken =>
          /\ Unreached(place) \/ ~MayCollide(place, new)
          /\ Len(T.order) <= Cardinality(DOMAIN place)
          /\ PositionsDiffer(new) =>
                 /\ Children(new, T.super) \subseteq Reached(new)
                 /\ Siblings(new, T.super) = T.asked
                 /\ T.again => Numbered(new)
  BY <1>1, SettleFits DEF Stands
<1>6. SectionRows(new) /\ DOMAIN new = DOMAIN place
  BY <1>1, <1>4, RenumberedRows DEF Table, SameTree
<1>8. Cardinality(DOMAIN place) \in Nat /\ Len(T.order) \in Nat
  BY <1>1, <1>4, RowsAreFinite, FS_CardinalityType, LenProperties DEF Table
<1>9. unused \subseteq Section /\ unused \intersect DOMAIN place = {}
  BY InvStands
<1> HIDE DEF new
<1>10. CASE PositionsDiffer(new) /\ place' = new /\ Overtake(d, mine)
  <2>1. Table(place')
    BY <1>6, <1>10 DEF Table
  <2>2. Stands(new, mine)
    <3>1. CASE T.again
      <4>1. mine = Done(d, "moved")
        BY <3>1
      <4>2. TurnStands(turn[d])
        BY <1>1 DEF Stands
      <4>3. ~turn[d].overtaken => Siblings(new, turn[d].super) = turn[d].asked /\ Numbered(new)
        BY <1>5, <1>10, <3>1
      <4> HIDE DEF mine
      <4> QED BY <4>1, <4>2, <4>3, DoneStands
    <3>2. CASE ~T.again
      <4> DEFINE next == [T EXCEPT !.pc = "renumber"]
      <4>1. mine = next
        BY <3>2
      <4>2. /\ next \in TurnType
            /\ next.pc = "renumber"
            /\ next.super = T.super
            /\ next.asked = T.asked
            /\ next.overtaken = T.overtaken
            /\ next.result = "none"
        <5> HIDE DEF T
        <5> QED BY <1>1, <1>4 DEF TurnType, Stands, TurnStands
      <4> HIDE DEF next, mine
      <4>3. Stands(new, next)
        BY <1>5, <1>10, <4>2 DEF Stands, TurnStands, TurnHolds, Numbering
      <4> QED BY <4>1, <4>3
    <3> QED BY <3>1, <3>2
  <2>3. unused' \subseteq Section /\ unused' \intersect DOMAIN place' = {}
    BY <1>3, <1>6, <1>9, <1>10
  <2> HIDE DEF mine
  <2> QED BY <1>10, <2>1, <2>2, <2>3, ChangeStands
<1>11. CASE /\ Len(T.order) > Cardinality(DOMAIN place) \/ MayCollide(place, new)
            /\ Finish(d, "fails")
            /\ UNCHANGED place
  <2>1. T.overtaken \/ Unreached(place)
    <3> HIDE DEF T
    <3> QED BY <1>5, <1>8, <1>11
  <2> QED BY <1>3, <1>11, <2>1, FinishStands
<1> QED BY <1>2, <1>10, <1>11

LEMMA RenumberStands ==
    ASSUME PositionInv, NEW d \in Designer, Renumber(d)
    PROVE  PositionInv'
<1> DEFINE T == turn[d]
           next == [T EXCEPT !.pc = "start", !.again = TRUE, !.order = OrderedSections(place)]
<1>1. Stands(place, T) /\ T.pc = "renumber" /\ Table(place)
  BY InvStands DEF Renumber
<1>2. UNCHANGED <<place, unused>>
  BY DEF Renumber
<1>3. turn' = [turn EXCEPT ![d] = next]
  BY DEF Renumber
<1>4. OrderedSections(place) \in Seq(Section)
  <2>1. OrderedSections(place) \in Seq(Reached(place))
    BY <1>1, SectionsInOrder DEF Enumerates
  <2>2. Reached(place) \subseteq Section
    BY <1>1, RowsAreFinite DEF Table, SectionRows
  <2> QED BY <2>1, <2>2, SeqMonotonic
<1> HIDE DEF T
<1>5. /\ next \in TurnType
      /\ next.pc = "start"
      /\ next.overtaken = T.overtaken
      /\ next.result = "none"
  BY <1>1, <1>4 DEF Stands, TurnStands, TurnType
<1>6. ~T.overtaken => TurnHolds(place, next)
  BY <1>1, RenumberFits DEF Stands
<1> HIDE DEF next
<1>7. Stands(place, next)
  BY <1>5, <1>6 DEF Stands, TurnStands
<1> QED BY <1>2, <1>3, <1>7, OwnStepStands

LEMMA OpenStands ==
    ASSUME PositionInv, NEW d \in Designer,
           OpenAdd(d) \/ \E key \in DOMAIN place : OpenEdit(d, key)
    PROVE  PositionInv'
<1>1. Table(place) /\ UNCHANGED <<place, unused>>
  BY InvStands DEF OpenAdd, OpenEdit
<1>2. Resting \in TurnType
  BY RestingHolds DEF TurnStands
<1>3. CASE OpenAdd(d)
  <2> DEFINE next == [Resting EXCEPT !.pc = "save", !.start = NextPosition(place)]
  <2>1. turn' = [turn EXCEPT ![d] = next]
    BY <1>3 DEF OpenAdd
  <2>2. NextPosition(place) \in Nat \ {0}
    BY <1>1, NextIsAbove
  <2>3. /\ next \in TurnType
        /\ next.pc = "save"
        /\ next.key = NoSection
        /\ next.start = NextPosition(place)
        /\ next.overtaken = FALSE
        /\ next.result = "none"
    BY <1>2, <2>2 DEF TurnType, Resting
  <2> HIDE DEF next
  <2>4. Stands(place, next)
    BY <2>2, <2>3 DEF Stands, TurnStands, TurnHolds, Numbering
  <2> QED BY <1>1, <2>1, <2>4, OwnStepStands
<1>4. ASSUME NEW key \in DOMAIN place, OpenEdit(d, key)
      PROVE  PositionInv'
  <2> DEFINE next == [Resting EXCEPT !.pc = "save", !.key = key, !.start = place[key].position]
  <2>1. turn' = [turn EXCEPT ![d] = next]
    BY <1>4 DEF OpenEdit
  <2>2. place[key].position \in Nat \ {0} /\ key \in Section /\ key # NoSection
    BY <1>1, PositionOf, SectionAssumption DEF Table, SectionRows
  <2>3. /\ next \in TurnType
        /\ next.pc = "save"
        /\ next.key = key
        /\ next.start = place[key].position
        /\ next.overtaken = FALSE
        /\ next.result = "none"
    BY <1>2, <2>2 DEF TurnType, Resting
  <2> HIDE DEF next
  <2>4. Stands(place, next)
    BY <2>2, <2>3 DEF Stands, TurnStands, TurnHolds, Numbering
  <2> QED BY <1>1, <2>1, <2>4, OwnStepStands
<1> QED BY <1>3, <1>4

LEMMA SaveStands ==
    ASSUME PositionInv, NEW d \in Designer, NEW key \in Section,
           NEW super \in Section \union {NoSection}, Save(d, key, super)
    PROVE  PositionInv'
<1> DEFINE T == turn[d]
           row == [super |-> super, position |-> T.start]
           new == [s \in DOMAIN place \union {key} |-> IF s = key THEN row ELSE place[s]]
<1>1. Stands(place, T) /\ T.pc = "save" /\ Table(place)
  BY InvStands DEF Save
<1>2. key \in (IF T.key = NoSection THEN unused ELSE {T.key})
  BY DEF Save
<1>3. \/ /\ PositionsDiffer(new)
         /\ place' = new
         /\ unused' = unused \ {key}
         /\ Overtake(d, Done(d, "saved"))
      \/ /\ ~PositionsDiffer(new)
         /\ Finish(d, "fails")
         /\ UNCHANGED <<place, unused>>
  BY DEF Save
<1>4. T.start \in Nat \ {0}
  BY <1>1 DEF Stands, TurnStands, TurnType
<1>5. DOMAIN place \subseteq Section /\ unused \subseteq Section /\ unused \intersect DOMAIN place = {}
  BY InvStands DEF Table, SectionRows
<1>6. SectionRows(new)
  <2>1. DOMAIN new = DOMAIN place \union {key}
    OBVIOUS
  <2>2. \A s \in DOMAIN place : place[s] \in [super : Section \union {NoSection}, position : Nat \ {0}]
    BY <1>1 DEF Table, SectionRows
  <2>3. row \in [super : Section \union {NoSection}, position : Nat \ {0}]
    BY <1>4
  <2> HIDE DEF row
  <2>4. \A s \in DOMAIN new : new[s] \in [super : Section \union {NoSection}, position : Nat \ {0}]
    BY <2>1, <2>2, <2>3
  <2>5. new \in [DOMAIN new -> [super : Section \union {NoSection}, position : Nat \ {0}]]
    BY <2>1, <2>4
  <2> QED BY <1>5, <2>1, <2>5 DEF SectionRows
<1>7. CASE /\ PositionsDiffer(new)
           /\ place' = new
           /\ unused' = unused \ {key}
           /\ Overtake(d, Done(d, "saved"))
  <2>1. Table(place')
    BY <1>6, <1>7 DEF Table
  <2>2. unused' \subseteq Section /\ unused' \intersect DOMAIN place' = {}
    BY <1>5, <1>7
  <2>3. Stands(place', Done(d, "saved"))
    BY <1>1, DoneStands DEF Stands
  <2> QED BY <1>7, <2>1, <2>2, <2>3, ChangeStands
<1>8. CASE ~PositionsDiffer(new) /\ Finish(d, "fails") /\ UNCHANGED <<place, unused>>
  <2>1. ASSUME ~T.overtaken
        PROVE  FALSE
    <3>1. TurnHolds(place, T)
      BY <1>1, <2>1 DEF Stands
    <3>2. IF T.key = NoSection THEN T.start = NextPosition(place)
          ELSE T.key \in DOMAIN place /\ T.start = place[T.key].position
      BY <1>1, <3>1 DEF TurnHolds
    <3>3. \A s \in DOMAIN place : s # key => place[s].position # T.start
      <4>1. CASE T.key = NoSection
        <5>1. \A s \in DOMAIN place : place[s].position < NextPosition(place)
              /\ place[s].position \in Nat
          BY <1>1, NextIsAbove, PositionOf DEF Table
        <5> HIDE DEF T
        <5> QED BY <3>2, <4>1, <5>1, <1>4
      <4>2. CASE T.key # NoSection
        <5>1. key = T.key
          BY <1>2, <4>2
        <5> QED BY <1>1, <3>2, <4>2, <5>1 DEF Table, PositionsDiffer
      <4> QED BY <4>1, <4>2
    <3>4. \A s, t \in DOMAIN place : s # t => place[s].position # place[t].position
      BY <1>1 DEF Table, PositionsDiffer
    <3>5. /\ DOMAIN new = DOMAIN place \union {key}
          /\ \A s \in DOMAIN new :
                 new[s].position = IF s = key THEN T.start ELSE place[s].position
      OBVIOUS
    <3> HIDE DEF T, new
    <3>6. PositionsDiffer(new)
      BY <3>3, <3>4, <3>5 DEF PositionsDiffer
    <3> QED BY <1>8, <3>6
  <2> QED BY <1>8, <2>1, FinishStands
<1> HIDE DEF new
<1> QED BY <1>3, <1>7, <1>8

LEMMA DeleteStands ==
    ASSUME PositionInv, NEW d \in Designer, NEW key \in DOMAIN place, Delete(d, key)
    PROVE  PositionInv'
<1> DEFINE kept == {s \in DOMAIN place : key \notin Line(place, s)}
<1>1. place' = [s \in kept |-> place[s]] /\ Overtake(d, Resting) /\ unused' = unused
  BY DEF Delete
<1>2. kept \subseteq DOMAIN place
  OBVIOUS
<1> HIDE DEF kept
<1>3. Table(place) /\ unused \subseteq Section /\ unused \intersect DOMAIN place = {}
  BY InvStands
<1>4. Table(place')
  <2>1. DOMAIN place' = kept /\ \A s \in kept : place'[s] = place[s]
    BY <1>1
  <2>2. place' \in [DOMAIN place' -> [super : Section \union {NoSection}, position : Nat \ {0}]]
    BY <1>1, <1>2, <1>3 DEF Table, SectionRows
  <2>3. PositionsDiffer(place')
    BY <1>2, <1>3, <2>1 DEF Table, PositionsDiffer
  <2>4. DOMAIN place' \subseteq Section
    BY <1>2, <1>3, <2>1 DEF Table, SectionRows
  <2> QED BY <2>2, <2>3, <2>4 DEF Table, SectionRows
<1>5. unused' \subseteq Section /\ unused' \intersect DOMAIN place' = {}
  BY <1>1, <1>2, <1>3
<1>6. Stands(place', Resting)
  BY RestingHolds DEF Stands
<1> QED BY <1>1, <1>4, <1>5, <1>6, ChangeStands

LEMMA PositionInvHolds == PositionsSpec => []PositionInv
<1>1. PositionInit => PositionInv
  <2> SUFFICES ASSUME PositionInit
               PROVE  PositionInv
    OBVIOUS
  <2>1. Table(place)
    BY PlacesAssumption DEF PositionInit, Table, SectionRows, PositionsDiffer
  <2>2. \A d \in Designer : Stands(place, turn[d])
    BY RestingHolds DEF PositionInit, Stands
  <2> QED BY <2>1, <2>2, InvStands DEF PositionInit
<1>2. PositionInv /\ [PositionNext]_positionVars => PositionInv'
  <2> SUFFICES ASSUME PositionInv, [PositionNext]_positionVars
               PROVE  PositionInv'
    OBVIOUS
  <2>1. CASE UNCHANGED positionVars
    <3>1. place' = place /\ unused' = unused /\ turn' = turn
      BY <2>1 DEF positionVars
    <3> QED BY <3>1 DEF PositionInv
  <2>2. ASSUME NEW d \in Designer, NEW super \in DOMAIN place, NEW key \in DOMAIN place,
               NEW movement \in Movement, Move(d, super, key, movement)
        PROVE  PositionInv'
    BY <2>2, MoveStands
  <2>3. ASSUME NEW d \in Designer, Kill(d)
        PROVE  PositionInv'
    <3>1. Finish(d, "none") /\ UNCHANGED <<place, unused>>
      BY <2>3 DEF Kill
    <3> QED BY <3>1, FinishStands
  <2>4. CASE PositionNext
    <3>1. PICK d \in Designer :
              \/ \E super \in DOMAIN place, key \in DOMAIN place, movement \in Movement :
                     Move(d, super, key, movement)
              \/ Start(d) \/ Shift(d) \/ Settle(d) \/ Renumber(d)
              \/ OpenAdd(d) \/ Kill(d)
              \/ \E key \in DOMAIN place : OpenEdit(d, key) \/ Delete(d, key)
              \/ \E key \in Section, super \in Section \union {NoSection} : Save(d, key, super)
      BY <2>4 DEF PositionNext
    <3> QED
      BY <2>2, <2>3, <3>1, StartStands, ShiftStands, SettleStands, RenumberStands, OpenStands,
         SaveStands, DeleteStands
  <2> QED BY <2>1, <2>4
<1> QED BY <1>1, <1>2, PTL DEF PositionsSpec

(* SectionAdmin.reorder_sections, SectionPositionUtils: a move that no     *)
(* other request overtook puts the section at the place it was asked to    *)
(* have among its siblings and numbers all sections from one through the   *)
(* tree; a request fails only when others changed the sections after it    *)
(* had read them, or when some are their own super section through others. *)
THEOREM MovesArrive == PositionsSpec => []MoveDoesAsAsked
<1>1. PositionInv => MoveDoesAsAsked
  <2> SUFFICES ASSUME PositionInv, NEW d \in Designer
               PROVE  /\ turn[d].result = "moved" =>
                             Siblings(place, turn[d].super) = turn[d].asked /\ Numbered(place)
                      /\ turn[d].result = "fails" => Unreached(place)
    BY DEF MoveDoesAsAsked
  <2>1. Stands(place, turn[d])
    BY InvStands
  <2> QED BY <2>1 DEF Stands, TurnHolds
<1> QED BY <1>1, PositionInvHolds, PTL

(* One of the updates of a numbering.                                      *)
LEMMA NumberingMovesOne ==
    ASSUME PositionInv, NEW d \in Designer, Shift(d) \/ Settle(d),
           NEW s \in DOMAIN place, NEW t \in DOMAIN place, StaySiblings(s, t), ChangesPlaces(s, t)
    PROVE  Moves(d, s, t)
<1> DEFINE T == turn[d]
           start == IF T.pc = "shift" THEN T.start ELSE 1
           mine == IF T.pc = "shift" THEN [T EXCEPT !.pc = "settle"]
                   ELSE IF T.again THEN Done(d, "moved")
                   ELSE [T EXCEPT !.pc = "renumber"]
           new == Renumbered(place, T.order, start)
<1>1. Stands(place, T) /\ T.pc \in {"shift", "settle"} /\ Table(place)
  BY InvStands DEF Shift, Settle
<1>2. \/ place' = new /\ Overtake(d, mine)
      \/ UNCHANGED place
  BY DEF Shift, Settle, SetOrder
<1>3. place[s].position \in Nat /\ place[t].position \in Nat
  BY <1>1, PositionOf DEF Table
<1>4. place' = new /\ Overtake(d, mine)
  BY <1>2, <1>3 DEF ChangesPlaces
<1>5. T.pc # turn'[d].pc
  <2>1. turn'[d] = mine
    BY <1>4 DEF Overtake
  <2>2. T \in TurnType /\ TurnStands(turn[d])
    BY <1>1 DEF Stands, TurnStands
  <2>3. CASE T.pc = "shift"
    BY <2>1, <2>2, <2>3 DEF TurnType
  <2>4. CASE T.pc = "settle" /\ T.again
    <3>1. mine = Done(d, "moved")
      BY <2>4
    <3>2. Done(d, "moved").pc = "idle"
      BY DEF Done, Resting
    <3> QED BY <2>1, <2>4, <3>1, <3>2
  <2>5. CASE T.pc = "settle" /\ ~T.again
    BY <2>1, <2>2, <2>5 DEF TurnType
  <2> QED BY <1>1, <2>3, <2>4, <2>5
<1>6. CASE T.overtaken
  BY <1>5, <1>6 DEF Moves
<1>7. CASE ~T.overtaken
  <2>1. TurnHolds(place, T) /\ TurnStands(T)
    BY <1>1, <1>7 DEF Stands
  <2>2. Enumerates(T.order, Reached(place))
    BY <1>1, <2>1 DEF TurnHolds, Numbering
  <2>3. start \in Nat \ {0}
    BY <1>1, <2>1 DEF TurnStands, TurnType
  <2> DEFINE free == IF T.pc = "shift" /\ ~T.again THEN {T.key} ELSE {}
  <2>4. Follows(place, T.order, free)
    <3>1. CASE T.pc = "shift"
      BY <2>1, <3>1 DEF TurnHolds
    <3>2. CASE T.pc = "settle"
      BY <1>1, <2>1, <3>2, SettleFits
    <3> QED BY <1>1, <3>1, <3>2
  <2>5. CASE s \in free \/ t \in free
    BY <1>5, <2>5 DEF Moves
  <2>6. CASE s \notin free /\ t \notin free
    <3>1. place[s].super = place[t].super
      BY DEF StaySiblings
    <3> HIDE DEF free, start
    <3>2. place[s].position < place[t].position <=> new[s].position < new[t].position
      BY <1>1, <2>2, <2>3, <2>4, <2>6, <3>1, NumbersKeepOrder
    <3>3. new[s].position \in Nat /\ new[t].position \in Nat
      <4>1. T.order \in Seq(Section)
        BY <2>1 DEF TurnStands, TurnType
      <4>2. SectionRows(new) /\ DOMAIN new = DOMAIN place
        BY <1>1, <2>3, <4>1, RenumberedRows DEF Table, SameTree
      <4> QED BY <4>2, PositionOf
    <3> HIDE DEF new
    <3> QED BY <1>4, <3>2, <3>3 DEF ChangesPlaces
  <2> QED BY <2>5, <2>6
<1> QED BY <1>6, <1>7

LEMMA SavingMovesNone ==
    ASSUME PositionInv, NEW d \in Designer, NEW key \in Section,
           NEW super \in Section \union {NoSection}, Save(d, key, super),
           NEW s \in DOMAIN place, NEW t \in DOMAIN place, ChangesPlaces(s, t)
    PROVE  Moves(d, s, t)
<1> DEFINE T == turn[d]
<1>1. Stands(place, T) /\ T.pc = "save" /\ Table(place)
  BY InvStands DEF Save
<1>2. key \in (IF T.key = NoSection THEN unused ELSE {T.key})
  BY DEF Save
<1>3. place[s].position \in Nat /\ place[t].position \in Nat
  BY <1>1, PositionOf DEF Table
<1>4. /\ \A x \in DOMAIN place :
             place'[x].position = IF x = key THEN T.start ELSE place[x].position
      /\ Overtake(d, Done(d, "saved"))
  BY <1>3 DEF Save, ChangesPlaces
<1>5. T.pc # turn'[d].pc
  <2>1. turn'[d] = Done(d, "saved")
    BY <1>4 DEF Overtake
  <2>2. Done(d, "saved").pc = "idle"
    BY DEF Done, Resting
  <2> QED BY <1>1, <2>1, <2>2
<1>6. CASE T.overtaken
  BY <1>5, <1>6 DEF Moves
<1>7. CASE ~T.overtaken
  <2>1. TurnHolds(place, T)
    BY <1>1, <1>7 DEF Stands
  <2>2. T.key # NoSection => T.key \in DOMAIN place /\ T.start = place[T.key].position
    BY <1>1, <2>1 DEF TurnHolds
  <2>3. unused \intersect DOMAIN place = {}
    BY InvStands
  <2>4. \A x \in DOMAIN place : place'[x].position = place[x].position
    BY <1>2, <1>4, <2>2, <2>3
  <2> QED BY <1>3, <2>4 DEF ChangesPlaces
<1> QED BY <1>6, <1>7

(* reorder_sections, set_order, save_model: two siblings change places     *)
(* only in the first update of a move of one of them, or when a request    *)
(* writes what it had read before another one's change.                    *)
THEOREM OnlyMovesReorder == PositionsSpec => OrderLeftAlone
<1> DEFINE Kept == \A s, t \in DOMAIN place \intersect DOMAIN place' :
               StaySiblings(s, t) /\ ChangesPlaces(s, t) => \E d \in Designer : Moves(d, s, t)
<1>1. PositionInv /\ [PositionNext]_positionVars => [Kept]_positionVars
  <2> SUFFICES ASSUME PositionInv, PositionNext,
                      NEW s \in DOMAIN place, NEW t \in DOMAIN place,
                      s \in DOMAIN place', t \in DOMAIN place',
                      StaySiblings(s, t), ChangesPlaces(s, t)
               PROVE  \E d \in Designer : Moves(d, s, t)
    OBVIOUS
  <2>1. place[s].position \in Nat /\ place[t].position \in Nat
    BY InvStands, PositionOf DEF Table
  <2>2. ASSUME place'[s].position = place[s].position, place'[t].position = place[t].position
        PROVE  FALSE
    BY <2>1, <2>2 DEF ChangesPlaces
  <2>3. PICK d \in Designer :
            \/ \E super \in DOMAIN place, key \in DOMAIN place, movement \in Movement :
                   Move(d, super, key, movement)
            \/ Start(d) \/ Shift(d) \/ Settle(d) \/ Renumber(d)
            \/ OpenAdd(d) \/ Kill(d)
            \/ \E key \in DOMAIN place : OpenEdit(d, key) \/ Delete(d, key)
            \/ \E key \in Section, super \in Section \union {NoSection} : Save(d, key, super)
    BY DEF PositionNext
  <2>4. ASSUME NEW key \in DOMAIN place, Delete(d, key)
        PROVE  FALSE
    <3> DEFINE kept == {x \in DOMAIN place : key \notin Line(place, x)}
    <3>1. place' = [x \in kept |-> place[x]]
      BY <2>4 DEF Delete
    <3> HIDE DEF kept
    <3> QED BY <2>2, <3>1
  <2>5. CASE UNCHANGED place
    BY <2>2, <2>5
  <2>6. CASE Shift(d) \/ Settle(d)
    BY <2>6, NumberingMovesOne
  <2>7. CASE \E key \in Section, super \in Section \union {NoSection} : Save(d, key, super)
    BY <2>7, SavingMovesNone
  <2>8. CASE \/ \E super \in DOMAIN place, key \in DOMAIN place, movement \in Movement :
                    Move(d, super, key, movement)
             \/ Start(d) \/ Renumber(d) \/ OpenAdd(d) \/ Kill(d)
             \/ \E key \in DOMAIN place : OpenEdit(d, key)
    <3>1. UNCHANGED place
      BY <2>8 DEF Move, Start, Renumber, OpenAdd, Kill, OpenEdit
    <3> QED BY <2>5, <3>1
  <2> QED BY <2>3, <2>4, <2>6, <2>7, <2>8
<1> QED BY <1>1, PositionInvHolds, PTL DEF PositionsSpec, OrderLeftAlone
=============================================================================
