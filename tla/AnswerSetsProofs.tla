-------------------------- MODULE AnswerSetsProofs --------------------------
(***************************************************************************)
(* Proofs about AnswerSets, for any number of plans, workers and sections, *)
(* any tree of sections and any flags: first what holds however the        *)
(* requests of the workers interleave, then what holds when they do not    *)
(* overlap.  With several workers a late save() may bring back a row, or a *)
(* mark, that another request removed, and none of the last four theorems  *)
(* holds; the runs that check these properties have one worker too.        *)
(***************************************************************************)
EXTENDS AnswerSets, FiniteSetTheorems, TLAPS

-----------------------------------------------------------------------------
(***************************************************************************)
(* The inductive invariant.  A late save may insert a row again from the   *)
(* copy a worker holds, so what it says of the place of a row in the tree  *)
(* it says of the copies too.                                              *)
(***************************************************************************)
Held == {req[w].row : w \in {v \in Worker : req[v].row # NoRow}}
Known == rows \union Held

(* The parent is a key of the right section and plan, or none for a        *)
(* top-level section, and the ancestors are rows of the same plan, for the *)
(* sections above.                                                         *)
Placed(r) ==
    /\ IF Super[r.section] = NoSection THEN r.parent = NoRow
       ELSE /\ r.parent \in Key
            /\ r.parent.plan = r.plan
            /\ r.parent.section = Super[r.section]
    /\ \A k \in r.anc : k.plan = r.plan /\ k.section \in Above[r.section]

Numbered(r, ser) ==
    /\ r.serial < ser[r.plan]
    /\ r.parent # NoRow => r.parent.serial < ser[r.plan]

Rooted(R) == \A r \in R : r.parent = NoRow \/ Live(R, r.parent)

Follows(a, b) == a.parent = KeyOf(b) => a.anc = {KeyOf(b)} \union b.anc
Coherent(K) == \A a, b \in K :
    /\ KeyOf(a) = KeyOf(b) => a.parent = b.parent /\ a.anc = b.anc
    /\ Follows(a, b)

PlacesOK == \A r \in Known : Placed(r) /\ Numbered(r, serial)
ParentsLive == Rooted(rows)
AncestorsOK == Coherent(Known)

Skippable == OptionalAtFirst \union Editable
SkipsOK ==
    /\ optional \subseteq Skippable
    /\ \A r \in Known : r.skipped => r.section \in Skippable
    /\ \A w \in Worker : req[w].pc \in {"remove_count", "convert", "delete"}
                            => req[w].row.section \in Skippable

RequestsOK == \A w \in Worker : req[w].pc # "idle" => req[w].row # NoRow
UnusedOK == \A p \in Plan : status[p] = "unused" => serial[p] = 0

TreeInv ==
    /\ TypeOK
    /\ IsFiniteSet(rows)
    /\ PlacesOK
    /\ ParentsLive
    /\ AncestorsOK
    /\ SkipsOK
    /\ RequestsOK
    /\ UnusedOK

-----------------------------------------------------------------------------
(***************************************************************************)
(* Identifiers, keys and saves                                             *)
(***************************************************************************)
LEMMA FiniteImage ==
    ASSUME NEW S, IsFiniteSet(S), NEW f
    PROVE  IsFiniteSet({f[x] : x \in S})
<1> DEFINE T == {f[x] : x \in S}
<1> DEFINE g == [x \in S |-> f[x]]
<1>1. g \in Surjection(S, T)
  BY DEF Surjection
<1> HIDE DEF T, g
<1>2. IsFiniteSet(T)
  BY <1>1, FS_Surjection
<1> QED
  BY <1>2 DEF T

LEMMA NextIdentifierType ==
    ASSUME NEW R, IsFiniteSet(R), NEW p, NEW s
    PROVE  NextIdentifier(R, p, s) \in Nat \ {0}
<1>1. IsFiniteSet({r \in R : r.plan = p /\ r.section = s})
  BY FS_Subset
<1>2. Cardinality({r \in R : r.plan = p /\ r.section = s}) \in Nat
  BY <1>1, FS_CardinalityType
<1> QED
  BY <1>2 DEF NextIdentifier

LEMMA GetIdentifierType ==
    ASSUME NEW R, IsFiniteSet(R), NEW r \in Row
    PROVE  GetIdentifier(R, r) \in Identifier
<1>1. NextIdentifier(R, r.plan, r.section) \in Nat \ {0}
  BY NextIdentifierType
<1>2. r.ident \in Identifier /\ r.name \in Name \union {NoName}
  BY DEF Row
<1> QED
  BY <1>1, <1>2 DEF GetIdentifier, Identifier

LEMMA KeyType ==
    ASSUME NEW r \in Row
    PROVE  /\ KeyOf(r) \in Key
           /\ KeyOf(r) # NoRow
           /\ KeyOf(r).plan = r.plan
           /\ KeyOf(r).serial = r.serial
           /\ KeyOf(r).section = r.section
  BY ModelValueAssumption DEF Row, Key, KeyOf

(* x takes the place in the tree that y has.                               *)
Twin(x, y) ==
    /\ KeyOf(x) = KeyOf(y)
    /\ x.plan = y.plan /\ x.serial = y.serial /\ x.section = y.section
    /\ x.parent = y.parent
    /\ x.anc = y.anc

LEMMA SavedRows ==
    ASSUME NEW R, R \subseteq Row, IsFiniteSet(R), NEW r \in Row
    PROVE  /\ Saved(R, r) \subseteq Row
           /\ IsFiniteSet(Saved(R, r))
           /\ Live(Saved(R, r), KeyOf(r))
           /\ \A x \in R : Live(Saved(R, r), KeyOf(x))
           /\ \A x \in Saved(R, r) :
                 x \in R \/ (Twin(x, r) /\ x.skipped = r.skipped)
<1> DEFINE stamped == [r EXCEPT !.ident = GetIdentifier(R, r)]
<1> DEFINE others == {x \in R : KeyOf(x) # KeyOf(r)}
<1>1. stamped \in Row
  BY GetIdentifierType DEF Row
<1>2. Twin(stamped, r) /\ stamped.skipped = r.skipped
  BY DEF Row, Twin, KeyOf
<1>3. Saved(R, r) = others \union {stamped}
  BY DEF Saved
<1>4. IsFiniteSet(others)
  BY FS_Subset
<1>5. IsFiniteSet(others \union {stamped})
  BY <1>4, FS_AddElement
<1>6. Live(Saved(R, r), KeyOf(r))
  BY <1>2, <1>3 DEF Live, Twin
<1>7. ASSUME NEW x \in R PROVE Live(Saved(R, r), KeyOf(x))
  BY <1>3, <1>6 DEF Live
<1> QED
  BY <1>1, <1>2, <1>3, <1>5, <1>6, <1>7

-----------------------------------------------------------------------------
(***************************************************************************)
(* Repairs: what a cascade and fix_answersets leave is still a tree.       *)
(***************************************************************************)
LEMMA CascadeKeepsParents ==
    ASSUME NEW R, R \subseteq Row, Rooted(R), Coherent(R), NEW D \in SUBSET R
    PROVE  Rooted(R \ Cascade(R, D))
<1> SUFFICES ASSUME NEW r \in R \ Cascade(R, D), r.parent # NoRow
             PROVE  Live(R \ Cascade(R, D), r.parent)
  BY DEF Rooted
<1>1. PICK x \in R : KeyOf(x) = r.parent
  BY DEF Rooted, Live
<1>2. r.anc = {KeyOf(x)} \union x.anc
  BY <1>1 DEF Coherent, Follows
<1>3. x \notin Cascade(R, D)
  BY <1>2 DEF Cascade
<1> QED
  BY <1>1, <1>3 DEF Live

LEMMA FixedRows ==
    ASSUME NEW R, R \subseteq Row, IsFiniteSet(R), Rooted(R), Coherent(R), NEW slots
    PROVE  /\ AfterFix(R, slots) \subseteq Row
           /\ IsFiniteSet(AfterFix(R, slots))
           /\ Rooted(AfterFix(R, slots))
           /\ \A x \in AfterFix(R, slots) :
                 \E y \in R : Twin(x, y) /\ (x.skipped => y.skipped)
<1> DEFINE doomed == UNION {Siblings(R, slot) \ Kept(Siblings(R, slot), slot.section)
                              : slot \in slots}
<1> DEFINE fixed(r) == IF SlotOf(r) \in slots /\ Converts(r)
                       THEN [Unskipped(r) EXCEPT !.ident = GetIdentifier(R, r)] ELSE r
<1> DEFINE S == R \ Cascade(R, doomed)
<1>1. AfterFix(R, slots) = {fixed(r) : r \in S}
  BY DEF AfterFix
<1>2. doomed \in SUBSET R
  BY DEF Siblings
<1>3. Rooted(S)
  BY <1>2, CascadeKeepsParents
<1>4. ASSUME NEW r \in S
      PROVE  /\ fixed(r) \in Row
             /\ Twin(fixed(r), r)
             /\ fixed(r).skipped => r.skipped
  <2>1. r \in Row /\ GetIdentifier(R, r) \in Identifier
    BY GetIdentifierType
  <2>2. [Unskipped(r) EXCEPT !.ident = GetIdentifier(R, r)] \in Row
    BY <2>1 DEF Row, Unskipped
  <2>3. Twin([Unskipped(r) EXCEPT !.ident = GetIdentifier(R, r)], r)
    BY <2>1 DEF Row, Unskipped, Twin, KeyOf
  <2>4. ~[Unskipped(r) EXCEPT !.ident = GetIdentifier(R, r)].skipped
    BY <2>1 DEF Row, Unskipped
  <2>5. Twin(r, r)
    BY DEF Twin
  <2> HIDE DEF S
  <2> QED
    BY <2>1, <2>2, <2>3, <2>4, <2>5
<1>5. IsFiniteSet(S)
  BY FS_Subset
<1>6. IsFiniteSet({fixed(r) : r \in S})
  <2> DEFINE f == [r \in S |-> fixed(r)]
  <2>1. IsFiniteSet({f[r] : r \in S})
    <3> HIDE DEF f, S
    <3> QED
      BY <1>5, FiniteImage
  <2>2. {f[r] : r \in S} = {fixed(r) : r \in S}
    <3> HIDE DEF fixed, S
    <3> QED
      OBVIOUS
  <2> QED
    BY <2>1, <2>2
<1>7. \A k : Live(S, k) => Live(AfterFix(R, slots), k)
  <2> HIDE DEF fixed, S
  <2> QED
    BY <1>1, <1>4 DEF Live, Twin
<1>8. Rooted(AfterFix(R, slots))
  <2> HIDE DEF fixed, S
  <2> QED
    BY <1>1, <1>3, <1>4, <1>7 DEF Rooted, Twin
<1>9. \A r \in S : r \in R
  OBVIOUS
<1> HIDE DEF fixed, S
<1> QED
  BY <1>1, <1>4, <1>6, <1>8, <1>9

-----------------------------------------------------------------------------
(***************************************************************************)
(* Coherence of the rows and copies known                                  *)
(***************************************************************************)
Places(K, ser) == \A r \in K : Placed(r) /\ Numbered(r, ser)

NeverLess(ser, ser2) == \A p \in Plan : ser[p] <= ser2[p]
TwinsOf(K2, K) == \A x \in K2 : \E y \in K : Twin(x, y)

LEMMA TwinsKeepPlaces ==
    ASSUME NEW K, K \subseteq Row, NEW K2,
           NEW ser \in [Plan -> Nat], NEW ser2 \in [Plan -> Nat],
           NeverLess(ser, ser2), Places(K, ser), Coherent(K), TwinsOf(K2, K)
    PROVE  Places(K2, ser2) /\ Coherent(K2)
<1>1. ASSUME NEW x \in K2 PROVE Placed(x) /\ Numbered(x, ser2)
  <2>1. PICK y \in K : Twin(x, y)
    BY DEF TwinsOf
  <2>2. Placed(y) /\ Numbered(y, ser)
    BY DEF Places
  <2>3. Placed(x)
    BY <2>1, <2>2 DEF Placed, Twin
  <2>4. /\ x.plan \in Plan
        /\ x.serial \in Nat
        /\ x.parent # NoRow => x.parent.serial \in Nat
    BY <2>1 DEF Twin, Row, Key
  <2>5. ser[x.plan] <= ser2[x.plan] /\ ser[x.plan] \in Nat /\ ser2[x.plan] \in Nat
    BY <2>4 DEF NeverLess
  <2>6. Numbered(x, ser)
    BY <2>1, <2>2 DEF Numbered, Twin
  <2> QED
    BY <2>3, <2>4, <2>5, <2>6 DEF Numbered
<1>2. ASSUME NEW a \in K2, NEW b \in K2
      PROVE  /\ KeyOf(a) = KeyOf(b) => a.parent = b.parent /\ a.anc = b.anc
             /\ Follows(a, b)
  <2>1. PICK x \in K : Twin(a, x)
    BY DEF TwinsOf
  <2>2. PICK y \in K : Twin(b, y)
    BY DEF TwinsOf
  <2>3. /\ KeyOf(x) = KeyOf(y) => x.parent = y.parent /\ x.anc = y.anc
        /\ Follows(x, y)
    BY DEF Coherent
  <2> QED
    BY <2>1, <2>2, <2>3 DEF Twin, Follows
<1> QED
  BY <1>1, <1>2 DEF Places, Coherent

LEMMA CoherentExtend ==
    ASSUME NEW K, NEW N, Coherent(K), Coherent(N),
           \A a \in K, b \in N : /\ KeyOf(a) # KeyOf(b)
                                 /\ a.parent # KeyOf(b)
                                 /\ Follows(b, a)
    PROVE  Coherent(K \union N)
<1> SUFFICES ASSUME NEW a \in K \union N, NEW b \in K \union N
             PROVE  /\ KeyOf(a) = KeyOf(b) => a.parent = b.parent /\ a.anc = b.anc
                    /\ Follows(a, b)
  BY DEF Coherent
<1>1. CASE a \in K /\ b \in K
  BY <1>1 DEF Coherent
<1>2. CASE a \in N /\ b \in N
  BY <1>2 DEF Coherent
<1>3. CASE a \in K /\ b \in N
  BY <1>3 DEF Follows
<1>4. CASE a \in N /\ b \in K
  BY <1>4
<1> QED
  BY <1>1, <1>2, <1>3, <1>4

-----------------------------------------------------------------------------
(***************************************************************************)
(* New rows                                                                *)
(***************************************************************************)
LEMMA TreeBelow ==
    ASSUME NEW s \in Section, NEW d \in Tree(s)
    PROVE  /\ d \in Section
           /\ d = s => Above[d] \intersect Tree(s) = {}
           /\ d # s => /\ Super[d] \in Tree(s)
                       /\ Super[d] # NoSection
                       /\ Above[d] = {Super[d]} \union Above[Super[d]]
<1>1. d \in Section /\ (d = s \/ s \in Above[d])
  BY DEF Tree
<1>2. CASE d = s
  BY <1>1, <1>2, TreeAssumption DEF Tree
<1>3. CASE d # s
  <2>1. s \in Above[d]
    BY <1>1, <1>3
  <2>2. Super[d] # NoSection /\ Above[d] = {Super[d]} \union Above[Super[d]]
    BY <1>1, <2>1, TreeAssumption
  <2>3. Super[d] \in Section
    BY <1>1, <2>2, TreeAssumption
  <2> QED
    BY <1>1, <1>3, <2>1, <2>2, <2>3 DEF Tree
<1> QED
  BY <1>2, <1>3

(* A slot in its place in the tree, under a row that exists.               *)
SlotPlaced(R, slot) ==
    /\ slot \in Slot
    /\ slot.parent = NoRow \/ Live(R, slot.parent)
    /\ IF Super[slot.section] = NoSection THEN slot.parent = NoRow
       ELSE /\ slot.parent \in Key
            /\ slot.parent.plan = slot.plan
            /\ slot.parent.section = Super[slot.section]

(* The keys above the row for d that one creation inserts: those over the  *)
(* slot, and those of the rows inserted with it.                           *)
Between(slot, n, d) ==
    {RowKey(slot, n, e) : e \in Above[d] \intersect Tree(slot.section)}
Over(R, slot) == UNION {{slot.parent} \union r.anc : r \in RowsOf(R, slot.parent)}

Shape(x, R, slot, n, d) ==
    /\ x \in Row
    /\ KeyOf(x) = RowKey(slot, n, d)
    /\ x.plan = slot.plan /\ x.serial = n /\ x.section = d
    /\ x.parent = IF d = slot.section THEN slot.parent ELSE RowKey(slot, n, Super[d])
    /\ x.anc = Over(R, slot) \union Between(slot, n, d)
    /\ x.skipped => d \in optional

LEMMA NewRowShape ==
    ASSUME NEW R, R \subseteq Row, IsFiniteSet(R),
           NEW slots, IsFiniteSet(slots), NEW f, NEW how,
           NEW slot \in Slot, f[slot] \in Nat,
           NEW d \in Tree(slot.section)
    PROVE  Shape(NewRow(R, slots, f, how, slot, d), R, slot, f[slot], d)
<1> SUFFICES ASSUME NEW x, x = NewRow(R, slots, f, how, slot, d)
             PROVE  Shape(x, R, slot, f[slot], d)
  OBVIOUS
<1> DEFINE earlier == {y \in slots : f[y] < f[slot] /\ d \in Tree(y.section)}
<1> DEFINE under == Between(slot, f[slot], d)
<1>1. /\ slot.plan \in Plan /\ slot.section \in Section
      /\ slot.parent \in Key \union {NoRow}
  BY DEF Slot
<1>2. d \in Section /\ (d # slot.section => Super[d] \in Section)
  BY <1>1, TreeBelow DEF Tree
<1>3. NextIdentifier(R, slot.plan, d) \in Nat \ {0}
  BY NextIdentifierType
<1>4. Cardinality(earlier) \in Nat
  <2>1. IsFiniteSet(earlier)
    BY FS_Subset
  <2> QED
    BY <2>1, FS_CardinalityType
<1>5. x.ident \in Identifier
  <2> HIDE DEF earlier
  <2>1. \A i \in Nat \ {0}, j \in Nat : i + j \in Nat \ {0} /\ i + j + 1 \in Nat \ {0} /\ i + j + 0 \in Nat \ {0}
    OBVIOUS
  <2> QED
    BY <1>3, <1>4, <2>1 DEF NewRow, Identifier, earlier
<1>6. Over(R, slot) \subseteq Key
  <2>1. ASSUME NEW r \in RowsOf(R, slot.parent)
        PROVE  {slot.parent} \union r.anc \subseteq Key
    BY KeyType DEF RowsOf, Row
  <2> QED
    BY <2>1 DEF Over
<1>7. under \subseteq Key
  BY <1>1 DEF RowKey, Key, Tree, Between
<1>8. x.parent \in Key \union {NoRow}
  BY <1>1, <1>2 DEF NewRow, RowKey, Key
<1>9. x.anc = Over(R, slot) \union under
  BY DEF NewRow, Over, Between
<1>10. /\ x.skipped \in BOOLEAN
       /\ x.skipped => d \in optional
  BY DEF NewRow, BornSkipped
<1>11. /\ x = [plan |-> slot.plan, serial |-> f[slot], section |-> d,
                parent |-> x.parent, anc |-> x.anc, ident |-> x.ident,
                skipped |-> x.skipped, filled |-> FALSE, name |-> NoName]
       /\ x.plan = slot.plan /\ x.serial = f[slot] /\ x.section = d
       /\ x.parent = IF d = slot.section THEN slot.parent
                     ELSE RowKey(slot, f[slot], Super[d])
  BY DEF NewRow
<1>12. x \in Row
  <2> HIDE DEF under
  <2>1. x.anc \in SUBSET Key
    BY <1>6, <1>7, <1>9
  <2>2. \A sk \in BOOLEAN :
          [plan |-> slot.plan, serial |-> f[slot], section |-> d,
           parent |-> x.parent, anc |-> x.anc, ident |-> x.ident,
           skipped |-> sk, filled |-> FALSE, name |-> NoName] \in Row
    BY <1>1, <1>2, <1>5, <1>8, <2>1 DEF Row
  <2> QED
    BY <1>10, <1>11, <2>2
<1>13. KeyOf(x) = RowKey(slot, f[slot], d)
  BY <1>11 DEF KeyOf, RowKey
<1> QED
  BY <1>9, <1>10, <1>11, <1>12, <1>13 DEF Shape

(***************************************************************************)
(* Filling the slots of one plan keeps the rows a tree.  K stands for the  *)
(* rows there are and the copies workers hold, whose serial numbers in     *)
(* that plan are below n.                                                  *)
(***************************************************************************)
SlotsPlaced(R, slots, p) ==
    \A slot \in slots : slot.plan = p /\ SlotPlaced(R, slot)

Below(K, p, n) ==
    \A r \in K : /\ Placed(r)
                 /\ r.plan = p => /\ r.serial < n
                                  /\ r.parent # NoRow => r.parent.serial < n

Grown(N, R, p) ==
    \A x \in N : /\ x.plan = p
                 /\ Placed(x)
                 /\ x.parent = NoRow \/ Live(R \union N, x.parent)
                 /\ x.skipped => x.section \in optional

LEMMA NewRowsPlaced ==
    ASSUME NEW R, R \subseteq Row, IsFiniteSet(R),
           NEW p \in Plan, NEW n \in Nat, NEW how,
           NEW slots, IsFiniteSet(slots),
           SlotsPlaced(R, slots, p),
           NEW f \in Numberings(slots, n),
           NEW K, K \subseteq Row, R \subseteq K, Coherent(K), Below(K, p, n)
    PROVE  LET N == NewRows(R, slots, f, how)
           IN  /\ N \subseteq Row
               /\ IsFiniteSet(N)
               /\ Grown(N, R, p)
               /\ Below(N, p, n + Cardinality(slots))
               /\ Coherent(K \union N)
<1> DEFINE N == NewRows(R, slots, f, how)
<1> DEFINE new(slot, d) == NewRow(R, slots, f, how, slot, d)
<1> DEFINE top == n + Cardinality(slots)
<1>0. Cardinality(slots) \in Nat
  BY FS_CardinalityType
<1>1. ASSUME NEW slot \in slots
      PROVE  /\ slot \in Slot /\ slot.plan = p /\ slot.section \in Section
             /\ f[slot] \in Nat /\ n <= f[slot] /\ f[slot] < top
             /\ \A other \in slots : f[other] = f[slot] => other = slot
  BY <1>0 DEF Numberings, SlotsPlaced, SlotPlaced, Slot
<1>2. ASSUME NEW slot \in slots, NEW d \in Tree(slot.section)
      PROVE  /\ new(slot, d) \in Row
             /\ KeyOf(new(slot, d)) = RowKey(slot, f[slot], d)
             /\ new(slot, d).plan = p
             /\ new(slot, d).serial = f[slot]
             /\ new(slot, d).section = d
             /\ new(slot, d).parent = IF d = slot.section THEN slot.parent
                                      ELSE RowKey(slot, f[slot], Super[d])
             /\ new(slot, d).anc = Over(R, slot) \union Between(slot, f[slot], d)
             /\ new(slot, d).skipped => d \in optional
  <2>1. slot \in Slot /\ f[slot] \in Nat /\ slot.plan = p
    BY <1>1
  <2>2. Shape(new(slot, d), R, slot, f[slot], d)
    BY <2>1, NewRowShape
  <2> HIDE DEF new
  <2> QED
    BY <2>1, <2>2 DEF Shape
<1>3. ASSUME NEW x \in N
      PROVE  \E slot \in slots : \E d \in Tree(slot.section) : x = new(slot, d)
  BY DEF NewRows
<1>4. ASSUME NEW slot \in slots, NEW d \in Tree(slot.section)
      PROVE  new(slot, d) \in N
  BY DEF NewRows
<1>5. ASSUME NEW slot \in slots, slot.parent # NoRow
      PROVE  /\ slot.parent.serial < n
             /\ slot.parent \in Key
             /\ \E r \in R : KeyOf(r) = slot.parent
  <2>1. PICK r \in R : KeyOf(r) = slot.parent
    BY <1>5 DEF SlotsPlaced, SlotPlaced, Live
  <2>2. slot.parent \in Key /\ slot.parent.plan = p
    BY <1>1, <1>5 DEF SlotsPlaced, SlotPlaced, Slot
  <2>3. r \in Row /\ r \in K
    OBVIOUS
  <2>4. r.plan = p /\ r.serial = slot.parent.serial
    BY <2>1, <2>2, <2>3, KeyType
  <2>5. r.serial < n
    BY <2>3, <2>4 DEF Below
  <2> QED
    BY <2>1, <2>2, <2>4, <2>5
<1> HIDE DEF new, N
<1>6. IsFiniteSet(N)
  <2> DEFINE P == slots \X Section
  <2> DEFINE g == [y \in P |-> new(y[1], y[2])]
  <2> DEFINE I == {g[y] : y \in P}
  <2>1. IsFiniteSet(P)
    BY BoundAssumption, FS_Product
  <2>2. IsFiniteSet(I)
    <3> HIDE DEF P, g
    <3> QED
      BY <2>1, FiniteImage
  <2>3. N \subseteq I
    <3>1. ASSUME NEW x \in N PROVE x \in I
      <4>10. PICK slot \in slots : \E d \in Tree(slot.section) : x = new(slot, d)
        BY <1>3
      <4>1. PICK d \in Tree(slot.section) : x = new(slot, d)
        BY <4>10
      <4>2. <<slot, d>> \in P
        BY <1>1, TreeBelow
      <4>3. g[<<slot, d>>] = x
        BY <4>1, <4>2
      <4> HIDE DEF P, g
      <4> QED
        BY <4>2, <4>3
    <3> QED
      BY <3>1
  <2> HIDE DEF I
  <2> QED
    BY <2>2, <2>3, FS_Subset
<1>7. ASSUME NEW x \in N
      PROVE  /\ x \in Row
             /\ x.plan = p /\ n <= x.serial /\ x.serial < top
             /\ x.parent # NoRow => x.parent.serial < top
             /\ Placed(x)
             /\ x.parent = NoRow \/ Live(R \union N, x.parent)
             /\ x.skipped => x.section \in optional
             /\ x.section \in Section
  <2>10. PICK slot \in slots : \E d \in Tree(slot.section) : x = new(slot, d)
    BY <1>3
  <2>1. PICK d \in Tree(slot.section) : x = new(slot, d)
    BY <2>10
  <2>2. /\ x \in Row
        /\ x.plan = p /\ n <= x.serial /\ x.serial < top
        /\ x.section = d /\ d \in Section
        /\ x.skipped => x.section \in optional
        /\ x.anc = Over(R, slot) \union Between(slot, f[slot], d)
    BY <1>1, <1>2, <2>1, TreeBelow
  <2>5. ASSUME NEW k \in x.anc PROVE k.plan = x.plan /\ k.section \in Above[x.section]
    <3>1. CASE k \in Between(slot, f[slot], d)
      BY <1>1, <2>2, <3>1 DEF Between, RowKey
    <3>2. ASSUME NEW r \in RowsOf(R, slot.parent), k \in {slot.parent} \union r.anc
          PROVE  k.plan = p /\ k.section \in Above[d]
      <4>1. r \in R /\ r \in Row /\ KeyOf(r) = slot.parent
        BY DEF RowsOf
      <4>2. /\ r.plan = p /\ slot.parent.plan = p
            /\ slot.parent.section = Super[slot.section] /\ r.section = Super[slot.section]
            /\ Super[slot.section] # NoSection
        <5>1. slot.parent # NoRow
          BY <4>1, KeyType
        <5> QED
          BY <1>1, <4>1, <5>1, KeyType DEF SlotsPlaced, SlotPlaced
      <4>3. Placed(r)
        BY <4>1 DEF Below
      <4>4. Above[slot.section] = {Super[slot.section]} \union Above[Super[slot.section]]
        BY <1>1, <4>2, TreeAssumption
      <4>5. Above[slot.section] \subseteq Above[d]
        <5>1. d = slot.section \/ slot.section \in Above[d]
          BY DEF Tree
        <5> QED
          BY <2>2, <5>1, TreeAssumption
      <4> QED
        BY <3>2, <4>2, <4>3, <4>4, <4>5 DEF Placed
    <3>3. CASE k \in Over(R, slot)
      BY <2>2, <3>2, <3>3 DEF Over
    <3> QED
      BY <2>2, <3>1, <3>3
  <2>3. CASE d = slot.section
    <3>1. x.parent = slot.parent
      BY <1>2, <2>1, <2>3
    <3>2. Placed(x)
      BY <1>1, <2>2, <2>3, <2>5, <3>1 DEF Placed, SlotsPlaced, SlotPlaced
    <3>3. x.parent = NoRow \/ Live(R \union N, x.parent)
      BY <3>1 DEF SlotsPlaced, SlotPlaced, Live
    <3>4. x.parent # NoRow => x.parent.serial < top
      <4>1. ASSUME slot.parent # NoRow PROVE slot.parent.serial < top
        <5>1. slot.parent.serial < n /\ slot.parent.serial \in Nat
          BY <1>5, <4>1 DEF Key
        <5> QED
          BY <5>1, <1>0
      <4> QED
        BY <3>1, <4>1
    <3> QED
      BY <2>2, <3>2, <3>3, <3>4
  <2>4. CASE d # slot.section
    <3>1. x.parent = RowKey(slot, f[slot], Super[d])
      BY <1>2, <2>1, <2>4
    <3>2. /\ Super[d] \in Tree(slot.section) /\ Super[d] # NoSection
          /\ Super[d] \in Section
      BY <1>1, <2>4, TreeBelow
    <3>3. x.parent \in Key /\ x.parent.plan = p /\ x.parent.serial = f[slot]
          /\ x.parent.section = Super[d]
      BY <1>1, <3>1, <3>2 DEF RowKey, Key
    <3>4. Placed(x)
      BY <2>2, <2>5, <3>2, <3>3 DEF Placed
    <3>5. KeyOf(new(slot, Super[d])) = x.parent /\ new(slot, Super[d]) \in N
      BY <1>2, <1>4, <3>1, <3>2
    <3>6. Live(R \union N, x.parent)
      BY <3>5 DEF Live
    <3> QED
      BY <1>1, <2>2, <3>3, <3>4, <3>6
  <2> QED
    BY <2>3, <2>4
<1>8. ASSUME NEW a \in N, NEW b \in N
      PROVE  /\ KeyOf(a) = KeyOf(b) => a.parent = b.parent /\ a.anc = b.anc
             /\ Follows(a, b)
  <2>10. PICK s1 \in slots : \E d1 \in Tree(s1.section) : a = new(s1, d1)
    BY <1>3
  <2>1. PICK d1 \in Tree(s1.section) : a = new(s1, d1)
    BY <2>10
  <2>20. PICK s2 \in slots : \E d2 \in Tree(s2.section) : b = new(s2, d2)
    BY <1>3
  <2>2. PICK d2 \in Tree(s2.section) : b = new(s2, d2)
    BY <2>20
  <2>3. ASSUME KeyOf(a) = KeyOf(b) PROVE a = b
    <3>1. RowKey(s1, f[s1], d1) = RowKey(s2, f[s2], d2)
      BY <1>2, <2>1, <2>2, <2>3
    <3>2. f[s1] = f[s2] /\ d1 = d2
      BY <3>1 DEF RowKey
    <3>3. s1 = s2
      BY <1>1, <3>2
    <3> QED
      BY <2>1, <2>2, <3>2, <3>3
  <2>4. ASSUME a.parent = KeyOf(b) PROVE a.anc = {KeyOf(b)} \union b.anc
    <3>1. KeyOf(b) = RowKey(s2, f[s2], d2) /\ KeyOf(b) # NoRow
          /\ KeyOf(b).serial = f[s2] /\ KeyOf(b).section = d2
      BY <1>2, <2>2, KeyType
    <3>2. d1 # s1.section
      <4> SUFFICES ASSUME d1 = s1.section PROVE FALSE
        OBVIOUS
      <4>1. s1.parent = KeyOf(b)
        BY <1>2, <2>1, <2>4
      <4>2. s1.parent.serial < n /\ n <= f[s2] /\ f[s2] \in Nat
        BY <1>1, <1>5, <3>1, <4>1
      <4> QED
        BY <3>1, <4>1, <4>2
    <3>3. f[s1] = f[s2] /\ Super[d1] = d2
      <4>1. a.parent = RowKey(s1, f[s1], Super[d1])
        BY <1>2, <2>1, <3>2
      <4>2. RowKey(s1, f[s1], Super[d1]) = RowKey(s2, f[s2], d2)
        BY <2>4, <3>1, <4>1
      <4> QED
        BY <4>2 DEF RowKey
    <3>4. s1 = s2
      BY <1>1, <3>3
    <3>5. /\ d2 \in Tree(s1.section)
          /\ Above[d1] = {d2} \union Above[d2]
      BY <1>1, <3>2, <3>3, <3>4, TreeBelow
    <3>6. a.anc = Over(R, s1) \union Between(s1, f[s1], d1)
      BY <1>2, <2>1
    <3>7. b.anc = Over(R, s1) \union Between(s1, f[s1], d2)
      BY <1>2, <2>2, <3>4
    <3>8. KeyOf(b) = RowKey(s1, f[s1], d2)
      BY <3>1, <3>4
    <3>9. Between(s1, f[s1], d1) = {RowKey(s1, f[s1], d2)} \union Between(s1, f[s1], d2)
      BY <3>5 DEF Between
    <3> QED
      BY <3>6, <3>7, <3>8, <3>9
  <2> QED
    BY <2>3, <2>4 DEF Follows
<1>9. ASSUME NEW a \in K, NEW b \in N
      PROVE  /\ KeyOf(a) # KeyOf(b)
             /\ a.parent # KeyOf(b)
             /\ Follows(b, a)
  <2>10. PICK slot \in slots : \E d \in Tree(slot.section) : b = new(slot, d)
    BY <1>3
  <2>1. PICK d \in Tree(slot.section) : b = new(slot, d)
    BY <2>10
  <2>2. /\ KeyOf(b) \in Key /\ KeyOf(b) # NoRow /\ KeyOf(b).plan = p
        /\ n <= KeyOf(b).serial /\ KeyOf(b).serial \in Nat
    BY <1>7, KeyType DEF Row
  <2>3. /\ KeyOf(a) \in Key /\ KeyOf(a) # NoRow
        /\ KeyOf(a).plan = a.plan /\ KeyOf(a).serial = a.serial
        /\ a.serial \in Nat
    BY KeyType DEF Row
  <2>4. KeyOf(a) # KeyOf(b)
    <3> SUFFICES ASSUME KeyOf(a) = KeyOf(b) PROVE FALSE
      OBVIOUS
    <3>1. a.plan = p /\ n <= a.serial
      BY <2>2, <2>3
    <3>2. a.serial < n
      BY <3>1 DEF Below
    <3> QED
      BY <2>3, <3>1, <3>2
  <2>5. a.parent # KeyOf(b)
    <3> SUFFICES ASSUME a.parent = KeyOf(b) PROVE FALSE
      OBVIOUS
    <3>1. a.parent # NoRow /\ a.plan = p
      BY <2>2 DEF Placed, Below
    <3>2. a.parent.serial < n /\ n <= a.parent.serial /\ a.parent.serial \in Nat
      BY <2>2, <3>1 DEF Below
    <3> QED
      BY <3>2
  <2>6. ASSUME b.parent = KeyOf(a) PROVE b.anc = {KeyOf(a)} \union a.anc
    <3>1. b.parent = IF d = slot.section THEN slot.parent
                     ELSE RowKey(slot, f[slot], Super[d])
      BY <1>2, <2>1
    <3>2. d = slot.section
      <4> SUFFICES ASSUME d # slot.section PROVE FALSE
        OBVIOUS
      <4>1. KeyOf(a) = RowKey(slot, f[slot], Super[d])
        BY <2>6, <3>1
      <4>2. KeyOf(a).plan = slot.plan /\ KeyOf(a).serial = f[slot]
        BY <4>1 DEF RowKey
      <4>3. a.plan = p /\ a.serial = f[slot] /\ n <= f[slot]
        BY <1>1, <2>3, <4>2
      <4>4. a.serial < n
        BY <4>3 DEF Below
      <4> QED
        BY <2>3, <4>3, <4>4
    <3>3. slot.parent = KeyOf(a)
      BY <2>6, <3>1, <3>2
    <3>4. b.anc = Over(R, slot)
      <4>1. Above[d] \intersect Tree(slot.section) = {}
        BY <1>1, <3>2, TreeBelow
      <4>2. b.anc = Over(R, slot) \union Between(slot, f[slot], d)
        BY <1>2, <2>1
      <4> QED
        BY <4>1, <4>2 DEF Between
    <3>5. \E r \in R : KeyOf(r) = slot.parent
      BY <1>5, <2>3, <3>3
    <3>6. ASSUME NEW r \in RowsOf(R, slot.parent) PROVE r.anc = a.anc
      BY <3>3 DEF RowsOf, Coherent
    <3>7. Over(R, slot) = {KeyOf(a)} \union a.anc
      BY <3>3, <3>5, <3>6 DEF Over, RowsOf
    <3> QED
      BY <3>4, <3>7
  <2> QED
    BY <2>4, <2>5, <2>6 DEF Follows
<1>10. Coherent(N)
  BY <1>8 DEF Coherent
<1>11. Coherent(K \union N)
  BY <1>9, <1>10, CoherentExtend
<1>12. NewRows(R, slots, f, how) = N
  BY DEF N
<1>13. N \subseteq Row /\ Grown(N, R, p) /\ Below(N, p, top)
  BY <1>7 DEF Grown, Below
<1> QED
  BY <1>6, <1>11, <1>12, <1>13

-----------------------------------------------------------------------------
(***************************************************************************)
(* What a step has to show                                                 *)
(***************************************************************************)
WellSkipped(r) == r.skipped => r.section \in Skippable

Sound(q, K) ==
    /\ q.pc # "idle" => q.row # NoRow
    /\ q.row # NoRow => WellSkipped(q.row) /\ \E y \in K : Twin(q.row, y)
    /\ q.pc \in {"remove_count", "convert", "delete"} => q.row.section \in Skippable

LEMMA KnownFacts ==
    ASSUME TreeInv
    PROVE  /\ Known \subseteq Row /\ rows \subseteq Known
           /\ Places(Known, serial)
           /\ Coherent(Known) /\ Coherent(rows)
           /\ \A r \in Known : WellSkipped(r) /\ r.section \in Section /\ r.plan \in Plan
           /\ \A w \in Worker : req[w].row # NoRow => req[w].row \in Known
<1>1. \A w \in Worker : req[w].row \in Row \union {NoRow}
  BY DEF TreeInv, TypeOK, Request_
<1>2. Held \subseteq Row
  BY <1>1 DEF Held
<1>3. Known \subseteq Row /\ rows \subseteq Known
  BY <1>2 DEF Known, TreeInv, TypeOK
<1>4. Places(Known, serial)
  BY DEF TreeInv, PlacesOK, Places
<1>5. Coherent(Known) /\ Coherent(rows)
  BY <1>3 DEF TreeInv, AncestorsOK, Coherent
<1>6. \A w \in Worker : req[w].row # NoRow => req[w].row \in Known
  BY DEF Known, Held
<1>7. \A r \in Known : WellSkipped(r) /\ r.section \in Section /\ r.plan \in Plan
  BY <1>3 DEF TreeInv, SkipsOK, WellSkipped, Row
<1> QED
  BY <1>3, <1>4, <1>5, <1>6, <1>7

LEMMA Step ==
    ASSUME TreeInv,
           status' \in [Plan -> {"unused", "live", "deleted"}],
           rows' \subseteq Row, IsFiniteSet(rows'), Rooted(rows'),
           serial' \in [Plan -> Nat],
           optional' \subseteq Section \intersect Skippable, repeatable' \subseteq Section,
           req' \in [Worker -> Request_],
           \A p \in Plan : status'[p] = "unused" => serial'[p] = 0,
           NEW K, K \subseteq Row, Known \subseteq K,
           Places(K, serial'), Coherent(K),
           \A x \in rows' : WellSkipped(x) /\ \E y \in K : Twin(x, y),
           \A v \in Worker : req'[v] = req[v] \/ Sound(req'[v], K)
    PROVE  TreeInv'
<1>1. TypeOK'
  BY DEF TypeOK
<1>2. ASSUME NEW v \in Worker PROVE Sound(req'[v], K)
  <2>1. CASE req'[v] = req[v]
    <3>1. req[v].row # NoRow => req[v].row \in K /\ WellSkipped(req[v].row)
      BY KnownFacts
    <3>2. Twin(req[v].row, req[v].row)
      BY DEF Twin
    <3>3. /\ req[v].pc # "idle" => req[v].row # NoRow
          /\ req[v].pc \in {"remove_count", "convert", "delete"}
               => req[v].row.section \in Skippable
      BY DEF TreeInv, RequestsOK, SkipsOK
    <3> QED
      BY <2>1, <3>1, <3>2, <3>3 DEF Sound
  <2> QED
    BY <2>1
<1>3. ASSUME NEW x \in Known' PROVE WellSkipped(x) /\ \E y \in K : Twin(x, y)
  BY <1>2 DEF Known, Held, Sound
<1>4. NeverLess(serial', serial') /\ TwinsOf(Known', K)
  BY <1>3 DEF NeverLess, TwinsOf
<1>5. Places(Known', serial') /\ Coherent(Known')
  BY <1>4, TwinsKeepPlaces
<1>6. PlacesOK' /\ AncestorsOK'
  BY <1>5 DEF PlacesOK, AncestorsOK, Places, Placed, Numbered, Coherent, Follows, KeyOf
<1>7. SkipsOK'
  BY <1>2, <1>3 DEF SkipsOK, WellSkipped, Sound, Skippable
<1>8. RequestsOK'
  BY <1>2 DEF RequestsOK, Sound
<1>9. ParentsLive' /\ UnusedOK'
  BY DEF ParentsLive, UnusedOK, Rooted, Live, KeyOf
<1> QED
  BY <1>1, <1>6, <1>7, <1>8, <1>9 DEF TreeInv

(* Steps that insert nothing, in which rows only lose what hung under      *)
(* removed rows.                                                           *)
LEMMA StepOfTwins ==
    ASSUME TreeInv,
           status' \in [Plan -> {"unused", "live", "deleted"}],
           \A p \in Plan : status'[p] = "unused" => status[p] = "unused",
           rows' \subseteq Row, IsFiniteSet(rows'), Rooted(rows'),
           UNCHANGED serial,
           optional' \subseteq Section \intersect Skippable, repeatable' \subseteq Section,
           req' \in [Worker -> Request_],
           \A x \in rows' : WellSkipped(x) /\ \E y \in Known : Twin(x, y),
           \A v \in Worker : req'[v] = req[v] \/ Sound(req'[v], Known)
    PROVE  TreeInv'
<1>1. serial' \in [Plan -> Nat] /\ \A p \in Plan : status'[p] = "unused" => serial'[p] = 0
  BY DEF TreeInv, TypeOK, UnusedOK
<1>2. Known \subseteq Row /\ Places(Known, serial') /\ Coherent(Known)
  BY KnownFacts
<1> QED
  BY <1>1, <1>2, Step

(***************************************************************************)
(* Steps that fill slots of one plan.  R is what the step leaves of the    *)
(* rows there were, M what it stores of the new rows: they may carry       *)
(* another identifier.                                                     *)
(***************************************************************************)
Survivors(R) ==
    /\ R \subseteq Row /\ IsFiniteSet(R) /\ Rooted(R)
    /\ \A x \in R : WellSkipped(x) /\ \E y \in Known : Twin(x, y)

Stored(M, N) ==
    /\ M \subseteq Row /\ IsFiniteSet(M)
    /\ \A x \in M : \E y \in N : Twin(x, y) /\ x.skipped = y.skipped
    /\ \A y \in N : Live(M, KeyOf(y))

LEMMA FillStep ==
    ASSUME TreeInv, NEW p \in Plan, status[p] # "unused",
           NEW R, Survivors(R),
           NEW slots, IsFiniteSet(slots),
           SlotsPlaced(R, slots, p),
           NEW f \in Numberings(slots, serial[p]), NEW how,
           NEW M, Stored(M, NewRows(R, slots, f, how)),
           rows' = R \union M,
           serial' = [serial EXCEPT ![p] = @ + Cardinality(slots)],
           UNCHANGED <<status, optional, repeatable>>,
           req' \in [Worker -> Request_],
           \A v \in Worker : req'[v] = req[v] \/ Sound(req'[v], Known)
    PROVE  TreeInv'
<1> DEFINE N == NewRows(R, slots, f, how)
<1> DEFINE K == Known \union R
<1> HIDE DEF N
<1>0. /\ R \subseteq Row /\ IsFiniteSet(R) /\ Rooted(R)
      /\ \A x \in R : WellSkipped(x) /\ \E y \in Known : Twin(x, y)
      /\ M \subseteq Row /\ IsFiniteSet(M)
      /\ \A x \in M : \E y \in N : Twin(x, y) /\ x.skipped = y.skipped
      /\ \A y \in N : Live(M, KeyOf(y))
  BY DEF Survivors, Stored, N
<1>1. /\ serial \in [Plan -> Nat] /\ serial[p] \in Nat /\ Cardinality(slots) \in Nat
      /\ optional \subseteq Section \intersect Skippable /\ repeatable \subseteq Section
      /\ status \in [Plan -> {"unused", "live", "deleted"}]
  BY FS_CardinalityType DEF TreeInv, TypeOK, SkipsOK
<1>2. /\ serial' \in [Plan -> Nat]
      /\ serial'[p] = serial[p] + Cardinality(slots)
      /\ NeverLess(serial, serial)
      /\ NeverLess(serial, serial')
  BY <1>1 DEF NeverLess
<1>14. \A o \in Plan : status'[o] = "unused" => serial'[o] = 0
  BY <1>1 DEF TreeInv, UnusedOK
<1>3. \A x : Twin(x, x)
  BY DEF Twin
<1>4. K \subseteq Row /\ TwinsOf(K, Known) /\ R \subseteq K
  BY <1>0, <1>3, KnownFacts DEF TwinsOf
<1> HIDE DEF K
<1>5. Places(K, serial) /\ Places(K, serial') /\ Coherent(K)
  <2>1. Known \subseteq Row /\ Places(Known, serial) /\ Coherent(Known)
    BY KnownFacts
  <2>2. Places(K, serial)
    BY <1>1, <1>2, <1>4, <2>1, TwinsKeepPlaces
  <2>3. PICK ser2 : ser2 = serial'
    OBVIOUS
  <2>4. serial \in [Plan -> Nat] /\ ser2 \in [Plan -> Nat] /\ NeverLess(serial, ser2)
    BY <1>1, <1>2, <2>3
  <2>5. Places(K, ser2) /\ Coherent(K)
    BY <1>4, <2>1, <2>4, TwinsKeepPlaces
  <2> QED
    BY <2>2, <2>3, <2>5
<1>6. Below(K, p, serial[p])
  BY <1>5 DEF Places, Numbered, Below
<1>7. N \subseteq Row /\ Grown(N, R, p) /\ Below(N, p, serial'[p]) /\ Coherent(K \union N)
  BY <1>0, <1>1, <1>2, <1>4, <1>5, <1>6, NewRowsPlaced DEF N
<1>8. Places(K \union N, serial')
  BY <1>5, <1>7 DEF Places, Numbered, Below, Grown
<1>9. /\ rows' \subseteq Row /\ IsFiniteSet(rows')
  BY <1>0, FS_Union
<1>10. Rooted(rows')
  <2>1. \A k : Live(R \union N, k) => Live(rows', k)
    BY <1>0 DEF Live
  <2>2. ASSUME NEW x \in R PROVE x.parent = NoRow \/ Live(rows', x.parent)
    BY <1>0 DEF Rooted, Live
  <2>3. ASSUME NEW x \in M PROVE x.parent = NoRow \/ Live(rows', x.parent)
    <3>1. PICK y \in N : Twin(x, y)
      BY <1>0
    <3> QED
      BY <1>7, <2>1, <3>1 DEF Twin, Grown
  <2> QED
    BY <2>2, <2>3 DEF Rooted
<1>11. ASSUME NEW x \in rows'
       PROVE  WellSkipped(x) /\ \E y \in K \union N : Twin(x, y)
  <2>1. CASE x \in R
    BY <1>0, <1>3, <1>4, <2>1
  <2>2. CASE x \in M
    <3>1. PICK y \in N : Twin(x, y) /\ x.skipped = y.skipped
      BY <1>0, <2>2
    <3> QED
      BY <1>1, <1>7, <3>1 DEF WellSkipped, Twin, Grown
  <2> QED
    BY <2>1, <2>2
<1>12. \A v \in Worker : req'[v] = req[v] \/ Sound(req'[v], K \union N)
  BY DEF Sound, K
<1>13. /\ K \union N \subseteq Row /\ Known \subseteq K \union N
       /\ Coherent(K \union N)
  BY <1>4, <1>7 DEF K
<1> QED
  BY <1>1, <1>2, <1>8, <1>9, <1>10, <1>11, <1>12, <1>13, <1>14, Step

(* A slot is in its place, whether or not its parent is still there.       *)
InPlace(slot) ==
    /\ slot \in Slot
    /\ IF Super[slot.section] = NoSection THEN slot.parent = NoRow
       ELSE /\ slot.parent \in Key
            /\ slot.parent.plan = slot.plan
            /\ slot.parent.section = Super[slot.section]

LEMMA RepairStep ==
    ASSUME TreeInv, NEW p \in Plan, status[p] # "unused",
           NEW slots, IsFiniteSet(slots),
           \A slot \in slots : slot.plan = p /\ InPlace(slot),
           Repair(p, slots),
           UNCHANGED <<status, optional, repeatable>>,
           req' \in [Worker -> Request_],
           \A v \in Worker : req'[v] = req[v] \/ Sound(req'[v], Known)
    PROVE  TreeInv'
<1> DEFINE left == AfterFix(rows, slots)
<1> DEFINE missing == Missing(rows, slots)
<1>1. PICK f \in Numberings(missing, serial[p]) :
        rows' = left \union NewRows(left, missing, f, "get")
  BY DEF Repair
<1>2. serial' = [serial EXCEPT ![p] = @ + Cardinality(missing)]
  BY DEF Repair
<1>3. /\ rows \subseteq Row /\ IsFiniteSet(rows) /\ Rooted(rows) /\ Coherent(rows)
      /\ serial[p] \in Nat
  BY KnownFacts DEF TreeInv, TypeOK, ParentsLive
<1>4. /\ left \subseteq Row /\ IsFiniteSet(left) /\ Rooted(left)
      /\ \A x \in left : \E y \in rows : Twin(x, y) /\ (x.skipped => y.skipped)
  BY <1>3, FixedRows
<1>5. ASSUME NEW x \in left PROVE WellSkipped(x) /\ \E y \in Known : Twin(x, y)
  <2>1. PICK y \in rows : Twin(x, y) /\ (x.skipped => y.skipped)
    BY <1>4
  <2> QED
    BY <2>1, KnownFacts DEF WellSkipped, Twin
<1>6. IsFiniteSet(missing)
  <2>1. missing \subseteq slots
    BY DEF Missing
  <2> QED
    BY <2>1, FS_Subset
<1>7. SlotsPlaced(left, missing, p)
  BY DEF Missing, InPlace, SlotPlaced, SlotsPlaced
<1> HIDE DEF left, missing
<1> DEFINE N == NewRows(left, missing, f, "get")
<1>8. N \subseteq Row /\ IsFiniteSet(N)
  <2> DEFINE K == Known \union left
  <2>1. Known \subseteq Row /\ Places(Known, serial) /\ Coherent(Known)
    BY KnownFacts
  <2>2. serial \in [Plan -> Nat] /\ NeverLess(serial, serial)
    BY DEF TreeInv, TypeOK, NeverLess
  <2>3. TwinsOf(K, Known)
    <3>1. \A x : Twin(x, x)
      BY DEF Twin
    <3> QED
      BY <1>5, <3>1 DEF TwinsOf
  <2>4. left \subseteq K /\ K \subseteq Row
    BY <1>4, <2>1
  <2> HIDE DEF K
  <2>5. Places(K, serial) /\ Coherent(K)
    BY <2>1, <2>2, <2>3, TwinsKeepPlaces
  <2>6. Below(K, p, serial[p])
    BY <2>5 DEF Places, Numbered, Below
  <2> QED
    BY <1>3, <1>4, <1>6, <1>7, <2>4, <2>5, <2>6, NewRowsPlaced
<1>9. \A x : Twin(x, x)
  BY DEF Twin
<1>10. Survivors(left)
  BY <1>4, <1>5 DEF Survivors
<1>11. Stored(N, N)
  BY <1>8, <1>9 DEF Stored, Live
<1> QED
  BY <1>1, <1>2, <1>6, <1>7, <1>10, <1>11, FillStep

-----------------------------------------------------------------------------
(***************************************************************************)
(* Requests                                                                *)
(***************************************************************************)
SoundRequests ==
    /\ req' \in [Worker -> Request_]
    /\ \A v \in Worker : req'[v] = req[v] \/ Sound(req'[v], Known)

LEMMA RequestSound ==
    ASSUME TreeInv, NEW w \in Worker, NEW q \in Request_, Sound(q, Known),
           req' = [req EXCEPT ![w] = q]
    PROVE  SoundRequests
  BY DEF TreeInv, TypeOK, SoundRequests

LEMMA IdleSound ==
    ASSUME NEW result \in Result
    PROVE  /\ [Idle EXCEPT !.result = result] \in Request_
           /\ Sound([Idle EXCEPT !.result = result], Known)
  BY DEF Idle, Request_, PC, Sound

LEMMA FinishSound ==
    ASSUME TreeInv, NEW w \in Worker, NEW result \in Result, Finish(w, result)
    PROVE  SoundRequests
  BY IdleSound, RequestSound DEF Finish

(* The row of a request that is under way.                                 *)
LEMMA BusyRow ==
    ASSUME TreeInv, NEW w \in Worker, req[w].pc # "idle"
    PROVE  /\ req[w] \in Request_ /\ req[w].row # NoRow
           /\ req[w].row \in Row /\ req[w].row \in Known
           /\ WellSkipped(req[w].row) /\ Placed(req[w].row)
           /\ Numbered(req[w].row, serial)
<1>1. req[w] \in Request_ /\ req[w].row # NoRow
  BY DEF TreeInv, TypeOK, RequestsOK
<1>2. req[w].row \in Known
  BY <1>1, KnownFacts
<1> QED
  BY <1>1, <1>2, KnownFacts DEF Places

LEMMA TwinSelf == \A x : Twin(x, x)
  BY DEF Twin

LEMMA GotoSound ==
    ASSUME TreeInv, NEW w \in Worker, NEW pc \in PC, pc # "idle",
           req[w].pc # "idle", Goto(w, pc),
           pc \in {"remove_count", "convert", "delete"}
               => req[w].row.section \in Skippable
    PROVE  SoundRequests
<1> DEFINE q == [req[w] EXCEPT !.pc = pc]
<1>1. q \in Request_ /\ q.pc = pc /\ q.row = req[w].row
  BY BusyRow DEF Request_
<1>2. Sound(q, Known)
  BY <1>1, BusyRow, TwinSelf DEF Sound
<1>3. req' = [req EXCEPT ![w] = q]
  BY DEF Goto
<1> QED
  BY <1>1, <1>2, <1>3, RequestSound

LEMMA QuietRequest ==
    ASSUME TreeInv, SoundRequests,
           UNCHANGED <<status, rows, serial, optional, repeatable>>
    PROVE  TreeInv'
<1>1. /\ rows' \subseteq Row /\ IsFiniteSet(rows') /\ Rooted(rows')
      /\ status' \in [Plan -> {"unused", "live", "deleted"}]
      /\ optional' \subseteq Section \intersect Skippable /\ repeatable' \subseteq Section
  BY DEF TreeInv, TypeOK, ParentsLive, SkipsOK
<1>2. \A x \in rows' : WellSkipped(x) /\ \E y \in Known : Twin(x, y)
  BY TwinSelf, KnownFacts
<1> QED
  BY <1>1, <1>2, StepOfTwins DEF SoundRequests

LEMMA LoadStep ==
    ASSUME TreeInv, NEW w \in Worker, NEW r \in rows, NEW pc \in PC,
           pc \notin {"remove_count", "convert", "delete"}, Load(w, r, pc)
    PROVE  TreeInv'
<1> DEFINE q == [pc |-> pc, row |-> r, result |-> "none"]
<1>1. r \in Row /\ r # NoRow /\ r \in Known /\ WellSkipped(r)
  BY KnownFacts, ModelValueAssumption
<1>2. q \in Request_
  BY <1>1 DEF Request_, Result
<1>3. Sound(q, Known)
  BY <1>1, TwinSelf DEF Sound
<1>4. req' = [req EXCEPT ![w] = q] /\ UNCHANGED <<status, rows, serial, optional, repeatable>>
  BY DEF Load
<1>5. SoundRequests
  BY <1>2, <1>3, <1>4, RequestSound
<1> QED
  BY <1>4, <1>5, QuietRequest

LEMMA RefusedStep ==
    ASSUME TreeInv, NEW w \in Worker, Refused(w)
    PROVE  TreeInv'
  BY FinishSound, QuietRequest DEF Refused, Result

(* What a request saves is the row it holds, up to its answers and flags.  *)
LEMMA SaveStep ==
    ASSUME TreeInv, NEW w \in Worker, req[w].pc # "idle",
           NEW r \in Row, Twin(r, req[w].row), WellSkipped(r), SaveRow(w, r)
    PROVE  TreeInv'
<1>1. CASE Refused(w)
  BY <1>1, RefusedStep
<1>2. CASE /\ SaveAccepted(rows, r)
           /\ rows' = Saved(rows, r)
           /\ Finish(w, "ok")
           /\ UNCHANGED <<status, serial, optional, repeatable>>
  <2>1. SoundRequests
    BY <1>2, FinishSound DEF Result
  <2>2. rows \subseteq Row /\ IsFiniteSet(rows) /\ Rooted(rows)
    BY DEF TreeInv, TypeOK, ParentsLive
  <2>3. /\ rows' \subseteq Row /\ IsFiniteSet(rows')
        /\ Live(rows', KeyOf(r))
        /\ \A x \in rows : Live(rows', KeyOf(x))
        /\ \A x \in rows' : x \in rows \/ (Twin(x, r) /\ x.skipped = r.skipped)
    BY <1>2, <2>2, SavedRows
  <2>4. \A k : Live(rows, k) => Live(rows', k)
    BY <2>3 DEF Live
  <2>5. r.parent = NoRow \/ Live(rows, r.parent)
    <3>1. [r EXCEPT !.ident = GetIdentifier(rows, r)].parent = r.parent
      BY DEF Row
    <3> QED
      BY <1>2, <3>1 DEF SaveAccepted, Accepts
  <2>6. Rooted(rows')
    <3>1. ASSUME NEW x \in rows' PROVE x.parent = NoRow \/ Live(rows', x.parent)
      <4>1. CASE x \in rows
        BY <2>2, <2>4, <4>1 DEF Rooted
      <4>2. CASE Twin(x, r)
        BY <2>4, <2>5, <4>2 DEF Twin
      <4> QED
        BY <2>3, <4>1, <4>2
    <3> QED
      BY <3>1 DEF Rooted
  <2>7. ASSUME NEW x \in rows' PROVE WellSkipped(x) /\ \E y \in Known : Twin(x, y)
    <3>1. CASE x \in rows
      BY <3>1, KnownFacts, TwinSelf
    <3>2. CASE Twin(x, r) /\ x.skipped = r.skipped
      BY <3>2, BusyRow DEF Twin, WellSkipped
    <3> QED
      BY <2>3, <3>1, <3>2
  <2>8. /\ status' \in [Plan -> {"unused", "live", "deleted"}]
        /\ \A p \in Plan : status'[p] = "unused" => status[p] = "unused"
        /\ optional' \subseteq Section \intersect Skippable /\ repeatable' \subseteq Section
    BY <1>2 DEF TreeInv, TypeOK, SkipsOK
  <2>9. UNCHANGED serial
    BY <1>2
  <2> QED
    BY <2>1, <2>3, <2>6, <2>7, <2>8, <2>9, StepOfTwins DEF SoundRequests
<1> QED
  BY <1>1, <1>2 DEF SaveRow

LEMMA SlotInPlace ==
    ASSUME NEW r \in Row, Placed(r)
    PROVE  /\ InPlace(SlotOf(r))
           /\ SlotOf(r).plan = r.plan /\ SlotOf(r).section = r.section
           /\ SlotOf(r).parent = r.parent
           /\ r.plan \in Plan /\ r.section \in Section
  BY DEF Row, Slot, SlotOf, InPlace, Placed

LEMMA LeastElement ==
    ASSUME NEW T, T \subseteq Nat, T # {}
    PROVE  \E x \in T : \A y \in T : x <= y
<1> DEFINE L == {ss \in Nat \X Nat : ss[1] < ss[2]}
<1>1. IsWellFoundedOn(L, Nat)
  BY NatLessThanWellFounded DEF OpToRel
<1> HIDE DEF L
<1>2. PICK x \in T : \A y \in T : ~(<<y, x>> \in L)
  BY <1>1, WFMin
<1>3. \A y \in T : ~(y < x)
  BY <1>2 DEF L
<1>4. \A y \in T : x <= y
  BY <1>3
<1> QED
  BY <1>4

LEMMA FirstOfRow ==
    ASSUME NEW G, G \subseteq Row, G # {}
    PROVE  FirstOf(G) \in G
<1> DEFINE T == {r.serial : r \in G}
<1>1. T \subseteq Nat /\ T # {}
  BY DEF Row
<1> HIDE DEF T
<1>2. \E n \in T : \A m \in T : n <= m
  BY <1>1, LeastElement
<1>3. \E r \in G : \A x \in G : r.serial <= x.serial
  BY <1>2 DEF T
<1> QED
  BY <1>3 DEF FirstOf

LEMMA FixStep ==
    ASSUME TreeInv, NEW w \in Worker, req[w].pc # "idle",
           NEW next \in {"add_last", "remove_count"}, Fix(w, next)
    PROVE  TreeInv'
<1> DEFINE slot == SlotOf(req[w].row)
<1>1. CASE Refused(w)
  BY <1>1, RefusedStep
<1>2. CASE /\ status[slot.plan] = "live"
           /\ Repair(slot.plan, {slot})
           /\ IF slot.section \in repeatable \intersect optional
              THEN Goto(w, next) ELSE Finish(w, "noop")
           /\ UNCHANGED <<status, optional, repeatable>>
  <2>1. InPlace(slot) /\ slot.plan \in Plan /\ slot.section = req[w].row.section
    BY BusyRow, SlotInPlace
  <2>2. SoundRequests
    <3>1. CASE slot.section \in optional /\ Goto(w, next)
      <4>1. req[w].row.section \in Skippable
        BY <2>1, <3>1 DEF TreeInv, SkipsOK
      <4>2. next \in PC /\ next # "idle"
        BY DEF PC
      <4> QED
        BY <3>1, <4>1, <4>2, GotoSound
    <3>2. CASE Finish(w, "noop")
      BY <3>2, FinishSound DEF Result
    <3> QED
      BY <1>2, <3>1, <3>2
  <2>3. IsFiniteSet({slot}) /\ \A x \in {slot} : x.plan = slot.plan /\ InPlace(x)
    BY <2>1, FS_Singleton
  <2>4. status[slot.plan] # "unused"
    BY <1>2
  <2> HIDE DEF slot
  <2> QED
    BY <1>2, <2>1, <2>2, <2>3, <2>4, RepairStep DEF SoundRequests
<1> QED
  BY <1>1, <1>2 DEF Fix

LEMMA AddSiblingStep ==
    ASSUME TreeInv, NEW w \in Worker, AddSibling(w)
    PROVE  TreeInv'
<1> DEFINE row == req[w].row
<1> DEFINE G == Siblings(rows, SlotOf(row))
<1> DEFINE skipped == {x \in G : x.skipped}
<1> DEFINE n == NextIdentifier(rows, row.plan, row.section)
<1>1. req[w].pc # "idle" /\ UNCHANGED <<status, rows, serial, optional, repeatable>>
  BY DEF AddSibling
<1>2. SoundRequests
  <2>1. CASE Finish(w, "refused") \/ Finish(w, "noop")
    BY <2>1, FinishSound DEF Result
  <2>2. CASE /\ skipped # {}
             /\ req' = [req EXCEPT ![w].pc = "unskip", ![w].row = FirstOf(skipped)]
    <3> DEFINE first == FirstOf(skipped)
    <3> DEFINE q == [req[w] EXCEPT !.pc = "unskip", !.row = first]
    <3>1. first \in skipped
      <4>1. skipped \subseteq Row
        BY DEF Siblings, TreeInv, TypeOK
      <4> HIDE DEF skipped
      <4> QED
        BY <2>2, <4>1, FirstOfRow
    <3>2. first \in rows
      BY <3>1 DEF Siblings
    <3> HIDE DEF first
    <3>3. first \in Known /\ first \in Row /\ WellSkipped(first)
      BY <3>2, KnownFacts
    <3>4. q \in Request_ /\ q.pc = "unskip" /\ q.row = first
      BY <1>1, <3>3, BusyRow DEF Request_, PC
    <3>5. Sound(q, Known)
      BY <3>3, <3>4, TwinSelf, ModelValueAssumption DEF Sound
    <3>6. req' = [req EXCEPT ![w] = q]
      BY <2>2 DEF first
    <3> QED
      BY <3>4, <3>5, <3>6, RequestSound
  <2>3. CASE req' = [req EXCEPT ![w].pc = "create", ![w].row.ident = n]
    <3> DEFINE held == [row EXCEPT !.ident = n]
    <3> DEFINE q == [req[w] EXCEPT !.pc = "create", !.row = held]
    <3>1. n \in Identifier
      BY NextIdentifierType DEF TreeInv, Identifier
    <3> HIDE DEF n
    <3>2. row \in Row /\ row \in Known /\ WellSkipped(row)
      BY <1>1, BusyRow
    <3>3. held \in Row /\ Twin(held, row) /\ WellSkipped(held) /\ held # NoRow
      BY <3>1, <3>2, ModelValueAssumption DEF Row, Twin, KeyOf, WellSkipped
    <3> HIDE DEF held
    <3>4. q \in Request_ /\ q.pc = "create" /\ q.row = held
      BY <1>1, <3>3, BusyRow DEF Request_, PC
    <3>5. Sound(q, Known)
      BY <3>2, <3>3, <3>4 DEF Sound
    <3>6. req' = [req EXCEPT ![w] = q]
      BY <2>3 DEF held
    <3> QED
      BY <3>4, <3>5, <3>6, RequestSound
  <2> HIDE DEF skipped, n, G
  <2> QED
    BY <2>1, <2>2, <2>3 DEF AddSibling, G, skipped, n
<1> QED
  BY <1>1, <1>2, QuietRequest

(* The rows create_answerset inserts, the first with the identifier that   *)
(* was counted when the last sibling was read.                             *)
Counted(w, r) ==
    IF r.section = SlotOf(req[w].row).section /\ r.section \notin Named
    THEN [r EXCEPT !.ident = req[w].row.ident] ELSE r

Created(w, slot, f, N, M) ==
    /\ slot = SlotOf(req[w].row)
    /\ f = [x \in {slot} |-> serial[slot.plan]]
    /\ N = NewRows(rows, {slot}, f, "create")
    /\ M = {Counted(w, r) : r \in N}
    /\ \A r \in M : r.section = slot.section => Accepts(rows, r)

LEMMA CountedTwin ==
    ASSUME NEW w, req[w].row.ident \in Identifier, NEW r \in Row
    PROVE  /\ Counted(w, r) \in Row /\ Twin(Counted(w, r), r)
           /\ Counted(w, r).skipped = r.skipped /\ Counted(w, r).filled = r.filled
  BY DEF Counted, Row, Twin, KeyOf

LEMMA CreatedRows ==
    ASSUME TreeInv, NEW w \in Worker, req[w].pc # "idle",
           NEW slot, NEW f, NEW N, NEW M, Created(w, slot, f, N, M)
    PROVE  /\ slot.plan \in Plan /\ status[slot.plan] = "live"
           /\ SlotsPlaced(rows, {slot}, slot.plan)
           /\ f \in Numberings({slot}, serial[slot.plan])
           /\ N \subseteq Row
           /\ Stored(M, N)
<1> DEFINE row == req[w].row
           p == slot.plan
<1>1. /\ row \in Row /\ Placed(row) /\ row \in Known
      /\ row.ident \in Identifier
  BY BusyRow DEF Row
<1>2. /\ InPlace(slot) /\ slot \in Slot /\ p \in Plan /\ slot.section \in Section
      /\ slot.parent = row.parent
  BY <1>1, SlotInPlace DEF InPlace, Created
<1>3. /\ rows \subseteq Row /\ IsFiniteSet(rows) /\ Rooted(rows)
      /\ serial[p] \in Nat /\ serial \in [Plan -> Nat]
  BY <1>2 DEF TreeInv, TypeOK, ParentsLive
<1>4. IsFiniteSet({slot}) /\ Cardinality({slot}) = 1
  BY FS_Singleton
<1>5. f \in Numberings({slot}, serial[p]) /\ f[slot] = serial[p]
  BY <1>3, <1>4 DEF Numberings, Created
<1>6. slot.section \in Tree(slot.section)
  BY <1>2 DEF Tree
<1>7. PICK first : /\ first = NewRow(rows, {slot}, f, "create", slot, slot.section)
                   /\ first \in N /\ first \in Row
                   /\ first.plan = p /\ first.section = slot.section
                   /\ first.parent = slot.parent
  <2>1. Shape(NewRow(rows, {slot}, f, "create", slot, slot.section),
              rows, slot, f[slot], slot.section)
    BY <1>2, <1>3, <1>4, <1>5, <1>6, NewRowShape
  <2>2. NewRow(rows, {slot}, f, "create", slot, slot.section) \in N
    BY <1>6 DEF NewRows, Created
  <2> QED
    BY <2>1, <2>2 DEF Shape
<1>8. \A r \in Row : /\ Counted(w, r) \in Row /\ Twin(Counted(w, r), r)
                     /\ Counted(w, r).skipped = r.skipped
  BY <1>1, CountedTwin
<1>9. M = {Counted(w, r) : r \in N}
  BY DEF Created
<1>10. Accepts(rows, Counted(w, first)) /\ Twin(Counted(w, first), first)
  <2>1. Twin(Counted(w, first), first) /\ Counted(w, first) \in M
    BY <1>7, <1>8, <1>9
  <2>2. Counted(w, first).section = slot.section
    BY <1>7, <2>1 DEF Twin
  <2> QED
    BY <2>1, <2>2 DEF Created
<1>11. status[p] = "live" /\ (slot.parent = NoRow \/ Live(rows, slot.parent))
  BY <1>7, <1>10 DEF Accepts, Twin
<1>12. SlotsPlaced(rows, {slot}, p)
  BY <1>2, <1>11 DEF SlotsPlaced, SlotPlaced, InPlace
<1>13. N \subseteq Row /\ IsFiniteSet(N)
  <2>1. Known \subseteq Row /\ rows \subseteq Known /\ Coherent(Known)
    BY KnownFacts
  <2>2. Below(Known, p, serial[p])
    BY KnownFacts DEF Places, Numbered, Below
  <2>3. N = NewRows(rows, {slot}, f, "create")
    BY DEF Created
  <2> QED
    BY <1>2, <1>3, <1>4, <1>5, <1>12, <2>1, <2>2, <2>3, NewRowsPlaced
<1>14. IsFiniteSet(M)
  <2> DEFINE g == [r \in N |-> Counted(w, r)]
  <2> DEFINE I == {g[r] : r \in N}
  <2>1. IsFiniteSet(I)
    <3> HIDE DEF g
    <3> QED
      BY <1>13, FiniteImage
  <2>2. I = M
    BY <1>9
  <2> QED
    BY <2>1, <2>2
<1>15. Stored(M, N)
  BY <1>8, <1>9, <1>13, <1>14 DEF Stored, Live, Twin
<1> QED
  BY <1>2, <1>5, <1>11, <1>12, <1>13, <1>15

(* AddCreate as a choice between a refusal and these rows.                 *)
LEMMA AddCreateCases ==
    ASSUME NEW w \in Worker, AddCreate(w)
    PROVE  /\ req[w].pc = "create"
           /\ \/ Refused(w)
              \/ \E slot, f, N, M :
                   /\ Created(w, slot, f, N, M)
                   /\ rows' = rows \union M
                   /\ serial' = [serial EXCEPT ![slot.plan] = @ + 1]
                   /\ Finish(w, "ok")
                   /\ UNCHANGED <<status, optional, repeatable>>
<1> DEFINE slot == SlotOf(req[w].row)
           f == [x \in {slot} |-> serial[slot.plan]]
           N == NewRows(rows, {slot}, f, "create")
           M == {Counted(w, r) : r \in N}
<1>1. CASE Refused(w)
  BY <1>1 DEF AddCreate
<1>2. CASE ~Refused(w)
  <2>1. /\ \A r \in M : r.section = slot.section => Accepts(rows, r)
        /\ rows' = rows \union M
        /\ serial' = [serial EXCEPT ![slot.plan] = @ + 1]
        /\ Finish(w, "ok")
        /\ UNCHANGED <<status, optional, repeatable>>
        /\ req[w].pc = "create"
    BY <1>2 DEF AddCreate, Counted
  <2> HIDE DEF slot, f, N, M
  <2>2. Created(w, slot, f, N, M)
    BY <2>1 DEF Created, slot, f, N, M
  <2> QED
    BY <2>1, <2>2
<1> QED
  BY <1>1, <1>2

LEMMA AddCreateStep ==
    ASSUME TreeInv, NEW w \in Worker, AddCreate(w)
    PROVE  TreeInv'
<1>1. CASE Refused(w)
  BY <1>1, RefusedStep
<1>2. CASE ~Refused(w)
  <2>1. PICK slot, f, N, M :
          /\ Created(w, slot, f, N, M)
          /\ rows' = rows \union M
          /\ serial' = [serial EXCEPT ![slot.plan] = @ + 1]
          /\ Finish(w, "ok")
          /\ UNCHANGED <<status, optional, repeatable>>
    BY <1>2, AddCreateCases
  <2>2. req[w].pc # "idle"
    BY AddCreateCases
  <2>3. /\ slot.plan \in Plan /\ status[slot.plan] # "unused"
        /\ SlotsPlaced(rows, {slot}, slot.plan)
        /\ f \in Numberings({slot}, serial[slot.plan])
        /\ Stored(M, NewRows(rows, {slot}, f, "create"))
    BY <2>1, <2>2, CreatedRows DEF Created
  <2>4. IsFiniteSet({slot}) /\ Cardinality({slot}) = 1
    BY FS_Singleton
  <2>5. Survivors(rows)
    BY TwinSelf, KnownFacts DEF Survivors, TreeInv, TypeOK, ParentsLive
  <2>6. SoundRequests
    BY <2>1, FinishSound DEF Result
  <2>7. serial' = [serial EXCEPT ![slot.plan] = @ + Cardinality({slot})]
    BY <2>1, <2>4
  <2> QED
    BY <2>1, <2>3, <2>4, <2>5, <2>6, <2>7, FillStep DEF SoundRequests
<1> QED
  BY <1>1, <1>2

LEMMA RemoveCountStep ==
    ASSUME TreeInv, NEW w \in Worker, RemoveCount(w)
    PROVE  TreeInv'
<1>1. req[w].pc = "remove_count" /\ UNCHANGED <<status, rows, serial, optional, repeatable>>
  BY DEF RemoveCount
<1>2. req[w].row.section \in Skippable
  BY <1>1 DEF TreeInv, SkipsOK
<1>3. PICK pc \in {"convert", "delete"} : Goto(w, pc)
  BY DEF RemoveCount
<1>4. pc \in PC /\ pc # "idle"
  BY DEF PC
<1>5. SoundRequests
  BY <1>1, <1>2, <1>3, <1>4, GotoSound
<1> QED
  BY <1>1, <1>5, QuietRequest

LEMMA RemoveConvertStep ==
    ASSUME TreeInv, NEW w \in Worker, RemoveConvert(w)
    PROVE  TreeInv'
<1> DEFINE r == [req[w].row EXCEPT !.skipped = TRUE, !.filled = FALSE, !.name = NoName]
<1>1. req[w].pc = "convert" /\ SaveRow(w, r)
  BY DEF RemoveConvert
<1>2. req[w].row.section \in Skippable
  BY <1>1 DEF TreeInv, SkipsOK
<1>3. r \in Row /\ Twin(r, req[w].row) /\ WellSkipped(r)
  BY <1>1, <1>2, BusyRow DEF Row, Twin, KeyOf, WellSkipped
<1> HIDE DEF r
<1> QED
  BY <1>1, <1>3, SaveStep

LEMMA RemoveDeleteStep ==
    ASSUME TreeInv, NEW w \in Worker, RemoveDelete(w)
    PROVE  TreeInv'
<1> DEFINE D == RowsOf(rows, KeyOf(req[w].row))
<1>1. /\ rows' = rows \ Cascade(rows, D)
      /\ Finish(w, "ok")
      /\ UNCHANGED <<status, serial, optional, repeatable>>
  BY DEF RemoveDelete
<1>2. rows \subseteq Row /\ IsFiniteSet(rows) /\ Rooted(rows) /\ Coherent(rows)
  BY KnownFacts DEF TreeInv, TypeOK, ParentsLive
<1>3. D \in SUBSET rows
  BY DEF RowsOf
<1> HIDE DEF D
<1>4. Rooted(rows')
  BY <1>1, <1>2, <1>3, CascadeKeepsParents
<1>5. rows' \subseteq Row /\ IsFiniteSet(rows')
  BY <1>1, <1>2, FS_Subset
<1>6. SoundRequests
  BY <1>1, FinishSound DEF Result
<1>7. \A x \in rows' : WellSkipped(x) /\ \E y \in Known : Twin(x, y)
  BY <1>1, KnownFacts, TwinSelf
<1>8. /\ status' \in [Plan -> {"unused", "live", "deleted"}]
      /\ \A p \in Plan : status'[p] = "unused" => status[p] = "unused"
      /\ optional' \subseteq Section \intersect Skippable /\ repeatable' \subseteq Section
      /\ UNCHANGED serial
  BY <1>1 DEF TreeInv, TypeOK, SkipsOK
<1> QED
  BY <1>4, <1>5, <1>6, <1>7, <1>8, StepOfTwins DEF SoundRequests

LEMMA AnswerSaveStep ==
    ASSUME TreeInv, NEW w \in Worker, AnswerSave(w)
    PROVE  TreeInv'
<1> DEFINE row == req[w].row
<1> DEFINE names == IF row.section \in Named THEN Name \union {row.name} ELSE {NoName}
<1> DEFINE saved(name) == [Unskipped(row) EXCEPT !.filled = TRUE, !.name = name]
<1>1. req[w].pc = "answer"
  BY DEF AnswerSave
<1>2. PICK name \in names : SaveRow(w, saved(name))
  BY DEF AnswerSave
<1>3. row \in Row /\ name \in Name \union {NoName}
  BY <1>1, BusyRow DEF Row
<1>4. saved(name) \in Row /\ Twin(saved(name), row) /\ WellSkipped(saved(name))
  BY <1>3 DEF Row, Twin, KeyOf, WellSkipped, Unskipped
<1> HIDE DEF saved
<1> QED
  BY <1>1, <1>2, <1>4, SaveStep

LEMMA ValidateSaveStep ==
    ASSUME TreeInv, NEW w \in Worker, ValidateSave(w)
    PROVE  TreeInv'
<1> DEFINE row == req[w].row
<1> DEFINE skipped == row.skipped /\ row.section \in optional
<1> DEFINE write(r) == IF KeyOf(r) = KeyOf(row) THEN [r EXCEPT !.skipped = skipped] ELSE r
<1>1. CASE Refused(w)
  BY <1>1, RefusedStep
<1>2. CASE /\ rows' = {write(r) : r \in rows}
           /\ Finish(w, "ok")
           /\ UNCHANGED <<status, serial, optional, repeatable>>
           /\ req[w].pc = "validate"
  <2>1. rows \subseteq Row /\ IsFiniteSet(rows) /\ Rooted(rows)
    BY DEF TreeInv, TypeOK, ParentsLive
  <2>2. row \in Row /\ optional \subseteq Skippable
    BY <1>2, BusyRow DEF TreeInv, SkipsOK
  <2>3. ASSUME NEW r \in rows
        PROVE  write(r) \in Row /\ Twin(write(r), r) /\ WellSkipped(write(r))
    <3>1. r \in Row /\ WellSkipped(r)
      BY KnownFacts
    <3>2. CASE KeyOf(r) = KeyOf(row)
      <4>1. r.section = row.section
        BY <2>2, <3>1, <3>2, KeyType
      <4>2. \A b \in BOOLEAN : /\ [r EXCEPT !.skipped = b] \in Row
                               /\ Twin([r EXCEPT !.skipped = b], r)
                               /\ [r EXCEPT !.skipped = b].skipped = b
                               /\ [r EXCEPT !.skipped = b].section = r.section
        BY <3>1 DEF Row, Twin, KeyOf
      <4>3. skipped \in BOOLEAN /\ (skipped => row.section \in Skippable)
        BY <2>2
      <4> QED
        BY <3>2, <4>1, <4>2, <4>3 DEF WellSkipped
    <3>3. CASE KeyOf(r) # KeyOf(row)
      BY <3>1, <3>3, TwinSelf
    <3> QED
      BY <3>2, <3>3
  <2> HIDE DEF write
  <2>4. rows' \subseteq Row
    BY <1>2, <2>3
  <2>5. IsFiniteSet(rows')
    <3> DEFINE g == [r \in rows |-> write(r)]
    <3> DEFINE I == {g[r] : r \in rows}
    <3>1. IsFiniteSet(I)
      <4> HIDE DEF g
      <4> QED
        BY <2>1, FiniteImage
    <3>2. I = rows'
      BY <1>2
    <3> QED
      BY <3>1, <3>2
  <2>6. \A k : Live(rows, k) => Live(rows', k)
    BY <1>2, <2>3 DEF Live, Twin
  <2>7. Rooted(rows')
    BY <1>2, <2>1, <2>3, <2>6 DEF Rooted, Twin
  <2>8. \A x \in rows' : WellSkipped(x) /\ \E y \in Known : Twin(x, y)
    BY <1>2, <2>3, KnownFacts
  <2>9. SoundRequests
    BY <1>2, FinishSound DEF Result
  <2>10. /\ status' \in [Plan -> {"unused", "live", "deleted"}]
         /\ \A p \in Plan : status'[p] = "unused" => status[p] = "unused"
         /\ optional' \subseteq Section \intersect Skippable /\ repeatable' \subseteq Section
         /\ UNCHANGED serial
    BY <1>2 DEF TreeInv, TypeOK, SkipsOK
  <2> QED
    BY <2>4, <2>5, <2>7, <2>8, <2>9, <2>10, StepOfTwins DEF SoundRequests
<1> QED
  BY <1>1, <1>2 DEF ValidateSave

LEMMA RequestStep ==
    ASSUME TreeInv, NEW w \in Worker, Request(w)
    PROVE  TreeInv'
<1>1. CASE AddFix(w)
  BY <1>1, FixStep DEF AddFix
<1>2. CASE AddSibling(w)
  BY <1>2, AddSiblingStep
<1>3. CASE AddUnskip(w)
  <2>1. req[w].pc = "unskip" /\ SaveRow(w, Unskipped(req[w].row))
    BY <1>3 DEF AddUnskip
  <2>2. /\ Unskipped(req[w].row) \in Row /\ Twin(Unskipped(req[w].row), req[w].row)
        /\ WellSkipped(Unskipped(req[w].row))
    BY <2>1, BusyRow DEF Row, Twin, KeyOf, WellSkipped, Unskipped
  <2> QED
    BY <2>1, <2>2, SaveStep
<1>4. CASE AddCreate(w)
  BY <1>4, AddCreateStep
<1>5. CASE RemoveFix(w)
  BY <1>5, FixStep DEF RemoveFix
<1>6. CASE RemoveCount(w)
  BY <1>6, RemoveCountStep
<1>7. CASE RemoveConvert(w)
  BY <1>7, RemoveConvertStep
<1>8. CASE RemoveDelete(w)
  BY <1>8, RemoveDeleteStep
<1>9. CASE AnswerSave(w)
  BY <1>9, AnswerSaveStep
<1>10. CASE AnswerUnchanged(w)
  BY <1>10, FinishSound, QuietRequest DEF AnswerUnchanged, Result
<1>11. CASE ValidateSave(w)
  BY <1>11, ValidateSaveStep
<1>12. CASE Crash(w)
  BY <1>12, FinishSound, QuietRequest DEF Crash, Result
<1> QED
  BY <1>1, <1>2, <1>3, <1>4, <1>5, <1>6, <1>7, <1>8, <1>9, <1>10, <1>11, <1>12 DEF Request

LEMMA NewRequestStep ==
    ASSUME TreeInv, NEW w \in Worker, NEW r \in rows, NewRequest(w, r)
    PROVE  TreeInv'
<1>1. \E pc \in {"add_fix", "sibling", "remove_fix", "answer", "validate"} : Load(w, r, pc)
  BY DEF NewRequest, AddAnswerSet, AdminAddSibling, RemoveAnswerSet, Answer, Validate
<1> QED
  BY <1>1, LoadStep DEF PC

-----------------------------------------------------------------------------
(***************************************************************************)
(* Plans                                                                   *)
(***************************************************************************)
LEMMA SameRequests ==
    ASSUME TreeInv, UNCHANGED req
    PROVE  SoundRequests
  BY DEF TreeInv, TypeOK, SoundRequests

LEMMA CreatePlanStep ==
    ASSUME TreeInv, NEW p \in Plan, CreatePlan(p)
    PROVE  TreeInv'
<1>1. /\ status' = [status EXCEPT ![p] = "live"]
      /\ UNCHANGED <<rows, serial, optional, repeatable, req>>
  BY DEF CreatePlan
<1>2. /\ status' \in [Plan -> {"unused", "live", "deleted"}]
      /\ \A q \in Plan : status'[q] = "unused" => status[q] = "unused"
      /\ rows' \subseteq Row /\ IsFiniteSet(rows') /\ Rooted(rows')
      /\ optional' \subseteq Section \intersect Skippable /\ repeatable' \subseteq Section
  BY <1>1 DEF TreeInv, TypeOK, ParentsLive, SkipsOK
<1>3. \A x \in rows' : WellSkipped(x) /\ \E y \in Known : Twin(x, y)
  BY <1>1, KnownFacts, TwinSelf
<1> QED
  BY <1>1, <1>2, <1>3, SameRequests, StepOfTwins DEF SoundRequests

LEMMA DeletePlanStep ==
    ASSUME TreeInv, NEW p \in Plan, DeletePlan(p)
    PROVE  TreeInv'
<1>1. /\ status' = [status EXCEPT ![p] = "deleted"]
      /\ rows' = {r \in rows : r.plan # p}
      /\ UNCHANGED <<serial, optional, repeatable, req>>
  BY DEF DeletePlan
<1>2. /\ status' \in [Plan -> {"unused", "live", "deleted"}]
      /\ \A q \in Plan : status'[q] = "unused" => status[q] = "unused"
      /\ rows' \subseteq Row
      /\ optional' \subseteq Section \intersect Skippable /\ repeatable' \subseteq Section
  BY <1>1 DEF TreeInv, TypeOK, SkipsOK
<1>3. IsFiniteSet(rows')
  BY <1>1, FS_Subset DEF TreeInv
<1>4. Rooted(rows')
  <2> SUFFICES ASSUME NEW r \in rows', r.parent # NoRow
               PROVE  Live(rows', r.parent)
    BY DEF Rooted
  <2>1. r \in rows /\ r.plan # p /\ Placed(r)
    BY <1>1, KnownFacts DEF Places
  <2>2. PICK x \in rows : KeyOf(x) = r.parent
    BY <2>1 DEF TreeInv, ParentsLive, Rooted, Live
  <2>3. x.plan = r.plan
    BY <2>1, <2>2, KeyType DEF Placed, TreeInv, TypeOK
  <2> QED
    BY <1>1, <2>1, <2>2, <2>3 DEF Live
<1>5. \A x \in rows' : WellSkipped(x) /\ \E y \in Known : Twin(x, y)
  BY <1>1, KnownFacts, TwinSelf
<1> QED
  BY <1>1, <1>2, <1>3, <1>4, <1>5, SameRequests, StepOfTwins DEF SoundRequests

(* The slots of subsections under some rows of one plan.                   *)
LEMMA SlotsBelow ==
    ASSUME NEW R, R \subseteq rows, TreeInv, NEW p \in Plan, \A x \in R : x.plan = p,
           NEW slots,
           \A slot \in slots : \E x \in R : \E c \in Subsections(x.section) :
               slot = [plan |-> p, section |-> c, parent |-> KeyOf(x)]
    PROVE  /\ IsFiniteSet(slots)
           /\ \A slot \in slots : /\ slot.plan = p /\ InPlace(slot)
                                  /\ SlotPlaced(rows, slot)
<1>1. rows \subseteq Row /\ IsFiniteSet(R)
  BY FS_Subset DEF TreeInv, TypeOK
<1>2. IsFiniteSet(slots)
  <2> DEFINE P == R \X Section
  <2> DEFINE g == [y \in P |-> [plan |-> p, section |-> y[2], parent |-> KeyOf(y[1])]]
  <2> DEFINE I == {g[y] : y \in P}
  <2>1. IsFiniteSet(P)
    BY <1>1, BoundAssumption, FS_Product
  <2>2. IsFiniteSet(I)
    <3> HIDE DEF P, g
    <3> QED
      BY <2>1, FiniteImage
  <2>3. slots \subseteq I
    <3>1. ASSUME NEW slot \in slots PROVE slot \in I
      <4>1. PICK x \in R : \E c \in Subsections(x.section) :
              slot = [plan |-> p, section |-> c, parent |-> KeyOf(x)]
        OBVIOUS
      <4>2. PICK c \in Subsections(x.section) :
              slot = [plan |-> p, section |-> c, parent |-> KeyOf(x)]
        BY <4>1
      <4>3. <<x, c>> \in P
        BY DEF Subsections
      <4>4. g[<<x, c>>] = slot
        BY <4>2, <4>3
      <4> HIDE DEF P, g
      <4> QED
        BY <4>3, <4>4
    <3> QED
      BY <3>1
  <2> HIDE DEF I
  <2> QED
    BY <2>2, <2>3, FS_Subset
<1>3. ASSUME NEW slot \in slots
      PROVE  slot.plan = p /\ InPlace(slot) /\ SlotPlaced(rows, slot)
  <2>1. PICK x \in R : \E c \in Subsections(x.section) :
          slot = [plan |-> p, section |-> c, parent |-> KeyOf(x)]
    OBVIOUS
  <2>2. PICK c \in Subsections(x.section) :
          slot = [plan |-> p, section |-> c, parent |-> KeyOf(x)]
    BY <2>1
  <2>3. /\ x \in rows /\ x \in Row /\ x.plan = p /\ x.section \in Section
        /\ c \in Section /\ Super[c] = x.section /\ Super[c] # NoSection
    BY <1>1, TreeAssumption DEF Subsections, Row
  <2>4. KeyOf(x) \in Key /\ KeyOf(x).plan = p /\ KeyOf(x).section = x.section
    BY <2>3, KeyType
  <2>5. InPlace(slot) /\ slot.plan = p
    BY <2>2, <2>3, <2>4 DEF InPlace, Slot
  <2>6. Live(rows, slot.parent)
    BY <2>2, <2>3 DEF Live
  <2> QED
    BY <2>5, <2>6 DEF InPlace, SlotPlaced
<1> QED
  BY <1>2, <1>3

(* The slots under a row and the rows below it, which fix_children visits. *)
SlotsUnder(top) ==
    UNION {{[plan |-> x.plan, section |-> c, parent |-> KeyOf(x)]
              : c \in Subsections(x.section)}
             : x \in {y \in rows : y = top \/ KeyOf(top) \in y.anc}}

LEMMA SlotsUnderPlaced ==
    ASSUME TreeInv, NEW top \in rows
    PROVE  /\ IsFiniteSet(SlotsUnder(top))
           /\ \A slot \in SlotsUnder(top) : /\ slot.plan = top.plan /\ InPlace(slot)
                                            /\ slot.parent # NoRow
                                            /\ SlotPlaced(rows, slot)
           /\ top.plan \in Plan /\ serial[top.plan] > 0
<1> DEFINE under == {y \in rows : y = top \/ KeyOf(top) \in y.anc}
<1> DEFINE slots == UNION {{[plan |-> x.plan, section |-> c, parent |-> KeyOf(x)]
                              : c \in Subsections(x.section)} : x \in under}
<1>1. top \in Row /\ top.plan \in Plan /\ KeyOf(top).plan = top.plan
  BY KnownFacts, KeyType
<1>2. \A x \in under : x.plan = top.plan
  BY <1>1, KnownFacts DEF Places, Placed
<1>3. under \subseteq rows
  OBVIOUS
<1>4. \A x \in under : KeyOf(x) # NoRow
  BY <1>3, KnownFacts, KeyType
<1>5. \A slot \in slots : \E x \in under : \E c \in Subsections(x.section) :
          slot = [plan |-> top.plan, section |-> c, parent |-> KeyOf(x)]
  <2> HIDE DEF under
  <2> QED
    BY <1>2
<1>6. serial[top.plan] > 0
  <2>1. top.serial < serial[top.plan] /\ top.serial \in Nat /\ serial[top.plan] \in Nat
    BY <1>1, KnownFacts DEF Places, Numbered, Row, TreeInv, TypeOK
  <2> QED
    BY <2>1
<1>7. slots = SlotsUnder(top)
  BY DEF SlotsUnder
<1> HIDE DEF slots, under
<1>8. /\ IsFiniteSet(slots)
      /\ \A slot \in slots : slot.plan = top.plan /\ InPlace(slot) /\ SlotPlaced(rows, slot)
  BY <1>1, <1>2, <1>3, <1>5, SlotsBelow
<1>9. \A slot \in slots : slot.parent # NoRow
  BY <1>4, <1>5
<1> QED
  BY <1>1, <1>6, <1>7, <1>8, <1>9

LEMMA FixChildrenStep ==
    ASSUME TreeInv, NEW top \in rows, FixChildren(top)
    PROVE  TreeInv'
<1>1. Repair(top.plan, SlotsUnder(top)) /\ UNCHANGED <<status, optional, repeatable, req>>
  BY DEF FixChildren, SlotsUnder
<1>2. status[top.plan] # "unused"
  BY SlotsUnderPlaced DEF TreeInv, UnusedOK
<1>3. SoundRequests
  BY <1>1, SameRequests
<1> QED
  BY <1>1, <1>2, <1>3, SlotsUnderPlaced, RepairStep DEF SoundRequests

LEMMA EmptySlotsPlaced ==
    ASSUME TreeInv, NEW p \in Plan
    PROVE  IsFiniteSet(EmptySlots(p)) /\ SlotsPlaced(rows, EmptySlots(p), p)
<1> DEFINE slots == EmptySlots(p)
<1> DEFINE mine == {r \in rows : r.plan = p}
<1> DEFINE top(s) == [plan |-> p, section |-> s, parent |-> NoRow]
<1> DEFINE tops == {top(s) : s \in {t \in Section : Super[t] = NoSection}}
<1> DEFINE low == slots \ tops
<1>1. \A slot \in low : \E x \in mine : \E c \in Subsections(x.section) :
          slot = [plan |-> p, section |-> c, parent |-> KeyOf(x)]
  <2> DEFINE below(x) == {[plan |-> p, section |-> c, parent |-> KeyOf(x)]
                            : c \in Subsections(x.section)}
  <2> DEFINE last(s) == LastOf(Siblings(mine, top(s)))
  <2> DEFINE filled(s) == IF Siblings(mine, top(s)) = {} THEN {top(s)}
                          ELSE UNION {below(x) : x \in Visited(mine, last(s))}
  <2>1. ASSUME NEW s \in Section, Super[s] = NoSection, NEW slot \in filled(s),
               slot \notin tops
        PROVE  \E x \in mine : slot \in below(x)
    <3>1. slot # top(s)
      BY <2>1
    <3>2. slot \in UNION {below(x) : x \in Visited(mine, last(s))}
      BY <2>1, <3>1
    <3>3. Visited(mine, last(s)) \subseteq mine
      BY DEF Visited
    <3> HIDE DEF below, last, mine
    <3> QED
      BY <3>2, <3>3
  <2>2. ASSUME NEW slot \in slots
        PROVE  \E s \in Section : Super[s] = NoSection /\ slot \in filled(s)
    BY DEF EmptySlots
  <2> HIDE DEF slots, filled, tops, mine
  <2>3. ASSUME NEW slot \in low PROVE \E x \in mine : slot \in below(x)
    BY <2>1, <2>2
  <2> QED
    BY <2>3
<1>2. mine \subseteq rows /\ \A x \in mine : x.plan = p
  OBVIOUS
<1>3. /\ rows \subseteq Row /\ IsFiniteSet(rows) /\ Rooted(rows) /\ Coherent(rows)
      /\ serial[p] \in Nat
  BY KnownFacts DEF TreeInv, TypeOK, ParentsLive
<1>4. IsFiniteSet(tops) /\ \A slot \in tops : slot.plan = p /\ SlotPlaced(rows, slot)
  <2> DEFINE T == {t \in Section : Super[t] = NoSection}
  <2> DEFINE g == [s \in T |-> top(s)]
  <2> DEFINE I == {g[s] : s \in T}
  <2>1. IsFiniteSet(T)
    BY BoundAssumption, FS_Subset
  <2>2. IsFiniteSet(I)
    <3> HIDE DEF T, g
    <3> QED
      BY <2>1, FiniteImage
  <2>3. I = tops
    OBVIOUS
  <2>4. \A slot \in tops : slot.plan = p /\ SlotPlaced(rows, slot)
    BY DEF SlotPlaced, Slot
  <2> QED
    BY <2>2, <2>3, <2>4
<1> HIDE DEF slots, mine, tops
<1>5. IsFiniteSet(low) /\ \A slot \in low : slot.plan = p /\ SlotPlaced(rows, slot)
  <2> HIDE DEF low
  <2> QED
    BY <1>1, <1>2, SlotsBelow
<1>6. IsFiniteSet(slots) /\ SlotsPlaced(rows, slots, p)
  <2>1. slots \subseteq low \union tops
    OBVIOUS
  <2>2. IsFiniteSet(low \union tops)
    BY <1>4, <1>5, FS_Union
  <2>3. IsFiniteSet(slots)
    BY <2>1, <2>2, FS_Subset
  <2> QED
    BY <1>4, <1>5, <2>1, <2>3 DEF SlotsPlaced
<1> QED
  BY <1>6 DEF slots

LEMMA AddMissingStep ==
    ASSUME TreeInv, NEW p \in Plan, AddMissingAnswersets(p)
    PROVE  TreeInv'
<1> DEFINE slots == EmptySlots(p)
<1>1. /\ status[p] = "live"
      /\ serial' = [serial EXCEPT ![p] = @ + Cardinality(slots)]
      /\ UNCHANGED <<status, optional, repeatable, req>>
  BY DEF AddMissingAnswersets
<1>2. PICK f \in Numberings(slots, serial[p]) :
        rows' = rows \union NewRows(rows, slots, f, "ensure")
  BY DEF AddMissingAnswersets
<1>3. /\ rows \subseteq Row /\ IsFiniteSet(rows) /\ Rooted(rows)
      /\ serial[p] \in Nat
  BY DEF TreeInv, TypeOK, ParentsLive
<1>4. IsFiniteSet(slots) /\ SlotsPlaced(rows, slots, p)
  BY EmptySlotsPlaced
<1> HIDE DEF slots
<1>5. Survivors(rows)
  BY <1>3, KnownFacts, TwinSelf DEF Survivors
<1> DEFINE N == NewRows(rows, slots, f, "ensure")
<1>6. N \subseteq Row /\ IsFiniteSet(N)
  <2>1. Known \subseteq Row /\ rows \subseteq Known /\ Coherent(Known)
    BY KnownFacts
  <2>2. Below(Known, p, serial[p])
    BY KnownFacts DEF Places, Numbered, Below
  <2> QED
    BY <1>3, <1>4, <2>1, <2>2, NewRowsPlaced
<1>7. Stored(N, N)
  BY <1>6, TwinSelf DEF Stored, Live
<1>8. SoundRequests /\ status[p] # "unused"
  BY <1>1, SameRequests
<1> QED
  BY <1>1, <1>2, <1>4, <1>5, <1>7, <1>8, FillStep DEF SoundRequests

LEMMA CopyShape ==
    ASSUME TreeInv, NEW q \in Plan, NEW r \in rows, NEW x, x = Copy(r, q)
    PROVE  /\ x \in Row
           /\ x.plan = q /\ x.serial = r.serial /\ x.section = r.section
           /\ KeyOf(x) = Rekey(KeyOf(r), q)
           /\ x.parent = IF r.parent = NoRow THEN NoRow ELSE Rekey(r.parent, q)
           /\ x.anc = {Rekey(k, q) : k \in r.anc}
           /\ ~x.skipped
<1>1. rows \subseteq Row /\ IsFiniteSet(rows) /\ r \in Row
  BY DEF TreeInv, TypeOK
<1>2. SecondIdentifier(r) \in Identifier
  <2> DEFINE earlier == {y \in rows : /\ y.plan = r.plan /\ y.section = r.section
                                      /\ y.serial <= r.serial}
  <2>1. IsFiniteSet(earlier) /\ r \in earlier
    BY <1>1, FS_Subset DEF Row
  <2> HIDE DEF earlier
  <2>2. Cardinality(earlier) \in Nat \ {0}
    BY <2>1, FS_CardinalityType, FS_EmptySet
  <2>3. FirstIdentifier(r) \in Identifier
    BY <1>1, <2>2 DEF FirstIdentifier, Identifier, Row, earlier
  <2>4. NextIdentifier(rows, r.plan, r.section) \in Nat \ {0}
    BY <1>1, NextIdentifierType
  <2> QED
    BY <2>3, <2>4 DEF SecondIdentifier, Identifier
<1>3. /\ r.parent \in Key \union {NoRow} /\ r.anc \in SUBSET Key
      /\ \A k \in Key : Rekey(k, q) \in Key
  BY <1>1 DEF Row, Key, Rekey
<1> DEFINE parent == IF r.parent = NoRow THEN NoRow ELSE Rekey(r.parent, q)
<1> DEFINE anc == {Rekey(k, q) : k \in r.anc}
<1>4. parent \in Key \union {NoRow} /\ anc \in SUBSET Key
  BY <1>3
<1>5. x = [r EXCEPT !.plan = q, !.parent = parent, !.anc = anc,
                    !.ident = SecondIdentifier(r), !.skipped = FALSE]
  BY DEF Copy, Rekey
<1> HIDE DEF parent, anc
<1>6. /\ x \in Row
      /\ x.plan = q /\ x.serial = r.serial /\ x.section = r.section
      /\ x.parent = parent /\ x.anc = anc /\ ~x.skipped
  BY <1>1, <1>2, <1>4, <1>5 DEF Row
<1>7. KeyOf(x) = Rekey(KeyOf(r), q)
  BY <1>6 DEF KeyOf, Rekey
<1> QED
  BY <1>6, <1>7 DEF parent, anc

LEMMA ClonePlanStep ==
    ASSUME TreeInv, NEW p \in Plan, NEW q \in Plan, ClonePlan(p, q)
    PROVE  TreeInv'
<1> DEFINE S == {x \in rows : x.plan = p}
<1> DEFINE C == {Copy(r, q) : r \in S}
<1> DEFINE K == Known \union C
<1>1. /\ status[p] = "live" /\ status[q] = "unused"
      /\ status' = [status EXCEPT ![q] = "live"]
      /\ rows' = rows \union C
      /\ serial' = [serial EXCEPT ![q] = serial[p]]
      /\ UNCHANGED <<optional, repeatable, req>>
  BY DEF ClonePlan
<1>2. /\ rows \subseteq Row /\ IsFiniteSet(rows) /\ Rooted(rows)
      /\ serial \in [Plan -> Nat] /\ status \in [Plan -> {"unused", "live", "deleted"}]
      /\ p # q /\ serial[q] = 0
  BY <1>1 DEF TreeInv, TypeOK, ParentsLive, UnusedOK
<1>3. \A r \in Known : r.plan # q
  BY <1>2, KnownFacts DEF Places, Numbered, Row
<1>4. ASSUME NEW x \in C
      PROVE  \E r \in S : /\ r \in rows /\ r \in Known /\ r \in Row /\ r.plan = p
                          /\ x = Copy(r, q)
  BY <1>2, KnownFacts
<1> HIDE DEF C
<1>5. ASSUME NEW x \in C
      PROVE  /\ x \in Row /\ x.plan = q /\ ~x.skipped
             /\ Placed(x) /\ Numbered(x, serial')
             /\ x.parent = NoRow \/ Live(C, x.parent)
  <2>1. PICK r \in S : /\ r \in rows /\ r \in Known /\ r \in Row /\ r.plan = p
                       /\ x = Copy(r, q)
    BY <1>4
  <2>2. /\ x \in Row
        /\ x.plan = q /\ x.serial = r.serial /\ x.section = r.section
        /\ x.parent = IF r.parent = NoRow THEN NoRow ELSE Rekey(r.parent, q)
        /\ x.anc = {Rekey(k, q) : k \in r.anc}
        /\ ~x.skipped
    BY <2>1, CopyShape
  <2>3. Placed(r) /\ Numbered(r, serial) /\ r.section \in Section
    BY <2>1, KnownFacts DEF Places
  <2>4. r.anc \subseteq Key /\ r.parent \in Key \union {NoRow}
    BY <2>1 DEF Row
  <2>5. \A k \in Key : /\ Rekey(k, q) \in Key /\ Rekey(k, q) # NoRow
                       /\ Rekey(k, q).plan = q /\ Rekey(k, q).serial = k.serial
                       /\ Rekey(k, q).section = k.section
    BY ModelValueAssumption DEF Key, Rekey
  <2>6. Placed(x)
    <3>1. \A k \in x.anc : k.plan = x.plan /\ k.section \in Above[x.section]
      BY <2>2, <2>3, <2>4, <2>5 DEF Placed
    <3>2. CASE r.parent = NoRow
      BY <2>2, <2>3, <3>1, <3>2, ModelValueAssumption DEF Placed
    <3>3. CASE r.parent # NoRow
      BY <2>2, <2>3, <2>4, <2>5, <3>1, <3>3 DEF Placed
    <3> QED
      BY <3>2, <3>3
  <2>7. Numbered(x, serial')
    <3>1. serial'[q] = serial[p]
      BY <1>1, <1>2
    <3> QED
      BY <2>1, <2>2, <2>3, <2>4, <2>5, <3>1 DEF Numbered
  <2>8. ASSUME r.parent # NoRow PROVE Live(C, x.parent)
    <3>1. PICK y \in rows : KeyOf(y) = r.parent
      BY <1>2, <2>1, <2>8 DEF Rooted, Live
    <3>2. y.plan = p
      <4>1. r.parent.plan = p
        BY <2>1, <2>3, <2>8 DEF Placed
      <4> QED
        BY <1>2, <3>1, <4>1, KeyType
    <3>3. Copy(y, q) \in C
      BY <3>2 DEF C
    <3>4. KeyOf(Copy(y, q)) = x.parent
      BY <2>2, <2>8, <3>1, CopyShape
    <3> QED
      BY <3>3, <3>4 DEF Live
  <2> QED
    BY <2>1, <2>2, <2>6, <2>7, <2>8
<1>6. ASSUME NEW a \in C, NEW b \in C
      PROVE  /\ KeyOf(a) = KeyOf(b) => a.parent = b.parent /\ a.anc = b.anc
             /\ Follows(a, b)
  <2>1. PICK r \in S : /\ r \in rows /\ r \in Known /\ r \in Row /\ r.plan = p
                       /\ a = Copy(r, q)
    BY <1>4
  <2>2. PICK t \in S : /\ t \in rows /\ t \in Known /\ t \in Row /\ t.plan = p
                       /\ b = Copy(t, q)
    BY <1>4
  <2>3. /\ KeyOf(a) = Rekey(KeyOf(r), q)
        /\ a.parent = IF r.parent = NoRow THEN NoRow ELSE Rekey(r.parent, q)
        /\ a.anc = {Rekey(k, q) : k \in r.anc}
    BY <2>1, CopyShape
  <2>4. /\ KeyOf(b) = Rekey(KeyOf(t), q)
        /\ b.parent = IF t.parent = NoRow THEN NoRow ELSE Rekey(t.parent, q)
        /\ b.anc = {Rekey(k, q) : k \in t.anc}
    BY <2>2, CopyShape
  <2>5. \A k, l \in Key : k.plan = p /\ l.plan = p /\ Rekey(k, q) = Rekey(l, q) => k = l
    BY DEF Key, Rekey
  <2>6. /\ KeyOf(r) \in Key /\ KeyOf(r).plan = p
        /\ KeyOf(t) \in Key /\ KeyOf(t).plan = p
    BY <2>1, <2>2, KeyType
  <2>7. ASSUME KeyOf(a) = KeyOf(b) PROVE a.parent = b.parent /\ a.anc = b.anc
    <3>1. KeyOf(r) = KeyOf(t)
      BY <2>3, <2>4, <2>5, <2>6, <2>7
    <3>2. r.parent = t.parent /\ r.anc = t.anc
      BY <2>1, <2>2, <3>1, KnownFacts DEF Coherent
    <3> QED
      BY <2>3, <2>4, <3>2
  <2>8. ASSUME a.parent = KeyOf(b) PROVE a.anc = {KeyOf(b)} \union b.anc
    <3>1. KeyOf(b) # NoRow
      BY <1>5, KeyType
    <3>2. r.parent # NoRow /\ Rekey(r.parent, q) = Rekey(KeyOf(t), q)
      BY <2>3, <2>4, <2>8, <3>1
    <3>3. r.parent \in Key /\ r.parent.plan = p
      BY <2>1, <3>2, KnownFacts DEF Places, Placed
    <3>4. r.parent = KeyOf(t)
      BY <2>5, <2>6, <3>2, <3>3
    <3>5. r.anc = {KeyOf(t)} \union t.anc
      BY <2>1, <2>2, <3>4, KnownFacts DEF Coherent, Follows
    <3> QED
      BY <2>3, <2>4, <3>5
  <2> QED
    BY <2>7, <2>8 DEF Follows
<1>7. Coherent(K)
  <2>1. Coherent(Known) /\ Coherent(C)
    BY <1>6, KnownFacts DEF Coherent
  <2>2. ASSUME NEW a \in Known, NEW b \in C
        PROVE  /\ KeyOf(a) # KeyOf(b)
               /\ a.parent # KeyOf(b)
               /\ Follows(b, a)
    <3>1. a \in Row /\ b \in Row /\ b.plan = q /\ a.plan # q /\ Placed(a) /\ Placed(b)
      BY <1>3, <1>5, KnownFacts DEF Places
    <3>2. KeyOf(a).plan = a.plan /\ KeyOf(b).plan = q /\ KeyOf(b) # NoRow /\ KeyOf(a) # NoRow
      BY <3>1, KeyType
    <3>3. /\ a.parent # NoRow => a.parent.plan = a.plan
          /\ b.parent # NoRow => b.parent.plan = b.plan
      BY <3>1 DEF Placed
    <3> QED
      BY <3>1, <3>2, <3>3 DEF Follows
  <2> QED
    BY <2>1, <2>2, CoherentExtend
<1>8. /\ serial' \in [Plan -> Nat]
      /\ NeverLess(serial, serial')
      /\ status' \in [Plan -> {"unused", "live", "deleted"}]
  BY <1>1, <1>2 DEF NeverLess
<1>9. \A o \in Plan : status'[o] = "unused" => serial'[o] = 0
  BY <1>1, <1>2 DEF TreeInv, UnusedOK
<1>10. Places(K, serial')
  <2>1. TwinsOf(Known, Known)
    BY TwinSelf DEF TwinsOf
  <2>2. PICK ser2 : ser2 = serial'
    OBVIOUS
  <2>3. serial \in [Plan -> Nat] /\ ser2 \in [Plan -> Nat] /\ NeverLess(serial, ser2)
    BY <1>2, <1>8, <2>2
  <2>4. Known \subseteq Row /\ Places(Known, serial) /\ Coherent(Known)
    BY KnownFacts
  <2>5. Places(Known, serial')
    BY <2>1, <2>2, <2>3, <2>4, TwinsKeepPlaces
  <2> QED
    BY <1>5, <2>5 DEF Places
<1>11. rows' \subseteq Row /\ IsFiniteSet(rows')
  <2> DEFINE g == [r \in S |-> Copy(r, q)]
  <2> DEFINE I == {g[r] : r \in S}
  <2>1. IsFiniteSet(S)
    BY <1>2, FS_Subset
  <2>2. IsFiniteSet(I)
    <3> HIDE DEF g, S
    <3> QED
      BY <2>1, FiniteImage
  <2>3. I = C
    BY DEF C
  <2>4. IsFiniteSet(rows \union C)
    BY <1>2, <2>2, <2>3, FS_Union
  <2> QED
    BY <1>1, <1>2, <1>5, <2>4
<1>12. Rooted(rows')
  BY <1>1, <1>2, <1>5 DEF Rooted, Live
<1>13. \A x \in rows' : WellSkipped(x) /\ \E y \in K : Twin(x, y)
  BY <1>1, <1>5, KnownFacts, TwinSelf DEF WellSkipped
<1>14. /\ K \subseteq Row /\ Known \subseteq K
  BY <1>5, KnownFacts
<1>15. /\ optional' \subseteq Section \intersect Skippable /\ repeatable' \subseteq Section
       /\ req' \in [Worker -> Request_]
       /\ \A v \in Worker : req'[v] = req[v]
  BY <1>1 DEF TreeInv, TypeOK, SkipsOK
<1> HIDE DEF K
<1> QED
  BY <1>7, <1>8, <1>9, <1>10, <1>11, <1>12, <1>13, <1>14, <1>15, Step

LEMMA EditStep ==
    ASSUME TreeInv, NEW s \in Section, EditOptional(s) \/ EditRepeatable(s)
    PROVE  TreeInv'
<1>1. /\ UNCHANGED <<status, rows, serial, req>>
      /\ optional' \subseteq Section \intersect Skippable /\ repeatable' \subseteq Section
  BY DEF EditOptional, EditRepeatable, TreeInv, TypeOK, SkipsOK, Skippable
<1>2. /\ status' \in [Plan -> {"unused", "live", "deleted"}]
      /\ rows' \subseteq Row /\ IsFiniteSet(rows') /\ Rooted(rows')
  BY <1>1 DEF TreeInv, TypeOK, ParentsLive
<1>3. \A x \in rows' : WellSkipped(x) /\ \E y \in Known : Twin(x, y)
  BY <1>1, KnownFacts, TwinSelf
<1> QED
  BY <1>1, <1>2, <1>3, SameRequests, StepOfTwins DEF SoundRequests

-----------------------------------------------------------------------------
(***************************************************************************)
(* The theorems                                                            *)
(***************************************************************************)
LEMMA TreeInit == Init => TreeInv
<1> SUFFICES ASSUME Init PROVE TreeInv
  OBVIOUS
<1>1. Known = {}
  BY DEF Init, Known, Held, Idle
<1>2. TypeOK
  BY FlagAssumption DEF Init, TypeOK, Idle, Request_, PC, Result
<1>3. IsFiniteSet(rows)
  BY FS_EmptySet DEF Init
<1>4. PlacesOK /\ AncestorsOK /\ ParentsLive
  BY <1>1 DEF Init, PlacesOK, AncestorsOK, ParentsLive, Coherent, Rooted
<1>5. SkipsOK
  BY <1>1 DEF Init, SkipsOK, Skippable, Idle
<1>6. RequestsOK /\ UnusedOK
  BY DEF Init, RequestsOK, UnusedOK, Idle
<1> QED
  BY <1>2, <1>3, <1>4, <1>5, <1>6 DEF TreeInv

LEMMA TreeStep == TreeInv /\ [Next]_vars => TreeInv'
<1> SUFFICES ASSUME TreeInv, [Next]_vars PROVE TreeInv'
  OBVIOUS
<1>1. CASE \E p \in Plan : CreatePlan(p) \/ DeletePlan(p) \/ AddMissingAnswersets(p)
  BY <1>1, CreatePlanStep, DeletePlanStep, AddMissingStep
<1>2. CASE \E p, q \in Plan : ClonePlan(p, q)
  BY <1>2, ClonePlanStep
<1>3. CASE \E r \in rows : FixChildren(r)
  BY <1>3, FixChildrenStep
<1>4. CASE \E s \in Section : EditOptional(s) \/ EditRepeatable(s)
  BY <1>4, EditStep
<1>5. CASE \E w \in Worker : Request(w)
  BY <1>5, RequestStep
<1>6. CASE \E w \in Worker, r \in rows : NewRequest(w, r)
  BY <1>6, NewRequestStep
<1>7. CASE UNCHANGED vars
  BY <1>7, SameRequests, QuietRequest DEF vars
<1> QED
  BY <1>1, <1>2, <1>3, <1>4, <1>5, <1>6, <1>7 DEF Next

(* The inductive invariant holds of every behaviour.                       *)
THEOREM TreeInvariant == Spec => []TreeInv
  BY TreeInit, TreeStep, PTL DEF Spec

(* The variables keep their types: in particular every identifier save()   *)
(* and clone() compute is a positive number or a name.                     *)
THEOREM TypeCorrect == Spec => []TypeOK
<1>1. TreeInv => TypeOK
  BY DEF TreeInv
<1> QED
  BY <1>1, TreeInvariant, PTL

(* Whatever requests, copies, repairs, deletions and late saves interleave *)
(* for any number of plans and workers and any tree of sections, the rows  *)
(* of a plan stay arranged as its sections are: no orphan, no row under    *)
(* another plan or under a row of the wrong section.                       *)
THEOREM TreeStaysConsistent == Spec => []TreeConsistent
<1>1. ASSUME TreeInv PROVE TreeConsistent
  <2> SUFFICES ASSUME NEW r \in rows
               PROVE  IF Super[r.section] = NoSection THEN r.parent = NoRow
                      ELSE \E x \in rows : /\ KeyOf(x) = r.parent
                                           /\ x.plan = r.plan
                                           /\ x.section = Super[r.section]
    BY DEF TreeConsistent
  <2>1. Placed(r)
    BY <1>1, KnownFacts DEF Places
  <2>2. CASE Super[r.section] = NoSection
    BY <2>1, <2>2 DEF Placed
  <2>3. CASE Super[r.section] # NoSection
    <3>1. r.parent \in Key /\ r.parent.plan = r.plan /\ r.parent.section = Super[r.section]
      BY <2>1, <2>3 DEF Placed
    <3>2. PICK x \in rows : KeyOf(x) = r.parent
      BY <1>1, <3>1, ModelValueAssumption DEF TreeInv, ParentsLive, Rooted, Live
    <3>3. x.plan = r.plan /\ x.section = Super[r.section]
      BY <1>1, <3>1, <3>2, KeyType DEF TreeInv, TypeOK
    <3> QED
      BY <2>3, <3>2, <3>3
  <2> QED
    BY <2>2, <2>3
<1> QED
  BY <1>1, TreeInvariant, PTL

(* A row of a section that never was optional never gets skipped, by       *)
(* whatever path: creation, removal, validation or a stale copy written    *)
(* back after the section's flag has changed.                              *)
THEOREM SkipsStayOptional == Spec => []OnlyOptionalSkipped
<1>1. ASSUME TreeInv PROVE OnlyOptionalSkipped
  BY <1>1, KnownFacts DEF OnlyOptionalSkipped, WellSkipped, Skippable
<1> QED
  BY <1>1, TreeInvariant, PTL

-----------------------------------------------------------------------------
(***************************************************************************)
(* What fix_answersets keeps of a group of siblings, and how it leaves it. *)
(***************************************************************************)
LEMMA KeptOfGroup ==
    ASSUME NEW G, G \subseteq Row, IsFiniteSet(G), NEW s
    PROVE  /\ Kept(G, s) \subseteq G
           /\ G # {} => Kept(G, s) # {}
           /\ \A r \in G \ Kept(G, s) : r.skipped \/ ~r.filled
           /\ \A r \in Kept(G, s) : r.skipped => Kept(G, s) = {r}
<1> DEFINE unskipped == {r \in G : ~r.skipped}
           left == Purged(G)
           filled == {r \in left : r.filled}
<1>1. /\ left \subseteq G
      /\ G # {} => left # {}
      /\ \A r \in G \ left : r.skipped
      /\ \A r \in left : r.skipped => left = {r}
  <2>1. CASE unskipped # {} \/ G = {}
    BY <2>1 DEF Purged
  <2>2. CASE unskipped = {} /\ G # {}
    <3>1. left = {FirstOf(G)} /\ FirstOf(G) \in G
      BY <2>2, FirstOfRow DEF Purged
    <3> QED
      BY <2>2, <3>1
  <2> QED
    BY <2>1, <2>2
<1>2. left \subseteq Row /\ IsFiniteSet(left)
  BY <1>1, FS_Subset
<1>3. Kept(G, s) = IF s \in repeatable \/ Cardinality(left) <= 1 THEN left
                   ELSE IF filled # {} THEN filled ELSE {FirstOf(left)}
  BY DEF Kept
<1> HIDE DEF left
<1>4. CASE s \in repeatable \/ Cardinality(left) <= 1
  BY <1>1, <1>3, <1>4
<1>5. CASE ~(s \in repeatable \/ Cardinality(left) <= 1)
  <2>1. left # {}
    <3>1. Cardinality({}) = 0
      BY FS_EmptySet
    <3> QED
      BY <1>5, <3>1
  <2>2. FirstOf(left) \in left
    BY <1>2, <2>1, FirstOfRow
  <2>3. ASSUME NEW r \in left PROVE ~r.skipped
    <3>1. r.skipped => Cardinality(left) = 1
      BY <1>1, FS_Singleton
    <3> QED
      BY <1>5, <3>1
  <2>4. CASE filled # {}
    BY <1>1, <1>3, <1>5, <2>3, <2>4
  <2>5. CASE filled = {}
    BY <1>1, <1>3, <1>5, <2>2, <2>3, <2>5
  <2> QED
    BY <2>4, <2>5
<1> QED
  BY <1>4, <1>5

(* The rows a repair removes, and what it makes of the others.             *)
Doomed(R, slots) ==
    UNION {Siblings(R, slot) \ Kept(Siblings(R, slot), slot.section) : slot \in slots}
Fixed(R, slots, r) ==
    IF SlotOf(r) \in slots /\ Converts(r)
    THEN [Unskipped(r) EXCEPT !.ident = GetIdentifier(R, r)] ELSE r

LEMMA AfterFixRows ==
    ASSUME NEW R, NEW slots
    PROVE  AfterFix(R, slots) = {Fixed(R, slots, r) : r \in R \ Cascade(R, Doomed(R, slots))}
  BY DEF AfterFix, Fixed, Doomed

LEMMA FixedRow ==
    ASSUME NEW R, NEW slots, NEW r \in Row
    PROVE  LET x == Fixed(R, slots, r)
           IN  /\ Twin(x, r) /\ SlotOf(x) = SlotOf(r)
               /\ x.filled = r.filled
               /\ x.skipped => r.skipped
               /\ SlotOf(r) \in slots /\ x.skipped => r.section \in optional
               /\ SlotOf(r) \notin slots => x = r
<1> DEFINE y == [Unskipped(r) EXCEPT !.ident = GetIdentifier(R, r)]
<1>1. /\ y.plan = r.plan /\ y.serial = r.serial /\ y.section = r.section
      /\ y.parent = r.parent /\ y.anc = r.anc /\ y.filled = r.filled /\ ~y.skipped
  BY DEF Row, Unskipped
<1>2. Fixed(R, slots, r) = IF SlotOf(r) \in slots /\ Converts(r) THEN y ELSE r
  BY DEF Fixed
<1> HIDE DEF y
<1> QED
  BY <1>1, <1>2 DEF Twin, KeyOf, SlotOf, Converts

(* Nobody is under a sibling: the sections above are not the section.      *)
LEMMA SiblingsApart ==
    ASSUME NEW r \in Row, NEW d \in Row, Placed(r), r.section = d.section
    PROVE  KeyOf(d) \notin r.anc
<1>1. r.section \in Section /\ KeyOf(d).section = d.section
  BY KeyType DEF Row
<1> QED
  BY <1>1, TreeAssumption DEF Placed

(* The group of one slot that was repaired alone.                          *)
LEMMA RepairedGroup ==
    ASSUME NEW R, R \subseteq Row, IsFiniteSet(R), \A r \in R : Placed(r), NEW slot
    PROVE  Siblings(AfterFix(R, {slot}), slot)
             = {Fixed(R, {slot}, r) : r \in Kept(Siblings(R, slot), slot.section)}
<1> DEFINE G == Siblings(R, slot)
           keep == Kept(G, slot.section)
<1>1. G \subseteq R /\ IsFiniteSet(G) /\ keep \subseteq G
  BY FS_Subset, KeptOfGroup DEF Siblings
<1>2. Doomed(R, {slot}) = G \ keep
  BY DEF Doomed
<1>3. \A r \in G : r.section = slot.section /\ SlotOf(r) = slot
  BY DEF Siblings, SlotOf
<1>4. ASSUME NEW r \in R, SlotOf(r) = slot
      PROVE  r \in Cascade(R, Doomed(R, {slot})) <=> r \notin keep
  <2>1. r \in G
    BY <1>4 DEF Siblings
  <2>2. \A d \in G : KeyOf(d) \notin r.anc
    BY <1>1, <1>3, <2>1, SiblingsApart
  <2> HIDE DEF keep, G
  <2> QED
    BY <1>2, <2>1, <2>2 DEF Cascade
<1>5. \A r \in R : SlotOf(Fixed(R, {slot}, r)) = SlotOf(r)
  BY FixedRow
<1> HIDE DEF keep, G
<1>6. ASSUME NEW x
      PROVE  x \in Siblings(AfterFix(R, {slot}), slot)
               <=> x \in {Fixed(R, {slot}, r) : r \in keep}
  BY <1>1, <1>3, <1>4, <1>5, AfterFixRows DEF Siblings
<1> QED
  BY <1>6 DEF keep, G

(* A set of at most one element, seen from that element.                   *)
LEMMA AtMostOne ==
    ASSUME NEW S, IsFiniteSet(S), Cardinality(S) <= 1, NEW x \in S
    PROVE  S = {x}
<1>1. /\ IsFiniteSet(S \ {x})
      /\ Cardinality(S \ {x}) = Cardinality(S) - 1
  BY FS_RemoveElement
<1>2. Cardinality(S) \in Nat /\ Cardinality(S \ {x}) \in Nat
  BY <1>1, FS_CardinalityType
<1>3. Cardinality(S \ {x}) = 0
  BY <1>1, <1>2
<1>4. S \ {x} = {}
  BY <1>1, <1>3, FS_EmptySet
<1> QED
  BY <1>4

LEMMA OneElement ==
    ASSUME NEW x
    PROVE  Cardinality({x}) = 1
  BY FS_Singleton

-----------------------------------------------------------------------------
(***************************************************************************)
(* fix_answersets leaves the group it ran on in order.                     *)
(***************************************************************************)
FixPossibleAt(slot) ==
    /\ slot.parent = NoRow \/ Live(rows, slot.parent)
    /\ FixPossible(rows, {slot})

(* A group that had rows: what was kept of it, repaired.                   *)
LEMMA RepairKeepsOrder ==
    ASSUME TreeInv, NEW slot, Siblings(rows, slot) # {},
           FixPossibleAt(slot), Repair(slot.plan, {slot})
    PROVE  InOrder(Siblings(rows', slot), slot.section)
<1> DEFINE G == Siblings(rows, slot)
           keep == Kept(G, slot.section)
           left == AfterFix(rows, {slot})
<1>1. Missing(rows, {slot}) = {}
  BY DEF Missing
<1>2. rows' = left
  BY <1>1 DEF Repair, NewRows
<1>3. rows \subseteq Row /\ IsFiniteSet(rows) /\ \A r \in rows : Placed(r)
  BY KnownFacts DEF TreeInv, Places
<1>4. G \subseteq Row /\ IsFiniteSet(G) /\ G # {} /\ \A r \in G : r.section = slot.section
                                                               /\ SlotOf(r) = slot
  BY <1>3, FS_Subset DEF Siblings, SlotOf
<1>5. Siblings(left, slot) = {Fixed(rows, {slot}, r) : r \in keep}
  BY <1>3, RepairedGroup
<1>6. /\ keep \subseteq G
      /\ keep # {}
      /\ \A r \in keep : r.skipped => keep = {r}
  BY <1>4, KeptOfGroup
<1>7. slot.section \notin repeatable => Cardinality(keep) <= 1
  <2>1. ~Ambiguous(G, slot.section)
    BY DEF FixPossibleAt, FixPossible
  <2>2. IsFiniteSet(keep)
    BY <1>4, <1>6, FS_Subset
  <2>3. Cardinality(keep) \in Nat
    BY <2>2, FS_CardinalityType
  <2> HIDE DEF keep
  <2> QED
    BY <2>1, <2>3 DEF Ambiguous, keep
<1>8. IsFiniteSet(keep)
  BY <1>4, <1>6, FS_Subset
<1>9. \A r \in keep : LET x == Fixed(rows, {slot}, r)
                      IN  x.skipped => r.skipped /\ slot.section \in optional
  BY <1>4, <1>6, FixedRow
<1> HIDE DEF G, keep, left
<1>10. \A x : keep = {x} => Cardinality(Siblings(left, slot)) = 1
  <2> SUFFICES ASSUME NEW x, keep = {x} PROVE Cardinality(Siblings(left, slot)) = 1
    OBVIOUS
  <2>1. Siblings(left, slot) = {Fixed(rows, {slot}, x)}
    BY <1>5
  <2> QED
    BY <2>1, OneElement
<1>11. slot.section \notin repeatable => Cardinality(Siblings(left, slot)) = 1
  BY <1>6, <1>7, <1>8, <1>10, AtMostOne
<1>12. ASSUME NEW x \in Siblings(left, slot), x.skipped
       PROVE  slot.section \in optional /\ Cardinality(Siblings(left, slot)) = 1
  BY <1>5, <1>6, <1>9, <1>10, <1>12
<1>13. Siblings(left, slot) # {}
  BY <1>5, <1>6
<1> QED
  BY <1>2, <1>11, <1>12, <1>13 DEF InOrder

(* An empty group: the row that was missing.                               *)
LEMMA RepairFillsGroup ==
    ASSUME TreeInv, NEW slot, slot \in Slot, Siblings(rows, slot) = {},
           FixPossibleAt(slot), Repair(slot.plan, {slot})
    PROVE  InOrder(Siblings(rows', slot), slot.section)
<1> DEFINE left == AfterFix(rows, {slot})
<1>1. rows \subseteq Row /\ IsFiniteSet(rows) /\ \A r \in rows : Placed(r)
  BY KnownFacts DEF TreeInv, Places
<1>2. Kept({}, slot.section) = {}
  BY KeptOfGroup, FS_EmptySet
<1>3. Doomed(rows, {slot}) = {}
  BY DEF Doomed
<1>4. Cascade(rows, {}) = {}
  BY DEF Cascade
<1>5. left = {Fixed(rows, {slot}, r) : r \in rows}
  BY <1>3, <1>4, AfterFixRows
<1>6. Siblings(left, slot) = {}
  <2>1. Siblings(left, slot)
          = {Fixed(rows, {slot}, r) : r \in Kept(Siblings(rows, slot), slot.section)}
    BY <1>1, RepairedGroup
  <2> HIDE DEF left
  <2> QED
    BY <1>2, <2>1
<1>7. slot.parent = NoRow \/ Live(left, slot.parent)
  <2>1. \A r \in rows : KeyOf(Fixed(rows, {slot}, r)) = KeyOf(r)
    BY <1>1, FixedRow DEF Twin
  <2> QED
    BY <1>5, <2>1 DEF FixPossibleAt, Live
<1>8. Missing(rows, {slot}) = {slot}
  BY <1>7 DEF Missing
<1>9. PICK f \in Numberings({slot}, serial[slot.plan]) :
          rows' = left \union NewRows(left, {slot}, f, "get")
  BY <1>8 DEF Repair
<1> DEFINE new(d) == NewRow(left, {slot}, f, "get", slot, d)
<1>10. \A d : new(d).section = d /\ new(d).plan = slot.plan
  BY DEF NewRow
<1>11. new(slot.section).parent = slot.parent /\ ~new(slot.section).skipped
  BY DEF NewRow, BornSkipped
<1>12. slot.section \in Section
  BY DEF Slot
<1>13. NewRows(left, {slot}, f, "get") = {new(d) : d \in Tree(slot.section)}
  BY DEF NewRows
<1>14. slot.section \in Tree(slot.section)
  BY <1>12 DEF Tree
<1> HIDE DEF new, left
<1>15. SlotOf(new(slot.section)) = slot
  BY <1>10, <1>11 DEF SlotOf, Slot
<1>16. \A d : SlotOf(new(d)) = slot => d = slot.section
  BY <1>10 DEF SlotOf
<1>17. \A r \in left : SlotOf(r) # slot
  BY <1>6 DEF Siblings
<1>18. Siblings(rows', slot) = {new(slot.section)}
  BY <1>9, <1>13, <1>14, <1>15, <1>16, <1>17 DEF Siblings
<1> QED
  BY <1>11, <1>18, OneElement DEF InOrder

LEMMA FixOrders ==
    ASSUME TreeInv, NEW w \in Worker, req[w].pc # "idle", NEW next, next # "idle",
           Fix(w, next), req'[w].result # "refused"
    PROVE  InOrder(Siblings(rows', SlotOf(req[w].row)), req[w].row.section)
<1> DEFINE slot == SlotOf(req[w].row)
<1>1. ~Refused(w)
  BY DEF Refused, Finish, Idle, TreeInv, TypeOK
<1>2. FixPossibleAt(slot) /\ Repair(slot.plan, {slot})
  BY <1>1 DEF Fix, FixPossibleAt
<1>3. slot \in Slot /\ slot.section = req[w].row.section
  BY BusyRow, SlotInPlace DEF InPlace
<1> HIDE DEF slot
<1>4. InOrder(Siblings(rows', slot), slot.section)
  BY <1>2, <1>3, RepairKeepsOrder, RepairFillsGroup
<1> QED
  BY <1>3, <1>4 DEF slot

(* A request that is under way has no result yet.                          *)
ResultsOK == \A w \in Worker : req[w].pc # "idle" => req[w].result = "none"

(* A step of a worker is about its own request, and either ends it, starts *)
(* it or takes it further.                                                 *)
LEMMA OwnRequest ==
    ASSUME TreeInv, ResultsOK, NEW w \in Worker,
           Request(w) \/ \E r \in rows : NewRequest(w, r)
    PROVE  /\ \A v \in Worker \ {w} : req'[v] = req[v]
           /\ req'[w].pc # "idle" => req'[w].result = "none"
<1>1. req \in [Worker -> Request_]
  BY DEF TreeInv, TypeOK
<1>2. ASSUME NEW q, req' = [req EXCEPT ![w] = q], q.pc # "idle" => q.result = "none"
      PROVE  /\ \A v \in Worker \ {w} : req'[v] = req[v]
             /\ req'[w].pc # "idle" => req'[w].result = "none"
  BY <1>1, <1>2
<1>3. ASSUME NEW result, Finish(w, result)
      PROVE  \E q : req' = [req EXCEPT ![w] = q] /\ (q.pc # "idle" => q.result = "none")
  <2>1. [Idle EXCEPT !.result = result].pc = "idle"
    BY DEF Idle
  <2> QED
    BY <1>3, <2>1 DEF Finish
<1>4. ASSUME req[w].pc # "idle", NEW pc, Goto(w, pc)
      PROVE  \E q : req' = [req EXCEPT ![w] = q] /\ (q.pc # "idle" => q.result = "none")
  <2>1. req' = [req EXCEPT ![w] = [req[w] EXCEPT !.pc = pc]]
    BY <1>1, <1>4 DEF Goto
  <2>2. [req[w] EXCEPT !.pc = pc].result = "none"
    BY <1>1, <1>4 DEF ResultsOK, Request_
  <2> QED
    BY <2>1, <2>2
<1>5. ASSUME NEW r \in rows, NewRequest(w, r)
      PROVE  \E q : req' = [req EXCEPT ![w] = q] /\ (q.pc # "idle" => q.result = "none")
  BY <1>5 DEF NewRequest, AddAnswerSet, AdminAddSibling, RemoveAnswerSet, Answer,
              Validate, Load
<1>6. ASSUME NEW next, req[w].pc # "idle", Fix(w, next)
      PROVE  \E q : req' = [req EXCEPT ![w] = q] /\ (q.pc # "idle" => q.result = "none")
  BY <1>3, <1>4, <1>6 DEF Fix, Refused
<1>7. ASSUME NEW r, SaveRow(w, r)
      PROVE  \E q : req' = [req EXCEPT ![w] = q] /\ (q.pc # "idle" => q.result = "none")
  BY <1>3, <1>7 DEF SaveRow, Refused
<1>8. ASSUME AddSibling(w)
      PROVE  \E q : req' = [req EXCEPT ![w] = q] /\ (q.pc # "idle" => q.result = "none")
  <2>1. req[w].result = "none" /\ req[w] \in Request_
    BY <1>1, <1>8 DEF AddSibling, ResultsOK
  <2>2. ASSUME NEW x, req' = [req EXCEPT ![w].pc = "unskip", ![w].row = x]
        PROVE  \E q : req' = [req EXCEPT ![w] = q] /\ (q.pc # "idle" => q.result = "none")
    <3>1. req' = [req EXCEPT ![w] = [req[w] EXCEPT !.pc = "unskip", !.row = x]]
      BY <1>1, <2>2
    <3>2. [req[w] EXCEPT !.pc = "unskip", !.row = x].result = "none"
      BY <2>1 DEF Request_
    <3> QED
      BY <3>1, <3>2
  <2>3. ASSUME NEW n, req' = [req EXCEPT ![w].pc = "create", ![w].row.ident = n]
        PROVE  \E q : req' = [req EXCEPT ![w] = q] /\ (q.pc # "idle" => q.result = "none")
    <3> DEFINE q == [req[w] EXCEPT !.pc = "create", !.row = [req[w].row EXCEPT !.ident = n]]
    <3>1. req' = [req EXCEPT ![w] = q]
      BY <1>1, <2>1, <2>3 DEF Request_
    <3>2. q.result = "none"
      BY <2>1 DEF Request_
    <3> QED
      BY <3>1, <3>2
  <2> QED
    BY <1>3, <1>8, <2>2, <2>3 DEF AddSibling
<1>9. ASSUME Request(w)
      PROVE  \E q : req' = [req EXCEPT ![w] = q] /\ (q.pc # "idle" => q.result = "none")
  <2>1. CASE AddFix(w) \/ RemoveFix(w)
    BY <1>6, <2>1 DEF AddFix, RemoveFix
  <2>2. CASE AddSibling(w)
    BY <1>8, <2>2
  <2>3. CASE AddUnskip(w) \/ RemoveConvert(w)
    BY <1>7, <2>3 DEF AddUnskip, RemoveConvert
  <2>4. CASE AnswerSave(w)
    BY <1>7, <2>4 DEF AnswerSave
  <2>5. CASE AddCreate(w) \/ ValidateSave(w)
    BY <1>3, <2>5 DEF AddCreate, ValidateSave, Refused
  <2>6. CASE RemoveCount(w)
    BY <1>4, <2>6 DEF RemoveCount
  <2>7. CASE RemoveDelete(w) \/ AnswerUnchanged(w) \/ Crash(w)
    BY <1>3, <2>7 DEF RemoveDelete, AnswerUnchanged, Crash
  <2> QED
    BY <1>9, <2>1, <2>2, <2>3, <2>4, <2>5, <2>6, <2>7 DEF Request
<1> QED
  BY <1>2, <1>5, <1>9

(* The steps that are no step of a worker leave every request alone.       *)
LEMMA WhoseStep ==
    ASSUME [Next]_vars
    PROVE  \/ UNCHANGED req
           \/ \E w \in Worker : Request(w) \/ \E r \in rows : NewRequest(w, r)
  BY DEF Next, vars, CreatePlan, DeletePlan, AddMissingAnswersets, ClonePlan, FixChildren,
         EditOptional, EditRepeatable

LEMMA ResultsStep == TreeInv /\ ResultsOK /\ [Next]_vars => ResultsOK'
<1> SUFFICES ASSUME TreeInv, ResultsOK, [Next]_vars PROVE ResultsOK'
  OBVIOUS
<1>1. CASE UNCHANGED req
  BY <1>1 DEF ResultsOK
<1>2. CASE \E w \in Worker : Request(w) \/ \E r \in rows : NewRequest(w, r)
  BY <1>2, OwnRequest DEF ResultsOK
<1> QED
  BY <1>1, <1>2, WhoseStep

LEMMA ResultsInvariant == Spec => [](TreeInv /\ ResultsOK)
<1>1. Init => ResultsOK
  BY DEF Init, ResultsOK, Idle
<1> QED
  BY <1>1, ResultsStep, TreeInvariant, PTL DEF Spec

(* fix_answersets, run by the first transaction of a request to add or to  *)
(* remove a row, leaves the siblings of that row in order: some row, one   *)
(* if the section is not repeatable, and none skipped next to another,     *)
(* whatever other requests did before.                                     *)
THEOREM FixesLeaveOrder == Spec => FixLeavesOrder
<1> DEFINE Ordered(w) == InOrder(Siblings(rows', SlotOf(req[w].row)), req[w].row.section)
<1>1. ASSUME TreeInv, ResultsOK, [Next]_vars, NEW w \in Worker, FixDone(w)
      PROVE  Ordered(w)
  <2>1. req[w].pc \in {"add_fix", "remove_fix"} /\ req[w].result = "none" /\ req[w].pc # "idle"
    BY <1>1 DEF FixDone, ResultsOK
  <2>2. req'[w] # req[w]
    BY <1>1, <2>1 DEF FixDone
  <2>3. Request(w) \/ \E r \in rows : NewRequest(w, r)
    BY <1>1, <2>2, WhoseStep, OwnRequest
  <2>4. ~Crash(w)
    <3>1. Crash(w) => req'[w].pc = "idle" /\ req'[w].result = "none"
      BY <1>1 DEF Crash, Finish, Idle, TreeInv, TypeOK
    <3> QED
      BY <1>1, <3>1 DEF FixDone
  <2>5. Fix(w, "add_last") \/ Fix(w, "remove_count")
    BY <2>1, <2>3, <2>4
    DEF Request, NewRequest, AddFix, AddSibling, AddUnskip, AddCreate, RemoveFix, RemoveCount,
        RemoveConvert, RemoveDelete, AnswerSave, AnswerUnchanged, ValidateSave,
        AddAnswerSet, AdminAddSibling, RemoveAnswerSet, Answer, Validate, Load
  <2>6. req'[w].result # "refused"
    <3>1. req'[w].pc # "idle" => req'[w].result = "none"
      BY <1>1, <2>3, OwnRequest
    <3> QED
      BY <1>1, <3>1 DEF FixDone
  <2> QED
    BY <1>1, <2>1, <2>5, <2>6, FixOrders
<1>2. TreeInv /\ ResultsOK /\ [Next]_vars => [\A w \in Worker : FixDone(w) => Ordered(w)]_vars
  BY <1>1
<1> QED
  BY <1>2, ResultsInvariant, PTL DEF Spec, FixLeavesOrder

-----------------------------------------------------------------------------
(***************************************************************************)
(* Requests that do not overlap: one worker.  Then the copy a worker holds *)
(* agrees with the row it was loaded from, but for a skipped flag that     *)
(* fix_children may have dropped since, and a copy whose row is gone can   *)
(* be inserted again only for a section that may repeat, or not at all.    *)
(***************************************************************************)
OneWorker == \A v, w \in Worker : v = w

Repeats == RepeatableAtFirst \union Editable

KeysUnique == \A a, b \in rows : KeyOf(a) = KeyOf(b) => a = b

(* The row is there, or cannot be inserted again.                          *)
NotRevived(r, R) ==
    \/ Live(R, KeyOf(r))
    \/ r.parent # NoRow /\ ~Live(R, r.parent)

(* The copy a worker holds against the row it was loaded from.             *)
CopyFresh(q, R) ==
    /\ \A r \in R : KeyOf(r) = KeyOf(q.row) =>
          r.filled = q.row.filled /\ (r.skipped => q.row.skipped)
    /\ q.row.skipped => ~q.row.filled
    /\ q.pc = "unskip" => q.row.skipped

CopyPlaced(q, R, st) ==
    /\ q.pc \in {"unskip", "create", "remove_count", "convert", "delete"}
          => q.row.section \in Repeats
    /\ q.row.section \notin Repeats /\ st[q.row.plan] = "live" => NotRevived(q.row, R)

(* Another row of a top-level section stays when one is to be deleted.     *)
OtherLeft(q, R, st) ==
    q.pc = "delete" /\ st[q.row.plan] = "live" /\ Super[q.row.section] = NoSection =>
        \E r \in R : /\ r.plan = q.row.plan /\ r.section = q.row.section
                     /\ KeyOf(r) # KeyOf(q.row)

CopyOK(q, R, st) == CopyFresh(q, R) /\ CopyPlaced(q, R, st) /\ OtherLeft(q, R, st)
HeldOK == \A w \in Worker : req[w].pc # "idle" => CopyOK(req[w], rows, status)

SoloInv ==
    /\ KeysUnique
    /\ repeatable \subseteq Repeats
    /\ SkippedHoldsNoAnswers
    /\ SingletonHasOneRow
    /\ SectionsKeepRows
    /\ HeldOK

(***************************************************************************)
(* How repairs and creations change the rows: L is what is left of the     *)
(* rows there were, N the new ones.                                        *)
(***************************************************************************)
Keeps(x, y) == Twin(x, y) /\ x.filled = y.filled /\ (x.skipped => ~y.filled)

(* Only rows without answers go, with what is under them, and a row that   *)
(* has no siblings to make up for it goes only with its parent.            *)
Discarded(L, y) ==
    /\ y.filled => \E d \in rows : KeyOf(d) \in y.anc /\ ~d.filled /\ ~Live(L, KeyOf(d))
    /\ y.section \notin Repeats => y.parent # NoRow /\ ~Live(L, y.parent)

Trimmed(L) ==
    /\ \A x \in L : \E y \in rows : Keeps(x, y)
    /\ \A a, b \in L : KeyOf(a) = KeyOf(b) => a = b
    /\ \A y \in rows : ~Live(L, KeyOf(y)) => Discarded(L, y)

Unknown(N) == \A x \in N, y \in Known : KeyOf(x) # KeyOf(y) /\ KeyOf(x) # y.parent

Fresh(N, L) ==
    /\ Unknown(N)
    /\ \A x \in N : x.skipped => ~x.filled
    /\ \A a, b \in N : KeyOf(a) = KeyOf(b) => a = b
    /\ \A a \in N : a.section \notin Repeats =>
          /\ \A b \in N : SlotOf(a) = SlotOf(b) => a = b
          /\ \A b \in L : SlotOf(a) # SlotOf(b)

(* No answers are lost but under a row that held none and is gone.         *)
NothingLost ==
    \A r \in rows :
        r.filled /\ (\A x \in rows' : KeyOf(x) = KeyOf(r) => ~x.filled) =>
            \E a \in rows : KeyOf(a) \in r.anc /\ ~a.filled /\ ~Live(rows', KeyOf(a))

LEMMA SameSlot ==
    ASSUME NEW x, NEW y, Twin(x, y)
    PROVE  SlotOf(x) = SlotOf(y)
  BY DEF Twin, SlotOf

LEMMA KnownKeys ==
    ASSUME TreeInv, NEW L, NEW N, Fresh(N, L), rows' = L \union N, NEW y \in Known
    PROVE  /\ Live(rows', KeyOf(y)) <=> Live(L, KeyOf(y))
           /\ Live(rows', y.parent) <=> Live(L, y.parent)
  BY DEF Fresh, Unknown, Live

LEMMA GrowRows ==
    ASSUME TreeInv, SoloInv, NEW L, NEW N, Trimmed(L), Fresh(N, L), rows' = L \union N
    PROVE  KeysUnique' /\ SkippedHoldsNoAnswers' /\ SingletonHasOneRow' /\ NothingLost
<1>1. rows \subseteq Known
  BY KnownFacts
<1>2. \A a \in L, b \in N : KeyOf(a) # KeyOf(b)
  BY <1>1 DEF Trimmed, Fresh, Unknown, Keeps, Twin
<1>3. KeysUnique'
  BY <1>2 DEF KeysUnique, Trimmed, Fresh
<1>4. SkippedHoldsNoAnswers'
  BY DEF SkippedHoldsNoAnswers, Trimmed, Fresh, Keeps
<1>5. ASSUME NEW a \in rows', NEW b \in rows', SlotOf(a) = SlotOf(b), a.section \notin Repeats
      PROVE  a = b
  <2>1. b.section \notin Repeats
    BY <1>5 DEF SlotOf
  <2>2. CASE a \in N \/ b \in N
    BY <1>5, <2>1, <2>2 DEF Fresh
  <2>3. CASE a \in L /\ b \in L
    <3>1. PICK x \in rows : Keeps(a, x)
      BY <2>3 DEF Trimmed
    <3>2. PICK y \in rows : Keeps(b, y)
      BY <2>3 DEF Trimmed
    <3>3. SlotOf(x) = SlotOf(y) /\ x.section \notin Repeats
      BY <1>5, <3>1, <3>2, SameSlot DEF Keeps, Twin
    <3>4. x = y
      BY <3>3 DEF SoloInv, SingletonHasOneRow, Repeats
    <3> QED
      BY <2>3, <3>1, <3>2, <3>4 DEF Keeps, Twin, Trimmed
  <2> QED
    BY <2>2, <2>3
<1>6. SingletonHasOneRow'
  BY <1>5 DEF SingletonHasOneRow, Repeats
<1>7. ASSUME NEW r \in rows, r.filled, \A x \in rows' : KeyOf(x) = KeyOf(r) => ~x.filled
      PROVE  \E a \in rows : KeyOf(a) \in r.anc /\ ~a.filled /\ ~Live(rows', KeyOf(a))
  <2>1. ~Live(L, KeyOf(r))
    <3> SUFFICES ASSUME NEW x \in L, KeyOf(x) = KeyOf(r) PROVE FALSE
      BY DEF Live
    <3>1. PICK y \in rows : Keeps(x, y)
      BY DEF Trimmed
    <3>2. y = r
      BY <3>1 DEF Keeps, Twin, SoloInv, KeysUnique
    <3> QED
      BY <1>7, <3>1, <3>2 DEF Keeps
  <2>2. PICK a \in rows : KeyOf(a) \in r.anc /\ ~a.filled /\ ~Live(L, KeyOf(a))
    BY <1>7, <2>1 DEF Trimmed, Discarded
  <2> QED
    BY <1>1, <2>2, KnownKeys
<1> QED
  BY <1>3, <1>4, <1>6, <1>7 DEF NothingLost

(* What such a change makes of the copy of a worker that goes on.          *)
SkipsOnlyDrop(L) == \A x \in L, y \in rows : KeyOf(x) = KeyOf(y) => (x.skipped => y.skipped)
TopsStay(L) == \A y \in rows : Super[y.section] = NoSection => Live(L, KeyOf(y))

(* The request goes on with the same row, not to a step that asks more.    *)
GoesOn(q, q2) ==
    /\ q.pc # "idle" /\ q2.row = q.row
    /\ q2.pc = "unskip" => q.pc = "unskip"
    /\ q2.pc \in {"unskip", "create", "remove_count", "convert", "delete"}
          => q.row.section \in Repeats
    /\ q2.pc = "delete" => q.pc = "delete"

LEMMA GrowCopy ==
    ASSUME TreeInv, SoloInv, NEW L, NEW N, Trimmed(L), Fresh(N, L), SkipsOnlyDrop(L),
           rows' = L \union N, NEW w \in Worker, GoesOn(req[w], req'[w]),
           req'[w].pc = "delete" => TopsStay(L),
           status'[req[w].row.plan] = "live" => status[req[w].row.plan] = "live"
    PROVE  CopyOK(req'[w], rows', status')
<1> DEFINE q == req[w]
           q2 == req'[w]
<1>1. q.row \in Known /\ q.row \in Row /\ q.pc # "idle" /\ q2.row = q.row
  BY BusyRow DEF GoesOn
<1>2. CopyOK(q, rows, status)
  BY <1>1 DEF SoloInv, HeldOK
<1>3. ASSUME NEW r \in rows', KeyOf(r) = KeyOf(q.row)
      PROVE  r.filled = q.row.filled /\ (r.skipped => q.row.skipped)
  <2>1. r \in L
    BY <1>1, <1>3 DEF Fresh, Unknown
  <2>2. PICK y \in rows : Keeps(r, y)
    BY <2>1 DEF Trimmed
  <2>3. KeyOf(y) = KeyOf(q.row)
    BY <1>3, <2>2 DEF Keeps, Twin
  <2>4. y.filled = q.row.filled /\ (y.skipped => q.row.skipped)
    BY <1>2, <2>3 DEF CopyOK, CopyFresh
  <2>5. r.skipped => y.skipped
    BY <1>3, <2>1, <2>3 DEF SkipsOnlyDrop
  <2> QED
    BY <2>2, <2>4, <2>5 DEF Keeps
<1>4. CopyFresh(q2, rows')
  BY <1>1, <1>2, <1>3 DEF CopyFresh, CopyOK, GoesOn
<1>5. ASSUME q.row.section \notin Repeats, status'[q.row.plan] = "live"
      PROVE  NotRevived(q.row, rows')
  <2>1. NotRevived(q.row, rows)
    BY <1>2, <1>5 DEF CopyOK, CopyPlaced
  <2>2. CASE Live(rows, KeyOf(q.row))
    <3>1. PICK y \in rows : KeyOf(y) = KeyOf(q.row)
      BY <2>2 DEF Live
    <3>2. y \in Known /\ y.parent = q.row.parent /\ y.section = q.row.section
      BY <1>1, <3>1, KnownFacts DEF Coherent, KeyOf
    <3>3. NotRevived(q.row, L)
      BY <1>5, <3>1, <3>2 DEF Trimmed, Discarded, NotRevived
    <3> QED
      BY <1>1, <3>3, KnownKeys DEF NotRevived
  <2>3. CASE q.row.parent # NoRow /\ ~Live(rows, q.row.parent)
    <3>1. ~Live(L, q.row.parent)
      BY <2>3 DEF Live, Trimmed, Keeps, Twin
    <3> QED
      BY <1>1, <2>3, <3>1, KnownKeys DEF NotRevived
  <2> QED
    BY <2>1, <2>2, <2>3 DEF NotRevived
<1>6. CopyPlaced(q2, rows', status')
  BY <1>1, <1>5 DEF CopyPlaced, GoesOn
<1>7. OtherLeft(q2, rows', status')
  <2> SUFFICES ASSUME q2.pc = "delete", status'[q.row.plan] = "live",
                      Super[q.row.section] = NoSection
               PROVE  \E r \in rows' : /\ r.plan = q.row.plan /\ r.section = q.row.section
                                       /\ KeyOf(r) # KeyOf(q.row)
    BY <1>1 DEF OtherLeft
  <2>1. PICK y \in rows : /\ y.plan = q.row.plan /\ y.section = q.row.section
                          /\ KeyOf(y) # KeyOf(q.row)
    BY <1>2 DEF CopyOK, OtherLeft, GoesOn
  <2>2. PICK x \in L : KeyOf(x) = KeyOf(y)
    BY <2>1 DEF TopsStay, Live
  <2>3. x.plan = y.plan /\ x.section = y.section
    BY <2>2 DEF KeyOf
  <2> QED
    BY <2>1, <2>2, <2>3
<1> QED
  BY <1>4, <1>6, <1>7 DEF CopyOK

-----------------------------------------------------------------------------
(***************************************************************************)
(* Repairs trim the rows                                                   *)
(***************************************************************************)
LEMMA NothingTrimmed ==
    ASSUME TreeInv, SoloInv
    PROVE  Trimmed(rows) /\ SkipsOnlyDrop(rows) /\ TopsStay(rows)
<1>1. \A x \in rows : Keeps(x, x)
  BY TwinSelf DEF Keeps, SoloInv, SkippedHoldsNoAnswers
<1>2. \A x \in rows : Live(rows, KeyOf(x))
  BY DEF Live
<1> QED
  BY <1>1, <1>2 DEF Trimmed, SkipsOnlyDrop, TopsStay, SoloInv, KeysUnique

(* A row a repair removes for itself holds no answers, and has a sibling.  *)
LEMMA DoomedRow ==
    ASSUME TreeInv, SoloInv, NEW slots, NEW d \in Doomed(rows, slots)
    PROVE  d \in rows /\ ~d.filled /\ d.section \in Repeats /\ SlotOf(d) \in slots
<1>1. PICK slot \in slots : d \in Siblings(rows, slot) \ Kept(Siblings(rows, slot), slot.section)
  BY DEF Doomed
<1> DEFINE G == Siblings(rows, slot)
           keep == Kept(G, slot.section)
<1>2. G \subseteq rows /\ \A r \in G : SlotOf(r) = slot
  BY DEF Siblings
<1>3. G \subseteq Row /\ IsFiniteSet(G)
  BY <1>2, FS_Subset DEF TreeInv, TypeOK
<1>4. /\ keep \subseteq G
      /\ G # {} => keep # {}
      /\ \A r \in G \ keep : r.skipped \/ ~r.filled
  BY <1>3, KeptOfGroup
<1>5. d \in G /\ d \notin keep
  BY <1>1
<1> HIDE DEF G, keep
<1>6. d \in rows /\ ~d.filled /\ SlotOf(d) = slot
  BY <1>2, <1>4, <1>5 DEF SoloInv, SkippedHoldsNoAnswers
<1>7. PICK r \in keep : TRUE
  BY <1>4, <1>5
<1>8. r \in rows /\ SlotOf(r) = SlotOf(d) /\ r # d
  BY <1>2, <1>4, <1>5, <1>7
<1>9. d.section \in Repeats
  BY <1>6, <1>8 DEF SoloInv, SingletonHasOneRow, Repeats, SlotOf
<1> QED
  BY <1>6, <1>9

LEMMA RepairTrims ==
    ASSUME TreeInv, SoloInv, NEW slots
    PROVE  /\ Trimmed(AfterFix(rows, slots))
           /\ SkipsOnlyDrop(AfterFix(rows, slots))
           /\ \A y \in rows : Live(AfterFix(rows, slots), KeyOf(y))
                                <=> y \notin Cascade(rows, Doomed(rows, slots))
<1> DEFINE gone == Cascade(rows, Doomed(rows, slots))
           L == AfterFix(rows, slots)
<1>1. rows \subseteq Row
  BY DEF TreeInv, TypeOK
<1>2. L = {Fixed(rows, slots, r) : r \in rows \ gone}
  BY AfterFixRows
<1>3. ASSUME NEW r \in rows
      PROVE  /\ Twin(Fixed(rows, slots, r), r)
             /\ Fixed(rows, slots, r).filled = r.filled
             /\ Fixed(rows, slots, r).skipped => r.skipped
             /\ Keeps(Fixed(rows, slots, r), r)
  BY <1>1, FixedRow DEF Keeps, SoloInv, SkippedHoldsNoAnswers
<1>4. \A a, b \in rows : KeyOf(a) = KeyOf(b) => a = b
  BY DEF SoloInv, KeysUnique
<1>5. \A y \in gone : \E d \in Doomed(rows, slots) : y = d \/ KeyOf(d) \in y.anc
  BY DEF Cascade
<1>6. \A d \in Doomed(rows, slots) : d \in gone /\ d \in rows
  BY DoomedRow DEF Cascade
<1>7. gone \subseteq rows
  BY DEF Cascade
<1> HIDE DEF gone, L
<1>8. \A y \in rows : Live(L, KeyOf(y)) <=> y \notin gone
  BY <1>2, <1>3, <1>4 DEF Live, Twin
<1>9. ASSUME NEW y \in rows, ~Live(L, KeyOf(y))
      PROVE  Discarded(L, y)
  <2>1. y \in gone
    BY <1>8, <1>9
  <2>2. PICK d \in Doomed(rows, slots) : y = d \/ KeyOf(d) \in y.anc
    BY <1>5, <2>1
  <2>3. /\ d \in rows /\ ~d.filled /\ d.section \in Repeats
        /\ ~Live(L, KeyOf(d)) /\ d \in gone
    BY <1>6, <1>8, DoomedRow
  <2>4. y.filled => \E x \in rows : KeyOf(x) \in y.anc /\ ~x.filled /\ ~Live(L, KeyOf(x))
    BY <2>2, <2>3
  <2>5. ASSUME KeyOf(d) \in y.anc
        PROVE  y.parent # NoRow /\ ~Live(L, y.parent)
    <3>1. Placed(y) /\ y.section \in Section
      BY KnownFacts DEF Places
    <3>2. Above[y.section] # {}
      BY <2>5, <3>1 DEF Placed
    <3>3. Super[y.section] # NoSection
      BY <3>1, <3>2, TreeAssumption
    <3>4. y.parent # NoRow
      BY <3>1, <3>3, ModelValueAssumption DEF Placed
    <3>5. PICK z \in rows : KeyOf(z) = y.parent
      BY <3>4 DEF TreeInv, ParentsLive, Rooted, Live
    <3>6. y.anc = {KeyOf(z)} \union z.anc
      BY <3>5, KnownFacts DEF Coherent, Follows
    <3>7. z \in gone
      <4>1. CASE KeyOf(d) = KeyOf(z)
        BY <1>4, <2>3, <3>5, <4>1
      <4>2. CASE KeyOf(d) \in z.anc
        BY <3>5, <4>2 DEF gone, Cascade
      <4> QED
        BY <2>5, <3>6, <4>1, <4>2
    <3> QED
      BY <1>8, <3>4, <3>5, <3>7
  <2> QED
    BY <2>2, <2>3, <2>4, <2>5 DEF Discarded
<1>10. \A x \in L : \E y \in rows : Keeps(x, y)
  BY <1>2, <1>3
<1>11. \A a, b \in L : KeyOf(a) = KeyOf(b) => a = b
  BY <1>2, <1>3, <1>4 DEF Twin
<1>12. Trimmed(L)
  BY <1>9, <1>10, <1>11 DEF Trimmed
<1>13. SkipsOnlyDrop(L)
  BY <1>2, <1>3, <1>4 DEF Twin, SkipsOnlyDrop
<1> QED
  BY <1>8, <1>12, <1>13 DEF L, gone

-----------------------------------------------------------------------------
(***************************************************************************)
(* New rows are fresh                                                      *)
(***************************************************************************)
(* The row for d among those one creation inserts in a slot of plan p.     *)
Inserted(x, slot, n, d) ==
    /\ d \in Tree(slot.section)
    /\ x.plan = slot.plan /\ x.serial = n /\ x.section = d /\ ~x.filled
    /\ x.parent = IF d = slot.section THEN slot.parent ELSE RowKey(slot, n, Super[d])

LEMMA NewRowInserted ==
    ASSUME NEW R, NEW slots, NEW f, NEW how, NEW slot, NEW d \in Tree(slot.section)
    PROVE  Inserted(NewRow(R, slots, f, how, slot, d), slot, f[slot], d)
  BY DEF NewRow, Inserted

LEMMA FreshRows ==
    ASSUME TreeInv, NEW p \in Plan, NEW R, NEW slots, SlotsPlaced(rows, slots, p),
           NEW f \in Numberings(slots, serial[p]), NEW how,
           NEW L, \A x \in L : \E y \in rows : Keeps(x, y),
           \A slot \in slots : slot.section \notin Repeats => Siblings(L, slot) = {}
    PROVE  Fresh(NewRows(R, slots, f, how), L)
<1> DEFINE N == NewRows(R, slots, f, how)
           n == serial[p]
           new(slot, d) == NewRow(R, slots, f, how, slot, d)
<1>1. n \in Nat
  BY DEF TreeInv, TypeOK
<1>2. /\ \A slot \in slots : f[slot] \in Int /\ n <= f[slot]
      /\ \A s, t \in slots : f[s] = f[t] => s = t
  BY <1>1 DEF Numberings
<1>3. \A x \in N : \E slot \in slots, d \in Section :
          x = new(slot, d) /\ Inserted(x, slot, f[slot], d)
  BY NewRowInserted DEF NewRows, Tree
<1>4. \A slot \in slots : slot \in Slot /\ slot.plan = p
  BY DEF SlotsPlaced, SlotPlaced
<1>5. ASSUME NEW y \in Known
      PROVE  /\ y \in Row
             /\ y.plan = p => y.serial < n
             /\ y.parent # NoRow => /\ y.parent \in Key /\ y.parent.plan = y.plan
                                    /\ y.plan = p => y.parent.serial < n
  BY KnownFacts DEF Places, Numbered, Placed
<1>6. ASSUME NEW slot \in slots, slot.parent # NoRow
      PROVE  slot.parent.serial < n /\ slot.parent \in Key
  <2>1. PICK y \in rows : KeyOf(y) = slot.parent
    BY <1>6 DEF SlotsPlaced, SlotPlaced, Live
  <2>2. y \in Known /\ y.plan = slot.parent.plan /\ y.serial = slot.parent.serial
    BY <2>1, KnownFacts DEF KeyOf
  <2>3. slot.parent.plan = p /\ slot.parent \in Key
    BY <1>6 DEF SlotsPlaced, SlotPlaced
  <2> QED
    BY <1>5, <2>2, <2>3
<1>7. \A slot \in slots : \A d \in Tree(slot.section) :
          d # slot.section => LET k == RowKey(slot, f[slot], Super[d])
                              IN  k.serial = f[slot] /\ k.plan = p /\ k # NoRow
  <2> SUFFICES ASSUME NEW slot \in slots, NEW d \in Tree(slot.section), d # slot.section
               PROVE  LET k == RowKey(slot, f[slot], Super[d])
                      IN  k.serial = f[slot] /\ k.plan = p /\ k # NoRow
    OBVIOUS
  <2>1. slot.section \in Section /\ f[slot] \in Nat
    BY <1>1, <1>2, <1>4 DEF Slot
  <2>2. Super[d] \in Section
    BY <2>1, TreeBelow DEF Tree
  <2>3. RowKey(slot, f[slot], Super[d]) \in Key
    BY <1>4, <2>1, <2>2 DEF RowKey, Key
  <2> QED
    BY <1>4, <2>3, ModelValueAssumption DEF RowKey
<1> HIDE DEF N, n, new
<1>8. ASSUME NEW x \in N, NEW y \in Known
      PROVE  KeyOf(x) # KeyOf(y) /\ KeyOf(x) # y.parent
  <2>1. PICK slot \in slots, d \in Section : Inserted(x, slot, f[slot], d)
    BY <1>3
  <2>2. x.plan = p /\ x.serial = f[slot] /\ f[slot] \in Int /\ n <= f[slot]
    BY <1>2, <1>4, <2>1 DEF Inserted
  <2>3. d \in Section
    OBVIOUS
  <2>4. KeyOf(x) \in Key
    BY <1>1, <2>1, <2>2, <2>3 DEF Key, KeyOf, Inserted
  <2>5. y \in Row /\ y.serial \in Int
    BY <1>5 DEF Row
  <2>6. KeyOf(x) # KeyOf(y)
    BY <1>1, <1>5, <2>2, <2>5 DEF KeyOf
  <2>7. CASE y.parent = NoRow
    BY <2>4, <2>6, <2>7, ModelValueAssumption
  <2>8. CASE y.parent # NoRow
    <3>1. y.parent \in Key /\ y.parent.serial \in Int
      BY <1>5, <2>8 DEF Key
    <3> QED
      BY <1>1, <1>5, <2>2, <2>6, <2>8, <3>1 DEF KeyOf
  <2> QED
    BY <2>7, <2>8
<1>9. ASSUME NEW a \in N, NEW b \in N, KeyOf(a) = KeyOf(b)
      PROVE  a = b
  <2>1. PICK s \in slots, d \in Section : a = new(s, d) /\ Inserted(a, s, f[s], d)
    BY <1>3
  <2>2. PICK t \in slots, e \in Section : b = new(t, e) /\ Inserted(b, t, f[t], e)
    BY <1>3
  <2>3. f[s] = f[t] /\ d = e
    BY <1>9, <2>1, <2>2 DEF KeyOf, Inserted
  <2> QED
    BY <1>2, <2>1, <2>2, <2>3
<1>10. ASSUME NEW a \in N, NEW b \in N, SlotOf(a) = SlotOf(b)
       PROVE  a = b
  <2>1. PICK s \in slots, d \in Section : a = new(s, d) /\ Inserted(a, s, f[s], d)
    BY <1>3
  <2>2. PICK t \in slots, e \in Section : b = new(t, e) /\ Inserted(b, t, f[t], e)
    BY <1>3
  <2>3. d = e /\ a.parent = b.parent
    BY <1>10, <2>1, <2>2 DEF SlotOf, Inserted
  <2>4. /\ f[s] \in Int /\ n <= f[s] /\ f[t] \in Int /\ n <= f[t] /\ n \in Int
        /\ s.parent # NoRow => s.parent.serial \in Int
        /\ t.parent # NoRow => t.parent.serial \in Int
    BY <1>1, <1>2, <1>6 DEF Key
  <2>5. CASE d = s.section /\ e = t.section
    <3>1. s.parent = t.parent /\ s.section = t.section /\ s.plan = t.plan
      BY <1>4, <2>1, <2>2, <2>3, <2>5 DEF Inserted
    <3>2. s = t
      BY <1>4, <3>1 DEF Slot
    <3> QED
      BY <2>1, <2>2, <2>3, <3>2
  <2>6. CASE d = s.section /\ e # t.section
    BY <1>6, <1>7, <2>1, <2>2, <2>3, <2>4, <2>6 DEF Inserted
  <2>7. CASE d # s.section /\ e = t.section
    BY <1>6, <1>7, <2>1, <2>2, <2>3, <2>4, <2>7 DEF Inserted
  <2>8. CASE d # s.section /\ e # t.section
    <3>1. f[s] = f[t]
      BY <1>7, <2>1, <2>2, <2>3, <2>8 DEF Inserted
    <3> QED
      BY <1>2, <2>1, <2>2, <2>3, <3>1
  <2> QED
    BY <2>5, <2>6, <2>7, <2>8
<1>11. ASSUME NEW a \in N, a.section \notin Repeats, NEW b \in L, SlotOf(a) = SlotOf(b)
       PROVE  FALSE
  <2>1. PICK s \in slots, d \in Section : Inserted(a, s, f[s], d)
    BY <1>3
  <2>2. PICK y \in rows : Keeps(b, y)
    OBVIOUS
  <2>3. y \in Known /\ y.plan = p /\ y.parent = a.parent /\ d = a.section
    BY <1>4, <1>11, <2>1, <2>2, KnownFacts DEF SlotOf, Inserted, Keeps, Twin
  <2>4. CASE d = s.section
    <3>1. SlotOf(a) = s
      BY <1>4, <2>1, <2>4 DEF Inserted, SlotOf, Slot
    <3> QED
      BY <1>11, <2>3, <2>4, <3>1 DEF Siblings
  <2>5. CASE d # s.section
    <3>1. /\ y.parent # NoRow /\ y.parent.serial = f[s]
      BY <1>7, <2>1, <2>3, <2>5 DEF Inserted
    <3>2. f[s] \in Int /\ n <= f[s] /\ n \in Int
      BY <1>1, <1>2
    <3> QED
      BY <1>5, <2>3, <3>1, <3>2
  <2> QED
    BY <2>4, <2>5
<1>12. \A x \in N : ~x.filled
  BY <1>3 DEF Inserted
<1>13. Fresh(N, L)
  BY <1>8, <1>9, <1>10, <1>11, <1>12 DEF Fresh, Unknown
<1> QED
  BY <1>13 DEF N

-----------------------------------------------------------------------------
(***************************************************************************)
(* The steps                                                               *)
(***************************************************************************)
(* The body of AnswersLostOnlyOnRequest.                                   *)
Lossless ==
    \A r \in rows :
        r.filled /\ (\A x \in rows' : KeyOf(x) = KeyOf(r) => ~x.filled) =>
            \/ status'[r.plan] = "deleted"
            \/ \E w \in Worker : RequestedBy(w, r)
            \/ \E a \in rows : KeyOf(a) \in r.anc /\ ~a.filled /\ ~Live(rows', KeyOf(a))

GrownBy(L, N) ==
    /\ Trimmed(L) /\ Fresh(N, L) /\ SkipsOnlyDrop(L)
    /\ rows' = L \union N

(* The rows of top-level sections, or others of their section, are there.  *)
TopsCovered ==
    \A y \in rows : Super[y.section] = NoSection =>
        \E x \in rows' : x.plan = y.plan /\ x.section = y.section

NobodyRevived ==
    \A w \in Worker : req[w].pc # "idle" /\ status'[req[w].row.plan] = "live" =>
        status[req[w].row.plan] = "live"

LEMMA GrowStep ==
    ASSUME TreeInv, SoloInv, NEW L, NEW N, GrownBy(L, N), repeatable' \subseteq Repeats,
           SectionsKeepRows', HeldOK'
    PROVE  SoloInv' /\ Lossless
<1>1. KeysUnique' /\ SkippedHoldsNoAnswers' /\ SingletonHasOneRow' /\ NothingLost
  BY GrowRows DEF GrownBy
<1>2. Lossless
  BY <1>1 DEF Lossless, NothingLost
<1>3. SoloInv'
  BY <1>1 DEF SoloInv, Repeats
<1> QED
  BY <1>2, <1>3

LEMMA OwnHeld ==
    ASSUME OneWorker, NEW w \in Worker,
           req'[w].pc # "idle" => CopyOK(req'[w], rows', status')
    PROVE  HeldOK'
<1>1. \A v \in Worker : v = w
  BY DEF OneWorker
<1> QED
  BY <1>1 DEF HeldOK, CopyOK, CopyFresh, CopyPlaced, OtherLeft

LEMMA HeldThrough ==
    ASSUME TreeInv, SoloInv, NEW L, NEW N, GrownBy(L, N), TopsStay(L),
           UNCHANGED req, NobodyRevived
    PROVE  HeldOK'
<1>1. ASSUME NEW w \in Worker, req'[w].pc # "idle"
      PROVE  CopyOK(req'[w], rows', status')
  <2>1. req'[w] = req[w] /\ req[w].pc # "idle"
    BY <1>1
  <2>2. GoesOn(req[w], req'[w])
    BY <2>1 DEF GoesOn, SoloInv, HeldOK, CopyOK, CopyPlaced
  <2>3. status'[req[w].row.plan] = "live" => status[req[w].row.plan] = "live"
    BY <2>1 DEF NobodyRevived
  <2> QED
    BY <2>2, <2>3, GrowCopy DEF GrownBy
<1> QED
  BY <1>1 DEF HeldOK, CopyOK, CopyFresh, CopyPlaced, OtherLeft

LEMMA TopsRemain ==
    ASSUME NEW L, TopsStay(L), L \subseteq rows'
    PROVE  TopsCovered
<1>1. ASSUME NEW y \in rows, Super[y.section] = NoSection
      PROVE  \E x \in rows' : x.plan = y.plan /\ x.section = y.section
  <2>1. PICK x \in L : KeyOf(x) = KeyOf(y)
    BY <1>1 DEF TopsStay, Live
  <2> QED
    BY <2>1 DEF KeyOf
<1> QED
  BY <1>1 DEF TopsCovered

LEMMA SectionsStay ==
    ASSUME SoloInv, TopsCovered,
           \A p \in Plan : status'[p] = "live" /\ serial'[p] > 0 =>
               status[p] = "live" /\ serial[p] > 0
    PROVE  SectionsKeepRows'
<1>1. ASSUME NEW p \in Plan, NEW s \in Section,
             status'[p] = "live", serial'[p] > 0, Super[s] = NoSection
      PROVE  \E r \in rows' : r.plan = p /\ r.section = s
  <2>1. PICK y \in rows : y.plan = p /\ y.section = s
    BY <1>1 DEF SoloInv, SectionsKeepRows
  <2> QED
    BY <1>1, <2>1 DEF TopsCovered
<1> QED
  BY <1>1 DEF SectionsKeepRows

LEMMA TopRow ==
    ASSUME TreeInv, NEW y \in rows, Super[y.section] = NoSection
    PROVE  y.anc = {} /\ y.parent = NoRow
<1>1. Placed(y) /\ y.section \in Section
  BY KnownFacts DEF Places
<1>2. Above[y.section] = {}
  BY <1>1, TreeAssumption
<1> QED
  BY <1>1, <1>2 DEF Placed

(* Steps that leave the rows alone.                                        *)
LEMMA QuietSolo ==
    ASSUME SoloInv, UNCHANGED <<status, rows, serial>>, repeatable' \subseteq Repeats, HeldOK'
    PROVE  SoloInv' /\ Lossless
<1>1. /\ KeysUnique' /\ SkippedHoldsNoAnswers' /\ SingletonHasOneRow' /\ SectionsKeepRows'
  BY DEF SoloInv, KeysUnique, SkippedHoldsNoAnswers, SingletonHasOneRow, SectionsKeepRows
<1>2. Lossless
  BY DEF Lossless
<1> QED
  BY <1>1, <1>2 DEF SoloInv, Repeats

LEMMA SameRepeats ==
    ASSUME SoloInv, UNCHANGED repeatable
    PROVE  repeatable' \subseteq Repeats
  BY DEF SoloInv

LEMMA CreatePlanSolo ==
    ASSUME TreeInv, SoloInv, NEW p \in Plan, CreatePlan(p)
    PROVE  SoloInv' /\ Lossless
<1>1. /\ status[p] = "unused"
      /\ status' = [status EXCEPT ![p] = "live"]
      /\ UNCHANGED <<rows, serial, optional, repeatable, req>>
  BY DEF CreatePlan
<1>2. status \in [Plan -> {"unused", "live", "deleted"}] /\ serial \in [Plan -> Nat]
  BY DEF TreeInv, TypeOK
<1>3. serial[p] = 0
  BY <1>1 DEF TreeInv, UnusedOK
<1>4. Fresh({}, rows)
  BY DEF Fresh, Unknown
<1>5. GrownBy(rows, {}) /\ TopsStay(rows) /\ rows \subseteq rows'
  BY <1>1, <1>4, NothingTrimmed DEF GrownBy
<1>6. NobodyRevived
  <2>1. ASSUME NEW w \in Worker, req[w].pc # "idle" PROVE req[w].row.plan # p
    BY <1>3, <2>1, BusyRow DEF Numbered, Row
  <2> QED
    BY <1>1, <1>2, <2>1, BusyRow DEF NobodyRevived, Row
<1>7. HeldOK'
  BY <1>1, <1>5, <1>6, HeldThrough
<1>8. SectionsKeepRows'
  BY <1>1, <1>2, <1>3, <1>5, TopsRemain, SectionsStay
<1> QED
  BY <1>1, <1>5, <1>7, <1>8, SameRepeats, GrowStep

LEMMA EditSolo ==
    ASSUME TreeInv, SoloInv, NEW s \in Section, EditOptional(s) \/ EditRepeatable(s)
    PROVE  SoloInv' /\ Lossless
<1>1. UNCHANGED <<status, rows, serial, req>>
  BY DEF EditOptional, EditRepeatable
<1>2. repeatable' \subseteq Repeats
  BY DEF EditOptional, EditRepeatable, SoloInv, Repeats
<1>3. HeldOK'
  BY <1>1 DEF SoloInv, HeldOK, CopyOK, CopyFresh, CopyPlaced, OtherLeft, NotRevived, Live
<1> QED
  BY <1>1, <1>2, <1>3, QuietSolo

LEMMA DeletePlanSolo ==
    ASSUME TreeInv, SoloInv, NEW p \in Plan, DeletePlan(p)
    PROVE  SoloInv' /\ Lossless
<1>1. /\ status' = [status EXCEPT ![p] = "deleted"]
      /\ rows' = {r \in rows : r.plan # p}
      /\ UNCHANGED <<serial, optional, repeatable, req>>
  BY DEF DeletePlan
<1>2. status \in [Plan -> {"unused", "live", "deleted"}]
  BY DEF TreeInv, TypeOK
<1>3. rows' \subseteq rows
  BY <1>1
<1>4. KeysUnique' /\ SkippedHoldsNoAnswers' /\ SingletonHasOneRow'
  BY <1>3 DEF SoloInv, KeysUnique, SkippedHoldsNoAnswers, SingletonHasOneRow
<1>5. SectionsKeepRows'
  <2>1. ASSUME NEW q \in Plan, NEW s \in Section,
               status'[q] = "live", serial'[q] > 0, Super[s] = NoSection
        PROVE  \E r \in rows' : r.plan = q /\ r.section = s
    <3>1. q # p /\ status[q] = "live" /\ serial[q] > 0
      BY <1>1, <1>2, <2>1
    <3> QED
      BY <1>1, <2>1, <3>1 DEF SoloInv, SectionsKeepRows
  <2> QED
    BY <2>1 DEF SectionsKeepRows
<1>6. ASSUME NEW w \in Worker, req'[w].pc # "idle"
      PROVE  CopyOK(req'[w], rows', status')
  <2> DEFINE q == req[w]
  <2>1. req'[w] = q /\ CopyOK(q, rows, status) /\ q.row.plan \in Plan /\ Placed(q.row)
    BY <1>1, <1>6, BusyRow DEF SoloInv, HeldOK, Row
  <2>2. CopyFresh(q, rows')
    BY <1>3, <2>1 DEF CopyOK, CopyFresh
  <2>3. ASSUME status'[q.row.plan] = "live"
        PROVE  q.row.plan # p /\ status[q.row.plan] = "live"
    BY <1>1, <1>2, <2>1, <2>3
  <2>4. ASSUME q.row.plan # p, NotRevived(q.row, rows)
        PROVE  NotRevived(q.row, rows')
    <3>1. Live(rows, KeyOf(q.row)) => Live(rows', KeyOf(q.row))
      BY <1>1, <2>4 DEF Live, KeyOf
    <3>2. ~Live(rows, q.row.parent) => ~Live(rows', q.row.parent)
      BY <1>3 DEF Live
    <3> QED
      BY <2>4, <3>1, <3>2 DEF NotRevived
  <2>5. CopyPlaced(q, rows', status')
    BY <2>1, <2>3, <2>4 DEF CopyOK, CopyPlaced
  <2>6. OtherLeft(q, rows', status')
    BY <1>1, <2>1, <2>3 DEF CopyOK, OtherLeft
  <2> QED
    BY <2>1, <2>2, <2>5, <2>6 DEF CopyOK
<1>7. HeldOK'
  BY <1>6 DEF HeldOK, CopyOK, CopyFresh, CopyPlaced, OtherLeft
<1>8. Lossless
  BY <1>1, <1>2 DEF Lossless
<1>9. repeatable' \subseteq Repeats
  BY <1>1, SameRepeats
<1> QED
  BY <1>4, <1>5, <1>7, <1>8, <1>9 DEF SoloInv, Repeats

LEMMA RepairGrows ==
    ASSUME TreeInv, SoloInv, NEW p \in Plan, NEW slots,
           \A slot \in slots : slot.plan = p /\ InPlace(slot), Repair(p, slots)
    PROVE  \E N : GrownBy(AfterFix(rows, slots), N)
<1> DEFINE L == AfterFix(rows, slots)
           missing == Missing(rows, slots)
<1>1. PICK f \in Numberings(missing, serial[p]) :
          rows' = L \union NewRows(L, missing, f, "get")
  BY DEF Repair
<1>2. Trimmed(L) /\ SkipsOnlyDrop(L)
  BY RepairTrims
<1>3. \A slot \in missing : /\ slot \in slots /\ Siblings(rows, slot) = {}
                            /\ slot.parent = NoRow \/ Live(L, slot.parent)
  BY DEF Missing
<1> HIDE DEF L, missing
<1>4. \A k : Live(L, k) => Live(rows, k)
  BY <1>2 DEF Trimmed, Keeps, Twin, Live
<1>5. SlotsPlaced(rows, missing, p)
  BY <1>3, <1>4 DEF SlotsPlaced, SlotPlaced, InPlace
<1>6. \A slot \in missing : Siblings(L, slot) = {}
  <2> SUFFICES ASSUME NEW slot \in missing, NEW x \in L, SlotOf(x) = slot PROVE FALSE
    BY DEF Siblings
  <2>1. PICK y \in rows : Keeps(x, y)
    BY <1>2 DEF Trimmed
  <2>2. SlotOf(y) = slot
    BY <2>1, SameSlot DEF Keeps
  <2> QED
    BY <1>3, <2>2 DEF Siblings
<1>7. Fresh(NewRows(L, missing, f, "get"), L)
  BY <1>2, <1>5, <1>6, FreshRows DEF Trimmed
<1> QED
  BY <1>1, <1>2, <1>7 DEF GrownBy, L

LEMMA FixChildrenSolo ==
    ASSUME TreeInv, SoloInv, NEW top \in rows, FixChildren(top)
    PROVE  SoloInv' /\ Lossless
<1> DEFINE slots == SlotsUnder(top)
           L == AfterFix(rows, slots)
<1>1. /\ Repair(top.plan, slots)
      /\ UNCHANGED <<status, optional, repeatable, req>>
  BY DEF FixChildren, SlotsUnder
<1>2. /\ \A slot \in slots : slot.plan = top.plan /\ InPlace(slot) /\ slot.parent # NoRow
      /\ top.plan \in Plan /\ serial[top.plan] > 0
  BY SlotsUnderPlaced
<1>3. serial' = [serial EXCEPT ![top.plan] = @ + Cardinality(Missing(rows, slots))]
  BY <1>1 DEF Repair
<1> HIDE DEF slots
<1>4. PICK N : GrownBy(L, N)
  BY <1>1, <1>2, RepairGrows
<1>5. ASSUME NEW y \in rows, Super[y.section] = NoSection
      PROVE  Live(L, KeyOf(y))
  <2>1. y.anc = {} /\ y.parent = NoRow
    BY <1>5, TopRow
  <2>2. y \notin Doomed(rows, slots)
    <3> SUFFICES ASSUME y \in Doomed(rows, slots) PROVE FALSE
      OBVIOUS
    <3>1. SlotOf(y) \in slots
      BY DoomedRow
    <3>2. SlotOf(y).parent = NoRow
      BY <2>1 DEF SlotOf
    <3> QED
      BY <1>2, <3>1, <3>2
  <2>3. y \notin Cascade(rows, Doomed(rows, slots))
    BY <2>1, <2>2 DEF Cascade
  <2> QED
    BY <2>3, RepairTrims
<1>6. TopsStay(L) /\ L \subseteq rows'
  BY <1>4, <1>5 DEF TopsStay, GrownBy
<1> HIDE DEF L
<1>7. NobodyRevived
  BY <1>1 DEF NobodyRevived
<1>8. HeldOK'
  BY <1>1, <1>4, <1>6, <1>7, HeldThrough
<1>9. SectionsKeepRows'
  <2>1. serial \in [Plan -> Nat]
    BY DEF TreeInv, TypeOK
  <2>2. \A p \in Plan : serial'[p] > 0 => serial[p] > 0
    BY <1>2, <1>3, <2>1
  <2> QED
    BY <1>1, <1>6, <2>2, TopsRemain, SectionsStay
<1> QED
  BY <1>1, <1>4, <1>8, <1>9, SameRepeats, GrowStep

LEMMA AddMissingSolo ==
    ASSUME TreeInv, SoloInv, NEW p \in Plan, AddMissingAnswersets(p)
    PROVE  SoloInv' /\ Lossless
<1> DEFINE slots == EmptySlots(p)
           mine == {r \in rows : r.plan = p}
           top(s) == [plan |-> p, section |-> s, parent |-> NoRow]
<1>1. /\ status[p] = "live" /\ slots # {}
      /\ serial' = [serial EXCEPT ![p] = @ + Cardinality(slots)]
      /\ UNCHANGED <<status, optional, repeatable, req>>
  BY DEF AddMissingAnswersets
<1>2. PICK f \in Numberings(slots, serial[p]) :
          rows' = rows \union NewRows(rows, slots, f, "ensure")
  BY DEF AddMissingAnswersets
<1>3. SlotsPlaced(rows, slots, p)
  BY EmptySlotsPlaced
<1>4. \A slot \in slots : Siblings(rows, slot) = {}
  <2>1. \A slot \in slots : Siblings(mine, slot) = {} /\ slot.plan = p
    BY <1>3 DEF EmptySlots, SlotsPlaced
  <2> QED
    BY <2>1 DEF Siblings, SlotOf
<1>5. \A s \in Section : Super[s] = NoSection /\ serial[p] = 0 => top(s) \in slots
  <2> SUFFICES ASSUME NEW s \in Section, Super[s] = NoSection, serial[p] = 0
               PROVE  top(s) \in slots
    OBVIOUS
  <2>1. mine = {}
    <3> SUFFICES ASSUME NEW r \in rows, r.plan = p PROVE FALSE
      OBVIOUS
    <3> QED
      BY KnownFacts DEF Places, Numbered, Row
  <2>2. Siblings(mine, top(s)) = {}
    BY <2>1 DEF Siblings
  <2> QED
    BY <2>2 DEF EmptySlots
<1> HIDE DEF slots
<1> DEFINE N == NewRows(rows, slots, f, "ensure")
<1>6. Trimmed(rows) /\ SkipsOnlyDrop(rows) /\ TopsStay(rows)
  BY NothingTrimmed
<1>7. Fresh(N, rows)
  BY <1>3, <1>4, <1>6, FreshRows DEF Trimmed
<1>8. GrownBy(rows, N) /\ rows \subseteq rows'
  BY <1>2, <1>6, <1>7 DEF GrownBy
<1>9. \A s \in Section : Super[s] = NoSection /\ serial[p] = 0 =>
          \E r \in N : r.plan = p /\ r.section = s
  <2> SUFFICES ASSUME NEW s \in Section, Super[s] = NoSection, serial[p] = 0
               PROVE  \E r \in N : r.plan = p /\ r.section = s
    OBVIOUS
  <2>1. top(s) \in slots /\ s \in Tree(top(s).section)
    BY <1>5 DEF Tree
  <2> DEFINE r == NewRow(rows, slots, f, "ensure", top(s), s)
  <2>2. r \in N
    BY <2>1 DEF NewRows
  <2>3. Inserted(r, top(s), f[top(s)], s)
    BY <2>1, NewRowInserted
  <2> QED
    BY <2>2, <2>3 DEF Inserted
<1> HIDE DEF N, top
<1>10. NobodyRevived
  BY <1>1 DEF NobodyRevived
<1>11. HeldOK'
  BY <1>1, <1>6, <1>8, <1>10, HeldThrough
<1>12. SectionsKeepRows'
  <2>1. serial \in [Plan -> Nat] /\ status' = status
    BY <1>1 DEF TreeInv, TypeOK
  <2>2. ASSUME NEW q \in Plan, NEW s \in Section,
               status'[q] = "live", serial'[q] > 0, Super[s] = NoSection
        PROVE  \E r \in rows' : r.plan = q /\ r.section = s
    <3>1. CASE serial[q] > 0
      BY <1>8, <2>1, <2>2, <3>1 DEF SoloInv, SectionsKeepRows
    <3>2. CASE ~(serial[q] > 0)
      <4>1. q = p
        BY <1>1, <2>1, <2>2, <3>2
      <4>2. serial[p] = 0
        BY <2>1, <3>2, <4>1
      <4> QED
        BY <1>8, <1>9, <2>2, <4>1, <4>2 DEF GrownBy
    <3> QED
      BY <3>1, <3>2
  <2> QED
    BY <2>2 DEF SectionsKeepRows
<1> QED
  BY <1>1, <1>8, <1>11, <1>12, SameRepeats, GrowStep

LEMMA ClonePlanSolo ==
    ASSUME TreeInv, SoloInv, NEW p \in Plan, NEW q \in Plan, ClonePlan(p, q)
    PROVE  SoloInv' /\ Lossless
<1> DEFINE S == {x \in rows : x.plan = p}
           C == {Copy(r, q) : r \in S}
<1>1. /\ status[p] = "live" /\ status[q] = "unused"
      /\ status' = [status EXCEPT ![q] = "live"]
      /\ rows' = rows \union C
      /\ serial' = [serial EXCEPT ![q] = serial[p]]
      /\ UNCHANGED <<optional, repeatable, req>>
  BY DEF ClonePlan
<1>2. /\ serial \in [Plan -> Nat] /\ status \in [Plan -> {"unused", "live", "deleted"}]
      /\ p # q /\ serial[q] = 0
  BY <1>1 DEF TreeInv, TypeOK, UnusedOK
<1>3. \A r \in Known : r.plan # q /\ r \in Row
  BY <1>2, KnownFacts DEF Places, Numbered, Row
<1>4. \A x \in C : \E r \in rows : r.plan = p /\ x = Copy(r, q)
  OBVIOUS
<1> HIDE DEF C
<1>5. ASSUME NEW r \in rows, r.plan = p, NEW x, x = Copy(r, q)
      PROVE  /\ x.plan = q /\ x.serial = r.serial /\ x.section = r.section /\ ~x.skipped
             /\ x.parent = IF r.parent = NoRow THEN NoRow ELSE Rekey(r.parent, q)
  BY <1>5, CopyShape
<1>6. ASSUME NEW a \in rows, NEW b \in rows, a.plan = p, b.plan = p,
             SlotOf(Copy(a, q)) = SlotOf(Copy(b, q))
      PROVE  SlotOf(a) = SlotOf(b)
  <2>1. /\ a.parent = NoRow \/ (a.parent \in Key /\ a.parent.plan = p)
        /\ b.parent = NoRow \/ (b.parent \in Key /\ b.parent.plan = p)
    BY <1>6, KnownFacts DEF Places, Placed
  <2>2. \A k \in Key : /\ Rekey(k, q) # NoRow /\ Rekey(k, q).serial = k.serial
                       /\ Rekey(k, q).section = k.section
    <3>1. \A k \in Key : Rekey(k, q) \in Key /\ Rekey(k, q).serial = k.serial
                         /\ Rekey(k, q).section = k.section
      BY DEF Key, Rekey
    <3> QED
      BY <3>1, ModelValueAssumption
  <2>3. \A k, l \in Key : k.plan = l.plan /\ k.serial = l.serial /\ k.section = l.section
                            => k = l
    BY DEF Key
  <2>4. Copy(a, q).section = Copy(b, q).section /\ Copy(a, q).parent = Copy(b, q).parent
    BY <1>6 DEF SlotOf
  <2>5. a.section = b.section
    BY <1>5, <1>6, <2>4
  <2>6. a.parent = b.parent
    BY <1>5, <1>6, <2>1, <2>2, <2>3, <2>4
  <2> QED
    BY <1>6, <2>5, <2>6 DEF SlotOf
<1>7. Fresh(C, rows)
  <2>1. Unknown(C)
    <3> SUFFICES ASSUME NEW x \in C, NEW y \in Known
                 PROVE  KeyOf(x) # KeyOf(y) /\ KeyOf(x) # y.parent
      BY DEF Unknown
    <3>1. x.plan = q /\ y.plan # q
      BY <1>3, <1>4, <1>5
    <3>2. Placed(y) /\ KeyOf(x).plan = q
      BY <3>1, KnownFacts DEF Places, KeyOf
    <3>3. KeyOf(x) # NoRow
      <4>1. PICK r \in rows : r.plan = p /\ x = Copy(r, q)
        BY <1>4
      <4>2. x \in Row
        BY <4>1, CopyShape
      <4> QED
        BY <4>2, KeyType
    <3> QED
      BY <3>1, <3>2, <3>3 DEF KeyOf, Placed
  <2>2. ASSUME NEW a \in C, NEW b \in C, KeyOf(a) = KeyOf(b)
        PROVE  a = b
    <3>1. PICK r \in rows : r.plan = p /\ a = Copy(r, q)
      BY <1>4
    <3>2. PICK s \in rows : s.plan = p /\ b = Copy(s, q)
      BY <1>4
    <3>3. KeyOf(r) = KeyOf(s)
      BY <1>5, <2>2, <3>1, <3>2 DEF KeyOf
    <3> QED
      BY <3>1, <3>2, <3>3 DEF SoloInv, KeysUnique
  <2>3. ASSUME NEW a \in C, NEW b \in C, SlotOf(a) = SlotOf(b), a.section \notin Repeats
        PROVE  a = b
    <3>1. PICK r \in rows : r.plan = p /\ a = Copy(r, q)
      BY <1>4
    <3>2. PICK s \in rows : s.plan = p /\ b = Copy(s, q)
      BY <1>4
    <3>3. SlotOf(r) = SlotOf(s) /\ r.section \notin Repeats
      BY <1>5, <1>6, <2>3, <3>1, <3>2
    <3> QED
      BY <3>1, <3>2, <3>3 DEF SoloInv, SingletonHasOneRow, Repeats
  <2>4. \A a \in C, b \in rows : SlotOf(a) # SlotOf(b)
    BY <1>3, <1>4, <1>5, KnownFacts DEF SlotOf
  <2>5. \A x \in C : ~x.skipped
    BY <1>4, <1>5
  <2> QED
    BY <2>1, <2>2, <2>3, <2>4, <2>5 DEF Fresh
<1>8. GrownBy(rows, C) /\ TopsStay(rows) /\ rows \subseteq rows'
  BY <1>1, <1>7, NothingTrimmed DEF GrownBy
<1>9. NobodyRevived
  <2>1. ASSUME NEW w \in Worker, req[w].pc # "idle" PROVE req[w].row.plan # q
    BY <1>3, <2>1, BusyRow
  <2> QED
    BY <1>1, <1>2, <2>1, BusyRow DEF NobodyRevived, Row
<1>10. HeldOK'
  BY <1>1, <1>8, <1>9, HeldThrough
<1>11. SectionsKeepRows'
  <2>1. ASSUME NEW u \in Plan, NEW s \in Section,
               status'[u] = "live", serial'[u] > 0, Super[s] = NoSection
        PROVE  \E r \in rows' : r.plan = u /\ r.section = s
    <3>1. CASE u # q
      BY <1>1, <1>2, <2>1, <3>1 DEF SoloInv, SectionsKeepRows
    <3>2. CASE u = q
      <4>1. serial[p] > 0
        BY <1>1, <1>2, <2>1, <3>2
      <4>2. PICK r \in rows : r.plan = p /\ r.section = s
        BY <1>1, <2>1, <4>1 DEF SoloInv, SectionsKeepRows
      <4>3. Copy(r, q) \in rows'
        BY <1>1, <4>2 DEF C
      <4> QED
        BY <1>5, <3>2, <4>2, <4>3
    <3> QED
      BY <3>1, <3>2
  <2> QED
    BY <2>1 DEF SectionsKeepRows
<1> QED
  BY <1>1, <1>8, <1>10, <1>11, SameRepeats, GrowStep

LEMMA QuietOwn ==
    ASSUME SoloInv, OneWorker, NEW w \in Worker,
           req'[w].pc # "idle" => CopyOK(req'[w], rows, status),
           UNCHANGED <<status, rows, serial, optional, repeatable>>
    PROVE  SoloInv' /\ Lossless
<1>1. HeldOK'
  BY OwnHeld
<1> QED
  BY <1>1, SameRepeats, QuietSolo

LEMMA Finished ==
    ASSUME TreeInv, NEW w \in Worker, NEW result, Finish(w, result)
    PROVE  req'[w].pc = "idle"
  BY DEF Finish, Idle, TreeInv, TypeOK

LEMMA EndSolo ==
    ASSUME TreeInv, SoloInv, OneWorker, NEW w \in Worker, NEW result, Finish(w, result),
           UNCHANGED <<status, rows, serial, optional, repeatable>>
    PROVE  SoloInv' /\ Lossless
  BY Finished, QuietOwn

LEMMA RefusedSolo ==
    ASSUME TreeInv, SoloInv, OneWorker, NEW w \in Worker, Refused(w)
    PROVE  SoloInv' /\ Lossless
  BY EndSolo DEF Refused

(* A copy as it is loaded.                                                 *)
LEMMA LoadedCopy ==
    ASSUME SoloInv, NEW q, q.row \in rows, q.pc = "unskip" => q.row.skipped,
           q.pc \in {"unskip", "create", "remove_count", "convert", "delete"}
               => q.row.section \in Repeats,
           q.pc # "delete"
    PROVE  CopyOK(q, rows, status)
<1>1. CopyFresh(q, rows)
  BY DEF CopyFresh, SoloInv, KeysUnique, SkippedHoldsNoAnswers
<1>2. NotRevived(q.row, rows)
  BY DEF NotRevived, Live
<1> QED
  BY <1>1, <1>2 DEF CopyOK, CopyPlaced, OtherLeft

LEMMA LoadSolo ==
    ASSUME TreeInv, SoloInv, OneWorker, NEW w \in Worker, NEW r \in rows, NEW pc,
           pc \notin {"unskip", "create", "remove_count", "convert", "delete"},
           Load(w, r, pc)
    PROVE  SoloInv' /\ Lossless
<1>1. req'[w].row = r /\ req'[w].pc = pc
  BY DEF Load, TreeInv, TypeOK
<1>2. CopyOK(req'[w], rows, status)
  BY <1>1, LoadedCopy
<1> QED
  BY <1>2, QuietOwn DEF Load

LEMMA WentOn ==
    ASSUME TreeInv, NEW w \in Worker, NEW pc, Goto(w, pc)
    PROVE  req'[w].pc = pc /\ req'[w].row = req[w].row
<1>1. req \in [Worker -> Request_]
  BY DEF TreeInv, TypeOK
<1>2. req'[w] = [req[w] EXCEPT !.pc = pc]
  BY <1>1 DEF Goto
<1> QED
  BY <1>1, <1>2 DEF Request_

LEMMA FixSolo ==
    ASSUME TreeInv, SoloInv, OneWorker, NEW w \in Worker, req[w].pc # "idle",
           NEW next \in {"add_last", "remove_count"}, Fix(w, next)
    PROVE  SoloInv' /\ Lossless
<1> DEFINE slot == SlotOf(req[w].row)
           L == AfterFix(rows, {slot})
<1>1. CASE Refused(w)
  BY <1>1, RefusedSolo
<1>2. CASE ~Refused(w)
  <2>1. /\ FixPossibleAt(slot)
        /\ Repair(slot.plan, {slot})
        /\ IF slot.section \in repeatable \intersect optional
           THEN Goto(w, next) ELSE Finish(w, "noop")
        /\ UNCHANGED <<status, optional, repeatable>>
    BY <1>2 DEF Fix, FixPossibleAt
  <2>2. /\ InPlace(slot) /\ slot \in Slot /\ slot.plan \in Plan
        /\ slot.plan = req[w].row.plan /\ slot.section = req[w].row.section
    BY BusyRow, SlotInPlace DEF InPlace
  <2>3. serial' = [serial EXCEPT ![slot.plan] = @ + Cardinality(Missing(rows, {slot}))]
    BY <2>1 DEF Repair
  <2>4. serial \in [Plan -> Nat] /\ serial[slot.plan] > 0
    BY <2>2, BusyRow DEF Numbered, Row, TreeInv, TypeOK
  <2>5. Siblings(rows', slot) # {}
    <3> HIDE DEF slot
    <3>1. InOrder(Siblings(rows', slot), slot.section)
      BY <2>1, <2>2, RepairKeepsOrder, RepairFillsGroup
    <3> QED
      BY <3>1 DEF InOrder
  <2> HIDE DEF slot
  <2>6. PICK N : GrownBy(L, N)
    BY <2>1, <2>2, RepairGrows
  <2>7. ASSUME NEW y \in rows, Super[y.section] = NoSection
        PROVE  \E x \in rows' : x.plan = y.plan /\ x.section = y.section
    <3>1. CASE SlotOf(y) = slot
      BY <2>5, <3>1 DEF Siblings, SlotOf
    <3>2. CASE SlotOf(y) # slot
      <4>1. y.anc = {}
        BY <2>7, TopRow
      <4>2. y \notin Doomed(rows, {slot})
        BY <3>2, DoomedRow
      <4>3. y \notin Cascade(rows, Doomed(rows, {slot}))
        BY <4>1, <4>2 DEF Cascade
      <4>4. PICK x \in L : KeyOf(x) = KeyOf(y)
        BY <4>3, RepairTrims DEF Live
      <4> QED
        BY <2>6, <4>4 DEF GrownBy, KeyOf
    <3> QED
      BY <3>1, <3>2
  <2>8. TopsCovered
    BY <2>7 DEF TopsCovered
  <2>9. SectionsKeepRows'
    <3>1. \A p \in Plan : serial'[p] > 0 => serial[p] > 0
      BY <2>3, <2>4
    <3> QED
      BY <2>1, <2>8, <3>1, SectionsStay
  <2> HIDE DEF L
  <2>10. HeldOK'
    <3>1. CASE Finish(w, "noop")
      BY <3>1, Finished, OwnHeld
    <3>2. CASE slot.section \in repeatable /\ Goto(w, next)
      <4>1. slot.section \in Repeats
        BY <3>2 DEF SoloInv
      <4>2. req'[w].pc = next /\ req'[w].row = req[w].row
        BY <3>2, WentOn
      <4>3. GoesOn(req[w], req'[w]) /\ req'[w].pc # "delete"
        BY <2>2, <4>1, <4>2 DEF GoesOn
      <4>4. CopyOK(req'[w], rows', status')
        BY <2>1, <2>6, <4>3, GrowCopy DEF GrownBy
      <4> QED
        BY <4>4, OwnHeld
    <3> QED
      BY <2>1, <3>1, <3>2
  <2> QED
    BY <2>1, <2>6, <2>9, <2>10, SameRepeats, GrowStep
<1> QED
  BY <1>1, <1>2

LEMMA AddSiblingSolo ==
    ASSUME TreeInv, SoloInv, OneWorker, NEW w \in Worker, AddSibling(w)
    PROVE  SoloInv' /\ Lossless
<1> DEFINE row == req[w].row
           skipped == {x \in Siblings(rows, SlotOf(row)) : x.skipped}
<1>1. UNCHANGED <<status, rows, serial, optional, repeatable>> /\ req[w].pc # "idle"
  BY DEF AddSibling
<1>2. req \in [Worker -> Request_] /\ req[w] \in Request_ /\ row \in Row
  BY <1>1, BusyRow DEF TreeInv, TypeOK
<1>3. CASE \E result : Finish(w, result)
  BY <1>1, <1>3, EndSolo
<1>4. CASE /\ row.section \in repeatable /\ skipped # {}
           /\ req' = [req EXCEPT ![w].pc = "unskip", ![w].row = FirstOf(skipped)]
  <2>1. skipped \subseteq Row /\ skipped \subseteq rows
    BY DEF Siblings, TreeInv, TypeOK
  <2>2. FirstOf(skipped) \in skipped
    <3> HIDE DEF skipped
    <3> QED
      BY <1>4, <2>1, FirstOfRow
  <2>3. \A x \in skipped : x.skipped /\ x.section = row.section
    BY DEF Siblings, SlotOf
  <2> HIDE DEF skipped
  <2>4. req'[w].pc = "unskip" /\ req'[w].row = FirstOf(skipped)
    BY <1>2, <1>4 DEF Request_
  <2>5. row.section \in Repeats
    BY <1>4 DEF SoloInv
  <2>6. CopyOK(req'[w], rows, status)
    BY <2>1, <2>2, <2>3, <2>4, <2>5, LoadedCopy
  <2> QED
    BY <1>1, <2>6, QuietOwn
<1>5. CASE /\ row.section \in repeatable
           /\ \E n : req' = [req EXCEPT ![w].pc = "create", ![w].row.ident = n]
  <2>1. PICK n : req' = [req EXCEPT ![w].pc = "create", ![w].row.ident = n]
    BY <1>5
  <2>2. req'[w].pc = "create" /\ req'[w].row = [row EXCEPT !.ident = n]
    BY <1>2, <2>1 DEF Request_
  <2>3. /\ KeyOf(req'[w].row) = KeyOf(row) /\ req'[w].row.section = row.section
        /\ req'[w].row.filled = row.filled /\ req'[w].row.skipped = row.skipped
    BY <1>2, <2>2 DEF Row, KeyOf
  <2>4. row.section \in Repeats
    BY <1>5 DEF SoloInv
  <2>5. CopyFresh(req[w], rows)
    BY <1>1 DEF SoloInv, HeldOK, CopyOK
  <2>6. CopyOK(req'[w], rows, status)
    BY <2>2, <2>3, <2>4, <2>5 DEF CopyOK, CopyFresh, CopyPlaced, OtherLeft
  <2> QED
    BY <1>1, <2>6, QuietOwn
<1> QED
  BY <1>3, <1>4, <1>5 DEF AddSibling

LEMMA RemoveCountSolo ==
    ASSUME TreeInv, SoloInv, OneWorker, NEW w \in Worker, RemoveCount(w)
    PROVE  SoloInv' /\ Lossless
<1> DEFINE row == req[w].row
           G == Siblings(rows, SlotOf(row))
           pc == IF OnlyRowLeft(G) THEN "convert" ELSE "delete"
<1>1. /\ UNCHANGED <<status, rows, serial, optional, repeatable>>
      /\ req[w].pc = "remove_count" /\ Goto(w, pc)
  BY DEF RemoveCount
<1>2. req'[w].pc = pc /\ req'[w].row = row
  BY <1>1, WentOn
<1>3. CopyOK(req[w], rows, status) /\ row.section \in Repeats
  BY <1>1 DEF SoloInv, HeldOK, CopyOK, CopyPlaced
<1>4. ASSUME pc = "delete", status[row.plan] = "live", Super[row.section] = NoSection
      PROVE  \E r \in rows : /\ r.plan = row.plan /\ r.section = row.section
                             /\ KeyOf(r) # KeyOf(row)
  <2>1. Cardinality(G) # 1
    BY <1>4 DEF OnlyRowLeft
  <2>2. /\ row \in Row /\ Placed(row) /\ row.section \in Section /\ row.plan \in Plan
        /\ serial[row.plan] > 0
    BY <1>1, BusyRow DEF Numbered, Row, TreeInv, TypeOK
  <2>3. PICK y \in rows : y.plan = row.plan /\ y.section = row.section
    BY <1>4, <2>2 DEF SoloInv, SectionsKeepRows
  <2>4. y.parent = NoRow /\ row.parent = NoRow
    BY <1>4, <2>2, <2>3, TopRow DEF Placed
  <2>5. y \in G
    BY <2>3, <2>4 DEF Siblings, SlotOf
  <2>6. G # {y}
    BY <2>1, OneElement
  <2>7. PICK z \in G : z # y
    BY <2>5, <2>6
  <2>8. z \in rows /\ z.plan = row.plan /\ z.section = row.section /\ KeyOf(z) # KeyOf(y)
    BY <2>7 DEF Siblings, SlotOf, SoloInv, KeysUnique
  <2> QED
    BY <2>3, <2>8
<1> HIDE DEF G
<1>5. CopyFresh(req'[w], rows)
  BY <1>2, <1>3 DEF CopyOK, CopyFresh
<1>6. CopyPlaced(req'[w], rows, status)
  BY <1>2, <1>3 DEF CopyPlaced
<1>7. OtherLeft(req'[w], rows, status)
  BY <1>2, <1>4 DEF OtherLeft
<1> QED
  BY <1>1, <1>5, <1>6, <1>7, QuietOwn DEF CopyOK

(* One save of the row the worker holds: only a request to convert it may  *)
(* clear what it holds.                                                    *)
LEMMA SaveSolo ==
    ASSUME TreeInv, SoloInv, OneWorker, NEW w \in Worker, req[w].pc # "idle",
           NEW r \in Row, Twin(r, req[w].row), r.skipped => ~r.filled,
           req[w].row.filled => r.filled \/ req[w].pc = "convert",
           SaveRow(w, r)
    PROVE  SoloInv' /\ Lossless
<1>1. CASE Refused(w)
  BY <1>1, RefusedSolo
<1>2. CASE ~Refused(w)
  <2> DEFINE row == req[w].row
             new == [r EXCEPT !.ident = GetIdentifier(rows, r)]
  <2>1. /\ Accepts(rows, new) /\ rows' = Saved(rows, r) /\ Finish(w, "ok")
        /\ UNCHANGED <<status, serial, optional, repeatable>>
    BY <1>2 DEF SaveRow, SaveAccepted
  <2>2. /\ Twin(new, r) /\ SlotOf(new) = SlotOf(r) /\ new.parent = r.parent
        /\ new.skipped = r.skipped /\ new.filled = r.filled /\ new.plan = r.plan
    BY DEF Row, Twin, KeyOf, SlotOf
  <2>3. rows' = {x \in rows : KeyOf(x) # KeyOf(r)} \union {new}
    BY <2>1 DEF Saved
  <2>4. status[r.plan] = "live" /\ (r.parent = NoRow \/ Live(rows, r.parent))
    BY <2>1, <2>2 DEF Accepts
  <2> HIDE DEF new
  <2>5. /\ row \in Known /\ CopyOK(req[w], rows, status)
        /\ KeyOf(row) = KeyOf(r) /\ row.parent = r.parent /\ row.section = r.section
        /\ row.plan = r.plan /\ SlotOf(row) = SlotOf(r) /\ SlotOf(new) = SlotOf(row)
        /\ KeyOf(new) = KeyOf(r) /\ new.section = r.section
    BY <2>2, BusyRow, SameSlot DEF SoloInv, HeldOK, Twin
  <2>6. KeysUnique'
    BY <2>2, <2>3 DEF SoloInv, KeysUnique, Twin
  <2>7. SkippedHoldsNoAnswers'
    BY <2>2, <2>3 DEF SoloInv, SkippedHoldsNoAnswers
  <2>8. ASSUME NEW b \in rows, KeyOf(b) # KeyOf(r), SlotOf(b) = SlotOf(new),
               b.section \notin Repeats
        PROVE  FALSE
    <3>1. row.section \notin Repeats
      BY <2>5, <2>8 DEF SlotOf
    <3>2. Live(rows, KeyOf(row))
      BY <2>4, <2>5, <3>1 DEF CopyOK, CopyPlaced, NotRevived
    <3>3. PICK y \in rows : KeyOf(y) = KeyOf(row)
      BY <3>2 DEF Live
    <3>4. y.parent = row.parent
      BY <2>5, <3>3, KnownFacts DEF Coherent
    <3>5. SlotOf(y) = SlotOf(b)
      BY <2>5, <2>8, <3>3, <3>4 DEF SlotOf, KeyOf
    <3> QED
      BY <2>5, <2>8, <3>3, <3>5 DEF SoloInv, SingletonHasOneRow, Repeats
  <2>9. ASSUME NEW a \in rows', NEW b \in rows', SlotOf(a) = SlotOf(b),
               a.section \notin Repeats
        PROVE  a = b
    <3>1. b.section \notin Repeats
      BY <2>9 DEF SlotOf
    <3>2. CASE a \in rows /\ b \in rows
      BY <2>9, <3>2 DEF SoloInv, SingletonHasOneRow, Repeats
    <3>3. CASE a = new \/ b = new
      BY <2>3, <2>8, <2>9, <3>1, <3>3
    <3> QED
      BY <2>3, <3>2, <3>3
  <2>10. SingletonHasOneRow'
    BY <2>9 DEF SingletonHasOneRow, Repeats
  <2>11. \A x \in rows : Live(rows', KeyOf(x))
    BY <2>3, <2>5 DEF Live
  <2>12. TopsCovered
    BY <2>11 DEF TopsCovered, Live, KeyOf
  <2>13. SectionsKeepRows'
    BY <2>1, <2>12, SectionsStay
  <2>14. HeldOK'
    BY <2>1, Finished, OwnHeld
  <2>15. ASSUME NEW x \in rows, x.filled, \A y \in rows' : KeyOf(y) = KeyOf(x) => ~y.filled
         PROVE  RequestedBy(w, x)
    <3>1. KeyOf(x) = KeyOf(r)
      BY <2>3, <2>15
    <3>2. ~r.filled
      BY <2>2, <2>3, <2>5, <2>15, <3>1
    <3>3. row.filled
      BY <2>5, <2>15, <3>1 DEF CopyOK, CopyFresh
    <3> QED
      BY <2>5, <3>1, <3>2, <3>3 DEF RequestedBy
  <2>16. Lossless
    BY <2>15 DEF Lossless
  <2>17. repeatable' \subseteq Repeats
    BY <2>1, SameRepeats
  <2> QED
    BY <2>6, <2>7, <2>10, <2>13, <2>14, <2>16, <2>17 DEF SoloInv, Repeats
<1> QED
  BY <1>1, <1>2

LEMMA AddCreateSolo ==
    ASSUME TreeInv, SoloInv, OneWorker, NEW w \in Worker, AddCreate(w)
    PROVE  SoloInv' /\ Lossless
<1>1. CASE Refused(w)
  BY <1>1, RefusedSolo
<1>2. CASE ~Refused(w)
  <2>1. PICK slot, f, N, M :
          /\ Created(w, slot, f, N, M)
          /\ rows' = rows \union M
          /\ serial' = [serial EXCEPT ![slot.plan] = @ + 1]
          /\ Finish(w, "ok")
          /\ UNCHANGED <<status, optional, repeatable>>
    BY <1>2, AddCreateCases
  <2>2. req[w].pc = "create" /\ req[w].pc # "idle"
    BY AddCreateCases
  <2>3. /\ slot.plan \in Plan /\ SlotsPlaced(rows, {slot}, slot.plan)
        /\ f \in Numberings({slot}, serial[slot.plan])
        /\ N \subseteq Row
        /\ N = NewRows(rows, {slot}, f, "create")
        /\ M = {Counted(w, r) : r \in N}
        /\ slot = SlotOf(req[w].row)
    <3>1. /\ N = NewRows(rows, {slot}, f, "create")
          /\ M = {Counted(w, r) : r \in N}
          /\ slot = SlotOf(req[w].row)
      BY <2>1 DEF Created
    <3>2. /\ slot.plan \in Plan /\ SlotsPlaced(rows, {slot}, slot.plan)
          /\ f \in Numberings({slot}, serial[slot.plan])
          /\ N \subseteq Row
      BY <2>1, <2>2, CreatedRows
    <3> QED
      BY <3>1, <3>2
  <2>4. /\ slot.section \in Repeats
        /\ slot.plan = req[w].row.plan /\ serial[slot.plan] > 0 /\ serial \in [Plan -> Nat]
    <3>1. slot.section = req[w].row.section /\ slot.plan = req[w].row.plan
      BY <2>3 DEF SlotOf
    <3>2. req[w].row.section \in Repeats
      BY <2>2 DEF SoloInv, HeldOK, CopyOK, CopyPlaced
    <3>3. serial[slot.plan] > 0 /\ serial \in [Plan -> Nat]
      BY <2>2, <2>3, <3>1, BusyRow DEF Numbered, Row, TreeInv, TypeOK
    <3> QED
      BY <3>1, <3>2, <3>3
  <2>5. Trimmed(rows) /\ SkipsOnlyDrop(rows) /\ TopsStay(rows)
    BY NothingTrimmed
  <2>6. Fresh(N, rows)
    BY <2>3, <2>4, <2>5, FreshRows DEF Trimmed
  <2>7. ASSUME NEW r \in N
        PROVE  /\ Twin(Counted(w, r), r) /\ SlotOf(Counted(w, r)) = SlotOf(r)
               /\ Counted(w, r).filled = r.filled /\ Counted(w, r).skipped = r.skipped
    <3>1. req[w].row.ident \in Identifier
      BY <2>2, BusyRow DEF Row
    <3> QED
      BY <2>3, <3>1, CountedTwin, SameSlot
  <2>8. Fresh(M, rows)
    <3>1. \A x \in M : \E r \in N : /\ x = Counted(w, r) /\ KeyOf(x) = KeyOf(r)
                                  /\ SlotOf(x) = SlotOf(r) /\ x.section = r.section
                                  /\ x.filled = r.filled /\ x.skipped = r.skipped
      <4> SUFFICES ASSUME NEW x \in M
                   PROVE  \E r \in N : /\ x = Counted(w, r) /\ KeyOf(x) = KeyOf(r)
                                       /\ SlotOf(x) = SlotOf(r) /\ x.section = r.section
                                       /\ x.filled = r.filled /\ x.skipped = r.skipped
        OBVIOUS
      <4>1. PICK r \in N : x = Counted(w, r)
        BY <2>3
      <4> QED
        BY <2>7, <4>1 DEF Twin
    <3>2. Unknown(M) /\ \A x \in M : x.skipped => ~x.filled
      BY <2>6, <3>1 DEF Fresh, Unknown
    <3>3. \A a, b \in M : KeyOf(a) = KeyOf(b) => a = b
      BY <2>6, <3>1 DEF Fresh
    <3>4. ASSUME NEW a \in M, a.section \notin Repeats
          PROVE  /\ \A b \in M : SlotOf(a) = SlotOf(b) => a = b
                 /\ \A b \in rows : SlotOf(a) # SlotOf(b)
      BY <2>6, <3>1, <3>4 DEF Fresh
    <3> QED
      BY <3>2, <3>3, <3>4 DEF Fresh
  <2>9. GrownBy(rows, M) /\ rows \subseteq rows'
    BY <2>1, <2>5, <2>8 DEF GrownBy
  <2>10. HeldOK'
    BY <2>1, Finished, OwnHeld
  <2>11. SectionsKeepRows'
    <3>1. \A p \in Plan : serial'[p] > 0 => serial[p] > 0
      BY <2>1, <2>4
    <3> QED
      BY <2>1, <2>5, <2>9, <3>1, TopsRemain, SectionsStay
  <2> QED
    BY <2>1, <2>9, <2>10, <2>11, SameRepeats, GrowStep
<1> QED
  BY <1>1, <1>2

LEMMA RemoveDeleteSolo ==
    ASSUME TreeInv, SoloInv, OneWorker, NEW w \in Worker, RemoveDelete(w)
    PROVE  SoloInv' /\ Lossless
<1> DEFINE row == req[w].row
           gone == Cascade(rows, RowsOf(rows, KeyOf(row)))
<1>1. /\ req[w].pc = "delete" /\ rows' = rows \ gone /\ Finish(w, "ok")
      /\ UNCHANGED <<status, serial, optional, repeatable>>
  BY DEF RemoveDelete
<1>2. \A y \in gone : KeyOf(y) = KeyOf(row) \/ KeyOf(row) \in y.anc
  BY DEF Cascade, RowsOf
<1>3. OtherLeft(req[w], rows, status)
  BY <1>1 DEF SoloInv, HeldOK, CopyOK
<1> HIDE DEF gone
<1>4. KeysUnique' /\ SkippedHoldsNoAnswers' /\ SingletonHasOneRow'
  BY <1>1 DEF SoloInv, KeysUnique, SkippedHoldsNoAnswers, SingletonHasOneRow
<1>5. \A y \in rows : Super[y.section] = NoSection /\ KeyOf(y) # KeyOf(row) => y \in rows'
  BY <1>1, <1>2, TopRow
<1>6. ASSUME NEW p \in Plan, NEW s \in Section,
             status'[p] = "live", serial'[p] > 0, Super[s] = NoSection
      PROVE  \E r \in rows' : r.plan = p /\ r.section = s
  <2>1. PICK y \in rows : y.plan = p /\ y.section = s
    BY <1>1, <1>6 DEF SoloInv, SectionsKeepRows
  <2>2. CASE KeyOf(y) # KeyOf(row)
    BY <1>5, <1>6, <2>1, <2>2
  <2>3. CASE KeyOf(y) = KeyOf(row)
    <3>1. row.plan = p /\ row.section = s
      BY <2>1, <2>3 DEF KeyOf
    <3>2. PICK r \in rows : /\ r.plan = row.plan /\ r.section = row.section
                            /\ KeyOf(r) # KeyOf(row)
      BY <1>1, <1>3, <1>6, <3>1 DEF OtherLeft
    <3> QED
      BY <1>5, <1>6, <3>1, <3>2
  <2> QED
    BY <2>2, <2>3
<1>7. SectionsKeepRows'
  BY <1>6 DEF SectionsKeepRows
<1>8. HeldOK'
  BY <1>1, Finished, OwnHeld
<1>9. Lossless
  <2>1. ASSUME NEW r \in rows, r.filled,
               \A x \in rows' : KeyOf(x) = KeyOf(r) => ~x.filled
        PROVE  RequestedBy(w, r)
    <3>1. r \in gone
      BY <1>1, <2>1
    <3> QED
      BY <1>1, <1>2, <3>1 DEF RequestedBy
  <2> QED
    BY <2>1 DEF Lossless
<1>10. repeatable' \subseteq Repeats
  BY <1>1, SameRepeats
<1> QED
  BY <1>4, <1>7, <1>8, <1>9, <1>10 DEF SoloInv, Repeats

LEMMA ValidateSaveSolo ==
    ASSUME TreeInv, SoloInv, OneWorker, NEW w \in Worker, ValidateSave(w)
    PROVE  SoloInv' /\ Lossless
<1> DEFINE row == req[w].row
           skips == row.skipped /\ row.section \in optional
           write(r) == IF KeyOf(r) = KeyOf(row) THEN [r EXCEPT !.skipped = skips] ELSE r
           L == {write(r) : r \in rows}
<1>1. CASE Refused(w)
  BY <1>1, RefusedSolo
<1>2. CASE ~Refused(w)
  <2>1. /\ req[w].pc = "validate" /\ rows' = L /\ Finish(w, "ok")
        /\ UNCHANGED <<status, serial, optional, repeatable>>
    BY <1>2 DEF ValidateSave
  <2>2. CopyFresh(req[w], rows)
    BY <2>1 DEF SoloInv, HeldOK, CopyOK
  <2>3. ASSUME NEW r \in rows
        PROVE  Keeps(write(r), r)
    <3>1. r \in Row
      BY DEF TreeInv, TypeOK
    <3>2. CASE KeyOf(r) = KeyOf(row)
      <4>1. write(r) = [r EXCEPT !.skipped = skips]
        BY <3>2
      <4>2. Twin(write(r), r) /\ write(r).filled = r.filled /\ write(r).skipped = skips
        BY <3>1, <4>1 DEF Row, Twin, KeyOf
      <4>3. skips => ~r.filled
        BY <2>2, <3>2 DEF CopyFresh
      <4> HIDE DEF skips, write
      <4> QED
        BY <4>2, <4>3 DEF Keeps
    <3>3. CASE KeyOf(r) # KeyOf(row)
      BY <3>3, TwinSelf DEF Keeps, SoloInv, SkippedHoldsNoAnswers
    <3> QED
      BY <3>2, <3>3
  <2> HIDE DEF write
  <2>4. /\ \A x \in L : \E y \in rows : Keeps(x, y)
        /\ \A y \in rows : Live(L, KeyOf(y))
        /\ \A a, b \in L : KeyOf(a) = KeyOf(b) => a = b
    BY <2>3 DEF Keeps, Twin, Live, SoloInv, KeysUnique
  <2> HIDE DEF L
  <2>5. Trimmed(L)
    BY <2>4 DEF Trimmed
  <2>6. Fresh({}, L) /\ rows' = L \union {}
    BY <2>1 DEF Fresh, Unknown
  <2>7. KeysUnique' /\ SkippedHoldsNoAnswers' /\ SingletonHasOneRow' /\ NothingLost
    BY <2>5, <2>6, GrowRows
  <2>8. TopsCovered
    BY <2>1, <2>4, TopsRemain DEF TopsStay
  <2>9. SectionsKeepRows'
    BY <2>1, <2>8, SectionsStay
  <2>10. HeldOK'
    BY <2>1, Finished, OwnHeld
  <2>11. Lossless
    BY <2>7 DEF NothingLost, Lossless
  <2>12. repeatable' \subseteq Repeats
    BY <2>1, SameRepeats
  <2> QED
    BY <2>7, <2>9, <2>10, <2>11, <2>12 DEF SoloInv, Repeats
<1> QED
  BY <1>1, <1>2

LEMMA AddUnskipSolo ==
    ASSUME TreeInv, SoloInv, OneWorker, NEW w \in Worker, AddUnskip(w)
    PROVE  SoloInv' /\ Lossless
<1> DEFINE row == req[w].row
           r == Unskipped(row)
<1>1. req[w].pc = "unskip" /\ SaveRow(w, r)
  BY DEF AddUnskip
<1>2. r \in Row /\ Twin(r, row) /\ ~r.skipped /\ r.filled = row.filled
  BY <1>1, BusyRow DEF Row, Twin, KeyOf, Unskipped
<1> HIDE DEF r
<1> QED
  BY <1>1, <1>2, SaveSolo

LEMMA RemoveConvertSolo ==
    ASSUME TreeInv, SoloInv, OneWorker, NEW w \in Worker, RemoveConvert(w)
    PROVE  SoloInv' /\ Lossless
<1> DEFINE row == req[w].row
           r == [row EXCEPT !.skipped = TRUE, !.filled = FALSE, !.name = NoName]
<1>1. req[w].pc = "convert" /\ SaveRow(w, r)
  BY DEF RemoveConvert
<1>2. r \in Row /\ Twin(r, row) /\ ~r.filled
  BY <1>1, BusyRow DEF Row, Twin, KeyOf
<1> HIDE DEF r
<1> QED
  BY <1>1, <1>2, SaveSolo

LEMMA AnswerSaveSolo ==
    ASSUME TreeInv, SoloInv, OneWorker, NEW w \in Worker, AnswerSave(w)
    PROVE  SoloInv' /\ Lossless
<1> DEFINE row == req[w].row
           names == IF row.section \in Named THEN Name \union {row.name} ELSE {NoName}
           saved(name) == [Unskipped(row) EXCEPT !.filled = TRUE, !.name = name]
<1>1. req[w].pc = "answer"
  BY DEF AnswerSave
<1>2. PICK name \in names : SaveRow(w, saved(name))
  BY DEF AnswerSave
<1>3. row \in Row /\ name \in Name \union {NoName}
  BY <1>1, BusyRow DEF Row
<1>4. saved(name) \in Row /\ Twin(saved(name), row) /\ ~saved(name).skipped
      /\ saved(name).filled
  BY <1>3 DEF Row, Twin, KeyOf, Unskipped
<1> HIDE DEF saved
<1> QED
  BY <1>1, <1>2, <1>4, SaveSolo

LEMMA RequestSolo ==
    ASSUME TreeInv, SoloInv, OneWorker, NEW w \in Worker, Request(w)
    PROVE  SoloInv' /\ Lossless
<1>1. CASE AddFix(w) \/ RemoveFix(w)
  BY <1>1, FixSolo DEF AddFix, RemoveFix
<1>2. CASE AddSibling(w)
  BY <1>2, AddSiblingSolo
<1>3. CASE AddUnskip(w)
  BY <1>3, AddUnskipSolo
<1>4. CASE AddCreate(w)
  BY <1>4, AddCreateSolo
<1>5. CASE RemoveCount(w)
  BY <1>5, RemoveCountSolo
<1>6. CASE RemoveConvert(w)
  BY <1>6, RemoveConvertSolo
<1>7. CASE RemoveDelete(w)
  BY <1>7, RemoveDeleteSolo
<1>8. CASE AnswerSave(w)
  BY <1>8, AnswerSaveSolo
<1>9. CASE AnswerUnchanged(w)
  BY <1>9, EndSolo DEF AnswerUnchanged
<1>10. CASE ValidateSave(w)
  BY <1>10, ValidateSaveSolo
<1>11. CASE Crash(w)
  BY <1>11, EndSolo DEF Crash
<1> QED
  BY <1>1, <1>2, <1>3, <1>4, <1>5, <1>6, <1>7, <1>8, <1>9, <1>10, <1>11 DEF Request

LEMMA SoloInit == Init => SoloInv
<1> SUFFICES ASSUME Init PROVE SoloInv
  OBVIOUS
<1>1. rows = {} /\ \A p \in Plan : serial[p] = 0
  BY DEF Init
<1>2. \A w \in Worker : req[w].pc = "idle"
  BY DEF Init, Idle
<1>3. repeatable \subseteq Repeats
  BY DEF Init, Repeats
<1> QED
  BY <1>1, <1>2, <1>3
  DEF SoloInv, KeysUnique, SkippedHoldsNoAnswers, SingletonHasOneRow, SectionsKeepRows, HeldOK

LEMMA SoloStep ==
    ASSUME TreeInv, SoloInv, OneWorker, [Next]_vars
    PROVE  SoloInv' /\ Lossless
<1>1. ASSUME NEW p \in Plan, CreatePlan(p) \/ DeletePlan(p) \/ AddMissingAnswersets(p)
      PROVE  SoloInv' /\ Lossless
  BY <1>1, CreatePlanSolo, DeletePlanSolo, AddMissingSolo
<1>2. ASSUME NEW p \in Plan, NEW q \in Plan, ClonePlan(p, q)
      PROVE  SoloInv' /\ Lossless
  BY <1>2, ClonePlanSolo
<1>3. ASSUME NEW r \in rows, FixChildren(r)
      PROVE  SoloInv' /\ Lossless
  BY <1>3, FixChildrenSolo
<1>4. ASSUME NEW s \in Section, EditOptional(s) \/ EditRepeatable(s)
      PROVE  SoloInv' /\ Lossless
  BY <1>4, EditSolo
<1>5. ASSUME NEW w \in Worker, Request(w)
      PROVE  SoloInv' /\ Lossless
  BY <1>5, RequestSolo
<1>6. ASSUME NEW w \in Worker, NEW r \in rows, NewRequest(w, r)
      PROVE  SoloInv' /\ Lossless
  BY <1>6, LoadSolo
  DEF NewRequest, AddAnswerSet, AdminAddSibling, RemoveAnswerSet, Answer, Validate
<1>7. CASE UNCHANGED vars
  <2>1. HeldOK' /\ repeatable' \subseteq Repeats
    BY <1>7 DEF vars, SoloInv, HeldOK, CopyOK, CopyFresh, CopyPlaced, OtherLeft
  <2> QED
    BY <1>7, <2>1, QuietSolo DEF vars
<1> QED
  BY <1>1, <1>2, <1>3, <1>4, <1>5, <1>6, <1>7 DEF Next

LEMMA SoloInvariant ==
    ASSUME OneWorker
    PROVE  Spec => [](TreeInv /\ SoloInv)
<1>1. SoloInv /\ TreeInv /\ [Next]_vars => SoloInv'
  BY SoloStep
<1> QED
  BY <1>1, SoloInit, TreeInvariant, PTL DEF Spec

(* With requests that do not overlap, a skipped row holds no answers: what *)
(* a user wrote is never hidden by a flag, whatever is repaired, copied,   *)
(* converted or edited between the load and the save of a row.             *)
THEOREM SkippedHoldNothing == OneWorker => (Spec => []SkippedHoldsNoAnswers)
<1> SUFFICES ASSUME OneWorker PROVE Spec => []SkippedHoldsNoAnswers
  OBVIOUS
<1>1. TreeInv /\ SoloInv => SkippedHoldsNoAnswers
  BY DEF SoloInv
<1> QED
  BY <1>1, SoloInvariant, PTL

(* With requests that do not overlap, a section that never was repeatable  *)
(* has at most one row under each parent, although a row that was removed  *)
(* under a waiting request is inserted again by its save.                  *)
THEOREM SingletonsStaySingle == OneWorker => (Spec => []SingletonHasOneRow)
<1> SUFFICES ASSUME OneWorker PROVE Spec => []SingletonHasOneRow
  OBVIOUS
<1>1. TreeInv /\ SoloInv => SingletonHasOneRow
  BY DEF SoloInv
<1> QED
  BY <1>1, SoloInvariant, PTL

(* With requests that do not overlap, a plan that got its rows keeps one   *)
(* for each top-level section: what was counted before a row is deleted    *)
(* still holds when it is.                                                 *)
THEOREM SectionsStayCovered == OneWorker => (Spec => []SectionsKeepRows)
<1> SUFFICES ASSUME OneWorker PROVE Spec => []SectionsKeepRows
  OBVIOUS
<1>1. TreeInv /\ SoloInv => SectionsKeepRows
  BY DEF SoloInv
<1> QED
  BY <1>1, SoloInvariant, PTL

(* With requests that do not overlap, answers disappear only with their    *)
(* plan, on a request to remove their row or one above it, or beneath a    *)
(* row without answers that fix_answersets removed.                        *)
THEOREM AnswersStay == OneWorker => (Spec => AnswersLostOnlyOnRequest)
<1> SUFFICES ASSUME OneWorker PROVE Spec => AnswersLostOnlyOnRequest
  OBVIOUS
<1>1. TreeInv /\ SoloInv /\ [Next]_vars => [Lossless]_vars
  BY SoloStep
<1> QED
  BY <1>1, SoloInvariant, PTL DEF Spec, AnswersLostOnlyOnRequest, Lossless
===========================================================================
