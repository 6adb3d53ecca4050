--------------------------- MODULE QuestionProofs ---------------------------
(***************************************************************************)
(* Proofs about QuestionTypes and CannedTexts, for any keys and any number *)
(* of rows: what a form accepts is kept and is valid when it is validated  *)
(* later, a request fails only over blanks, and an answer is told. Then    *)
(* about Summaries, for any plans that fit their template: a page that     *)
(* shows a whole plan is whole.                                            *)
(***************************************************************************)
EXTENDS CannedTexts, Summaries, FiniteSetTheorems, WellFoundedInduction, TLAPS

-----------------------------------------------------------------------------
(* Numbers in their order.                                                 *)

(* The rows that serialize keeps are counted from the first to the last:   *)
(* each of them has a place.                                               *)
LEMMA NthIsOnto ==
  ASSUME NEW S, S \subseteq Nat, IsFiniteSet(S)
  PROVE  /\ Cardinality(S) \in Nat
         /\ \A n \in 1..Cardinality(S) : Nth(S, n) \in S
         /\ \A i \in S : \E n \in 1..Cardinality(S) : Nth(S, n) = i
<1> DEFINE Below(i) == {j \in S : j <= i}
           rank == [i \in S |-> Cardinality(Below(i))]
<1>1. Cardinality(S) \in Nat
  BY FS_CardinalityType
<1>2. \A i \in S : /\ IsFiniteSet(Below(i))
                   /\ Cardinality(Below(i)) \in 1..Cardinality(S)
  <2> SUFFICES ASSUME NEW i \in S
               PROVE  /\ IsFiniteSet(Below(i))
                      /\ Cardinality(Below(i)) \in 1..Cardinality(S)
    OBVIOUS
  <2>1. Below(i) \in SUBSET S /\ i \in Below(i)
    OBVIOUS
  <2>2. IsFiniteSet(Below(i)) /\ Cardinality(Below(i)) <= Cardinality(S)
    BY <2>1, FS_Subset
  <2>3. Cardinality(Below(i)) \in Nat /\ Cardinality(Below(i)) # 0
    BY <2>1, <2>2, FS_CardinalityType, FS_EmptySet
  <2> HIDE DEF Below
  <2> QED
    BY <1>1, <2>2, <2>3
<1>3. \A i, j \in S : i < j => Cardinality(Below(i)) < Cardinality(Below(j))
  <2> SUFFICES ASSUME NEW i \in S, NEW j \in S, i < j
               PROVE  Cardinality(Below(i)) < Cardinality(Below(j))
    OBVIOUS
  <2>1. Below(i) \in SUBSET Below(j)
    <3>1. \A k \in S : k <= i => k <= j
      OBVIOUS
    <3> QED
      BY <3>1
  <2>2. j \in Below(j) /\ j \notin Below(i)
    OBVIOUS
  <2>3. /\ Cardinality(Below(i)) <= Cardinality(Below(j))
        /\ Cardinality(Below(j)) = Cardinality(Below(i)) => Below(j) = Below(i)
    BY <1>2, <2>1, FS_Subset
  <2>4. Cardinality(Below(i)) \in 1..Cardinality(S) /\ Cardinality(Below(j)) \in 1..Cardinality(S)
    BY <1>2
  <2> HIDE DEF Below
  <2> QED
    BY <1>1, <2>2, <2>3, <2>4
<1> HIDE DEF Below
<1>4. rank \in [S -> 1..Cardinality(S)]
  BY <1>2
<1>5. rank \in Injection(S, 1..Cardinality(S))
  <2>1. \A i, j \in S : rank[i] = rank[j] => i = j
    BY <1>1, <1>2, <1>3
  <2> HIDE DEF rank
  <2> QED
    BY <1>4, <2>1 DEF Injection, IsInjective
<1>6. rank \in Surjection(S, 1..Cardinality(S))
  <2>1. IsFiniteSet(1..Cardinality(S)) /\ Cardinality(1..Cardinality(S)) = Cardinality(S)
    BY <1>1, FS_Interval
  <2> HIDE DEF rank
  <2> QED
    BY <1>5, <2>1, FS_Injection
<1>7. \A n \in 1..Cardinality(S) : \E i \in S : rank[i] = n
  <2> HIDE DEF rank
  <2> QED
    BY <1>6 DEF Surjection
<1>8. \A n \in 1..Cardinality(S) : Nth(S, n) \in S /\ rank[Nth(S, n)] = n
  BY <1>7 DEF Nth, Below
<1>9. \A i \in S : Nth(S, rank[i]) = i
  <2> SUFFICES ASSUME NEW i \in S
               PROVE  Nth(S, rank[i]) = i
    OBVIOUS
  <2>1. rank[i] \in 1..Cardinality(S)
    BY <1>4
  <2> HIDE DEF rank
  <2> QED
    BY <1>5, <1>8, <2>1 DEF Injection, IsInjective
<1> QED
  BY <1>1, <1>4, <1>8, <1>9

-----------------------------------------------------------------------------
(* Rows, and what the fields make of them.                                 *)

(* The types whose rows have one part and whose field is that of Django.   *)
Plain == Written \union Picked \union Several \union {"multistring"}

LEMMA PlainParts ==
  ASSUME NEW t \in Plain
  PROVE  Parts(t) = {"value"}
BY SMT DEF Plain, Parts, Written, Dated, Picked, AlwaysListed, Several, URLs, NotListed

LEMMA Types == \A t \in Type :
  \/ t \in Plain
  \/ t \in URLs
  \/ t \in NotListed
  \/ t \in {"daterange", "typedidentifier", "multirdacostonetext",
           "multidmptypedreasononetext", "storageforecast"}
BY DEF Type, Plain, URLs, FormSets

OfItsOwn == {"daterange", "typedidentifier", "multirdacostonetext", "multidmptypedreasononetext",
             "storageforecast", "multistring"}

(* validate_choice has one way for each type.                              *)
LEMMA KindsAreApart ==
  ASSUME NEW t
  PROVE  /\ t \in Written => t \notin Picked \union Several \union NotListed \union URLs \union OfItsOwn
         /\ t \in Picked => t \notin Written \union Several \union NotListed \union URLs \union OfItsOwn
         /\ t \in Several => t \notin Written \union Picked \union NotListed \union URLs \union OfItsOwn
         /\ t \in NotListed => t \notin Written \union Picked \union Several \union URLs \union OfItsOwn
         /\ t \in URLs => t \notin Written \union Picked \union Several \union NotListed \union OfItsOwn
<1> USE DEF Written, Dated, Picked, AlwaysListed, Several, NotListed, URLs, OfItsOwn
<1>1. t \in Written => t \notin Picked \union Several \union NotListed \union URLs \union OfItsOwn
  BY SMT
<1>2. t \in Picked => t \notin Written \union Several \union NotListed \union URLs \union OfItsOwn
  BY SMT
<1>3. t \in Several => t \notin Written \union Picked \union NotListed \union URLs \union OfItsOwn
  BY SMT
<1>4. t \in NotListed => t \notin Written \union Picked \union Several \union URLs \union OfItsOwn
  BY SMT
<1>5. t \in URLs => t \notin Written \union Picked \union Several \union NotListed \union OfItsOwn
  BY SMT
<1> QED
  BY <1>1, <1>2, <1>3, <1>4, <1>5

LEMMA RowHasParts ==
  ASSUME NEW t, NEW row \in Row(t)
  PROVE  DOMAIN row = Parts(t)
BY DEF Row

(* What a row that is taken has.                                           *)
GoodRow(t, required, keys, row) ==
  /\ ~Blank(row)
  /\ t \in Written => row.value # "" /\ ~(t = "positiveinteger" /\ row.value = "zero")
  /\ t \in Picked \union Several => row.value \in keys
  /\ t \in NotListed => /\ row.choices \in keys \union {""}
                        /\ row.choices # "" \/ row.not_listed # ""
  /\ t \in URLs => row.url # ""
  /\ t = "daterange" => ~Partial(row)
  /\ t = "typedidentifier" => row.type \in keys /\ (required => row.identifier # "")
  /\ t = "multirdacostonetext" => row.title # ""
  /\ t = "multidmptypedreasononetext" => (required => row.type # "" /\ row.reason # "")
  /\ t = "storageforecast" => row.storage_estimate # ""
  /\ t = "multistring" => row.value # ""

MayFail == URLs \union {"multirdacostonetext", "storageforecast"}

(* The fields, all of them: what they take is good, nothing is what is     *)
(* blank, but for a date range, and they fail only over blanks.            *)
CleanSays(t, required, keys, row, verdict) ==
  \/ verdict = "taken" /\ GoodRow(t, required, keys, row)
  \/ /\ verdict = "nothing" /\ ~required
     /\ Blank(row) \/ (t = "daterange" /\ Partial(row))
  \/ verdict = "refused"
  \/ verdict = "fails" /\ ~required /\ Blank(row) /\ t \in MayFail

LEMMA CleanIsSound ==
  ASSUME NEW t \in Type, NEW required \in BOOLEAN, NEW keys \in SUBSET Key, NEW row \in Row(t)
  PROVE  CleanSays(t, required, keys, row, Clean(t, required, keys, row))
<1> DEFINE v == Clean(t, required, keys, row)
<1>1. DOMAIN row = Parts(t)
  BY RowHasParts
<1>2. CASE t \in Plain
  <2>1. DOMAIN row = {"value"}
    BY <1>1, <1>2, PlainParts
  <2>2. v = ValueField(t, required, keys, row)
    BY <1>2, SMT DEF Clean, Plain, Written, Dated, Picked, AlwaysListed, Several, URLs, NotListed
  <2>3. t \notin NotListed \union URLs
            \union {"daterange", "typedidentifier", "multirdacostonetext",
                    "multidmptypedreasononetext", "storageforecast"}
    BY <1>2, SMT DEF Plain, Written, Dated, Picked, AlwaysListed, Several, URLs, NotListed
  <2> QED
    BY <2>1, <2>2, <2>3 DEF CleanSays, GoodRow, ValueField, BelowMinimum, Blank
<1>3. CASE t \in URLs
  <2>1. DOMAIN row = {"url", "name"}
    BY <1>1, <1>3, SMT DEF Parts, NotListed, URLs
  <2>2. v = NamedURLField(required, row)
    BY <1>3, SMT DEF Clean, NotListed, URLs
  <2>3. t \notin Written \union Picked \union Several \union NotListed
            \union {"daterange", "typedidentifier", "multirdacostonetext",
                    "multidmptypedreasononetext", "storageforecast", "multistring"}
    BY <1>3, SMT DEF Written, Dated, Picked, AlwaysListed, Several, URLs, NotListed
  <2> QED
    BY <1>3, <2>1, <2>2, <2>3 DEF CleanSays, GoodRow, NamedURLField, MultiValueField, Blank, MayFail
<1>4. CASE t \in NotListed
  <2>1. DOMAIN row = {"choices", "not_listed"}
    BY <1>1, <1>4, SMT DEF Parts, NotListed, URLs
  <2>2. v = ChoiceNotListedField(keys, row)
    BY <1>4, SMT DEF Clean, NotListed, URLs
  <2>3. t \notin Written \union Picked \union Several \union URLs
            \union {"daterange", "typedidentifier", "multirdacostonetext",
                    "multidmptypedreasononetext", "storageforecast", "multistring"}
    BY <1>4, SMT DEF Written, Dated, Picked, AlwaysListed, Several, URLs, NotListed
  <2> QED
    BY <1>4, <2>1, <2>2, <2>3 DEF CleanSays, GoodRow, ChoiceNotListedField, Blank
<1>5. CASE t = "daterange"
  <2>1. v = DateRangeField(required, row) /\ DOMAIN row = {"start", "end"}
    BY <1>1, <1>5, SMT DEF Clean, Parts, NotListed, URLs
  <2>3. t \notin Written \union Picked \union Several \union NotListed \union URLs
    BY <1>5, SMT DEF Written, Dated, Picked, AlwaysListed, Several, URLs, NotListed
  <2> QED
    BY <1>5, <2>1, <2>3 DEF CleanSays, GoodRow, DateRangeField, MultiValueField, Blank, Partial
<1>6. CASE t = "typedidentifier"
  <2>1. v = TypedIdentifierField(required, keys, row) /\ DOMAIN row = {"identifier", "type"}
    BY <1>1, <1>6, SMT DEF Clean, Parts, NotListed, URLs
  <2>2. row.type \in keys => ~Blank(row)
    BY <2>1, KeyAssumption DEF Blank
  <2>3. t \notin Written \union Picked \union Several \union NotListed \union URLs
    BY <1>6, SMT DEF Written, Dated, Picked, AlwaysListed, Several, URLs, NotListed
  <2> QED
    BY <1>6, <2>1, <2>2, <2>3 DEF CleanSays, GoodRow, TypedIdentifierField, MultiValueField, Partial
<1>7. CASE t = "multirdacostonetext"
  <2>1. v = RDACostField(required, row) /\ DOMAIN row = {"title", "description", "value"}
    BY <1>1, <1>7, SMT DEF Clean, Parts, NotListed, URLs
  <2>3. t \notin Written \union Picked \union Several \union NotListed \union URLs
    BY <1>7, SMT DEF Written, Dated, Picked, AlwaysListed, Several, URLs, NotListed
  <2> QED
    BY <1>7, <2>1, <2>3 DEF CleanSays, GoodRow, RDACostField, MultiValueField, Blank, MayFail
<1>8. CASE t = "multidmptypedreasononetext"
  <2>1. v = DMPTypedReasonField(required, row) /\ DOMAIN row = {"type", "reason", "url"}
    BY <1>1, <1>8, SMT DEF Clean, Parts, NotListed, URLs
  <2>3. t \notin Written \union Picked \union Several \union NotListed \union URLs
    BY <1>8, SMT DEF Written, Dated, Picked, AlwaysListed, Several, URLs, NotListed
  <2> QED
    BY <1>8, <2>1, <2>3 DEF CleanSays, GoodRow, DMPTypedReasonField, MultiValueField, Blank, Partial
<1>9. CASE t = "storageforecast"
  <2>1. v = StorageForecastField(required, row) /\ DOMAIN row = {"storage_estimate"}
    BY <1>1, <1>9, SMT DEF Clean, Parts, NotListed, URLs
  <2>3. t \notin Written \union Picked \union Several \union NotListed \union URLs
    BY <1>9, SMT DEF Written, Dated, Picked, AlwaysListed, Several, URLs, NotListed
  <2> QED
    BY <1>9, <2>1, <2>3 DEF CleanSays, GoodRow, StorageForecastField, Blank, MayFail
<1> QED
  BY <1>2, <1>3, <1>4, <1>5, <1>6, <1>7, <1>8, <1>9, Types

-----------------------------------------------------------------------------
(* Posts, and what becomes of them.                                        *)

PostShape(t, post) ==
  /\ post.rows \in Seq(Row(t))
  /\ post.deleted \subseteq DOMAIN post.rows
  /\ t \in FormSets => Len(post.rows) > 0
  /\ t \notin FormSets => post.deleted = {}
  /\ t \notin FormSets \union Several => Len(post.rows) = 1

LEMMA SetsBecomeSequences ==
  ASSUME NEW S, IsFiniteSet(S)
  PROVE  SetToSeq(S) \in Seq(S)
<1>1. Cardinality(S) \in Nat /\ Bijection(1..Cardinality(S), S) # {}
  BY FS_CardinalityType DEF ExistsBijection
<1>2. \E f \in [1..Cardinality(S) -> S] : IsInjective(f)
  BY <1>1 DEF Bijection, Injection
<1>3. SetToSeq(S) \in [1..Cardinality(S) -> S]
  BY <1>2 DEF SetToSeq
<1> QED
  BY <1>1, <1>3

LEMMA Posted ==
  ASSUME NEW t \in Type, NEW post \in Post(t)
  PROVE  PostShape(t, post)
<1>1. CASE t \in FormSets
  <2>1. PICK n \in 1..MaxRows : post \in PostOfFormSet(t, n)
    BY <1>1 DEF Post
  <2>2. n \in Nat /\ n > 0
    BY RowsAssumption
  <2>3. post.rows \in [1..n -> Row(t)] /\ post.deleted \subseteq 1..n
    BY <2>1 DEF PostOfFormSet
  <2>4. post.rows \in Seq(Row(t)) /\ Len(post.rows) = n /\ DOMAIN post.rows = 1..n
    BY <2>2, <2>3
  <2> QED
    BY <1>1, <2>2, <2>3, <2>4 DEF PostShape
<1>2. CASE t \in Several
  <2>1. t \notin FormSets /\ Row(t) = [{"value"} -> Key]
    <3>1. t \in Plain
      BY <1>2 DEF Plain
    <3>2. t \notin FormSets /\ Texts(t, "value") = Key
      BY <1>2, SMT DEF Several, FormSets, Texts, Picked, AlwaysListed
    <3>3. \A p \in Parts(t) : Texts(t, p) = Key
      BY <3>1, <3>2, PlainParts
    <3>4. Parts(t) = {"value"}
      BY <3>1, PlainParts
    <3> QED
      BY <3>2, <3>3, <3>4 DEF Row
  <2>2. PICK picked \in SUBSET Key :
               post = [rows |-> SetToSeq({[value |-> k] : k \in picked}), deleted |-> {}]
    BY <1>2, <2>1 DEF Post
  <2> DEFINE S == {[value |-> k] : k \in picked}
             f == [k \in picked |-> [value |-> k]]
  <2>3. IsFiniteSet(S)
    <3>1. IsFiniteSet(picked)
      BY KeyAssumption, FS_Subset
    <3>2. f \in Surjection(picked, S)
      BY DEF Surjection
    <3> QED
      BY <3>1, <3>2, FS_Surjection
  <2>4. SetToSeq(S) \in Seq(S)
    BY <2>3, SetsBecomeSequences
  <2>5. S \subseteq [{"value"} -> Key]
    OBVIOUS
  <2>6. post.rows \in Seq([{"value"} -> Key]) /\ post.deleted = {}
    <3> HIDE DEF S
    <3> QED
      BY <2>2, <2>4, <2>5 DEF S
  <2> QED
    BY <1>2, <2>1, <2>6 DEF PostShape
<1>3. CASE t \notin FormSets \union Several
  <2>1. PICK row \in Row(t) : post = [rows |-> <<row>>, deleted |-> {}]
    BY <1>3 DEF Post
  <2> QED
    BY <1>3, <2>1 DEF PostShape
<1> QED
  BY <1>1, <1>2, <1>3

(* A row of a post is cleaned, or passed over because it is blank.         *)
LEMMA RowVerdictSays ==
  ASSUME NEW t \in Type, NEW required \in BOOLEAN, NEW keys \in SUBSET Key,
         NEW post, PostShape(t, post), NEW initial, NEW i \in DOMAIN post.rows
  PROVE  \/ CleanSays(t, required, keys, post.rows[i],
                      RowVerdict(t, required, keys, post, initial, i))
         \/ /\ RowVerdict(t, required, keys, post, initial, i) = "nothing"
            /\ i > 1 /\ i > initial /\ Blank(post.rows[i])
<1>1. post.rows[i] \in Row(t)
  BY DEF PostShape
<1> QED
  BY <1>1, CleanIsSound DEF RowVerdict, Skipped

LEMMA RowsStayRows ==
  ASSUME NEW t \in Type, NEW row \in Row(t)
  PROVE  GenerateChoice(t, row) \in Row(t)
<1>1. CASE t = "multidmptypedreasononetext"
  <2>1. Parts(t) = {"type", "reason", "url"}
    BY <1>1, SMT DEF Parts, NotListed, URLs
  <2>2. Texts(t, "url") = {"", "good", "bad"}
    BY <1>1, SMT DEF Texts, Several, Picked, AlwaysListed
  <2> DEFINE new == [row EXCEPT !.url = ""]
  <2>3. row \in [Parts(t) -> UNION {Texts(t, p) : p \in Parts(t)}]
        /\ \A p \in Parts(t) : row[p] \in Texts(t, p)
    BY DEF Row
  <2>4. DOMAIN new = Parts(t) /\ \A p \in Parts(t) : new[p] \in Texts(t, p)
    BY <2>1, <2>2, <2>3
  <2>5. new \in [Parts(t) -> UNION {Texts(t, p) : p \in Parts(t)}]
    BY <2>3, <2>4
  <2> HIDE DEF new
  <2>6. new \in Row(t)
    BY <2>4, <2>5 DEF Row
  <2> QED
    BY <1>1, <2>6 DEF GenerateChoice, new
<1>2. CASE t # "multidmptypedreasononetext"
  BY <1>2 DEF GenerateChoice
<1> QED
  BY <1>1, <1>2

(* The rows that are stored are those that were taken, each and no other.  *)
Taken(t, required, keys, post, initial) ==
  {i \in DOMAIN post.rows \ post.deleted : RowVerdict(t, required, keys, post, initial, i) = "taken"}

LEMMA SerializeSays ==
  ASSUME NEW t \in Type, NEW required \in BOOLEAN, NEW keys \in SUBSET Key,
         NEW post, PostShape(t, post), NEW initial
  PROVE  LET choice == Serialize(t, required, keys, post, initial)
             kept == Taken(t, required, keys, post, initial)
         IN  /\ choice \in Seq(Row(t))
             /\ Len(choice) <= Len(post.rows)
             /\ \A n \in DOMAIN choice : \E i \in kept : choice[n] = GenerateChoice(t, post.rows[i])
             /\ \A i \in kept : \E n \in DOMAIN choice : choice[n] = GenerateChoice(t, post.rows[i])
<1> DEFINE choice == Serialize(t, required, keys, post, initial)
           kept == Taken(t, required, keys, post, initial)
           size == Cardinality(kept)
<1>1. Len(post.rows) \in Nat /\ DOMAIN post.rows = 1..Len(post.rows)
  BY DEF PostShape
<1>2. kept \subseteq Nat /\ kept \in SUBSET (1..Len(post.rows))
  BY <1>1 DEF Taken
<1>3. IsFiniteSet(kept) /\ size <= Len(post.rows)
  <2> HIDE DEF kept
  <2>1. IsFiniteSet(1..Len(post.rows)) /\ Cardinality(1..Len(post.rows)) = Len(post.rows)
    BY <1>1, FS_Interval
  <2>2. IsFiniteSet(kept) /\ Cardinality(kept) <= Cardinality(1..Len(post.rows))
    BY <1>2, <2>1, FS_Subset
  <2>3. QED
    BY <2>1, <2>2
<1>4. choice = [n \in 1..size |-> GenerateChoice(t, post.rows[Nth(kept, n)])]
  BY DEF Serialize, Taken
<1> HIDE DEF choice, kept
<1>5. /\ size \in Nat
      /\ \A n \in 1..size : Nth(kept, n) \in kept
      /\ \A i \in kept : \E n \in 1..size : Nth(kept, n) = i
  BY <1>2, <1>3, NthIsOnto
<1> HIDE DEF size
<1>6. \A n \in 1..size : GenerateChoice(t, post.rows[Nth(kept, n)]) \in Row(t)
  <2>1. \A i \in DOMAIN post.rows : post.rows[i] \in Row(t)
    BY DEF PostShape
  <2>2. \A i \in kept : GenerateChoice(t, post.rows[i]) \in Row(t)
    BY <1>1, <1>2, <2>1, RowsStayRows
  <2>3. QED
    BY <1>5, <2>2
<1>7. choice \in Seq(Row(t)) /\ Len(choice) = size /\ DOMAIN choice = 1..size
  BY <1>4, <1>5, <1>6
<1> QED
  BY <1>3, <1>4, <1>5, <1>7 DEF choice, kept

(* A form that is accepted has no error in a row that counts.              *)
LEMMA AcceptedSays ==
  ASSUME NEW t \in Type, NEW optional \in BOOLEAN, NEW required \in BOOLEAN, NEW keys \in SUBSET Key,
         NEW post, PostShape(t, post), NEW initial \in Nat,
         Verdict(t, optional, required, keys, post, initial) = "accepted",
         NEW i \in DOMAIN post.rows \ post.deleted
  PROVE  RowVerdict(t, required, keys, post, initial, i) \in {"taken", "nothing"}
<1>1. /\ RowVerdict(t, required, keys, post, initial, i) # "fails"
      /\ RowVerdict(t, required, keys, post, initial, i) # "refused"
  BY DEF Verdict
<1>2. \/ CleanSays(t, required, keys, post.rows[i], RowVerdict(t, required, keys, post, initial, i))
      \/ RowVerdict(t, required, keys, post, initial, i) = "nothing"
  BY RowVerdictSays
<1> QED
  BY <1>1, <1>2 DEF CleanSays

(* A formset of a question that is not optional has something to store.    *)
LEMMA RequiredIsFilled ==
  ASSUME NEW t \in Type, t \in FormSets, NEW keys \in SUBSET Key,
         NEW post, PostShape(t, post), NEW initial \in Nat,
         Verdict(t, FALSE, TRUE, keys, post, initial) = "accepted"
  PROVE  \E i \in DOMAIN post.rows \ post.deleted :
           RowVerdict(t, TRUE, keys, post, initial, i) = "taken"
<1> DEFINE kept == DOMAIN post.rows \ post.deleted
           filled == {i \in kept : i <= initial \/ ~Blank(post.rows[i])}
           minimum == IF t = "storageforecast" THEN Len(post.rows) ELSE 1
<1>1. Len(post.rows) \in Nat /\ Len(post.rows) > 0 /\ DOMAIN post.rows \subseteq Nat
  BY DEF PostShape
<1>2. filled # {}
  <2>1. ~(Cardinality(filled) < minimum)
    BY DEF Verdict
  <2>2. minimum > 0
    BY <1>1
  <2> HIDE DEF minimum, filled
  <2> QED
    BY <2>1, <2>2, FS_EmptySet
<1>3. PICK i \in kept : i <= initial \/ ~Blank(post.rows[i])
  BY <1>2
<1>4. i \in Nat /\ i \in DOMAIN post.rows
  BY <1>1
<1>5. t # "daterange"
  BY DEF FormSets
<1>6. ~(i > initial /\ Blank(post.rows[i]))
  BY <1>3, <1>4
<1>7. CleanSays(t, TRUE, keys, post.rows[i], RowVerdict(t, TRUE, keys, post, initial, i))
  BY <1>4, <1>6, RowVerdictSays
<1>8. RowVerdict(t, TRUE, keys, post, initial, i) # "nothing"
  BY <1>7 DEF CleanSays
<1> QED
  BY <1>8, AcceptedSays

(* What is stored has what the fields looked for.                          *)
GoodChoice(t, required, keys, choice) ==
  /\ choice \in Seq(Row(t))
  /\ t \notin FormSets \union Several => Len(choice) <= 1
  /\ \A n \in DOMAIN choice :
       /\ t # "multidmptypedreasononetext" => GoodRow(t, required, keys, choice[n])
       /\ t = "multidmptypedreasononetext" /\ required => choice[n].type # "" /\ choice[n].reason # ""

LEMMA StoredRowIsGood ==
  ASSUME NEW t \in Type, NEW required \in BOOLEAN, NEW keys \in SUBSET Key,
         NEW post, PostShape(t, post), NEW initial,
         NEW choice, choice = Serialize(t, required, keys, post, initial),
         NEW n \in DOMAIN choice
  PROVE  /\ t # "multidmptypedreasononetext" => GoodRow(t, required, keys, choice[n])
         /\ t = "multidmptypedreasononetext" /\ required => choice[n].type # "" /\ choice[n].reason # ""
<1>1. PICK i \in Taken(t, required, keys, post, initial) : choice[n] = GenerateChoice(t, post.rows[i])
  BY SerializeSays
<1>2. i \in DOMAIN post.rows /\ RowVerdict(t, required, keys, post, initial, i) = "taken"
  BY DEF Taken
<1>3. GoodRow(t, required, keys, post.rows[i])
  BY <1>2, RowVerdictSays DEF CleanSays
<1>4. CASE t # "multidmptypedreasononetext"
  BY <1>1, <1>3, <1>4 DEF GenerateChoice
<1>5. CASE t = "multidmptypedreasononetext" /\ required
  <2>1. choice[n] = [post.rows[i] EXCEPT !.url = ""]
    BY <1>1, <1>5 DEF GenerateChoice
  <2>2. post.rows[i] \in Row(t)
    BY <1>2 DEF PostShape
  <2>3. DOMAIN post.rows[i] = {"type", "reason", "url"}
    BY <1>5, <2>2, RowHasParts, SMT DEF Parts, NotListed, URLs
  <2>4. choice[n].type = post.rows[i].type /\ choice[n].reason = post.rows[i].reason
    BY <2>1, <2>3
  <2> QED
    BY <1>3, <1>5, <2>4 DEF GoodRow
<1> QED
  BY <1>4, <1>5

LEMMA StoredIsGood ==
  ASSUME NEW t \in Type, NEW required \in BOOLEAN, NEW keys \in SUBSET Key,
         NEW post, PostShape(t, post), NEW initial
  PROVE  GoodChoice(t, required, keys, Serialize(t, required, keys, post, initial))
<1>1. /\ Serialize(t, required, keys, post, initial) \in Seq(Row(t))
      /\ Len(Serialize(t, required, keys, post, initial)) <= Len(post.rows)
  BY SerializeSays
<1>2. t \notin FormSets \union Several => Len(post.rows) = 1
  BY DEF PostShape
<1>3. \A n \in DOMAIN Serialize(t, required, keys, post, initial) :
        LET choice == Serialize(t, required, keys, post, initial)
        IN  /\ t # "multidmptypedreasononetext" => GoodRow(t, required, keys, choice[n])
            /\ t = "multidmptypedreasononetext" /\ required => choice[n].type # "" /\ choice[n].reason # ""
  BY StoredRowIsGood
<1> QED
  BY <1>1, <1>2, <1>3 DEF GoodChoice

(* A form that is as required as its question.                             *)
FromFlag(optional, required) == required = ~optional

(* An empty answer is accepted of optional questions, and of those that    *)
(* take several choices, only.                                             *)
LEMMA AcceptedIsThere ==
  ASSUME NEW t \in Type, NEW optional \in BOOLEAN, NEW required \in BOOLEAN, NEW keys \in SUBSET Key,
         NEW post, PostShape(t, post), NEW initial \in Nat,
         Verdict(t, optional, required, keys, post, initial) = "accepted",
         FromFlag(optional, required)
  PROVE  Serialize(t, required, keys, post, initial) = <<>> => optional \/ t \in Several
<1> SUFFICES ASSUME Serialize(t, required, keys, post, initial) = <<>>, ~optional, t \notin Several
             PROVE  FALSE
  OBVIOUS
<1>1. required = TRUE /\ optional = FALSE
  BY DEF FromFlag
<1>2. Taken(t, TRUE, keys, post, initial) = {}
  <2>1. \A i \in Taken(t, required, keys, post, initial) :
          \E n \in DOMAIN Serialize(t, required, keys, post, initial) : TRUE
    BY SerializeSays
  <2>2. DOMAIN Serialize(t, required, keys, post, initial) = {}
    OBVIOUS
  <2>3. Taken(t, required, keys, post, initial) = {}
    BY <2>1, <2>2
  <2> QED
    BY <1>1, <2>3
<1>3. t \notin FormSets
  <2>1. Verdict(t, FALSE, TRUE, keys, post, initial) = "accepted"
    BY <1>1
  <2> QED
    BY <1>2, <2>1, RequiredIsFilled DEF Taken
<1>4. DOMAIN post.rows = 1..1 /\ post.deleted = {}
  BY <1>3 DEF PostShape
<1>5. 1 \in DOMAIN post.rows \ post.deleted /\ 1 \in DOMAIN post.rows
  BY <1>4
<1>6. RowVerdict(t, required, keys, post, initial, 1) \in {"taken", "nothing"}
  BY <1>5, AcceptedSays
<1>7. RowVerdict(t, required, keys, post, initial, 1) = "nothing"
  BY <1>1, <1>2, <1>5, <1>6 DEF Taken
<1>8. CleanSays(t, required, keys, post.rows[1], "nothing")
  <2>1. \/ CleanSays(t, required, keys, post.rows[1], RowVerdict(t, required, keys, post, initial, 1))
        \/ 1 > 1
    BY <1>5, RowVerdictSays
  <2> QED
    BY <1>7, <2>1
<1> QED
  BY <1>1, <1>8 DEF CleanSays

LEMMA GoodPasses ==
  ASSUME NEW t \in Type, NEW optional \in BOOLEAN, NEW required \in BOOLEAN, NEW keys \in SUBSET Key,
         FromFlag(optional, required),
         NEW choice, GoodChoice(t, required, keys, choice),
         choice = <<>> => optional \/ t \in Several
  PROVE  ValidateChoice(t, optional, keys, choice) \/ NeverValid(t, optional, choice)
<1>1. choice \in Seq(Row(t)) /\ (t \notin FormSets \union Several => Len(choice) <= 1)
  BY DEF GoodChoice
<1>2. \A n \in DOMAIN choice :
        /\ t # "multidmptypedreasononetext" => GoodRow(t, required, keys, choice[n])
        /\ t = "multidmptypedreasononetext" /\ required => choice[n].type # "" /\ choice[n].reason # ""
  BY DEF GoodChoice
<1>3. CASE t \in Several
  <2>1. \A n \in DOMAIN choice : choice[n].value \in keys
    BY <1>2, <1>3 DEF GoodRow, Several
  <2> QED
    BY <1>3, <2>1, KindsAreApart DEF ValidateChoice, ChoicesAreListed, OfItsOwn
<1>4. CASE choice = <<>> /\ t \notin Several
  BY <1>4 DEF ValidateChoice
<1>5. CASE choice # <<>> /\ t \notin Several
  <2>1. Len(choice) \in Nat /\ 1 \in DOMAIN choice /\ DOMAIN choice = 1..Len(choice)
    BY <1>1, <1>5
  <2>2. t \notin FormSets => Len(choice) = 1
    BY <1>1, <1>5, <2>1
  <2>3. t # "multidmptypedreasononetext" => GoodRow(t, required, keys, choice[1])
    BY <1>2, <2>1
  <2>4. CASE t \in Written
    <3>1. IsSet(t, choice)
      <4>1. t \notin FormSets /\ t # "multidmptypedreasononetext"
        BY <2>4, SMT DEF FormSets, Written, Dated
      <4> QED
        BY <2>2, <2>3, <2>4, <4>1 DEF IsSet, GoodRow
    <3> QED
      BY <2>4, <3>1, KindsAreApart DEF ValidateChoice, OfItsOwn
  <2>5. CASE t \in Picked
    <3>1. ChoiceIsListed(keys, choice)
      <4>1. t \notin FormSets /\ t # "multidmptypedreasononetext"
        BY <2>5, SMT DEF FormSets, Picked, AlwaysListed
      <4> QED
        BY <2>2, <2>3, <2>5, <4>1 DEF ChoiceIsListed, GoodRow
    <3> QED
      BY <2>5, <3>1, KindsAreApart DEF ValidateChoice, OfItsOwn
  <2>6. CASE t \in NotListed
    <3>1. t # "multidmptypedreasononetext"
      BY <2>6 DEF NotListed
    <3>2. ListedOrNot(t, keys, choice)
      BY <1>5, <2>3, <2>6, <3>1 DEF ListedOrNot, GoodRow
    <3> QED
      BY <2>6, <3>2, KindsAreApart DEF ValidateChoice, OfItsOwn
  <2>7. CASE t \in URLs
    <3>1. t # "multidmptypedreasononetext"
      BY <2>7 DEF URLs
    <3>2. HasURL(choice)
      BY <2>1, <2>3, <2>7, <3>1 DEF HasURL, GoodRow
    <3> QED
      BY <2>7, <3>2, KindsAreApart DEF ValidateChoice, OfItsOwn
  <2>8. CASE t = "daterange"
    <3>1. HasBothDates(choice)
      BY <1>5, <2>3, <2>8 DEF HasBothDates, GoodRow
    <3> QED
      BY <2>8, <3>1, SMT DEF ValidateChoice,
         Written, Dated, Picked, AlwaysListed, Several, URLs, NotListed
  <2>9. CASE t = "typedidentifier"
    <3>1. IdentifierHasType(keys, choice) \/ NeverValid(t, optional, choice)
      BY <1>5, <2>3, <2>9 DEF IdentifierHasType, NeverValid, GoodRow, FromFlag
    <3> QED
      BY <2>9, <3>1, SMT DEF ValidateChoice,
         Written, Dated, Picked, AlwaysListed, Several, URLs, NotListed
  <2>10. CASE t = "multirdacostonetext"
    <3>1. HasTitle(choice)
      BY <2>1, <2>3, <2>10 DEF HasTitle, GoodRow
    <3> QED
      BY <2>10, <3>1, SMT DEF ValidateChoice,
         Written, Dated, Picked, AlwaysListed, Several, URLs, NotListed
  <2>11. CASE t = "multidmptypedreasononetext"
    <3>1. HasTypeAndReason(choice) \/ NeverValid(t, optional, choice)
      BY <1>2, <1>5, <2>1, <2>11 DEF HasTypeAndReason, NeverValid, FromFlag
    <3> QED
      BY <2>11, <3>1, SMT DEF ValidateChoice,
         Written, Dated, Picked, AlwaysListed, Several, URLs, NotListed
  <2>12. CASE t = "storageforecast"
    <3>1. \A n \in DOMAIN choice : choice[n].storage_estimate # ""
      BY <1>2, <2>12 DEF GoodRow
    <3>2. HasEstimate(choice) \/ NeverValid(t, optional, choice)
      BY <1>5, <2>12, <3>1 DEF HasEstimate, NeverValid
    <3> QED
      BY <2>12, <3>2, SMT DEF ValidateChoice,
         Written, Dated, Picked, AlwaysListed, Several, URLs, NotListed
  <2>13. CASE t = "multistring"
    <3>1. HasString(choice)
      BY <2>1, <2>3, <2>13 DEF HasString, GoodRow
    <3> QED
      BY <2>13, <3>1, SMT DEF ValidateChoice,
         Written, Dated, Picked, AlwaysListed, Several, URLs, NotListed
  <2> QED
    BY <1>5, <2>4, <2>5, <2>6, <2>7, <2>8, <2>9, <2>10, <2>11, <2>12, <2>13, Types DEF Plain
<1> QED
  BY <1>3, <1>4, <1>5

LEMMA TakenIsStored ==
  ASSUME NEW t \in Type, NEW required \in BOOLEAN, NEW keys \in SUBSET Key,
         NEW post, PostShape(t, post), NEW initial,
         NEW i \in Taken(t, required, keys, post, initial)
  PROVE  \E n \in DOMAIN Serialize(t, required, keys, post, initial) :
           Serialize(t, required, keys, post, initial)[n] = GenerateChoice(t, post.rows[i])
BY SerializeSays

LEMMA AcceptedStays ==
  ASSUME NEW t \in Type, NEW optional \in BOOLEAN, NEW required \in BOOLEAN, NEW keys \in SUBSET Key,
         NEW post, PostShape(t, post), NEW initial \in Nat,
         Verdict(t, optional, required, keys, post, initial) = "accepted",
         NEW i \in DOMAIN post.rows \ post.deleted
  PROVE  \/ Blank(post.rows[i])
         \/ t = "daterange" /\ Partial(post.rows[i])
         \/ GenerateChoice(t, post.rows[i]) \in {Serialize(t, required, keys, post, initial)[n] :
                  n \in DOMAIN Serialize(t, required, keys, post, initial)}
<1>1. RowVerdict(t, required, keys, post, initial, i) \in {"taken", "nothing"}
  BY AcceptedSays
<1>2. CASE RowVerdict(t, required, keys, post, initial, i) = "nothing"
  <2>1. \/ CleanSays(t, required, keys, post.rows[i], RowVerdict(t, required, keys, post, initial, i))
        \/ Blank(post.rows[i])
    BY RowVerdictSays
  <2>2. CleanSays(t, required, keys, post.rows[i], "nothing") =>
           \/ Blank(post.rows[i])
           \/ t = "daterange" /\ Partial(post.rows[i])
    BY DEF CleanSays
  <2>3. CleanSays(t, required, keys, post.rows[i], "nothing") \/ Blank(post.rows[i])
    BY <1>2, <2>1
  <2> QED
    BY <2>2, <2>3
<1>3. CASE RowVerdict(t, required, keys, post, initial, i) = "taken"
  <2>1. i \in Taken(t, required, keys, post, initial)
    BY <1>3 DEF Taken
  <2>2. \E n \in DOMAIN Serialize(t, required, keys, post, initial) :
           Serialize(t, required, keys, post, initial)[n] = GenerateChoice(t, post.rows[i])
    BY <2>1, TakenIsStored
  <2> QED
    BY <2>2
<1> QED
  BY <1>1, <1>2, <1>3

LEMMA FailedOverBlanks ==
  ASSUME NEW t \in Type, NEW optional \in BOOLEAN, NEW required \in BOOLEAN, NEW keys \in SUBSET Key,
         NEW post, PostShape(t, post), NEW initial,
         Verdict(t, optional, required, keys, post, initial) = "fails"
  PROVE  t \in MayFail /\ ~required /\ \E i \in DOMAIN post.rows : Blank(post.rows[i])
<1>1. PICK i \in DOMAIN post.rows : RowVerdict(t, required, keys, post, initial, i) = "fails"
  BY DEF Verdict
<1> QED
  BY <1>1, RowVerdictSays DEF CleanSays

-----------------------------------------------------------------------------
(* The machine. A stored choice keeps its shape when keys come and go.     *)

StoredShape(t, choice) ==
  /\ choice \in Seq(Row(t))
  /\ t \notin FormSets \union Several => Len(choice) <= 1
  /\ t \in AlwaysListed \union {"choice"} => \A n \in DOMAIN choice : choice[n].value \in Key

Shapes ==
  /\ question \in [type : Type, optional : BOOLEAN, otherOptional : BOOLEAN]
  /\ listed \in SUBSET Key
  /\ flag \in BOOLEAN
  /\ stored = {} \/ \E choice : stored = {choice} /\ StoredShape(question.type, choice)

LEMMA InitialIsNumber ==
  ASSUME Shapes
  PROVE  Cardinality(Initial) \in Nat
<1>1. CASE stored = {}
  <2>1. Initial = {}
    BY <1>1 DEF Initial
  <2> QED
    BY <2>1, FS_EmptySet
<1>2. CASE stored # {}
  <2>1. PICK choice : stored = {choice} /\ StoredShape(question.type, choice)
    BY <1>2 DEF Shapes
  <2>2. Initial = 1..Len(choice) /\ Len(choice) \in Nat
    BY <2>1 DEF Initial, StoredShape
  <2> QED
    BY <2>2, FS_Interval, FS_CardinalityType
<1> QED
  BY <1>1, <1>2

LEMMA KeysAreKeys ==
  ASSUME Shapes
  PROVE  /\ Keys \in SUBSET Key
         /\ Required \in BOOLEAN
         /\ question.type \in Type /\ question.optional \in BOOLEAN
BY DEF Shapes, Keys, Required

LEMMA GoodHasShape ==
  ASSUME NEW t \in Type, NEW required \in BOOLEAN, NEW keys \in SUBSET Key,
         NEW choice, GoodChoice(t, required, keys, choice)
  PROVE  StoredShape(t, choice)
<1>1. ASSUME t \in AlwaysListed \union {"choice"}
      PROVE  \A n \in DOMAIN choice : choice[n].value \in Key
  <2>1. t \in Picked /\ t # "multidmptypedreasononetext"
    BY <1>1 DEF Picked, AlwaysListed
  <2> QED
    BY <2>1 DEF GoodChoice, GoodRow
<1> QED
  BY <1>1 DEF GoodChoice, StoredShape

(* What a post leaves behind.                                              *)
LEMMA SubmitStores ==
  ASSUME Shapes, NEW post \in Post(question.type), Submit(post), last'.outcome = "accepted"
  PROVE  \E choice :
           /\ stored' = {choice}
           /\ StoredShape(question.type, choice)
           /\ ~last'.others => \/ ValidateChoice(question.type, question.optional, Keys, choice)
                               \/ NeverValid(question.type, question.optional, choice)
           /\ \A i \in DOMAIN post.rows \ post.deleted :
                \/ Blank(post.rows[i])
                \/ question.type = "daterange" /\ Partial(post.rows[i])
                \/ GenerateChoice(question.type, post.rows[i]) \in {choice[n] : n \in DOMAIN choice}
<1> DEFINE t == question.type
           initial == Cardinality(Initial)
           choice == Serialize(t, Required, Keys, post, initial)
<1>1. /\ t \in Type /\ question.optional \in BOOLEAN
      /\ Keys \in SUBSET Key /\ Required \in BOOLEAN
      /\ initial \in Nat
  BY KeysAreKeys, InitialIsNumber
<1>2. PostShape(t, post)
  BY <1>1, Posted
<1>3. Verdict(t, question.optional, Required, Keys, post, initial) = "accepted"
  BY DEF Submit
<1>4. stored' = {choice}
  BY <1>3 DEF Submit
<1>5. GoodChoice(t, Required, Keys, choice)
  BY <1>1, <1>2, StoredIsGood
<1>6. StoredShape(t, choice)
  BY <1>1, <1>5, GoodHasShape
<1>7. ASSUME ~last'.others
      PROVE  \/ ValidateChoice(t, question.optional, Keys, choice)
             \/ NeverValid(t, question.optional, choice)
  <2>1. FromFlag(question.optional, Required)
    <3>1. flag \in BOOLEAN
      BY DEF Shapes
    <3>2. ~(t \in FormSets /\ flag = question.optional)
      BY <1>7 DEF Submit
    <3> QED
      BY <1>1, <3>1, <3>2 DEF FromFlag, Required
  <2>2. choice = <<>> => question.optional \/ t \in Several
    BY <1>1, <1>2, <1>3, <2>1, AcceptedIsThere
  <2> HIDE DEF choice
  <2> QED
    BY <1>1, <1>5, <2>1, <2>2, GoodPasses
<1>8. \A i \in DOMAIN post.rows \ post.deleted :
        \/ Blank(post.rows[i])
        \/ t = "daterange" /\ Partial(post.rows[i])
        \/ GenerateChoice(t, post.rows[i]) \in {choice[n] : n \in DOMAIN choice}
  <2> SUFFICES ASSUME NEW i \in DOMAIN post.rows \ post.deleted
               PROVE  \/ Blank(post.rows[i])
                      \/ t = "daterange" /\ Partial(post.rows[i])
                      \/ GenerateChoice(t, post.rows[i]) \in {choice[n] : n \in DOMAIN choice}
    OBVIOUS
  <2> HIDE DEF t, initial
  <2>1. \/ Blank(post.rows[i])
        \/ t = "daterange" /\ Partial(post.rows[i])
        \/ GenerateChoice(t, post.rows[i]) \in {Serialize(t, Required, Keys, post, initial)[n] :
                  n \in DOMAIN Serialize(t, Required, Keys, post, initial)}
    BY <1>1, <1>2, <1>3, AcceptedStays
  <2> QED
    BY <2>1
<1> HIDE DEF choice
<1> QED
  BY <1>4, <1>6, <1>7, <1>8

LEMMA SubmitFails ==
  ASSUME Shapes, NEW post \in Post(question.type), Submit(post), last'.outcome = "fails"
  PROVE  /\ question.type \in MayFail
         /\ question.optional \/ last'.others
         /\ \E i \in DOMAIN post.rows : Blank(post.rows[i])
<1>1. /\ question.type \in Type /\ question.optional \in BOOLEAN
      /\ Keys \in SUBSET Key /\ Required \in BOOLEAN
  BY KeysAreKeys
<1>2. PostShape(question.type, post)
  BY <1>1, Posted
<1>3. Verdict(question.type, question.optional, Required, Keys, post, Cardinality(Initial)) = "fails"
  BY DEF Submit
<1>4. question.type \in MayFail /\ ~Required /\ \E i \in DOMAIN post.rows : Blank(post.rows[i])
  BY <1>1, <1>2, <1>3, FailedOverBlanks
<1>5. question.optional \/ last'.others
  <2>1. flag \in BOOLEAN
    BY DEF Shapes
  <2>2. last'.others = (question.type \in FormSets /\ flag = question.optional)
    BY DEF Submit
  <2> QED
    BY <1>1, <1>4, <2>1, <2>2 DEF Required
<1> QED
  BY <1>4, <1>5

-----------------------------------------------------------------------------
(* The invariant: it is the types and the three properties.                *)
QuestionInv == Shapes /\ AcceptedIsValid /\ AcceptedIsKept /\ OnlyBlanksFail

LEMMA QuestionBegins ==
  ASSUME QuestionInit
  PROVE  QuestionInv
<1>1. Shapes
  BY DEF QuestionInit, Shapes
<1>2. last.outcome = "none"
  BY DEF QuestionInit, Nothing
<1> QED
  BY <1>1, <1>2 DEF QuestionInv, AcceptedIsValid, AcceptedIsKept, OnlyBlanksFail

(* A step without a post, or that stores nothing.                          *)
LEMMA NothingNew ==
  ASSUME Shapes, UNCHANGED <<question, stored>>,
         listed' \in SUBSET Key, flag' \in BOOLEAN, last'.outcome = "none"
  PROVE  QuestionInv'
<1>1. Shapes'
  BY DEF Shapes
<1> QED
  BY <1>1 DEF QuestionInv, AcceptedIsValid, AcceptedIsKept, OnlyBlanksFail

LEMMA MakeFormKeeps ==
  ASSUME QuestionInv, MakeForm
  PROVE  QuestionInv'
<1>1. Shapes /\ UNCHANGED <<question, listed, stored>>
  BY DEF QuestionInv, MakeForm
<1>2. CASE question.type \in NotListed \union {"typedidentifier"} /\ Keys = {}
  <2>1. last'.outcome = "fails" /\ flag' = flag
    BY <1>2 DEF MakeForm, Nothing
  <2>2. Shapes' /\ Keys' = {}
    BY <1>1, <1>2, <2>1 DEF Shapes, Keys
  <2> QED
    BY <2>1, <2>2 DEF QuestionInv, AcceptedIsValid, AcceptedIsKept, OnlyBlanksFail
<1>3. CASE ~(question.type \in NotListed \union {"typedidentifier"} /\ Keys = {})
  <2>1. last'.outcome = "none"
    BY <1>3 DEF MakeForm, Nothing
  <2>2. flag' \in BOOLEAN
    BY <1>1, <1>3 DEF MakeForm, Shapes
  <2>3. listed' \in SUBSET Key
    BY <1>1 DEF Shapes
  <2> QED
    BY <1>1, <2>1, <2>2, <2>3, NothingNew
<1> QED
  BY <1>2, <1>3

LEMMA MakeOtherFormKeeps ==
  ASSUME QuestionInv, MakeOtherForm
  PROVE  QuestionInv'
<1>1. UNCHANGED <<question, listed, stored, last>> /\ flag' \in BOOLEAN
  BY DEF QuestionInv, Shapes, MakeOtherForm
<1>2. Shapes'
  BY <1>1 DEF QuestionInv, Shapes
<1>3. Keys' = Keys
  BY <1>1 DEF Keys
<1>4. AcceptedIsValid'
  BY <1>1, <1>3 DEF QuestionInv, AcceptedIsValid
<1>5. AcceptedIsKept'
  BY <1>1 DEF QuestionInv, AcceptedIsKept
<1>6. OnlyBlanksFail'
  BY <1>1, <1>3 DEF QuestionInv, OnlyBlanksFail
<1> QED
  BY <1>2, <1>4, <1>5, <1>6 DEF QuestionInv

LEMMA SubmitKeeps ==
  ASSUME QuestionInv, NEW post \in Post(question.type), Submit(post)
  PROVE  QuestionInv'
<1>1. Shapes /\ UNCHANGED <<question, listed, flag>> /\ last'.post = post
  BY DEF QuestionInv, Submit
<1>2. Keys' = Keys
  BY <1>1 DEF Keys
<1>3. CASE last'.outcome = "accepted"
  <2>1. PICK choice :
           /\ stored' = {choice}
           /\ StoredShape(question.type, choice)
           /\ ~last'.others => \/ ValidateChoice(question.type, question.optional, Keys, choice)
                               \/ NeverValid(question.type, question.optional, choice)
           /\ \A i \in DOMAIN post.rows \ post.deleted :
                \/ Blank(post.rows[i])
                \/ question.type = "daterange" /\ Partial(post.rows[i])
                \/ GenerateChoice(question.type, post.rows[i]) \in {choice[n] : n \in DOMAIN choice}
    BY <1>1, <1>3, SubmitStores
  <2>2. Shapes'
    BY <1>1, <2>1 DEF Shapes
  <2>3. AcceptedIsValid'
    BY <1>1, <1>2, <2>1 DEF AcceptedIsValid
  <2>4. AcceptedIsKept'
    <3>1. choice \in stored'
      BY <2>1
    <3> QED
      BY <1>1, <2>1, <3>1 DEF AcceptedIsKept
  <2>5. OnlyBlanksFail'
    BY <1>3 DEF OnlyBlanksFail
  <2> QED
    BY <2>2, <2>3, <2>4, <2>5 DEF QuestionInv
<1>4. CASE last'.outcome # "accepted"
  <2>1. stored' = stored
    BY <1>4 DEF Submit
  <2>2. Shapes'
    BY <1>1, <2>1 DEF Shapes
  <2>3. OnlyBlanksFail'
    <3> SUFFICES ASSUME last'.outcome = "fails"
                 PROVE  OnlyBlanksFail'
      BY DEF OnlyBlanksFail
    <3> QED
      BY <1>1, SubmitFails DEF OnlyBlanksFail, MayFail
  <2> QED
    BY <1>4, <2>2, <2>3 DEF QuestionInv, AcceptedIsValid, AcceptedIsKept
<1> QED
  BY <1>3, <1>4

LEMMA ChangeListKeeps ==
  ASSUME QuestionInv, NEW keys \in SUBSET Key, ChangeList(keys)
  PROVE  QuestionInv'
<1>1. /\ Shapes /\ UNCHANGED <<question, stored>>
      /\ listed' \in SUBSET Key /\ flag' \in BOOLEAN /\ last'.outcome = "none"
  BY DEF QuestionInv, Shapes, ChangeList, Nothing
<1> QED
  BY <1>1, NothingNew

LEMMA QuestionInvariant == QuestionSpec => []QuestionInv
<1>1. ASSUME QuestionInv, [QuestionNext]_questionVars
      PROVE  QuestionInv'
  <2>1. CASE MakeForm
    BY <1>1, <2>1, MakeFormKeeps
  <2>2. CASE MakeOtherForm
    BY <1>1, <2>2, MakeOtherFormKeeps
  <2>3. ASSUME NEW post \in Post(question.type), Submit(post)
        PROVE  QuestionInv'
    BY <1>1, <2>3, SubmitKeeps
  <2>4. ASSUME NEW keys \in SUBSET Key, ChangeList(keys)
        PROVE  QuestionInv'
    BY <1>1, <2>4, ChangeListKeeps
  <2>5. CASE UNCHANGED questionVars
    BY <1>1, <2>5 DEF questionVars, QuestionInv, Shapes, AcceptedIsValid, AcceptedIsKept,
       OnlyBlanksFail, Keys
  <2> QED
    BY <1>1, <2>1, <2>2, <2>3, <2>4, <2>5 DEF QuestionNext
<1> QED
  BY <1>1, QuestionBegins, PTL DEF QuestionSpec

(* What the form of a question accepts is valid when the answerset is      *)
(* validated, but for the answers that NeverValid names, whatever keys     *)
(* there are and however many rows: the form and validate_choice, two      *)
(* classes for each of the input types, agree.                             *)
THEOREM FormsAndQuestionsAgree == QuestionSpec => []AcceptedIsValid
BY QuestionInvariant, PTL DEF QuestionInv

(* Every row that was filled in and not deleted is stored when the post is *)
(* accepted.                                                               *)
THEOREM AcceptedRowsAreStored == QuestionSpec => []AcceptedIsKept
BY QuestionInvariant, PTL DEF QuestionInv

(* The form of a question raises only over blank rows, where they may be   *)
(* left blank, or when all choices are gone.                               *)
THEOREM FormsFailOverBlanks == QuestionSpec => []OnlyBlanksFail
BY QuestionInvariant, PTL DEF QuestionInv

-----------------------------------------------------------------------------
(* What is read of a stored choice.                                        *)

LEMMA PartsOfRows ==
  ASSUME NEW t \in Type, NEW choice, StoredShape(t, choice)
  PROVE  /\ DOMAIN choice = 1..Len(choice) /\ Len(choice) \in Nat
         /\ \A i \in DOMAIN choice : DOMAIN choice[i] = Parts(t)
<1>1. choice \in Seq(Row(t))
  BY DEF StoredShape
<1> QED
  BY <1>1, RowHasParts

LEMMA PartHas ==
  ASSUME NEW choice, NEW part \in AllParts(choice)
  PROVE  /\ part[1] \in DOMAIN choice /\ part[2] \in DOMAIN choice[part[1]]
         /\ part = <<part[1], part[2]>>
         /\ choice[part[1]][part[2]] # ""
<1> DEFINE InRow(i) == {<<i, p>> : p \in DOMAIN choice[i]}
           Everything == UNION {InRow(i) : i \in DOMAIN choice}
<1>1. part \in Everything /\ choice[part[1]][part[2]] # ""
  BY DEF AllParts
<1>2. PICK i \in DOMAIN choice : part \in InRow(i)
  <2> HIDE DEF InRow
  <2> QED
    BY <1>1
<1>3. PICK p \in DOMAIN choice[i] : part = <<i, p>>
  BY <1>2
<1>4. part[1] = i /\ part[2] = p
  BY <1>3
<1> QED
  BY <1>1, <1>3, <1>4

LEMMA PartIsThere ==
  ASSUME NEW choice, NEW i \in DOMAIN choice, NEW p \in DOMAIN choice[i], choice[i][p] # ""
  PROVE  <<i, p>> \in AllParts(choice)
<1> DEFINE InRow(j) == {<<j, x>> : x \in DOMAIN choice[j]}
           Everything == UNION {InRow(j) : j \in DOMAIN choice}
<1>1. <<i, p>> \in InRow(i)
  OBVIOUS
<1>2. <<i, p>> \in Everything
  <2> HIDE DEF InRow
  <2> QED
    BY <1>1
<1> HIDE DEF Everything
<1> DEFINE part == <<i, p>>
<1>3. part[1] = i /\ part[2] = p
  OBVIOUS
<1>4. choice[part[1]][part[2]] # ""
  BY <1>3
<1>5. AllParts(choice) = {x \in Everything : choice[x[1]][x[2]] # ""}
  BY DEF AllParts, Everything
<1> HIDE DEF part
<1> QED
  BY <1>2, <1>4, <1>5 DEF part

(* Parts are told apart from wording.                                      *)
LEMMA PartsAreNoWords ==
  ASSUME NEW t \in Type, NEW choice, StoredShape(t, choice), NEW part \in AllParts(choice)
  PROVE  part \notin Wording /\ part # Raises /\ \A k : part # Canned(k)
<1>1. part[1] \in DOMAIN choice
  BY PartHas
<1>2. part[1] # 0 /\ part[1] # -1
  BY <1>1, PartsOfRows
<1>3. \A k : Canned(k)[1] = 0
  BY DEF Canned
<1>4. NotFound[1] = -1 /\ StandIn[1] = -1 /\ Raises[1] = -1
  BY DEF NotFound, StandIn, Raises
<1>5. part # NotFound /\ part # StandIn /\ part # Raises
  BY <1>2, <1>4
<1>6. \A k : part # Canned(k)
  BY <1>2, <1>3
<1> QED
  BY <1>5, <1>6 DEF Wording

LEMMA OnlyNotListedHasIt ==
  ASSUME NEW t \in Type, t \notin NotListed
  PROVE  "not_listed" \notin Parts(t)
BY DEF Parts

(* What a question that has no entries of others can tell.                 *)
LEMMA TellsAll ==
  ASSUME NEW t \in Type, NEW choice, StoredShape(t, choice), t \notin External, NEW cached
  PROVE  Tellable(t, cached, choice) = AllParts(choice)
<1>1. t \notin NotListed
  BY DEF External
<1>2. ASSUME NEW part \in AllParts(choice)
      PROVE  part[2] # "not_listed"
  <2>1. part[1] \in DOMAIN choice /\ part[2] \in DOMAIN choice[part[1]]
    BY PartHas
  <2>2. part[2] \in Parts(t)
    BY <2>1, PartsOfRows
  <2> QED
    BY <1>1, <2>2, OnlyNotListedHasIt
<1> QED
  BY <1>2 DEF Tellable

LEMMA RenderedIsAll ==
  ASSUME NEW choice
  PROVE  Rendered(choice) = AllParts(choice)
<1> DEFINE InRow(i) == {<<i, p>> : p \in {x \in DOMAIN choice[i] : choice[i][x] # ""}}
<1>1. Rendered(choice) = UNION {InRow(i) : i \in DOMAIN choice}
  BY DEF Rendered
<1>2. ASSUME NEW part \in AllParts(choice)
      PROVE  part \in Rendered(choice)
  <2>1. part[1] \in DOMAIN choice /\ part \in InRow(part[1])
    BY PartHas
  <2> HIDE DEF InRow
  <2> QED
    BY <1>1, <2>1
<1>3. ASSUME NEW part \in Rendered(choice)
      PROVE  part \in AllParts(choice)
  <2>1. PICK i \in DOMAIN choice : part \in InRow(i)
    <3> HIDE DEF InRow
    <3> QED
      BY <1>1
  <2>2. PICK p \in {x \in DOMAIN choice[i] : choice[i][x] # ""} : part = <<i, p>>
    BY <2>1
  <2> QED
    BY <2>2, PartIsThere
<1> QED
  BY <1>2, <1>3

Several3 == {"multirdacostonetext", "multidmptypedreasononetext", "storageforecast"}
Joins == {"multichoiceonetext", "multistring", "multinamedurlonetext"}
Entries == {"externalchoice", "externalmultichoiceonetext"}
Single == Written \union {"daterange", "namedurl"}

LEMMA ReadersAreApart ==
  /\ \A t \in Type :
       \/ t \in NotListed \/ t \in Entries \/ t \in AlwaysListed \union {"choice"}
       \/ t = "typedidentifier" \/ t \in Several3 \/ t \in Joins \/ t \in Single
  /\ \A t \in Entries \union AlwaysListed \union {"choice", "typedidentifier"} \union Several3 \union Joins \union Single :
       t \notin NotListed
  /\ \A t \in AlwaysListed \union {"choice", "typedidentifier"} \union Several3 \union Joins \union Single :
       t \notin External
  /\ \A t \in Several3 \union Joins \union Single :
       t \notin AlwaysListed \union {"choice", "typedidentifier"}
  /\ \A t \in Joins \union Single : t \notin Several3
  /\ \A t \in Single : t \notin Joins \union FormSets \union Several
  /\ Entries = External \ NotListed
BY SMT DEF Type, Written, Dated, AlwaysListed, Picked, Several, NotListed, URLs, FormSets, External,
   Entries, Several3, Joins, Single

(* Which of the readers a type has.                                        *)
LEMMA WhatIsRead ==
  ASSUME NEW t \in Type, NEW choice, choice # <<>>, NEW optional, NEW canned, NEW cached
  PROVE  LET text == GetCannedAnswer(t, optional, canned, cached, choice)
             summary == PprintHtml(t, optional, canned, cached, choice)
         IN  /\ t \in NotListed => text = TextOfEntryOrNot(t, canned, cached, choice) /\ summary = text
             /\ t \in Entries => text = TextOfEntries(cached, choice) /\ summary = text
             /\ t \in AlwaysListed \union {"choice", "typedidentifier"} =>
                  text = TextOfCannedAnswer(t, canned, choice) /\ summary = AllParts(choice)
             /\ t \in Several3 => text = AllParts(choice) /\ summary = AllParts(choice)
             /\ t \in Joins => text = AllParts(choice) /\ summary = AllParts(choice)
             /\ t \in Single => text = Framed(choice) /\ summary \in {text, AllParts(choice)}
<1> DEFINE text == GetCannedAnswer(t, optional, canned, cached, choice)
           summary == PprintHtml(t, optional, canned, cached, choice)
           shown == Written \union AlwaysListed
                      \union {"choice", "multichoiceonetext", "daterange", "typedidentifier"}
<1>1. summary = IF t \in shown THEN AllParts(choice) ELSE text
  BY DEF PprintHtml
<1>2. shown \subseteq Single \union AlwaysListed \union {"choice", "typedidentifier"} \union Joins
  BY DEF Single, Joins
<1>3. AlwaysListed \union {"choice", "typedidentifier"} \subseteq shown
  OBVIOUS
<1> HIDE DEF shown
<1>4. ASSUME t \in NotListed
      PROVE  text = TextOfEntryOrNot(t, canned, cached, choice) /\ t \notin shown
  BY <1>2, <1>4, ReadersAreApart DEF GetCannedAnswer, Entries, Several3, Joins
<1>5. ASSUME t \in Entries
      PROVE  text = TextOfEntries(cached, choice) /\ t \notin shown
  <2>1. t \in External \ NotListed
    BY <1>5, ReadersAreApart
  <2>2. t \notin AlwaysListed \union {"choice", "typedidentifier"} \union Several3 \union Joins \union Single
    BY <2>1, ReadersAreApart
  <2> QED
    BY <1>2, <2>1, <2>2 DEF GetCannedAnswer, Several3, Joins
<1>6. ASSUME t \in AlwaysListed \union {"choice", "typedidentifier"}
      PROVE  text = TextOfCannedAnswer(t, canned, choice) /\ t \in shown
  <2>1. t \notin External /\ t \notin NotListed /\ t \notin Several3 /\ t \notin Joins
    BY <1>6, ReadersAreApart
  <2> QED
    BY <1>3, <1>6, <2>1 DEF GetCannedAnswer, Several3, Joins
<1>7. ASSUME t \in Several3
      PROVE  text = Rendered(choice)
  <2>1. /\ t \notin External /\ t \notin NotListed /\ t \notin Joins
        /\ t \notin AlwaysListed \union {"choice", "typedidentifier"}
    BY <1>7, ReadersAreApart
  <2> QED
    BY <1>7, <2>1 DEF GetCannedAnswer, Several3, Joins
<1>8. ASSUME t \in Joins
      PROVE  text = Joined(choice)
  <2>1. /\ t \notin External /\ t \notin NotListed /\ t \notin Several3
        /\ t \notin AlwaysListed \union {"choice", "typedidentifier"}
    BY <1>8, ReadersAreApart
  <2> QED
    BY <1>8, <2>1 DEF GetCannedAnswer, Several3, Joins
<1>9. ASSUME t \in Single
      PROVE  text = Framed(choice)
  <2>1. /\ t \notin External /\ t \notin NotListed /\ t \notin Several3 /\ t \notin Joins
        /\ t \notin AlwaysListed \union {"choice", "typedidentifier"}
    BY <1>9, ReadersAreApart
  <2> QED
    BY <1>9, <2>1 DEF GetCannedAnswer, Several3, Joins
<1>10. Rendered(choice) = AllParts(choice) /\ Joined(choice) = AllParts(choice)
  BY RenderedIsAll DEF Joined
<1> HIDE DEF text, summary
<1>11. /\ t \in NotListed => text = TextOfEntryOrNot(t, canned, cached, choice) /\ summary = text
       /\ t \in Entries => text = TextOfEntries(cached, choice) /\ summary = text
       /\ t \in AlwaysListed \union {"choice", "typedidentifier"} =>
            text = TextOfCannedAnswer(t, canned, choice) /\ summary = AllParts(choice)
       /\ t \in Several3 => text = AllParts(choice) /\ summary = AllParts(choice)
       /\ t \in Joins => text = AllParts(choice) /\ summary = AllParts(choice)
       /\ t \in Single => text = Framed(choice) /\ summary \in {text, AllParts(choice)}
  BY <1>1, <1>4, <1>5, <1>6, <1>7, <1>8, <1>9, <1>10
<1> QED
  BY <1>11 DEF text, summary

LEMMA NothingIsTold ==
  ASSUME NEW t \in Type, NEW optional, NEW canned, NEW cached
  PROVE  ReadRight(t, optional, canned, cached, <<>>)
<1> DEFINE text == GetCannedAnswer(t, optional, canned, cached, <<>>)
           summary == PprintHtml(t, optional, canned, cached, <<>>)
<1>1. text \subseteq {StandIn}
  BY DEF GetCannedAnswer
<1>2. AllParts(<<>>) = {}
  <2>1. \A part \in AllParts(<<>>) : part[1] \in DOMAIN <<>>
    BY PartHas
  <2> QED
    BY <2>1
<1>3. summary = text \/ summary = AllParts(<<>>)
  BY DEF PprintHtml
<1>4. Raises # StandIn /\ StandIn \in Wording
  BY DEF Raises, StandIn, Wording
<1>5. Tellable(t, cached, <<>>) = {}
  BY <1>2 DEF Tellable
<1> HIDE DEF text, summary
<1>6. Raises \notin summary \union text /\ Tellable(t, cached, <<>>) = text \ Wording
  BY <1>1, <1>2, <1>3, <1>4, <1>5
<1> QED
  BY <1>5, <1>6 DEF ReadRight, text, summary

(* Questions that show all there is.                                       *)
LEMMA AllIsTold ==
  ASSUME NEW t \in Several3 \union Joins \union Single, t \in Type,
         NEW choice, StoredShape(t, choice), choice # <<>>, NEW optional, NEW canned, NEW cached
  PROVE  ReadRight(t, optional, canned, cached, choice)
<1> DEFINE text == GetCannedAnswer(t, optional, canned, cached, choice)
           summary == PprintHtml(t, optional, canned, cached, choice)
<1>1. t \notin External
  BY ReadersAreApart
<1>2. Tellable(t, cached, choice) = AllParts(choice)
  BY <1>1, TellsAll
<1>3. text = AllParts(choice) /\ summary = AllParts(choice)
  <2>1. CASE t \in Several3 \union Joins
    BY <2>1, WhatIsRead
  <2>2. CASE t \in Single
    <3>1. t \notin FormSets \union Several
      BY <2>2, ReadersAreApart
    <3>2. \A part \in AllParts(choice) : part[1] \in DOMAIN choice
      BY PartHas
    <3>3. DOMAIN choice = 1..Len(choice) /\ Len(choice) \in Nat /\ Len(choice) <= 1
      BY <3>1, PartsOfRows DEF StoredShape
    <3>4. \A part \in AllParts(choice) : part[1] = 1
      BY <3>2, <3>3
    <3>5. Framed(choice) = AllParts(choice)
      BY <3>4 DEF Framed
    <3>6. text = Framed(choice) /\ summary \in {text, AllParts(choice)}
      BY <2>2, WhatIsRead
    <3> QED
      BY <3>5, <3>6
  <2> QED
    BY <2>1, <2>2
<1>4. \A part \in AllParts(choice) : part \notin Wording /\ part # Raises
  BY PartsAreNoWords
<1> HIDE DEF text, summary
<1>5. Raises \notin summary \union text /\ Tellable(t, cached, choice) = text \ Wording
  BY <1>2, <1>3, <1>4
<1> QED
  BY <1>2, <1>3, <1>5 DEF ReadRight, text, summary

(* Entries that are still in the cache.                                    *)
LEMMA EntriesAreTold ==
  ASSUME NEW t \in Entries, t \in Type,
         NEW choice, StoredShape(t, choice), choice # <<>>,
         NEW optional, NEW canned, NEW cached \in SUBSET Key
  PROVE  ReadRight(t, optional, canned, cached, choice)
<1> DEFINE text == GetCannedAnswer(t, optional, canned, cached, choice)
           summary == PprintHtml(t, optional, canned, cached, choice)
<1>1. text = TextOfEntries(cached, choice) /\ summary = text
  BY WhatIsRead
<1>2. t \in External /\ Parts(t) = {"value"}
  <2>1. t \in Plain
    BY DEF Entries, Plain, Picked, Several
  <2> QED
    BY <2>1, PlainParts, ReadersAreApart
<1>3. \A i \in DOMAIN choice : DOMAIN choice[i] = {"value"}
  BY <1>2, PartsOfRows
<1>4. ASSUME NEW part \in Tellable(t, cached, choice)
      PROVE  part \in text
  <2>1. part \in AllParts(choice) /\ choice[part[1]][part[2]] \in cached
    BY <1>2, <1>4 DEF Tellable
  <2>2. part[1] \in DOMAIN choice /\ part[2] = "value" /\ part = <<part[1], "value">>
    <3>1. /\ part[1] \in DOMAIN choice /\ part[2] \in DOMAIN choice[part[1]]
          /\ part = <<part[1], part[2]>>
      BY <2>1, PartHas
    <3>2. part[2] = "value"
      BY <1>3, <3>1
    <3> QED
      BY <3>1, <3>2
  <2> QED
    BY <1>1, <2>1, <2>2 DEF TextOfEntries
<1>5. ASSUME NEW part \in text
      PROVE  part \in Tellable(t, cached, choice)
  <2>1. PICK i \in DOMAIN choice : choice[i].value \in cached /\ part = <<i, "value">>
    BY <1>1, <1>5 DEF TextOfEntries
  <2>2. choice[i].value # ""
    BY <2>1, KeyAssumption
  <2>3. part \in AllParts(choice)
    BY <1>3, <2>1, <2>2, PartIsThere
  <2>4. part[1] = i /\ part[2] = "value"
    BY <2>1
  <2> QED
    BY <2>1, <2>3, <2>4 DEF Tellable
<1>6. \A part \in Tellable(t, cached, choice) : part \notin Wording /\ part # Raises
  BY PartsAreNoWords DEF Tellable
<1> HIDE DEF text, summary
<1>7. Raises \notin summary \union text /\ Tellable(t, cached, choice) = text \ Wording
  BY <1>1, <1>4, <1>5, <1>6
<1> QED
  BY <1>1, <1>4, <1>5, <1>7 DEF ReadRight, text, summary

(* Canned answers are told by their texts.                                 *)
LEMMA CannedAreTold ==
  ASSUME NEW t \in AlwaysListed \union {"choice", "typedidentifier"}, t \in Type,
         NEW choice, StoredShape(t, choice), choice # <<>>,
         NEW optional, NEW canned \in SUBSET Key, NEW cached
  PROVE  ReadRight(t, optional, canned, cached, choice)
<1> DEFINE text == GetCannedAnswer(t, optional, canned, cached, choice)
           summary == PprintHtml(t, optional, canned, cached, choice)
<1>1. text = TextOfCannedAnswer(t, canned, choice) /\ summary = AllParts(choice)
  BY WhatIsRead
<1>2. Tellable(t, cached, choice) = AllParts(choice)
  BY ReadersAreApart, TellsAll
<1>3. Raises \notin summary \union text
  <2>1. \A k : Canned(k)[1] = 0
    BY DEF Canned
  <2>2. Raises[1] = -1
    BY DEF Raises
  <2>3. \A k : Raises # Canned(k)
    BY <2>1, <2>2
  <2>4. Raises \notin text
    BY <1>1, <2>3 DEF TextOfCannedAnswer
  <2>5. \A part \in AllParts(choice) : part # Raises
    BY PartsAreNoWords
  <2> QED
    BY <1>1, <2>4, <2>5
<1>4. IsFiniteSet(canned) /\ IsFiniteSet(Key)
  BY KeyAssumption, FS_Subset
<1>5. CASE t = "typedidentifier"
  <2>1. ASSUME WellMade(t, canned)
        PROVE  text = {}
    <3>1. Cardinality(canned) > 1
      BY <1>5, <2>1 DEF WellMade, AlwaysListed
    <3>2. Cardinality(canned) # 1
      BY <3>1
    <3> QED
      BY <1>1, <1>5, <3>2 DEF TextOfCannedAnswer, SerializeCondition
  <2> QED
    BY <1>1, <1>2, <1>3, <1>5, <2>1 DEF ReadRight
<1>6. CASE t \in AlwaysListed \union {"choice"}
  <2>1. 1 \in DOMAIN choice
    BY PartsOfRows DEF StoredShape
  <2>2. choice[1].value \in Key
    BY <1>6, <2>1 DEF StoredShape
  <2>3. t # "typedidentifier"
    BY <1>6 DEF AlwaysListed
  <2>4. ASSUME WellMade(t, canned)
        PROVE  text = {Canned(k) : k \in canned \intersect {choice[1].value}}
    <3>1. CASE Cardinality(canned) = 1
      <4>1. t \in AlwaysListed /\ canned = Key
        BY <1>6, <2>4, <3>1 DEF WellMade, AlwaysListed
      <4>2. PICK k : canned = {k}
        BY <1>4, <3>1, FS_Singleton
      <4>3. canned \intersect {choice[1].value} = canned
        BY <2>2, <4>1, <4>2
      <4> QED
        BY <1>1, <3>1, <4>3 DEF TextOfCannedAnswer
    <3>2. CASE Cardinality(canned) # 1
      BY <1>1, <2>3, <3>2 DEF TextOfCannedAnswer, SerializeCondition
    <3> QED
      BY <3>1, <3>2
  <2> HIDE DEF text, summary
  <2> QED
    BY <1>1, <1>2, <1>3, <1>6, <2>4 DEF ReadRight, text, summary
<1> QED
  BY <1>5, <1>6

(* An entry that is still in the cache, and something that is not listed.  *)
LEMMA NotListedIsTold ==
  ASSUME NEW t \in NotListed, t \in Type,
         NEW choice, StoredShape(t, choice), choice # <<>>,
         NEW optional, NEW canned \in SUBSET {"not-listed", "other"}, NEW cached \in SUBSET Key
  PROVE  ReadRight(t, optional, canned, cached, choice)
<1> DEFINE text == GetCannedAnswer(t, optional, canned, cached, choice)
           summary == PprintHtml(t, optional, canned, cached, choice)
           entry == IF choice[1].choices \in cached THEN {<<1, "choices">>} ELSE {}
           other == IF choice[1].not_listed # "" THEN TextOfNotListed(t, canned) ELSE {}
<1>1. text = entry \union other /\ summary = text
  <2>1. text = TextOfEntryOrNot(t, canned, cached, choice) /\ summary = text
    BY WhatIsRead
  <2>2. TextOfEntryOrNot(t, canned, cached, choice) = entry \union other
    BY DEF TextOfEntryOrNot
  <2> QED
    BY <2>1, <2>2
<1>2. DOMAIN choice = 1..1 /\ DOMAIN choice[1] = {"choices", "not_listed"}
  <2>1. t \notin FormSets \union Several /\ Parts(t) = {"choices", "not_listed"}
    BY SMT DEF NotListed, FormSets, Several, Parts, URLs
  <2>2. DOMAIN choice = 1..Len(choice) /\ Len(choice) \in Nat /\ Len(choice) <= 1
    BY <2>1, PartsOfRows DEF StoredShape
  <2>3. Len(choice) = 1
    BY <2>2 DEF StoredShape
  <2> QED
    BY <2>1, <2>2, <2>3, PartsOfRows
<1>3. other \subseteq {Raises, NotFound, Canned("not-listed"), Canned("other")}
      /\ (Raises \in other => canned = {"not-listed", "other"})
  <2>1. IsFiniteSet(canned)
    <3>1. IsFiniteSet({"not-listed"} \union {"other"})
      BY FS_Singleton, FS_Union
    <3>2. canned \in SUBSET ({"not-listed"} \union {"other"})
      OBVIOUS
    <3> QED
      BY <3>1, <3>2, FS_Subset
  <2>2. Cardinality(canned) \in Nat
    BY <2>1, FS_CardinalityType
  <2>3. \A k : Raises # Canned(k)
    <3>1. \A k : Canned(k)[1] = 0
      BY DEF Canned
    <3>2. Raises[1] = -1
      BY DEF Raises
    <3> QED
      BY <3>1, <3>2
  <2>4. Raises # NotFound
    BY DEF Raises, NotFound
  <2>5. CASE Cardinality(canned) > 1
    <3>1. \A k : canned # {k}
      BY <2>1, <2>5, FS_Singleton
    <3>2. canned # {}
      <4>1. Cardinality({}) = 0
        BY FS_EmptySet
      <4> QED
        BY <2>5, <4>1
    <3>3. canned = {"not-listed", "other"}
      BY <3>1, <3>2
    <3> QED
      BY <2>5, <3>3 DEF TextOfNotListed
  <2>6. CASE ~(Cardinality(canned) > 1) /\ canned # {}
    <3>1. Cardinality(canned) = 1
      BY <2>1, <2>2, <2>6, FS_EmptySet
    <3>2. TextOfNotListed(t, canned) = {Canned(k) : k \in canned}
      BY <2>6, <3>1 DEF TextOfNotListed, TextOfCannedAnswer
    <3> QED
      BY <2>3, <3>2
  <2>7. CASE ~(Cardinality(canned) > 1) /\ canned = {}
    BY <2>4, <2>7 DEF TextOfNotListed
  <2> QED
    BY <2>5, <2>6, <2>7
<1>4. Tellable(t, cached, choice) = entry
  <2>1. ASSUME NEW part \in Tellable(t, cached, choice)
        PROVE  part \in entry
    <3>1. /\ part \in AllParts(choice) /\ part[2] # "not_listed"
          /\ choice[part[1]][part[2]] \in cached
      BY <2>1 DEF Tellable, External
    <3>2. /\ part[1] \in DOMAIN choice /\ part[2] \in DOMAIN choice[part[1]]
          /\ part = <<part[1], part[2]>>
      BY <3>1, PartHas
    <3>3. part[1] = 1
      BY <1>2, <3>2
    <3>4. part[2] = "choices"
      BY <1>2, <3>1, <3>2, <3>3
    <3> QED
      BY <3>1, <3>2, <3>3, <3>4
  <2>2. ASSUME NEW part \in entry
        PROVE  part \in Tellable(t, cached, choice)
    <3>1. choice[1].choices \in cached /\ part = <<1, "choices">>
      BY <2>2
    <3>2. choice[1].choices # ""
      BY <3>1, KeyAssumption
    <3>3. part \in AllParts(choice)
      <4>1. 1 \in DOMAIN choice /\ "choices" \in DOMAIN choice[1]
        BY <1>2
      <4>2. choice[1]["choices"] # ""
        BY <3>2
      <4>3. <<1, "choices">> \in AllParts(choice)
        BY <4>1, <4>2, PartIsThere
      <4> QED
        BY <3>1, <4>3
    <3>4. part[1] = 1 /\ part[2] = "choices"
      BY <3>1
    <3> QED
      BY <3>1, <3>3, <3>4 DEF Tellable
  <2> QED
    BY <2>1, <2>2
<1>5. \A part \in entry : part \notin Wording /\ part # Raises
  BY <1>4, PartsAreNoWords DEF Tellable
<1> HIDE DEF text, summary, entry, other
<1>6. Tellable(t, cached, choice) = text \ Wording
  BY <1>1, <1>3, <1>4, <1>5 DEF Wording
<1>7. Raises \in summary \union text => canned = {"not-listed", "other"}
  BY <1>1, <1>3, <1>5
<1> QED
  BY <1>1, <1>4, <1>6, <1>7 DEF ReadRight, text, summary

LEMMA ShapesAreTold ==
  ASSUME Shapes
  PROVE  AnswerIsTold
<1> SUFFICES ASSUME NEW choice \in stored, NEW canned \in CannedAnswers(question.type),
                    NEW cached \in {listed, Key}
             PROVE  ReadRight(question.type, question.optional, canned, cached, choice)
  BY DEF AnswerIsTold
<1> DEFINE t == question.type
<1>1. t \in Type /\ listed \in SUBSET Key /\ cached \in SUBSET Key
  BY DEF Shapes
<1>2. StoredShape(t, choice)
  BY DEF Shapes
<1>3. t \in NotListed => canned \in SUBSET {"not-listed", "other"}
  BY KindsAreApart DEF CannedAnswers, AlwaysListed, NotListed
<1>4. t \in AlwaysListed \union {"choice", "typedidentifier"} => canned \in SUBSET Key
  BY <1>1, SMT DEF CannedAnswers, AlwaysListed, NotListed
<1> HIDE DEF t
<1>5. CASE choice = <<>>
  BY <1>1, <1>5, NothingIsTold DEF t
<1>6. CASE choice # <<>>
  <2>1. CASE t \in NotListed
    BY <1>1, <1>2, <1>3, <1>6, <2>1, NotListedIsTold DEF t
  <2>2. CASE t \in Entries
    BY <1>1, <1>2, <1>6, <2>2, EntriesAreTold DEF t
  <2>3. CASE t \in AlwaysListed \union {"choice", "typedidentifier"}
    BY <1>1, <1>2, <1>4, <1>6, <2>3, CannedAreTold DEF t
  <2>4. CASE t \in Several3 \union Joins \union Single
    BY <1>1, <1>2, <1>6, <2>4, AllIsTold DEF t
  <2> QED
    BY <1>1, <2>1, <2>2, <2>3, <2>4, ReadersAreApart
<1> QED
  BY <1>5, <1>6

(* The summary and the text of a stored answer tell what was answered,     *)
(* whatever canned answers and cached entries are left of those it was     *)
(* chosen from: the readers of each class fit what its form has stored.    *)
THEOREM AnswersAreTold == QuestionSpec => []AnswerIsTold
BY QuestionInvariant, ShapesAreTold, PTL DEF QuestionInv

-----------------------------------------------------------------------------
(* Summaries.                                                              *)

SameRow(x, y) == x.section = y.section /\ x.parent = y.parent

-----------------------------------------------------------------------------
(* What is reached in steps is the least set that has the start and from   *)
(* which no step leads out.                                                *)

Grown(next, S) == S \union UNION {next[x] : x \in S}
Shut(D, next, S) == S \subseteq D /\ \A x \in S : next[x] \subseteq S

(* A set that grows until it is closed: a function of the set, by what it  *)
(* is when it no longer grows.                                             *)
LEMMA SpreadIs ==
  ASSUME NEW D, IsFiniteSet(D), NEW next \in [D -> SUBSET D], NEW start \in SUBSET D
  PROVE  \E f :
           /\ Closure(D, next, start) = f[start]
           /\ \A S \in SUBSET D :
                /\ Grown(next, S) \in SUBSET D
                /\ f[S] = IF Grown(next, S) = S THEN S ELSE f[Grown(next, S)]
<1> DEFINE More(S) == S \union UNION {next[x] : x \in S}
           Least(S) == {x \in D : \A T : Shut(D, next, T) /\ S \subseteq T => x \in T}
           Step(f, S) == IF More(S) = S THEN S ELSE f[More(S)]
           g == [S \in SUBSET D |-> Least(S)]
           Spread == CHOOSE f : f = [S \in SUBSET D |-> Step(f, S)]
<1>1. \A S \in SUBSET D : More(S) \in SUBSET D
  OBVIOUS
<1>2. ASSUME NEW S \in SUBSET D, More(S) = S PROVE Least(S) = S
  <2>1. Shut(D, next, S)
    BY <1>2 DEF Shut
  <2> QED BY <2>1
<1>3. ASSUME NEW S \in SUBSET D PROVE Least(More(S)) = Least(S)
  <2>1. \A T : Shut(D, next, T) => (S \subseteq T <=> More(S) \subseteq T)
    BY DEF Shut
  <2> HIDE DEF More
  <2> QED BY <2>1
<1>4. \A S \in SUBSET D : g[S] = Step(g, S)
  <2> SUFFICES ASSUME NEW S \in SUBSET D PROVE g[S] = Step(g, S)
    OBVIOUS
  <2>1. More(S) \in SUBSET D
    BY <1>1
  <2> HIDE DEF More, Least
  <2>2. g[S] = Least(S) /\ g[More(S)] = Least(More(S))
    BY <2>1
  <2> HIDE DEF g
  <2> QED BY <1>2, <1>3, <2>2
<1>5. g = [S \in SUBSET D |-> Step(g, S)]
  <2> HIDE DEF Step, Least
  <2> QED BY <1>4
<1> HIDE DEF g
<1>6. Spread = [S \in SUBSET D |-> Step(Spread, S)]
  <2> HIDE DEF Step
  <2> QED BY <1>5
<1>7. Closure(D, next, start) = Spread[start]
  BY DEF Closure
<1> HIDE DEF Spread
<1>8. \A S \in SUBSET D : Spread[S] = Step(Spread, S)
  <2> HIDE DEF Step
  <2> QED BY <1>6
<1> HIDE DEF More
<1>9. \A S \in SUBSET D :
         /\ More(S) \in SUBSET D
         /\ Spread[S] = IF More(S) = S THEN S ELSE Spread[More(S)]
  BY <1>1, <1>8
<1>10. \A S : Grown(next, S) = More(S)
  BY DEF More, Grown
<1> QED BY <1>7, <1>9, <1>10

LEMMA ClosureIs ==
  ASSUME NEW D, IsFiniteSet(D), NEW next \in [D -> SUBSET D], NEW start \in SUBSET D
  PROVE  /\ start \subseteq Closure(D, next, start)
         /\ Shut(D, next, Closure(D, next, start))
         /\ \A T : Shut(D, next, T) /\ start \subseteq T => Closure(D, next, start) \subseteq T
<1> DEFINE More(S) == Grown(next, S)
           Known(S, C) == /\ S \subseteq C /\ Shut(D, next, C)
                          /\ \A T : Shut(D, next, T) /\ S \subseteq T => C \subseteq T
<1>1. PICK f : /\ Closure(D, next, start) = f[start]
               /\ \A S \in SUBSET D :
                    More(S) \in SUBSET D /\ f[S] = IF More(S) = S THEN S ELSE f[More(S)]
  BY SpreadIs
<1> DEFINE Open == {L \in FiniteSubsetsOf(D) : ~Known(D \ L, f[D \ L])}
<1>2. ASSUME NEW S \in SUBSET D, More(S) = S PROVE Known(S, S)
  BY <1>2 DEF Shut, Grown
<1>3. ASSUME NEW S \in SUBSET D, NEW C, Known(More(S), C) PROVE Known(S, C)
  BY <1>3 DEF Shut, Grown
<1>4. Open = {}
  <2>1. SUFFICES ASSUME Open # {} PROVE FALSE
    OBVIOUS
  <2>2. IsWellFoundedOn(StrictSubsetOrdering(D), FiniteSubsetsOf(D))
    BY FS_StrictSubsetOrderingWellFounded
  <2>3. Open \subseteq FiniteSubsetsOf(D)
    OBVIOUS
  <2>4. PICK L \in Open : \A M \in Open : <<M, L>> \notin StrictSubsetOrdering(D)
    <3> HIDE DEF Open
    <3> QED BY <2>1, <2>2, <2>3, WFMin
  <2> DEFINE S == D \ L
             M == D \ More(S)
  <2>5. L \subseteq D /\ S \in SUBSET D /\ ~Known(S, f[S])
    BY DEF FiniteSubsetsOf
  <2> HIDE DEF Known
  <2>6. More(S) \in SUBSET D /\ f[S] = IF More(S) = S THEN S ELSE f[More(S)]
    <3> HIDE DEF S
    <3> QED BY <1>1, <2>5
  <2>7. More(S) # S /\ f[S] = f[More(S)]
    BY <1>2, <2>5, <2>6
  <2>8. S \subseteq More(S) /\ L = D \ S
    BY <2>5 DEF Grown
  <2> HIDE DEF S, More
  <2>9. M \subseteq L /\ M # L /\ D \ M = More(S)
    BY <2>5, <2>6, <2>7, <2>8
  <2>10. M \in FiniteSubsetsOf(D) /\ <<M, L>> \in StrictSubsetOrdering(D)
    <3>1. IsFiniteSet(M)
      BY FS_Subset
    <3> QED BY <2>5, <2>9, <3>1 DEF FiniteSubsetsOf, StrictSubsetOrdering
  <2> HIDE DEF M
  <2>11. Known(More(S), f[More(S)])
    <3>1. M \notin Open
      <4> HIDE DEF Open
      <4> QED BY <2>4, <2>10
    <3> QED BY <2>9, <2>10, <3>1
  <2> QED BY <1>3, <2>5, <2>7, <2>11
<1>5. Known(start, f[start])
  <2> DEFINE L == D \ start
  <2>1. L \in FiniteSubsetsOf(D) /\ D \ L = start
    <3>1. IsFiniteSet(L)
      BY FS_Subset
    <3> QED BY <3>1 DEF FiniteSubsetsOf
  <2> HIDE DEF L, Known
  <2> QED BY <1>4, <2>1
<1> QED BY <1>1, <1>5

(* Every member but for the start is a step from another.                  *)
LEMMA ClosureBack ==
  ASSUME NEW D, IsFiniteSet(D), NEW next \in [D -> SUBSET D], NEW start \in SUBSET D
  PROVE  \A x \in Closure(D, next, start) :
             x \in start \/ \E y \in Closure(D, next, start) : x \in next[y]
<1> DEFINE C == Closure(D, next, start)
           T == start \union UNION {next[y] : y \in C}
<1>1. Shut(D, next, C) /\ start \subseteq C /\ (Shut(D, next, T) /\ start \subseteq T => C \subseteq T)
  <2> HIDE DEF T
  <2> QED BY ClosureIs
<1> HIDE DEF C
<1>2. T \subseteq C
  BY <1>1 DEF Shut
<1>3. Shut(D, next, T)
  BY <1>1, <1>2 DEF Shut
<1>4. C \subseteq T
  BY <1>1, <1>3
<1> QED BY <1>4 DEF C

-----------------------------------------------------------------------------
(* Numbers.                                                                *)

LEMMA LargestIs ==
  ASSUME NEW K \in SUBSET Nat, IsFiniteSet(K), K # {}
  PROVE  Max(K) \in K /\ \A k \in K : k <= Max(K)
<1> DEFINE Topped(L) == \E x \in L : \A y \in L : x >= y
           Open == {L \in FiniteSubsetsOf(Nat) : L # {} /\ ~Topped(L)}
<1>1. Topped(K)
  <2>1. SUFFICES ASSUME Open # {} PROVE FALSE
    BY DEF FiniteSubsetsOf
  <2>2. IsWellFoundedOn(StrictSubsetOrdering(Nat), FiniteSubsetsOf(Nat))
    BY FS_StrictSubsetOrderingWellFounded
  <2>3. Open \subseteq FiniteSubsetsOf(Nat)
    OBVIOUS
  <2>4. PICK L \in Open : \A M \in Open : <<M, L>> \notin StrictSubsetOrdering(Nat)
    <3> HIDE DEF Open
    <3> QED BY <2>1, <2>2, <2>3, WFMin
  <2>5. L \subseteq Nat /\ IsFiniteSet(L) /\ L # {} /\ ~Topped(L)
    BY DEF FiniteSubsetsOf
  <2>6. PICK x \in L : TRUE
    BY <2>5
  <2> DEFINE M == L \ {x}
  <2>7. M \subseteq Nat /\ IsFiniteSet(M)
    BY <2>5, FS_Subset
  <2>8. <<M, L>> \in StrictSubsetOrdering(Nat)
    BY <2>5, <2>6 DEF StrictSubsetOrdering
  <2>9. M \notin Open
    <3> HIDE DEF M, Open
    <3> QED BY <2>4, <2>8
  <2>10. M = {} \/ Topped(M)
    BY <2>7, <2>9 DEF FiniteSubsetsOf
  <2>11. CASE M = {}
    BY <2>5, <2>6, <2>11
  <2>12. CASE Topped(M)
    <3>1. PICK m \in M : \A y \in M : m >= y
      BY <2>12
    <3>2. CASE m >= x
      BY <2>5, <3>1, <3>2
    <3>3. CASE x > m
      <4>1. \A y \in L : x >= y
        BY <2>5, <2>6, <3>1, <3>3
      <4> QED BY <2>5, <2>6, <4>1
    <3> QED BY <2>5, <2>6, <3>1, <3>2, <3>3
  <2> QED BY <2>10, <2>11, <2>12
<1>2. Max(K) \in K /\ \A k \in K : Max(K) >= k
  BY <1>1 DEF Max
<1> QED BY <1>2

LEMMA LastKeyIs ==
  ASSUME NEW given \in Nat, NEW R, DOMAIN R \subseteq Nat, IsFiniteSet(DOMAIN R)
  PROVE  /\ LastKey(given, R) \in Nat
         /\ given <= LastKey(given, R)
         /\ \A r \in DOMAIN R : r <= LastKey(given, R)
<1> DEFINE K == {given} \union DOMAIN R
<1>1. K \in SUBSET Nat /\ IsFiniteSet(K) /\ K # {}
  BY FS_Singleton, FS_Union
<1>2. Max(K) \in K /\ \A k \in K : k <= Max(K)
  <2> HIDE DEF K
  <2> QED BY <1>1, LargestIs
<1> QED BY <1>1, <1>2 DEF LastKey

-----------------------------------------------------------------------------
(* Sections and their trees.                                               *)

LEMMA TreeIs ==
  ASSUME IsTree(tree)
  PROVE  /\ IsFiniteSet(DOMAIN tree) /\ DOMAIN tree \subseteq Nat /\ Topmost \notin DOMAIN tree
         /\ Topmost \in Nat
         /\ \A s \in DOMAIN tree :
              /\ tree[s].super \in (DOMAIN tree) \union {Topmost}
              /\ tree[s].optional \in BOOLEAN /\ tree[s].standIn \in BOOLEAN
         /\ \E level : level \in Levels(tree)
  BY DEF IsTree, Topmost

LEMMA LevelIs ==
  ASSUME IsTree(tree), NEW level \in Levels(tree)
  PROVE  \A s \in DOMAIN tree :
           /\ level[s] \in Nat
           /\ tree[s].super # Topmost =>
                /\ tree[s].super \in DOMAIN tree /\ level[tree[s].super] \in Nat
                /\ level[tree[s].super] < level[s]
<1>1. Cardinality(DOMAIN tree) \in Nat
  BY FS_CardinalityType DEF IsTree
<1>2. \A s \in DOMAIN tree : level[s] \in Nat
  BY <1>1 DEF Levels
<1>3. QED
  BY <1>2, TreeIs DEF Levels

LEMMA SectionTreeIs ==
  ASSUME IsTree(tree), NEW s \in DOMAIN tree
  PROVE  /\ s \in SectionTree(s) /\ SectionTree(s) \subseteq DOMAIN tree
         /\ \A t \in SectionTree(s) :
              /\ \A level \in Levels(tree) : level[s] <= level[t]
              /\ Subsections(t) \subseteq SectionTree(s)
              /\ t = s \/ tree[t].super \in SectionTree(s)
<1> DEFINE D == DOMAIN tree
           next == [t \in DOMAIN tree |-> Subsections(t)]
           C == Closure(D, next, {s})
<1>1. IsFiniteSet(D) /\ next \in [D -> SUBSET D] /\ {s} \in SUBSET D
  BY TreeIs DEF Subsections
<1>2. SectionTree(s) = C
  BY DEF SectionTree
<1>3. /\ {s} \subseteq C /\ Shut(D, next, C)
      /\ \A T : Shut(D, next, T) /\ {s} \subseteq T => C \subseteq T
  <2> HIDE DEF D, next
  <2> QED BY <1>1, ClosureIs
<1>4. \A t \in C : t \in {s} \/ \E y \in C : t \in next[y]
  <2> HIDE DEF D, next
  <2> QED BY <1>1, ClosureBack
<1> HIDE DEF C
<1>5. ASSUME NEW level \in Levels(tree), NEW t \in C PROVE level[s] <= level[t]
  <2> DEFINE Deeper == {u \in D : level[s] <= level[u]}
  <2>1. ASSUME NEW u \in Deeper, NEW v \in Subsections(u) PROVE v \in Deeper
    <3>1. v \in D /\ tree[v].super = u /\ u # Topmost
      BY TreeIs DEF Subsections
    <3>2. level[v] \in Nat /\ level[u] \in Nat /\ level[s] \in Nat /\ level[u] < level[v]
      BY <3>1, LevelIs
    <3> QED BY <3>1, <3>2
  <2>2. Shut(D, next, Deeper)
    BY <2>1 DEF Shut
  <2>3. {s} \subseteq Deeper
    BY LevelIs
  <2> HIDE DEF Deeper
  <2>4. C \subseteq Deeper
    BY <1>3, <2>2, <2>3
  <2> QED BY <2>4 DEF Deeper
<1>7. C \subseteq D
  BY <1>3 DEF Shut
<1>8. \A t \in C : next[t] = Subsections(t) /\ Subsections(t) \subseteq C
  BY <1>3, <1>7 DEF Shut
<1>9. ASSUME NEW t \in C, t # s PROVE tree[t].super \in C
  <2>1. PICK y \in C : t \in next[y]
    BY <1>4, <1>9
  <2>2. t \in Subsections(y)
    BY <1>8, <2>1
  <2> QED BY <2>2 DEF Subsections
<1> QED BY <1>2, <1>3, <1>5, <1>7, <1>8, <1>9

-----------------------------------------------------------------------------
(* Rows that are planted.                                                  *)

SlotsFit(R, slots) ==
    /\ slots \subseteq (DOMAIN tree) \X ((DOMAIN R) \union {Topmost})
    /\ \A slot \in slots :
         tree[slot[1]].super = IF slot[2] = Topmost THEN Topmost ELSE R[slot[2]].section

LEMMA RowIsFit ==
  ASSUME IsTree(tree), NEW R, Fits(tree, R)
  PROVE  /\ IsFiniteSet(DOMAIN R) /\ DOMAIN R \subseteq Nat /\ Topmost \notin DOMAIN R
         /\ R = [r \in DOMAIN R |-> R[r]]
         /\ \A r \in DOMAIN R :
              /\ R[r] = [section |-> R[r].section, parent |-> R[r].parent,
                         skipped |-> R[r].skipped, filled |-> R[r].filled]
              /\ R[r].section \in DOMAIN tree
              /\ R[r].parent \in (DOMAIN R) \union {Topmost}
              /\ R[r].skipped \in BOOLEAN /\ R[r].filled \in BOOLEAN
              /\ tree[R[r].section].super = IF R[r].parent = Topmost THEN Topmost
                                            ELSE R[R[r].parent].section
  BY DEF Fits

LEMMA FitsIf ==
  ASSUME IsTree(tree), NEW R, IsFiniteSet(DOMAIN R), DOMAIN R \subseteq Nat, Topmost \notin DOMAIN R,
         R = [r \in DOMAIN R |-> R[r]],
         \A r \in DOMAIN R :
              /\ R[r] = [section |-> R[r].section, parent |-> R[r].parent,
                         skipped |-> R[r].skipped, filled |-> R[r].filled]
              /\ R[r].section \in DOMAIN tree
              /\ R[r].parent \in (DOMAIN R) \union {Topmost}
              /\ R[r].skipped \in BOOLEAN /\ R[r].filled \in BOOLEAN
              /\ tree[R[r].section].super = IF R[r].parent = Topmost THEN Topmost
                                            ELSE R[R[r].parent].section
  PROVE  Fits(tree, R)
<1> DEFINE RowSet == [section : DOMAIN tree, parent : (DOMAIN R) \union {Topmost},
                   skipped : BOOLEAN, filled : BOOLEAN]
<1>1. \A r \in DOMAIN R : R[r] \in RowSet
  <2> SUFFICES ASSUME NEW r \in DOMAIN R PROVE R[r] \in RowSet
    OBVIOUS
  <2>1. [section |-> R[r].section, parent |-> R[r].parent,
         skipped |-> R[r].skipped, filled |-> R[r].filled] \in RowSet
    OBVIOUS
  <2> HIDE DEF RowSet
  <2> QED BY <2>1
<1>2. R \in [DOMAIN R -> RowSet]
  <2> HIDE DEF RowSet
  <2> QED BY <1>1
<1> QED BY <1>2 DEF Fits

LEMMA NewRowsAre ==
  ASSUME IsTree(tree), NEW R, Fits(tree, R), NEW slots, SlotsFit(R, slots)
  PROVE  /\ NewRows(slots) \subseteq ((DOMAIN R) \union {Topmost}) \X (DOMAIN tree)
         /\ IsFiniteSet(NewRows(slots))
         /\ \A slot \in slots : <<slot[2], slot[1]>> \in NewRows(slots)
         /\ \A new \in NewRows(slots) :
              \/ <<new[2], new[1]>> \in slots
              \/ <<new[1], tree[new[2]].super>> \in NewRows(slots)
         /\ \A new \in NewRows(slots) : \A t \in Subsections(new[2]) :
              <<new[1], t>> \in NewRows(slots) /\ <<t, new[1]>> \notin slots
<1> DEFINE N == NewRows(slots)
           P == (DOMAIN R) \union {Topmost}
<1>1. \A slot \in slots : /\ slot = <<slot[1], slot[2]>> /\ slot[1] \in DOMAIN tree /\ slot[2] \in P
                          /\ tree[slot[1]].super = IF slot[2] = Topmost THEN Topmost
                                                   ELSE R[slot[2]].section
  BY DEF SlotsFit
<1>2. \A new : new \in N <=> \E slot \in slots : new \in {slot[2]} \X SectionTree(slot[1])
  BY DEF NewRows
<1>3. \A new \in N : /\ new = <<new[1], new[2]>>
                     /\ \E slot \in slots : new[1] = slot[2] /\ new[2] \in SectionTree(slot[1])
  BY <1>2
<1>4. \A slot \in slots : \A t \in SectionTree(slot[1]) : <<slot[2], t>> \in N
  BY <1>2
<1> HIDE DEF N, P
<1>5. N \subseteq P \X DOMAIN tree
  <2> SUFFICES ASSUME NEW new \in N PROVE new \in P \X DOMAIN tree
    OBVIOUS
  <2>1. PICK slot \in slots : new[1] = slot[2] /\ new[2] \in SectionTree(slot[1])
    BY <1>3
  <2>2. slot[1] \in DOMAIN tree /\ slot[2] \in P
    BY <1>1
  <2>3. new[2] \in DOMAIN tree
    BY <2>1, <2>2, SectionTreeIs
  <2> QED BY <1>3, <2>1, <2>2, <2>3
<1>6. IsFiniteSet(N)
  <2>1. IsFiniteSet(P) /\ IsFiniteSet(DOMAIN tree)
    BY RowIsFit, TreeIs, FS_Singleton, FS_Union DEF P
  <2>2. IsFiniteSet(P \X DOMAIN tree)
    BY <2>1, FS_Product
  <2> QED BY <1>5, <2>2, FS_Subset
<1>7. \A slot \in slots : <<slot[2], slot[1]>> \in N
  BY <1>1, <1>4, SectionTreeIs
<1>8. ASSUME NEW new \in N PROVE <<new[2], new[1]>> \in slots \/ <<new[1], tree[new[2]].super>> \in N
  <2>1. PICK slot \in slots : new[1] = slot[2] /\ new[2] \in SectionTree(slot[1])
    BY <1>3
  <2>2. slot[1] \in DOMAIN tree /\ slot = <<slot[1], slot[2]>>
    BY <1>1
  <2>3. new[2] = slot[1] \/ tree[new[2]].super \in SectionTree(slot[1])
    BY <2>1, <2>2, SectionTreeIs
  <2> QED BY <1>4, <2>1, <2>2, <2>3
<1>9. ASSUME NEW new \in N, NEW t \in Subsections(new[2])
      PROVE  <<new[1], t>> \in N /\ <<t, new[1]>> \notin slots
  <2>1. PICK slot \in slots : new[1] = slot[2] /\ new[2] \in SectionTree(slot[1])
    BY <1>3
  <2>2. /\ slot[1] \in DOMAIN tree
        /\ tree[slot[1]].super = IF new[1] = Topmost THEN Topmost ELSE R[new[1]].section
    BY <1>1, <2>1
  <2>0. PICK level : level \in Levels(tree)
    BY TreeIs
  <2>3. t \in SectionTree(slot[1]) /\ level[slot[1]] <= level[new[2]] /\ new[2] \in DOMAIN tree
    BY <2>0, <2>1, <2>2, SectionTreeIs
  <2>4. tree[t].super = new[2]
    BY DEF Subsections
  <2>5. tree[slot[1]].super # new[2]
    <3>1. new[2] # Topmost
      BY <2>3, TreeIs
    <3>2. level[slot[1]] \in Nat /\ level[new[2]] \in Nat
      BY <2>0, <2>2, <2>3, LevelIs
    <3>3. tree[slot[1]].super = new[2] => level[new[2]] < level[slot[1]]
      BY <3>1, <2>0, <2>2, LevelIs
    <3>4. QED
      BY <3>2, <3>3, <2>3
  <2>6. tree[t].super # tree[slot[1]].super
    BY <2>4, <2>5
  <2>7. <<t, new[1]>> \in slots => tree[t].super = IF new[1] = Topmost THEN Topmost ELSE R[new[1]].section
    BY <1>1
  <2> QED BY <1>4, <2>1, <2>2, <2>3, <2>6, <2>7
<1> QED BY <1>5, <1>6, <1>7, <1>8, <1>9 DEF N, P

(* Keys are given one by one after the last.                               *)
LEMMA NewKeysAre ==
  ASSUME NEW slots, NEW given \in Nat, IsFiniteSet(NewRows(slots)),
         NewRows(slots) \subseteq Nat \X Nat
  PROVE  /\ \A x \in NewRows(slots) : NewKey(slots, given, x) \in Nat /\ NewKey(slots, given, x) > given
         /\ \A x, y \in NewRows(slots) :
              NewKey(slots, given, x) = NewKey(slots, given, y) => x = y
<1> DEFINE N == NewRows(slots)
           Upto(x) == {y \in N : y[1] < x[1] \/ (y[1] = x[1] /\ y[2] <= x[2])}
<1>1. \A x : NewKey(slots, given, x) = given + Cardinality(Upto(x))
  BY DEF NewKey
<1>2. \A x \in N : x = <<x[1], x[2]>> /\ x[1] \in Nat /\ x[2] \in Nat
  OBVIOUS
<1> HIDE DEF N
<1>3. ASSUME NEW x \in N
      PROVE  /\ x \in Upto(x) /\ IsFiniteSet(Upto(x))
             /\ Cardinality(Upto(x)) \in Nat /\ Cardinality(Upto(x)) > 0
  <2>1. x \in Upto(x) /\ Upto(x) \subseteq N
    BY <1>2
  <2> HIDE DEF Upto
  <2>2. IsFiniteSet(Upto(x))
    BY <2>1, FS_Subset DEF N
  <2>3. Cardinality(Upto(x)) \in Nat /\ Cardinality(Upto(x)) # 0
    BY <2>1, <2>2, FS_CardinalityType, FS_EmptySet
  <2> QED BY <2>1, <2>2, <2>3
<1>4. ASSUME NEW x \in N, NEW y \in N, x # y, Cardinality(Upto(x)) = Cardinality(Upto(y)) PROVE FALSE
  <2>1. (x \notin Upto(y) /\ Upto(y) \subseteq Upto(x)) \/ (y \notin Upto(x) /\ Upto(x) \subseteq Upto(y))
    <3>1. ASSUME NEW a \in N, NEW b \in N,
                 a[1] < b[1] \/ (a[1] = b[1] /\ a[2] < b[2])
          PROVE  b \notin Upto(a) /\ Upto(a) \subseteq Upto(b)
      <4>1. b \notin Upto(a)
        BY <1>2, <3>1
      <4>2. ASSUME NEW z \in Upto(a) PROVE z \in Upto(b)
        BY <1>2, <3>1
      <4> QED BY <4>1, <4>2
    <3>2. \/ x[1] < y[1] \/ (x[1] = y[1] /\ x[2] < y[2])
          \/ y[1] < x[1] \/ (y[1] = x[1] /\ y[2] < x[2])
      BY <1>2, <1>4
    <3> HIDE DEF Upto
    <3> QED BY <3>1, <3>2
  <2> HIDE DEF Upto
  <2>2. /\ Upto(y) \subseteq Upto(x) => Upto(y) = Upto(x)
        /\ Upto(x) \subseteq Upto(y) => Upto(x) = Upto(y)
    BY <1>3, <1>4, FS_Subset
  <2> QED BY <1>3, <2>1, <2>2
<1> HIDE DEF Upto
<1>5. \A x \in N : NewKey(slots, given, x) \in Nat /\ NewKey(slots, given, x) > given
  BY <1>1, <1>3
<1>6. ASSUME NEW x \in N, NEW y \in N, NewKey(slots, given, x) = NewKey(slots, given, y) PROVE x = y
  <2>1. Cardinality(Upto(x)) \in Nat /\ Cardinality(Upto(y)) \in Nat
    BY <1>3
  <2>2. Cardinality(Upto(x)) = Cardinality(Upto(y))
    BY <1>1, <1>6, <2>1
  <2> QED BY <1>4, <2>2
<1> QED BY <1>5, <1>6 DEF N

-----------------------------------------------------------------------------
(* What is planted and what is deleted.                                    *)

Above(R, given) == \A r \in DOMAIN R : r <= given

GapBelow(R, r) == \E t \in Subsections(R[r].section) : RowsAt(R, t, r) = {}

(* Only rows with keys after the last are added.                           *)
Adds(R, P, given) ==
    /\ DOMAIN R \subseteq DOMAIN P
    /\ \A r \in DOMAIN R : P[r] = R[r]
    /\ \A r \in (DOMAIN P) \ DOMAIN R : r > given

(* Planting fills the slots, and every section below a new row has one.    *)
LEMMA PlantIs ==
  ASSUME IsTree(tree), NEW R, Fits(tree, R), NEW slots, SlotsFit(R, slots),
         NEW given \in Nat, Above(R, given), NEW how
  PROVE  /\ Fits(tree, PlantAll(R, slots, given, how))
         /\ Adds(R, PlantAll(R, slots, given, how), given)
         /\ \A slot \in slots : RowsAt(PlantAll(R, slots, given, how), slot[1], slot[2]) # {}
         /\ \A r \in (DOMAIN PlantAll(R, slots, given, how)) \ DOMAIN R :
              ~GapBelow(PlantAll(R, slots, given, how), r)
<1> DEFINE N == NewRows(slots)
           key(x) == NewKey(slots, given, x)
           row(x) == NewRow(slots, given, how, x)
           keys == {key(x) : x \in N}
           P == PlantAll(R, slots, given, how)
<1>1. /\ N \subseteq ((DOMAIN R) \union {Topmost}) \X (DOMAIN tree)
      /\ IsFiniteSet(N)
      /\ \A slot \in slots : <<slot[2], slot[1]>> \in N
      /\ \A x \in N : <<x[2], x[1]>> \in slots \/ <<x[1], tree[x[2]].super>> \in N
      /\ \A x \in N : \A t \in Subsections(x[2]) : <<x[1], t>> \in N /\ <<t, x[1]>> \notin slots
  BY NewRowsAre
<1>2. /\ IsFiniteSet(DOMAIN R) /\ DOMAIN R \subseteq Nat /\ Topmost \notin DOMAIN R
      /\ DOMAIN tree \subseteq Nat /\ Topmost = 0
  BY RowIsFit, TreeIs DEF Topmost
<1>3. N \subseteq Nat \X Nat
  BY <1>1, <1>2
<1>4. /\ \A x \in N : key(x) \in Nat /\ key(x) > given
      /\ \A x, y \in N : key(x) = key(y) => x = y
  BY <1>1, <1>3, NewKeysAre
<1>5. P = [r \in (DOMAIN R) \union keys |->
             IF r \in DOMAIN R THEN R[r] ELSE row(CHOOSE x \in N : key(x) = r)]
  BY DEF PlantAll
<1>6. ASSUME NEW x \in N
      PROVE  /\ x = <<x[1], x[2]>> /\ x[1] \in (DOMAIN R) \union {Topmost} /\ x[2] \in DOMAIN tree
             /\ row(x).section = x[2]
             /\ row(x).parent = IF <<x[2], x[1]>> \in slots THEN x[1]
                                ELSE key(<<x[1], tree[x[2]].super>>)
             /\ row(x).skipped \in BOOLEAN
             /\ row(x).filled = FALSE
             /\ row(x) = [section |-> row(x).section, parent |-> row(x).parent,
                          skipped |-> row(x).skipped, filled |-> row(x).filled]
  <2>1. x = <<x[1], x[2]>> /\ x[1] \in (DOMAIN R) \union {Topmost} /\ x[2] \in DOMAIN tree
    BY <1>1
  <2>2. row(x).section = x[2]
    BY DEF NewRow
  <2>3. row(x).parent = IF <<x[2], x[1]>> \in slots THEN x[1]
                        ELSE key(<<x[1], tree[x[2]].super>>)
    BY DEF NewRow
  <2>4. row(x).skipped \in BOOLEAN
    <3>1. row(x).skipped = (tree[x[2]].optional /\ (how = "get" => <<x[2], x[1]>> \notin slots))
      BY DEF NewRow
    <3> HIDE DEF row, N
    <3> QED BY <3>1
  <2>5. row(x).filled = FALSE
    BY DEF NewRow
  <2>6. row(x) = [section |-> row(x).section, parent |-> row(x).parent,
                  skipped |-> row(x).skipped, filled |-> row(x).filled]
    BY DEF NewRow
  <2> HIDE DEF row, key, N
  <2> QED BY <2>1, <2>2, <2>3, <2>4, <2>5, <2>6
<1> HIDE DEF N, key, row, P
<1>7. DOMAIN P = (DOMAIN R) \union keys
  BY <1>5
<1>8. \A r \in DOMAIN R : P[r] = R[r]
  BY <1>5
<1>9. ASSUME NEW x \in N PROVE key(x) \in DOMAIN P /\ key(x) \notin DOMAIN R /\ P[key(x)] = row(x)
  <2>1. key(x) \notin DOMAIN R
    <3>1. \A r \in DOMAIN R : r <= given /\ r \in Nat
      BY <1>2 DEF Above
    <3> QED BY <1>4, <3>1
  <2>2. key(x) \in keys
    OBVIOUS
  <2>3. (CHOOSE y \in N : key(y) = key(x)) = x
    BY <1>4
  <2> HIDE DEF keys
  <2> QED BY <1>5, <1>7, <2>1, <2>2, <2>3
<1>10. \A r \in (DOMAIN P) \ DOMAIN R : \E x \in N : r = key(x)
  BY <1>7
<1>11. IsFiniteSet(DOMAIN P) /\ DOMAIN P \subseteq Nat /\ Topmost \notin DOMAIN P
  <2>1. IsFiniteSet(keys)
    <3> DEFINE f == [x \in N |-> key(x)]
    <3>1. f \in Surjection(N, keys)
      BY DEF Surjection
    <3> HIDE DEF f, keys
    <3> QED BY <1>1, <3>1, FS_Surjection
  <2>2. IsFiniteSet(DOMAIN P)
    BY <1>2, <1>7, <2>1, FS_Union
  <2>3. \A r \in keys : r \in Nat /\ r # 0
    BY <1>4
  <2> HIDE DEF keys
  <2> QED BY <1>2, <1>7, <2>2, <2>3
<1>12. P = [r \in DOMAIN P |-> P[r]]
  BY <1>5
<1> HIDE DEF keys
<1>13. Adds(R, P, given)
  <2>1. \A r \in (DOMAIN P) \ DOMAIN R : r > given
    BY <1>4, <1>10
  <2> QED BY <1>7, <1>8, <2>1 DEF Adds
<1>14. ASSUME NEW x \in N
       PROVE  /\ row(x).parent \in (DOMAIN P) \union {Topmost}
              /\ tree[x[2]].super = IF row(x).parent = Topmost THEN Topmost
                                    ELSE P[row(x).parent].section
  <2>1. CASE <<x[2], x[1]>> \in slots
    <3>1. row(x).parent = x[1]
      BY <1>6, <2>1
    <3>2. tree[x[2]].super = IF x[1] = Topmost THEN Topmost ELSE R[x[1]].section
      BY <2>1 DEF SlotsFit
    <3> QED BY <1>6, <1>7, <1>8, <3>1, <3>2
  <2>2. CASE <<x[2], x[1]>> \notin slots
    <3> DEFINE up == <<x[1], tree[x[2]].super>>
    <3>1. up \in N
      BY <1>1, <2>2
    <3>2. row(x).parent = key(up)
      BY <1>6, <2>2
    <3>3. row(up).section = up[2]
      BY <1>6, <3>1
    <3>4. up[2] = tree[x[2]].super
      OBVIOUS
    <3> HIDE DEF up
    <3>5. key(up) \in DOMAIN P /\ P[key(up)].section = tree[x[2]].super
      BY <1>9, <3>1, <3>3, <3>4
    <3> QED BY <1>11, <3>2, <3>5
  <2> QED BY <2>1, <2>2
<1>15. ASSUME NEW r \in DOMAIN P
       PROVE  /\ P[r] = [section |-> P[r].section, parent |-> P[r].parent,
                         skipped |-> P[r].skipped, filled |-> P[r].filled]
              /\ P[r].section \in DOMAIN tree
              /\ P[r].parent \in (DOMAIN P) \union {Topmost}
              /\ P[r].skipped \in BOOLEAN /\ P[r].filled \in BOOLEAN
              /\ tree[P[r].section].super = IF P[r].parent = Topmost THEN Topmost
                                            ELSE P[P[r].parent].section
  <2>1. CASE r \in DOMAIN R
    <3>1. P[r] = R[r]
      BY <1>8, <2>1
    <3> DEFINE p == R[r].parent
    <3>2. /\ R[r] = [section |-> R[r].section, parent |-> R[r].parent,
                         skipped |-> R[r].skipped, filled |-> R[r].filled]
              /\ R[r].section \in DOMAIN tree
              /\ p \in (DOMAIN R) \union {Topmost}
              /\ R[r].skipped \in BOOLEAN /\ R[r].filled \in BOOLEAN
              /\ tree[R[r].section].super = IF p = Topmost THEN Topmost
                                            ELSE R[p].section
      BY <2>1, RowIsFit
    <3>3. p # Topmost => P[p] = R[p]
      BY <1>8, <3>2
    <3> QED BY <1>7, <3>1, <3>2, <3>3
  <2>2. CASE r \notin DOMAIN R
    <3>1. PICK x \in N : r = key(x)
      BY <1>10, <2>2
    <3>2. P[r] = row(x)
      BY <1>9, <3>1
    <3> QED BY <1>6, <1>14, <3>2
  <2> QED BY <2>1, <2>2
<1>16. Fits(tree, P)
  BY <1>11, <1>12, <1>15, FitsIf
<1>17. ASSUME NEW slot \in slots PROVE RowsAt(P, slot[1], slot[2]) # {}
  <2> DEFINE x == <<slot[2], slot[1]>>
  <2>1. x \in N /\ <<x[2], x[1]>> = slot
    BY <1>1 DEF SlotsFit
  <2>2. row(x).section = slot[1] /\ row(x).parent = slot[2]
    <3>1. x[1] = slot[2] /\ x[2] = slot[1]
      OBVIOUS
    <3> HIDE DEF x
    <3> QED BY <1>6, <2>1, <3>1
  <2> HIDE DEF x
  <2> QED BY <1>9, <2>1, <2>2 DEF RowsAt
<1>18. ASSUME NEW r \in (DOMAIN P) \ DOMAIN R, NEW t \in Subsections(P[r].section)
       PROVE  RowsAt(P, t, r) # {}
  <2>1. PICK x \in N : r = key(x)
    BY <1>10
  <2>2. P[r].section = x[2]
    BY <1>6, <1>9, <2>1
  <2> DEFINE y == <<x[1], t>>
  <2>3. y \in N /\ <<t, x[1]>> \notin slots /\ tree[t].super = x[2] /\ y[1] = x[1] /\ y[2] = t
    BY <1>1, <2>2 DEF Subsections
  <2> HIDE DEF y
  <2>4. row(y).section = t /\ row(y).parent = key(<<x[1], x[2]>>)
    BY <1>6, <2>3
  <2>5. row(y).parent = r
    BY <1>6, <2>1, <2>4
  <2> QED BY <1>9, <2>3, <2>4, <2>5 DEF RowsAt
<1> QED BY <1>13, <1>16, <1>17, <1>18 DEF P, GapBelow

LEMMA PlantNothing ==
  ASSUME NEW R, R = [r \in DOMAIN R |-> R[r]], NEW given, NEW how
  PROVE  PlantAll(R, {}, given, how) = R
<1>1. NewRows({}) = {}
  BY DEF NewRows
<1>2. {NewKey({}, given, x) : x \in NewRows({})} = {}
  BY <1>1
<1> DEFINE P == PlantAll(R, {}, given, how)
<1>3. P = [r \in DOMAIN R |-> R[r]]
  <2>1. (DOMAIN R) \union {NewKey({}, given, x) : x \in NewRows({})} = DOMAIN R
    BY <1>2
  <2>2. P = [r \in DOMAIN R |-> IF r \in DOMAIN R THEN R[r]
               ELSE NewRow({}, given, how, CHOOSE new \in NewRows({}) : NewKey({}, given, new) = r)]
    BY <2>1 DEF PlantAll
  <2> HIDE DEF P
  <2> QED BY <2>2
<1> QED BY <1>3

LEMMA GaplessIs ==
  ASSUME IsTree(tree), NEW R
  PROVE  Gapless(tree, R) <=>
           /\ \A s \in Subsections(Topmost) : RowsAt(R, s, Topmost) # {}
           /\ \A r \in DOMAIN R : R[r].section \in DOMAIN tree => ~GapBelow(R, r)
<1>1. \A s \in DOMAIN tree : tree[s].super \in (DOMAIN tree) \union {Topmost}
  BY TreeIs
<1>2. Topmost \notin DOMAIN tree
  BY TreeIs
<1> QED BY <1>1, <1>2 DEF Gapless, Subsections, GapBelow

-----------------------------------------------------------------------------
(* Rows that are deleted.                                                  *)

Leaves(R, P) == DOMAIN P \subseteq DOMAIN R /\ \A r \in DOMAIN P : P[r] = R[r]

LEMMA DeleteIs ==
  ASSUME IsTree(tree), NEW R, Fits(tree, R), NEW gone \in SUBSET DOMAIN R
  PROVE  /\ Fits(tree, DeleteRows(R, gone))
         /\ Leaves(R, DeleteRows(R, gone))
         /\ gone \intersect DOMAIN DeleteRows(R, gone) = {}
         /\ \A r \in DOMAIN R : R[r].parent \in (DOMAIN DeleteRows(R, gone)) \union {Topmost} =>
              r \in gone \/ r \in DOMAIN DeleteRows(R, gone)
         /\ \A T \in SUBSET DOMAIN R :
              gone \subseteq T /\ (\A r \in T : ChildRows(R, r) \subseteq T) =>
                (DOMAIN R) \ T \subseteq DOMAIN DeleteRows(R, gone)
<1> DEFINE D == DOMAIN R
           next == [x \in D |-> ChildRows(R, x)]
           C == Closure(D, next, gone)
           P == DeleteRows(R, gone)
<1>1. IsFiniteSet(D) /\ next \in [D -> SUBSET D] /\ gone \in SUBSET D
  BY RowIsFit DEF ChildRows
<1>2. P = [r \in D \ C |-> R[r]]
  BY DEF DeleteRows
<1>3. /\ gone \subseteq C /\ Shut(D, next, C)
      /\ \A T : Shut(D, next, T) /\ gone \subseteq T => C \subseteq T
      /\ \A x \in C : x \in gone \/ \E y \in C : x \in next[y]
  <2> HIDE DEF D, next
  <2> QED BY <1>1, ClosureIs, ClosureBack
<1> HIDE DEF C, P
<1>4. C \subseteq D /\ \A x \in C : next[x] = ChildRows(R, x) /\ ChildRows(R, x) \subseteq C
  BY <1>3 DEF Shut
<1>5. DOMAIN P = D \ C /\ \A r \in DOMAIN P : P[r] = R[r]
  BY <1>2
<1>6. ASSUME NEW r \in D, R[r].parent \in (DOMAIN P) \union {Topmost} PROVE r \in gone \/ r \in DOMAIN P
  <2>1. SUFFICES ASSUME r \in C, r \notin gone PROVE FALSE
    BY <1>5
  <2>2. PICK y \in C : r \in next[y]
    BY <1>3, <2>1
  <2>3. R[r].parent = y
    BY <1>4, <2>2 DEF ChildRows
  <2>4. Topmost \notin D
    BY RowIsFit
  <2> QED BY <1>4, <1>5, <1>6, <2>3, <2>4
<1>7. \A T \in SUBSET D : gone \subseteq T /\ (\A r \in T : ChildRows(R, r) \subseteq T) => D \ T \subseteq DOMAIN P
  BY <1>3, <1>5 DEF Shut
<1>8. Fits(tree, P)
  <2>1. IsFiniteSet(DOMAIN P) /\ DOMAIN P \subseteq Nat /\ Topmost \notin DOMAIN P
    BY <1>1, <1>5, FS_Subset, RowIsFit
  <2>2. P = [r \in DOMAIN P |-> P[r]]
    BY <1>2
  <2>3. ASSUME NEW r \in DOMAIN P
        PROVE  /\ P[r] = [section |-> P[r].section, parent |-> P[r].parent,
                         skipped |-> P[r].skipped, filled |-> P[r].filled]
              /\ P[r].section \in DOMAIN tree
              /\ P[r].parent \in (DOMAIN P) \union {Topmost}
              /\ P[r].skipped \in BOOLEAN /\ P[r].filled \in BOOLEAN
              /\ tree[P[r].section].super = IF P[r].parent = Topmost THEN Topmost
                                            ELSE P[P[r].parent].section
    <3> DEFINE p == R[r].parent
    <3>1. P[r] = R[r] /\ r \in D /\ r \notin C
      BY <1>5
    <3>2. /\ R[r] = [section |-> R[r].section, parent |-> R[r].parent,
                         skipped |-> R[r].skipped, filled |-> R[r].filled]
              /\ R[r].section \in DOMAIN tree
              /\ p \in D \union {Topmost}
              /\ R[r].skipped \in BOOLEAN /\ R[r].filled \in BOOLEAN
              /\ tree[R[r].section].super = IF p = Topmost THEN Topmost
                                            ELSE R[p].section
      BY <3>1, RowIsFit
    <3>3. p \notin C
      BY <1>4, <3>1 DEF ChildRows
    <3>4. p # Topmost => p \in DOMAIN P /\ P[p] = R[p]
      BY <1>5, <3>2, <3>3
    <3> QED BY <3>1, <3>2, <3>4
  <2> QED BY <2>1, <2>2, <2>3, FitsIf
<1> QED BY <1>3, <1>5, <1>6, <1>7, <1>8 DEF P, Leaves

(* Rows may go that leave another beside them.                             *)
LEMMA DeleteLeavesNoGap ==
  ASSUME IsTree(tree), NEW R, Fits(tree, R), Gapless(tree, R), NEW s, NEW parent,
         NEW gone \in SUBSET RowsAt(R, s, parent), NEW keep \in RowsAt(R, s, parent) \ gone
  PROVE  Gapless(tree, DeleteRows(R, gone))
<1> DEFINE P == DeleteRows(R, gone)
<1>1. gone \in SUBSET DOMAIN R /\ keep \in DOMAIN R
  BY DEF RowsAt
<1>2. /\ Fits(tree, P) /\ DOMAIN P \subseteq DOMAIN R /\ \A r \in DOMAIN P : P[r] = R[r]
      /\ \A r \in DOMAIN R : R[r].parent \in (DOMAIN P) \union {Topmost} => r \in gone \/ r \in DOMAIN P
  BY <1>1, DeleteIs DEF Leaves
<1> HIDE DEF P
<1>3. /\ \A t \in Subsections(Topmost) : RowsAt(R, t, Topmost) # {}
      /\ \A r \in DOMAIN R : ~GapBelow(R, r)
  BY GaplessIs, RowIsFit
<1>4. ASSUME NEW t, NEW p \in (DOMAIN P) \union {Topmost}, RowsAt(R, t, p) # {} PROVE RowsAt(P, t, p) # {}
  <2>1. PICK c \in DOMAIN R : R[c].section = t /\ R[c].parent = p
    BY <1>4 DEF RowsAt
  <2>2. CASE c \in gone
    <3>1. t = s /\ p = parent
      BY <2>1, <2>2 DEF RowsAt
    <3>2. R[keep].section = t /\ R[keep].parent = p /\ keep \notin gone
      BY <3>1 DEF RowsAt
    <3>3. keep \in DOMAIN P
      BY <1>1, <1>2, <3>2
    <3> QED BY <1>2, <3>2, <3>3 DEF RowsAt
  <2>3. CASE c \notin gone
    <3>1. c \in DOMAIN P
      BY <1>2, <1>4, <2>1, <2>3
    <3> QED BY <1>2, <2>1, <3>1 DEF RowsAt
  <2> QED BY <2>2, <2>3
<1>5. \A t \in Subsections(Topmost) : RowsAt(P, t, Topmost) # {}
  BY <1>3, <1>4
<1>6. \A r \in DOMAIN P : ~GapBelow(P, r)
  BY <1>2, <1>3, <1>4 DEF GapBelow
<1> QED BY <1>5, <1>6, GaplessIs DEF P

-----------------------------------------------------------------------------
(* Repairs.                                                                *)

LEMMA LooksAtRows ==
  ASSUME IsTree(tree), NEW R, Fits(tree, R), NEW r \in DOMAIN R
  PROVE  LooksAt(R, r) \subseteq DOMAIN R
<1> DEFINE D == DOMAIN R
           below(x) == UNION {IF ChildRows(R, c) = {} THEN {c} ELSE ChildRows(R, c) :
                                c \in ChildRows(R, x)}
           next == [x \in D |-> below(x)]
<1>1. \A x : ChildRows(R, x) \subseteq D
  BY DEF ChildRows
<1>2. \A x : below(x) \subseteq D
  <2>1. ASSUME NEW x, NEW y \in below(x) PROVE y \in D
    <3>1. PICK c \in ChildRows(R, x) : y \in IF ChildRows(R, c) = {} THEN {c} ELSE ChildRows(R, c)
      OBVIOUS
    <3> QED BY <1>1, <3>1
  <2> QED BY <2>1
<1>3. LooksAt(R, r) = Closure(D, next, {r})
  BY DEF LooksAt
<1> HIDE DEF below
<1>4. IsFiniteSet(D) /\ next \in [D -> SUBSET D] /\ {r} \in SUBSET D
  BY <1>2, RowIsFit
<1> HIDE DEF D, next
<1>5. Shut(D, next, Closure(D, next, {r}))
  BY <1>4, ClosureIs
<1> QED BY <1>3, <1>5 DEF Shut, D

LEMMA MissingFits ==
  ASSUME IsTree(tree), NEW R, Fits(tree, R)
  PROVE  /\ SlotsFit(R, Missing(R))
         /\ \A s \in Subsections(Topmost) : RowsAt(R, s, Topmost) = {} => <<s, Topmost>> \in Missing(R)
         /\ Gapless(tree, R) => Missing(R) = {}
<1> DEFINE tops(s) == RowsAt(R, s, Topmost)
           slots(s) == IF tops(s) = {} THEN {<<s, Topmost>>}
                       ELSE UNION {Subsections(R[r].section) \X {r} : r \in LooksAt(R, Max(tops(s)))}
<1>1. Missing(R) = {slot \in UNION {slots(s) : s \in Subsections(Topmost)} :
                       RowsAt(R, slot[1], slot[2]) = {}}
  BY DEF Missing
<1>2. ASSUME NEW s \in Subsections(Topmost), NEW slot \in slots(s)
      PROVE  \/ tops(s) = {} /\ slot = <<s, Topmost>>
             \/ \E r \in DOMAIN R : \E t \in Subsections(R[r].section) : slot = <<t, r>>
  <2>1. SUFFICES ASSUME tops(s) # {}
                 PROVE  \E r \in DOMAIN R : \E t \in Subsections(R[r].section) : slot = <<t, r>>
    BY <1>2
  <2>2. tops(s) \in SUBSET DOMAIN R
    BY DEF RowsAt
  <2>3. tops(s) \in SUBSET Nat /\ IsFiniteSet(tops(s))
    BY <2>2, RowIsFit, FS_Subset
  <2>4. PICK r \in LooksAt(R, Max(tops(s))) : slot \in Subsections(R[r].section) \X {r}
    BY <2>1
  <2>5. Max(tops(s)) \in DOMAIN R
    <3> HIDE DEF tops
    <3> QED BY <2>1, <2>2, <2>3, LargestIs
  <2>6. r \in DOMAIN R
    BY <2>4, <2>5, LooksAtRows
  <2> QED BY <2>4, <2>6
<1>3. ASSUME NEW slot \in Missing(R)
      PROVE  /\ \/ slot[2] = Topmost /\ slot[1] \in Subsections(Topmost)
                \/ slot[2] \in DOMAIN R /\ slot[1] \in Subsections(R[slot[2]].section)
             /\ slot = <<slot[1], slot[2]>>
             /\ RowsAt(R, slot[1], slot[2]) = {}
  <2>1. RowsAt(R, slot[1], slot[2]) = {} /\ \E s \in Subsections(Topmost) : slot \in slots(s)
    BY <1>1
  <2> HIDE DEF slots, tops
  <2> QED BY <1>2, <2>1
<1>4. SlotsFit(R, Missing(R))
  <2>1. ASSUME NEW slot \in Missing(R)
        PROVE  /\ slot \in (DOMAIN tree) \X ((DOMAIN R) \union {Topmost})
               /\ tree[slot[1]].super = IF slot[2] = Topmost THEN Topmost ELSE R[slot[2]].section
    <3>1. Topmost \notin DOMAIN R
      BY RowIsFit
    <3> QED BY <1>3, <3>1 DEF Subsections
  <2> QED BY <2>1 DEF SlotsFit
<1>5. ASSUME NEW s \in Subsections(Topmost), RowsAt(R, s, Topmost) = {} PROVE <<s, Topmost>> \in Missing(R)
  <2> DEFINE slot == <<s, Topmost>>
  <2>1. slot \in slots(s) /\ slot[1] = s /\ slot[2] = Topmost
    BY <1>5
  <2> HIDE DEF slots, slot
  <2>2. slot \in Missing(R)
    BY <1>1, <1>5, <2>1
  <2> QED BY <2>2 DEF slot
<1>6. ASSUME Gapless(tree, R), NEW slot \in Missing(R) PROVE FALSE
  <2>1. /\ \A s \in Subsections(Topmost) : RowsAt(R, s, Topmost) # {}
        /\ \A r \in DOMAIN R : ~GapBelow(R, r)
    BY <1>6, GaplessIs, RowIsFit
  <2> QED BY <1>3, <2>1 DEF GapBelow
<1> QED BY <1>4, <1>5, <1>6

LEMMA EnsuredIs ==
  ASSUME IsTree(tree), NEW R, Fits(tree, R), numbered \in Nat, Above(R, numbered)
  PROVE  /\ Fits(tree, Ensured(R))
         /\ \A s \in Subsections(Topmost) : RowsAt(Ensured(R), s, Topmost) # {}
         /\ Gapless(tree, R) => Ensured(R) = R
<1> DEFINE P == Ensured(R)
<1>1. SlotsFit(R, Missing(R))
  BY MissingFits
<1>2. /\ Fits(tree, P) /\ DOMAIN R \subseteq DOMAIN P /\ \A r \in DOMAIN R : P[r] = R[r]
      /\ \A slot \in Missing(R) : RowsAt(P, slot[1], slot[2]) # {}
  BY <1>1, PlantIs DEF Ensured, Adds
<1>3. Gapless(tree, R) => P = R
  BY MissingFits, PlantNothing, RowIsFit DEF Ensured
<1> HIDE DEF P
<1>4. ASSUME NEW s \in Subsections(Topmost) PROVE RowsAt(P, s, Topmost) # {}
  <2>1. CASE RowsAt(R, s, Topmost) = {}
    <3> DEFINE slot == <<s, Topmost>>
    <3>1. slot \in Missing(R) /\ slot[1] = s /\ slot[2] = Topmost
      BY <2>1, MissingFits
    <3> HIDE DEF slot
    <3> QED BY <1>2, <3>1
  <2>2. CASE RowsAt(R, s, Topmost) # {}
    <3>1. PICK r \in DOMAIN R : R[r].section = s /\ R[r].parent = Topmost
      BY <2>2 DEF RowsAt
    <3> QED BY <1>2, <3>1 DEF RowsAt
  <2> QED BY <2>1, <2>2
<1> QED BY <1>2, <1>3, <1>4 DEF P

LEMMA WronglySkippedIs ==
  ASSUME NEW R, NEW s, NEW parent
  PROVE  /\ WronglySkipped(R, s, parent) \subseteq RowsAt(R, s, parent)
         /\ \A r \in WronglySkipped(R, s, parent) : R[r].skipped
  BY DEF WronglySkipped

LEMMA PurgedIs ==
  ASSUME IsTree(tree), NEW R, Fits(tree, R)
  PROVE  /\ Fits(tree, Purged(R)) /\ Leaves(R, Purged(R))
         /\ \A r \in DOMAIN R : R[r].parent = Topmost => r \in DOMAIN Purged(R)
<1> DEFINE gone == UNION {WronglySkipped(R, slot[1], slot[2]) : slot \in (DOMAIN tree) \X (DOMAIN R)}
<1>1. ASSUME NEW r \in gone PROVE r \in DOMAIN R /\ R[r].parent \in DOMAIN R
  <2>1. PICK slot \in (DOMAIN tree) \X (DOMAIN R) : r \in WronglySkipped(R, slot[1], slot[2])
    OBVIOUS
  <2>2. slot[2] \in DOMAIN R
    OBVIOUS
  <2>3. r \in RowsAt(R, slot[1], slot[2])
    BY <2>1, WronglySkippedIs
  <2> QED BY <2>2, <2>3 DEF RowsAt
<1>2. Purged(R) = DeleteRows(R, gone)
  BY DEF Purged
<1> HIDE DEF gone
<1>3. gone \in SUBSET DOMAIN R
  BY <1>1
<1>4. /\ Fits(tree, DeleteRows(R, gone)) /\ Leaves(R, DeleteRows(R, gone))
      /\ \A r \in DOMAIN R : R[r].parent \in (DOMAIN DeleteRows(R, gone)) \union {Topmost} =>
              r \in gone \/ r \in DOMAIN DeleteRows(R, gone)
  BY <1>3, DeleteIs
<1> QED BY <1>1, <1>2, <1>4, RowIsFit

(* A repair leaves no gaps.                                                *)
LEMMA RepairedIs ==
  ASSUME IsTree(tree), NEW R, Fits(tree, R), numbered \in Nat, Above(R, numbered)
  PROVE  Fits(tree, Repaired(R)) /\ Gapless(tree, Repaired(R))
<1> DEFINE E == Ensured(R)
           P == Purged(E)
           given == LastKey(numbered, E)
           slots == {slot \in UNION {Subsections(P[r].section) \X {r} : r \in DOMAIN P} :
                        RowsAt(P, slot[1], slot[2]) = {}}
           Q == PlantAll(P, slots, given, "get")
<1>1. Fits(tree, E) /\ \A s \in Subsections(Topmost) : RowsAt(E, s, Topmost) # {}
  BY EnsuredIs
<1>2. Repaired(R) = Q
  BY DEF Repaired
<1> HIDE DEF E
<1>3. /\ Fits(tree, P) /\ DOMAIN P \subseteq DOMAIN E /\ \A r \in DOMAIN P : P[r] = E[r]
      /\ \A r \in DOMAIN E : E[r].parent = Topmost => r \in DOMAIN P
  BY <1>1, PurgedIs DEF Leaves
<1>4. given \in Nat /\ \A r \in DOMAIN E : r <= given
  BY <1>1, LastKeyIs, RowIsFit
<1> HIDE DEF P, given
<1>5. Above(P, given)
  BY <1>3, <1>4 DEF Above
<1>6. \A slot : slot \in slots <=>
        /\ \E r \in DOMAIN P : \E t \in Subsections(P[r].section) : slot = <<t, r>>
        /\ RowsAt(P, slot[1], slot[2]) = {}
  OBVIOUS
<1> HIDE DEF slots
<1>7. SlotsFit(P, slots)
  <2>1. ASSUME NEW slot \in slots
        PROVE  /\ slot \in (DOMAIN tree) \X ((DOMAIN P) \union {Topmost})
               /\ tree[slot[1]].super = IF slot[2] = Topmost THEN Topmost ELSE P[slot[2]].section
    <3>1. PICK r \in DOMAIN P : \E t \in Subsections(P[r].section) : slot = <<t, r>>
      BY <1>6
    <3>2. PICK t \in Subsections(P[r].section) : slot = <<t, r>>
      BY <3>1
    <3>3. t \in DOMAIN tree /\ tree[t].super = P[r].section /\ r # Topmost
      BY <1>3, RowIsFit DEF Subsections
    <3> QED BY <3>2, <3>3
  <2> QED BY <2>1 DEF SlotsFit
<1>8. /\ Fits(tree, Q) /\ DOMAIN P \subseteq DOMAIN Q /\ \A r \in DOMAIN P : Q[r] = P[r]
      /\ \A slot \in slots : RowsAt(Q, slot[1], slot[2]) # {}
      /\ \A r \in (DOMAIN Q) \ DOMAIN P : ~GapBelow(Q, r)
  BY <1>3, <1>4, <1>5, <1>7, PlantIs DEF Adds
<1> HIDE DEF Q
<1>9. ASSUME NEW t, NEW p, RowsAt(P, t, p) # {} PROVE RowsAt(Q, t, p) # {}
  BY <1>8, <1>9 DEF RowsAt
<1>10. ASSUME NEW s \in Subsections(Topmost) PROVE RowsAt(Q, s, Topmost) # {}
  <2>1. PICK r \in DOMAIN E : E[r].section = s /\ E[r].parent = Topmost
    BY <1>1 DEF RowsAt
  <2>2. RowsAt(P, s, Topmost) # {}
    BY <1>3, <2>1 DEF RowsAt
  <2> QED BY <1>9, <2>2
<1>11. ASSUME NEW r \in DOMAIN P, NEW t \in Subsections(Q[r].section) PROVE RowsAt(Q, t, r) # {}
  <2>1. t \in Subsections(P[r].section)
    BY <1>8
  <2> DEFINE slot == <<t, r>>
  <2>2. slot[1] = t /\ slot[2] = r /\ (RowsAt(P, t, r) = {} => slot \in slots)
    BY <1>6, <2>1
  <2> HIDE DEF slot
  <2> QED BY <1>8, <1>9, <2>2
<1>12. \A r \in DOMAIN Q : ~GapBelow(Q, r)
  BY <1>8, <1>11 DEF GapBelow
<1> QED BY <1>2, <1>8, <1>10, <1>12, GaplessIs

-----------------------------------------------------------------------------
(* What another request makes of the answersets.                           *)

(* A row that stays has its section and its parent, a new one a new key.   *)
Changed(R, P, given) ==
    /\ Fits(tree, P)
    /\ \A r \in (DOMAIN R) \intersect DOMAIN P : SameRow(P[r], R[r])
    /\ \A r \in (DOMAIN P) \ DOMAIN R : r > given
    /\ Gapless(tree, R) => Gapless(tree, P)

LEMMA AlikeIs ==
  ASSUME IsTree(tree), NEW R, Fits(tree, R), NEW P, P = [r \in DOMAIN R |-> P[r]],
         \A r \in DOMAIN R :
           /\ P[r] = [section |-> R[r].section, parent |-> R[r].parent,
                      skipped |-> P[r].skipped, filled |-> P[r].filled]
           /\ P[r].skipped \in BOOLEAN /\ P[r].filled \in BOOLEAN
  PROVE  /\ Fits(tree, P) /\ DOMAIN P = DOMAIN R
         /\ \A r \in DOMAIN R : SameRow(P[r], R[r])
         /\ Gapless(tree, R) => Gapless(tree, P)
<1>1. DOMAIN P = DOMAIN R /\ P = [r \in DOMAIN P |-> P[r]]
  OBVIOUS
<1>2. \A r \in DOMAIN R : P[r].section = R[r].section /\ P[r].parent = R[r].parent
  OBVIOUS
<1>3. \A r \in DOMAIN P :
        /\ P[r] = [section |-> P[r].section, parent |-> P[r].parent,
                   skipped |-> P[r].skipped, filled |-> P[r].filled]
        /\ P[r].skipped \in BOOLEAN /\ P[r].filled \in BOOLEAN
  BY <1>1, <1>2
<1>4. ASSUME NEW r \in DOMAIN P
      PROVE  /\ P[r].section \in DOMAIN tree
             /\ P[r].parent \in (DOMAIN P) \union {Topmost}
             /\ tree[P[r].section].super = IF P[r].parent = Topmost THEN Topmost
                                            ELSE P[P[r].parent].section
  <2>1. /\ R[r].section \in DOMAIN tree /\ R[r].parent \in (DOMAIN R) \union {Topmost}
        /\ tree[R[r].section].super = IF R[r].parent = Topmost THEN Topmost
                                       ELSE R[R[r].parent].section
    BY <1>1, RowIsFit
  <2> QED BY <1>1, <1>2, <2>1
<1>5. Fits(tree, P)
  BY <1>1, <1>3, <1>4, FitsIf, RowIsFit
<1>6. \A s, parent : RowsAt(P, s, parent) = RowsAt(R, s, parent)
  BY <1>1, <1>2 DEF RowsAt
<1>7. Gapless(tree, R) => Gapless(tree, P)
  BY <1>1, <1>2, <1>6 DEF Gapless
<1> QED BY <1>1, <1>2, <1>5, <1>7 DEF SameRow

(* One row gets other flags.                                               *)
LEMMA FlagsAlike ==
  ASSUME IsTree(tree), NEW R, Fits(tree, R), NEW x \in DOMAIN R, NEW row,
         row = [section |-> R[x].section, parent |-> R[x].parent,
                skipped |-> row.skipped, filled |-> row.filled],
         row.skipped \in BOOLEAN, row.filled \in BOOLEAN,
         NEW P, P = [R EXCEPT ![x] = row]
  PROVE  /\ Fits(tree, P) /\ DOMAIN P = DOMAIN R
         /\ \A r \in DOMAIN R : SameRow(P[r], R[r])
         /\ Gapless(tree, R) => Gapless(tree, P)
<1>1. \A r \in DOMAIN R : /\ R[r] = [section |-> R[r].section, parent |-> R[r].parent,
                                    skipped |-> R[r].skipped, filled |-> R[r].filled]
                          /\ R[r].skipped \in BOOLEAN /\ R[r].filled \in BOOLEAN
  BY RowIsFit
<1>2. R = [r \in DOMAIN R |-> R[r]]
  BY RowIsFit
<1>3. P = [r \in DOMAIN R |-> P[r]] /\ P[x] = row /\ \A r \in (DOMAIN R) \ {x} : P[r] = R[r]
  BY <1>2
<1>4. \A r \in DOMAIN R :
           /\ P[r] = [section |-> R[r].section, parent |-> R[r].parent,
                      skipped |-> P[r].skipped, filled |-> P[r].filled]
           /\ P[r].skipped \in BOOLEAN /\ P[r].filled \in BOOLEAN
  BY <1>1, <1>3
<1> DEFINE Q == P
<1>5. /\ Q = [r \in DOMAIN R |-> Q[r]]
      /\ \A r \in DOMAIN R :
           /\ Q[r] = [section |-> R[r].section, parent |-> R[r].parent,
                      skipped |-> Q[r].skipped, filled |-> Q[r].filled]
           /\ Q[r].skipped \in BOOLEAN /\ Q[r].filled \in BOOLEAN
  BY <1>3, <1>4
<1> HIDE DEF Q
<1>6. /\ Fits(tree, Q) /\ DOMAIN Q = DOMAIN R
      /\ \A r \in DOMAIN R : SameRow(Q[r], R[r])
      /\ Gapless(tree, R) => Gapless(tree, Q)
  BY <1>5, AlikeIs
<1> QED BY <1>6 DEF Q

Reflagged(R, x, P) ==
    \/ P = [R EXCEPT ![x].skipped = FALSE]
    \/ P = [R EXCEPT ![x].skipped = FALSE, ![x].filled = TRUE]
    \/ P = [R EXCEPT ![x].skipped = TRUE, ![x].filled = FALSE]

RowOf(S, U) == [section : S, parent : U, skipped : BOOLEAN, filled : BOOLEAN]
ReflaggedRow(old, row) ==
    \/ row = [old EXCEPT !.skipped = FALSE]
    \/ row = [old EXCEPT !.skipped = FALSE, !.filled = TRUE]
    \/ row = [old EXCEPT !.skipped = TRUE, !.filled = FALSE]

LEMMA FlagsChange ==
  ASSUME NEW S, NEW U, NEW old, old \in RowOf(S, U), NEW row, ReflaggedRow(old, row)
  PROVE  /\ row = [section |-> old.section, parent |-> old.parent,
                   skipped |-> row.skipped, filled |-> row.filled]
         /\ row.skipped \in BOOLEAN /\ row.filled \in BOOLEAN
<1> DEFINE RowSet == RowOf(S, U)
<1>1. row \in RowSet /\ row.section = old.section /\ row.parent = old.parent
  <2>1. CASE row = [old EXCEPT !.skipped = FALSE]
    BY <2>1 DEF RowOf
  <2>2. CASE row = [old EXCEPT !.skipped = FALSE, !.filled = TRUE]
    BY <2>2 DEF RowOf
  <2>3. CASE row = [old EXCEPT !.skipped = TRUE, !.filled = FALSE]
    BY <2>3 DEF RowOf
  <2> QED BY <2>1, <2>2, <2>3 DEF ReflaggedRow
<1>2. row = [section |-> row.section, parent |-> row.parent,
             skipped |-> row.skipped, filled |-> row.filled]
      /\ row.skipped \in BOOLEAN /\ row.filled \in BOOLEAN
  BY <1>1 DEF RowOf
<1> QED BY <1>1, <1>2

LEMMA ReflaggedAlike ==
  ASSUME IsTree(tree), NEW R, Fits(tree, R), NEW x \in DOMAIN R, NEW P, Reflagged(R, x, P)
  PROVE  /\ Fits(tree, P) /\ DOMAIN P = DOMAIN R
         /\ \A r \in DOMAIN R : SameRow(P[r], R[r])
         /\ Gapless(tree, R) => Gapless(tree, P)
<1> DEFINE old == R[x]
<1>1. old \in RowOf(DOMAIN tree, (DOMAIN R) \union {Topmost})
  BY DEF Fits, RowOf
<1>2. R = [r \in DOMAIN R |-> R[r]]
  BY RowIsFit
<1>3. PICK row : P = [R EXCEPT ![x] = row] /\ ReflaggedRow(old, row)
  BY <1>2 DEF Reflagged, ReflaggedRow
<1> HIDE DEF old
<1>4. /\ row = [section |-> old.section, parent |-> old.parent,
                skipped |-> row.skipped, filled |-> row.filled]
      /\ row.skipped \in BOOLEAN /\ row.filled \in BOOLEAN
  BY <1>1, <1>3, FlagsChange
<1> QED BY <1>3, <1>4, FlagsAlike DEF old

-----------------------------------------------------------------------------
(* Other requests: rows that fit their template change into such rows.     *)

PlanFits ==
    /\ IsTree(tree) /\ Fits(tree, answersets)
    /\ numbered \in Nat /\ Above(answersets, numbered)

LEMMA LeastIs ==
  ASSUME NEW T, T \subseteq Nat, T # {}
  PROVE  Min(T) \in T
<1> DEFINE Less == {pair \in Nat \X Nat : pair[1] < pair[2]}
<1>1. IsWellFoundedOn(Less, Nat)
  BY NatLessThanWellFounded DEF OpToRel
<1> HIDE DEF Less
<1>2. PICK x \in T : \A y \in T : <<y, x>> \notin Less
  BY <1>1, WFMin
<1>3. \A y \in T : ~(y < x)
  BY <1>2 DEF Less
<1>4. \A y \in T : x <= y
  BY <1>3
<1> QED BY <1>4 DEF Min

LEMMA SameChanged ==
  ASSUME NEW R, NEW P, NEW given,
         Fits(tree, P), DOMAIN P = DOMAIN R,
         \A r \in DOMAIN R : SameRow(P[r], R[r]),
         Gapless(tree, R) => Gapless(tree, P)
  PROVE  Changed(R, P, given)
  BY DEF Changed

LEMMA AddRowIs ==
  ASSUME PlanFits, NEW r \in DOMAIN answersets, AddRow(r)
  PROVE  \E P : /\ Disturb("row", P)
                /\ Changed(answersets, P, numbered)
                /\ DOMAIN answersets \subseteq DOMAIN P
<1> DEFINE R == answersets
           s == R[r].section
           p == R[r].parent
           skipped == {x \in RowsAt(R, s, p) : R[x].skipped}
           slots == {<<s, p>>}
           P == PlantAll(R, slots, numbered, "create")
           Q == [R EXCEPT ![Min(skipped)].skipped = FALSE]
<1>1. IF skipped # {} THEN Disturb("row", Q) ELSE Disturb("row", P)
  BY DEF AddRow
<1>2. IsTree(tree) /\ Fits(tree, R) /\ numbered \in Nat /\ Above(R, numbered)
  BY DEF PlanFits
<1> HIDE DEF R
<1>3. ASSUME skipped # {}
      PROVE  Changed(R, Q, numbered) /\ DOMAIN Q = DOMAIN R
  <2>1. skipped \subseteq DOMAIN R
    BY DEF RowsAt
  <2>2. DOMAIN R \subseteq Nat
    BY <1>2, RowIsFit
  <2>3. Min(skipped) \in DOMAIN R
    <3> HIDE DEF skipped
    <3> QED BY <1>3, <2>1, <2>2, LeastIs
  <2> HIDE DEF skipped
  <2>4. /\ Fits(tree, Q) /\ DOMAIN Q = DOMAIN R
        /\ \A x \in DOMAIN R : SameRow(Q[x], R[x])
        /\ Gapless(tree, R) => Gapless(tree, Q)
    <3>1. Reflagged(R, Min(skipped), Q)
      BY DEF Reflagged
    <3> HIDE DEF Q
    <3> QED BY <1>2, <2>3, <3>1, ReflaggedAlike
  <2> HIDE DEF Q
  <2> QED BY <2>4, SameChanged
<1>4. Changed(R, P, numbered) /\ DOMAIN R \subseteq DOMAIN P
  <2>1. /\ s \in DOMAIN tree /\ p \in (DOMAIN R) \union {Topmost}
        /\ tree[s].super = IF p = Topmost THEN Topmost ELSE R[p].section
    BY <1>2, RowIsFit DEF R
  <2> HIDE DEF s, p
  <2>2. SlotsFit(R, slots)
    BY <2>1 DEF SlotsFit
  <2>3. /\ Fits(tree, P)
        /\ DOMAIN R \subseteq DOMAIN P
        /\ \A x \in DOMAIN R : P[x] = R[x]
        /\ \A x \in (DOMAIN P) \ DOMAIN R : x > numbered
        /\ \A x \in (DOMAIN P) \ DOMAIN R : ~GapBelow(P, x)
    <3> HIDE DEF slots
    <3>1. Fits(tree, P) /\ Adds(R, P, numbered) /\ \A x \in (DOMAIN P) \ DOMAIN R : ~GapBelow(P, x)
      BY <1>2, <2>2, PlantIs
    <3> HIDE DEF P
    <3> QED BY <3>1 DEF Adds
  <2> HIDE DEF P, slots
  <2>4. ASSUME Gapless(tree, R) PROVE Gapless(tree, P)
    <3>1. /\ \A t \in Subsections(Topmost) : RowsAt(R, t, Topmost) # {}
          /\ \A x \in DOMAIN R : ~GapBelow(R, x)
      BY <1>2, <2>4, GaplessIs, RowIsFit
    <3>2. \A t, q : RowsAt(R, t, q) # {} => RowsAt(P, t, q) # {}
      BY <2>3 DEF RowsAt
    <3>3. \A x \in DOMAIN P : ~GapBelow(P, x)
      BY <2>3, <3>1, <3>2 DEF GapBelow
    <3>4. \A t \in Subsections(Topmost) : RowsAt(P, t, Topmost) # {}
      BY <3>1, <3>2
    <3> QED BY <1>2, <3>3, <3>4, GaplessIs
  <2>5. \A x \in (DOMAIN R) \intersect DOMAIN P : SameRow(P[x], R[x])
    BY <2>3 DEF SameRow
  <2> QED BY <2>3, <2>4, <2>5 DEF Changed
<1> HIDE DEF P, Q, skipped
<1> QED BY <1>1, <1>3, <1>4 DEF R

(* Removing leaves a row for the section.                                  *)
LEMMA RemoveRowIs ==
  ASSUME PlanFits, NEW r \in DOMAIN answersets, RemoveRow(r)
  PROVE  \E P : Disturb("row gone", P) /\ Changed(answersets, P, numbered)
<1> DEFINE R == answersets
           s == R[r].section
           p == R[r].parent
           wrong == WronglySkipped(R, s, p)
           F == DeleteRows(R, wrong)
           P == [F EXCEPT ![r].skipped = TRUE, ![r].filled = FALSE]
           Q == DeleteRows(F, {r})
<1>1. /\ ~R[r].skipped
      /\ IF RowsAt(F, s, p) = {r} THEN Disturb("row gone", P) ELSE Disturb("row gone", Q)
  BY DEF RemoveRow
<1>2. IsTree(tree) /\ Fits(tree, R) /\ r \in DOMAIN R
  BY DEF PlanFits
<1> HIDE DEF R
<1>3. /\ s \in DOMAIN tree /\ p \in (DOMAIN R) \union {Topmost}
      /\ tree[s].super = IF p = Topmost THEN Topmost ELSE R[p].section
  BY <1>2, RowIsFit
<1>4. wrong \subseteq RowsAt(R, s, p) /\ \A x \in wrong : R[x].skipped
  BY WronglySkippedIs
<1>5. r \in RowsAt(R, s, p) \ wrong
  BY <1>1, <1>2, <1>4 DEF RowsAt
<1>6. wrong \in SUBSET DOMAIN R
  BY <1>4 DEF RowsAt
<1> HIDE DEF wrong
<1>7. /\ Fits(tree, F) /\ DOMAIN F \subseteq DOMAIN R /\ \A x \in DOMAIN F : F[x] = R[x]
      /\ \A x \in DOMAIN R : R[x].parent \in (DOMAIN F) \union {Topmost} => x \in wrong \/ x \in DOMAIN F
      /\ \A T \in SUBSET DOMAIN R :
              wrong \subseteq T /\ (\A x \in T : ChildRows(R, x) \subseteq T) =>
                (DOMAIN R) \ T \subseteq DOMAIN F
  BY <1>2, <1>6, DeleteIs DEF Leaves
<1>8. Gapless(tree, R) => Gapless(tree, F)
  <2> HIDE DEF F, s, p
  <2>1. wrong \in SUBSET RowsAt(R, s, p)
    BY <1>4
  <2> QED BY <1>2, <1>5, <2>1, DeleteLeavesNoGap DEF F
<1> HIDE DEF F
<1>9. p = Topmost \/ p \in DOMAIN F
  <2>1. SUFFICES ASSUME p # Topmost PROVE p \in DOMAIN F
    OBVIOUS
  <2>0. PICK level : level \in Levels(tree)
    BY <1>2, TreeIs
  <2> DEFINE T == {x \in DOMAIN R : level[s] <= level[R[x].section]}
  <2>2. wrong \subseteq T
    <3>1. level[s] \in Nat
      BY <1>2, <1>3, <2>0, LevelIs
    <3>2. \A x \in wrong : x \in DOMAIN R /\ R[x].section = s
      BY <1>4 DEF RowsAt
    <3> HIDE DEF s
    <3> QED BY <3>1, <3>2
  <2>3. ASSUME NEW x \in T, NEW c \in ChildRows(R, x) PROVE c \in T
    <3>1. c \in DOMAIN R /\ R[c].parent = x /\ x \in DOMAIN R /\ level[s] <= level[R[x].section]
      BY DEF ChildRows
    <3>2. x # Topmost
      BY <1>2, <3>1, RowIsFit
    <3>3. /\ R[c].section \in DOMAIN tree /\ tree[R[c].section].super = R[x].section
          /\ R[x].section \in DOMAIN tree /\ R[x].section # Topmost
      BY <1>2, <3>1, <3>2, RowIsFit, TreeIs
    <3>4. /\ level[R[x].section] < level[R[c].section] /\ level[R[x].section] \in Nat
          /\ level[R[c].section] \in Nat /\ level[s] \in Nat
      BY <1>2, <1>3, <2>0, <3>3, LevelIs
    <3> HIDE DEF s
    <3> QED BY <3>1, <3>4
  <2>4. p \notin T
    <3>1. p \in DOMAIN R /\ tree[s].super = R[p].section /\ tree[s].super # Topmost
      BY <1>2, <1>3, <2>1, RowIsFit, TreeIs
    <3>2. level[tree[s].super] < level[s] /\ level[s] \in Nat /\ level[tree[s].super] \in Nat
      BY <1>2, <1>3, <2>0, <3>1, LevelIs
    <3> HIDE DEF s, p
    <3> QED BY <3>1, <3>2
  <2>5. T \in SUBSET DOMAIN R
    OBVIOUS
  <2> HIDE DEF T, p, s
  <2>6. (DOMAIN R) \ T \subseteq DOMAIN F
    BY <1>7, <2>2, <2>3, <2>5
  <2> QED BY <1>3, <2>1, <2>4, <2>6
<1>10. r \in DOMAIN F /\ r \in RowsAt(F, s, p)
  <2>1. r \in DOMAIN F
    BY <1>2, <1>5, <1>7, <1>9
  <2> QED BY <1>7, <2>1 DEF RowsAt
<1>11. /\ Fits(tree, P) /\ DOMAIN P = DOMAIN F
       /\ \A x \in DOMAIN F : SameRow(P[x], F[x])
       /\ Gapless(tree, F) => Gapless(tree, P)
  <2>1. Reflagged(F, r, P)
    BY DEF Reflagged
  <2> HIDE DEF P
  <2> QED BY <1>2, <1>7, <1>10, <2>1, ReflaggedAlike
<1>12. Changed(R, P, numbered)
  <2> HIDE DEF P
  <2>1. DOMAIN P \subseteq DOMAIN R
    BY <1>7, <1>11
  <2>2. \A x \in DOMAIN P : SameRow(P[x], R[x])
    BY <1>7, <1>11
  <2> QED BY <1>8, <1>11, <2>1, <2>2 DEF Changed
<1>13. ASSUME RowsAt(F, s, p) # {r} PROVE Changed(R, Q, numbered)
  <2>1. PICK keep \in RowsAt(F, s, p) : keep # r
    BY <1>10, <1>13
  <2>2. {r} \in SUBSET DOMAIN F /\ {r} \in SUBSET RowsAt(F, s, p) /\ keep \in RowsAt(F, s, p) \ {r}
    BY <1>10, <2>1
  <2>3. Fits(tree, Q) /\ DOMAIN Q \subseteq DOMAIN F /\ \A x \in DOMAIN Q : Q[x] = F[x]
    BY <1>2, <1>7, <2>2, DeleteIs DEF Leaves
  <2>4. Gapless(tree, F) => Gapless(tree, Q)
    <3> HIDE DEF s, p
    <3> QED BY <1>2, <1>7, <2>2, DeleteLeavesNoGap
  <2> HIDE DEF Q
  <2>5. DOMAIN Q \subseteq DOMAIN R /\ \A x \in DOMAIN Q : SameRow(Q[x], R[x])
    BY <1>7, <2>3 DEF SameRow
  <2> QED BY <1>8, <2>3, <2>4, <2>5 DEF Changed
<1> HIDE DEF P, Q, s, p
<1> QED BY <1>1, <1>12, <1>13 DEF R

LEMMA AnswerRowIs ==
  ASSUME PlanFits, NEW r \in DOMAIN answersets, AnswerRow(r)
  PROVE  \E P : /\ Disturb("row", P)
                /\ Changed(answersets, P, numbered)
                /\ DOMAIN answersets \subseteq DOMAIN P
<1> DEFINE P == [answersets EXCEPT ![r].skipped = FALSE, ![r].filled = TRUE]
<1>1. Disturb("row", P)
  BY DEF AnswerRow
<1>2. /\ Fits(tree, P) /\ DOMAIN P = DOMAIN answersets
      /\ \A x \in DOMAIN answersets : SameRow(P[x], answersets[x])
      /\ Gapless(tree, answersets) => Gapless(tree, P)
  <2>1. Reflagged(answersets, r, P)
    BY DEF Reflagged
  <2>2. IsTree(tree) /\ Fits(tree, answersets)
    BY DEF PlanFits
  <2> HIDE DEF P
  <2> QED BY <2>1, <2>2, ReflaggedAlike
<1> HIDE DEF P
<1>3. Changed(answersets, P, numbered)
  BY <1>2, SameChanged
<1> QED BY <1>1, <1>2, <1>3

-----------------------------------------------------------------------------
(* What holds while a page is being put together.                          *)

(* The plan fits its template, and where no section was added since the    *)
(* answersets were last repaired nothing is missing.                       *)
Tidy ==
    /\ IsTree(tree) /\ Fits(tree, answersets)
    /\ numbered \in Nat /\ \A r \in DOMAIN answersets : r <= numbered
    /\ ~gaps => Gapless(tree, answersets)

(* A list has been read.                                                   *)
Got(query) == \E i \in DOMAIN Queries(viewing.page) :
                  i < viewing.next /\ Queries(viewing.page)[i] = query

ViewTyped ==
    /\ viewing = [page |-> viewing.page, next |-> viewing.next, disturbed |-> viewing.disturbed,
                  taken |-> viewing.taken, shown |-> viewing.shown, count |-> viewing.count]
    /\ viewing.taken = [query \in QueryNames |-> viewing.taken[query]]
    /\ viewing.page \in {"none", "summary", "text"}
    /\ viewing.next \in Nat
    /\ Viewing => viewing.page # "none" /\ viewing.next <= Len(Queries(viewing.page)) + 1

(* What was there all the time is there now, below what was there too.     *)
LastingKnown ==
    /\ lasting = [rows |-> lasting.rows, filled |-> lasting.filled]
    /\ lasting.rows \subseteq Apparent(answersets, viewing.page)
    /\ lasting.filled \subseteq lasting.rows
    /\ \A r \in lasting.filled : answersets[r].filled
    /\ \A r \in lasting.rows : answersets[r].parent \in lasting.rows \union {Topmost}
    /\ Apparent(answersets, viewing.page) \subseteq ever

Maps == viewing.taken
Gone == "row gone" \in viewing.disturbed

(* The page goes on from a row that was there all the time to those below. *)
BelowHolds ==
    /\ DOMAIN Maps.below \subseteq DOMAIN tree
    /\ \A s \in DOMAIN Maps.below : Maps.below[s] \subseteq Subsections(s)
    /\ \A r \in lasting.rows : answersets[r].parent # Topmost =>
           /\ answersets[answersets[r].parent].section \in DOMAIN Maps.below
           /\ answersets[r].section \in Maps.below[answersets[answersets[r].parent].section]

SectionsHold ==
    /\ \A r \in lasting.rows : answersets[r].section \in Maps.sections
    /\ "section" \notin viewing.disturbed => Maps.sections = DOMAIN tree

(* A key in the map is the key of the same row, or of one that is gone: it *)
(* is not given to another row, because keys are never given twice.        *)
KeysHold ==
    /\ \A r \in DOMAIN Maps.keys :
           /\ r \in Nat \ {Topmost} /\ r <= numbered
           /\ r \in DOMAIN answersets => SameRow(Maps.keys[r], answersets[r])
    /\ lasting.rows \subseteq DOMAIN Maps.keys
    /\ ~Gone => DOMAIN Maps.keys \subseteq DOMAIN answersets
    /\ ~gaps => Gapless(tree, Maps.keys)

ChildrenHold ==
    \A r \in lasting.rows : answersets[r].parent # Topmost => answersets[r].parent \in Maps.children

(* The rows were read at one time, after the keys.                         *)
RowsHold ==
    /\ IsFiniteSet(DOMAIN Maps.rows)
    /\ \A r \in DOMAIN Maps.rows :
           /\ r \in Nat \ {Topmost} /\ r <= numbered
           /\ Maps.rows[r].section \in DOMAIN tree
           /\ r \in DOMAIN answersets => SameRow(Maps.rows[r], answersets[r])
           /\ r \in DOMAIN Maps.keys => SameRow(Maps.keys[r], Maps.rows[r])
    /\ \A r \in lasting.rows :
           /\ r \in DOMAIN Maps.rows
           /\ answersets[r].parent # Topmost => ~Maps.rows[answersets[r].parent].skipped
    /\ \A r \in lasting.filled : Maps.rows[r].filled
    /\ Unfolded(Maps.rows) \subseteq ever
    /\ ~Gone => /\ DOMAIN Maps.rows \subseteq DOMAIN answersets
                /\ viewing.page = "summary" => DOMAIN Maps.keys \subseteq DOMAIN Maps.rows
    /\ viewing.disturbed = {} => Maps.rows = LookupMap

ToldHolds ==
    /\ DOMAIN Maps.told = DOMAIN Maps.rows
    /\ \A r \in lasting.filled : Maps.told[r] = "answers"
    /\ viewing.disturbed = {} => \A r \in DOMAIN Maps.rows : Maps.told[r] = TellRow(r)

ParentsHold == ~Gone => Maps.parents = TRUE

(* Each list says so from when it is read.                                 *)
MapsHold ==
    /\ Got("below") => BelowHolds
    /\ Got("sections") => SectionsHold
    /\ Got("keys") => KeysHold
    /\ Got("children") => ChildrenHold
    /\ Got("rows") => RowsHold
    /\ Got("told") => ToldHolds
    /\ Got("parents") => ParentsHold

SummaryInv ==
    /\ Tidy /\ ViewTyped
    /\ Viewing => LastingKnown /\ MapsHold
    /\ PageIsWhole

-----------------------------------------------------------------------------
(* What there is to show.                                                  *)

(* What is unfolded: the top-level rows, and below an unskipped one.       *)
LEMMA UnfoldedIs ==
  ASSUME NEW R, IsFiniteSet(DOMAIN R)
  PROVE  /\ Unfolded(R) \subseteq DOMAIN R
         /\ ChildRows(R, Topmost) \subseteq Unfolded(R)
         /\ \A r \in Unfolded(R) : ~R[r].skipped => ChildRows(R, r) \subseteq Unfolded(R)
         /\ \A r \in Unfolded(R) :
              R[r].parent = Topmost \/ (R[r].parent \in Unfolded(R) /\ ~R[R[r].parent].skipped)
         /\ \A T \in SUBSET DOMAIN R :
              /\ ChildRows(R, Topmost) \subseteq T
              /\ \A r \in T : ~R[r].skipped => ChildRows(R, r) \subseteq T
              => Unfolded(R) \subseteq T
<1> DEFINE D == DOMAIN R
           next == [r \in D |-> IF R[r].skipped THEN {} ELSE ChildRows(R, r)]
           tops == ChildRows(R, Topmost)
<1>1. next \in [D -> SUBSET D] /\ tops \in SUBSET D
  BY DEF ChildRows
<1>2. Unfolded(R) = Closure(D, next, tops)
  BY DEF Unfolded
<1>3. \A r \in D : next[r] = IF R[r].skipped THEN {} ELSE ChildRows(R, r)
  OBVIOUS
<1>4. IsFiniteSet(D)
  OBVIOUS
<1> HIDE DEF D, next, tops
<1>5. /\ tops \subseteq Closure(D, next, tops)
      /\ Shut(D, next, Closure(D, next, tops))
      /\ \A T : Shut(D, next, T) /\ tops \subseteq T => Closure(D, next, tops) \subseteq T
  BY <1>1, <1>4, ClosureIs
<1>6. \A x \in Closure(D, next, tops) :
         x \in tops \/ \E y \in Closure(D, next, tops) : x \in next[y]
  BY <1>1, <1>4, ClosureBack
<1>7. Unfolded(R) \subseteq D
  BY <1>2, <1>5 DEF Shut
<1>8. \A r \in Unfolded(R) : ~R[r].skipped => ChildRows(R, r) \subseteq Unfolded(R)
  BY <1>2, <1>3, <1>5, <1>7 DEF Shut
<1>9. ASSUME NEW r \in Unfolded(R)
      PROVE  R[r].parent = Topmost \/ (R[r].parent \in Unfolded(R) /\ ~R[R[r].parent].skipped)
  <2>1. CASE r \in tops
    BY <2>1 DEF tops, ChildRows
  <2>2. CASE \E y \in Unfolded(R) : r \in next[y]
    <3>1. PICK y \in Unfolded(R) : r \in next[y]
      BY <2>2
    <3>2. ~R[y].skipped /\ r \in ChildRows(R, y)
      BY <3>1, <1>3, <1>7
    <3>3. QED
      BY <3>1, <3>2 DEF ChildRows
  <2>3. QED
    BY <2>1, <2>2, <1>2, <1>6
<1>10. ASSUME NEW T \in SUBSET D, tops \subseteq T,
              \A r \in T : ~R[r].skipped => ChildRows(R, r) \subseteq T
       PROVE  Unfolded(R) \subseteq T
  <2>1. Shut(D, next, T)
    BY <1>10, <1>3 DEF Shut
  <2>2. QED
    BY <2>1, <1>10, <1>2, <1>5
<1>11. QED
  BY <1>2, <1>5, <1>7, <1>8, <1>9, <1>10 DEF D, tops

LEMMA ApparentIs ==
  ASSUME NEW R, IsFiniteSet(DOMAIN R), NEW page
  PROVE  /\ Apparent(R, page) \subseteq Unfolded(R)
         /\ Apparent(R, page) \subseteq DOMAIN R
         /\ \A r \in Apparent(R, page) :
              \/ R[r].parent = Topmost
              \/ R[r].parent \in Apparent(R, page) /\ ~R[R[r].parent].skipped
  BY UnfoldedIs DEF Apparent, InText

(* What is read into the map of rows unfolds into nothing that is not      *)
(* there to be shown.                                                      *)
LEMMA LookupMapIs ==
  ASSUME IsFiniteSet(DOMAIN answersets)
  PROVE  /\ IsFiniteSet(DOMAIN LookupMap) /\ DOMAIN LookupMap \subseteq DOMAIN answersets
         /\ \A r \in DOMAIN LookupMap : LookupMap[r] = answersets[r] /\ Listed(r)
         /\ \A r \in DOMAIN answersets : Listed(r) => r \in DOMAIN LookupMap
         /\ Unfolded(LookupMap) \subseteq Apparent(answersets, viewing.page)
<1>1. /\ DOMAIN LookupMap \subseteq DOMAIN answersets
      /\ \A r \in DOMAIN LookupMap : LookupMap[r] = answersets[r] /\ Listed(r)
      /\ \A r \in DOMAIN answersets : Listed(r) => r \in DOMAIN LookupMap
  BY DEF LookupMap
<1>2. IsFiniteSet(DOMAIN LookupMap)
  BY <1>1, FS_Subset
<1> DEFINE M == LookupMap
           T == Unfolded(answersets) \intersect DOMAIN M
<1> HIDE DEF M
<1>3. T \in SUBSET DOMAIN M /\ ChildRows(M, Topmost) \subseteq T
  BY <1>1, UnfoldedIs DEF M, ChildRows
<1>4. \A r \in T : ~M[r].skipped => ChildRows(M, r) \subseteq T
  BY <1>1, UnfoldedIs DEF M, ChildRows
<1>5. Unfolded(M) \subseteq T
  <2> HIDE DEF T
  <2>1. QED
    BY <1>2, <1>3, <1>4, UnfoldedIs DEF M
<1>6. T \subseteq Apparent(answersets, viewing.page)
  BY <1>1 DEF M, Apparent, Listed
<1>7. QED
  BY <1>1, <1>2, <1>5, <1>6 DEF M

(* Nothing but the flags of sections decides what is to be shown of rows.  *)
LEMMA ApparentStays ==
  ASSUME \A s \in DOMAIN tree : tree'[s] = tree[s],
         NEW R, IsFiniteSet(DOMAIN R), \A r \in DOMAIN R : R[r].section \in DOMAIN tree,
         answersets' = R, NEW page, viewing'.page = page
  PROVE  Apparent(answersets, viewing.page)' = Apparent(R, page)
<1>1. Unfolded(answersets)' = Unfolded(R)
  BY DEF Unfolded, Closure, ChildRows
<1>2. \A r \in DOMAIN R : InText(answersets, r)' = InText(R, r)
  BY DEF InText
<1>3. Unfolded(R) \subseteq DOMAIN R
  BY UnfoldedIs
<1>4. QED
  BY <1>1, <1>2, <1>3 DEF Apparent

-----------------------------------------------------------------------------
(* Another request keeps the invariant.                                    *)

(* Another request leaves rows P; kind is what a page that is being put    *)
(* together remembers of it.                                               *)
Disturbance(kind, P) ==
    /\ Disturb(kind, P)
    /\ IsTree(tree)' /\ Fits(tree', P)
    /\ \A r \in DOMAIN P : P[r].section \in DOMAIN tree
    /\ \A s \in DOMAIN tree : s \in DOMAIN tree' /\ tree'[s] = tree[s]
    /\ \A r \in (DOMAIN answersets) \intersect DOMAIN P : SameRow(P[r], answersets[r])
    /\ \A r \in (DOMAIN P) \ DOMAIN answersets : r > numbered
    /\ kind = "row gone" \/ DOMAIN answersets \subseteq DOMAIN P
    /\ kind = "section" \/ tree' = tree
    /\ \/ gaps'
       \/ /\ ~gaps /\ tree' = tree
          /\ Gapless(tree, answersets) => Gapless(tree, P)

LEMMA DisturbedTidy ==
  ASSUME Tidy, NEW kind, NEW P, Disturbance(kind, P)
  PROVE  Tidy'
<1>1. answersets' = P /\ numbered' = LastKey(numbered, P) /\ IsTree(tree)' /\ Fits(tree', P)
  BY DEF Disturbance, Disturb
<1>2. IsFiniteSet(DOMAIN P) /\ DOMAIN P \subseteq Nat
  BY <1>1 DEF Fits
<1>3. numbered' \in Nat /\ \A r \in DOMAIN P : r <= numbered'
  BY <1>1, <1>2, LastKeyIs DEF Tidy
<1>4. Fits(tree, answersets)'
  BY <1>1 DEF Fits, Topmost
<1>5. ~gaps' => Gapless(tree, answersets)'
  <2>1. ASSUME ~gaps'
        PROVE  tree' = tree /\ Gapless(tree, P)
    BY <2>1 DEF Disturbance, Tidy
  <2>2. QED
    BY <2>1, <1>1 DEF Gapless, RowsAt, Topmost
<1>6. QED
  BY <1>1, <1>3, <1>4, <1>5 DEF Tidy

LEMMA DisturbedView ==
  ASSUME Tidy, ViewTyped, Viewing, NEW kind, NEW P, Disturbance(kind, P)
  PROVE  /\ viewing'.page = viewing.page /\ viewing'.next = viewing.next
         /\ viewing'.taken = viewing.taken
         /\ viewing'.disturbed = viewing.disturbed \union {kind}
         /\ ViewTyped' /\ Viewing'
         /\ \A query : Got(query)' = Got(query)
<1> DEFINE seen == viewing.disturbed \union {kind}
<1>1. viewing' = [viewing EXCEPT !.disturbed = seen]
  BY DEF Disturbance, Disturb
<1>2. viewing' = [page |-> viewing.page, next |-> viewing.next, disturbed |-> seen,
                  taken |-> viewing.taken, shown |-> viewing.shown, count |-> viewing.count]
  <2> HIDE DEF seen
  <2>1. QED
    BY <1>1 DEF ViewTyped
<1>3. /\ viewing'.page = viewing.page /\ viewing'.next = viewing.next
      /\ viewing'.taken = viewing.taken /\ viewing'.disturbed = seen
  BY <1>2
<1>4. Queries(viewing.page)' = Queries(viewing.page)
  BY <1>3 DEF Queries, SummaryQueries, TextQueries
<1>5. \A query : Got(query)' = Got(query)
  BY <1>3, <1>4 DEF Got
<1>6. ViewTyped' /\ Viewing'
  BY <1>2, <1>3, <1>4 DEF ViewTyped, Viewing
<1>7. QED
  BY <1>3, <1>5, <1>6

LEMMA DisturbedLasting ==
  ASSUME Tidy, ViewTyped, Viewing, LastingKnown, NEW kind, NEW P, Disturbance(kind, P)
  PROVE  /\ LastingKnown'
         /\ lasting'.rows \subseteq lasting.rows /\ lasting'.filled \subseteq lasting.filled
         /\ ever \subseteq ever'
         /\ \A r \in lasting'.rows : r \in DOMAIN answersets /\ r \in DOMAIN P
                                     /\ SameRow(P[r], answersets[r])
<1>1. /\ answersets' = P
      /\ lasting' = Both(lasting, ToShow(P, viewing.page))
      /\ ever' = ever \union Apparent(P, viewing.page)
  BY DEF Disturbance, Disturb
<1>2. viewing'.page = viewing.page
  BY DisturbedView
<1>3. IsFiniteSet(DOMAIN P) /\ IsFiniteSet(DOMAIN answersets)
  BY DEF Disturbance, Fits, Tidy
<1>4. Apparent(answersets, viewing.page)' = Apparent(P, viewing.page)
  BY <1>1, <1>2, <1>3, ApparentStays DEF Disturbance
<1>5. /\ lasting'.rows = lasting.rows \intersect Apparent(P, viewing.page)
      /\ lasting'.filled = lasting.filled \intersect {r \in Apparent(P, viewing.page) : P[r].filled}
      /\ lasting' = [rows |-> lasting'.rows, filled |-> lasting'.filled]
  BY <1>1 DEF Both, ToShow
<1>6. \A r \in lasting'.rows : r \in DOMAIN answersets /\ r \in DOMAIN P
                               /\ SameRow(P[r], answersets[r])
  BY <1>3, <1>5, ApparentIs DEF LastingKnown, Disturbance
<1>7. \A r \in lasting'.rows : P[r].parent \in lasting'.rows \union {Topmost}
  BY <1>3, <1>5, <1>6, ApparentIs DEF LastingKnown, SameRow
<1>8. LastingKnown'
  BY <1>1, <1>4, <1>5, <1>7 DEF LastingKnown, Topmost
<1>9. QED
  BY <1>1, <1>5, <1>6, <1>8

LEMMA DisturbedMaps ==
  ASSUME Tidy, ViewTyped, Viewing, LastingKnown, MapsHold, NEW kind, NEW P, Disturbance(kind, P)
  PROVE  MapsHold'
<1>1. /\ answersets' = P /\ numbered' = LastKey(numbered, P)
      /\ viewing'.taken = viewing.taken /\ viewing'.page = viewing.page
      /\ viewing'.disturbed = viewing.disturbed \union {kind}
      /\ Maps' = Maps
      /\ \A query : Got(query)' = Got(query)
  BY DisturbedView DEF Disturbance, Disturb, Maps
<1>2. /\ lasting'.rows \subseteq lasting.rows /\ lasting'.filled \subseteq lasting.filled
      /\ ever \subseteq ever'
      /\ \A r \in lasting'.rows : /\ r \in DOMAIN answersets /\ r \in DOMAIN P
                                  /\ P[r].section = answersets[r].section
                                  /\ P[r].parent = answersets[r].parent
      /\ \A r \in lasting'.rows : P[r].parent \in lasting'.rows \union {Topmost}
  <2>1. LastingKnown'
    BY DisturbedLasting
  <2>2. QED
    BY <2>1, <1>1, DisturbedLasting DEF SameRow, LastingKnown
<1>3. numbered \in Nat /\ numbered' \in Nat /\ numbered <= numbered'
      /\ Topmost \notin DOMAIN P /\ Topmost \notin DOMAIN answersets
  <2>1. IsFiniteSet(DOMAIN P) /\ DOMAIN P \subseteq Nat \ {Topmost}
    BY DEF Disturbance, Fits
  <2>2. QED
    BY <2>1, <1>1, LastKeyIs DEF Tidy, Fits
<1>4. \A r \in DOMAIN P : r \in DOMAIN answersets \/ r > numbered
  BY DEF Disturbance
<1>5. ~Gone' => ~Gone /\ DOMAIN answersets \subseteq DOMAIN P
  BY <1>1 DEF Gone, Disturbance
<1>6. "section" \notin viewing'.disturbed => "section" \notin viewing.disturbed /\ tree' = tree
  BY <1>1 DEF Disturbance
<1>7. viewing'.disturbed # {}
  BY <1>1
<1>8. \A s \in DOMAIN tree : s \in DOMAIN tree' /\ tree'[s] = tree[s]
  BY DEF Disturbance
<1>9. \A r \in (DOMAIN answersets) \intersect DOMAIN P : SameRow(P[r], answersets[r])
  BY DEF Disturbance
<1>10. \A r \in lasting'.rows : P[r].parent # Topmost =>
            P[r].parent \in lasting'.rows /\ P[P[r].parent].section = answersets[P[r].parent].section
  BY <1>2
<1>11. ASSUME Got("below")
       PROVE  BelowHolds'
  <2>1. BelowHolds
    BY <1>11 DEF MapsHold
  <2>2. DOMAIN Maps.below \subseteq DOMAIN tree'
    BY <2>1, <1>8 DEF BelowHolds
  <2>3. \A s \in DOMAIN Maps.below : Maps.below[s] \subseteq Subsections(s)'
    BY <2>1, <1>8 DEF BelowHolds, Subsections
  <2>4. \A r \in lasting'.rows : P[r].parent # Topmost =>
           /\ P[P[r].parent].section \in DOMAIN Maps.below
           /\ P[r].section \in Maps.below[P[P[r].parent].section]
    BY <2>1, <1>2, <1>10 DEF BelowHolds
  <2>5. QED
    BY <2>2, <2>3, <2>4, <1>1 DEF BelowHolds, Topmost
<1>12. ASSUME Got("sections")
       PROVE  SectionsHold'
  <2>1. SectionsHold
    BY <1>12 DEF MapsHold
  <2>2. \A r \in lasting'.rows : P[r].section \in Maps.sections
    BY <2>1, <1>2 DEF SectionsHold
  <2>3. QED
    BY <2>1, <2>2, <1>1, <1>6 DEF SectionsHold
<1>13. ASSUME Got("keys")
       PROVE  KeysHold'
  <2>1. KeysHold
    BY <1>13 DEF MapsHold
  <2>2. \A r \in DOMAIN Maps.keys :
           /\ r \in Nat \ {Topmost} /\ r <= numbered'
           /\ r \in DOMAIN P => SameRow(Maps.keys[r], P[r])
    BY <2>1, <1>3, <1>4, <1>9 DEF KeysHold, SameRow
  <2>3. lasting'.rows \subseteq DOMAIN Maps.keys /\ (~Gone' => DOMAIN Maps.keys \subseteq DOMAIN P)
    BY <2>1, <1>2, <1>5 DEF KeysHold
  <2>4. ~gaps' => Gapless(tree', Maps.keys)
    BY <2>1 DEF KeysHold, Disturbance
  <2>5. ~gaps' => Gapless(tree, Maps.keys)'
    BY <2>4, <1>1 DEF Gapless, RowsAt, Topmost
  <2>6. QED
    BY <2>2, <2>3, <2>5, <1>1 DEF KeysHold, SameRow, Topmost
<1>14. ASSUME Got("children")
       PROVE  ChildrenHold'
  <2>1. ChildrenHold
    BY <1>14 DEF MapsHold
  <2>2. QED
    BY <2>1, <1>1, <1>2 DEF ChildrenHold, Topmost
<1>15. ASSUME Got("rows")
       PROVE  RowsHold'
  <2>1. RowsHold
    BY <1>15 DEF MapsHold
  <2>2. \A r \in DOMAIN Maps.rows :
           /\ r \in Nat \ {Topmost} /\ r <= numbered'
           /\ Maps.rows[r].section \in DOMAIN tree'
           /\ r \in DOMAIN P => SameRow(Maps.rows[r], P[r])
           /\ r \in DOMAIN Maps.keys => SameRow(Maps.keys[r], Maps.rows[r])
    BY <2>1, <1>3, <1>4, <1>8, <1>9 DEF RowsHold, SameRow
  <2>3. /\ \A r \in lasting'.rows :
              /\ r \in DOMAIN Maps.rows
              /\ P[r].parent # Topmost => ~Maps.rows[P[r].parent].skipped
        /\ \A r \in lasting'.filled : Maps.rows[r].filled
    BY <2>1, <1>2 DEF RowsHold
  <2>4. ~Gone' => /\ DOMAIN Maps.rows \subseteq DOMAIN P
                  /\ viewing'.page = "summary" => DOMAIN Maps.keys \subseteq DOMAIN Maps.rows
    BY <2>1, <1>1, <1>5 DEF RowsHold
  <2>5. IsFiniteSet(DOMAIN Maps.rows) /\ Unfolded(Maps.rows) \subseteq ever'
    BY <2>1, <1>2 DEF RowsHold
  <2>6. Unfolded(Maps.rows)' = Unfolded(Maps.rows)
    BY <1>1 DEF Unfolded, Closure, ChildRows, Topmost
  <2>7. QED
    BY <2>2, <2>3, <2>4, <2>5, <2>6, <1>1, <1>7 DEF RowsHold, SameRow, Topmost
<1>16. ASSUME Got("told")
       PROVE  ToldHolds'
  <2>1. ToldHolds
    BY <1>16 DEF MapsHold
  <2>2. QED
    BY <2>1, <1>1, <1>2, <1>7 DEF ToldHolds
<1>17. ASSUME Got("parents")
       PROVE  ParentsHold'
  <2>1. ParentsHold
    BY <1>17 DEF MapsHold
  <2>2. QED
    BY <2>1, <1>1, <1>5 DEF ParentsHold
<1>18. QED
  <2>1. /\ Got("below")' = Got("below") /\ Got("sections")' = Got("sections")
        /\ Got("keys")' = Got("keys") /\ Got("children")' = Got("children")
        /\ Got("rows")' = Got("rows") /\ Got("told")' = Got("told")
        /\ Got("parents")' = Got("parents")
    BY <1>1
  <2>2. QED
    BY <2>1, <1>11, <1>12, <1>13, <1>14, <1>15, <1>16, <1>17 DEF MapsHold

LEMMA DisturbanceKeeps ==
  ASSUME SummaryInv, NEW kind, NEW P, Disturbance(kind, P)
  PROVE  SummaryInv'
<1>1. Tidy'
  BY DisturbedTidy DEF SummaryInv
<1>2. CASE Viewing
  <2>1. ViewTyped' /\ LastingKnown' /\ MapsHold' /\ viewing'.next # 0
    BY <1>2, DisturbedView, DisturbedLasting, DisturbedMaps DEF SummaryInv, Viewing, ViewTyped
  <2>2. QED
    BY <2>1, <1>1 DEF SummaryInv, PageIsWhole
<1>3. CASE ~Viewing
  <2>1. viewing' = NotViewing(viewing.count)
    BY <1>3 DEF Disturbance, Disturb
  <2>2. ViewTyped' /\ ~Viewing' /\ viewing'.page = "none"
    BY <2>1 DEF ViewTyped, NotViewing, Viewing, NothingTaken, QueryNames
  <2>3. QED
    BY <2>2, <1>1 DEF SummaryInv, PageIsWhole
<1>4. QED
  BY <1>2, <1>3

LEMMA AddSubsectionDisturbs ==
  ASSUME Tidy, NEW super \in (DOMAIN tree) \union {Topmost}, AddSubsection(super)
  PROVE  Disturbance("section", answersets)
<1> DEFINE given == LastKey(Topmost, tree)
           new == given + 1
           section == [super |-> super, optional |-> FALSE, repeatable |-> FALSE,
                       standIn |-> FALSE, answeredElsewhere |-> FALSE]
           D == (DOMAIN tree) \union {new}
<1>1. /\ IsFiniteSet(DOMAIN tree) /\ DOMAIN tree \subseteq Nat \ {Topmost} /\ Topmost \in Nat
      /\ tree \in [DOMAIN tree -> [super : Nat, optional : BOOLEAN, repeatable : BOOLEAN,
                                   standIn : BOOLEAN, answeredElsewhere : BOOLEAN]]
      /\ \A s \in DOMAIN tree :
           tree[s].super \in (DOMAIN tree) \union {Topmost}
  BY DEF Tidy, IsTree, Topmost
<1>2. given \in Nat /\ Topmost <= given /\ \A s \in DOMAIN tree : s <= given
  <2>1. DOMAIN tree \subseteq Nat
    BY <1>1
  <2>2. QED
    BY <1>1, <2>1, LastKeyIs
<1>3. tree' = [s \in D |-> IF s \in DOMAIN tree THEN tree[s] ELSE section]
  BY DEF AddSubsection
<1> HIDE DEF given
<1>4. new \in Nat \ {Topmost} /\ new \notin DOMAIN tree /\ super # new /\ super \in Nat
  BY <1>1, <1>2 DEF Topmost
<1>5. section \in [super : Nat, optional : BOOLEAN, repeatable : BOOLEAN,
                   standIn : BOOLEAN, answeredElsewhere : BOOLEAN] /\ section.super = super
  BY <1>4
<1> HIDE DEF section, new
<1>6. DOMAIN tree' = D /\ \A s \in D : tree'[s] = IF s \in DOMAIN tree THEN tree[s] ELSE section
  BY <1>3
<1>7. IsTree(tree')
  <2>1. IsFiniteSet(D) /\ D \subseteq Nat \ {Topmost}
    BY <1>1, <1>4, FS_AddElement
  <2>2. tree' \in [D -> [super : Nat, optional : BOOLEAN, repeatable : BOOLEAN,
                         standIn : BOOLEAN, answeredElsewhere : BOOLEAN]]
    BY <1>1, <1>3, <1>5
  <2>3. \A s \in D : tree'[s].super \in D \union {Topmost}
    BY <1>1, <1>4, <1>5, <1>6
  <2>4. PICK level : level \in Levels(tree)
    BY TreeIs DEF Tidy
  <2> DEFINE size == Cardinality(DOMAIN tree)
             below == IF super = Topmost THEN 0 ELSE level[super] + 1
             deeper == [s \in D |-> IF s \in DOMAIN tree THEN level[s] ELSE below]
  <2>5. size \in Nat /\ Cardinality(D) = size + 1
    BY <1>1, <1>4, FS_CardinalityType, FS_AddElement
  <2>6. \A s \in DOMAIN tree : level[s] \in 0..size
    BY <2>4 DEF Levels
  <2>7. below \in 0..size + 1
    <3> HIDE DEF size
    <3>1. QED
      BY <2>5, <2>6
  <2>8. \A s \in D : deeper[s] \in 0..Cardinality(D)
    <3> HIDE DEF size, below
    <3>1. QED
      BY <2>5, <2>6, <2>7
  <2>9. ASSUME NEW s \in D, tree'[s].super # Topmost
        PROVE  deeper[tree'[s].super] < deeper[s]
    <3>1. CASE s \in DOMAIN tree
      <4>1. /\ tree'[s] = tree[s] /\ tree[s].super \in DOMAIN tree
            /\ level[tree[s].super] < level[s]
        BY <3>1, <2>4, <2>9, <1>6, LevelIs DEF Tidy
      <4>2. QED
        BY <4>1, <3>1
    <3>2. CASE s \notin DOMAIN tree
      <4>1. tree'[s].super = super /\ super \in DOMAIN tree /\ level[super] \in Nat
        BY <3>2, <2>4, <2>9, <1>5, <1>6, LevelIs DEF Tidy
      <4>2. deeper[super] = level[super] /\ deeper[s] = level[super] + 1
        BY <4>1, <3>2, <2>9
      <4>3. QED
        BY <4>1, <4>2
    <3>3. QED
      BY <3>1, <3>2
  <2>10. deeper \in [D -> 0..Cardinality(D)]
    <3> HIDE DEF below
    <3>1. QED
      BY <2>8
  <2> HIDE DEF deeper
  <2>11. deeper \in Levels(tree')
    BY <2>9, <2>10, <1>6 DEF Levels
  <2>12. QED
    BY <2>1, <2>2, <2>3, <2>11, <1>6 DEF IsTree
<1>8. IsTree(tree)'
  BY <1>7 DEF IsTree, Levels, Topmost
<1>9. /\ \A s \in DOMAIN tree : s \in DOMAIN tree' /\ tree'[s] = tree[s]
      /\ \A r \in DOMAIN answersets : answersets[r].section \in DOMAIN tree
  BY <1>6 DEF Tidy, Fits
<1>10. Fits(tree', answersets)
  <2>1. /\ answersets \in [DOMAIN answersets ->
              [section : DOMAIN tree, parent : (DOMAIN answersets) \union {Topmost},
               skipped : BOOLEAN, filled : BOOLEAN]]
        /\ DOMAIN tree \subseteq DOMAIN tree'
    BY <1>9 DEF Tidy, Fits
  <2>2. answersets \in [DOMAIN answersets ->
              [section : DOMAIN tree', parent : (DOMAIN answersets) \union {Topmost},
               skipped : BOOLEAN, filled : BOOLEAN]]
    BY <2>1
  <2>3. QED
    BY <2>2, <1>9 DEF Tidy, Fits
<1>11. QED
  BY <1>8, <1>9, <1>10 DEF Disturbance, AddSubsection, SameRow

LEMMA ChangedDisturbs ==
  ASSUME Tidy, NEW kind, NEW P, Disturb(kind, P), Changed(answersets, P, numbered),
         kind = "row gone" \/ DOMAIN answersets \subseteq DOMAIN P,
         tree' = tree, gaps' = gaps
  PROVE  Disturbance(kind, P)
<1>1. IsTree(tree)' /\ Fits(tree', P)
  <2>1. IsTree(tree')
    BY DEF Tidy
  <2>2. QED
    BY <2>1 DEF IsTree, Levels, Changed, Topmost
<1>2. \A r \in DOMAIN P : P[r].section \in DOMAIN tree
  BY DEF Changed, Fits
<1>3. \/ gaps'
      \/ /\ ~gaps /\ tree' = tree
         /\ Gapless(tree, answersets) => Gapless(tree, P)
  BY DEF Changed
<1>4. QED
  BY <1>1, <1>2, <1>3 DEF Disturbance, Changed

(* Every other request is such a disturbance.                              *)
LEMMA OthersKeep ==
  ASSUME SummaryInv,
         \/ \E super \in (DOMAIN tree) \union {Topmost} : AddSubsection(super)
         \/ \E r \in DOMAIN answersets : AddRow(r) \/ RemoveRow(r) \/ AnswerRow(r)
  PROVE  SummaryInv'
<1>1. Tidy /\ PlanFits
  BY DEF SummaryInv, Tidy, PlanFits, Above
<1>2. CASE \E super \in (DOMAIN tree) \union {Topmost} : AddSubsection(super)
  BY <1>1, <1>2, AddSubsectionDisturbs, DisturbanceKeeps
<1>3. ASSUME NEW r \in DOMAIN answersets, AddRow(r)
      PROVE  SummaryInv'
  <2>1. PICK P : Disturb("row", P) /\ Changed(answersets, P, numbered)
                 /\ DOMAIN answersets \subseteq DOMAIN P
    BY <1>1, <1>3, AddRowIs
  <2>2. tree' = tree /\ gaps' = gaps
    BY <1>3 DEF AddRow
  <2>3. QED
    BY <1>1, <2>1, <2>2, ChangedDisturbs, DisturbanceKeeps
<1>4. ASSUME NEW r \in DOMAIN answersets, RemoveRow(r)
      PROVE  SummaryInv'
  <2>1. PICK P : Disturb("row gone", P) /\ Changed(answersets, P, numbered)
    BY <1>1, <1>4, RemoveRowIs
  <2>2. tree' = tree /\ gaps' = gaps
    BY <1>4 DEF RemoveRow
  <2>3. QED
    BY <1>1, <2>1, <2>2, ChangedDisturbs, DisturbanceKeeps
<1>5. ASSUME NEW r \in DOMAIN answersets, AnswerRow(r)
      PROVE  SummaryInv'
  <2>1. PICK P : Disturb("row", P) /\ Changed(answersets, P, numbered)
                 /\ DOMAIN answersets \subseteq DOMAIN P
    BY <1>1, <1>5, AnswerRowIs
  <2>2. tree' = tree /\ gaps' = gaps
    BY <1>5 DEF AnswerRow
  <2>3. QED
    BY <1>1, <2>1, <2>2, ChangedDisturbs, DisturbanceKeeps
<1>6. QED
  BY <1>2, <1>3, <1>4, <1>5

(* A page starts from repaired rows, and nothing is read yet.              *)
LEMMA BeginKeeps ==
  ASSUME SummaryInv, NEW view, view \in {"summary", "text"}, NEW readied, Begin(view, readied),
         Fits(tree, readied), ~gaps' => Gapless(tree, readied)
  PROVE  SummaryInv'
<1>1. /\ answersets' = readied /\ tree' = tree
      /\ numbered' = LastKey(LastKey(numbered, Ensured(answersets)), readied)
      /\ viewing' = [NotViewing(viewing.count + 1) EXCEPT !.page = view, !.next = 1]
      /\ lasting' = ToShow(readied, view) /\ ever' = Apparent(readied, view)
  BY DEF Begin
<1>2. viewing' = [page |-> view, next |-> 1, disturbed |-> {}, taken |-> NothingTaken,
                  shown |-> NotShown, count |-> viewing.count + 1]
  BY <1>1 DEF NotViewing
<1>3. viewing'.page = view /\ viewing'.next = 1 /\ viewing'.taken = NothingTaken
  BY <1>2
<1>4. IsTree(tree) /\ Fits(tree, answersets) /\ numbered \in Nat /\ Above(answersets, numbered)
  BY DEF SummaryInv, Tidy, Above
<1>5. /\ IsFiniteSet(DOMAIN readied) /\ DOMAIN readied \subseteq Nat
      /\ \A r \in DOMAIN readied : readied[r].section \in DOMAIN tree
  BY DEF Fits
<1>6. Tidy'
  <2>1. Fits(tree, Ensured(answersets))
    BY <1>4, EnsuredIs
  <2>2. IsFiniteSet(DOMAIN Ensured(answersets)) /\ DOMAIN Ensured(answersets) \subseteq Nat
    BY <2>1 DEF Fits
  <2>3. LastKey(numbered, Ensured(answersets)) \in Nat
    BY <2>2, <1>4, LastKeyIs
  <2>4. numbered' \in Nat /\ \A r \in DOMAIN readied : r <= numbered'
    BY <2>3, <1>1, <1>5, LastKeyIs
  <2>5. IsTree(tree)' /\ Fits(tree, answersets)' /\ (~gaps' => Gapless(tree, answersets)')
    BY <1>1, <1>4 DEF IsTree, Levels, Fits, Gapless, RowsAt, Topmost
  <2>6. QED
    BY <2>4, <2>5, <1>1 DEF Tidy
<1>7. Queries(viewing.page)' \in {SummaryQueries, TextQueries}
  BY <1>3 DEF Queries, SummaryQueries, TextQueries
<1>8. ViewTyped' /\ Viewing' /\ viewing'.next # 0
  <2>1. Len(Queries(viewing.page)') \in Nat /\ DOMAIN Queries(viewing.page)' \subseteq Nat \ {0}
    BY <1>7 DEF SummaryQueries, TextQueries
  <2>2. QED
    BY <2>1, <1>2, <1>3 DEF ViewTyped, Viewing, NothingTaken
<1>9. \A query : ~Got(query)'
  <2>1. DOMAIN Queries(viewing.page)' \subseteq Nat \ {0}
    BY <1>7 DEF SummaryQueries, TextQueries
  <2>2. QED
    BY <2>1, <1>3 DEF Got
<1>10. MapsHold'
  BY <1>9 DEF MapsHold
<1>11. LastingKnown'
  <2>1. Apparent(answersets, viewing.page)' = Apparent(readied, view)
    BY <1>1, <1>3, <1>5, ApparentStays
  <2>2. /\ lasting' = [rows |-> Apparent(readied, view),
                       filled |-> {r \in Apparent(readied, view) : readied[r].filled}]
    BY <1>1 DEF ToShow
  <2>3. \A r \in Apparent(readied, view) :
           readied[r].parent \in Apparent(readied, view) \union {Topmost}
    BY <1>5, ApparentIs
  <2>4. QED
    BY <2>1, <2>2, <2>3, <1>1 DEF LastingKnown, Topmost
<1>12. QED
  BY <1>6, <1>8, <1>10, <1>11 DEF SummaryInv, PageIsWhole

LEMMA ViewsKeep ==
  ASSUME SummaryInv, ViewSummary \/ ViewText
  PROVE  SummaryInv'
<1>1. IsTree(tree) /\ Fits(tree, answersets) /\ numbered \in Nat /\ Above(answersets, numbered)
      /\ (~gaps => Gapless(tree, answersets))
  BY DEF SummaryInv, Tidy, Above
<1>2. CASE ViewSummary
  <2>1. Fits(tree, Ensured(answersets)) /\ (~gaps => Gapless(tree, Ensured(answersets)))
    BY <1>1, EnsuredIs
  <2>2. Begin("summary", Ensured(answersets)) /\ gaps' = gaps
    BY <1>2 DEF ViewSummary
  <2>3. QED
    BY <2>1, <2>2, BeginKeeps
<1>3. CASE ViewText
  <2>1. Fits(tree, Repaired(answersets)) /\ Gapless(tree, Repaired(answersets))
    BY <1>1, RepairedIs
  <2>2. Begin("text", Repaired(answersets))
    BY <1>3 DEF ViewText
  <2>3. QED
    BY <2>1, <2>2, BeginKeeps
<1>4. QED
  BY <1>2, <1>3

-----------------------------------------------------------------------------
(* A list is read.                                                         *)

(* The lists are read one after the other, the keys before the rows and    *)
(* these before what needs them.                                           *)
LEMMA GotIs ==
  ASSUME viewing.page \in {"summary", "text"}, viewing.next \in Nat
  PROVE  /\ DOMAIN Queries(viewing.page) = 1..Len(Queries(viewing.page))
         /\ \A i \in DOMAIN Queries(viewing.page) : Queries(viewing.page)[i] \in QueryNames
         /\ \A query : Got(query) <=>
              \/ viewing.page = "summary" /\
                   \/ viewing.next > 1 /\ query = "below"
                   \/ viewing.next > 2 /\ query = "sections"
                   \/ viewing.next > 3 /\ query = "keys"
                   \/ viewing.next > 4 /\ query = "children"
                   \/ viewing.next > 5 /\ query = "rows"
                   \/ viewing.next > 6 /\ query = "parents"
              \/ viewing.page = "text" /\
                   \/ viewing.next > 1 /\ query = "keys"
                   \/ viewing.next > 2 /\ query = "children"
                   \/ viewing.next > 3 /\ query = "rows"
                   \/ viewing.next > 4 /\ query = "parents"
                   \/ viewing.next > 5 /\ query = "told"
                   \/ viewing.next > 6 /\ query = "below"
                   \/ viewing.next > 7 /\ query = "sections"
<1>1. CASE viewing.page = "summary"
  <2>1. Queries(viewing.page) = <<"below", "sections", "keys", "children", "rows", "parents">>
    BY <1>1 DEF Queries, SummaryQueries
  <2>2. QED
    BY <2>1, <1>1 DEF Got, QueryNames
<1>2. CASE viewing.page = "text"
  <2>1. Queries(viewing.page)
          = <<"keys", "children", "rows", "parents", "told", "below", "sections">>
    BY <1>2 DEF Queries, TextQueries
  <2>2. QED
    BY <2>1, <1>2 DEF Got, QueryNames
<1>3. QED
  BY <1>1, <1>2

LEMMA QueryRuns ==
  ASSUME ViewTyped, RunQuery
  PROVE  \E query \in QueryNames :
           /\ Maps' = [Maps EXCEPT ![query] = Answered(query)]
           /\ Maps = [q \in QueryNames |-> Maps[q]]
           /\ \A q : Got(q)' <=> Got(q) \/ q = query
           /\ query = "told" => Got("rows") /\ viewing.page = "text"
           /\ query = "parents" => Got("rows")
           /\ query = "rows" => Got("keys") /\ ~Got("told") /\ ~Got("parents")
           /\ query = "keys" => ~Got("rows")
           /\ viewing'.page = viewing.page /\ viewing'.disturbed = viewing.disturbed
           /\ ViewTyped' /\ Viewing' /\ viewing'.next # 0
<1> DEFINE i == viewing.next
           query == Queries(viewing.page)[i]
<1>1. /\ viewing' = [viewing EXCEPT !.next = @ + 1, !.taken[query] = Answered(query)]
      /\ Viewing /\ i <= Len(Queries(viewing.page))
  BY DEF RunQuery
<1>2. /\ viewing.page \in {"summary", "text"} /\ i \in Nat /\ i > 0
      /\ viewing.taken = [q \in QueryNames |-> viewing.taken[q]]
  BY <1>1 DEF ViewTyped, Viewing
<1>3. DOMAIN Queries(viewing.page) = 1..Len(Queries(viewing.page)) /\ query \in QueryNames
      /\ Len(Queries(viewing.page)) \in Nat
  BY <1>1, <1>2, GotIs DEF Queries, SummaryQueries, TextQueries
<1> DEFINE taken == [viewing.taken EXCEPT ![query] = Answered(query)]
<1>4. viewing' = [page |-> viewing.page, next |-> i + 1, disturbed |-> viewing.disturbed,
                  taken |-> taken, shown |-> viewing.shown, count |-> viewing.count]
  <2>1. viewing = [page |-> viewing.page, next |-> viewing.next, disturbed |-> viewing.disturbed,
                   taken |-> viewing.taken, shown |-> viewing.shown, count |-> viewing.count]
    BY DEF ViewTyped
  <2>2. viewing' = [viewing EXCEPT !.next = i + 1, !.taken = taken]
    <3> HIDE DEF query
    <3>1. QED
      BY <1>1, <2>1
  <2> HIDE DEF taken, query
  <2>3. QED
    BY <2>1, <2>2
<1> HIDE DEF taken
<1>5. /\ viewing'.page = viewing.page /\ viewing'.next = i + 1
      /\ viewing'.disturbed = viewing.disturbed /\ viewing'.taken = taken
      /\ Queries(viewing.page)' = Queries(viewing.page)
  BY <1>4 DEF Queries, SummaryQueries, TextQueries
<1>6. \A q : Got(q)' <=> Got(q) \/ q = query
  BY <1>1, <1>2, <1>3, <1>5 DEF Got
<1>7. /\ query = "told" => Got("rows") /\ viewing.page = "text"
      /\ query = "parents" => Got("rows")
      /\ query = "rows" => Got("keys") /\ ~Got("told") /\ ~Got("parents")
      /\ query = "keys" => ~Got("rows")
  <2>1. CASE viewing.page = "summary"
    <3>1. Queries(viewing.page) = <<"below", "sections", "keys", "children", "rows", "parents">>
      BY <2>1 DEF Queries, SummaryQueries
    <3>2. QED
      BY <3>1, <2>1, <1>1, <1>2, GotIs
  <2>2. CASE viewing.page = "text"
    <3>1. Queries(viewing.page)
            = <<"keys", "children", "rows", "parents", "told", "below", "sections">>
      BY <2>2 DEF Queries, TextQueries
    <3>2. QED
      BY <3>1, <2>2, <1>1, <1>2, GotIs
  <2>3. QED
    BY <2>1, <2>2, <1>2
<1>8. taken = [q \in QueryNames |-> taken[q]]
  BY <1>2, <1>3 DEF taken
<1>9. ViewTyped' /\ Viewing' /\ viewing'.next # 0
  <2>1. viewing'.next # 0 /\ viewing'.next > 0 /\ viewing'.next \in Nat
    BY <1>2, <1>5
  <2>2. viewing' = [page |-> viewing'.page, next |-> viewing'.next,
                    disturbed |-> viewing'.disturbed, taken |-> viewing'.taken,
                    shown |-> viewing'.shown, count |-> viewing'.count]
    <3> HIDE DEF query
    <3>1. QED
      BY <1>4
  <2>3. viewing'.taken = [q \in QueryNames |-> viewing'.taken[q]]
    <3> HIDE DEF query
    <3>1. QED
      BY <1>5, <1>8
  <2>4. viewing'.page \in {"summary", "text"}
    BY <1>2, <1>5
  <2>5. viewing'.next <= Len(Queries(viewing.page)') + 1
    BY <1>1, <1>2, <1>3, <1>5
  <2>6. QED
    BY <2>1, <2>2, <2>3, <2>4, <2>5 DEF ViewTyped, Viewing
<1>10. Maps' = [Maps EXCEPT ![query] = Answered(query)] /\ Maps = [q \in QueryNames |-> Maps[q]]
  BY <1>2, <1>5 DEF Maps, taken
<1>11. QED
  BY <1>3, <1>5, <1>6, <1>7, <1>9, <1>10

(* What each list says when it is read.                                    *)
LEMMA BelowRead ==
  ASSUME Tidy, LastingKnown
  PROVE  /\ DOMAIN SectionChildmap \subseteq DOMAIN tree
         /\ \A s \in DOMAIN SectionChildmap : SectionChildmap[s] \subseteq Subsections(s)
         /\ \A r \in lasting.rows : answersets[r].parent # Topmost =>
              /\ answersets[answersets[r].parent].section \in DOMAIN SectionChildmap
              /\ answersets[r].section \in SectionChildmap[answersets[answersets[r].parent].section]
<1>1. \A r \in lasting.rows : r \in DOMAIN answersets
  BY ApparentIs DEF LastingKnown, Tidy, Fits
<1>2. QED
  BY <1>1, RowIsFit DEF Tidy, SectionChildmap, Subsections

LEMMA KeysRead ==
  ASSUME Tidy, LastingKnown
  PROVE  /\ \A r \in DOMAIN answersets :
              /\ r \in Nat \ {Topmost} /\ r <= numbered
              /\ SameRow(answersets[r], answersets[r])
         /\ lasting.rows \subseteq DOMAIN answersets
         /\ ~gaps => Gapless(tree, answersets)
  BY ApparentIs DEF LastingKnown, Tidy, Fits, SameRow

LEMMA ListedIs ==
  ASSUME Tidy, LastingKnown
  PROVE  \A r \in lasting.rows :
           /\ r \in DOMAIN answersets /\ Listed(r)
           /\ answersets[r].parent # Topmost =>
                /\ answersets[r].parent \in DOMAIN answersets
                /\ Listed(answersets[r].parent) /\ ~answersets[answersets[r].parent].skipped
<1>1. IsFiniteSet(DOMAIN answersets)
  BY DEF Tidy, Fits
<1>2. QED
  BY <1>1, ApparentIs DEF LastingKnown, Apparent, Listed, InText

LEMMA RowsRead ==
  ASSUME Tidy, LastingKnown, KeysHold
  PROVE  /\ IsFiniteSet(DOMAIN LookupMap)
         /\ \A r \in DOMAIN LookupMap :
              /\ r \in Nat \ {Topmost} /\ r <= numbered
              /\ LookupMap[r].section \in DOMAIN tree
              /\ r \in DOMAIN answersets => SameRow(LookupMap[r], answersets[r])
              /\ r \in DOMAIN Maps.keys => SameRow(Maps.keys[r], LookupMap[r])
         /\ \A r \in lasting.rows :
              /\ r \in DOMAIN LookupMap
              /\ answersets[r].parent # Topmost => ~LookupMap[answersets[r].parent].skipped
         /\ \A r \in lasting.filled : LookupMap[r].filled
         /\ Unfolded(LookupMap) \subseteq ever
         /\ ~Gone => /\ DOMAIN LookupMap \subseteq DOMAIN answersets
                     /\ viewing.page = "summary" => DOMAIN Maps.keys \subseteq DOMAIN LookupMap
<1>1. IsFiniteSet(DOMAIN answersets)
  BY DEF Tidy, Fits
<1>2. /\ IsFiniteSet(DOMAIN LookupMap) /\ DOMAIN LookupMap \subseteq DOMAIN answersets
      /\ \A r \in DOMAIN LookupMap : LookupMap[r] = answersets[r] /\ Listed(r)
      /\ \A r \in DOMAIN answersets : Listed(r) => r \in DOMAIN LookupMap
      /\ Unfolded(LookupMap) \subseteq Apparent(answersets, viewing.page)
  BY <1>1, LookupMapIs
<1>3. \A r \in DOMAIN LookupMap :
              /\ r \in Nat \ {Topmost} /\ r <= numbered
              /\ LookupMap[r].section \in DOMAIN tree
              /\ SameRow(LookupMap[r], answersets[r])
              /\ r \in DOMAIN Maps.keys => SameRow(Maps.keys[r], LookupMap[r])
  BY <1>2, KeysRead DEF KeysHold, Tidy, Fits
<1>4. \A r \in lasting.rows :
              /\ r \in DOMAIN LookupMap
              /\ answersets[r].parent # Topmost => ~LookupMap[answersets[r].parent].skipped
  BY <1>2, ListedIs
<1>5. \A r \in lasting.filled : LookupMap[r].filled
  BY <1>2, <1>4 DEF LastingKnown
<1>6. Unfolded(LookupMap) \subseteq ever
  BY <1>2 DEF LastingKnown
<1>7. ASSUME ~Gone, viewing.page = "summary"
      PROVE  DOMAIN Maps.keys \subseteq DOMAIN LookupMap
  BY <1>2, <1>7 DEF KeysHold, Listed
<1>8. QED
  BY <1>2, <1>3, <1>4, <1>5, <1>6, <1>7

LEMMA ToldRead ==
  ASSUME Tidy, LastingKnown, RowsHold, NEW r \in lasting.filled
  PROVE  r \in DOMAIN Maps.rows /\ TellRow(r) = "answers"
<1>1. r \in lasting.rows /\ r \in DOMAIN answersets /\ r \in DOMAIN Maps.rows
  BY KeysRead DEF LastingKnown, RowsHold
<1>2. /\ Maps.rows[r].filled /\ answersets[r].filled
      /\ Maps.rows[r].section = answersets[r].section
  BY <1>1 DEF LastingKnown, RowsHold, SameRow
<1>3. ~AllBlank(Maps.rows[r].section)
  BY <1>1, <1>2 DEF AllBlank
<1>4. QED
  BY <1>1, <1>2, <1>3 DEF TellRow, Maps

LEMMA ParentsRead ==
  ASSUME Tidy, RowsHold, ~Gone, NEW r \in DOMAIN Maps.rows
  PROVE  Maps.rows[r].parent \in (DOMAIN answersets) \union {Topmost}
<1>1. r \in DOMAIN answersets /\ Maps.rows[r].parent = answersets[r].parent
  BY DEF RowsHold, SameRow
<1>2. QED
  BY <1>1, RowIsFit DEF Tidy

LEMMA QueryKeeps ==
  ASSUME SummaryInv, RunQuery
  PROVE  SummaryInv'
<1>1. /\ tree' = tree /\ answersets' = answersets /\ numbered' = numbered /\ gaps' = gaps
      /\ lasting' = lasting /\ ever' = ever /\ Viewing
  BY DEF RunQuery
<1>2. Tidy /\ ViewTyped /\ LastingKnown /\ MapsHold
  BY <1>1 DEF SummaryInv
<1>3. PICK query \in QueryNames :
           /\ Maps' = [Maps EXCEPT ![query] = Answered(query)]
           /\ Maps = [q \in QueryNames |-> Maps[q]]
           /\ \A q : Got(q)' <=> Got(q) \/ q = query
           /\ query = "told" => Got("rows") /\ viewing.page = "text"
           /\ query = "parents" => Got("rows")
           /\ query = "rows" => Got("keys") /\ ~Got("told") /\ ~Got("parents")
           /\ query = "keys" => ~Got("rows")
           /\ viewing'.page = viewing.page /\ viewing'.disturbed = viewing.disturbed
           /\ ViewTyped' /\ Viewing' /\ viewing'.next # 0
  BY <1>2, QueryRuns
<1> DEFINE Read(q) == Maps'[q] = IF q = query THEN Answered(q) ELSE Maps[q]
<1>4. \A q \in QueryNames : Read(q)
  <2> HIDE DEF Maps
  <2>1. QED
    BY <1>3
<1>5. Gone' = Gone
  BY <1>3 DEF Gone
<1>6. ASSUME Got("below")'
      PROVE  BelowHolds'
  <2>1. Maps'.below = IF query = "below" THEN SectionChildmap ELSE Maps.below
    BY <1>4 DEF Answered, QueryNames
  <2>2. query = "below" \/ BelowHolds
    BY <1>2, <1>3, <1>6 DEF MapsHold
  <2>3. CASE query = "below"
    BY <2>1, <2>3, <1>1, <1>2, BelowRead DEF BelowHolds, Subsections, Topmost
  <2>4. CASE query # "below"
    BY <2>1, <2>2, <2>4, <1>1 DEF BelowHolds, Subsections, Topmost
  <2>5. QED
    BY <2>3, <2>4
<1>7. ASSUME Got("sections")'
      PROVE  SectionsHold'
  <2>1. Maps'.sections = IF query = "sections" THEN DOMAIN tree ELSE Maps.sections
    BY <1>4 DEF Answered, QueryNames, SectionLookupMap
  <2>2. query = "sections" \/ SectionsHold
    BY <1>2, <1>3, <1>7 DEF MapsHold
  <2>3. \A r \in lasting.rows : answersets[r].section \in DOMAIN tree
    BY <1>2, KeysRead DEF Tidy, Fits
  <2>4. QED
    BY <2>1, <2>2, <2>3, <1>1, <1>3 DEF SectionsHold
<1>8. ASSUME Got("keys")'
      PROVE  KeysHold'
  <2>1. Maps'.keys = IF query = "keys" THEN answersets ELSE Maps.keys
    BY <1>4 DEF Answered, QueryNames, MapByParentKey
  <2>2. CASE query = "keys"
    <3>1. Maps'.keys = answersets
      BY <2>1, <2>2
    <3>2. Gapless(tree, Maps.keys)' <=> Gapless(tree, answersets)
      BY <3>1, <1>1 DEF Gapless, RowsAt, Topmost
    <3>3. QED
      BY <3>1, <3>2, <1>1, <1>2, KeysRead DEF KeysHold, SameRow, Topmost
  <2>3. CASE query # "keys"
    <3>1. KeysHold /\ Maps'.keys = Maps.keys
      BY <2>1, <2>3, <1>2, <1>3, <1>8 DEF MapsHold
    <3>2. Gapless(tree, Maps.keys)' <=> Gapless(tree, Maps.keys)
      BY <3>1, <1>1 DEF Gapless, RowsAt, Topmost
    <3>3. QED
      BY <3>1, <3>2, <1>1, <1>5 DEF KeysHold, SameRow, Topmost
  <2>4. QED
    BY <2>2, <2>3
<1>9. ASSUME Got("children")'
      PROVE  ChildrenHold'
  <2>1. Maps'.children = IF query = "children" THEN Childmap ELSE Maps.children
    BY <1>4 DEF Answered, QueryNames
  <2>2. query = "children" \/ ChildrenHold
    BY <1>2, <1>3, <1>9 DEF MapsHold
  <2>3. \A r \in lasting.rows : answersets[r].parent \in Childmap
    BY <1>2, ListedIs DEF Childmap
  <2>4. QED
    BY <2>1, <2>2, <2>3, <1>1 DEF ChildrenHold, Topmost
<1>10. ASSUME Got("rows")'
       PROVE  RowsHold'
  <2>1. Maps'.rows = IF query = "rows" THEN LookupMap ELSE Maps.rows
    BY <1>4 DEF Answered, QueryNames
  <2>2. Maps'.keys = Maps.keys
    BY <1>3, <1>4, <1>10 DEF QueryNames
  <2>3. Unfolded(Maps.rows)' = Unfolded(Maps'.rows)
    BY DEF Unfolded, Closure, ChildRows, Topmost
  <2>4. LookupMap' = LookupMap
    BY <1>1, <1>3 DEF LookupMap, Listed, InText
  <2>5. CASE query = "rows"
    <3>1. Maps'.rows = LookupMap
      BY <2>1, <2>5
    <3>2. KeysHold
      BY <2>5, <1>2, <1>3 DEF MapsHold
    <3>3. QED
      BY <3>1, <3>2, <2>2, <2>3, <2>4, <1>1, <1>2, <1>3, <1>5, RowsRead
         DEF RowsHold, SameRow, Topmost
  <2>6. CASE query # "rows"
    <3>1. RowsHold /\ Maps'.rows = Maps.rows
      BY <2>1, <2>6, <1>2, <1>3, <1>10 DEF MapsHold
    <3>2. QED
      BY <3>1, <2>2, <2>3, <2>4, <1>1, <1>3, <1>5 DEF RowsHold, SameRow, Topmost
  <2>7. QED
    BY <2>5, <2>6
<1>11. ASSUME Got("told")'
       PROVE  ToldHolds'
  <2>1. Maps'.told = IF query = "told" THEN [r \in DOMAIN Maps.rows |-> TellRow(r)] ELSE Maps.told
    BY <1>4 DEF Answered, QueryNames, Maps
  <2>2. query # "rows" /\ Maps'.rows = Maps.rows
    BY <1>3, <1>4, <1>11 DEF QueryNames
  <2>3. \A r : TellRow(r)' = TellRow(r)
    BY <2>2, <1>1 DEF TellRow, AllBlank, Maps
  <2>4. CASE query = "told"
    <3>1. RowsHold /\ Maps'.told = [r \in DOMAIN Maps.rows |-> TellRow(r)]
      BY <2>1, <2>4, <1>2, <1>3 DEF MapsHold
    <3>2. \A r \in lasting.filled : r \in DOMAIN Maps.rows /\ TellRow(r) = "answers"
      BY <3>1, <1>2, ToldRead
    <3>3. QED
      BY <3>1, <3>2, <2>2, <2>3, <1>1 DEF ToldHolds
  <2>5. CASE query # "told"
    <3>1. ToldHolds /\ Maps'.told = Maps.told
      BY <2>1, <2>5, <1>2, <1>3, <1>11 DEF MapsHold
    <3>2. QED
      BY <3>1, <2>2, <2>3, <1>1, <1>3 DEF ToldHolds
  <2>6. QED
    BY <2>4, <2>5
<1>12. ASSUME Got("parents")'
       PROVE  ParentsHold'
  <2>1. CASE query = "parents"
    <3>1. RowsHold
      BY <2>1, <1>2, <1>3 DEF MapsHold
    <3>2. ~Gone => \A r \in DOMAIN Maps.rows :
                       Maps.rows[r].parent \in (DOMAIN answersets) \union {Topmost}
      BY <3>1, <1>2, ParentsRead
    <3>3. Maps'.parents = \A r \in DOMAIN Maps.rows :
                              Maps.rows[r].parent \in (DOMAIN answersets) \union {Topmost}
      BY <2>1, <1>4 DEF Answered, QueryNames, Maps
    <3>4. QED
      BY <3>2, <3>3, <1>5 DEF ParentsHold
  <2>2. CASE query # "parents"
    <3>1. ParentsHold /\ Maps'.parents = Maps.parents
      BY <2>2, <1>2, <1>3, <1>4, <1>12 DEF MapsHold, QueryNames
    <3>2. QED
      BY <3>1, <1>5 DEF ParentsHold
  <2>3. QED
    BY <2>1, <2>2
<1>13. MapsHold'
  BY <1>6, <1>7, <1>8, <1>9, <1>10, <1>11, <1>12 DEF MapsHold
<1>14. Tidy'
  BY <1>1, <1>2 DEF Tidy, IsTree, Levels, Fits, Gapless, RowsAt, Topmost
<1>15. LastingKnown'
  <2>1. Apparent(answersets, viewing.page)' = Apparent(answersets, viewing.page)
    <3>1. IsFiniteSet(DOMAIN answersets) /\ \A r \in DOMAIN answersets : answersets[r].section \in DOMAIN tree
      BY <1>2 DEF Tidy, Fits
    <3>2. QED
      BY <3>1, <1>1, <1>3, ApparentStays
  <2>2. QED
    BY <2>1, <1>1, <1>2 DEF LastingKnown, Topmost
<1>16. QED
  BY <1>3, <1>13, <1>14, <1>15 DEF SummaryInv, PageIsWhole

-----------------------------------------------------------------------------
(* The page is put together.                                               *)

(* When all lists are read.                                                *)
AllRead == BelowHolds /\ SectionsHold /\ KeysHold /\ ChildrenHold /\ RowsHold /\ ParentsHold

Shown == UNION {FoundAt(Maps, slot) : slot \in Entered(Maps)}

LEMMA EnteredIs ==
  ASSUME IsTree(tree), BelowHolds, RowsHold
  PROVE  /\ Entered(Maps) \subseteq (DOMAIN tree) \X ((DOMAIN Maps.rows) \union {Topmost})
         /\ Subsections(Topmost) \X {Topmost} \subseteq Entered(Maps)
         /\ \A slot \in Entered(Maps) : Calls(Maps, slot) \subseteq Entered(Maps)
         /\ \A slot \in Entered(Maps) :
              \/ slot \in Subsections(Topmost) \X {Topmost}
              \/ \E caller \in Entered(Maps) : slot \in Calls(Maps, caller)
         /\ \A T \in SUBSET ((DOMAIN tree) \X ((DOMAIN Maps.rows) \union {Topmost})) :
              /\ Subsections(Topmost) \X {Topmost} \subseteq T
              /\ \A slot \in T : Calls(Maps, slot) \subseteq T
              => Entered(Maps) \subseteq T
<1> DEFINE D == (DOMAIN tree) \X ((DOMAIN Maps.rows) \union {Topmost})
           next == [slot \in D |-> Calls(Maps, slot)]
           start == Subsections(Topmost) \X {Topmost}
<1>1. IsFiniteSet(D)
  <2>1. IsFiniteSet(DOMAIN tree) /\ IsFiniteSet((DOMAIN Maps.rows) \union {Topmost})
    BY FS_AddElement DEF IsTree, RowsHold
  <2>2. QED
    BY <2>1, FS_Product
<1>2. \A slot : Calls(Maps, slot) \subseteq D
  BY DEF Calls, FoundAt, BelowHolds, Subsections
<1>3. next \in [D -> SUBSET D] /\ start \in SUBSET D
  BY <1>2 DEF Subsections
<1>4. Entered(Maps) = Closure(D, next, start)
  BY DEF Entered
<1>5. \A slot \in D : next[slot] = Calls(Maps, slot)
  OBVIOUS
<1> HIDE DEF D, next, start
<1>6. /\ start \subseteq Closure(D, next, start)
      /\ Shut(D, next, Closure(D, next, start))
      /\ \A T : Shut(D, next, T) /\ start \subseteq T => Closure(D, next, start) \subseteq T
  BY <1>1, <1>3, ClosureIs
<1>7. \A x \in Closure(D, next, start) :
         x \in start \/ \E y \in Closure(D, next, start) : x \in next[y]
  BY <1>1, <1>3, ClosureBack
<1>8. Entered(Maps) \subseteq D
  BY <1>4, <1>6 DEF Shut
<1>9. \A slot \in Entered(Maps) : Calls(Maps, slot) \subseteq Entered(Maps)
  BY <1>4, <1>5, <1>6, <1>8 DEF Shut
<1>10. \A slot \in Entered(Maps) :
              slot \in start \/ \E caller \in Entered(Maps) : slot \in Calls(Maps, caller)
  BY <1>4, <1>5, <1>7, <1>8
<1>11. ASSUME NEW T \in SUBSET D, start \subseteq T, \A slot \in T : Calls(Maps, slot) \subseteq T
       PROVE  Entered(Maps) \subseteq T
  <2>1. Shut(D, next, T)
    BY <1>5, <1>11 DEF Shut
  <2>2. QED
    BY <2>1, <1>4, <1>6, <1>11
<1>12. QED
  BY <1>4, <1>6, <1>8, <1>9, <1>10, <1>11 DEF D, start

(* What was there all the time is shown: the page is called for its slot.  *)
LEMMA LastingShown ==
  ASSUME Tidy, LastingKnown, AllRead
  PROVE  lasting.rows \subseteq Shown
<1> DEFINE Slot(r) == <<answersets[r].section, answersets[r].parent>>
           G == {r \in DOMAIN answersets : r \in lasting.rows => Slot(r) \in Entered(Maps)}
<1>1. IsFiniteSet(DOMAIN answersets) /\ lasting.rows \subseteq Unfolded(answersets)
  BY ApparentIs DEF Tidy, Fits, LastingKnown
<1>2. \A r \in lasting.rows : r \in DOMAIN answersets /\ r \in FoundAt(Maps, Slot(r))
  BY KeysRead DEF AllRead, KeysHold, RowsHold, FoundAt, Keyed, RowsAt, SameRow
<1>3. ChildRows(answersets, Topmost) \subseteq G
  <2>1. \A r \in DOMAIN answersets :
           answersets[r].parent = Topmost => Slot(r) \in Subsections(Topmost) \X {Topmost}
    BY RowIsFit DEF Tidy, Subsections
  <2>2. QED
    BY <2>1, EnteredIs DEF ChildRows, Tidy, AllRead
<1>4. ASSUME NEW r \in G, NEW c \in ChildRows(answersets, r), c \in lasting.rows
      PROVE  Slot(c) \in Entered(Maps)
  <2>1. /\ c \in DOMAIN answersets /\ answersets[c].parent = r
        /\ r \in DOMAIN answersets /\ r # Topmost
    BY RowIsFit DEF ChildRows, Tidy
  <2>2. r \in lasting.rows /\ Slot(r) \in Entered(Maps)
    BY <1>4, <2>1 DEF LastingKnown
  <2>3. /\ answersets[r].section \in Maps.sections
        /\ answersets[r].section \in DOMAIN Maps.below
        /\ answersets[c].section \in Maps.below[answersets[r].section]
    BY <1>4, <2>1, <2>2 DEF AllRead, SectionsHold, BelowHolds
  <2>4. r \in Maps.children /\ ~Maps.rows[r].skipped
    BY <1>4, <2>1 DEF AllRead, ChildrenHold, RowsHold
  <2>5. <<answersets[c].section, r>> \in Calls(Maps, Slot(r))
    BY <1>2, <2>2, <2>3, <2>4 DEF Calls, Opens
  <2>6. QED
    BY <2>1, <2>2, <2>5, EnteredIs DEF Tidy, AllRead
<1>5. \A r \in G : ~answersets[r].skipped => ChildRows(answersets, r) \subseteq G
  BY <1>4 DEF ChildRows
<1>6. G \in SUBSET DOMAIN answersets
  OBVIOUS
<1> HIDE DEF G
<1>7. Unfolded(answersets) \subseteq G
  BY <1>1, <1>3, <1>5, <1>6, UnfoldedIs
<1>8. QED
  BY <1>1, <1>2, <1>7 DEF G, Shown

(* What is shown is unfolded in the map of rows.                           *)
LEMMA ShownKnown ==
  ASSUME Tidy, AllRead
  PROVE  Shown \subseteq Unfolded(Maps.rows)
<1> DEFINE D == (DOMAIN tree) \X ((DOMAIN Maps.rows) \union {Topmost})
           Opened(r) == r = Topmost \/ (r \in Unfolded(Maps.rows) /\ ~Maps.rows[r].skipped)
           T == {slot \in D : Opened(slot[2])}
<1>1. IsFiniteSet(DOMAIN Maps.rows)
  BY DEF AllRead, RowsHold
<1>2. ASSUME NEW slot, Opened(slot[2]), NEW r \in FoundAt(Maps, slot)
      PROVE  r \in Unfolded(Maps.rows)
  <2>1. r \in DOMAIN Maps.rows /\ r \in DOMAIN Maps.keys /\ Maps.keys[r].parent = slot[2]
    BY DEF FoundAt, Keyed, RowsAt
  <2>2. Maps.rows[r].parent = slot[2]
    BY <2>1 DEF AllRead, RowsHold, SameRow
  <2>3. r \in ChildRows(Maps.rows, slot[2])
    BY <2>1, <2>2 DEF ChildRows
  <2>4. QED
    BY <1>1, <1>2, <2>3, UnfoldedIs
<1>3. Subsections(Topmost) \X {Topmost} \subseteq T
  BY DEF Subsections
<1>4. ASSUME NEW slot \in T
      PROVE  Calls(Maps, slot) \subseteq T
  <2>1. \A r \in FoundAt(Maps, slot) :
           r \in DOMAIN Maps.rows /\ (Opens(Maps, r) => Opened(r))
    BY <1>2 DEF Opens, FoundAt
  <2>2. slot[1] \in DOMAIN Maps.below => Maps.below[slot[1]] \subseteq DOMAIN tree
    BY DEF AllRead, BelowHolds, Subsections
  <2> HIDE DEF Opened
  <2>3. QED
    BY <2>1, <2>2 DEF Calls
<1>5. T \in SUBSET D
  OBVIOUS
<1> HIDE DEF T
<1>6. Entered(Maps) \subseteq T
  BY <1>3, <1>4, <1>5, EnteredIs DEF Tidy, AllRead
<1>7. QED
  BY <1>2, <1>6 DEF T, Shown

(* Why a page is not shown.                                                *)
LEMMA StumblesIs ==
  ASSUME Tidy, AllRead, Stumbles(viewing.page, Maps)
  PROVE  \/ viewing.disturbed \intersect {"section", "row gone"} # {}
         \/ viewing.page = "summary" /\ gaps
<1> SUFFICES ASSUME "section" \notin viewing.disturbed, ~Gone,
                    viewing.page = "summary" => ~gaps
             PROVE  FALSE
  BY DEF Gone
<1>1. /\ Maps.parents /\ Maps.sections = DOMAIN tree
      /\ IsTree(tree) /\ BelowHolds /\ RowsHold /\ KeysHold
  BY DEF AllRead, SectionsHold, ParentsHold, Tidy
<1>2. \A slot \in Entered(Maps) : slot[1] \in DOMAIN tree
  BY <1>1, EnteredIs
<1>3. viewing.page = "summary" /\ SummaryStumbles(Maps)
  BY <1>1, <1>2 DEF Stumbles
<1>4. \A r \in DOMAIN Maps.rows : Maps.rows[r].section \in Maps.sections
  BY <1>1 DEF RowsHold
<1>5. DOMAIN Maps.keys \subseteq DOMAIN Maps.rows
  BY <1>1, <1>3 DEF RowsHold
<1>6. PICK slot \in Entered(Maps) :
         Keyed(Maps, slot) = {} \/ ~(Keyed(Maps, slot) \subseteq DOMAIN Maps.rows)
  BY <1>3, <1>4 DEF SummaryStumbles
<1>7. Keyed(Maps, slot) = {}
  BY <1>5, <1>6 DEF Keyed, RowsAt
<1>8. Gapless(tree, Maps.keys)
  BY <1>1, <1>3 DEF KeysHold
<1>9. CASE slot \in Subsections(Topmost) \X {Topmost}
  <2>1. slot[1] \in DOMAIN tree /\ tree[slot[1]].super = Topmost /\ slot[2] = Topmost
    BY <1>9 DEF Subsections
  <2>2. QED
    BY <2>1, <1>7, <1>8 DEF Gapless, Keyed
<1>10. CASE \E caller \in Entered(Maps) : slot \in Calls(Maps, caller)
  <2>1. PICK caller \in Entered(Maps) : slot \in Calls(Maps, caller)
    BY <1>10
  <2>2. /\ caller[1] \in DOMAIN Maps.below /\ slot[1] \in Maps.below[caller[1]]
        /\ slot[2] \in FoundAt(Maps, caller)
    BY <2>1 DEF Calls
  <2>3. slot[1] \in DOMAIN tree /\ tree[slot[1]].super = caller[1] /\ caller[1] # Topmost
    BY <2>2, <1>1, <1>2, TreeIs DEF BelowHolds, Subsections
  <2>4. slot[2] \in DOMAIN Maps.keys /\ Maps.keys[slot[2]].section = caller[1]
    BY <2>2 DEF FoundAt, Keyed, RowsAt
  <2>5. QED
    BY <2>3, <2>4, <1>7, <1>8 DEF Gapless, Keyed
<1>11. QED
  BY <1>1, <1>9, <1>10, EnteredIs

(* What the text tells.                                                    *)
LEMMA ToldIs ==
  ASSUME AllRead, ToldHolds, viewing.page = "text", viewing.disturbed = {},
         NEW r \in DOMAIN Maps.rows, NEW told, told = Maps.told[r], answersets[r].skipped
  PROVE  (told = "stand-in") = AllBlank(answersets[r].section)
<1>1. Maps.rows = LookupMap /\ told = TellRow(r)
  BY DEF AllRead, RowsHold, ToldHolds
<1>2. Maps.rows[r] = answersets[r] /\ tree[answersets[r].section].standIn
  BY <1>1 DEF LookupMap, Listed, InText
<1>3. CASE AllBlank(answersets[r].section)
  BY <1>1, <1>2, <1>3 DEF TellRow, Maps, AllBlank
<1>4. CASE ~AllBlank(answersets[r].section)
  <2>1. told # "stand-in"
    BY <1>1, <1>2, <1>4 DEF TellRow, Maps
  <2>2. AllBlank(answersets[r].section) \in BOOLEAN
    BY DEF AllBlank
  <2>3. QED
    BY <2>1, <2>2, <1>4
<1>5. QED
  BY <1>3, <1>4

LEMMA PutTogetherKeeps ==
  ASSUME SummaryInv, PutTogether
  PROVE  SummaryInv'
<1> DEFINE result == IF Stumbles(viewing.page, Maps) THEN [NotShown EXCEPT !.outcome = "failed"]
                     ELSE [outcome |-> "shown", rows |-> Shown,
                           told |-> IF viewing.page = "text"
                                    THEN [r \in Shown |-> Maps.told[r]] ELSE {}]
<1>1. /\ tree' = tree /\ answersets' = answersets /\ numbered' = numbered /\ gaps' = gaps
      /\ lasting' = lasting /\ ever' = ever
      /\ Viewing /\ viewing.next > Len(Queries(viewing.page))
      /\ viewing' = [viewing EXCEPT !.next = 0, !.taken = NothingTaken, !.shown = result]
  BY DEF PutTogether, Shown, Maps
<1>2. Tidy /\ ViewTyped /\ LastingKnown /\ MapsHold
  BY <1>1 DEF SummaryInv
<1>3. viewing' = [page |-> viewing.page, next |-> 0, disturbed |-> viewing.disturbed,
                  taken |-> NothingTaken, shown |-> result, count |-> viewing.count]
  <2> HIDE DEF result
  <2>1. QED
    BY <1>1, <1>2 DEF ViewTyped
<1> HIDE DEF result
<1>4. /\ viewing'.page = viewing.page /\ viewing'.next = 0 /\ viewing'.taken = NothingTaken
      /\ viewing'.disturbed = viewing.disturbed /\ viewing'.shown = result
  BY <1>3
<1>5. viewing.page \in {"summary", "text"} /\ viewing.next \in Nat
  BY <1>1, <1>2 DEF ViewTyped, Viewing
<1>6. AllRead /\ (viewing.page = "text" => ToldHolds)
  <2>1. CASE viewing.page = "summary"
    <3>1. Len(Queries(viewing.page)) = 6
      BY <2>1 DEF Queries, SummaryQueries
    <3>2. QED
      BY <3>1, <2>1, <1>1, <1>2, <1>5, GotIs DEF MapsHold, AllRead
  <2>2. CASE viewing.page = "text"
    <3>1. Len(Queries(viewing.page)) = 7
      BY <2>2 DEF Queries, TextQueries
    <3>2. QED
      BY <3>1, <2>2, <1>1, <1>2, <1>5, GotIs DEF MapsHold, AllRead
  <2>3. QED
    BY <2>1, <2>2, <1>5
<1>7. Tidy'
  BY <1>1, <1>2 DEF Tidy, IsTree, Levels, Fits, Gapless, RowsAt, Topmost
<1>8. ViewTyped' /\ ~Viewing'
  BY <1>3, <1>4, <1>5 DEF ViewTyped, Viewing, NothingTaken
<1>9. PageIsWhole'
  <2>1. CASE Stumbles(viewing.page, Maps)
    <3>1. result.outcome = "failed"
      BY <2>1 DEF result, NotShown
    <3>2. \/ viewing.disturbed \intersect {"section", "row gone"} # {}
          \/ viewing.page = "summary" /\ gaps
      BY <2>1, <1>2, <1>6, StumblesIs
    <3>3. QED
      BY <3>1, <3>2, <1>1, <1>4 DEF PageIsWhole
  <2>2. CASE ~Stumbles(viewing.page, Maps)
    <3>1. /\ result.outcome = "shown" /\ result.rows = Shown
          /\ viewing.page = "text" => \A r \in Shown : result.told[r] = Maps.told[r]
      BY <2>2 DEF result
    <3>2. lasting.rows \subseteq Shown
      BY <1>2, <1>6, LastingShown
    <3>3. Shown \subseteq Unfolded(Maps.rows) /\ Shown \subseteq ever /\ Shown \subseteq DOMAIN Maps.rows
      <4>1. IsFiniteSet(DOMAIN Maps.rows) /\ Unfolded(Maps.rows) \subseteq ever
        BY <1>6 DEF AllRead, RowsHold
      <4>2. QED
        BY <4>1, <1>2, <1>6, ShownKnown, UnfoldedIs
    <3>4. ASSUME viewing.page = "text"
          PROVE  \A r \in lasting.filled : result.told[r] = "answers"
      BY <3>1, <3>2, <3>4, <1>2, <1>6 DEF LastingKnown, ToldHolds
    <3>5. ASSUME viewing.page = "text", viewing.disturbed = {},
                 NEW r \in Shown \intersect DOMAIN answersets, answersets[r].skipped
          PROVE  (result.told[r] = "stand-in") = AllBlank(answersets[r].section)
      BY <3>1, <3>3, <3>5, <1>6, ToldIs
    <3>6. \A r : AllBlank(answersets[r].section)' = AllBlank(answersets[r].section)
      BY <1>1 DEF AllBlank
    <3>7. ASSUME viewing'.page = "text"
          PROVE  /\ \A r \in lasting'.filled : viewing'.shown.told[r] = "answers"
                 /\ viewing'.disturbed = {} =>
                      \A r \in viewing'.shown.rows \intersect DOMAIN answersets' :
                        answersets'[r].skipped =>
                          (viewing'.shown.told[r] = "stand-in") = AllBlank(answersets[r].section)'
      BY <3>1, <3>4, <3>5, <3>6, <3>7, <1>1, <1>4
    <3>8. QED
      BY <3>1, <3>2, <3>3, <3>7, <1>1, <1>4 DEF PageIsWhole
  <2>3. QED
    BY <2>1, <2>2
<1>10. QED
  BY <1>7, <1>8, <1>9 DEF SummaryInv

LEMMA SummaryBegins ==
  ASSUME SummaryInit
  PROVE  SummaryInv
<1>1. IsTree(tree) /\ Fits(tree, answersets) /\ Gapless(tree, answersets)
  BY WrittenPlansAssumption DEF SummaryInit
<1>2. numbered \in Nat /\ \A r \in DOMAIN answersets : r <= numbered
  <2>1. IsFiniteSet(DOMAIN answersets) /\ DOMAIN answersets \subseteq Nat
    BY <1>1 DEF Fits
  <2>2. QED
    BY <2>1, LastKeyIs DEF SummaryInit
<1>3. ViewTyped /\ ~Viewing /\ viewing.page = "none"
  BY DEF SummaryInit, ViewTyped, NotViewing, Viewing, NothingTaken, QueryNames
<1>4. QED
  BY <1>1, <1>2, <1>3 DEF SummaryInv, Tidy, PageIsWhole

LEMMA SummarySteps ==
  ASSUME SummaryInv, [SummaryNext]_summaryVars
  PROVE  SummaryInv'
<1>1. CASE ViewSummary \/ ViewText
  BY <1>1, ViewsKeep
<1>2. CASE RunQuery
  BY <1>2, QueryKeeps
<1>3. CASE PutTogether
  BY <1>3, PutTogetherKeeps
<1>4. CASE \/ \E super \in (DOMAIN tree) \union {Topmost} : AddSubsection(super)
           \/ \E r \in DOMAIN answersets : AddRow(r) \/ RemoveRow(r) \/ AnswerRow(r)
  BY <1>4, OthersKeep
<1>5. CASE UNCHANGED summaryVars
  <2>1. /\ tree' = tree /\ answersets' = answersets /\ numbered' = numbered /\ gaps' = gaps
        /\ lasting' = lasting /\ ever' = ever /\ viewing' = viewing
    BY <1>5 DEF summaryVars
  <2>2. Tidy'
    BY <2>1 DEF SummaryInv, Tidy, IsTree, Levels, Fits, Gapless, RowsAt, Topmost
  <2>3. ViewTyped'
    BY <2>1 DEF SummaryInv, ViewTyped, Viewing, Queries, SummaryQueries, TextQueries
  <2>4. Viewing' = Viewing /\ \A query : Got(query)' = Got(query)
    BY <2>1 DEF Viewing, Got, Queries, SummaryQueries, TextQueries
  <2>5. PageIsWhole'
    BY <2>1 DEF SummaryInv, PageIsWhole, AllBlank
  <2>6. ASSUME Viewing
        PROVE  LastingKnown' /\ MapsHold'
    <3>1. Tidy /\ LastingKnown /\ MapsHold
      BY <2>6 DEF SummaryInv
    <3>2. IsFiniteSet(DOMAIN answersets) /\ \A r \in DOMAIN answersets : answersets[r].section \in DOMAIN tree
      BY <3>1 DEF Tidy, Fits
    <3>3. Apparent(answersets, viewing.page)' = Apparent(answersets, viewing.page)
      BY <2>1, <3>2, ApparentStays
    <3>4. LastingKnown'
      BY <2>1, <3>1, <3>3 DEF LastingKnown, Topmost
    <3>5. Maps' = Maps /\ Gone' = Gone
      BY <2>1 DEF Maps, Gone
    <3>6. BelowHolds' = BelowHolds /\ SectionsHold' = SectionsHold /\ ChildrenHold' = ChildrenHold
      BY <2>1, <3>5 DEF BelowHolds, SectionsHold, ChildrenHold, Subsections, Topmost
    <3>7. KeysHold' = KeysHold
      BY <2>1, <3>5 DEF KeysHold, SameRow, Gapless, RowsAt, Topmost
    <3>8. RowsHold' = RowsHold
      <4>1. Unfolded(Maps.rows)' = Unfolded(Maps.rows) /\ LookupMap' = LookupMap
        BY <2>1, <3>5 DEF Unfolded, Closure, ChildRows, Topmost, LookupMap, Listed, InText
      <4>2. QED
        BY <4>1, <2>1, <3>5 DEF RowsHold, SameRow, Topmost
    <3>9. ToldHolds' = ToldHolds /\ ParentsHold' = ParentsHold
      <4>1. \A r : TellRow(r)' = TellRow(r)
        BY <2>1 DEF TellRow, AllBlank
      <4>2. QED
        BY <4>1, <2>1, <3>5 DEF ToldHolds, ParentsHold
    <3>10. /\ Got("below")' = Got("below") /\ Got("sections")' = Got("sections")
           /\ Got("keys")' = Got("keys") /\ Got("children")' = Got("children")
           /\ Got("rows")' = Got("rows") /\ Got("told")' = Got("told")
           /\ Got("parents")' = Got("parents")
      BY <2>4
    <3>11. MapsHold'
      BY <3>1, <3>6, <3>7, <3>8, <3>9, <3>10 DEF MapsHold
    <3>12. QED
      BY <3>4, <3>11
  <2>7. QED
    BY <2>2, <2>3, <2>4, <2>5, <2>6 DEF SummaryInv
<1>6. QED
  BY <1>1, <1>2, <1>3, <1>4, <1>5 DEF SummaryNext

(* A page that shows a whole plan is whole, whatever other requests do     *)
(* between its lists.                                                      *)
THEOREM PagesAreWhole == SummarySpec => []PageIsWhole
<1>1. SummaryInit => SummaryInv
  BY SummaryBegins
<1>2. SummaryInv /\ [SummaryNext]_summaryVars => SummaryInv'
  BY SummarySteps
<1>3. SummaryInv => PageIsWhole
  BY DEF SummaryInv
<1>4. QED
  BY <1>1, <1>2, <1>3, PTL DEF SummarySpec

=============================================================================
