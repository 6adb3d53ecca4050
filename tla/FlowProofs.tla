----------------------------- MODULE FlowProofs -----------------------------
(***************************************************************************)
(* What is proved of Flow for every template: whatever the number of       *)
(* questions, their kinds, the conditions and the branches.                *)
(*                                                                         *)
(* The recursive definitions are each given a closed form first: what the  *)
(* form shows is the least set with question 1 that its steps do not leave *)
(* (ShownIsLeast), a path of a map is a trail of its rows (PathsAre), and  *)
(* the answered questions are the longest answered trail of the steps      *)
(* (CompletePathIs).  That validation, hiding and the way back agree with  *)
(* the form (AnsweredIsValid, HidingKeepsWay, PrevLeadsBack) is argued     *)
(* about these forms; then come the invariants TemplateOK, TypeOK, WayInv  *)
(* and MarkInv, and the theorems.                                          *)
(***************************************************************************)
EXTENDS Flow, FiniteSetTheorems, SequenceTheorems, TLAPS

\* The rows of a template are branches of its questions, and stay so.
RowsOfTheSection == branch \subseteq Branches

LEMMA InitRows == Init => RowsOfTheSection
<1> SUFFICES ASSUME Init PROVE branch \subseteq Branches
  BY DEF RowsOfTheSection
<1>1. CASE zero
  <2>1. PICK c \in Conditions : branch = {[from |-> 1, on |-> c, to |-> End]}
    BY <1>1 DEF Init, OptionalBranches
  <2>2. 1 \in Questions
    BY FlowAssumption DEF Questions
  <2>3. [from |-> 1, on |-> c, to |-> End] \in Branches
    BY <2>2 DEF Branches
  <2> QED BY <2>1, <2>3
<1>2. CASE ~zero
  <2>1. branch \in DesignedBranches
    BY <1>2 DEF Init
  <2>2. PICK n \in 0 .. MaxBranches :
          branch \in {rows \in kSubset(n, {b \in Branches : WellDesigned({b})}) :
                      WellDesigned(rows)}
    BY <2>1 DEF DesignedBranches
  <2>3. branch \in kSubset(n, {b \in Branches : WellDesigned({b})})
    BY <2>2
  <2> QED BY <2>3 DEF kSubset
<1> QED BY <1>1, <1>2

LEMMA NextRows == RowsOfTheSection /\ [Next]_vars => RowsOfTheSection'
<1> SUFFICES ASSUME RowsOfTheSection, [Next]_vars PROVE branch' = branch
  BY DEF RowsOfTheSection, Branches, Questions
<1>1. CASE UNCHANGED vars
  BY <1>1 DEF vars
<1>2. CASE Leave
  BY <1>2 DEF Leave, template
<1>3. ASSUME NEW q \in Questions, Open(q) PROVE branch' = branch
  BY <1>3 DEF Open, template
<1>4. ASSUME NEW q \in Questions, PostInvalid(q) PROVE branch' = branch
  BY <1>4 DEF PostInvalid, template
<1>5. ASSUME NEW q \in Questions, NEW c \in Answers(q), PostAndNext(q, c) PROVE branch' = branch
  BY <1>5 DEF PostAndNext, template
<1>6. ASSUME NEW q \in Questions, NEW c \in Answers(q), PostAndPrev(q, c) PROVE branch' = branch
  BY <1>6 DEF PostAndPrev, template
<1> QED BY <1>1, <1>2, <1>3, <1>4, <1>5, <1>6 DEF Next

-----------------------------------------------------------------------------
(***************************************************************************)
(* A template: where its rows lead.                                        *)
(***************************************************************************)
Forwards(t) == t.to # End => t.to \in Questions /\ t.to > t.from

\* No row leads over a question on the trunk.
StopsAtTrunk(t) == \A r \in trunk : r > t.from => t.to # End /\ t.to <= r

TemplateOK ==
  /\ RowsOfTheSection
  /\ 1 \in trunk /\ trunk \subseteq Questions
  /\ \A b \in branch : Forwards(b)
  /\ \A b, c \in branch : b.from = c.from /\ b.on = c.on => b = c
  /\ ~zero => \A b \in branch : StopsAtTrunk(b)
  /\ zero => trunk = Questions /\ \A b \in branch : b.from = 1 /\ b.to = End

LEMMA OneIsQuestion == 1 \in Questions /\ Questions \subseteq Nat /\ NQuestions \in Questions
BY FlowAssumption DEF Questions

LEMMA InitTemplate == Init => TemplateOK
<1> SUFFICES ASSUME Init PROVE TemplateOK
  OBVIOUS
<1>1. RowsOfTheSection
  BY InitRows
<1>2. 1 \in trunk /\ trunk \subseteq Questions
  BY DEF Init
<1>3. CASE zero
  <2>1. PICK c \in Conditions : branch = {[from |-> 1, on |-> c, to |-> End]}
    BY <1>3 DEF Init, OptionalBranches
  <2>2. trunk = Questions
    BY <1>3 DEF Init
  <2> QED BY <1>1, <1>2, <1>3, <2>1, <2>2 DEF TemplateOK, Forwards
<1>4. CASE ~zero
  <2>1. branch \in DesignedBranches
    BY <1>4 DEF Init
  <2>2. WellDesigned(branch)
    BY <2>1 DEF DesignedBranches
  <2>3. \A b \in branch : b.from \in Questions /\ (b.to \in Questions \/ b.to = End)
    BY <1>1 DEF RowsOfTheSection, Branches
  <2>4. \A b \in branch : Forwards(b)
    BY <2>2, <2>3 DEF WellDesigned, Forwards
  <2>5. \A b \in branch : StopsAtTrunk(b)
    BY <1>2, <2>2 DEF WellDesigned, StopsAtTrunk, Following
  <2>6. \A b, c \in branch : b.from = c.from /\ b.on = c.on => b = c
    BY <2>2 DEF WellDesigned
  <2> QED BY <1>1, <1>2, <1>4, <2>4, <2>5, <2>6 DEF TemplateOK
<1> QED BY <1>3, <1>4

LEMMA TemplateStays == [Next]_vars => UNCHANGED template
<1> SUFFICES ASSUME [Next]_vars PROVE UNCHANGED template
  OBVIOUS
<1>1. CASE UNCHANGED vars
  BY <1>1 DEF vars, template
<1>2. CASE Leave
  BY <1>2 DEF Leave
<1>3. ASSUME NEW q \in Questions, Open(q) PROVE UNCHANGED template
  BY <1>3 DEF Open
<1>4. ASSUME NEW q \in Questions, PostInvalid(q) PROVE UNCHANGED template
  BY <1>4 DEF PostInvalid
<1>5. ASSUME NEW q \in Questions, NEW c \in Answers(q), PostAndNext(q, c) PROVE UNCHANGED template
  BY <1>5 DEF PostAndNext
<1>6. ASSUME NEW q \in Questions, NEW c \in Answers(q), PostAndPrev(q, c) PROVE UNCHANGED template
  BY <1>6 DEF PostAndPrev
<1> QED BY <1>1, <1>2, <1>3, <1>4, <1>5, <1>6 DEF Next

LEMMA NextTemplate == TemplateOK /\ UNCHANGED template => TemplateOK'
BY DEF TemplateOK, template, RowsOfTheSection, Branches, Questions, Forwards, StopsAtTrunk

-----------------------------------------------------------------------------
(***************************************************************************)
(* One step forwards.                                                      *)
(***************************************************************************)
LEMMA StepByPosition ==
  ASSUME NEW q \in Questions
  PROVE  /\ ByPosition(q).from = q /\ ByPosition(q).on = Any
         /\ ByPosition(q).to = IF q = NQuestions THEN End ELSE q + 1
<1>1. ByPosition(q).from = q /\ ByPosition(q).on = Any
  BY DEF ByPosition
<1>2. CASE q = NQuestions
  <2>1. Following(q) = {}
    BY <1>2, FlowAssumption DEF Following, Questions
  <2> QED BY <1>1, <1>2, <2>1 DEF ByPosition
<1>3. CASE q # NQuestions
  <2>1. q + 1 \in Following(q) /\ \A r \in Following(q) : q + 1 <= r /\ r \in Nat
    BY <1>3, FlowAssumption DEF Following, Questions
  <2>2. Lowest(Following(q)) = q + 1
    <3>1. \A x \in Following(q) : (\A y \in Following(q) : x <= y) => x = q + 1
      BY <2>1
    <3> QED BY <2>1, <3>1 DEF Lowest
  <2>3. Following(q) # {}
    BY <2>1
  <2> QED BY <1>1, <1>3, <2>2, <2>3 DEF ByPosition
<1> QED BY <1>2, <1>3

\* Where the rows of a question may lead.
Onwards(q, r) ==
  /\ r # End => r \in Questions /\ r > q
  /\ ~zero => \A s \in trunk : s > q => r # End /\ r <= s
  /\ zero /\ r # End => r = q + 1

LEMMA RowsOnwards ==
  ASSUME TemplateOK, NEW q \in Questions, NEW t \in QuestionMap(q)
  PROVE  t.from = q /\ Onwards(q, t.to)
<1>1. CASE t \in branch /\ t.from = q
  BY <1>1 DEF TemplateOK, Forwards, StopsAtTrunk, Onwards
<1>2. CASE t = ByPosition(q)
  <2>1. t.from = q /\ t.to = IF q = NQuestions THEN End ELSE q + 1
    BY <1>2, StepByPosition
  <2>2. trunk \subseteq Questions
    BY DEF TemplateOK
  <2> QED BY <2>1, <2>2, FlowAssumption DEF Onwards, Questions, End
<1> QED BY <1>1, <1>2 DEF QuestionMap

\* The row a question follows, for an answer or for any.
LEMMA RowFollowed ==
  ASSUME TemplateOK, NEW q \in Questions, NEW a
  PROVE  \E t \in QuestionMap(q) : 
            /\ t.to = NextQuestion(a, q)
            /\ \/ t.on = Condition(a, q)
               \/ t.on = Any
<1> DEFINE rows == Select(QuestionMap(q), q, Condition(a, q))
<1>1. \E t \in QuestionMap(q) : t.from = q /\ t.on = Any
  <2>1. CASE \E b \in branch : b.from = q /\ b.on = Any
    BY <2>1 DEF QuestionMap
  <2>2. CASE ~\E b \in branch : b.from = q /\ b.on = Any
    <3>1. ByPosition(q).from = q /\ ByPosition(q).on = Any
      BY StepByPosition
    <3> QED BY <2>2, <3>1 DEF QuestionMap
  <2> QED BY <2>1, <2>2
<1>2. rows # {} /\ \A t \in rows : t \in QuestionMap(q) /\ (t.on = Condition(a, q) \/ t.on = Any)
  BY <1>1 DEF Select, Selected
<1>3. NextQuestion(a, q) = (CHOOSE t \in rows : TRUE).to
  BY DEF NextQuestion
<1> HIDE DEF rows
<1>4. (CHOOSE t \in rows : TRUE) \in rows
  BY <1>2
<1> QED BY <1>2, <1>3, <1>4

LEMMA NextOnwards ==
  ASSUME TemplateOK, NEW q \in Questions, NEW a
  PROVE  Onwards(q, NextQuestion(a, q))
BY RowFollowed, RowsOnwards

\* Only the answer to the question itself counts.
LEMMA NextSame ==
  ASSUME NEW a, NEW b, NEW q, a[q] = b[q]
  PROVE  NextQuestion(a, q) = NextQuestion(b, q)
<1>1. Condition(a, q) = Condition(b, q)
  BY DEF Condition
<1> QED BY <1>1 DEF NextQuestion

LEMMA NextPlain ==
  ASSUME NEW a, NEW b, NEW q, ~BranchingPossible(q)
  PROVE  NextQuestion(a, q) = NextQuestion(b, q)
<1>1. Condition(a, q) = Condition(b, q)
  BY DEF Condition
<1> QED BY <1>1 DEF NextQuestion

LEMMA NextWithoutBranch ==
  ASSUME TemplateOK, NEW a, NEW q \in Questions, \A b \in branch : b.from # q
  PROVE  NextQuestion(a, q) = ByPosition(q).to
<1>1. QuestionMap(q) = {ByPosition(q)}
  BY DEF QuestionMap
<1> QED BY <1>1, RowFollowed

-----------------------------------------------------------------------------
(***************************************************************************)
(* Numbers of questions: the least and the greatest of a set.              *)
(***************************************************************************)
LEMMA LeastNumber ==
  ASSUME NEW T, T \subseteq Nat, T # {}
  PROVE  \E x \in T : \A y \in T : x <= y
<1> DEFINE L == {ss \in Nat \X Nat : ss[1] < ss[2]}
<1>1. IsWellFoundedOn(L, Nat)
  BY NatLessThanWellFounded DEF OpToRel
<1> HIDE DEF L
<1>2. PICK x \in T : \A y \in T : ~(<<y, x>> \in L)
  BY <1>1, WFMin
<1>3. \A y \in T : ~(y < x)
  BY <1>2 DEF L
<1> QED BY <1>3

LEMMA HighestIn ==
  ASSUME NEW S, S \subseteq Questions, S # {}
  PROVE  Highest(S) \in S /\ \A y \in S : y <= Highest(S)
<1> DEFINE T == {NQuestions - y : y \in S}
<1>1. T \subseteq Nat /\ T # {}
  <2>1. \A y \in S : NQuestions - y \in Nat
    BY FlowAssumption DEF Questions
  <2> QED BY <2>1
<1>2. PICK x \in T : \A y \in T : x <= y
  <2> HIDE DEF T
  <2> QED BY <1>1, LeastNumber
<1>3. PICK h \in S : x = NQuestions - h
  OBVIOUS
<1>4. \A y \in S : y <= h
  <2> SUFFICES ASSUME NEW y \in S PROVE y <= h
    OBVIOUS
  <2>1. x <= NQuestions - y
    BY <1>2
  <2> QED BY <1>3, <2>1, FlowAssumption DEF Questions
<1> HIDE DEF T
<1>5. \E m \in S : \A y \in S : m >= y
  BY <1>4, FlowAssumption DEF Questions
<1>6. Highest(S) \in S /\ \A y \in S : Highest(S) >= y
  BY <1>5 DEF Highest
<1> QED BY <1>6, FlowAssumption DEF Questions

LEMMA LowestIn ==
  ASSUME NEW S, S \subseteq Questions, S # {}
  PROVE  Lowest(S) \in S /\ \A y \in S : Lowest(S) <= y
<1>1. S \subseteq Nat
  BY OneIsQuestion
<1>2. \E m \in S : \A y \in S : m <= y
  BY <1>1, LeastNumber
<1> QED BY <1>2 DEF Lowest

-----------------------------------------------------------------------------
(***************************************************************************)
(* What a walk forwards reaches: the least set that contains its beginning *)
(* and, with a question, the one it leads to.                              *)
(***************************************************************************)
Moves == [Questions -> Questions \cup {End}]
Ahead(nx) == \A q \in Questions : nx[q] # End => nx[q] > q
Closed(nx, C) == \A x \in C : nx[x] = End \/ nx[x] \in C
Reach(nx, q) ==
  IF q = End THEN {}
  ELSE {r \in Questions : \A C \in SUBSET Questions : q \in C /\ Closed(nx, C) => r \in C}

LEMMA EndIsNoQuestion == End \notin Questions
BY DEF End, Questions

LEMMA ReachIsLeast ==
  ASSUME NEW nx \in Moves, NEW q \in Questions
  PROVE  /\ q \in Reach(nx, q)
         /\ Reach(nx, q) \subseteq Questions
         /\ Closed(nx, Reach(nx, q))
         /\ \A C \in SUBSET Questions : q \in C /\ Closed(nx, C) => Reach(nx, q) \subseteq C
<1>1. Reach(nx, q) = {r \in Questions : \A C \in SUBSET Questions : q \in C /\ Closed(nx, C) => r \in C}
  BY EndIsNoQuestion DEF Reach
<1>2. Closed(nx, Reach(nx, q))
  <2> SUFFICES ASSUME NEW x \in Reach(nx, q), nx[x] # End PROVE nx[x] \in Reach(nx, q)
    BY DEF Closed
  <2>1. nx[x] \in Questions
    BY <1>1 DEF Moves
  <2>2. ASSUME NEW C \in SUBSET Questions, q \in C, Closed(nx, C) PROVE nx[x] \in C
    <3>1. x \in C
      BY <1>1, <2>2
    <3> QED BY <2>2, <3>1 DEF Closed
  <2> QED BY <1>1, <2>1, <2>2
<1> QED BY <1>1, <1>2

LEMMA ReachStep ==
  ASSUME NEW nx \in Moves, NEW q \in Questions
  PROVE  Reach(nx, q) = {q} \cup Reach(nx, nx[q])
<1>1. nx[q] \in Questions \cup {End}
  BY DEF Moves
<1>2. q \in Reach(nx, q) /\ Reach(nx, q) \subseteq Questions /\ Closed(nx, Reach(nx, q))
  BY ReachIsLeast
<1>3. CASE nx[q] = End
  <2>1. Closed(nx, {q})
    BY <1>3 DEF Closed
  <2>2. Reach(nx, q) \subseteq {q}
    BY <2>1, ReachIsLeast
  <2>3. Reach(nx, nx[q]) = {}
    BY <1>3 DEF Reach
  <2> QED BY <1>2, <2>2, <2>3
<1>4. CASE nx[q] # End
  <2>1. nx[q] \in Questions
    BY <1>1, <1>4
  <2>2. /\ nx[q] \in Reach(nx, nx[q])
        /\ Reach(nx, nx[q]) \subseteq Questions
        /\ Closed(nx, Reach(nx, nx[q]))
    BY <2>1, ReachIsLeast
  <2>3. Closed(nx, {q} \cup Reach(nx, nx[q]))
    BY <2>2 DEF Closed
  <2>4. Reach(nx, q) \subseteq {q} \cup Reach(nx, nx[q])
    <3>1. {q} \cup Reach(nx, nx[q]) \in SUBSET Questions
      BY <2>2
    <3> QED BY <2>3, <3>1, ReachIsLeast
  <2>5. nx[q] \in Reach(nx, q)
    BY <1>2, <1>4 DEF Closed
  <2>6. Reach(nx, nx[q]) \subseteq Reach(nx, q)
    BY <1>2, <2>1, <2>5, ReachIsLeast
  <2> QED BY <1>2, <2>4, <2>6
<1> QED BY <1>3, <1>4

\* A recursive definition that follows the walk computes what it reaches.
LEMMA ReachIsComputed ==
  ASSUME NEW nx \in Moves, Ahead(nx), NEW D \in SUBSET Questions, Closed(nx, D),
         NEW f, f[End] = {}, \A q \in D : f[q] = {q} \cup f[nx[q]]
  PROVE  \A q \in D : f[q] = Reach(nx, q)
<1> DEFINE wrong == {q \in D : f[q] # Reach(nx, q)}
<1> SUFFICES ASSUME wrong # {} PROVE FALSE
  OBVIOUS
<1>1. PICK h \in wrong : \A y \in wrong : y <= h
  <2>1. wrong \subseteq Questions
    OBVIOUS
  <2> HIDE DEF wrong
  <2> QED BY <2>1, HighestIn
<1>2. h \in Questions /\ nx[h] \in D \cup {End}
  BY DEF Closed
<1>3. f[nx[h]] = Reach(nx, nx[h])
  <2>1. CASE nx[h] = End
    BY <2>1 DEF Reach
  <2>2. CASE nx[h] # End
    <3>1. nx[h] \in D /\ nx[h] > h
      BY <1>2, <2>2 DEF Ahead
    <3>2. nx[h] \in wrong => nx[h] <= h
      BY <1>1
    <3>3. ~(nx[h] <= h)
      <4>1. nx[h] \in Questions
        BY <3>1
      <4> QED BY <1>2, <3>1, <4>1 DEF Questions
    <3> QED BY <3>1, <3>2, <3>3
  <2> QED BY <2>1, <2>2
<1>4. f[h] = Reach(nx, h)
  BY <1>2, <1>3, ReachStep
<1> QED BY <1>4

-----------------------------------------------------------------------------
(***************************************************************************)
(* The questions shown.                                                    *)
(***************************************************************************)
Nexts(a) == [q \in Questions |-> NextQuestion(a, q)]

LEMMA NextsAhead ==
  ASSUME TemplateOK, NEW a
  PROVE  Nexts(a) \in Moves /\ Ahead(Nexts(a))
<1>1. \A q \in Questions : Onwards(q, NextQuestion(a, q))
  BY NextOnwards
<1> QED BY <1>1 DEF Nexts, Moves, Ahead, Onwards

LEMMA ShownIsReached ==
  ASSUME TemplateOK, NEW a
  PROVE  Shown(a) = Reach(Nexts(a), 1)
<1> DEFINE body(f) == [q \in Questions \cup {End} |->
                         IF q = End THEN {} ELSE {q} \cup f[NextQuestion(a, q)]]
           walk == CHOOSE f : f = body(f)
           g == [q \in Questions \cup {End} |-> Reach(Nexts(a), q)]
<1>1. Shown(a) = walk[1]
  BY DEF Shown
<1>2. Nexts(a) \in Moves /\ Ahead(Nexts(a))
  BY NextsAhead
<1>3. \A q \in Questions : NextQuestion(a, q) = Nexts(a)[q] /\ Nexts(a)[q] \in Questions \cup {End}
  BY <1>2 DEF Nexts, Moves
<1>4. g = body(g)
  <2>1. ASSUME NEW q \in Questions PROVE g[q] = {q} \cup g[NextQuestion(a, q)]
    BY <1>2, <1>3, ReachStep
  <2>2. Reach(Nexts(a), End) = {}
    BY DEF Reach
  <2> QED BY <2>1, <2>2, EndIsNoQuestion
<1>5. walk = body(walk)
  <2> HIDE DEF g, body
  <2> QED BY <1>4
<1>6. walk[End] = {} /\ \A q \in Questions : walk[q] = {q} \cup walk[Nexts(a)[q]]
  <2> HIDE DEF walk
  <2> QED BY <1>3, <1>5, EndIsNoQuestion
<1>7. walk[1] = Reach(Nexts(a), 1)
  <2> HIDE DEF walk
  <2>1. Closed(Nexts(a), Questions)
    BY <1>3 DEF Closed
  <2> QED BY <1>2, <1>6, <2>1, ReachIsComputed, OneIsQuestion
<1> QED BY <1>1, <1>7

\* What the form shows: the first question, with a question the next one, and
\* nothing more.
Follows(a, C) == \A x \in C : NextQuestion(a, x) = End \/ NextQuestion(a, x) \in C

LEMMA ShownIsLeast ==
  ASSUME TemplateOK, NEW a
  PROVE  /\ 1 \in Shown(a)
         /\ Shown(a) \subseteq Questions
         /\ Follows(a, Shown(a))
         /\ \A C \in SUBSET Questions : 1 \in C /\ Follows(a, C) => Shown(a) \subseteq C
<1>1. Nexts(a) \in Moves
  BY NextsAhead
<1>2. ASSUME NEW C \in SUBSET Questions PROVE Closed(Nexts(a), C) <=> Follows(a, C)
  <2>1. \A x \in C : Nexts(a)[x] = NextQuestion(a, x)
    BY DEF Nexts
  <2> QED BY <2>1 DEF Closed, Follows
<1> QED BY <1>1, <1>2, ShownIsReached, ReachIsLeast, OneIsQuestion

\* A question on the trunk is shown, whatever is answered.
LEMMA TrunkIsShown ==
  ASSUME TemplateOK, ~zero, NEW a
  PROVE  trunk \subseteq Shown(a)
<1> SUFFICES ASSUME NEW s \in trunk PROVE s \in Shown(a)
  OBVIOUS
<1>1. s \in Questions /\ trunk \subseteq Questions
  BY DEF TemplateOK
<1> DEFINE before == {x \in Shown(a) : x <= s}
<1>2. before \subseteq Questions /\ before # {}
  <2>1. 1 <= s
    BY <1>1 DEF Questions
  <2> QED BY <2>1, ShownIsLeast
<1>3. PICK h \in before : \A y \in before : y <= h
  <2> HIDE DEF before
  <2> QED BY <1>2, HighestIn
<1>4. Onwards(h, NextQuestion(a, h)) /\ h \in Questions
  BY <1>2, NextOnwards
<1>5. ASSUME h # s PROVE FALSE
  <2>1. h < s
    BY <1>1, <1>4, <1>5 DEF Questions
  <2>2. NextQuestion(a, h) # End /\ NextQuestion(a, h) <= s /\ NextQuestion(a, h) > h
    BY <1>1, <1>4, <2>1 DEF Onwards
  <2>3. NextQuestion(a, h) \in Shown(a)
    BY <2>2, ShownIsLeast DEF Follows
  <2>4. NextQuestion(a, h) \in Questions
    BY <1>4, <2>2 DEF Onwards
  <2> QED BY <1>3, <1>4, <2>2, <2>3, <2>4 DEF Questions
<1> QED BY <1>5

\* Whether a question is shown depends on what comes before it,
LEMMA ShownByBefore ==
  ASSUME TemplateOK, NEW a, NEW b, NEW q \in Shown(a),
         \A r \in Questions : r < q => NextQuestion(a, r) = NextQuestion(b, r)
  PROVE  q \in Shown(b)
<1> DEFINE C == {x \in Questions : x > q \/ x \in Shown(b)}
<1>1. q \in Questions
  BY ShownIsLeast
<1>2. 1 \in C
  BY ShownIsLeast
<1>3. ASSUME NEW x \in C, NextQuestion(a, x) # End PROVE NextQuestion(a, x) \in C
  <2>1. NextQuestion(a, x) \in Questions /\ NextQuestion(a, x) > x
    BY <1>3, NextOnwards DEF Onwards
  <2>2. CASE x >= q
    BY <1>1, <2>1, <2>2 DEF Questions
  <2>3. CASE x < q
    <3>1. x \in Shown(b)
      BY <1>1, <2>3 DEF Questions
    <3>2. NextQuestion(a, x) \in Shown(b)
      BY <1>3, <2>3, <3>1, ShownIsLeast DEF Follows
    <3> QED BY <2>1, <3>2
  <2> QED BY <1>1, <2>2, <2>3 DEF Questions
<1>4. Shown(a) \subseteq C
  <2>1. C \in SUBSET Questions /\ Follows(a, C)
    BY <1>3 DEF Follows
  <2> HIDE DEF C
  <2> QED BY <1>2, <2>1, ShownIsLeast
<1> QED BY <1>1, <1>4 DEF Questions

\* or only on what comes after a question on the trunk before it.
LEMMA ShownByTrunk ==
  ASSUME TemplateOK, ~zero, NEW a, NEW b, NEW s \in trunk, NEW q \in Shown(a), q >= s,
         \A r \in Questions : r >= s => NextQuestion(a, r) = NextQuestion(b, r)
  PROVE  q \in Shown(b)
<1> DEFINE C == {x \in Questions : x < s \/ x \in Shown(b)}
<1>1. q \in Questions /\ s \in Questions /\ s \in Shown(b)
  BY ShownIsLeast, TrunkIsShown DEF TemplateOK
<1>2. 1 \in C
  BY ShownIsLeast
<1>3. ASSUME NEW x \in C, NextQuestion(a, x) # End PROVE NextQuestion(a, x) \in C
  <2>1. NextQuestion(a, x) \in Questions /\ (x < s => NextQuestion(a, x) <= s)
    BY <1>3, NextOnwards DEF Onwards
  <2>2. CASE x < s
    BY <1>1, <2>1, <2>2 DEF Questions
  <2>3. CASE x >= s
    <3>1. x \in Shown(b)
      BY <1>1, <2>3 DEF Questions
    <3>2. NextQuestion(a, x) \in Shown(b)
      BY <1>3, <2>3, <3>1, ShownIsLeast DEF Follows
    <3> QED BY <2>1, <3>2
  <2> QED BY <1>1, <2>2, <2>3 DEF Questions
<1>4. Shown(a) \subseteq C
  <2>1. C \in SUBSET Questions /\ Follows(a, C)
    BY <1>3 DEF Follows
  <2> HIDE DEF C
  <2> QED BY <1>2, <2>1, ShownIsLeast
<1> QED BY <1>1, <1>4 DEF Questions

LEMMA ShownBySteps ==
  ASSUME TemplateOK, NEW a, NEW b,
         \A r \in Questions : NextQuestion(a, r) = NextQuestion(b, r)
  PROVE  Shown(a) = Shown(b)
<1>1. Shown(a) \subseteq Shown(b)
  BY ShownByBefore
<1>2. Shown(b) \subseteq Shown(a)
  BY ShownByBefore
<1> QED BY <1>1, <1>2

-----------------------------------------------------------------------------
(***************************************************************************)
(* What is hidden behind an answer.                                        *)
(***************************************************************************)
LEMMA NextOnTrunkIs ==
  ASSUME TemplateOK, NEW q \in Questions
  PROVE  \/ NextOnTrunk(q) = End
         \/ NextOnTrunk(q) \in trunk /\ NextOnTrunk(q) \in Questions /\ NextOnTrunk(q) > q
<1> DEFINE after == Following(q) \cap trunk
<1>1. after \subseteq Questions /\ \A r \in after : r > q
  BY DEF Following
<1>2. CASE after = {}
  BY <1>2 DEF NextOnTrunk
<1>3. CASE after # {}
  <2>1. NextOnTrunk(q) = Lowest(after)
    BY <1>3 DEF NextOnTrunk
  <2>2. Lowest(after) \in after
    <3> HIDE DEF after
    <3> QED BY <1>1, <1>3, LowestIn
  <2> QED BY <1>1, <2>1, <2>2
<1> QED BY <1>2, <1>3

\* The walk that looks for what is shown, up to the trunk.
StepsToTrunk(a, q) ==
  [r \in Questions |-> IF r = NextOnTrunk(q) \/ NextQuestion(a, r) \in trunk THEN End
                       ELSE NextQuestion(a, r)]

Between(q, r) == r > q /\ (NextOnTrunk(q) = End \/ r < NextOnTrunk(q))

LEMMA HiddenIs ==
  ASSUME TemplateOK, ~zero, NEW a, NEW q \in Questions, NEW r \in Questions
  PROVE  r \in Hidden(a, q) <=>
           /\ BranchingPossible(q) /\ Between(q, r)
           /\ NextQuestion(a, q) \notin trunk => r \notin Reach(StepsToTrunk(a, q), NextQuestion(a, q))
<1> DEFINE stop == NextOnTrunk(q)
           between == {s \in Following(q) : stop = End \/ s < stop}
           body(f) == [s \in Questions \cup {End} |->
                         IF s = End \/ s \in trunk THEN {}
                         ELSE {s} \cup IF s = stop THEN {} ELSE f[NextQuestion(a, s)]]
           shown == CHOOSE f : f = body(f)
           nx == StepsToTrunk(a, q)
           D == Questions \ trunk
           g == [s \in Questions \cup {End} |-> IF s = End \/ s \in trunk THEN {} ELSE Reach(nx, s)]
<1>1. Hidden(a, q) = IF ~BranchingPossible(q) \/ between = {} THEN {}
                     ELSE between \ shown[NextQuestion(a, q)]
  BY DEF Hidden
<1>2. \A s \in Questions : Onwards(s, NextQuestion(a, s))
  BY NextOnwards
<1>3. nx \in Moves /\ Ahead(nx)
  BY <1>2 DEF StepsToTrunk, Moves, Ahead, Onwards
<1>4. \A s \in Questions : nx[s] = IF s = stop \/ NextQuestion(a, s) \in trunk THEN End
                                   ELSE NextQuestion(a, s)
  BY DEF StepsToTrunk
<1>5. \A s \in Questions : NextQuestion(a, s) \in Questions \cup {End}
  BY <1>2 DEF Onwards
<1>6. trunk \subseteq Questions /\ End \notin trunk
  BY EndIsNoQuestion DEF TemplateOK
<1>7. g = body(g)
  <2>1. ASSUME NEW s \in Questions \cup {End} PROVE g[s] = body(g)[s]
    <3>1. CASE s = End \/ s \in trunk
      BY <3>1
    <3>2. CASE ~(s = End \/ s \in trunk)
      <4>1. g[s] = {s} \cup Reach(nx, nx[s])
        <5> HIDE DEF nx
        <5> QED BY <1>3, <3>2, ReachStep
      <4>2. Reach(nx, End) = {}
        BY DEF Reach
      <4>3. nx[s] = End => (s = stop \/ g[NextQuestion(a, s)] = {})
        BY <1>4, <1>5, <3>2
      <4>4. nx[s] # End => s # stop /\ nx[s] = NextQuestion(a, s) /\ g[nx[s]] = Reach(nx, nx[s])
        <5>1. nx[s] # End => s # stop /\ nx[s] = NextQuestion(a, s) /\ nx[s] \notin trunk
          BY <1>4, <3>2
        <5> HIDE DEF nx
        <5> QED BY <1>5, <3>2, <5>1
      <4>5. s = stop => nx[s] = End
        BY <1>4, <3>2
      <4> HIDE DEF nx, g, stop
      <4> QED BY <3>2, <4>1, <4>2, <4>3, <4>4, <4>5
    <3> QED BY <3>1, <3>2
  <2> HIDE DEF nx
  <2> QED BY <2>1
<1>8. shown = body(shown)
  <2> HIDE DEF g, body
  <2> QED BY <1>7
<1>9. /\ shown[End] = {} /\ \A s \in trunk : shown[s] = {}
      /\ \A s \in D : shown[s] = {s} \cup shown[nx[s]]
  <2>1. shown[End] = {} /\ \A s \in trunk : shown[s] = {}
    <3> HIDE DEF shown
    <3> QED BY <1>6, <1>8
  <2>2. ASSUME NEW s \in D PROVE shown[s] = {s} \cup shown[nx[s]]
    <3>1. shown[s] = {s} \cup IF s = stop THEN {} ELSE shown[NextQuestion(a, s)]
      <4> HIDE DEF shown, stop
      <4> QED BY <1>8, EndIsNoQuestion
    <3>2. nx[s] = IF s = stop \/ NextQuestion(a, s) \in trunk THEN End ELSE NextQuestion(a, s)
      BY <1>4
    <3> HIDE DEF shown, stop, nx
    <3> QED BY <2>1, <3>1, <3>2
  <2> QED BY <2>1, <2>2
<1>10. \A s \in D : shown[s] = Reach(nx, s)
  <2>1. Closed(nx, D)
    BY <1>4, <1>5 DEF Closed
  <2> HIDE DEF shown, nx
  <2> QED BY <1>3, <1>9, <2>1, ReachIsComputed
<1>11. shown[NextQuestion(a, q)] =
         IF NextQuestion(a, q) \in trunk THEN {} ELSE Reach(nx, NextQuestion(a, q))
  <2>1. NextQuestion(a, q) \in Questions \cup {End} /\ Reach(nx, End) = {}
    BY <1>5 DEF Reach
  <2> HIDE DEF shown, nx
  <2> QED BY <1>6, <1>9, <1>10, <2>1
<1>12. r \in between <=> Between(q, r)
  BY DEF Between, Following
<1> HIDE DEF shown, nx, between
<1>13. r \in Hidden(a, q) <=> BranchingPossible(q) /\ r \in between /\ r \notin shown[NextQuestion(a, q)]
  BY <1>1
<1> QED BY <1>11, <1>12, <1>13 DEF nx

-----------------------------------------------------------------------------
(***************************************************************************)
(* The paths of a transition map.                                          *)
(***************************************************************************)
RowsAhead(map) == \A t \in map : t.from \in Questions /\ Forwards(t)
Targets(map, q) == {t.to : t \in {u \in map : u.from = q}}

IsTrail(map, start, p) ==
  /\ p \in Seq(Questions) /\ Len(p) >= 1 /\ p[1] = start
  /\ \A i \in 1 .. Len(p) - 1 : p[i + 1] \in Targets(map, p[i])

LEMMA TrailRises ==
  ASSUME NEW map, RowsAhead(map), NEW start, NEW p, IsTrail(map, start, p)
  PROVE  \A j \in 1 .. Len(p) : j <= p[j] /\ \A i \in 1 .. Len(p) : i < j => p[i] < p[j]
<1> DEFINE good(j) == j <= p[j] /\ \A i \in 1 .. Len(p) : i < j => p[i] < p[j]
           wrong == {j \in 1 .. Len(p) : ~good(j)}
<1> SUFFICES ASSUME wrong # {} PROVE FALSE
  OBVIOUS
<1>1. PICK j \in wrong : \A k \in wrong : j <= k
  <2>1. wrong \subseteq Nat
    OBVIOUS
  <2> HIDE DEF wrong
  <2> QED BY <2>1, LeastNumber
<1>2. Len(p) \in Nat /\ \A i \in 1 .. Len(p) : p[i] \in Questions
  BY DEF IsTrail
<1>3. j \in 1 .. Len(p) /\ ~good(j)
  OBVIOUS
<1>4. j # 1
  <2>1. 1 <= p[1]
    BY <1>2, <1>3 DEF Questions
  <2> QED BY <1>3, <2>1
<1>5. j - 1 \in 1 .. Len(p) /\ good(j - 1)
  <2>1. j - 1 \in 1 .. Len(p)
    BY <1>2, <1>3, <1>4
  <2>2. j - 1 \notin wrong
    BY <1>1, <1>2, <1>3
  <2> QED BY <2>1, <2>2
<1>6. p[j] > p[j - 1]
  <2>1. j - 1 \in 1 .. Len(p) - 1 /\ (j - 1) + 1 = j
    BY <1>2, <1>3, <1>4
  <2>2. p[(j - 1) + 1] \in Targets(map, p[j - 1])
    BY <2>1 DEF IsTrail
  <2>3. PICK t \in map : t.from = p[j - 1] /\ t.to = p[j]
    BY <2>1, <2>2 DEF Targets
  <2>4. p[j] # End
    BY <1>2, <1>3, EndIsNoQuestion
  <2> QED BY <2>3, <2>4 DEF RowsAhead, Forwards
<1>7. good(j)
  <2>1. p[j] \in Nat /\ p[j - 1] \in Nat
    BY <1>2, <1>3, <1>5, OneIsQuestion
  <2>2. j <= p[j]
    BY <1>3, <1>5, <1>6, <2>1
  <2>3. ASSUME NEW i \in 1 .. Len(p), i < j PROVE p[i] < p[j]
    <3>1. i = j - 1 \/ i < j - 1
      BY <1>3, <2>3
    <3>2. p[i] \in Nat /\ (i < j - 1 => p[i] < p[j - 1])
      BY <1>2, <1>5, OneIsQuestion
    <3> QED BY <1>6, <2>1, <3>1, <3>2
  <2> QED BY <2>2, <2>3
<1> QED BY <1>3, <1>7

LEMMA TrailIsShort ==
  ASSUME NEW map, RowsAhead(map), NEW start, NEW p, IsTrail(map, start, p)
  PROVE  Len(p) \in 1 .. NQuestions
<1>1. Len(p) \in Nat /\ Len(p) >= 1 /\ p[Len(p)] \in Questions
  BY DEF IsTrail
<1>2. Len(p) <= p[Len(p)]
  BY <1>1, TrailRises
<1> QED BY <1>1, <1>2, FlowAssumption DEF Questions

LEMMA TrailGrows ==
  ASSUME NEW map, NEW start, NEW p, IsTrail(map, start, p), NEW q \in Questions,
         q \in Targets(map, p[Len(p)])
  PROVE  /\ IsTrail(map, start, Append(p, q))
         /\ Len(Append(p, q)) = Len(p) + 1
         /\ Append(p, q)[Len(p) + 1] = q
<1>1. p \in Seq(Questions) /\ Len(p) \in Nat /\ Len(p) >= 1
  BY DEF IsTrail
<1>2. /\ Append(p, q) \in Seq(Questions) /\ Len(Append(p, q)) = Len(p) + 1
      /\ Append(p, q)[Len(p) + 1] = q
      /\ \A i \in 1 .. Len(p) : Append(p, q)[i] = p[i]
  BY <1>1
<1>3. ASSUME NEW i \in 1 .. Len(Append(p, q)) - 1
      PROVE  Append(p, q)[i + 1] \in Targets(map, Append(p, q)[i])
  <2>1. i \in 1 .. Len(p)
    BY <1>1, <1>2
  <2>2. CASE i = Len(p)
    BY <1>1, <1>2, <2>2
  <2>3. CASE i # Len(p)
    <3>1. i \in 1 .. Len(p) - 1 /\ i + 1 \in 1 .. Len(p)
      BY <1>1, <2>1, <2>3
    <3> QED BY <1>2, <2>1, <3>1 DEF IsTrail
  <2> QED BY <2>2, <2>3
<1>4. 1 \in 1 .. Len(p) /\ p[1] = start
  BY <1>1 DEF IsTrail
<1>5. Append(p, q)[1] = start /\ Len(Append(p, q)) >= 1
  BY <1>1, <1>2, <1>4
<1> QED BY <1>2, <1>3, <1>5 DEF IsTrail

LEMMA TrailShrinks ==
  ASSUME NEW map, NEW start, NEW p, IsTrail(map, start, p), Len(p) # 1
  PROVE  \E g : /\ IsTrail(map, start, g) /\ Len(g) = Len(p) - 1
                /\ p[Len(p)] \in Targets(map, g[Len(g)])
                /\ p[Len(p)] \in Questions
                /\ p = Append(g, p[Len(p)])
<1> DEFINE n == Len(p)
           g == SubSeq(p, 1, n - 1)
<1>1. p \in Seq(Questions) /\ n \in Nat /\ n >= 2
  <2>1. p \in Seq(Questions) /\ Len(p) >= 1
    BY DEF IsTrail
  <2>2. Len(p) \in Nat
    BY <2>1
  <2> QED BY <2>1, <2>2
<1>2. g \in Seq(Questions) /\ Len(g) = n - 1 /\ \A i \in 1 .. n - 1 : g[i] = p[i]
  BY <1>1, SubSeqProperties
<1>3. p[n] \in Questions
  BY <1>1
<1> HIDE DEF g
<1>4. Append(g, p[n]) = p
  <2>1. Append(g, p[n]) \in Seq(Questions) /\ Len(Append(g, p[n])) = n
    BY <1>1, <1>2, <1>3
  <2>2. ASSUME NEW i \in 1 .. n PROVE Append(g, p[n])[i] = p[i]
    <3>1. CASE i = n
      BY <1>1, <1>2, <1>3, <3>1
    <3>2. CASE i # n
      <4>1. i \in 1 .. n - 1
        BY <1>1, <3>2
      <4> QED BY <1>2, <1>3, <4>1
    <3> QED BY <3>1, <3>2
  <2> HIDE DEF n
  <2>3. Len(p) = n
    BY DEF n
  <2> QED BY <1>1, <2>1, <2>2, <2>3, SeqEqual
<1>5. IsTrail(map, start, g)
  <2>1. g[1] = start /\ Len(g) >= 1
    BY <1>1, <1>2 DEF IsTrail
  <2>2. ASSUME NEW i \in 1 .. Len(g) - 1 PROVE g[i + 1] \in Targets(map, g[i])
    <3>1. i \in 1 .. n - 1 /\ i + 1 \in 1 .. n - 1
      BY <1>1, <1>2
    <3> QED BY <1>2, <3>1 DEF IsTrail
  <2> QED BY <1>2, <2>1, <2>2 DEF IsTrail
<1>6. p[n] \in Targets(map, g[Len(g)])
  <2>1. n - 1 \in 1 .. n - 1 /\ (n - 1) + 1 = n
    BY <1>1
  <2>2. p[(n - 1) + 1] \in Targets(map, p[n - 1])
    BY <2>1 DEF IsTrail
  <2> QED BY <1>2, <2>1, <2>2
<1> QED BY <1>2, <1>3, <1>4, <1>5, <1>6

LEMMA ShortTrail ==
  ASSUME NEW map, NEW start \in Questions, NEW p
  PROVE  IsTrail(map, start, p) /\ Len(p) = 1 <=> p = <<start>>
<1>1. <<start>> \in Seq(Questions) /\ Len(<<start>>) = 1 /\ <<start>>[1] = start
  OBVIOUS
<1>2. IsTrail(map, start, <<start>>)
  BY <1>1 DEF IsTrail
<1>3. ASSUME IsTrail(map, start, p), Len(p) = 1 PROVE p = <<start>>
  <2>1. p \in Seq(Questions) /\ p[1] = start
    BY <1>3 DEF IsTrail
  <2>2. \A i \in 1 .. Len(p) : p[i] = <<start>>[i]
    BY <1>1, <1>3, <2>1
  <2> QED BY <1>1, <1>3, <2>1, <2>2, SeqEqual
<1> QED BY <1>1, <1>2, <1>3

LEMMA TrailHasNew ==
  ASSUME NEW map, RowsAhead(map), NEW start, NEW p, IsTrail(map, start, p),
         NEW q \in Targets(map, p[Len(p)]), q # End
  PROVE  q \in Questions /\ q \notin Elements(p)
<1>1. p \in Seq(Questions) /\ Len(p) \in Nat /\ Len(p) >= 1
  BY DEF IsTrail
<1>5. \A i \in 1 .. Len(p) : p[i] \in Nat
  <2>1. \A i \in 1 .. Len(p) : p[i] \in Questions
    BY <1>1
  <2> QED BY <2>1, OneIsQuestion
<1>2. PICK t \in map : t.from = p[Len(p)] /\ t.to = q
  BY DEF Targets
<1>3. q \in Questions /\ q > p[Len(p)]
  BY <1>2 DEF RowsAhead, Forwards
<1>4. \A i \in 1 .. Len(p) : p[i] <= p[Len(p)] /\ p[i] \in Nat
  <2> SUFFICES ASSUME NEW i \in 1 .. Len(p) PROVE p[i] <= p[Len(p)] /\ p[i] \in Nat
    OBVIOUS
  <2>1. p[i] \in Nat /\ p[Len(p)] \in Nat
    BY <1>1, <1>5
  <2>2. i < Len(p) => p[i] < p[Len(p)]
    BY <1>1, TrailRises
  <2>3. i = Len(p) \/ i < Len(p)
    BY <1>1
  <2> QED BY <2>1, <2>2, <2>3
<1>6. ASSUME NEW i \in DOMAIN p PROVE p[i] # q
  <2>1. i \in 1 .. Len(p)
    BY <1>1
  <2>2. p[i] <= p[Len(p)] /\ p[i] \in Nat /\ p[Len(p)] \in Nat /\ q \in Nat
    BY <1>1, <1>3, <1>4, <2>1, OneIsQuestion
  <2> QED BY <1>3, <2>2
<1> QED BY <1>3, <1>6 DEF Elements

\* A path is a trail that cannot go on, or that ends the section.
IsPath(map, start, p) ==
  \/ IsTrail(map, start, p) /\ Targets(map, p[Len(p)]) = {}
  \/ \E g : IsTrail(map, start, g) /\ End \in Targets(map, g[Len(g)]) /\ p = Append(g, End)

LEMMA PathsAre ==
  ASSUME NEW map, RowsAhead(map), NEW start \in Questions
  PROVE  \A p : p \in Paths(map, start) <=> IsPath(map, start, p)
<1> DEFINE body(f) == [n \in 1 .. NQuestions |->
                         IF n = 1 THEN {<<start>>}
                         ELSE UNION {{Append(p, q) : q \in Targets(map, p[n - 1]) \ (Elements(p) \cup {End})} :
                                     p \in f[n - 1]}]
           partial == CHOOSE f : f = body(f)
           grown == UNION {partial[n] : n \in 1 .. NQuestions}
           trails(n) == {p \in Seq(Questions) : IsTrail(map, start, p) /\ Len(p) = n}
           g == [n \in 1 .. NQuestions |-> trails(n)]
<1>1. Paths(map, start) =
        {p \in grown : Targets(map, p[Len(p)]) = {}} \cup
        {Append(p, End) : p \in {h \in grown : End \in Targets(map, h[Len(h)])}}
  BY DEF Paths, Targets
<1>2. \A n : trails(n) = {p \in Seq(Questions) : IsTrail(map, start, p) /\ Len(p) = n}
  OBVIOUS
<1>3. trails(1) = {<<start>>}
  <2>1. <<start>> \in Seq(Questions)
    OBVIOUS
  <2> QED BY <2>1, ShortTrail
<1>4. ASSUME NEW n \in Nat, n > 1
      PROVE  trails(n) = UNION {{Append(p, q) : q \in Targets(map, p[n - 1]) \ (Elements(p) \cup {End})} :
                                p \in trails(n - 1)}
  <2>1. ASSUME NEW p \in trails(n - 1), NEW q \in Targets(map, p[n - 1]) \ (Elements(p) \cup {End})
        PROVE  Append(p, q) \in trails(n)
    <3>1. IsTrail(map, start, p) /\ Len(p) = n - 1
      OBVIOUS
    <3>2. q \in Questions
      BY <3>1, TrailHasNew
    <3>3. IsTrail(map, start, Append(p, q)) /\ Len(Append(p, q)) = (n - 1) + 1
      BY <3>1, <3>2, TrailGrows
    <3>4. Append(p, q) \in Seq(Questions)
      BY <3>3 DEF IsTrail
    <3> QED BY <1>4, <3>3, <3>4
  <2>2. ASSUME NEW r \in trails(n)
        PROVE  \E p \in trails(n - 1) :
                 \E q \in Targets(map, p[n - 1]) \ (Elements(p) \cup {End}) : r = Append(p, q)
    <3>1. IsTrail(map, start, r) /\ Len(r) = n /\ Len(r) # 1
      BY <1>4
    <3>0. \E p : /\ IsTrail(map, start, p) /\ Len(p) = Len(r) - 1
                 /\ r[Len(r)] \in Targets(map, p[Len(p)])
                 /\ r[Len(r)] \in Questions
                 /\ r = Append(p, r[Len(r)])
      <4> HIDE DEF trails
      <4> QED BY <3>1, TrailShrinks
    <3>2. PICK p : /\ IsTrail(map, start, p) /\ Len(p) = n - 1
                   /\ r[n] \in Targets(map, p[Len(p)]) /\ r[n] \in Questions
                   /\ r = Append(p, r[n])
      BY <3>0, <3>1
    <3>3. r[n] # End
      BY <3>2, EndIsNoQuestion
    <3>4. r[n] \notin Elements(p)
      BY <3>2, <3>3, TrailHasNew
    <3>5. p \in trails(n - 1)
      BY <3>2 DEF IsTrail
    <3> HIDE DEF trails
    <3>6. r[n] \in Targets(map, p[n - 1]) \ (Elements(p) \cup {End})
      BY <3>2, <3>3, <3>4
    <3> QED BY <3>2, <3>5, <3>6
  <2> DEFINE longer(p) == {Append(p, q) : q \in Targets(map, p[n - 1]) \ (Elements(p) \cup {End})}
  <2> HIDE DEF trails
  <2>3. \A p \in trails(n - 1) : longer(p) \subseteq trails(n)
    BY <2>1
  <2>4. \A r \in trails(n) : \E p \in trails(n - 1) : r \in longer(p)
    BY <2>2
  <2>5. trails(n) = UNION {longer(p) : p \in trails(n - 1)}
    <3> HIDE DEF longer
    <3> QED BY <2>3, <2>4
  <2> QED BY <2>5
<1> HIDE DEF trails
<1>5. g = body(g)
  <2>1. ASSUME NEW n \in 1 .. NQuestions PROVE g[n] = body(g)[n]
    <3>1. CASE n = 1
      BY <1>3, <3>1
    <3>2. CASE n # 1
      <4>1. n \in Nat /\ n > 1 /\ n - 1 \in 1 .. NQuestions
        BY <3>2, FlowAssumption
      <4>2. g[n - 1] = trails(n - 1) /\ g[n] = trails(n)
        BY <4>1
      <4> HIDE DEF g
      <4> QED BY <1>4, <3>2, <4>1, <4>2
    <3> QED BY <3>1, <3>2
  <2> QED BY <2>1
<1>6. partial = body(partial)
  <2> HIDE DEF g, body
  <2> QED BY <1>5
<1>7. \A n \in 1 .. NQuestions : partial[n] = trails(n)
  <2> HIDE DEF partial
  <2> DEFINE wrong == {n \in 1 .. NQuestions : partial[n] # trails(n)}
  <2> SUFFICES ASSUME wrong # {} PROVE FALSE
    OBVIOUS
  <2>1. PICK n \in wrong : \A k \in wrong : n <= k
    <3>1. wrong \subseteq Nat
      BY FlowAssumption
    <3> HIDE DEF wrong
    <3> QED BY <3>1, LeastNumber
  <2>2. n \in 1 .. NQuestions /\ n \in Nat
    BY FlowAssumption
  <2>3. CASE n = 1
    BY <1>3, <1>6, <2>2, <2>3
  <2>4. CASE n # 1
    <3>1. n > 1 /\ n - 1 \in 1 .. NQuestions /\ n - 1 < n
      BY <2>2, <2>4, FlowAssumption
    <3>2. n - 1 \notin wrong
      BY <2>1, <2>2, <3>1
    <3>3. partial[n - 1] = trails(n - 1)
      BY <3>1, <3>2
    <3>4. partial[n] = UNION {{Append(p, q) : q \in Targets(map, p[n - 1]) \ (Elements(p) \cup {End})} :
                              p \in partial[n - 1]}
      BY <1>6, <2>2, <2>4
    <3>5. partial[n] = trails(n)
      BY <1>4, <2>2, <3>1, <3>3, <3>4
    <3> QED BY <3>5
  <2> QED BY <2>3, <2>4
<1>8. \A p : p \in grown <=> IsTrail(map, start, p)
  <2>1. ASSUME NEW p, p \in grown PROVE IsTrail(map, start, p)
    <3> HIDE DEF partial
    <3>1. PICK n \in 1 .. NQuestions : p \in partial[n]
      BY <2>1
    <3> QED BY <1>2, <1>7, <3>1
  <2>2. ASSUME NEW p, IsTrail(map, start, p) PROVE p \in grown
    <3>1. Len(p) \in 1 .. NQuestions
      BY <2>2, TrailIsShort
    <3>2. p \in trails(Len(p))
      BY <1>2, <2>2 DEF IsTrail
    <3> HIDE DEF partial
    <3> QED BY <1>7, <3>1, <3>2
  <2> QED BY <2>1, <2>2
<1> HIDE DEF grown
<1> QED BY <1>1, <1>8 DEF IsPath

-----------------------------------------------------------------------------
(***************************************************************************)
(* The map of a part of the section.                                       *)
(***************************************************************************)
LEMMA SectionRows ==
  ASSUME RowsOfTheSection, NEW lo \in Nat, NEW hi \in Nat, NEW q \in Questions
  PROVE  {t \in SectionMap(lo, hi) : t.from = q} =
           IF lo <= q /\ q < hi THEN QuestionMap(q) ELSE {}
<1> DEFINE own == {b \in branch : b.from >= lo /\ b.from < hi}
           mine == {b \in branch : b.from = q}
           fresh == {ByPosition(r) : r \in {s \in Questions : s >= lo /\ s < hi}}
           inside == lo <= q /\ q < hi
<1>1. q \in Nat
  BY OneIsQuestion
<1>2. \A r \in Questions : ByPosition(r).from = r /\ ByPosition(r).on = Any
  BY DEF ByPosition
<1>3. SectionMap(lo, hi) = own \cup {t \in fresh : Select(own, t.from, t.on) = {}}
  BY DEF SectionMap
<1>4. {t \in own : t.from = q} = IF inside THEN mine ELSE {}
  BY <1>1
<1>5. \A t \in fresh : t.from = q <=> inside /\ t = ByPosition(q)
  BY <1>1, <1>2
<1>6. inside => ByPosition(q) \in fresh
  BY <1>1
<1>7. ASSUME inside
      PROVE  Select(own, q, Any) = {} <=> \A b \in mine : b.on # ByPosition(q).on
  <2>1. Select(own, q, Any) = {b \in own : b.from = q /\ b.on = Any}
    BY DEF Select, Selected
  <2>2. {b \in own : b.from = q /\ b.on = Any} = {b \in mine : b.on = Any}
    <3> HIDE DEF own, mine
    <3>1. \A b : b \in own /\ b.from = q <=> b \in mine
      BY <1>4, <1>7
    <3> QED BY <3>1 DEF mine
  <2> QED BY <1>2, <2>1, <2>2
<1>8. QuestionMap(q) = mine \cup {t \in {ByPosition(q)} : \A b \in mine : b.on # t.on}
  BY DEF QuestionMap
<1> HIDE DEF own, mine, fresh
<1>9. CASE inside
  <2>1. {t \in fresh : Select(own, t.from, t.on) = {} /\ t.from = q}
        = {t \in {ByPosition(q)} : Select(own, q, Any) = {}}
    BY <1>2, <1>5, <1>6, <1>9
  <2>2. {t \in {ByPosition(q)} : Select(own, q, Any) = {}}
        = {t \in {ByPosition(q)} : \A b \in mine : b.on # t.on}
    BY <1>7, <1>9
  <2>3. {t \in SectionMap(lo, hi) : t.from = q}
        = mine \cup {t \in fresh : Select(own, t.from, t.on) = {} /\ t.from = q}
    BY <1>3, <1>4, <1>9
  <2> QED BY <1>8, <1>9, <2>1, <2>2, <2>3
<1>10. CASE ~inside
  BY <1>3, <1>4, <1>5, <1>10
<1> QED BY <1>9, <1>10

LEMMA SectionTargets ==
  ASSUME RowsOfTheSection, NEW lo \in Nat, NEW hi \in Nat, NEW q \in Questions
  PROVE  Targets(SectionMap(lo, hi), q) =
           IF lo <= q /\ q < hi THEN {t.to : t \in QuestionMap(q)} ELSE {}
BY SectionRows DEF Targets

LEMMA SectionAhead ==
  ASSUME TemplateOK, NEW lo, NEW hi
  PROVE  RowsAhead(SectionMap(lo, hi))
<1> SUFFICES ASSUME NEW t \in SectionMap(lo, hi) PROVE t.from \in Questions /\ Forwards(t)
  BY DEF RowsAhead
<1>1. CASE t \in branch
  BY <1>1 DEF TemplateOK, RowsOfTheSection, Branches
<1>2. ASSUME NEW r \in Questions, t = ByPosition(r) PROVE t.from \in Questions /\ Forwards(t)
  <2>1. ByPosition(r).from = r /\ ByPosition(r).to = IF r = NQuestions THEN End ELSE r + 1
    BY StepByPosition
  <2> QED BY <1>2, <2>1, FlowAssumption DEF Forwards, Questions, End
<1> QED BY <1>1, <1>2 DEF SectionMap

-----------------------------------------------------------------------------
(***************************************************************************)
(* The walk the form takes, as the trail of a map of its own.              *)
(***************************************************************************)
Taken(a) == {[from |-> q, to |-> NextQuestion(a, q)] : q \in Questions}

LEMMA TakenTargets ==
  ASSUME TemplateOK, NEW a
  PROVE  /\ RowsAhead(Taken(a))
         /\ \A q \in Questions : Targets(Taken(a), q) = {NextQuestion(a, q)}
<1>1. ASSUME NEW t \in Taken(a) PROVE t.from \in Questions /\ Forwards(t)
  <2>1. PICK q \in Questions : t = [from |-> q, to |-> NextQuestion(a, q)]
    BY DEF Taken
  <2> QED BY <2>1, NextOnwards DEF Onwards, Forwards
<1>2. ASSUME NEW q \in Questions PROVE Targets(Taken(a), q) = {NextQuestion(a, q)}
  <2>1. {t \in Taken(a) : t.from = q} = {[from |-> q, to |-> NextQuestion(a, q)]}
    BY DEF Taken
  <2>2. Targets(Taken(a), q) = {t.to : t \in {[from |-> q, to |-> NextQuestion(a, q)]}}
    BY <2>1 DEF Targets
  <2> QED BY <2>2
<1> QED BY <1>1, <1>2 DEF RowsAhead

LEMMA TakenIsTarget ==
  ASSUME TemplateOK, NEW a, NEW lo \in Nat, NEW hi \in Nat, NEW q \in Questions, lo <= q, q < hi
  PROVE  NextQuestion(a, q) \in Targets(SectionMap(lo, hi), q)
<1>1. Targets(SectionMap(lo, hi), q) = {t.to : t \in QuestionMap(q)}
  BY SectionTargets DEF TemplateOK
<1> QED BY <1>1, RowFollowed

\* Every question shown after one on the trunk is at the end of a trail from there.
LEMMA TrailToShown ==
  ASSUME TemplateOK, NEW a, NEW s \in Shown(a), s \in trunk, ~zero \/ s = 1,
         NEW q \in Shown(a), q >= s
  PROVE  \E p : IsTrail(Taken(a), s, p) /\ p[Len(p)] = q
<1> DEFINE C == {x \in Questions : x < s \/ \E p : IsTrail(Taken(a), s, p) /\ p[Len(p)] = x}
<1>1. q \in Questions /\ s \in Questions
  BY ShownIsLeast
<1>2. s \in C
  <2>1. IsTrail(Taken(a), s, <<s>>) /\ Len(<<s>>) = 1
    BY <1>1, ShortTrail
  <2>2. <<s>>[Len(<<s>>)] = s
    OBVIOUS
  <2>3. \E p : IsTrail(Taken(a), s, p) /\ p[Len(p)] = s
    BY <2>1, <2>2
  <2> QED BY <1>1, <2>3
<1>3. 1 \in C
  BY <1>1, <1>2, OneIsQuestion DEF Questions
<1>4. ASSUME NEW x \in C, NextQuestion(a, x) # End PROVE NextQuestion(a, x) \in C
  <2>1. /\ NextQuestion(a, x) \in Questions
        /\ ~zero => (x < s => NextQuestion(a, x) <= s)
    BY <1>4, NextOnwards DEF Onwards
  <2>2. CASE x < s
    <3>1. ~zero
      BY <1>1, <2>2 DEF Questions
    <3>2. NextQuestion(a, x) <= s
      BY <2>1, <2>2, <3>1
    <3>3. NextQuestion(a, x) = s \/ NextQuestion(a, x) < s
      BY <1>1, <2>1, <3>2 DEF Questions
    <3> QED BY <1>2, <2>1, <3>3
  <2>3. CASE ~(x < s)
    <3>1. PICK p : IsTrail(Taken(a), s, p) /\ p[Len(p)] = x
      BY <2>3
    <3>2. NextQuestion(a, x) \in Targets(Taken(a), p[Len(p)])
      BY <3>1, TakenTargets
    <3>3. /\ IsTrail(Taken(a), s, Append(p, NextQuestion(a, x)))
          /\ Len(Append(p, NextQuestion(a, x))) = Len(p) + 1
          /\ Append(p, NextQuestion(a, x))[Len(p) + 1] = NextQuestion(a, x)
      BY <2>1, <3>1, <3>2, TrailGrows
    <3> QED BY <2>1, <3>3
  <2> QED BY <2>2, <2>3
<1>5. Shown(a) \subseteq C
  <2>1. C \in SUBSET Questions /\ Follows(a, C)
    BY <1>4 DEF Follows
  <2> HIDE DEF C
  <2> QED BY <1>3, <2>1, ShownIsLeast
<1>6. ~(q < s)
  BY <1>1 DEF Questions
<1> QED BY <1>5, <1>6

\* A trail of the form's own walk is one of every map that knows its questions.
LEMMA TakenTrail ==
  ASSUME TemplateOK, NEW a, NEW s, NEW p, IsTrail(Taken(a), s, p),
         NEW lo \in Nat, NEW hi \in Nat, lo <= s, p[Len(p)] <= hi
  PROVE  /\ IsTrail(SectionMap(lo, hi), s, p)
         /\ \A i \in 1 .. Len(p) - 1 : p[i + 1] = NextQuestion(a, p[i])
<1>1. Len(p) \in Nat /\ Len(p) >= 1 /\ p[1] = s /\ \A i \in 1 .. Len(p) : p[i] \in Questions
  BY DEF IsTrail
<1>2. ASSUME NEW i \in 1 .. Len(p) - 1
      PROVE  p[i + 1] = NextQuestion(a, p[i]) /\ p[i + 1] \in Targets(SectionMap(lo, hi), p[i])
  <2>1. i \in 1 .. Len(p) /\ Len(p) \in 1 .. Len(p) /\ i < Len(p) /\ 1 \in 1 .. Len(p)
    BY <1>1
  <2>2. p[i + 1] = NextQuestion(a, p[i])
    <3>1. p[i + 1] \in Targets(Taken(a), p[i])
      BY DEF IsTrail
    <3> QED BY <1>1, <2>1, <3>1, TakenTargets
  <2>3. p[i] < p[Len(p)] /\ (i = 1 \/ p[1] < p[i])
    BY <2>1, TrailRises, TakenTargets
  <2>4. p[i] \in Nat /\ p[Len(p)] \in Nat /\ p[1] \in Nat
    BY <1>1, <2>1, OneIsQuestion
  <2>5. lo <= p[i] /\ p[i] < hi
    BY <1>1, <2>3, <2>4
  <2>6. p[i] \in Questions
    BY <1>1, <2>1
  <2> QED BY <2>2, <2>5, <2>6, TakenIsTarget
<1>3. IsTrail(SectionMap(lo, hi), s, p)
  BY <1>2 DEF IsTrail
<1> QED BY <1>2, <1>3

-----------------------------------------------------------------------------
(***************************************************************************)
(* The answered questions in the order they are shown, and the validation. *)
(***************************************************************************)
LEMMA TrailIsShown ==
  ASSUME TemplateOK, NEW a, NEW s \in Shown(a), NEW p, IsTrail(Taken(a), s, p)
  PROVE  \A i \in 1 .. Len(p) : p[i] \in Shown(a)
<1> DEFINE wrong == {i \in 1 .. Len(p) : p[i] \notin Shown(a)}
<1> SUFFICES ASSUME wrong # {} PROVE FALSE
  OBVIOUS
<1>1. Len(p) \in Nat /\ \A i \in 1 .. Len(p) : p[i] \in Questions
  BY DEF IsTrail
<1>2. PICK i \in wrong : \A k \in wrong : i <= k
  <2>1. wrong \subseteq Nat
    OBVIOUS
  <2> HIDE DEF wrong
  <2> QED BY <2>1, LeastNumber
<1>3. i # 1
  BY DEF IsTrail
<1>4. i - 1 \in 1 .. Len(p) /\ i - 1 \in 1 .. Len(p) - 1 /\ (i - 1) + 1 = i
  BY <1>1, <1>3
<1>5. p[i - 1] \in Shown(a)
  <2>1. i - 1 \notin wrong
    BY <1>1, <1>2, <1>4
  <2> QED BY <1>4, <2>1
<1>6. p[i] = NextQuestion(a, p[i - 1])
  <2>1. p[(i - 1) + 1] \in Targets(Taken(a), p[i - 1])
    BY <1>4 DEF IsTrail
  <2>2. p[i - 1] \in Questions
    BY <1>1, <1>4
  <2> QED BY <1>4, <2>1, <2>2, TakenTargets
<1>7. p[i] \in Shown(a)
  <2>1. p[i] # End
    BY <1>1, EndIsNoQuestion
  <2> QED BY <1>5, <1>6, <2>1, ShownIsLeast DEF Follows
<1> QED BY <1>7

LEMMA TrailFromBefore ==
  ASSUME NEW map, NEW r, NEW p, IsTrail(map, r, p), NEW q \in Questions, r \in Targets(map, q)
  PROVE  /\ IsTrail(map, q, <<q>> \o p)
         /\ Len(<<q>> \o p) = Len(p) + 1
         /\ \A i \in 1 .. Len(p) : (<<q>> \o p)[i + 1] = p[i]
<1>1. p \in Seq(Questions) /\ Len(p) \in Nat /\ Len(p) >= 1 /\ p[1] = r
  BY DEF IsTrail
<1>2. /\ <<q>> \o p \in Seq(Questions) /\ Len(<<q>> \o p) = Len(p) + 1
      /\ (<<q>> \o p)[1] = q
      /\ \A i \in 1 .. Len(p) : (<<q>> \o p)[i + 1] = p[i]
  BY <1>1
<1>3. ASSUME NEW i \in 1 .. Len(<<q>> \o p) - 1
      PROVE  (<<q>> \o p)[i + 1] \in Targets(map, (<<q>> \o p)[i])
  <2>1. i \in 1 .. Len(p)
    BY <1>1, <1>2
  <2>2. CASE i = 1
    BY <1>1, <1>2, <2>1, <2>2
  <2>3. CASE i # 1
    <3>1. i - 1 \in 1 .. Len(p) - 1 /\ i - 1 \in 1 .. Len(p) /\ (i - 1) + 1 = i
      BY <1>1, <2>1, <2>3
    <3>2. p[(i - 1) + 1] \in Targets(map, p[i - 1])
      BY <3>1 DEF IsTrail
    <3>3. (<<q>> \o p)[(i - 1) + 1] = p[i - 1] /\ (<<q>> \o p)[i + 1] = p[i]
      BY <1>2, <2>1, <3>1
    <3> QED BY <3>1, <3>2, <3>3
  <2> QED BY <2>2, <2>3
<1>4. Len(<<q>> \o p) >= 1
  BY <1>1, <1>2
<1> HIDE DEF IsTrail
<1> QED BY <1>2, <1>3, <1>4 DEF IsTrail

\* The answered questions from q on: a trail of answered questions that ends where
\* the section does or the next question has no answer.
AnsweredTrail(a, q, p) ==
  /\ IsTrail(Taken(a), q, p)
  /\ \A i \in 1 .. Len(p) : a[p[i]] # Unanswered
  /\ LET r == NextQuestion(a, p[Len(p)]) IN r = End \/ a[r] = Unanswered

LEMMA CompletePathIs ==
  ASSUME TemplateOK, NEW a
  PROVE  IF a[1] = Unanswered THEN CompletePath(a) = <<>>
         ELSE AnsweredTrail(a, 1, CompletePath(a))
<1> DEFINE body(f, q) == IF q = End THEN <<>>
                         ELSE IF a[q] = Unanswered THEN <<>>
                         ELSE <<q>> \o f[NextQuestion(a, q)]
           Dom(m) == {End} \cup {x \in Questions : x >= m}
           fun(f, m) == [q \in Dom(m) |-> body(f, q)]
           walk == CHOOSE f : f = [q \in Questions \cup {End} |-> body(f, q)]
<1>1. CompletePath(a) = walk[1]
  BY DEF CompletePath
<1>2. \A q \in Questions : Onwards(q, NextQuestion(a, q))
  BY NextOnwards
<1>3. ASSUME NEW m \in Questions, NEW f, f = fun(f, m + 1)
      PROVE  \E g : g = fun(g, m)
  <2> DEFINE g == [q \in Dom(m) |-> IF q = m THEN body(f, m) ELSE f[q]]
  <2>1. m \notin Dom(m + 1) /\ Dom(m) = Dom(m + 1) \cup {m} /\ m \in Nat /\ m # End
    BY OneIsQuestion, EndIsNoQuestion DEF Questions
  <2>2. \A q \in Dom(m + 1) : g[q] = f[q]
    <3> HIDE DEF body, Dom
    <3> QED BY <2>1
  <2>3. ASSUME NEW q \in Dom(m), q # End PROVE NextQuestion(a, q) \in Dom(m + 1)
    BY <1>2, <2>3 DEF Onwards, Questions
  <2>4. ASSUME NEW q \in Dom(m) PROVE body(g, q) = body(f, q)
    <3>1. q # End => g[NextQuestion(a, q)] = f[NextQuestion(a, q)]
      BY <2>2, <2>3
    <3> HIDE DEF g, Dom
    <3> QED BY <3>1
  <2>5. ASSUME NEW q \in Dom(m) PROVE g[q] = body(f, q)
    <3>1. CASE q = m
      BY <3>1
    <3>2. CASE q # m
      <4>1. q \in Dom(m + 1)
        BY <2>1, <3>2
      <4>2. f[q] = body(f, q)
        <5> HIDE DEF body, Dom
        <5> QED BY <1>3, <4>1
      <4> HIDE DEF body, Dom
      <4> QED BY <3>2, <4>2
    <3> QED BY <3>1, <3>2
  <2>6. g = fun(g, m)
    <3>1. \A q \in Dom(m) : g[q] = body(g, q)
      BY <2>4, <2>5
    <3>2. g = [q \in Dom(m) |-> g[q]]
      OBVIOUS
    <3> HIDE DEF g, body, Dom
    <3> QED BY <3>1, <3>2
  <2> HIDE DEF g, fun
  <2> QED BY <2>6
<1>4. \E f : f = fun(f, NQuestions + 1)
  <2> DEFINE f == [q \in {End} |-> <<>>]
  <2>1. Dom(NQuestions + 1) = {End}
    BY FlowAssumption DEF Questions
  <2>2. f = fun(f, NQuestions + 1)
    BY <2>1
  <2> HIDE DEF f, fun
  <2> QED BY <2>2
<1>5. \A m \in Questions : \E f : f = fun(f, m)
  <2> DEFINE wrong == {m \in Questions : ~\E f : f = fun(f, m)}
  <2> HIDE DEF fun
  <2> SUFFICES ASSUME wrong # {} PROVE FALSE
    OBVIOUS
  <2>1. PICK m \in wrong : \A k \in wrong : k <= m
    <3>1. wrong \subseteq Questions
      OBVIOUS
    <3> HIDE DEF wrong
    <3> QED BY <3>1, HighestIn
  <2>2. m \in Questions /\ m \in Nat
    BY OneIsQuestion
  <2>3. \E f : f = fun(f, m + 1)
    <3>1. CASE m = NQuestions
      BY <1>4, <3>1
    <3>2. CASE m # NQuestions
      <4>1. m + 1 \in Questions /\ ~(m + 1 <= m)
        BY <2>2, <3>2, FlowAssumption DEF Questions
      <4>2. m + 1 \notin wrong
        BY <2>1, <4>1
      <4> QED BY <4>1, <4>2
    <3> QED BY <3>1, <3>2
  <2>4. \E f : f = fun(f, m)
    BY <1>3, <2>2, <2>3
  <2> QED BY <2>1, <2>4
<1>6. walk = [q \in Questions \cup {End} |-> body(walk, q)]
  <2>1. Dom(1) = Questions \cup {End}
    BY DEF Questions
  <2>2. PICK f : f = fun(f, 1)
    BY <1>5, OneIsQuestion
  <2>3. f = [q \in Questions \cup {End} |-> body(f, q)]
    <3> HIDE DEF body, Dom
    <3> QED BY <2>1, <2>2
  <2> HIDE DEF body, Dom, fun
  <2> QED BY <2>3
<1> HIDE DEF walk
<1>7. \A q \in Questions : walk[q] = IF a[q] = Unanswered THEN <<>>
                                     ELSE <<q>> \o walk[NextQuestion(a, q)]
  <2> SUFFICES ASSUME NEW q \in Questions
               PROVE walk[q] = IF a[q] = Unanswered THEN <<>> ELSE <<q>> \o walk[NextQuestion(a, q)]
    OBVIOUS
  <2>1. walk[q] = body(walk, q)
    <3> HIDE DEF body
    <3> QED BY <1>6
  <2> QED BY <2>1, EndIsNoQuestion
<1>8. walk[End] = <<>>
  <2>1. walk[End] = body(walk, End)
    <3> HIDE DEF body
    <3> QED BY <1>6
  <2> QED BY <2>1
<1>9. \A q \in Questions : a[q] # Unanswered => AnsweredTrail(a, q, walk[q])
  <2> DEFINE wrong == {q \in Questions : ~(a[q] # Unanswered => AnsweredTrail(a, q, walk[q]))}
  <2> SUFFICES ASSUME wrong # {} PROVE FALSE
    OBVIOUS
  <2>1. PICK q \in wrong : \A k \in wrong : k <= q
    <3>1. wrong \subseteq Questions
      OBVIOUS
    <3> HIDE DEF wrong
    <3> QED BY <3>1, HighestIn
  <2>2. q \in Questions /\ a[q] # Unanswered /\ ~AnsweredTrail(a, q, walk[q])
    OBVIOUS
  <2> DEFINE r == NextQuestion(a, q)
  <2>3. r = End \/ (r \in Questions /\ r > q)
    BY <1>2, <2>2 DEF Onwards
  <2>4. walk[q] = <<q>> \o walk[r]
    BY <1>7, <2>2
  <2>5. CASE r = End \/ a[r] = Unanswered
    <3>1. walk[r] = <<>>
      BY <1>7, <1>8, <2>3, <2>5
    <3>2. walk[q] = <<q>>
      BY <2>4, <3>1
    <3>3. Len(<<q>>) = 1 /\ <<q>>[1] = q /\ IsTrail(Taken(a), q, <<q>>)
      BY <2>2, ShortTrail
    <3>4. AnsweredTrail(a, q, <<q>>)
      BY <2>2, <2>5, <3>3 DEF AnsweredTrail
    <3> QED BY <2>2, <3>2, <3>4
  <2>6. CASE r \in Questions /\ r > q /\ a[r] # Unanswered
    <3>1. AnsweredTrail(a, r, walk[r])
      <4>1. ~(r <= q)
        BY <2>2, <2>6 DEF Questions
      <4>2. r \notin wrong
        BY <2>1, <4>1
      <4> QED BY <2>6, <4>2
    <3>2. r \in Targets(Taken(a), q)
      BY <2>2, TakenTargets
    <3> DEFINE w == walk[r]
               p == <<q>> \o w
    <3>3. /\ IsTrail(Taken(a), q, p) /\ Len(p) = Len(w) + 1
          /\ \A i \in 1 .. Len(w) : p[i + 1] = w[i]
      <4> HIDE DEF r, w
      <4> QED BY <2>2, <3>1, <3>2, TrailFromBefore DEF AnsweredTrail, w
    <3>4. Len(w) \in Nat /\ Len(w) >= 1 /\ p[1] = q
      BY <3>1, <3>3 DEF AnsweredTrail, IsTrail
    <3>5. \A i \in 1 .. Len(p) : a[p[i]] # Unanswered
      <4> SUFFICES ASSUME NEW i \in 1 .. Len(p) PROVE a[p[i]] # Unanswered
        OBVIOUS
      <4>1. CASE i = 1
        BY <2>2, <3>4, <4>1
      <4>2. CASE i # 1
        <5>1. i - 1 \in 1 .. Len(w) /\ (i - 1) + 1 = i
          BY <3>3, <3>4, <4>2
        <5>2. p[i] = w[i - 1]
          BY <3>3, <5>1
        <5> QED BY <3>1, <5>1, <5>2 DEF AnsweredTrail
      <4> QED BY <4>1, <4>2
    <3>6. p[Len(p)] = w[Len(w)]
      <4>1. Len(w) \in 1 .. Len(w)
        BY <3>4
      <4> QED BY <3>3, <4>1
    <3>7. AnsweredTrail(a, q, p)
      BY <3>1, <3>3, <3>5, <3>6 DEF AnsweredTrail
    <3> QED BY <2>2, <2>4, <3>7
  <2> QED BY <2>3, <2>5, <2>6
<1> QED BY <1>1, <1>7, <1>9, OneIsQuestion

WholeMap == SectionMap(1, NQuestions + 1)

LEMMA WholeTargets ==
  ASSUME TemplateOK, NEW q \in Questions
  PROVE  Targets(WholeMap, q) = {t.to : t \in QuestionMap(q)} /\ Targets(WholeMap, q) # {}
<1>1. 1 <= q /\ q < NQuestions + 1 /\ NQuestions + 1 \in Nat /\ 1 \in Nat
  BY FlowAssumption DEF Questions
<1>2. Targets(WholeMap, q) = {t.to : t \in QuestionMap(q)}
  BY <1>1, SectionTargets DEF TemplateOK, WholeMap
<1>3. QuestionMap(q) # {}
  BY RowFollowed
<1> QED BY <1>2, <1>3

\* The paths the validation knows are the trails that end the section.
LEMMA AllPathsAre ==
  ASSUME TemplateOK, NEW p
  PROVE  p \in AllPaths <=> IsTrail(WholeMap, 1, p) /\ End \in Targets(WholeMap, p[Len(p)])
<1> DEFINE cut(r) == IF r[Len(r)] = End THEN SubSeq(r, 1, Len(r) - 1) ELSE r
<1>1. AllPaths = {cut(r) : r \in Paths(WholeMap, 1)}
  BY DEF AllPaths, WholeMap
<1>2. RowsAhead(WholeMap)
  BY SectionAhead DEF WholeMap
<1>3. ASSUME NEW g, IsTrail(WholeMap, 1, g)
      PROVE  /\ cut(Append(g, End)) = g
             /\ g[Len(g)] \in Questions
             /\ Targets(WholeMap, g[Len(g)]) # {}
  <2>1. g \in Seq(Questions) /\ Len(g) \in Nat /\ Len(g) >= 1
    BY <1>3 DEF IsTrail
  <2>2. g[Len(g)] \in Questions
    BY <2>1
  <2>3. /\ Append(g, End) \in Seq(Questions \cup {End})
        /\ Len(Append(g, End)) = Len(g) + 1
        /\ Append(g, End)[Len(g) + 1] = End
        /\ \A i \in 1 .. Len(g) : Append(g, End)[i] = g[i]
    <3>1. g \in Seq(Questions \cup {End})
      BY <2>1
    <3> QED BY <2>1, <3>1
  <2> DEFINE h == SubSeq(Append(g, End), 1, Len(g))
  <2>4. cut(Append(g, End)) = h
    BY <2>1, <2>3
  <2>5. h \in Seq(Questions) /\ Len(h) = Len(g) /\ \A i \in 1 .. Len(g) : h[i] = g[i]
    <3>1. \A i \in 1 .. Len(g) : Append(g, End)[i] \in Questions
      BY <2>1, <2>3
    <3>2. /\ h \in Seq(Questions)
          /\ Len(h) = IF 1 <= Len(g) THEN Len(g) - 1 + 1 ELSE 0
          /\ \A i \in 1 .. Len(g) - 1 + 1 : h[i] = Append(g, End)[1 + i - 1]
      <4>1. 1 \in Int /\ Len(g) \in Int
        BY <2>1
      <4> QED BY <3>1, <4>1, SubSeqProperties
    <3>3. \A i \in 1 .. Len(g) : i \in 1 .. Len(g) - 1 + 1 /\ 1 + i - 1 = i
      BY <2>1
    <3> HIDE DEF h
    <3>4. \A i \in 1 .. Len(g) : h[i] = Append(g, End)[i]
      BY <3>2, <3>3
    <3> QED BY <2>1, <2>3, <3>2, <3>4
  <2>6. h = g
    <3> HIDE DEF h
    <3> QED BY <2>1, <2>5, SeqEqual
  <2> QED BY <2>2, <2>4, <2>6, WholeTargets
<1>4. ASSUME NEW r \in Paths(WholeMap, 1)
      PROVE  IsTrail(WholeMap, 1, cut(r)) /\ End \in Targets(WholeMap, cut(r)[Len(cut(r))])
  <2>1. IsPath(WholeMap, 1, r)
    BY <1>2, PathsAre, OneIsQuestion
  <2>2. PICK g : IsTrail(WholeMap, 1, g) /\ End \in Targets(WholeMap, g[Len(g)]) /\ r = Append(g, End)
    BY <1>3, <2>1 DEF IsPath
  <2>3. cut(r) = g
    <3> HIDE DEF cut
    <3> QED BY <1>3, <2>2
  <2> QED BY <2>2, <2>3
<1>5. ASSUME IsTrail(WholeMap, 1, p), End \in Targets(WholeMap, p[Len(p)]) PROVE p \in AllPaths
  <2>1. IsPath(WholeMap, 1, Append(p, End))
    BY <1>5 DEF IsPath
  <2>2. Append(p, End) \in Paths(WholeMap, 1)
    BY <1>2, <2>1, PathsAre, OneIsQuestion
  <2>3. cut(Append(p, End)) = p
    BY <1>3, <1>5
  <2> HIDE DEF cut
  <2> QED BY <1>1, <2>2, <2>3
<1> HIDE DEF cut
<1>6. p \in AllPaths => \E r \in Paths(WholeMap, 1) : p = cut(r)
  BY <1>1
<1> QED BY <1>4, <1>5, <1>6

\* If everything shown is answered, the answers are a whole path.
LEMMA AnsweredIsValid ==
  ASSUME TemplateOK, NEW a, \A q \in Shown(a) : a[q] # Unanswered
  PROVE  ValidateData(a)
<1> DEFINE p == CompletePath(a)
           last == p[Len(p)]
<1>1. 1 \in Shown(a) /\ a[1] # Unanswered
  BY ShownIsLeast
<1>2. AnsweredTrail(a, 1, p)
  BY <1>1, CompletePathIs
<1> HIDE DEF p
<1>3. IsTrail(Taken(a), 1, p) /\ Len(p) \in 1 .. Len(p) /\ last \in Questions
  BY <1>2 DEF AnsweredTrail, IsTrail
<1>4. last \in Shown(a)
  BY <1>1, <1>3, TrailIsShown
<1>5. NextQuestion(a, last) = End
  <2>1. NextQuestion(a, last) \in Shown(a) => a[NextQuestion(a, last)] # Unanswered
    OBVIOUS
  <2> QED BY <1>2, <1>4, <2>1, ShownIsLeast DEF AnsweredTrail, Follows
<1>6. 1 <= last /\ last < NQuestions + 1 /\ last <= NQuestions + 1 /\ 1 \in Nat /\ NQuestions + 1 \in Nat
  BY <1>3, FlowAssumption DEF Questions
<1>7. IsTrail(WholeMap, 1, p)
  <2>1. 1 <= 1
    OBVIOUS
  <2> QED BY <1>3, <1>6, <2>1, TakenTrail DEF WholeMap
<1>8. End \in Targets(WholeMap, last)
  BY <1>3, <1>5, <1>6, TakenIsTarget DEF WholeMap
<1>9. p \in AllPaths
  BY <1>7, <1>8, AllPathsAre
<1> QED BY <1>1, <1>9, OneIsQuestion DEF ValidateData, p

\* Without a shortcut to the end, nothing shown is left unanswered in a section
\* that validates.
LEMMA ValidIsAnswered ==
  ASSUME TemplateOK, NEW a, ~ShortcutToEnd, ValidateData(a)
  PROVE  \A q \in Shown(a) : a[q] # Unanswered
<1> DEFINE p == CompletePath(a)
           last == p[Len(p)]
<1>1. IsTrail(WholeMap, 1, p) /\ End \in Targets(WholeMap, last)
  BY AllPathsAre DEF ValidateData
<1>2. AnsweredTrail(a, 1, p)
  <2>1. Len(p) >= 1
    BY <1>1 DEF IsTrail
  <2>2. p # <<>>
    BY <2>1
  <2> QED BY <2>2, CompletePathIs
<1> HIDE DEF p
<1>3. Len(p) \in Nat /\ Len(p) >= 1 /\ p[1] = 1 /\ \A i \in 1 .. Len(p) : p[i] \in Questions
  BY <1>1 DEF IsTrail
<1>4. last \in Questions
  BY <1>3
<1>5. last = NQuestions
  <2>1. PICK t \in QuestionMap(last) : t.to = End
    BY <1>1, <1>4, WholeTargets
  <2>2. t = ByPosition(last)
    BY <2>1 DEF QuestionMap, ShortcutToEnd
  <2>3. ByPosition(last).to = IF last = NQuestions THEN End ELSE last + 1
    BY <1>4, StepByPosition
  <2>4. last + 1 # End
    BY <1>4 DEF Questions, End
  <2> QED BY <2>1, <2>2, <2>3, <2>4
<1>6. NextQuestion(a, last) = End
  BY <1>4, <1>5, NextOnwards, FlowAssumption DEF Onwards, Questions
<1> DEFINE C == {p[i] : i \in 1 .. Len(p)}
<1>7. Follows(a, C)
  <2> SUFFICES ASSUME NEW i \in 1 .. Len(p), NextQuestion(a, p[i]) # End
               PROVE  NextQuestion(a, p[i]) \in C
    BY DEF Follows
  <2>1. i # Len(p)
    BY <1>6
  <2>2. i \in 1 .. Len(p) - 1 /\ i + 1 \in 1 .. Len(p)
    BY <1>3, <2>1
  <2>3. p[i + 1] \in Targets(Taken(a), p[i])
    BY <1>2, <2>2 DEF AnsweredTrail, IsTrail
  <2>4. p[i + 1] = NextQuestion(a, p[i])
    BY <1>3, <2>3, TakenTargets
  <2> QED BY <2>2, <2>4
<1>8. 1 \in C /\ C \in SUBSET Questions
  <2>1. 1 \in 1 .. Len(p)
    BY <1>3
  <2> QED BY <1>3, <2>1
<1>9. Shown(a) \subseteq C
  <2> HIDE DEF C
  <2> QED BY <1>7, <1>8, ShownIsLeast
<1> QED BY <1>2, <1>9 DEF AnsweredTrail

-----------------------------------------------------------------------------
(***************************************************************************)
(* The way back.                                                           *)
(***************************************************************************)
\* No question behind a branch not taken has an answer.
OnTheWay(a) == \A q \in Questions : a[q] # Unanswered => q \in trunk \/ q \in Shown(a)

\* A question with two rows follows the one by position, if it is not answered
\* and has no branch for any answer.
LEMMA UnansweredStepsOn ==
  ASSUME TemplateOK, ~MixedBranches, NEW a, NEW q \in Questions, a[q] = Unanswered,
         NEW t \in QuestionMap(q), t.to # NextQuestion(a, q)
  PROVE  NextQuestion(a, q) = ByPosition(q).to
<1>1. Condition(a, q) = Any
  BY FlowAssumption DEF Condition
<1>2. PICK u \in QuestionMap(q) : u.to = NextQuestion(a, q) /\ u.on = Any
  BY <1>1, RowFollowed
<1>3. CASE u = ByPosition(q)
  BY <1>2, <1>3
<1>4. CASE u # ByPosition(q)
  <2>1. u \in branch /\ u.from = q
    BY <1>4 DEF QuestionMap
  <2>2. ByPosition(q).on = Any
    BY StepByPosition
  <2>3. t \in branch /\ t.from = q
    BY <1>2, <2>1, <2>2 DEF QuestionMap
  <2>4. t.on = Any
    BY <1>2, <2>1, <2>3 DEF MixedBranches
  <2>5. t = u
    BY <1>2, <2>1, <2>3, <2>4 DEF TemplateOK
  <2> QED BY <1>2, <2>5
<1> QED BY <1>3, <1>4

LEMMA PathElements ==
  ASSUME NEW map, NEW start, NEW p, IsPath(map, start, p)
  PROVE  Len(p) \in Nat /\ \A i \in 1 .. Len(p) - 1 : p[i] \in Questions
<1>1. CASE IsTrail(map, start, p)
  BY <1>1 DEF IsTrail
<1>2. ASSUME NEW g, IsTrail(map, start, g), p = Append(g, End)
      PROVE  Len(p) \in Nat /\ \A i \in 1 .. Len(p) - 1 : p[i] \in Questions
  <2>1. g \in Seq(Questions) /\ Len(g) \in Nat
    BY <1>2 DEF IsTrail
  <2>2. g \in Seq(Questions \cup {End})
    BY <2>1
  <2>3. Len(p) = Len(g) + 1 /\ \A i \in 1 .. Len(g) : p[i] = g[i]
    BY <1>2, <2>1, <2>2
  <2> QED BY <2>1, <2>3
<1> QED BY <1>1, <1>2 DEF IsPath

\* A path that leads to where the map ends is a trail, and ends there.
LEMMA PathToEnd ==
  ASSUME TemplateOK, NEW s \in Questions, NEW q \in Questions, NEW p,
         IsPath(SectionMap(s, q), s, p), q \in Elements(p)
  PROVE  IsTrail(SectionMap(s, q), s, p) /\ p[Len(p)] = q
<1> DEFINE map == SectionMap(s, q)
<1>1. RowsAhead(map)
  BY SectionAhead
<1>2. s \in Nat /\ q \in Nat
  BY OneIsQuestion
<1>3. ASSUME NEW x \in Questions, Targets(map, x) # {} PROVE x < q
  BY <1>2, <1>3, SectionTargets DEF TemplateOK
<1> HIDE DEF map
<1>4. ASSUME NEW g, IsTrail(map, s, g), q \in Elements(g) PROVE g[Len(g)] = q
  <2>1. Len(g) \in Nat /\ \A i \in 1 .. Len(g) : g[i] \in Questions
    BY <1>4 DEF IsTrail
  <2>2. PICK i \in 1 .. Len(g) : g[i] = q
    <3>1. DOMAIN g = 1 .. Len(g)
      BY <1>4 DEF IsTrail
    <3> QED BY <1>4, <3>1 DEF Elements
  <2>3. ASSUME i # Len(g) PROVE FALSE
    <3>1. i \in 1 .. Len(g) - 1
      BY <2>1, <2>3
    <3>2. g[i + 1] \in Targets(map, q)
      BY <1>4, <2>2, <3>1 DEF IsTrail
    <3>3. q < q
      BY <1>3, <3>2
    <3> QED BY <1>2, <3>3
  <2> QED BY <2>2, <2>3
<1>5. CASE IsTrail(map, s, p)
  BY <1>4, <1>5 DEF map
<1>6. ASSUME NEW g, IsTrail(map, s, g), End \in Targets(map, g[Len(g)]), p = Append(g, End)
      PROVE  FALSE
  <2>1. g \in Seq(Questions) /\ Len(g) \in Nat /\ Len(g) >= 1
    BY <1>6 DEF IsTrail
  <2>2. g \in Seq(Questions \cup {End})
    BY <2>1
  <2>3. Len(p) = Len(g) + 1 /\ p[Len(g) + 1] = End /\ DOMAIN p = 1 .. Len(g) + 1
        /\ \A i \in 1 .. Len(g) : p[i] = g[i]
    BY <1>6, <2>1, <2>2
  <2>4. PICK i \in 1 .. Len(g) + 1 : p[i] = q
    BY <2>3 DEF Elements
  <2>5. i # Len(g) + 1
    BY <2>3, <2>4, EndIsNoQuestion
  <2>6. i \in 1 .. Len(g) /\ g[i] = q /\ DOMAIN g = 1 .. Len(g)
    BY <2>1, <2>3, <2>4, <2>5
  <2>7. g[Len(g)] = q
    BY <1>4, <1>6, <2>6 DEF Elements
  <2>8. q < q
    BY <1>3, <1>6, <2>7
  <2> QED BY <1>2, <2>8
<1> QED BY <1>5, <1>6 DEF IsPath, map

\* What _walk_forward finds is shown, and leads to the question it was to find.
LEMMA FoundIsShown ==
  ASSUME TemplateOK, ~zero, ~MixedBranches, NEW a, OnTheWay(a),
         NEW s \in trunk, NEW q \in Questions, NEW p,
         IsPath(SectionMap(s, q), s, p), q \in Elements(p), NEW x \in FoundOn(p, q, a)
  PROVE  x \in Shown(a) /\ NextQuestion(a, x) = q
<1> DEFINE map == SectionMap(s, q)
<1>1. s \in Questions /\ s \in Shown(a) /\ trunk \subseteq Shown(a) /\ Shown(a) \subseteq Questions
  BY TrunkIsShown, ShownIsLeast DEF TemplateOK
<1>2. IsTrail(map, s, p) /\ p[Len(p)] = q /\ RowsAhead(map)
  BY <1>1, PathToEnd, SectionAhead
<1>3. /\ Len(p) \in Nat /\ Len(p) >= 1 /\ p[1] = s /\ DOMAIN p = 1 .. Len(p)
      /\ \A i \in 1 .. Len(p) : p[i] \in Questions
  BY <1>2 DEF IsTrail
<1>4. PICK k \in 1 .. Len(p) - 1 :
        /\ x = p[k] /\ NextQuestion(a, p[k]) = q
        /\ \A j \in 1 .. k - 1 : /\ NextQuestion(a, p[j]) # q
                                 /\ NextQuestion(a, p[j]) \in Elements(p)
  BY DEF FoundOn
<1> SUFFICES ASSUME p[k] \notin Shown(a) PROVE FALSE
  BY <1>4
<1>5. \A i \in 1 .. Len(p) : p[i] \in Nat /\ \A j \in 1 .. Len(p) : j < i => p[j] < p[i]
  BY <1>2, <1>3, TrailRises, OneIsQuestion
\* m is the last before k that is shown; the next question is one behind k.
<1> DEFINE shown == {i \in 1 .. k : p[i] \in Shown(a)}
           missed == {k - i : i \in shown}
<1>6. PICK m \in shown : \A i \in shown : i <= m
  <2>1. 1 \in shown
    BY <1>1, <1>3
  <2>2. missed \subseteq Nat
    <3>1. \A i \in shown : k - i \in Nat
      BY <1>4
    <3> QED BY <3>1
  <2>3. missed # {}
    BY <2>1
  <2>4. PICK d \in missed : \A e \in missed : d <= e
    <3> HIDE DEF missed
    <3> QED BY <2>2, <2>3, LeastNumber
  <2>5. PICK m \in shown : d = k - m
    OBVIOUS
  <2>6. ASSUME NEW i \in shown PROVE i <= m
    <3>1. k - i \in missed
      OBVIOUS
    <3>2. k - m <= k - i
      BY <2>4, <2>5, <3>1
    <3> QED BY <1>4, <3>2
  <2> QED BY <2>6
<1>7. m \in 1 .. k - 1 /\ m \in 1 .. Len(p) /\ k \in 1 .. Len(p) /\ p[m] \in Shown(a)
  <2>1. m # k
    OBVIOUS
  <2> QED BY <1>3, <1>4, <2>1
<1> HIDE DEF shown, missed
<1>8. PICK i \in 1 .. Len(p) : p[i] = NextQuestion(a, p[m])
  BY <1>3, <1>4, <1>7 DEF Elements
<1>9. p[i] \in Shown(a) /\ p[i] # q
  <2>1. p[i] # End
    BY <1>3, <1>8, EndIsNoQuestion
  <2> QED BY <1>4, <1>7, <1>8, <2>1, ShownIsLeast DEF Follows
<1>10. p[i] > p[m]
  <2>1. p[m] \in Questions /\ p[i] # End
    BY <1>3, <1>7, EndIsNoQuestion
  <2> QED BY <1>8, <2>1, NextOnwards DEF Onwards
<1>11. i > k
  <2>1. i > m
    <3>1. ~(i < m) /\ i # m
      BY <1>5, <1>7, <1>10
    <3> QED BY <1>7, <3>1
  <2>2. i \notin shown
    BY <1>3, <1>6, <1>7, <2>1 DEF shown
  <2> QED BY <1>3, <1>7, <1>9, <2>2 DEF shown
<1>12. k + 1 \in 1 .. Len(p) /\ p[k] < p[k + 1] /\ p[k + 1] <= p[i] /\ p[i] < q
  <2>1. k + 1 \in 1 .. Len(p) /\ k < k + 1 /\ (k + 1 = i \/ k + 1 < i)
    BY <1>3, <1>7, <1>11
  <2>2. i # Len(p)
    BY <1>2, <1>9
  <2>3. i < Len(p) /\ Len(p) \in 1 .. Len(p)
    <3>1. Len(p) \in Nat /\ Len(p) >= 1
      BY <1>3
    <3> QED BY <2>2, <3>1
  <2>4. p[k] < p[k + 1]
    BY <1>5, <1>7, <2>1
  <2>5. p[k + 1] <= p[i]
    BY <1>5, <2>1
  <2>6. p[i] < p[Len(p)]
    BY <1>5, <2>3
  <2> QED BY <1>2, <2>1, <2>4, <2>5, <2>6
<1>13. PICK t \in QuestionMap(p[k]) : t.to = p[k + 1]
  <2>1. p[k + 1] \in Targets(map, p[k])
    BY <1>2, <1>4 DEF IsTrail
  <2>2. p[k] \in Questions /\ s \in Nat /\ q \in Nat
    BY <1>1, <1>3, <1>7, OneIsQuestion
  <2>3. Targets(map, p[k]) = IF s <= p[k] /\ p[k] < q THEN {t.to : t \in QuestionMap(p[k])} ELSE {}
    BY <2>2, SectionTargets DEF TemplateOK
  <2>4. p[k + 1] \in {t.to : t \in QuestionMap(p[k])}
    <3> HIDE DEF map
    <3> QED BY <2>1, <2>3
  <2> QED BY <2>4
<1>14. a[p[k]] = Unanswered
  BY <1>1, <1>3, <1>7 DEF OnTheWay
<1>15. p[k + 1] # q /\ p[k] \in Questions /\ p[k] \in Nat /\ p[k + 1] \in Nat /\ q \in Nat
  <2>1. p[k] \in Nat /\ p[k + 1] \in Nat /\ p[i] \in Nat /\ q \in Nat
    BY <1>5, <1>7, <1>12, OneIsQuestion
  <2>2. p[k] \in Questions
    BY <1>3, <1>7
  <2> QED BY <1>12, <2>1, <2>2
<1>16. ByPosition(p[k]).to = q
  BY <1>4, <1>13, <1>14, <1>15, UnansweredStepsOn
<1>17. q = p[k] + 1
  BY <1>15, <1>16, StepByPosition, EndIsNoQuestion
<1>18. p[i] \in Nat
  BY <1>5
<1> QED BY <1>12, <1>15, <1>17, <1>18

LEMMA PrecedingIs ==
  ASSUME NEW q \in Questions
  PROVE  /\ Preceding(q) \subseteq Questions /\ IsFiniteSet(Questions)
         /\ q = 1 => Preceding(q) = {}
         /\ q # 1 => Preceding(q) # {} /\ q - 1 \in Questions /\ Highest(Preceding(q)) = q - 1
<1>1. Preceding(q) \subseteq Questions /\ q \in Nat
  BY OneIsQuestion DEF Preceding
<1>2. IsFiniteSet(Questions)
  BY FlowAssumption, FS_Interval DEF Questions
<1>3. q = 1 => Preceding(q) = {}
  BY DEF Preceding, Questions
<1>4. ASSUME q # 1 PROVE Preceding(q) # {} /\ q - 1 \in Questions /\ Highest(Preceding(q)) = q - 1
  <2>1. q - 1 \in Questions /\ q - 1 < q
    BY <1>4, FlowAssumption DEF Questions
  <2>2. q - 1 \in Preceding(q)
    BY <2>1 DEF Preceding
  <2>3. Highest(Preceding(q)) \in Preceding(q) /\ q - 1 <= Highest(Preceding(q))
    BY <1>1, <2>2, HighestIn
  <2>4. Highest(Preceding(q)) < q /\ Highest(Preceding(q)) \in Nat
    BY <1>1, <2>3, OneIsQuestion DEF Preceding
  <2>5. Highest(Preceding(q)) = q - 1
    BY <1>1, <2>3, <2>4
  <2> QED BY <2>1, <2>2, <2>5
<1> QED BY <1>1, <1>2, <1>3, <1>4

LEMMA PrevQuestionsAre ==
  ASSUME TemplateOK, NEW q \in Questions, NEW a
  PROVE  /\ q = 1 => PrevQuestions(q, a) = {Away}
         /\ q # 1 => q - 1 \in Questions
         /\ q # 1 /\ q - 1 \in trunk => PrevQuestions(q, a) = {q - 1}
         /\ q # 1 /\ q - 1 \notin trunk => PrevQuestions(q, a) = PrevByAnswers(q, a)
<1>1. /\ Preceding(q) \subseteq Questions /\ IsFiniteSet(Questions)
      /\ q = 1 => Preceding(q) = {}
      /\ q # 1 => Preceding(q) # {} /\ q - 1 \in Questions /\ Highest(Preceding(q)) = q - 1
  BY PrecedingIs
<1>2. Cardinality({}) = 0 /\ Cardinality({q - 1}) = 1
  BY FS_EmptySet, FS_Singleton
<1>3. CASE q = 1
  <2>1. PotentialPrev(q) = {}
    BY <1>1, <1>3 DEF PotentialPrev
  <2> QED BY <1>2, <1>3, <2>1 DEF PrevQuestions
<1>4. CASE q # 1 /\ q - 1 \in trunk
  <2>1. PotentialPrev(q) = {q - 1}
    BY <1>1, <1>4 DEF PotentialPrev
  <2> QED BY <1>1, <1>2, <1>4, <2>1 DEF PrevQuestions
<1>5. CASE q # 1 /\ q - 1 \notin trunk
  <2> DEFINE before == Preceding(q) \cap trunk
             low == Highest(before)
             potential == {r \in Preceding(q) : r >= low}
  <2>1. 1 \in before
    <3>1. 1 < q
      BY <1>5 DEF Questions
    <3> QED BY <3>1, OneIsQuestion DEF Preceding, TemplateOK
  <2>2. low \in before
    <3>1. before \subseteq Questions
      BY <1>1
    <3> HIDE DEF before
    <3> QED BY <2>1, <3>1, HighestIn
  <2>3. PotentialPrev(q) = potential
    <3>1. before # {} /\ Preceding(q) # {} /\ Highest(Preceding(q)) \notin trunk
      BY <1>1, <1>5, <2>1
    <3> QED BY <3>1 DEF PotentialPrev
  <2>4. low # q - 1 /\ low \in Questions /\ low < q /\ q - 1 \in Questions
    BY <1>1, <1>5, <2>2 DEF Preceding
  <2> HIDE DEF low
  <2>5. low \in potential /\ q - 1 \in potential
    BY <2>4 DEF Preceding, Questions
  <2>6. IsFiniteSet(potential)
    BY <1>1, FS_Subset
  <2> HIDE DEF potential
  <2>7. Cardinality(potential) # 0 /\ Cardinality(potential) # 1
    <3>1. potential # {}
      BY <2>5
    <3>2. Cardinality(potential) = 1 => \E x : potential = {x}
      BY <2>6, FS_Singleton
    <3> QED BY <2>4, <2>5, <2>6, <3>1, <3>2, FS_EmptySet
  <2> QED BY <1>1, <1>5, <2>3, <2>7 DEF PrevQuestions
<1> QED BY <1>1, <1>3, <1>4, <1>5

LEMMA WalkForwardIs ==
  ASSUME TemplateOK, NEW s \in Questions, NEW q \in Questions, NEW a, NEW x \in WalkForward(s, q, a)
  PROVE  \/ x = Failed
         \/ \E p : IsPath(SectionMap(s, q), s, p) /\ q \in Elements(p) /\ x \in FoundOn(p, q, a)
<1>1. RowsAhead(SectionMap(s, q))
  BY SectionAhead
<1>2. \A p : p \in Paths(SectionMap(s, q), s) => IsPath(SectionMap(s, q), s, p)
  BY <1>1, PathsAre
<1> DEFINE paths == {p \in Paths(SectionMap(s, q), s) : q \in Elements(p)}
           found == UNION {FoundOn(p, q, a) : p \in paths}
<1>3. WalkForward(s, q, a) = IF paths = {} \/ found = {} THEN {Failed} ELSE found
  BY DEF WalkForward
<1>4. x \in found => \E p \in paths : x \in FoundOn(p, q, a)
  OBVIOUS
<1>5. \A p \in paths : IsPath(SectionMap(s, q), s, p) /\ q \in Elements(p)
  BY <1>2
<1> HIDE DEF found, paths
<1> QED BY <1>3, <1>4, <1>5

\* Where PrevByAnswers begins to walk.
LEMMA PrevByAnswersIs ==
  ASSUME TemplateOK, NEW q \in Questions, NEW a, NEW x \in PrevByAnswers(q, a)
  PROVE  \/ x = Failed
         \/ \E s \in trunk : \E p : /\ IsPath(SectionMap(s, q), s, p) /\ q \in Elements(p)
                                    /\ x \in FoundOn(p, q, a)
<1> DEFINE before == {r \in trunk : a[r] # Unanswered} \cap Preceding(q)
<1>1. CASE before = {}
  BY <1>1 DEF PrevByAnswers
<1>2. CASE before # {}
  <2>1. PrevByAnswers(q, a) = WalkForward(Highest(before), q, a)
    BY <1>2 DEF PrevByAnswers
  <2>2. before \subseteq Questions
    BY DEF TemplateOK
  <2>3. Highest(before) \in before
    <3> HIDE DEF before
    <3> QED BY <1>2, <2>2, HighestIn
  <2>4. Highest(before) \in trunk /\ Highest(before) \in Questions
    BY <2>2, <2>3
  <2> HIDE DEF before
  <2> QED BY <2>1, <2>4, WalkForwardIs
<1> QED BY <1>1, <1>2

LEMMA PrevIsAPage ==
  ASSUME TemplateOK, NEW q \in Questions, NEW a
  PROVE  PrevQuestions(q, a) \subseteq Questions \cup {Away, Failed}
<1>1. ASSUME NEW x \in PrevByAnswers(q, a) PROVE x \in Questions \cup {Failed}
  <2> SUFFICES ASSUME x # Failed PROVE x \in Questions
    OBVIOUS
  <2>1. PICK s \in trunk : \E p : /\ IsPath(SectionMap(s, q), s, p) /\ q \in Elements(p)
                                  /\ x \in FoundOn(p, q, a)
    BY PrevByAnswersIs
  <2>2. PICK p : IsPath(SectionMap(s, q), s, p) /\ x \in FoundOn(p, q, a)
    BY <2>1
  <2> QED BY <2>2, PathElements DEF FoundOn
<1> QED BY <1>1, PrevQuestionsAre

\* Whatever page the way back leads to, it is one of those shown.
LEMMA PrevIsOnTheWay ==
  ASSUME TemplateOK, ~MixedBranches, NEW q \in Questions, NEW a, OnTheWay(a),
         NEW x \in PrevQuestions(q, a), x \in Questions
  PROVE  x \in trunk \/ x \in Shown(a)
<1>1. Away \notin Questions /\ Failed \notin Questions
  BY FlowAssumption DEF Away, Failed, Questions
<1>2. CASE zero
  BY <1>2 DEF TemplateOK
<1>3. CASE ~zero /\ q # 1 /\ q - 1 \notin trunk
  <2>1. x \in PrevByAnswers(q, a) /\ x # Failed
    BY <1>1, <1>3, PrevQuestionsAre
  <2>2. PICK s \in trunk : \E p : /\ IsPath(SectionMap(s, q), s, p) /\ q \in Elements(p)
                                  /\ x \in FoundOn(p, q, a)
    BY <2>1, PrevByAnswersIs
  <2> QED BY <1>3, <2>2, FoundIsShown
<1>4. CASE q = 1 \/ q - 1 \in trunk
  BY <1>1, <1>4, PrevQuestionsAre
<1> QED BY <1>2, <1>3, <1>4

LEMMA ShownHasPrev ==
  ASSUME TemplateOK, NEW a, NEW q \in Shown(a), q # 1
  PROVE  \E r \in Shown(a) : r \in Questions /\ r < q /\ NextQuestion(a, r) = q
<1>1. PICK r \in Shown(a) : NextQuestion(a, r) = q
  <2> SUFFICES ASSUME \A r \in Shown(a) : NextQuestion(a, r) # q PROVE FALSE
    OBVIOUS
  <2> DEFINE C == Shown(a) \ {q}
  <2>1. 1 \in C /\ C \in SUBSET Questions /\ Follows(a, C)
    BY ShownIsLeast DEF Follows
  <2>2. Shown(a) \subseteq C
    <3> HIDE DEF C
    <3> QED BY <2>1, ShownIsLeast
  <2> QED BY <2>2
<1>2. r \in Questions /\ q \in Questions
  BY ShownIsLeast
<1>3. q > r
  BY <1>1, <1>2, NextOnwards, EndIsNoQuestion DEF Onwards
<1> QED BY <1>1, <1>2, <1>3 DEF Questions

LEMMA TrunkLeadsNext ==
  ASSUME TemplateOK, NEW a, NEW q \in Shown(a), q # 1, q - 1 \in trunk
  PROVE  q - 1 \in Questions /\ q - 1 \in Shown(a) /\ NextQuestion(a, q - 1) = q
<1>1. PICK r \in Shown(a) : r \in Questions /\ r < q /\ NextQuestion(a, r) = q
  BY ShownHasPrev
<1>2. q \in Questions /\ q # End /\ q - 1 \in Questions
  BY ShownIsLeast, EndIsNoQuestion DEF TemplateOK
<1>3. Onwards(r, q)
  BY <1>1, NextOnwards
<1>4. r = q - 1
  <2>1. CASE zero
    BY <1>1, <1>2, <1>3, <2>1 DEF Onwards, Questions
  <2>2. CASE ~zero
    <3>1. q - 1 > r => q <= q - 1
      BY <1>3, <2>2 DEF Onwards
    <3> QED BY <1>1, <1>2, <3>1 DEF Questions
  <2> QED BY <2>1, <2>2
<1> QED BY <1>1, <1>2, <1>4

\* The walk finds the way the form took.
LEMMA WayBackIsFound ==
  ASSUME TemplateOK, ~zero, NEW a, NEW s \in trunk, NEW q \in Shown(a), s < q
  PROVE  Failed \notin WalkForward(s, q, a)
<1>1. s \in Shown(a) /\ s \in Questions /\ q \in Questions /\ s \in Nat /\ q \in Nat
  BY TrunkIsShown, ShownIsLeast, OneIsQuestion DEF TemplateOK
<1>2. PICK p : IsTrail(Taken(a), s, p) /\ p[Len(p)] = q
  BY <1>1, TrailToShown
<1>3. /\ Len(p) \in Nat /\ Len(p) >= 1 /\ p[1] = s /\ DOMAIN p = 1 .. Len(p)
      /\ \A i \in 1 .. Len(p) : p[i] \in Questions
  BY <1>2 DEF IsTrail
<1>4. /\ IsTrail(SectionMap(s, q), s, p)
      /\ \A i \in 1 .. Len(p) - 1 : p[i + 1] = NextQuestion(a, p[i])
  <2>1. s <= s /\ p[Len(p)] <= q
    BY <1>1, <1>2
  <2> QED BY <1>1, <1>2, <2>1, TakenTrail
<1>5. Targets(SectionMap(s, q), q) = {}
  BY <1>1, SectionTargets DEF TemplateOK
<1>6. p \in Paths(SectionMap(s, q), s)
  <2>1. IsPath(SectionMap(s, q), s, p)
    BY <1>2, <1>4, <1>5 DEF IsPath
  <2> QED BY <1>1, <2>1, PathsAre, SectionAhead
<1>7. q \in Elements(p)
  BY <1>2, <1>3 DEF Elements
<1>8. Len(p) # 1
  BY <1>1, <1>2, <1>3
<1> DEFINE k == Len(p) - 1
<1>9. k \in 1 .. Len(p) - 1 /\ k \in 1 .. Len(p) /\ k + 1 = Len(p) /\ Len(p) \in 1 .. Len(p)
  BY <1>3, <1>8
<1>10. NextQuestion(a, p[k]) = q
  BY <1>2, <1>4, <1>9
<1>11. ASSUME NEW j \in 1 .. k - 1
       PROVE  NextQuestion(a, p[j]) # q /\ NextQuestion(a, p[j]) \in Elements(p)
  <2>1. j \in 1 .. Len(p) - 1 /\ j + 1 \in 1 .. Len(p) /\ j + 1 < Len(p)
    BY <1>3, <1>9
  <2>2. NextQuestion(a, p[j]) = p[j + 1]
    BY <1>4, <2>1
  <2>3. p[j + 1] < p[Len(p)]
    BY <1>2, <1>9, <2>1, TrailRises, TakenTargets
  <2> QED BY <1>1, <1>2, <1>3, <2>1, <2>2, <2>3 DEF Elements
<1>12. p[k] \in FoundOn(p, q, a)
  <2> HIDE DEF k
  <2> QED BY <1>9, <1>10, <1>11 DEF FoundOn
<1> DEFINE paths == {r \in Paths(SectionMap(s, q), s) : q \in Elements(r)}
           found == UNION {FoundOn(r, q, a) : r \in paths}
<1>13. WalkForward(s, q, a) = IF paths = {} \/ found = {} THEN {Failed} ELSE found
  BY DEF WalkForward
<1>14. p \in paths
  BY <1>6, <1>7
<1>15. p[k] \in found
  <2> HIDE DEF paths
  <2> QED BY <1>12, <1>14
<1>16. found \subseteq Questions
  <2> SUFFICES ASSUME NEW r \in paths, NEW x \in FoundOn(r, q, a) PROVE x \in Questions
    OBVIOUS
  <2>1. IsPath(SectionMap(s, q), s, r)
    BY <1>1, PathsAre, SectionAhead
  <2> QED BY <2>1, PathElements DEF FoundOn
<1>17. Failed \notin Questions
  BY FlowAssumption DEF Failed, Questions
<1> HIDE DEF paths, found
<1> QED BY <1>13, <1>14, <1>15, <1>16, <1>17

LEMMA PrevLeadsBack ==
  ASSUME TemplateOK, ~MixedBranches, NEW a, OnTheWay(a), NEW q \in Shown(a), q # 1,
         \A r \in Shown(a) : r <= q => a[r] # Unanswered,
         NEW x \in PrevQuestions(q, a)
  PROVE  x \in Questions /\ NextQuestion(a, x) = q /\ x \in Shown(a)
<1>1. q \in Questions /\ q \in Nat
  BY ShownIsLeast, OneIsQuestion
<1>2. CASE q - 1 \in trunk
  <2>1. x = q - 1
    BY <1>1, <1>2, PrevQuestionsAre
  <2> QED BY <1>2, <2>1, TrunkLeadsNext
<1>3. CASE q - 1 \notin trunk
  <2>1. ~zero
    BY <1>1, <1>3, PrevQuestionsAre DEF TemplateOK
  <2> DEFINE before == {r \in trunk : a[r] # Unanswered} \cap Preceding(q)
  <2>2. 1 \in before
    <3>1. 1 \in Shown(a) /\ 1 \in trunk /\ 1 < q /\ 1 <= q
      BY <1>1, ShownIsLeast DEF TemplateOK, Questions
    <3>2. a[1] # Unanswered
      BY <3>1
    <3> QED BY <3>1, <3>2, OneIsQuestion DEF Preceding
  <2>3. x \in WalkForward(Highest(before), q, a)
    <3>1. PrevByAnswers(q, a) = WalkForward(Highest(before), q, a)
      BY <2>2 DEF PrevByAnswers
    <3> QED BY <1>1, <1>3, <3>1, PrevQuestionsAre
  <2>4. Highest(before) \in trunk /\ Highest(before) < q /\ Highest(before) \in Questions
    <3>1. before \subseteq Questions
      BY DEF TemplateOK
    <3>2. Highest(before) \in before
      <4> HIDE DEF before
      <4> QED BY <2>2, <3>1, HighestIn
    <3>3. \A r \in before : r \in trunk /\ r < q /\ r \in Questions
      BY DEF TemplateOK, Preceding
    <3> HIDE DEF before
    <3> QED BY <3>2, <3>3
  <2> HIDE DEF before
  <2>5. x # Failed
    BY <2>1, <2>3, <2>4, WayBackIsFound
  <2>6. PICK p : /\ IsPath(SectionMap(Highest(before), q), Highest(before), p)
                 /\ q \in Elements(p) /\ x \in FoundOn(p, q, a)
    BY <1>1, <2>3, <2>4, <2>5, WalkForwardIs
  <2>7. x \in Shown(a) /\ NextQuestion(a, x) = q
    BY <1>1, <2>1, <2>4, <2>6, FoundIsShown
  <2> QED BY <2>7, ShownIsLeast
<1> QED BY <1>2, <1>3

-----------------------------------------------------------------------------
(***************************************************************************)
(* What a post does to the answers.                                        *)
(***************************************************************************)
Filled == [Questions -> Conditions \cup {Given, Unanswered}]

\* No question whose answers lead to different questions is one of those that
\* never notice that their answer has changed (ChangedCondition).
BranchesListed == \A b \in branch : Kind[b.from] # "notlisted"

Saved(q, c) == [data EXCEPT ![q] = c]
SameSteps(a, b) == \A r \in Questions : NextQuestion(a, r) = NextQuestion(b, r)

LEMMA AnswersAre ==
  ASSUME NEW q \in Questions, NEW c \in Answers(q)
  PROVE  c \in Conditions \cup {Given} /\ c # Unanswered
<1>1. Unanswered \notin Conditions /\ Given # Unanswered
  BY FlowAssumption DEF Given, Unanswered
<1> QED BY <1>1 DEF Answers

LEMMA HideAfterFilled ==
  ASSUME NEW a \in Filled, NEW q
  PROVE  HideAfter(a, q) \in Filled
BY DEF HideAfter, Filled

LEMMA ValidateIsBoolean == \A a : ValidateData(a) \in BOOLEAN
BY DEF ValidateData

\* Either nothing is saved, or answers are hidden and the section validated, or
\* the answer alone is saved, which leads where the old one did.
Unsaved == UNCHANGED <<data, okay, valid>>
SavedAndHidden(q, c) ==
  /\ BranchingPossible(q)
  /\ data' = HideAfter(Saved(q, c), q)
  /\ okay' = {r \in Questions : data'[r] # Unanswered}
  /\ valid' = ValidateData(data')
SavedAlone(q, c) ==
  /\ data' = Saved(q, c)
  /\ okay' = okay \cup {q}
  /\ valid' \in BOOLEAN
  /\ BranchesListed => SameSteps(Saved(q, c), data)
  /\ valid' => valid \/ ValidateData(data')

LEMMA SaveChoiceCases ==
  ASSUME TemplateOK, data \in Filled, valid \in BOOLEAN,
         NEW q \in Questions, NEW c \in Answers(q), SaveChoice(q, c)
  PROVE  Unsaved \/ SavedAndHidden(q, c) \/ SavedAlone(q, c)
<1>1. CASE data[q] = c
  BY <1>1 DEF SaveChoice, Unsaved
<1>2. CASE data[q] # c /\ ChangedCondition(q, data[q], c)
  BY <1>2 DEF SaveChoice, SavedAndHidden, Saved, ChangedCondition
<1>3. CASE data[q] # c /\ ~ChangedCondition(q, data[q], c)
  <2>1. /\ data' = Saved(q, c)
        /\ okay' = okay \cup {q}
        /\ valid' = (valid \/ (q \notin okay /\ ValidateData(Saved(q, c))))
    BY <1>3 DEF SaveChoice, Saved
  <2>2. ASSUME BranchesListed, NEW r \in Questions
        PROVE  NextQuestion(Saved(q, c), r) = NextQuestion(data, r)
    <3>1. CASE r # q
      <4>1. Saved(q, c)[r] = data[r]
        BY <3>1 DEF Saved, Filled
      <4> QED BY <4>1, NextSame
    <3>2. CASE r = q /\ ~BranchingPossible(q)
      BY <3>2, NextPlain
    <3>3. CASE r = q /\ BranchingPossible(q)
      <4>1. Kind[q] = "notlisted"
        BY <1>3, <3>3, FlowAssumption DEF ChangedCondition, BranchingPossible
      <4>2. \A b \in branch : b.from # q
        BY <2>2, <4>1 DEF BranchesListed
      <4> QED BY <3>3, <4>2, NextWithoutBranch
    <3> QED BY <3>1, <3>2, <3>3
  <2>3. valid' \in BOOLEAN /\ (valid' => valid \/ ValidateData(data'))
    BY <2>1
  <2> QED BY <2>1, <2>2, <2>3 DEF SavedAlone, SameSteps
<1> QED BY <1>1, <1>2, <1>3

-----------------------------------------------------------------------------
(***************************************************************************)
(* Types.                                                                  *)
(***************************************************************************)
LEMMA InitType == Init => TypeOK
<1> SUFFICES ASSUME Init PROVE TypeOK
  OBVIOUS
<1>1. 1 \in trunk /\ trunk \subseteq Questions /\ branch \subseteq Branches
  BY InitTemplate DEF TemplateOK, RowsOfTheSection
<1>2. zero \in BOOLEAN /\ okay \subseteq Questions /\ valid \in BOOLEAN /\ at \in Questions \cup {Away, Failed}
  BY DEF Init
<1>3. data \in [Questions -> Conditions \cup {Given, Unanswered}]
  BY DEF Init
<1> QED BY <1>1, <1>2, <1>3 DEF TypeOK

LEMMA SaveChoiceType ==
  ASSUME TemplateOK, TypeOK, NEW q \in Questions, NEW c \in Answers(q), SaveChoice(q, c)
  PROVE  data' \in Filled /\ okay' \subseteq Questions /\ valid' \in BOOLEAN
<1>1. data \in Filled /\ okay \subseteq Questions /\ valid \in BOOLEAN
  BY DEF TypeOK, Filled
<1>2. Saved(q, c) \in Filled
  BY <1>1, AnswersAre DEF Saved, Filled
<1>3. Unsaved \/ SavedAndHidden(q, c) \/ SavedAlone(q, c)
  BY <1>1, SaveChoiceCases
<1>4. CASE Unsaved
  BY <1>1, <1>4 DEF Unsaved
<1>5. CASE SavedAndHidden(q, c)
  BY <1>2, <1>5, HideAfterFilled, ValidateIsBoolean DEF SavedAndHidden
<1>6. CASE SavedAlone(q, c)
  BY <1>1, <1>2, <1>6 DEF SavedAlone
<1> QED BY <1>3, <1>4, <1>5, <1>6

LEMMA NextType == TemplateOK /\ TypeOK /\ [Next]_vars => TypeOK'
<1> SUFFICES ASSUME TemplateOK, TypeOK, [Next]_vars PROVE TypeOK'
  OBVIOUS
<1>1. /\ 1 \in trunk' /\ trunk' \subseteq Questions
      /\ branch' \subseteq Branches /\ zero' \in BOOLEAN
  BY TemplateStays DEF template, TypeOK
<1> DEFINE Rest == data' \in Filled /\ okay' \subseteq Questions /\ valid' \in BOOLEAN
           Page == at' \in Questions \cup {Away, Failed}
<1>2. Rest /\ Page => TypeOK'
  BY <1>1 DEF TypeOK, Filled, Questions, Branches, Away, Failed, End
<1>3. data \in Filled /\ okay \subseteq Questions /\ valid \in BOOLEAN /\ at \in Questions \cup {Away, Failed}
  BY DEF TypeOK, Filled
<1>4. CASE UNCHANGED vars
  BY <1>2, <1>3, <1>4 DEF vars
<1>5. CASE Leave
  BY <1>2, <1>3, <1>5 DEF Leave
<1>6. ASSUME NEW q \in Questions, Open(q) PROVE TypeOK'
  BY <1>2, <1>3, <1>6 DEF Open
<1>7. ASSUME NEW q \in Questions, PostInvalid(q) PROVE TypeOK'
  <2>1. Rest
    BY <1>3, <1>7 DEF PostInvalid
  <2>2. Page
    BY <1>3, <1>7 DEF PostInvalid
  <2> QED BY <1>2, <2>1, <2>2
<1>8. ASSUME NEW q \in Questions, NEW c \in Answers(q), PostAndNext(q, c) PROVE TypeOK'
  <2>1. SaveChoice(q, c) /\ at' = NextQuestion(data', q)
    BY <1>8 DEF PostAndNext
  <2>2. at' \in Questions \cup {Away}
    <3>1. Onwards(q, NextQuestion(data', q))
      BY NextOnwards
    <3> QED BY <2>1, <3>1 DEF Onwards, Away, End
  <2>3. Rest
    BY <2>1, SaveChoiceType
  <2> QED BY <1>2, <2>2, <2>3
<1>9. ASSUME NEW q \in Questions, NEW c \in Answers(q), PostAndPrev(q, c) PROVE TypeOK'
  <2>1. SaveChoice(q, c) /\ at' \in PrevQuestions(q, data')
    BY <1>9 DEF PostAndPrev
  <2>2. Page
    BY <2>1, PrevIsAPage
  <2>3. Rest
    BY <2>1, SaveChoiceType
  <2> QED BY <1>2, <2>2, <2>3
<1> QED BY <1>4, <1>5, <1>6, <1>7, <1>8, <1>9 DEF Next

LEMMA TemplateInvariant == Spec => []TemplateOK
<1>1. TemplateOK /\ [Next]_vars => TemplateOK'
  BY TemplateStays, NextTemplate
<1> QED BY InitTemplate, <1>1, PTL DEF Spec

\* Every page, answer and mark is one there is, and the way back ends on a page of
\* the section, outside of it, or in an error.
THEOREM TypeCorrect == Spec => []TypeOK
<1>1. TemplateOK /\ TypeOK /\ [Next]_vars => TypeOK'
  BY NextType
<1> QED BY InitType, <1>1, TemplateInvariant, PTL DEF Spec

-----------------------------------------------------------------------------
(***************************************************************************)
(* Answers behind a branch not taken.                                      *)
(***************************************************************************)
\* While the section keeps to the way the form takes, so does hiding.
LEMMA HidingKeepsWay ==
  ASSUME TemplateOK, ~zero, data \in Filled, OnTheWay(data),
         NEW q \in Questions, q \in Shown(data), NEW c, BranchingPossible(q)
  PROVE  LET kept == HideAfter(Saved(q, c), q) IN OnTheWay(kept) /\ q \in Shown(kept)
<1> DEFINE saved == Saved(q, c)
           kept == HideAfter(saved, q)
           stop == NextOnTrunk(q)
           next == NextQuestion(saved, q)
           way == Reach(StepsToTrunk(saved, q), next)
<1>1. trunk \subseteq Questions /\ trunk \subseteq Shown(data) /\ trunk \subseteq Shown(kept)
  BY TrunkIsShown DEF TemplateOK
<1>2. \A r \in Questions : r # q => saved[r] = data[r]
  BY DEF Saved, Filled
<1>3. \A r \in Questions : kept[r] = IF r \in Hidden(saved, q) THEN Unanswered ELSE saved[r]
  BY DEF HideAfter
<1>4. \A r \in Questions : r \in Hidden(saved, q) <=>
         /\ Between(q, r)
         /\ next \notin trunk => r \notin way
  BY HiddenIs
<1> HIDE DEF saved, kept
<1>5. \A r \in Questions : r <= q => kept[r] = saved[r]
  BY <1>3, <1>4 DEF Between, Questions
<1>6. q \in Shown(kept)
  <2>1. \A r \in Questions : r < q => NextQuestion(data, r) = NextQuestion(kept, r)
    <3> SUFFICES ASSUME NEW r \in Questions, r < q
                 PROVE  NextQuestion(data, r) = NextQuestion(kept, r)
      OBVIOUS
    <3>1. r # q /\ r <= q
      BY DEF Questions
    <3>2. data[r] = kept[r]
      BY <1>2, <1>5, <3>1
    <3> QED BY <3>2, NextSame
  <2> QED BY <2>1, ShownByBefore
<1>7. ASSUME NEW r \in Questions, kept[r] # Unanswered, r \notin trunk PROVE r \in Shown(kept)
  <2>1. r \notin Hidden(saved, q) /\ saved[r] # Unanswered
    BY <1>3, <1>7
  <2>2. CASE r = q
    BY <1>6, <2>2
  <2>3. CASE r # q
    <3>1. r \in Shown(data)
      BY <1>2, <1>7, <2>1, <2>3 DEF OnTheWay
    <3>2. CASE r < q
      <4>1. \A x \in Questions : x < r => NextQuestion(data, x) = NextQuestion(kept, x)
        <5> SUFFICES ASSUME NEW x \in Questions, x < r
                     PROVE  NextQuestion(data, x) = NextQuestion(kept, x)
          OBVIOUS
        <5>1. x # q /\ x <= q
          BY <3>2 DEF Questions
        <5>2. data[x] = kept[x]
          BY <1>2, <1>5, <5>1
        <5> QED BY <5>2, NextSame
      <4> QED BY <3>1, <4>1, ShownByBefore
    <3>3. CASE r > q /\ (stop = End \/ r < stop)
      <4>1. next \notin trunk /\ r \in way
        BY <1>4, <2>1, <3>3 DEF Between
      <4>2. next = NextQuestion(kept, q)
        <5>1. saved[q] = kept[q]
          BY <1>5, <2>1 DEF Questions
        <5> QED BY <5>1, NextSame
      <4>3. next # End /\ next \in Questions
        <5>1. next # End
          BY <4>1 DEF Reach
        <5> QED BY <5>1, NextOnwards DEF Onwards
      <4>4. next \in Shown(kept)
        BY <1>6, <4>2, <4>3, ShownIsLeast DEF Follows
      <4> DEFINE nx == StepsToTrunk(saved, q)
                 C == way \cap Shown(kept)
      <4>5. nx \in Moves
        <5>1. \A x \in Questions : NextQuestion(saved, x) \in Questions \cup {End}
          BY NextOnwards DEF Onwards
        <5> QED BY <5>1 DEF StepsToTrunk, Moves
      <4>6. /\ next \in way /\ way \subseteq Questions /\ Closed(nx, way)
            /\ \A D \in SUBSET Questions : next \in D /\ Closed(nx, D) => way \subseteq D
        BY <4>3, <4>5, ReachIsLeast
      <4>7. \A x \in way : kept[x] = saved[x]
        BY <1>3, <1>4, <4>1, <4>6
      <4>8. Closed(nx, C)
        <5> SUFFICES ASSUME NEW x \in C, nx[x] # End PROVE nx[x] \in C
          BY DEF Closed
        <5>1. x \in Questions /\ x \in way /\ x \in Shown(kept)
          BY <4>6
        <5>2. nx[x] \in way
          BY <4>6, <5>1 DEF Closed
        <5>3. nx[x] = NextQuestion(saved, x)
          <6>1. nx[x] = IF x = NextOnTrunk(q) \/ NextQuestion(saved, x) \in trunk THEN End
                        ELSE NextQuestion(saved, x)
            BY <5>1 DEF StepsToTrunk
          <6> HIDE DEF nx
          <6> QED BY <6>1
        <5>4. NextQuestion(saved, x) = NextQuestion(kept, x)
          BY <4>7, <5>1, NextSame
        <5>5. nx[x] \in Shown(kept)
          <6> HIDE DEF nx
          <6> QED BY <5>1, <5>3, <5>4, ShownIsLeast DEF Follows
        <5> QED BY <5>2, <5>5
      <4>9. way \subseteq C
        <5>1. C \in SUBSET Questions /\ next \in C
          BY <4>4, <4>6
        <5> HIDE DEF C, way, nx
        <5> QED BY <4>6, <4>8, <5>1
      <4> QED BY <4>1, <4>9
    <3>4. CASE r > q /\ stop # End /\ ~(r < stop)
      <4>1. stop \in trunk /\ stop \in Questions /\ stop > q
        BY <3>4, NextOnTrunkIs
      <4>2. r >= stop
        BY <3>4, <4>1 DEF Questions
      <4>3. \A x \in Questions : x >= stop => NextQuestion(data, x) = NextQuestion(kept, x)
        <5> SUFFICES ASSUME NEW x \in Questions, x >= stop
                     PROVE  NextQuestion(data, x) = NextQuestion(kept, x)
          OBVIOUS
        <5>1. x # q /\ ~(x < stop)
          BY <4>1 DEF Questions
        <5>2. x \notin Hidden(saved, q)
          BY <1>4, <4>1, <5>1, EndIsNoQuestion DEF Between
        <5>3. data[x] = kept[x]
          BY <1>2, <1>3, <5>1, <5>2
        <5> QED BY <5>3, NextSame
      <4> HIDE DEF stop
      <4> QED BY <3>1, <4>1, <4>2, <4>3, ShownByTrunk
    <3>5. r < q \/ r > q
      BY <2>3 DEF Questions
    <3> QED BY <3>2, <3>3, <3>4, <3>5
  <2> QED BY <2>2, <2>3
<1> QED BY <1>6, <1>7 DEF OnTheWay, kept, saved

LEMMA SavingKeepsWay ==
  ASSUME TemplateOK, data \in Filled, OnTheWay(data),
         NEW q \in Questions, q \in Shown(data), NEW c, SameSteps(Saved(q, c), data)
  PROVE  OnTheWay(Saved(q, c)) /\ q \in Shown(Saved(q, c))
<1>1. Shown(Saved(q, c)) = Shown(data)
  BY ShownBySteps DEF SameSteps
<1>2. \A r \in Questions : r # q => Saved(q, c)[r] = data[r]
  BY DEF Saved, Filled
<1> QED BY <1>1, <1>2 DEF OnTheWay

WayInv ==
  ~MixedBranches /\ BranchesListed =>
    /\ OnTheWay(data)
    /\ at \in Questions => at \in trunk \/ at \in Shown(data)

LEMMA SaveChoiceKeepsWay ==
  ASSUME TemplateOK, ~zero, data \in Filled, valid \in BOOLEAN, BranchesListed, OnTheWay(data),
         NEW q \in Questions, NEW c \in Answers(q), q \in trunk \/ q \in Shown(data),
         SaveChoice(q, c)
  PROVE  OnTheWay(data') /\ q \in Shown(data')
<1>1. q \in Shown(data)
  BY TrunkIsShown
<1>2. Unsaved \/ SavedAndHidden(q, c) \/ SavedAlone(q, c)
  BY SaveChoiceCases
<1>3. CASE Unsaved
  <2>1. data' = data
    BY <1>3 DEF Unsaved
  <2> QED BY <1>1, <2>1
<1>4. CASE SavedAndHidden(q, c)
  <2>1. BranchingPossible(q) /\ data' = HideAfter(Saved(q, c), q)
    BY <1>4 DEF SavedAndHidden
  <2> QED BY <1>1, <2>1, HidingKeepsWay
<1>5. CASE SavedAlone(q, c)
  <2>1. data' = Saved(q, c) /\ SameSteps(Saved(q, c), data)
    BY <1>5 DEF SavedAlone
  <2> QED BY <1>1, <2>1, SavingKeepsWay
<1> QED BY <1>2, <1>3, <1>4, <1>5

\* What is said of the next state in terms of the template, which stays.
LEMMA SameShown == ASSUME UNCHANGED template PROVE Shown(data)' = Shown(data')
<1>1. branch' = branch
  BY DEF template
<1> QED BY <1>1, SMT DEF Shown, NextQuestion, QuestionMap, ByPosition, Following, Lowest,
                         Questions, Select, Selected, Condition, BranchingPossible, End

LEMMA SameValidation == ASSUME UNCHANGED template PROVE ValidateData(data)' <=> ValidateData(data')
<1>1. branch' = branch
  BY DEF template
<1>2. CompletePath(data)' = CompletePath(data')
  BY <1>1, SMT DEF CompletePath, NextQuestion, QuestionMap, ByPosition, Following, Lowest, Questions,
                   Select, Selected, Condition, BranchingPossible, End, Unanswered
<1>3. AllPaths' = AllPaths
  BY <1>1, SMT DEF AllPaths, Paths, SectionMap, ByPosition, Following, Lowest, Questions,
                   Select, Selected, End, Elements
<1> QED BY <1>2, <1>3 DEF ValidateData, Questions

LEMMA SameWay ==
  ASSUME UNCHANGED template,
         ~MixedBranches /\ BranchesListed =>
           /\ OnTheWay(data')
           /\ at' \in Questions => at' \in trunk \/ at' \in Shown(data')
  PROVE  WayInv'
<1>1. branch' = branch /\ trunk' = trunk
  BY DEF template
<1>2. MixedBranches' <=> MixedBranches
  BY <1>1 DEF MixedBranches
<1>3. BranchesListed' <=> BranchesListed
  BY <1>1 DEF BranchesListed
<1>4. OnTheWay(data)' <=> OnTheWay(data')
  BY <1>1, SameShown DEF OnTheWay, Questions
<1> QED BY <1>1, <1>2, <1>3, <1>4, SameShown DEF WayInv, Questions

-----------------------------------------------------------------------------
(***************************************************************************)
(* The invariant: what is answered, and the page, are on the way.          *)
(***************************************************************************)
LEMMA InitWay == Init => WayInv
<1> SUFFICES ASSUME Init PROVE WayInv
  OBVIOUS
<1>1. \A q \in Questions : data[q] = Unanswered
  BY DEF Init
<1>2. at \notin Questions
  BY DEF Init, Away, Questions
<1> QED BY <1>1, <1>2 DEF WayInv, OnTheWay

\* In an optional section every question is on the trunk.
LEMMA ZeroIsOnTheWay ==
  ASSUME TemplateOK, zero, NEW a
  PROVE  OnTheWay(a) /\ Questions = trunk
BY DEF OnTheWay, TemplateOK

LEMMA NextWay == TemplateOK /\ TypeOK /\ WayInv /\ [Next]_vars => WayInv'
<1> SUFFICES ASSUME TemplateOK, TypeOK, WayInv, [Next]_vars, ~MixedBranches, BranchesListed
             PROVE  /\ OnTheWay(data')
                    /\ at' \in Questions => at' \in trunk \/ at' \in Shown(data')
  BY TemplateStays, SameWay
<1>1. CASE zero
  BY <1>1, ZeroIsOnTheWay
<1>2. CASE ~zero
  <2>1. OnTheWay(data) /\ (at \in Questions => at \in trunk \/ at \in Shown(data))
    BY DEF WayInv
  <2>2. data \in Filled /\ valid \in BOOLEAN
    BY DEF TypeOK, Filled
  <2>3. CASE UNCHANGED vars
    <3>1. data' = data /\ at' = at
      BY <2>3 DEF vars
    <3> QED BY <2>1, <3>1
  <2>4. CASE Leave
    <3>1. data' = data /\ at' \notin Questions
      BY <2>4 DEF Leave, Away, Questions
    <3> QED BY <2>1, <3>1
  <2>5. ASSUME NEW q \in Questions, Open(q)
        PROVE  /\ OnTheWay(data')
               /\ at' \in Questions => at' \in trunk \/ at' \in Shown(data')
    <3>1. data' = data /\ at' = q /\ (q \in trunk \/ data[q] # Unanswered)
      BY <2>5 DEF Open
    <3> QED BY <2>1, <3>1 DEF OnTheWay
  <2>6. ASSUME NEW q \in Questions, PostInvalid(q)
        PROVE  /\ OnTheWay(data')
               /\ at' \in Questions => at' \in trunk \/ at' \in Shown(data')
    <3>1. data' = data /\ at' = at
      BY <2>6 DEF PostInvalid
    <3> QED BY <2>1, <3>1
  <2>7. ASSUME NEW q \in Questions, NEW c \in Answers(q), at = q, SaveChoice(q, c)
        PROVE  OnTheWay(data') /\ q \in Shown(data')
    <3>1. q \in trunk \/ q \in Shown(data)
      BY <2>1, <2>7
    <3> QED BY <1>2, <2>1, <2>2, <2>7, <3>1, SaveChoiceKeepsWay
  <2>8. ASSUME NEW q \in Questions, NEW c \in Answers(q), PostAndNext(q, c)
        PROVE  /\ OnTheWay(data')
               /\ at' \in Questions => at' \in trunk \/ at' \in Shown(data')
    <3>1. at = q /\ SaveChoice(q, c) /\ at' = NextQuestion(data', q)
      BY <2>8 DEF PostAndNext
    <3>2. OnTheWay(data') /\ q \in Shown(data')
      BY <2>7, <3>1
    <3>3. at' \in Questions => at' \in Shown(data')
      BY <3>1, <3>2, ShownIsLeast, EndIsNoQuestion DEF Follows
    <3> QED BY <3>2, <3>3
  <2>9. ASSUME NEW q \in Questions, NEW c \in Answers(q), PostAndPrev(q, c)
        PROVE  /\ OnTheWay(data')
               /\ at' \in Questions => at' \in trunk \/ at' \in Shown(data')
    <3>1. at = q /\ SaveChoice(q, c) /\ at' \in PrevQuestions(q, data')
      BY <2>9 DEF PostAndPrev
    <3>2. OnTheWay(data')
      BY <2>7, <3>1
    <3>3. at' \in Questions => at' \in trunk \/ at' \in Shown(data')
      BY <3>1, <3>2, PrevIsOnTheWay
    <3> QED BY <3>2, <3>3
  <2> QED BY <2>3, <2>4, <2>5, <2>6, <2>8, <2>9 DEF Next
<1> QED BY <1>1, <1>2

LEMMA WayInvariant == Spec => []WayInv
<1>1. TemplateOK /\ TypeOK /\ WayInv /\ [Next]_vars => WayInv'
  BY NextWay
<1> QED BY InitWay, <1>1, TemplateInvariant, TypeCorrect, PTL DEF Spec

\* An answer behind a branch that is not taken does not survive the post that
\* leaves it behind, wherever the planner jumps in and whatever was answered
\* before: AnswerSet.hide_unreachable_answers_after hides enough, also if answers
\* were left out or given again.
THEOREM HiddenAnswersGo == Spec => [](BranchesListed => NothingHiddenKept)
<1>1. WayInv => (BranchesListed => NothingHiddenKept)
  BY DEF WayInv, OnTheWay, NothingHiddenKept
<1> QED BY WayInvariant, <1>1, PTL

\* Section.validate_data accepts whoever answered all that Question.
\* get_next_question showed, up to the end, in every section.
THEOREM AnsweredIsKnown == Spec => []WalkIsKnown
<1>1. TemplateOK => WalkIsKnown
  BY AnsweredIsValid DEF WalkIsKnown
<1> QED BY TemplateInvariant, <1>1, PTL

\* Question.get_prev_question leads to a question that leads forward to this one,
\* on the way the form takes, if what precedes it on that way is answered.
THEOREM BackIsBack == Spec => [](BranchesListed => PrevLeadsHere)
<1>1. TemplateOK /\ WayInv => (BranchesListed => PrevLeadsHere)
  <2> SUFFICES ASSUME TemplateOK, WayInv, BranchesListed, ~MixedBranches,
                      NEW q \in Questions \ {1},
                      \A r \in Shown(data) : r <= q => data[r] # Unanswered, q \in Shown(data),
                      NEW p \in PrevQuestions(q, data)
               PROVE  p \in Questions /\ NextQuestion(data, p) = q /\ p \in Shown(data)
    BY DEF PrevLeadsHere
  <2>1. OnTheWay(data) /\ q # 1
    BY DEF WayInv
  <2> QED BY <2>1, PrevLeadsBack
<1> QED BY TemplateInvariant, WayInvariant, <1>1, PTL

-----------------------------------------------------------------------------
(***************************************************************************)
(* The mark of the section.                                                *)
(***************************************************************************)
MarkInv == BranchesListed /\ ~ShortcutToEnd => (valid => ValidateData(data))

LEMMA SameMark ==
  ASSUME UNCHANGED template,
         BranchesListed /\ ~ShortcutToEnd => (valid' => ValidateData(data'))
  PROVE  MarkInv'
<1>1. branch' = branch
  BY DEF template
<1>2. ShortcutToEnd' <=> ShortcutToEnd
  BY <1>1 DEF ShortcutToEnd, End
<1>3. BranchesListed' <=> BranchesListed
  BY <1>1 DEF BranchesListed
<1> QED BY <1>2, <1>3, SameValidation DEF MarkInv

\* An answer that leads where the old one did leaves a complete section complete.
LEMMA SavingKeepsValid ==
  ASSUME TemplateOK, data \in Filled, ~ShortcutToEnd, ValidateData(data),
         NEW q \in Questions, NEW c \in Answers(q), SameSteps(Saved(q, c), data)
  PROVE  ValidateData(Saved(q, c))
<1>1. Shown(Saved(q, c)) = Shown(data) /\ Shown(data) \subseteq Questions
  BY ShownBySteps, ShownIsLeast DEF SameSteps
<1>2. \A r \in Questions : Saved(q, c)[r] = IF r = q THEN c ELSE data[r]
  BY DEF Saved, Filled
<1>3. \A r \in Shown(Saved(q, c)) : Saved(q, c)[r] # Unanswered
  BY <1>1, <1>2, AnswersAre, ValidIsAnswered
<1> QED BY <1>3, AnsweredIsValid

LEMMA NextMark == TemplateOK /\ TypeOK /\ MarkInv /\ [Next]_vars => MarkInv'
<1> SUFFICES ASSUME TemplateOK, TypeOK, MarkInv, [Next]_vars, BranchesListed, ~ShortcutToEnd, valid'
             PROVE  ValidateData(data')
  BY TemplateStays, SameMark
<1>1. data \in Filled /\ valid \in BOOLEAN /\ (valid => ValidateData(data))
  BY DEF TypeOK, Filled, MarkInv
<1>2. CASE data' = data /\ (valid' => valid)
  BY <1>1, <1>2
<1>3. CASE UNCHANGED vars
  BY <1>2, <1>3 DEF vars
<1>4. CASE Leave
  BY <1>2, <1>4 DEF Leave
<1>5. ASSUME NEW q \in Questions, Open(q) PROVE ValidateData(data')
  BY <1>2, <1>5 DEF Open
<1>6. ASSUME NEW q \in Questions, PostInvalid(q) PROVE ValidateData(data')
  BY <1>2, <1>6 DEF PostInvalid
<1>7. ASSUME NEW q \in Questions, NEW c \in Answers(q), SaveChoice(q, c) PROVE ValidateData(data')
  <2>1. Unsaved \/ SavedAndHidden(q, c) \/ SavedAlone(q, c)
    BY <1>1, <1>7, SaveChoiceCases
  <2>2. CASE Unsaved
    BY <1>2, <2>2 DEF Unsaved
  <2>3. CASE SavedAndHidden(q, c)
    BY <2>3 DEF SavedAndHidden
  <2>4. CASE SavedAlone(q, c)
    <3>1. /\ data' = Saved(q, c) /\ SameSteps(Saved(q, c), data)
          /\ valid \/ ValidateData(data')
      BY <2>4 DEF SavedAlone
    <3>2. CASE valid
      <4>1. ValidateData(data)
        BY <1>1, <3>2
      <4> QED BY <1>1, <3>1, <4>1, SavingKeepsValid
    <3> QED BY <3>1, <3>2
  <2> QED BY <2>1, <2>2, <2>3, <2>4
<1>8. ASSUME NEW q \in Questions, NEW c \in Answers(q), PostAndNext(q, c) PROVE ValidateData(data')
  BY <1>7, <1>8 DEF PostAndNext
<1>9. ASSUME NEW q \in Questions, NEW c \in Answers(q), PostAndPrev(q, c) PROVE ValidateData(data')
  BY <1>7, <1>9 DEF PostAndPrev
<1> QED BY <1>3, <1>4, <1>5, <1>6, <1>8, <1>9 DEF Next

\* The section is marked complete, and validates, only while everything the form
\* shows is answered, through all changed, hidden and refused answers, unless a
\* branch ends the section.
THEOREM SectionMarkIsEarned == Spec => [](BranchesListed => MarkIsEarned)
<1>1. Init => MarkInv
  BY DEF Init, MarkInv
<1>2. TemplateOK /\ TypeOK /\ MarkInv /\ [Next]_vars => MarkInv'
  BY NextMark
<1>3. TemplateOK /\ MarkInv => (BranchesListed => MarkIsEarned)
  BY ValidIsAnswered DEF MarkInv, MarkIsEarned
<1> QED BY TemplateInvariant, TypeCorrect, <1>1, <1>2, <1>3, PTL DEF Spec

\* The transitions the form follows are those the validation and the way back
\* use, in every section: Question.generate_transition_map lets branches win by
\* order, Section.generate_transition_map by looking for them first.
THEOREM MapsAlwaysAgree == Spec => []MapsAgree
<1>1. RowsOfTheSection => MapsAgree
  <2> SUFFICES ASSUME RowsOfTheSection, NEW q \in Questions
               PROVE  {t \in SectionMap(1, NQuestions + 1) : t.from = q} = QuestionMap(q)
    BY DEF MapsAgree
  <2>1. 1 \in Nat /\ NQuestions + 1 \in Nat /\ 1 <= q /\ q < NQuestions + 1
    BY FlowAssumption DEF Questions
  <2> QED BY <2>1, SectionRows
<1> QED BY InitRows, NextRows, <1>1, PTL DEF Spec
=============================================================================
