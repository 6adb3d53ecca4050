---------------------------- MODULE MCCatalogue ----------------------------
(* Question types and their texts, positions, imports, documents, pages,   *)
(* what is in a template or a plan on its way to another site, and the     *)
(* pages that show a whole plan share no state. One run explores them side *)
(* by side: a behaviour is one of the one, chosen at first, while the      *)
(* others keep a fixed state.                                              *)
EXTENDS QuestionTypes, CannedTexts, Positions, Imports, Rdadcs, Pages,
        TemplateTransfer, PlanTransfer, Summaries

VARIABLE subject

(* A section with two subsections, "c" with a gap before it.               *)
TwoBelowOne == [s \in {"a", "b", "c"} |->
    CASE s = "a" -> [super |-> "none", position |-> 1]
      [] s = "b" -> [super |-> "a", position |-> 2]
      [] s = "c" -> [super |-> "a", position |-> 4]]

OneMovesOnly == [d \in {"d1", "d2"} |->
    IF d = "d1" THEN {"move"} ELSE {"move", "add", "edit", "delete"}]

OneAndTwo == [d \in {"d1", "d2"} |-> IF d = "d1" THEN 1 ELSE 2]

(* Another site's template and the one made here, exported with a uuid and *)
(* in an older version without one.                                        *)
TemplateExports ==
    {[origin |-> "there", pk |-> 1, uuid |-> "u1", sections |-> {1}],
     [origin |-> "there", pk |-> 1, uuid |-> "none", sections |-> {1}],
     [origin |-> "here", pk |-> 1, uuid |-> "u0", sections |-> {1}],
     [origin |-> "here", pk |-> 1, uuid |-> "none", sections |-> {1}]}

(* Both have a template whose key is also one of this site's; the second   *)
(* does not fit it.                                                        *)
PlanExports ==
    {[origin |-> "there", pk |-> 1, template |-> 1, sections |-> {1}],
     [origin |-> "there", pk |-> 2, template |-> 2, sections |-> {1}]}

Importers == Permutations(Importer)

MaxKeys == [templates |-> 3, tims |-> 2, plans |-> 2]

Object(kind, below, keys) == [kind |-> kind, below |-> below, keys |-> keys]

(* A plan with a contact and a dataset, and what may come with it.         *)
Extras ==
    {{}, {4}, {4, 5}, {4, 6}, {7}, {8}, {9, 10}, {9}, {11, 12}, {13, 14}, {4, 8}, {8, 9}, {15}}

Full(o, keys) ==
    CASE o = 1 -> Object("dmp", Top, {"main"})
      [] o = 2 -> Object("contact", Top, keys)
      [] o = 3 -> Object("dataset", Top, {"main", "side"})
      [] o = 4 -> Object("distribution", 3, keys)
      [] o = 5 -> Object("license", 4, keys)
      [] o = 6 -> Object("host", 4, keys)
      [] o = 7 -> Object("technical_resource", 3, keys)
      [] o = 8 -> Object("contributor", Top, keys)
      [] o = 9 -> Object("cost", Top, keys)
      [] o = 10 -> Object("cost", Top, {"main", "side"})
      [] o = 11 -> Object("project", Top, {"main"})
      [] o = 12 -> Object("funding", 11, keys)
      [] o = 13 -> Object("dataset", Top, {"main"})
      [] o = 14 -> Object("distribution", 13, keys)
      [] o = 15 -> Object("dataset", Top, Null)

Documents ==
    {[objects |-> [o \in {1, 2, 3} \union more |-> Full(o, keys)], empty |-> {}] :
        more \in Extras, keys \in SUBSET BothKeys \ {{}}}
    \union {[objects |-> [o \in {1, 2} |-> Full(o, {"main"})], empty |-> {"dataset"}],
            [objects |-> [o \in {1, 2, 3} |-> Full(o, {"main"})], empty |-> {"project"}],
            [objects |-> [o \in {1, 3} |-> Full(o, {"main"})], empty |-> {}]}

NoQuestion == [type |-> "reason", optional |-> FALSE, otherOptional |-> FALSE]

NoPages ==
    /\ outline = [s \in Place |-> 0]
    /\ asks = [s \in Place |-> "linear"]
    /\ optionals = {} /\ repeaters = {} /\ skipping = {}
    /\ twice = 0
    /\ page = Summary

-----------------------------------------------------------------------------
(* Templates on their way: every nesting of three sections with right and  *)
(* wrong depths, in both orders of keys, and small ones to be edited, each *)
(* with one thing an import has to look for.                               *)

Nestings(S) == {f \in [S -> S \union {0}] : \A s \in S :
    f[s] # s /\ (f[s] # 0 => f[f[s]] # s /\ (f[f[s]] # 0 => f[f[f[s]]] = 0))}

DepthIn(f, s) == IF f[s] = 0 THEN 1 ELSE IF f[f[s]] = 0 THEN 2 ELSE 3

Lay(f, depth, rank) == [s \in DOMAIN f |->
    [super |-> f[s], depth |-> depth[s], place |-> rank[s], named |-> 0, linked |-> FALSE]]

Ask(s, n) == [section |-> s, place |-> n, special |-> FALSE, linked |-> FALSE]

Outlined ==
    UNION {{[locked |-> TRUE,
             sections |-> [Lay(f, depth, rank) EXCEPT ![3].named = 2],
             questions |-> [q \in {1, 2} |-> Ask(IF q = 1 THEN 1 ELSE 3, 1)],
             branches |-> <<>>, choices |-> <<>>, mounts |-> {}] :
                depth \in {[s \in 1..3 |-> DepthIn(f, s)], [s \in 1..3 |-> 1]},
                rank \in {[s \in 1..3 |-> s], [s \in 1..3 |-> 4 - s]}} : f \in Nestings(1..3)}

Drawn(f, Q, mark) ==
    [locked |-> FALSE,
     sections |-> [Lay(f, [s \in DOMAIN f |-> DepthIn(f, s)], [s \in DOMAIN f |-> s])
                      EXCEPT ![1].named = IF mark = "named" THEN 1 ELSE 0,
                             ![1].linked = mark = "linked section"],
     questions |-> [q \in Q |->
        [Ask(q, 1) EXCEPT !.section = IF q = 2 /\ 2 \in DOMAIN f THEN 2 ELSE 1,
              !.place = IF q = 2 /\ 2 \notin DOMAIN f THEN 2 ELSE 1,
              !.special = mark = "special" /\ q = 1,
              !.linked = mark = "linked" /\ q = 1]],
     mounts |-> IF mark = "mounted" THEN {1} ELSE {},
     branches |-> [q \in Q \intersect (IF mark \in {"branch", "choice"} THEN {1} ELSE {}) |->
        IF 2 \in Q THEN 2 ELSE 0],
     choices |-> [q \in Q \intersect {1} |-> IF mark = "choice" THEN 1 ELSE 0]]

Small == Nestings({1}) \union Nestings({1, 2})
Marks == {"named", "special", "linked", "linked section", "mounted", "branch", "choice"}

Designs ==
    Outlined
    \union {Drawn(f, Q, mark) : f \in Small, Q \in {{1}, {1, 2}}, mark \in Marks}
    \union {Drawn(f, {}, "none") : f \in Small}

(* Plans on their way: a section and one below it, with the identifier     *)
(* question in neither or either, into the same template, one that lost    *)
(* a question or a section, and one that has got an identifier question.   *)
Form(super, asked, identifies) == [super |-> super, asks |-> asked, identifies |-> identifies]
OnlyNumbered == Form(<<0, 1>>, <<1, 2>>, <<0, 0>>)
NamedBelow == Form(<<0, 1>>, <<1, 2>>, <<0, 2>>)
NamedAbove == Form(<<0, 1>>, <<1, 2>>, <<1, 0>>)

Forms == {<<OnlyNumbered, OnlyNumbered>>, <<NamedBelow, NamedBelow>>, <<NamedAbove, NamedAbove>>,
    <<OnlyNumbered, Form(<<0, 1>>, 2 :> 2, <<0, 0>>)>>,
    <<OnlyNumbered, Form(1 :> 0, 1 :> 1, 1 :> 0)>>,
    <<OnlyNumbered, NamedBelow>>}

FirstRow(s, p) ==
    [section |-> s, parent |-> p, skipped |-> FALSE, data |-> NoCopies, identifier |-> Counted(1)]

(* Databases to import into: the one it came from, one whose keys are all  *)
(* of others but of no section and question there, one that has lost all   *)
(* but the first row, and one that has nothing.                            *)
SomeDatabases ==
    {[answersets |-> 1..30, sections |-> {1, 2}, questions |-> {1, 2}],
     [answersets |-> 1..30, sections |-> {}, questions |-> {}],
     [answersets |-> {1}, sections |-> {1, 2}, questions |-> {1, 2}],
     NoDatabase}

Firsts == {NoCopies, (1 :> FirstRow(1, 0)) @@ (2 :> FirstRow(2, 1))}

(* Plans to be shown: three sections below each other, optional, repeating *)
(* and with a stand-in for answers in turn. The lowest is older than the   *)
(* one above it, which was given to it later.                              *)
Chapter(super, flags) ==
    [super |-> super, optional |-> "optional" \in flags, repeatable |-> "repeatable" \in flags,
     standIn |-> "stand-in" \in flags, answeredElsewhere |-> "elsewhere" \in flags]

Sheet(s, parent, skipped) ==
    [section |-> s, parent |-> parent, skipped |-> skipped, filled |-> FALSE]

Written3(one, two, three, skipped) ==
    [tree |-> <<Chapter(0, one), Chapter(3, three), Chapter(1, two)>>,
     answersets |-> <<Sheet(1, 0, FALSE), Sheet(3, 1, skipped), Sheet(2, 2, "optional" \in three)>>]

Removable == {"optional", "repeatable"}

PlansToShow ==
    {Written3({"repeatable"}, Removable, {}, FALSE),
     Written3({"repeatable"}, Removable \union {"stand-in"}, {"optional"}, TRUE),
     Written3({}, {"optional", "stand-in"}, Removable \union {"stand-in"}, TRUE),
     Written3({}, {"repeatable"}, Removable \union {"stand-in", "elsewhere"}, FALSE),
     Written3({"repeatable"}, Removable, {"optional", "stand-in", "elsewhere"}, FALSE)}

-----------------------------------------------------------------------------
NoTransfer ==
    /\ design = Drawn(1 :> 0, {}, "none")
    /\ fixture = design
    /\ taken = <<>> /\ reading = 0 /\ acts = <<>>
    /\ arrived = NotArrived

NoPlanTransfer ==
    /\ fitted = <<OnlyNumbered, OnlyNumbered>>
    /\ originals = NoCopies /\ copies = NoCopies
    /\ planEdits = {}
    /\ sent = NotSent
    /\ dbase = NoDatabase /\ reply = NoReply

NoSummary ==
    /\ tree = <<Chapter(0, {})>>
    /\ answersets = <<Sheet(1, 0, FALSE)>>
    /\ numbered = 1
    /\ viewing = NotViewing(0)
    /\ gaps = FALSE /\ interruptions = 0
    /\ lasting = NothingToShow /\ ever = {}

Init ==
    /\ subject \in {"question types", "positions", "imports", "documents", "pages",
                    "templates sent", "plans sent", "plans shown"}
    /\ QuestionInit
    /\ subject # "question types" => question = NoQuestion
    /\ PositionInit
    /\ ImportInit
    /\ RdadcsInit
    /\ IF subject = "pages" THEN PagesInit ELSE NoPages
    /\ IF subject = "templates sent" THEN TransferInit ELSE NoTransfer
    /\ IF subject = "plans sent" THEN PlanTransferInit ELSE NoPlanTransfer
    /\ IF subject = "plans shown" THEN SummaryInit ELSE NoSummary

Next ==
    /\ UNCHANGED subject
    /\ \/ /\ subject = "question types"
          /\ QuestionNext
          /\ UNCHANGED <<positionVars, importVars, rdadcsVars, pageVars,
                         transferVars, planTransferVars, summaryVars>>
       \/ /\ subject = "positions"
          /\ PositionNext
          /\ UNCHANGED <<questionVars, importVars, rdadcsVars, pageVars,
                         transferVars, planTransferVars, summaryVars>>
       \/ /\ subject = "imports"
          /\ ImportNext
          /\ UNCHANGED <<questionVars, positionVars, rdadcsVars, pageVars,
                         transferVars, planTransferVars, summaryVars>>
       \/ /\ subject = "documents"
          /\ RdadcsNext
          /\ UNCHANGED <<questionVars, positionVars, importVars, pageVars,
                         transferVars, planTransferVars, summaryVars>>
       \/ /\ subject = "pages"
          /\ PagesNext
          /\ UNCHANGED <<questionVars, positionVars, importVars, rdadcsVars,
                         transferVars, planTransferVars, summaryVars>>
       \/ /\ subject = "templates sent"
          /\ TransferNext
          /\ UNCHANGED <<questionVars, positionVars, importVars, rdadcsVars,
                         pageVars, planTransferVars, summaryVars>>
       \/ /\ subject = "plans sent"
          /\ PlanTransferNext
          /\ UNCHANGED <<questionVars, positionVars, importVars, rdadcsVars,
                         pageVars, transferVars, summaryVars>>
       \/ /\ subject = "plans shown"
          /\ SummaryNext
          /\ UNCHANGED <<questionVars, positionVars, importVars, rdadcsVars,
                         pageVars, transferVars, planTransferVars>>

vars == <<subject, questionVars, positionVars, importVars, rdadcsVars, pageVars,
          transferVars, planTransferVars, summaryVars>>

Spec == Init /\ [][Next]_vars
=============================================================================
