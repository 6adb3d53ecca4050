---------------------------- MODULE CannedTexts ----------------------------
(***************************************************************************)
(* What is read of a stored choice: get_canned_answer, the sentence it     *)
(* becomes in the text of a plan, and pprint_html, what the summary shows  *)
(* (dmpt/models/base.py and dmpt/models/questions/).                       *)
(*                                                                         *)
(* A text is the set of what it tells: <<i, part>> is the part of row i,   *)
(* Canned(k) the text of a canned answer, and the rest are fixed words.    *)
(* Framing texts leave it as it is, and every canned answer has a text.    *)
(***************************************************************************)
EXTENDS QuestionTypes

Canned(k) == <<0, k>>
NotFound == <<-1, "not found in the list">>
StandIn == <<-1, "optional canned text">>
Raises == <<-1, "raises">>

External == {"externalchoice", "externalmultichoiceonetext"} \union NotListed

(* The keys of the canned answers a question may have: they are what is    *)
(* listed, or serve transitions and texts only.                            *)
CannedAnswers(t) ==
    CASE t \in AlwaysListed -> SUBSET Key
      [] t \in NotListed -> SUBSET {"not-listed", "other"}
      [] t \in {"choice", "multichoiceonetext", "typedidentifier"} -> {listed}
      [] OTHER -> {{}}

(* Every part of every row.                                                *)
AllParts(choice) ==
    {part \in UNION {{<<i, p>> : p \in DOMAIN choice[i]} : i \in DOMAIN choice} :
        choice[part[1]][part[2]] # ""}

(* _serialize_condition: the key of the canned answer that is looked up.   *)
SerializeCondition(t, choice) == IF t = "typedidentifier" THEN {} ELSE {choice[1].value}

(* Question.get_canned_answer: the only canned answer is always the right  *)
(* one.                                                                    *)
TextOfCannedAnswer(t, canned, choice) ==
    IF Cardinality(canned) = 1 THEN {Canned(k) : k \in canned}
    ELSE {Canned(k) : k \in canned \intersect SerializeCondition(t, choice)}

(* The same with 'not-listed' for a choice, which the class of the         *)
(* question takes for an answer when it is serialized.                     *)
TextOfNotListed(t, canned) ==
    IF Cardinality(canned) > 1 THEN {Raises}
    ELSE IF canned # {} THEN TextOfCannedAnswer(t, canned, <<>>)
    ELSE IF t = "extchoicenotlisted" THEN {NotFound} ELSE {}

(* get_entries: what is not cached any more is passed over.                *)
TextOfEntries(cached, choice) == {<<i, "value">> : i \in {n \in DOMAIN choice : choice[n].value \in cached}}

TextOfEntryOrNot(t, canned, cached, choice) ==
    (IF choice[1].choices \in cached THEN {<<1, "choices">>} ELSE {})
        \union (IF choice[1].not_listed # "" THEN TextOfNotListed(t, canned) ELSE {})

(* Mutant: the last of several choices is lost when they are joined.       *)
JoinsAllButLast(choice) ==
    {part \in AllParts(choice) : Len(choice) = 1 \/ part[1] < Len(choice)}

(* Joined with commas and "and".                                           *)
Joined(choice) == AllParts(choice)

(* The only row put into the framing text, a date range with both its ends.*)
Framed(choice) == {part \in AllParts(choice) : part[1] = 1}

(* Every row put into a Django template.                                   *)
Rendered(choice) == UNION {{<<i, p>> : p \in {x \in DOMAIN choice[i] : choice[i][x] # ""}} :
                              i \in DOMAIN choice}

GetCannedAnswer(t, optional, canned, cached, choice) ==
    IF choice = <<>> THEN IF optional THEN {StandIn} ELSE {}
    ELSE CASE t \in NotListed -> TextOfEntryOrNot(t, canned, cached, choice)
           [] t \in External \ NotListed -> TextOfEntries(cached, choice)
           [] t \in AlwaysListed \union {"choice", "typedidentifier"} ->
                  TextOfCannedAnswer(t, canned, choice)
           [] t \in {"multirdacostonetext", "multidmptypedreasononetext", "storageforecast"} ->
                  Rendered(choice)
           [] t \in {"multichoiceonetext", "multistring", "multinamedurlonetext"} -> Joined(choice)
           [] OTHER -> Framed(choice)

(* Those that show the choice itself; the others ask get_canned_answer.    *)
PprintHtml(t, optional, canned, cached, choice) ==
    IF t \in Written \union AlwaysListed
             \union {"choice", "multichoiceonetext", "daterange", "typedidentifier"}
    THEN AllParts(choice)
    ELSE GetCannedAnswer(t, optional, canned, cached, choice)

(* Question.is_valid: whether it was made the way its class asks for.      *)
WellMade(t, canned) ==
    CASE t \in AlwaysListed -> canned = Key
      [] t \in {"choice", "multichoiceonetext", "typedidentifier"} -> Cardinality(canned) > 1
      [] OTHER -> TRUE

-----------------------------------------------------------------------------
(* Properties *)

Tellable(t, cached, choice) ==
    {part \in AllParts(choice) :
        /\ part[2] # "not_listed"
        /\ t \in External => choice[part[1]][part[2]] \in cached}

Wording == {NotFound, StandIn, Raises, Canned("not-listed"), Canned("other")}

ReadRight(t, optional, canned, cached, choice) ==
    LET summary == PprintHtml(t, optional, canned, cached, choice)
        text == GetCannedAnswer(t, optional, canned, cached, choice)
    IN  /\ Raises \in summary \union text => t \in NotListed /\ canned = {"not-listed", "other"}
        /\ Tellable(t, cached, choice) \subseteq summary
        /\ \/ Tellable(t, cached, choice) = text \ Wording
           \/ t = "typedidentifier" /\ (WellMade(t, canned) => text = {})
           \/ t \in AlwaysListed \union {"choice"}
              /\ (WellMade(t, canned) =>
                     text = {Canned(k) : k \in canned \intersect {choice[1].value}})

(* Canned answers and cached entries come and go after an answer was       *)
(* stored. The summary and the text still do not fail, but for a question  *)
(* that has two canned answers of its own besides its entries; the summary *)
(* shows every part of every row that can be found, and the text tells the *)
(* same and nothing that was not answered, but for canned answers in a     *)
(* question that is not well made any more, and identifiers, which are     *)
(* never told.                                                             *)
AnswerIsTold ==
    \A choice \in stored, canned \in CannedAnswers(question.type), cached \in {listed, Key} :
        ReadRight(question.type, question.optional, canned, cached, choice)
=============================================================================
