--------------------------- MODULE QuestionTypes ---------------------------
(***************************************************************************)
(* One question and its answer, for each input type: what its form makes   *)
(* of what a browser posts (dmpt/forms.py, dmpt/fields.py and the forms in *)
(* dmpt/models/questions/), what is stored, and what validate_choice says  *)
(* of it when the answerset is validated later.                            *)
(*                                                                         *)
(* A choice is a sequence of rows, a row gives its parts a text: "" for an *)
(* empty one, "good" for one of the right form, "bad" for one the field    *)
(* refuses, "zero" for the number, "early" and "late" for dates, or a key. *)
(* What Python takes for false ('', None, [], {}) is the empty sequence.   *)
(***************************************************************************)
EXTENDS Integers, Sequences, FiniteSets, SequencesExt

CONSTANTS
    Key,      \* canned answers, or entries of the EEStore
    MaxRows   \* bound on the rows of a formset

ASSUME KeyAssumption == IsFiniteSet(Key) /\ "" \notin Key
ASSUME RowsAssumption == MaxRows \in Nat \ {0}

Dated == {"date", "datetime"}
Written == {"reason", "shortfreetext", "email", "iri", "positiveinteger"} \union Dated
AlwaysListed == {"bool", "trilean"}
Picked == AlwaysListed \union {"choice", "externalchoice"}
Several == {"multichoiceonetext", "externalmultichoiceonetext"}
NotListed == {"extchoicenotlisted", "extmultichoicenotlistedonetext"}
URLs == {"namedurl", "multinamedurlonetext"}
FormSets == {"multinamedurlonetext", "multirdacostonetext", "multistring",
             "multidmptypedreasononetext", "storageforecast"}
Type == Written \union Picked \union Several \union NotListed \union FormSets
        \union {"namedurl", "daterange", "typedidentifier"}

(* The parts of a row. The year and the backup of a forecast always come   *)
(* with the post.                                                          *)
Parts(t) ==
    CASE t \in URLs -> {"url", "name"}
      [] t \in NotListed -> {"choices", "not_listed"}
      [] t = "daterange" -> {"start", "end"}
      [] t = "typedidentifier" -> {"identifier", "type"}
      [] t = "multirdacostonetext" -> {"title", "description", "value"}
      [] t = "multidmptypedreasononetext" -> {"type", "reason", "url"}
      [] t = "storageforecast" -> {"storage_estimate"}
      [] OTHER -> {"value"}

(* What a browser may post for a part: a drop-down without an empty entry, *)
(* as that of the type of an identifier, always posts one of its entries.  *)
Texts(t, part) ==
    IF (part = "type" /\ t = "typedidentifier") \/ t \in Several THEN Key
    ELSE IF part = "choices" \/ t \in Picked THEN Key \union {""}
    ELSE IF t = "positiveinteger" THEN {"", "zero", "good", "bad"}
    ELSE CASE part \in {"start", "end"} -> {"", "early", "late"}
           [] part = "storage_estimate" -> {"", "zero", "good", "bad"}
           [] part \in {"url", "value"} -> {"", "good", "bad"}
           [] OTHER -> {"", "good"}

Row(t) == {row \in [Parts(t) -> UNION {Texts(t, p) : p \in Parts(t)}] :
               \A p \in Parts(t) : row[p] \in Texts(t, p)}

Blank(row) == \A p \in DOMAIN row : row[p] = ""
Partial(row) == \E p \in DOMAIN row : row[p] = ""
Refused(row) == \E p \in DOMAIN row : row[p] = "bad"

(***************************************************************************)
(* Fields. A row is "taken", says "nothing" (the empty value), is          *)
(* "refused" with an error beside the field, or "fails": an exception that *)
(* no form catches.                                                        *)
(***************************************************************************)
(* Mutant: no min_value on the field of a positive integer.                *)
NoMinimum(t, row) == FALSE

BelowMinimum(t, row) == t = "positiveinteger" /\ row.value = "zero"

(* Field.clean of a field with a single value.                             *)
ValueField(t, required, keys, row) ==
    IF row.value = "" THEN IF required THEN "refused" ELSE "nothing"
    ELSE IF Refused(row) \/ BelowMinimum(t, row) \/ (t \in Picked \union Several /\ row.value \notin keys)
    THEN "refused" ELSE "taken"

(* Django's MultiValueField.clean up to its call of compress: "empty" is   *)
(* compress([]).                                                           *)
MultiValueField(required, allFields, needed, row) ==
    IF Blank(row) THEN IF required THEN "refused" ELSE "empty"
    ELSE IF \/ allFields /\ required /\ Partial(row)
            \/ ~allFields /\ \E p \in needed : row[p] = ""
            \/ Refused(row)
    THEN "refused" ELSE "taken"

(* compress indexes the empty list.                                        *)
NamedURLField(required, row) ==
    LET v == MultiValueField(required, FALSE, {"url"}, row)
    IN  IF v = "empty" THEN "fails" ELSE v

RDACostField(required, row) ==
    LET v == MultiValueField(required, FALSE, {"title"}, row)
    IN  IF v = "empty" THEN "fails" ELSE v

(* Mutant: compress unpacks the values without looking for none.           *)
UnpacksAtOnce(required, row) ==
    LET v == MultiValueField(required, TRUE, {}, row)
    IN  IF v = "empty" THEN "fails" ELSE v

(* A range that lacks a bound is open to the field and nothing to          *)
(* DateRangeForm.serialize.                                                *)
DateRangeField(required, row) ==
    LET v == MultiValueField(required, TRUE, {}, row)
    IN  IF v = "taken" /\ row.start = "late" /\ row.end = "early" THEN "refused"
        ELSE IF v = "empty" \/ (v = "taken" /\ Partial(row)) THEN "nothing"
        ELSE v

(* Never required for Django, it asks for one of its parts all the same.   *)
ChoiceNotListedField(keys, row) ==
    IF Blank(row) \/ row.choices \notin keys \union {""} THEN "refused" ELSE "taken"

TypedIdentifierField(required, keys, row) ==
    IF row.type \notin keys THEN "refused"
    ELSE MultiValueField(required, TRUE, {}, row)

DMPTypedReasonField(required, row) ==
    LET v == MultiValueField(required, TRUE, {}, row)
    IN  IF v = "empty" THEN "refused" ELSE v

(* An empty estimate is None when compress compares it with zero.          *)
StorageForecastField(required, row) ==
    IF row.storage_estimate = "" THEN IF required THEN "refused" ELSE "fails"
    ELSE IF Refused(row) THEN "refused" ELSE "taken"

Clean(t, required, keys, row) ==
    CASE t \in URLs -> NamedURLField(required, row)
      [] t \in NotListed -> ChoiceNotListedField(keys, row)
      [] t = "daterange" -> DateRangeField(required, row)
      [] t = "typedidentifier" -> TypedIdentifierField(required, keys, row)
      [] t = "multirdacostonetext" -> RDACostField(required, row)
      [] t = "multidmptypedreasononetext" -> DMPTypedReasonField(required, row)
      [] t = "storageforecast" -> StorageForecastField(required, row)
      [] OTHER -> ValueField(t, required, keys, row)

(***************************************************************************)
(* A post: the rows, and which of them are marked for deletion in a        *)
(* formset, that shows "initial" rows of the stored answer first.          *)
(***************************************************************************)
Typical(t) == {row \in Row(t) : Blank(row) \/ ~(Partial(row) \/ Refused(row))}

(* Every first row, followed by blank and full ones.                       *)
PostOfFormSet(t, n) ==
    {post \in [rows : [1..n -> Row(t)], deleted : SUBSET (1..n)] :
        \A i \in 2..n : post.rows[i] \in Typical(t)}

Post(t) ==
    IF t \in FormSets THEN UNION {PostOfFormSet(t, n) : n \in 1..MaxRows}
    ELSE IF t \in Several
    THEN {[rows |-> SetToSeq({[value |-> k] : k \in picked}), deleted |-> {}] :
              picked \in SUBSET Key}
    ELSE {[rows |-> <<row>>, deleted |-> {}] : row \in Row(t)}

(* The forms a formset may leave empty, and found so: Django skips them.   *)
Skipped(t, post, initial, i) ==
    t # "storageforecast" /\ i > 1 /\ i > initial /\ i \notin post.deleted /\ Blank(post.rows[i])

RowVerdict(t, required, keys, post, initial, i) ==
    IF Skipped(t, post, initial, i) THEN "nothing"
    ELSE Clean(t, required, keys, post.rows[i])

(* is_valid of a form or formset: every row is cleaned, errors of deleted  *)
(* rows do not count, and a required formset wants a row that was filled.  *)
Verdict(t, optional, required, keys, post, initial) ==
    LET verdict == [i \in DOMAIN post.rows |-> RowVerdict(t, required, keys, post, initial, i)]
        kept == DOMAIN post.rows \ post.deleted
        filled == {i \in kept : i <= initial \/ ~Blank(post.rows[i])}
        minimum == IF t = "storageforecast" THEN Len(post.rows) ELSE 1
    IN  IF \E i \in DOMAIN verdict : verdict[i] = "fails" THEN "fails"
        ELSE IF \/ \E i \in kept : verdict[i] = "refused"
                \/ t \in FormSets /\ ~optional /\ Cardinality(filled) < minimum
                \/ t \in Several /\ required /\ post.rows = <<>>
        THEN "refused" ELSE "accepted"

(* generate_choice of the formsets. That of typed reasons looks for        *)
(* 'access_url', where the field has put 'url'.                            *)
GenerateChoice(t, row) ==
    IF t = "multidmptypedreasononetext" THEN [row EXCEPT !.url = ""] ELSE row

(* Mutant: serialize stops at the first row that has nothing to store.     *)
StopsAtNothing(t, required, keys, post, initial) ==
    LET Stored(i) == i \notin post.deleted
                     /\ RowVerdict(t, required, keys, post, initial, i) = "taken"
        all == {i \in DOMAIN post.rows : \A j \in 1..i : Stored(j)}
    IN  [i \in 1..Cardinality(all) |-> GenerateChoice(t, post.rows[i])]

(* The n-th of some numbers.                                               *)
Nth(S, n) == CHOOSE i \in S : Cardinality({j \in S : j <= i}) = n

(* serialize of an accepted form.                                          *)
Serialize(t, required, keys, post, initial) ==
    LET kept == {i \in DOMAIN post.rows \ post.deleted :
                     RowVerdict(t, required, keys, post, initial, i) = "taken"}
    IN  [n \in 1..Cardinality(kept) |-> GenerateChoice(t, post.rows[Nth(kept, n)])]

(***************************************************************************)
(* validate_choice, one definition for each way of deciding.               *)
(***************************************************************************)
IsSet(t, choice) ==
    Len(choice) = 1 /\ ~(t = "positiveinteger" /\ choice[1].value = "zero")

ChoiceIsListed(keys, choice) == Len(choice) = 1 /\ choice[1].value \in keys

ChoicesAreListed(keys, choice) == \A i \in DOMAIN choice : choice[i].value \in keys

(* A list of choices passes when it is empty, a single choice does not.    *)
ListedOrNot(t, keys, choice) ==
    /\ choice # <<>>
    /\ \/ choice[1].choices \in keys
       \/ choice[1].choices = "" /\ t = "extmultichoicenotlistedonetext"
       \/ choice[1].not_listed # ""

HasURL(choice) == \E i \in DOMAIN choice : choice[i].url # ""

HasBothDates(choice) == choice # <<>> /\ ~Partial(choice[1])

IdentifierHasType(keys, choice) ==
    choice # <<>> /\ choice[1].identifier # "" /\ choice[1].type \in keys

HasTitle(choice) == \E i \in DOMAIN choice : choice[i].title # ""

HasTypeAndReason(choice) ==
    \E i \in DOMAIN choice : choice[i].type # "" /\ choice[i].reason # ""

(* An estimate of zero is false.                                           *)
HasEstimate(choice) ==
    \E i \in DOMAIN choice : choice[i].storage_estimate \notin {"", "zero"}

HasString(choice) == \E i \in DOMAIN choice : choice[i].value # ""

ValidateChoice(t, optional, keys, choice) ==
    \/ optional /\ choice = <<>>
    \/ CASE t \in Written -> IsSet(t, choice)
         [] t \in Picked -> ChoiceIsListed(keys, choice)
         [] t \in Several -> ChoicesAreListed(keys, choice)
         [] t \in NotListed -> ListedOrNot(t, keys, choice)
         [] t \in URLs -> HasURL(choice)
         [] t = "daterange" -> HasBothDates(choice)
         [] t = "typedidentifier" -> IdentifierHasType(keys, choice)
         [] t = "multirdacostonetext" -> HasTitle(choice)
         [] t = "multidmptypedreasononetext" -> HasTypeAndReason(choice)
         [] t = "storageforecast" -> HasEstimate(choice)
         [] t = "multistring" -> HasString(choice)

(***************************************************************************)
(* The machine                                                             *)
(***************************************************************************)
VARIABLES
    question,  \* its type, optional, and optional of another one of its type
    listed,    \* the keys that are listed now
    stored,    \* the stored choice, a set of at most one
    flag,      \* FORM.declared_fields['choice'].required, shared by a type
    made,      \* whether a form has been made for the post being served
    last       \* the last post, its outcome, and whether flag was another's

questionVars == <<question, listed, stored, flag, made, last>>

NoPost == [rows |-> <<>>, deleted |-> {}]
Nothing == [post |-> NoPost, outcome |-> "none", others |-> FALSE]

Keys == IF question.type \in AlwaysListed THEN Key ELSE listed
Initial == UNION {DOMAIN choice : choice \in stored}
Required == IF question.type \in FormSets THEN flag ELSE ~question.optional

QuestionInit ==
    /\ question \in [type : Type, optional : BOOLEAN, otherOptional : BOOLEAN]
    /\ listed = Key
    /\ stored = {}
    /\ flag = TRUE
    /\ made = FALSE
    /\ last = Nothing

(* make_form of this question. Two widgets assert that there are choices.  *)
MakeForm ==
    /\ ~made
    /\ IF question.type \in NotListed \union {"typedidentifier"} /\ Keys = {}
       THEN /\ last' = [Nothing EXCEPT !.outcome = "fails"]
            /\ UNCHANGED <<made, flag>>
       ELSE /\ made' = TRUE
            /\ last' = Nothing
            /\ flag' = IF question.type \in FormSets THEN ~question.optional ELSE flag
    /\ UNCHANGED <<question, listed, stored>>

(* make_form of another question of the same type: the next one on the     *)
(* page of a section, or one in another thread. The forms of a formset are *)
(* made when it is first asked for them, after this.                       *)
MakeOtherForm ==
    /\ made
    /\ question.type \in FormSets
    /\ flag' = ~question.otherOptional
    /\ UNCHANGED <<question, listed, stored, made, last>>

(* is_valid, serialize and save_choice. A formset comes back with at least *)
(* the rows it was shown with.                                             *)
Submit(post) ==
    LET t == question.type
        initial == Cardinality(Initial)
        outcome == Verdict(t, question.optional, Required, Keys, post, initial)
    IN  /\ made
        /\ t \in FormSets => Len(post.rows) >= initial
        /\ made' = FALSE
        /\ last' = [post |-> post, outcome |-> outcome,
                    others |-> t \in FormSets /\ flag = question.optional]
        /\ stored' = IF outcome = "accepted"
                     THEN {Serialize(t, Required, Keys, post, initial)} ELSE stored
        /\ UNCHANGED <<question, listed, flag>>

(* A canned answer is added or deleted, or the EEStore's cache refreshed.  *)
ChangeList(keys) ==
    /\ ~made
    /\ question.type \in Several \union NotListed
                         \union {"choice", "externalchoice", "typedidentifier"}
    /\ keys # listed
    /\ listed' = keys
    /\ last' = Nothing
    /\ UNCHANGED <<question, stored, flag, made>>

QuestionNext ==
    \/ MakeForm
    \/ MakeOtherForm
    \/ \E post \in Post(question.type) : Submit(post)
    \/ \E keys \in SUBSET Key : ChangeList(keys)

QuestionSpec == QuestionInit /\ [][QuestionNext]_questionVars

(***************************************************************************)
(* Properties                                                              *)
(***************************************************************************)
(* What a form accepts and validate_choice never will: a forecast of       *)
(* nothing but zeros, an identifier left empty in an optional question,    *)
(* whose type is posted all the same, and typed reasons of an optional     *)
(* question none of which has both parts.                                  *)
NeverValid(t, optional, choice) ==
    /\ choice # <<>>
    /\ \/ t = "storageforecast" /\ \A i \in DOMAIN choice : choice[i].storage_estimate = "zero"
       \/ t = "typedidentifier" /\ optional /\ choice[1].identifier = ""
       \/ /\ t = "multidmptypedreasononetext" /\ optional
          /\ \A i \in DOMAIN choice : choice[i].type = "" \/ choice[i].reason = ""

(* Two classes decide on an answer, the form when it is posted and the     *)
(* question when it is validated: an accepted answer is valid, as long as  *)
(* its keys are listed, if the formset did not run with the requiredness   *)
(* of another question, except for the answers named above.                *)
AcceptedIsValid ==
    last.outcome = "accepted" /\ ~last.others =>
        \A choice \in stored :
            \/ ValidateChoice(question.type, question.optional, Keys, choice)
            \/ NeverValid(question.type, question.optional, choice)

(* An accepted post is kept: every row that was filled in and not deleted  *)
(* is stored with all its parts, but for the url of a typed reason and a   *)
(* date range without one of its ends.                                     *)
AcceptedIsKept ==
    last.outcome = "accepted" =>
        \A i \in DOMAIN last.post.rows \ last.post.deleted :
            LET row == last.post.rows[i]
            IN  \/ Blank(row)
                \/ question.type = "daterange" /\ Partial(row)
                \/ \E choice \in stored : GenerateChoice(question.type, row)
                                              \in {choice[n] : n \in DOMAIN choice}

(* A request for a form ends in an exception only where nothing was filled *)
(* in, in a row of URLs, costs or forecasts that need not be, or where the *)
(* choices of a question are all gone.                                     *)
OnlyBlanksFail ==
    last.outcome = "fails" =>
        \/ Keys = {}
        \/ /\ question.type \in URLs \union {"multirdacostonetext", "storageforecast"}
           /\ question.optional \/ last.others
           /\ \E i \in DOMAIN last.post.rows : Blank(last.post.rows[i])
=============================================================================
