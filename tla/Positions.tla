----------------------------- MODULE Positions -----------------------------
(***************************************************************************)
(* The order of the sections of one template that is not read-only, while  *)
(* designers move, add, edit and delete sections in the admin site         *)
(* (dmpt/positioning.py, PositionUtils, SectionAdmin).                     *)
(*                                                                         *)
(* Positions are unique in a template, whatever the super section. A move  *)
(* is not one transaction: each numbering is two updates, first to numbers *)
(* above all others, then to 1, 2, 3 ..., and there are two numberings.    *)
(***************************************************************************)
EXTENDS Integers, Sequences, FiniteSets, SequencesExt

CONSTANTS
    Section,     \* primary keys
    NoSection,   \* super_section of a topmost section
    FirstPlaces, \* the rows at first: super section and position
    Designer,    \* concurrent requests
    Does,        \* the kinds of requests each of them sends
    Requests,    \* bound on how many requests each of them sends
    MaxPosition  \* bound on the positions

ASSUME SectionAssumption == NoSection \notin Section /\ IsFiniteSet(Section)
ASSUME PlacesAssumption ==
    /\ DOMAIN FirstPlaces \subseteq Section
    /\ FirstPlaces \in [DOMAIN FirstPlaces ->
           [super : Section \union {NoSection}, position : Nat \ {0}]]
    /\ \A s, t \in DOMAIN FirstPlaces :
           FirstPlaces[s].position = FirstPlaces[t].position => s = t
ASSUME RequestsAssumption == Requests \in [Designer -> Nat]

VARIABLES
    place,   \* the table dmpt_section: super section and position of a key
    unused,  \* keys not given yet
    turn,    \* per designer, the request being served
    left     \* per designer, how many more requests there will be

positionVars == <<place, unused, turn, left>>

Movement == {"up", "down", "top", "bottom"}
Resting == [pc |-> "idle", key |-> NoSection, super |-> NoSection, order |-> <<>>, start |-> 0,
            asked |-> <<>>, again |-> FALSE, overtaken |-> FALSE, result |-> "none"]

Index(seq, x) == CHOOSE i \in DOMAIN seq : seq[i] = x

(* A finite set as the sequence that a relation of before and after gives. *)
Arranged(S, before) ==
    [i \in 1..Cardinality(S) |->
        CHOOSE s \in S : Cardinality({t \in S : <<t, s>> \in before}) = i - 1]

(* get_order: the keys of the sections directly below one, by position.    *)
Siblings(rows, super) ==
    LET below == {s \in DOMAIN rows : rows[s].super = super}
    IN  Arranged(below, {p \in below \X below : rows[p[1]].position < rows[p[2]].position})

(* A section and those above it.                                           *)
Line(rows, s) ==
    {t \in DOMAIN rows : \A S \in SUBSET DOMAIN rows :
        s \in S /\ (\A u \in S : rows[u].super \in DOMAIN rows => rows[u].super \in S) => t \in S}

(* Sections that are their own super section through others are not found. *)
Reached(rows) == {s \in DOMAIN rows : \E t \in Line(rows, s) : rows[t].super = NoSection}

(* ordered_template_sections: depth first from the topmost ones. A section *)
(* comes before those below it, and with those before its later siblings.  *)
ComesBefore(rows, s, t) ==
    \/ s # t /\ s \in Line(rows, t)
    \/ \E u \in Line(rows, s), v \in Line(rows, t) :
           rows[u].super = rows[v].super /\ rows[u].position < rows[v].position

OrderedSections(rows) ==
    LET reached == Reached(rows)
    IN  Arranged(reached, {p \in reached \X reached : ComesBefore(rows, p[1], p[2])})

NextPosition(rows) ==
    1 + (IF DOMAIN rows = {} THEN 0
         ELSE CHOOSE n \in {rows[s].position : s \in DOMAIN rows} :
                  \A s \in DOMAIN rows : rows[s].position <= n)

(***************************************************************************)
(* positioning.py                                                          *)
(***************************************************************************)
(* get_new_index: 0 for the ValueError of a change that is impossible.     *)
GetNewIndex(movement, order, key) ==
    LET last == Len(order)
    IN  IF key \notin ToSet(order) THEN 0
        ELSE LET index == Index(order, key)
             IN  CASE movement = "up" -> index - 1
                   [] movement = "top" -> IF index = 1 THEN 0 ELSE 1
                   [] movement = "down" -> IF index = last THEN 0 ELSE index + 1
                   [] movement = "bottom" -> IF index = last THEN 0 ELSE last

(* Mutant: inserted before the one it should pass on its way down.         *)
InsertBefore(order, key, index) ==
    LET from == Index(order, key)
        without == RemoveAt(order, from)
    IN  IF from < index THEN InsertAt(without, index - 1, key)
        ELSE InsertAt(without, index, key)

(* Mutant: the two change places.                                          *)
SwapPlaces(order, key, index) ==
    IF key \notin ToSet(order) THEN order
    ELSE [order EXCEPT ![index] = key, ![Index(order, key)] = order[index]]

(* flat_reorder: remove, then insert at the index the target had before.   *)
FlatReorder(order, key, index) ==
    IF key \notin ToSet(order) THEN order
    ELSE InsertAt(RemoveAt(order, Index(order, key)), index, key)

(* What a move asks for: the section at the index, those that it passes    *)
(* one place along.                                                        *)
Placed(order, key, index) ==
    LET from == Index(order, key)
    IN  [i \in DOMAIN order |->
            CASE i = index -> key
              [] from <= i /\ i < index -> order[i + 1]
              [] index < i /\ i <= from -> order[i - 1]
              [] OTHER -> order[i]]

(***************************************************************************)
(* PositionUtils                                                           *)
(***************************************************************************)
Renumbered(rows, order, start) ==
    [s \in DOMAIN rows |->
        IF s \in ToSet(order)
        THEN [rows[s] EXCEPT !.position = start + Index(order, s) - 1] ELSE rows[s]]

PositionsDiffer(rows) ==
    \A s, t \in DOMAIN rows : s # t => rows[s].position # rows[t].position

(* The database checks the unique constraint at each row, in an order of   *)
(* its own: an update may be refused for a number another row of it has    *)
(* not given up yet.                                                       *)
MayCollide(rows, new) ==
    \E s, t \in DOMAIN rows : s # t /\ new[s].position = rows[t].position

(* place changes: what other requests have read of it is old.              *)
Overtake(d, mine) ==
    turn' = [e \in Designer |->
                IF e = d THEN mine
                ELSE IF turn[e].pc = "idle" THEN Resting
                ELSE [turn[e] EXCEPT !.overtaken = TRUE]]

(* A request is over, or ends in an exception. Its result is remembered if *)
(* nobody overtook it, until somebody changes the sections again.          *)
Done(d, result) ==
    IF turn[d].overtaken THEN Resting
    ELSE IF result = "moved"
    THEN [Resting EXCEPT !.result = result, !.super = turn[d].super, !.asked = turn[d].asked]
    ELSE [Resting EXCEPT !.result = result]

Finish(d, result) == turn' = [turn EXCEPT ![d] = Done(d, result)]

(***************************************************************************)
(* Requests                                                                *)
(***************************************************************************)
Request(d, kind) ==
    /\ turn[d].pc = "idle"
    /\ kind \in Does[d]
    /\ left[d] > 0
    /\ left' = [left EXCEPT ![d] = @ - 1]

PositionInit ==
    /\ place = FirstPlaces
    /\ unused = Section \ DOMAIN FirstPlaces
    /\ turn = [d \in Designer |-> Resting]
    /\ left = Requests

(* SectionAdmin.reorder_sections up to set_section_order: the new order of *)
(* the whole template, flat.                                               *)
Move(d, super, key, movement) ==
    LET order == Siblings(place, super)
        index == GetNewIndex(movement, order, key)
        full == OrderedSections(place)
    IN  /\ Request(d, "move")
        /\ IF index = 0
           THEN Finish(d, "refused")
           ELSE IF order[index] \notin ToSet(full)
           THEN Finish(d, "refused")
           ELSE turn' = [turn EXCEPT ![d] =
                   [Resting EXCEPT !.pc = "start", !.key = key, !.super = super,
                        !.order = FlatReorder(full, key, Index(full, order[index])),
                        !.asked = Placed(order, key, index)]]
        /\ UNCHANGED <<place, unused>>

(* set_order: the first unused position.                                   *)
Start(d) ==
    /\ turn[d].pc = "start"
    /\ NextPosition(place) + Cardinality(Section) <= MaxPosition
    /\ turn' = [turn EXCEPT ![d].pc = "shift", ![d].start = NextPosition(place)]
    /\ UNCHANGED <<place, unused, left>>

(* _set_order, one of the two updates of a numbering.                      *)
SetOrder(d, start, mine) ==
    LET new == Renumbered(place, turn[d].order, start)
    IN  /\ \/ /\ Len(turn[d].order) <= Cardinality(DOMAIN place)
              /\ PositionsDiffer(new)
              /\ place' = new
              /\ Overtake(d, mine)
           \/ /\ \/ Len(turn[d].order) > Cardinality(DOMAIN place)
                 \/ MayCollide(place, new)
              /\ Finish(d, "fails")
              /\ UNCHANGED place
        /\ UNCHANGED <<unused, left>>

Shift(d) ==
    /\ turn[d].pc = "shift"
    /\ SetOrder(d, turn[d].start, [turn[d] EXCEPT !.pc = "settle"])

(* The second update. After the first numbering the sections are read      *)
(* again, as the tree they are now.                                        *)
Settle(d) ==
    /\ turn[d].pc = "settle"
    /\ SetOrder(d, 1, IF turn[d].again THEN Done(d, "moved")
                      ELSE [turn[d] EXCEPT !.pc = "renumber"])

(* renumber_section_positions.                                             *)
Renumber(d) ==
    /\ turn[d].pc = "renumber"
    /\ turn' = [turn EXCEPT ![d].pc = "start", ![d].again = TRUE,
                            ![d].order = OrderedSections(place)]
    /\ UNCHANGED <<place, unused, left>>

(* SectionAdmin's form. A new section will get the next position, an old   *)
(* one keeps that of the row the request has loaded.                       *)
OpenAdd(d) ==
    /\ Request(d, "add")
    /\ turn' = [turn EXCEPT ![d] =
                   [Resting EXCEPT !.pc = "save", !.start = NextPosition(place)]]
    /\ UNCHANGED <<place, unused>>

OpenEdit(d, key) ==
    /\ Request(d, "edit")
    /\ turn' = [turn EXCEPT ![d] =
                   [Resting EXCEPT !.pc = "save", !.key = key, !.start = place[key].position]]
    /\ UNCHANGED <<place, unused>>

(* save_model: all columns of the row, inserted if it is not there. Only   *)
(* the section itself is no choice for its super section.                  *)
Save(d, key, super) ==
    LET row == [super |-> super, position |-> turn[d].start]
        new == [s \in DOMAIN place \union {key} |-> IF s = key THEN row ELSE place[s]]
    IN  /\ turn[d].pc = "save"
        /\ key \in IF turn[d].key = NoSection THEN unused ELSE {turn[d].key}
        /\ super \in (DOMAIN place \union {NoSection}) \ {key}
        /\ turn[d].start <= MaxPosition
        /\ IF PositionsDiffer(new)
           THEN /\ place' = new
                /\ unused' = unused \ {key}
                /\ Overtake(d, Done(d, "saved"))
           ELSE /\ Finish(d, "fails")
                /\ UNCHANGED <<place, unused>>
        /\ UNCHANGED left

(* The section and, by the cascade, all below it.                          *)
Delete(d, key) ==
    LET kept == {s \in DOMAIN place : key \notin Line(place, s)}
    IN  /\ Request(d, "delete")
        /\ place' = [s \in kept |-> place[s]]
        /\ Overtake(d, Resting)
        /\ UNCHANGED unused

(* A worker is killed between two transactions.                            *)
Kill(d) ==
    /\ turn[d].pc # "idle"
    /\ Finish(d, "none")
    /\ UNCHANGED <<place, unused, left>>

PositionNext ==
    \E d \in Designer :
        \/ \E super \in DOMAIN place, key \in DOMAIN place, movement \in Movement :
               Move(d, super, key, movement)
        \/ Start(d) \/ Shift(d) \/ Settle(d) \/ Renumber(d)
        \/ OpenAdd(d) \/ Kill(d)
        \/ \E key \in DOMAIN place : OpenEdit(d, key) \/ Delete(d, key)
        \/ \E key \in Section, super \in Section \union {NoSection} : Save(d, key, super)

PositionsSpec == PositionInit /\ [][PositionNext]_positionVars

(***************************************************************************)
(* Properties                                                              *)
(***************************************************************************)
(* A move that nobody overtook has put the section where it was asked to   *)
(* be among its siblings, with all sections numbered from one through the  *)
(* tree. A request fails only when another one changed the sections after  *)
(* it had read them, or when some are their own super section through      *)
(* others, so that no numbering reaches them.                              *)
Numbered(rows) ==
    LET full == OrderedSections(rows)
    IN  \A i \in DOMAIN full : rows[full[i]].position = i

Unreached(rows) == ToSet(OrderedSections(rows)) # DOMAIN rows

MoveDoesAsAsked ==
    \A d \in Designer :
        /\ turn[d].result = "moved" =>
               Siblings(place, turn[d].super) = turn[d].asked /\ Numbered(place)
        /\ turn[d].result = "fails" => Unreached(place)

(* Two siblings change places only in the first update of a move of one of *)
(* them, or when a request writes an order or a position it has read       *)
(* before another one's change: no other step of the numberings, and no    *)
(* request killed between them, disturbs the order.                        *)
StaySiblings(s, t) == place[s].super = place[t].super /\ place'[s].super = place'[t].super

ChangesPlaces(s, t) ==
    place[s].position < place[t].position /\ place'[s].position > place'[t].position

Moves(d, s, t) ==
    /\ turn[d].pc # turn'[d].pc
    /\ \/ turn[d].pc = "shift" /\ ~turn[d].again /\ turn[d].key \in {s, t}
       \/ turn[d].overtaken

OrderLeftAlone ==
    [][\A s, t \in DOMAIN place \intersect DOMAIN place' :
           StaySiblings(s, t) /\ ChangesPlaces(s, t) => \E d \in Designer : Moves(d, s, t)]_positionVars
=============================================================================
