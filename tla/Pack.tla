-------------------------------- MODULE Pack --------------------------------
(***************************************************************************)
(* What a character carries, and what the operations of its player runtime *)
(* make of it.  A pack is a value; every operator here takes one and gives *)
(* the pack after the operation, and has a guard beside it where the       *)
(* runtime may refuse.  Belongings and Deposit apply them.                 *)
(*                                                                         *)
(* Every item has a template.  Locks, level and job restrictions, anti     *)
(* flags and the cells an exchange displays are left out: they refuse, and *)
(* a refused operation changes nothing.  Sockets and attributes follow     *)
(* their instance.  Only item quickslots are kept; the others do not       *)
(* depend on items.                                                        *)
(***************************************************************************)
EXTENDS Integers, FiniteSets, FiniteSetsExt

CONSTANTS
    Kind, NoKind,   \* item templates
    Catalog,        \* [Kind -> [max, wear, boost, drink, into, fail, cost, needs, credit]]
    Cells,          \* carried cells, 1..Cells
    Wear, NoWear,   \* wear cells
    Position,       \* quickslots that hold items
    MaxId,          \* bound: instance IDs
    MaxGold,        \* the carrier of gold, 2^31 - 1 in the code
    MaxPoints       \* the carrier of points, int32 in the code

Cell == 1..Cells
NoCell == 0
NoStack == [id |-> 0, kind |-> NoKind, n |-> 0]

\* max: how many one cell takes, 1 when not stackable.  wear: where it is worn, and
\* boost: what that does to the points.  drink: what using it does, 0 when it cannot
\* be used.  into, fail: what refining makes of it, NoKind when it cannot be refined
\* (into) or is destroyed by a failure (fail); cost and needs: gold and material.
Template == [max: Nat \ {0}, wear: Wear \cup {NoWear}, boost: Int, drink: Int,
             into: Kind \cup {NoKind}, fail: Kind \cup {NoKind}, cost: Nat,
             needs: [kind: Kind, n: Nat], credit: Nat \ {0}]

ASSUME CellsAssumption == Cells \in Nat /\ MaxId \in Nat /\ IsFiniteSet(Wear)
ASSUME CarrierAssumption == MaxGold \in Nat /\ MaxPoints \in Nat
ASSUME NullAssumption == NoKind \notin Kind /\ NoWear \notin Wear
ASSUME CatalogAssumption == Catalog \in [Kind -> Template]

PointValue == -MaxPoints..MaxPoints
Stack == {s \in [id: 1..MaxId, kind: Kind, n: Nat \ {0}] : s.n <= Catalog[s.kind].max}
MaybeStack == Stack \cup {NoStack}

PackType ==
    [bag: [Cell -> MaybeStack], worn: [Wear -> MaybeStack],
     bar: [Position -> Cell \cup {NoCell}], gold: 0..MaxGold, pts: PointValue]

\* A quickslot points at goods, and no two at the same cell.
Bound(p) ==
    \A q, r \in Position :
        p.bar[q] # NoCell =>
            /\ p.bag[p.bar[q]] # NoStack
            /\ q # r => p.bar[q] # p.bar[r]

\* What the account store asks of a row: no instance ID twice.
Apart(p) ==
    /\ \A c, d \in Cell : c # d /\ p.bag[c] # NoStack => p.bag[c].id # p.bag[d].id
    /\ \A v, w \in Wear : v # w /\ p.worn[v] # NoStack => p.worn[v].id # p.worn[w].id
    /\ \A c \in Cell, w \in Wear : p.worn[w] # NoStack => p.bag[c].id # p.worn[w].id

-----------------------------------------------------------------------------
(* Cells, instance IDs and quickslots.                                     *)

Put(p, c, s) == [p EXCEPT !.bag[c] = s]
Stackable(k) == Catalog[k].max > 1
Lowest(S) == CHOOSE c \in S : \A d \in S : c <= d

IdsOf(p) == {p.bag[c].id : c \in Cell} \cup {p.worn[w].id : w \in Wear}
NextId(p) == 1 + CHOOSE i \in IdsOf(p) \cup {0} : \A j \in IdsOf(p) : j <= i

\* The item in c is gone, or has moved to d where no other binding may stay.
Unbound(p, c) == [p EXCEPT !.bar = [q \in Position |-> IF @[q] = c THEN NoCell ELSE @[q]]]
Rebound(p, c, d) ==
    [p EXCEPT !.bar = [q \in Position |->
        IF @[q] = c THEN d ELSE IF @[q] = d THEN NoCell ELSE @[q]]]

\* n of the stack in c are gone.
Less(p, c, n) ==
    IF n = p.bag[c].n THEN Unbound(Put(p, c, NoStack), c)
    ELSE [p EXCEPT !.bag[c].n = @ - n]

Bind(p, q, c) ==
    [p EXCEPT !.bar = [r \in Position |->
        IF r = q THEN c ELSE IF @[r] = c THEN NoCell ELSE @[r]]]

SwapBindings(p, q, r) == [p EXCEPT !.bar[q] = p.bar[r], !.bar[r] = p.bar[q]]

-----------------------------------------------------------------------------
(* Moves between carried cells; n = 0 asks for all that fits.              *)

\* Fault: the quickslots stay.
CarriedOnly(p, c, d) == Put(Put(p, d, p.bag[c]), c, p.bag[d])
Carried(p, c, d) == Rebound(Put(Put(p, d, p.bag[c]), c, p.bag[d]), c, d)
Poured(p, c, d, n) == [Less(p, c, n) EXCEPT !.bag[d].n = @ + n]
Parted(p, c, d, n) ==
    Put(Less(p, c, n), d, [id |-> NextId(p), kind |-> p.bag[c].kind, n |-> n])

\* Fault: what the target takes is not looked at.
FittingAll(p, c, d) == p.bag[c].n
Fitting(p, c, d) == Min({p.bag[c].n, Catalog[p.bag[c].kind].max - p.bag[d].n})

-----------------------------------------------------------------------------
(* Gear, and what it does to the points.                                   *)

InRange(x) == x \in PointValue
Boosted(p, x) == [p EXCEPT !.pts = @ + x]
Effect(s) == IF s = NoStack THEN 0 ELSE Catalog[s.kind].boost

Worn(p, c, w) == Unbound([Put(p, c, NoStack) EXCEPT !.worn[w] = p.bag[c]], c)
TakenOff(p, w, c) == [Put(p, c, p.worn[w]) EXCEPT !.worn[w] = NoStack]
Exchanged(p, c, w) == [Put(p, c, p.worn[w]) EXCEPT !.worn[w] = p.bag[c]]

-----------------------------------------------------------------------------
(* Consuming and granting.  Both go from the lowest cell up.               *)

CellsOf(p, k) == {c \in Cell : p.bag[c].kind = k}
FreeCells(p) == CellsOf(p, NoKind)
Below(S, c) == {d \in S : d < c}
Pieces(cells, S) == UNION {{c} \X (1..cells[c].n) : c \in S}
CountIn(p, S) == Cardinality(Pieces(p.bag, S))
RoomIn(p, k, S) == Catalog[k].max * Cardinality(S) - CountIn(p, S)
Clamp(x, top) == IF x \in 0..top THEN x ELSE IF x > top THEN top ELSE 0

\* part[c] of the stack in each cell c are gone.
Reduced(p, part) ==
    LET gone == {c \in Cell : part[c] = p.bag[c].n}
    IN  [p EXCEPT
            !.bag = [c \in Cell |->
                IF c \in gone THEN NoStack ELSE [p.bag[c] EXCEPT !.n = @ - part[c]]],
            !.bar = [q \in Position |-> IF p.bar[q] \in gone THEN NoCell ELSE p.bar[q]]]

\* n of kind k are taken from the cells outside the set `but`.
Has(p, k, n, but) == CountIn(p, CellsOf(p, k) \ but) >= n
Consumed(p, k, n, but) ==
    LET from == CellsOf(p, k) \ but
    IN  Reduced(p, [c \in Cell |->
            IF c \in from THEN Clamp(n - CountIn(p, Below(from, c)), p.bag[c].n) ELSE 0])

\* more[c] are added to the stack in each cell c.
Topped(p, more) ==
    [p EXCEPT !.bag = [c \in Cell |->
        IF more[c] = 0 THEN p.bag[c] ELSE [p.bag[c] EXCEPT !.n = @ + more[c]]]]

\* n of kind k are added: to the lowest stack that takes them all, or else to every
\* stack that has room and the rest, as a new instance, to the lowest free cell.
Takers(p, k, n) ==
    {c \in CellsOf(p, k) : Stackable(k) /\ p.bag[c].n + n <= Catalog[k].max}
Partial(p, k) == {c \in CellsOf(p, k) : Stackable(k) /\ p.bag[c].n < Catalog[k].max}
Rest(p, k, n) == Clamp(n - RoomIn(p, k, Partial(p, k)), n)
HasRoom(p, k, n) == Takers(p, k, n) # {} \/ Rest(p, k, n) = 0 \/ FreeCells(p) # {}

Granted(p, k, n) ==
    IF Takers(p, k, n) # {}
    THEN Topped(p, [c \in Cell |-> IF c = Lowest(Takers(p, k, n)) THEN n ELSE 0])
    ELSE
    LET into == Partial(p, k)
        full == Topped(p, [c \in Cell |->
                    IF c \in into
                    THEN Clamp(n - RoomIn(p, k, Below(into, c)), Catalog[k].max - p.bag[c].n)
                    ELSE 0])
    IN  IF Rest(p, k, n) = 0 THEN full
        ELSE Put(full, Lowest(FreeCells(p)),
                 [id |-> NextId(p), kind |-> k, n |-> Rest(p, k, n)])
=============================================================================
