------------------------- MODULE Possessions_proofs -------------------------
(***************************************************************************)
(* Proofs about Possessions.  A pack is sound when it has its type and its *)
(* quickslots point at goods; every operation of Pack keeps it so, and the *)
(* commits hand on what they are given.                                    *)
(***************************************************************************)
EXTENDS Possessions, WellFoundedInduction, TLAPS

Sound(p) == p \in PackType /\ Bound(p)

USE CellsAssumption, CarrierAssumption, NullAssumption, CatalogAssumption DEF Cell

(* A pack with other goods in its carried cells is sound when what the     *)
(* quickslots point at is still there.                                     *)
LEMMA Refilled ==
    ASSUME NEW p, Sound(p), NEW B \in [Cell -> MaybeStack],
           \A q \in Position : p.bar[q] # NoCell => B[p.bar[q]] # NoStack
    PROVE  Sound([p EXCEPT !.bag = B]) /\ [p EXCEPT !.bag = B].bag = B
  BY DEF Sound, PackType, Bound, NoCell

(* The same with other quickslots.                                         *)
LEMMA Rebarred ==
    ASSUME NEW p, p \in PackType, NEW R \in [Position -> Cell \cup {NoCell}],
           \A q, r \in Position : R[q] # NoCell =>
               p.bag[R[q]] # NoStack /\ (q # r => R[q] # R[r])
    PROVE  Sound([p EXCEPT !.bar = R]) /\ [p EXCEPT !.bar = R].bar = R
  BY DEF Sound, PackType, Bound, NoCell

(* Gold, points and gear are no concern of the quickslots.                 *)
LEMMA Sundries ==
    ASSUME NEW p, Sound(p)
    PROVE  /\ \A g \in 0..MaxGold : Sound([p EXCEPT !.gold = g])
           /\ \A x \in PointValue : Sound([p EXCEPT !.pts = x])
           /\ \A W \in [Wear -> MaybeStack] : Sound([p EXCEPT !.worn = W])
  BY DEF Sound, PackType, Bound

-----------------------------------------------------------------------------
(* The operations of Pack.                                                 *)

\* A stack put where nothing is lost.
LEMMA PutSound ==
    ASSUME NEW p, Sound(p), NEW c \in Cell, NEW s \in Stack
    PROVE  Sound(Put(p, c, s)) /\ Put(p, c, s).bag = [p.bag EXCEPT ![c] = s]
<1> DEFINE B == [p.bag EXCEPT ![c] = s]
<1>1. B \in [Cell -> MaybeStack] /\ s # NoStack
    BY DEF Sound, PackType, MaybeStack, Stack, NoStack
<1>2. \A q \in Position : p.bar[q] # NoCell => B[p.bar[q]] # NoStack
    BY <1>1 DEF Sound, PackType, Bound, NoCell
<1>3. Put(p, c, s) = [p EXCEPT !.bag = B]
    BY DEF Put, Sound, PackType
<1>4. Sound([p EXCEPT !.bag = B])
    <2> HIDE DEF B
    <2> QED
        BY <1>1, <1>2, Refilled
<1> QED
    BY <1>3, <1>4 DEF Sound, PackType

\* A cell emptied, and the quickslots that point at it cleared.
LEMMA EmptiedSound ==
    ASSUME NEW p, Sound(p), NEW c \in Cell
    PROVE  Sound(Unbound(Put(p, c, NoStack), c))
<1> DEFINE B == [p.bag EXCEPT ![c] = NoStack]
           R == [q \in Position |-> IF p.bar[q] = c THEN NoCell ELSE p.bar[q]]
           b == [p EXCEPT !.bag = B]
<1>1. b \in PackType /\ b.bag = B /\ b.bar = p.bar
    BY DEF Sound, PackType, MaybeStack
<1>2. R \in [Position -> Cell \cup {NoCell}]
    BY DEF Sound, PackType, NoCell
<1>3. \A q, r \in Position : R[q] # NoCell =>
          b.bag[R[q]] # NoStack /\ (q # r => R[q] # R[r])
    BY <1>1 DEF Sound, PackType, Bound, NoCell
<1>4. Unbound(Put(p, c, NoStack), c) = [b EXCEPT !.bar = R]
    BY <1>1 DEF Unbound, Put, Sound, PackType
<1>5. Sound([b EXCEPT !.bar = R])
    <2> HIDE DEF b, R
    <2> QED
        BY <1>1, <1>2, <1>3, Rebarred
<1> QED
    BY <1>4, <1>5

\* A stack grows smaller or goes; the other cells stay as they are.
LEMMA LessSound ==
    ASSUME NEW p, Sound(p), NEW c \in Cell, p.bag[c] # NoStack, NEW n \in 1..p.bag[c].n
    PROVE  Sound(Less(p, c, n)) /\ \A d \in Cell \ {c} : Less(p, c, n).bag[d] = p.bag[d]
<1>1. p.bag[c] \in Stack
    BY DEF Sound, PackType, MaybeStack
<1>2. CASE n = p.bag[c].n
    <2>1. \A d \in Cell \ {c} : Unbound(Put(p, c, NoStack), c).bag[d] = p.bag[d]
        BY DEF Unbound, Put, Sound, PackType
    <2> QED
        BY <1>2, <2>1, EmptiedSound DEF Less
<1>3. CASE n # p.bag[c].n
    <2> DEFINE s == [p.bag[c] EXCEPT !.n = @ - n]
    <2>1. s \in Stack
        <3>1. /\ p.bag[c].n \in Nat /\ p.bag[c].n - n \in Nat \ {0}
              /\ p.bag[c].n <= Catalog[p.bag[c].kind].max /\ p.bag[c].kind \in Kind
            BY <1>1, <1>3 DEF Stack
        <3>2. Catalog[p.bag[c].kind].max \in Nat
            BY <3>1 DEF Template
        <3> QED
            BY <1>1, <3>1, <3>2 DEF Stack
    <2>2. Less(p, c, n) = Put(p, c, s)
        BY <1>1, <1>3 DEF Less, Put, Sound, PackType
    <2>3. \A d \in Cell \ {c} : Put(p, c, s).bag[d] = p.bag[d]
        BY DEF Put, Sound, PackType
    <2> HIDE DEF s
    <2>4. Sound(Put(p, c, s))
        BY <2>1, PutSound
    <2> QED
        BY <2>2, <2>3, <2>4
<1> QED
    BY <1>2, <1>3

\* Part of a stack goes onto another that has room for it.
LEMMA PouredSound ==
    ASSUME NEW p, Sound(p), NEW c \in Cell, NEW d \in Cell \ {c},
           p.bag[c] # NoStack, NEW n \in 1..p.bag[c].n,
           p.bag[d] # NoStack, p.bag[d].n + n <= Catalog[p.bag[d].kind].max
    PROVE  Sound(Poured(p, c, d, n))
<1> DEFINE l == Less(p, c, n)
           s == [p.bag[d] EXCEPT !.n = @ + n]
<1>1. Sound(l) /\ l.bag[d] = p.bag[d]
    BY LessSound
<1>2. p.bag[c] \in Stack /\ p.bag[d] \in Stack
    BY DEF Sound, PackType, MaybeStack
<1>3. s \in Stack
    BY <1>2 DEF Stack
<1> HIDE DEF l
<1>4. [l EXCEPT !.bag[d].n = @ + n] = Put(l, d, s)
    BY <1>1, <1>2 DEF Put, Sound, PackType, Stack
<1> HIDE DEF s
<1>5. Sound(Put(l, d, s))
    BY <1>1, <1>3, PutSound
<1> QED
    BY <1>4, <1>5 DEF Poured, l

\* Part of a stack becomes a stack of its own, with a new ID.
LEMMA PartedSound ==
    ASSUME NEW p, Sound(p), NEW c \in Cell, NEW d \in Cell \ {c},
           p.bag[c] # NoStack, NEW n \in 1..(p.bag[c].n - 1), NextId(p) \in 1..MaxId
    PROVE  Sound(Parted(p, c, d, n))
<1> DEFINE s == [id |-> NextId(p), kind |-> p.bag[c].kind, n |-> n]
<1>1. p.bag[c] \in Stack
    BY DEF Sound, PackType, MaybeStack
<1>2. s \in Stack /\ n \in 1..p.bag[c].n
    <2> HIDE DEF NextId
    <2>1. Catalog[p.bag[c].kind].max \in Nat /\ p.bag[c].kind \in Kind /\ p.bag[c].n \in Nat
        BY <1>1 DEF Stack, Template
    <2> QED
        BY <1>1, <2>1 DEF Stack
<1>3. Sound(Less(p, c, n))
    BY <1>2, LessSound
<1> QED
    BY <1>2, <1>3, PutSound DEF Parted

\* Two cells exchange what they hold, and the quickslots follow it.
LEMMA CarriedSound ==
    ASSUME NEW p, Sound(p), NEW c \in Cell, NEW d \in Cell \ {c}, p.bag[c] # NoStack
    PROVE  Sound(Carried(p, c, d))
<1> DEFINE B == [p.bag EXCEPT ![d] = p.bag[c], ![c] = p.bag[d]]
           b == [p EXCEPT !.bag = B]
           R == [q \in Position |->
                    IF p.bar[q] = c THEN d ELSE IF p.bar[q] = d THEN NoCell ELSE p.bar[q]]
<1>1. b \in PackType /\ b.bag = B /\ b.bar = p.bar
    BY DEF Sound, PackType
<1>2. R \in [Position -> Cell \cup {NoCell}]
    BY DEF Sound, PackType
<1>3. \A q, r \in Position : R[q] # NoCell =>
          b.bag[R[q]] # NoStack /\ (q # r => R[q] # R[r])
    BY <1>1 DEF Sound, PackType, Bound, NoCell
<1>4. Put(Put(p, d, p.bag[c]), c, p.bag[d]) = b
    BY DEF Put, Sound, PackType
<1>5. Carried(p, c, d) = [b EXCEPT !.bar = R]
    BY <1>1, <1>4 DEF Carried, Rebound, Sound, PackType
<1>6. Sound([b EXCEPT !.bar = R])
    <2> HIDE DEF b, R
    <2> QED
        BY <1>1, <1>2, <1>3, Rebarred
<1> QED
    BY <1>5, <1>6

\* Binding, clearing and swapping quickslots.
LEMMA BarSound ==
    ASSUME NEW p, Sound(p), NEW q \in Position
    PROVE  /\ \A c \in Cell : p.bag[c] # NoStack => Sound(Bind(p, q, c))
           /\ Sound([p EXCEPT !.bar[q] = NoCell])
           /\ \A r \in Position : Sound(SwapBindings(p, q, r))
<1>1. p \in PackType
    BY DEF Sound
<1>2. ASSUME NEW c \in Cell, p.bag[c] # NoStack
      PROVE  Sound(Bind(p, q, c))
    <2> DEFINE R == [r \in Position |->
                       IF r = q THEN c ELSE IF p.bar[r] = c THEN NoCell ELSE p.bar[r]]
    <2>1. Bind(p, q, c) = [p EXCEPT !.bar = R]
        BY <1>1 DEF Bind, PackType
    <2>2. R \in [Position -> Cell \cup {NoCell}]
        BY <1>1 DEF PackType
    <2>3. \A r, t \in Position : R[r] # NoCell =>
              p.bag[R[r]] # NoStack /\ (r # t => R[r] # R[t])
        BY <1>2 DEF Sound, PackType, Bound, NoCell
    <2> HIDE DEF R
    <2> QED
        BY <1>1, <2>1, <2>2, <2>3, Rebarred
<1>3. Sound([p EXCEPT !.bar[q] = NoCell])
    <2> DEFINE R == [p.bar EXCEPT ![q] = NoCell]
    <2>1. [p EXCEPT !.bar[q] = NoCell] = [p EXCEPT !.bar = R]
        BY <1>1 DEF PackType
    <2>2. R \in [Position -> Cell \cup {NoCell}]
        BY <1>1 DEF PackType
    <2>3. \A r, t \in Position : R[r] # NoCell =>
              p.bag[R[r]] # NoStack /\ (r # t => R[r] # R[t])
        BY DEF Sound, PackType, Bound
    <2> HIDE DEF R
    <2> QED
        BY <1>1, <2>1, <2>2, <2>3, Rebarred
<1>4. ASSUME NEW r \in Position
      PROVE  Sound(SwapBindings(p, q, r))
    <2> DEFINE R == [p.bar EXCEPT ![q] = p.bar[r], ![r] = p.bar[q]]
    <2>1. SwapBindings(p, q, r) = [p EXCEPT !.bar = R]
        BY <1>1 DEF SwapBindings, PackType
    <2>2. R \in [Position -> Cell \cup {NoCell}]
        BY <1>1 DEF PackType
    <2>3. \A s, t \in Position : R[s] # NoCell =>
              p.bag[R[s]] # NoStack /\ (s # t => R[s] # R[t])
        BY DEF Sound, PackType, Bound
    <2> HIDE DEF R
    <2> QED
        BY <1>1, <2>1, <2>2, <2>3, Rebarred
<1> QED
    BY <1>2, <1>3, <1>4

\* Gear put on, taken off and exchanged, and its effect.
LEMMA GearSound ==
    ASSUME NEW p, Sound(p), NEW c \in Cell, NEW w \in Wear
    PROVE  /\ Sound(Worn(p, c, w))
           /\ p.worn[w] # NoStack => Sound(TakenOff(p, w, c)) /\ Sound(Exchanged(p, c, w))
<1>1. p \in PackType /\ NoStack \in MaybeStack
    BY DEF Sound, MaybeStack
<1>2. Sound(Worn(p, c, w))
    <2> DEFINE u == Unbound(Put(p, c, NoStack), c)
               W == [p.worn EXCEPT ![w] = p.bag[c]]
    <2>1. Sound(u)
        BY EmptiedSound
    <2>2. W \in [Wear -> MaybeStack]
        BY <1>1 DEF PackType
    <2>3. Worn(p, c, w) = [u EXCEPT !.worn = W]
        BY <1>1 DEF Worn, Unbound, Put, PackType
    <2>4. Sound([u EXCEPT !.worn = W])
        <3> HIDE DEF u, W
        <3> QED
            BY <2>1, <2>2, Sundries
    <2> QED
        BY <2>3, <2>4
<1>3. ASSUME NEW s \in MaybeStack, p.worn[w] # NoStack
      PROVE  Sound([Put(p, c, p.worn[w]) EXCEPT !.worn[w] = s])
    <2> DEFINE u == Put(p, c, p.worn[w])
               W == [p.worn EXCEPT ![w] = s]
    <2>1. Sound(u)
        <3>1. p.worn[w] \in Stack
            BY <1>1, <1>3 DEF PackType, MaybeStack
        <3> QED
            BY <3>1, PutSound
    <2>2. W \in [Wear -> MaybeStack]
        BY <1>1 DEF PackType
    <2>3. [u EXCEPT !.worn[w] = s] = [u EXCEPT !.worn = W]
        BY <1>1 DEF Put, PackType
    <2>4. Sound([u EXCEPT !.worn = W])
        <3> HIDE DEF u, W
        <3> QED
            BY <2>1, <2>2, Sundries
    <2> QED
        BY <2>3, <2>4
<1>4. p.bag[c] \in MaybeStack
    BY <1>1 DEF PackType
<1> QED
    BY <1>1, <1>2, <1>3, <1>4 DEF TakenOff, Exchanged

\* Clamp stays between nothing and its top.
LEMMA ClampBounds ==
    ASSUME NEW x, NEW top \in Nat
    PROVE  Clamp(x, top) \in 0..top
  BY DEF Clamp

\* Every cell gives up some of its stack, and those that give it all lose their quickslot.
LEMMA ReducedSound ==
    ASSUME NEW p, Sound(p), NEW part \in [Cell -> Nat], \A c \in Cell : part[c] <= p.bag[c].n
    PROVE  Sound(Reduced(p, part))
<1> DEFINE gone == {c \in Cell : part[c] = p.bag[c].n}
           B == [c \in Cell |->
                    IF c \in gone THEN NoStack ELSE [p.bag[c] EXCEPT !.n = @ - part[c]]]
           b == [p EXCEPT !.bag = B]
           R == [q \in Position |-> IF p.bar[q] \in gone THEN NoCell ELSE p.bar[q]]
<1>1. p \in PackType
    BY DEF Sound
<1>2. ASSUME NEW c \in Cell \ gone
      PROVE  B[c] \in Stack
    <2>1. p.bag[c] \in Stack \/ p.bag[c] = NoStack
        BY <1>1 DEF PackType, MaybeStack
    <2>2. p.bag[c].n \in Nat
        BY <2>1 DEF Stack, NoStack
    <2>3. part[c] \in 0..(p.bag[c].n - 1)
        BY <2>2
    <2>4. p.bag[c] \in Stack
        BY <2>1, <2>3 DEF NoStack
    <2>5. /\ p.bag[c].n - part[c] \in Nat \ {0} /\ p.bag[c].kind \in Kind
          /\ p.bag[c].n <= Catalog[p.bag[c].kind].max
        BY <2>2, <2>3, <2>4 DEF Stack
    <2>6. Catalog[p.bag[c].kind].max \in Nat
        BY <2>5 DEF Template
    <2>7. p.bag[c].n - part[c] <= Catalog[p.bag[c].kind].max
        <3> DEFINE m == p.bag[c].n
                   x == part[c]
                   top == Catalog[p.bag[c].kind].max
        <3>1. m \in Nat /\ x \in 0..(m - 1) /\ top \in Nat /\ m <= top
            BY <2>2, <2>3, <2>5, <2>6
        <3> HIDE DEF m, x, top
        <3>2. m - x <= top
            BY <3>1
        <3> QED
            BY <3>2 DEF m, x, top
    <2>8. [p.bag[c] EXCEPT !.n = @ - part[c]] \in Stack
        BY <2>4, <2>5, <2>7 DEF Stack
    <2> QED
        BY <2>8
<1>3. B \in [Cell -> MaybeStack] /\ \A c \in Cell \ gone : B[c] # NoStack
    <2>1. \A c \in Cell : B[c] = NoStack \/ (c \notin gone /\ B[c] \in Stack)
        BY <1>2
    <2> HIDE DEF gone
    <2>2. \A c \in Cell : B[c] \in MaybeStack
        BY <2>1 DEF MaybeStack
    <2>3. NoStack \notin Stack
        BY DEF Stack, NoStack
    <2> QED
        BY <1>2, <2>2, <2>3 DEF gone
<1>4. b \in PackType /\ b.bag = B /\ b.bar = p.bar
    <2> HIDE DEF B
    <2> QED
        BY <1>1, <1>3 DEF PackType
<1>5. R \in [Position -> Cell \cup {NoCell}]
    <2> HIDE DEF gone
    <2> QED
        BY <1>1 DEF PackType
<1>6. \A q, r \in Position : R[q] # NoCell =>
          b.bag[R[q]] # NoStack /\ (q # r => R[q] # R[r])
    <2> HIDE DEF gone, B, b
    <2> SUFFICES ASSUME NEW q \in Position, NEW r \in Position, R[q] # NoCell
                 PROVE  B[R[q]] # NoStack /\ (q # r => R[q] # R[r])
        BY <1>4
    <2>1. R[q] = p.bar[q] /\ p.bar[q] \notin gone /\ p.bar[q] \in Cell
        BY <1>1 DEF PackType
    <2>2. q # r => p.bar[q] # p.bar[r]
        BY <2>1 DEF Sound, Bound
    <2> QED
        BY <1>3, <2>1, <2>2
<1>7. Reduced(p, part) = [b EXCEPT !.bar = R]
    <2>1. Reduced(p, part) = [p EXCEPT !.bag = B, !.bar = R]
        BY DEF Reduced
    <2> HIDE DEF B, R
    <2> QED
        BY <1>1, <2>1 DEF PackType
<1>8. Sound([b EXCEPT !.bar = R])
    <2> HIDE DEF b, R
    <2> QED
        BY <1>4, <1>5, <1>6, Rebarred
<1> QED
    BY <1>7, <1>8

\* Consuming n of a kind, whatever n is.
LEMMA ConsumedSound ==
    ASSUME NEW p, Sound(p), NEW k, NEW n, NEW but
    PROVE  Sound(Consumed(p, k, n, but))
<1> DEFINE from == CellsOf(p, k) \ but
           part == [c \in Cell |->
                    IF c \in from THEN Clamp(n - CountIn(p, Below(from, c)), p.bag[c].n) ELSE 0]
<1>1. \A c \in Cell : p.bag[c].n \in Nat
    BY DEF Sound, PackType, MaybeStack, Stack, NoStack
<1>2. \A c \in Cell : part[c] \in 0..p.bag[c].n
    BY <1>1, ClampBounds
<1>3. part \in [Cell -> Nat] /\ \A c \in Cell : part[c] <= p.bag[c].n
    <2>1. part = [c \in Cell |-> part[c]]
        OBVIOUS
    <2> HIDE DEF part
    <2> QED
        BY <1>1, <1>2, <2>1
<1>4. Sound(Reduced(p, part))
    <2> HIDE DEF part
    <2> QED
        BY <1>3, ReducedSound
<1> QED
    BY <1>4 DEF Consumed

\* Stacks grow, none beyond what its cell takes.
LEMMA ToppedSound ==
    ASSUME NEW p, Sound(p), NEW more \in [Cell -> Nat],
           \A c \in Cell : more[c] # 0 =>
               p.bag[c] # NoStack /\ p.bag[c].n + more[c] <= Catalog[p.bag[c].kind].max
    PROVE  Sound(Topped(p, more))
<1> DEFINE B == [c \in Cell |->
                    IF more[c] = 0 THEN p.bag[c] ELSE [p.bag[c] EXCEPT !.n = @ + more[c]]]
<1>1. p \in PackType
    BY DEF Sound
<1>2. ASSUME NEW c \in Cell, more[c] # 0
      PROVE  B[c] \in Stack
    <2>1. p.bag[c] \in Stack
        BY <1>1, <1>2 DEF PackType, MaybeStack
    <2>2. p.bag[c].n \in Nat \ {0} /\ more[c] \in Nat
        BY <2>1 DEF Stack
    <2>3. p.bag[c].n + more[c] \in Nat \ {0}
        BY <2>2
    <2>4. p.bag[c].n + more[c] <= Catalog[p.bag[c].kind].max
        BY <1>2
    <2>5. [p.bag[c] EXCEPT !.n = @ + more[c]] \in Stack
        BY <2>1, <2>3, <2>4 DEF Stack
    <2> QED
        BY <1>2, <2>5
<1>3. NoStack \notin Stack
    BY DEF Stack, NoStack
<1>4. ASSUME NEW c \in Cell
      PROVE  B[c] \in MaybeStack /\ (p.bag[c] # NoStack => B[c] # NoStack)
    <2>1. CASE more[c] = 0
        BY <2>1, <1>1 DEF PackType
    <2>2. CASE more[c] # 0
        <3>1. B[c] \in Stack
            BY <2>2, <1>2
        <3> HIDE DEF B
        <3> QED
            BY <3>1, <1>3 DEF MaybeStack
    <2> QED
        BY <2>1, <2>2
<1>5. B \in [Cell -> MaybeStack]
    <2>1. B = [c \in Cell |-> B[c]]
        OBVIOUS
    <2> HIDE DEF B
    <2> QED
        BY <1>4, <2>1
<1>6. \A q \in Position : p.bar[q] # NoCell => B[p.bar[q]] # NoStack
    <2> HIDE DEF B
    <2> QED
        BY <1>4 DEF Sound, PackType, Bound, NoCell
<1>7. Sound([p EXCEPT !.bag = B])
    <2> HIDE DEF B
    <2> QED
        BY <1>5, <1>6, Refilled
<1> QED
    BY <1>7 DEF Topped

\* A set of cells that is not empty has a lowest one.
LEMMA LowestExists ==
    ASSUME NEW S, S \subseteq Cell, S # {}
    PROVE  Lowest(S) \in S
<1> DEFINE R == OpToRel(<, Nat)
<1>1. \A i, j \in Nat : i < j => <<i, j>> \in R
    BY DEF OpToRel
<1>2. IsWellFoundedOn(R, Nat)
    BY NatLessThanWellFounded
<1> HIDE DEF R
<1>3. S \subseteq Nat
    OBVIOUS
<1>4. PICK c \in S : \A d \in S : ~(<<d, c>> \in R)
    BY <1>2, <1>3, WFMin
<1>5. ASSUME NEW d \in S
      PROVE  c <= d
    <2>1. ~(d < c)
        BY <1>1, <1>3, <1>4
    <2> QED
        BY <1>3, <2>1
<1> QED
    BY <1>5 DEF Lowest

\* A grant for which there is room tops up stacks and opens at most one new one.
LEMMA GrantedSound ==
    ASSUME NEW p, Sound(p), NEW k \in Kind, NEW n \in 1..Catalog[k].max,
           HasRoom(p, k, n), NextId(p) \in 1..MaxId
    PROVE  Sound(Granted(p, k, n))
<1>1. p \in PackType /\ Catalog[k].max \in Nat
    BY DEF Sound, Template
<1>2. CASE Takers(p, k, n) # {}
    <2> DEFINE t == Lowest(Takers(p, k, n))
               more == [c \in Cell |-> IF c = t THEN n ELSE 0]
    <2>1. t \in Takers(p, k, n)
        BY <1>2, LowestExists DEF Takers, CellsOf
    <2>2. t \in Cell /\ p.bag[t].kind = k /\ p.bag[t].n + n <= Catalog[k].max
        BY <2>1 DEF Takers, CellsOf
    <2> HIDE DEF t
    <2>3. more \in [Cell -> Nat]
        BY <1>1
    <2>4. \A c \in Cell : more[c] # 0 =>
              p.bag[c] # NoStack /\ p.bag[c].n + more[c] <= Catalog[p.bag[c].kind].max
        BY <2>2 DEF NoStack
    <2>5. Sound(Topped(p, more))
        <3> HIDE DEF more
        <3> QED
            BY <2>3, <2>4, ToppedSound
    <2> QED
        BY <1>2, <2>5 DEF Granted, t
<1>3. CASE Takers(p, k, n) = {}
    <2> DEFINE into == Partial(p, k)
               more == [c \in Cell |->
                    IF c \in into
                    THEN Clamp(n - RoomIn(p, k, Below(into, c)), Catalog[k].max - p.bag[c].n)
                    ELSE 0]
               full == Topped(p, more)
               f == Lowest(FreeCells(p))
               s == [id |-> NextId(p), kind |-> k, n |-> Rest(p, k, n)]
    <2>1. ASSUME NEW c \in into
          PROVE  /\ c \in Cell /\ p.bag[c].kind = k /\ p.bag[c] # NoStack
                 /\ p.bag[c].n \in Nat /\ Catalog[k].max - p.bag[c].n \in Nat
        <3>1. c \in Cell /\ p.bag[c].kind = k /\ p.bag[c].n < Catalog[k].max
            BY DEF Partial, CellsOf
        <3>2. p.bag[c] \in Stack
            BY <1>1, <3>1 DEF PackType, MaybeStack, NoStack
        <3>3. p.bag[c].n \in Nat
            BY <3>2 DEF Stack
        <3> QED
            BY <1>1, <3>1, <3>2, <3>3 DEF NoStack
    <2> HIDE DEF into
    <2>2. ASSUME NEW c \in into
          PROVE  more[c] \in 0..(Catalog[k].max - p.bag[c].n)
        BY <2>1, ClampBounds
    <2>3. ASSUME NEW c \in Cell
          PROVE  /\ more[c] \in Nat
                 /\ more[c] # 0 => p.bag[c] # NoStack /\ p.bag[c].n + more[c] <= Catalog[p.bag[c].kind].max
        <3>1. CASE c \in into
            <4> DEFINE m == more[c]
            <4>1. /\ m \in 0..(Catalog[k].max - p.bag[c].n) /\ p.bag[c].kind = k
                  /\ p.bag[c].n \in Nat /\ p.bag[c] # NoStack
                BY <2>1, <2>2, <3>1
            <4> HIDE DEF m
            <4>2. m \in Nat /\ p.bag[c].n + m <= Catalog[k].max
                BY <1>1, <4>1
            <4> QED
                BY <4>1, <4>2 DEF m
        <3>2. CASE c \notin into
            BY <3>2
        <3> QED
            BY <3>1, <3>2
    <2>4. more \in [Cell -> Nat]
        <3>1. more = [c \in Cell |-> more[c]]
            OBVIOUS
        <3> HIDE DEF more
        <3> QED
            BY <2>3, <3>1
    <2>5. Sound(full)
        <3> HIDE DEF more
        <3> QED
            BY <2>3, <2>4, ToppedSound
    <2>6. CASE Rest(p, k, n) = 0
        BY <1>3, <2>5, <2>6 DEF Granted, into
    <2>7. CASE Rest(p, k, n) # 0
        <3>1. f \in Cell
            BY <1>3, <2>7, LowestExists DEF HasRoom, FreeCells, CellsOf
        <3>2. Rest(p, k, n) \in 0..n
            BY ClampBounds DEF Rest
        <3>3. s \in Stack
            <4>1. Rest(p, k, n) \in Nat \ {0} /\ Rest(p, k, n) <= Catalog[k].max
                BY <1>1, <2>7, <3>2
            <4> QED
                BY <4>1 DEF Stack
        <3> HIDE DEF full, f, s
        <3>4. Sound(Put(full, f, s))
            BY <2>5, <3>1, <3>3, PutSound
        <3> QED
            BY <1>3, <2>7, <3>4 DEF Granted, into, full, f, s
    <2> QED
        BY <2>6, <2>7
<1> QED
    BY <1>2, <1>3

\* A refined item becomes another, or is destroyed.
LEMMA TurnedSound ==
    ASSUME NEW p, Sound(p), NEW c \in Cell, p.bag[c] # NoStack, p.bag[c].n = 1,
           NEW k \in Kind \cup {NoKind}
    PROVE  Sound(Turned(p, c, k))
<1>1. CASE k = NoKind
    BY <1>1, EmptiedSound DEF Turned
<1>2. CASE k # NoKind
    <2> DEFINE s == [p.bag[c] EXCEPT !.kind = k]
    <2>1. p.bag[c] \in Stack
        BY DEF Sound, PackType, MaybeStack
    <2>2. Catalog[k].max \in Nat \ {0} /\ k \in Kind
        BY <1>2 DEF Template
    <2>3. s \in Stack
        BY <2>1, <2>2 DEF Stack
    <2>4. Turned(p, c, k) = Put(p, c, s)
        BY <1>2 DEF Turned, Put, Sound, PackType
    <2>5. Sound(Put(p, c, s))
        BY <2>3, PutSound
    <2> QED
        BY <2>4, <2>5
<1> QED
    BY <1>1, <1>2

-----------------------------------------------------------------------------
(* Commits, and the handlers of Belongings.                                *)

PacksInv == Sound(live) /\ Sound(kept) /\ Sound(row) /\ CopiesAgree

WindowsInv == {owns, shop, boxOpen} \subseteq BOOLEAN /\ dialog \in Dialog

\* What a commit saves has the goods of the live copy.
LEMMA SavedSound ==
    ASSUME NEW q, Sound(q), InRange(Saved(q).pts)
    PROVE  Sound(Saved(q)) /\ Goods(Saved(q)) = Goods(q)
<1> DEFINE x == kept.pts + (q.pts - live.pts)
<1>1. Saved(q) = [q EXCEPT !.pts = x] /\ Saved(q).pts = x
    BY DEF Saved, Sound, PackType
<1>2. Sound([q EXCEPT !.pts = x])
    <2>1. x \in PointValue
        BY <1>1 DEF InRange
    <2> HIDE DEF x
    <2> QED
        BY <2>1, Sundries
<1> HIDE DEF x
<1>3. Goods([q EXCEPT !.pts = x]) = Goods(q)
    BY DEF Goods, Sound, PackType
<1> QED
    BY <1>1, <1>2, <1>3

\* Whatever becomes of a commit, the copies are sound and agree.
LEMMA CommitKeeps ==
    ASSUME PacksInv, NEW q, Sound(q), Commit(q) \/ CommitOrKeep(q), owns' = owns
    PROVE  PacksInv'
<1>1. CASE CommitSucceeds(q)
    <2>1. row' = Saved(q) /\ kept' = Saved(q) /\ live' = q /\ InRange(Saved(q).pts)
        BY <1>1 DEF CommitSucceeds
    <2>2. Sound(Saved(q)) /\ Goods(Saved(q)) = Goods(q)
        BY <2>1, SavedSound
    <2> QED
        BY <2>1, <2>2 DEF PacksInv, CopiesAgree
<1>2. CASE RolledBack
    BY <1>2 DEF RolledBack, PacksInv, CopiesAgree
<1>3. CASE ~owns /\ live' = q /\ UNCHANGED <<kept, row>>
    BY <1>3 DEF PacksInv, CopiesAgree
<1> QED
    BY <1>1, <1>2, <1>3 DEF Commit, CommitOrKeep, CommitFails, CommitSkipped

\* A rollback sets the snapshot to the live copy.
LEMMA RollbackKeeps ==
    ASSUME PacksInv, RolledBack, owns' = owns
    PROVE  PacksInv'
  BY DEF RolledBack, PacksInv, CopiesAgree

\* The lesser of two.
LEMMA MinOfTwo ==
    ASSUME NEW a \in Int, NEW b \in Int
    PROVE  Min({a, b}) = IF a <= b THEN a ELSE b
  BY DEF Min

\* Pouring one stack on another of its kind: as many as are asked for, or all that fit.
LEMMA PourFits ==
    ASSUME NEW p, Sound(p), NEW c \in Cell, NEW d \in Cell, p.bag[c] # NoStack,
           p.bag[d].kind = p.bag[c].kind, p.bag[d].n < Catalog[p.bag[c].kind].max
    PROVE  /\ p.bag[d] # NoStack
           /\ \A m \in Nat \ {0} :
                  m <= Min({Catalog[p.bag[c].kind].max - p.bag[d].n, p.bag[c].n}) =>
                      m \in 1..p.bag[c].n /\ p.bag[d].n + m <= Catalog[p.bag[d].kind].max
           /\ Fitting(p, c, d) \in 1..p.bag[c].n
           /\ p.bag[d].n + Fitting(p, c, d) <= Catalog[p.bag[d].kind].max
<1> DEFINE s == p.bag[c]
           t == p.bag[d]
           max == Catalog[s.kind].max
           room == max - t.n
<1>1. s \in Stack /\ t \in Stack /\ t # NoStack
    BY DEF Sound, PackType, MaybeStack, Stack, NoStack
<1>2. s.n \in Nat \ {0} /\ t.n \in Nat /\ max \in Nat /\ room \in Nat \ {0}
    BY <1>1 DEF Stack, Template
<1>3. ASSUME NEW m \in Nat \ {0}, m <= Min({room, s.n})
      PROVE  m \in 1..s.n /\ t.n + m <= max
    <2>1. m <= room /\ m <= s.n
        <3> HIDE DEF room, s
        <3> QED
            BY <1>2, <1>3, MinOfTwo
    <2> HIDE DEF s, t, max
    <2> QED
        BY <1>2, <2>1
<1>4. Fitting(p, c, d) \in Nat \ {0} /\ Fitting(p, c, d) <= Min({room, s.n})
    <2>1. Fitting(p, c, d) = Min({s.n, room})
        BY DEF Fitting
    <2> HIDE DEF room, s
    <2> QED
        BY <1>2, <2>1, MinOfTwo
<1> QED
    BY <1>1, <1>3, <1>4

\* A move between carried cells, in each of its four forms.
LEMMA MoveKeeps ==
    ASSUME PacksInv, NEW c \in Cell, NEW d \in Cell, NEW n \in Counts, Move(c, d, n)
    PROVE  PacksInv' /\ UNCHANGED <<owns, windows>>
<1> DEFINE s == live.bag[c]
           t == live.bag[d]
           room == Catalog[s.kind].max - t.n
           m == IF n = 0 THEN Fitting(live, c, d) ELSE n
<1>1. d \in Cell \ {c} /\ s # NoStack /\ Sound(live) /\ UNCHANGED <<owns, windows>>
    BY DEF Move, PacksInv
<1>2. n \in Nat
    BY DEF Counts, Template
<1>3. \/ Commit(Carried(live, c, d))
      \/ t.kind = s.kind /\ room > 0 /\ n <= Min({room, s.n}) /\ Commit(Poured(live, c, d, m))
      \/ n \in 1..(s.n - 1) /\ IdsLeft /\ Commit(Parted(live, c, d, n))
    BY DEF Move
<1>4. CASE Commit(Carried(live, c, d))
    BY <1>1, <1>4, CarriedSound, CommitKeeps
<1>5. CASE t.kind = s.kind /\ room > 0 /\ n <= Min({room, s.n}) /\ Commit(Poured(live, c, d, m))
    <2>1. s \in Stack /\ t \in Stack
        BY <1>1, <1>5 DEF Sound, PackType, MaybeStack, Stack, NoStack
    <2>2. t.n < Catalog[s.kind].max
        BY <1>5, <2>1 DEF Stack, Template
    <2>3. t # NoStack /\ m \in 1..s.n /\ t.n + m <= Catalog[t.kind].max
        BY <1>1, <1>2, <1>5, <2>2, PourFits
    <2> HIDE DEF m
    <2>4. Sound(Poured(live, c, d, m))
        BY <1>1, <2>3, PouredSound
    <2> QED
        BY <1>1, <1>5, <2>4, CommitKeeps
<1>6. CASE n \in 1..(s.n - 1) /\ IdsLeft /\ Commit(Parted(live, c, d, n))
    BY <1>1, <1>6, PartedSound, CommitKeeps DEF IdsLeft
<1> QED
    BY <1>1, <1>3, <1>4, <1>5, <1>6

\* A stack dragged onto another.
LEMMA UseOnKeeps ==
    ASSUME PacksInv, NEW c \in Cell, NEW d \in Cell, UseOn(c, d)
    PROVE  PacksInv' /\ UNCHANGED <<owns, windows>>
<1> DEFINE m == Fitting(live, c, d)
<1>1. /\ d \in Cell \ {c} /\ live.bag[c] # NoStack /\ live.bag[d].kind = live.bag[c].kind
      /\ live.bag[d].n < Catalog[live.bag[c].kind].max
      /\ Commit(Poured(live, c, d, m)) /\ Sound(live) /\ UNCHANGED <<owns, windows>>
    BY DEF UseOn, PacksInv
<1>2. /\ live.bag[d] # NoStack /\ m \in 1..live.bag[c].n
      /\ live.bag[d].n + m <= Catalog[live.bag[d].kind].max
    BY <1>1, PourFits
<1> HIDE DEF m
<1>3. Sound(Poured(live, c, d, m))
    BY <1>1, <1>2, PouredSound
<1> QED
    BY <1>1, <1>3, CommitKeeps

\* Points that stay in range.
LEMMA BoostedSound ==
    ASSUME NEW p, Sound(p), NEW x, InRange(p.pts + x)
    PROVE  Sound(Boosted(p, x))
<1> DEFINE y == p.pts + x
<1>1. Boosted(p, x) = [p EXCEPT !.pts = y] /\ y \in PointValue
    BY DEF Boosted, InRange, Sound, PackType
<1> HIDE DEF y
<1> QED
    BY <1>1, Sundries

\* Gear put on, exchanged and taken off.
LEMMA DressKeeps ==
    ASSUME PacksInv, NEW c \in Cell, NEW w \in Wear,
           Equip(c, w) \/ Replace(c, w) \/ Unequip(w, c)
    PROVE  PacksInv' /\ UNCHANGED <<owns, windows>>
<1>1. Sound(live) /\ owns' = owns /\ UNCHANGED windows
    BY DEF PacksInv, Equip, Replace, Unequip
<1>2. /\ Worn(live, c, w).pts = live.pts
      /\ Exchanged(live, c, w).pts = live.pts
      /\ TakenOff(live, w, c).pts = live.pts
    BY <1>1 DEF Worn, Exchanged, TakenOff, Unbound, Put, Sound, PackType
<1>3. CASE Equip(c, w)
    <2> DEFINE x == Effect(live.bag[c])
    <2>1. CASE InRange(live.pts + x)
        <3>1. Commit(Boosted(Worn(live, c, w), x))
            BY <1>3, <2>1 DEF Equip
        <3> HIDE DEF x
        <3>2. Sound(Boosted(Worn(live, c, w), x))
            BY <1>1, <1>2, <2>1, GearSound, BoostedSound
        <3> QED
            BY <1>1, <3>1, <3>2, CommitKeeps
    <2>2. CASE ~InRange(live.pts + x)
        BY <1>1, <1>3, <2>2, RollbackKeeps DEF Equip
    <2> QED
        BY <2>1, <2>2
<1>4. CASE Replace(c, w)
    <2> DEFINE x == -Effect(live.worn[w]) + Effect(live.bag[c])
    <2>1. /\ live.worn[w] # NoStack /\ InRange(live.pts + x)
          /\ Commit(Boosted(Exchanged(live, c, w), x))
        BY <1>4 DEF Replace
    <2> HIDE DEF x
    <2>2. Sound(Boosted(Exchanged(live, c, w), x))
        BY <1>1, <1>2, <2>1, GearSound, BoostedSound
    <2> QED
        BY <1>1, <2>1, <2>2, CommitKeeps
<1>5. CASE Unequip(w, c)
    <2> DEFINE x == -Effect(live.worn[w])
    <2>1. CASE InRange(live.pts + x)
        <3>1. live.worn[w] # NoStack /\ Commit(Boosted(TakenOff(live, w, c), x))
            BY <1>5, <2>1 DEF Unequip
        <3> HIDE DEF x
        <3>2. Sound(Boosted(TakenOff(live, w, c), x))
            BY <1>1, <1>2, <2>1, <3>1, GearSound, BoostedSound
        <3> QED
            BY <1>1, <3>1, <3>2, CommitKeeps
    <2>2. CASE ~InRange(live.pts + x)
        BY <1>1, <1>5, <2>2, RollbackKeeps DEF Unequip
    <2> QED
        BY <2>1, <2>2
<1> QED
    BY <1>1, <1>3, <1>4, <1>5

\* The quickslot handlers.
LEMMA QuickslotsKeep ==
    ASSUME PacksInv, NEW q \in Position,
           \/ QuickslotDel(q)
           \/ \E c \in Cell : QuickslotAdd(q, c)
           \/ \E r \in Position : QuickslotSwap(q, r)
    PROVE  PacksInv' /\ UNCHANGED <<owns, windows>>
<1>1. Sound(live)
    BY DEF PacksInv
<1>2. CASE QuickslotDel(q)
    BY <1>1, <1>2, BarSound, CommitKeeps DEF QuickslotDel
<1>3. ASSUME NEW c \in Cell, QuickslotAdd(q, c)
      PROVE  PacksInv' /\ UNCHANGED <<owns, windows>>
    BY <1>1, <1>3, BarSound, CommitKeeps DEF QuickslotAdd
<1>4. ASSUME NEW r \in Position, QuickslotSwap(q, r)
      PROVE  PacksInv' /\ UNCHANGED <<owns, windows>>
    BY <1>1, <1>4, BarSound, CommitKeeps DEF QuickslotSwap
<1> QED
    BY <1>2, <1>3, <1>4

\* Another amount of gold.
LEMMA GoldSound ==
    ASSUME NEW p, Sound(p), NEW x \in Int, p.gold + x \in 0..MaxGold
    PROVE  Sound([p EXCEPT !.gold = @ + x])
<1> DEFINE y == p.gold + x
<1>1. [p EXCEPT !.gold = @ + x] = [p EXCEPT !.gold = y]
    BY DEF Sound, PackType
<1>2. Sound([p EXCEPT !.gold = y])
    <2> HIDE DEF y
    <2> QED
        BY Sundries DEF y
<1> QED
    BY <1>1, <1>2

\* A potion, or whatever can be drunk, is used up and its points are added.
LEMMA UseKeeps ==
    ASSUME PacksInv, NEW c \in Cell, Use(c)
    PROVE  PacksInv' /\ UNCHANGED <<owns, windows>>
<1> DEFINE x == Catalog[live.bag[c].kind].drink
           l == Less(live, c, 1)
<1>1. /\ Sound(live) /\ owns' = owns /\ UNCHANGED windows /\ live.bag[c] # NoStack
      /\ InRange(live.pts + x) /\ CommitOrKeep(Boosted(l, x))
    BY DEF Use, PacksInv
<1>2. live.bag[c] \in Stack
    BY <1>1 DEF Sound, PackType, MaybeStack
<1>3. 1 \in 1..live.bag[c].n
    BY <1>2 DEF Stack
<1>4. Sound(l)
    BY <1>1, <1>3, LessSound
<1>5. l.pts = live.pts
    BY <1>1 DEF Less, Unbound, Put, Sound, PackType
<1> HIDE DEF l, x
<1>6. Sound(Boosted(l, x))
    BY <1>1, <1>4, <1>5, BoostedSound
<1> QED
    BY <1>1, <1>6, CommitKeeps

\* A purchase adds goods and takes gold.
LEMMA BuyKeeps ==
    ASSUME PacksInv, NEW o \in Offer, Buy(o)
    PROVE  PacksInv' /\ UNCHANGED <<owns, windows>>
<1> DEFINE g == Granted(live, o.kind, o.n)
           q == [g EXCEPT !.gold = @ - o.price]
<1>1. /\ Sound(live) /\ owns' = owns /\ UNCHANGED windows /\ live.gold >= o.price
      /\ HasRoom(live, o.kind, o.n) /\ NextId(live) \in 1..MaxId /\ CommitOrKeep(q)
    BY DEF Buy, PacksInv, IdsLeft
<1>2. o.kind \in Kind /\ o.n \in 1..Catalog[o.kind].max /\ o.price \in Nat
    BY OfferAssumption
<1>3. Sound(g)
    BY <1>1, <1>2, GrantedSound
<1>4. g.gold = live.gold
    BY <1>1 DEF Granted, Topped, Put, Sound, PackType
<1> HIDE DEF g
<1>5. Sound(q)
    <2> DEFINE x == -o.price
    <2>1. x \in Int /\ g.gold + x \in 0..MaxGold
        BY <1>1, <1>2, <1>4 DEF Sound, PackType
    <2>2. [g EXCEPT !.gold = @ + x] = q
        BY <1>2, <1>3 DEF Sound, PackType
    <2> HIDE DEF x, q
    <2> QED
        BY <1>3, <2>1, <2>2, GoldSound
<1> HIDE DEF q
<1> QED
    BY <1>1, <1>5, CommitKeeps

\* A sale takes goods and adds gold.
LEMMA SellKeeps ==
    ASSUME PacksInv, NEW c \in Cell, NEW n \in Counts, Sell(c, n)
    PROVE  PacksInv' /\ UNCHANGED <<owns, windows>>
<1> DEFINE s == live.bag[c]
           m == IF n = 0 THEN s.n ELSE n
           credit == m * Catalog[s.kind].credit
           l == Less(live, c, m)
           q == [l EXCEPT !.gold = @ + credit]
<1>1. /\ Sound(live) /\ owns' = owns /\ UNCHANGED windows /\ s # NoStack /\ n <= s.n
      /\ live.gold + credit <= MaxGold /\ CommitOrKeep(q)
    BY DEF Sell, PacksInv
<1>2. s \in Stack
    BY <1>1 DEF Sound, PackType, MaybeStack
<1>3. s.n \in Nat \ {0} /\ s.kind \in Kind
    BY <1>2 DEF Stack
<1>4. n \in Nat
    <2>1. \A k \in Kind : Catalog[k].max \in Nat
        BY DEF Template
    <2> QED
        BY <2>1 DEF Counts
<1>5. m \in 1..s.n
    <2> HIDE DEF s
    <2> QED
        BY <1>1, <1>3, <1>4
<1>6. Catalog[s.kind].credit \in Nat
    BY <1>3 DEF Template
<1>7. credit \in Nat
    <2> DEFINE y == Catalog[s.kind].credit
    <2>1. m \in Nat /\ y \in Nat
        BY <1>5, <1>6
    <2> HIDE DEF m, y
    <2>2. m * y \in Nat
        BY <2>1
    <2> QED
        BY <2>2 DEF y
<1> HIDE DEF credit
<1>8. Sound(l)
    <2> HIDE DEF m
    <2> QED
        BY <1>1, <1>5, LessSound DEF l
<1>9. l.gold = live.gold
    BY <1>1 DEF Less, Unbound, Put, Sound, PackType
<1> HIDE DEF l
<1>10. l.gold + credit \in 0..MaxGold
    BY <1>1, <1>7, <1>9 DEF Sound, PackType
<1>11. Sound(q)
    BY <1>7, <1>8, <1>10, GoldSound
<1> HIDE DEF q
<1> QED
    BY <1>1, <1>11, CommitKeeps

\* The refine dialog remembers the stack it was shown for.
LEMMA PreviewKeeps ==
    ASSUME PacksInv, WindowsInv, NEW c \in Cell, NEW scroll \in BOOLEAN, Preview(c, scroll)
    PROVE  PacksInv' /\ WindowsInv'
<1>1. Sound(live) /\ live.bag[c] # NoStack
    BY DEF PacksInv, Preview
<1>2. live.bag[c] \in Stack
    BY <1>1 DEF Sound, PackType, MaybeStack
<1>3. [cell |-> c, scroll |-> scroll, id |-> live.bag[c].id, kind |-> live.bag[c].kind] \in Dialog
    BY <1>2 DEF Dialog, Stack
<1>4. UNCHANGED <<packs, owns, boxOpen>> /\ shop' = FALSE /\ dialog' \in Dialog
    BY <1>3 DEF Preview
<1> QED
    BY <1>4 DEF packs, PacksInv, CopiesAgree, WindowsInv

\* Consuming from other cells leaves a cell as it is.
LEMMA ConsumedElsewhere ==
    ASSUME NEW p, Sound(p), NEW k, NEW n, NEW but, NEW c \in Cell, c \in but, p.bag[c] # NoStack
    PROVE  Consumed(p, k, n, but).bag[c] = p.bag[c]
<1> DEFINE part == [d \in Cell |->
                IF d \in CellsOf(p, k) \ but
                THEN Clamp(n - CountIn(p, Below(CellsOf(p, k) \ but, d)), p.bag[d].n) ELSE 0]
<1>1. Consumed(p, k, n, but) = Reduced(p, part) /\ part[c] = 0
    BY DEF Consumed
<1>2. p.bag[c] \in Stack
    BY DEF Sound, PackType, MaybeStack
<1>3. p.bag[c].n # 0 /\ [p.bag[c] EXCEPT !.n = @ - 0] = p.bag[c]
    BY <1>2 DEF Stack
<1> HIDE DEF part
<1>4. Reduced(p, part).bag[c] = [p.bag[c] EXCEPT !.n = @ - part[c]]
    BY <1>1, <1>3 DEF Reduced, Sound, PackType
<1> QED
    BY <1>1, <1>3, <1>4

\* A refine takes the price, the material and the scroll, and turns the item.
LEMMA ConfirmKeeps ==
    ASSUME PacksInv, WindowsInv, NEW c \in Cell, NEW scroll \in BOOLEAN, Confirm(c, scroll)
    PROVE  PacksInv' /\ WindowsInv'
<1> DEFINE t == Catalog[dialog.kind]
           paid == [live EXCEPT !.gold = @ - t.cost]
           less == Consumed(paid, t.needs.kind, t.needs.n, {c})
           done(k) == Turned(less, c, k)
           last(k) == IF scroll THEN Consumed(done(k), Catalyst, 1, {c}) ELSE done(k)
<1>1. /\ Sound(live) /\ UNCHANGED <<owns, shop, boxOpen>>
      /\ dialog # NoDialog /\ live.bag[c].n = 1 /\ live.bag[c].kind = dialog.kind
      /\ live.gold >= t.cost
    BY DEF Confirm, Asked, PacksInv
<1>2. dialog.kind \in Kind
    BY <1>1 DEF WindowsInv, Dialog
<1>3. t.cost \in Nat /\ t.into \in Kind \cup {NoKind} /\ t.fail \in Kind \cup {NoKind}
    BY <1>2 DEF Template
<1>4. live.bag[c] # NoStack
    BY <1>1 DEF NoStack
<1>5. Sound(paid) /\ paid.bag = live.bag
    <2> DEFINE x == -t.cost
    <2>1. x \in Int /\ live.gold + x \in 0..MaxGold
        BY <1>1, <1>3 DEF Sound, PackType
    <2>2. [live EXCEPT !.gold = @ + x] = paid
        BY <1>1, <1>3 DEF Sound, PackType
    <2>3. paid.bag = live.bag
        BY <1>1 DEF Sound, PackType
    <2> HIDE DEF x, paid
    <2> QED
        BY <1>1, <2>1, <2>2, <2>3, GoldSound
<1> HIDE DEF paid
<1>6. Sound(less) /\ less.bag[c] = live.bag[c]
    BY <1>4, <1>5, ConsumedSound, ConsumedElsewhere
<1> HIDE DEF less
<1>7. ASSUME NEW k \in Outcomes(dialog.kind)
      PROVE  Sound(last(k))
    <2>1. k \in Kind \cup {NoKind}
        BY <1>3 DEF Outcomes
    <2>2. Sound(done(k))
        BY <1>1, <1>4, <1>6, <2>1, TurnedSound
    <2> HIDE DEF done
    <2> QED
        BY <2>2, ConsumedSound
<1>8. \E k \in Outcomes(dialog.kind) :
          \/ RolledBack /\ dialog' = dialog
          \/ (CommitSucceeds(last(k)) \/ CommitSkipped) /\ dialog' = NoDialog
          \/ CommitFails(last(k)) /\ dialog' = dialog
    BY DEF Confirm, less, paid
<1> HIDE DEF last
<1>9. (RolledBack \/ \E k \in Outcomes(dialog.kind) : Commit(last(k))) /\ dialog' \in {dialog, NoDialog}
    BY <1>8 DEF Commit
<1>10. PacksInv'
    BY <1>1, <1>7, <1>9, RollbackKeeps, CommitKeeps
<1> QED
    BY <1>1, <1>9, <1>10 DEF WindowsInv, Dialog

\* The floor of the points.
LEMMA MaxOfTwo ==
    ASSUME NEW a \in Int, NEW b \in Int
    PROVE  Max({a, b}) = IF a <= b THEN b ELSE a
  BY DEF Max

\* A hit changes points, of the live copy alone or of all three.
LEMMA HurtKeeps ==
    ASSUME PacksInv, WindowsInv, NEW n \in Nat, Hurt(n)
    PROVE  PacksInv' /\ WindowsInv'
<1> DEFINE x == Max({0, live.pts - n})
           q == [live EXCEPT !.pts = x]
           k == [kept EXCEPT !.pts = x]
<1>1. Sound(live) /\ Sound(kept) /\ live.pts \in PointValue /\ live.pts > 0 /\ owns' = owns
    BY DEF Hurt, Alive, PacksInv, Sound, PackType
<1>2. x \in PointValue
    <2> DEFINE y == live.pts - n
    <2>1. y \in Int /\ y <= MaxPoints
        BY <1>1 DEF PointValue
    <2> HIDE DEF y
    <2>2. Max({0, y}) \in PointValue
        BY <2>1, MaxOfTwo DEF PointValue
    <2> QED
        BY <2>2 DEF y
<1>3. \/ owns /\ live' = q /\ kept' = k /\ row' = k
      \/ live' = q /\ UNCHANGED <<kept, row>>
      \/ RolledBack
    <2>1. q.pts = x
        BY <1>1 DEF Sound, PackType
    <2> HIDE DEF x
    <2> QED
        BY <2>1 DEF Hurt, x
<1>4. (Shut \/ UNCHANGED windows)
    BY DEF Hurt
<1> HIDE DEF x
<1>5. Sound(q) /\ Sound(k) /\ Goods(q) = Goods(live) /\ Goods(k) = Goods(kept)
    <2>1. Goods(q) = Goods(live) /\ Goods(k) = Goods(kept)
        BY <1>1 DEF Goods, Sound, PackType
    <2> QED
        BY <1>1, <1>2, <2>1, Sundries
<1> HIDE DEF q, k
<1>6. PacksInv'
    BY <1>1, <1>3, <1>5, RollbackKeeps DEF PacksInv, CopiesAgree
<1> QED
    BY <1>1, <1>4, <1>6 DEF Shut, windows, WindowsInv, Dialog

\* The steps that copy a pack, or touch none.
LEMMA CopiesKeep ==
    ASSUME PacksInv, WindowsInv,
           \/ RestartHere \/ LoseWorld \/ Reenter
           \/ OpenShop \/ CloseShop \/ CancelRefine
    PROVE  PacksInv' /\ WindowsInv'
<1>1. CASE RestartHere
    <2> DEFINE k == [kept EXCEPT !.pts = FullPoints]
    <2>1. Sound(k)
        <3>1. FullPoints \in PointValue
            BY RestartAssumption, CarrierAssumption DEF PointValue
        <3> QED
            BY <3>1, Sundries DEF PacksInv
    <2> HIDE DEF k
    <2>2. live' = k /\ kept' = k /\ row' = k
        BY <1>1 DEF RestartHere, k
    <2> QED
        BY <1>1, <2>1, <2>2 DEF RestartHere, PacksInv, CopiesAgree, WindowsInv, Dialog
<1>2. CASE LoseWorld
    BY <1>2 DEF LoseWorld, PacksInv, CopiesAgree, WindowsInv, packs, windows
<1>3. CASE Reenter
    BY <1>3 DEF Reenter, Shut, PacksInv, CopiesAgree, WindowsInv, Dialog
<1>4. CASE OpenShop \/ CloseShop \/ CancelRefine
    <2>1. /\ UNCHANGED <<packs, owns, boxOpen>> /\ shop' \in {shop, TRUE, FALSE}
          /\ dialog' \in {dialog, NoDialog}
        BY <1>4 DEF OpenShop, CloseShop, CancelRefine
    <2>2. PacksInv'
        BY <2>1 DEF PacksInv, CopiesAgree, packs
    <2> QED
        BY <2>1, <2>2 DEF WindowsInv, Dialog
<1> QED
    BY <1>1, <1>2, <1>3, <1>4

-----------------------------------------------------------------------------
(* The safebox.                                                            *)

BoxInv == box \in BoxType /\ pane \in [BoxCell -> MaybeStack]

\* An exchange of goods: whatever is refused, the table and the file stay a pair.
LEMMA ExchangeKeeps ==
    ASSUME PacksInv, BoxInv, NEW q, Sound(q), NEW t \in [BoxCell -> MaybeStack],
           Exchange(q, t), owns' = owns
    PROVE  /\ PacksInv' /\ BoxInv' /\ shop' \in {shop, FALSE}
           /\ PaneIsBox /\ ~RestoreFails /\ boxOpen /\ owns => pane' = box'.cells
<1>1. CommitSucceeds(q) \/ CommitSkipped \/ CommitFails(q) \/ RolledBack
    BY DEF Exchange
<1>2. PacksInv'
    BY <1>1, CommitKeeps, RollbackKeeps DEF Commit
<1>3. box' \in {box, [box EXCEPT !.cells = t], [box EXCEPT !.cells = pane]} /\ pane' \in {pane, t}
    BY DEF Exchange
<1>4. BoxInv'
    BY <1>3 DEF BoxInv, BoxType
<1>5. shop' \in {shop, FALSE}
    BY DEF Exchange
<1>6. ASSUME PaneIsBox, ~RestoreFails, boxOpen, owns
      PROVE  pane' = box'.cells
    BY <1>6 DEF Exchange, PaneIsBox, BoxInv, BoxType
<1> QED
    BY <1>2, <1>4, <1>5, <1>6

\* A stack that goes into the safebox, or comes out of it.
LEMMA CheckKeeps ==
    ASSUME PacksInv, BoxInv, NEW c \in Cell, NEW b \in BoxCell, CheckIn(c, b) \/ CheckOut(b, c)
    PROVE  /\ PacksInv' /\ BoxInv' /\ shop' \in {shop, FALSE}
           /\ PaneIsBox /\ ~RestoreFails /\ boxOpen /\ owns => pane' = box'.cells
<1>1. Sound(live) /\ owns' = owns
    BY DEF PacksInv, CheckIn, CheckOut
<1>2. CASE CheckIn(c, b)
    <2> DEFINE q == Less(live, c, live.bag[c].n)
               t == [pane EXCEPT ![b] = live.bag[c]]
    <2>1. live.bag[c] # NoStack /\ Exchange(q, t)
        BY <1>2 DEF CheckIn
    <2>2. live.bag[c] \in Stack
        BY <1>1, <2>1 DEF Sound, PackType, MaybeStack
    <2>3. live.bag[c].n \in 1..live.bag[c].n
        BY <2>2 DEF Stack
    <2>4. Sound(q)
        BY <1>1, <2>1, <2>3, LessSound
    <2>5. t \in [BoxCell -> MaybeStack]
        BY <2>2 DEF BoxInv, MaybeStack
    <2> HIDE DEF q, t
    <2> QED
        BY <1>1, <2>1, <2>4, <2>5, ExchangeKeeps
<1>3. CASE CheckOut(b, c)
    <2> DEFINE s == pane[b]
               u == live.bag[c]
               v == IF u = NoStack THEN s ELSE [u EXCEPT !.n = @ + s.n]
               q == Put(live, c, v)
               t == [pane EXCEPT ![b] = NoStack]
    <2>1. /\ s # NoStack /\ Exchange(q, t)
          /\ u = NoStack \/ (u.kind = s.kind /\ u.n + s.n <= Catalog[s.kind].max)
        BY <1>3 DEF CheckOut
    <2>2. s \in Stack /\ u \in MaybeStack
        BY <1>1, <2>1 DEF BoxInv, MaybeStack, Sound, PackType
    <2>3. v \in Stack
        <3>1. CASE u = NoStack
            BY <2>2, <3>1
        <3>2. CASE u # NoStack
            <4>1. u \in Stack /\ u.n + s.n <= Catalog[u.kind].max
                BY <2>1, <2>2, <3>2 DEF MaybeStack
            <4>2. u.n \in Nat \ {0} /\ s.n \in Nat \ {0}
                BY <2>2, <4>1 DEF Stack
            <4>3. u.n + s.n \in Nat \ {0}
                BY <4>2
            <4>4. [u EXCEPT !.n = @ + s.n] \in Stack
                BY <4>1, <4>3 DEF Stack
            <4> QED
                BY <3>2, <4>4
        <3> QED
            BY <3>1, <3>2
    <2> HIDE DEF v
    <2>4. Sound(q)
        BY <1>1, <2>3, PutSound
    <2>5. t \in [BoxCell -> MaybeStack]
        BY DEF BoxInv, MaybeStack
    <2> HIDE DEF q, t
    <2> QED
        BY <1>1, <2>1, <2>4, <2>5, ExchangeKeeps
<1> QED
    BY <1>2, <1>3

\* A move within the safebox touches its table and its file alone.
LEMMA MoveInBoxKeeps ==
    ASSUME BoxInv, NEW b \in BoxCell, NEW d \in BoxCell, NEW n \in Counts, MoveInBox(b, d, n)
    PROVE  /\ BoxInv' /\ UNCHANGED <<packs, owns, boxOpen, dialog>> /\ shop' \in {shop, FALSE}
           /\ PaneIsBox /\ boxOpen /\ owns => pane' = box'.cells
<1> DEFINE s == pane[b]
           t == pane[d]
           m == IF n = 0 THEN s.n ELSE n
           left == IF m = s.n THEN NoStack ELSE [s EXCEPT !.n = @ - m]
           moved == [pane EXCEPT ![b] = NoStack, ![d] = s]
           parted == [pane EXCEPT ![b] = left, ![d] = [s EXCEPT !.id = NextBoxId, !.n = m]]
           poured == [pane EXCEPT ![b] = left, ![d].n = @ + m]
<1>1. /\ b # d /\ s # NoStack /\ m <= s.n
      /\ \/ Rearranged(moved)
         \/ NextBoxId \in 1..MaxId /\ Rearranged(parted)
         \/ t.kind = s.kind /\ t.n + m <= Catalog[s.kind].max /\ Rearranged(poured)
    BY DEF MoveInBox
<1>2. s \in Stack /\ t \in MaybeStack
    BY <1>1 DEF BoxInv, MaybeStack
<1>3. s.n \in Nat \ {0} /\ s.kind \in Kind /\ s.n <= Catalog[s.kind].max /\ Catalog[s.kind].max \in Nat
    BY <1>2 DEF Stack, Template
<1>4. m \in 1..s.n
    <2>1. n \in Nat
        <3>1. \A k \in Kind : Catalog[k].max \in Nat
            BY DEF Template
        <3> QED
            BY <3>1 DEF Counts
    <2> HIDE DEF s
    <2> QED
        BY <1>1, <1>3, <2>1
<1> HIDE DEF m
<1>5. left \in MaybeStack
    <2>1. CASE m # s.n
        <3>1. s.n - m \in Nat \ {0} /\ s.n - m <= Catalog[s.kind].max
            <4> DEFINE x == s.n
                       top == Catalog[s.kind].max
            <4>1. x \in Nat /\ top \in Nat /\ x <= top /\ m \in 1..x /\ m # x
                BY <1>3, <1>4, <2>1
            <4> HIDE DEF x, top
            <4>2. x - m \in Nat \ {0} /\ x - m <= top
                BY <4>1
            <4> QED
                BY <4>2 DEF x, top
        <3>2. [s EXCEPT !.n = @ - m] \in Stack
            BY <1>2, <3>1 DEF Stack
        <3> QED
            BY <2>1, <3>2 DEF MaybeStack
    <2>2. CASE m = s.n
        BY <2>2 DEF MaybeStack
    <2> QED
        BY <2>1, <2>2
<1> HIDE DEF left
<1>6. moved \in [BoxCell -> MaybeStack]
    BY <1>2 DEF BoxInv, MaybeStack
<1>7. NextBoxId \in 1..MaxId => parted \in [BoxCell -> MaybeStack]
    <2> HIDE DEF NextBoxId
    <2> SUFFICES ASSUME NextBoxId \in 1..MaxId
                 PROVE  parted \in [BoxCell -> MaybeStack]
        OBVIOUS
    <2>1. m \in Nat \ {0} /\ m <= Catalog[s.kind].max
        <3> DEFINE x == s.n
                   top == Catalog[s.kind].max
        <3>1. x \in Nat /\ top \in Nat /\ x <= top /\ m \in 1..x
            BY <1>3, <1>4
        <3> HIDE DEF x, top
        <3>2. m \in Nat \ {0} /\ m <= top
            BY <3>1
        <3> QED
            BY <3>2 DEF top
    <2>2. [s EXCEPT !.id = NextBoxId, !.n = m] \in Stack
        BY <1>2, <2>1 DEF Stack
    <2> QED
        BY <1>5, <2>2 DEF BoxInv, MaybeStack
<1>8. t.kind = s.kind /\ t.n + m <= Catalog[s.kind].max => poured \in [BoxCell -> MaybeStack]
    <2> SUFFICES ASSUME t.kind = s.kind, t.n + m <= Catalog[s.kind].max
                 PROVE  poured \in [BoxCell -> MaybeStack]
        OBVIOUS
    <2>1. t \in Stack
        BY <1>2, <1>3 DEF MaybeStack, NoStack
    <2>2. t.n \in Nat \ {0} /\ m \in Nat
        BY <1>3, <1>4, <2>1 DEF Stack
    <2>3. t.n + m \in Nat \ {0}
        BY <2>2
    <2>4. [t EXCEPT !.n = @ + m] \in Stack
        BY <2>1, <2>3 DEF Stack
    <2>5. poured = [pane EXCEPT ![b] = left, ![d] = [t EXCEPT !.n = @ + m]]
        BY <1>1 DEF BoxInv
    <2> QED
        BY <1>5, <2>4, <2>5 DEF BoxInv, MaybeStack
<1> HIDE DEF moved, parted, poured
<1>9. PICK x \in [BoxCell -> MaybeStack] : Rearranged(x)
    BY <1>1, <1>6, <1>7, <1>8
<1> QED
    BY <1>9 DEF Rearranged, BoxInv, BoxType, PaneIsBox

\* Gold that goes into the safebox or comes out of it.
LEMMA MoneyKeeps ==
    ASSUME PacksInv, BoxInv, NEW x \in Nat, SaveMoney(x) \/ WithdrawMoney(x)
    PROVE  /\ PacksInv' /\ BoxInv' /\ shop' \in {shop, FALSE}
           /\ UNCHANGED <<owns, boxOpen, dialog, pane>> /\ box'.cells = box.cells
<1>1. Sound(live) /\ live.gold \in 0..MaxGold /\ box.money \in 0..MaxGold
    BY DEF PacksInv, Sound, PackType, BoxInv, BoxType
<1>2. \A m0 \in MoneyRead : m0 \in 0..MaxGold
    BY <1>1 DEF MoneyRead
<1>3. PICK y \in Int, m0 \in 0..MaxGold, m \in 0..MaxGold :
          live.gold + y \in 0..MaxGold /\ ExchangeMoney([live EXCEPT !.gold = @ + y], m0, m)
    <2>1. CASE SaveMoney(x)
        <3> DEFINE y == -x
        <3>1. y \in Int /\ live.gold + y \in 0..MaxGold
            BY <1>1, <2>1 DEF SaveMoney
        <3>2. [live EXCEPT !.gold = @ + y] = [live EXCEPT !.gold = @ - x]
            BY <1>1 DEF Sound, PackType
        <3>3. PICK m0 \in MoneyRead :
                  m0 + x <= MaxGold /\ ExchangeMoney([live EXCEPT !.gold = @ - x], m0, m0 + x)
            BY <2>1 DEF SaveMoney
        <3>4. m0 + x \in 0..MaxGold
            BY <1>2, <3>3
        <3> HIDE DEF y
        <3>5. live.gold + y \in 0..MaxGold /\ ExchangeMoney([live EXCEPT !.gold = @ + y], m0, m0 + x)
            BY <3>1, <3>2, <3>3
        <3> QED
            BY <1>2, <3>1, <3>4, <3>5
    <2>2. CASE WithdrawMoney(x)
        <3>1. PICK m0 \in MoneyRead :
                  m0 >= x /\ ExchangeMoney([live EXCEPT !.gold = @ + x], m0, m0 - x)
            BY <2>2 DEF WithdrawMoney
        <3>2. m0 - x \in 0..MaxGold /\ live.gold + x \in 0..MaxGold
            BY <1>1, <1>2, <2>2, <3>1 DEF WithdrawMoney
        <3> QED
            BY <1>2, <3>1, <3>2
    <2> QED
        BY <2>1, <2>2
<1> DEFINE q == [live EXCEPT !.gold = @ + y]
<1>4. Sound(q)
    BY <1>1, <1>3, GoldSound
<1>5. ExchangeMoney(q, m0, m)
    BY <1>3
<1> HIDE DEF q
<1>6. /\ CommitSucceeds(q) \/ CommitSkipped \/ CommitFails(q) \/ RolledBack
      /\ UNCHANGED <<owns, boxOpen, dialog, pane>> /\ shop' \in {shop, FALSE}
      /\ box' = box \/ \E z \in {m0, m} : box' = [box EXCEPT !.money = z]
    BY <1>5 DEF ExchangeMoney
<1>7. PacksInv'
    BY <1>4, <1>6, CommitKeeps, RollbackKeeps DEF Commit
<1>8. BoxInv' /\ box'.cells = box.cells
    BY <1>3, <1>6 DEF BoxInv, BoxType
<1> QED
    BY <1>6, <1>7, <1>8

-----------------------------------------------------------------------------
(* The inductive invariant: the three copies are sound and agree on the    *)
(* goods, and the windows and the safebox have their types.  Type          *)
(* correctness alone is not inductive: a rolled back handler sets the      *)
(* snapshot from the live copy, and a stack leaves through a quickslot     *)
(* that must be one of those that point at it.                             *)
IInv == PacksInv /\ WindowsInv /\ BoxInv

(* A safebox that can be read and a save that undoes another show an open  *)
(* safebox as it is.                                                       *)
PaneInv == IInv /\ PaneIsBox

\* What a character comes with is sound, and the safebox is empty.
LEMMA InitSound == Init => PaneInv
<1> SUFFICES ASSUME Init
             PROVE  PaneInv
    OBVIOUS
<1>1. Sound(Start)
    BY StartAssumption DEF Sound
<1>2. PacksInv
    BY <1>1 DEF Init, PacksInv, CopiesAgree
<1>3. WindowsInv
    BY DEF Init, WindowsInv, Dialog
<1>4. EmptyCells \in [BoxCell -> MaybeStack]
    BY DEF EmptyCells, MaybeStack
<1>5. BoxInv /\ PaneIsBox
    BY <1>4 DEF Init, BoxInv, BoxType, PaneIsBox
<1> QED
    BY <1>2, <1>3, <1>5 DEF PaneInv, IInv

\* The steps that leave the safebox alone, and open none.
LEMMA OutsideKeeps ==
    ASSUME IInv, Carry \/ Dress \/ Quickslots \/ Trade \/ Craft \/ Body \/ Session
    PROVE  IInv' /\ (PaneIsBox => PaneIsBox')
<1> DEFINE Kept == PacksInv' /\ WindowsInv' /\ (boxOpen' /\ owns' => boxOpen /\ owns)
<1>1. PacksInv /\ WindowsInv
    BY DEF IInv
<1>2. UNCHANGED stored
    BY DEF Carry, Dress, Quickslots, Trade, Craft, Body, Session
<1>3. ASSUME PacksInv', UNCHANGED <<owns, windows>>
      PROVE  Kept
    BY <1>1, <1>3 DEF WindowsInv, windows
<1>4. ASSUME PacksInv' /\ WindowsInv', boxOpen' => boxOpen, owns' = owns
      PROVE  Kept
    BY <1>4
<1>a. SUFFICES Kept
    BY <1>1, <1>2 DEF Kept, IInv, BoxInv, PaneIsBox, stored
<1> HIDE DEF Kept
<1>5. CASE Carry
    <2>1. PICK c \in Cell, d \in Cell : UseOn(c, d) \/ \E n \in Counts : Move(c, d, n)
        BY <1>5 DEF Carry
    <2>2. PacksInv' /\ UNCHANGED <<owns, windows>>
        BY <1>1, <2>1, MoveKeeps, UseOnKeeps
    <2> QED
        BY <1>3, <2>2
<1>6. CASE Dress
    <2>1. PICK c \in Cell, w \in Wear : Equip(c, w) \/ Replace(c, w) \/ Unequip(w, c)
        BY <1>6 DEF Dress
    <2>2. PacksInv' /\ UNCHANGED <<owns, windows>>
        BY <1>1, <2>1, DressKeeps
    <2> QED
        BY <1>3, <2>2
<1>7. CASE Quickslots
    <2>1. PICK q \in Position :
              \/ QuickslotDel(q)
              \/ \E c \in Cell : QuickslotAdd(q, c)
              \/ \E r \in Position : QuickslotSwap(q, r)
        BY <1>7 DEF Quickslots
    <2>2. PacksInv' /\ UNCHANGED <<owns, windows>>
        BY <1>1, <2>1, QuickslotsKeep
    <2> QED
        BY <1>3, <2>2
<1>8. CASE Trade
    <2>1. CASE OpenShop \/ CloseShop
        <3>1. boxOpen' = boxOpen /\ owns' = owns
            BY <2>1 DEF OpenShop, CloseShop
        <3> QED
            BY <1>1, <1>4, <2>1, <3>1, CopiesKeep
    <2>2. ASSUME (\E o \in Offer : Buy(o)) \/ \E c \in Cell, n \in Counts : Sell(c, n)
          PROVE  Kept
        <3>1. PacksInv' /\ UNCHANGED <<owns, windows>>
            BY <1>1, <2>2, BuyKeeps, SellKeeps
        <3> QED
            BY <1>3, <3>1
    <2> QED
        BY <1>8, <2>1, <2>2 DEF Trade
<1>9. CASE Craft
    <2>1. boxOpen' = boxOpen /\ owns' = owns
        BY <1>9 DEF Craft, CancelRefine, Preview, Confirm
    <2>2. PacksInv' /\ WindowsInv'
        BY <1>1, <1>9, CopiesKeep, PreviewKeeps, ConfirmKeeps DEF Craft
    <2> QED
        BY <1>4, <2>1, <2>2
<1>10. CASE Body
    <2>1. CASE RestartHere
        <3>1. boxOpen' = FALSE /\ owns' = owns
            BY <2>1 DEF RestartHere
        <3> QED
            BY <1>1, <1>4, <2>1, <3>1, CopiesKeep
    <2>2. ASSUME NEW n \in 1..MaxHit, Hurt(n)
          PROVE  Kept
        <3>1. n \in Nat
            OBVIOUS
        <3>2. (boxOpen' => boxOpen) /\ owns' = owns
            BY <2>2 DEF Hurt, Shut, windows
        <3> QED
            BY <1>1, <1>4, <2>2, <3>1, <3>2, HurtKeeps
    <2>3. ASSUME NEW c \in Cell, Use(c)
          PROVE  Kept
        <3>1. PacksInv' /\ UNCHANGED <<owns, windows>>
            BY <1>1, <2>3, UseKeeps
        <3> QED
            BY <1>3, <3>1
    <2> QED
        BY <1>10, <2>1, <2>2, <2>3 DEF Body
<1>11. CASE Session
    <2>1. PacksInv' /\ WindowsInv'
        BY <1>1, <1>11, CopiesKeep DEF Session
    <2>2. ~owns' \/ ~boxOpen'
        BY <1>11 DEF Session, LoseWorld, Reenter, Shut
    <2> QED
        BY <2>1, <2>2 DEF Kept
<1> QED
    BY <1>5, <1>6, <1>7, <1>8, <1>9, <1>10, <1>11

\* The steps of the safebox.
LEMMA InsideKeeps ==
    ASSUME IInv,
           \/ OpenBox \/ CloseBox
           \/ \E c \in Cell, b \in BoxCell : CheckIn(c, b) \/ CheckOut(b, c)
           \/ \E b, d \in BoxCell, n \in Counts : MoveInBox(b, d, n)
           \/ \E x \in 1..MaxGold : SaveMoney(x) \/ WithdrawMoney(x)
    PROVE  IInv' /\ (PaneIsBox /\ ~BoxLoadFails /\ ~RestoreFails => PaneIsBox')
<1>1. PacksInv /\ WindowsInv /\ BoxInv
    BY DEF IInv
<1>2. ASSUME UNCHANGED <<owns, boxOpen, dialog>>, shop' \in {shop, FALSE}
      PROVE  WindowsInv'
    BY <1>1, <1>2 DEF WindowsInv
<1>3. CASE OpenBox
    <2>1. UNCHANGED <<packs, owns, shop, dialog, box>> /\ boxOpen' = TRUE
        BY <1>3 DEF OpenBox
    <2>2. pane' = box.cells \/ (BoxLoadFails /\ pane' = EmptyCells)
        BY <1>3 DEF OpenBox
    <2>3. pane' \in [BoxCell -> MaybeStack]
        BY <1>1, <2>2 DEF BoxInv, BoxType, EmptyCells, MaybeStack
    <2>4. PacksInv' /\ WindowsInv' /\ BoxInv'
        BY <1>1, <2>1, <2>3 DEF PacksInv, CopiesAgree, WindowsInv, BoxInv, packs
    <2> QED
        BY <2>1, <2>2, <2>4 DEF IInv, PaneIsBox
<1>4. CASE CloseBox
    <2>1. UNCHANGED <<packs, owns, shop, dialog, box, pane>> /\ boxOpen' = FALSE
        BY <1>4 DEF CloseBox
    <2>2. PacksInv' /\ WindowsInv' /\ BoxInv'
        BY <1>1, <2>1 DEF PacksInv, CopiesAgree, WindowsInv, BoxInv, packs
    <2> QED
        BY <2>1, <2>2 DEF IInv, PaneIsBox
<1>5. ASSUME NEW c \in Cell, NEW b \in BoxCell, CheckIn(c, b) \/ CheckOut(b, c)
      PROVE  IInv' /\ (PaneIsBox /\ ~BoxLoadFails /\ ~RestoreFails => PaneIsBox')
    <2>1. UNCHANGED <<owns, boxOpen, dialog>>
        BY <1>5 DEF CheckIn, CheckOut
    <2>2. /\ PacksInv' /\ BoxInv' /\ shop' \in {shop, FALSE}
          /\ PaneIsBox /\ ~RestoreFails /\ boxOpen /\ owns => pane' = box'.cells
        BY <1>1, <1>5, CheckKeeps
    <2> QED
        BY <1>2, <2>1, <2>2 DEF IInv, PaneIsBox
<1>6. ASSUME NEW b \in BoxCell, NEW d \in BoxCell, NEW n \in Counts, MoveInBox(b, d, n)
      PROVE  IInv' /\ (PaneIsBox /\ ~BoxLoadFails /\ ~RestoreFails => PaneIsBox')
    <2>1. /\ BoxInv' /\ UNCHANGED <<packs, owns, boxOpen, dialog>> /\ shop' \in {shop, FALSE}
          /\ PaneIsBox /\ boxOpen /\ owns => pane' = box'.cells
        BY <1>1, <1>6, MoveInBoxKeeps
    <2>2. PacksInv'
        BY <1>1, <2>1 DEF PacksInv, CopiesAgree, packs
    <2> QED
        BY <1>2, <2>1, <2>2 DEF IInv, PaneIsBox
<1>7. ASSUME NEW x \in 1..MaxGold, SaveMoney(x) \/ WithdrawMoney(x)
      PROVE  IInv' /\ (PaneIsBox /\ ~BoxLoadFails /\ ~RestoreFails => PaneIsBox')
    <2>1. x \in Nat
        OBVIOUS
    <2>2. /\ PacksInv' /\ BoxInv' /\ shop' \in {shop, FALSE}
          /\ UNCHANGED <<owns, boxOpen, dialog, pane>> /\ box'.cells = box.cells
        BY <1>1, <1>7, <2>1, MoneyKeeps
    <2> QED
        BY <1>2, <2>2 DEF IInv, PaneIsBox
<1> QED
    BY <1>3, <1>4, <1>5, <1>6, <1>7

\* Every step.
LEMMA StepKeeps ==
    ASSUME IInv, [Next]_vars
    PROVE  IInv' /\ (PaneIsBox /\ ~BoxLoadFails /\ ~RestoreFails => PaneIsBox')
<1>1. CASE Next
    BY <1>1, OutsideKeeps, InsideKeeps DEF Next
<1>2. CASE UNCHANGED vars
    BY <1>2 DEF vars, packs, windows, IInv, PacksInv, CopiesAgree, WindowsInv, BoxInv, PaneIsBox
<1> QED
    BY <1>1, <1>2

\* The strengthened invariant holds throughout.
LEMMA Inductive == Spec => []IInv
<1>1. Init => IInv
    BY InitSound DEF PaneInv
<1>2. IInv /\ [Next]_vars => IInv'
    BY StepKeeps
<1> QED
    BY <1>1, <1>2, PTL DEF Spec

-----------------------------------------------------------------------------
\* Whatever is done, refused or undone, the packs, the windows and the safebox keep
\* their types: no stack outgrows its cell, no gold or points leave their carriers.
THEOREM PossessionsTypeCorrect == Spec => []TypeOK
<1>1. IInv => TypeOK
    BY DEF IInv, PacksInv, WindowsInv, BoxInv, Sound, TypeOK
<1> QED
    BY <1>1, Inductive, PTL

\* The live copy, the persisted snapshot and the account's row agree on the goods for as
\* long as the session is in the shared world.
THEOREM PossessionsCopiesAgree == Spec => []CopiesAgree
<1>1. IInv => CopiesAgree
    BY DEF IInv, PacksInv
<1> QED
    BY <1>1, Inductive, PTL

\* No quickslot points at an empty cell, and no two at the same one.
THEOREM QuickslotsBound == Spec => []BindingsHold
<1>1. IInv => BindingsHold
    BY DEF IInv, PacksInv, Sound, BindingsHold
<1> QED
    BY <1>1, Inductive, PTL

\* The open safebox shows what its file holds, as long as the file can be read and the
\* save that undoes another one works.
THEOREM SafeboxShown ==
    ASSUME ~BoxLoadFails, ~RestoreFails
    PROVE  Spec => []PaneIsBox
<1>1. Init => PaneInv
    BY InitSound
<1>2. PaneInv /\ [Next]_vars => PaneInv'
    BY StepKeeps DEF PaneInv
<1>3. PaneInv => PaneIsBox
    BY DEF PaneInv
<1> QED
    BY <1>1, <1>2, <1>3, PTL DEF Spec
=============================================================================
