-------------------------- MODULE OneOfEach_proofs --------------------------
(***************************************************************************)
(* The instance IDs of Possessions.  Most operations of Pack leave every   *)
(* ID where it is or take it away; a few exchange two places; two make a   *)
(* new ID, one above all that are carried or worn.                         *)
(***************************************************************************)
EXTENDS Possessions_proofs

USE CellsAssumption, CarrierAssumption, NullAssumption, CatalogAssumption DEF Cell

\* Apart, said of the IDs alone: 0 is the ID of no stack.
Sole(p) ==
    /\ \A c, d \in Cell : c # d /\ p.bag[c].id # 0 => p.bag[c].id # p.bag[d].id
    /\ \A v, w \in Wear : v # w /\ p.worn[v].id # 0 => p.worn[v].id # p.worn[w].id
    /\ \A c \in Cell, w \in Wear : p.worn[w].id # 0 => p.bag[c].id # p.worn[w].id

\* q has in each place the instance that p has there, or none.
Fewer(p, q) ==
    /\ \A c \in Cell : q.bag[c].id \in {0, p.bag[c].id}
    /\ \A w \in Wear : q.worn[w].id \in {0, p.worn[w].id}

(* A stack has an ID, and no stack has none.                               *)
LEMMA StackIds ==
    ASSUME NEW s \in MaybeStack
    PROVE  s.id \in 0..MaxId /\ (s = NoStack <=> s.id = 0)
  BY DEF MaybeStack, Stack, NoStack

LEMMA SoleIsApart ==
    ASSUME NEW p \in PackType
    PROVE  Sole(p) <=> Apart(p)
<1>1. \A c \in Cell : p.bag[c] = NoStack <=> p.bag[c].id = 0
    BY StackIds DEF PackType
<1>2. \A w \in Wear : p.worn[w] = NoStack <=> p.worn[w].id = 0
    BY StackIds DEF PackType
<1> QED
    BY <1>1, <1>2 DEF Sole, Apart

\* Taking instances away keeps them apart.
LEMMA FewerSole ==
    ASSUME NEW p, NEW q, Sole(p), Fewer(p, q)
    PROVE  Sole(q)
<1>1. ASSUME NEW c \in Cell, NEW d \in Cell, c # d, q.bag[c].id # 0
      PROVE  q.bag[c].id # q.bag[d].id
    BY <1>1 DEF Sole, Fewer
<1>2. ASSUME NEW v \in Wear, NEW w \in Wear, v # w, q.worn[v].id # 0
      PROVE  q.worn[v].id # q.worn[w].id
    BY <1>2 DEF Sole, Fewer
<1>3. ASSUME NEW c \in Cell, NEW w \in Wear, q.worn[w].id # 0
      PROVE  q.bag[c].id # q.worn[w].id
    BY <1>3 DEF Sole, Fewer
<1> QED
    BY <1>1, <1>2, <1>3 DEF Sole

-----------------------------------------------------------------------------
(* The operations of Pack.                                                 *)

LEMMA LessFewer ==
    ASSUME NEW p \in PackType, NEW c \in Cell, NEW n
    PROVE  Fewer(p, Less(p, c, n))
  BY StackIds DEF Fewer, Less, Unbound, Put, PackType, MaybeStack, Stack, NoStack

LEMMA PouredFewer ==
    ASSUME NEW p \in PackType, NEW c \in Cell, NEW d \in Cell, NEW n
    PROVE  Fewer(p, Poured(p, c, d, n))
<1> DEFINE l == Less(p, c, n)
           q == Poured(p, c, d, n)
<1>1. l.bag = [e \in Cell |-> l.bag[e]] /\ l.worn = p.worn
    BY DEF Less, Unbound, Put, PackType
<1>2. l.bag[d] = [id |-> l.bag[d].id, kind |-> l.bag[d].kind, n |-> l.bag[d].n]
    BY DEF Less, Unbound, Put, PackType, MaybeStack, Stack, NoStack
<1>3. \A e \in Cell : q.bag[e].id = l.bag[e].id /\ q.worn = l.worn
    BY <1>1, <1>2 DEF Poured, Less, Unbound, Put, PackType
<1>4. Fewer(p, l)
    BY LessFewer
<1> HIDE DEF l, q
<1>5. Fewer(p, q)
    BY <1>3, <1>4 DEF Fewer
<1> QED
    BY <1>5 DEF q

LEMMA ReducedFewer ==
    ASSUME NEW p \in PackType, NEW part
    PROVE  Fewer(p, Reduced(p, part))
  BY DEF Fewer, Reduced, PackType, MaybeStack, Stack, NoStack

LEMMA ConsumedFewer ==
    ASSUME NEW p \in PackType, NEW k, NEW n, NEW but
    PROVE  Fewer(p, Consumed(p, k, n, but))
  BY ReducedFewer DEF Consumed

LEMMA ToppedFewer ==
    ASSUME NEW p \in PackType, NEW more
    PROVE  Fewer(p, Topped(p, more))
  BY DEF Fewer, Topped, PackType, MaybeStack, Stack, NoStack

LEMMA TurnedFewer ==
    ASSUME NEW p \in PackType, NEW c \in Cell, NEW k
    PROVE  Fewer(p, Turned(p, c, k))
  BY DEF Fewer, Turned, Unbound, Put, PackType, MaybeStack, Stack, NoStack

\* Quickslots, points and gold.
LEMMA SundriesFewer ==
    ASSUME NEW p, NEW q, p \in PackType, q.bag = p.bag, q.worn = p.worn
    PROVE  Fewer(p, q)
  BY DEF Fewer

\* The next instance ID is above all that are carried or worn.
LEMMA NextIdFresh ==
    ASSUME NEW p \in PackType
    PROVE  NextId(p) \notin IdsOf(p)
<1> DEFINE S == IdsOf(p) \cup {0}
           R == {MaxId - i : i \in S}
<1>1. S \subseteq 0..MaxId
    <2>1. \A c \in Cell : p.bag[c].id \in 0..MaxId
        BY StackIds DEF PackType
    <2>2. \A w \in Wear : p.worn[w].id \in 0..MaxId
        BY StackIds DEF PackType
    <2> QED
        BY <2>1, <2>2 DEF IdsOf
<1>2. R \subseteq Nat /\ R # {}
    BY <1>1
<1>3. PICK x \in R : \A y \in R : ~(y < x)
    <2> DEFINE L == OpToRel(<, Nat)
    <2>1. \A i, j \in Nat : i < j => <<i, j>> \in L
        BY DEF OpToRel
    <2>2. IsWellFoundedOn(L, Nat)
        BY NatLessThanWellFounded
    <2> HIDE DEF L, R
    <2>3. PICK x \in R : \A y \in R : ~(<<y, x>> \in L)
        BY <1>2, <2>2, WFMin
    <2> QED
        BY <1>2, <2>1, <2>3
<1>4. PICK i \in S : x = MaxId - i
    BY <1>3
<1>5. ASSUME NEW j \in IdsOf(p)
      PROVE  j <= i
    <2>1. MaxId - j \in R /\ i \in 0..MaxId /\ j \in 0..MaxId
        BY <1>1, <1>4
    <2>2. ~(MaxId - j < MaxId - i)
        BY <1>3, <1>4, <2>1
    <2> QED
        BY <2>1, <2>2
<1> DEFINE m == CHOOSE k \in S : \A j \in IdsOf(p) : j <= k
<1>6. m \in S /\ \A j \in IdsOf(p) : j <= m
    BY <1>5
<1>7. NextId(p) = 1 + m /\ m \in Nat
    BY <1>1, <1>6 DEF NextId
<1> HIDE DEF m, S
<1> QED
    BY <1>6, <1>7

\* One cell takes a stack with an ID of its own, the others keep theirs or lose it.
LEMMA FreshSole ==
    ASSUME NEW p, NEW q, Sole(p), NEW c \in Cell, q.bag[c].id \notin IdsOf(p),
           \A d \in Cell \ {c} : q.bag[d].id \in {0, p.bag[d].id},
           \A w \in Wear : q.worn[w].id \in {0, p.worn[w].id}
    PROVE  Sole(q)
<1>1. (\A d \in Cell : p.bag[d].id # q.bag[c].id) /\ \A w \in Wear : p.worn[w].id # q.bag[c].id
    BY DEF IdsOf
<1>2. ASSUME NEW d \in Cell, NEW e \in Cell, d # e, q.bag[d].id # 0
      PROVE  q.bag[d].id # q.bag[e].id
    <2>1. CASE q.bag[e].id = 0
        BY <1>2, <2>1
    <2>2. CASE q.bag[e].id # 0
        BY <1>1, <1>2, <2>2 DEF Sole
    <2> QED
        BY <2>1, <2>2
<1>3. ASSUME NEW v \in Wear, NEW w \in Wear, v # w, q.worn[v].id # 0
      PROVE  q.worn[v].id # q.worn[w].id
    BY <1>3 DEF Sole
<1>4. ASSUME NEW d \in Cell, NEW w \in Wear, q.worn[w].id # 0
      PROVE  q.bag[d].id # q.worn[w].id
    BY <1>1, <1>4 DEF Sole
<1> QED
    BY <1>2, <1>3, <1>4 DEF Sole

\* Two cells exchange their stacks.
LEMMA CarriedSole ==
    ASSUME NEW p \in PackType, Sole(p), NEW c \in Cell, NEW d \in Cell
    PROVE  Sole(Carried(p, c, d))
<1> DEFINE q == Carried(p, c, d)
<1>1. /\ q.bag[c] = p.bag[d] /\ q.bag[d] = p.bag[c] /\ q.worn = p.worn
      /\ \A e \in Cell \ {c, d} : q.bag[e] = p.bag[e]
    BY DEF Carried, Rebound, Put, PackType
<1> HIDE DEF q
<1>2. Sole(q)
    BY <1>1 DEF Sole
<1> QED
    BY <1>2 DEF q

\* A carried cell and a wear cell exchange theirs, or one gives its stack to the other.
LEMMA GearSole ==
    ASSUME NEW p, NEW q, Sole(p), NEW c \in Cell, NEW w \in Wear,
           q.bag[c].id \in {0, p.worn[w].id}, q.worn[w].id \in {0, p.bag[c].id},
           \A d \in Cell \ {c} : q.bag[d].id = p.bag[d].id,
           \A v \in Wear \ {w} : q.worn[v].id = p.worn[v].id
    PROVE  Sole(q)
<1>1. ASSUME NEW d \in Cell, NEW e \in Cell, d # e, q.bag[d].id # 0
      PROVE  q.bag[d].id # q.bag[e].id
    BY <1>1 DEF Sole
<1>2. ASSUME NEW u \in Wear, NEW v \in Wear, u # v, q.worn[u].id # 0
      PROVE  q.worn[u].id # q.worn[v].id
    BY <1>2 DEF Sole
<1>3. ASSUME NEW d \in Cell, NEW v \in Wear, q.worn[v].id # 0
      PROVE  q.bag[d].id # q.worn[v].id
    BY <1>3 DEF Sole
<1> QED
    BY <1>1, <1>2, <1>3 DEF Sole

LEMMA DressSole ==
    ASSUME NEW p \in PackType, Sole(p), NEW c \in Cell, NEW w \in Wear, NEW x
    PROVE  /\ Sole(Boosted(Worn(p, c, w), x))
           /\ Sole(Boosted(Exchanged(p, c, w), x))
           /\ Sole(Boosted(TakenOff(p, w, c), x))
<1>1. Sole(Boosted(Worn(p, c, w), x))
    <2> DEFINE q == Boosted(Worn(p, c, w), x)
    <2>1. /\ q.bag[c] = NoStack /\ q.worn[w] = p.bag[c]
          /\ \A d \in Cell \ {c} : q.bag[d] = p.bag[d]
          /\ \A v \in Wear \ {w} : q.worn[v] = p.worn[v]
        BY DEF Boosted, Worn, Unbound, Put, PackType
    <2> HIDE DEF q
    <2>2. Sole(q)
        BY <2>1, GearSole DEF NoStack
    <2> QED
        BY <2>2 DEF q
<1>2. Sole(Boosted(Exchanged(p, c, w), x))
    <2> DEFINE q == Boosted(Exchanged(p, c, w), x)
    <2>1. /\ q.bag[c] = p.worn[w] /\ q.worn[w] = p.bag[c]
          /\ \A d \in Cell \ {c} : q.bag[d] = p.bag[d]
          /\ \A v \in Wear \ {w} : q.worn[v] = p.worn[v]
        BY DEF Boosted, Exchanged, Put, PackType
    <2> HIDE DEF q
    <2>2. Sole(q)
        BY <2>1, GearSole
    <2> QED
        BY <2>2 DEF q
<1>3. Sole(Boosted(TakenOff(p, w, c), x))
    <2> DEFINE q == Boosted(TakenOff(p, w, c), x)
    <2>1. /\ q.bag[c] = p.worn[w] /\ q.worn[w] = NoStack
          /\ \A d \in Cell \ {c} : q.bag[d] = p.bag[d]
          /\ \A v \in Wear \ {w} : q.worn[v] = p.worn[v]
        BY DEF Boosted, TakenOff, Put, PackType
    <2> HIDE DEF q
    <2>2. Sole(q)
        BY <2>1, GearSole DEF NoStack
    <2> QED
        BY <2>2 DEF q
<1> QED
    BY <1>1, <1>2, <1>3

\* Part of a stack becomes one of its own.
LEMMA PartedSole ==
    ASSUME NEW p \in PackType, Sole(p), NEW c \in Cell, NEW d \in Cell, NEW n
    PROVE  Sole(Parted(p, c, d, n))
<1> DEFINE q == Parted(p, c, d, n)
           l == Less(p, c, n)
<1>1. /\ q.bag[d].id = NextId(p) /\ q.worn = l.worn
      /\ \A e \in Cell \ {d} : q.bag[e] = l.bag[e]
    <2> HIDE DEF NextId
    <2> QED
        BY DEF Parted, Less, Unbound, Put, PackType
<1>2. Fewer(p, l)
    BY LessFewer
<1> HIDE DEF q, l
<1>3. Sole(q)
    BY <1>1, <1>2, NextIdFresh, FreshSole DEF Fewer
<1> QED
    BY <1>3 DEF q

\* A grant makes at most one new stack.
LEMMA GrantedSole ==
    ASSUME NEW p \in PackType, Sole(p), NEW k, NEW n, HasRoom(p, k, n)
    PROVE  Sole(Granted(p, k, n))
<1> DEFINE top == Topped(p, [c \in Cell |-> IF c = Lowest(Takers(p, k, n)) THEN n ELSE 0])
           into == Partial(p, k)
           more == [c \in Cell |->
                    IF c \in into
                    THEN Clamp(n - RoomIn(p, k, Below(into, c)), Catalog[k].max - p.bag[c].n)
                    ELSE 0]
           full == Topped(p, more)
           f == Lowest(FreeCells(p))
           s == [id |-> NextId(p), kind |-> k, n |-> Rest(p, k, n)]
           q == Granted(p, k, n)
<1>1. \/ q = top \/ q = full
      \/ FreeCells(p) # {} /\ q = Put(full, f, s)
    BY DEF Granted, HasRoom
<1>2. Sole(top) /\ Sole(full) /\ Fewer(p, full)
    BY ToppedFewer, FewerSole
<1>3. ASSUME FreeCells(p) # {}, q = Put(full, f, s)
      PROVE  Sole(q)
    <2>1. f \in Cell
        BY <1>3, LowestExists DEF FreeCells, CellsOf
    <2>2. s.id = NextId(p)
        OBVIOUS
    <2> HIDE DEF f, s, more
    <2>3. /\ q.bag[f] = s /\ q.worn = full.worn
          /\ \A d \in Cell \ {f} : q.bag[d] = full.bag[d]
        BY <1>3, <2>1 DEF Put, Topped, PackType
    <2> HIDE DEF q, full
    <2> QED
        BY <1>2, <2>1, <2>2, <2>3, NextIdFresh, FreshSole DEF Fewer
<1> HIDE DEF top, full, q, f, s
<1>4. Sole(q)
    BY <1>1, <1>2, <1>3
<1> QED
    BY <1>4 DEF q

-----------------------------------------------------------------------------
(* The handlers.  IInv' says that what became the live copy is a pack, so  *)
(* it is enough to look at the IDs of the packs a handler may commit.      *)

SoleInv == Sole(live) /\ Sole(kept) /\ Sole(row)

LEMMA CommitSole ==
    ASSUME SoleInv, PacksInv', NEW q, q \in PackType => Sole(q),
           Commit(q) \/ CommitOrKeep(q) \/ RolledBack
    PROVE  SoleInv'
<1>1. CASE CommitSucceeds(q)
    <2>1. live' = q /\ kept' = Saved(q) /\ row' = Saved(q)
        BY <1>1 DEF CommitSucceeds
    <2>2. q \in PackType
        BY <2>1 DEF PacksInv, Sound
    <2>3. Saved(q).bag = q.bag /\ Saved(q).worn = q.worn
        BY <2>2 DEF Saved, PackType
    <2>4. Sole(Saved(q))
        BY <2>2, <2>3, SundriesFewer, FewerSole
    <2> QED
        BY <2>1, <2>2, <2>4 DEF SoleInv
<1>2. CASE RolledBack
    BY <1>2 DEF RolledBack, SoleInv
<1>3. CASE live' = q /\ UNCHANGED <<kept, row>>
    BY <1>3 DEF SoleInv, PacksInv, Sound
<1> QED
    BY <1>1, <1>2, <1>3 DEF Commit, CommitOrKeep, CommitFails, CommitSkipped

\* Moves and drags.
LEMMA CarrySole ==
    ASSUME PacksInv, PacksInv', SoleInv, Carry
    PROVE  SoleInv'
<1>1. PICK c \in Cell, d \in Cell : UseOn(c, d) \/ \E n \in Counts : Move(c, d, n)
    BY DEF Carry
<1>2. live \in PackType /\ Sole(live)
    BY DEF PacksInv, Sound, SoleInv
<1>3. \/ Commit(Carried(live, c, d))
      \/ \E n : Commit(Poured(live, c, d, n))
      \/ \E n : Commit(Parted(live, c, d, n))
    BY <1>1 DEF UseOn, Move
<1>4. \A n : Sole(Poured(live, c, d, n)) /\ Sole(Parted(live, c, d, n))
    BY <1>2, PouredFewer, FewerSole, PartedSole
<1>5. Sole(Carried(live, c, d))
    BY <1>2, CarriedSole
<1> QED
    BY <1>3, <1>4, <1>5, CommitSole

\* Gear.
LEMMA DressKeepsSole ==
    ASSUME PacksInv, PacksInv', SoleInv, Dress
    PROVE  SoleInv'
<1>1. PICK c \in Cell, w \in Wear : Equip(c, w) \/ Replace(c, w) \/ Unequip(w, c)
    BY DEF Dress
<1>2. live \in PackType /\ Sole(live)
    BY DEF PacksInv, Sound, SoleInv
<1>3. \/ RolledBack
      \/ \E x : Commit(Boosted(Worn(live, c, w), x))
      \/ \E x : Commit(Boosted(Exchanged(live, c, w), x))
      \/ \E x : Commit(Boosted(TakenOff(live, w, c), x))
    BY <1>1 DEF Equip, Replace, Unequip
<1> QED
    BY <1>2, <1>3, DressSole, CommitSole

\* Quickslots are no instances.
LEMMA QuickslotsSole ==
    ASSUME PacksInv, PacksInv', SoleInv, Quickslots
    PROVE  SoleInv'
<1>1. live \in PackType /\ Sole(live)
    BY DEF PacksInv, Sound, SoleInv
<1>2. PICK q : Commit(q) /\ q.bag = live.bag /\ q.worn = live.worn
    <2>1. PICK q \in Position :
              \/ QuickslotDel(q)
              \/ \E c \in Cell : QuickslotAdd(q, c)
              \/ \E r \in Position : QuickslotSwap(q, r)
        BY DEF Quickslots
    <2>2. CASE QuickslotDel(q)
        <3> DEFINE b == [live EXCEPT !.bar[q] = NoCell]
        <3>1. Commit(b) /\ b.bag = live.bag /\ b.worn = live.worn
            BY <1>1, <2>2 DEF QuickslotDel, PackType
        <3> QED
            BY <3>1
    <2>3. ASSUME NEW c \in Cell, QuickslotAdd(q, c)
          PROVE  \E b : Commit(b) /\ b.bag = live.bag /\ b.worn = live.worn
        <3>1. Commit(Bind(live, q, c))
            BY <2>3 DEF QuickslotAdd
        <3>2. Bind(live, q, c).bag = live.bag /\ Bind(live, q, c).worn = live.worn
            BY <1>1 DEF Bind, PackType
        <3> QED
            BY <3>1, <3>2
    <2>4. ASSUME NEW r \in Position, QuickslotSwap(q, r)
          PROVE  \E b : Commit(b) /\ b.bag = live.bag /\ b.worn = live.worn
        <3>1. Commit(SwapBindings(live, q, r))
            BY <2>4 DEF QuickslotSwap
        <3>2. SwapBindings(live, q, r).bag = live.bag /\ SwapBindings(live, q, r).worn = live.worn
            BY <1>1 DEF SwapBindings, PackType
        <3> QED
            BY <3>1, <3>2
    <2> QED
        BY <2>1, <2>2, <2>3, <2>4
<1>3. Sole(q)
    BY <1>1, <1>2, SundriesFewer, FewerSole
<1> QED
    BY <1>2, <1>3, CommitSole

\* Purchases and sales.
LEMMA TradeSole ==
    ASSUME PacksInv, PacksInv', SoleInv, Trade
    PROVE  SoleInv'
<1>1. live \in PackType /\ Sole(live)
    BY DEF PacksInv, Sound, SoleInv
<1>2. CASE OpenShop \/ CloseShop
    BY <1>2 DEF OpenShop, CloseShop, packs, SoleInv
<1>3. ASSUME NEW o \in Offer, Buy(o)
      PROVE  SoleInv'
    <2> DEFINE g == Granted(live, o.kind, o.n)
               q == [g EXCEPT !.gold = @ - o.price]
    <2>1. CommitOrKeep(q) /\ HasRoom(live, o.kind, o.n)
        BY <1>3 DEF Buy
    <2>2. Sole(g)
        BY <1>1, <2>1, GrantedSole
    <2>3. q.bag = g.bag /\ q.worn = g.worn
        BY <1>1 DEF Granted, Topped, Put, PackType
    <2> HIDE DEF g, q
    <2>4. Sole(q)
        BY <2>2, <2>3 DEF Sole
    <2> QED
        BY <2>1, <2>4, CommitSole
<1>4. ASSUME NEW c \in Cell, NEW n \in Counts, Sell(c, n)
      PROVE  SoleInv'
    <2>1. PICK m, y : CommitOrKeep([Less(live, c, m) EXCEPT !.gold = @ + y])
        BY <1>4 DEF Sell
    <2> DEFINE l == Less(live, c, m)
               q == [l EXCEPT !.gold = @ + y]
    <2>2. Sole(l)
        BY <1>1, LessFewer, FewerSole
    <2>3. q.bag = l.bag /\ q.worn = l.worn
        BY <1>1 DEF Less, Unbound, Put, PackType
    <2>4. CommitOrKeep(q)
        BY <2>1
    <2> HIDE DEF l, q
    <2>5. Sole(q)
        BY <2>2, <2>3 DEF Sole
    <2> QED
        BY <2>4, <2>5, CommitSole
<1> QED
    BY <1>2, <1>3, <1>4 DEF Trade

\* A potion, a hit, a restart.
LEMMA BodySole ==
    ASSUME PacksInv, PacksInv', SoleInv, Body
    PROVE  SoleInv'
<1>1. live \in PackType /\ kept \in PackType /\ Sole(live) /\ Sole(kept) /\ Sole(row)
    BY DEF PacksInv, Sound, SoleInv
<1>2. ASSUME NEW p \in PackType, Sole(p), NEW x
      PROVE  Sole([p EXCEPT !.pts = x])
    <2>1. [p EXCEPT !.pts = x].bag = p.bag /\ [p EXCEPT !.pts = x].worn = p.worn
        BY DEF PackType
    <2> QED
        BY <1>2, <2>1 DEF Sole
<1>3. CASE RestartHere
    BY <1>1, <1>2, <1>3 DEF RestartHere, SoleInv
<1>4. ASSUME NEW n \in 1..MaxHit, Hurt(n)
      PROVE  SoleInv'
    <2>1. PICK x, y : \/ live' = [live EXCEPT !.pts = x] /\ UNCHANGED <<kept, row>>
                      \/ /\ live' = [live EXCEPT !.pts = x]
                         /\ kept' = [kept EXCEPT !.pts = y] /\ row' = kept'
                      \/ RolledBack
        BY <1>4 DEF Hurt
    <2> QED
        BY <1>1, <1>2, <2>1 DEF RolledBack, SoleInv
<1>5. ASSUME NEW c \in Cell, Use(c)
      PROVE  SoleInv'
    <2>1. PICK x : CommitOrKeep(Boosted(Less(live, c, 1), x))
        BY <1>5 DEF Use
    <2> DEFINE l == Less(live, c, 1)
               q == Boosted(l, x)
    <2>2. Sole(l)
        BY <1>1, LessFewer, FewerSole
    <2>3. q.bag = l.bag /\ q.worn = l.worn
        BY <1>1 DEF Boosted, Less, Unbound, Put, PackType
    <2>4. CommitOrKeep(q)
        BY <2>1
    <2> HIDE DEF l, q
    <2>5. Sole(q)
        BY <2>2, <2>3 DEF Sole
    <2> QED
        BY <2>4, <2>5, CommitSole
<1> QED
    BY <1>3, <1>4, <1>5 DEF Body

\* A refine takes instances away or turns one into another kind; its other steps and
\* those of the session touch no pack but to copy one.
LEMMA CraftSole ==
    ASSUME PacksInv, PacksInv', WindowsInv, SoleInv, Craft \/ Session
    PROVE  SoleInv'
<1>1. Sound(live) /\ Sole(live)
    BY DEF PacksInv, SoleInv
<1>2. ASSUME NEW c \in Cell, NEW scroll \in BOOLEAN, Confirm(c, scroll)
      PROVE  SoleInv'
    <2> DEFINE t == Catalog[dialog.kind]
               paid == [live EXCEPT !.gold = @ - t.cost]
               less == Consumed(paid, t.needs.kind, t.needs.n, {c})
               done(k) == Turned(less, c, k)
               last(k) == IF scroll THEN Consumed(done(k), Catalyst, 1, {c}) ELSE done(k)
    <2>1. /\ dialog # NoDialog /\ live.bag[c].n = 1 /\ live.gold >= t.cost
          /\ live.bag[c].kind = dialog.kind
        BY <1>2 DEF Confirm, Asked
    <2>2. t.cost \in Nat /\ t.into \in Kind \cup {NoKind} /\ t.fail \in Kind \cup {NoKind}
        BY <2>1 DEF WindowsInv, Dialog, Template
    <2>3. Sound(paid) /\ paid.bag = live.bag /\ paid.worn = live.worn
        <3> DEFINE x == -t.cost
        <3>1. x \in Int /\ live.gold + x \in 0..MaxGold
            <4>1. live.gold \in 0..MaxGold
                BY <1>1 DEF Sound, PackType
            <4> QED BY <2>1, <2>2, <4>1
        <3>2. [live EXCEPT !.gold = @ + x] = paid
            BY <1>1, <2>2 DEF Sound, PackType
        <3>3. paid.bag = live.bag /\ paid.worn = live.worn
            BY <1>1 DEF Sound, PackType
        <3> HIDE DEF x, paid
        <3> QED
            BY <1>1, <3>1, <3>2, <3>3, GoldSound
    <2> HIDE DEF paid
    <2>4. Sound(less) /\ Sole(less) /\ less.bag[c] = live.bag[c]
        <3>1. live.bag[c] # NoStack
            BY <2>1 DEF NoStack
        <3>2. Sole(paid)
            BY <1>1, <2>3 DEF Sole
        <3> QED
            BY <2>3, <3>1, <3>2, ConsumedSound, ConsumedElsewhere, ConsumedFewer, FewerSole DEF Sound
    <2> HIDE DEF less
    <2>5. ASSUME NEW k \in Outcomes(dialog.kind)
          PROVE  Sole(last(k))
        <3>1. k \in Kind \cup {NoKind}
            BY <2>2 DEF Outcomes
        <3>2. Sound(done(k))
            BY <2>1, <2>4, <3>1, TurnedSound DEF NoStack
        <3>3. Sole(done(k))
            BY <2>4, TurnedFewer, FewerSole DEF Sound
        <3> HIDE DEF done
        <3> QED
            BY <3>2, <3>3, ConsumedFewer, FewerSole DEF Sound
    <2>6. RolledBack \/ \E k \in Outcomes(dialog.kind) : Commit(last(k))
        BY <1>2 DEF Confirm, less, paid, Commit
    <2> HIDE DEF last
    <2>7. CASE RolledBack
        BY <2>7 DEF RolledBack, SoleInv
    <2>8. ASSUME NEW k \in Outcomes(dialog.kind), Commit(last(k))
          PROVE  SoleInv'
        <3>1. Sole(last(k))
            BY <2>5
        <3> QED
            BY <2>8, <3>1, CommitSole
    <2> QED
        BY <2>6, <2>7, <2>8
<1>3. CASE CancelRefine \/ \E c \in Cell, scroll \in BOOLEAN : Preview(c, scroll)
    BY <1>3 DEF CancelRefine, Preview, packs, SoleInv
<1>4. CASE LoseWorld \/ Reenter
    BY <1>4 DEF LoseWorld, Reenter, packs, SoleInv
<1> QED
    BY <1>2, <1>3, <1>4 DEF Craft, Session

-----------------------------------------------------------------------------
(* The safebox.                                                            *)

TableInv == Distinct(box.cells) /\ Distinct(pane)

\* Only a table without duplicates is ever saved, and what is put back was one.
LEMMA ExchangeSole ==
    ASSUME SoleInv, PacksInv', BoxInv, TableInv, NEW q, q \in PackType => Sole(q),
           NEW t, Exchange(q, t)
    PROVE  SoleInv' /\ TableInv'
<1>1. Commit(q) \/ RolledBack
    BY DEF Exchange, Commit
<1>2. SoleInv'
    BY <1>1, CommitSole
<1>3. \/ Distinct(t) /\ pane' \in {pane, t} /\ box' \in {[box EXCEPT !.cells = t], [box EXCEPT !.cells = pane]}
      \/ pane' = pane /\ box' \in {box, [box EXCEPT !.cells = pane]}
    BY DEF Exchange, Storable
<1>4. Distinct(box'.cells) /\ Distinct(pane')
    BY <1>3 DEF TableInv, BoxInv, BoxType
<1> QED
    BY <1>2, <1>4 DEF TableInv, Distinct

\* What comes out of the safebox has an ID that nothing carried or worn has, or goes
\* onto a stack that keeps its own.
LEMMA CheckSole ==
    ASSUME IInv, IInv', SoleInv, TableInv, NEW c \in Cell, NEW b \in BoxCell,
           CheckIn(c, b) \/ CheckOut(b, c)
    PROVE  SoleInv' /\ TableInv'
<1>1. live \in PackType /\ Sole(live) /\ PacksInv' /\ BoxInv
    BY DEF IInv, PacksInv, Sound, SoleInv
<1>2. CASE CheckIn(c, b)
    <2>1. PICK t : Exchange(Less(live, c, live.bag[c].n), t)
        BY <1>2 DEF CheckIn
    <2>2. Sole(Less(live, c, live.bag[c].n))
        BY <1>1, LessFewer, FewerSole
    <2> QED
        BY <1>1, <2>1, <2>2, ExchangeSole
<1>3. CASE CheckOut(b, c)
    <2> DEFINE s == pane[b]
               u == live.bag[c]
               v == IF u = NoStack THEN s ELSE [u EXCEPT !.n = @ + s.n]
               q == Put(live, c, v)
    <2>1. \E t : Exchange(q, t)
        BY <1>3 DEF CheckOut
    <2>2. s # NoStack /\ ((u = NoStack /\ s.id \notin IdsOf(live)) \/ u.kind = s.kind)
        BY <1>3 DEF CheckOut
    <2>3. s \in Stack /\ u \in MaybeStack
        BY <1>1, <2>2 DEF BoxInv, MaybeStack, PackType
    <2>4. /\ q.bag[c] = v /\ q.worn = live.worn
          /\ \A d \in Cell \ {c} : q.bag[d] = live.bag[d]
        BY <1>1 DEF Put, PackType
    <2>5. Sole(q)
        <3>1. CASE u = NoStack
            <4>1. v.id \notin IdsOf(live)
                BY <2>2, <2>3, <3>1 DEF Stack, NoStack
            <4> HIDE DEF q, v
            <4> QED
                BY <1>1, <2>4, <4>1, FreshSole
        <3>2. CASE u # NoStack
            <4>1. v.id = u.id
                BY <2>3, <3>2 DEF MaybeStack, Stack
            <4> HIDE DEF q, v
            <4>2. Fewer(live, q)
                BY <2>4, <4>1 DEF Fewer
            <4> QED
                BY <1>1, <4>2, FewerSole
        <3> QED
            BY <3>1, <3>2
    <2> HIDE DEF q
    <2> QED
        BY <1>1, <2>1, <2>5, ExchangeSole
<1> QED
    BY <1>2, <1>3

\* Opening, closing, moves within the safebox, and money.
LEMMA TableKeeps ==
    ASSUME IInv, IInv', SoleInv, TableInv,
           \/ OpenBox \/ CloseBox
           \/ \E b, d \in BoxCell, n \in Counts : MoveInBox(b, d, n)
           \/ \E x \in 1..MaxGold : SaveMoney(x) \/ WithdrawMoney(x)
    PROVE  SoleInv' /\ TableInv'
<1>1. live \in PackType /\ Sole(live) /\ PacksInv /\ PacksInv' /\ BoxInv
    BY DEF IInv, PacksInv, Sound, SoleInv
<1>2. CASE OpenBox \/ CloseBox
    <2>1. UNCHANGED <<packs, box>> /\ pane' \in {pane, box.cells, EmptyCells}
        BY <1>2 DEF OpenBox, CloseBox
    <2>2. Distinct(EmptyCells)
        BY DEF Distinct, EmptyCells
    <2>3. Distinct(box'.cells) /\ Distinct(pane')
        BY <2>1, <2>2 DEF TableInv
    <2> QED
        BY <2>1, <2>3 DEF packs, SoleInv, TableInv, Distinct
<1>3. ASSUME NEW b \in BoxCell, NEW d \in BoxCell, NEW n \in Counts, MoveInBox(b, d, n)
      PROVE  SoleInv' /\ TableInv'
    <2>1. PICK t : Rearranged(t)
        BY <1>3 DEF MoveInBox
    <2>2. Distinct(box'.cells) /\ Distinct(pane')
        BY <1>1, <2>1 DEF Rearranged, Storable, TableInv, BoxInv, BoxType
    <2>3. SoleInv'
        BY <2>1 DEF Rearranged, packs, SoleInv
    <2> QED
        BY <2>2, <2>3 DEF TableInv, Distinct
<1>4. ASSUME NEW x \in 1..MaxGold, SaveMoney(x) \/ WithdrawMoney(x)
      PROVE  SoleInv' /\ TableInv'
    <2>1. PICK g, m0, m : ExchangeMoney([live EXCEPT !.gold = g], m0, m)
        BY <1>4 DEF SaveMoney, WithdrawMoney
    <2> DEFINE q == [live EXCEPT !.gold = g]
    <2>2. q.bag = live.bag /\ q.worn = live.worn
        BY <1>1 DEF PackType
    <2>3. ExchangeMoney(q, m0, m)
        BY <2>1
    <2> HIDE DEF q
    <2>4. Sole(q)
        BY <1>1, <2>2 DEF Sole
    <2>5. Commit(q) \/ RolledBack
        BY <2>3 DEF ExchangeMoney, Commit
    <2>6. SoleInv'
        BY <1>1, <2>4, <2>5, CommitSole
    <2>7. x \in Nat
        OBVIOUS
    <2>8. pane' = pane /\ box'.cells = box.cells
        BY <1>1, <1>4, <2>7, MoneyKeeps
    <2> QED
        BY <2>6, <2>8 DEF TableInv, Distinct
<1> QED
    BY <1>2, <1>3, <1>4

-----------------------------------------------------------------------------
(* The invariant: in each of the three copies every ID is in one place,    *)
(* and so it is in the safebox and in the table the session works on,      *)
(* which a refused exchange puts back.                                     *)
OnceInv == IInv /\ SoleInv /\ TableInv

LEMMA InitOnce == Init => OnceInv
<1> SUFFICES ASSUME Init
             PROVE  OnceInv
    OBVIOUS
<1>1. IInv
    BY InitSound DEF PaneInv
<1>2. Sole(Start)
    BY StartAssumption, SoleIsApart
<1>3. SoleInv
    BY <1>2 DEF Init, SoleInv
<1>4. Distinct(EmptyCells)
    BY DEF Distinct, EmptyCells
<1>5. TableInv
    BY <1>4 DEF Init, TableInv
<1> QED
    BY <1>1, <1>3, <1>5 DEF OnceInv

LEMMA StepOnce == OnceInv /\ [Next]_vars => OnceInv'
<1> SUFFICES ASSUME OnceInv, [Next]_vars
             PROVE  OnceInv'
    OBVIOUS
<1>1. IInv /\ IInv' /\ SoleInv /\ TableInv
    BY StepKeeps DEF OnceInv
<1>2. PacksInv /\ PacksInv' /\ WindowsInv
    BY <1>1 DEF IInv
<1>3. CASE Carry \/ Dress \/ Quickslots \/ Trade \/ Craft \/ Body \/ Session
    <2>1. SoleInv'
        BY <1>1, <1>2, <1>3, CarrySole, DressKeepsSole, QuickslotsSole, TradeSole, CraftSole, BodySole
    <2>2. UNCHANGED stored
        BY <1>3 DEF Carry, Dress, Quickslots, Trade, Craft, Body, Session
    <2>3. TableInv'
        BY <1>1, <2>2 DEF stored, TableInv, Distinct
    <2> QED
        BY <1>1, <2>1, <2>3 DEF OnceInv
<1>4. CASE \/ OpenBox \/ CloseBox
           \/ \E b, d \in BoxCell, n \in Counts : MoveInBox(b, d, n)
           \/ \E x \in 1..MaxGold : SaveMoney(x) \/ WithdrawMoney(x)
    BY <1>1, <1>4, TableKeeps DEF OnceInv
<1>5. CASE \E c \in Cell, b \in BoxCell : CheckIn(c, b) \/ CheckOut(b, c)
    BY <1>1, <1>5, CheckSole DEF OnceInv
<1>6. CASE UNCHANGED vars
    BY <1>1, <1>6 DEF vars, packs, OnceInv, SoleInv, TableInv, Distinct
<1> QED
    BY <1>3, <1>4, <1>5, <1>6 DEF Next

\* No instance ID is ever in two carried or worn places, nor in two cells of the safebox:
\* not when a stack is split and the next ID is computed, not when goods come back from
\* the safebox after a refused save, not when a session that lost its place plays on.
THEOREM PossessionsOneOfEach == Spec => []OneOfEach
<1>1. OnceInv => OneOfEach
    BY SoleIsApart DEF OnceInv, IInv, PacksInv, Sound, SoleInv, TableInv, OneOfEach
<1> QED
    BY <1>1, InitOnce, StepOnce, PTL DEF Spec

\* Nor in the snapshot the next save starts from, nor in the account's row: the store,
\* which refuses a row with a duplicate, never has to.
THEOREM RowsAreValid == Spec => [](Apart(kept) /\ Apart(row))
<1>1. OnceInv => Apart(kept) /\ Apart(row)
    BY SoleIsApart DEF OnceInv, IInv, PacksInv, Sound, SoleInv
<1> QED
    BY <1>1, InitOnce, StepOnce, PTL DEF Spec
=============================================================================
