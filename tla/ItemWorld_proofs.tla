-------------------------- MODULE ItemWorld_proofs --------------------------
(***************************************************************************)
(* What holds of the item world for any characters, items and handles,     *)
(* whatever handlers overlap and whatever the store refuses: the types and *)
(* the capacity of every bag (TypeInv), and the agreement of the ground    *)
(* with the sessions and with the file (FloorInv).                         *)
(***************************************************************************)
EXTENDS ItemWorld, FiniteSetTheorems, TLAPS

(* What the handlers carry is what fits: the strengthening of TypeOK.      *)
PickFits(c) == Picking(c, "save") => Gains(live[c], {job[c].item}) \in State
DealFits(c) == Dealing(c) => OwnSide(c) \in State /\ PeerSide(c) \in State

TypeInv == TypeOK /\ \A c \in Character : PickFits(c) /\ DealFits(c)

-----------------------------------------------------------------------------
(* Bags.                                                                   *)

\* What is part of a bag fits into one.
LEMMA FewerFit ==
    ASSUME NEW b \in Bag, NEW s, s \subseteq b
    PROVE  s \in Bag
<1>1. s \ Coin \subseteq b \ Coin /\ s \in SUBSET Item /\ b \in SUBSET Item
    BY DEF Bag
<1>2. IsFiniteSet(b \ Coin)
    BY <1>1, BagAssumption, FS_Subset
<1>3. /\ IsFiniteSet(s \ Coin) /\ Cardinality(s \ Coin) \in Nat
      /\ Cardinality(b \ Coin) \in Nat /\ Cardinality(s \ Coin) <= Cardinality(b \ Coin)
    BY <1>1, <1>2, FS_Subset, FS_CardinalityType
<1>4. Cardinality(b \ Coin) <= BagSize
    BY DEF Bag
<1> QED
    BY <1>1, <1>3, <1>4, BagAssumption DEF Bag

\* Coins fill no cell.
LEMMA CoinsFit ==
    ASSUME NEW b \in Bag, NEW pay \in SUBSET Coin
    PROVE  b \cup pay \in Bag
<1>1. (b \cup pay) \ Coin = b \ Coin
    OBVIOUS
<1>2. b \cup pay \in SUBSET Item
    BY CoinAssumption DEF Bag
<1> QED
    BY <1>1, <1>2 DEF Bag

\* A bag with room takes the item.
LEMMA RoomFits ==
    ASSUME NEW s \in State, NEW i \in Item, Room(s, i)
    PROVE  s.bag \cup {i} \in Bag
<1>1. s.bag \in Bag /\ s.bag \in SUBSET Item
    BY DEF State, Bag
<1>2. CASE i \in Coin
    BY <1>1, <1>2, CoinsFit
<1>3. CASE i \notin Coin
    <2>1. Cardinality(s.bag \ Coin) < BagSize
        BY <1>3 DEF Room
    <2>2. IsFiniteSet(s.bag \ Coin)
        BY <1>1, BagAssumption, FS_Subset
    <2>3. /\ Cardinality(s.bag \ Coin) \in Nat
          /\ \/ Cardinality((s.bag \ Coin) \cup {i}) = Cardinality(s.bag \ Coin)
             \/ Cardinality((s.bag \ Coin) \cup {i}) = Cardinality(s.bag \ Coin) + 1
        <3>1. CASE i \in s.bag
            <4>1. (s.bag \ Coin) \cup {i} = s.bag \ Coin
                BY <3>1, <1>3
            <4> QED BY <4>1, <2>2, FS_CardinalityType
        <3>2. CASE i \notin s.bag
            BY <3>2, <2>2, FS_AddElement, FS_CardinalityType
        <3> QED BY <3>1, <3>2
    <2>4. (s.bag \cup {i}) \ Coin = (s.bag \ Coin) \cup {i}
        BY <1>3
    <2>5. Cardinality((s.bag \cup {i}) \ Coin) <= BagSize
        <3>1. Cardinality((s.bag \ Coin) \cup {i}) <= BagSize
            BY <2>1, <2>3, BagAssumption
        <3> QED BY <3>1, <2>4, Zenon
    <2>6. s.bag \cup {i} \in SUBSET Item
        BY <1>1
    <2> QED
        BY <2>5, <2>6 DEF Bag
<1> QED
    BY <1>2, <1>3

LEMMA LosesType ==
    ASSUME NEW s \in State, NEW things
    PROVE  Loses(s, things) \in State
<1>1. s.bag \ things \in Bag
    BY FewerFit DEF State
<1> QED
    BY <1>1 DEF State, Loses

LEMMA GainsType ==
    ASSUME NEW s \in State, NEW i \in Item, Room(s, i)
    PROVE  Gains(s, {i}) \in State
<1>1. s.bag \cup {i} \in Bag
    BY RoomFits
<1> QED
    BY <1>1 DEF State, Gains

\* The two sides of a purchase end with bags that fit.
LEMMA SaleType ==
    ASSUME NEW s \in State, NEW t \in State, NEW i \in Item, NEW pay \in SUBSET Coin,
           Room(s, i)
    PROVE  /\ Gains(Loses(s, pay), {i}) \in State
           /\ Gains(Loses(t, {i}), pay) \in State
<1>1. s.bag \cup {i} \in Bag
    BY RoomFits
<1>2. (s.bag \ pay) \cup {i} \in Bag
    <2>1. (s.bag \ pay) \cup {i} \subseteq s.bag \cup {i}
        OBVIOUS
    <2> QED BY <1>1, <2>1, FewerFit
<1>3. Loses(s, pay) \in State /\ Loses(s, pay).bag = s.bag \ pay
    BY LosesType DEF Loses, State
<1>4. Gains(Loses(s, pay), {i}) \in State
    BY <1>2, <1>3 DEF State, Gains
<1>5. Loses(t, {i}) \in State
    BY LosesType
<1>6. Loses(t, {i}).bag \cup pay \in Bag
    BY <1>5, CoinsFit DEF State
<1>7. Gains(Loses(t, {i}), pay) \in State
    BY <1>5, <1>6 DEF State, Gains
<1> QED
    BY <1>4, <1>7

\* The two sides of a gift.
LEMMA GiftType ==
    ASSUME NEW s \in State, NEW t \in State, NEW i \in Item, Room(t, i)
    PROVE  /\ Gains(Loses(s, {i}), {}) \in State
           /\ Gains(Loses(t, {}), {i}) \in State
<1>1. Loses(s, {i}) \in State /\ Gains(t, {i}) \in State
    BY LosesType, GainsType
<1>2. Gains(Loses(s, {i}), {}) = Loses(s, {i})
    BY <1>1 DEF Gains, State
<1>3. Loses(t, {}) = t
    BY DEF Loses, State
<1> QED
    BY <1>1, <1>2, <1>3

\* Who takes things on top of a bag keeps within it when giving some of it away.
LEMMA SideType ==
    ASSUME NEW s \in State, NEW out \in SUBSET Item, NEW in \in SUBSET Item, Takes(s, in)
    PROVE  Gains(Loses(s, out), in) \in State
<1>1. s.bag \cup in \in Bag
    BY DEF Takes, State, Bag
<1>2. (s.bag \ out) \cup in \in Bag
    <2>1. (s.bag \ out) \cup in \subseteq s.bag \cup in
        OBVIOUS
    <2> QED BY <1>1, <2>1, FewerFit
<1>3. Loses(s, out) \in State /\ Loses(s, out).bag = s.bag \ out
    BY LosesType DEF Loses, State
<1> QED
    BY <1>2, <1>3 DEF State, Gains

\* Nobody starts with more than a bag holds.
LEMMA NobodyType == Nobody \in State
<1>1. {} \ Coin = {}
    OBVIOUS
<1>2. {} \in Bag
    BY <1>1, FS_EmptySet, BagAssumption DEF Bag
<1> QED
    BY <1>2 DEF Nobody, State

-----------------------------------------------------------------------------
(* Types.  The steps are taken in the groups of ItemWorld.                 *)

PlacesTyped ==
    /\ here \subseteq Character
    /\ row \in [Character -> State]
    /\ live \in [Character -> State]
    /\ seen \in [Character -> State]
    /\ shop \in [Character -> SUBSET Item]
FloorTyped ==
    /\ ground \in [Vid -> Handle \cup {NoHandle}]
    /\ file \in [Vid -> Handle \cup {NoHandle}]
    /\ unsaved \in BOOLEAN
JobsTyped ==
    /\ job \in [Character -> Job \cup {NoJob}]
    /\ \A c \in Character : PickFits(c) /\ DealFits(c)

LEMMA TypeParts == TypeInv <=> PlacesTyped /\ FloorTyped /\ JobsTyped
BY DEF TypeInv, TypeOK, PlacesTyped, FloorTyped, JobsTyped

\* Only whose handle it is may change while it lies there.
LEMMA HandleType ==
    ASSUME NEW h \in Handle, NEW b \in BOOLEAN
    PROVE  [h EXCEPT !.exclusive = b] \in Handle /\ [h EXCEPT !.bound = b] \in Handle
BY DEF Handle

\* What a restart makes of the file is made of handles.
LEMMA RestartType ==
    ASSUME NEW f \in [Vid -> Handle \cup {NoHandle}], NEW expired, NEW released
    PROVE  [v \in Vid |-> IF f[v] = NoHandle \/ v \in expired THEN NoHandle
                          ELSE [f[v] EXCEPT !.exclusive = @ /\ v \notin released]]
             \in [Vid -> Handle \cup {NoHandle}]
<1>1. ASSUME NEW v \in Vid, f[v] # NoHandle
      PROVE  [f[v] EXCEPT !.exclusive = @ /\ v \notin released] \in Handle
    <2>1. f[v] \in Handle
        BY <1>1
    <2>2. (f[v].exclusive /\ v \notin released) \in BOOLEAN
        OBVIOUS
    <2> QED BY <2>1, <2>2, HandleType
<1> QED
    BY <1>1

\* The ground and its file keep their types.
LEMMA FloorTypes ==
    ASSUME TypeInv, [Next]_vars
    PROVE  FloorTyped'
<1> USE DEF TypeInv, TypeOK, FloorTyped, floor
<1>1. ASSUME NEW c \in Character, Join(c) PROVE FloorTyped'
    <2>1. \A v \in Vid : Rebound(c)[v] \in Handle \cup {NoHandle}
        BY HandleType DEF Rebound
    <2>2. Rebound(c) \in [Vid -> Handle \cup {NoHandle}]
        BY <2>1 DEF Rebound
    <2> QED BY <1>1, <2>2 DEF Join
<1>2. ASSUME NEW c \in Character, Leave(c) PROVE FloorTyped'
    <2>1. \A v \in Vid : /\ Parked(c)[v] \in Handle \cup {NoHandle}
                          /\ Removed(c)[v] \in Handle \cup {NoHandle}
        BY HandleType DEF Parked, Removed, BoundTo
    <2>2. /\ Parked(c) \in [Vid -> Handle \cup {NoHandle}]
          /\ Removed(c) \in [Vid -> Handle \cup {NoHandle}]
        BY <2>1 DEF Parked, Removed
    <2> QED BY <1>2, <2>2 DEF Leave
<1>3. ASSUME Crash PROVE FloorTyped'
    <2>1. file' \in [Vid -> Handle \cup {NoHandle}]
        <3>1. PICK expired, released \in SUBSET Vid :
                file' = [v \in Vid |->
                           IF file[v] = NoHandle \/ v \in expired THEN NoHandle
                           ELSE [file[v] EXCEPT !.exclusive = @ /\ v \notin released]]
            BY <1>3 DEF Crash
        <3> QED BY <3>1, RestartType
    <2> QED BY <1>3, <2>1 DEF Crash
<1>4. ASSUME NEW c \in Character, DropRegister(c) PROVE FloorTyped'
    <2>1. job[c] \in Job /\ job[c].op = "drop"
        BY <1>4 DEF DropRegister, Dropping, Free
    <2>2. job[c].item \in Item /\ job[c].vid \in Vid
        BY <2>1 DEF Job, GroundJob, PeerJob
    <2>3. [item |-> job[c].item, owner |-> c, exclusive |-> TRUE, bound |-> TRUE] \in Handle
        BY <2>2 DEF Handle
    <2> QED
        BY <1>4, <2>2, <2>3 DEF DropRegister
<1>5. ASSUME NEW c \in Character, PickRemove(c) PROVE FloorTyped'
    BY <1>5 DEF PickRemove
<1>6. ASSUME NEW v \in Vid, ReleaseOwnership(v) \/ Despawn(v) PROVE FloorTyped'
    <2>1. CASE Despawn(v)
        BY <2>1 DEF Despawn
    <2>2. CASE ReleaseOwnership(v)
        <3>1. [ground[v] EXCEPT !.exclusive = FALSE] \in Handle
            BY <2>2, HandleType DEF ReleaseOwnership
        <3>2. file[v] # NoHandle => [file[v] EXCEPT !.exclusive = FALSE] \in Handle
            BY HandleType
        <3>3. unsaved' \in BOOLEAN
            BY <2>2 DEF ReleaseOwnership
        <3>4. ground' \in [Vid -> Handle \cup {NoHandle}]
            BY <2>2, <3>1 DEF ReleaseOwnership
        <3>5. file' \in [Vid -> Handle \cup {NoHandle}]
            BY <2>2, <3>2 DEF ReleaseOwnership
        <3> QED BY <3>3, <3>4, <3>5
    <2> QED BY <1>6, <2>1, <2>2
<1>7. ASSUME PersistGround PROVE FloorTyped'
    BY <1>7 DEF PersistGround, Durable, Handle
<1>8. ASSUME UNCHANGED floor PROVE FloorTyped'
    BY <1>8
<1>9. ASSUME NEW c \in Character, OnGround(c) PROVE FloorTyped'
    <2>1. UNCHANGED floor \/ DropRegister(c) \/ PickRemove(c)
        BY <1>9 DEF OnGround, Drop, PickResolve, PickSave, PickRefused
    <2> QED BY <2>1, <1>4, <1>5, <1>8
<1>10. ASSUME NEW c \in Character, Giving(c) PROVE FloorTyped'
    <2>1. UNCHANGED floor
        BY <1>10 DEF Giving, GiveClone, GiveSaveOwn, GiveOwnRefused, GiveSavePeer,
                     GivePeerRefused, GiveApply, GiveApplyRefused, GiveClose, ShowOwn
    <2> QED BY <2>1, <1>8
<1>11. ASSUME NEW c \in Character, Shopping(c) PROVE FloorTyped'
    <2>1. UNCHANGED floor
        BY <1>11 DEF Shopping, OpenShop, CloseShop, BuyResolve, BuySaveOwn, BuyOwnRefused,
                     BuySaveHost, BuyHostRefused, BuyApply, BuyApplyRefused, BuyClose,
                     BuyCloseRefused, ShowOwn
    <2> QED BY <2>1, <1>8
<1>12. ASSUME NEW c \in Character, Trading(c) PROVE FloorTyped'
    <2>1. UNCHANGED floor
        BY <1>12 DEF Trading, TradePlan, TradeSaveOwn, TradeOwnRefused, TradeSavePeer,
                     TradePeerRefused, TradeApply, TradeApplyRefused, TradeClose,
                     TradeCloseRefused
    <2> QED BY <2>1, <1>8
<1>13. ASSUME NEW c \in Character, InAndOut(c) PROVE FloorTyped'
    <2>1. UNCHANGED floor \/ Join(c) \/ Leave(c)
        BY <1>13 DEF InAndOut, Fall, Revive
    <2> QED BY <2>1, <1>1, <1>2, <1>8
<1> QED
    BY <1>3, <1>6, <1>7, <1>8, <1>9, <1>10, <1>11, <1>12, <1>13 DEF Next, Lying, vars

\* A job that is a deal, one that is not, and what each carries.
LEMMA JobParts ==
    ASSUME JobsTyped, NEW c \in Character, ~Free(c)
    PROVE  /\ job[c] \in Job
           /\ job[c].op \in {"give", "buy", "trade"} =>
                /\ job[c] \in PeerJob /\ job[c].peer \in Character
                /\ job[c].out \in SUBSET Item /\ job[c].in \in SUBSET Item
                /\ job[c].mine \in State /\ job[c].theirs \in State
                /\ job[c].rows.own \in State /\ job[c].rows.peer \in State
           /\ job[c].op \in {"drop", "pick"} =>
                /\ job[c] \in GroundJob /\ job[c].item \in Item /\ job[c].vid \in Vid
BY DEF JobsTyped, Free, Job, GroundJob, PeerJob, Rows

\* Own commits and undone saves put back what is a bag already.
LEMMA CommitTypes ==
    ASSUME PlacesTyped, NEW c \in Character, NEW b \in Bag, CommitOwn(c, b)
    PROVE  row' \in [Character -> State] /\ live' \in [Character -> State]
             /\ seen' \in [Character -> State]
BY DEF PlacesTyped, CommitOwn, State

LEMMA UndoTypes ==
    ASSUME PlacesTyped, JobsTyped, NEW c \in Character, ~Free(c), Dealing(c),
           UndoBoth(c) \/ UndoOwn(c)
    PROVE  row' \in [Character -> State]
<1>1. job[c].rows.own \in State /\ job[c].rows.peer \in State
    BY JobParts DEF Dealing
<1>2. CASE UndoBoth(c)
    BY <1>1, <1>2 DEF UndoBoth, PlacesTyped
<1>3. CASE UndoOwn(c)
    BY <1>1, <1>3 DEF UndoOwn, PlacesTyped
<1> QED
    BY <1>2, <1>3

\* Characters keep their types.
LEMMA PlaceTypes ==
    ASSUME TypeInv, [Next]_vars
    PROVE  PlacesTyped'
<1>0. PlacesTyped /\ FloorTyped /\ JobsTyped
    BY TypeParts
<1> USE <1>0 DEF people
<1>1. ASSUME UNCHANGED people PROVE PlacesTyped'
    BY <1>1 DEF PlacesTyped
<1>2. ASSUME NEW c \in Character, InAndOut(c) PROVE PlacesTyped'
    <2>1. CASE Join(c)
        BY <2>1 DEF Join, PlacesTyped
    <2>2. CASE Leave(c)
        BY <2>2, NobodyType DEF Leave, PlacesTyped
    <2>3. CASE Fall(c)
        BY <2>3 DEF Fall, PlacesTyped, State
    <2>4. CASE Revive(c)
        BY <2>4 DEF Revive, PlacesTyped, State
    <2> QED BY <1>2, <2>1, <2>2, <2>3, <2>4 DEF InAndOut
<1>3. ASSUME Crash PROVE PlacesTyped'
    BY <1>3, NobodyType DEF Crash, PlacesTyped
<1>4. ASSUME NEW c \in Character, OnGround(c) PROVE PlacesTyped'
    <2>1. ASSUME NEW i \in Item, NEW v \in Vid, Drop(c, i, v) PROVE PlacesTyped'
        <3>1. live[c].bag \ {i} \in Bag
            BY FewerFit DEF PlacesTyped, State
        <3> QED
            BY <2>1, <3>1, CommitTypes DEF Drop, PlacesTyped
    <2>2. CASE PickSave(c)
        <3>1. live[c].bag \cup {job[c].item} \in Bag
            BY <2>2 DEF PickSave, JobsTyped, PickFits, PlacesTyped, Gains, State
        <3> QED
            BY <2>2, <3>1, CommitTypes DEF PickSave, PlacesTyped
    <2>3. UNCHANGED people \/ PickSave(c) \/ \E i \in Item, v \in Vid : Drop(c, i, v)
        BY <1>4 DEF OnGround, DropRegister, PickResolve, PickRefused, PickRemove
    <2> QED BY <1>1, <2>1, <2>2, <2>3
<1>5. ASSUME NEW c \in Character, Giving(c) PROVE PlacesTyped'
    <2>1. ASSUME NEW d \in Character, NEW i \in Item, GiveClone(c, d, i) PROVE PlacesTyped'
        <3>1. Loses(live[c], {i}) \in State
            BY LosesType DEF PlacesTyped
        <3> QED BY <2>1, <3>1 DEF GiveClone, PlacesTyped
    <2>2. CASE GiveSaveOwn(c)
        <3>1. [row[c] EXCEPT !.bag = live[c].bag] \in State
            BY DEF PlacesTyped, State
        <3> QED BY <2>2, <3>1 DEF GiveSaveOwn, LoadAndSaveOwn, PlacesTyped
    <2>3. CASE GiveOwnRefused(c) \/ GivePeerRefused(c) \/ GiveApplyRefused(c)
        <3>1. ~Free(c) /\ Dealing(c)
            BY <2>3 DEF GiveOwnRefused, GivePeerRefused, GiveApplyRefused, At, Dealing
        <3>2. job[c].mine \in State
            BY <3>1, JobParts DEF Dealing
        <3>3. row' \in [Character -> State]
            BY <2>3, <3>1, UndoTypes DEF GiveOwnRefused, GivePeerRefused, GiveApplyRefused, PlacesTyped
        <3>4. live' \in [Character -> State]
            BY <2>3, <3>2 DEF GiveOwnRefused, GivePeerRefused, GiveApplyRefused, GiverBack, PlacesTyped
        <3> QED
            BY <2>3, <3>3, <3>4 DEF GiveOwnRefused, GivePeerRefused, GiveApplyRefused, PlacesTyped
    <2>4. CASE GiveSavePeer(c) \/ GiveApply(c) \/ GiveClose(c)
        <3>1. PeerSide(c) \in State
            BY <2>4 DEF GiveSavePeer, GiveApply, GiveClose, At, JobsTyped, DealFits, Dealing
        <3> QED
            BY <2>4, <3>1 DEF GiveSavePeer, GiveApply, GiveClose, PlacesTyped
    <2>5. CASE ShowOwn(c, "give")
        BY <2>5 DEF ShowOwn, PlacesTyped
    <2> QED BY <1>5, <2>1, <2>2, <2>3, <2>4, <2>5 DEF Giving
<1>6. ASSUME NEW c \in Character, Shopping(c) PROVE PlacesTyped'
    <2>1. ASSUME NEW stock \in SUBSET Item, OpenShop(c, stock) PROVE PlacesTyped'
        <3>1. shop' \in [Character -> SUBSET Item] /\ UNCHANGED here
            BY <2>1 DEF OpenShop, PlacesTyped
        <3>2. CASE UNCHANGED <<row, live, seen>>
            BY <3>1, <3>2 DEF PlacesTyped
        <3>3. CASE CommitOwn(c, live[c].bag)
            <4>1. live[c].bag \in Bag
                BY DEF PlacesTyped, State
            <4> QED BY <3>1, <3>3, <4>1, CommitTypes DEF PlacesTyped
        <3> QED BY <2>1, <3>2, <3>3 DEF OpenShop
    <2>2. CASE CloseShop(c)
        BY <2>2 DEF CloseShop, PlacesTyped
    <2>3. CASE BuySaveOwn(c) \/ BuySaveHost(c) \/ BuyApply(c) \/ BuyClose(c)
        <3>1. OwnSide(c) \in State /\ PeerSide(c) \in State
            BY <2>3 DEF BuySaveOwn, BuySaveHost, BuyApply, BuyClose, At, JobsTyped, DealFits, Dealing
        <3> QED
            BY <2>3, <3>1
            DEF BuySaveOwn, BuySaveHost, BuyApply, BuyClose, LoadAndSaveOwn, PlacesTyped
    <2>4. CASE BuyHostRefused(c) \/ BuyApplyRefused(c) \/ BuyCloseRefused(c)
        <3>1. ~Free(c) /\ Dealing(c)
            BY <2>4 DEF BuyHostRefused, BuyApplyRefused, BuyCloseRefused, At, Dealing
        <3>2. job[c].mine \in State /\ job[c].theirs \in State
            BY <3>1, JobParts DEF Dealing
        <3>3. row' \in [Character -> State]
            BY <2>4, <3>1, UndoTypes DEF BuyHostRefused, BuyApplyRefused, BuyCloseRefused
        <3> QED
            BY <2>4, <3>2, <3>3 DEF BuyHostRefused, BuyApplyRefused, BuyCloseRefused, PlacesTyped
    <2>5. ASSUME NEW d \in Character, NEW i \in Item, NEW coin \in Coin, BuyResolve(c, d, i, coin)
          PROVE  PlacesTyped'
        BY <1>1, <2>5 DEF BuyResolve
    <2>6. CASE BuyOwnRefused(c)
        BY <1>1, <2>6 DEF BuyOwnRefused
    <2>7. CASE ShowOwn(c, "buy")
        BY <2>7 DEF ShowOwn, PlacesTyped
    <2> QED BY <1>6, <2>1, <2>2, <2>3, <2>4, <2>5, <2>6, <2>7 DEF Shopping
<1>7. ASSUME NEW c \in Character, Trading(c) PROVE PlacesTyped'
    <2>1. CASE TradeSaveOwn(c) \/ TradeSavePeer(c) \/ TradeApply(c) \/ TradeClose(c)
        <3>1. OwnSide(c) \in State /\ PeerSide(c) \in State
            BY <2>1 DEF TradeSaveOwn, TradeSavePeer, TradeApply, TradeClose, At, JobsTyped,
                        DealFits, Dealing
        <3> QED
            BY <2>1, <3>1
            DEF TradeSaveOwn, TradeSavePeer, TradeApply, TradeClose, LoadAndSaveOwn, PlacesTyped
    <2>2. CASE TradePeerRefused(c) \/ TradeApplyRefused(c) \/ TradeCloseRefused(c)
        <3>1. ~Free(c) /\ Dealing(c)
            BY <2>2 DEF TradePeerRefused, TradeApplyRefused, TradeCloseRefused, At, Dealing
        <3>2. job[c].mine \in State /\ job[c].theirs \in State
            BY <3>1, JobParts DEF Dealing
        <3>3. row' \in [Character -> State]
            BY <2>2, <3>1, UndoTypes DEF TradePeerRefused, TradeApplyRefused, TradeCloseRefused
        <3> QED
            BY <2>2, <3>2, <3>3
            DEF TradePeerRefused, TradeApplyRefused, TradeCloseRefused, PlacesTyped
    <2>3. UNCHANGED people \/ TradeSaveOwn(c) \/ TradeSavePeer(c) \/ TradeApply(c)
            \/ TradeClose(c) \/ TradePeerRefused(c) \/ TradeApplyRefused(c)
            \/ TradeCloseRefused(c)
        BY <1>7 DEF Trading, TradePlan, TradeOwnRefused
    <2> QED BY <1>1, <2>1, <2>2, <2>3
<1>8. ASSUME Lying \/ PersistGround PROVE PlacesTyped'
    BY <1>1, <1>8 DEF Lying, PersistGround, ReleaseOwnership, Despawn
<1> QED
    BY <1>1, <1>2, <1>3, <1>4, <1>5, <1>6, <1>7, <1>8 DEF Next, vars

\* A handler that changes its own job, and the runtimes of no handler but itself,
\* leaves the jobs of the others as good as they were.
LEMMA OwnJob ==
    ASSUME JobsTyped, NEW c \in Character, NEW j \in Job \cup {NoJob},
           job' = [job EXCEPT ![c] = j],
           \A d \in Character \ {c} : ~Free(d) => live'[d] = live[d],
           PickFits(c)', DealFits(c)'
    PROVE  JobsTyped'
<1>1. job' \in [Character -> Job \cup {NoJob}]
    BY DEF JobsTyped
<1>2. ASSUME NEW d \in Character, d # c PROVE PickFits(d)' /\ DealFits(d)'
    <2>1. job'[d] = job[d] /\ PickFits(d) /\ DealFits(d)
        BY <1>2 DEF JobsTyped
    <2>2. PickFits(d)'
        BY <1>2, <2>1 DEF PickFits, Picking, Free
    <2>3. DealFits(d)'
        BY <2>1 DEF DealFits, Free, Dealing, OwnSide, PeerSide
    <2> QED BY <2>2, <2>3
<1> QED
    BY <1>1, <1>2 DEF JobsTyped

\* A handler that ends has nothing to fit.
LEMMA JobEnds ==
    ASSUME JobsTyped, NEW c \in Character, job' = [job EXCEPT ![c] = NoJob],
           \A d \in Character \ {c} : ~Free(d) => live'[d] = live[d]
    PROVE  JobsTyped'
<1>1. job'[c] = NoJob
    BY DEF JobsTyped
<1>2. PickFits(c)' /\ DealFits(c)'
    BY <1>1 DEF PickFits, Picking, DealFits, Dealing, Free
<1> QED
    BY <1>2, OwnJob

\* A deal that only moves on to its next stage still fits.
LEMMA DealAdvances ==
    ASSUME JobsTyped, NEW c \in Character, Dealing(c),
           NEW stage \in {"own", "peer", "apply", "close", "show"}, NEW rows \in Rows,
           job' = [job EXCEPT ![c].stage = stage, ![c].rows = rows],
           \A d \in Character \ {c} : ~Free(d) => live'[d] = live[d]
    PROVE  JobsTyped'
<1>1. /\ ~Free(c) /\ job[c].op \in {"give", "buy", "trade"} /\ job[c] \in PeerJob
    BY JobParts DEF Dealing
<1> DEFINE j == [job[c] EXCEPT !.stage = stage, !.rows = rows]
<1>2. /\ j \in PeerJob /\ j.op = job[c].op /\ j.out = job[c].out /\ j.in = job[c].in
      /\ j.mine = job[c].mine /\ j.theirs = job[c].theirs
    BY <1>1 DEF PeerJob
<1>3. job' = [job EXCEPT ![c] = j] /\ job'[c] = j
    BY DEF JobsTyped
<1>4. PickFits(c)'
    BY <1>1, <1>2, <1>3 DEF PickFits, Picking
<1>5. DealFits(c)'
    BY <1>1, <1>2, <1>3 DEF JobsTyped, DealFits, Dealing, OwnSide, PeerSide
<1> QED
    <2>1. j \in Job \cup {NoJob}
        BY <1>2 DEF Job
    <2> HIDE DEF j
    <2> QED BY <1>3, <1>4, <1>5, <2>1, OwnJob

LEMMA Advances ==
    ASSUME JobsTyped, NEW c \in Character, Dealing(c),
           NEW stage \in {"own", "peer", "apply", "close", "show"}, Advance(c, stage),
           \A d \in Character \ {c} : ~Free(d) => live'[d] = live[d]
    PROVE  JobsTyped'
<1>1. job[c].rows \in Rows /\ job[c] \in PeerJob
    BY JobParts DEF Dealing, PeerJob
<1>2. job' = [job EXCEPT ![c].stage = stage, ![c].rows = job[c].rows]
    BY <1>1 DEF Advance, JobsTyped, PeerJob
<1> QED
    BY <1>1, <1>2, DealAdvances

\* A job of the ground that begins or moves on.
LEMMA GroundJobSet ==
    ASSUME JobsTyped, NEW c \in Character, NEW j \in GroundJob,
           job' = [job EXCEPT ![c] = j],
           (j.op = "pick" /\ j.stage = "save") => Gains(live'[c], {j.item}) \in State,
           \A d \in Character \ {c} : ~Free(d) => live'[d] = live[d]
    PROVE  JobsTyped'
<1>1. job'[c] = j /\ j \in Job \cup {NoJob} /\ j.op \in {"drop", "pick"}
    BY DEF JobsTyped, Job, GroundJob
<1>2. PickFits(c)' /\ DealFits(c)'
    BY <1>1 DEF PickFits, Picking, DealFits, Dealing
<1> QED
    BY <1>1, <1>2, OwnJob

\* Jobs keep their types, and what they carry still fits.
LEMMA JobTypes ==
    ASSUME TypeInv, [Next]_vars
    PROVE  JobsTyped'
<1>0. PlacesTyped /\ FloorTyped /\ JobsTyped
    BY TypeParts
<1> USE <1>0
<1>1. ASSUME UNCHANGED job,
             \A d \in Character : ~Free(d) => live'[d] = live[d]
      PROVE  JobsTyped'
    BY <1>1 DEF JobsTyped, PickFits, Picking, DealFits, Free, Dealing, OwnSide, PeerSide
<1>2. ASSUME NEW c \in Character, InAndOut(c) PROVE JobsTyped'
    <2>1. CASE Leave(c)
        <3>1. ASSUME NEW d \in Character
              PROVE  job'[d] \in Job \cup {NoJob} /\ PickFits(d)' /\ DealFits(d)'
            <4>1. CASE Dealing(d) /\ job[d].peer = c
                <5>1. /\ ~Free(d) /\ job[d].op \in {"give", "buy", "trade"} /\ job[d] \in PeerJob
                    BY <4>1, JobParts DEF Dealing
                <5>2. job'[d] = [job[d] EXCEPT !.there = FALSE]
                    BY <2>1, <4>1 DEF Leave
                <5>3. job'[d] \in PeerJob /\ job'[d].op = job[d].op /\ job'[d].out = job[d].out
                      /\ job'[d].in = job[d].in /\ job'[d].mine = job[d].mine
                      /\ job'[d].theirs = job[d].theirs
                    BY <5>1, <5>2 DEF PeerJob
                <5>4. PickFits(d)'
                    BY <5>1, <5>3 DEF PickFits, Picking
                <5>5. DealFits(d)'
                    BY <5>1, <5>3 DEF JobsTyped, DealFits, Dealing, OwnSide, PeerSide
                <5> QED BY <5>3, <5>4, <5>5 DEF Job
            <4>2. CASE ~(Dealing(d) /\ job[d].peer = c)
                <5>1. job'[d] = job[d] /\ PickFits(d) /\ DealFits(d) /\ job[d] \in Job \cup {NoJob}
                    BY <2>1, <4>2 DEF Leave, JobsTyped
                <5>2. ~Free(d) => live'[d] = live[d]
                    BY <2>1 DEF Leave, PlacesTyped
                <5>3. PickFits(d)'
                    BY <5>1, <5>2 DEF PickFits, Picking, Free
                <5>4. DealFits(d)'
                    BY <5>1 DEF DealFits, Free, Dealing, OwnSide, PeerSide
                <5> QED BY <5>1, <5>3, <5>4
            <4> QED BY <4>1, <4>2
        <3>2. job' = [d \in Character |-> job'[d]]
            BY <2>1 DEF Leave
        <3> QED BY <3>1, <3>2 DEF JobsTyped
    <2>2. CASE Join(c) \/ Fall(c) \/ Revive(c)
        <3>1. UNCHANGED job /\ Free(c)
            BY <2>2 DEF Join, Fall, Revive, Begin
        <3>2. \A d \in Character \ {c} : live'[d] = live[d]
            BY <2>2 DEF Join, Fall, Revive, PlacesTyped
        <3> QED BY <1>1, <3>1, <3>2
    <2> QED BY <1>2, <2>1, <2>2 DEF InAndOut
<1>3. ASSUME Crash PROVE JobsTyped'
    BY <1>3 DEF Crash, JobsTyped, PickFits, Picking, DealFits, Dealing, Free
<1>4. ASSUME NEW c \in Character, OnGround(c) PROVE JobsTyped'
    <2>1. ASSUME NEW i \in Item, NEW v \in Vid, Drop(c, i, v) PROVE JobsTyped'
        <3>1. [op |-> "drop", stage |-> "ground", item |-> i, vid |-> v] \in GroundJob
            BY DEF GroundJob
        <3>2. \A d \in Character \ {c} : live'[d] = live[d]
            BY <2>1 DEF Drop, CommitOwn, PlacesTyped
        <3> QED BY <2>1, <3>1, <3>2, GroundJobSet DEF Drop
    <2>2. ASSUME NEW v \in Vid, PickResolve(c, v) PROVE JobsTyped'
        <3>1. ground[v] \in Handle /\ ground[v].item \in Item
            BY <2>2 DEF PickResolve, FloorTyped, Handle
        <3>2. [op |-> "pick", stage |-> "save", item |-> ground[v].item, vid |-> v] \in GroundJob
            BY <3>1 DEF GroundJob
        <3>3. Gains(live[c], {ground[v].item}) \in State
            BY <2>2, <3>1, GainsType DEF PickResolve, PlacesTyped
        <3> QED BY <2>2, <3>2, <3>3, GroundJobSet DEF PickResolve, people
    <2>3. CASE PickSave(c)
        <3>1. ~Free(c) /\ job[c].op = "pick" /\ job[c] \in GroundJob
            BY <2>3, JobParts DEF PickSave, Picking
        <3> DEFINE j == [job[c] EXCEPT !.stage = "ground"]
        <3>2. j \in GroundJob /\ j.stage = "ground"
            BY <3>1 DEF GroundJob
        <3>3. job' = [job EXCEPT ![c] = j]
            BY <2>3 DEF PickSave
        <3>4. \A d \in Character \ {c} : live'[d] = live[d]
            BY <2>3 DEF PickSave, CommitOwn, PlacesTyped
        <3> HIDE DEF j
        <3> QED BY <3>2, <3>3, <3>4, GroundJobSet
    <2>4. CASE DropRegister(c) \/ PickRefused(c) \/ PickRemove(c)
        BY <2>4, JobEnds DEF DropRegister, PickRefused, PickRemove, people
    <2> QED BY <1>4, <2>1, <2>2, <2>3, <2>4 DEF OnGround
<1>5. ASSUME NEW c \in Character, Giving(c) PROVE JobsTyped'
    <2>1. ASSUME NEW d \in Character, NEW i \in Item, GiveClone(c, d, i) PROVE JobsTyped'
        <3> DEFINE j == [op |-> "give", stage |-> "own", peer |-> d, there |-> TRUE, out |-> {i},
                         in |-> {}, mine |-> live[c], theirs |-> live[d],
                         rows |-> [own |-> row[c], peer |-> row[d]]]
        <3>1. j \in PeerJob
            BY DEF PeerJob, Rows, PlacesTyped
        <3>2. /\ Gains(Loses(live[c], {i}), {}) \in State
              /\ Gains(Loses(live[d], {}), {i}) \in State
            BY <2>1, GiftType DEF GiveClone, PlacesTyped
        <3>3. job'[c] = j /\ job' = [job EXCEPT ![c] = j]
            BY <2>1 DEF GiveClone, JobsTyped
        <3>4. PickFits(c)' /\ DealFits(c)'
            BY <3>2, <3>3 DEF PickFits, Picking, DealFits, OwnSide, PeerSide
        <3>5. \A e \in Character \ {c} : live'[e] = live[e]
            BY <2>1 DEF GiveClone, PlacesTyped
        <3>6. j \in Job \cup {NoJob}
            BY <3>1 DEF Job
        <3> HIDE DEF j
        <3> QED BY <3>3, <3>4, <3>5, <3>6, OwnJob
    <2>2. CASE GiveSaveOwn(c)
        <3>1. Dealing(c) /\ Peer(c) \in Character
            BY <2>2, JobParts DEF GiveSaveOwn, At, Dealing, Peer
        <3>2. [own |-> row[c], peer |-> row[Peer(c)]] \in Rows
            BY <3>1 DEF Rows, PlacesTyped
        <3> QED BY <2>2, <3>1, <3>2, DealAdvances DEF GiveSaveOwn, LoadAndSaveOwn
    <2>3. CASE GiveSavePeer(c) \/ GiveApply(c) \/ GiveClose(c)
        <3>1. Dealing(c)
            BY <2>3 DEF GiveSavePeer, GiveApply, GiveClose, At, Dealing
        <3>2. \A d \in Character \ {c} : ~Free(d) => live'[d] = live[d]
            BY <2>3 DEF GiveSavePeer, GiveApply, GiveClose, PeerReached, PlacesTyped
        <3> QED BY <2>3, <3>1, <3>2, Advances DEF GiveSavePeer, GiveApply, GiveClose
    <2>4. CASE GiveOwnRefused(c) \/ GivePeerRefused(c) \/ GiveApplyRefused(c) \/ ShowOwn(c, "give")
        <3>1. job' = [job EXCEPT ![c] = NoJob]
            BY <2>4 DEF GiveOwnRefused, GivePeerRefused, GiveApplyRefused, ShowOwn, Finish
        <3>2. \A d \in Character \ {c} : live'[d] = live[d]
            BY <2>4 DEF GiveOwnRefused, GivePeerRefused, GiveApplyRefused, ShowOwn, GiverBack,
                        PlacesTyped
        <3> QED BY <3>1, <3>2, JobEnds
    <2> QED BY <1>5, <2>1, <2>2, <2>3, <2>4 DEF Giving
<1>6. ASSUME NEW c \in Character, Shopping(c) PROVE JobsTyped'
    <2>1. ASSUME NEW stock \in SUBSET Item, OpenShop(c, stock) PROVE JobsTyped'
        <3>1. UNCHANGED job /\ Free(c)
            BY <2>1 DEF OpenShop, Begin
        <3>2. \A d \in Character \ {c} : live'[d] = live[d]
            BY <2>1 DEF OpenShop, CommitOwn, PlacesTyped
        <3> QED BY <1>1, <3>1, <3>2
    <2>2. CASE CloseShop(c)
        BY <1>1, <2>2 DEF CloseShop
    <2>3. ASSUME NEW d \in Character, NEW i \in Item, NEW coin \in Coin, BuyResolve(c, d, i, coin)
          PROVE  JobsTyped'
        <3> DEFINE j == [op |-> "buy", stage |-> "own", peer |-> d, there |-> TRUE, out |-> {coin},
                         in |-> {i}, mine |-> seen[c], theirs |-> seen[d],
                         rows |-> [own |-> row[c], peer |-> row[d]]]
        <3>1. j \in PeerJob
            BY CoinAssumption DEF PeerJob, Rows, PlacesTyped
        <3>2. /\ Gains(Loses(seen[c], {coin}), {i}) \in State
              /\ Gains(Loses(seen[d], {i}), {coin}) \in State
            BY <2>3, SaleType DEF BuyResolve, PlacesTyped
        <3>3. job'[c] = j /\ job' = [job EXCEPT ![c] = j]
            BY <2>3 DEF BuyResolve, JobsTyped
        <3>4. PickFits(c)' /\ DealFits(c)'
            BY <3>2, <3>3 DEF PickFits, Picking, DealFits, OwnSide, PeerSide
        <3>5. \A e \in Character \ {c} : live'[e] = live[e]
            BY <2>3 DEF BuyResolve, people
        <3>6. j \in Job \cup {NoJob}
            BY <3>1 DEF Job
        <3> HIDE DEF j
        <3> QED BY <3>3, <3>4, <3>5, <3>6, OwnJob
    <2>4. CASE BuySaveOwn(c)
        <3>1. Dealing(c) /\ Peer(c) \in Character
            BY <2>4, JobParts DEF BuySaveOwn, At, Dealing, Peer
        <3>2. [own |-> row[c], peer |-> row[Peer(c)]] \in Rows
            BY <3>1 DEF Rows, PlacesTyped
        <3> QED BY <2>4, <3>1, <3>2, DealAdvances DEF BuySaveOwn, LoadAndSaveOwn
    <2>5. CASE BuySaveHost(c) \/ BuyApply(c) \/ BuyClose(c)
        <3>1. Dealing(c)
            BY <2>5 DEF BuySaveHost, BuyApply, BuyClose, At, Dealing
        <3>2. \A d \in Character \ {c} : ~Free(d) => live'[d] = live[d]
            BY <2>5 DEF BuySaveHost, BuyApply, BuyClose, PeerReached, PlacesTyped
        <3> QED BY <2>5, <3>1, <3>2, Advances DEF BuySaveHost, BuyApply, BuyClose
    <2>6. CASE BuyOwnRefused(c) \/ BuyHostRefused(c) \/ BuyApplyRefused(c) \/ ShowOwn(c, "buy")
               \/ BuyCloseRefused(c)
        <3>1. job' = [job EXCEPT ![c] = NoJob]
            BY <2>6 DEF BuyOwnRefused, BuyHostRefused, BuyApplyRefused, ShowOwn, BuyCloseRefused,
                        Finish
        <3>2. \A d \in Character \ {c} : ~Free(d) => live'[d] = live[d]
            BY <2>6 DEF BuyOwnRefused, BuyHostRefused, BuyApplyRefused, ShowOwn, BuyCloseRefused,
                        PeerReached, PeerGone, people, PlacesTyped
        <3> QED BY <3>1, <3>2, JobEnds
    <2> QED BY <1>6, <2>1, <2>2, <2>3, <2>4, <2>5, <2>6 DEF Shopping
<1>7. ASSUME NEW c \in Character, Trading(c) PROVE JobsTyped'
    <2>1. ASSUME NEW d \in Character, NEW out \in SUBSET Tradable, NEW in \in SUBSET Tradable,
                 TradePlan(c, d, out, in)
          PROVE  JobsTyped'
        <3> DEFINE j == [op |-> "trade", stage |-> "own", peer |-> d, there |-> TRUE,
                         out |-> out, in |-> in, mine |-> seen[c], theirs |-> seen[d],
                         rows |-> [own |-> row[c], peer |-> row[d]]]
        <3>0. out \in SUBSET Item /\ in \in SUBSET Item
            BY TradableAssumption
        <3>1. j \in PeerJob
            BY <3>0 DEF PeerJob, Rows, PlacesTyped
        <3>2. /\ Gains(Loses(seen[c], out), in) \in State
              /\ Gains(Loses(seen[d], in), out) \in State
            BY <2>1, <3>0, SideType DEF TradePlan, MayTrade, PlacesTyped
        <3>3. job'[c] = j /\ job' = [job EXCEPT ![c] = j]
            BY <2>1 DEF TradePlan, JobsTyped
        <3>4. PickFits(c)' /\ DealFits(c)'
            BY <3>2, <3>3 DEF PickFits, Picking, DealFits, OwnSide, PeerSide
        <3>5. \A e \in Character \ {c} : live'[e] = live[e]
            BY <2>1 DEF TradePlan, people
        <3>6. j \in Job \cup {NoJob}
            BY <3>1 DEF Job
        <3> HIDE DEF j
        <3> QED BY <3>3, <3>4, <3>5, <3>6, OwnJob
    <2>2. CASE TradeSaveOwn(c)
        <3>1. Dealing(c) /\ Peer(c) \in Character
            BY <2>2, JobParts DEF TradeSaveOwn, At, Dealing, Peer
        <3>2. [own |-> row[c], peer |-> row[Peer(c)]] \in Rows
            BY <3>1 DEF Rows, PlacesTyped
        <3> QED BY <2>2, <3>1, <3>2, DealAdvances DEF TradeSaveOwn, LoadAndSaveOwn
    <2>3. CASE TradeSavePeer(c) \/ TradeApply(c)
        <3>1. Dealing(c)
            BY <2>3 DEF TradeSavePeer, TradeApply, At, Dealing
        <3>2. \A d \in Character \ {c} : ~Free(d) => live'[d] = live[d]
            BY <2>3 DEF TradeSavePeer, TradeApply, PeerReached, PlacesTyped
        <3> QED BY <2>3, <3>1, <3>2, Advances DEF TradeSavePeer, TradeApply
    <2>4. CASE TradeOwnRefused(c) \/ TradePeerRefused(c) \/ TradeApplyRefused(c)
               \/ TradeClose(c) \/ TradeCloseRefused(c)
        <3>1. job' = [job EXCEPT ![c] = NoJob]
            BY <2>4 DEF TradeOwnRefused, TradePeerRefused, TradeApplyRefused, TradeClose,
                        TradeCloseRefused, Finish
        <3>2. \A d \in Character \ {c} : ~Free(d) => live'[d] = live[d]
            BY <2>4 DEF TradeOwnRefused, TradePeerRefused, TradeApplyRefused, TradeClose,
                        TradeCloseRefused, PeerReached, PeerGone, people, PlacesTyped
        <3> QED BY <3>1, <3>2, JobEnds
    <2> QED BY <1>7, <2>1, <2>2, <2>3, <2>4 DEF Trading, Shows
<1>9. ASSUME Lying \/ PersistGround PROVE JobsTyped'
    BY <1>1, <1>9 DEF Lying, PersistGround, ReleaseOwnership, Despawn, people
<1>8. ASSUME UNCHANGED vars PROVE JobsTyped'
    BY <1>1, <1>8 DEF vars
<1> QED
    BY <1>2, <1>3, <1>4, <1>5, <1>6, <1>7, <1>8, <1>9 DEF Next

LEMMA TypeInvariant == Spec => []TypeInv
<1>1. Init => TypeInv
    BY NobodyType DEF Init, TypeInv, TypeOK, PickFits, DealFits, Dealing, Picking, Free
<1>2. TypeInv /\ [Next]_vars => TypeInv'
    <2>1. TypeInv' <=> PlacesTyped' /\ FloorTyped' /\ JobsTyped'
        BY DEF TypeInv, TypeOK, PlacesTyped, FloorTyped, JobsTyped
    <2> QED BY <2>1, PlaceTypes, FloorTypes, JobTypes
<1> QED
    BY <1>1, <1>2, PTL DEF Spec

\* Every reachable state is well typed and no bag ever holds more items than it has
\* cells, whatever overlaps and whatever fails: a handler that adds to another
\* character's bag (a give, a purchase, a trade) checks the room on a copy, and it
\* is the copy it saves and applies.
THEOREM ItemWorldTypeCorrect == Spec => []TypeOK
<1>1. TypeInv => TypeOK
    BY DEF TypeInv
<1> QED
    BY <1>1, TypeInvariant, PTL

-----------------------------------------------------------------------------
(* The ground, the sessions and the file.                                  *)

\* In the file no handle is bound: a restart finds no session.
FileUnbound == \A v \in Vid : file[v] # NoHandle => ~file[v].bound

FloorInv == FloorTyped /\ BoundWhilePresent /\ FileIsGround /\ FileUnbound

\* A step that leaves the ground and who is there alone disturbs nothing.
LEMMA FloorLeftAlone ==
    ASSUME FloorInv, UNCHANGED <<here, floor>>
    PROVE  FloorInv'
BY DEF FloorInv, FloorTyped, BoundWhilePresent, FileIsGround, FileUnbound, Durable, floor

\* A handle recorded as durable is recorded without its session.
LEMMA DurableUnbound ==
    ASSUME NEW h \in Handle
    PROVE  /\ Durable(h) \in Handle /\ ~Durable(h).bound
           /\ Durable(Durable(h)) = Durable(h)
           /\ ~h.bound => Durable(h) = h
           /\ \A b \in BOOLEAN : /\ Durable([h EXCEPT !.bound = b]) = Durable(h)
                               /\ Durable([h EXCEPT !.exclusive = b]) = [Durable(h) EXCEPT !.exclusive = b]
BY NullAssumption DEF Durable, Handle

\* The handles that differ from those of the file in being bound at most.
LEMMA SameDurable ==
    ASSUME FloorInv, FloorTyped', UNCHANGED <<file, unsaved>>,
           \A v \in Vid : Durable(ground[v])' = Durable(ground[v])
    PROVE  FileIsGround' /\ FileUnbound'
<1>1. [v \in Vid |-> Durable(ground[v])]' = [v \in Vid |-> Durable(ground[v])]
    OBVIOUS
<1> QED
    BY <1>1 DEF FloorInv, FileIsGround, FileUnbound

\* Coming and going.
LEMMA FloorInAndOut ==
    ASSUME FloorInv, FloorTyped', NEW c \in Character, Join(c) \/ Leave(c)
    PROVE  FloorInv'
<1>1. CASE Join(c)
    <2>1. \A v \in Vid : ground'[v] \in {ground[v], [ground[v] EXCEPT !.bound = TRUE]}
                        /\ (ground'[v] = NoHandle <=> ground[v] = NoHandle)
        BY <1>1, NullAssumption DEF Join, Rebound, FloorInv, FloorTyped, Handle
    <2>2. ASSUME NEW v \in Vid PROVE Durable(ground'[v]) = Durable(ground[v])
        <3>1. CASE ground[v] = NoHandle
            BY <2>1, <3>1
        <3>2. CASE ground[v] # NoHandle
            <4>1. ground[v] \in Handle
                BY <3>2 DEF FloorInv, FloorTyped
            <4> QED BY <2>1, <4>1, DurableUnbound
        <3> QED BY <3>1, <3>2
    <2>3. FileIsGround' /\ FileUnbound'
        BY <1>1, <2>2, SameDurable DEF Join
    <2>4. BoundWhilePresent'
        BY <1>1 DEF Join, Rebound, FloorInv, FloorTyped, BoundWhilePresent, Handle
    <2> QED BY <2>3, <2>4 DEF FloorInv
<1>2. CASE Leave(c) /\ seen[c].down
    <2>1. ground' = Parked(c) /\ UNCHANGED <<file, unsaved>> /\ here' = here \ {c}
        BY <1>2 DEF Leave, FloorInv, FloorTyped
    <2>2. \A v \in Vid : ground'[v] \in {ground[v], [ground[v] EXCEPT !.bound = FALSE]}
                        /\ (ground'[v] = NoHandle <=> ground[v] = NoHandle)
        BY <2>1, NullAssumption DEF Parked, BoundTo, FloorInv, FloorTyped, Handle
    <2>3. ASSUME NEW v \in Vid PROVE Durable(ground'[v]) = Durable(ground[v])
        <3>1. CASE ground[v] = NoHandle
            BY <2>2, <3>1
        <3>2. CASE ground[v] # NoHandle
            <4>1. ground[v] \in Handle
                BY <3>2 DEF FloorInv, FloorTyped
            <4> QED BY <2>2, <4>1, DurableUnbound
        <3> QED BY <3>1, <3>2
    <2>4. FileIsGround' /\ FileUnbound'
        BY <2>1, <2>3, SameDurable
    <2>5. BoundWhilePresent'
        BY <2>1 DEF Parked, BoundTo, FloorInv, FloorTyped, BoundWhilePresent, Handle
    <2> QED BY <2>4, <2>5 DEF FloorInv
<1>3. CASE Leave(c) /\ ~seen[c].down
    <2>1. /\ ground' = Removed(c) /\ here' = here \ {c} /\ UNCHANGED file
          /\ unsaved' = (unsaved \/ BoundTo(c) # {})
        BY <1>3 DEF Leave
    <2>2. BoundWhilePresent'
        BY <2>1 DEF Removed, BoundTo, FloorInv, FloorTyped, BoundWhilePresent
    <2>3. FileUnbound'
        BY <2>1 DEF FileUnbound, FloorInv
    <2>4. FileIsGround'
        <3>1. CASE unsaved'
            BY <3>1 DEF FileIsGround
        <3>2. CASE ~unsaved'
            <4>1. BoundTo(c) = {} /\ ~unsaved
                BY <2>1, <3>2
            <4>2. ground' = ground
                BY <2>1, <4>1 DEF Removed, FloorInv, FloorTyped
            <4> QED BY <2>1, <4>1, <4>2 DEF FileIsGround, FloorInv
        <3> QED BY <3>1, <3>2
    <2> QED BY <2>2, <2>3, <2>4 DEF FloorInv
<1> QED
    BY <1>1, <1>2, <1>3

\* A restart.
LEMMA FloorCrash ==
    ASSUME FloorInv, FloorTyped', Crash
    PROVE  FloorInv'
<1>1. PICK expired \in SUBSET Vid, released \in SUBSET Vid :
          file' = [v \in Vid |-> IF file[v] = NoHandle \/ v \in expired THEN NoHandle
                                 ELSE [file[v] EXCEPT !.exclusive = @ /\ v \notin released]]
    BY DEF Crash
<1>2. FileUnbound'
    <2>1. ASSUME NEW v \in Vid, file'[v] # NoHandle PROVE ~file'[v].bound
        <3>1. file[v] # NoHandle /\ file[v] \in Handle
            BY <1>1, <2>1 DEF FloorInv, FloorTyped
        <3>2. file'[v] = [file[v] EXCEPT !.exclusive = @ /\ v \notin released]
            BY <1>1, <2>1
        <3>3. file'[v].bound = file[v].bound
            BY <3>1, <3>2 DEF Handle
        <3> QED BY <3>1, <3>3 DEF FloorInv, FileUnbound
    <2> QED BY <2>1 DEF FileUnbound
<1>3. ground' = file' /\ here' = {}
    BY DEF Crash
<1>4. BoundWhilePresent'
    BY <1>2, <1>3 DEF BoundWhilePresent, FileUnbound
<1>5. FileIsGround'
    <2>1. ASSUME NEW v \in Vid PROVE Durable(ground'[v]) = file'[v]
        <3>1. CASE file'[v] = NoHandle
            BY <1>3, <3>1 DEF Durable
        <3>2. CASE file'[v] # NoHandle
            <4>1. file'[v] \in Handle /\ ~file'[v].bound
                BY <1>2, <3>2 DEF FileUnbound, FloorTyped
            <4> QED BY <1>3, <4>1, DurableUnbound
        <3> QED BY <3>1, <3>2
    <2>2. file' = [v \in Vid |-> Durable(ground'[v])]
        BY <2>1 DEF FloorTyped
    <2> QED BY <2>2 DEF FileIsGround
<1> QED
    BY <1>2, <1>4, <1>5 DEF FloorInv

\* The clock of a handle, and the hook.
LEMMA FloorClock ==
    ASSUME FloorInv, FloorTyped', Lying \/ PersistGround
    PROVE  FloorInv'
<1>1. ASSUME NEW v \in Vid, Despawn(v) PROVE FloorInv'
    <2>1. FileIsGround' /\ FileUnbound'
        BY <1>1 DEF Despawn, FloorInv, FloorTyped, FileIsGround, FileUnbound
    <2>2. BoundWhilePresent'
        BY <1>1 DEF Despawn, people, FloorInv, FloorTyped, BoundWhilePresent
    <2> QED BY <2>1, <2>2 DEF FloorInv
<1>2. ASSUME NEW v \in Vid, ReleaseOwnership(v) PROVE FloorInv'
    <2>1. ground[v] \in Handle /\ ground[v] # NoHandle /\ UNCHANGED here
        BY <1>2 DEF ReleaseOwnership, FloorInv, FloorTyped, people
    <2>2. /\ ground'[v] = [ground[v] EXCEPT !.exclusive = FALSE]
          /\ \A w \in Vid \ {v} : ground'[w] = ground[w] /\ file'[w] = file[w]
          /\ file'[v] = IF file[v] = NoHandle THEN NoHandle ELSE [file[v] EXCEPT !.exclusive = FALSE]
        BY <1>2 DEF ReleaseOwnership, FloorInv, FloorTyped
    <2>3. ground'[v].owner = ground[v].owner /\ ground'[v].bound = ground[v].bound
            /\ ~ground'[v].exclusive
        BY <2>1, <2>2 DEF Handle
    <2>4. BoundWhilePresent'
        BY <2>1, <2>2, <2>3 DEF FloorInv, BoundWhilePresent
    <2>5. FileUnbound'
        <3>1. file[v] # NoHandle => file[v] \in Handle /\ ~file[v].bound
            BY DEF FloorInv, FloorTyped, FileUnbound
        <3>2. file'[v] # NoHandle => ~file'[v].bound
            BY <2>2, <3>1 DEF Handle
        <3> QED BY <2>2, <3>2 DEF FloorInv, FileUnbound
    <2>6. FileIsGround'
        <3>1. CASE unsaved'
            BY <3>1 DEF FileIsGround
        <3>2. CASE ~unsaved'
            <4>1. ~unsaved
                BY <1>2, <3>2 DEF ReleaseOwnership
            <4>2. file = [w \in Vid |-> Durable(ground[w])]
                BY <4>1 DEF FloorInv, FileIsGround
            <4>3. file[v] = Durable(ground[v]) /\ file[v] # NoHandle
                BY <2>1, <4>2, DurableUnbound, NullAssumption
            <4>4. file'[v] = Durable(ground'[v])
              <5>1. Durable([ground[v] EXCEPT !.exclusive = FALSE])
                      = [Durable(ground[v]) EXCEPT !.exclusive = FALSE]
                  BY <2>1, DurableUnbound
              <5>2. file'[v] = [file[v] EXCEPT !.exclusive = FALSE]
                  BY <2>2, <4>3
              <5> QED BY <2>2, <4>3, <5>1, <5>2
            <4>5. \A w \in Vid : file'[w] = Durable(ground'[w])
                BY <2>2, <4>2, <4>4
            <4>6. file' = [w \in Vid |-> Durable(ground'[w])]
                BY <4>5 DEF FloorTyped
            <4> QED BY <4>6 DEF FileIsGround
        <3> QED BY <3>1, <3>2
    <2> QED BY <2>4, <2>5, <2>6 DEF FloorInv
<1>3. ASSUME PersistGround PROVE FloorInv'
    <2>1. file' = [v \in Vid |-> Durable(ground'[v])] /\ UNCHANGED <<here, ground>>
        BY <1>3 DEF PersistGround, people
    <2>2. FileUnbound'
        <3>1. ASSUME NEW v \in Vid, file'[v] # NoHandle PROVE ~file'[v].bound
            <4>1. ground'[v] \in Handle
                BY <2>1, <3>1 DEF FloorTyped, Durable
            <4> QED BY <2>1, <4>1, DurableUnbound
        <3> QED BY <3>1 DEF FileUnbound
    <2> QED BY <2>1, <2>2 DEF FloorInv, BoundWhilePresent, FileIsGround
<1> QED
    BY <1>1, <1>2, <1>3 DEF Lying

\* Dropping and picking up.
LEMMA FloorOnGround ==
    ASSUME FloorInv, FloorTyped', NEW c \in Character, OnGround(c)
    PROVE  FloorInv'
<1>1. CASE DropRegister(c)
    <2>1. UNCHANGED <<here, file>>
        BY <1>1 DEF DropRegister, people
    <2>2. CASE UNCHANGED <<ground, unsaved>>
        BY <2>1, <2>2, FloorLeftAlone DEF floor
    <2>3. CASE ~UNCHANGED <<ground, unsaved>>
        <3>1. /\ c \in here /\ unsaved' = TRUE
              /\ ground' = [ground EXCEPT ![job[c].vid] =
                   [item |-> job[c].item, owner |-> c, exclusive |-> TRUE, bound |-> TRUE]]
            BY <1>1, <2>3 DEF DropRegister, Playing
        <3>2. BoundWhilePresent'
            BY <2>1, <3>1 DEF FloorInv, FloorTyped, BoundWhilePresent
        <3> QED BY <2>1, <3>1, <3>2 DEF FloorInv, FileIsGround, FileUnbound
    <2> QED BY <2>2, <2>3
<1>2. CASE PickRemove(c)
    <2>1. UNCHANGED <<here, file>>
        BY <1>2 DEF PickRemove, people
    <2>2. CASE UNCHANGED <<ground, unsaved>>
        BY <2>1, <2>2, FloorLeftAlone DEF floor
    <2>3. CASE ~UNCHANGED <<ground, unsaved>>
        <3>1. unsaved' = TRUE /\ ground' = [ground EXCEPT ![job[c].vid] = NoHandle]
            BY <1>2, <2>3 DEF PickRemove
        <3>2. BoundWhilePresent'
            BY <2>1, <3>1 DEF FloorInv, FloorTyped, BoundWhilePresent
        <3> QED BY <2>1, <3>1, <3>2 DEF FloorInv, FileIsGround, FileUnbound
    <2> QED BY <2>2, <2>3
<1>3. UNCHANGED <<here, floor>> \/ DropRegister(c) \/ PickRemove(c)
    BY DEF OnGround, Drop, PickResolve, PickSave, PickRefused, people
<1> QED
    BY <1>1, <1>2, <1>3, FloorLeftAlone

LEMMA FloorInvariant == Spec => []FloorInv
<1>1. Init => FloorInv
    BY NullAssumption DEF Init, FloorInv, FloorTyped, BoundWhilePresent, FileIsGround, FileUnbound,
                          Durable
<1>2. TypeInv /\ FloorInv /\ [Next]_vars => FloorInv'
    <2> SUFFICES ASSUME TypeInv, FloorInv, [Next]_vars PROVE FloorInv'
        OBVIOUS
    <2>1. FloorTyped'
        BY FloorTypes
    <2>2. ASSUME NEW c \in Character, OnGround(c) PROVE FloorInv'
        BY <2>1, <2>2, FloorOnGround
    <2>3. ASSUME NEW c \in Character, Giving(c) PROVE FloorInv'
        <3>1. UNCHANGED <<here, floor>>
            BY <2>3 DEF Giving, GiveClone, GiveSaveOwn, GiveOwnRefused, GiveSavePeer,
                        GivePeerRefused, GiveApply, GiveApplyRefused, GiveClose, ShowOwn
        <3> QED BY <3>1, FloorLeftAlone
    <2>4. ASSUME NEW c \in Character, Shopping(c) PROVE FloorInv'
        <3>1. UNCHANGED <<here, floor>>
            BY <2>4 DEF Shopping, OpenShop, CloseShop, BuyResolve, BuySaveOwn, BuyOwnRefused,
                        BuySaveHost, BuyHostRefused, BuyApply, BuyApplyRefused, BuyClose,
                        BuyCloseRefused, ShowOwn, people
        <3> QED BY <3>1, FloorLeftAlone
    <2>5. ASSUME NEW c \in Character, Trading(c) PROVE FloorInv'
        <3>1. UNCHANGED <<here, floor>>
            BY <2>5 DEF Trading, TradePlan, TradeSaveOwn, TradeOwnRefused, TradeSavePeer,
                        TradePeerRefused, TradeApply, TradeApplyRefused, TradeClose,
                        TradeCloseRefused, people
        <3> QED BY <3>1, FloorLeftAlone
    <2>6. ASSUME NEW c \in Character, InAndOut(c) PROVE FloorInv'
        <3>1. UNCHANGED <<here, floor>> \/ Join(c) \/ Leave(c)
            BY <2>6 DEF InAndOut, Fall, Revive
        <3> QED BY <2>1, <3>1, FloorLeftAlone, FloorInAndOut
    <2>7. ASSUME Lying \/ PersistGround PROVE FloorInv'
        BY <2>1, <2>7, FloorClock
    <2>8. ASSUME Crash PROVE FloorInv'
        BY <2>1, <2>8, FloorCrash
    <2>9. ASSUME UNCHANGED vars PROVE FloorInv'
        BY <2>9, FloorLeftAlone DEF vars, floor
    <2> QED BY <2>2, <2>3, <2>4, <2>5, <2>6, <2>7, <2>8, <2>9 DEF Next
<1> QED
    BY <1>1, <1>2, TypeInvariant, PTL DEF Spec

\* A handle knows its owner's session exactly while that matters, through any
\* sequence of drops, deaths, departures, restarts and returns.
THEOREM OwnersKeepTheirHandles == Spec => []BoundWhilePresent
<1>1. FloorInv => BoundWhilePresent
    BY DEF FloorInv
<1> QED
    BY <1>1, FloorInvariant, PTL

\* When no hook is pending and none was refused, a restart finds exactly the
\* handles that lie on the ground.
THEOREM FileKeepsTheGround == Spec => []FileIsGround
<1>1. FloorInv => FileIsGround
    BY DEF FloorInv
<1> QED
    BY <1>1, FloorInvariant, PTL
=============================================================================
