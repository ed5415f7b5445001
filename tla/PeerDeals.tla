----------------------------- MODULE PeerDeals -----------------------------
(***************************************************************************)
(* Handlers that change two characters: ITEM_GIVE (applyVisiblePlayerItem- *)
(* Give), a purchase in another player's private shop (applyMyShopGuest-   *)
(* Buy) and the second accept of a trade (applyExchangeFinalize).  All     *)
(* compute the two new characters from copies, save the two accounts one   *)
(* after the other, overwrite the peer's runtime and then the shared       *)
(* world's copies; what fails on the way is undone by saving the rows that *)
(* were loaded before.                                                     *)
(*                                                                         *)
(* A give copies the runtimes, the others the shared world's characters.   *)
(* Reading or overwriting a peer's runtime takes the peer's stateMu, so it *)
(* waits for the peer's own handler.                                       *)
(***************************************************************************)
EXTENDS Custody

At(c, op, stage) == ~Free(c) /\ job[c].op = op /\ job[c].stage = stage
Peer(c) == job[c].peer

\* The two characters the deal of c is to end with.
OwnSide(c) == Gains(Loses(job[c].mine, job[c].out), job[c].in)
PeerSide(c) == Gains(Loses(job[c].theirs, job[c].in), job[c].out)

Advance(c, stage) == job' = [job EXCEPT ![c].stage = stage]
Finish(c) == job' = [job EXCEPT ![c] = NoJob]

\* Both accounts are loaded just before the first save.
LoadAndSaveOwn(c, state) ==
    /\ row' = [row EXCEPT ![c] = state]
    /\ job' = [job EXCEPT ![c].stage = "peer",
                          ![c].rows = [own |-> row[c], peer |-> row[Peer(c)]]]

\* Fault: only the second save is undone.
UndoPeerOnly(c) == row' = [row EXCEPT ![Peer(c)] = job[c].rows.peer]

\* Best effort: each of the two saves that undo the deal may fail.  The saves,
\* and the copies a refused purchase or trade then puts back, are one action:
\* half of an undo can stay (RestoreFails), but nobody runs between its halves.
UndoBoth(c) ==
    \E done \in SUBSET Parties(c) :
        /\ RestoreFails \/ done = Parties(c)
        /\ row' = [d \in Character |->
                     IF d \notin done THEN row[d]
                     ELSE IF d = c THEN job[c].rows.own ELSE job[c].rows.peer]

UndoOwn(c) ==
    \/ row' = [row EXCEPT ![c] = job[c].rows.own]
    \/ RestoreFails /\ UNCHANGED row

\* The peer's stateMu and its registered name.
PeerReached(c) == Peer(c) \in here /\ Free(Peer(c))
PeerGone(c) == Peer(c) \notin here

\* The last step of a give and of a purchase: the shared world's copy of c.
ShowOwn(c, op) ==
    /\ At(c, op, "show")
    /\ seen' = [seen EXCEPT ![c] = live[c]]
    /\ Finish(c)
    /\ UNCHANGED <<here, row, live, shop, floor>>

-----------------------------------------------------------------------------
(* ITEM_GIVE.                                                              *)

GiveClone(c, d, i) ==
    /\ d # c /\ Playing(c) /\ shop[c] = {} /\ Begin(c, {d}, {i})
    /\ d \in here /\ ~seen[d].down
    /\ Free(d) /\ ~live[d].down
    /\ i \in live[c].bag \ Coin /\ Room(live[d], i)
    /\ live' = [live EXCEPT ![c] = Loses(@, {i})]
    /\ job' = [job EXCEPT ![c] =
         [op |-> "give", stage |-> "own", peer |-> d, there |-> TRUE, out |-> {i}, in |-> {},
          mine |-> live[c], theirs |-> live[d], rows |-> [own |-> row[c], peer |-> row[d]]]]
    /\ UNCHANGED <<here, row, seen, shop, floor>>

GiveSaveOwn(c) ==
    /\ At(c, "give", "own")
    /\ LoadAndSaveOwn(c, [row[c] EXCEPT !.bag = live[c].bag])
    /\ UNCHANGED <<here, live, seen, shop, floor>>

GiverBack(c) == live' = [live EXCEPT ![c] = job[c].mine]

GiveOwnRefused(c) ==
    /\ At(c, "give", "own") /\ StoreFails
    /\ GiverBack(c) /\ Finish(c)
    /\ UNCHANGED <<here, row, seen, shop, floor>>

GiveSavePeer(c) ==
    /\ At(c, "give", "peer")
    /\ row' = [row EXCEPT ![Peer(c)] = PeerSide(c)]
    /\ Advance(c, "apply")
    /\ UNCHANGED <<here, live, seen, shop, floor>>

GivePeerRefused(c) ==
    /\ At(c, "give", "peer") /\ StoreFails
    /\ UndoOwn(c) /\ GiverBack(c) /\ Finish(c)
    /\ UNCHANGED <<here, seen, shop, floor>>

GiveApply(c) ==
    /\ At(c, "give", "apply") /\ PeerReached(c)
    /\ live' = [live EXCEPT ![Peer(c)] = PeerSide(c)]
    /\ Advance(c, "close")
    /\ UNCHANGED <<here, row, seen, shop, floor>>

GiveApplyRefused(c) ==
    /\ At(c, "give", "apply") /\ PeerGone(c)
    /\ UndoBoth(c) /\ GiverBack(c) /\ Finish(c)
    /\ UNCHANGED <<here, seen, shop, floor>>

\* Fault: the shared world keeps its old copy of the receiver.
GiveCloseUnseen(c) ==
    /\ At(c, "give", "close")
    /\ Advance(c, "show")
    /\ UNCHANGED <<people, floor>>

\* An entity that has left is not updated.
GiveClose(c) ==
    /\ At(c, "give", "close")
    /\ seen' = [seen EXCEPT ![Peer(c)] = IF job[c].there THEN PeerSide(c) ELSE @]
    /\ Advance(c, "show")
    /\ UNCHANGED <<here, row, live, shop, floor>>

-----------------------------------------------------------------------------
(* The private shop.                                                       *)

\* The stock is open to all at once; opening may cost a shop bag, which saves
\* the owner and refreshes the shared world's copy.
OpenShop(c, stock) ==
    /\ stock # {} /\ stock \subseteq live[c].bag \ Coin
    /\ Playing(c) /\ shop[c] = {} /\ Begin(c, {}, stock)
    /\ shop' = [shop EXCEPT ![c] = stock]
    /\ \/ UNCHANGED <<row, live, seen>>
       \/ CommitOwn(c, live[c].bag)
    /\ UNCHANGED <<here, floor, job>>

CloseShop(c) ==
    /\ Free(c) /\ shop[c] # {}
    /\ shop' = [shop EXCEPT ![c] = {}]
    /\ UNCHANGED <<here, row, live, seen, floor, job>>

BuyResolve(c, d, i, coin) ==
    /\ d # c /\ i \in shop[d] \cap seen[d].bag
    /\ Playing(c) /\ Begin(c, {d}, {i, coin})
    /\ d \in here /\ ~seen[d].down
    /\ coin \in Coin \cap seen[c].bag /\ Room(seen[c], i)
    /\ job' = [job EXCEPT ![c] =
         [op |-> "buy", stage |-> "own", peer |-> d, there |-> TRUE, out |-> {coin}, in |-> {i},
          mine |-> seen[c], theirs |-> seen[d], rows |-> [own |-> row[c], peer |-> row[d]]]]
    /\ UNCHANGED <<people, floor>>

BuySaveOwn(c) ==
    /\ At(c, "buy", "own")
    /\ LoadAndSaveOwn(c, OwnSide(c))
    /\ UNCHANGED <<here, live, seen, shop, floor>>

BuyOwnRefused(c) ==
    /\ At(c, "buy", "own") /\ StoreFails
    /\ Finish(c)
    /\ UNCHANGED <<people, floor>>

BuySaveHost(c) ==
    /\ At(c, "buy", "peer")
    /\ row' = [row EXCEPT ![Peer(c)] = PeerSide(c)]
    /\ Advance(c, "apply")
    /\ UNCHANGED <<here, live, seen, shop, floor>>

BuyHostRefused(c) ==
    /\ At(c, "buy", "peer") /\ StoreFails
    /\ UndoOwn(c) /\ Finish(c)
    /\ UNCHANGED <<here, live, seen, shop, floor>>

BuyApply(c) ==
    /\ At(c, "buy", "apply") /\ PeerReached(c)
    /\ live' = [live EXCEPT ![c] = OwnSide(c), ![Peer(c)] = PeerSide(c)]
    /\ Advance(c, "close")
    /\ UNCHANGED <<here, row, seen, shop, floor>>

BuyApplyRefused(c) ==
    /\ At(c, "buy", "apply") /\ PeerGone(c)
    /\ UndoBoth(c)
    /\ live' = [live EXCEPT ![c] = job[c].mine]
    /\ Finish(c)
    /\ UNCHANGED <<here, seen, shop, floor>>

StillOffered(c) == job[c].there /\ job[c].in \subseteq shop[Peer(c)]

BuyClose(c) ==
    /\ At(c, "buy", "close") /\ StillOffered(c)
    /\ shop' = [shop EXCEPT ![Peer(c)] = @ \ job[c].in]
    /\ seen' = [seen EXCEPT ![Peer(c)] = PeerSide(c)]
    /\ Advance(c, "show")
    /\ UNCHANGED <<here, row, live, floor>>

BuyCloseRefused(c) ==
    /\ At(c, "buy", "close") /\ ~StillOffered(c)
    /\ PeerReached(c) \/ PeerGone(c)
    /\ UndoBoth(c)
    /\ live' = [d \in Character |-> IF d = c THEN job[c].mine
                                    ELSE IF d = Peer(c) /\ d \in here THEN job[c].theirs
                                    ELSE live[d]]
    /\ Finish(c)
    /\ UNCHANGED <<here, seen, shop, floor>>

-----------------------------------------------------------------------------
(* The account side of a trade.  The shell itself is TradeShell's; here a  *)
(* second accept finds any two players who show anything they have.        *)

\* The room is asked for on top of what the bag holds, before it gives anything.
Takes(s, things) ==
    /\ (things \ Coin) \cap s.bag = {}
    /\ Cardinality((s.bag \cup things) \ Coin) <= BagSize

\* What c may have put on display.
Shows(c) == SUBSET (Tradable \cap seen[c].bag)

MayTrade(c, d, out, in) ==
    /\ c \in here /\ d \in here /\ ~seen[c].down /\ ~seen[d].down
    /\ shop[c] = {} /\ shop[d] = {}
    /\ out \subseteq seen[c].bag /\ in \subseteq seen[d].bag
    /\ Takes(seen[d], out) /\ Takes(seen[c], in)

TradePlan(c, d, out, in) ==
    /\ Free(c) /\ Playing(c) /\ d # c /\ MayTrade(c, d, out, in)
    /\ Begin(c, {d}, out \cup in)
    /\ job' = [job EXCEPT ![c] =
         [op |-> "trade", stage |-> "own", peer |-> d, there |-> TRUE, out |-> out, in |-> in,
          mine |-> seen[c], theirs |-> seen[d], rows |-> [own |-> row[c], peer |-> row[d]]]]
    /\ UNCHANGED <<people, floor>>

TradeSaveOwn(c) ==
    /\ At(c, "trade", "own")
    /\ LoadAndSaveOwn(c, OwnSide(c))
    /\ UNCHANGED <<here, live, seen, shop, floor>>

\* The save is refused, or the partner's login is not registered any more.
TradeOwnRefused(c) ==
    /\ At(c, "trade", "own") /\ (StoreFails \/ PeerGone(c))
    /\ Finish(c)
    /\ UNCHANGED <<people, floor>>

TradeSavePeer(c) ==
    /\ At(c, "trade", "peer")
    /\ row' = [row EXCEPT ![Peer(c)] = PeerSide(c)]
    /\ Advance(c, "apply")
    /\ UNCHANGED <<here, live, seen, shop, floor>>

\* Fault: the first account is not restored.
TradePeerRefusedKeep(c) ==
    /\ At(c, "trade", "peer") /\ StoreFails
    /\ Finish(c)
    /\ UNCHANGED <<people, floor>>

TradePeerRefused(c) ==
    /\ At(c, "trade", "peer") /\ StoreFails
    /\ UndoOwn(c) /\ Finish(c)
    /\ UNCHANGED <<here, live, seen, shop, floor>>

TradeApply(c) ==
    /\ At(c, "trade", "apply") /\ PeerReached(c)
    /\ live' = [live EXCEPT ![c] = OwnSide(c), ![Peer(c)] = PeerSide(c)]
    /\ Advance(c, "close")
    /\ UNCHANGED <<here, row, seen, shop, floor>>

TradeApplyRefused(c) ==
    /\ At(c, "trade", "apply") /\ PeerGone(c)
    /\ UndoBoth(c)
    /\ live' = [live EXCEPT ![c] = job[c].mine]
    /\ Finish(c)
    /\ UNCHANGED <<here, seen, shop, floor>>

\* CommitExchangeFinalize asks again what the plan was made for.
TradeClose(c) ==
    /\ At(c, "trade", "close")
    /\ job[c].there /\ MayTrade(c, Peer(c), job[c].out, job[c].in)
    /\ seen' = [seen EXCEPT ![c] = OwnSide(c), ![Peer(c)] = PeerSide(c)]
    /\ Finish(c)
    /\ UNCHANGED <<here, row, live, shop, floor>>

\* It refuses as well when the shell has been closed or a window opened since.
TradeCloseRefused(c) ==
    /\ At(c, "trade", "close")
    /\ PeerReached(c) \/ PeerGone(c)
    /\ UndoBoth(c)
    /\ live' = [d \in Character |-> IF d = c THEN job[c].mine
                                    ELSE IF d = Peer(c) /\ d \in here THEN job[c].theirs
                                    ELSE live[d]]
    /\ Finish(c)
    /\ UNCHANGED <<here, seen, shop, floor>>
=============================================================================
