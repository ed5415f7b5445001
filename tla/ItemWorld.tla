----------------------------- MODULE ItemWorld -----------------------------
(***************************************************************************)
(* Every way an item changes hands, and what must hold of where the items  *)
(* are.  See Custody.                                                      *)
(***************************************************************************)
EXTENDS GroundItems, PeerDeals

OnGround(c) ==
    \/ \E i \in Item, v \in Vid : Drop(c, i, v)
    \/ DropRegister(c)
    \/ \E v \in Vid : PickResolve(c, v)
    \/ PickSave(c) \/ PickRefused(c) \/ PickRemove(c)

Giving(c) ==
    \/ \E d \in Character, i \in Item : GiveClone(c, d, i)
    \/ GiveSaveOwn(c) \/ GiveOwnRefused(c)
    \/ GiveSavePeer(c) \/ GivePeerRefused(c)
    \/ GiveApply(c) \/ GiveApplyRefused(c)
    \/ GiveClose(c) \/ ShowOwn(c, "give")

Shopping(c) ==
    \/ \E stock \in SUBSET Item : OpenShop(c, stock)
    \/ CloseShop(c)
    \/ \E d \in Character, i \in Item, coin \in Coin : BuyResolve(c, d, i, coin)
    \/ BuySaveOwn(c) \/ BuyOwnRefused(c)
    \/ BuySaveHost(c) \/ BuyHostRefused(c)
    \/ BuyApply(c) \/ BuyApplyRefused(c)
    \/ BuyClose(c) \/ BuyCloseRefused(c) \/ ShowOwn(c, "buy")

Trading(c) ==
    \/ \E d \in Character \ {c} : \E out \in Shows(c), in \in Shows(d) :
          TradePlan(c, d, out, in)
    \/ TradeSaveOwn(c) \/ TradeOwnRefused(c)
    \/ TradeSavePeer(c) \/ TradePeerRefused(c)
    \/ TradeApply(c) \/ TradeApplyRefused(c)
    \/ TradeClose(c) \/ TradeCloseRefused(c)

InAndOut(c) == Join(c) \/ Leave(c) \/ Fall(c) \/ Revive(c)

Lying == \E v \in Vid : ReleaseOwnership(v) \/ Despawn(v)

Next ==
    \/ \E c \in Character :
          OnGround(c) \/ Giving(c) \/ Shopping(c) \/ Trading(c) \/ InAndOut(c)
    \/ Lying \/ PersistGround
    \/ Crash

Spec == Init /\ [][Next]_vars

-----------------------------------------------------------------------------
(* Properties.                                                             *)

Handled(i) == \E c \in Character : i \in Things(c)
Holders(i) == {c \in Character : i \in row[c].bag}
Kept(i) ==
    Holders(i) # {} \/ \E c \in Character : i \in Things(c) /\ job[c].op # "pick"
Spots(i) == {v \in Vid : ground[v] # NoHandle /\ ground[v].item = i}

\* An item no handler is working on is in one account row at most, or under one
\* handle, and never in both: drops, pickups, gives, sales and trades, with saves
\* that fail, players that leave in between and restarts, never duplicate it.
OneHolder ==
    \A i \in Item : ~Handled(i) => Cardinality(Holders(i)) + Cardinality(Spots(i)) <= 1

\* "Whole-stack drops remove the carried item [and] persist the selected character
\* snapshot": an item on the ground that no handler is working on is in no row.
DropRemoves ==
    \A v \in Vid : (ground[v] # NoHandle /\ ~Handled(ground[v].item)) =>
        Holders(ground[v].item) = {}

\* What a character or a handler holds is never lost: after each step it is in a
\* row, on the ground or in the hands of a handler.  (A pickup holds nothing: the
\* item is on the ground until it is saved, and may despawn or leave before.)
NothingVanishes ==
    [][\A i \in Item : Kept(i) => (Kept(i) \/ Spots(i) # {})']_vars

\* A character in the world that takes part in no handler has the same items in
\* its row, in its runtime and in the shared world's copy.
CopiesAgree ==
    \A c \in here : (\A d \in Character : ~Free(d) => c \notin Parties(d)) =>
        live[c].bag = row[c].bag /\ seen[c].bag = row[c].bag

\* Split(own, theirs, s, t): s is all with the one and t all with the other.
Split(own, theirs, s, t) ==
    /\ s \subseteq own /\ s \cap theirs = {}
    /\ t \subseteq theirs /\ t \cap own = {}

\* A purchase and a trade are whole: when the handler is done, the accounts have
\* changed everything that was to change hands, or nothing of it, whichever save
\* was refused and whoever left in between.
DealIsWhole ==
    [][\A c \in Character :
         (~Free(c) /\ job[c].op \in {"buy", "trade"} /\ Free(c)') =>
             LET own == row'[c].bag peer == row'[Peer(c)].bag IN
             \/ Split(own, peer, job[c].in, job[c].out)
             \/ Split(own, peer, job[c].out, job[c].in)]_vars

\* While a handle is exclusive nobody but its owner comes to own the item.
ExclusiveRespected ==
    [][\A c \in Character, v \in Vid :
         (ground[v] # NoHandle /\ ground[v].exclusive /\ ground[v].owner # c
            /\ ground[v].item \notin row[c].bag) => ground[v].item \notin row'[c].bag]_vars

\* A handle is bound to its owner's session exactly as long as that matters: a
\* bound handle has its owner in the world, and an owner in the world is bound to
\* its exclusive handles, so that its leaving takes them along.
BoundWhilePresent ==
    \A v \in Vid : ground[v] # NoHandle =>
        /\ ground[v].bound => ground[v].owner \in here
        /\ ground[v].exclusive /\ ground[v].owner \in here => ground[v].bound

\* Once the hooks have run, a restart would find exactly the pending handles.
FileIsGround == ~unsaved => file = [v \in Vid |-> Durable(ground[v])]
=============================================================================
