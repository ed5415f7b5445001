----------------------------- MODULE TradeShell -----------------------------
(***************************************************************************)
(* The player-to-player exchange shell kept by sharedWorldRegistry         *)
(* (internal/minimal/shared_world.go): who trades with whom, what each     *)
(* side displays, who has accepted, and the finalize plan a second accept  *)
(* hands to the session handler.                                           *)
(*                                                                         *)
(* Every action is one critical section of the registry mutex.  A handler  *)
(* that needs two of them (second accept then commit, inventory commit     *)
(* then CloseExchange) is two actions; between them the handler's own      *)
(* session is not idle (it holds its stateMu) but every other session is   *)
(* free to run, unless Overlap is FALSE.                                   *)
(*                                                                         *)
(* Entity IDs are never reused by the registry, so a session that leaves   *)
(* and joins again is a new entity here.  The character of an entity is    *)
(* the registry's copy of it; the session's own runtime and the account    *)
(* store, which a finalize writes before the registry, are left out: a     *)
(* save only succeeds or is refused.                                       *)
(*                                                                         *)
(* An operator whose comment starts with "Fault:" is a variant of the one  *)
(* that follows it with one plausible bug; it is part of no specification. *)
(***************************************************************************)
EXTENDS Integers, FiniteSets

CONSTANTS
    Entity,      \* registry entity IDs
    Item,        \* item instances (id, vnum, count and cell together)
    Slot,        \* display slots of the exchange window
    Place,       \* equal places are within exchange distance, others are not
    BagSize,     \* carried cells
    CarrierMax,  \* exchangeGoldPointChangeCarrierMax
    Usable,      \* Usable[e]: the items whose template entity e can use
    Overlap,     \* may other sessions run while a handler is between two sections?
    StoreFails,  \* may the account store refuse a save?
    NoEntity, NoItem, NoPlan   \* no partner, an empty slot, no finalize under way

ASSUME EntityAssumption == NoEntity \notin Entity
ASSUME ItemAssumption == NoItem \notin Item
ASSUME CarrierMaxAssumption == CarrierMax \in Nat \ {0}
ASSUME UsableAssumption == Usable \in [Entity -> SUBSET Item]
ASSUME OverlapAssumption == Overlap \in BOOLEAN /\ StoreFails \in BOOLEAN

VARIABLES
    life,      \* "absent", "live" (a session entry exists) or "gone"
    char,      \* the registry's copy of the entity's character
    busy,      \* a merchant, safebox, refine, cube or own-shop window is open
    partner,   \* exchangePartners
    shown,     \* exchangeItems
    offer,     \* exchangeGold
    accepted,  \* exchangeAccepted
    plan,      \* the finalize plan the entity's own handler carries
    closing,   \* the entity's own handler still owes its CloseExchange
    screen     \* whose trade window the START/END frames left on the client

shellVars == <<partner, shown, offer, accepted>>
vars == <<life, char, busy, partner, shown, offer, accepted, plan, closing, screen>>

Purse == 0 .. CarrierMax
Character == [bag: SUBSET Item, purse: Purse, down: BOOLEAN, place: Place]
Display == [Slot -> Item \cup {NoItem}]
Plan == [with: Entity, mine: SUBSET Item, theirs: SUBSET Item,
         pay: Purse, get: Purse, me: Character, them: Character]

ASSUME PlanAssumption == NoPlan \notin Plan

EmptyDisplay == [s \in Slot |-> NoItem]
ItemsIn(display) == {display[s] : s \in Slot} \ {NoItem}

TypeOK ==
    /\ life \in [Entity -> {"absent", "live", "gone"}]
    /\ char \in [Entity -> Character]
    /\ busy \in [Entity -> BOOLEAN]
    /\ partner \in [Entity -> Entity \cup {NoEntity}]
    /\ shown \in [Entity -> Display]
    /\ offer \in [Entity -> Purse]
    /\ accepted \in [Entity -> BOOLEAN]
    /\ plan \in [Entity -> Plan \cup {NoPlan}]
    /\ closing \in [Entity -> BOOLEAN]
    /\ screen \in [Entity -> Entity \cup {NoEntity}]

Live(e) == life[e] = "live"
InFlight(e) == plan[e] # NoPlan \/ closing[e]
Scheduled == Overlap \/ \A e \in Entity : ~InFlight(e)
Idle(e) == Live(e) /\ ~InFlight(e) /\ Scheduled

Paired(e) == partner[e] # NoEntity
Trading(e) ==
    /\ Paired(e)
    /\ Live(e) /\ Live(partner[e])
    /\ ~char[e].down /\ ~char[partner[e]].down

Near(c, d) == c.place = d.place
AtCap(e) == char[e].purse >= CarrierMax

\* What the two sides of e's trade display at this moment.
Terms(e) ==
    [with |-> partner[e],
     mine |-> shown[e], pay |-> offer[e],
     theirs |-> shown[partner[e]], get |-> offer[partner[e]]]

StillLive(e, items) == items \subseteq char[e].bag /\ items \subseteq Usable[e]

CanReceive(e, items, amount) ==
    /\ char[e].purse + amount <= CarrierMax
    /\ items \cap char[e].bag = {}
    /\ items \subseteq Usable[e]
    /\ items = {} \/ Cardinality(char[e].bag \cup items) <= BagSize

-----------------------------------------------------------------------------
(* Clearing.  Both sides of the pair leave every map of the shell.         *)

Sides(e) == {e, partner[e]}

\* Fault: the accept marks of a closed shell are not dropped.
ClearKeepsAccepts(e) ==
    /\ partner' = [f \in Entity |-> IF f \in Sides(e) THEN NoEntity ELSE partner[f]]
    /\ shown' = [f \in Entity |-> IF f \in Sides(e) THEN EmptyDisplay ELSE shown[f]]
    /\ offer' = [f \in Entity |-> IF f \in Sides(e) THEN 0 ELSE offer[f]]
    /\ UNCHANGED accepted

ClearShell(e) ==
    /\ partner' = [f \in Entity |-> IF f \in Sides(e) THEN NoEntity ELSE partner[f]]
    /\ shown' = [f \in Entity |-> IF f \in Sides(e) THEN EmptyDisplay ELSE shown[f]]
    /\ offer' = [f \in Entity |-> IF f \in Sides(e) THEN 0 ELSE offer[f]]
    /\ accepted' = [f \in Entity |-> IF f \in Sides(e) THEN FALSE ELSE accepted[f]]

\* Fault: the END frame goes to the caller alone.
CloseTellsOne(e) ==
    ClearShell(e) /\ screen' = [screen EXCEPT ![e] = NoEntity]

EndFrames(told) == screen' = [f \in Entity |-> IF f \in told THEN NoEntity ELSE screen[f]]

CloseBoth(e) == ClearShell(e) /\ EndFrames(Sides(e))

\* clearExchangeLocked when nobody is paired with e: nothing happens.
CloseIfPaired(e) ==
    IF Paired(e) THEN CloseBoth(e) ELSE UNCHANGED <<shellVars, screen>>

Dissolves(e, c) == Paired(e) /\ ~Near(c, char[partner[e]])

-----------------------------------------------------------------------------
(* The exchange packet handlers.                                           *)

StartExchange(e, t) ==
    /\ Idle(e) /\ ~busy[e] /\ ~char[e].down /\ ~Paired(e)
    /\ t # e /\ Live(t) /\ ~char[t].down /\ Near(char[e], char[t])
    /\ ~busy[t] /\ ~Paired(t) /\ ~AtCap(e) /\ ~AtCap(t)
    /\ partner' = [partner EXCEPT ![e] = t, ![t] = e]
    /\ offer' = [offer EXCEPT ![e] = 0, ![t] = 0]
    /\ accepted' = [accepted EXCEPT ![e] = FALSE, ![t] = FALSE]
    /\ screen' = [screen EXCEPT ![e] = t, ![t] = e]
    /\ UNCHANGED <<life, char, busy, shown, plan, closing>>

CancelExchange(e) ==
    /\ Idle(e) /\ Paired(e)
    /\ CloseBoth(e)
    /\ UNCHANGED <<life, char, busy, plan, closing>>

\* Fault: a change of display withdraws only the changer's own accept mark.
ResetOwnAccept(e) == accepted' = [accepted EXCEPT ![e] = FALSE]

ResetAccepts(e) == accepted' = [f \in Entity |-> IF f \in Sides(e) THEN FALSE ELSE accepted[f]]

AddExchangeItem(e, s, i) ==
    /\ Idle(e) /\ Trading(e)
    /\ i \in char[e].bag \cap Usable[e]
    /\ shown[e][s] = NoItem /\ i \notin ItemsIn(shown[e])
    /\ shown' = [shown EXCEPT ![e] = [@ EXCEPT ![s] = i]]
    /\ ResetAccepts(e)
    /\ UNCHANGED <<life, char, busy, partner, offer, plan, closing, screen>>

RemoveExchangeItem(e, s) ==
    /\ Idle(e) /\ Trading(e)
    /\ shown[e][s] # NoItem
    /\ shown' = [shown EXCEPT ![e] = [@ EXCEPT ![s] = NoItem]]
    /\ ResetAccepts(e)
    /\ UNCHANGED <<life, char, busy, partner, offer, plan, closing, screen>>

AddExchangeGold(e, amount) ==
    /\ Idle(e) /\ Trading(e)
    /\ amount > 0 /\ amount <= char[e].purse
    /\ offer' = [offer EXCEPT ![e] = amount]
    /\ ResetAccepts(e)
    /\ UNCHANGED <<life, char, busy, partner, shown, plan, closing, screen>>

GatesOpen(e) == ~busy[e] /\ ~busy[partner[e]] /\ ~AtCap(e) /\ ~AtCap(partner[e])
OwnItemsLive(e) == StillLive(e, ItemsIn(shown[e]))
OwnGoldLive(e) == offer[e] <= char[e].purse

\* The checks a second accept runs before it hands out a plan.
FinalChecks(e) ==
    LET q == partner[e] IN
    /\ OwnItemsLive(q) /\ OwnGoldLive(q)
    /\ CanReceive(q, ItemsIn(shown[e]), offer[e])
    /\ CanReceive(e, ItemsIn(shown[q]), offer[q])

\* Fault: a first accept that does not look at the partner's mark.
AcceptBlindly(e) ==
    /\ Idle(e) /\ Trading(e)
    /\ GatesOpen(e) /\ OwnItemsLive(e) /\ OwnGoldLive(e)
    /\ accepted' = [accepted EXCEPT ![e] = TRUE]
    /\ UNCHANGED <<life, char, busy, partner, shown, offer, plan, closing, screen>>

AcceptFirst(e) ==
    /\ Idle(e) /\ Trading(e)
    /\ GatesOpen(e) /\ OwnItemsLive(e) /\ OwnGoldLive(e)
    /\ ~accepted[partner[e]]
    /\ accepted' = [accepted EXCEPT ![e] = TRUE]
    /\ UNCHANGED <<life, char, busy, partner, shown, offer, plan, closing, screen>>

AcceptRefused(e) ==
    /\ Idle(e) /\ Trading(e)
    /\ \/ ~GatesOpen(e)
       \/ ~OwnItemsLive(e) /\ accepted[partner[e]]
       \/ OwnItemsLive(e) /\ ~OwnGoldLive(e)
       \/ OwnItemsLive(e) /\ accepted[partner[e]] /\ ~FinalChecks(e)
    /\ CloseBoth(e)
    /\ UNCHANGED <<life, char, busy, plan, closing>>

PlanOf(e) ==
    LET q == partner[e] IN
    [with |-> q, mine |-> ItemsIn(shown[e]), theirs |-> ItemsIn(shown[q]),
     pay |-> offer[e], get |-> offer[q], me |-> char[e], them |-> char[q]]

\* Fault: one accept is taken for both.
AcceptAlone(e) ==
    /\ Idle(e) /\ Trading(e)
    /\ GatesOpen(e) /\ OwnItemsLive(e) /\ OwnGoldLive(e)
    /\ FinalChecks(e)
    /\ plan' = [plan EXCEPT ![e] = PlanOf(e)]
    /\ UNCHANGED <<life, char, busy, shellVars, closing, screen>>

\* The second accept mutates nothing: it returns a plan to its own handler.
AcceptSecond(e) ==
    /\ Idle(e) /\ Trading(e)
    /\ GatesOpen(e) /\ OwnItemsLive(e) /\ OwnGoldLive(e)
    /\ accepted[partner[e]] /\ FinalChecks(e)
    /\ plan' = [plan EXCEPT ![e] = PlanOf(e)]
    /\ UNCHANGED <<life, char, busy, shellVars, closing, screen>>

-----------------------------------------------------------------------------
(* The end of a finalize: the handler that carries plan[e] is back.        *)

\* Fault: what is given away stays in the bag.
SettledKeepingGoods(c, out, in, pay, get) ==
    [c EXCEPT !.bag = @ \cup in, !.purse = @ - pay + get]

\* buildExchangeFinalizeSide, from the plan's own character copies.
Settled(c, out, in, pay, get) ==
    [c EXCEPT !.bag = (@ \ out) \cup in, !.purse = @ - pay + get]

PlanStillPaired(e) ==
    LET q == plan[e].with IN
    /\ partner[e] = q /\ partner[q] = e
    /\ Live(e) /\ Live(q)

Fallen(e) == char[e].down \/ char[plan[e].with].down

CommitChecks(e) ==
    LET p == plan[e] q == p.with IN
    /\ ~AtCap(e) /\ ~AtCap(q)
    /\ StillLive(e, p.mine) /\ StillLive(q, p.theirs)
    /\ p.pay <= char[e].purse /\ p.get <= char[q].purse
    /\ CanReceive(q, p.mine, p.pay) /\ CanReceive(e, p.theirs, p.get)

CommitBusy(e) == busy[e] \/ busy[plan[e].with]

CommitDone(e) ==
    LET p == plan[e] IN
    /\ p # NoPlan /\ PlanStillPaired(e)
    /\ ~CommitBusy(e) /\ ~Fallen(e) /\ CommitChecks(e)
    /\ char' = [char EXCEPT
                  ![e] = Settled(p.me, p.mine, p.theirs, p.pay, p.get),
                  ![p.with] = Settled(p.them, p.theirs, p.mine, p.get, p.pay)]
    /\ CloseBoth(e)
    /\ plan' = [plan EXCEPT ![e] = NoPlan]
    /\ UNCHANGED <<life, busy, closing>>

CommitRefused(e) ==
    /\ plan[e] # NoPlan /\ PlanStillPaired(e)
    /\ CommitBusy(e) \/ (~Fallen(e) /\ ~CommitChecks(e))
    /\ CloseBoth(e)
    /\ plan' = [plan EXCEPT ![e] = NoPlan]
    /\ UNCHANGED <<life, char, busy, closing>>

\* The handler gives up without touching the shell: the pair is gone, a side is
\* at the HP floor, or a step before the saves failed (a name that is being
\* re-registered, an account that does not load, a side that does not build).
FinalizeAbandoned(e) ==
    /\ plan[e] # NoPlan
    /\ plan' = [plan EXCEPT ![e] = NoPlan]
    /\ UNCHANGED <<life, char, busy, shellVars, closing, screen>>

\* EmitExchangePersistFailReject: it needs a live peer session but never asks
\* whether the caller is still paired with that peer.
PersistFailed(e) ==
    LET q == plan[e].with IN
    /\ plan[e] # NoPlan /\ StoreFails
    /\ Live(q)
    /\ IF Paired(e)
         THEN ClearShell(e) /\ EndFrames({e, q})
         ELSE UNCHANGED shellVars /\ EndFrames({q})
    /\ plan' = [plan EXCEPT ![e] = NoPlan]
    /\ UNCHANGED <<life, char, busy, closing>>

-----------------------------------------------------------------------------
(* Everything else a session or the world does to a trading character.     *)

InNoBag(i) == \A f \in Entity : i \notin char[f].bag

\* A carried-inventory handler commits: it refuses cells on display and leaves
\* the CloseExchange of prependExchangeCloseFrame for its next section.
BagTurnover(e) ==
    {char[e].bag \ {i} : i \in char[e].bag \ ItemsIn(shown[e])}
        \cup {char[e].bag \cup {i} : i \in {j \in Item : InNoBag(j)}}

MutateCarried(e, bag, purse) ==
    /\ Idle(e) /\ ~char[e].down
    /\ bag \in BagTurnover(e) \cup {char[e].bag}
    /\ Cardinality(bag) <= BagSize
    /\ <<bag, purse>> # <<char[e].bag, char[e].purse>>
    /\ char' = [char EXCEPT ![e].bag = bag, ![e].purse = purse]
    /\ closing' = [closing EXCEPT ![e] = TRUE]
    /\ UNCHANGED <<life, busy, shellVars, plan, screen>>

\* Fault: the amount dropped is not compared with the purse.
DropAnyGold(e, amount) ==
    /\ Idle(e) /\ ~char[e].down
    /\ amount > 0
    /\ char' = [char EXCEPT ![e].purse = @ - amount]
    /\ UNCHANGED <<life, busy, shellVars, plan, closing, screen>>

\* The gold drop and the mall checkout commit without closing the exchange.
DropGold(e, amount) ==
    /\ Idle(e) /\ ~char[e].down
    /\ amount > 0 /\ amount <= char[e].purse
    /\ char' = [char EXCEPT ![e].purse = @ - amount]
    /\ UNCHANGED <<life, busy, shellVars, plan, closing, screen>>

MallCheckout(e, i) ==
    /\ Idle(e) /\ ~char[e].down
    /\ InNoBag(i) /\ Cardinality(char[e].bag) < BagSize
    /\ char' = [char EXCEPT ![e].bag = @ \cup {i}]
    /\ UNCHANGED <<life, busy, shellVars, plan, closing, screen>>

\* Another session gives e an item (ITEM_GIVE); it updates the registry's copy
\* whatever e's own handler is doing.
DeliverItem(e, i) ==
    /\ Live(e) /\ Scheduled /\ ~char[e].down
    /\ InNoBag(i) /\ Cardinality(char[e].bag) < BagSize
    /\ char' = [char EXCEPT ![e].bag = @ \cup {i}]
    /\ UNCHANGED <<life, busy, shellVars, plan, closing, screen>>

\* A guest of e's private shop buys i: its handler takes the item from e and pays,
\* whatever e's own handler is doing.  The guest's side is its MutateCarried.
ShopSale(e, i, amount) ==
    /\ Live(e) /\ Scheduled /\ ~char[e].down /\ busy[e]
    /\ i \in char[e].bag
    /\ amount > 0 /\ char[e].purse + amount <= CarrierMax
    /\ char' = [char EXCEPT ![e].bag = @ \ {i}, ![e].purse = @ + amount]
    /\ UNCHANGED <<life, busy, shellVars, plan, closing, screen>>

\* Retaliation brings e to the HP floor; its handler then owes CloseExchange.
FallToFloor(e) ==
    /\ Idle(e) /\ ~char[e].down
    /\ char' = [char EXCEPT ![e].down = TRUE]
    /\ closing' = [closing EXCEPT ![e] = TRUE]
    /\ UNCHANGED <<life, busy, shellVars, plan, screen>>

Restart(e) ==
    /\ Idle(e) /\ char[e].down
    /\ char' = [char EXCEPT ![e].down = FALSE]
    /\ UNCHANGED <<life, busy, shellVars, plan, closing, screen>>

CloseExchange(e) ==
    /\ closing[e]
    /\ CloseIfPaired(e)
    /\ closing' = [closing EXCEPT ![e] = FALSE]
    /\ UNCHANGED <<life, char, busy, plan>>

\* A move updates the registry copy and dissolves a trade it walks away from.
Move(e, place) ==
    /\ Idle(e) /\ ~char[e].down /\ place # char[e].place
    /\ char' = [char EXCEPT ![e].place = place]
    /\ IF Dissolves(e, char'[e]) THEN CloseBoth(e) ELSE UNCHANGED <<shellVars, screen>>
    /\ UNCHANGED <<life, busy, plan, closing>>

SetWindow(e) ==
    /\ Idle(e)
    /\ busy' = [busy EXCEPT ![e] = ~@]
    /\ UNCHANGED <<life, char, shellVars, plan, closing, screen>>

Join(e) ==
    /\ life[e] = "absent" /\ Scheduled
    /\ life' = [life EXCEPT ![e] = "live"]
    /\ UNCHANGED <<char, busy, shellVars, plan, closing, screen>>

\* Fault: a session leaves the world and its trade stays.
LeaveMidTrade(e) ==
    /\ Idle(e)
    /\ life' = [life EXCEPT ![e] = "gone"]
    /\ busy' = [busy EXCEPT ![e] = FALSE]
    /\ UNCHANGED <<char, plan, closing, shellVars, screen>>

Leave(e) ==
    /\ Idle(e)
    /\ life' = [life EXCEPT ![e] = "gone"]
    /\ busy' = [busy EXCEPT ![e] = FALSE]
    /\ CloseIfPaired(e)
    /\ UNCHANGED <<char, plan, closing>>

-----------------------------------------------------------------------------
Init ==
    /\ life = [e \in Entity |-> "absent"]
    /\ char \in {c \in [Entity -> Character] :
                   /\ \A e \in Entity : ~c[e].down /\ Cardinality(c[e].bag) <= BagSize
                   /\ \A e, f \in Entity : e # f => c[e].bag \cap c[f].bag = {}}
    /\ busy = [e \in Entity |-> FALSE]
    /\ partner = [e \in Entity |-> NoEntity]
    /\ shown = [e \in Entity |-> EmptyDisplay]
    /\ offer = [e \in Entity |-> 0]
    /\ accepted = [e \in Entity |-> FALSE]
    /\ plan = [e \in Entity |-> NoPlan]
    /\ closing = [e \in Entity |-> FALSE]
    /\ screen = [e \in Entity |-> NoEntity]

Exchange(e) ==
    \/ \E t \in Entity : StartExchange(e, t)
    \/ CancelExchange(e)
    \/ \E s \in Slot, i \in Item : AddExchangeItem(e, s, i)
    \/ \E s \in Slot : RemoveExchangeItem(e, s)
    \/ \E amount \in Purse : AddExchangeGold(e, amount)
    \/ AcceptFirst(e) \/ AcceptRefused(e) \/ AcceptSecond(e)

Finalize(e) == CommitDone(e) \/ CommitRefused(e) \/ FinalizeAbandoned(e) \/ PersistFailed(e)

Drift(e) ==
    \/ \E bag \in SUBSET Item, purse \in Purse : MutateCarried(e, bag, purse)
    \/ \E amount \in Purse : DropGold(e, amount)
    \/ \E i \in Item : MallCheckout(e, i) \/ DeliverItem(e, i)
    \/ \E i \in Item, amount \in Purse : ShopSale(e, i, amount)
    \/ \E place \in Place : Move(e, place)
    \/ FallToFloor(e) \/ Restart(e) \/ CloseExchange(e) \/ SetWindow(e)

Next == \E e \in Entity : Exchange(e) \/ Finalize(e) \/ Drift(e) \/ Join(e) \/ Leave(e)

Spec == Init /\ [][Next]_vars

-----------------------------------------------------------------------------
(* Properties.                                                             *)

\* A trade always has exactly two sides and both are in the world.
PairsAreMutual ==
    \A e \in Entity : Paired(e) =>
        /\ partner[e] # e /\ partner[partner[e]] = e
        /\ Live(e) /\ Live(partner[e])

\* Nothing of a closed shell survives: an unpaired entity has no display, no
\* offer and no accept mark that a later StartExchange could inherit.
NoResidue ==
    \A e \in Entity : ~Paired(e) =>
        ~accepted[e] /\ offer[e] = 0 /\ shown[e] = EmptyDisplay

\* Mutual acceptance is never a resting state: the second accept either
\* produces a plan or tears the shell down, it never leaves two accept marks.
NeverBothAccepted ==
    \A e \in Entity : accepted[e] => Paired(e) /\ ~accepted[partner[e]]

\* An accept mark that survives a step still stands for the very same terms:
\* no display or offer change of either side leaves an old accept in place.
AcceptBindsTerms ==
    [][\A e \in Entity : accepted[e] /\ accepted'[e] => Terms(e)' = Terms(e)]_vars

\* The trade window the START and END frames leave on a client is the shell the
\* registry keeps for it.
ScreenMatchesShell == \A e \in Entity : Live(e) => screen[e] = partner[e]

\* The plan of e is what the shell shows and what the peer accepts right now.
PlanIsCurrent(e) ==
    LET p == plan[e] IN
    /\ accepted[p.with]
    /\ p.mine = ItemsIn(shown[e]) /\ p.theirs = ItemsIn(shown[p.with])
    /\ p.pay = offer[e] /\ p.get = offer[p.with]
    /\ p.me = char[e] /\ p.them = char[p.with]

\* A commit that goes through settles terms the peer currently accepts, between
\* characters that are still what the plan copied ("post-AcceptExchange drift
\* cannot finalize a stale plan", CommitExchangeFinalize).
CommitIsAccepted ==
    [][\A e \in Entity :
         plan[e] # NoPlan /\ char'[e] # char[e] /\ plan'[e] = NoPlan => PlanIsCurrent(e)]_vars

\* No item is carried by two characters at once.
NoItemTwice ==
    \A e, f \in Entity : e # f => char[e].bag \cap char[f].bag = {}
=============================================================================
