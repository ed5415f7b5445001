# A TLA+ model of the go-metin2-server game daemon

The server is two daemons, `authd` (credentials, login tickets) and `gamed` (the
game). Nearly all of the logic that can go wrong without anybody noticing is in
`gamed`: every client connection is served by its own goroutine, the session
closures of `internal/minimal/factory.go`, and they meet in a few places.

This directory holds the TLA+ modules that model those meetings, the TLC
configurations that check them on small instances, and theorems about them that
TLAPS checks for every value of the constants.

## 1. The system

### Who holds what

| Part | State | Guarded by |
| --- | --- | --- |
| session closure (`factory.go`, `newGameRuntime…`) | phase, cached ticket, selected player's runtime, open windows | its own `stateMu`, held for a whole handler |
| shared world (`shared_world.go`) | one entry per playing character with a *copy* of the character, exchange shells, private-shop stock, ground handles, frame queues | `r.mu`, held for one method |
| live-character registrations (`factory.go`, `liveCharactersByName`) | by name: how to clone or overwrite a session's runtime | `liveCharacterMu`; the registered callbacks take the *target's* `stateMu` |
| account store (`accountstore`) | one row per login with all its characters | one load or save at a time |
| practice mobs (`shared_world.go`, `staticActorCombat…`) | per mob: hit points, respawn time, holder, whether held by nearness, whom it spares; per session: its target | `r.mu`; timers are polled by whichever session polls next |
| safebox file (`safeboxstore/store.go`) | every character's stored cells and money in one snapshot | one load or save at a time |
| ground-item file (`worldruntime/ground_item_file_store.go`) | durable records of pending handles | `groundItemPersistMu` |

A character therefore exists up to four times: in its account row, in the
session's cached ticket and runtime, in the shared world, and, while another
session's handler computes with it, in that handler's local variables. A handler
is *not* atomic: it visits the places one after the other and other sessions run
in between. That is what the models are about.

### Components

| Component | Operations | Interacts by | What is hard | What makes it correct |
| --- | --- | --- | --- | --- |
| Exchange shell | start, cancel, display item or gold, remove, accept, commit, reject, closes by other handlers | registry methods, END/START frames to the peer | a handler needs two critical sections; a plan is carried between them | pairing is mutual, a closed shell leaves nothing, an accept binds the terms it was given for, a commit settles accepted terms |
| Session presence | login, create/delete/select, ENTERGAME, leave, drop, reconnect | ticket and account store, names, registry | read account, then join; unregister, then leave; two sockets on one account | one entry per identity, a name leads to the owner, what is played is what is stored, nothing is rolled back, a waiter gets in |
| Ground items | drop, pickup, release, despawn, park, rebind, persist, restart | account store, registry, file, timers polled by any session | save and registration are two steps; an absolute clock goes on over a restart; the owner may come back as a new entity | one holder per item, exclusivity, the file is the ground |
| Item give, private shop | give; open, close, browse, buy | two account rows, the peer's runtime under the peer's lock, the registry | two saves with best-effort undo, copies made before them | nothing vanishes or doubles, a sale is whole, bags keep their capacity |
| Trade finalize (accounts) | save origin, save partner, apply both, roll back | as above | as above, after the plan was made | all or nothing |
| Combat, death, restart | target, attack, retaliation, HP floor, restart here and in town | registry, timers | a blow is many lock sections; the session's idea of its target and of its life differs from the world's in between | the first lock stands, a release spares who stands by |
| Spawns and respawn | nearness scans, target switch, marks, shared HP, assist, respawn | registry, polls of every session | a scan falls between the sections of a handler; marks outlive sessions | a mob fights one, who is connected and unmarked; the dead rise |
| Entity registry and visibility | register, move, remove, diffs | shared world | diffs must add up | what a client shows is what is visible |
| Inventory, equipment, quickslots | move, stack, split, drag, wear, replace, take off, bind, use | runtime, own commit | three copies and a rollback; three ways of merging stacks | no item lost or doubled, quickslots point at goods, gear takes back what it gave |
| Merchant, refine | buy, sell, preview, confirm | own commit | a stale dialog, a scroll that is its own material | price and goods together |
| Safebox | open, check in, check out, move, money | safebox file and own commit | two stores, one saved after the other, best-effort undo | what is shown is what is stored, goods are in one of the two |
| Mall, cube, quests | single-session handlers, own stores | own commit | as for the safebox | price and goods together |
| Connection service | read loop, shutdown | goroutines | shutdown races accept | every connection is closed |
| Stores, tickets, codecs, cipher, catalogs, ops, migrations | sequential data handling | files, SQL, HTTP | crash between write and rename | old or new, never half |

`PROJECT.json` lists every component with its files and the reason for what is
left out, and under `hazards` the lines where each of these difficulties bites.

## 2. The modules

| Module | Contents |
| --- | --- |
| `TradeShell` | the exchange shell of the registry, and all that other handlers do to a trading character |
| `TradeShell_proofs` | theorems about it |
| `SessionPresence` | who plays which character, from login to disconnect |
| `SessionPresence_proofs` | theorems about it |
| `Custody` | the places an item can be in; joining, leaving, dying, restarting |
| `GroundItems` | extends `Custody`: dropping, picking up, timers, the file |
| `PeerDeals` | extends `Custody`: the handlers of two accounts: `ITEM_GIVE`, private-shop purchases and the account commit of a trade |
| `ItemWorld` | composes `GroundItems` and `PeerDeals` and states what must hold of both |
| `ItemWorld_proofs` | theorems about it, whatever overlaps |
| `OneHolder_proofs` | theorems about it when handlers that share something do not overlap |
| `Pack` | what a character carries, and the operations of its player runtime on it, as operators |
| `Belongings` | extends `Pack`: the handlers of carried goods, gear, quickslots, merchants and refines, with their commit |
| `Deposit` | extends `Belongings`: the safebox and its two saves |
| `Possessions` | composes `Belongings` and `Deposit`, states what must hold, and maps them to `Ledger` |
| `Ledger` | the abstract specification of a player's goods |
| `Possessions_proofs` | theorems about it: types, copies, quickslots, the safebox |
| `OneOfEach_proofs` | theorems about instance IDs |
| `Books_proofs` | that it implements `Ledger` |
| `Aggro` | who fights whom: targets, locks, marks, falls and respawns |
| `Aggro_proofs` | theorems about it |
| `MCTradeShell`, `MCSessionPresence`, `MCItemWorld`, `MCPossessions`, `MCAggro` | instances for TLC |

Some operators are variants of the one after them with one plausible bug: a
guard dropped, a reset forgotten (`AcceptBlindly`, `LeaveForgets`, …; many say
`Fault:` in their comment). No specification uses them; each shows, when put in
the place of the real one, that some property would notice such a bug.

### TradeShell

One action is one critical section of `sharedWorldRegistry.mu`. `partner`,
`shown`, `offer` and `accepted` are the four maps of the shell
(`exchangePartners`, `exchangeItems`, `exchangeGold`, `exchangeAccepted`), `char`
the registry's copy of the character, and `life` and `busy` the session entry and its open
windows. `plan[e]` is what the second accept returned to e's handler, which then
saves two accounts before it calls `CommitExchangeFinalize`; `closing[e]` says
that e's handler has committed an inventory change and still owes
`CloseExchange`. `screen` is what the START and END frames leave on the client.
Items are whole (id, vnum, count, cell), distance is "same place or not", and
template restrictions are the constant `Usable`.

`Overlap` says whether other sessions may run between the two sections of a
handler (they may, in the code) and `StoreFails` whether an account save may be
refused. Entity IDs are never reused, so a session that leaves is gone for good.

### SessionPresence

`row` is the account store, `cached` the ticket a session holds, `live` its
runtime, `name` the registrations, and `hook` the shared world's entry. What is
stored of a character is a version number: 0 empty, 1 fresh, one more per
commit. A handler is one action except for ENTERGAME (`EnterRefresh`,
`EnterJoin`), a dropped connection (`Drop`, `DropLeave`) and a give, where other
sessions see the state between. `give[s]` holds the local variables of
`applyVisiblePlayerItemGive`. It finds the receiver's login (`GiveBegin`), clones its
runtime under the receiver's `stateMu` and lets go of it (`GiveClone`), loads both accounts
(`GiveLoad`), saves one (`GiveSave`) and the other (`GiveSavePeer`), overwrites the
receiver's runtime (`GiveApply`) and ends with the giver's own (`GiveClose`); a
second save that is refused or a receiver that has gone leads to the undoing saves. The
give stands for purchases and trades as well, which treat their two accounts alike.

`Exclusive` restricts a login to one open session at a time. Nothing in the
server enforces it, so it is an assumption of some properties, and the runs without
it show what becomes of them. `Contend` says whether other sessions may use the two
accounts of a give while it is under way: in the code they may, and "Observed on the way"
says what then happens. Without it the receiver neither commits nor leaves before the give ends, so the
undo of a second save that is refused is checked (`GivePeerRefused`), and that of a receiver
who has gone (`GiveApplyRefused`) only happens in the runs with it. `StoreFails` lets every load and every first or second save be refused,
`RestoreFails` the saves that undo them, whose result the code ignores.

### Custody, GroundItems, PeerDeals, ItemWorld

A character is a set of items and whether it is at the HP floor, once in its
`row`, once `live`, once as `seen` by the shared world. `ground` holds the
handles; `bound` stands for `OwnerID # 0`. `file` is the durable snapshot as a
restart would read it *now*: expiry times are absolute, so a time that passes
passes in the file as well. `unsaved` means that a hook has still to run or that
the file refused its save. `job[c]` is what c's handler carries between its
visits: for a pickup the item, for a deal what goes `out` to the peer and what comes `in`, both
characters as copied and both rows as loaded.

The handlers are cut where the code leaves one lock and takes another: a drop
saves and then registers; a pickup resolves, saves and then removes the handle; a give
clones, saves, saves, applies and then updates the shared world; a purchase resolves,
saves, saves, applies and then clears the stock; the second accept of a trade plans, saves, saves,
applies and then commits to the shared world. A give and a purchase visit the shared world twice
at the end, for the peer's copy and for the own (`ShowOwn`). Only an undo is
one action, its two saves and the copies it puts back. Departures of a *peer*, timers, shop closes
and the file hook may fall between any two of these steps.

The shell of a trade is `TradeShell`'s business. Here a second accept finds any two
players who show any of what `Tradable` lets them (`TradePlan`), and the commit asks once more
what it asks of their characters (`MayTrade`) but may be refused even so
(`TradeCloseRefused`), since the shell may have been closed or a window
opened in between. That is a superset of what the shell allows.

`Contend` says whether two handlers that share a character, an item or a handle
may overlap. In the code they may; what then happens is `item_contend` below.
`CrashMidway` lets the process die inside a handler; no run sets it, because the
code keeps no journal and promises nothing for that case.

### Pack, Belongings, Deposit, Possessions, Ledger

A *pack* is a record: carried cells, wear cells, quickslots, gold, points. `Pack`
says what each method of the player runtime makes of one. The three copies of it
are `live` and `kept` (the runtime's live state and persisted snapshot) and `row`
(the account). A handler runs under `stateMu` and touches nobody else's goods, so
it is one action: it computes the new pack, saves, and undoes. How it commits is
the interesting part and has operators of its own: `CommitSucceeds`,
`CommitFails` (everything goes back to what was *live*, which is not always
what was persisted), `CommitSkipped` (the session lost its place in the
shared world) and `CommitOrKeep` (handlers that keep the change then). A
wound is live before it is saved and stays when the save fails. `Deposit` adds
the character's row of the safebox file, `box`, and the session's own table of
it, `pane`; `Exchange` is the safebox save, the account commit and the two ways back.

`Ledger` knows none of this: goods by kind, gold, the body's points apart from
gear, and that only a purchase, a sale, a potion, a refine, a wound or a restart
changes them. `Books` in `Possessions` maps the system to it: goods and gold are
those of the two *files* together, so that a step that saves one of them and not
the other would show. Amounts are cardinalities of sets of pieces, the points of gear a
difference of two, which says the same as a sum and can be reasoned about without induction. `KeepsTheBooks` says that the system implements the ledger.

The switches `StoreFails` and `BoxFails` let every first save be refused;
`RestoreFails` the save that undoes another, `BoxLoadFails` the reading of the
safebox, and `MayLose` another session taking the place of this one.

### Aggro

`mob[m]` is what the shared world keeps for a practice mob: hit points, respawn
wait, `owner` (`staticActorCombatEngagedBy`), `near` (`proximityEngagedBy`),
`spared` (`staticActorProximityAggroSuppress`) and `parked`
(`pendingProximityAggroSuppressByVID`). `who[p]` is a player: `life` and `aim` are
the session's own hit points and target, `down` and `target` the shared world's
copies of them. An action is one critical section of `r.mu`: the first of a
handler is guarded by the handler's own checks, the rest is left in `todo[p]` as a
list of sections that `Continue(p)` runs in order while every other session,
poll and timer may come between. `clearActiveCombatTarget` is two such sections
("drop", "release"). A blow on a mob with a pack looks up who holds the mob (`Assist`) and
then locks one mate per section (`AssistMate`); in `todo` such a section is the mate itself. A blow that
fells the player ends with the sections of his fall. A delayed retaliation first asks whom the mob would strike
(`Retaliate`) and strikes in a section of its own (`Answer`).

Places lie on a line and one blow takes one unit. Mobs stand at home. `MaxOpen`
bounds how many handlers are between two sections at once, and is 2, the number of players,
in every run. A delayed retaliation may come whenever the mob could still strike.

## 3. The runs

| Run | Instance | Shows |
| --- | --- | --- |
| `trade_triple` | 3 players, 1 item, 1 slot, purse ≤ 1; overlapping handlers, reliable saves | `TypeOK`, `PairsAreMutual`, `NoResidue`, `NeverBothAccepted`, `AcceptBindsTerms`, `ScreenMatchesShell` |
| `trade_serial` | 2 players, 2 items, 2 slots, one player who cannot use an item; handlers one at a time, failing saves | `NoItemTwice`, `CommitIsAccepted` |
| `trade_stale_plan` | 2 players, 2 items, 1 slot; overlapping handlers, failing saves | violation: a stale plan passes the commit-time checks |
| `presence_exclusive` | 3 connections, 2 accounts, 3 characters, versions ≤ 4; one open session per login, nobody else in the accounts of a give, failing store | `TypeOK`, `RegistrationIsOwner`, `RowIsLive`, `NoRollback` |
| `presence_shared` | 2 connections on the same accounts, first characters of two accounts with one VID; gives overlap with everything, undoing saves may fail | `OneLiveEntry`, `NoGhostGame`, and under fairness `WaiterGetsIn` |
| `presence_hijack` | connections that share a login | violation: selecting a character takes over its owner's name |
| `item_world` | 2 characters, 2 items and a coin, one cell each, 2 handles one of which both can hit, trades of one item and the coin; failing saves, crashes between handlers | `TypeOK`, `OneHolder`, `CopiesAgree`, `BoundWhilePresent`, `FileIsGround`, `NothingVanishes`, `DealIsWhole`, `ExclusiveRespected` |
| `item_contend` | the same with two cells, overlapping handlers | violation: a dropped item is back in its owner's row |
| `possessions` | 2 carried cells, 1 wear cell, 2 quickslots, 2 safebox cells, 3 templates, instance IDs ≤ 4, gold ≤ 1; failing saves of both stores | `TypeOK`, `CopiesAgree`, `OneOfEach`, `BindingsHold`, `PaneIsBox`, and the refinement `KeepsTheBooks` |
| `aggro` | 2 players with 2 blows of life, a mob with 2 and target switch, 3 places | `TypeOK`, `DeadAreFree`, `HeldSparesNobody`, `PartiesAreConnected`, `LocksAreKept`, `ReleaseMarks`, `SparedWhileUp`, and under fairness `RisesAgain` |
| `aggro_pack` | 2 players with 1 blow of life, a pack of 2 mobs with shared HP, assist and sync respawn, 2 places | `DeadAreFree`, `PackWaitsTogether`, `LocksAreKept` |
| `aggro_fallen` | as `aggro` | violation: a player who lies dead loses the mark that should spare him |

### Why the bounds are enough

*Trade.* A shell has two sides; what a third player can do is to be in a shell
with one of them before or after, which three players show. Two items let each side display one, or one
side two, and reach the bag limit and the gold limit. Larger values repeat
these cases; the theorems cover them all.

*Presence.* Two connections contend for one character, and a third can come
between an `EnterRefresh` and its `EnterJoin`. Two characters in one account show
what a save does to a sibling, one in another account what clashing numbers do.
A version only has to go up twice while somebody else holds an old one. With versions up
to 4 two gives and two commits of the receiver fit, before, between and after. In `presence_shared`
deadlock is not checked: two gives to each other wait for each other's `stateMu`, each
holding its own, and stay so. `presence_exclusive` does check it.

*Items.* An item that is doubled or lost involves two holders and one handle; the
second handle distinguishes a character's own from a shared one. One cell makes
the capacity bite at once. No state constraint is used: the instances are
finite.

*Goods.* Two cells are what a move, a merge, a split and a swap are about; the
template with two to a cell fills one and overflows it, the other two cannot be
stacked and are worn in turn. With four instance IDs a split may need an ID that
lies in the safebox. Gold of one lets every price be met once and the carrier be
full. The run treats quickslots, and safebox cells, as interchangeable: no action
compares or orders them (a new instance goes to a carried cell, and carried cells keep their
order). `RestoreFails`, `BoxLoadFails` and `MayLose` are FALSE in this run: with
any of them the promise is broken (below); the theorems say which properties do not depend on
them.

*Aggro.* Two players are a holder and a rival, or one who is up while the other
lies down. Places 0, 1 and 2 with radius and reach 1 are on the mob, beside it, and away
from it. Two hits leave a mob undamaged, damaged, dead. With `MaxOpen = 2` both players
may be inside a handler. `aggro_pack` exchanges two players (`Alike`), which no
definition distinguishes: ties between candidates, which the code breaks by
entity ID, are a free choice in the model. It has no liveness property, with
which symmetry would not be sound. `RisesAgain` is checked without
`SyncRespawn`: polls revive due mobs one lock section at a time, and a mate killed between two
of them postpones the next, for as long as somebody goes on killing.

### Fairness

Two runs need fairness. In `presence_shared`, `WF(EnterJoin)` and `WF(DropLeave)` say
that a handler, and `onClose`, come to their end: both are straight-line code that waits
for mutexes only. `WF(EnterRefresh)` says that a client that is left in LOADING
sends ENTERGAME again; that is the retry the protocol document
`runtime-reconnect-cleanup.md` describes, an assumption about the client. `WaiterGetsIn`
speaks of the case that the other connections do end; nothing forces them to.

In `aggro`, `WF(Continue(p))` again says that handlers end, `WF(Tick)` that the
clock runs, and `WF(SomebodyHere /\ Respawn(m))` that a connected session's poll
(`newQueuedSessionFlow`, run by the connection loop every time round) revives a
mob that is due. Nothing revives mobs of an empty world, and `RisesAgain` does not ask it.

### What the violations are

Each of the four contradicts a sentence of the repository, quoted in `PROJECT.json`:

* **`trade_stale_plan`.** `CommitExchangeFinalize` re-validates items, gold and
  capacity of the live characters, but not that the shell still shows and accepts
  what the plan says, nor that the characters it overwrites are those it copied.
* **`presence_hijack`.** The name is registered when a character is *selected*;
  the duplicate is only rejected at ENTERGAME.
* **`item_contend`.** A give saves and applies the copy of the receiver it made
  before two account saves, over whatever the receiver has done since.
* **`aggro_fallen`.** A scan drops the marks of everybody who is not a candidate,
  and a player at the HP floor is none, so that the mark made for his fall does
  not survive until `/restart_here` when another player is up.

### Observed on the way

Other things the models show and no run of this project repeats:

* With `StoreFails = TRUE` in `TradeShellTriple.cfg`, `ScreenMatchesShell` is violated:
  `EmitExchangePersistFailReject` (`shared_world.go:1205`) ends the trade of the
  plan's partner without asking whether the two are still paired.
* With two connections on one account, ENTERGAME may join with an older version
  of the character: the account is read before the join and not again after it
  (`factory.go:7490`), and the session that plays it may save and leave in between.
* With `Contend = TRUE` in `PresenceExclusive.cfg`, `RowIsLive` and `NoRollback` are violated
  although every login has one session, while `RegistrationIsOwner` is not. The
  receiver commits after a give has cloned it (`factory.go:11536`) and again before the give applies:
  its row and runtime differ. Or it leaves after the clone and deletes the character: the save of the give
  (`factory.go:11637`) brings it back, and its undo writes the row as it was loaded.
  `item_contend` shows the same window with items.
* With `RestoreFails = TRUE` in `PresenceExclusive.cfg`, `RowIsLive` is violated: the giver's row keeps what an ignored
  undo was to take back.
* With `Contend = TRUE` in `PresenceShared.cfg` and deadlock checked, two gives to each other wait for ever.
* With `Contend = TRUE` in `ItemWorld.cfg`, `NothingVanishes` is violated by two drops that map
  to one handle: both find it free, both save, and the second registration is refused and
  its refusal ignored (`factory.go:7113`). `OneHolder` is violated when a trade's partner drops something
  between apply and commit and the commit is refused: the plan's copy is put back (`factory.go:11953`). With
  a second guest and a second coin `OneHolder` and `DealIsWhole` are violated by two purchases of different goods
  (`factory.go:11801`).
* With `MayLose = TRUE`, a session that lost its place checks goods in: the safebox
  is saved, the account commit reports success without saving
  (`factory.go:6407`), and after the next login the goods are in both.
* With `RestoreFails` or `BoxLoadFails`, goods can be in both stores, or a safebox
  that could not be read is overwritten with an empty one (`factory.go:9160`, `5112`).
* An item that does not stack cannot be moved to an empty carried cell:
  `HandleItemMove` (`factory.go:9668-9674`) forces a swap with the same kind, which
  `MoveInventoryItemBounded` (`runtime.go:765-769`) grants for an occupied cell only.

## 4. The theorems

All of them hold for every value of the constants that satisfies the named
assumptions of the module; none assumes fairness. `tlapm` checks every leaf.

**TradeShell_proofs.** `TypeCorrect` is inductive as it stands. `PairsStayMutual`,
`NothingSurvivesClose` and `OneAcceptAtRest` follow from `ShellInv`, their
conjunction: `NoResidue` needs mutual pairs (clearing both sides of a pair must not
leave a third player pointing at one of them), and the accept marks need `NoResidue` (a
fresh pair starts without marks). `AcceptKeepsItsTerms` is the action property
from the same invariant. `SerialCommitIsAccepted` assumes `~Overlap`; its
invariant `PlanFresh` says that the plan in flight is the shell's content, which any
step of another session would break. `SerialTradesKeepItems` takes that further: with it
`NoItemTwice` is inductive, since a commit then swaps displayed items of two bags that are
still what was copied. `ScreensFollowTheShell` needs `~Overlap` or `~StoreFails`: with both
faults `ScreenMatchesShell` is false (see "Observed on the way"), and either hypothesis
ensures that a plan that fails is still a plan of two who trade.

**SessionPresence_proofs.** `PresenceTypeCorrect`, `NoGhostInGame` and
`OneEntryPerCharacter` need nothing but the assumptions on identities:
`NoGhostGame` is strengthened by what `entering` implies about the phase (`LoadingInv`) and by
where a session is while it gives (`GivesInv`). They hold for every value of the switches.

The other three rest on two layers. `NameLeadsToOwner` assumes `Exclusive` and unique
names (`NamesApart`) and nothing else: gives may overlap with everything and
every save may fail. Its invariant `NamesInv` says that accounts are kept apart
(`AccountsApart`) and that a name leads to the session that plays it. `PlaysThePersistedRow` and
`NoSaveTakesBack` assume `~Contend` and `~RestoreFails` as well, without each of which TLC
refutes the first of them ("Observed on the way"). Their invariant `CopiesInv` adds that no two gives
share an account (`GivesApart`), that the cached ticket agrees with the rows or is ahead of
them by a character whose creation was refused, and, for every give under way, how far it has come
(`GiveInv`): the receiver is still the player it found when it began (`PeerInv`); the copy and the
rows it has read are what the parties hold (`ReadInv`); and what it has saved, account by account (`SavedInv`).
Every step of a give has a lemma of its own; the steps of other sessions leave a give
alone because they are in other accounts.

**ItemWorld_proofs.** No theorem here assumes that handlers do not overlap, so
they hold of the contended system too.
`ItemWorldTypeCorrect` contains more than types: no bag, including the copies
handlers carry, ever exceeds its cells. The strengthening `TypeInv` says that
what a handler has computed fits (`PickFits`, `DealFits`); it is preserved
because the runtime of a session in a handler is overwritten by nobody else
(`PeerReached` waits for its lock), and because gives, purchases and trades save and apply
the very copy whose room they checked. `OwnersKeepTheirHandles` and
`FileKeepsTheGround` follow from `FloorInv`, the conjunction of the two with
`FileUnbound` (a record in the file names no session), without which a restart
could bring a handle bound to a session that no longer exists.

**OneHolder_proofs.** What an item's place is cannot be said of one variable: in the
middle of a deal it is in two rows, or in none. All theorems here assume `Orderly`:
`~Contend`, without which `item_contend` is a counterexample; `~CrashMidway`, since the
code keeps no journal of a half-done handler; and `~RestoreFails`, since an undo that fails leaves half
of it. First saves may fail, peers leave and the server restart between handlers. The
invariant `Order` has four parts. `Disjoint`: handlers under way share neither
characters nor things. `Rest`: a character in the world whom no handler is about is
`Settled`, its three copies agree. `JobInv(c)`: how far a deal has come can be read off the
rows (`RowsSaved`) and the copies (`Applied`, `CopiesApplied`), and a drop or a pickup still
finds its handle as it resolved it. `ItemInv(i)`: an item in a handler's hands is in
nobody else's row and on no other spot, any other is in one row or in one spot. The steps
of the model fall into classes by what they do to `Order` (`Aside`, `DealBegins`,
`DealMoves`, `DealEnds`, `WorkMoves`; leaving and the restart stand by themselves); each class
has a lemma that it keeps `Order`, and each action is shown to belong to its class. From `Order`
follow `ItemsHaveOneHolder` and `CharactersCopiesAgree`; the action properties
`WhatIsHeldStays`, `DealsAreWhole` and `ExclusiveIsRespected` need it of the state the step
starts from. `DropsRemoveTheItem` is the property `item_contend` violates, proved for handlers that
do not overlap. The assumption that handles are no items only says that the two kinds of IDs
that `Things` puts into one set are told apart.

**Possessions_proofs.** For any catalog, any number of cells, wear cells,
quickslots and safebox cells, and with every switch free unless said otherwise.
`IInv == PacksInv /\ WindowsInv /\ BoxInv`: every copy of the pack is `Sound` (of
its type, quickslots pointing at goods) and, while the session owns its place, the three
have the same goods; the dialog and windows are typed; the safebox and its table
are. `Sound` must hold of `kept` and `row` too, because a rollback or a new
login makes them live. One lemma per operation of `Pack` says that it keeps packs
sound, one per way of committing that it hands soundness on; the handlers
follow. `PossessionsTypeCorrect`, `PossessionsCopiesAgree` and `QuickslotsBound`
are its conjuncts; `SafeboxShown` adds `PaneIsBox` to the invariant and assumes
`~BoxLoadFails` and `~RestoreFails`.

**OneOfEach_proofs.** With every switch free. `Sole` says of a pack that no ID is in two
places, as a statement about IDs only. Most operations of `Pack` leave every ID where it
is or take it away (`Fewer`), some exchange two places, and a split or a grant makes one new
ID, one more than all that are carried or worn (`FreshSole`, `NextIdFresh`). `CommitSole`
reduces every handler to the packs it may commit: `Sole` must hold of `kept` and `row` as
well, which a rollback or a login makes live (`RowsAreValid`). In the safebox it must hold of
the table `pane` and of the file, as a refused exchange puts the table back; tables
with duplicates are refused by `Storable`, which is `validateSnapshot`. That the pack the
character comes with has no duplicates (`StartAssumption`) is what the account store
checks of every account (`accountstore/store.go:1166`).

**Books_proofs.** `PossessionsKeepTheBooks` is the refinement `Spec => KeepsTheBooks` for
any catalog and any bounds. It assumes what the run assumes, `~MayLose`,
`~BoxLoadFails` and `~RestoreFails`, without each of which goods are doubled or lost ("Observed on the
way"); saves of both stores may fail at any time. The first part is about heaps,
sets of pieces `<<place, number>>`: what changing one place or moving between two does
to their cardinality (`TotalChanged`, `TotalMoved`). `TotalClamped` shows that what
`Reduced` takes from the cells in order adds up to what was asked, by numbering the pieces; it
is what a refine and a grant over several stacks rest on. The second part says of each operation of
`Pack` what it does to the amounts of each kind (`CarriedCounts`, …, `ConsumedCounts`,
`GrantedCounts`) and to the effects of gear (`GearChanged`). The third takes the
handlers one by one: the moving ones are `Quiet`, and so is every handler whose save is
refused (`RolledQuiet`); the others are the ledger's action of their name, or `Quiet`. The
invariant `BooksInv` adds to that of `SafeboxShown` that the session keeps its place and
that the refine dialog names a kind that can be refined. The proof is about the values of
the mapping only; the witnesses are the number sold, the result of a refine and how
many scrolls it took.

**Aggro_proofs.** For any places, mobs, finite packs, radii, hit points, delays and number
of open handlers, without fairness (`PackAssumption` says besides that no mob has the name of a
section, so that the two can stand in one list). `IInv == TypeOK /\ MobsInv /\ TargetsInv /\
SectionsInv`. `MobsInv` says that every mob's record is `Sound`: a dead mob has no
holder, a held one no marks, holders and the spared are connected, the parked are
not. `SectionsInv` is what makes that inductive: what a handler has still to
run is done by a session that still can. An assist, and each mate that is to join, has a foe, a target is
selected for a connected player only, and nothing comes after a leave, so that no late
section can mark or lock for somebody who has gone. Each function on a mob's record (`Engaged`, `LetGo`,
`Slain`, …) has a lemma that it preserves soundness. `AggroDeadAreFree`,
`AggroHeldSparesNobody` and `AggroPartiesAreConnected` follow. The action properties
`AggroLocksAreKept`, `AggroReleaseMarks` and `AggroSparedWhileUp` are proved
together from `Tame`, which each step is shown to satisfy for every mob.
`AggroPackWaitsTogether` adds itself to `IInv`: `Lasts` says which steps leave hit
points and waits alone, and strike, respawn and tick have lemmas of their own.

### Only model-checked

`WaiterGetsIn` and `RisesAgain`: liveness under fairness is outside what the installed
provers do, and so are induction over data and recursive operators, of which no module
has any. Every safety property of a passing run is stated by a theorem; five groups of
theorems have hypotheses on the switches, which the run that checks
the property meets: `SerialCommitIsAccepted` and `SerialTradesKeepItems`; `ScreensFollowTheShell`; the
three of `Exclusive`, of which two need `~Contend` and `~RestoreFails` too; those of `OneHolder_proofs`; `SafeboxShown` and `PossessionsKeepTheBooks`.

## 5. What is not modelled

Packet layouts, chat wording and frame contents; coordinates on two axes and their
width; sockets and attributes, level, job and race restrictions; kill rewards; the
operator's edits, despawn and ground restore; the mall, the cube, quests,
catalogs, migrations; the file protocols of the stores. Of the mobs, everything
that moves them: chase, homeward and return steps, whose schedules have a race of
their own (`factory.go:2568`), and what a restart of the daemon restores.
Delivery of a picked item to its owner (`executeSelectedItemPickup`, the owner branch) is dead
code, because `groundItemExclusiveOwnershipBlocksCollector` refuses every other
collector while a handle is exclusive; no action stands for it.

The models cover the parts of `factory.go`, `shared_world.go` and
`player/runtime.go` where sessions, stores and timers meet. Most of the rest of the
repository (bundles, operator pages, migrations, codecs, catalogs) validates or renders data
without state, which tests with examples reach better.

## 6. Plan

In this order, each with its instance, properties and theorems:

1. **Departures**: `Contend` weakened, so that a receiver may leave during a give but nobody
   begins to work on its account; TLC finds `RowIsLive` and `NoRollback` to hold, the
   proof needs `PeerInv` split into a receiver here and one gone.
2. **Settlement**: `TradeShell` composed with the account commit of `PeerDeals`,
   against an abstract all-or-nothing settlement as refinement.
3. **LockOrder**: `stateMu` of two sessions, the registry and the name table;
   who can wait for whom (two gives to each other can, as `SessionPresence` shows).
4. **Chase**: the schedules of chase, homeward and return steps and their
   copy-and-restore, on top of `Aggro`, with mobs that leave their home.
5. **FrameQueue**: the order of queued and answered frames; visibility diffs as a
   refinement of "the client shows what is visible".
6. **Distance**: `ApproxDistance` at 32 bits against a reference definition.
7. **Stores**: write, sync, rename under crashes; one-shot tickets.
8. **Shutdown**: the connection tracker of `internal/service`.
