----------------------------- MODULE Belongings -----------------------------
(***************************************************************************)
(* The carried goods of the character a session plays.  The runtime keeps  *)
(* two copies, the live one and the persisted snapshot the next save       *)
(* starts from; the third is the account's row.  A handler runs under the  *)
(* session's stateMu from start to end, so it is one action: it changes    *)
(* the live copy, saves, and undoes the change when the save is refused.   *)
(***************************************************************************)
EXTENDS Pack

CONSTANTS
    Offer,        \* what merchants sell: [kind, n, price]
    Catalyst,     \* the scroll a refine by scroll consumes
    MaxHit,       \* bound: the damage of one hit
    FullPoints,   \* what a restart gives back
    StoreFails,   \* may the account store refuse a save?
    MayLose       \* may the session lose its place in the shared world to another?

ASSUME OfferAssumption ==
    \A o \in Offer : o.kind \in Kind /\ o.n \in 1..Catalog[o.kind].max /\ o.price \in Nat \ {0}
ASSUME SwitchAssumption == {StoreFails, MayLose} \subseteq BOOLEAN /\ Catalyst \in Kind
ASSUME RestartAssumption == FullPoints \in 1..MaxPoints /\ MaxHit \in Nat

VARIABLES
    live,      \* the live state of the player runtime
    kept,      \* its persisted snapshot
    row,       \* the character in the account's row, and in the session's ticket
    owns,      \* the shared world still has this session
    shop,      \* a merchant window is open
    boxOpen,   \* the safebox is open
    dialog     \* the refine dialog shown last

packs == <<live, kept, row>>
windows == <<shop, boxOpen, dialog>>

NoDialog == [cell |-> NoCell, scroll |-> FALSE, id |-> 0, kind |-> NoKind]
Dialog == [cell: Cell, scroll: BOOLEAN, id: 1..MaxId, kind: Kind] \cup {NoDialog}

Alive == live.pts > 0
IdsLeft == NextId(live) \in 1..MaxId

-----------------------------------------------------------------------------
(* Commits.                                                                *)

\* ApplyPersistedSnapshot(previousSelected): the runtime goes back to what was live,
\* the persisted snapshot too.
RolledBack == live' = live /\ kept' = live /\ row' = row

\* The snapshot takes the goods and the difference of the points.
Saved(q) == [q EXCEPT !.pts = kept.pts + (q.pts - live.pts)]

CommitSucceeds(q) ==
    /\ owns /\ InRange(Saved(q).pts)
    /\ row' = Saved(q) /\ kept' = Saved(q) /\ live' = q

\* Fault: the snapshot is put back, the live copy is not.
CommitFailsKeepsLive(q) ==
    owns /\ (StoreFails \/ ~InRange(Saved(q).pts)) /\ live' = q /\ kept' = live /\ row' = row
CommitFails(q) == owns /\ (StoreFails \/ ~InRange(Saved(q).pts)) /\ RolledBack

\* A session that lost its place answers as if it had committed, and has not.
CommitSkipped == ~owns /\ RolledBack

Commit(q) == CommitSucceeds(q) \/ CommitFails(q) \/ CommitSkipped

\* Uses and merchant deals return before the commit, and before its rollback.
CommitOrKeep(q) ==
    \/ CommitSucceeds(q) \/ CommitFails(q)
    \/ ~owns /\ live' = q /\ UNCHANGED <<kept, row>>

-----------------------------------------------------------------------------
(* Moving, wearing, binding.                                               *)

\* HandleItemMove between carried cells; n = 0 asks for all that fits.
Move(c, d, n) ==
    LET s == live.bag[c]
        t == live.bag[d]
        all == n \in {0, s.n}
        room == Catalog[s.kind].max - t.n
    IN  /\ Alive /\ c # d /\ s # NoStack
        /\ \/ Stackable(s.kind) /\ all /\ t.kind # s.kind /\ Commit(Carried(live, c, d))
           \/ ~Stackable(s.kind) /\ t.kind = s.kind /\ Commit(Carried(live, c, d))
           \/ /\ Stackable(s.kind) /\ t.kind = s.kind /\ room > 0 /\ n <= Min({room, s.n})
              /\ Commit(Poured(live, c, d, IF n = 0 THEN Fitting(live, c, d) ELSE n))
           \/ /\ Stackable(s.kind) /\ t = NoStack /\ n \in 1..(s.n - 1) /\ IdsLeft
              /\ Commit(Parted(live, c, d, n))
        /\ UNCHANGED <<owns, windows>>

\* HandleItemUseToItem: one stack is dragged onto another of its kind.
UseOn(c, d) ==
    LET s == live.bag[c]
        t == live.bag[d]
    IN  /\ Alive /\ c # d /\ s # NoStack /\ Stackable(s.kind)
        /\ t.kind = s.kind /\ t.n < Catalog[s.kind].max
        /\ Commit(Poured(live, c, d, Fitting(live, c, d)))
        /\ UNCHANGED <<owns, windows>>

Wearable(c, w) == Alive /\ live.bag[c] # NoStack /\ Catalog[live.bag[c].kind].wear = w

Equip(c, w) ==
    LET q == Worn(live, c, w)
        x == Effect(live.bag[c])
    IN  /\ Wearable(c, w) /\ live.worn[w] = NoStack
        /\ IF InRange(live.pts + x) THEN Commit(Boosted(q, x)) ELSE RolledBack
        /\ UNCHANGED <<owns, windows>>

\* The worn item's effect goes first; when either is out of range nothing is done.
Replace(c, w) ==
    LET lost == -Effect(live.worn[w])
        x == lost + Effect(live.bag[c])
    IN  /\ Wearable(c, w) /\ live.worn[w] # NoStack
        /\ InRange(live.pts + lost) /\ InRange(live.pts + x)
        /\ Commit(Boosted(Exchanged(live, c, w), x))
        /\ UNCHANGED <<owns, windows>>

Unequip(w, c) ==
    LET x == -Effect(live.worn[w])
    IN  /\ Alive /\ live.worn[w] # NoStack /\ live.bag[c] = NoStack
        /\ IF InRange(live.pts + x) THEN Commit(Boosted(TakenOff(live, w, c), x))
           ELSE RolledBack
        /\ UNCHANGED <<owns, windows>>

QuickslotAdd(q, c) ==
    /\ Alive /\ live.bag[c] # NoStack
    /\ Commit(Bind(live, q, c))
    /\ UNCHANGED <<owns, windows>>

QuickslotDel(q) ==
    /\ Alive /\ live.bar[q] # NoCell
    /\ Commit([live EXCEPT !.bar[q] = NoCell])
    /\ UNCHANGED <<owns, windows>>

QuickslotSwap(q, r) ==
    /\ Alive /\ q # r /\ {live.bar[q], live.bar[r]} # {NoCell}
    /\ Commit(SwapBindings(live, q, r))
    /\ UNCHANGED <<owns, windows>>

-----------------------------------------------------------------------------
(* Using, buying, selling.                                                 *)

Use(c) ==
    LET x == Catalog[live.bag[c].kind].drink
    IN  /\ Alive /\ live.bag[c] # NoStack /\ x # 0 /\ InRange(live.pts + x)
        /\ CommitOrKeep(Boosted(Less(live, c, 1), x))
        /\ UNCHANGED <<owns, windows>>

OpenShop == Alive /\ ~shop /\ shop' = TRUE /\ UNCHANGED <<packs, owns, boxOpen, dialog>>
CloseShop == shop /\ shop' = FALSE /\ UNCHANGED <<packs, owns, boxOpen, dialog>>

Buy(o) ==
    /\ Alive /\ shop /\ live.gold >= o.price /\ HasRoom(live, o.kind, o.n) /\ IdsLeft
    /\ CommitOrKeep([Granted(live, o.kind, o.n) EXCEPT !.gold = @ - o.price])
    /\ UNCHANGED <<owns, windows>>

\* n = 0 sells the stack.
Sell(c, n) ==
    LET s == live.bag[c]
        sold == IF n = 0 THEN s.n ELSE n
        credit == sold * Catalog[s.kind].credit
    IN  /\ Alive /\ shop /\ s # NoStack /\ n <= s.n /\ live.gold + credit <= MaxGold
        /\ CommitOrKeep([Less(live, c, sold) EXCEPT !.gold = @ + credit])
        /\ UNCHANGED <<owns, windows>>

-----------------------------------------------------------------------------
(* Refining.                                                               *)

Asked(c, scroll) == dialog # NoDialog /\ dialog.cell = c /\ dialog.scroll = scroll

Preview(c, scroll) ==
    LET s == live.bag[c]
    IN  /\ Alive /\ ~Asked(c, scroll) /\ s # NoStack /\ Catalog[s.kind].into # NoKind
        /\ dialog' = [cell |-> c, scroll |-> scroll, id |-> s.id, kind |-> s.kind]
        /\ shop' = FALSE
        /\ UNCHANGED <<packs, owns, boxOpen>>

CancelRefine ==
    /\ Alive /\ dialog # NoDialog
    /\ dialog' = NoDialog
    /\ UNCHANGED <<packs, owns, shop, boxOpen>>

Outcomes(k) == {Catalog[k].into, Catalog[k].fail}
Turned(p, c, k) == IF k = NoKind THEN Unbound(Put(p, c, NoStack), c) ELSE [p EXCEPT !.bag[c].kind = k]

\* The result, then the scroll, then one commit; the dialog goes when that succeeds.
Confirm(c, scroll) ==
    LET t == Catalog[dialog.kind]
        paid == [live EXCEPT !.gold = @ - t.cost]
        done(k) == Turned(Consumed(paid, t.needs.kind, t.needs.n, {c}), c, k)
    IN  /\ Alive /\ Asked(c, scroll) /\ ~shop /\ ~boxOpen
        /\ live.bag[c].id = dialog.id /\ live.bag[c].kind = dialog.kind /\ live.bag[c].n = 1
        /\ live.gold >= t.cost /\ Has(live, t.needs.kind, t.needs.n, {c})
        /\ scroll => Has(live, Catalyst, 1, {c})
        /\ \E k \in Outcomes(dialog.kind) :
              IF scroll /\ ~Has(done(k), Catalyst, 1, {c})
              THEN RolledBack /\ dialog' = dialog
              ELSE LET q == IF scroll THEN Consumed(done(k), Catalyst, 1, {c}) ELSE done(k)
                   IN  \/ (CommitSucceeds(q) \/ CommitSkipped) /\ dialog' = NoDialog
                       \/ CommitFails(q) /\ dialog' = dialog
        /\ UNCHANGED <<owns, shop, boxOpen>>

-----------------------------------------------------------------------------
(* Damage, restarts, the session itself.                                   *)

Shut == shop' = FALSE /\ boxOpen' = FALSE /\ dialog' = NoDialog

\* commitSelectedDeathFloorPersistenceFrames: the live points stay whatever becomes of
\* the save.  At the floor every window closes.
Hurt(n) ==
    LET q == [live EXCEPT !.pts = Max({0, @ - n})]
        k == [kept EXCEPT !.pts = q.pts]
    IN  /\ Alive
        /\ \/ owns /\ live' = q /\ kept' = k /\ row' = k
           \/ owns /\ StoreFails /\ live' = q /\ UNCHANGED <<kept, row>>
           \/ ~owns /\ q.pts > 0 /\ live' = q /\ UNCHANGED <<kept, row>>
           \/ ~owns /\ q.pts = 0 /\ RolledBack
        /\ IF q.pts = 0 THEN Shut ELSE UNCHANGED windows
        /\ UNCHANGED owns

\* restart_here: from the persisted snapshot, the gear's effects notwithstanding.
RestartHere ==
    LET k == [kept EXCEPT !.pts = FullPoints]
    IN  /\ owns /\ ~Alive
        /\ live' = k /\ kept' = k /\ row' = k
        /\ boxOpen' = FALSE /\ dialog' = NoDialog /\ UNCHANGED shop
        /\ UNCHANGED owns

LoseWorld == MayLose /\ owns /\ owns' = FALSE /\ UNCHANGED <<packs, windows>>

\* The session ends, or the process does, and the character enters again.
Reenter == live' = row /\ kept' = row /\ row' = row /\ owns' = TRUE /\ Shut
=============================================================================
