------------------------------ MODULE Deposit -------------------------------
(***************************************************************************)
(* The safebox.  Its cells and its money are rows of one snapshot file,    *)
(* beside those of every other character; a session that opened it works   *)
(* on its own table of the cells (activeSafeboxItems) and saves the whole  *)
(* table.  Moving goods in or out is two saves, the safebox first and the  *)
(* account second, and a refused save is answered by putting back what was *)
(* there; that save's own result is ignored.                               *)
(***************************************************************************)
EXTENDS Belongings

CONSTANTS
    BoxCell,      \* safebox cells
    Elsewhere,    \* instance IDs that other characters' rows of the file hold
    BoxFails,     \* may the safebox store refuse a save?
    BoxLoadFails, \* may it fail to be read when the safebox is opened or its money asked for?
    RestoreFails  \* may the save that undoes an earlier one fail?

ASSUME BoxAssumption ==
    /\ {BoxFails, BoxLoadFails, RestoreFails} \subseteq BOOLEAN
    /\ IsFiniteSet(BoxCell) /\ Elsewhere \subseteq Nat

VARIABLES
    box,    \* the character's row of the safebox file
    pane    \* the session's table of its cells

vars == <<packs, owns, windows, box, pane>>

EmptyCells == [b \in BoxCell |-> NoStack]
BoxType == [cells: [BoxCell -> MaybeStack], money: 0..MaxGold]
IdsIn(cells) == {cells[b].id : b \in BoxCell} \ {0}

Opened == boxOpen /\ Alive

-----------------------------------------------------------------------------
(* Saves.                                                                  *)

\* validateSnapshot refuses an ID that the file holds twice, in one row or in two.
Distinct(cells) == \A b, d \in BoxCell : b # d /\ cells[b] # NoStack => cells[b].id # cells[d].id
Storable(cells) == IdsIn(cells) \cap Elsewhere = {} /\ Distinct(cells)

\* Fault: a refused account save leaves the safebox as it was saved.
ExchangeNoRestore(q, t) ==
    \/ /\ Storable(t) /\ (CommitSucceeds(q) \/ CommitSkipped \/ CommitFails(q))
       /\ pane' = t /\ box' = [box EXCEPT !.cells = t]
       /\ shop' = FALSE
    \/ /\ ~Storable(t) \/ BoxFails
       /\ RolledBack
       /\ UNCHANGED <<pane, box, shop>>

\* The goods become q and the table t.  After a refused account save, or a refused
\* safebox save, the old table is saved again.
Exchange(q, t) ==
    \/ /\ Storable(t) /\ (CommitSucceeds(q) \/ CommitSkipped)
       /\ pane' = t /\ box' = [box EXCEPT !.cells = t]
       /\ shop' = FALSE
    \/ /\ Storable(t) /\ CommitFails(q)
       /\ pane' = pane
       /\ \/ box' = [box EXCEPT !.cells = pane]
          \/ RestoreFails /\ box' = [box EXCEPT !.cells = t]
       /\ shop' = shop
    \/ /\ ~Storable(t) \/ BoxFails
       /\ RolledBack
       /\ pane' = pane
       /\ \/ box' = [box EXCEPT !.cells = pane]
          \/ BoxFails /\ box' = box
       /\ shop' = shop

-----------------------------------------------------------------------------
(* Opening and closing.                                                    *)

\* hydrateActiveSafeboxFromStore: a file that cannot be read is an empty table.
OpenBox ==
    /\ Alive
    /\ boxOpen' = TRUE
    /\ \/ pane' = box.cells
       \/ BoxLoadFails /\ pane' = EmptyCells
    /\ UNCHANGED <<packs, owns, shop, dialog, box>>

\* By command, or by walking away.  The table stays until the next opening.
CloseBox ==
    /\ boxOpen /\ boxOpen' = FALSE
    /\ UNCHANGED <<packs, owns, shop, dialog, box, pane>>

-----------------------------------------------------------------------------
(* Goods.                                                                  *)

CheckIn(c, b) ==
    /\ Opened /\ live.bag[c] # NoStack /\ pane[b] = NoStack
    /\ Exchange(Less(live, c, live.bag[c].n), [pane EXCEPT ![b] = live.bag[c]])
    /\ UNCHANGED <<owns, boxOpen, dialog>>

\* Fault: the ID is not looked for.
CheckOutAnyId(b, c) ==
    LET s == pane[b]
        t == live.bag[c]
    IN  /\ Opened /\ s # NoStack
        /\ t = NoStack \/ (t.kind = s.kind /\ t.n + s.n <= Catalog[s.kind].max)
        /\ Exchange(Put(live, c, IF t = NoStack THEN s ELSE [t EXCEPT !.n = @ + s.n]),
                    [pane EXCEPT ![b] = NoStack])
        /\ UNCHANGED <<owns, boxOpen, dialog>>

\* To an empty cell, when nothing carried or worn has the ID; or onto a stack that
\* takes it all.
CheckOut(b, c) ==
    LET s == pane[b]
        t == live.bag[c]
    IN  /\ Opened /\ s # NoStack
        /\ \/ t = NoStack /\ s.id \notin IdsOf(live)
           \/ t.kind = s.kind /\ t.n + s.n <= Catalog[s.kind].max
        /\ Exchange(Put(live, c, IF t = NoStack THEN s ELSE [t EXCEPT !.n = @ + s.n]),
                    [pane EXCEPT ![b] = NoStack])
        /\ UNCHANGED <<owns, boxOpen, dialog>>

NextBoxId ==
    LET ids == IdsOf(live) \cup IdsIn(pane) \cup {0}
    IN  1 + CHOOSE i \in ids : \A j \in ids : j <= i

\* Fault: a refused save leaves the table as it was moved.
RearrangedAnyway(t) ==
    /\ \/ Storable(t) /\ pane' = t /\ box' = [box EXCEPT !.cells = t] /\ shop' = FALSE
       \/ (~Storable(t) \/ BoxFails) /\ pane' = t /\ UNCHANGED <<box, shop>>
    /\ UNCHANGED <<packs, owns, boxOpen, dialog>>

\* Within the safebox only its table is saved; a refused save restores the table.
Rearranged(t) ==
    /\ \/ Storable(t) /\ pane' = t /\ box' = [box EXCEPT !.cells = t] /\ shop' = FALSE
       \/ (~Storable(t) \/ BoxFails) /\ UNCHANGED <<pane, box, shop>>
    /\ UNCHANGED <<packs, owns, boxOpen, dialog>>

\* n = 0 asks for the stack.
MoveInBox(b, d, n) ==
    LET s == pane[b]
        t == pane[d]
        m == IF n = 0 THEN s.n ELSE n
        left == IF m = s.n THEN NoStack ELSE [s EXCEPT !.n = @ - m]
    IN  /\ Opened /\ b # d /\ s # NoStack /\ m <= s.n
        /\ \/ /\ t = NoStack /\ m = s.n
              /\ Rearranged([pane EXCEPT ![b] = NoStack, ![d] = s])
           \/ /\ t = NoStack /\ m < s.n /\ NextBoxId \in 1..MaxId
              /\ Rearranged([pane EXCEPT ![b] = left, ![d] = [s EXCEPT !.id = NextBoxId, !.n = m]])
           \/ /\ t.kind = s.kind /\ t.n + m <= Catalog[s.kind].max
              /\ Rearranged([pane EXCEPT ![b] = left, ![d].n = @ + m])

-----------------------------------------------------------------------------
(* Money.                                                                  *)

\* durableSafeboxMoney: a file that cannot be read holds none.
MoneyRead == {box.money} \cup IF BoxLoadFails THEN {0} ELSE {}

\* The gold becomes q's and the safebox's money m, where m0 was read before.
ExchangeMoney(q, m0, m) ==
    /\ \/ (CommitSucceeds(q) \/ CommitSkipped) /\ box' = [box EXCEPT !.money = m] /\ shop' = FALSE
       \/ /\ CommitFails(q) /\ shop' = shop
          /\ box' \in {[box EXCEPT !.money = x] : x \in {m0} \cup IF RestoreFails THEN {m} ELSE {}}
       \/ BoxFails /\ RolledBack /\ UNCHANGED <<box, shop>>
    /\ UNCHANGED <<owns, boxOpen, dialog, pane>>

SaveMoney(x) ==
    /\ Opened /\ live.gold >= x
    /\ \E m0 \in MoneyRead :
          /\ m0 + x <= MaxGold
          /\ ExchangeMoney([live EXCEPT !.gold = @ - x], m0, m0 + x)

WithdrawMoney(x) ==
    /\ Opened /\ live.gold + x <= MaxGold
    /\ \E m0 \in MoneyRead :
          /\ m0 >= x
          /\ ExchangeMoney([live EXCEPT !.gold = @ + x], m0, m0 - x)
=============================================================================
