---------------------------- MODULE Possessions -----------------------------
(***************************************************************************)
(* The goods of one character, carried, worn and stored: the handlers of   *)
(* Belongings and Deposit together, and what must hold of them.            *)
(***************************************************************************)
EXTENDS Deposit

CONSTANT Start    \* the pack the character comes with

ASSUME StartAssumption == Start \in PackType /\ Bound(Start) /\ Apart(Start)

Init ==
    /\ live = Start /\ kept = Start /\ row = Start
    /\ owns = TRUE /\ shop = FALSE /\ boxOpen = FALSE /\ dialog = NoDialog
    /\ box = [cells |-> EmptyCells, money |-> 0] /\ pane = EmptyCells

Counts == UNION {0..Catalog[k].max : k \in Kind}
stored == <<box, pane>>

Carry ==
    /\ \E c, d \in Cell : UseOn(c, d) \/ \E n \in Counts : Move(c, d, n)
    /\ UNCHANGED stored
Dress ==
    /\ \E c \in Cell, w \in Wear : Equip(c, w) \/ Replace(c, w) \/ Unequip(w, c)
    /\ UNCHANGED stored
Quickslots ==
    /\ \E q \in Position :
          \/ QuickslotDel(q)
          \/ \E c \in Cell : QuickslotAdd(q, c)
          \/ \E r \in Position : QuickslotSwap(q, r)
    /\ UNCHANGED stored
Trade ==
    /\ \/ OpenShop \/ CloseShop
       \/ \E o \in Offer : Buy(o)
       \/ \E c \in Cell, n \in Counts : Sell(c, n)
    /\ UNCHANGED stored
Craft ==
    /\ CancelRefine \/ \E c \in Cell, s \in BOOLEAN : Preview(c, s) \/ Confirm(c, s)
    /\ UNCHANGED stored
Body ==
    /\ RestartHere \/ (\E n \in 1..MaxHit : Hurt(n)) \/ \E c \in Cell : Use(c)
    /\ UNCHANGED stored
Session == (LoseWorld \/ Reenter) /\ UNCHANGED stored

Next ==
    \/ Carry \/ Dress \/ Quickslots \/ Trade \/ Craft \/ Body \/ Session
    \/ OpenBox \/ CloseBox
    \/ \E c \in Cell, b \in BoxCell : CheckIn(c, b) \/ CheckOut(b, c)
    \/ \E b, d \in BoxCell, n \in Counts : MoveInBox(b, d, n)
    \/ \E x \in 1..MaxGold : SaveMoney(x) \/ WithdrawMoney(x)

Spec == Init /\ [][Next]_vars

TypeOK ==
    /\ {live, kept, row} \subseteq PackType
    /\ {owns, shop, boxOpen} \subseteq BOOLEAN
    /\ dialog \in Dialog
    /\ box \in BoxType /\ pane \in [BoxCell -> MaybeStack]

Goods(p) == [bag |-> p.bag, worn |-> p.worn, bar |-> p.bar, gold |-> p.gold]

\* While the session is in the world its live goods, the snapshot the next save starts
\* from and the account's row are the same, whatever was refused.
CopiesAgree == owns => Goods(live) = Goods(kept) /\ Goods(kept) = Goods(row)

\* No two stacks that are carried or worn have one instance ID, and no two in the safebox.
OneOfEach == Apart(live) /\ Distinct(box.cells)

\* A quickslot never points at an empty cell, and no two at the same one, whatever is
\* moved, used up, worn, sold, refined, stored or undone.
BindingsHold == Bound(live)

\* What the open safebox shows is what its file holds.
PaneIsBox == boxOpen /\ owns => pane = box.cells

StacksOf(p, k) ==
    CountIn(p, CellsOf(p, k)) + Cardinality(Pieces(p.worn, {w \in Wear : p.worn[w].kind = k}))
Stored(k) == Cardinality(Pieces(box.cells, {b \in BoxCell : box.cells[b].kind = k}))

\* The points that gear adds, less those it takes.
Points(f) == Cardinality(UNION {{w} \X (1..f[w]) : w \in Wear})
GearEffect(p) ==
    Points([w \in Wear |-> Effect(p.worn[w])]) - Points([w \in Wear |-> -Effect(p.worn[w])])

Books == INSTANCE Ledger WITH
    total <- [k \in Kind |-> StacksOf(row, k) + Stored(k)],
    gold <- row.gold + box.money,
    body <- live.pts - GearEffect(live),
    due <- kept.pts - GearEffect(kept),
    saved <- row.pts - GearEffect(row),
    dead <- ~Alive

\* On disk nothing appears, disappears or turns into something else but by a purchase, a
\* sale, a potion drunk or a refine, each at its price; and gear adds to the points what
\* taking it off takes back.
KeepsTheBooks == Books!Spec
=============================================================================
