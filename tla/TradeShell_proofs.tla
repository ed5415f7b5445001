------------------------- MODULE TradeShell_proofs -------------------------
(***************************************************************************)
(* Proofs about TradeShell, for every set of entities, items and slots and *)
(* every carrier maximum, with overlapping handlers and failing saves.     *)
(***************************************************************************)
EXTENDS TradeShell, TLAPS

\* What a plan keeps of the checks the second accept ran: with it the settled
\* purses stay in range although a commit computes them from the plan's copies.
PlanSound ==
    \A e \in Entity : plan[e] # NoPlan =>
        LET p == plan[e] IN
        /\ p.pay <= p.me.purse /\ p.get <= p.them.purse
        /\ p.me.purse + p.get <= CarrierMax
        /\ p.them.purse + p.pay <= CarrierMax

TypeInv == TypeOK /\ PlanSound

-----------------------------------------------------------------------------
(* Type correctness.                                                       *)

\* Goods and gold that change hands leave a well-formed character.
LEMMA SettledType ==
    ASSUME NEW c \in Character, NEW out \in SUBSET Item, NEW in \in SUBSET Item,
           NEW pay \in Purse, NEW get \in Purse,
           pay <= c.purse, c.purse + get <= CarrierMax
    PROVE  Settled(c, out, in, pay, get) \in Character
<1>1. c.purse - pay + get \in Purse
    BY CarrierMaxAssumption DEF Character, Purse
<1>2. (c.bag \ out) \cup in \in SUBSET Item
    BY DEF Character
<1> QED  BY <1>1, <1>2 DEF Settled, Character

\* The three ways of clearing keep the four maps of the shell typed.
LEMMA ClearType ==
    ASSUME TypeOK, NEW e \in Entity, ClearShell(e)
    PROVE  /\ partner' \in [Entity -> Entity \cup {NoEntity}]
           /\ shown' \in [Entity -> Display]
           /\ offer' \in [Entity -> Purse]
           /\ accepted' \in [Entity -> BOOLEAN]
<1>1. EmptyDisplay \in Display  BY DEF EmptyDisplay, Display
<1>2. 0 \in Purse  BY CarrierMaxAssumption DEF Purse
<1> QED  BY <1>1, <1>2 DEF ClearShell, TypeOK

LEMMA EndType ==
    ASSUME TypeOK, NEW told, EndFrames(told)
    PROVE  screen' \in [Entity -> Entity \cup {NoEntity}]
BY DEF TypeOK, EndFrames

LEMMA DisplayItems ==
    ASSUME NEW d \in Display
    PROVE  ItemsIn(d) \in SUBSET Item
BY ItemAssumption DEF Display, ItemsIn

\* A second accept hands out a typed plan whose settlement is affordable.
LEMMA PlanOfType ==
    ASSUME TypeOK, NEW e \in Entity, Trading(e), OwnGoldLive(e), FinalChecks(e)
    PROVE  /\ PlanOf(e) \in Plan
           /\ PlanOf(e).pay <= PlanOf(e).me.purse
           /\ PlanOf(e).get <= PlanOf(e).them.purse
           /\ PlanOf(e).me.purse + PlanOf(e).get <= CarrierMax
           /\ PlanOf(e).them.purse + PlanOf(e).pay <= CarrierMax
<1>1. partner[e] \in Entity  BY DEF Trading, Paired, TypeOK
<1>2. ItemsIn(shown[e]) \in SUBSET Item /\ ItemsIn(shown[partner[e]]) \in SUBSET Item
    BY <1>1, DisplayItems DEF TypeOK
<1>3. PlanOf(e) \in Plan
    BY <1>1, <1>2 DEF PlanOf, Plan, TypeOK
<1>4. /\ offer[e] <= char[e].purse /\ offer[partner[e]] <= char[partner[e]].purse
      /\ char[e].purse + offer[partner[e]] <= CarrierMax
      /\ char[partner[e]].purse + offer[e] <= CarrierMax
    BY DEF OwnGoldLive, FinalChecks, CanReceive
<1> QED  BY <1>3, <1>4 DEF PlanOf

LEMMA TypeInit == Init => TypeInv
<1> SUFFICES ASSUME Init PROVE TypeInv  OBVIOUS
<1>1. EmptyDisplay \in Display  BY DEF EmptyDisplay, Display
<1>2. 0 \in Purse  BY CarrierMaxAssumption DEF Purse
<1> QED  BY <1>1, <1>2 DEF Init, TypeInv, TypeOK, PlanSound

LEMMA TypeExchange ==
    ASSUME TypeInv, NEW e \in Entity, Exchange(e)
    PROVE  TypeInv'
<1> USE DEF TypeInv
<1>1. 0 \in Purse  BY CarrierMaxAssumption DEF Purse
<1>2. ASSUME NEW t \in Entity, StartExchange(e, t) PROVE TypeInv'
    BY <1>1, <1>2 DEF StartExchange, TypeOK, PlanSound
<1>3. CASE CancelExchange(e)
  <2>1. ClearShell(e) /\ EndFrames(Sides(e))  BY <1>3 DEF CancelExchange, CloseBoth
  <2>2. UNCHANGED <<life, char, busy, plan, closing>>  BY <1>3 DEF CancelExchange
  <2> QED  BY <2>1, <2>2, ClearType, EndType DEF TypeOK, PlanSound
<1>4. ASSUME NEW s \in Slot, NEW i \in Item, AddExchangeItem(e, s, i) PROVE TypeInv'
    BY <1>4 DEF AddExchangeItem, ResetAccepts, TypeOK, PlanSound, Display
<1>5. ASSUME NEW s \in Slot, RemoveExchangeItem(e, s) PROVE TypeInv'
    BY <1>5 DEF RemoveExchangeItem, ResetAccepts, TypeOK, PlanSound, Display
<1>6. ASSUME NEW amount \in Purse, AddExchangeGold(e, amount) PROVE TypeInv'
    BY <1>6 DEF AddExchangeGold, ResetAccepts, TypeOK, PlanSound
<1>7. CASE AcceptFirst(e)
    BY <1>7 DEF AcceptFirst, TypeOK, PlanSound
<1>8. CASE AcceptRefused(e)
  <2>1. ClearShell(e) /\ EndFrames(Sides(e))  BY <1>8 DEF AcceptRefused, CloseBoth
  <2>2. UNCHANGED <<life, char, busy, plan, closing>>  BY <1>8 DEF AcceptRefused
  <2> QED  BY <2>1, <2>2, ClearType, EndType DEF TypeOK, PlanSound
<1>9. CASE AcceptSecond(e)
  <2>1. Trading(e) /\ OwnGoldLive(e) /\ FinalChecks(e)  BY <1>9 DEF AcceptSecond
  <2>2. plan' = [plan EXCEPT ![e] = PlanOf(e)]  BY <1>9 DEF AcceptSecond
  <2>3. UNCHANGED <<life, char, busy, partner, shown, offer, accepted, closing, screen>>
      BY <1>9 DEF AcceptSecond, shellVars
  <2>4. TypeOK'  BY <2>1, <2>2, <2>3, PlanOfType DEF TypeOK
  <2>5. PlanSound'  BY <2>1, <2>2, <2>3, PlanOfType DEF PlanSound, TypeOK
  <2> QED  BY <2>4, <2>5
<1> QED  BY <1>2, <1>3, <1>4, <1>5, <1>6, <1>7, <1>8, <1>9 DEF Exchange

LEMMA TypeFinalize ==
    ASSUME TypeInv, NEW e \in Entity, Finalize(e)
    PROVE  TypeInv'
<1> USE DEF TypeInv
<1>1. CASE CommitDone(e)
  <2> DEFINE p == plan[e]
  <2>1. p \in Plan  BY <1>1 DEF CommitDone, TypeOK
  <2>2. Settled(p.me, p.mine, p.theirs, p.pay, p.get) \in Character
    <3>1. p.pay <= p.me.purse /\ p.me.purse + p.get <= CarrierMax
        BY <1>1 DEF CommitDone, PlanSound
    <3> QED  BY <2>1, <3>1, SettledType DEF Plan
  <2>3. Settled(p.them, p.theirs, p.mine, p.get, p.pay) \in Character
    <3>1. p.get <= p.them.purse /\ p.them.purse + p.pay <= CarrierMax
        BY <1>1 DEF CommitDone, PlanSound
    <3> QED  BY <2>1, <3>1, SettledType DEF Plan
  <2>4. char' \in [Entity -> Character]
      BY <1>1, <2>1, <2>2, <2>3 DEF CommitDone, TypeOK
  <2>5. ClearShell(e) /\ EndFrames(Sides(e))  BY <1>1 DEF CommitDone, CloseBoth
  <2>6. plan' = [plan EXCEPT ![e] = NoPlan] /\ UNCHANGED <<life, busy, closing>>
      BY <1>1 DEF CommitDone
  <2>7. TypeOK'  BY <2>4, <2>5, <2>6, ClearType, EndType DEF TypeOK
  <2> QED  BY <2>6, <2>7 DEF PlanSound, TypeOK
<1>2. CASE CommitRefused(e)
  <2>1. ClearShell(e) /\ EndFrames(Sides(e))  BY <1>2 DEF CommitRefused, CloseBoth
  <2>2. plan' = [plan EXCEPT ![e] = NoPlan] /\ UNCHANGED <<life, char, busy, closing>>
      BY <1>2 DEF CommitRefused
  <2> QED  BY <2>1, <2>2, ClearType, EndType DEF TypeOK, PlanSound
<1>3. CASE FinalizeAbandoned(e)
    BY <1>3 DEF FinalizeAbandoned, shellVars, TypeOK, PlanSound
<1>4. CASE PersistFailed(e)
  <2>1. plan' = [plan EXCEPT ![e] = NoPlan] /\ UNCHANGED <<life, char, busy, closing>>
      BY <1>4 DEF PersistFailed
  <2>2. CASE Paired(e)
    <3>1. ClearShell(e) /\ EndFrames({e, plan[e].with})  BY <1>4, <2>2 DEF PersistFailed
    <3> QED  BY <2>1, <3>1, ClearType, EndType DEF TypeOK, PlanSound
  <2>3. CASE ~Paired(e)
    <3>1. UNCHANGED <<partner, shown, offer, accepted>> /\ EndFrames({plan[e].with})
        BY <1>4, <2>3 DEF PersistFailed, shellVars
    <3> QED  BY <2>1, <3>1, EndType DEF TypeOK, PlanSound
  <2> QED  BY <2>2, <2>3
<1> QED  BY <1>1, <1>2, <1>3, <1>4 DEF Finalize

\* CloseIfPaired either clears a pair or leaves shell and screens alone.
LEMMA CloseIfPairedType ==
    ASSUME TypeOK, NEW e \in Entity, CloseIfPaired(e)
    PROVE  /\ partner' \in [Entity -> Entity \cup {NoEntity}]
           /\ shown' \in [Entity -> Display]
           /\ offer' \in [Entity -> Purse]
           /\ accepted' \in [Entity -> BOOLEAN]
           /\ screen' \in [Entity -> Entity \cup {NoEntity}]
<1>1. CASE Paired(e)
    BY <1>1, ClearType, EndType DEF CloseIfPaired, CloseBoth
<1>2. CASE ~Paired(e)
    BY <1>2 DEF CloseIfPaired, shellVars, TypeOK
<1> QED  BY <1>1, <1>2

\* One character changes a field.
LEMMA CharacterFields ==
    ASSUME NEW c \in Character
    PROVE  /\ \A bag \in SUBSET Item, purse \in Purse :
                 [[c EXCEPT !.bag = bag] EXCEPT !.purse = purse] \in Character
           /\ \A purse \in Purse : [c EXCEPT !.purse = purse] \in Character
           /\ \A place \in Place : [c EXCEPT !.place = place] \in Character
BY DEF Character

LEMMA OneCharacter ==
    ASSUME TypeOK, NEW e \in Entity, NEW c \in Character
    PROVE  [char EXCEPT ![e] = c] \in [Entity -> Character]
BY DEF TypeOK

LEMMA TypeDrift ==
    ASSUME TypeInv, NEW e \in Entity, Drift(e)
    PROVE  TypeInv'
<1> USE DEF TypeInv
<1>1. ASSUME NEW bag \in SUBSET Item, NEW purse \in Purse, MutateCarried(e, bag, purse)
      PROVE  TypeInv'
  <2>1. char' = [char EXCEPT ![e] = [[char[e] EXCEPT !.bag = bag] EXCEPT !.purse = purse]]
      BY <1>1 DEF MutateCarried, TypeOK
  <2>2. char[e] \in Character  BY DEF TypeOK
  <2>3. char' \in [Entity -> Character]
      BY <2>1, <2>2, CharacterFields, OneCharacter
  <2>4. UNCHANGED <<life, busy, shellVars, plan, screen>>
      BY <1>1 DEF MutateCarried
  <2>5. closing' \in [Entity -> BOOLEAN]
      BY <1>1 DEF MutateCarried, TypeOK
  <2> QED  BY <2>3, <2>4, <2>5 DEF shellVars, TypeOK, PlanSound
<1>2. ASSUME NEW amount \in Purse, DropGold(e, amount) PROVE TypeInv'
  <2>1. char[e].purse - amount \in Purse
      BY <1>2, CarrierMaxAssumption DEF DropGold, TypeOK, Character, Purse
  <2>2. char' = [char EXCEPT ![e] = [char[e] EXCEPT !.purse = char[e].purse - amount]]
      BY <1>2 DEF DropGold, TypeOK
  <2>3. char[e] \in Character  BY DEF TypeOK
  <2>4. char' \in [Entity -> Character]
      BY <2>1, <2>2, <2>3, CharacterFields, OneCharacter
  <2> QED  BY <1>2, <2>4 DEF DropGold, shellVars, TypeOK, PlanSound
<1>3. ASSUME NEW i \in Item, NEW amount \in Purse, ShopSale(e, i, amount) PROVE TypeInv'
  <2>1. char[e].purse + amount \in Purse
      BY <1>3, CarrierMaxAssumption DEF ShopSale, TypeOK, Character, Purse
  <2>2. char' = [char EXCEPT ![e] =
                  [char[e] EXCEPT !.bag = char[e].bag \ {i},
                                  !.purse = char[e].purse + amount]]
      BY <1>3 DEF ShopSale, TypeOK, Character
  <2>3. char[e] \in Character /\ char[e].bag \ {i} \in SUBSET Item
      BY DEF TypeOK, Character
  <2>4. char' \in [Entity -> Character]
      BY <2>1, <2>2, <2>3, CharacterFields, OneCharacter
  <2> QED  BY <1>3, <2>4 DEF ShopSale, shellVars, TypeOK, PlanSound
<1>4. ASSUME NEW i \in Item, MallCheckout(e, i) \/ DeliverItem(e, i) PROVE TypeInv'
  <2>1. char' = [char EXCEPT ![e].bag = @ \cup {i}]
      BY <1>4 DEF MallCheckout, DeliverItem
  <2>2. char' \in [Entity -> Character]  BY <2>1 DEF TypeOK, Character
  <2>3. UNCHANGED <<life, busy, shellVars, plan, closing, screen>>
      BY <1>4 DEF MallCheckout, DeliverItem
  <2> QED  BY <2>2, <2>3 DEF shellVars, TypeOK, PlanSound
<1>5. ASSUME NEW place \in Place, Move(e, place) PROVE TypeInv'
  <2>5. char' = [char EXCEPT ![e] = [char[e] EXCEPT !.place = place]]
      BY <1>5 DEF Move, TypeOK
  <2>6. char[e] \in Character  BY DEF TypeOK
  <2>1. char' \in [Entity -> Character]
      BY <2>5, <2>6, CharacterFields, OneCharacter
  <2>2. UNCHANGED <<life, busy, plan, closing>>  BY <1>5 DEF Move
  <2>3. CASE Dissolves(e, char'[e])
    <3>1. ClearShell(e) /\ EndFrames(Sides(e))  BY <1>5, <2>3 DEF Move, CloseBoth
    <3> QED  BY <2>1, <2>2, <3>1, ClearType, EndType DEF TypeOK, PlanSound
  <2>4. CASE ~Dissolves(e, char'[e])
    BY <1>5, <2>1, <2>2, <2>4 DEF Move, shellVars, TypeOK, PlanSound
  <2> QED  BY <2>3, <2>4
<1>6. CASE FallToFloor(e) \/ Restart(e)
  <2>1. PICK fallen \in BOOLEAN : char' = [char EXCEPT ![e].down = fallen]
      BY <1>6 DEF FallToFloor, Restart
  <2>2. char' \in [Entity -> Character]  BY <2>1 DEF TypeOK, Character
  <2>3. UNCHANGED <<life, busy, shellVars, plan, screen>>
      BY <1>6 DEF FallToFloor, Restart
  <2>4. closing' \in [Entity -> BOOLEAN]
      BY <1>6 DEF FallToFloor, Restart, TypeOK
  <2> QED  BY <2>2, <2>3, <2>4 DEF shellVars, TypeOK, PlanSound
<1>7. CASE CloseExchange(e)
    BY <1>7, CloseIfPairedType DEF CloseExchange, TypeOK, PlanSound
<1>8. CASE SetWindow(e)
    BY <1>8 DEF SetWindow, shellVars, TypeOK, PlanSound
<1> QED  BY <1>1, <1>2, <1>3, <1>4, <1>5, <1>6, <1>7, <1>8 DEF Drift

LEMMA TypeStep == TypeInv /\ [Next]_vars => TypeInv'
<1> SUFFICES ASSUME TypeInv, [Next]_vars PROVE TypeInv'  OBVIOUS
<1>1. CASE Next
  <2>1. PICK e \in Entity : Exchange(e) \/ Finalize(e) \/ Drift(e) \/ Join(e) \/ Leave(e)
      BY <1>1 DEF Next
  <2>2. CASE Join(e)
      BY <2>2 DEF Join, shellVars, TypeInv, TypeOK, PlanSound
  <2>3. CASE Leave(e)
      BY <2>3, CloseIfPairedType DEF Leave, TypeInv, TypeOK, PlanSound
  <2> QED  BY <2>1, <2>2, <2>3, TypeExchange, TypeFinalize, TypeDrift
<1>2. CASE UNCHANGED vars
    BY <1>2 DEF vars, TypeInv, TypeOK, PlanSound
<1> QED  BY <1>1, <1>2

\* Every reachable state is well typed: in particular no purse leaves the range
\* the gold carrier allows although commits settle copies taken earlier.
THEOREM TypeCorrect == Spec => []TypeOK
<1>1. TypeInv => TypeOK  BY DEF TypeInv
<1> QED  BY TypeInit, TypeStep, <1>1, PTL DEF Spec

-----------------------------------------------------------------------------
(* The shell: pairs, leftovers and accept marks.                           *)

ShellSafe == PairsAreMutual /\ NoResidue /\ NeverBothAccepted
ShellInv == TypeInv /\ ShellSafe

\* Steps that touch neither the shell nor who is in the world.
LEMMA ShellUntouched ==
    ASSUME ShellSafe, UNCHANGED <<life, shellVars>>
    PROVE  ShellSafe'
BY DEF ShellSafe, PairsAreMutual, NoResidue, NeverBothAccepted, shellVars, Paired, Live

\* Clearing a pair removes both sides at once, so nobody is left pointing at
\* them; it does not matter whether the caller leaves the world as well.
LEMMA ShellCleared ==
    ASSUME TypeOK, ShellSafe, NEW e \in Entity, Paired(e), ClearShell(e),
           \A f \in Entity \ {e} : life'[f] = life[f]
    PROVE  ShellSafe'
<1> DEFINE q == partner[e]
<1>1. q \in Entity /\ q # e /\ partner[q] = e
    BY DEF ShellSafe, PairsAreMutual, Paired, TypeOK
<1>2. \A f \in Entity : f \notin {e, q} /\ Paired(f) => partner[f] \notin {e, q}
    BY <1>1 DEF ShellSafe, PairsAreMutual, Paired
<1>3. \A f \in Entity : IF f \in {e, q}
        THEN partner'[f] = NoEntity /\ shown'[f] = EmptyDisplay /\ offer'[f] = 0 /\ ~accepted'[f]
        ELSE partner'[f] = partner[f] /\ shown'[f] = shown[f] /\ offer'[f] = offer[f]
                /\ accepted'[f] = accepted[f]
    BY DEF ClearShell, Sides
<1>4. PairsAreMutual'
    BY <1>1, <1>2, <1>3, EntityAssumption
    DEF ShellSafe, PairsAreMutual, Paired, Live, TypeOK
<1>5. NoResidue'
    BY <1>3 DEF ShellSafe, NoResidue, Paired, EmptyDisplay
<1>6. NeverBothAccepted'
    BY <1>2, <1>3, EntityAssumption DEF ShellSafe, NeverBothAccepted, Paired, TypeOK
<1> QED  BY <1>4, <1>5, <1>6 DEF ShellSafe

\* A change of display or offer withdraws both accept marks of the pair.
LEMMA ShellRedisplayed ==
    ASSUME TypeOK, ShellSafe, NEW e \in Entity, Paired(e), ResetAccepts(e),
           UNCHANGED <<life, partner>>,
           \A f \in Entity \ {e} : shown'[f] = shown[f] /\ offer'[f] = offer[f]
    PROVE  ShellSafe'
<1>1. PairsAreMutual'
    BY DEF ShellSafe, PairsAreMutual, Paired, Live
<1>2. NoResidue'
    BY DEF ShellSafe, NoResidue, Paired, ResetAccepts, EmptyDisplay
<1>3. NeverBothAccepted'
    BY DEF ShellSafe, NeverBothAccepted, PairsAreMutual, Paired, ResetAccepts, Sides, TypeOK
<1> QED  BY <1>1, <1>2, <1>3 DEF ShellSafe

LEMMA CloseIfPairedSafe ==
    ASSUME TypeOK, ShellSafe, NEW e \in Entity, CloseIfPaired(e),
           \A f \in Entity \ {e} : life'[f] = life[f],
           life'[e] = life[e] \/ life'[e] = "gone"
    PROVE  ShellSafe'
<1>1. CASE Paired(e)
    BY <1>1, ShellCleared DEF CloseIfPaired, CloseBoth
<1>2. CASE ~Paired(e)
  <2>1. UNCHANGED <<partner, shown, offer, accepted>>
      BY <1>2 DEF CloseIfPaired, shellVars
  <2>2. \A f \in Entity : Paired(f) => f # e /\ partner[f] # e
      BY <1>2, EntityAssumption DEF ShellSafe, PairsAreMutual, Paired
  <2>3. PairsAreMutual'
      BY <2>1, <2>2 DEF ShellSafe, PairsAreMutual, Paired, Live, TypeOK
  <2> QED  BY <2>1, <2>3 DEF ShellSafe, NoResidue, NeverBothAccepted, Paired, EmptyDisplay
<1> QED  BY <1>1, <1>2

LEMMA ShellInit == Init => ShellSafe
BY DEF Init, ShellSafe, PairsAreMutual, NoResidue, NeverBothAccepted, Paired

LEMMA ShellExchange ==
    ASSUME TypeOK, ShellSafe, NEW e \in Entity, Exchange(e)
    PROVE  ShellSafe'
<1>1. ASSUME NEW t \in Entity, StartExchange(e, t) PROVE ShellSafe'
  <2>1. /\ t # e /\ ~Paired(e) /\ ~Paired(t) /\ Live(e) /\ Live(t)
        /\ partner' = [partner EXCEPT ![e] = t, ![t] = e]
        /\ offer' = [offer EXCEPT ![e] = 0, ![t] = 0]
        /\ accepted' = [accepted EXCEPT ![e] = FALSE, ![t] = FALSE]
        /\ UNCHANGED <<life, shown>>
      BY <1>1 DEF StartExchange, Idle
  <2>2. \A f \in Entity : Paired(f) => partner[f] \notin {e, t}
      BY <2>1, EntityAssumption DEF ShellSafe, PairsAreMutual, Paired
  <2>3. PairsAreMutual'
      BY <2>1, <2>2, EntityAssumption DEF ShellSafe, PairsAreMutual, Paired, Live, TypeOK
  <2>4. NoResidue'
      BY <2>1, EntityAssumption DEF ShellSafe, NoResidue, Paired, TypeOK, EmptyDisplay
  <2>5. NeverBothAccepted'
      BY <2>1, <2>2, EntityAssumption DEF ShellSafe, NeverBothAccepted, Paired, TypeOK
  <2> QED  BY <2>3, <2>4, <2>5 DEF ShellSafe
<1>2. CASE CancelExchange(e) \/ AcceptRefused(e)
    BY <1>2, ShellCleared DEF CancelExchange, AcceptRefused, CloseBoth, Trading
<1>3. ASSUME NEW s \in Slot, NEW i \in Item, AddExchangeItem(e, s, i) PROVE ShellSafe'
    BY <1>3, ShellRedisplayed DEF AddExchangeItem, Trading, TypeOK
<1>4. ASSUME NEW s \in Slot, RemoveExchangeItem(e, s) PROVE ShellSafe'
    BY <1>4, ShellRedisplayed DEF RemoveExchangeItem, Trading, TypeOK
<1>5. ASSUME NEW amount \in Purse, AddExchangeGold(e, amount) PROVE ShellSafe'
    BY <1>5, ShellRedisplayed DEF AddExchangeGold, Trading, TypeOK
<1>6. CASE AcceptFirst(e)
  <2>1. /\ Paired(e) /\ ~accepted[partner[e]]
        /\ accepted' = [accepted EXCEPT ![e] = TRUE]
        /\ UNCHANGED <<life, partner, shown, offer>>
      BY <1>6 DEF AcceptFirst, Trading
  <2>2. PairsAreMutual' /\ NoResidue'
      BY <2>1 DEF ShellSafe, PairsAreMutual, NoResidue, Paired, Live, TypeOK, EmptyDisplay
  <2>3. \A f \in Entity : Paired(f) /\ partner[f] = e => f = partner[e]
      BY DEF ShellSafe, PairsAreMutual
  <2>4. NeverBothAccepted'
      BY <2>1, <2>3 DEF ShellSafe, PairsAreMutual, NeverBothAccepted, Paired, TypeOK
  <2> QED  BY <2>2, <2>4 DEF ShellSafe
<1>7. CASE AcceptSecond(e)
    BY <1>7, ShellUntouched DEF AcceptSecond
<1> QED  BY <1>1, <1>2, <1>3, <1>4, <1>5, <1>6, <1>7 DEF Exchange

LEMMA ShellFinalize ==
    ASSUME TypeOK, ShellSafe, NEW e \in Entity, Finalize(e)
    PROVE  ShellSafe'
<1>1. CASE CommitDone(e) \/ CommitRefused(e)
  <2>1. plan[e] \in Plan
      BY <1>1 DEF CommitDone, CommitRefused, TypeOK
  <2>2. Paired(e)
      BY <1>1, <2>1, EntityAssumption
      DEF CommitDone, CommitRefused, PlanStillPaired, Paired, Plan
  <2>3. ClearShell(e) /\ UNCHANGED life
      BY <1>1 DEF CommitDone, CommitRefused, CloseBoth
  <2> QED  BY <2>2, <2>3, ShellCleared
<1>2. CASE FinalizeAbandoned(e)
    BY <1>2, ShellUntouched DEF FinalizeAbandoned
<1>3. CASE PersistFailed(e)
  <2>1. CASE Paired(e)
      BY <1>3, <2>1, ShellCleared DEF PersistFailed
  <2>2. CASE ~Paired(e)
      BY <1>3, <2>2, ShellUntouched DEF PersistFailed
  <2> QED  BY <2>1, <2>2
<1> QED  BY <1>1, <1>2, <1>3 DEF Finalize

LEMMA ShellDrift ==
    ASSUME TypeOK, ShellSafe, NEW e \in Entity, Drift(e)
    PROVE  ShellSafe'
<1>1. ASSUME NEW place \in Place, Move(e, place) PROVE ShellSafe'
  <2>1. CASE Dissolves(e, char'[e])
      BY <1>1, <2>1, ShellCleared DEF Move, CloseBoth, Dissolves
  <2>2. CASE ~Dissolves(e, char'[e])
      BY <1>1, <2>2, ShellUntouched DEF Move
  <2> QED  BY <2>1, <2>2
<1>2. CASE CloseExchange(e)
    BY <1>2, CloseIfPairedSafe DEF CloseExchange
<1>3. ASSUME UNCHANGED <<life, shellVars>> PROVE ShellSafe'
    BY <1>3, ShellUntouched
<1> QED  BY <1>1, <1>2, <1>3
         DEF Drift, MutateCarried, DropGold, ShopSale, MallCheckout, DeliverItem,
             FallToFloor, Restart, SetWindow

LEMMA ShellStep == TypeOK /\ ShellSafe /\ [Next]_vars => ShellSafe'
<1> SUFFICES ASSUME TypeOK, ShellSafe, [Next]_vars PROVE ShellSafe'  OBVIOUS
<1>1. CASE Next
  <2>1. PICK e \in Entity : Exchange(e) \/ Finalize(e) \/ Drift(e) \/ Join(e) \/ Leave(e)
      BY <1>1 DEF Next
  <2>2. CASE Join(e)
    <3>1. \A f \in Entity : Live(f) => Live(f)'
        BY <2>2 DEF Join, Live, TypeOK
    <3>2. UNCHANGED <<partner, shown, offer, accepted>>
        BY <2>2 DEF Join, shellVars
    <3> QED  BY <3>1, <3>2
             DEF ShellSafe, PairsAreMutual, NoResidue, NeverBothAccepted, Paired, TypeOK
  <2>3. CASE Leave(e)
      BY <2>3, CloseIfPairedSafe DEF Leave, TypeOK
  <2> QED  BY <2>1, <2>2, <2>3, ShellExchange, ShellFinalize, ShellDrift
<1>2. CASE UNCHANGED vars
    BY <1>2, ShellUntouched DEF vars, shellVars
<1> QED  BY <1>1, <1>2

LEMMA ShellInvariant == Spec => []ShellInv
<1>1. Init => ShellInv  BY TypeInit, ShellInit DEF ShellInv
<1>2. ShellInv /\ [Next]_vars => ShellInv'
    BY TypeStep, ShellStep DEF ShellInv, TypeInv
<1> QED  BY <1>1, <1>2, PTL DEF Spec

\* A trade always has two sides that point at each other and are in the world,
\* whatever order cancels, departures, deaths, moves and failed saves come in.
THEOREM PairsStayMutual == Spec => []PairsAreMutual
<1>1. ShellInv => PairsAreMutual  BY DEF ShellInv, ShellSafe
<1> QED  BY ShellInvariant, <1>1, PTL

\* No display, offer or accept mark outlives its shell, so StartExchange, which
\* does not clear the displays itself, always starts from an empty window.
THEOREM NothingSurvivesClose == Spec => []NoResidue
<1>1. ShellInv => NoResidue  BY DEF ShellInv, ShellSafe
<1> QED  BY ShellInvariant, <1>1, PTL

\* Two accept marks never rest side by side.
THEOREM OneAcceptAtRest == Spec => []NeverBothAccepted
<1>1. ShellInv => NeverBothAccepted  BY DEF ShellInv, ShellSafe
<1> QED  BY ShellInvariant, <1>1, PTL

-----------------------------------------------------------------------------
(* What an accept mark stands for.                                         *)

\* A step that leaves displays, offers and pairs alone leaves all terms alone.
LEMMA TermsUntouched ==
    ASSUME UNCHANGED <<partner, shown, offer>>
    PROVE  \A e \in Entity : Terms(e)' = Terms(e)
BY DEF Terms

\* Clearing drops the marks of both sides and touches no other pair's terms.
LEMMA TermsCleared ==
    ASSUME TypeOK, ShellSafe, NEW e \in Entity, Paired(e), ClearShell(e)
    PROVE  \A f \in Entity : accepted[f] /\ accepted'[f] => Terms(f)' = Terms(f)
<1> SUFFICES ASSUME NEW f \in Entity, accepted[f], accepted'[f]
             PROVE  Terms(f)' = Terms(f)
    OBVIOUS
<1>1. f \notin Sides(e)  BY DEF ClearShell
<1>2. Paired(f) /\ partner[f] \in Entity
    BY DEF ShellSafe, NeverBothAccepted, Paired, TypeOK
<1>3. partner[f] \notin Sides(e)
    BY <1>1, <1>2 DEF ShellSafe, PairsAreMutual, Sides, Paired
<1> QED  BY <1>1, <1>2, <1>3 DEF ClearShell, Terms

\* A new display or offer of e is seen by e and its partner alone, and both
\* marks are down after it.
LEMMA TermsRedisplayed ==
    ASSUME TypeOK, ShellSafe, NEW e \in Entity, Paired(e), ResetAccepts(e),
           UNCHANGED partner,
           \A f \in Entity \ {e} : shown'[f] = shown[f] /\ offer'[f] = offer[f]
    PROVE  \A f \in Entity : accepted[f] /\ accepted'[f] => Terms(f)' = Terms(f)
<1> SUFFICES ASSUME NEW f \in Entity, accepted[f], accepted'[f]
             PROVE  Terms(f)' = Terms(f)
    OBVIOUS
<1>1. f \notin Sides(e)  BY DEF ResetAccepts
<1>2. Paired(f) /\ partner[f] \in Entity
    BY DEF ShellSafe, NeverBothAccepted, Paired, TypeOK
<1>3. partner[f] # e
    BY <1>1, <1>2 DEF ShellSafe, PairsAreMutual, Sides
<1> QED  BY <1>1, <1>2, <1>3 DEF Terms, Sides

AcceptsStandFor == \A e \in Entity : accepted[e] /\ accepted'[e] => Terms(e)' = Terms(e)

LEMMA AcceptsExchange ==
    ASSUME TypeOK, ShellSafe, NEW e \in Entity, Exchange(e)
    PROVE  AcceptsStandFor
<1>1. ASSUME NEW t \in Entity, StartExchange(e, t) PROVE AcceptsStandFor
  <2> SUFFICES ASSUME NEW f \in Entity, accepted[f], accepted'[f]
               PROVE  Terms(f)' = Terms(f)
      BY DEF AcceptsStandFor
  <2>1. f \notin {e, t} /\ ~Paired(e) /\ ~Paired(t)
      BY <1>1 DEF StartExchange, TypeOK
  <2>2. Paired(f) /\ partner[f] \in Entity
      BY DEF ShellSafe, NeverBothAccepted, Paired, TypeOK
  <2>3. partner[f] \notin {e, t}
      BY <2>1, <2>2, EntityAssumption DEF ShellSafe, PairsAreMutual, Paired
  <2> QED  BY <1>1, <2>1, <2>2, <2>3 DEF StartExchange, Terms, TypeOK
<1>2. CASE CancelExchange(e) \/ AcceptRefused(e)
    BY <1>2, TermsCleared
    DEF CancelExchange, AcceptRefused, CloseBoth, Trading, AcceptsStandFor
<1>3. ASSUME NEW s \in Slot, NEW i \in Item, AddExchangeItem(e, s, i) PROVE AcceptsStandFor
    BY <1>3, TermsRedisplayed DEF AddExchangeItem, Trading, TypeOK, AcceptsStandFor
<1>4. ASSUME NEW s \in Slot, RemoveExchangeItem(e, s) PROVE AcceptsStandFor
    BY <1>4, TermsRedisplayed DEF RemoveExchangeItem, Trading, TypeOK, AcceptsStandFor
<1>5. ASSUME NEW amount \in Purse, AddExchangeGold(e, amount) PROVE AcceptsStandFor
    BY <1>5, TermsRedisplayed DEF AddExchangeGold, Trading, TypeOK, AcceptsStandFor
<1>6. CASE AcceptFirst(e) \/ AcceptSecond(e)
    BY <1>6, TermsUntouched DEF AcceptFirst, AcceptSecond, shellVars, AcceptsStandFor
<1> QED  BY <1>1, <1>2, <1>3, <1>4, <1>5, <1>6 DEF Exchange

LEMMA AcceptsFinalize ==
    ASSUME TypeOK, ShellSafe, NEW e \in Entity, Finalize(e)
    PROVE  AcceptsStandFor
<1>1. CASE CommitDone(e) \/ CommitRefused(e)
  <2>1. plan[e] \in Plan
      BY <1>1 DEF CommitDone, CommitRefused, TypeOK
  <2>2. Paired(e)
      BY <1>1, <2>1, EntityAssumption
      DEF CommitDone, CommitRefused, PlanStillPaired, Paired, Plan
  <2>3. ClearShell(e)
      BY <1>1 DEF CommitDone, CommitRefused, CloseBoth
  <2> QED  BY <2>2, <2>3, TermsCleared DEF AcceptsStandFor
<1>2. CASE FinalizeAbandoned(e)
    BY <1>2, TermsUntouched DEF FinalizeAbandoned, shellVars, AcceptsStandFor
<1>3. CASE PersistFailed(e)
  <2>1. CASE Paired(e)
      BY <1>3, <2>1, TermsCleared DEF PersistFailed, AcceptsStandFor
  <2>2. CASE ~Paired(e)
      BY <1>3, <2>2, TermsUntouched DEF PersistFailed, shellVars, AcceptsStandFor
  <2> QED  BY <2>1, <2>2
<1> QED  BY <1>1, <1>2, <1>3 DEF Finalize

LEMMA AcceptsCloseIfPaired ==
    ASSUME TypeOK, ShellSafe, NEW e \in Entity, CloseIfPaired(e)
    PROVE  AcceptsStandFor
<1>1. CASE Paired(e)
    BY <1>1, TermsCleared DEF CloseIfPaired, CloseBoth, AcceptsStandFor
<1>2. CASE ~Paired(e)
    BY <1>2, TermsUntouched DEF CloseIfPaired, shellVars, AcceptsStandFor
<1> QED  BY <1>1, <1>2

LEMMA AcceptsStep ==
    ASSUME TypeOK, ShellSafe, Next
    PROVE  AcceptsStandFor
<1>1. PICK e \in Entity : Exchange(e) \/ Finalize(e) \/ Drift(e) \/ Join(e) \/ Leave(e)
    BY DEF Next
<1>2. ASSUME UNCHANGED shellVars PROVE AcceptsStandFor
    BY <1>2, TermsUntouched DEF shellVars, AcceptsStandFor
<1>3. CASE Drift(e)
  <2>1. ASSUME NEW place \in Place, Move(e, place) PROVE AcceptsStandFor
    <3>1. CASE Dissolves(e, char'[e])
        BY <2>1, <3>1, TermsCleared DEF Move, CloseBoth, Dissolves, AcceptsStandFor
    <3>2. CASE ~Dissolves(e, char'[e])
        BY <2>1, <3>2, <1>2 DEF Move
    <3> QED  BY <3>1, <3>2
  <2>2. CASE CloseExchange(e)
      BY <2>2, AcceptsCloseIfPaired DEF CloseExchange
  <2> QED  BY <1>2, <1>3, <2>1, <2>2
           DEF Drift, MutateCarried, DropGold, ShopSale, MallCheckout, DeliverItem,
               FallToFloor, Restart, SetWindow
<1>4. CASE Join(e)  BY <1>2, <1>4 DEF Join
<1>5. CASE Leave(e)  BY <1>5, AcceptsCloseIfPaired DEF Leave
<1> QED  BY <1>1, <1>3, <1>4, <1>5, AcceptsExchange, AcceptsFinalize

\* An accept mark stands for the terms it was given for: in no step of any actor
\* does a mark survive a change of what the two sides display or offer.
THEOREM AcceptKeepsItsTerms == Spec => AcceptBindsTerms
<1>1. ShellInv /\ [Next]_vars => [AcceptsStandFor]_vars
    BY AcceptsStep DEF ShellInv, TypeInv
<1>2. ShellInv /\ [Next]_vars => [\A e \in Entity :
            accepted[e] /\ accepted'[e] => Terms(e)' = Terms(e)]_vars
    BY <1>1 DEF AcceptsStandFor
<1> QED  BY ShellInvariant, <1>2, PTL DEF Spec, AcceptBindsTerms

-----------------------------------------------------------------------------
(* Commits when no handler runs between two sections of another.           *)

\* The plan a handler carries is what the shell says at this very moment.
PlanFresh ==
    \A e \in Entity : plan[e] # NoPlan =>
        /\ accepted[partner[e]] /\ plan[e] = PlanOf(e)
        /\ ~closing[e] /\ \A f \in Entity \ {e} : ~InFlight(f)

\* With a plan under way and no overlap, only its own handler can step.
LEMMA OnlyFinalizerSteps ==
    ASSUME ~Overlap, PlanFresh, NEW g \in Entity, plan[g] # NoPlan, Next
    PROVE  Finalize(g)
<1>1. ~Scheduled  BY DEF Scheduled, InFlight
<1>2. PICK e \in Entity : Exchange(e) \/ Finalize(e) \/ Drift(e) \/ Join(e) \/ Leave(e)
    BY DEF Next
<1>3. ~Idle(e)  BY <1>1 DEF Idle
<1>4. ~Exchange(e)
    BY <1>3 DEF Exchange, StartExchange, CancelExchange, AddExchangeItem, RemoveExchangeItem,
                AddExchangeGold, AcceptFirst, AcceptRefused, AcceptSecond
<1>5. ~CloseExchange(e)
    BY DEF PlanFresh, CloseExchange, InFlight
<1>6. ~Drift(e)
    BY <1>1, <1>3, <1>5
    DEF Drift, MutateCarried, DropGold, ShopSale, MallCheckout, DeliverItem,
        FallToFloor, Restart, SetWindow, Move
<1>7. ~Join(e) /\ ~Leave(e)  BY <1>1, <1>3 DEF Join, Leave
<1>8. Finalize(e)  BY <1>2, <1>4, <1>6, <1>7
<1>9. plan[e] # NoPlan
    BY <1>8 DEF Finalize, CommitDone, CommitRefused, FinalizeAbandoned, PersistFailed
<1>10. e = g  BY <1>9 DEF PlanFresh, InFlight
<1> QED  BY <1>8, <1>10

\* A step out of a state without plans either makes one from the shell or none.
LEMMA PlanIsMade ==
    ASSUME TypeOK, \A g \in Entity : plan[g] = NoPlan, Next
    PROVE  UNCHANGED plan \/ \E e \in Entity : AcceptSecond(e)
<1>1. PICK e \in Entity : Exchange(e) \/ Finalize(e) \/ Drift(e) \/ Join(e) \/ Leave(e)
    BY DEF Next
<1>2. CASE Exchange(e)
    BY <1>2 DEF Exchange, StartExchange, CancelExchange, AddExchangeItem, RemoveExchangeItem,
                AddExchangeGold, AcceptFirst, AcceptRefused
<1>3. ~Finalize(e)
    BY DEF Finalize, CommitDone, CommitRefused, FinalizeAbandoned, PersistFailed
<1>4. CASE Drift(e)
    BY <1>4 DEF Drift, MutateCarried, DropGold, ShopSale, MallCheckout, DeliverItem,
                FallToFloor, Restart, SetWindow, Move, CloseExchange
<1>5. CASE Join(e) \/ Leave(e)  BY <1>5 DEF Join, Leave
<1> QED  BY <1>1, <1>2, <1>3, <1>4, <1>5

LEMMA PlanFreshStep ==
    ASSUME ~Overlap
    PROVE  TypeOK /\ PlanFresh /\ [Next]_vars => PlanFresh'
<1> SUFFICES ASSUME TypeOK, PlanFresh, [Next]_vars PROVE PlanFresh'  OBVIOUS
<1>1. ASSUME NEW g \in Entity, plan[g] # NoPlan, Next PROVE PlanFresh'
  <2>1. plan' = [plan EXCEPT ![g] = NoPlan]
      BY <1>1, OnlyFinalizerSteps
      DEF Finalize, CommitDone, CommitRefused, FinalizeAbandoned, PersistFailed
  <2>2. \A f \in Entity \ {g} : plan[f] = NoPlan
      BY <1>1 DEF PlanFresh, InFlight
  <2>3. \A f \in Entity : plan'[f] = NoPlan  BY <2>1, <2>2 DEF TypeOK
  <2> QED  BY <2>3 DEF PlanFresh
<1>2. ASSUME NEW e \in Entity, AcceptSecond(e) PROVE PlanFresh'
  <2>1. \A f \in Entity : ~InFlight(f)
      BY <1>2 DEF AcceptSecond, Idle, Scheduled
  <2>2. /\ plan' = [plan EXCEPT ![e] = PlanOf(e)] /\ accepted[partner[e]]
        /\ UNCHANGED <<char, partner, shown, offer, accepted, closing>>
      BY <1>2 DEF AcceptSecond, shellVars
  <2>3. PlanOf(e)' = PlanOf(e)  BY <2>2 DEF PlanOf
  <2> QED  BY <2>1, <2>2, <2>3 DEF PlanFresh, InFlight, TypeOK
<1>3. ASSUME \A g \in Entity : plan[g] = NoPlan, UNCHANGED plan PROVE PlanFresh'
    BY <1>3 DEF PlanFresh
<1>4. CASE UNCHANGED vars
  <2>1. UNCHANGED <<char, partner, shown, offer, accepted, plan, closing>>
      BY <1>4 DEF vars
  <2>2. \A e \in Entity : PlanOf(e)' = PlanOf(e)  BY <2>1 DEF PlanOf
  <2> QED  BY <2>1, <2>2 DEF PlanFresh, InFlight
<1> QED  BY <1>1, <1>2, <1>3, <1>4, PlanIsMade

\* Were handlers serial, every commit would settle terms the peer accepts at the
\* moment of the commit, between characters that have not changed since the plan.
THEOREM SerialCommitIsAccepted ==
    ASSUME ~Overlap
    PROVE  Spec => CommitIsAccepted
<1>1. Init => PlanFresh  BY DEF Init, PlanFresh
<1>2. TypeOK /\ PlanFresh /\ [Next]_vars => PlanFresh'  BY PlanFreshStep
<1>3. PlanFresh /\ [Next]_vars =>
        [\A e \in Entity :
           plan[e] # NoPlan /\ char'[e] # char[e] /\ plan'[e] = NoPlan => PlanIsCurrent(e)]_vars
  <2>1. ASSUME PlanFresh, NEW e \in Entity, plan[e] # NoPlan PROVE PlanIsCurrent(e)
    <3>1. accepted[partner[e]] /\ plan[e] = PlanOf(e)  BY <2>1 DEF PlanFresh
    <3>2. plan[e].with = partner[e]  BY <3>1 DEF PlanOf
    <3>3. accepted[plan[e].with]  BY <3>1, <3>2
    <3> QED  BY <3>1, <3>2, <3>3 DEF PlanOf, PlanIsCurrent
  <2> QED  BY <2>1
<1> QED  BY TypeCorrect, <1>1, <1>2, <1>3, PTL DEF Spec, CommitIsAccepted

-----------------------------------------------------------------------------
(* The goods, when no handler runs between two sections of another.        *)

\* Goods move within two bags that shared nothing and still share nothing, and no
\* other bag changes: no bag of the world comes to share anything.
LEMMA BagsStayApart ==
    ASSUME NoItemTwice, NEW e \in Entity, NEW q \in Entity,
           char'[e].bag \cap char'[q].bag = {} \/ e = q,
           char'[e].bag \cup char'[q].bag \subseteq
               char[e].bag \cup char[q].bag \cup {i \in Item : InNoBag(i)},
           \A f \in Entity \ {e, q} : char'[f].bag = char[f].bag
    PROVE  NoItemTwice'
<1> SUFFICES ASSUME NEW f \in Entity, NEW g \in Entity, f # g
             PROVE  char'[f].bag \cap char'[g].bag = {}
    BY DEF NoItemTwice
<1>1. ASSUME NEW x \in {e, q}, NEW y \in Entity \ {e, q}
      PROVE  char'[x].bag \cap char'[y].bag = {}
    BY <1>1 DEF NoItemTwice, InNoBag
<1>2. CASE f \in {e, q} /\ g \in {e, q}
    BY <1>2
<1>3. CASE f \notin {e, q} /\ g \notin {e, q}
    BY <1>3 DEF NoItemTwice
<1> QED  BY <1>1, <1>2, <1>3

\* One bag changes, by what nobody carries.
LEMMA OneBagChanges ==
    ASSUME NoItemTwice, NEW e \in Entity,
           char'[e].bag \subseteq char[e].bag \cup {i \in Item : InNoBag(i)},
           \A f \in Entity \ {e} : char'[f].bag = char[f].bag
    PROVE  NoItemTwice'
BY BagsStayApart

\* A commit moves the goods that the two bags hold at this moment.
LEMMA CommitMovesGoods ==
    ASSUME TypeOK, PairsAreMutual, PlanFresh, NoItemTwice, NEW e \in Entity, CommitDone(e)
    PROVE  NoItemTwice'
<1> DEFINE p == plan[e]
           q == partner[e]
<1>1. p \in Plan /\ p = PlanOf(e)
    BY DEF CommitDone, PlanFresh, TypeOK
<1>2. p.with = q /\ p.me = char[e] /\ p.them = char[q]
    BY <1>1 DEF PlanOf
<1>3. q \in Entity /\ q # e
    BY <1>1, <1>2, EntityAssumption DEF Plan, PairsAreMutual, Paired
<1>4. p.mine \subseteq char[e].bag /\ p.theirs \subseteq char[q].bag
    BY <1>2 DEF CommitDone, CommitChecks, StillLive
<1>5. /\ char' = [char EXCEPT ![e] = Settled(p.me, p.mine, p.theirs, p.pay, p.get),
                              ![q] = Settled(p.them, p.theirs, p.mine, p.get, p.pay)]
    BY <1>2 DEF CommitDone
<1>6. char[e] \in Character /\ char[q] \in Character
    BY <1>3 DEF TypeOK
<1> HIDE DEF p, q
<1>7. char'[e] = Settled(char[e], p.mine, p.theirs, p.pay, p.get)
    BY <1>2, <1>3, <1>5 DEF TypeOK
<1>8. char'[q] = Settled(char[q], p.theirs, p.mine, p.get, p.pay)
    BY <1>2, <1>3, <1>5 DEF TypeOK
<1>9. /\ char'[e].bag = (char[e].bag \ p.mine) \cup p.theirs
      /\ char'[q].bag = (char[q].bag \ p.theirs) \cup p.mine
    BY <1>6, <1>7, <1>8 DEF Settled, Character
<1>10. \A f \in Entity \ {e, q} : char'[f].bag = char[f].bag
    BY <1>5 DEF TypeOK
<1>11. char[e].bag \cap char[q].bag = {}
    BY <1>3 DEF NoItemTwice
<1> QED  BY <1>3, <1>4, <1>9, <1>10, <1>11, BagsStayApart

\* Whoever takes goods from outside takes what nobody carries.
LEMMA DriftMovesGoods ==
    ASSUME TypeOK, NoItemTwice, NEW e \in Entity, Drift(e)
    PROVE  NoItemTwice'
<1>1. ASSUME NEW bag \in SUBSET Item, NEW purse \in Purse, MutateCarried(e, bag, purse)
      PROVE  NoItemTwice'
  <2>1. bag \subseteq char[e].bag \cup {i \in Item : InNoBag(i)}
      BY <1>1 DEF MutateCarried, BagTurnover
  <2>2. char'[e].bag = bag /\ \A f \in Entity \ {e} : char'[f].bag = char[f].bag
      BY <1>1 DEF MutateCarried, TypeOK, Character
  <2> QED  BY <2>1, <2>2, OneBagChanges
<1>2. ASSUME NEW i \in Item, MallCheckout(e, i) \/ DeliverItem(e, i) PROVE NoItemTwice'
  <2>1. InNoBag(i) /\ char' = [char EXCEPT ![e].bag = @ \cup {i}]
      BY <1>2 DEF MallCheckout, DeliverItem
  <2>2. char'[e].bag = char[e].bag \cup {i} /\ \A f \in Entity \ {e} : char'[f].bag = char[f].bag
      BY <2>1 DEF TypeOK, Character
  <2> QED  BY <2>1, <2>2, OneBagChanges
<1>3. ASSUME NEW i \in Item, NEW amount \in Purse, ShopSale(e, i, amount) PROVE NoItemTwice'
  <2>1. char'[e].bag = char[e].bag \ {i} /\ \A f \in Entity \ {e} : char'[f].bag = char[f].bag
      BY <1>3 DEF ShopSale, TypeOK, Character
  <2> QED  BY <2>1, OneBagChanges
<1>4. ASSUME \A f \in Entity : char'[f].bag = char[f].bag PROVE NoItemTwice'
    BY <1>4 DEF NoItemTwice
<1>5. ASSUME NEW amount \in Purse, DropGold(e, amount) PROVE NoItemTwice'
    BY <1>4, <1>5 DEF DropGold, TypeOK, Character
<1>6. ASSUME NEW place \in Place, Move(e, place) PROVE NoItemTwice'
    BY <1>4, <1>6 DEF Move, TypeOK, Character
<1>7. CASE FallToFloor(e) \/ Restart(e)
    BY <1>4, <1>7 DEF FallToFloor, Restart, TypeOK, Character
<1>8. CASE CloseExchange(e) \/ SetWindow(e)
    BY <1>4, <1>8 DEF CloseExchange, SetWindow
<1> QED  BY <1>1, <1>2, <1>3, <1>5, <1>6, <1>7, <1>8 DEF Drift

LEMMA GoodsStep ==
    ASSUME TypeOK, PairsAreMutual, PlanFresh, NoItemTwice, [Next]_vars
    PROVE  NoItemTwice'
<1>1. ASSUME UNCHANGED char PROVE NoItemTwice'
    BY <1>1 DEF NoItemTwice
<1>2. CASE Next
  <2>1. PICK e \in Entity : Exchange(e) \/ Finalize(e) \/ Drift(e) \/ Join(e) \/ Leave(e)
      BY <1>2 DEF Next
  <2>2. CASE Exchange(e)
      BY <1>1, <2>2
      DEF Exchange, StartExchange, CancelExchange, AddExchangeItem, RemoveExchangeItem,
          AddExchangeGold, AcceptFirst, AcceptRefused, AcceptSecond
  <2>3. CASE Finalize(e)
    <3>1. CommitDone(e) \/ UNCHANGED char
        BY <2>3 DEF Finalize, CommitRefused, FinalizeAbandoned, PersistFailed
    <3> QED  BY <1>1, <3>1, CommitMovesGoods
  <2>4. CASE Join(e) \/ Leave(e)
      BY <1>1, <2>4 DEF Join, Leave
  <2> QED  BY <2>1, <2>2, <2>3, <2>4, DriftMovesGoods
<1>3. CASE UNCHANGED vars
    BY <1>1, <1>3 DEF vars
<1> QED  BY <1>2, <1>3

\* Were handlers serial, no item would ever be carried by two characters: a commit
\* settles bags that still are what the plan copied, and every other step takes what
\* nobody carries.
THEOREM SerialTradesKeepItems ==
    ASSUME ~Overlap
    PROVE  Spec => []NoItemTwice
<1>1. Init => PlanFresh /\ NoItemTwice  BY DEF Init, PlanFresh, NoItemTwice
<1>2. TypeOK /\ PlanFresh /\ [Next]_vars => PlanFresh'  BY PlanFreshStep
<1>3. ShellInv /\ PlanFresh /\ NoItemTwice /\ [Next]_vars => NoItemTwice'
    BY GoodsStep DEF ShellInv, ShellSafe, TypeInv
<1>4. ShellInv => TypeOK  BY DEF ShellInv, TypeInv
<1> QED  BY ShellInvariant, <1>1, <1>2, <1>3, <1>4, PTL DEF Spec

-----------------------------------------------------------------------------
(* The client's window.                                                    *)

ScreenInv == \A e \in Entity : screen[e] = partner[e]

LEMMA ScreenUntouched ==
    ASSUME ScreenInv, UNCHANGED <<shellVars, screen>>
    PROVE  ScreenInv'
BY DEF ScreenInv, shellVars

\* END goes to the sides whose pair is cleared.
LEMMA ScreenCleared ==
    ASSUME ScreenInv, NEW e \in Entity, CloseBoth(e)
    PROVE  ScreenInv'
BY DEF ScreenInv, CloseBoth, ClearShell, EndFrames

LEMMA ScreenCloseIfPaired ==
    ASSUME ScreenInv, NEW e \in Entity, CloseIfPaired(e)
    PROVE  ScreenInv'
BY ScreenCleared, ScreenUntouched DEF CloseIfPaired

\* What a save that failed tells the sides of a plan, when they still are a pair.
LEMMA ScreenPersistFailed ==
    ASSUME TypeOK, ScreenInv, PlanFresh, NEW e \in Entity, PersistFailed(e)
    PROVE  ScreenInv'
<1>1. plan[e].with = partner[e]
  <2>1. plan[e] = PlanOf(e)  BY DEF PersistFailed, PlanFresh
  <2>2. PlanOf(e).with = partner[e]  BY DEF PlanOf
  <2> QED  BY <2>1, <2>2
<1>2. Paired(e)
  <2>1. plan[e] \in Plan  BY DEF PersistFailed, TypeOK
  <2> QED  BY <1>1, <2>1, EntityAssumption DEF Plan, Paired
<1>3. ClearShell(e) /\ EndFrames({e, partner[e]})
    BY <1>1, <1>2 DEF PersistFailed
<1> QED  BY <1>3, ScreenCleared DEF CloseBoth, Sides

LEMMA ScreenStep ==
    ASSUME TypeOK, ScreenInv, ~StoreFails \/ PlanFresh, [Next]_vars
    PROVE  ScreenInv'
<1>1. CASE Next
  <2>1. PICK e \in Entity : Exchange(e) \/ Finalize(e) \/ Drift(e) \/ Join(e) \/ Leave(e)
      BY <1>1 DEF Next
  <2>2. CASE Exchange(e)
    <3>1. ASSUME NEW t \in Entity, StartExchange(e, t) PROVE ScreenInv'
        BY <3>1 DEF StartExchange, ScreenInv, TypeOK
    <3>2. CASE CancelExchange(e) \/ AcceptRefused(e)
        BY <3>2, ScreenCleared DEF CancelExchange, AcceptRefused
    <3>3. ASSUME UNCHANGED <<partner, screen>> PROVE ScreenInv'
        BY <3>3 DEF ScreenInv
    <3> QED  BY <2>2, <3>1, <3>2, <3>3
             DEF Exchange, AddExchangeItem, RemoveExchangeItem, AddExchangeGold,
                 AcceptFirst, AcceptSecond, shellVars
  <2>3. CASE Finalize(e)
    <3>1. CASE CommitDone(e) \/ CommitRefused(e)
        BY <3>1, ScreenCleared DEF CommitDone, CommitRefused
    <3>2. CASE FinalizeAbandoned(e)
        BY <3>2, ScreenUntouched DEF FinalizeAbandoned
    <3>3. CASE PersistFailed(e)
        BY <3>3, ScreenPersistFailed DEF PersistFailed
    <3> QED  BY <2>3, <3>1, <3>2, <3>3 DEF Finalize
  <2>4. CASE Drift(e)
    <3>1. ASSUME NEW place \in Place, Move(e, place) PROVE ScreenInv'
        BY <3>1, ScreenCleared, ScreenUntouched DEF Move
    <3>2. CASE CloseExchange(e)
        BY <3>2, ScreenCloseIfPaired DEF CloseExchange
    <3> QED  BY <2>4, <3>1, <3>2, ScreenUntouched
             DEF Drift, MutateCarried, DropGold, ShopSale, MallCheckout, DeliverItem,
                 FallToFloor, Restart, SetWindow
  <2>5. CASE Join(e)  BY <2>5, ScreenUntouched DEF Join
  <2>6. CASE Leave(e)  BY <2>6, ScreenCloseIfPaired DEF Leave
  <2> QED  BY <2>1, <2>2, <2>3, <2>4, <2>5, <2>6
<1>2. CASE UNCHANGED vars
    BY <1>2, ScreenUntouched DEF vars, shellVars
<1> QED  BY <1>1, <1>2

\* As long as saves work, or no handler runs between two sections of another, the
\* START and END frames leave every client with the trade the registry keeps for it.
\* (A failed save tells the peer of the plan, who may trade with somebody else by now.)
THEOREM ScreensFollowTheShell ==
    ASSUME ~StoreFails \/ ~Overlap
    PROVE  Spec => []ScreenMatchesShell
<1>1. Init => ScreenInv /\ PlanFresh  BY DEF Init, ScreenInv, PlanFresh
<1>2. ScreenInv => ScreenMatchesShell  BY DEF ScreenInv, ScreenMatchesShell
<1>3. CASE ~StoreFails
  <2>1. TypeOK /\ ScreenInv /\ [Next]_vars => ScreenInv'  BY <1>3, ScreenStep
  <2> QED  BY TypeCorrect, <1>1, <1>2, <2>1, PTL DEF Spec
<1>4. CASE ~Overlap
  <2>1. TypeOK /\ PlanFresh /\ [Next]_vars => PlanFresh'  BY <1>4, PlanFreshStep
  <2>2. TypeOK /\ PlanFresh /\ ScreenInv /\ [Next]_vars => ScreenInv'  BY ScreenStep
  <2> QED  BY TypeCorrect, <1>1, <1>2, <2>1, <2>2, PTL DEF Spec
<1> QED  BY <1>3, <1>4

=============================================================================
