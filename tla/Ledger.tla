------------------------------- MODULE Ledger -------------------------------
(***************************************************************************)
(* What a player is promised about goods: how much there is of each kind,  *)
(* wherever it lies, how much gold, and how the body fares apart from what *)
(* is worn.  Carrying, stacking, splitting, wearing, binding, storing and  *)
(* fetching change none of it, and nor does anything that fails.  Only the *)
(* save of a wound may be late: a character that comes back before it was  *)
(* made comes back without the wound.                                      *)
(***************************************************************************)
EXTENDS Integers

CONSTANTS Kind, NoKind, Catalog, Offer, Catalyst, MaxHit

VARIABLES
    total, gold,   \* goods by kind, and gold
    body,          \* points less the effects of gear
    due, saved,    \* the same as the next save will have it, and as the last one has
    dead

ledger == <<total, gold, body, due, saved, dead>>

Add(t, k, n) == IF k = NoKind THEN t ELSE [t EXCEPT ![k] = @ + n]

Init ==
    /\ total \in [Kind -> Nat] /\ gold \in Nat /\ dead \in BOOLEAN
    /\ body \in Int /\ due = body /\ saved = body

\* A rollback may make good a save that was refused before.
Well == body' = body /\ due' \in {due, body} /\ saved' \in {saved, due'}

Quiet == UNCHANGED gold /\ UNCHANGED total /\ Well

Buy(o) ==
    /\ gold >= o.price /\ gold' = gold - o.price
    /\ total' = Add(total, o.kind, o.n) /\ Well

Sell(k) ==
    /\ \E n \in 1..total[k] :
          gold' = gold + n * Catalog[k].credit /\ total' = Add(total, k, -n)
    /\ Well

Drink(k) ==
    LET x == Catalog[k].drink
    IN  /\ x # 0 /\ total[k] > 0 /\ total' = Add(total, k, -1) /\ UNCHANGED gold
        /\ body' = body + x /\ due' \in {due + x, body'} /\ saved' = due'

Refine(k, r, scrolls) ==
    LET t == Catalog[k]
        left == Add(Add(total, t.needs.kind, -t.needs.n), Catalyst, -scrolls)
    IN  /\ gold' = gold - t.cost /\ gold' >= 0
        /\ total' = Add(Add(left, k, -1), r, 1) /\ \A x \in Kind : total'[x] >= 0
        /\ Well

Wound ==
    /\ UNCHANGED <<total, gold>> /\ body' \in (body - MaxHit)..body
    /\ UNCHANGED <<due, saved>> \/ (due' = body' /\ saved' = body')
Return == UNCHANGED <<total, gold, saved>> /\ body' = saved /\ due' = saved
Revive == dead /\ ~dead' /\ UNCHANGED <<total, gold>> /\ due' = body' /\ saved' = body'

Next ==
    \/ Quiet \/ Wound \/ Return \/ Revive
    \/ \E o \in Offer : Buy(o)
    \/ \E k \in Kind : Sell(k) \/ Drink(k)
    \/ \E k \in {x \in Kind : Catalog[x].into # NoKind}, scrolls \in {0, 1} :
          \E r \in {Catalog[k].into, Catalog[k].fail} : Refine(k, r, scrolls)

Spec == Init /\ [][Next]_ledger
=============================================================================
