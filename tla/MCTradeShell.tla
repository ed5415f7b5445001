---------------------------- MODULE MCTradeShell ----------------------------
(* Instances of TradeShell for TLC. *)
EXTENDS TradeShell, TLC

\* Every template is usable by everybody.
AllUsable == [e \in Entity |-> Item]

\* One entity can use nothing but the first item it is asked about.
SomeUsable ==
    LET picky == CHOOSE e \in Entity : TRUE
        plain == CHOOSE i \in Item : TRUE
    IN [e \in Entity |-> IF e = picky THEN {plain} ELSE Item]

EntitySymmetry == Permutations(Entity)
ItemAndEntitySymmetry == Permutations(Entity) \cup Permutations(Item)
=============================================================================
