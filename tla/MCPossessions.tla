--------------------------- MODULE MCPossessions ----------------------------
EXTENDS Possessions, TLC
CONSTANTS potion, sword, blade, weapon

MCKind == {potion, sword, blade}
Dose(n) == [kind |-> potion, n |-> n]
MCCatalog ==
    potion :> [max |-> 2, wear |-> NoWear, boost |-> 0, drink |-> 1, into |-> NoKind,
               fail |-> NoKind, cost |-> 0, needs |-> Dose(0), credit |-> 1]
    @@ sword :> [max |-> 1, wear |-> weapon, boost |-> -1, drink |-> 0, into |-> blade,
                 fail |-> NoKind, cost |-> 1, needs |-> Dose(1), credit |-> 2]
    @@ blade :> [max |-> 1, wear |-> weapon, boost |-> 0, drink |-> 0, into |-> NoKind,
                 fail |-> NoKind, cost |-> 0, needs |-> Dose(0), credit |-> 2]
MCOffer == {[kind |-> potion, n |-> 1, price |-> 1]}
A(i, k, n) == [id |-> i, kind |-> k, n |-> n]
MCStart ==
    [bag |-> [c \in Cell |-> CASE c = 1 -> A(2, potion, 2) [] c = 2 -> A(3, sword, 1) [] OTHER -> NoStack],
     worn |-> [w \in Wear |-> A(1, blade, 1)], bar |-> [q \in Position |-> NoCell], gold |-> 1, pts |-> 2]
\* Quickslots and safebox cells are interchangeable.
Symmetry == Permutations(Position) \cup Permutations(BoxCell)
=============================================================================
