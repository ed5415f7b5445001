------------------------------ MODULE MCAggro ------------------------------
(* Instances of Aggro: the mobs stand at the end of the line of places. *)
EXTENDS Aggro, TLC

AtOrigin == [m \in Mob |-> 0]

Alike == Permutations(Player)
=============================================================================
