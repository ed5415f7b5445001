---------------------------- MODULE MCItemWorld ----------------------------
EXTENDS ItemWorld, TLC
CONSTANTS a, b, potion, sword, coin, v1, v2

MCVidsOf == a :> {v1, v2} @@ b :> {v2}
=============================================================================
