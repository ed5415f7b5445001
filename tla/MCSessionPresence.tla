------------------------- MODULE MCSessionPresence -------------------------
(* Instances of SessionPresence for TLC. *)
EXTENDS SessionPresence, TLC

CONSTANTS a1, a2, c1, c2, d1

\* a1 owns c1 and c2, a2 owns d1.
Owners == c1 :> a1 @@ c2 :> a1 @@ d1 :> a2

\* IDs and VIDs are numbered within an account, so the first characters of two
\* accounts have the same ones.
Numbers == c1 :> 1 @@ c2 :> 2 @@ d1 :> 1
\* VIDs that do not meet, as when the accounts have different histories.
ApartVids == c1 :> 1 @@ c2 :> 2 @@ d1 :> 3
\* Names that do not meet.
ApartNames == c1 :> 1 @@ c2 :> 2 @@ d1 :> 3

SessionSymmetry == Permutations(Session)
=============================================================================
