---------------------------- MODULE Books_proofs -----------------------------
(***************************************************************************)
(* Possessions implements Ledger.  The ledger counts pieces; so first what *)
(* is to be known of heaps of pieces and of how many they are, then what   *)
(* each operation of Pack does to the counts, then the steps.              *)
(***************************************************************************)
EXTENDS Possessions_proofs, FiniteSetTheorems, FunctionTheorems

-----------------------------------------------------------------------------
(* Heaps: f[c] pieces in each place c of S.  A total is how many pieces a  *)
(* heap has; every fact about sums below is one about sets of pieces, and  *)
(* needs no induction.                                                     *)

Heap(f, S) == UNION {{c} \X (1..f[c]) : c \in S}
Total(f, S) == Cardinality(Heap(f, S))

LEMMA InHeap ==
    ASSUME NEW f, NEW S
    PROVE  /\ \A c, j : <<c, j>> \in Heap(f, S) <=> c \in S /\ j \in 1..f[c]
           /\ \A x \in Heap(f, S) : x = <<x[1], x[2]>> /\ x[1] \in S /\ x[2] \in 1..f[x[1]]
BY DEF Heap

\* Heaps of the same pieces.
LEMMA SameHeap ==
    ASSUME NEW f, NEW S, NEW g, NEW T,
           \A c, j : (c \in S /\ j \in 1..f[c]) <=> (c \in T /\ j \in 1..g[c])
    PROVE  Heap(f, S) = Heap(g, T)
<1>1. \A x : x \in Heap(f, S) => x \in Heap(g, T)
    BY InHeap
<1>2. \A x : x \in Heap(g, T) => x \in Heap(f, S)
    BY InHeap
<1> QED
    BY <1>1, <1>2

\* Finitely many places with a number of pieces each hold a number of pieces.
LEMMA TotalType ==
    ASSUME NEW S, IsFiniteSet(S), NEW f, \A c \in S : f[c] \in Int
    PROVE  IsFiniteSet(Heap(f, S)) /\ Total(f, S) \in Nat
<1> DEFINE T == {{c} \X (1..f[c]) : c \in S}
           g == [c \in S |-> {c} \X (1..f[c])]
<1>1. g \in Surjection(S, T)
    BY DEF Surjection
<1>2. IsFiniteSet(T)
    <2> HIDE DEF g, T
    <2> QED BY <1>1, FS_Surjection
<1>3. ASSUME NEW c \in S PROVE IsFiniteSet({c} \X (1..f[c]))
    <2>1. IsFiniteSet({c})
        BY FS_Singleton
    <2>2. IsFiniteSet(1..f[c])
        <3>1. f[c] \in Int
            OBVIOUS
        <3> QED BY <3>1, FS_Interval
    <2> QED BY <2>1, <2>2, FS_Product
<1>4. \A t \in T : IsFiniteSet(t)
    BY <1>3
<1>5. IsFiniteSet(UNION T)
    <2> HIDE DEF T
    <2> QED BY <1>2, <1>4, FS_UNION
<1> QED
    BY <1>5, FS_CardinalityType DEF Heap, Total

\* Two sets of places that share none.
LEMMA TotalOfTwo ==
    ASSUME NEW A, NEW B, IsFiniteSet(A), IsFiniteSet(B), A \cap B = {},
           NEW f, \A c \in A \cup B : f[c] \in Int
    PROVE  Total(f, A \cup B) = Total(f, A) + Total(f, B)
<1>1. Heap(f, A \cup B) = Heap(f, A) \cup Heap(f, B)
    BY DEF Heap
<1>2. Heap(f, A) \cap Heap(f, B) = {}
    <2>1. \A x \in Heap(f, A) : x[1] \in A
        BY InHeap
    <2>2. \A x \in Heap(f, B) : x[1] \in B
        BY InHeap
    <2> QED BY <2>1, <2>2
<1>3. /\ IsFiniteSet(Heap(f, A)) /\ Cardinality(Heap(f, A)) \in Nat
      /\ IsFiniteSet(Heap(f, B)) /\ Cardinality(Heap(f, B)) \in Nat
    <2>1. (\A c \in A : f[c] \in Int) /\ (\A c \in B : f[c] \in Int)
        OBVIOUS
    <2> QED BY <2>1, TotalType DEF Total
<1>4. Cardinality(Heap(f, A) \cup Heap(f, B))
        = Cardinality(Heap(f, A)) + Cardinality(Heap(f, B))
    <2> DEFINE F == Heap(f, A)
               G == Heap(f, B)
    <2> HIDE DEF F, G
    <2>1. IsFiniteSet(F) /\ IsFiniteSet(G) /\ F \cap G = {} /\ Cardinality({}) = 0
        BY <1>2, <1>3, FS_EmptySet DEF F, G
    <2>2. Cardinality(F \cup G) = Cardinality(F) + Cardinality(G) - Cardinality(F \cap G)
        BY <2>1, FS_Union
    <2>3. Cardinality(F) \in Nat /\ Cardinality(G) \in Nat
        BY <1>3 DEF F, G
    <2>4. Cardinality(F \cap G) = 0
        BY <2>1, Zenon
    <2>5. Cardinality(F \cup G) = Cardinality(F) + Cardinality(G)
        BY <2>2, <2>3, <2>4
    <2> QED BY <2>5 DEF F, G
<1> QED
    BY <1>1, <1>4 DEF Total

\* One place.
LEMMA TotalOfOne ==
    ASSUME NEW c, NEW f, f[c] \in Int
    PROVE  Total(f, {c}) = IF f[c] > 0 THEN f[c] ELSE 0
<1>1. Heap(f, {c}) = {c} \X (1..f[c])
    BY DEF Heap
<1>0. IsFiniteSet({c}) /\ IsFiniteSet(1..f[c])
    <2>1. IsFiniteSet({c})
        BY FS_Singleton
    <2>2. IsFiniteSet(1..f[c])
        BY FS_Interval
    <2> QED BY <2>1, <2>2
<1>2. Cardinality({c} \X (1..f[c])) = Cardinality({c}) * Cardinality(1..f[c])
    BY <1>0, FS_Product
<1>3. Cardinality({c}) = 1
    BY FS_Singleton
<1>4. Cardinality(1..f[c]) = IF f[c] > 0 THEN f[c] ELSE 0
    BY FS_Interval
<1> QED
    <2>1. Total(f, {c}) = 1 * Cardinality(1..f[c])
        BY <1>1, <1>2, <1>3 DEF Total
    <2> QED BY <1>4, <2>1

\* What one place contributes.
Part(x) == IF x > 0 THEN x ELSE 0

LEMMA TotalAt ==
    ASSUME NEW S, IsFiniteSet(S), NEW f, \A c \in S : f[c] \in Int, NEW c \in S
    PROVE  Total(f, S) = Total(f, S \ {c}) + Part(f[c])
<1>1. S = (S \ {c}) \cup {c} /\ (S \ {c}) \cap {c} = {}
    OBVIOUS
<1>2. IsFiniteSet(S \ {c}) /\ IsFiniteSet({c})
    BY FS_RemoveElement, FS_Singleton
<1>3. Total(f, (S \ {c}) \cup {c}) = Total(f, S \ {c}) + Total(f, {c})
    BY <1>1, <1>2, TotalOfTwo
<1> QED
    BY <1>1, <1>3, TotalOfOne DEF Part

\* A place that changes.
LEMMA TotalChanged ==
    ASSUME NEW S, IsFiniteSet(S), NEW f, \A c \in S : f[c] \in Int,
           NEW g, \A c \in S : g[c] \in Int,
           NEW c \in S, \A d \in S \ {c} : g[d] = f[d]
    PROVE  Total(g, S) = Total(f, S) + Part(g[c]) - Part(f[c])
<1>1. Heap(g, S \ {c}) = Heap(f, S \ {c})
    BY SameHeap
<1>2. /\ Total(f, S) = Total(f, S \ {c}) + Part(f[c])
      /\ Total(g, S) = Total(g, S \ {c}) + Part(g[c])
    BY TotalAt
<1>3. Total(f, S \ {c}) \in Nat /\ Part(f[c]) \in Nat /\ Part(g[c]) \in Nat
    <2>1. IsFiniteSet(S \ {c})
        BY FS_RemoveElement
    <2> QED BY <2>1, TotalType DEF Part
<1> QED
    BY <1>1, <1>2, <1>3 DEF Total

\* Two places that change.
LEMMA TotalMoved ==
    ASSUME NEW S, IsFiniteSet(S), NEW f, \A c \in S : f[c] \in Int,
           NEW g, \A c \in S : g[c] \in Int,
           NEW c \in S, NEW d \in S \ {c}, \A e \in S \ {c, d} : g[e] = f[e]
    PROVE  Total(g, S) = Total(f, S) + Part(g[c]) - Part(f[c]) + Part(g[d]) - Part(f[d])
<1> DEFINE h == [e \in S |-> IF e = c THEN g[e] ELSE f[e]]
<1>1. /\ \A e \in S : h[e] \in Int
      /\ \A e \in S \ {c} : h[e] = f[e]
      /\ \A e \in S \ {d} : g[e] = h[e]
      /\ h[c] = g[c] /\ h[d] = f[d]
    OBVIOUS
<1> HIDE DEF h
<1>2. Total(h, S) = Total(f, S) + Part(g[c]) - Part(f[c])
    BY <1>1, TotalChanged
<1>3. Total(g, S) = Total(h, S) + Part(g[d]) - Part(f[d])
    BY <1>1, TotalChanged
<1>4. Total(f, S) \in Nat /\ {Part(g[c]), Part(f[c]), Part(g[d]), Part(f[d])} \subseteq Nat
    BY TotalType DEF Part
<1> QED
    BY <1>2, <1>3, <1>4

\* Places with nothing.
LEMMA TotalElsewhere ==
    ASSUME NEW S, NEW T \in SUBSET S, NEW f, \A c \in S \ T : f[c] = 0
    PROVE  Total(f, S) = Total(f, T)
<1>1. Heap(f, S) = Heap(f, T)
    BY SameHeap
<1> QED
    BY <1>1 DEF Total

\* Adding place by place adds the totals: the pieces of g are those of h above f.
LEMMA TotalAdded ==
    ASSUME NEW S, IsFiniteSet(S), NEW f, \A c \in S : f[c] \in Nat,
           NEW g, \A c \in S : g[c] \in Nat,
           NEW h, \A c \in S : h[c] = f[c] + g[c]
    PROVE  Total(h, S) = Total(f, S) + Total(g, S)
<1> DEFINE F == Heap(f, S)
           G == Heap(g, S)
           H == Heap(h, S)
           b == [x \in G |-> <<x[1], f[x[1]] + x[2]>>]
<1>1. \A c \in S : h[c] \in Nat /\ f[c] \in Int /\ g[c] \in Int /\ h[c] \in Int
    OBVIOUS
<1>2. /\ IsFiniteSet(F) /\ IsFiniteSet(G) /\ IsFiniteSet(H)
      /\ Total(f, S) \in Nat /\ Total(g, S) \in Nat /\ Total(h, S) \in Nat
    BY <1>1, TotalType
<1>3. F \subseteq H
    BY InHeap
<1>4. ASSUME NEW c, NEW j
      PROVE  <<c, j>> \in H \ F <=> c \in S /\ j \in (f[c] + 1)..h[c]
    <2>1. <<c, j>> \in H \ F <=> c \in S /\ j \in 1..h[c] /\ ~(j \in 1..f[c])
        BY InHeap
    <2> QED BY <1>1, <2>1
<1>5. \A x \in H \ F : x = <<x[1], x[2]>>
    BY InHeap
<1>6. \A x \in G : x = <<x[1], x[2]>> /\ x[1] \in S /\ x[2] \in 1..g[x[1]]
    BY InHeap
<1>7. \A x \in G : b[x] = <<x[1], f[x[1]] + x[2]>>
    OBVIOUS
<1>8. b \in [G -> H \ F]
    <2>1. \A x \in G : b[x] \in H \ F
        BY <1>4, <1>6, <1>7
    <2> QED BY <2>1
<1>9. \A x, y \in G : b[x] = b[y] => x = y
    <2> SUFFICES ASSUME NEW x \in G, NEW y \in G, b[x] = b[y] PROVE x = y
        OBVIOUS
    <2>1. x[1] = y[1] /\ f[x[1]] + x[2] = f[y[1]] + y[2]
        BY <1>7
    <2>2. x[2] = y[2]
        BY <1>6, <2>1
    <2> QED BY <1>6, <2>1, <2>2
<1>10. \A y \in H \ F : \E x \in G : b[x] = y
    <2> SUFFICES ASSUME NEW y \in H \ F PROVE \E x \in G : b[x] = y
        OBVIOUS
    <2>1. y[1] \in S /\ y[2] \in (f[y[1]] + 1)..h[y[1]] /\ y = <<y[1], y[2]>>
        BY <1>4, <1>5
    <2> DEFINE x == <<y[1], y[2] - f[y[1]]>>
    <2>2. y[2] - f[y[1]] \in 1..g[y[1]]
        BY <2>1
    <2>3. x \in G
        BY <2>1, <2>2, InHeap
    <2>4. b[x] = <<y[1], f[y[1]] + (y[2] - f[y[1]])>>
        BY <2>3
    <2>5. f[y[1]] + (y[2] - f[y[1]]) = y[2]
        BY <2>1
    <2> QED BY <2>1, <2>3, <2>4, <2>5
<1> HIDE DEF b, F, G, H
<1>11. b \in Bijection(G, H \ F)
    BY <1>8, <1>9, <1>10, Fun_IsBij
<1>12. Cardinality(H \ F) = Cardinality(G)
    BY <1>2, <1>11, FS_Bijection DEF ExistsBijection
<1>13. Cardinality(H \ F) = Cardinality(H) - Cardinality(F)
    <2>1. H \cap F = F
        BY <1>3
    <2>2. Cardinality(H \ F) = Cardinality(H) - Cardinality(H \cap F)
        BY <1>2, FS_Difference
    <2> QED BY <2>1, <2>2
<1> QED
    BY <1>2, <1>12, <1>13 DEF Total, F, G, H

\* No part holds more than the whole.
LEMMA TotalWithin ==
    ASSUME NEW S, IsFiniteSet(S), NEW f, \A c \in S : f[c] \in Nat,
           NEW A \in SUBSET S, NEW c \in S \ A
    PROVE  Total(f, A) + f[c] <= Total(f, S)
<1>1. IsFiniteSet(A) /\ IsFiniteSet({c}) /\ A \cap {c} = {} /\ A \cup {c} \subseteq S
    BY FS_Subset, FS_Singleton
<1>2. Total(f, A \cup {c}) = Total(f, A) + Total(f, {c})
    BY <1>1, TotalOfTwo
<1>3. Total(f, {c}) = f[c]
    BY TotalOfOne
<1>4. Heap(f, A \cup {c}) \subseteq Heap(f, S)
    BY <1>1 DEF Heap
<1>5. IsFiniteSet(Heap(f, S))
    BY TotalType
<1>6. Total(f, A \cup {c}) <= Total(f, S)
    BY <1>4, <1>5, FS_Subset DEF Total
<1> QED
    BY <1>2, <1>3, <1>6

-----------------------------------------------------------------------------
(* Taking n pieces from the lowest places up.  The piece <<c, j>> is the    *)
(* (pieces below c + j)th of all; so the first n of them are n.            *)

LEMMA TotalClamped ==
    ASSUME NEW S \in SUBSET Nat, IsFiniteSet(S), NEW n \in Nat,
           NEW f, \A c \in S : f[c] \in Nat,
           NEW g, \A c \in S : g[c] = Clamp(n - Total(f, Below(S, c)), f[c])
    PROVE  Total(g, S) = IF n <= Total(f, S) THEN n ELSE Total(f, S)
<1> DEFINE N == Total(f, S)
           P == Heap(f, S)
           G == Heap(g, S)
           R(c) == Total(f, Below(S, c))
           r == [x \in P |-> R(x[1]) + x[2]]
           m == IF n <= N THEN n ELSE N
<1>1. \A c \in S : f[c] \in Int
    OBVIOUS
<1>2. IsFiniteSet(P) /\ N \in Nat /\ N = Cardinality(P)
    BY <1>1, TotalType DEF Total
<1>3. ASSUME NEW c \in S
      PROVE  R(c) \in Nat /\ R(c) + f[c] <= N
    <2>1. Below(S, c) \in SUBSET S /\ c \in S \ Below(S, c)
        BY DEF Below
    <2>2. IsFiniteSet(Below(S, c))
        BY <2>1, FS_Subset
    <2>3. R(c) \in Nat
        BY <1>1, <2>1, <2>2, TotalType
    <2> QED BY <2>1, <2>3, TotalWithin
<1>4. ASSUME NEW c \in S, NEW d \in S, c < d
      PROVE  R(c) + f[c] <= R(d)
    <2>0. \A e \in S : e < c => e < d
        BY <1>4
    <2>a. \A T, e, x : e \in Below(T, x) <=> e \in T /\ e < x
        BY DEF Below
    <2>1. /\ Below(S, c) \in SUBSET Below(S, d) /\ c \in Below(S, d) \ Below(S, c)
          /\ Below(S, d) \in SUBSET S
        <3>1. Below(S, c) \in SUBSET Below(S, d) /\ Below(S, d) \in SUBSET S
            BY <2>0, <2>a
        <3>2. c \in Below(S, d) /\ c \notin Below(S, c)
            <4>1. c \in Nat /\ ~(c < c)
                OBVIOUS
            <4> QED BY <1>4, <2>a, <4>1
        <3> QED BY <3>1, <3>2
    <2>2. IsFiniteSet(Below(S, d))
        BY <2>1, FS_Subset
    <2>3. \A e \in Below(S, d) : f[e] \in Nat
        BY <2>1
    <2> QED BY <2>1, <2>2, <2>3, TotalWithin
<1>5. \A x \in P : x = <<x[1], x[2]>> /\ x[1] \in S /\ x[2] \in 1..f[x[1]]
    BY InHeap
<1>6. \A x \in P : r[x] = R(x[1]) + x[2]
    OBVIOUS
<1> HIDE DEF R, N, P, G
<1>7. \A x \in P : r[x] \in 1..N
    <2> SUFFICES ASSUME NEW x \in P PROVE r[x] \in 1..N
        OBVIOUS
    <2>1. x[1] \in S /\ x[2] \in 1..f[x[1]] /\ f[x[1]] \in Nat
        BY <1>5
    <2>2. R(x[1]) \in Nat /\ R(x[1]) + f[x[1]] <= N
        BY <1>3, <2>1
    <2> QED BY <1>2, <1>6, <2>1, <2>2
<1>8. ASSUME NEW x \in P, NEW y \in P, x[1] < y[1]
      PROVE  r[x] < r[y]
    <2>1. /\ x[1] \in S /\ x[2] \in 1..f[x[1]] /\ f[x[1]] \in Nat
          /\ y[1] \in S /\ y[2] \in 1..f[y[1]] /\ f[y[1]] \in Nat
        BY <1>5
    <2>2. R(x[1]) \in Nat /\ R(y[1]) \in Nat /\ R(x[1]) + f[x[1]] <= R(y[1])
        BY <1>3, <1>4, <1>8, <2>1
    <2> QED BY <1>6, <2>1, <2>2
<1>9. \A x, y \in P : r[x] = r[y] => x = y
    <2> SUFFICES ASSUME NEW x \in P, NEW y \in P, r[x] = r[y] PROVE x = y
        OBVIOUS
    <2>1. x[1] \in Nat /\ y[1] \in Nat /\ r[x] \in Int /\ r[y] \in Int
        BY <1>5, <1>7, <1>2
    <2>2. x[1] = y[1]
        <3>1. ~(x[1] < y[1]) /\ ~(y[1] < x[1])
            BY <1>8, <2>1
        <3> QED BY <2>1, <3>1
    <2>3. R(x[1]) \in Nat /\ x[2] \in Int /\ y[2] \in Int
        BY <1>3, <1>5
    <2>4. R(x[1]) + x[2] = R(x[1]) + y[2]
        BY <1>6, <2>2
    <2>5. x[2] = y[2]
        BY <2>3, <2>4
    <2> QED BY <1>5, <2>2, <2>5
<1>10. r \in [P -> 1..N]
    BY <1>7
<1> HIDE DEF r
<1>11. r \in Injection(P, 1..N)
    BY <1>9, <1>10, Fun_IsInj
<1>12. IsFiniteSet(1..N) /\ Cardinality(1..N) = N
    BY <1>2, FS_Interval
<1>13. r \in Surjection(P, 1..N)
    BY <1>2, <1>11, <1>12, FS_Injection
<1>14. \A i \in 1..N : \E x \in P : r[x] = i
    BY <1>13, Fun_SurjectionProperties
<1>15. \A c \in S : g[c] \in Nat /\ \A j : j \in 1..g[c] <=> j \in 1..f[c] /\ R(c) + j <= n
    <2> SUFFICES ASSUME NEW c \in S
                 PROVE  g[c] \in Nat /\ \A j : j \in 1..g[c] <=> j \in 1..f[c] /\ R(c) + j <= n
        OBVIOUS
    <2>1. g[c] = Clamp(n - R(c), f[c]) /\ R(c) \in Nat /\ f[c] \in Nat
        BY <1>3 DEF R
    <2> QED BY <2>1 DEF Clamp
<1>16. G = {x \in P : r[x] <= n}
    <2>1. \A x : x \in G => x \in P /\ r[x] <= n
        <3> SUFFICES ASSUME NEW x \in G PROVE x \in P /\ r[x] <= n
            OBVIOUS
        <3>1. x = <<x[1], x[2]>> /\ x[1] \in S /\ x[2] \in 1..g[x[1]]
            BY InHeap DEF G
        <3>2. x[2] \in 1..f[x[1]] /\ R(x[1]) + x[2] <= n
            BY <1>15, <3>1
        <3>3. x \in P
            BY <3>1, <3>2, InHeap DEF P
        <3> QED BY <1>6, <3>2, <3>3
    <2>2. \A x \in P : r[x] <= n => x \in G
        <3> SUFFICES ASSUME NEW x \in P, r[x] <= n PROVE x \in G
            OBVIOUS
        <3>1. x = <<x[1], x[2]>> /\ x[1] \in S /\ x[2] \in 1..f[x[1]] /\ R(x[1]) + x[2] <= n
            BY <1>5, <1>6
        <3>2. x[2] \in 1..g[x[1]]
            BY <1>15, <3>1
        <3> QED BY <3>1, <3>2, InHeap DEF G
    <2> QED BY <2>1, <2>2
<1>17. m \in Nat /\ \A i \in 1..N : i <= n <=> i \in 1..m
    BY <1>2
<1> HIDE DEF m
<1> DEFINE b == [x \in G |-> r[x]]
<1>18. \A x \in G : b[x] \in 1..m
    BY <1>7, <1>16, <1>17
<1>19. \A x, y \in G : b[x] = b[y] => x = y
    BY <1>9, <1>16
<1>20. \A i \in 1..m : \E x \in G : b[x] = i
    <2> SUFFICES ASSUME NEW i \in 1..m PROVE \E x \in G : b[x] = i
        OBVIOUS
    <2>1. i \in 1..N /\ i <= n
        BY <1>2, <1>17 DEF m
    <2>2. PICK x \in P : r[x] = i
        BY <1>14, <2>1
    <2>3. x \in G
        BY <1>16, <2>1, <2>2
    <2> QED BY <2>2, <2>3
<1>21. b \in [G -> 1..m]
    BY <1>18
<1> HIDE DEF b
<1>22. b \in Bijection(G, 1..m)
    BY <1>19, <1>20, <1>21, Fun_IsBij
<1>23. IsFiniteSet(G)
    <2>1. G \in SUBSET P
        BY <1>16
    <2> QED BY <1>2, <2>1, FS_Subset
<1>24. Cardinality(1..m) = Cardinality(G)
    BY <1>22, <1>23, FS_Bijection DEF ExistsBijection
<1>25. Cardinality(1..m) = m
    BY <1>17, FS_Interval
<1> QED
    BY <1>24, <1>25 DEF Total, G, m, N

-----------------------------------------------------------------------------
(* How many pieces of a kind a table of stacks holds.                      *)

USE CellsAssumption, CarrierAssumption, NullAssumption, CatalogAssumption DEF Cell

Of(s, k) == IF s.kind = k THEN s.n ELSE 0
Held(cells, D, k) == Total([c \in D |-> Of(cells[c], k)], D)

LEMMA OfStack ==
    ASSUME NEW s \in MaybeStack, NEW k \in Kind
    PROVE  Of(s, k) \in Nat /\ Part(Of(s, k)) = Of(s, k) /\ Of(NoStack, k) = 0
BY DEF Of, Part, MaybeStack, Stack, NoStack

LEMMA FinitePlaces == IsFiniteSet(Cell) /\ IsFiniteSet(Wear) /\ IsFiniteSet(BoxCell)
BY FS_Interval, BoxAssumption

\* The model's count of a kind.
LEMMA HeldIsCounted ==
    ASSUME NEW D, IsFiniteSet(D), NEW cells \in [D -> MaybeStack], NEW k \in Kind
    PROVE  /\ Cardinality(Pieces(cells, {c \in D : cells[c].kind = k})) = Held(cells, D, k)
           /\ Held(cells, D, k) \in Nat
<1> DEFINE f == [c \in D |-> Of(cells[c], k)]
           E == {c \in D : cells[c].kind = k}
           g == [c \in E |-> cells[c].n]
<1>1. Pieces(cells, E) = Heap(g, E)
    BY DEF Pieces, Heap
<1>2. \A c, j : (c \in E /\ j \in 1..g[c]) <=> (c \in D /\ j \in 1..f[c])
    BY DEF Of
<1>3. Heap(g, E) = Heap(f, D)
    <2> HIDE DEF f, g, E
    <2> QED BY <1>2, SameHeap
<1>4. \A c \in D : f[c] \in Int
    <2> SUFFICES ASSUME NEW c \in D PROVE f[c] \in Int
        OBVIOUS
    <2>1. cells[c] \in MaybeStack
        OBVIOUS
    <2> QED BY <2>1, OfStack
<1>5. Total(f, D) \in Nat
    <2> HIDE DEF f
    <2> QED BY <1>4, TotalType
<1> QED
    BY <1>1, <1>3, <1>5 DEF Held, Total

\* One cell changes.
LEMMA HeldChanged ==
    ASSUME NEW D, IsFiniteSet(D), NEW A \in [D -> MaybeStack], NEW B \in [D -> MaybeStack],
           NEW c \in D, \A d \in D \ {c} : B[d] = A[d], NEW k \in Kind
    PROVE  Held(B, D, k) = Held(A, D, k) + Of(B[c], k) - Of(A[c], k)
<1> DEFINE f == [e \in D |-> Of(A[e], k)]
           g == [e \in D |-> Of(B[e], k)]
<1>1. \A e \in D : f[e] \in Nat /\ g[e] \in Nat
    <2> SUFFICES ASSUME NEW e \in D PROVE f[e] \in Nat /\ g[e] \in Nat
        OBVIOUS
    <2>1. A[e] \in MaybeStack /\ B[e] \in MaybeStack
        OBVIOUS
    <2> QED BY <2>1, OfStack
<1>2. \A e \in D \ {c} : g[e] = f[e]
    OBVIOUS
<1>3. Part(f[c]) = Of(A[c], k) /\ Part(g[c]) = Of(B[c], k)
    <2>1. A[c] \in MaybeStack /\ B[c] \in MaybeStack
        OBVIOUS
    <2> QED BY <2>1, OfStack
<1> HIDE DEF f, g
<1>4. Total(g, D) = Total(f, D) + Part(g[c]) - Part(f[c])
    BY <1>1, <1>2, TotalChanged
<1> QED
    BY <1>3, <1>4 DEF Held, f, g

\* Two cells change.
LEMMA HeldMoved ==
    ASSUME NEW D, IsFiniteSet(D), NEW A \in [D -> MaybeStack], NEW B \in [D -> MaybeStack],
           NEW c \in D, NEW d \in D \ {c}, \A e \in D \ {c, d} : B[e] = A[e], NEW k \in Kind,
           Of(B[c], k) + Of(B[d], k) = Of(A[c], k) + Of(A[d], k)
    PROVE  Held(B, D, k) = Held(A, D, k)
<1> DEFINE C == [A EXCEPT ![c] = B[c]]
<1>1. /\ C \in [D -> MaybeStack] /\ C[c] = B[c] /\ C[d] = A[d]
      /\ \A e \in D \ {c} : C[e] = A[e]
      /\ \A e \in D \ {d} : B[e] = C[e]
    OBVIOUS
<1> HIDE DEF C
<1>2. Held(C, D, k) = Held(A, D, k) + Of(B[c], k) - Of(A[c], k)
    BY <1>1, HeldChanged
<1>3. Held(B, D, k) = Held(C, D, k) + Of(B[d], k) - Of(A[d], k)
    BY <1>1, HeldChanged
<1>4. Held(A, D, k) \in Nat
    BY HeldIsCounted
<1>5. {Of(A[c], k), Of(A[d], k), Of(B[c], k), Of(B[d], k)} \subseteq Nat
    <2>1. {A[c], A[d], B[c], B[d]} \subseteq MaybeStack
        OBVIOUS
    <2> QED BY <2>1, OfStack
<1> QED
    BY <1>2, <1>3, <1>4, <1>5

-----------------------------------------------------------------------------
(* What the operations of Pack do to the counts.                           *)

\* q has n more of kind k than p, and as many of every other.
Gains(p, q, k, n) ==
    \A x \in Kind : StacksOf(q, x) = StacksOf(p, x) + (IF x = k THEN n ELSE 0)

SameCount(p, q) == \A x \in Kind : StacksOf(q, x) = StacksOf(p, x)

\* Only the carried cells and the quickslots differ.
BagOnly(p, q) == q.worn = p.worn /\ q.gold = p.gold /\ q.pts = p.pts

LEMMA StacksHeld ==
    ASSUME NEW p \in PackType, NEW k \in Kind
    PROVE  /\ StacksOf(p, k) = Held(p.bag, Cell, k) + Held(p.worn, Wear, k)
           /\ Held(p.bag, Cell, k) \in Nat /\ Held(p.worn, Wear, k) \in Nat
           /\ StacksOf(p, k) \in Nat
<1>1. p.bag \in [Cell -> MaybeStack] /\ p.worn \in [Wear -> MaybeStack]
    BY DEF PackType
<1>2. /\ Cardinality(Pieces(p.bag, {c \in Cell : p.bag[c].kind = k})) = Held(p.bag, Cell, k)
      /\ Held(p.bag, Cell, k) \in Nat
    BY <1>1, FinitePlaces, HeldIsCounted
<1>3. /\ Cardinality(Pieces(p.worn, {w \in Wear : p.worn[w].kind = k})) = Held(p.worn, Wear, k)
      /\ Held(p.worn, Wear, k) \in Nat
    BY <1>1, FinitePlaces, HeldIsCounted
<1>4. StacksOf(p, k) = Held(p.bag, Cell, k) + Held(p.worn, Wear, k)
    BY <1>2, <1>3 DEF StacksOf, CountIn, CellsOf
<1> QED
    BY <1>2, <1>3, <1>4

\* One carried cell.
LEMMA BagChanged ==
    ASSUME NEW p \in PackType, NEW q \in PackType, q.worn = p.worn,
           NEW c \in Cell, \A d \in Cell \ {c} : q.bag[d] = p.bag[d], NEW k \in Kind
    PROVE  StacksOf(q, k) = StacksOf(p, k) + Of(q.bag[c], k) - Of(p.bag[c], k)
<1>1. p.bag \in [Cell -> MaybeStack] /\ q.bag \in [Cell -> MaybeStack]
    BY DEF PackType
<1>2. Held(q.bag, Cell, k) = Held(p.bag, Cell, k) + Of(q.bag[c], k) - Of(p.bag[c], k)
    BY <1>1, FinitePlaces, HeldChanged
<1>3. Of(q.bag[c], k) \in Nat /\ Of(p.bag[c], k) \in Nat
    BY <1>1, OfStack
<1> QED
    BY <1>2, <1>3, StacksHeld

\* Two carried cells, between which pieces move.
LEMMA BagMoved ==
    ASSUME NEW p \in PackType, NEW q \in PackType, q.worn = p.worn,
           NEW c \in Cell, NEW d \in Cell \ {c}, \A e \in Cell \ {c, d} : q.bag[e] = p.bag[e],
           NEW k \in Kind,
           Of(q.bag[c], k) + Of(q.bag[d], k) = Of(p.bag[c], k) + Of(p.bag[d], k)
    PROVE  StacksOf(q, k) = StacksOf(p, k)
<1>1. p.bag \in [Cell -> MaybeStack] /\ q.bag \in [Cell -> MaybeStack]
    BY DEF PackType
<1>2. Held(q.bag, Cell, k) = Held(p.bag, Cell, k)
    BY <1>1, FinitePlaces, HeldMoved
<1> QED
    BY <1>2, StacksHeld

\* A carried cell and a wear cell.
LEMMA GearMoved ==
    ASSUME NEW p \in PackType, NEW q \in PackType, NEW c \in Cell, NEW w \in Wear,
           \A d \in Cell \ {c} : q.bag[d] = p.bag[d],
           \A v \in Wear \ {w} : q.worn[v] = p.worn[v],
           q.bag[c] = p.worn[w], q.worn[w] = p.bag[c]
    PROVE  SameCount(p, q)
<1> SUFFICES ASSUME NEW k \in Kind PROVE StacksOf(q, k) = StacksOf(p, k)
    BY DEF SameCount
<1>1. /\ p.bag \in [Cell -> MaybeStack] /\ q.bag \in [Cell -> MaybeStack]
      /\ p.worn \in [Wear -> MaybeStack] /\ q.worn \in [Wear -> MaybeStack]
    BY DEF PackType
<1>0. IsFiniteSet(Cell) /\ IsFiniteSet(Wear)
    BY FinitePlaces
<1>2. Held(q.bag, Cell, k) = Held(p.bag, Cell, k) + Of(p.worn[w], k) - Of(p.bag[c], k)
    <2> DEFINE A == p.bag
               B == q.bag
    <2>1. /\ A \in [Cell -> MaybeStack] /\ B \in [Cell -> MaybeStack]
          /\ \A d \in Cell \ {c} : B[d] = A[d]
        BY <1>1
    <2> HIDE DEF A, B, Cell
    <2>2. Held(B, Cell, k) = Held(A, Cell, k) + Of(B[c], k) - Of(A[c], k)
        BY <1>0, <2>1, HeldChanged
    <2> QED BY <2>2 DEF A, B
<1>3. Held(q.worn, Wear, k) = Held(p.worn, Wear, k) + Of(p.bag[c], k) - Of(p.worn[w], k)
    <2> DEFINE A == p.worn
               B == q.worn
    <2>1. /\ A \in [Wear -> MaybeStack] /\ B \in [Wear -> MaybeStack]
          /\ \A v \in Wear \ {w} : B[v] = A[v]
        BY <1>1
    <2> HIDE DEF A, B
    <2>2. Held(B, Wear, k) = Held(A, Wear, k) + Of(B[w], k) - Of(A[w], k)
        BY <1>0, <2>1, HeldChanged
    <2> QED BY <2>2 DEF A, B
<1>4. Of(p.worn[w], k) \in Nat /\ Of(p.bag[c], k) \in Nat
    BY <1>1, OfStack
<1> QED
    BY <1>2, <1>3, <1>4, StacksHeld

\* The counts depend on what is carried and worn alone.
LEMMA SameGoods ==
    ASSUME NEW p, NEW q, q.bag = p.bag, q.worn = p.worn
    PROVE  SameCount(p, q)
BY DEF SameCount, StacksOf, CountIn, CellsOf

LEMMA LessGains ==
    ASSUME NEW p, Sound(p), NEW c \in Cell, p.bag[c] # NoStack, NEW n \in 1..p.bag[c].n
    PROVE  BagOnly(p, Less(p, c, n)) /\ Gains(p, Less(p, c, n), p.bag[c].kind, -n)
<1> DEFINE q == Less(p, c, n)
           s == p.bag[c]
<1>1. Sound(q)
    BY LessSound
<1>2. p \in PackType /\ q \in PackType
    BY <1>1 DEF Sound
<1>3. s \in Stack /\ s.n \in Nat
    BY <1>2 DEF PackType, MaybeStack, Stack
<1>4. BagOnly(p, q) /\ q.bag = [p.bag EXCEPT ![c] = IF n = s.n THEN NoStack ELSE [s EXCEPT !.n = @ - n]]
    BY <1>2, <1>3 DEF Less, Unbound, Put, PackType, BagOnly
<1> HIDE DEF q
<1>5. ASSUME NEW x \in Kind
      PROVE  Of(q.bag[c], x) = Of(s, x) - (IF x = s.kind THEN n ELSE 0)
    BY <1>2, <1>3, <1>4 DEF Of, PackType, NoStack, Stack
<1>6. \A d \in Cell \ {c} : q.bag[d] = p.bag[d]
    BY <1>2, <1>4 DEF PackType
<1>7. ASSUME NEW x \in Kind
      PROVE  StacksOf(q, x) = StacksOf(p, x) + (IF x = s.kind THEN -n ELSE 0)
    <2>a. q.worn = p.worn
        BY <1>4 DEF BagOnly
    <2>1. StacksOf(q, x) = StacksOf(p, x) + Of(q.bag[c], x) - Of(p.bag[c], x)
        BY <1>2, <1>6, <2>a, BagChanged
    <2>2. StacksOf(p, x) \in Nat /\ Of(s, x) \in Nat
        <3>1. s \in MaybeStack
            BY <1>3 DEF MaybeStack
        <3> QED BY <1>2, <3>1, StacksHeld, OfStack
    <2> QED BY <1>5, <2>1, <2>2
<1> QED
    BY <1>4, <1>7 DEF Gains, q

LEMMA PutCounts ==
    ASSUME NEW p \in PackType, NEW c \in Cell, NEW s \in MaybeStack
    PROVE  /\ BagOnly(p, Put(p, c, s)) /\ Put(p, c, s) \in PackType
           /\ \A x \in Kind : StacksOf(Put(p, c, s), x) = StacksOf(p, x) + Of(s, x) - Of(p.bag[c], x)
<1> DEFINE q == Put(p, c, s)
<1>1. q \in PackType /\ BagOnly(p, q) /\ q.worn = p.worn /\ q.bag = [p.bag EXCEPT ![c] = s]
    BY DEF Put, PackType, BagOnly
<1>2. q.bag[c] = s /\ \A d \in Cell \ {c} : q.bag[d] = p.bag[d]
    BY <1>1 DEF PackType
<1> HIDE DEF q
<1>3. ASSUME NEW x \in Kind
      PROVE  StacksOf(q, x) = StacksOf(p, x) + Of(q.bag[c], x) - Of(p.bag[c], x)
    <2>1. q \in PackType /\ q.worn = p.worn /\ \A d \in Cell \ {c} : q.bag[d] = p.bag[d]
        BY <1>1, <1>2
    <2> QED BY <2>1, BagChanged
<1> QED
    BY <1>1, <1>2, <1>3 DEF q

LEMMA PouredCounts ==
    ASSUME NEW p, Sound(p), NEW c \in Cell, NEW d \in Cell \ {c},
           p.bag[c] # NoStack, NEW n \in 1..p.bag[c].n,
           p.bag[d] # NoStack, p.bag[d].kind = p.bag[c].kind,
           p.bag[d].n + n <= Catalog[p.bag[d].kind].max
    PROVE  BagOnly(p, Poured(p, c, d, n)) /\ SameCount(p, Poured(p, c, d, n))
<1> DEFINE l == Less(p, c, n)
           k == p.bag[c].kind
           s == [p.bag[d] EXCEPT !.n = @ + n]
<1>1. Sound(l) /\ l.bag[d] = p.bag[d] /\ BagOnly(p, l) /\ Gains(p, l, k, -n)
    BY LessSound, LessGains
<1>2. p.bag[c] \in Stack /\ p.bag[d] \in Stack
    BY DEF Sound, PackType, MaybeStack
<1>3. s \in MaybeStack
    BY <1>2 DEF MaybeStack, Stack
<1> HIDE DEF l
<1>4. Poured(p, c, d, n) = Put(l, d, s)
    BY <1>1, <1>2 DEF Poured, l, Put, Sound, PackType, Stack
<1>5. \A x \in Kind : Of(s, x) = Of(p.bag[d], x) + (IF x = k THEN n ELSE 0)
    BY <1>2 DEF Of, Stack
<1> HIDE DEF s
<1>6. /\ BagOnly(l, Put(l, d, s))
      /\ \A x \in Kind : StacksOf(Put(l, d, s), x) = StacksOf(l, x) + Of(s, x) - Of(p.bag[d], x)
    <2>1. l \in PackType
        BY <1>1 DEF Sound
    <2> QED BY <1>1, <1>3, <2>1, PutCounts
<1>7. ASSUME NEW x \in Kind
      PROVE  StacksOf(Put(l, d, s), x) = StacksOf(p, x)
    <2>1. StacksOf(l, x) = StacksOf(p, x) + (IF x = k THEN -n ELSE 0)
        BY <1>1 DEF Gains
    <2>2. StacksOf(p, x) \in Nat /\ Of(p.bag[d], x) \in Nat
        BY <1>2, StacksHeld, OfStack DEF Sound, MaybeStack
    <2> QED BY <1>5, <1>6, <2>1, <2>2
<1> QED
    BY <1>1, <1>4, <1>6, <1>7 DEF BagOnly, SameCount

LEMMA PartedCounts ==
    ASSUME NEW p, Sound(p), NEW c \in Cell, NEW d \in Cell \ {c}, p.bag[c] # NoStack,
           p.bag[d] = NoStack, NEW n \in 1..(p.bag[c].n - 1), NextId(p) \in 1..MaxId
    PROVE  BagOnly(p, Parted(p, c, d, n)) /\ SameCount(p, Parted(p, c, d, n))
<1> DEFINE l == Less(p, c, n)
           k == p.bag[c].kind
           s == [id |-> NextId(p), kind |-> k, n |-> n]
<1>1. p.bag[c] \in Stack
    BY DEF Sound, PackType, MaybeStack
<1>2. n \in 1..p.bag[c].n /\ p.bag[c].n \in Nat
    BY <1>1 DEF Stack
<1>3. Sound(l) /\ l.bag[d] = NoStack /\ BagOnly(p, l) /\ Gains(p, l, k, -n)
    BY <1>2, LessSound, LessGains
<1>4. s \in MaybeStack
    <2> HIDE DEF NextId
    <2>1. Catalog[k].max \in Nat /\ k \in Kind /\ p.bag[c].n <= Catalog[k].max
        BY <1>1 DEF Stack, Template
    <2> QED
        BY <1>2, <2>1 DEF MaybeStack, Stack
<1>5. \A x \in Kind : Of(s, x) = (IF x = k THEN n ELSE 0) /\ Of(NoStack, x) = 0
    BY DEF Of, NoStack
<1>6. Parted(p, c, d, n) = Put(l, d, s)
    BY DEF Parted
<1> HIDE DEF s, l
<1>7. /\ BagOnly(l, Put(l, d, s))
      /\ \A x \in Kind : StacksOf(Put(l, d, s), x) = StacksOf(l, x) + Of(s, x) - Of(NoStack, x)
    <2>1. l \in PackType
        BY <1>3 DEF Sound
    <2> QED BY <1>3, <1>4, <2>1, PutCounts
<1>8. ASSUME NEW x \in Kind
      PROVE  StacksOf(Put(l, d, s), x) = StacksOf(p, x)
    <2>1. StacksOf(l, x) = StacksOf(p, x) + (IF x = k THEN -n ELSE 0)
        BY <1>3 DEF Gains
    <2>2. StacksOf(p, x) \in Nat
        BY StacksHeld DEF Sound
    <2> QED BY <1>2, <1>5, <1>7, <2>1, <2>2
<1> QED
    BY <1>3, <1>6, <1>7, <1>8 DEF BagOnly, SameCount

LEMMA CarriedCounts ==
    ASSUME NEW p, Sound(p), NEW c \in Cell, NEW d \in Cell \ {c}, p.bag[c] # NoStack
    PROVE  BagOnly(p, Carried(p, c, d)) /\ SameCount(p, Carried(p, c, d))
<1> DEFINE q == Carried(p, c, d)
<1>1. p \in PackType /\ q \in PackType
    BY CarriedSound DEF Sound
<1>2. BagOnly(p, q) /\ q.bag = [p.bag EXCEPT ![d] = p.bag[c], ![c] = p.bag[d]]
    BY <1>1 DEF Carried, Rebound, Put, PackType, BagOnly
<1>3. q.worn = p.worn
    BY <1>2 DEF BagOnly
<1>4. /\ q.bag[c] = p.bag[d] /\ q.bag[d] = p.bag[c]
      /\ \A e \in Cell \ {c, d} : q.bag[e] = p.bag[e]
    BY <1>1, <1>2 DEF PackType
<1> HIDE DEF q
<1>5. ASSUME NEW x \in Kind PROVE StacksOf(q, x) = StacksOf(p, x)
    <2>1. Of(p.bag[c], x) \in Nat /\ Of(p.bag[d], x) \in Nat
        <3>1. p.bag[c] \in MaybeStack /\ p.bag[d] \in MaybeStack
            BY <1>1 DEF PackType
        <3> QED BY <3>1, OfStack
    <2>2. Of(q.bag[c], x) + Of(q.bag[d], x) = Of(p.bag[c], x) + Of(p.bag[d], x)
        BY <1>4, <2>1
    <2> QED BY <1>1, <1>3, <1>4, <2>2, BagMoved
<1> QED
    BY <1>2, <1>5 DEF SameCount, q

-----------------------------------------------------------------------------
(* Gear.                                                                   *)

LEMMA EffectType ==
    ASSUME NEW s \in MaybeStack
    PROVE  Effect(s) \in Int /\ -Effect(s) \in Int /\ Effect(NoStack) = 0
<1>1. CASE s = NoStack
    BY <1>1 DEF Effect
<1>2. CASE s # NoStack
    <2>1. s \in Stack
        BY <1>2 DEF MaybeStack
    <2>2. s.kind \in Kind
        BY <2>1 DEF Stack
    <2>3. Catalog[s.kind].boost \in Int
        BY <2>2 DEF Template
    <2> QED BY <2>3 DEF Effect
<1> QED BY <1>1, <1>2

LEMMA GearType ==
    ASSUME NEW p \in PackType
    PROVE  GearEffect(p) \in Int
<1> DEFINE f == [w \in Wear |-> Effect(p.worn[w])]
           g == [w \in Wear |-> -Effect(p.worn[w])]
<1>1. \A w \in Wear : f[w] \in Int /\ g[w] \in Int
    <2> SUFFICES ASSUME NEW w \in Wear PROVE f[w] \in Int /\ g[w] \in Int
        OBVIOUS
    <2>1. p.worn[w] \in MaybeStack
        BY DEF PackType
    <2> QED BY <2>1, EffectType
<1> HIDE DEF f, g
<1>2. Total(f, Wear) \in Nat /\ Total(g, Wear) \in Nat
    BY <1>1, FinitePlaces, TotalType
<1>3. GearEffect(p) = Total(f, Wear) - Total(g, Wear)
    BY DEF GearEffect, Points, Total, Heap, f, g
<1> QED
    BY <1>2, <1>3

\* What is worn in one cell makes the difference.
LEMMA GearChanged ==
    ASSUME NEW p \in PackType, NEW q \in PackType, NEW w \in Wear,
           \A v \in Wear \ {w} : q.worn[v] = p.worn[v]
    PROVE  GearEffect(q) = GearEffect(p) + Effect(q.worn[w]) - Effect(p.worn[w])
<1> DEFINE f == [v \in Wear |-> Effect(p.worn[v])]
           g == [v \in Wear |-> -Effect(p.worn[v])]
           h == [v \in Wear |-> Effect(q.worn[v])]
           i == [v \in Wear |-> -Effect(q.worn[v])]
<1>1. \A v \in Wear : f[v] \in Int /\ g[v] \in Int /\ h[v] \in Int /\ i[v] \in Int
    <2> SUFFICES ASSUME NEW v \in Wear
                 PROVE  f[v] \in Int /\ g[v] \in Int /\ h[v] \in Int /\ i[v] \in Int
        OBVIOUS
    <2>1. p.worn[v] \in MaybeStack /\ q.worn[v] \in MaybeStack
        BY DEF PackType
    <2> QED BY <2>1, EffectType
<1>2. \A v \in Wear \ {w} : h[v] = f[v] /\ i[v] = g[v]
    OBVIOUS
<1>3. /\ f[w] = Effect(p.worn[w]) /\ g[w] = -Effect(p.worn[w])
      /\ h[w] = Effect(q.worn[w]) /\ i[w] = -Effect(q.worn[w])
    OBVIOUS
<1>4. /\ GearEffect(p) = Total(f, Wear) - Total(g, Wear)
      /\ GearEffect(q) = Total(h, Wear) - Total(i, Wear)
    BY DEF GearEffect, Points, Total, Heap
<1> HIDE DEF f, g, h, i
<1>5. /\ Total(h, Wear) = Total(f, Wear) + Part(h[w]) - Part(f[w])
      /\ Total(i, Wear) = Total(g, Wear) + Part(i[w]) - Part(g[w])
    BY <1>1, <1>2, FinitePlaces, TotalChanged
<1>6. Total(f, Wear) \in Nat /\ Total(g, Wear) \in Nat
    BY <1>1, FinitePlaces, TotalType
<1>7. Part(h[w]) - Part(i[w]) = Effect(q.worn[w]) /\ Part(f[w]) - Part(g[w]) = Effect(p.worn[w])
    BY <1>1, <1>3 DEF Part
<1>8. {Part(h[w]), Part(i[w]), Part(f[w]), Part(g[w])} \subseteq Int
    BY <1>1 DEF Part
<1> QED
    BY <1>4, <1>5, <1>6, <1>7, <1>8

\* Dressing moves a stack and its effect, and nothing else.
LEMMA DressCounts ==
    ASSUME NEW p, Sound(p), NEW c \in Cell, NEW w \in Wear,
           NEW q, Sound(q), q.gold = p.gold, q.pts = p.pts,
           \A d \in Cell \ {c} : q.bag[d] = p.bag[d],
           \A v \in Wear \ {w} : q.worn[v] = p.worn[v],
           q.bag[c] = p.worn[w], q.worn[w] = p.bag[c]
    PROVE  /\ SameCount(p, q)
           /\ GearEffect(q) = GearEffect(p) + Effect(p.bag[c]) - Effect(p.worn[w])
<1>1. p \in PackType /\ q \in PackType
    BY DEF Sound
<1> QED
    BY <1>1, GearMoved, GearChanged

-----------------------------------------------------------------------------
(* Consuming and granting.                                                 *)

\* Pieces of one kind are added cell by cell.
LEMMA HeldAdded ==
    ASSUME NEW A \in [Cell -> MaybeStack], NEW B \in [Cell -> MaybeStack], NEW k \in Kind,
           NEW more, \A c \in Cell : more[c] \in Nat,
           \A c \in Cell, x \in Kind :
               Of(B[c], x) = Of(A[c], x) + (IF x = k THEN more[c] ELSE 0)
    PROVE  \A x \in Kind :
               Held(B, Cell, x) = Held(A, Cell, x) + (IF x = k THEN Total(more, Cell) ELSE 0)
<1> SUFFICES ASSUME NEW x \in Kind
             PROVE  Held(B, Cell, x) = Held(A, Cell, x) + (IF x = k THEN Total(more, Cell) ELSE 0)
    OBVIOUS
<1> DEFINE f == [c \in Cell |-> Of(A[c], x)]
           g == [c \in Cell |-> Of(B[c], x)]
<1>1. ASSUME NEW c \in Cell
      PROVE  /\ f[c] = Of(A[c], x) /\ g[c] = Of(B[c], x)
             /\ f[c] \in Nat /\ g[c] \in Nat
    <2>1. A[c] \in MaybeStack /\ B[c] \in MaybeStack
        OBVIOUS
    <2> QED BY <2>1, OfStack
<1>2. Held(A, Cell, x) = Total(f, Cell) /\ Held(B, Cell, x) = Total(g, Cell)
    BY DEF Held
<1> HIDE DEF f, g
<1>3. Total(f, Cell) \in Nat
    BY <1>1, FinitePlaces, TotalType
<1>4. CASE x = k
    <2>1. \A c \in Cell : g[c] = f[c] + more[c]
        BY <1>1, <1>4
    <2>2. IsFiniteSet(Cell)
        BY FinitePlaces
    <2>3. Total(g, Cell) = Total(f, Cell) + Total(more, Cell)
        <3> HIDE DEF Cell
        <3> QED BY <1>1, <2>1, <2>2, TotalAdded
    <2> QED BY <1>2, <1>4, <2>3
<1>5. CASE x # k
    <2>1. \A c \in Cell : g[c] = f[c]
        BY <1>1, <1>5
    <2>2. Heap(g, Cell) = Heap(f, Cell)
        BY <2>1, SameHeap
    <2> QED BY <1>2, <1>3, <1>5, <2>2 DEF Total
<1> QED
    BY <1>4, <1>5

Sizes(p) == [c \in Cell |-> p.bag[c].n]

LEMMA SizesAre ==
    ASSUME NEW p \in PackType
    PROVE  /\ \A c \in Cell : Sizes(p)[c] = p.bag[c].n /\ Sizes(p)[c] \in Nat
           /\ \A S \in SUBSET Cell : CountIn(p, S) = Total(Sizes(p), S) /\ CountIn(p, S) \in Nat
<1>1. \A c \in Cell : Sizes(p)[c] = p.bag[c].n /\ Sizes(p)[c] \in Nat
    BY DEF Sizes, PackType, MaybeStack, Stack, NoStack
<1>2. ASSUME NEW S \in SUBSET Cell
      PROVE  CountIn(p, S) = Total(Sizes(p), S) /\ CountIn(p, S) \in Nat
    <2>1. Pieces(p.bag, S) = Heap(Sizes(p), S)
        <3>1. \A c \in S : p.bag[c].n = Sizes(p)[c]
            BY <1>1
        <3> HIDE DEF Cell
        <3> QED BY <3>1 DEF Pieces, Heap
    <2>2. IsFiniteSet(S)
        BY FinitePlaces, FS_Subset
    <2>3. Total(Sizes(p), S) \in Nat
        <3>1. \A c \in S : Sizes(p)[c] \in Int
            BY <1>1
        <3> QED BY <2>2, <3>1, TotalType
    <2> QED BY <2>1, <2>3 DEF CountIn, Total
<1> QED
    BY <1>1, <1>2

\* What is taken from some of the cells, all of one kind.
LEMMA ConsumedCounts ==
    ASSUME NEW p, Sound(p), NEW k \in Kind, NEW n \in Nat, NEW but, Has(p, k, n, but)
    PROVE  BagOnly(p, Consumed(p, k, n, but)) /\ Gains(p, Consumed(p, k, n, but), k, -n)
<1> DEFINE from == CellsOf(p, k) \ but
           part == [c \in Cell |->
                    IF c \in from THEN Clamp(n - CountIn(p, Below(from, c)), p.bag[c].n) ELSE 0]
           q == Consumed(p, k, n, but)
<1>1. p \in PackType /\ q \in PackType
    BY ConsumedSound DEF Sound
<1>2. from \in SUBSET Cell /\ \A c \in from : p.bag[c].kind = k
    BY DEF CellsOf
<1>3. /\ \A c \in Cell : part[c] = IF c \in from THEN Clamp(n - CountIn(p, Below(from, c)), p.bag[c].n) ELSE 0
      /\ q = Reduced(p, part)
    BY DEF Consumed
<1> HIDE DEF part, q
<1>4. /\ BagOnly(p, q) /\ q.worn = p.worn
      /\ q.bag = [c \in Cell |-> IF part[c] = p.bag[c].n THEN NoStack
                                 ELSE [p.bag[c] EXCEPT !.n = @ - part[c]]]
    BY <1>1, <1>3 DEF Reduced, PackType, BagOnly
<1>5. CountIn(p, from) >= n
    BY DEF Has
<1> HIDE DEF from
<1>6. ASSUME NEW c \in Cell PROVE Below(from, c) \in SUBSET Cell
    BY <1>2 DEF Below
<1>7. ASSUME NEW c \in Cell PROVE part[c] \in Nat
    <2>1. p.bag[c].n \in Nat
        BY <1>1, SizesAre
    <2> QED BY <1>3, <2>1, ClampBounds
<1>8. Total(part, from) = n
    <2>1. \A c \in from : part[c] = Clamp(n - Total(Sizes(p), Below(from, c)), Sizes(p)[c])
        BY <1>1, <1>2, <1>3, <1>6, SizesAre
    <2>2. Total(Sizes(p), from) >= n /\ Total(Sizes(p), from) \in Nat
        BY <1>1, <1>2, <1>5, SizesAre
    <2>3. IsFiniteSet(from) /\ from \in SUBSET Nat
        <3>1. from \in SUBSET Nat
            BY <1>2
        <3>2. IsFiniteSet(from)
            <4> HIDE DEF Cell
            <4> QED BY <1>2, FinitePlaces, FS_Subset
        <3> QED BY <3>1, <3>2
    <2>4. \A c \in from : Sizes(p)[c] \in Nat
        BY <1>1, <1>2, SizesAre
    <2>5. Total(part, from) = IF n <= Total(Sizes(p), from) THEN n ELSE Total(Sizes(p), from)
        BY <2>1, <2>3, <2>4, TotalClamped
    <2> QED BY <2>2, <2>5
<1>9. Total(part, Cell) = n
    <2>1. \A c \in Cell \ from : part[c] = 0
        BY <1>3
    <2>2. Total(part, Cell) = Total(part, from)
        <3> HIDE DEF Cell
        <3> QED BY <1>2, <2>1, TotalElsewhere
    <2> QED BY <1>8, <2>2
<1>10. ASSUME NEW c \in Cell, NEW x \in Kind
       PROVE  Of(p.bag[c], x) = Of(q.bag[c], x) + (IF x = k THEN part[c] ELSE 0)
    <2>1. p.bag[c] \in MaybeStack /\ p.bag[c].n \in Nat
        BY <1>1 DEF PackType, MaybeStack, Stack, NoStack
    <2>2. q.bag[c] = IF part[c] = p.bag[c].n THEN NoStack ELSE [p.bag[c] EXCEPT !.n = @ - part[c]]
        BY <1>4
    <2>3. CASE c \in from
        <3>1. p.bag[c].kind = k /\ part[c] \in 0..p.bag[c].n
            BY <1>2, <1>3, <2>1, <2>3, ClampBounds
        <3>2. p.bag[c] \in Stack
            BY <2>1, <3>1 DEF MaybeStack, NoStack
        <3> QED BY <2>1, <2>2, <3>1, <3>2 DEF Of, Stack, NoStack
    <2>4. CASE c \notin from
        <3>1. part[c] = 0
            BY <1>3, <2>4
        <3>2. CASE p.bag[c] = NoStack
            BY <2>1, <2>2, <3>1, <3>2 DEF Of, NoStack
        <3>3. CASE p.bag[c] # NoStack
            <4>1. p.bag[c] \in Stack /\ p.bag[c].n # 0
                BY <2>1, <3>3 DEF MaybeStack, Stack
            <4>2. q.bag[c] = p.bag[c]
                BY <2>2, <3>1, <4>1 DEF Stack
            <4>3. Of(p.bag[c], x) \in Nat
                BY <2>1, OfStack
            <4> QED BY <3>1, <4>2, <4>3
        <3> QED BY <3>2, <3>3
    <2> QED BY <2>3, <2>4
<1>11. \A x \in Kind : Held(p.bag, Cell, x) = Held(q.bag, Cell, x) + (IF x = k THEN n ELSE 0)
    <2>1. p.bag \in [Cell -> MaybeStack] /\ q.bag \in [Cell -> MaybeStack]
        BY <1>1 DEF PackType
    <2>2. \A x \in Kind : Held(p.bag, Cell, x) = Held(q.bag, Cell, x) + (IF x = k THEN Total(part, Cell) ELSE 0)
        <3> DEFINE A == q.bag
                   B == p.bag
        <3>1. A \in [Cell -> MaybeStack] /\ B \in [Cell -> MaybeStack]
            BY <2>1
        <3>2. \A c \in Cell : part[c] \in Nat
            BY <1>7
        <3>3. \A c \in Cell, x \in Kind :
                  Of(B[c], x) = Of(A[c], x) + (IF x = k THEN part[c] ELSE 0)
            BY <1>10
        <3> HIDE DEF A, B, Cell
        <3>4. \A x \in Kind :
                  Held(B, Cell, x) = Held(A, Cell, x) + (IF x = k THEN Total(part, Cell) ELSE 0)
            BY <3>1, <3>2, <3>3, HeldAdded
        <3> QED BY <3>4 DEF A, B
    <2> QED BY <1>9, <2>2
<1>12. ASSUME NEW x \in Kind
       PROVE  StacksOf(q, x) = StacksOf(p, x) + (IF x = k THEN -n ELSE 0)
    <2>1. /\ StacksOf(p, x) = Held(p.bag, Cell, x) + Held(p.worn, Wear, x)
          /\ StacksOf(q, x) = Held(q.bag, Cell, x) + Held(p.worn, Wear, x)
          /\ Held(p.bag, Cell, x) \in Nat /\ Held(q.bag, Cell, x) \in Nat
          /\ Held(p.worn, Wear, x) \in Nat
        BY <1>1, <1>4, StacksHeld
    <2>2. Held(p.bag, Cell, x) = Held(q.bag, Cell, x) + (IF x = k THEN n ELSE 0)
        BY <1>11
    <2> QED BY <2>1, <2>2
<1> QED
    BY <1>4, <1>12 DEF Gains, q

\* A refine turns one piece into another, or destroys it.
LEMMA TurnedCounts ==
    ASSUME NEW p, Sound(p), NEW c \in Cell, p.bag[c] # NoStack, p.bag[c].n = 1,
           NEW k \in Kind \cup {NoKind}
    PROVE  /\ BagOnly(p, Turned(p, c, k))
           /\ \A x \in Kind :
                  StacksOf(Turned(p, c, k), x) = StacksOf(p, x)
                      - (IF x = p.bag[c].kind THEN 1 ELSE 0) + (IF x = k THEN 1 ELSE 0)
<1> DEFINE q == Turned(p, c, k)
           s == IF k = NoKind THEN NoStack ELSE [p.bag[c] EXCEPT !.kind = k]
<1>1. p \in PackType /\ q \in PackType
    BY TurnedSound DEF Sound
<1>2. p.bag[c] \in Stack
    BY <1>1 DEF PackType, MaybeStack
<1>3. BagOnly(p, q) /\ q.worn = p.worn /\ q.bag = [p.bag EXCEPT ![c] = s]
    BY <1>1, <1>2 DEF Turned, Unbound, Put, PackType, BagOnly
<1>4. q.bag[c] = s /\ \A d \in Cell \ {c} : q.bag[d] = p.bag[d]
    BY <1>1, <1>3 DEF PackType
<1>5. ASSUME NEW x \in Kind
      PROVE  /\ Of(s, x) = IF x = k THEN 1 ELSE 0
             /\ Of(p.bag[c], x) = IF x = p.bag[c].kind THEN 1 ELSE 0
    BY <1>2 DEF Of, Stack, NoStack
<1> HIDE DEF q, s
<1>6. ASSUME NEW x \in Kind
      PROVE  StacksOf(q, x) = StacksOf(p, x)
                 - (IF x = p.bag[c].kind THEN 1 ELSE 0) + (IF x = k THEN 1 ELSE 0)
    <2>1. StacksOf(q, x) = StacksOf(p, x) + Of(q.bag[c], x) - Of(p.bag[c], x)
        <3>1. q.worn = p.worn /\ \A d \in Cell \ {c} : q.bag[d] = p.bag[d]
            BY <1>3, <1>4
        <3> QED BY <1>1, <3>1, BagChanged
    <2>2. StacksOf(p, x) \in Nat
        BY <1>1, StacksHeld
    <2> QED BY <1>4, <1>5, <2>1, <2>2
<1> QED
    BY <1>3, <1>6 DEF q

LEMMA ToppedCounts ==
    ASSUME NEW p, Sound(p), NEW k \in Kind, NEW more \in [Cell -> Nat],
           \A c \in Cell : more[c] # 0 =>
               p.bag[c].kind = k /\ p.bag[c].n + more[c] <= Catalog[k].max
    PROVE  /\ BagOnly(p, Topped(p, more)) /\ Sound(Topped(p, more))
           /\ Gains(p, Topped(p, more), k, Total(more, Cell))
           /\ \A c \in Cell : more[c] = 0 => Topped(p, more).bag[c] = p.bag[c]
<1> DEFINE q == Topped(p, more)
<1>1. Sound(q)
    <2>1. \A c \in Cell : more[c] # 0 =>
              p.bag[c] # NoStack /\ p.bag[c].n + more[c] <= Catalog[p.bag[c].kind].max
        BY DEF NoStack
    <2> QED BY <2>1, ToppedSound
<1>2. p \in PackType /\ q \in PackType
    BY <1>1 DEF Sound
<1>3. /\ BagOnly(p, q) /\ q.worn = p.worn
      /\ q.bag = [c \in Cell |-> IF more[c] = 0 THEN p.bag[c] ELSE [p.bag[c] EXCEPT !.n = @ + more[c]]]
    BY <1>2 DEF Topped, PackType, BagOnly
<1> HIDE DEF q
<1>4. ASSUME NEW c \in Cell, NEW x \in Kind
      PROVE  Of(q.bag[c], x) = Of(p.bag[c], x) + (IF x = k THEN more[c] ELSE 0)
    <2>1. q.bag[c] = IF more[c] = 0 THEN p.bag[c] ELSE [p.bag[c] EXCEPT !.n = @ + more[c]]
        BY <1>3
    <2>2. p.bag[c] \in MaybeStack /\ more[c] \in Nat
        BY <1>2 DEF PackType
    <2>3. CASE more[c] = 0
        BY <2>1, <2>2, <2>3, OfStack
    <2>4. CASE more[c] # 0
        <3>1. p.bag[c].kind = k /\ p.bag[c] \in Stack
            BY <2>2, <2>4 DEF MaybeStack, NoStack
        <3> QED BY <2>1, <2>2, <2>4, <3>1 DEF Of, Stack
    <2> QED BY <2>3, <2>4
<1>5. \A x \in Kind : Held(q.bag, Cell, x) = Held(p.bag, Cell, x) + (IF x = k THEN Total(more, Cell) ELSE 0)
    <2>1. p.bag \in [Cell -> MaybeStack] /\ q.bag \in [Cell -> MaybeStack]
        BY <1>2 DEF PackType
    <2>2. \A c \in Cell : more[c] \in Nat
        OBVIOUS
    <2> HIDE DEF Cell
    <2> QED BY <1>4, <2>1, <2>2, HeldAdded
<1>6. Total(more, Cell) \in Nat
    <2>1. \A c \in Cell : more[c] \in Int
        OBVIOUS
    <2> HIDE DEF Cell
    <2> QED BY <2>1, FinitePlaces, TotalType
<1>7. ASSUME NEW x \in Kind
      PROVE  StacksOf(q, x) = StacksOf(p, x) + (IF x = k THEN Total(more, Cell) ELSE 0)
    <2>1. /\ StacksOf(p, x) = Held(p.bag, Cell, x) + Held(p.worn, Wear, x)
          /\ StacksOf(q, x) = Held(q.bag, Cell, x) + Held(p.worn, Wear, x)
          /\ Held(p.bag, Cell, x) \in Nat /\ Held(p.worn, Wear, x) \in Nat
        BY <1>2, <1>3, StacksHeld
    <2> QED BY <1>5, <1>6, <2>1
<1>8. \A c \in Cell : more[c] = 0 => q.bag[c] = p.bag[c]
    BY <1>3
<1> QED
    BY <1>1, <1>3, <1>7, <1>8 DEF Gains, q

\* The room in some cells is that in each of them.
LEMMA RoomIsTotal ==
    ASSUME NEW p \in PackType, NEW k \in Kind, NEW S \in SUBSET Cell,
           NEW room, \A c \in S : room[c] = Catalog[k].max - p.bag[c].n /\ room[c] \in Nat
    PROVE  RoomIn(p, k, S) = Total(room, S)
<1> DEFINE m == Catalog[k].max
           h == [c \in S |-> m]
<1>1. m \in Nat
    BY DEF Template
<1>2. IsFiniteSet(S) /\ IsFiniteSet(1..m) /\ Cardinality(S) \in Nat
    <2>1. IsFiniteSet(S)
        <3> HIDE DEF Cell
        <3> QED BY FinitePlaces, FS_Subset
    <2>2. IsFiniteSet(1..m)
        BY <1>1, FS_Interval
    <2> QED BY <2>1, <2>2, FS_CardinalityType
<1>3. Total(h, S) = Cardinality(S) * m
    <2>1. Heap(h, S) = S \X (1..m)
        <3>1. \A c \in S : h[c] = m
            OBVIOUS
        <3> HIDE DEF h, m, Cell
        <3>2. Heap(h, S) = UNION {{c} \X (1..m) : c \in S}
            BY <3>1, Zenon DEF Heap
        <3> QED BY <3>2
    <2>2. Cardinality(S \X (1..m)) = Cardinality(S) * Cardinality(1..m)
        BY <1>2, FS_Product
    <2>3. Cardinality(1..m) = m
        BY <1>1, FS_Interval
    <2> QED BY <2>1, <2>2, <2>3 DEF Total
<1>4. ASSUME NEW c \in S
      PROVE  Sizes(p)[c] \in Nat /\ room[c] \in Nat /\ h[c] = Sizes(p)[c] + room[c]
    BY <1>1, SizesAre
<1>5. CountIn(p, S) = Total(Sizes(p), S) /\ CountIn(p, S) \in Nat
    BY SizesAre
<1>6. Total(room, S) \in Nat
    <2>1. \A c \in S : room[c] \in Int
        OBVIOUS
    <2> QED BY <1>2, <2>1, TotalType
<1> HIDE DEF h
<1>7. Total(h, S) = Total(Sizes(p), S) + Total(room, S)
    BY <1>2, <1>4, TotalAdded
<1>8. m * Cardinality(S) = Cardinality(S) * m
    BY <1>1, <1>2
<1> QED
    BY <1>3, <1>5, <1>6, <1>7, <1>8 DEF RoomIn

\* What is granted goes to one stack, or to several and the rest to a free cell.
LEMMA GrantedCounts ==
    ASSUME NEW p, Sound(p), NEW k \in Kind, NEW n \in 1..Catalog[k].max,
           HasRoom(p, k, n), NextId(p) \in 1..MaxId
    PROVE  BagOnly(p, Granted(p, k, n)) /\ Gains(p, Granted(p, k, n), k, n)
<1> DEFINE max == Catalog[k].max
<1>1. p \in PackType /\ max \in Nat
    BY DEF Sound, Template
<1>2. CASE Takers(p, k, n) # {}
    <2> DEFINE t == Lowest(Takers(p, k, n))
               more == [c \in Cell |-> IF c = t THEN n ELSE 0]
    <2>1. t \in Takers(p, k, n)
        BY <1>2, LowestExists DEF Takers, CellsOf
    <2>2. t \in Cell /\ p.bag[t].kind = k /\ p.bag[t].n + n <= max
        BY <2>1 DEF Takers, CellsOf
    <2>3. Granted(p, k, n) = Topped(p, more)
        BY <1>2 DEF Granted
    <2> HIDE DEF t
    <2>4. more \in [Cell -> Nat] /\ more[t] = n /\ \A c \in Cell \ {t} : more[c] = 0
        BY <1>1, <2>2
    <2> HIDE DEF more
    <2>5. \A c \in Cell : more[c] # 0 => p.bag[c].kind = k /\ p.bag[c].n + more[c] <= max
        BY <2>2, <2>4
    <2>6. Total(more, Cell) = n
        <3>1. Total(more, Cell) = Total(more, {t})
            <4>1. {t} \in SUBSET Cell
                BY <2>2
            <4> HIDE DEF Cell
            <4> QED BY <2>4, <4>1, TotalElsewhere
        <3>2. Total(more, {t}) = n
            <4>1. more[t] \in Int /\ more[t] > 0
                BY <1>1, <2>4
            <4> QED BY <2>4, <4>1, TotalOfOne
        <3> QED BY <3>1, <3>2
    <2>7. BagOnly(p, Topped(p, more)) /\ Gains(p, Topped(p, more), k, Total(more, Cell))
        BY <2>4, <2>5, ToppedCounts
    <2> QED BY <2>3, <2>6, <2>7
<1>3. CASE Takers(p, k, n) = {}
    <2> DEFINE into == Partial(p, k)
               more == [c \in Cell |->
                    IF c \in into
                    THEN Clamp(n - RoomIn(p, k, Below(into, c)), Catalog[k].max - p.bag[c].n)
                    ELSE 0]
               room == [c \in Cell |-> max - p.bag[c].n]
               full == Topped(p, more)
               f == Lowest(FreeCells(p))
               s == [id |-> NextId(p), kind |-> k, n |-> Rest(p, k, n)]
    <2>1. into \in SUBSET Cell
        BY DEF Partial, CellsOf
    <2>2. ASSUME NEW c \in into
          PROVE  /\ c \in Cell /\ p.bag[c].kind = k /\ p.bag[c].n \in Nat
                 /\ room[c] = max - p.bag[c].n /\ room[c] \in Nat
        <3>1. c \in Cell /\ p.bag[c].kind = k /\ p.bag[c].n < max
            BY DEF Partial, CellsOf
        <3>2. p.bag[c].n \in Nat
            BY <1>1, <3>1, SizesAre
        <3> QED BY <1>1, <3>1, <3>2
    <2>3. Granted(p, k, n) = IF Rest(p, k, n) = 0 THEN full ELSE Put(full, f, s)
        BY <1>3 DEF Granted
    <2>4. Rest(p, k, n) = Clamp(n - RoomIn(p, k, into), n)
        BY DEF Rest
    <2>5. \A c \in Cell : more[c] =
              IF c \in into THEN Clamp(n - RoomIn(p, k, Below(into, c)), max - p.bag[c].n) ELSE 0
        OBVIOUS
    <2> HIDE DEF into, room, more
    <2>6. \A c \in into : Below(into, c) \in SUBSET into
        BY DEF Below
    <2>7. \A S \in SUBSET into : RoomIn(p, k, S) = Total(room, S)
        <3> SUFFICES ASSUME NEW S \in SUBSET into PROVE RoomIn(p, k, S) = Total(room, S)
            OBVIOUS
        <3>1. S \in SUBSET Cell /\ \A c \in S : room[c] = Catalog[k].max - p.bag[c].n /\ room[c] \in Nat
            BY <2>1, <2>2
        <3> HIDE DEF Cell, max
        <3> QED BY <1>1, <3>1, RoomIsTotal
    <2>8. \A c \in into : more[c] = Clamp(n - Total(room, Below(into, c)), room[c])
        BY <2>1, <2>2, <2>5, <2>6, <2>7
    <2>9. IsFiniteSet(into) /\ into \in SUBSET Nat
        <3>1. into \in SUBSET Nat
            BY <2>1
        <3>2. IsFiniteSet(into)
            <4> HIDE DEF Cell
            <4> QED BY <2>1, FinitePlaces, FS_Subset
        <3> QED BY <3>1, <3>2
    <2>10. n \in Nat
        BY <1>1
    <2>11. Total(more, into) = IF n <= Total(room, into) THEN n ELSE Total(room, into)
        <3>1. \A c \in into : room[c] \in Nat
            BY <2>2
        <3> QED BY <2>8, <2>9, <2>10, <3>1, TotalClamped
    <2>12. Total(more, Cell) = Total(more, into)
        <3>1. \A c \in Cell \ into : more[c] = 0
            BY <2>5
        <3> HIDE DEF Cell
        <3> QED BY <2>1, <3>1, TotalElsewhere
    <2>13. Total(room, into) \in Nat
        <3>1. \A c \in into : room[c] \in Int
            BY <2>2
        <3> QED BY <2>9, <3>1, TotalType
    <2>14. RoomIn(p, k, into) = Total(room, into)
        BY <2>7
    <2>15. Total(more, Cell) + Rest(p, k, n) = n /\ Total(more, Cell) \in Nat /\ Rest(p, k, n) \in 0..n
        BY <2>4, <2>10, <2>11, <2>12, <2>13, <2>14 DEF Clamp
    <2>16. ASSUME NEW c \in Cell
           PROVE  more[c] \in Nat /\ (more[c] # 0 => p.bag[c].kind = k /\ p.bag[c].n + more[c] <= max)
        <3>1. CASE c \in into
            <4>1. more[c] \in 0..room[c]
                BY <2>2, <2>8, <3>1, ClampBounds
            <4> QED BY <1>1, <2>2, <3>1, <4>1
        <3>2. CASE c \notin into
            BY <2>5, <3>2
        <3> QED BY <3>1, <3>2
    <2>17. more \in [Cell -> Nat]
        <3>1. more = [c \in Cell |-> more[c]]
            BY DEF more
        <3> QED BY <2>16, <3>1
    <2>18. /\ BagOnly(p, full) /\ Sound(full) /\ Gains(p, full, k, Total(more, Cell))
           /\ \A c \in Cell : more[c] = 0 => full.bag[c] = p.bag[c]
        BY <2>16, <2>17, ToppedCounts
    <2> HIDE DEF full
    <2>19. CASE Rest(p, k, n) = 0
        <3>1. Total(more, Cell) = n
            BY <2>10, <2>15, <2>19
        <3> QED BY <2>3, <2>18, <2>19, <3>1
    <2>20. CASE Rest(p, k, n) # 0
        <3>1. f \in FreeCells(p)
            BY <1>3, <2>20, LowestExists DEF HasRoom, FreeCells, CellsOf
        <3>2. f \in Cell /\ p.bag[f].kind = NoKind
            BY <3>1 DEF FreeCells, CellsOf
        <3> HIDE DEF f
        <3>3. p.bag[f] = NoStack
            BY <1>1, <3>2 DEF PackType, MaybeStack, Stack
        <3>4. more[f] = 0
            <4>1. f \notin into
                BY <2>2, <3>2
            <4> QED BY <2>5, <3>2, <4>1
        <3>5. full.bag[f] = NoStack
            BY <2>18, <3>2, <3>3, <3>4
        <3>6. s \in MaybeStack
            <4>1. Rest(p, k, n) \in Nat \ {0} /\ Rest(p, k, n) <= max
                BY <1>1, <2>15, <2>20
            <4> QED BY <4>1 DEF MaybeStack, Stack
        <3>7. \A x \in Kind : Of(s, x) = (IF x = k THEN Rest(p, k, n) ELSE 0) /\ Of(NoStack, x) = 0
            BY DEF Of, NoStack
        <3> HIDE DEF s
        <3>8. full \in PackType
            BY <2>18 DEF Sound
        <3>9. /\ BagOnly(full, Put(full, f, s))
              /\ \A x \in Kind : StacksOf(Put(full, f, s), x) = StacksOf(full, x) + Of(s, x) - Of(NoStack, x)
            BY <3>2, <3>5, <3>6, <3>8, PutCounts
        <3>10. ASSUME NEW x \in Kind
               PROVE  StacksOf(Put(full, f, s), x) = StacksOf(p, x) + (IF x = k THEN n ELSE 0)
            <4>1. StacksOf(full, x) = StacksOf(p, x) + (IF x = k THEN Total(more, Cell) ELSE 0)
                BY <2>18 DEF Gains
            <4>2. StacksOf(p, x) \in Nat
                BY <1>1, StacksHeld
            <4> QED BY <2>10, <2>15, <3>7, <3>9, <4>1, <4>2
        <3>11. BagOnly(p, Put(full, f, s))
            BY <2>18, <3>9 DEF BagOnly
        <3> QED BY <2>3, <2>20, <3>10, <3>11 DEF Gains
    <2> QED BY <2>19, <2>20
<1> QED
    BY <1>2, <1>3

-----------------------------------------------------------------------------
(* What a commit and a rollback write in the ledger.                       *)

Free(p) == p.pts - GearEffect(p)

\* The session keeps its place, and a refine dialog names what can be refined.
AsksToRefine == dialog # NoDialog => Catalog[dialog.kind].into # NoKind
BooksInv == PaneInv /\ owns /\ AsksToRefine

LEMMA SameGear ==
    ASSUME NEW p, NEW q, q.worn = p.worn
    PROVE  GearEffect(q) = GearEffect(p)
BY DEF GearEffect

\* At rest the three copies hold the same goods.
LEMMA AtRest ==
    ASSUME BooksInv
    PROVE  /\ Sound(live) /\ Sound(kept) /\ Sound(row)
           /\ live \in PackType /\ kept \in PackType /\ row \in PackType
           /\ \A k \in Kind : StacksOf(row, k) = StacksOf(live, k) /\ StacksOf(live, k) \in Nat
           /\ row.gold = live.gold /\ live.gold \in 0..MaxGold /\ row.bag = live.bag
           /\ GearEffect(kept) = GearEffect(live) /\ GearEffect(row) = GearEffect(live)
           /\ GearEffect(live) \in Int
           /\ live.pts \in Int /\ kept.pts \in Int /\ row.pts \in Int
<1>1. Sound(live) /\ Sound(kept) /\ Sound(row) /\ Goods(live) = Goods(kept) /\ Goods(kept) = Goods(row)
    BY DEF BooksInv, PaneInv, IInv, PacksInv, CopiesAgree
<1>2. live \in PackType /\ kept \in PackType /\ row \in PackType
    BY <1>1 DEF Sound
<1>3. /\ kept.worn = live.worn /\ row.worn = live.worn
      /\ row.bag = live.bag /\ row.gold = live.gold
    BY <1>1 DEF Goods
<1>4. \A k \in Kind : StacksOf(row, k) = StacksOf(live, k)
    BY <1>3, SameGoods DEF SameCount
<1>5. \A k \in Kind : StacksOf(live, k) \in Nat
    BY <1>2, StacksHeld
<1>6. GearEffect(kept) = GearEffect(live) /\ GearEffect(row) = GearEffect(live)
    BY <1>3, SameGear
<1>7. GearEffect(live) \in Int
    BY <1>2, GearType
<1>8. /\ live.gold \in 0..MaxGold
      /\ live.pts \in Int /\ kept.pts \in Int /\ row.pts \in Int
    BY <1>2 DEF PackType, PointValue
<1> QED
    BY <1>1, <1>2, <1>3, <1>4, <1>5, <1>6, <1>7, <1>8

\* What the safebox holds, as a heap.
LEMMA StoredHeld ==
    ASSUME NEW k \in Kind
    PROVE  /\ box.cells \in [BoxCell -> MaybeStack] =>
                  Stored(k) = Held(box.cells, BoxCell, k) /\ Stored(k) \in Nat
           /\ box'.cells \in [BoxCell -> MaybeStack] => Stored(k)' = Held(box'.cells, BoxCell, k)
           /\ box'.cells = box.cells => Stored(k)' = Stored(k)
<1>1. ASSUME NEW b \in [BoxCell -> MaybeStack]
      PROVE  Cardinality(Pieces(b, {c \in BoxCell : b[c].kind = k})) = Held(b, BoxCell, k)
             /\ Held(b, BoxCell, k) \in Nat
    BY FinitePlaces, HeldIsCounted
<1> QED
    BY <1>1 DEF Stored

LEMMA BoxAtRest ==
    ASSUME BooksInv
    PROVE  /\ box.cells \in [BoxCell -> MaybeStack] /\ box.money \in 0..MaxGold
           /\ boxOpen => pane = box.cells
           /\ \A k \in Kind : Stored(k) = Held(box.cells, BoxCell, k) /\ Stored(k) \in Nat
<1>1. box \in BoxType /\ (boxOpen => pane = box.cells)
    BY DEF BooksInv, PaneInv, IInv, BoxInv, PaneIsBox
<1> QED
    BY <1>1, StoredHeld DEF BoxType

\* An accepted commit writes the pack; the copies move by as many points as the live
\* one does.
LEMMA Committed ==
    ASSUME BooksInv, NEW q, Sound(q), CommitSucceeds(q)
    PROVE  /\ \A k \in Kind : StacksOf(row', k) = StacksOf(q, k) /\ StacksOf(q, k) \in Nat
           /\ row'.gold = q.gold /\ q.gold \in 0..MaxGold
           /\ GearEffect(q) \in Int /\ q.pts \in Int
           /\ Free(live') = Free(q)
           /\ Free(kept') = Free(kept) + (Free(q) - Free(live))
           /\ Free(row') = Free(kept')
<1>1. Sound(Saved(q)) /\ Goods(Saved(q)) = Goods(q)
    BY SavedSound DEF CommitSucceeds
<1>2. row' = Saved(q) /\ kept' = Saved(q) /\ live' = q
    BY DEF CommitSucceeds
<1>3. q \in PackType /\ Saved(q).worn = q.worn /\ Saved(q).bag = q.bag /\ Saved(q).gold = q.gold
    BY <1>1 DEF Goods, Sound
<1>4. Saved(q).pts = kept.pts + (q.pts - live.pts)
    BY <1>3 DEF Saved, PackType
<1>5. GearEffect(Saved(q)) = GearEffect(q) /\ GearEffect(q) \in Int
    BY <1>3, SameGear, GearType
<1>6. \A k \in Kind : StacksOf(Saved(q), k) = StacksOf(q, k) /\ StacksOf(q, k) \in Nat
    BY <1>3, SameGoods, StacksHeld DEF SameCount
<1>7. q.gold \in 0..MaxGold /\ q.pts \in Int
    BY <1>3 DEF PackType, PointValue
<1>8. /\ GearEffect(kept) = GearEffect(live) /\ GearEffect(live) \in Int
      /\ live.pts \in Int /\ kept.pts \in Int
    BY AtRest
<1>9. /\ Free(live') = q.pts - GearEffect(q) /\ Free(q) = q.pts - GearEffect(q)
      /\ Free(kept') = kept.pts + (q.pts - live.pts) - GearEffect(q)
      /\ Free(row') = Free(kept')
      /\ Free(kept) = kept.pts - GearEffect(live) /\ Free(live) = live.pts - GearEffect(live)
    <2>1. row' = kept'
        BY <1>2
    <2>2. live'.pts = q.pts /\ GearEffect(live') = GearEffect(q)
        BY <1>2
    <2>3. kept'.pts = kept.pts + (q.pts - live.pts)
        BY <1>2, <1>4
    <2>4. GearEffect(kept') = GearEffect(q)
        <3>1. kept' = Saved(q)
            BY <1>2
        <3>2. GearEffect(kept') = GearEffect(Saved(q))
            BY <3>1, Zenon
        <3> QED BY <1>5, <3>2
    <2>5. /\ Free(live') = live'.pts - GearEffect(live') /\ Free(q) = q.pts - GearEffect(q)
          /\ Free(kept') = kept'.pts - GearEffect(kept')
          /\ Free(kept) = kept.pts - GearEffect(kept) /\ Free(live) = live.pts - GearEffect(live)
        BY DEF Free
    <2>6. Free(row') = Free(kept')
        BY <2>1, Zenon
    <2>7. Free(live') = q.pts - GearEffect(q)
        BY <2>2, <2>5
    <2>8. Free(kept') = kept.pts + (q.pts - live.pts) - GearEffect(q)
        BY <1>5, <1>7, <1>8, <2>3, <2>4, <2>5
    <2>9. Free(kept) = kept.pts - GearEffect(live)
        BY <1>8, <2>5
    <2> QED BY <2>5, <2>6, <2>7, <2>8, <2>9
<1>10. Free(kept') = Free(kept) + (Free(q) - Free(live))
    BY <1>5, <1>7, <1>8, <1>9
<1> QED
    BY <1>2, <1>3, <1>5, <1>6, <1>7, <1>9, <1>10

\* What Quiet asks, said of the copies.
Quieted ==
    /\ row'.gold + box'.money = row.gold + box.money
    /\ \A k \in Kind : StacksOf(row', k) + Stored(k)' = StacksOf(row, k) + Stored(k)
    /\ Free(live') = Free(live) /\ Free(kept') \in {Free(kept), Free(live)}
    /\ Free(row') \in {Free(row), Free(kept')}

LEMMA QuietIs == Quieted => Books!Quiet
BY DEF Quieted, Books!Quiet, Books!Well, Free

LEMMA RolledQuiet ==
    ASSUME RolledBack, box'.cells = box.cells, box'.money = box.money
    PROVE  Books!Quiet
<1>1. \A k \in Kind : StacksOf(row', k) + Stored(k)' = StacksOf(row, k) + Stored(k)
    BY StoredHeld DEF RolledBack
<1>2. /\ Free(live') = Free(live) /\ Free(kept') = Free(live) /\ Free(row') = Free(row)
      /\ row'.gold + box'.money = row.gold + box.money
    BY DEF RolledBack
<1> QED
    BY <1>1, <1>2, QuietIs DEF Quieted

\* A commit that moves goods about, and gold to or from the safebox.
LEMMA CommitQuiet ==
    ASSUME BooksInv, NEW q, Sound(q), Free(q) = Free(live), CommitSucceeds(q),
           q.gold + box'.money = live.gold + box.money,
           \A k \in Kind : StacksOf(q, k) + Stored(k)' = StacksOf(live, k) + Stored(k)
    PROVE  Books!Quiet
<1>1. /\ \A k \in Kind : StacksOf(row', k) = StacksOf(q, k)
      /\ row'.gold = q.gold
      /\ Free(live') = Free(q)
      /\ Free(kept') = Free(kept) + (Free(q) - Free(live))
      /\ Free(row') = Free(kept')
    BY Committed
<1>2. /\ \A k \in Kind : StacksOf(row, k) = StacksOf(live, k)
      /\ row.gold = live.gold
      /\ GearEffect(live) \in Int /\ live.pts \in Int
      /\ GearEffect(kept) \in Int /\ kept.pts \in Int
    BY AtRest
<1>3. Free(live) \in Int /\ Free(kept) \in Int
    BY <1>2 DEF Free
<1>4. Free(kept') = Free(kept)
    BY <1>1, <1>3
<1> QED
    BY <1>1, <1>2, <1>4, QuietIs DEF Quieted

\* The same with the safebox left alone, whatever becomes of the save.
LEMMA SettledQuiet ==
    ASSUME BooksInv, NEW q, Sound(q), Commit(q), box' = box,
           SameCount(live, q), q.gold = live.gold, Free(q) = Free(live)
    PROVE  Books!Quiet
<1>1. CommitSucceeds(q) \/ RolledBack
    BY DEF Commit, CommitFails, CommitSkipped
<1>2. CASE RolledBack
    BY <1>2, RolledQuiet
<1>3. CASE CommitSucceeds(q)
    <2>1. \A k \in Kind : StacksOf(q, k) + Stored(k)' = StacksOf(live, k) + Stored(k)
        BY StoredHeld DEF SameCount
    <2> QED BY <1>3, <2>1, CommitQuiet
<1> QED
    BY <1>1, <1>2, <1>3

-----------------------------------------------------------------------------
(* Carrying, wearing and binding change nothing that is counted.           *)

LEMMA MoveQuiet ==
    ASSUME BooksInv, box' = box, NEW c \in Cell, NEW d \in Cell, NEW n \in Counts, Move(c, d, n)
    PROVE  Books!Quiet
<1> DEFINE s == live.bag[c]
           t == live.bag[d]
           room == Catalog[s.kind].max - t.n
           m == IF n = 0 THEN Fitting(live, c, d) ELSE n
<1>1. d \in Cell \ {c} /\ s # NoStack /\ Sound(live)
    BY AtRest DEF Move
<1>2. n \in Nat
    BY DEF Counts, Template
<1>3. \/ Commit(Carried(live, c, d))
      \/ t.kind = s.kind /\ room > 0 /\ n <= Min({room, s.n}) /\ Commit(Poured(live, c, d, m))
      \/ t = NoStack /\ n \in 1..(s.n - 1) /\ IdsLeft /\ Commit(Parted(live, c, d, n))
    BY DEF Move
<1>4. ASSUME NEW q, Sound(q), BagOnly(live, q), SameCount(live, q), Commit(q)
      PROVE  Books!Quiet
    <2>1. q.gold = live.gold /\ Free(q) = Free(live)
        BY <1>4, SameGear DEF BagOnly, Free
    <2> QED BY <1>4, <2>1, SettledQuiet
<1>5. CASE Commit(Carried(live, c, d))
    BY <1>1, <1>4, <1>5, CarriedSound, CarriedCounts
<1>6. CASE t.kind = s.kind /\ room > 0 /\ n <= Min({room, s.n}) /\ Commit(Poured(live, c, d, m))
    <2>1. s \in Stack /\ t \in Stack
        BY <1>1, <1>6 DEF Sound, PackType, MaybeStack, Stack, NoStack
    <2>2. t.n < Catalog[s.kind].max
        BY <1>6, <2>1 DEF Stack, Template
    <2>3. t # NoStack /\ m \in 1..s.n /\ t.n + m <= Catalog[t.kind].max
        BY <1>1, <1>2, <1>6, <2>2, PourFits
    <2> HIDE DEF m
    <2>4. Sound(Poured(live, c, d, m))
        BY <1>1, <2>3, PouredSound
    <2>5. BagOnly(live, Poured(live, c, d, m)) /\ SameCount(live, Poured(live, c, d, m))
        BY <1>1, <1>6, <2>3, PouredCounts
    <2> QED BY <1>4, <1>6, <2>4, <2>5
<1>7. CASE t = NoStack /\ n \in 1..(s.n - 1) /\ IdsLeft /\ Commit(Parted(live, c, d, n))
    <2>1. Sound(Parted(live, c, d, n))
        BY <1>1, <1>7, PartedSound DEF IdsLeft
    <2>2. BagOnly(live, Parted(live, c, d, n)) /\ SameCount(live, Parted(live, c, d, n))
        BY <1>1, <1>7, PartedCounts DEF IdsLeft
    <2> QED BY <1>4, <1>7, <2>1, <2>2
<1> QED
    BY <1>3, <1>5, <1>6, <1>7

LEMMA UseOnQuiet ==
    ASSUME BooksInv, box' = box, NEW c \in Cell, NEW d \in Cell, UseOn(c, d)
    PROVE  Books!Quiet
<1> DEFINE m == Fitting(live, c, d)
           q == Poured(live, c, d, m)
<1>1. /\ d \in Cell \ {c} /\ live.bag[c] # NoStack /\ live.bag[d].kind = live.bag[c].kind
      /\ live.bag[d].n < Catalog[live.bag[c].kind].max
      /\ Commit(q) /\ Sound(live)
    BY AtRest DEF UseOn
<1>2. /\ live.bag[d] # NoStack /\ m \in 1..live.bag[c].n
      /\ live.bag[d].n + m <= Catalog[live.bag[d].kind].max
    BY <1>1, PourFits
<1> HIDE DEF m
<1>3. Sound(q)
    BY <1>1, <1>2, PouredSound
<1>4. BagOnly(live, q) /\ SameCount(live, q)
    BY <1>1, <1>2, PouredCounts
<1> HIDE DEF q
<1>5. q.gold = live.gold /\ Free(q) = Free(live)
    BY <1>4, SameGear DEF BagOnly, Free
<1> QED
    BY <1>1, <1>3, <1>4, <1>5, SettledQuiet

\* The points move by as much as the effects of the gear do.
LEMMA DressQuiet ==
    ASSUME BooksInv, box' = box, NEW c \in Cell, NEW w \in Wear,
           Equip(c, w) \/ Replace(c, w) \/ Unequip(w, c)
    PROVE  Books!Quiet
<1>1. Sound(live) /\ live \in PackType /\ live.pts \in Int /\ GearEffect(live) \in Int
    BY AtRest
<1>2. live.bag[c] \in MaybeStack /\ live.worn[w] \in MaybeStack
    BY <1>1 DEF PackType
<1>3. ASSUME NEW g, Sound(g), g.gold = live.gold, g.pts = live.pts,
             \A d \in Cell \ {c} : g.bag[d] = live.bag[d],
             \A v \in Wear \ {w} : g.worn[v] = live.worn[v],
             g.bag[c] = live.worn[w], g.worn[w] = live.bag[c],
             NEW x, x = Effect(live.bag[c]) - Effect(live.worn[w]),
             InRange(live.pts + x), Commit(Boosted(g, x))
      PROVE  Books!Quiet
    <2>1. SameCount(live, g) /\ GearEffect(g) = GearEffect(live) + x
        <3>1. /\ SameCount(live, g)
              /\ GearEffect(g) = GearEffect(live) + Effect(live.bag[c]) - Effect(live.worn[w])
            <4> HIDE DEF Cell
            <4> QED BY <1>1, <1>3, DressCounts
        <3>2. Effect(live.bag[c]) \in Int /\ Effect(live.worn[w]) \in Int
            BY <1>2, EffectType
        <3> QED BY <1>1, <1>3, <3>1, <3>2
    <2>2. x \in Int
        BY <1>2, <1>3, EffectType
    <2> DEFINE q == Boosted(g, x)
    <2>3. Sound(q)
        BY <1>3, BoostedSound
    <2>4. q.bag = g.bag /\ q.worn = g.worn /\ q.gold = g.gold /\ q.pts = live.pts + x
        BY <1>3 DEF Boosted, Sound, PackType
    <2> HIDE DEF q
    <2>5. SameCount(live, q)
        BY <2>1, <2>4, SameGoods DEF SameCount
    <2>6. GearEffect(q) = GearEffect(g)
        BY <2>4, SameGear
    <2>7. Free(q) = Free(live)
        BY <1>1, <2>1, <2>2, <2>4, <2>6 DEF Free
    <2> QED BY <1>3, <2>3, <2>4, <2>5, <2>7, SettledQuiet DEF q
<1>4. CASE Equip(c, w)
    <2> DEFINE g == Worn(live, c, w)
               x == Effect(live.bag[c])
    <2>1. CASE InRange(live.pts + x)
        <3>1. live.worn[w] = NoStack /\ Commit(Boosted(g, x))
            BY <1>4, <2>1 DEF Equip
        <3>2. x = Effect(live.bag[c]) - Effect(live.worn[w])
            BY <1>2, <3>1, EffectType
        <3>3. /\ g.gold = live.gold /\ g.pts = live.pts
              /\ \A d \in Cell \ {c} : g.bag[d] = live.bag[d]
              /\ \A v \in Wear \ {w} : g.worn[v] = live.worn[v]
              /\ g.bag[c] = NoStack /\ g.worn[w] = live.bag[c]
            BY <1>1 DEF Worn, Unbound, Put, PackType
        <3>4. Sound(g)
            BY <1>1, GearSound
        <3> HIDE DEF g, x
        <3> QED BY <1>3, <2>1, <3>1, <3>2, <3>3, <3>4
    <2>2. CASE ~InRange(live.pts + x)
        BY <1>4, <2>2, RolledQuiet DEF Equip
    <2> QED BY <2>1, <2>2
<1>5. CASE Replace(c, w)
    <2> DEFINE g == Exchanged(live, c, w)
               x == -Effect(live.worn[w]) + Effect(live.bag[c])
    <2>1. live.worn[w] # NoStack /\ InRange(live.pts + x) /\ Commit(Boosted(g, x))
        BY <1>5 DEF Replace
    <2>2. x = Effect(live.bag[c]) - Effect(live.worn[w])
        BY <1>2, EffectType
    <2>3. /\ g.gold = live.gold /\ g.pts = live.pts
          /\ \A d \in Cell \ {c} : g.bag[d] = live.bag[d]
          /\ \A v \in Wear \ {w} : g.worn[v] = live.worn[v]
          /\ g.bag[c] = live.worn[w] /\ g.worn[w] = live.bag[c]
        BY <1>1 DEF Exchanged, Put, PackType
    <2>4. Sound(g)
        BY <1>1, <2>1, GearSound
    <2> HIDE DEF g, x
    <2> QED BY <1>3, <2>1, <2>2, <2>3, <2>4
<1>6. CASE Unequip(w, c)
    <2> DEFINE g == TakenOff(live, w, c)
               x == -Effect(live.worn[w])
    <2>1. live.worn[w] # NoStack /\ live.bag[c] = NoStack
        BY <1>6 DEF Unequip
    <2>2. CASE InRange(live.pts + x)
        <3>1. Commit(Boosted(g, x))
            BY <1>6, <2>2 DEF Unequip
        <3>2. x = Effect(live.bag[c]) - Effect(live.worn[w])
            BY <1>2, <2>1, EffectType
        <3>3. /\ g.gold = live.gold /\ g.pts = live.pts
              /\ \A d \in Cell \ {c} : g.bag[d] = live.bag[d]
              /\ \A v \in Wear \ {w} : g.worn[v] = live.worn[v]
              /\ g.bag[c] = live.worn[w] /\ g.worn[w] = NoStack
            BY <1>1 DEF TakenOff, Put, PackType
        <3>4. Sound(g)
            BY <1>1, <2>1, GearSound
        <3> HIDE DEF g, x
        <3> QED BY <1>3, <2>1, <2>2, <3>1, <3>2, <3>3, <3>4
    <2>3. CASE ~InRange(live.pts + x)
        BY <1>6, <2>3, RolledQuiet DEF Unequip
    <2> QED BY <2>2, <2>3
<1> QED
    BY <1>4, <1>5, <1>6

LEMMA QuickslotsQuiet ==
    ASSUME BooksInv, box' = box, NEW s \in Position,
           \/ QuickslotDel(s)
           \/ \E c \in Cell : QuickslotAdd(s, c)
           \/ \E r \in Position : QuickslotSwap(s, r)
    PROVE  Books!Quiet
<1>1. Sound(live) /\ live \in PackType
    BY AtRest
<1>2. ASSUME NEW q, Sound(q), Commit(q),
             q.bag = live.bag, q.worn = live.worn, q.gold = live.gold, q.pts = live.pts
      PROVE  Books!Quiet
    <2>1. SameCount(live, q) /\ Free(q) = Free(live)
        BY <1>2, SameGoods, SameGear DEF Free
    <2> QED BY <1>2, <2>1, SettledQuiet
<1>3. CASE QuickslotDel(s)
    <2> DEFINE q == [live EXCEPT !.bar[s] = NoCell]
    <2>1. Sound(q) /\ Commit(q)
        BY <1>1, <1>3, BarSound DEF QuickslotDel
    <2>2. q.bag = live.bag /\ q.worn = live.worn /\ q.gold = live.gold /\ q.pts = live.pts
        BY <1>1 DEF PackType
    <2> HIDE DEF q
    <2> QED BY <1>2, <2>1, <2>2
<1>4. ASSUME NEW c \in Cell, QuickslotAdd(s, c)
      PROVE  Books!Quiet
    <2> DEFINE q == Bind(live, s, c)
    <2>1. Sound(q) /\ Commit(q)
        BY <1>1, <1>4, BarSound DEF QuickslotAdd
    <2>2. q.bag = live.bag /\ q.worn = live.worn /\ q.gold = live.gold /\ q.pts = live.pts
        BY <1>1 DEF PackType, Bind
    <2> HIDE DEF q
    <2> QED BY <1>2, <2>1, <2>2
<1>5. ASSUME NEW r \in Position, QuickslotSwap(s, r)
      PROVE  Books!Quiet
    <2> DEFINE q == SwapBindings(live, s, r)
    <2>1. Sound(q) /\ Commit(q)
        BY <1>1, <1>5, BarSound DEF QuickslotSwap
    <2>2. q.bag = live.bag /\ q.worn = live.worn /\ q.gold = live.gold /\ q.pts = live.pts
        BY <1>1 DEF PackType, SwapBindings
    <2> HIDE DEF q
    <2> QED BY <1>2, <2>1, <2>2
<1> QED
    BY <1>3, <1>4, <1>5

-----------------------------------------------------------------------------
(* Each at its price: potions, purchases, sales, refines.                  *)

Sums == [k \in Kind |-> StacksOf(row, k) + Stored(k)]

\* How the ledger's totals move when those of the goods do, by n of the kind k.
LEMMA SumsMove ==
    ASSUME BooksInv, box' = box, NEW k \in Kind, NEW n \in Int,
           \A x \in Kind : StacksOf(row', x) = StacksOf(live, x) + (IF x = k THEN n ELSE 0)
    PROVE  /\ [x \in Kind |-> StacksOf(row', x) + Stored(x)'] = Books!Add(Sums, k, n)
           /\ Sums[k] \in Nat /\ Sums[k] >= StacksOf(live, k)
<1>1. \A x \in Kind : StacksOf(row, x) = StacksOf(live, x) /\ StacksOf(live, x) \in Nat
    BY AtRest
<1>2. \A x \in Kind : Stored(x)' = Stored(x) /\ Stored(x) \in Nat
    BY StoredHeld, BoxAtRest
<1>3. k # NoKind
    BY NullAssumption
<1>4. \A x \in Kind : StacksOf(row', x) + Stored(x)' = Sums[x] + (IF x = k THEN n ELSE 0)
    BY <1>1, <1>2 DEF Sums
<1>5. \A x \in Kind : Sums[x] \in Nat
    BY <1>1, <1>2 DEF Sums
<1>6. Books!Add(Sums, k, n) = [x \in Kind |-> Sums[x] + (IF x = k THEN n ELSE 0)]
    <2>1. Books!Add(Sums, k, n) = [Sums EXCEPT ![k] = @ + n]
        BY <1>3 DEF Books!Add
    <2>2. \A x \in Kind : [Sums EXCEPT ![k] = @ + n][x] = Sums[x] + (IF x = k THEN n ELSE 0)
        BY <1>5 DEF Sums
    <2>3. [Sums EXCEPT ![k] = @ + n] = [x \in Kind |-> [Sums EXCEPT ![k] = @ + n][x]]
        BY DEF Sums
    <2> HIDE DEF Sums
    <2> QED BY <2>1, <2>2, <2>3
<1> QED
    BY <1>1, <1>2, <1>4, <1>5, <1>6 DEF Sums

LEMMA UseInBooks ==
    ASSUME BooksInv, box' = box, NEW c \in Cell, Use(c)
    PROVE  Books!Quiet \/ Books!Drink(live.bag[c].kind)
<1> DEFINE k == live.bag[c].kind
           x == Catalog[k].drink
           l == Less(live, c, 1)
           q == Boosted(l, x)
<1>1. /\ Sound(live) /\ live \in PackType /\ live.pts \in Int /\ GearEffect(live) \in Int
      /\ kept.pts \in Int /\ GearEffect(kept) \in Int
    BY AtRest
<1>2. live.bag[c] # NoStack /\ x # 0 /\ InRange(live.pts + x) /\ CommitOrKeep(q)
    BY DEF Use
<1>3. live.bag[c] \in Stack
    BY <1>1, <1>2 DEF PackType, MaybeStack
<1>4. k \in Kind /\ 1 \in 1..live.bag[c].n /\ x \in Int
    BY <1>3 DEF Stack, Template
<1>5. Sound(l) /\ BagOnly(live, l) /\ Gains(live, l, k, -1)
    BY <1>1, <1>2, <1>4, LessSound, LessGains
<1> HIDE DEF l
<1>6. Sound(q)
    BY <1>1, <1>2, <1>5, BoostedSound DEF BagOnly
<1>7. q.bag = l.bag /\ q.worn = live.worn /\ q.gold = live.gold /\ q.pts = live.pts + x
    BY <1>5 DEF Boosted, Sound, PackType, BagOnly
<1> HIDE DEF q
<1>8. CASE RolledBack
    BY <1>8, RolledQuiet
<1>9. CASE CommitSucceeds(q)
    <2>1. /\ \A y \in Kind : StacksOf(row', y) = StacksOf(q, y) /\ StacksOf(q, y) \in Nat
          /\ row'.gold = q.gold
          /\ Free(live') = Free(q)
          /\ Free(kept') = Free(kept) + (Free(q) - Free(live))
          /\ Free(row') = Free(kept')
        BY <1>6, <1>9, Committed
    <2>2. \A y \in Kind : StacksOf(q, y) = StacksOf(live, y) + (IF y = k THEN -1 ELSE 0)
        <3>1. SameCount(l, q)
            <4>1. q.worn = l.worn
                BY <1>5, <1>7 DEF BagOnly
            <4> QED BY <1>7, <4>1, SameGoods
        <3> QED BY <1>5, <3>1 DEF SameCount, Gains
    <2>3. /\ [y \in Kind |-> StacksOf(row', y) + Stored(y)'] = Books!Add(Sums, k, -1)
          /\ Sums[k] \in Nat /\ Sums[k] >= StacksOf(live, k)
        <3>1. \A y \in Kind : StacksOf(row', y) = StacksOf(live, y) + (IF y = k THEN -1 ELSE 0)
            BY <2>1, <2>2
        <3> HIDE DEF k
        <3> QED BY <1>4, <3>1, SumsMove
    <2>4. Sums[k] > 0
        <3>1. StacksOf(q, k) \in Nat /\ StacksOf(q, k) = StacksOf(live, k) + -1
            BY <1>4, <2>1, <2>2
        <3>2. StacksOf(live, k) \in Nat
            BY <1>4, AtRest
        <3> QED BY <2>3, <3>1, <3>2
    <2>5. GearEffect(q) = GearEffect(live)
        BY <1>7, SameGear
    <2>6. Free(live) \in Int /\ Free(kept) \in Int /\ Free(q) = Free(live) + x
        BY <1>1, <1>4, <1>7, <2>5 DEF Free
    <2>7. Free(live') = Free(live) + x /\ Free(kept') = Free(kept) + x
        BY <1>4, <2>1, <2>6
    <2>8. row'.gold + box'.money = row.gold + box.money
        BY <1>7, <2>1, AtRest
    <2> QED
        BY <1>2, <2>1, <2>3, <2>4, <2>7, <2>8 DEF Books!Drink, Sums, Free
<1> QED
    BY <1>2, <1>8, <1>9 DEF CommitOrKeep, CommitFails, BooksInv

\* A deal: goods of one kind come or go, gold goes or comes, the body is left alone.
LEMMA DealSettled ==
    ASSUME BooksInv, box' = box, NEW g, Sound(g), BagOnly(live, g),
           NEW k \in Kind, NEW n \in Int, Gains(live, g, k, n),
           NEW x \in Int, live.gold + x \in 0..MaxGold,
           NEW q, q = [g EXCEPT !.gold = @ + x], CommitOrKeep(q)
    PROVE  \/ RolledBack
           \/ /\ row'.gold + box'.money = row.gold + box.money + x
              /\ [y \in Kind |-> StacksOf(row', y) + Stored(y)'] = Books!Add(Sums, k, n)
              /\ Books!Well /\ Sums[k] \in Nat
              /\ Sums[k] >= StacksOf(live, k) /\ StacksOf(live, k) + n \in Nat
<1>1. /\ live \in PackType /\ live.gold \in 0..MaxGold /\ row.gold = live.gold
      /\ live.pts \in Int /\ GearEffect(live) \in Int
      /\ kept.pts \in Int /\ GearEffect(kept) \in Int
    BY AtRest
<1>2. g.worn = live.worn /\ g.gold = live.gold /\ g.pts = live.pts
    BY DEF BagOnly
<1>3. Sound(q)
    BY <1>2, GoldSound
<1>4. /\ q.bag = g.bag /\ q.worn = live.worn /\ q.gold = live.gold + x /\ q.pts = live.pts
    BY <1>2 DEF Sound, PackType
<1>5. CASE CommitSucceeds(q)
    <2>1. /\ \A y \in Kind : StacksOf(row', y) = StacksOf(q, y) /\ StacksOf(q, y) \in Nat
          /\ row'.gold = q.gold
          /\ Free(live') = Free(q)
          /\ Free(kept') = Free(kept) + (Free(q) - Free(live))
          /\ Free(row') = Free(kept')
        BY <1>3, <1>5, Committed
    <2>2. \A y \in Kind : StacksOf(q, y) = StacksOf(live, y) + (IF y = k THEN n ELSE 0)
        <3>1. SameCount(g, q)
            BY <1>2, <1>4, SameGoods
        <3> QED BY <3>1 DEF SameCount, Gains
    <2>3. /\ [y \in Kind |-> StacksOf(row', y) + Stored(y)'] = Books!Add(Sums, k, n)
          /\ Sums[k] \in Nat /\ Sums[k] >= StacksOf(live, k)
        BY <2>1, <2>2, SumsMove
    <2>4. StacksOf(live, k) + n \in Nat
        BY <2>1, <2>2
    <2>5. Free(live) \in Int /\ Free(kept) \in Int /\ Free(q) = Free(live)
        <3>1. GearEffect(q) = GearEffect(live)
            BY <1>4, SameGear
        <3> QED BY <1>1, <1>4, <3>1 DEF Free
    <2>6. Free(live') = Free(live) /\ Free(kept') = Free(kept)
        BY <2>1, <2>5
    <2>7. Books!Well
        BY <2>1, <2>6 DEF Books!Well, Free
    <2>8. box.money \in Int
        BY BoxAtRest
    <2>9. row'.gold + box'.money = row.gold + box.money + x
        BY <1>1, <1>4, <2>1, <2>8
    <2> QED
        BY <2>3, <2>4, <2>7, <2>9
<1> QED
    BY <1>5 DEF CommitOrKeep, CommitFails, BooksInv

LEMMA BuyInBooks ==
    ASSUME BooksInv, box' = box, NEW o \in Offer, Buy(o)
    PROVE  Books!Quiet \/ Books!Buy(o)
<1> DEFINE g == Granted(live, o.kind, o.n)
           q == [g EXCEPT !.gold = @ - o.price]
           x == -o.price
<1>1. /\ Sound(live) /\ live.gold \in 0..MaxGold /\ row.gold = live.gold
    BY AtRest
<1>2. /\ live.gold >= o.price /\ HasRoom(live, o.kind, o.n) /\ NextId(live) \in 1..MaxId
      /\ CommitOrKeep(q)
    BY DEF Buy, IdsLeft
<1>3. o.kind \in Kind /\ o.n \in 1..Catalog[o.kind].max /\ o.price \in Nat \ {0}
    BY OfferAssumption
<1>4. o.n \in Int
    BY <1>3 DEF Template
<1>5. Sound(g) /\ BagOnly(live, g) /\ Gains(live, g, o.kind, o.n)
    BY <1>1, <1>2, <1>3, GrantedSound, GrantedCounts
<1> HIDE DEF g
<1>6. g.gold = live.gold
    BY <1>5 DEF BagOnly
<1>7. x \in Int /\ live.gold + x \in 0..MaxGold
    BY <1>1, <1>2, <1>3
<1>8. q = [g EXCEPT !.gold = @ + x]
    BY <1>1, <1>3, <1>6
<1> HIDE DEF q, x
<1>9. \/ RolledBack
      \/ /\ row'.gold + box'.money = row.gold + box.money + x
         /\ [y \in Kind |-> StacksOf(row', y) + Stored(y)'] = Books!Add(Sums, o.kind, o.n)
         /\ Books!Well
    BY <1>2, <1>3, <1>4, <1>5, <1>7, <1>8, DealSettled
<1>10. CASE RolledBack
    BY <1>10, RolledQuiet
<1>11. CASE ~RolledBack
    <2>1. box.money \in Nat
        BY BoxAtRest
    <2>2. row.gold + box.money >= o.price
        BY <1>1, <1>2, <1>3, <2>1
    <2>3. row.gold + box.money + x = (row.gold + box.money) - o.price
        BY <1>1, <1>3, <2>1 DEF x
    <2>4. (row.gold + box.money)' = (row.gold + box.money) - o.price
        BY <1>9, <1>11, <2>3
    <2>5. [y \in Kind |-> StacksOf(row', y) + Stored(y)'] = Books!Add(Sums, o.kind, o.n) /\ Books!Well
        BY <1>9, <1>11
    <2>6. [k \in Kind |-> StacksOf(row, k) + Stored(k)]'
              = Books!Add([k \in Kind |-> StacksOf(row, k) + Stored(k)], o.kind, o.n)
        BY <2>5 DEF Sums
    <2> QED
        BY <2>2, <2>4, <2>5, <2>6 DEF Books!Buy
<1> QED
    BY <1>10, <1>11

LEMMA SellInBooks ==
    ASSUME BooksInv, box' = box, NEW c \in Cell, NEW n \in Counts, Sell(c, n)
    PROVE  Books!Quiet \/ (live.bag[c].kind \in Kind /\ Books!Sell(live.bag[c].kind))
<1> DEFINE s == live.bag[c]
           m == IF n = 0 THEN s.n ELSE n
           credit == m * Catalog[s.kind].credit
           l == Less(live, c, m)
           q == [l EXCEPT !.gold = @ + credit]
<1>1. Sound(live) /\ live \in PackType /\ live.gold \in 0..MaxGold /\ row.gold = live.gold
    BY AtRest
<1>2. s # NoStack /\ n <= s.n /\ live.gold + credit <= MaxGold /\ CommitOrKeep(q)
    BY DEF Sell
<1>3. s \in Stack
    BY <1>1, <1>2 DEF PackType, MaybeStack
<1>4. s.n \in Nat \ {0} /\ s.kind \in Kind
    BY <1>3 DEF Stack
<1>5. Catalog[s.kind].credit \in Nat
    BY <1>4 DEF Template
<1>6. n \in Nat
    BY DEF Counts, Template
<1>7. m \in 1..s.n /\ m \in Nat \ {0}
    <2> HIDE DEF s
    <2> QED BY <1>2, <1>4, <1>6
<1>8. credit \in Nat
    <2> DEFINE y == Catalog[s.kind].credit
    <2>1. m \in Nat /\ y \in Nat
        BY <1>5, <1>7
    <2> HIDE DEF m, y
    <2>2. m * y \in Nat
        BY <2>1
    <2> QED BY <2>2 DEF y
<1> DEFINE k == s.kind
<1>9. Sound(l) /\ BagOnly(live, l) /\ Gains(live, l, k, -m)
    <2> HIDE DEF m
    <2> QED BY <1>1, <1>2, <1>7, LessSound, LessGains
<1>10. -m \in Int /\ credit \in Int /\ live.gold + credit \in 0..MaxGold
    <2>1. -m \in Int
        <3> HIDE DEF m
        <3> QED BY <1>7
    <2> HIDE DEF credit
    <2> QED BY <1>1, <1>2, <1>8, <2>1
<1> HIDE DEF l, m
<1>11. credit = m * Catalog[k].credit
    OBVIOUS
<1> HIDE DEF credit
<1>12. k \in Kind
    BY <1>4
<1> HIDE DEF q, k
<1>13. \/ RolledBack
       \/ /\ row'.gold + box'.money = row.gold + box.money + credit
          /\ [y \in Kind |-> StacksOf(row', y) + Stored(y)'] = Books!Add(Sums, k, -m)
          /\ Books!Well /\ Sums[k] \in Nat
          /\ Sums[k] >= StacksOf(live, k) /\ StacksOf(live, k) + -m \in Nat
    <2>1. q = [l EXCEPT !.gold = @ + credit]
        BY DEF q
    <2> QED BY <1>2, <1>9, <1>10, <1>12, <2>1, DealSettled
<1>14. CASE RolledBack
    BY <1>14, RolledQuiet
<1>15. CASE ~RolledBack
    <2>1. StacksOf(live, k) \in Nat
        BY <1>12, AtRest
    <2>2. m \in 1..Sums[k]
        BY <1>7, <1>13, <1>15, <2>1
    <2>3. Books!Sell(k)
        BY <1>11, <1>13, <1>15, <2>2 DEF Books!Sell, Sums
    <2> QED BY <1>12, <2>3 DEF k
<1> QED
    BY <1>14, <1>15

LEMMA AddAt ==
    ASSUME NEW T \in [Kind -> Int], NEW k \in Kind, NEW n \in Int
    PROVE  Books!Add(T, k, n) = [T EXCEPT ![k] = @ + n] /\ T[k] + n \in Int
BY NullAssumption DEF Books!Add

\* The price, the material, the item and the scroll go, and what comes of it comes.
LEMMA ConfirmInBooks ==
    ASSUME BooksInv, box' = box, NEW c \in Cell, NEW scroll \in BOOLEAN, Confirm(c, scroll)
    PROVE  \/ Books!Quiet
           \/ /\ dialog.kind \in Kind /\ Catalog[dialog.kind].into # NoKind
              /\ \E s \in {0, 1}, r \in {Catalog[dialog.kind].into, Catalog[dialog.kind].fail} :
                     Books!Refine(dialog.kind, r, s)
<1> DEFINE dk == dialog.kind
           t == Catalog[dk]
           needed == t.needs.n
           stuff == t.needs.kind
           scrolls == IF scroll THEN 1 ELSE 0
           paid == [live EXCEPT !.gold = @ - t.cost]
           less == Consumed(paid, stuff, needed, {c})
           done(k) == Turned(less, c, k)
           last(k) == IF scroll THEN Consumed(done(k), Catalyst, 1, {c}) ELSE done(k)
<1>1. /\ Sound(live) /\ live \in PackType /\ live.gold \in 0..MaxGold /\ row.gold = live.gold
      /\ live.pts \in Int /\ GearEffect(live) \in Int
      /\ kept.pts \in Int /\ GearEffect(kept) \in Int
    BY AtRest
<1>2. /\ dialog # NoDialog /\ live.bag[c].n = 1 /\ live.bag[c].kind = dk
      /\ live.gold >= t.cost /\ Has(live, stuff, needed, {c})
    BY DEF Confirm, Asked
<1>3. dk \in Kind /\ t.into # NoKind
    <2>1. dialog \in Dialog
        BY DEF BooksInv, PaneInv, IInv, WindowsInv
    <2> QED BY <1>2, <2>1 DEF Dialog, BooksInv, AsksToRefine
<1>4. /\ t.cost \in Nat /\ needed \in Nat /\ stuff \in Kind
      /\ t.into \in Kind \cup {NoKind} /\ t.fail \in Kind \cup {NoKind}
    BY <1>3 DEF Template
<1>5. live.bag[c] # NoStack
    BY <1>2 DEF NoStack
<1>6. PICK r \in Outcomes(dk) :
          \/ RolledBack
          \/ /\ scroll => Has(done(r), Catalyst, 1, {c})
             /\ CommitSucceeds(last(r)) \/ CommitSkipped \/ CommitFails(last(r))
    BY DEF Confirm
<1>7. Sound(paid) /\ paid.bag = live.bag /\ paid.worn = live.worn /\ paid.pts = live.pts
      /\ paid.gold = live.gold - t.cost
    <2> DEFINE x == -t.cost
    <2>1. x \in Int /\ live.gold + x \in 0..MaxGold
        BY <1>1, <1>2, <1>4
    <2>2. [live EXCEPT !.gold = @ + x] = paid
        BY <1>1, <1>4
    <2>3. paid.bag = live.bag /\ paid.worn = live.worn /\ paid.pts = live.pts
          /\ paid.gold = live.gold - t.cost
        BY <1>1 DEF PackType
    <2> HIDE DEF x, paid
    <2> QED BY <1>1, <2>1, <2>2, <2>3, GoldSound
<1> HIDE DEF paid
<1>8. Has(paid, stuff, needed, {c})
    BY <1>2, <1>7 DEF Has, CountIn, CellsOf
<1>9. /\ Sound(less) /\ BagOnly(paid, less) /\ Gains(paid, less, stuff, -needed)
      /\ less.bag[c] = live.bag[c]
    <2> HIDE DEF needed, stuff
    <2> QED BY <1>4, <1>5, <1>7, <1>8, ConsumedSound, ConsumedElsewhere, ConsumedCounts
<1> HIDE DEF less
<1> DEFINE d == done(r)
           q == last(r)
<1>10. r \in Kind \cup {NoKind} /\ r \in {t.into, t.fail}
    BY <1>4 DEF Outcomes
<1>11. /\ Sound(d) /\ BagOnly(less, d)
       /\ \A x \in Kind : StacksOf(d, x) = StacksOf(less, x)
              - (IF x = dk THEN 1 ELSE 0) + (IF x = r THEN 1 ELSE 0)
    <2>1. less.bag[c] # NoStack /\ less.bag[c].n = 1 /\ less.bag[c].kind = dk
        BY <1>2, <1>5, <1>9
    <2> HIDE DEF dk
    <2> QED BY <1>9, <1>10, <2>1, TurnedSound, TurnedCounts
<1>12. \/ RolledBack
       \/ (scroll => Has(d, Catalyst, 1, {c})) /\ CommitSucceeds(q)
    BY <1>6 DEF CommitSkipped, CommitFails
<1>13. q = IF scroll THEN Consumed(d, Catalyst, 1, {c}) ELSE d
    OBVIOUS
<1> HIDE DEF d, q
<1>14. CASE RolledBack
    BY <1>14, RolledQuiet
<1>15. CASE (scroll => Has(d, Catalyst, 1, {c})) /\ CommitSucceeds(q)
    <2>1. /\ Sound(q) /\ BagOnly(d, q)
          /\ \A x \in Kind : StacksOf(q, x) = StacksOf(d, x) + (IF x = Catalyst THEN -scrolls ELSE 0)
        <3>1. d \in PackType
            BY <1>11 DEF Sound
        <3>2. \A x \in Kind : StacksOf(d, x) \in Nat
            BY <3>1, StacksHeld
        <3>3. CASE scroll
            <4>1. q = Consumed(d, Catalyst, 1, {c}) /\ scrolls = 1 /\ Catalyst \in Kind
                BY <1>13, <3>3, SwitchAssumption
            <4>2. Has(d, Catalyst, 1, {c})
                BY <1>15, <3>3
            <4>3. Sound(q) /\ BagOnly(d, q) /\ Gains(d, q, Catalyst, -1)
                BY <1>11, <4>1, <4>2, ConsumedSound, ConsumedCounts
            <4> QED BY <4>1, <4>3 DEF Gains
        <3>4. CASE ~scroll
            <4>1. q = d /\ -scrolls = 0
                <5>1. scrolls = 0 /\ -scrolls = 0 - scrolls
                    BY <3>4
                <5>2. q = d
                    BY <1>13, <3>4
                <5> HIDE DEF scrolls
                <5> QED BY <5>1, <5>2
            <4> HIDE DEF scrolls
            <4> QED BY <1>11, <3>2, <4>1 DEF BagOnly
        <3> QED BY <3>3, <3>4
    <2>2. /\ q.worn = live.worn /\ q.pts = live.pts /\ q.gold = live.gold - t.cost
        BY <1>7, <1>9, <1>11, <2>1 DEF BagOnly
    <2>3. /\ \A x \in Kind : StacksOf(row', x) = StacksOf(q, x) /\ StacksOf(q, x) \in Nat
          /\ row'.gold = q.gold
          /\ Free(live') = Free(q)
          /\ Free(kept') = Free(kept) + (Free(q) - Free(live))
          /\ Free(row') = Free(kept')
        BY <1>15, <2>1, Committed
    <2>4. Books!Well
        <3>1. GearEffect(q) = GearEffect(live)
            BY <2>2, SameGear
        <3>2. Free(live) \in Int /\ Free(kept) \in Int /\ Free(q) = Free(live)
            BY <1>1, <2>2, <3>1 DEF Free
        <3>3. Free(live') = Free(live) /\ Free(kept') = Free(kept)
            BY <2>3, <3>2
        <3> QED BY <2>3, <3>3 DEF Books!Well, Free
    <2>5. scrolls \in {0, 1} /\ -scrolls \in Int /\ -needed \in Int /\ -1 \in Int
        BY <1>4
    <2>6. Catalyst \in Kind
        BY SwitchAssumption
    <2>7. /\ Sums \in [Kind -> Int]
          /\ \A x \in Kind : /\ Sums[x] = StacksOf(live, x) + Stored(x)
                             /\ StacksOf(live, x) \in Nat /\ Stored(x) \in Nat
                             /\ Stored(x)' = Stored(x)
        BY AtRest, BoxAtRest, StoredHeld DEF Sums
    <2> HIDE DEF scrolls, needed, stuff, t, dk, Sums
    <2> DEFINE G == [x \in Kind |-> StacksOf(row', x) + Stored(x)']
    <2>8. ASSUME NEW x \in Kind
          PROVE  /\ G[x] = Sums[x] + (IF x = stuff THEN -needed ELSE 0)
                           + (IF x = Catalyst THEN -scrolls ELSE 0)
                           + (IF x = dk THEN -1 ELSE 0) + (IF x = r THEN 1 ELSE 0)
                 /\ G[x] \in Nat
        <3> DEFINE a == IF x = stuff THEN -needed ELSE 0
                   b == IF x = Catalyst THEN -scrolls ELSE 0
                   e == IF x = dk THEN -1 ELSE 0
                   f == IF x = r THEN 1 ELSE 0
        <3>1. a \in Int /\ b \in Int /\ e \in Int /\ f \in Int
            BY <2>5
        <3>2. StacksOf(less, x) = StacksOf(paid, x) + a
            BY <1>9 DEF Gains
        <3>3. StacksOf(paid, x) = StacksOf(live, x)
            BY <1>7, SameGoods DEF SameCount
        <3>4. StacksOf(d, x) = StacksOf(less, x) - (IF x = dk THEN 1 ELSE 0) + f
            BY <1>11
        <3>5. StacksOf(q, x) = StacksOf(d, x) + b
            BY <2>1
        <3>6. /\ StacksOf(live, x) \in Nat /\ Stored(x) \in Nat /\ Stored(x)' = Stored(x)
              /\ Sums[x] = StacksOf(live, x) + Stored(x)
            BY <2>7
        <3>7. StacksOf(row', x) = StacksOf(q, x) /\ StacksOf(q, x) \in Nat
            BY <2>3
        <3>8. (IF x = dk THEN 1 ELSE 0) = -e
            OBVIOUS
        <3>9. G[x] = StacksOf(row', x) + Stored(x)'
            OBVIOUS
        <3> HIDE DEF a, b, e, f, G
        <3>10. G[x] = Sums[x] + a + b + e + f /\ G[x] \in Nat
            BY <3>1, <3>2, <3>3, <3>4, <3>5, <3>6, <3>7, <3>8, <3>9
        <3> QED BY <3>10 DEF a, b, e, f
    <2>9. G \in [Kind -> Int]
        <3>1. \A x \in Kind : G[x] \in Int
            BY <2>8
        <3> QED BY <3>1
    <2> HIDE DEF G
    <2>11. G = Books!Add(Books!Add(Books!Add(Books!Add(Sums, stuff, -needed),
                                             Catalyst, -scrolls), dk, -1), r, 1)
        <3>1. ASSUME NEW i \in Int, i = -needed, NEW j \in Int, j = -scrolls, NEW m \in Int, m = -1
              PROVE  G = Books!Add(Books!Add(Books!Add(Books!Add(Sums, stuff, i), Catalyst, j), dk, m), r, 1)
            <4> DEFINE T1 == Books!Add(Sums, stuff, i)
                       T2 == Books!Add(T1, Catalyst, j)
                       T3 == Books!Add(T2, dk, m)
                       T4 == Books!Add(T3, r, 1)
            <4>1. T1 = [Sums EXCEPT ![stuff] = @ + i] /\ Sums[stuff] + i \in Int
                BY <1>4, <2>7, AddAt
            <4> HIDE DEF T1
            <4>2. T1 \in [Kind -> Int] /\ \A x \in Kind : T1[x] = Sums[x] + (IF x = stuff THEN i ELSE 0)
                BY <1>4, <2>7, <4>1
            <4>3. T2 = [T1 EXCEPT ![Catalyst] = @ + j] /\ T1[Catalyst] + j \in Int
                BY <2>6, <4>2, AddAt
            <4> HIDE DEF T2
            <4>4. T2 \in [Kind -> Int] /\ \A x \in Kind : T2[x] = T1[x] + (IF x = Catalyst THEN j ELSE 0)
                BY <2>6, <4>2, <4>3
            <4>5. T3 = [T2 EXCEPT ![dk] = @ + m] /\ T2[dk] + m \in Int
                BY <1>3, <4>4, AddAt
            <4> HIDE DEF T3
            <4>6. T3 \in [Kind -> Int] /\ \A x \in Kind : T3[x] = T2[x] + (IF x = dk THEN m ELSE 0)
                BY <1>3, <4>4, <4>5
            <4>7. T4 \in [Kind -> Int] /\ \A x \in Kind : T4[x] = T3[x] + (IF x = r THEN 1 ELSE 0)
                <5>1. CASE r = NoKind
                    <6>1. T4 = T3 /\ \A x \in Kind : x # r
                        BY <5>1, NullAssumption DEF Books!Add
                    <6> QED BY <4>6, <6>1
                <5>2. CASE r # NoKind
                    <6>1. r \in Kind
                        BY <1>10, <5>2
                    <6>2. T4 = [T3 EXCEPT ![r] = @ + 1] /\ T3[r] + 1 \in Int
                        BY <4>6, <6>1, NullAssumption DEF Books!Add
                    <6> HIDE DEF T4
                    <6> QED BY <4>6, <6>1, <6>2
                <5> QED BY <5>1, <5>2
            <4> HIDE DEF T4
            <4>8. \A x \in Kind : G[x] = T4[x]
                BY <2>7, <2>8, <3>1, <4>2, <4>4, <4>6, <4>7
            <4>9. G = T4
                BY <2>9, <4>7, <4>8
            <4> QED BY <4>9 DEF T1, T2, T3, T4
        <3> QED BY <2>5, <3>1, Zenon
    <2>12. (row.gold + box.money)' = (row.gold + box.money) - t.cost /\ (row.gold + box.money)' >= 0
        <3>1. box.money \in Nat
            BY BoxAtRest
        <3> QED BY <1>1, <1>2, <1>4, <2>2, <2>3, <3>1
    <2>13. Books!Refine(dk, r, scrolls)
        <3>1. \A x \in Kind : G[x] >= 0
            BY <2>8
        <3> QED BY <2>4, <2>11, <2>12, <3>1 DEF Books!Refine, Sums, G, stuff, needed, t
    <2> QED BY <1>3, <1>10, <2>5, <2>13 DEF dk, t
<1> QED
    BY <1>12, <1>14, <1>15

-----------------------------------------------------------------------------
(* Wounds, restarts, and coming back.                                      *)

\* Two packs with the goods of the live one have its counts and its gear.
LEMMA SameGoodsRow ==
    ASSUME BooksInv, box' = box, row'.bag = live.bag, row'.worn = live.worn, row'.gold = live.gold
    PROVE  /\ (row.gold + box.money)' = row.gold + box.money
           /\ [k \in Kind |-> StacksOf(row', k) + Stored(k)'] = Sums
<1>1. \A k \in Kind : StacksOf(row', k) = StacksOf(row, k)
    BY AtRest, SameGoods DEF SameCount
<1>2. \A k \in Kind : Stored(k)' = Stored(k)
    BY StoredHeld
<1>3. row'.gold = row.gold
    BY AtRest
<1> QED
    BY <1>1, <1>2, <1>3 DEF Sums

LEMMA HurtInBooks ==
    ASSUME BooksInv, box' = box, NEW n \in 1..MaxHit, Hurt(n)
    PROVE  Books!Wound
<1> DEFINE x == Max({0, live.pts - n})
           q == [live EXCEPT !.pts = x]
           k == [kept EXCEPT !.pts = x]
<1>1. /\ live \in PackType /\ kept \in PackType /\ row \in PackType /\ live.pts \in Int
      /\ GearEffect(live) \in Int /\ GearEffect(kept) = GearEffect(live) /\ row.gold = live.gold
    BY AtRest
<1>2. MaxHit \in Nat /\ n \in Nat
    BY RestartAssumption
<1>3. x \in Int /\ x <= live.pts /\ x >= live.pts - MaxHit
    <2> DEFINE y == live.pts - n
    <2>1. live.pts > 0 /\ y \in Int /\ y <= live.pts /\ y >= live.pts - MaxHit
        BY <1>1, <1>2 DEF Hurt, Alive
    <2>2. x = Max({0, y})
        OBVIOUS
    <2> HIDE DEF x, y
    <2> QED BY <1>1, <1>2, <2>1, <2>2, MaxOfTwo
<1>4. \/ live' = q /\ kept' = k /\ row' = k
      \/ live' = q /\ UNCHANGED <<kept, row>>
    <2>1. q.pts = x
        BY <1>1 DEF PackType
    <2> HIDE DEF x
    <2> QED BY <2>1 DEF Hurt, x, BooksInv
<1> HIDE DEF x
<1>5. /\ q.pts = x /\ q.worn = live.worn
      /\ k.pts = x /\ k.worn = kept.worn /\ k.bag = kept.bag /\ k.gold = kept.gold
    BY <1>1 DEF PackType
<1> HIDE DEF q, k
<1>6. GearEffect(q) = GearEffect(live) /\ GearEffect(k) = GearEffect(live)
    BY <1>1, <1>5, SameGear
<1>7. Free(q) = x - GearEffect(live) /\ Free(k) = x - GearEffect(live)
    BY <1>5, <1>6 DEF Free
<1>8. Free(q) \in (Free(live) - MaxHit)..Free(live)
    <2>1. Free(live) = live.pts - GearEffect(live)
        BY DEF Free
    <2> QED BY <1>1, <1>2, <1>3, <1>7, <2>1
<1>9. Free(live') \in (Free(live) - MaxHit)..Free(live)
    BY <1>4, <1>8
<1>10. \/ Free(kept') = Free(kept) /\ Free(row') = Free(row)
       \/ Free(kept') = Free(live') /\ Free(row') = Free(live')
    <2>1. CASE live' = q /\ kept' = k /\ row' = k
        <3>1. Free(live') = Free(q) /\ Free(kept') = Free(k) /\ Free(row') = Free(k)
            BY <2>1
        <3> QED BY <1>7, <3>1
    <2>2. CASE UNCHANGED <<kept, row>>
        <3>1. kept' = kept /\ row' = row
            BY <2>2
        <3> QED BY <3>1
    <2> QED BY <1>4, <2>1, <2>2
<1>11. row'.bag = live.bag /\ row'.worn = live.worn /\ row'.gold = live.gold
    <2>1. Goods(live) = Goods(kept) /\ Goods(kept) = Goods(row)
        BY DEF BooksInv, PaneInv, IInv, PacksInv, CopiesAgree
    <2>2. /\ kept.bag = live.bag /\ kept.worn = live.worn /\ kept.gold = live.gold
          /\ row.bag = live.bag /\ row.worn = live.worn /\ row.gold = live.gold
        BY <2>1 DEF Goods
    <2> QED BY <1>4, <1>5, <2>2
<1>12. /\ (row.gold + box.money)' = row.gold + box.money
       /\ [y \in Kind |-> StacksOf(row', y) + Stored(y)'] = Sums
    BY <1>11, SameGoodsRow
<1> QED
    BY <1>9, <1>10, <1>12 DEF Books!Wound, Sums, Free

\* The snapshot with points of its own, or the row again.
LEMMA ReturnInBooks ==
    ASSUME BooksInv, box' = box, RestartHere \/ Reenter
    PROVE  Books!Revive \/ Books!Return
<1>1. Goods(live) = Goods(kept) /\ Goods(kept) = Goods(row)
    BY DEF BooksInv, PaneInv, IInv, PacksInv, CopiesAgree
<1>2. /\ kept.bag = live.bag /\ kept.worn = live.worn /\ kept.gold = live.gold
      /\ row.bag = live.bag /\ row.worn = live.worn /\ row.gold = live.gold
    BY <1>1 DEF Goods
<1>3. CASE RestartHere
    <2> DEFINE k == [kept EXCEPT !.pts = FullPoints]
    <2>1. live' = k /\ kept' = k /\ row' = k /\ ~Alive
        BY <1>3 DEF RestartHere
    <2>2. k.bag = kept.bag /\ k.worn = kept.worn /\ k.gold = kept.gold /\ k.pts = FullPoints
        BY AtRest DEF PackType
    <2> HIDE DEF k
    <2>3. Alive'
        BY <2>1, <2>2, RestartAssumption, CarrierAssumption DEF Alive
    <2>4. row'.bag = live.bag /\ row'.worn = live.worn /\ row'.gold = live.gold
        BY <1>2, <2>1, <2>2
    <2>5. /\ (row.gold + box.money)' = row.gold + box.money
          /\ [y \in Kind |-> StacksOf(row', y) + Stored(y)'] = Sums
        BY <2>4, SameGoodsRow
    <2>6. Free(kept') = Free(live') /\ Free(row') = Free(live')
        BY <2>1
    <2>7. Books!Revive
        BY <2>1, <2>3, <2>5, <2>6 DEF Books!Revive, Sums, Free
    <2> QED BY <2>7
<1>4. CASE Reenter
    <2>1. live' = row /\ kept' = row /\ row' = row
        BY <1>4 DEF Reenter
    <2>2. /\ (row.gold + box.money)' = row.gold + box.money
          /\ [y \in Kind |-> StacksOf(row', y) + Stored(y)'] = Sums
        BY <1>2, <2>1, SameGoodsRow
    <2>3. Free(kept') = Free(row) /\ Free(live') = Free(row) /\ Free(row') = Free(row)
        BY <2>1
    <2>4. Books!Return
        BY <2>2, <2>3 DEF Books!Return, Sums, Free
    <2> QED BY <2>4
<1> QED
    BY <1>3, <1>4

\* Windows and the session's table of the safebox are no goods.
LEMMA WindowsQuiet ==
    ASSUME UNCHANGED packs, box' = box
    PROVE  Books!Quiet
<1>1. live' = live /\ kept' = kept /\ row' = row
    BY DEF packs
<1>2. \A k \in Kind : StacksOf(row', k) + Stored(k)' = StacksOf(row, k) + Stored(k)
    BY <1>1, StoredHeld
<1>3. /\ Free(live') = Free(live) /\ Free(kept') = Free(kept) /\ Free(row') = Free(row)
      /\ row'.gold + box'.money = row.gold + box.money
    BY <1>1
<1> QED
    BY <1>2, <1>3, QuietIs DEF Quieted

-----------------------------------------------------------------------------
(* The safebox: what leaves one side arrives on the other, or nothing does. *)

LEMMA ExchangeQuiet ==
    ASSUME BooksInv, ~RestoreFails, boxOpen, NEW q, Sound(q), BagOnly(live, q),
           NEW t \in [BoxCell -> MaybeStack],
           \A k \in Kind : StacksOf(q, k) + Held(t, BoxCell, k)
                               = StacksOf(live, k) + Held(pane, BoxCell, k),
           Exchange(q, t)
    PROVE  Books!Quiet
<1>1. box \in BoxType /\ pane = box.cells /\ pane \in [BoxCell -> MaybeStack]
    BY BoxAtRest DEF BooksInv, PaneInv, IInv, BoxInv
<1>2. CASE RolledBack /\ box' \in {box, [box EXCEPT !.cells = pane]}
    <2>1. box'.cells = box.cells /\ box'.money = box.money
        BY <1>1, <1>2 DEF BoxType
    <2> QED BY <1>2, <2>1, RolledQuiet
<1>3. CASE CommitSucceeds(q) /\ box' = [box EXCEPT !.cells = t]
    <2>1. box'.cells = t /\ box'.money = box.money
        BY <1>1, <1>3 DEF BoxType
    <2>2. q.gold + box'.money = live.gold + box.money /\ Free(q) = Free(live)
        BY <2>1, SameGear DEF BagOnly, Free
    <2>3. ASSUME NEW k \in Kind
          PROVE  StacksOf(q, k) + Stored(k)' = StacksOf(live, k) + Stored(k)
        BY <1>1, <2>1, StoredHeld, BoxAtRest
    <2> QED BY <1>3, <2>2, <2>3, CommitQuiet
<1> QED
    BY <1>2, <1>3 DEF Exchange, CommitSkipped, CommitFails, BooksInv

LEMMA CheckQuiet ==
    ASSUME BooksInv, ~RestoreFails, NEW c \in Cell, NEW b \in BoxCell,
           CheckIn(c, b) \/ CheckOut(b, c)
    PROVE  Books!Quiet
<1>1. Sound(live) /\ live \in PackType
    BY AtRest
<1>2. boxOpen /\ pane \in [BoxCell -> MaybeStack]
    BY DEF CheckIn, CheckOut, Opened, BooksInv, PaneInv, IInv, BoxInv
<1>3. pane[b] \in MaybeStack /\ live.bag[c] \in MaybeStack /\ NoStack \in MaybeStack
    BY <1>1, <1>2 DEF PackType, MaybeStack
<1>4. IsFiniteSet(BoxCell)
    BY FinitePlaces
\* One stack of the table becomes another.
<1>5. ASSUME NEW v \in MaybeStack, NEW k \in Kind
      PROVE  /\ [pane EXCEPT ![b] = v] \in [BoxCell -> MaybeStack]
             /\ Held([pane EXCEPT ![b] = v], BoxCell, k)
                    = Held(pane, BoxCell, k) + Of(v, k) - Of(pane[b], k)
             /\ Held(pane, BoxCell, k) \in Nat
    <2> DEFINE t == [pane EXCEPT ![b] = v]
    <2>1. t \in [BoxCell -> MaybeStack] /\ t[b] = v /\ \A d \in BoxCell \ {b} : t[d] = pane[d]
        BY <1>2
    <2> HIDE DEF t
    <2>2. Held(t, BoxCell, k) = Held(pane, BoxCell, k) + Of(t[b], k) - Of(pane[b], k)
        BY <1>2, <1>4, <2>1, HeldChanged
    <2>3. Held(pane, BoxCell, k) \in Nat
        BY <1>2, <1>4, HeldIsCounted
    <2> QED BY <2>1, <2>2, <2>3 DEF t
<1>6. CASE CheckIn(c, b)
    <2> DEFINE s == live.bag[c]
               q == Less(live, c, s.n)
               t == [pane EXCEPT ![b] = s]
    <2>1. s # NoStack /\ pane[b] = NoStack /\ Exchange(q, t)
        BY <1>6 DEF CheckIn
    <2>2. s \in Stack
        BY <1>3, <2>1 DEF MaybeStack
    <2>3. s.n \in 1..s.n /\ s.kind \in Kind /\ s.n \in Nat
        BY <2>2 DEF Stack
    <2>4. Sound(q) /\ BagOnly(live, q) /\ Gains(live, q, s.kind, -s.n)
        BY <1>1, <2>1, <2>3, LessSound, LessGains
    <2>5. t \in [BoxCell -> MaybeStack]
        BY <1>2, <1>3
    <2>6. ASSUME NEW k \in Kind
          PROVE  StacksOf(q, k) + Held(t, BoxCell, k) = StacksOf(live, k) + Held(pane, BoxCell, k)
        <3>1. Held(t, BoxCell, k) = Held(pane, BoxCell, k) + Of(s, k) - Of(NoStack, k)
              /\ Held(pane, BoxCell, k) \in Nat
            BY <1>3, <1>5, <2>1
        <3>2. Of(NoStack, k) = 0 /\ Of(s, k) = (IF k = s.kind THEN s.n ELSE 0)
            BY <1>3, OfStack DEF Of
        <3>3. StacksOf(q, k) = StacksOf(live, k) + (IF k = s.kind THEN -s.n ELSE 0)
            BY <2>4 DEF Gains
        <3>4. StacksOf(live, k) \in Nat
            BY <1>1, StacksHeld
        <3> HIDE DEF s, q, t
        <3> QED BY <2>3, <3>1, <3>2, <3>3, <3>4
    <2> HIDE DEF q, t
    <2> QED BY <1>2, <2>1, <2>4, <2>5, <2>6, ExchangeQuiet
<1>7. CASE CheckOut(b, c)
    <2> DEFINE s == pane[b]
               u == live.bag[c]
               v == IF u = NoStack THEN s ELSE [u EXCEPT !.n = @ + s.n]
               q == Put(live, c, v)
               t == [pane EXCEPT ![b] = NoStack]
    <2>1. /\ s # NoStack /\ Exchange(q, t)
          /\ u = NoStack \/ (u.kind = s.kind /\ u.n + s.n <= Catalog[s.kind].max)
        BY <1>7 DEF CheckOut
    <2>2. s \in Stack /\ u \in MaybeStack
        BY <1>3, <2>1 DEF MaybeStack
    <2>3. /\ v \in Stack
          /\ \A k \in Kind : Of(v, k) = Of(u, k) + Of(s, k) /\ Of(u, k) \in Nat /\ Of(s, k) \in Nat
        <3>1. CASE u = NoStack
            <4>1. \A k \in Kind : Of(NoStack, k) = 0 /\ Of(s, k) \in Nat
                BY <1>3, OfStack
            <4> QED BY <2>2, <3>1, <4>1
        <3>2. CASE u # NoStack
            <4>1. u \in Stack /\ u.kind = s.kind /\ u.n + s.n <= Catalog[u.kind].max
                BY <2>1, <2>2, <3>2 DEF MaybeStack
            <4>2. u.n \in Nat \ {0} /\ s.n \in Nat \ {0}
                BY <2>2, <4>1 DEF Stack
            <4>3. u.n + s.n \in Nat \ {0}
                BY <4>2
            <4>4. v \in Stack /\ v.kind = u.kind /\ v.n = u.n + s.n
                BY <3>2, <4>1, <4>3 DEF Stack
            <4> HIDE DEF v, u, s
            <4> QED BY <4>1, <4>2, <4>4 DEF Of
        <3> QED BY <3>1, <3>2
    <2> HIDE DEF v
    <2>4. Sound(q) /\ v \in MaybeStack
        BY <1>1, <2>3, PutSound DEF MaybeStack
    <2>5. /\ BagOnly(live, q)
          /\ \A k \in Kind : StacksOf(q, k) = StacksOf(live, k) + Of(v, k) - Of(u, k)
        BY <1>1, <2>4, PutCounts
    <2>6. t \in [BoxCell -> MaybeStack]
        BY <1>2, <1>3
    <2>7. ASSUME NEW k \in Kind
          PROVE  StacksOf(q, k) + Held(t, BoxCell, k) = StacksOf(live, k) + Held(pane, BoxCell, k)
        <3>1. /\ Held(t, BoxCell, k) = Held(pane, BoxCell, k) + Of(NoStack, k) - Of(s, k)
              /\ Held(pane, BoxCell, k) \in Nat /\ Of(NoStack, k) = 0
            BY <1>3, <1>5, OfStack
        <3>2. StacksOf(live, k) \in Nat
            BY <1>1, StacksHeld
        <3>3. /\ StacksOf(q, k) = StacksOf(live, k) + Of(v, k) - Of(u, k)
              /\ Of(v, k) = Of(u, k) + Of(s, k) /\ Of(u, k) \in Nat /\ Of(s, k) \in Nat
            BY <2>3, <2>5
        <3> HIDE DEF s, u, q, t
        <3> QED BY <3>1, <3>2, <3>3
    <2> HIDE DEF q, t
    <2> QED BY <1>2, <2>1, <2>4, <2>5, <2>6, <2>7, ExchangeQuiet
<1> QED
    BY <1>6, <1>7

LEMMA MoveInBoxQuiet ==
    ASSUME BooksInv, NEW b \in BoxCell, NEW d \in BoxCell, NEW n \in Counts, MoveInBox(b, d, n)
    PROVE  Books!Quiet
<1> DEFINE s == pane[b]
           t == pane[d]
           m == IF n = 0 THEN s.n ELSE n
           left == IF m = s.n THEN NoStack ELSE [s EXCEPT !.n = @ - m]
           moved == [pane EXCEPT ![b] = NoStack, ![d] = s]
           split == [s EXCEPT !.id = NextBoxId, !.n = m]
           parted == [pane EXCEPT ![b] = left, ![d] = split]
           poured == [pane EXCEPT ![b] = left, ![d].n = @ + m]
<1>1. /\ boxOpen /\ b # d /\ s # NoStack /\ m <= s.n
      /\ \/ t = NoStack /\ Rearranged(moved)
         \/ t = NoStack /\ NextBoxId \in 1..MaxId /\ Rearranged(parted)
         \/ t.kind = s.kind /\ t.n + m <= Catalog[s.kind].max /\ Rearranged(poured)
    BY DEF MoveInBox, Opened
<1>2. pane \in [BoxCell -> MaybeStack] /\ pane = box.cells /\ box \in BoxType
    BY <1>1, BoxAtRest DEF BooksInv, PaneInv, IInv, BoxInv
<1>3. s \in Stack /\ t \in MaybeStack /\ NoStack \in MaybeStack /\ s \in MaybeStack
    BY <1>1, <1>2 DEF MaybeStack
<1>4. /\ s.n \in Nat \ {0} /\ s.kind \in Kind /\ s.n <= Catalog[s.kind].max
      /\ Catalog[s.kind].max \in Nat
    BY <1>3 DEF Stack, Template
<1>5. n \in Nat
    BY DEF Counts, Template
<1>6. m \in 1..s.n /\ m \in Nat
    <2> HIDE DEF s
    <2> QED BY <1>1, <1>4, <1>5
<1> HIDE DEF m
\* A table with the same pieces of every kind.
<1>7. ASSUME NEW x \in [BoxCell -> MaybeStack], Rearranged(x),
             \A e \in BoxCell \ {b, d} : x[e] = pane[e],
             \A k \in Kind : Of(x[b], k) + Of(x[d], k) = Of(s, k) + Of(t, k)
      PROVE  Books!Quiet
    <2>1. UNCHANGED packs /\ box' \in {box, [box EXCEPT !.cells = x]}
        BY <1>7 DEF Rearranged
    <2>2. box'.money = box.money /\ box'.cells \in {pane, x}
        BY <1>2, <2>1 DEF BoxType
    <2>3. ASSUME NEW k \in Kind
          PROVE  Stored(k)' = Stored(k)
        <3>1. Held(x, BoxCell, k) = Held(pane, BoxCell, k)
            <4>1. d \in BoxCell \ {b}
                BY <1>1
            <4>2. Of(x[b], k) + Of(x[d], k) = Of(pane[b], k) + Of(pane[d], k)
                BY <1>7
            <4> QED BY <1>2, <1>7, <4>1, <4>2, FinitePlaces, HeldMoved
        <3> QED BY <1>2, <2>2, <3>1, StoredHeld
    <2>4. live' = live /\ kept' = kept /\ row' = row
        BY <2>1 DEF packs
    <2>5. \A k \in Kind : StacksOf(row', k) + Stored(k)' = StacksOf(row, k) + Stored(k)
        BY <2>3, <2>4
    <2>6. /\ Free(live') = Free(live) /\ Free(kept') = Free(kept) /\ Free(row') = Free(row)
          /\ row'.gold + box'.money = row.gold + box.money
        BY <2>2, <2>4
    <2> QED BY <2>5, <2>6, QuietIs DEF Quieted
<1>8. left \in MaybeStack
      /\ \A k \in Kind : Of(left, k) = Of(s, k) - (IF s.kind = k THEN m ELSE 0) /\ Of(s, k) \in Nat
    <2>1. CASE m # s.n
        <3>1. s.n - m \in Nat \ {0} /\ s.n - m <= Catalog[s.kind].max
            <4> DEFINE x == s.n
                       top == Catalog[s.kind].max
            <4>1. x \in Nat /\ top \in Nat /\ x <= top /\ m \in 1..x /\ m # x
                BY <1>4, <1>6, <2>1
            <4> HIDE DEF x, top
            <4>2. x - m \in Nat \ {0} /\ x - m <= top
                BY <4>1
            <4> QED BY <4>2 DEF x, top
        <3>2. left \in Stack /\ left.kind = s.kind /\ left.n = s.n - m
            BY <1>3, <2>1, <3>1 DEF Stack
        <3> HIDE DEF left, s
        <3> QED BY <1>4, <1>6, <3>2 DEF MaybeStack, Of
    <2>2. CASE m = s.n
        <3>1. left = NoStack
            BY <2>2
        <3>2. \A k \in Kind : Of(NoStack, k) = 0
            BY <1>3, OfStack
        <3> HIDE DEF left, s
        <3> QED BY <1>3, <1>4, <2>2, <3>1, <3>2 DEF Of
    <2> QED BY <2>1, <2>2
<1> HIDE DEF left
<1>9. CASE t = NoStack /\ Rearranged(moved)
    <2>1. /\ moved \in [BoxCell -> MaybeStack]
          /\ moved[b] = NoStack /\ moved[d] = s /\ \A e \in BoxCell \ {b, d} : moved[e] = pane[e]
        BY <1>1, <1>2, <1>3
    <2>2. \A k \in Kind : Of(NoStack, k) + Of(s, k) = Of(s, k) + Of(NoStack, k)
        BY <1>3, OfStack
    <2> HIDE DEF moved
    <2> QED BY <1>7, <1>9, <2>1, <2>2
<1>10. CASE t = NoStack /\ NextBoxId \in 1..MaxId /\ Rearranged(parted)
    <2>1. split \in Stack /\ split.kind = s.kind /\ split.n = m
        <3> HIDE DEF NextBoxId
        <3>1. m \in Nat \ {0} /\ m <= Catalog[s.kind].max
            <4> DEFINE x == s.n
                       top == Catalog[s.kind].max
            <4>1. x \in Nat /\ top \in Nat /\ x <= top /\ m \in 1..x
                BY <1>4, <1>6
            <4> HIDE DEF x, top
            <4>2. m \in Nat \ {0} /\ m <= top
                BY <4>1
            <4> QED BY <4>2 DEF top
        <3> QED BY <1>3, <1>10, <3>1 DEF Stack
    <2> HIDE DEF split
    <2>2. /\ parted \in [BoxCell -> MaybeStack]
          /\ parted[b] = left /\ parted[d] = split /\ \A e \in BoxCell \ {b, d} : parted[e] = pane[e]
        BY <1>1, <1>2, <1>8, <2>1 DEF MaybeStack
    <2>3. ASSUME NEW k \in Kind
          PROVE  Of(left, k) + Of(split, k) = Of(s, k) + Of(t, k)
        <3>1. Of(t, k) = 0
            BY <1>3, <1>10, OfStack
        <3>2. Of(split, k) = IF s.kind = k THEN m ELSE 0
            BY <2>1 DEF Of
        <3>3. Of(left, k) = Of(s, k) - (IF s.kind = k THEN m ELSE 0) /\ Of(s, k) \in Nat
            BY <1>8
        <3> HIDE DEF s, t
        <3> QED BY <1>6, <3>1, <3>2, <3>3
    <2> HIDE DEF parted
    <2> QED BY <1>7, <1>10, <2>2, <2>3
<1>11. CASE t.kind = s.kind /\ t.n + m <= Catalog[s.kind].max /\ Rearranged(poured)
    <2> DEFINE more == [t EXCEPT !.n = @ + m]
    <2>1. t \in Stack
        BY <1>3, <1>4, <1>11, NullAssumption DEF MaybeStack, NoStack
    <2>2. t.n \in Nat \ {0}
        BY <2>1 DEF Stack
    <2>3. t.n + m \in Nat \ {0}
        BY <1>6, <2>2
    <2>4. more \in Stack /\ more.kind = s.kind /\ more.n = t.n + m
        BY <1>11, <2>1, <2>3 DEF Stack
    <2>5. poured = [pane EXCEPT ![b] = left, ![d] = more]
        BY <1>1, <1>2
    <2> HIDE DEF more
    <2>6. /\ poured \in [BoxCell -> MaybeStack]
          /\ poured[b] = left /\ poured[d] = more /\ \A e \in BoxCell \ {b, d} : poured[e] = pane[e]
        BY <1>1, <1>2, <1>8, <2>4, <2>5 DEF MaybeStack
    <2>7. ASSUME NEW k \in Kind
          PROVE  Of(left, k) + Of(more, k) = Of(s, k) + Of(t, k)
        <3>1. Of(more, k) = Of(t, k) + (IF s.kind = k THEN m ELSE 0) /\ Of(t, k) \in Nat
            <4> HIDE DEF s, t
            <4> QED BY <1>6, <1>11, <2>2, <2>4 DEF Of
        <3>2. Of(left, k) = Of(s, k) - (IF s.kind = k THEN m ELSE 0) /\ Of(s, k) \in Nat
            BY <1>8
        <3> HIDE DEF s, t
        <3> QED BY <1>6, <3>1, <3>2
    <2> HIDE DEF poured
    <2> QED BY <1>7, <1>11, <2>6, <2>7
<1> QED
    BY <1>1, <1>9, <1>10, <1>11

LEMMA MoneyQuiet ==
    ASSUME BooksInv, ~BoxLoadFails, ~RestoreFails, NEW x \in Nat, SaveMoney(x) \/ WithdrawMoney(x)
    PROVE  Books!Quiet
<1>1. /\ Sound(live) /\ live \in PackType /\ live.gold \in 0..MaxGold
      /\ box.money \in 0..MaxGold /\ box \in BoxType
    BY AtRest, BoxAtRest DEF BooksInv, PaneInv, IInv, BoxInv
<1>2. MoneyRead = {box.money}
    BY DEF MoneyRead
<1>3. ASSUME NEW y \in Int, live.gold + y \in 0..MaxGold,
             NEW q, q = [live EXCEPT !.gold = @ + y],
             NEW m, m = box.money - y, ExchangeMoney(q, box.money, m)
      PROVE  Books!Quiet
    <2>1. Sound(q)
        BY <1>1, <1>3, GoldSound
    <2>2. q.bag = live.bag /\ q.worn = live.worn /\ q.pts = live.pts /\ q.gold = live.gold + y
        BY <1>1, <1>3 DEF PackType
    <2>3. CASE RolledBack /\ box' \in {box, [box EXCEPT !.money = box.money]}
        <3>1. box'.cells = box.cells /\ box'.money = box.money
            BY <1>1, <2>3 DEF BoxType
        <3> QED BY <2>3, <3>1, RolledQuiet
    <2>4. CASE CommitSucceeds(q) /\ box' = [box EXCEPT !.money = m]
        <3>1. box'.cells = box.cells /\ box'.money = m
            BY <1>1, <2>4 DEF BoxType
        <3>2. q.gold + box'.money = live.gold + box.money
            BY <1>1, <1>3, <2>2, <3>1
        <3>3. Free(q) = Free(live)
            BY <2>2, SameGear DEF Free
        <3>4. \A k \in Kind : StacksOf(q, k) + Stored(k)' = StacksOf(live, k) + Stored(k)
            BY <2>2, <3>1, SameGoods, StoredHeld DEF SameCount
        <3> QED BY <2>1, <2>4, <3>2, <3>3, <3>4, CommitQuiet
    <2> QED
        BY <1>3, <2>3, <2>4 DEF ExchangeMoney, CommitSkipped, CommitFails, BooksInv
<1>4. CASE SaveMoney(x)
    <2> DEFINE y == -x
    <2>1. live.gold >= x /\ ExchangeMoney([live EXCEPT !.gold = @ - x], box.money, box.money + x)
        BY <1>2, <1>4 DEF SaveMoney
    <2>2. y \in Int /\ live.gold + y \in 0..MaxGold /\ box.money - y = box.money + x
        BY <1>1, <2>1
    <2>3. [live EXCEPT !.gold = @ + y] = [live EXCEPT !.gold = @ - x]
        BY <1>1
    <2> HIDE DEF y
    <2> QED BY <1>3, <2>1, <2>2, <2>3
<1>5. CASE WithdrawMoney(x)
    <2>1. live.gold + x <= MaxGold /\ ExchangeMoney([live EXCEPT !.gold = @ + x], box.money, box.money - x)
        BY <1>2, <1>5 DEF WithdrawMoney
    <2>2. x \in Int /\ live.gold + x \in 0..MaxGold
        BY <1>1, <2>1
    <2> QED BY <1>3, <2>1, <2>2
<1> QED
    BY <1>4, <1>5

-----------------------------------------------------------------------------
(* The whole session, step by step.                                        *)

\* Each handler is a line of the ledger, or writes nothing in it.
LEMMA BooksStep ==
    ASSUME BooksInv, ~MayLose, ~BoxLoadFails, ~RestoreFails, Next
    PROVE  Books!Next
<1>2. UNCHANGED stored => box' = box
    BY DEF stored
<1>3. Books!Quiet \/ Books!Wound \/ Books!Return \/ Books!Revive => Books!Next
    BY DEF Books!Next
<1>4. CASE Carry
    BY <1>2, <1>3, <1>4, MoveQuiet, UseOnQuiet DEF Carry
<1>5. CASE Dress
    BY <1>2, <1>3, <1>5, DressQuiet DEF Dress
<1>6. CASE Quickslots
    <2>1. PICK q \in Position : \/ QuickslotDel(q)
                                \/ \E c \in Cell : QuickslotAdd(q, c)
                                \/ \E r \in Position : QuickslotSwap(q, r)
        BY <1>6 DEF Quickslots
    <2>2. box' = box
        BY <1>2, <1>6 DEF Quickslots
    <2> QED BY <1>3, <2>1, <2>2, QuickslotsQuiet
<1>7. CASE Trade
    <2>1. box' = box
        BY <1>2, <1>7 DEF Trade
    <2>2. CASE OpenShop \/ CloseShop
        <3>1. UNCHANGED packs
            BY <2>2 DEF OpenShop, CloseShop
        <3> QED BY <1>3, <2>1, <3>1, WindowsQuiet
    <2>3. ASSUME NEW o \in Offer, Buy(o)
          PROVE  Books!Next
        <3>1. Books!Quiet \/ Books!Buy(o)
            BY <2>1, <2>3, BuyInBooks
        <3> QED BY <3>1 DEF Books!Next
    <2>4. ASSUME NEW c \in Cell, NEW n \in Counts, Sell(c, n)
          PROVE  Books!Next
        <3> DEFINE k == live.bag[c].kind
        <3>1. Books!Quiet \/ (k \in Kind /\ Books!Sell(k))
            BY <2>1, <2>4, SellInBooks
        <3> HIDE DEF k
        <3> QED BY <3>1 DEF Books!Next
    <2> QED BY <1>7, <2>2, <2>3, <2>4 DEF Trade
<1>8. CASE Craft
    <2>1. box' = box
        BY <1>2, <1>8 DEF Craft
    <2>2. CASE CancelRefine
        <3>1. UNCHANGED packs
            BY <2>2 DEF CancelRefine
        <3> QED BY <1>3, <2>1, <3>1, WindowsQuiet
    <2>3. ASSUME NEW c \in Cell, NEW s \in BOOLEAN, Preview(c, s)
          PROVE  Books!Next
        <3>1. UNCHANGED packs
            BY <2>3 DEF Preview
        <3> QED BY <1>3, <2>1, <3>1, WindowsQuiet
    <2>4. ASSUME NEW c \in Cell, NEW s \in BOOLEAN, Confirm(c, s)
          PROVE  Books!Next
        <3> DEFINE k == dialog.kind
        <3>1. \/ Books!Quiet
              \/ /\ k \in Kind /\ Catalog[k].into # NoKind
                 /\ \E x \in {0, 1}, r \in {Catalog[k].into, Catalog[k].fail} : Books!Refine(k, r, x)
            BY <2>1, <2>4, ConfirmInBooks
        <3> HIDE DEF k
        <3> QED BY <3>1 DEF Books!Next
    <2> QED BY <1>8, <2>2, <2>3, <2>4 DEF Craft
<1>9. CASE Body
    <2>1. box' = box
        BY <1>2, <1>9 DEF Body
    <2>2. CASE RestartHere
        BY <1>3, <2>1, <2>2, ReturnInBooks
    <2>3. ASSUME NEW n \in 1..MaxHit, Hurt(n)
          PROVE  Books!Next
        BY <1>3, <2>1, <2>3, HurtInBooks
    <2>4. ASSUME NEW c \in Cell, Use(c)
          PROVE  Books!Next
        <3> DEFINE k == live.bag[c].kind
        <3>1. Books!Quiet \/ Books!Drink(k)
            BY <2>1, <2>4, UseInBooks
        <3>2. k \in Kind
            <4>1. live.bag[c] # NoStack /\ live.bag[c] \in MaybeStack
                BY <2>4, AtRest DEF Use, PackType
            <4> QED BY <4>1 DEF MaybeStack, Stack
        <3> HIDE DEF k
        <3> QED BY <3>1, <3>2 DEF Books!Next
    <2> QED BY <1>9, <2>2, <2>3, <2>4 DEF Body
<1>10. CASE Session
    <2>1. Reenter /\ box' = box
        BY <1>2, <1>10 DEF Session, LoseWorld
    <2> QED BY <1>3, <2>1, ReturnInBooks
<1>11. CASE OpenBox \/ CloseBox
    <2>1. UNCHANGED packs /\ box' = box
        BY <1>11 DEF OpenBox, CloseBox
    <2> QED BY <1>3, <2>1, WindowsQuiet
<1>12. CASE \E c \in Cell, b \in BoxCell : CheckIn(c, b) \/ CheckOut(b, c)
    BY <1>3, <1>12, CheckQuiet
<1>13. CASE \E b, d \in BoxCell, n \in Counts : MoveInBox(b, d, n)
    BY <1>3, <1>13, MoveInBoxQuiet
<1>14. CASE \E x \in 1..MaxGold : SaveMoney(x) \/ WithdrawMoney(x)
    <2>1. PICK x \in 1..MaxGold : SaveMoney(x) \/ WithdrawMoney(x)
        BY <1>14
    <2>2. x \in Nat
        OBVIOUS
    <2> QED BY <1>3, <2>1, <2>2, MoneyQuiet
<1> QED
    BY <1>4, <1>5, <1>6, <1>7, <1>8, <1>9, <1>10, <1>11, <1>12, <1>13, <1>14 DEF Next

\* What changes nothing changes nothing in the books.
LEMMA BooksStutter ==
    ASSUME UNCHANGED vars
    PROVE  UNCHANGED Books!ledger
<1>1. live' = live /\ kept' = kept /\ row' = row /\ box' = box
    BY DEF vars, packs
<1>2. \A k \in Kind : StacksOf(row', k) + Stored(k)' = StacksOf(row, k) + Stored(k)
    BY <1>1, StoredHeld
<1>3. [k \in Kind |-> StacksOf(row', k) + Stored(k)'] = [k \in Kind |-> StacksOf(row, k) + Stored(k)]
    BY <1>2
<1>4. (~Alive)' = ~Alive
    BY <1>1 DEF Alive
<1> QED
    BY <1>1, <1>3, <1>4 DEF Books!ledger

\* The place in the world is lost by no other step, and the dialog is set by none but a
\* preview, which asks for something that can be refined.
LEMMA BooksInvKept ==
    ASSUME BooksInv, ~MayLose, ~BoxLoadFails, ~RestoreFails, [Next]_vars
    PROVE  BooksInv'
<1>1. PaneInv'
    BY StepKeeps DEF BooksInv, PaneInv
<1> SUFFICES owns' /\ AsksToRefine'
    BY <1>1 DEF BooksInv
<1>2. owns /\ AsksToRefine
    BY DEF BooksInv
<1>3. ASSUME owns' = owns, dialog' \in {dialog, NoDialog}
      PROVE  owns' /\ AsksToRefine'
    BY <1>2, <1>3 DEF AsksToRefine
<1>4. CASE Carry
    BY <1>3, <1>4 DEF Carry, Move, UseOn, windows
<1>5. CASE Dress
    BY <1>3, <1>5 DEF Dress, Equip, Replace, Unequip, windows
<1>6. CASE Quickslots
    BY <1>3, <1>6 DEF Quickslots, QuickslotDel, QuickslotAdd, QuickslotSwap, windows
<1>7. CASE Trade
    BY <1>3, <1>7 DEF Trade, OpenShop, CloseShop, Buy, Sell, windows
<1>8. CASE Craft
    <2>1. CASE CancelRefine
        BY <1>3, <2>1 DEF CancelRefine
    <2>2. ASSUME NEW c \in Cell, NEW s \in BOOLEAN, Preview(c, s)
          PROVE  owns' /\ AsksToRefine'
        <3>1. owns' = owns /\ Catalog[live.bag[c].kind].into # NoKind
            BY <2>2 DEF Preview
        <3>2. dialog'.kind = live.bag[c].kind
            BY <2>2 DEF Preview
        <3> QED BY <1>2, <3>1, <3>2 DEF AsksToRefine
    <2>3. ASSUME NEW c \in Cell, NEW s \in BOOLEAN, Confirm(c, s)
          PROVE  owns' /\ AsksToRefine'
        <3>1. dialog' \in {dialog, NoDialog}
            BY <2>3 DEF Confirm
        <3>2. owns' = owns
            BY <2>3 DEF Confirm
        <3> QED BY <1>3, <3>1, <3>2
    <2> QED BY <1>8, <2>1, <2>2, <2>3 DEF Craft
<1>9. CASE Body
    <2>1. CASE RestartHere
        BY <1>3, <2>1 DEF RestartHere
    <2>2. ASSUME NEW n \in 1..MaxHit, Hurt(n)
          PROVE  owns' /\ AsksToRefine'
        BY <1>3, <2>2 DEF Hurt, Shut, windows
    <2>3. ASSUME NEW c \in Cell, Use(c)
          PROVE  owns' /\ AsksToRefine'
        BY <1>3, <2>3 DEF Use, windows
    <2> QED BY <1>9, <2>1, <2>2, <2>3 DEF Body
<1>10. CASE Session
    BY <1>2, <1>10 DEF Session, LoseWorld, Reenter, Shut, AsksToRefine
<1>11. CASE OpenBox \/ CloseBox
    BY <1>3, <1>11 DEF OpenBox, CloseBox
<1>12. CASE \E c \in Cell, b \in BoxCell : CheckIn(c, b) \/ CheckOut(b, c)
    BY <1>3, <1>12 DEF CheckIn, CheckOut
<1>13. CASE \E b, d \in BoxCell, n \in Counts : MoveInBox(b, d, n)
    BY <1>3, <1>13 DEF MoveInBox, Rearranged
<1>14. CASE \E x \in 1..MaxGold : SaveMoney(x) \/ WithdrawMoney(x)
    BY <1>3, <1>14 DEF SaveMoney, WithdrawMoney, ExchangeMoney
<1>15. CASE UNCHANGED vars
    BY <1>3, <1>15 DEF vars, windows
<1> QED
    BY <1>4, <1>5, <1>6, <1>7, <1>8, <1>9, <1>10, <1>11, <1>12, <1>13, <1>14, <1>15 DEF Next

\* The books open with what the character comes with.
LEMMA BooksInit ==
    ASSUME Init
    PROVE  BooksInv /\ Books!Init
<1>1. owns /\ dialog = NoDialog /\ live = Start /\ kept = Start /\ row = Start /\ box.money = 0
    BY DEF Init
<1>2. BooksInv
    BY <1>1, InitSound DEF BooksInv, AsksToRefine
<1>3. \A k \in Kind : StacksOf(row, k) + Stored(k) \in Nat
    BY <1>2, AtRest, BoxAtRest
<1>4. row.gold + box.money \in Nat
    BY <1>1, <1>2, AtRest
<1>5. live.pts - GearEffect(live) \in Int
    BY <1>2, AtRest
<1>6. /\ kept.pts - GearEffect(kept) = live.pts - GearEffect(live)
      /\ row.pts - GearEffect(row) = live.pts - GearEffect(live)
    BY <1>1
<1>7. (~Alive) \in BOOLEAN
    BY DEF Alive
<1>8. [k \in Kind |-> StacksOf(row, k) + Stored(k)] \in [Kind -> Nat]
    BY <1>3
<1> QED
    BY <1>2, <1>4, <1>5, <1>6, <1>7, <1>8 DEF Books!Init

\* Whatever the handlers do, refuse or undo, the account's rows and the safebox's file
\* keep the player's books: a kind gains or loses pieces, and gold changes, by a purchase,
\* a sale, a drink or a refine at its price and by nothing else; the body's points apart
\* from gear by a hit, a drink, a restart, or a return to what was saved.  While the
\* session keeps its place, the safebox can be read, and the save that undoes one works.
THEOREM PossessionsKeepTheBooks ==
    ASSUME ~MayLose, ~BoxLoadFails, ~RestoreFails
    PROVE  Spec => KeepsTheBooks
<1>1. Init => BooksInv /\ Books!Init
    BY BooksInit
<1>2. BooksInv /\ [Next]_vars => BooksInv'
    BY BooksInvKept
<1>3. BooksInv /\ [Next]_vars => [Books!Next]_(Books!ledger)
    BY BooksStep, BooksStutter
<1> QED
    BY <1>1, <1>2, <1>3, PTL DEF Spec, KeepsTheBooks, Books!Spec
=============================================================================
