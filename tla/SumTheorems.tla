----------------------------- MODULE SumTheorems -----------------------------
(***************************************************************************)
(* What a sum over a finite set is, for the invariants that say where the  *)
(* money is.  MapThenSumSet adds up a set by a recursive function; SumOf   *)
(* is that function with the terms as an argument, and the theorems say    *)
(* what adding, dropping or changing a term does to it.                    *)
(*                                                                         *)
(* The provers have no induction: each proof takes a smallest set for      *)
(* which the claim would fail (Smallest) and drops one element of it.      *)
(***************************************************************************)
EXTENDS Integers, FiniteSets, FiniteSetTheorems, TLAPS

Pick(s) == CHOOSE x \in s : TRUE

IsSum(F, S, g) ==
    g = [s \in SUBSET S |-> IF s = {} THEN 0 ELSE F[Pick(s)] + g[s \ {Pick(s)}]]

SumOf(F, S) == (CHOOSE g : IsSum(F, S, g))[S]

(* Every set of naturals has a least element.                              *)
LEMMA Least ==
    ASSUME NEW T \in SUBSET Nat, T # {}
    PROVE  \E n \in T : \A m \in T : n <= m
<1> DEFINE R == OpToRel(<, Nat)
<1>1. IsWellFoundedOn(R, Nat)
  BY NatLessThanWellFounded
<1>2. PICK n \in T : \A m \in T : ~(<<m, n>> \in R)
  <2> HIDE DEF R
  <2> QED BY <1>1, WFMin
<1>3. \A m \in T : ~(m < n)
  BY <1>2 DEF OpToRel
<1>4. QED
  BY <1>3

(* Of finite sets there is one with the fewest elements.                   *)
LEMMA Smallest ==
    ASSUME NEW Q, Q # {}, \A s \in Q : IsFiniteSet(s)
    PROVE  \E s \in Q : \A t \in Q : Cardinality(s) <= Cardinality(t)
<1> DEFINE T == {n \in Nat : \E s \in Q : Cardinality(s) = n}
<1>1. \A s \in Q : Cardinality(s) \in T
  BY FS_CardinalityType
<1>2. PICK n \in T : \A m \in T : n <= m
  <2> HIDE DEF T
  <2>1. T \in SUBSET Nat
    BY DEF T
  <2> QED BY <1>1, <2>1, Least
<1>3. QED
  BY <1>1, <1>2

(* Dropping the element that is picked leaves a smaller set.               *)
LEMMA PickLess ==
    ASSUME NEW s, IsFiniteSet(s), s # {}
    PROVE  /\ Pick(s) \in s
           /\ IsFiniteSet(s \ {Pick(s)})
           /\ Cardinality(s \ {Pick(s)}) \in Nat
           /\ Cardinality(s) \in Nat
           /\ Cardinality(s \ {Pick(s)}) < Cardinality(s)
<1>1. Pick(s) \in s
  BY DEF Pick
<1>2. /\ IsFiniteSet(s \ {Pick(s)})
      /\ Cardinality(s \ {Pick(s)}) = Cardinality(s) - 1
  BY <1>1, FS_RemoveElement
<1>3. Cardinality(s) \in Nat /\ Cardinality(s \ {Pick(s)}) \in Nat
  BY <1>2, FS_CardinalityType
<1>4. QED
  BY <1>1, <1>2, <1>3

(* The recursive definition has a solution.                                *)
LEMMA SumExists ==
    ASSUME NEW F, NEW S, IsFiniteSet(S)
    PROVE  \E g : IsSum(F, S, g)
<1> DEFINE Below(n) == {s \in SUBSET S : Cardinality(s) <= n}
           Step(h, s) == F[Pick(s)] + h[s \ {Pick(s)}]
           Upto(n, g) == g = [s \in Below(n) |-> IF s = {} THEN 0 ELSE Step(g, s)]
           Bad == {n \in Nat : \A g : ~Upto(n, g)}
<1>1. \A s \in SUBSET S : IsFiniteSet(s) /\ Cardinality(s) \in Nat
                          /\ Cardinality(s) <= Cardinality(S)
  BY FS_Subset, FS_CardinalityType
<1>2. Cardinality(S) \in Nat
  BY FS_CardinalityType
<1>3. Bad = {}
  <2> SUFFICES ASSUME Bad # {} PROVE FALSE
    OBVIOUS
  <2>1. PICK n \in Bad : \A m \in Bad : n <= m
    <3> HIDE DEF Bad
    <3>1. Bad \in SUBSET Nat
      BY DEF Bad
    <3> QED BY <3>1, Least
  <2>2. n \in Nat
    BY <2>1
  <2>3. CASE n = 0
    <3> DEFINE g == [s \in Below(0) |-> 0]
    <3>1. \A s \in Below(0) : s = {}
      BY <1>1, FS_EmptySet
    <3>2. Upto(0, g)
      BY <3>1
    <3> QED BY <2>3, <3>2, <2>1
  <2>4. CASE n # 0
    <3>1. n - 1 \in Nat /\ n - 1 \notin Bad
      <4> HIDE DEF Bad
      <4> QED BY <2>1, <2>2, <2>4
    <3>2. PICK h : Upto(n - 1, h)
      <4> HIDE DEF Upto
      <4> QED BY <3>1
    <3> DEFINE g == [s \in Below(n) |-> IF s \in Below(n - 1) THEN h[s]
                                        ELSE Step(h, s)]
    <3>3. ASSUME NEW s \in Below(n), s # {}
          PROVE  g[s] = Step(g, s)
      <4> DEFINE r == s \ {Pick(s)}
      <4>1. r \in Below(n - 1) /\ r \in Below(n)
        BY <1>1, <2>2, <3>3, PickLess
      <4>2. g[r] = h[r]
        BY <4>1
      <4>3. CASE s \in Below(n - 1)
        BY <3>2, <3>3, <4>2, <4>3
      <4>4. CASE s \notin Below(n - 1)
        BY <4>2, <4>4
      <4> QED BY <4>3, <4>4
    <3>4. ASSUME NEW s \in Below(n), s = {}
          PROVE  g[s] = 0
      <4>1. s \in Below(n - 1)
        BY <3>1, <3>4, FS_EmptySet
      <4> QED BY <3>2, <3>4, <4>1
    <3>5. Upto(n, g)
      <4> HIDE DEF Step
      <4> QED BY <3>3, <3>4
    <3> QED BY <3>5, <2>1
  <2> QED BY <2>3, <2>4
<1>4. PICK g : Upto(Cardinality(S), g)
  <2>1. Cardinality(S) \notin Bad
    BY <1>3
  <2> HIDE DEF Upto
  <2> QED BY <1>2, <2>1
<1>5. Below(Cardinality(S)) = SUBSET S
  BY <1>1
<1>6. QED
  BY <1>4, <1>5 DEF IsSum

(* A sum follows its recursive definition.                                 *)
LEMMA SumIsSum ==
    ASSUME NEW F, NEW S, IsFiniteSet(S)
    PROVE  \E g : IsSum(F, S, g) /\ SumOf(F, S) = g[S]
BY SumExists, Zenon DEF SumOf

(* The sum of a subset is the same, whichever set it is taken in.          *)
LEMMA SumAgrees ==
    ASSUME NEW F, NEW S, NEW T \in SUBSET S, IsFiniteSet(S),
           NEW g, IsSum(F, S, g), NEW h, IsSum(F, T, h)
    PROVE  g[T] = h[T]
<1> DEFINE Bad == {s \in SUBSET T : g[s] # h[s]}
<1>1. Bad = {}
  <2> SUFFICES ASSUME Bad # {} PROVE FALSE
    OBVIOUS
  <2>1. \A s \in SUBSET S : IsFiniteSet(s)
    BY FS_Subset
  <2>2. PICK s \in Bad : \A t \in Bad : Cardinality(s) <= Cardinality(t)
    <3>1. \A t \in Bad : IsFiniteSet(t)
      BY <2>1
    <3> HIDE DEF Bad
    <3> QED BY <3>1, Smallest
  <2>3. s \in SUBSET T /\ s \in SUBSET S /\ g[s] # h[s]
    OBVIOUS
  <2>4. s # {}
    BY <2>3 DEF IsSum
  <2> DEFINE r == s \ {Pick(s)}
  <2>5. r \in SUBSET T /\ r \in SUBSET S /\ r \notin Bad
    <3>1. r \in SUBSET T /\ r \in SUBSET S
      BY <2>3
    <3> HIDE DEF Bad
    <3> QED BY <3>1, <2>1, <2>2, <2>3, <2>4, PickLess
  <2>6. g[r] = h[r]
    BY <2>5
  <2>7. g[s] = F[Pick(s)] + g[r] /\ h[s] = F[Pick(s)] + h[r]
    BY <2>3, <2>4 DEF IsSum
  <2> QED BY <2>3, <2>6, <2>7
<1> QED BY <1>1

(* One term after the other.                                               *)
LEMMA SumEmpty == ASSUME NEW F PROVE SumOf(F, {}) = 0
<1>1. PICK g : IsSum(F, {}, g) /\ SumOf(F, {}) = g[{}]
  BY SumIsSum, FS_EmptySet
<1> QED BY <1>1 DEF IsSum

(* A sum is that of one element and of the rest. *)
LEMMA SumPick ==
    ASSUME NEW F, NEW S, IsFiniteSet(S), S # {}
    PROVE  SumOf(F, S) = F[Pick(S)] + SumOf(F, S \ {Pick(S)})
<1> DEFINE r == S \ {Pick(S)}
<1>1. PICK g : IsSum(F, S, g) /\ SumOf(F, S) = g[S]
  BY SumIsSum
<1>2. IsFiniteSet(r) /\ r \in SUBSET S
  BY PickLess
<1>3. PICK h : IsSum(F, r, h) /\ SumOf(F, r) = h[r]
  BY <1>2, SumIsSum
<1>4. g[r] = h[r]
  BY <1>1, <1>2, <1>3, SumAgrees
<1>5. g[S] = F[Pick(S)] + g[r]
  BY <1>1 DEF IsSum
<1> QED BY <1>1, <1>3, <1>4, <1>5

(* A sum of integers is one, and of naturals a natural.                    *)
THEOREM SumType ==
    ASSUME NEW F, NEW S, IsFiniteSet(S), \A x \in S : F[x] \in Int
    PROVE  SumOf(F, S) \in Int
<1> DEFINE Bad == {s \in SUBSET S : SumOf(F, s) \notin Int}
<1>1. Bad = {}
  <2> SUFFICES ASSUME Bad # {} PROVE FALSE
    OBVIOUS
  <2>1. \A s \in SUBSET S : IsFiniteSet(s)
    BY FS_Subset
  <2>2. PICK s \in Bad : \A t \in Bad : Cardinality(s) <= Cardinality(t)
    <3>1. \A t \in Bad : IsFiniteSet(t)
      BY <2>1
    <3> HIDE DEF Bad
    <3> QED BY <3>1, Smallest
  <2>3. s \in SUBSET S /\ IsFiniteSet(s) /\ s # {}
    BY <2>1, SumEmpty
  <2> DEFINE r == s \ {Pick(s)}
  <2>4. r \in SUBSET S /\ r \notin Bad /\ Pick(s) \in S
    <3>1. r \in SUBSET S /\ Pick(s) \in S
      BY <2>3, PickLess
    <3> HIDE DEF Bad
    <3> QED BY <3>1, <2>2, <2>3, PickLess
  <2>5. SumOf(F, r) \in Int /\ F[Pick(s)] \in Int
    BY <2>4
  <2> QED BY <2>3, <2>5, SumPick
<1> QED BY <1>1

(* Natural numbers add up to a natural number. *)
THEOREM SumNat ==
    ASSUME NEW F, NEW S, IsFiniteSet(S), \A x \in S : F[x] \in Nat
    PROVE  SumOf(F, S) \in Nat
<1> DEFINE Bad == {s \in SUBSET S : SumOf(F, s) \notin Nat}
<1>1. Bad = {}
  <2> SUFFICES ASSUME Bad # {} PROVE FALSE
    OBVIOUS
  <2>1. \A s \in SUBSET S : IsFiniteSet(s)
    BY FS_Subset
  <2>2. PICK s \in Bad : \A t \in Bad : Cardinality(s) <= Cardinality(t)
    <3>1. \A t \in Bad : IsFiniteSet(t)
      BY <2>1
    <3> HIDE DEF Bad
    <3> QED BY <3>1, Smallest
  <2>3. s \in SUBSET S /\ IsFiniteSet(s) /\ s # {}
    BY <2>1, SumEmpty
  <2> DEFINE r == s \ {Pick(s)}
  <2>4. r \in SUBSET S /\ r \notin Bad /\ Pick(s) \in S
    <3>1. r \in SUBSET S /\ Pick(s) \in S
      BY <2>3, PickLess
    <3> HIDE DEF Bad
    <3> QED BY <3>1, <2>2, <2>3, PickLess
  <2>5. SumOf(F, r) \in Nat /\ F[Pick(s)] \in Nat
    BY <2>4
  <2> QED BY <2>3, <2>5, SumPick
<1> QED BY <1>1

(* Any term may be taken out: their order does not matter.                 *)
THEOREM SumRemove ==
    ASSUME NEW F, NEW S, IsFiniteSet(S), \A x \in S : F[x] \in Int, NEW x \in S
    PROVE  SumOf(F, S) = F[x] + SumOf(F, S \ {x})
<1> DEFINE Bad == {s \in SUBSET S : \E z \in s : SumOf(F, s) # F[z] + SumOf(F, s \ {z})}
<1>1. Bad = {}
  <2> SUFFICES ASSUME Bad # {} PROVE FALSE
    OBVIOUS
  <2>1. \A s \in SUBSET S : IsFiniteSet(s)
    BY FS_Subset
  <2>2. PICK s \in Bad : \A t \in Bad : Cardinality(s) <= Cardinality(t)
    <3>1. \A t \in Bad : IsFiniteSet(t)
      BY <2>1
    <3> HIDE DEF Bad
    <3> QED BY <3>1, Smallest
  <2>3. PICK z \in s : SumOf(F, s) # F[z] + SumOf(F, s \ {z})
    OBVIOUS
  <2> DEFINE y == Pick(s)
             r == s \ {y}
             q == s \ {z}
  <2>4. s \in SUBSET S /\ IsFiniteSet(s) /\ z \in S
    BY <2>1
  <2>5. y \in s /\ SumOf(F, s) = F[y] + SumOf(F, r)
    BY <2>4, PickLess, SumPick
  <2>6. y # z
    BY <2>3, <2>5
  <2>7. ASSUME NEW w \in s
        PROVE  s \ {w} \in SUBSET S /\ s \ {w} \notin Bad
    <3>1. /\ IsFiniteSet(s \ {w})
          /\ Cardinality(s \ {w}) = Cardinality(s) - 1
          /\ Cardinality(s) \in Nat
      BY <2>4, FS_RemoveElement, FS_CardinalityType
    <3>2. s \ {w} \in SUBSET S
      BY <2>4
    <3> HIDE DEF Bad
    <3> QED BY <2>2, <3>1, <3>2
  <2>8. SumOf(F, r) = F[z] + SumOf(F, r \ {z})
    BY <2>5, <2>6, <2>7
  <2>9. SumOf(F, q) = F[y] + SumOf(F, q \ {y})
    BY <2>5, <2>6, <2>7
  <2>10. q \ {y} = r \ {z}
    OBVIOUS
  <2>11. SumOf(F, r \ {z}) \in Int
    <3>1. IsFiniteSet(r \ {z}) /\ \A v \in r \ {z} : F[v] \in Int
      BY <2>1, <2>4
    <3> QED BY <3>1, SumType
  <2>12. F[y] \in Int /\ F[z] \in Int
    BY <2>4, <2>5
  <2>13. SumOf(F, s) # F[z] + (F[y] + SumOf(F, r \ {z}))
    BY <2>3, <2>9, <2>10
  <2>14. SumOf(F, s) = F[y] + (F[z] + SumOf(F, r \ {z}))
    BY <2>5, <2>8
  <2> HIDE DEF y, r, q
  <2> QED BY <2>11, <2>12, <2>13, <2>14
<1> QED BY <1>1

(* One element more adds its value to the sum. *)
THEOREM SumAdd ==
    ASSUME NEW F, NEW S, IsFiniteSet(S), NEW x, x \notin S,
           \A y \in S \cup {x} : F[y] \in Int
    PROVE  SumOf(F, S \cup {x}) = SumOf(F, S) + F[x]
<1> DEFINE T == S \cup {x}
<1>1. IsFiniteSet(T) /\ T \ {x} = S
  BY FS_AddElement
<1>2. SumOf(F, T) = F[x] + SumOf(F, T \ {x})
  BY <1>1, SumRemove
<1>3. SumOf(F, T) = F[x] + SumOf(F, S)
  BY <1>1, <1>2
<1>4. SumOf(F, S) \in Int /\ F[x] \in Int
  BY SumType
<1> HIDE DEF T
<1>5. SumOf(F, T) = SumOf(F, S) + F[x]
  BY <1>3, <1>4
<1> QED BY <1>5 DEF T

(* Sums of the same terms are the same.                                    *)
THEOREM SumSame ==
    ASSUME NEW F, NEW G, NEW S, IsFiniteSet(S), \A x \in S : F[x] = G[x]
    PROVE  SumOf(F, S) = SumOf(G, S)
<1> DEFINE Bad == {s \in SUBSET S : SumOf(F, s) # SumOf(G, s)}
<1>1. Bad = {}
  <2> SUFFICES ASSUME Bad # {} PROVE FALSE
    OBVIOUS
  <2>1. \A s \in SUBSET S : IsFiniteSet(s)
    BY FS_Subset
  <2>2. PICK s \in Bad : \A t \in Bad : Cardinality(s) <= Cardinality(t)
    <3>1. \A t \in Bad : IsFiniteSet(t)
      BY <2>1
    <3> HIDE DEF Bad
    <3> QED BY <3>1, Smallest
  <2>3. s \in SUBSET S /\ IsFiniteSet(s) /\ s # {}
    BY <2>1, SumEmpty
  <2> DEFINE r == s \ {Pick(s)}
  <2>4. r \notin Bad /\ r \in SUBSET S /\ Pick(s) \in S
    <3>1. r \in SUBSET S /\ Pick(s) \in S
      BY <2>3, PickLess
    <3> HIDE DEF Bad
    <3> QED BY <3>1, <2>2, <2>3, PickLess
  <2>5. SumOf(F, r) = SumOf(G, r) /\ F[Pick(s)] = G[Pick(s)]
    BY <2>4
  <2> QED BY <2>2, <2>3, <2>5, SumPick
<1> QED BY <1>1

(* Nothing adds up to nothing.                                             *)
THEOREM SumZero ==
    ASSUME NEW F, NEW S, IsFiniteSet(S), \A x \in S : F[x] = 0
    PROVE  SumOf(F, S) = 0
<1> DEFINE Bad == {s \in SUBSET S : SumOf(F, s) # 0}
<1>1. Bad = {}
  <2> SUFFICES ASSUME Bad # {} PROVE FALSE
    OBVIOUS
  <2>1. \A s \in SUBSET S : IsFiniteSet(s)
    BY FS_Subset
  <2>2. PICK s \in Bad : \A t \in Bad : Cardinality(s) <= Cardinality(t)
    <3>1. \A t \in Bad : IsFiniteSet(t)
      BY <2>1
    <3> HIDE DEF Bad
    <3> QED BY <3>1, Smallest
  <2>3. s \in SUBSET S /\ IsFiniteSet(s) /\ s # {}
    BY <2>1, SumEmpty
  <2> DEFINE r == s \ {Pick(s)}
  <2>4. r \notin Bad /\ r \in SUBSET S /\ Pick(s) \in S
    <3>1. r \in SUBSET S /\ Pick(s) \in S
      BY <2>3, PickLess
    <3> HIDE DEF Bad
    <3> QED BY <3>1, <2>1, <2>2, <2>3, PickLess
  <2>5. SumOf(F, r) = 0 /\ F[Pick(s)] = 0
    BY <2>4
  <2> QED BY <2>2, <2>3, <2>5, SumPick
<1> QED BY <1>1

(* One term changes, and the sum by as much.                               *)
THEOREM SumChange ==
    ASSUME NEW F, NEW G, NEW S, IsFiniteSet(S), NEW x \in S,
           \A y \in S : F[y] \in Int /\ G[y] \in Int,
           \A y \in S \ {x} : F[y] = G[y]
    PROVE  SumOf(G, S) = SumOf(F, S) + (G[x] - F[x])
<1>1. IsFiniteSet(S \ {x})
  BY FS_RemoveElement
<1>2. SumOf(F, S \ {x}) = SumOf(G, S \ {x})
  BY <1>1, SumSame
<1>3. SumOf(F, S) = F[x] + SumOf(F, S \ {x}) /\ SumOf(G, S) = G[x] + SumOf(G, S \ {x})
  BY SumRemove
<1>4. SumOf(F, S \ {x}) \in Int /\ F[x] \in Int /\ G[x] \in Int
  BY <1>1, SumType
<1> QED BY <1>2, <1>3, <1>4
=============================================================================
