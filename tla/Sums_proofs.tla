---------------------------- MODULE Sums_proofs ------------------------------
(***************************************************************************)
(* How a sum changes when its set or one of its summands does.             *)
(* SumFunctionOnSet chooses an element, adds it and goes on with the rest, *)
(* so the first part shows that the recursion it is defined by has exactly *)
(* one solution on a finite set; the second part is what the proofs about  *)
(* positions and candle counts cite.  The induction is over finite sets,   *)
(* as the absence of a smallest subset that is bad.                        *)
(***************************************************************************)
EXTENDS FiniteSetsExt, FiniteSetTheorems, TLAPS

(* The element that is added first.                                        *)
Pick(s) == CHOOSE x \in s : TRUE

(* Function g is the recursion over the subsets of S.                      *)
Recurses(g, f, S) ==
    g = [s \in SUBSET S |-> IF s = {} THEN 0 ELSE f[Pick(s)] + g[s \ {Pick(s)}]]

(* A sum is the value of some solution of the recursion.                   *)
LEMMA SumIsRecursion ==
    ASSUME NEW f, NEW S
    PROVE  SumFunctionOnSet(f, S) = (CHOOSE g : Recurses(g, f, S))[S]
  BY DEF SumFunctionOnSet, FoldFunctionOnSet, MapThenFoldSet, Recurses, Pick

(* Among subsets of a finite set one is minimal.                           *)
LEMMA SmallestSubset ==
    ASSUME NEW S, IsFiniteSet(S), NEW Bad \in SUBSET (SUBSET S), Bad # {}
    PROVE  \E T \in Bad : IsFiniteSet(T) /\ \A U \in Bad : U \subseteq T => U = T
  <1>1. SUBSET S = FiniteSubsetsOf(S)
    BY FS_FiniteSubsetsOfFinite
  <1>2. IsWellFoundedOn(StrictSubsetOrdering(S), FiniteSubsetsOf(S))
    BY FS_StrictSubsetOrderingWellFounded
  <1>3. PICK T \in Bad : \A U \in Bad : ~(<<U, T>> \in StrictSubsetOrdering(S))
    BY <1>1, <1>2, WFMin
  <1>4. \A U \in Bad : U \subseteq T => U = T
    BY <1>3 DEF StrictSubsetOrdering
  <1>5. IsFiniteSet(T)
    BY FS_Subset
  <1> QED BY <1>4, <1>5

(* What holds at zero and carries on, holds up to the end.                 *)
LEMMA UpTo ==
    ASSUME NEW n \in Nat, NEW q, 0 \in q, \A k \in 1 .. n : k - 1 \in q => k \in q
    PROVE  n \in q
<1> DEFINE Bad == {s \in SUBSET (1 .. n) : \E k \in 0 .. n : s = 1 .. k /\ k \notin q}
<1>1. SUFFICES ASSUME n \notin q PROVE FALSE
    OBVIOUS
<1>2. Bad \in SUBSET (SUBSET (1 .. n)) /\ 1 .. n \in Bad /\ IsFiniteSet(1 .. n)
    BY <1>1, FS_Interval
<1> HIDE DEF Bad
<1>3. PICK T \in Bad : \A U \in Bad : U \subseteq T => U = T
    <2>1. PICK S : S = 1 .. n
        OBVIOUS
    <2>2. IsFiniteSet(S) /\ Bad \in SUBSET (SUBSET S) /\ Bad # {}
        BY <1>2, <2>1
    <2> QED BY <2>2, SmallestSubset
<1>4. PICK k \in 0 .. n : T = 1 .. k /\ k \notin q
    BY DEF Bad
<1>5. k \in 1 .. n /\ k - 1 \notin q
    BY <1>4
<1>6. /\ k - 1 \in 0 .. n /\ 1 .. (k - 1) \subseteq 1 .. k
      /\ 1 .. (k - 1) \in SUBSET (1 .. n)
      /\ k \in 1 .. k /\ k \notin 1 .. (k - 1)
    BY <1>5
<1>7. 1 .. (k - 1) \in Bad
    BY <1>5, <1>6 DEF Bad
<1> QED BY <1>3, <1>4, <1>6, <1>7

(* The element picked is one of the set.                                   *)
LEMMA PickIn == ASSUME NEW s, s # {} PROVE Pick(s) \in s
  BY DEF Pick

(* A solution unfolds at every subset.                                     *)
LEMMA RecursionAt ==
    ASSUME NEW f, NEW S, NEW g, Recurses(g, f, S), NEW s \in SUBSET S
    PROVE  g[s] = IF s = {} THEN 0 ELSE f[Pick(s)] + g[s \ {Pick(s)}]
  BY DEF Recurses

(* Two solutions agree wherever both are defined.                          *)
LEMMA RecursionUnique ==
    ASSUME NEW f, NEW S, NEW T, IsFiniteSet(S), NEW g, NEW h,
           Recurses(g, f, S), Recurses(h, f, T), NEW U, U \subseteq S, U \subseteq T
    PROVE  g[U] = h[U]
  <1> DEFINE Bad == {V \in SUBSET (S \cap T) : g[V] # h[V]}
  <1>1. SUFFICES ASSUME Bad # {} PROVE FALSE
    OBVIOUS
  <1>2. Bad \in SUBSET (SUBSET S)
    OBVIOUS
  <1> HIDE DEF Bad
  <1>3. PICK V \in Bad : \A W \in Bad : W \subseteq V => W = V
    BY <1>1, <1>2, SmallestSubset
  <1> USE DEF Bad
  <1> DEFINE W == V \ {Pick(V)}
  <1>v. V \in SUBSET S /\ V \in SUBSET T /\ g[V] # h[V]
    OBVIOUS
  <1> HIDE DEF Bad
  <1>4. g[V] = IF V = {} THEN 0 ELSE f[Pick(V)] + g[W]
    BY <1>v, RecursionAt
  <1>5. h[V] = IF V = {} THEN 0 ELSE f[Pick(V)] + h[W]
    BY <1>v, RecursionAt
  <1>6. V # {} => g[W] = h[W]
    <2> SUFFICES ASSUME V # {} PROVE g[W] = h[W]
      OBVIOUS
    <2>1. Pick(V) \in V
      BY PickIn
    <2>2. W \notin Bad
      BY <1>3, <2>1
    <2> QED BY <1>v, <2>2 DEF Bad
  <1> QED BY <1>v, <1>4, <1>5, <1>6

(* There is a solution on every finite set.                                *)
LEMMA RecursionExists ==
    ASSUME NEW f, NEW S, IsFiniteSet(S)
    PROVE  \E g : Recurses(g, f, S)
  <1> DEFINE Bad == {T \in SUBSET S : ~ \E g : Recurses(g, f, T)}
  <1>1. SUFFICES ASSUME Bad # {} PROVE FALSE
    OBVIOUS
  <1>b. Bad \in SUBSET (SUBSET S)
    OBVIOUS
  <1> HIDE DEF Bad
  <1>2. PICK T \in Bad : IsFiniteSet(T) /\ \A U \in Bad : U \subseteq T => U = T
    BY <1>1, <1>b, SmallestSubset
  <1> USE DEF Bad
  <1> DEFINE Sub(U) == CHOOSE g : Recurses(g, f, U)
             G == [s \in SUBSET T |->
                      IF s = {} THEN 0
                      ELSE f[Pick(s)] + Sub(s \ {Pick(s)})[s \ {Pick(s)}]]
  <1>3. \A U \in SUBSET T : U # T => Recurses(Sub(U), f, U) /\ IsFiniteSet(U)
    <2> SUFFICES ASSUME NEW U \in SUBSET T, U # T
                 PROVE  Recurses(Sub(U), f, U) /\ IsFiniteSet(U)
      OBVIOUS
    <2>1. \E g : Recurses(g, f, U)
      BY <1>2
    <2>2. IsFiniteSet(U)
      BY <1>2, FS_Subset
    <2> QED BY <2>1, <2>2
  <1> HIDE DEF Sub
  <1>4. ASSUME NEW s \in SUBSET T, s # {}
        PROVE  Sub(s \ {Pick(s)})[s \ {Pick(s)}] = G[s \ {Pick(s)}]
    <2> DEFINE U == s \ {Pick(s)}
    <2>1. U \in SUBSET T /\ U # T
      BY <1>4, PickIn
    <2>2. Recurses(Sub(U), f, U) /\ IsFiniteSet(U)
      BY <1>3, <2>1
    <2>u. U \in SUBSET U
      OBVIOUS
    <2> HIDE DEF U
    <2>3. Sub(U)[U] = IF U = {} THEN 0 ELSE f[Pick(U)] + Sub(U)[U \ {Pick(U)}]
      BY <2>2, <2>u, RecursionAt
    <2> USE DEF U
    <2>4. G[U] = IF U = {} THEN 0 ELSE f[Pick(U)] + Sub(U \ {Pick(U)})[U \ {Pick(U)}]
      BY <2>1
    <2>5. U # {} => Sub(U)[U \ {Pick(U)}] = Sub(U \ {Pick(U)})[U \ {Pick(U)}]
      <3> SUFFICES ASSUME U # {}
                   PROVE  Sub(U)[U \ {Pick(U)}] = Sub(U \ {Pick(U)})[U \ {Pick(U)}]
        OBVIOUS
      <3> DEFINE V == U \ {Pick(U)}
      <3>1. V \in SUBSET T /\ V # T
        BY <2>1
      <3>2. Recurses(Sub(V), f, V)
        BY <1>3, <3>1
      <3>3. V \subseteq U /\ V \subseteq V
        OBVIOUS
      <3> HIDE DEF V, U, G
      <3>4. Sub(U)[V] = Sub(V)[V]
        BY <2>2, <3>2, <3>3, RecursionUnique
      <3> QED BY <3>4 DEF V
    <2> HIDE DEF G, U
    <2>6. Sub(U)[U] = G[U]
      BY <2>3, <2>4, <2>5
    <2> QED BY <2>6 DEF U
  <1>5. G = [s \in SUBSET T |-> IF s = {} THEN 0 ELSE f[Pick(s)] + G[s \ {Pick(s)}]]
    <2> DEFINE H == [s \in SUBSET T |-> IF s = {} THEN 0 ELSE f[Pick(s)] + G[s \ {Pick(s)}]]
    <2>1. \A s \in SUBSET T : G[s] = H[s]
      BY <1>4
    <2>2. G = [s \in SUBSET T |-> G[s]] /\ H = [s \in SUBSET T |-> H[s]]
      OBVIOUS
    <2> HIDE DEF G, H
    <2>3. G = H
      BY <2>1, <2>2
    <2> QED BY <2>3 DEF H
  <1>6. Recurses(G, f, T)
    BY <1>5 DEF Recurses
  <1> QED BY <1>2, <1>6

(* A sum is its first summand and the sum of the rest.                     *)
LEMMA SumAt ==
    ASSUME NEW f, NEW S, IsFiniteSet(S)
    PROVE  SumFunctionOnSet(f, S) =
             IF S = {} THEN 0
             ELSE f[Pick(S)] + SumFunctionOnSet(f, S \ {Pick(S)})
  <1> DEFINE g == CHOOSE h : Recurses(h, f, S)
             T == S \ {Pick(S)}
             h == CHOOSE k : Recurses(k, f, T)
  <1>1. IsFiniteSet(T)
    BY FS_RemoveElement
  <1>2. Recurses(g, f, S)
    BY RecursionExists
  <1>3. Recurses(h, f, T)
    BY <1>1, RecursionExists
  <1>4. SumFunctionOnSet(f, S) = g[S] /\ SumFunctionOnSet(f, T) = h[T]
    BY SumIsRecursion
  <1> HIDE DEF g, h
  <1>5. g[S] = IF S = {} THEN 0 ELSE f[Pick(S)] + g[T]
    BY <1>2, RecursionAt
  <1>6. T \subseteq S /\ T \subseteq T
    OBVIOUS
  <1> HIDE DEF T
  <1>7. g[T] = h[T]
    BY <1>2, <1>3, <1>6, RecursionUnique
  <1> QED BY <1>4, <1>5, <1>7 DEF T

-----------------------------------------------------------------------------
(* A sum of nothing is zero.                                               *)
LEMMA SumEmpty == ASSUME NEW f PROVE SumFunctionOnSet(f, {}) = 0
  BY SumAt, FS_EmptySet

(* A sum of integers is an integer.                                        *)
LEMMA SumType ==
    ASSUME NEW f, NEW S, IsFiniteSet(S), \A x \in S : f[x] \in Int
    PROVE  SumFunctionOnSet(f, S) \in Int
  <1> DEFINE Bad == {T \in SUBSET S : SumFunctionOnSet(f, T) \notin Int}
  <1>1. SUFFICES ASSUME Bad # {} PROVE FALSE
    OBVIOUS
  <1>2. Bad \in SUBSET (SUBSET S)
    OBVIOUS
  <1> HIDE DEF Bad
  <1>3. PICK T \in Bad : IsFiniteSet(T) /\ \A U \in Bad : U \subseteq T => U = T
    BY <1>1, <1>2, SmallestSubset
  <1> USE DEF Bad
  <1>4. T # {} => /\ Pick(T) \in T
                  /\ SumFunctionOnSet(f, T \ {Pick(T)}) \in Int
    <2> SUFFICES ASSUME T # {}
                 PROVE  Pick(T) \in T /\ SumFunctionOnSet(f, T \ {Pick(T)}) \in Int
      OBVIOUS
    <2>1. Pick(T) \in T
      BY PickIn
    <2> QED BY <1>3, <2>1
  <1>5. SumFunctionOnSet(f, T) \notin Int /\ T \subseteq S
    OBVIOUS
  <1> HIDE DEF Bad
  <1>6. SumFunctionOnSet(f, T) =
          IF T = {} THEN 0 ELSE f[Pick(T)] + SumFunctionOnSet(f, T \ {Pick(T)})
    BY <1>3, SumAt
  <1> QED BY <1>4, <1>5, <1>6

(* A sum depends on the summands of its set only.                          *)
LEMMA SumAgree ==
    ASSUME NEW f, NEW h, NEW S, IsFiniteSet(S), \A x \in S : f[x] = h[x]
    PROVE  SumFunctionOnSet(f, S) = SumFunctionOnSet(h, S)
  <1> DEFINE Bad == {T \in SUBSET S : SumFunctionOnSet(f, T) # SumFunctionOnSet(h, T)}
  <1>1. SUFFICES ASSUME Bad # {} PROVE FALSE
    OBVIOUS
  <1>2. Bad \in SUBSET (SUBSET S)
    OBVIOUS
  <1> HIDE DEF Bad
  <1>3. PICK T \in Bad : IsFiniteSet(T) /\ \A U \in Bad : U \subseteq T => U = T
    BY <1>1, <1>2, SmallestSubset
  <1> USE DEF Bad
  <1>4. T # {} => /\ Pick(T) \in T
                  /\ SumFunctionOnSet(f, T \ {Pick(T)}) = SumFunctionOnSet(h, T \ {Pick(T)})
    <2> SUFFICES ASSUME T # {}
                 PROVE  /\ Pick(T) \in T
                        /\ SumFunctionOnSet(f, T \ {Pick(T)})
                              = SumFunctionOnSet(h, T \ {Pick(T)})
      OBVIOUS
    <2>1. Pick(T) \in T
      BY PickIn
    <2> QED BY <1>3, <2>1
  <1>5. SumFunctionOnSet(f, T) # SumFunctionOnSet(h, T)
    OBVIOUS
  <1>6. T # {} => f[Pick(T)] = h[Pick(T)]
    BY <1>4
  <1> HIDE DEF Bad
  <1>7. /\ SumFunctionOnSet(f, T) =
             IF T = {} THEN 0 ELSE f[Pick(T)] + SumFunctionOnSet(f, T \ {Pick(T)})
        /\ SumFunctionOnSet(h, T) =
             IF T = {} THEN 0 ELSE h[Pick(T)] + SumFunctionOnSet(h, T \ {Pick(T)})
    BY <1>3, SumAt
  <1> QED BY <1>4, <1>5, <1>6, <1>7

(* The sum does not depend on the element that is taken out first.         *)
LEMMA SumWithout ==
    ASSUME NEW f, NEW S, IsFiniteSet(S), \A y \in S : f[y] \in Int, NEW x \in S
    PROVE  SumFunctionOnSet(f, S) = f[x] + SumFunctionOnSet(f, S \ {x})
  <1> DEFINE Sum(T) == SumFunctionOnSet(f, T)
             Bad == {T \in SUBSET S : \E y \in T : Sum(T) # f[y] + Sum(T \ {y})}
  <1>1. SUFFICES ASSUME Bad # {} PROVE FALSE
    OBVIOUS
  <1>2. Bad \in SUBSET (SUBSET S)
    OBVIOUS
  <1> HIDE DEF Bad
  <1>3. PICK T \in Bad : IsFiniteSet(T) /\ \A U \in Bad : U \subseteq T => U = T
    BY <1>1, <1>2, SmallestSubset
  <1> USE DEF Bad
  <1>4. PICK y \in T : Sum(T) # f[y] + Sum(T \ {y})
    OBVIOUS
  <1> DEFINE p == Pick(T)
  <1>5. p \in T
    BY PickIn
  <1>6. Sum(T) = f[p] + Sum(T \ {p})
    BY <1>3, <1>5, SumAt
  <1>7. p # y
    BY <1>4, <1>6
  <1>8. T \ {p} \notin Bad /\ T \ {y} \notin Bad
    BY <1>3, <1>5
  <1>9. Sum(T \ {p}) = f[y] + Sum((T \ {p}) \ {y})
    BY <1>4, <1>7, <1>8
  <1>10. Sum(T \ {y}) = f[p] + Sum((T \ {y}) \ {p})
    BY <1>5, <1>7, <1>8
  <1>11. (T \ {p}) \ {y} = (T \ {y}) \ {p}
    OBVIOUS
  <1>12. IsFiniteSet((T \ {y}) \ {p})
    BY <1>3, FS_RemoveElement
  <1>13. Sum((T \ {y}) \ {p}) \in Int /\ f[p] \in Int /\ f[y] \in Int
    BY <1>5, <1>12, SumType
  <1>14. Sum(T) # f[y] + Sum(T \ {y})
    BY <1>4
  <1> HIDE DEF Sum, Bad, p
  <1>15. ASSUME NEW a \in Int, NEW b \in Int, NEW rest \in Int PROVE a + (b + rest) = b + (a + rest)
    OBVIOUS
  <1>16. Sum(T) = f[p] + (f[y] + Sum((T \ {y}) \ {p}))
    BY <1>6, <1>9, <1>11
  <1>17. f[y] + Sum(T \ {y}) = f[y] + (f[p] + Sum((T \ {y}) \ {p}))
    BY <1>10
  <1> QED BY <1>13, <1>14, <1>15, <1>16, <1>17

(* One more summand.                                                       *)
LEMMA SumWith ==
    ASSUME NEW f, NEW S, IsFiniteSet(S), NEW x, x \notin S,
           \A y \in S \cup {x} : f[y] \in Int
    PROVE  SumFunctionOnSet(f, S \cup {x}) = SumFunctionOnSet(f, S) + f[x]
  <1>1. IsFiniteSet(S \cup {x}) /\ (S \cup {x}) \ {x} = S
    BY FS_AddElement
  <1>2. SumFunctionOnSet(f, S) \in Int /\ f[x] \in Int
    BY SumType
  <1>3. ASSUME NEW T, T = S \cup {x}
        PROVE  SumFunctionOnSet(f, T) = f[x] + SumFunctionOnSet(f, T \ {x})
    BY <1>1, <1>3, SumWithout
  <1> QED BY <1>1, <1>2, <1>3

(* One summand replaced.                                                   *)
LEMMA SumReplaced ==
    ASSUME NEW f, NEW h, NEW S, IsFiniteSet(S), NEW x \in S,
           \A y \in S : f[y] \in Int /\ h[y] \in Int,
           \A y \in S \ {x} : f[y] = h[y]
    PROVE  SumFunctionOnSet(h, S) = SumFunctionOnSet(f, S) + h[x] - f[x]
  <1>1. IsFiniteSet(S \ {x})
    BY FS_RemoveElement
  <1>2. SumFunctionOnSet(f, S \ {x}) = SumFunctionOnSet(h, S \ {x})
    BY <1>1, SumAgree
  <1>3. SumFunctionOnSet(f, S \ {x}) \in Int
    BY <1>1, SumType
  <1>4. /\ SumFunctionOnSet(f, S) = f[x] + SumFunctionOnSet(f, S \ {x})
        /\ SumFunctionOnSet(h, S) = h[x] + SumFunctionOnSet(h, S \ {x})
    BY SumWithout
  <1> QED BY <1>2, <1>3, <1>4

(* A sum of zeroes.                                                        *)
LEMMA SumZero ==
    ASSUME NEW f, NEW S, IsFiniteSet(S), \A x \in S : f[x] = 0
    PROVE  SumFunctionOnSet(f, S) = 0
  <1> DEFINE Bad == {T \in SUBSET S : SumFunctionOnSet(f, T) # 0}
  <1>1. SUFFICES ASSUME Bad # {} PROVE FALSE
    OBVIOUS
  <1>2. Bad \in SUBSET (SUBSET S)
    OBVIOUS
  <1> HIDE DEF Bad
  <1>3. PICK T \in Bad : IsFiniteSet(T) /\ \A U \in Bad : U \subseteq T => U = T
    BY <1>1, <1>2, SmallestSubset
  <1> USE DEF Bad
  <1>4. T # {} => /\ Pick(T) \in T
                  /\ SumFunctionOnSet(f, T \ {Pick(T)}) = 0
    <2> SUFFICES ASSUME T # {}
                 PROVE  Pick(T) \in T /\ SumFunctionOnSet(f, T \ {Pick(T)}) = 0
      OBVIOUS
    <2>1. Pick(T) \in T
      BY PickIn
    <2> QED BY <1>3, <2>1
  <1> QED BY <1>3, <1>4, SumAt
=============================================================================
