----------------------------- MODULE EarLemmas ------------------------------
(***************************************************************************)
(* What the proofs of several specifications rest on: least naturals and   *)
(* finite induction, sums, what each operation of PowercapOps keeps of a   *)
(* node, and what powercap_reallocation shares among the nodes, for every  *)
(* size of the C types and every list of nodes.                            *)
(***************************************************************************)
EXTENDS EargmReallocation, FiniteSetTheorems, TLAPS

-----------------------------------------------------------------------------
(* Induction.  The least element of a set of numbers stands for the         *)
(* induction step: the set of the counterexamples has none.                 *)

\* A set of naturals has a least element.
LEMMA LeastNat ==
    ASSUME NEW T, T \subseteq Nat, T # {}
    PROVE  \E n \in T : \A m \in T : n <= m
<1>1. PICK n \in T : \A m \in T : ~(<<m, n>> \in OpToRel(<, Nat))
    BY NatLessThanWellFounded, WFMin, Zenon
<1>2. ASSUME NEW m \in T PROVE n <= m
  <2>1. n \in Nat /\ m \in Nat
    OBVIOUS
  <2>2. ~(m < n)
    BY <1>1, <2>1, Zenon DEF OpToRel
  <2> QED BY <2>1, <2>2
<1> QED BY <1>2

\* A family of subsets of a finite set that has the empty set, and with each of
\* its sets also those with one element more, has the whole set.
LEMMA FiniteInduction ==
  ASSUME NEW S, IsFiniteSet(S), NEW P \in SUBSET SUBSET S, {} \in P,
         \A s \in P : \A x \in S \ s : s \cup {x} \in P
  PROVE  S \in P
  <1> DEFINE Left == {n \in Nat : \E s \in P : Cardinality(S \ s) = n}
  <1>1. Left # {}
    <2>1. Cardinality(S \ {}) \in Nat
      BY FS_CardinalityType
    <2> QED BY <2>1, Zenon
  <1>2. PICK n \in Left : \A m \in Left : n <= m
    BY <1>1, LeastNat, Zenon
  <1>3. PICK s \in P : Cardinality(S \ s) = n
    BY <1>2
  <1>4. SUFFICES ASSUME S # s PROVE FALSE
    OBVIOUS
  <1>5. PICK x \in S \ s : TRUE
    BY <1>4, Zenon
  <1>6. S \ (s \cup {x}) = (S \ s) \ {x} /\ IsFiniteSet(S \ s)
    BY FS_Subset
  <1>7. Cardinality((S \ s) \ {x}) = n - 1 /\ IsFiniteSet((S \ s) \ {x})
    <2> DEFINE R == S \ s
    <2>1. IsFiniteSet(R) /\ x \in R /\ Cardinality(R) = n
      BY <1>3, <1>6
    <2> HIDE DEF R
    <2>2. Cardinality(R \ {x}) = n - 1 /\ IsFiniteSet(R \ {x})
      BY <2>1, FS_RemoveElement
    <2> QED BY <2>2 DEF R
  <1>8. n - 1 \in Nat /\ ~(n <= n - 1)
    BY <1>7, FS_CardinalityType
  <1>9. n - 1 \in Left
    BY <1>6, <1>7, <1>8, Zenon
  <1> HIDE DEF Left
  <1> QED BY <1>2, <1>8, <1>9

-----------------------------------------------------------------------------
(* Sums (SumFunctionOnSet): the fold behind them is a recursive function on  *)
(* the subsets of the indices.                                              *)

\* The element the fold takes next.
Pick(s) == CHOOSE x \in s : TRUE

\* g is that recursive function on the sets of D.
IsIter(g, f, D) == g = [s \in D |-> IF s = {} THEN 0 ELSE f[Pick(s)] + g[s \ {Pick(s)}]]

\* It takes one of the set.
LEMMA Picked == ASSUME NEW s, s # {} PROVE Pick(s) \in s
  BY DEF Pick

\* What it leaves is smaller.
LEMMA PickLeaves ==
  ASSUME NEW S, IsFiniteSet(S), NEW s \in SUBSET S, s # {}
  PROVE  /\ Pick(s) \in s /\ s \ {Pick(s)} \in SUBSET S
         /\ IsFiniteSet(s) /\ Cardinality(s) \in Nat
         /\ IsFiniteSet(s \ {Pick(s)}) /\ Cardinality(s \ {Pick(s)}) = Cardinality(s) - 1
         /\ Cardinality(s) - 1 \in Nat
  <1>1. IsFiniteSet(s) BY FS_Subset
  <1>2. Pick(s) \in s BY Picked
  <1>3. IsFiniteSet(s \ {Pick(s)}) /\ Cardinality(s \ {Pick(s)}) = Cardinality(s) - 1
    BY <1>1, <1>2, FS_RemoveElement
  <1>4. Cardinality(s) \in Nat /\ Cardinality(s \ {Pick(s)}) \in Nat
    BY <1>1, <1>3, FS_CardinalityType
  <1> QED BY <1>1, <1>2, <1>3, <1>4

\* The recursive function exists.
LEMMA IterExists ==
  ASSUME NEW f, NEW S, IsFiniteSet(S)
  PROVE  \E g : IsIter(g, f, SUBSET S)
  <1> DEFINE D(n) == {s \in SUBSET S : Cardinality(s) <= n}
             Bad == {n \in Nat : ~\E g : IsIter(g, f, D(n))}
  <1>1. Bad = {}
    <2> SUFFICES ASSUME Bad # {} PROVE FALSE
        OBVIOUS
    <2>1. PICK n \in Bad : \A m \in Bad : n <= m
      BY LeastNat, Zenon
    <2>2. n # 0
      <3> SUFFICES \E g : IsIter(g, f, D(0)) BY <2>1, Zenon
      <3>1. \A s \in D(0) : s = {}
        BY FS_Subset, FS_EmptySet, FS_CardinalityType
      <3>2. IsIter([s \in D(0) |-> 0], f, D(0))
        BY <3>1 DEF IsIter
      <3> QED BY <3>2, Zenon
    <2>3. PICK g : IsIter(g, f, D(n - 1))
      <3>1. n - 1 \in Nat /\ ~(n <= n - 1) BY <2>2
      <3> QED BY <3>1, <2>1, Zenon
    <2> DEFINE h == [s \in D(n) |-> IF s = {} THEN 0 ELSE f[Pick(s)] + g[s \ {Pick(s)}]]
    <2>4. ASSUME NEW s \in D(n), s # {} PROVE s \ {Pick(s)} \in D(n - 1) /\ s \ {Pick(s)} \in D(n)
      <3>1. s \ {Pick(s)} \in SUBSET S /\ Cardinality(s) \in Nat
            /\ Cardinality(s \ {Pick(s)}) = Cardinality(s) - 1
        BY <2>4, PickLeaves, Zenon
      <3> QED BY <3>1
    <2>5. \A s \in D(n - 1) : s \in D(n) /\ h[s] = g[s]
      <3> TAKE s \in D(n - 1)
      <3>1. Cardinality(s) \in Nat
        BY FS_Subset, FS_CardinalityType
      <3>2. s \in D(n) BY <3>1
      <3>3. g[s] = IF s = {} THEN 0 ELSE f[Pick(s)] + g[s \ {Pick(s)}]
        BY <2>3, Zenon DEF IsIter
      <3> HIDE DEF D
      <3> QED BY <3>2, <3>3
    <2>6. IsIter(h, f, D(n))
      <3> HIDE DEF D
      <3> SUFFICES ASSUME NEW s \in D(n), s # {} PROVE h[s \ {Pick(s)}] = g[s \ {Pick(s)}]
        BY Zenon DEF IsIter
      <3> QED BY <2>4, <2>5, Zenon
    <2> QED BY <2>1, <2>6, Zenon
  <1>2. Cardinality(S) \in Nat /\ D(Cardinality(S)) = SUBSET S
    BY FS_Subset, FS_CardinalityType
  <1> QED BY <1>1, <1>2, Zenon

\* The sum is its value.
LEMMA SumIsIter ==
  ASSUME NEW f, NEW S, IsFiniteSet(S)
  PROVE  \E g : IsIter(g, f, SUBSET S) /\ SumFunctionOnSet(f, S) = g[S]
  <1> DEFINE g == CHOOSE h : IsIter(h, f, SUBSET S)
  <1>1. IsIter(g, f, SUBSET S)
    BY IterExists, Zenon
  <1>2. SumFunctionOnSet(f, S) = g[S]
    BY DEF SumFunctionOnSet, FoldFunctionOnSet, MapThenFoldSet, IsIter, Pick
  <1> QED BY <1>1, <1>2, Zenon

\* For the subsets of the indices too.
LEMMA SumIsPart ==
  ASSUME NEW f, NEW S, IsFiniteSet(S), NEW g, IsIter(g, f, SUBSET S), NEW T \in SUBSET S
  PROVE  SumFunctionOnSet(f, T) = g[T]
  <1>1. IsFiniteSet(T) /\ Cardinality(T) \in Nat
    BY FS_Subset, FS_CardinalityType
  <1>2. PICK h : IsIter(h, f, SUBSET T) /\ SumFunctionOnSet(f, T) = h[T]
    BY <1>1, SumIsIter, Zenon
  <1> DEFINE Bad == {n \in Nat : \E s \in SUBSET T : Cardinality(s) = n /\ g[s] # h[s]}
  <1>3. Bad = {}
    <2> SUFFICES ASSUME Bad # {} PROVE FALSE
      OBVIOUS
    <2>1. PICK n \in Bad : \A m \in Bad : n <= m
      BY LeastNat, Zenon
    <2>2. PICK s \in SUBSET T : Cardinality(s) = n /\ g[s] # h[s]
      BY <2>1
    <2>3. s \in SUBSET S
      OBVIOUS
    <2>4. g[s] = (IF s = {} THEN 0 ELSE f[Pick(s)] + g[s \ {Pick(s)}])
          /\ h[s] = (IF s = {} THEN 0 ELSE f[Pick(s)] + h[s \ {Pick(s)}])
      BY <1>2, <2>2, <2>3, Zenon DEF IsIter
    <2>5. s # {} /\ g[s \ {Pick(s)}] # h[s \ {Pick(s)}]
      BY <2>2, <2>4
    <2>6. s \ {Pick(s)} \in SUBSET T /\ Cardinality(s \ {Pick(s)}) = n - 1 /\ n - 1 \in Nat
      BY <1>1, <2>2, <2>5, PickLeaves, Zenon
    <2>7. n - 1 \in Bad
      BY <2>5, <2>6
    <2> QED BY <2>1, <2>7
  <1>4. g[T] = h[T]
    BY <1>1, <1>3
  <1> QED BY <1>2, <1>4

\* The sum over no index is 0, and over others one of them and the rest.
LEMMA SumStep ==
  ASSUME NEW f, NEW S, IsFiniteSet(S)
  PROVE  SumFunctionOnSet(f, S) =
           IF S = {} THEN 0 ELSE f[Pick(S)] + SumFunctionOnSet(f, S \ {Pick(S)})
  <1>1. PICK g : IsIter(g, f, SUBSET S) /\ SumFunctionOnSet(f, S) = g[S]
    BY SumIsIter, Zenon
  <1>2. g[S] = IF S = {} THEN 0 ELSE f[Pick(S)] + g[S \ {Pick(S)}]
    BY <1>1, Zenon DEF IsIter
  <1>3. SumFunctionOnSet(f, S \ {Pick(S)}) = g[S \ {Pick(S)}]
    <2>1. S \ {Pick(S)} \in SUBSET S
      OBVIOUS
    <2> QED BY <1>1, <2>1, SumIsPart
  <1> QED BY <1>1, <1>2, <1>3

\* Sums of integers are integers.
LEMMA SumType ==
  ASSUME NEW f, NEW S, IsFiniteSet(S), \A i \in S : f[i] \in Int
  PROVE  SumFunctionOnSet(f, S) \in Int
  <1> DEFINE Bad == {n \in Nat : \E s \in SUBSET S : Cardinality(s) = n /\ SumFunctionOnSet(f, s) \notin Int}
  <1>1. Bad = {}
    <2> SUFFICES ASSUME Bad # {} PROVE FALSE
      OBVIOUS
    <2>1. PICK n \in Bad : \A m \in Bad : n <= m
      BY LeastNat, Zenon
    <2>2. PICK s \in SUBSET S : Cardinality(s) = n /\ SumFunctionOnSet(f, s) \notin Int
      BY <2>1
    <2>3. IsFiniteSet(s)
      BY FS_Subset
    <2>4. s # {}
      BY <2>2, <2>3, SumStep
    <2>5. Pick(s) \in s /\ s \ {Pick(s)} \in SUBSET S /\ Cardinality(s \ {Pick(s)}) = n - 1 /\ n - 1 \in Nat
      BY <2>2, <2>4, PickLeaves, Zenon
    <2>6. SumFunctionOnSet(f, s \ {Pick(s)}) \in Int
      BY <2>1, <2>5
    <2> QED BY <2>2, <2>3, <2>4, <2>5, <2>6, SumStep
  <1>2. Cardinality(S) \in Nat
    BY FS_CardinalityType
  <1> QED BY <1>1, <1>2

\* The sum does not depend on the order: any index may be taken first.
LEMMA SumRemove ==
  ASSUME NEW f, NEW S, IsFiniteSet(S), \A i \in S : f[i] \in Int, NEW x \in S
  PROVE  SumFunctionOnSet(f, S) = f[x] + SumFunctionOnSet(f, S \ {x})
  <1> DEFINE Bad == {n \in Nat : \E s \in SUBSET S : \E y \in s : Cardinality(s) = n
                        /\ SumFunctionOnSet(f, s) # f[y] + SumFunctionOnSet(f, s \ {y})}
  <1>1. Bad = {}
    <2> SUFFICES ASSUME Bad # {} PROVE FALSE
      BY Zenon
    <2>1. PICK n \in Bad : \A m \in Bad : n <= m
      BY LeastNat, Zenon
    <2>2. PICK s \in SUBSET S : \E y \in s :
             Cardinality(s) = n /\ SumFunctionOnSet(f, s) # f[y] + SumFunctionOnSet(f, s \ {y})
      BY <2>1
    <2>3. PICK y \in s : Cardinality(s) = n
                         /\ SumFunctionOnSet(f, s) # f[y] + SumFunctionOnSet(f, s \ {y})
      BY <2>2, Zenon
    <2> DEFINE p == Pick(s)
    <2>4. IsFiniteSet(s) /\ p \in s
      BY FS_Subset, Picked
    <2>5. SumFunctionOnSet(f, s) = f[p] + SumFunctionOnSet(f, s \ {p})
      BY <2>4, SumStep
    <2>6. p # y
      BY <2>3, <2>5
    <2> HIDE DEF p
    <2>7. /\ IsFiniteSet(s \ {p}) /\ Cardinality(s \ {p}) = n - 1
          /\ IsFiniteSet(s \ {y}) /\ Cardinality(s \ {y}) = n - 1
          /\ n - 1 \in Nat /\ ~(n <= n - 1)
      <3>1. IsFiniteSet(s \ {p}) /\ Cardinality(s \ {p}) = n - 1
        BY <2>3, <2>4, FS_RemoveElement
      <3>2. IsFiniteSet(s \ {y}) /\ Cardinality(s \ {y}) = n - 1
        BY <2>3, <2>4, FS_RemoveElement
      <3>3. n - 1 \in Nat
        BY <3>1, FS_CardinalityType
      <3> QED BY <3>1, <3>2, <3>3
    <2>8. n - 1 \notin Bad
      <3> HIDE DEF Bad
      <3> QED BY <2>1, <2>7
    <2>9. SumFunctionOnSet(f, s \ {p}) = f[y] + SumFunctionOnSet(f, (s \ {p}) \ {y})
      BY <2>6, <2>7, <2>8, Zenon
    <2>10. SumFunctionOnSet(f, s \ {y}) = f[p] + SumFunctionOnSet(f, (s \ {y}) \ {p})
      BY <2>4, <2>6, <2>7, <2>8, Zenon
    <2>11. (s \ {p}) \ {y} = (s \ {y}) \ {p}
      OBVIOUS
    <2>12. IsFiniteSet((s \ {p}) \ {y})
      BY <2>7, FS_RemoveElement, Zenon
    <2>13. SumFunctionOnSet(f, (s \ {p}) \ {y}) \in Int
      BY <2>12, SumType
    <2>14. f[p] \in Int /\ f[y] \in Int
      BY <2>4
    <2> DEFINE r == SumFunctionOnSet(f, (s \ {p}) \ {y})
    <2>15. SumFunctionOnSet(f, s) = f[p] + (f[y] + r)
      BY <2>5, <2>9
    <2>16. SumFunctionOnSet(f, s \ {y}) = f[p] + r
      BY <2>10, <2>11
    <2>17. r \in Int
      BY <2>13
    <2> HIDE DEF r
    <2> QED BY <2>3, <2>14, <2>15, <2>16, <2>17
  <1>2. Cardinality(S) \in Nat
    BY FS_CardinalityType
  <1> QED BY <1>1, <1>2, Zenon
\* One more index.
LEMMA SumInsert ==
  ASSUME NEW f, NEW S, IsFiniteSet(S), NEW x, x \notin S, \A i \in S \cup {x} : f[i] \in Int
  PROVE  SumFunctionOnSet(f, S \cup {x}) = f[x] + SumFunctionOnSet(f, S)
  <1>1. IsFiniteSet(S \cup {x}) /\ (S \cup {x}) \ {x} = S
    BY FS_AddElement
  <1> QED BY <1>1, SumRemove

\* No index.
LEMMA SumEmpty == ASSUME NEW f PROVE SumFunctionOnSet(f, {}) = 0
  BY SumStep, FS_EmptySet, Zenon

\* The sum is monotone.
LEMMA SumLe ==
  ASSUME NEW f, NEW g, NEW S, IsFiniteSet(S),
         \A i \in S : f[i] \in Int /\ g[i] \in Int /\ f[i] <= g[i]
  PROVE  SumFunctionOnSet(f, S) <= SumFunctionOnSet(g, S)
  <1> DEFINE P == {s \in SUBSET S : SumFunctionOnSet(f, s) <= SumFunctionOnSet(g, s)}
  <1>1. {} \in P
    BY SumEmpty
  <1>2. ASSUME NEW s \in P, NEW x \in S \ s PROVE s \cup {x} \in P
    <2>1. IsFiniteSet(s)
      BY FS_Subset
    <2>2. SumFunctionOnSet(f, s) \in Int /\ SumFunctionOnSet(g, s) \in Int
      BY <2>1, SumType
    <2>3. /\ SumFunctionOnSet(f, s \cup {x}) = f[x] + SumFunctionOnSet(f, s)
          /\ SumFunctionOnSet(g, s \cup {x}) = g[x] + SumFunctionOnSet(g, s)
      BY <2>1, SumInsert
    <2> QED BY <2>2, <2>3
  <1> HIDE DEF P
  <1>3. S \in P
    BY <1>1, <1>2, FiniteInduction, Zenon DEF P
  <1> QED BY <1>3 DEF P

\* Only the values at the indices matter.
LEMMA SumEqual ==
  ASSUME NEW f, NEW g, NEW S, IsFiniteSet(S), \A i \in S : f[i] \in Int /\ f[i] = g[i]
  PROVE  SumFunctionOnSet(f, S) = SumFunctionOnSet(g, S)
  <1>1. SumFunctionOnSet(f, S) \in Int /\ SumFunctionOnSet(g, S) \in Int
    BY SumType
  <1>2. SumFunctionOnSet(f, S) <= SumFunctionOnSet(g, S)
    BY SumLe
  <1>3. SumFunctionOnSet(g, S) <= SumFunctionOnSet(f, S)
    BY SumLe
  <1> QED BY <1>1, <1>2, <1>3

\* The sum does not depend on the names of the indices.
LEMMA SumRenamed ==
  ASSUME NEW f, NEW g, NEW b, NEW S, IsFiniteSet(S),
         \A x, y \in S : b[x] = b[y] => x = y,
         \A x \in S : f[b[x]] \in Int /\ g[x] = f[b[x]]
  PROVE  SumFunctionOnSet(g, S) = SumFunctionOnSet(f, {b[x] : x \in S})
  <1> DEFINE I(s) == {b[x] : x \in s}
             P == {s \in SUBSET S : /\ IsFiniteSet(s) /\ IsFiniteSet(I(s))
                                    /\ SumFunctionOnSet(g, s) = SumFunctionOnSet(f, I(s))}
  <1>1. {} \in P
    <2>1. I({}) = {}
      OBVIOUS
    <2> HIDE DEF I
    <2> QED BY <2>1, SumEmpty, FS_EmptySet
  <1>2. ASSUME NEW s \in P, NEW x \in S \ s PROVE s \cup {x} \in P
    <2>1. I(s \cup {x}) = I(s) \cup {b[x]} /\ b[x] \notin I(s)
      OBVIOUS
    <2>2. \A i \in I(s) \cup {b[x]} : f[i] \in Int
      OBVIOUS
    <2>3. \A i \in s \cup {x} : g[i] \in Int
      OBVIOUS
    <2>4. IsFiniteSet(s) /\ IsFiniteSet(I(s))
      OBVIOUS
    <2> HIDE DEF I, P
    <2>5. IsFiniteSet(s \cup {x}) /\ IsFiniteSet(I(s) \cup {b[x]})
      BY <2>4, FS_AddElement
    <2>6. SumFunctionOnSet(f, I(s) \cup {b[x]}) = f[b[x]] + SumFunctionOnSet(f, I(s))
      BY <2>1, <2>2, <2>4, SumInsert
    <2>7. SumFunctionOnSet(g, s \cup {x}) = g[x] + SumFunctionOnSet(g, s)
      BY <2>3, <2>4, SumInsert
    <2>8. SumFunctionOnSet(g, s) = SumFunctionOnSet(f, I(s)) /\ g[x] = f[b[x]] /\ s \cup {x} \in SUBSET S
      BY DEF P
    <2> QED BY <2>1, <2>5, <2>6, <2>7, <2>8, Zenon DEF P
  <1>3. S \in P
    <2> HIDE DEF P
    <2>1. P \in SUBSET SUBSET S
      BY DEF P
    <2> QED BY <1>1, <1>2, <2>1, FiniteInduction, Zenon
  <1> QED BY <1>3

\* Sums add up index by index.
LEMMA SumPlus ==
  ASSUME NEW f, NEW g, NEW h, NEW S, IsFiniteSet(S),
         \A i \in S : f[i] \in Int /\ g[i] \in Int /\ h[i] = f[i] + g[i]
  PROVE  SumFunctionOnSet(h, S) = SumFunctionOnSet(f, S) + SumFunctionOnSet(g, S)
  <1> DEFINE P == {s \in SUBSET S : SumFunctionOnSet(h, s)
                                    = SumFunctionOnSet(f, s) + SumFunctionOnSet(g, s)}
  <1>1. {} \in P
    BY SumEmpty
  <1>2. ASSUME NEW s \in P, NEW x \in S \ s PROVE s \cup {x} \in P
    <2>1. IsFiniteSet(s)
      BY FS_Subset
    <2>2. SumFunctionOnSet(f, s) \in Int /\ SumFunctionOnSet(g, s) \in Int
      BY <2>1, SumType
    <2>3. /\ SumFunctionOnSet(f, s \cup {x}) = f[x] + SumFunctionOnSet(f, s)
          /\ SumFunctionOnSet(g, s \cup {x}) = g[x] + SumFunctionOnSet(g, s)
          /\ SumFunctionOnSet(h, s \cup {x}) = h[x] + SumFunctionOnSet(h, s)
      BY <2>1, SumInsert
    <2> QED BY <2>2, <2>3
  <1> HIDE DEF P
  <1>3. S \in P
    BY <1>1, <1>2, FiniteInduction, Zenon DEF P
  <1> QED BY <1>3 DEF P
\* A sum of zeros is 0.
LEMMA SumZero ==
  ASSUME NEW f, NEW S, IsFiniteSet(S), \A i \in S : f[i] = 0
  PROVE  SumFunctionOnSet(f, S) = 0
  <1> DEFINE P == {s \in SUBSET S : SumFunctionOnSet(f, s) = 0}
  <1>1. {} \in P
    BY SumEmpty
  <1>2. ASSUME NEW s \in P, NEW x \in S \ s PROVE s \cup {x} \in P
    <2>1. IsFiniteSet(s)
      BY FS_Subset
    <2>2. SumFunctionOnSet(f, s \cup {x}) = f[x] + SumFunctionOnSet(f, s)
      BY <2>1, SumInsert
    <2> QED BY <2>2
  <1> HIDE DEF P
  <1>3. S \in P
    BY <1>1, <1>2, FiniteInduction, Zenon DEF P
  <1> QED BY <1>3 DEF P

\* A sum of naturals is at least each of them, and 0 only when all are.
LEMMA SumNat ==
  ASSUME NEW f, NEW S, IsFiniteSet(S), \A i \in S : f[i] \in Nat
  PROVE  /\ SumFunctionOnSet(f, S) \in Nat
         /\ \A i \in S : f[i] <= SumFunctionOnSet(f, S)
  <1> DEFINE z == [i \in S |-> 0]
  <1>1. ASSUME NEW T \in SUBSET S PROVE SumFunctionOnSet(f, T) \in Nat
    <2>1. IsFiniteSet(T)
      BY FS_Subset
    <2>2. SumFunctionOnSet(z, T) = 0
      BY <2>1, SumZero
    <2>3. SumFunctionOnSet(z, T) <= SumFunctionOnSet(f, T)
      BY <2>1, SumLe
    <2>4. SumFunctionOnSet(f, T) \in Int
      BY <2>1, SumType
    <2> QED BY <2>2, <2>3, <2>4
  <1>2. ASSUME NEW i \in S PROVE f[i] <= SumFunctionOnSet(f, S)
    <2>1. SumFunctionOnSet(f, S) = f[i] + SumFunctionOnSet(f, S \ {i})
      BY SumRemove
    <2>2. SumFunctionOnSet(f, S \ {i}) \in Nat
      BY <1>1
    <2> QED BY <2>1, <2>2
  <1> QED BY <1>1, <1>2

\* A product grows by one factor.
LEMMA OneMore == ASSUME NEW c \in Nat, NEW k \in Nat PROVE c * (k + 1) = c * k + c
  OBVIOUS

\* At most c for each index of A, and nothing for the others.
LEMMA SumBound ==
  ASSUME NEW f, NEW S, IsFiniteSet(S), NEW A \in SUBSET S, NEW c \in Nat,
         \A i \in S : f[i] \in Int /\ f[i] <= IF i \in A THEN c ELSE 0
  PROVE  SumFunctionOnSet(f, S) <= c * Cardinality(A)
  <1> DEFINE P == {s \in SUBSET S : SumFunctionOnSet(f, s) <= c * Cardinality(s \cap A)}
  <1>1. {} \in P
    <2>1. {} \cap A = {}
      OBVIOUS
    <2> QED BY <2>1, SumEmpty, FS_EmptySet
  <1>2. ASSUME NEW s \in P, NEW x \in S \ s PROVE s \cup {x} \in P
    <2>1. IsFiniteSet(s) /\ IsFiniteSet(s \cap A) /\ Cardinality(s \cap A) \in Nat
      BY FS_Subset, FS_CardinalityType
    <2>2. SumFunctionOnSet(f, s \cup {x}) = f[x] + SumFunctionOnSet(f, s)
      BY <2>1, SumInsert
    <2>3. SumFunctionOnSet(f, s) \in Int /\ f[x] \in Int
      BY <2>1, SumType
    <2>4. CASE x \in A
      <3>1. (s \cup {x}) \cap A = (s \cap A) \cup {x}
        BY <2>4
      <3>2. Cardinality((s \cap A) \cup {x}) = Cardinality(s \cap A) + 1
        BY <2>1, FS_AddElement, Zenon
      <3>3. c * (Cardinality(s \cap A) + 1) = c * Cardinality(s \cap A) + c
        BY <2>1, OneMore
      <3>4. c * Cardinality(s \cap A) \in Nat
        BY <2>1
      <3>5. f[x] <= c
        BY <2>4
      <3>6. SumFunctionOnSet(f, s) <= c * Cardinality(s \cap A)
        OBVIOUS
      <3>7. SumFunctionOnSet(f, s \cup {x}) <= c * (Cardinality(s \cap A) + 1)
        BY <2>2, <2>3, <3>3, <3>4, <3>5, <3>6
      <3> QED BY <3>1, <3>2, <3>7
    <2>5. CASE x \notin A
      <3>1. (s \cup {x}) \cap A = s \cap A
        BY <2>5
      <3>2. f[x] <= 0
        BY <2>5
      <3>3. c * Cardinality(s \cap A) \in Nat
        BY <2>1
      <3>4. SumFunctionOnSet(f, s) <= c * Cardinality(s \cap A)
        OBVIOUS
      <3>5. SumFunctionOnSet(f, s \cup {x}) <= c * Cardinality(s \cap A)
        BY <2>2, <2>3, <3>2, <3>3, <3>4
      <3> QED BY <3>1, <3>5, Zenon
    <2> QED BY <2>4, <2>5
  <1> HIDE DEF P
  <1>3. S \in P
    BY <1>1, <1>2, FiniteInduction, Zenon DEF P
  <1>4. S \cap A = A
    OBVIOUS
  <1> QED BY <1>3, <1>4 DEF P

\* An equal share for each of k stays within the whole.
LEMMA ShareFits ==
  ASSUME NEW n \in Nat, NEW k \in Nat \ {0}
  PROVE  n \div k \in Nat /\ (n \div k) * k <= n
  OBVIOUS
-----------------------------------------------------------------------------
(* The power cap of a node (powercap.c).                                    *)

\* The cap of the node is the one its domains were given.
Held(n) == n.mode = "AUTO" /\ n.limit = n.cur /\ n.domains = n.cur

\* A call maps node n to m: the types are kept, the allocation is the cap in
\* force if it was before the call, and so is the limit of the domains.
Keeps(n, m) == /\ m \in Node
               /\ n.cur = n.last => m.cur = m.last
               /\ n.cur = n.last /\ Held(n) => Held(m)

-----------------------------------------------------------------------------
\* What a wrapped uint operation returns.
LEMMA ModIsUint ==
    ASSUME NEW x \in Int
    PROVE  x % UintSize \in Uint
  BY UintSizeAssumption DEF Uint

\* The constants the code assigns are uints.
LEMMA UintFacts == 0 \in Uint /\ 1 \in Uint /\ Uint \subseteq Nat
  BY UintSizeAssumption DEF Uint

\* The cap of an idle node (powercap_idle) is a uint.
LEMMA IdleCapIsUint ==
    ASSUME NEW n \in Node
    PROVE  powercap_idle(n) \in Uint
  <1>1. n.conf \in Uint
    BY DEF Node
  <1> QED  BY <1>1, UintSizeAssumption DEF powercap_idle, ear_max, EARD_POWERCAP_IDLE_PERC, Uint

\* set_powercap_value makes the allocation the cap in force, wherever the
\* allocation was, and keeps the domains at the cap.
LEMMA SetValue ==
    ASSUME NEW n \in Node, NEW limit \in Uint
    PROVE  LET m == set_powercap_value(n, limit)
           IN  m \in Node /\ m.cur = m.last /\ (Held(n) => Held(m))
  BY Zenon DEF set_powercap_value, pmgt_set_powercap_value, ear_min, Node, Held

\* Spreading the limit over the domains again keeps a node.
LEMMA Reallocate ==
    ASSUME NEW n \in Node
    PROVE  Keeps(n, reallocate_power_between_domains(n))
  BY DEF reallocate_power_between_domains, Keeps, Node, Held

\* Calls compose.
LEMMA KeepsTransitive ==
    ASSUME NEW n, NEW m, NEW r, Keeps(n, m), Keeps(m, r)
    PROVE  Keeps(n, r)
  BY DEF Keeps

\* A call that returns early keeps a node.
LEMMA KeepsReflexive ==
    ASSUME NEW n \in Node
    PROVE  Keeps(n, n)
  BY DEF Keeps
-----------------------------------------------------------------------------
(* The calls of powercap.c, one lemma each.                                 *)

\* The record m differs from n at most in the fields a call prepares before
\* it hands the node to set_powercap_value.
LEMMA SetPrepared ==
    ASSUME NEW n \in Node, NEW m \in Node, NEW limit \in Uint,
           m.mode = n.mode, m.limit = n.limit, m.cur = n.cur, m.domains = n.domains
    PROVE  Keeps(n, set_powercap_value(m, limit))
  <1>1. Held(n) => Held(m)
    BY DEF Held
  <1> QED  BY <1>1, SetValue DEF Keeps

\* powercap_reset_default_power keeps a node.
LEMMA ResetDefault ==
    ASSUME NEW n \in Node
    PROVE  Keeps(n, powercap_reset_default_power(n))
  <1> DEFINE m == [n EXCEPT !.last = n.def]
  <1>1. m \in Node /\ m.mode = n.mode /\ m.limit = n.limit /\ m.cur = n.cur
            /\ m.domains = n.domains /\ n.def \in Uint
    BY DEF Node
  <1>2. Keeps(n, set_powercap_value(m, n.def))
    BY <1>1, SetPrepared, Zenon
  <1> QED  BY <1>2, KeepsReflexive DEF powercap_reset_default_power

\* So does powercap_idle_to_run, with or without the default at hand.
LEMMA IdleToRun ==
    ASSUME NEW n \in Node
    PROVE  Keeps(n, powercap_idle_to_run(n))
  <1> DEFINE ok  == [n EXCEPT !.status = "OK", !.released = 0]
             ask == [n EXCEPT !.status = "ASK_DEF"]
             m   == IF n.status # "IDLE" THEN n
                    ELSE IF n.last >= n.def THEN set_powercap_value(ok, n.last)
                    ELSE set_powercap_value(ask, n.last)
  <1>1. Keeps(n, set_powercap_value(ok, n.last))
    <2>1. ok \in Node /\ ok.mode = n.mode /\ ok.limit = n.limit /\ ok.cur = n.cur
              /\ ok.domains = n.domains /\ n.last \in Uint
      BY UintFacts, Zenon DEF Node, PC_STATUS
    <2> QED  BY <2>1, SetPrepared, Zenon
  <1>2. Keeps(n, set_powercap_value(ask, n.last))
    <2>1. ask \in Node /\ ask.mode = n.mode /\ ask.limit = n.limit /\ ask.cur = n.cur
              /\ ask.domains = n.domains /\ n.last \in Uint
      BY DEF Node, PC_STATUS
    <2> QED  BY <2>1, SetPrepared, Zenon
  <1>3. Keeps(n, m)
    BY <1>1, <1>2, KeepsReflexive
  <1>4. Keeps(n, reallocate_power_between_domains(m))
    <2>1. m \in Node
      BY <1>3 DEF Keeps
    <2> QED  BY <1>3, <2>1, Reallocate, KeepsTransitive
  <1> QED  BY <1>4, KeepsReflexive DEF powercap_idle_to_run

\* And powercap_run_to_idle, with the reset it may end in.
LEMMA RunToIdle ==
    ASSUME NEW n \in Node
    PROVE  Keeps(n, powercap_run_to_idle(n))
  <1> DEFINE idle == [n EXCEPT !.released = (n.last - powercap_idle(n)) % UintSize,
                               !.status = "IDLE"]
             m    == IF n.status = "IDLE" THEN n
                     ELSE set_powercap_value(idle, powercap_idle(n))
             r    == reallocate_power_between_domains(m)
  <1>1. Keeps(n, set_powercap_value(idle, powercap_idle(n)))
    <2>1. (n.last - powercap_idle(n)) % UintSize \in Uint
      <3>1. n.last \in Int /\ powercap_idle(n) \in Int
        BY IdleCapIsUint DEF Node, Uint
      <3> QED  BY <3>1, ModIsUint
    <2>2. idle \in Node /\ idle.mode = n.mode /\ idle.limit = n.limit
              /\ idle.cur = n.cur /\ idle.domains = n.domains
      BY <2>1, Zenon DEF Node, PC_STATUS
    <2> QED  BY <2>2, IdleCapIsUint, SetPrepared, Zenon
  <1>2. Keeps(n, m)
    BY <1>1, KeepsReflexive
  <1>3. Keeps(n, r)
    <2>1. m \in Node
      BY <1>2 DEF Keeps
    <2> QED  BY <1>2, <2>1, Reallocate, KeepsTransitive
  <1>4. Keeps(n, powercap_reset_default_power(r))
    <2>1. r \in Node
      BY <1>3 DEF Keeps
    <2> QED  BY <1>3, <2>1, ResetDefault, KeepsTransitive
  <1> QED  BY <1>3, <1>4, KeepsReflexive DEF powercap_run_to_idle

\* EARD gives up power: the cap becomes the allocation.
LEMMA ReleasePower ==
    ASSUME NEW n \in Node
    PROVE  LET m == powercap_release_power(n)
           IN  /\ m \in Node /\ m.cur = n.cur /\ m.last = n.cur
               /\ n.mode = "AUTO" => Held(m)
  BY UintFacts, Zenon DEF powercap_release_power, pmgt_set_powercap_value, Node, PC_STATUS, Held

\* The answers of the domains are typed.
LEMMA DomainAnswer ==
    ASSUME NEW n \in Node, NEW cpu \in DomainStatus, NEW gpu \in DomainStatus
    PROVE  LET p == pmgt_get_status(n, cpu, gpu)
           IN  /\ p.status \in {"OK", "GREEDY", "RELEASE"} /\ p.tbr \in Uint
               /\ p.status = "RELEASE" => p.tbr = (cpu.exceed + gpu.exceed) % UintSize
  <1>1. (cpu.exceed + gpu.exceed) % UintSize \in Uint
    <2>1. cpu.exceed \in Int /\ gpu.exceed \in Int
      BY DEF DomainStatus, Uint
    <2> QED  BY <2>1, ModIsUint
  <1> QED  BY <1>1, UintFacts DEF pmgt_get_status

\* A status request keeps a node, also one that releases power.
LEMMA GetStatus ==
    ASSUME NEW n \in Node, NEW p, NEW release_power \in BOOLEAN,
           p.status \in {"OK", "GREEDY", "RELEASE"}, p.tbr \in Uint
    PROVE  Keeps(n, powercap_get_status(n, p, release_power))
  <1> DEFINE s   == RunningStatus(n, p)
             m   == [n EXCEPT !.status = s]
             low == [m EXCEPT !.released = p.tbr, !.cur = (n.cur - p.tbr) % UintSize]
  <1>1. m \in Node /\ m.mode = n.mode /\ m.cur = n.cur /\ Keeps(n, m)
    BY DEF RunningStatus, Node, PC_STATUS, Keeps, Held
  <1>2. low \in Node /\ low.mode = n.mode
    <2>1. (n.cur - p.tbr) % UintSize \in Uint
      <3>1. n.cur \in Int /\ p.tbr \in Int
        BY DEF Node, Uint
      <3> QED  BY <3>1, ModIsUint
    <2> QED  BY <1>1, <2>1, Zenon DEF Node
  <1>3. Keeps(n, powercap_release_power(low)) /\ Keeps(n, powercap_release_power(m))
    BY <1>1, <1>2, ReleasePower, Zenon DEF Keeps, Held
  <1> QED  BY <1>1, <1>3, KeepsReflexive DEF powercap_get_status

\* The options of EARGM keep a node, whatever share they hold.
LEMMA SetOpt ==
    ASSUME NEW n \in Node, NEW listed \in BOOLEAN, NEW extra \in Int, NEW perc \in Nat
    PROVE  Keeps(n, powercap_set_opt(n, listed, extra, perc))
  <1> DEFINE m     == [n EXCEPT !.perc = perc]
             given == [m EXCEPT !.last = (m.last + extra) % UintSize]
             back  == [m EXCEPT !.status = "OK", !.last = m.def]
             g     == set_powercap_value(given, given.last)
  <1>1. m \in Node /\ Keeps(n, m)
    BY DEF Node, Keeps, Held
  <1>2. /\ given \in Node /\ given.mode = n.mode /\ given.limit = n.limit
        /\ given.cur = n.cur /\ given.domains = n.domains /\ given.last \in Uint
    <2>1. (m.last + extra) % UintSize \in Uint
      <3>1. m.last \in Int
        BY <1>1 DEF Node, Uint
      <3> QED  BY <3>1, ModIsUint
    <2> QED  BY <1>1, <2>1, Zenon DEF Node
  <1>3. Keeps(n, g)
    BY <1>2, SetPrepared, Zenon
  <1>4. Keeps(n, [g EXCEPT !.status = "OK"])
    BY <1>3 DEF Keeps, Node, PC_STATUS, Held
  <1>5. Keeps(n, set_powercap_value(back, m.def))
    <2>1. /\ back \in Node /\ back.mode = n.mode /\ back.limit = n.limit
          /\ back.cur = n.cur /\ back.domains = n.domains /\ m.def \in Uint
      BY <1>1, Zenon DEF Node, PC_STATUS
    <2> QED  BY <2>1, SetPrepared, Zenon
  <1> QED  BY <1>1, <1>3, <1>4, <1>5, KeepsReflexive DEF powercap_set_opt

\* The release of idle power keeps a node.
LEMMA ReleaseIdle ==
    ASSUME NEW n \in Node
    PROVE  Keeps(n, powercap_release_idle_power(n))
  BY UintFacts, Zenon DEF powercap_release_idle_power, Keeps, Node, Held

\* The commands that move the default keep a node.
LEMMA ChangeDefault ==
    ASSUME NEW n \in Node, NEW power \in Uint
    PROVE  /\ Keeps(n, powercap_reduce_def_power(n, power))
           /\ Keeps(n, powercap_increase_def_power(n, power))
  <1>1. n.def \in Nat /\ power \in Nat
    BY DEF Node, Uint
  <1>2. (n.def + power) % UintSize \in Uint
    BY <1>1, ModIsUint
  <1>3. ~(power > n.def) => n.def - power \in Uint
    BY <1>1, UintSizeAssumption DEF Node, Uint
  <1> QED  BY <1>2, <1>3 DEF powercap_reduce_def_power, powercap_increase_def_power,
                             Keeps, Node, Held

\* The periodic metric keeps a node.
LEMMA PeriodicMetric ==
    ASSUME NEW n \in Node, NEW reweigh \in BOOLEAN
    PROVE  Keeps(n, powercap_set_power_per_domain(n, reweigh))
  BY Reallocate, KeepsReflexive DEF powercap_set_power_per_domain

\* EARD starts with a typed node; when the domains were loaded, the node is idle
\* with its cap allocated and in force.
LEMMA NodeInit ==
    ASSUME NEW conf \in Uint, NEW max \in Uint, NEW pmgt_ok \in BOOLEAN
    PROVE  LET n == powercap_init(conf, max, pmgt_ok)
           IN  /\ n \in Node
               /\ conf # 0 /\ pmgt_ok => n.cur = n.last /\ Held(n)
  <1> DEFINE n == set_default_node_powercap_opt(conf, max)
             m == [n EXCEPT !.status = "IDLE"]
  <1>1. n \in Node /\ Held(n)
    <2> DEFINE z == [conf |-> conf, max |-> max, def |-> conf, cur |-> 0,
                     last |-> conf, released |-> 0, status |-> "ERROR", perc |-> 0,
                     mode |-> "AUTO", limit |-> 0, domains |-> 0]
    <2>1. z \in Node
      BY UintFacts DEF Node, PC_STATUS
    <2>2. (z.last - powercap_idle(z)) % UintSize \in Uint
      <3>1. z.last \in Int /\ powercap_idle(z) \in Int
        BY <2>1, IdleCapIsUint DEF Node, Uint
      <3> QED  BY <3>1, ModIsUint
    <2> HIDE DEF z
    <2>3. [z EXCEPT !.released = (z.last - powercap_idle(z)) % UintSize] \in Node
      BY <2>1, <2>2 DEF Node
    <2>4. n = [z EXCEPT !.released = (z.last - powercap_idle(z)) % UintSize]
      BY DEF z, set_default_node_powercap_opt
    <2>5. z.mode = "AUTO" /\ z.limit = 0 /\ z.cur = 0 /\ z.domains = 0
      BY DEF z
    <2> QED  BY <2>1, <2>3, <2>4, <2>5 DEF Held, Node
  <1>2. m \in Node /\ Held(m)
    BY <1>1 DEF Node, PC_STATUS, Held
  <1>3. conf # 0 /\ pmgt_ok
            => powercap_init(conf, max, pmgt_ok) = set_powercap_value(m, powercap_idle(n))
    BY DEF powercap_init
  <1>4. ~(conf # 0 /\ pmgt_ok) => powercap_init(conf, max, pmgt_ok) = n
    BY DEF powercap_init
  <1> HIDE DEF n, m
  <1> QED  BY <1>1, <1>2, <1>3, <1>4, IdleCapIsUint, SetValue, Zenon

\* "Unlimited" reaches the domains whatever the max_powercap of the node is.
LEMMA SetUnlimited ==
    ASSUME NEW n \in Node, Held(n)
    PROVE  set_powercap_value(n, POWER_CAP_UNLIMITED).domains = POWER_CAP_UNLIMITED
  <1>1. n.max \in Nat /\ (n.max > 1 => ear_min(1, n.max) = 1)
    BY UintFacts, Zenon DEF Node, ear_min
  <1>2. (IF n.max > 1 THEN ear_min(1, n.max) ELSE 1) = 1
    BY <1>1
  <1> QED  BY <1>2 DEF set_powercap_value, pmgt_set_powercap_value, Node, Held,
                       POWER_CAP_UNLIMITED

\* A node without a limit in ear.conf starts without one.
LEMMA UnlimitedInit ==
    ASSUME NEW max \in Uint
    PROVE  powercap_init(1, max, TRUE).domains = POWER_CAP_UNLIMITED
  <1> DEFINE n == set_default_node_powercap_opt(1, max)
             m == [n EXCEPT !.status = "IDLE"]
  <1>1. powercap_init(1, max, FALSE) = n
    BY DEF powercap_init
  <1>2. n \in Node
    BY <1>1, NodeInit, UintFacts, Zenon
  <1>3. powercap_idle(n) = POWER_CAP_UNLIMITED
    BY DEF set_default_node_powercap_opt, powercap_idle, ear_max, EARD_POWERCAP_IDLE_PERC,
           POWER_CAP_UNLIMITED
  <1>4. n.mode = "AUTO" /\ n.limit = 0 /\ n.cur = 0 /\ n.domains = 0
    BY DEF set_default_node_powercap_opt
  <1>5. powercap_init(1, max, TRUE) = set_powercap_value(m, powercap_idle(n))
    BY DEF powercap_init
  <1> HIDE DEF n
  <1>6. m \in Node /\ Held(m)
    BY <1>2, <1>4 DEF Node, PC_STATUS, Held
  <1> QED  BY <1>3, <1>5, <1>6, SetUnlimited, Zenon

\* What a status request leaves of the allocation.
LEMMA PollAllocation ==
    ASSUME NEW n \in Node, NEW cpu \in DomainStatus, NEW gpu \in DomainStatus,
           NEW release_power \in BOOLEAN, n.cur = n.last,
           cpu.exceed + gpu.exceed <= n.domains
    PROVE  LET p == pmgt_get_status(n, cpu, gpu)
               m == powercap_get_status(n, p, release_power)
           IN  /\ Held(n) => m.last <= n.last
               /\ ~release_power => m.last = n.last
  <1> DEFINE p   == pmgt_get_status(n, cpu, gpu)
             m   == [n EXCEPT !.status = RunningStatus(n, p)]
             low == [m EXCEPT !.released = p.tbr, !.cur = (n.cur - p.tbr) % UintSize]
  <1>1. p.status \in {"OK", "GREEDY", "RELEASE"} /\ p.tbr \in Uint
        /\ (p.status = "RELEASE" => p.tbr = (cpu.exceed + gpu.exceed) % UintSize)
    BY DomainAnswer
  <1> HIDE DEF p
  <1>2. m \in Node /\ m.cur = n.cur /\ m.last = n.last
    BY <1>1 DEF RunningStatus, Node, PC_STATUS
  <1>3. n.cur \in Nat /\ n.cur < UintSize /\ p.tbr \in Nat
    BY <1>1, UintSizeAssumption DEF Node, Uint
  <1>4. low \in Node /\ low.cur = (n.cur - p.tbr) % UintSize
    <2>1. (n.cur - p.tbr) % UintSize \in Uint
      BY <1>3, ModIsUint
    <2> QED  BY <1>1, <1>2, <2>1, Zenon DEF Node
  <1>5. RunningStatus(n, p) = "RELEASE" /\ Held(n) => low.cur <= n.last
    <2> SUFFICES ASSUME RunningStatus(n, p) = "RELEASE", Held(n)
                 PROVE  low.cur <= n.last
      OBVIOUS
    <2> DEFINE sum == cpu.exceed + gpu.exceed
    <2>1. sum \in Nat
      BY DEF DomainStatus, Uint
    <2>2. sum <= n.cur
      BY DEF Held
    <2> HIDE DEF sum
    <2>3. p.tbr = sum % UintSize
      BY <1>1 DEF RunningStatus, sum
    <2>4. sum < UintSize
      BY <1>3, <2>1, <2>2, UintSizeAssumption
    <2>5. sum % UintSize = sum
      BY <2>1, <2>4, UintSizeAssumption
    <2>6. n.cur - sum \in Nat /\ n.cur - sum < UintSize
      BY <1>3, <2>1, <2>2, UintSizeAssumption
    <2>7. (n.cur - sum) % UintSize = n.cur - sum
      BY <2>6, UintSizeAssumption
    <2> QED  BY <1>3, <1>4, <2>1, <2>3, <2>5, <2>7
  <1>6. /\ powercap_release_power(low).last = low.cur
        /\ powercap_release_power(m).last = n.cur
    BY <1>2, <1>4, ReleasePower, Zenon
  <1>7. LET r == powercap_get_status(n, p, release_power)
        IN  /\ Held(n) => r.last <= n.last
            /\ ~release_power => r.last = n.last
    BY <1>2, <1>3, <1>5, <1>6 DEF powercap_get_status
  <1> QED  BY <1>7 DEF p
-----------------------------------------------------------------------------
(* The shares of EARGM (cluster_powercap.c).                                *)

\* A greedy list: what each of its nodes requests and holds beyond its default.
GreedyList(gs) == /\ \E k \in Nat : DOMAIN gs = 1 .. k
                  /\ \A i \in DOMAIN gs : gs[i].req \in Nat /\ gs[i].extra \in Nat

\* The list is finite.
LEMMA ListFinite == ASSUME NEW gs, GreedyList(gs) PROVE IsFiniteSet(DOMAIN gs)
  <1>1. PICK k \in Nat : DOMAIN gs = 1 .. k
    BY DEF GreedyList
  <1> QED BY <1>1, FS_Interval, 1 \in Int, k \in Int

\* The total is the sum over the list.
LEMMA TotalIsSum == ASSUME NEW s PROVE Total(s) = SumFunctionOnSet(s, DOMAIN s)
  BY DEF Total, SumFunction

\* Some entry of a list has a property, and the number of those that have it.
LEMMA CountPositive ==
  ASSUME NEW S, IsFiniteSet(S), NEW A \in SUBSET S
  PROVE  IsFiniteSet(A) /\ Cardinality(A) \in Nat /\ (Cardinality(A) = 0 <=> A = {})
  BY FS_Subset, FS_CardinalityType, FS_EmptySet

\* What aggregate_data counts and sums.
LEMMA AggregateFacts ==
  ASSUME NEW gs, GreedyList(gs)
  PROVE  LET a == aggregate_data(gs)
         IN  /\ {a.total_req_greedy, a.extra_power_alloc, a.req_no_extra} \subseteq Nat
             /\ {a.num_no_extra, a.num_greedy, a.num_extra} \subseteq Nat
             /\ a.total_req_greedy = Total(Requests(gs))
             /\ a.extra_power_alloc = Total(ExtraPower(gs))
             /\ a.num_no_extra = 0 => \A i \in DOMAIN gs : ~(gs[i].req > 0 /\ gs[i].extra = 0)
             /\ a.num_greedy = 0 => a.total_req_greedy = 0
             /\ a.num_extra = 0 => \A i \in DOMAIN gs : gs[i].extra = 0
             /\ \A i \in DOMAIN gs : gs[i].req > 0 => a.num_greedy > 0
             /\ \A i \in DOMAIN gs : gs[i].req <= a.total_req_greedy
  <1> DEFINE S == DOMAIN gs
             new == {i \in S : gs[i].req > 0 /\ gs[i].extra = 0}
             gr == {i \in S : gs[i].req > 0}
             ex == {i \in S : gs[i].extra > 0}
             r == Requests(gs)
             x == ExtraPower(gs)
             w == [i \in S |-> IF i \in new THEN gs[i].req ELSE 0]
             a == aggregate_data(gs)
  <1>1. IsFiniteSet(S) /\ \A i \in S : gs[i].req \in Nat /\ gs[i].extra \in Nat
    BY ListFinite DEF GreedyList
  <1>2. /\ DOMAIN r = S /\ DOMAIN x = S /\ DOMAIN w = S
        /\ \A i \in S : r[i] = gs[i].req /\ x[i] = gs[i].extra /\ w[i] \in Nat
    BY <1>1 DEF Requests, ExtraPower
  <1>3. /\ a.total_req_greedy = Total(r) /\ a.extra_power_alloc = Total(x)
        /\ a.req_no_extra = Total(w) /\ a.num_no_extra = Cardinality(new)
        /\ a.num_greedy = Cardinality(gr) /\ a.num_extra = Cardinality(ex)
    BY DEF aggregate_data
  <1>4. new \in SUBSET S /\ gr \in SUBSET S /\ ex \in SUBSET S
    OBVIOUS
  <1>5. \A i \in S : /\ i \in new <=> gs[i].req > 0 /\ gs[i].extra = 0
                     /\ i \in gr <=> gs[i].req > 0
                     /\ i \in ex <=> gs[i].extra > 0
    OBVIOUS
  <1>6. a = aggregate_data(gs) /\ r = Requests(gs) /\ x = ExtraPower(gs) /\ S = DOMAIN gs
    OBVIOUS
  <1> HIDE DEF S, new, gr, ex, r, x, w, a
  <1>7. /\ Cardinality(new) \in Nat /\ (Cardinality(new) = 0 <=> new = {})
        /\ Cardinality(gr) \in Nat /\ (Cardinality(gr) = 0 <=> gr = {})
        /\ Cardinality(ex) \in Nat /\ (Cardinality(ex) = 0 <=> ex = {})
    BY <1>1, <1>4, CountPositive
  <1>8. Total(r) \in Nat /\ (\A i \in S : r[i] <= Total(r)) /\ Total(x) \in Nat /\ Total(w) \in Nat
    BY <1>1, <1>2, SumNat, TotalIsSum
  <1>9. gr = {} => Total(r) = 0
    <2> SUFFICES ASSUME gr = {} PROVE Total(r) = 0
      OBVIOUS
    <2>1. \A i \in S : r[i] = 0
      BY <1>1, <1>2, <1>5
    <2> QED BY <1>1, <1>2, <2>1, SumZero, TotalIsSum
  <1>10. ex = {} => \A i \in S : gs[i].extra = 0
    BY <1>1, <1>5
  <1> QED BY <1>2, <1>3, <1>5, <1>7, <1>8, <1>9, <1>10, <1>6

\* Stage 1 shares no more than the free power, and gives a node at most its request.
LEMMA Stage1Fits ==
  ASSUME NEW gs, GreedyList(gs), NEW free \in Nat
  PROVE  LET f == Stage1(gs, free)
         IN  /\ DOMAIN f = DOMAIN gs
             /\ \A i \in DOMAIN gs : f[i] \in Nat /\ f[i] <= gs[i].req
             /\ \A i \in DOMAIN gs : f[i] > 0 => gs[i].extra = 0
             /\ Total(f) \in Nat /\ Total(f) <= free
  <1> DEFINE S == DOMAIN gs
             a == aggregate_data(gs)
             new == {i \in S : gs[i].req > 0 /\ gs[i].extra = 0}
             q == a.req_no_extra
             c == free \div a.num_no_extra
             w == [i \in S |-> IF i \in new THEN gs[i].req ELSE 0]
             f == Stage1(gs, free)
  <1>1. IsFiniteSet(S) /\ \A i \in S : gs[i].req \in Nat /\ gs[i].extra \in Nat
    BY ListFinite DEF GreedyList
  <1>2. DOMAIN f = S /\ \A i \in S : f[i] = IF i \in new
                                           THEN IF q < free THEN gs[i].req ELSE ear_min(c, gs[i].req)
                                           ELSE 0
    BY DEF Stage1
  <1>3. q = Total(w) /\ a.num_no_extra = Cardinality(new)
    BY DEF aggregate_data
  <1>4. DOMAIN w = S /\ \A i \in S : w[i] \in Nat /\ (w[i] = IF i \in new THEN gs[i].req ELSE 0)
    BY <1>1
  <1>5. q \in Nat /\ Cardinality(new) \in Nat /\ (Cardinality(new) = 0 <=> new = {})
    <2>1. new \in SUBSET S
      OBVIOUS
    <2> QED BY <1>1, <1>3, <2>1, AggregateFacts, CountPositive
  <1>6. \A i \in S : i \in new <=> gs[i].req > 0 /\ gs[i].extra = 0
    OBVIOUS
  <1>7. new \in SUBSET S
    OBVIOUS
  <1>8. c = free \div Cardinality(new)
    BY <1>3
  <1>9. f = Stage1(gs, free) /\ S = DOMAIN gs
    OBVIOUS
  <1> HIDE DEF f, w, new, q, c, S, a
  <1>10. new # {} => c \in Nat /\ c * Cardinality(new) <= free
    BY <1>5, <1>8, ShareFits
  <1>11. \A i \in S : f[i] \in Nat /\ f[i] <= gs[i].req /\ (f[i] > 0 => gs[i].extra = 0)
    BY <1>1, <1>2, <1>6, <1>10 DEF ear_min
  <1>12. Total(f) \in Nat
    BY <1>1, <1>2, <1>11, SumNat, TotalIsSum
  <1>13. CASE q < free
    <2>1. \A i \in S : f[i] \in Int /\ w[i] \in Int /\ f[i] <= w[i]
      BY <1>1, <1>2, <1>4, <1>13
    <2>2. Total(f) <= Total(w)
      BY <1>1, <1>2, <1>4, <2>1, SumLe, TotalIsSum
    <2> QED BY <1>3, <1>5, <1>9, <1>11, <1>12, <1>13, <2>2, <1>2
  <1>14. CASE ~(q < free) /\ new # {}
    <2>1. \A i \in S : f[i] \in Int /\ f[i] <= IF i \in new THEN c ELSE 0
      BY <1>1, <1>2, <1>10, <1>14 DEF ear_min
    <2>2. Total(f) <= c * Cardinality(new)
      BY <1>1, <1>2, <1>7, <1>10, <1>14, <2>1, SumBound, TotalIsSum
    <2>3. c * Cardinality(new) \in Nat
      BY <1>5, <1>10, <1>14
    <2>4. Total(f) <= free
      BY <1>10, <1>12, <1>14, <2>2, <2>3
    <2> QED BY <1>2, <1>9, <1>11, <1>12, <2>4
  <1>15. CASE new = {}
    <2>1. \A i \in S : f[i] = 0
      BY <1>2, <1>15
    <2>2. Total(f) = 0
      BY <1>1, <1>2, <2>1, SumZero, TotalIsSum
    <2> QED BY <1>2, <1>9, <1>11, <1>12, <2>2
  <1> QED BY <1>13, <1>14, <1>15

\* Stage 2 adds no more than the power that stage 1 left.
LEMMA Stage2Fits ==
  ASSUME NEW gs, GreedyList(gs), NEW first, DOMAIN first = DOMAIN gs, NEW pending \in Nat,
         \A i \in DOMAIN gs : first[i] \in Nat /\ first[i] <= gs[i].req
  PROVE  LET f == Stage2(gs, first, pending)
         IN  /\ DOMAIN f = DOMAIN gs
             /\ \A i \in DOMAIN gs : f[i] \in Nat /\ f[i] <= gs[i].req
             /\ Total(f) \in Nat /\ Total(f) <= Total(first) + pending
  <1> DEFINE S == DOMAIN gs
             gr == {i \in S : gs[i].req > 0}
             c == pending \div aggregate_data(gs).num_greedy
             f == Stage2(gs, first, pending)
             more == [i \in S |-> IF pending > 0 /\ i \in gr /\ first[i] = 0
                                  THEN ear_min(gs[i].req, c) ELSE 0]
  <1>1. IsFiniteSet(S) /\ \A i \in S : gs[i].req \in Nat /\ gs[i].extra \in Nat
    BY ListFinite DEF GreedyList
  <1>2. /\ DOMAIN f = S
        /\ \A i \in S : f[i] = IF pending > 0 /\ i \in gr /\ first[i] = 0
                               THEN ear_min(gs[i].req, c) ELSE first[i]
        /\ DOMAIN more = S
        /\ \A i \in S : more[i] = IF pending > 0 /\ i \in gr /\ first[i] = 0
                                  THEN ear_min(gs[i].req, c) ELSE 0
    BY DEF Stage2
  <1>3. c = pending \div Cardinality(gr) /\ gr \in SUBSET S
    BY DEF aggregate_data
  <1>4. \A i \in S : first[i] \in Nat /\ first[i] <= gs[i].req
    OBVIOUS
  <1>5. f = Stage2(gs, first, pending) /\ S = DOMAIN gs
    OBVIOUS
  <1> HIDE DEF f, more, gr, c, S
  <1>6. Cardinality(gr) \in Nat /\ (Cardinality(gr) = 0 <=> gr = {})
    BY <1>1, <1>3, CountPositive
  <1>7. gr # {} => c \in Nat /\ c * Cardinality(gr) <= pending /\ c * Cardinality(gr) \in Nat
    BY <1>3, <1>6, ShareFits
  <1>8. \A i \in S : /\ f[i] \in Nat /\ f[i] <= gs[i].req
                     /\ more[i] \in Nat /\ f[i] = first[i] + more[i]
    BY <1>1, <1>2, <1>4, <1>7 DEF ear_min
  <1>9. Total(f) = Total(first) + Total(more)
    BY <1>1, <1>2, <1>4, <1>8, <1>5, SumPlus, TotalIsSum
  <1>10. Total(f) \in Nat /\ Total(more) \in Nat /\ Total(first) \in Nat
    BY <1>1, <1>2, <1>4, <1>8, <1>5, SumNat, TotalIsSum
  <1>11. Total(more) <= pending
    <2>1. CASE gr = {}
      <3>1. \A i \in S : more[i] = 0
        BY <1>2, <2>1
      <3> QED BY <1>1, <1>2, <3>1, SumZero, TotalIsSum
    <2>2. CASE gr # {}
      <3>1. \A i \in S : more[i] \in Int /\ more[i] <= IF i \in gr THEN c ELSE 0
        BY <1>1, <1>2, <1>7, <1>8, <2>2 DEF ear_min
      <3>2. Total(more) <= c * Cardinality(gr)
        BY <1>1, <1>2, <1>3, <1>7, <2>2, <3>1, SumBound, TotalIsSum
      <3> QED BY <1>7, <1>10, <2>2, <3>2
    <2> QED BY <2>1, <2>2
  <1> QED BY <1>2, <1>8, <1>9, <1>5, <1>10, <1>11

\* The total of the first entries of a list.
LEMMA PrefixTotal ==
  ASSUME NEW k \in Nat, NEW w \in [1 .. k -> Int], NEW i \in 1 .. k
  PROVE  Total(SubSeq(w, 1, i - 1)) = SumFunctionOnSet(w, 1 .. i - 1)
  <1> DEFINE s == SubSeq(w, 1, i - 1)
  <1>1. s = [j \in 1 .. i - 1 |-> w[j]]
    <2>1. w \in Seq(Int) /\ Len(w) = k
      OBVIOUS
    <2> QED BY <2>1
  <1>2. DOMAIN s = 1 .. i - 1 /\ \A j \in 1 .. i - 1 : s[j] \in Int /\ s[j] = w[j]
    BY <1>1
  <1>3. IsFiniteSet(1 .. i - 1)
    BY FS_Interval, 1 \in Int, i - 1 \in Int
  <1>4. Total(s) = SumFunctionOnSet(s, 1 .. i - 1)
    BY <1>2, TotalIsSum, Zenon
  <1> HIDE DEF s
  <1>5. Total(s) = SumFunctionOnSet(w, 1 .. i - 1)
    BY <1>2, <1>3, <1>4, SumEqual
  <1> QED BY <1>5 DEF s

\* One entry: what it takes of p when b were taken before.
LEMMA TakeStep ==
  ASSUME NEW v \in Nat, NEW b \in Nat, NEW p \in Nat, NEW t, t = ear_min(v, ear_max(p - b, 0))
  PROVE  t \in Nat /\ t <= v /\ t + ear_min(p, b) = ear_min(p, v + b)
  BY DEF ear_min, ear_max

\* One index more.
LEMMA SumUpTo ==
  ASSUME NEW n \in Nat \ {0}, NEW f, \A i \in 1 .. n : f[i] \in Int
  PROVE  SumFunctionOnSet(f, 1 .. n) = f[n] + SumFunctionOnSet(f, 1 .. n - 1)
  <1>1. 1 .. n = (1 .. n - 1) \cup {n} /\ n \notin 1 .. n - 1
    OBVIOUS
  <1>2. IsFiniteSet(1 .. n - 1)
    BY FS_Interval, 1 \in Int, n - 1 \in Int
  <1>3. SumFunctionOnSet(f, (1 .. n - 1) \cup {n}) = f[n] + SumFunctionOnSet(f, 1 .. n - 1)
    BY <1>1, <1>2, SumInsert, Zenon
  <1> QED BY <1>1, <1>3, Zenon

\* Each entry in turn takes what it can of what is left of p: together they take p,
\* or all they can.
LEMMA InOrderTotal ==
  ASSUME NEW k \in Nat, NEW w \in [1 .. k -> Nat], NEW p \in Nat, NEW t,
         \A i \in 1 .. k :
             t[i] = ear_min(w[i], ear_max(p - Total(SubSeq(w, 1, i - 1)), 0))
  PROVE  /\ \A i \in 1 .. k : t[i] \in Nat /\ t[i] <= w[i]
         /\ SumFunctionOnSet(t, 1 .. k) = ear_min(p, SumFunctionOnSet(w, 1 .. k))
  <1> DEFINE W(n) == SumFunctionOnSet(w, 1 .. n)
             T(n) == SumFunctionOnSet(t, 1 .. n)
             Bad == {n \in 0 .. k : T(n) # ear_min(p, W(n))}
  <1>1. \A n \in 0 .. k : IsFiniteSet(1 .. n) /\ 1 .. n \subseteq 1 .. k
    BY FS_Interval, 1 \in Int
  <1>2. \A n \in 0 .. k : W(n) \in Nat
    BY <1>1, SumNat
  <1>3. \A i \in 1 .. k : t[i] = ear_min(w[i], ear_max(p - W(i - 1), 0))
    <2>1. w \in [1 .. k -> Int]
      OBVIOUS
    <2> QED BY <2>1, PrefixTotal, Zenon
  <1>4. \A i \in 1 .. k : t[i] \in Nat /\ t[i] <= w[i]
    <2> SUFFICES ASSUME NEW i \in 1 .. k PROVE t[i] \in Nat /\ t[i] <= w[i]
      OBVIOUS
    <2> DEFINE v == w[i]
               b == W(i - 1)
               u == t[i]
    <2>1. v \in Nat /\ b \in Nat /\ u = ear_min(v, ear_max(p - b, 0))
      BY <1>2, <1>3
    <2>2. u \in Nat /\ u <= v
      <3> HIDE DEF v, b, u
      <3> QED BY <2>1, TakeStep, Zenon
    <2> QED BY <2>2
  <1>5. Bad = {}
    <2> SUFFICES ASSUME Bad # {} PROVE FALSE
      OBVIOUS
    <2>1. PICK n \in Bad : \A m \in Bad : n <= m
      BY LeastNat, Bad \subseteq Nat, Zenon
    <2>2. n # 0
      <3>1. 1 .. 0 = {}
        OBVIOUS
      <3> QED BY <2>1, <3>1, SumEmpty DEF ear_min
    <2>3. n \in 1 .. k /\ n - 1 \in 0 .. k
      BY <2>1, <2>2
    <2>4. T(n - 1) = ear_min(p, W(n - 1))
      BY <2>1, <2>3
    <2>5. \A i \in 1 .. n : w[i] \in Int /\ t[i] \in Int
      BY <1>4, <2>3
    <2>6. W(n) = w[n] + W(n - 1) /\ T(n) = t[n] + T(n - 1)
      BY <2>3, <2>5, n \in Nat \ {0}, SumUpTo, Zenon
    <2>7. T(n) # ear_min(p, W(n))
      BY <2>1
    <2> DEFINE v == w[n]
               b == W(n - 1)
               u == t[n]
    <2>8. v \in Nat /\ b \in Nat /\ u = ear_min(v, ear_max(p - b, 0))
      BY <1>2, <1>3, <2>3
    <2>9. u + ear_min(p, b) # ear_min(p, v + b)
      BY <2>4, <2>6, <2>7
    <2> HIDE DEF v, b, u
    <2> QED BY <2>8, <2>9, TakeStep
  <1> QED BY <1>4, <1>5, k \in 0 .. k

\* Round 1 takes no more than what is missing, and from no node more than it has.
LEMMA Round1Takes ==
  ASSUME NEW gs, GreedyList(gs), aggregate_data(gs).num_extra # 0, NEW missing \in Nat
  PROVE  LET f == Round1(gs, missing)
         IN  /\ DOMAIN f = DOMAIN gs
             /\ \A i \in DOMAIN gs : f[i] \in Int /\ f[i] <= 0 /\ gs[i].extra + f[i] \in Nat
             /\ Total(f) \in Int /\ missing + Total(f) \in Nat
  <1> DEFINE S == DOMAIN gs
             ex == {i \in S : gs[i].extra > 0}
             c == missing \div aggregate_data(gs).num_extra
             f == Round1(gs, missing)
             r == [i \in S |-> ear_min(c, gs[i].extra)]
             z == [i \in S |-> 0]
  <1>1. IsFiniteSet(S) /\ \A i \in S : gs[i].req \in Nat /\ gs[i].extra \in Nat
    BY ListFinite DEF GreedyList
  <1>2. /\ DOMAIN f = S /\ DOMAIN r = S /\ DOMAIN z = S
        /\ \A i \in S : f[i] = 0 - r[i] /\ r[i] = ear_min(c, gs[i].extra) /\ z[i] = 0
    BY DEF Round1
  <1>3. /\ c = missing \div Cardinality(ex) /\ ex \in SUBSET S /\ Cardinality(ex) # 0
        /\ \A i \in S : i \in ex <=> gs[i].extra > 0
    BY DEF aggregate_data
  <1>4. f = Round1(gs, missing) /\ S = DOMAIN gs
    OBVIOUS
  <1> HIDE DEF f, r, z, ex, c, S
  <1>5. c \in Nat /\ c * Cardinality(ex) <= missing /\ c * Cardinality(ex) \in Nat
    BY <1>1, <1>3, CountPositive, ShareFits
  <1>6. \A i \in S : /\ r[i] \in Nat /\ f[i] \in Int /\ f[i] <= 0 /\ gs[i].extra + f[i] \in Nat
                     /\ r[i] <= IF i \in ex THEN c ELSE 0
    <2> SUFFICES ASSUME NEW i \in S
                 PROVE  /\ r[i] \in Nat /\ f[i] \in Int /\ f[i] <= 0
                        /\ gs[i].extra + f[i] \in Nat
                        /\ r[i] <= IF i \in ex THEN c ELSE 0
      OBVIOUS
    <2> DEFINE e == gs[i].extra
    <2>1. e \in Nat /\ (i \in ex <=> e > 0) /\ r[i] = ear_min(c, e) /\ f[i] = 0 - r[i]
      BY <1>1, <1>2, <1>3
    <2>2. r[i] \in Nat /\ r[i] <= e /\ r[i] <= c
      <3> HIDE DEF e
      <3> QED BY <1>5, <2>1 DEF ear_min
    <2> QED BY <2>1, <2>2
  <1>7. Total(r) <= c * Cardinality(ex)
    BY <1>1, <1>2, <1>3, <1>5, <1>6, SumBound, TotalIsSum
  <1>8. Total(r) \in Nat /\ Total(f) \in Int /\ Total(z) = 0
    BY <1>1, <1>2, <1>6, SumNat, SumType, SumZero, TotalIsSum
  <1>9. Total(z) = Total(f) + Total(r)
    BY <1>1, <1>2, <1>6, SumPlus, TotalIsSum
  <1> QED BY <1>2, <1>5, <1>6, <1>7, <1>8, <1>9, <1>4

\* The two rounds of reduce_allocation take what is missing, or all there is.
LEMMA ReductionTakes ==
  ASSUME NEW gs, GreedyList(gs), aggregate_data(gs).num_extra # 0, NEW missing \in Nat, NEW opts
  PROVE  LET f == reduce_allocation(gs, opts, missing)
         IN  /\ DOMAIN f = DOMAIN gs
             /\ \A i \in DOMAIN gs : f[i] \in Int /\ f[i] <= 0 /\ gs[i].extra + f[i] \in Nat
             /\ Total(f) \in Int
             /\ 0 - Total(f) = ear_min(missing, Total(ExtraPower(gs)))
  <1> DEFINE S == DOMAIN gs
             first == Round1(gs, missing)
             p == missing + Total(first)
             f == reduce_allocation(gs, opts, missing)
             x == ExtraPower(gs)
             left == [i \in S |-> gs[i].extra + first[i]]
             before(i) == Total(SubSeq(left, 1, i - 1))
             t == [i \in S |-> ear_min(left[i], ear_max(p - before(i), 0))]
  <1>1. IsFiniteSet(S) /\ \A i \in S : gs[i].req \in Nat /\ gs[i].extra \in Nat
    BY ListFinite DEF GreedyList
  <1>2. PICK k \in Nat : S = 1 .. k
    BY DEF GreedyList
  <1>3. /\ DOMAIN first = S
        /\ \A i \in S : first[i] \in Int /\ first[i] <= 0 /\ gs[i].extra + first[i] \in Nat
        /\ Total(first) \in Int /\ p \in Nat
    BY Round1Takes
  <1>4. DOMAIN left = S /\ \A i \in S : left[i] = gs[i].extra + first[i] /\ left[i] \in Nat
    BY <1>3
  <1>5. f = [i \in S |-> IF before(i) >= p THEN first[i]
                         ELSE first[i] - ear_min(left[i], p - before(i))]
    BY DEF reduce_allocation, Round2
  <1>6. left \in [1 .. k -> Nat]
    BY <1>2, <1>4
  <1>7. \A i \in S : before(i) \in Int
    <2> SUFFICES ASSUME NEW i \in S PROVE before(i) \in Int
      OBVIOUS
    <2>1. left \in [1 .. k -> Int] /\ i \in 1 .. k
      BY <1>2, <1>6
    <2>2. before(i) = SumFunctionOnSet(left, 1 .. i - 1)
      BY <2>1, PrefixTotal, Zenon
    <2>3. IsFiniteSet(1 .. i - 1) /\ \A j \in 1 .. i - 1 : left[j] \in Int
      <3> HIDE DEF left
      <3>1. IsFiniteSet(1 .. i - 1)
        BY <2>1, FS_Interval, 1 \in Int, i - 1 \in Int
      <3> QED BY <2>1, <3>1
    <2> QED BY <2>2, <2>3, SumType, Zenon
  <1>8. DOMAIN t = S /\ \A i \in S : t[i] = ear_min(left[i], ear_max(p - before(i), 0))
    OBVIOUS
  <1>9. /\ \A i \in S : t[i] \in Nat /\ t[i] <= left[i]
        /\ Total(t) = ear_min(p, Total(left))
    <2>1. \A i \in 1 .. k :
              t[i] = ear_min(left[i], ear_max(p - Total(SubSeq(left, 1, i - 1)), 0))
      BY <1>2, <1>8
    <2>2. p \in Nat
      BY <1>3
    <2> HIDE DEF t, left, p, first, S
    <2>3. /\ \A i \in 1 .. k : t[i] \in Nat /\ t[i] <= left[i]
          /\ SumFunctionOnSet(t, 1 .. k) = ear_min(p, SumFunctionOnSet(left, 1 .. k))
      BY <1>6, <2>1, <2>2, InOrderTotal, Zenon
    <2>4. Total(t) = SumFunctionOnSet(t, 1 .. k) /\ Total(left) = SumFunctionOnSet(left, 1 .. k)
      BY <1>2, <1>4, <1>8, TotalIsSum
    <2> QED BY <1>2, <2>3, <2>4
  <1>10. DOMAIN f = S /\ \A i \in S : f[i] = first[i] - t[i]
    <2>1. DOMAIN f = S
      BY <1>5
    <2> SUFFICES ASSUME NEW i \in S PROVE f[i] = first[i] - t[i]
      BY <2>1
    <2> DEFINE v == left[i]
               b == before(i)
    <2>2. v \in Nat /\ b \in Int /\ t[i] = ear_min(v, ear_max(p - b, 0))
      BY <1>4, <1>7, <1>8
    <2>3. f[i] = IF b >= p THEN first[i] ELSE first[i] - ear_min(v, p - b)
      BY <1>5
    <2>4. first[i] \in Int /\ p \in Nat
      BY <1>3
    <2> HIDE DEF v, b, p, first, f, t
    <2> QED BY <2>2, <2>3, <2>4 DEF ear_min, ear_max
  <1>11. DOMAIN x = S /\ \A i \in S : x[i] = gs[i].extra
    BY DEF ExtraPower
  <1>12. /\ f = reduce_allocation(gs, opts, missing) /\ S = DOMAIN gs /\ x = ExtraPower(gs)
         /\ p = missing + Total(first)
    OBVIOUS
  <1> HIDE DEF f, first, p, x, left, t, S
  <1>13. \A i \in S : f[i] \in Int /\ f[i] <= 0 /\ gs[i].extra + f[i] \in Nat
    <2> SUFFICES ASSUME NEW i \in S
                 PROVE  f[i] \in Int /\ f[i] <= 0 /\ gs[i].extra + f[i] \in Nat
      OBVIOUS
    <2>1. /\ gs[i].extra \in Nat /\ first[i] \in Int /\ first[i] <= 0
          /\ left[i] = gs[i].extra + first[i] /\ t[i] \in Nat /\ t[i] <= left[i]
          /\ f[i] = first[i] - t[i]
      BY <1>1, <1>3, <1>4, <1>9, <1>10
    <2> QED BY <2>1
  <1>14. /\ Total(left) = Total(x) + Total(first) /\ Total(first) = Total(f) + Total(t)
         /\ Total(x) \in Int /\ Total(left) \in Int /\ Total(f) \in Int
    <2>1. Total(left) = Total(x) + Total(first)
      BY <1>1, <1>3, <1>4, <1>11, SumPlus, TotalIsSum
    <2>2. \A i \in S : f[i] \in Int /\ t[i] \in Int /\ first[i] = f[i] + t[i]
      BY <1>3, <1>9, <1>10, <1>13
    <2>3. Total(first) = Total(f) + Total(t)
      BY <1>1, <1>3, <1>8, <1>10, <2>2, SumPlus, TotalIsSum
    <2>4. Total(x) \in Int /\ Total(left) \in Int /\ Total(f) \in Int
      BY <1>1, <1>4, <1>10, <1>11, <1>13, SumType, TotalIsSum
    <2> QED BY <2>1, <2>3, <2>4
  <1>15. 0 - Total(f) = ear_min(missing, Total(x))
    BY <1>3, <1>9, <1>14, <1>12 DEF ear_min
  <1> QED BY <1>10, <1>13, <1>14, <1>12, <1>15

\* What a period decides, and what it decides on.
Decision(gs) ==
    [ret : BOOLEAN, opts : [DOMAIN gs -> Int], total_free : Uint, must_send : BOOLEAN,
     perc : Nat, greedy_allocated : Uint]
Status(s) == {s.total, s.requested, s.released} \subseteq Uint /\ GreedyList(s.greedy)

\* Nodes that hold extra power are given more only when each of the others was served.
NewFirst(gs, opts) ==
    \A i, j \in DOMAIN gs : opts[i] > 0 /\ gs[i].extra > 0 /\ gs[j].req > 0 /\ gs[j].extra = 0
                                => opts[j] > 0

\* allocate_free_power_to_greedy_nodes shares what is free among those that ask.
LEMMA AllocationFits ==
  ASSUME NEW gs, GreedyList(gs), NEW d \in Decision(gs), d.opts = NoOptions(gs)
  PROVE  LET e == allocate_free_power_to_greedy_nodes(gs, d)
         IN  /\ e \in Decision(gs) /\ e.ret = d.ret
             /\ \A i \in DOMAIN gs : e.opts[i] \in 0 .. gs[i].req
             /\ Total(e.opts) \in Nat
             /\ Total(e.opts) <= d.total_free
             /\ e.total_free = d.total_free - Total(e.opts)
             /\ NewFirst(gs, e.opts)
  <1> DEFINE S == DOMAIN gs
             free == d.total_free
             first == Stage1(gs, free)
             pending == (free - Total(first)) % UintSize
             opts == Stage2(gs, first, pending)
             e == allocate_free_power_to_greedy_nodes(gs, d)
  <1>1. IsFiniteSet(S) /\ \A i \in S : gs[i].req \in Nat /\ gs[i].extra \in Nat
    BY ListFinite DEF GreedyList
  <1>2. free \in Uint /\ free \in Nat /\ free < UintSize
    BY UintSizeAssumption DEF Decision, Uint
  <1>3. CASE e = d
    <2>1. DOMAIN d.opts = S /\ \A i \in S : d.opts[i] = 0
      BY DEF NoOptions
    <2>2. Total(d.opts) = 0
      BY <1>1, <2>1, SumZero, TotalIsSum
    <2> QED BY <1>1, <1>2, <1>3, <2>1, <2>2 DEF NewFirst
  <1>4. CASE e # d
    <2>1. e = [d EXCEPT !.must_send = TRUE, !.opts = opts,
                        !.total_free = (free - Total(opts)) % UintSize,
                        !.greedy_allocated = Total(opts)]
      BY <1>4 DEF allocate_free_power_to_greedy_nodes
    <2>2. /\ DOMAIN first = S
          /\ \A i \in S : first[i] \in Nat /\ first[i] <= gs[i].req /\ (first[i] > 0 => gs[i].extra = 0)
          /\ Total(first) \in Nat /\ Total(first) <= free
      BY <1>2, Stage1Fits
    <2>3. pending = free - Total(first) /\ pending \in Nat
      BY <1>2, <2>2, UintSizeAssumption
    <2>4. /\ DOMAIN opts = S
          /\ \A i \in S : opts[i] \in Nat /\ opts[i] <= gs[i].req
          /\ Total(opts) \in Nat /\ Total(opts) <= Total(first) + pending
      BY <2>2, <2>3, Stage2Fits
    <2>5. opts \in [S -> Int]
      <3>1. opts = [i \in S |-> opts[i]]
        BY DEF Stage2
      <3> QED BY <2>4, <3>1
    <2>6. NewFirst(gs, opts)
      <3> SUFFICES ASSUME NEW i \in S, NEW j \in S, opts[i] > 0, gs[i].extra > 0,
                          gs[j].req > 0, gs[j].extra = 0
                   PROVE  opts[j] > 0
        BY DEF NewFirst
      <3> DEFINE more == pending \div aggregate_data(gs).num_greedy
      <3>1. \A n \in S : opts[n] = IF pending > 0 /\ gs[n].req > 0 /\ first[n] = 0
                                   THEN ear_min(gs[n].req, more) ELSE first[n]
        BY DEF Stage2
      <3>2. first[i] = 0
        BY <1>1, <2>2
      <3>3. opts[i] = ear_min(gs[i].req, more) /\ pending > 0
        BY <3>1, <3>2
      <3>4. more \in Nat
        <4>1. aggregate_data(gs).num_greedy \in Nat \ {0}
          BY AggregateFacts
        <4> QED BY <2>3, <4>1, ShareFits
      <3>5. more > 0
        <4> DEFINE q == gs[i].req
                   o == opts[i]
        <4>1. q \in Nat /\ o > 0 /\ o = ear_min(q, more)
          BY <1>1, <3>3
        <4> HIDE DEF q, o, more
        <4> QED BY <3>4, <4>1 DEF ear_min
      <3>6. CASE first[j] = 0
        <4>1. opts[j] = ear_min(gs[j].req, more) /\ gs[j].req \in Nat
          BY <1>1, <3>1, <3>3, <3>6
        <4> HIDE DEF more
        <4> QED BY <3>4, <3>5, <4>1 DEF ear_min
      <3>7. CASE first[j] # 0
        BY <2>2, <3>1, <3>7
      <3> QED BY <3>6, <3>7
    <2>7. Total(opts) <= free
      BY <1>2, <2>2, <2>3, <2>4
    <2>8. e = allocate_free_power_to_greedy_nodes(gs, d) /\ S = DOMAIN gs /\ free = d.total_free
      OBVIOUS
    <2> HIDE DEF opts, first, pending, e, S, free
    <2>9. (free - Total(opts)) % UintSize = free - Total(opts) /\ free - Total(opts) \in Uint
          /\ Total(opts) \in Uint
      BY <1>2, <2>4, <2>7, UintSizeAssumption DEF Uint
    <2>10. e \in Decision(gs) /\ e.opts = opts /\ e.total_free = free - Total(opts) /\ e.ret = d.ret
      BY <2>1, <2>5, <2>8, <2>9, Zenon DEF Decision
    <2>11. \A i \in S : opts[i] \in 0 .. gs[i].req
      BY <1>1, <2>4
    <2> QED BY <2>4, <2>6, <2>7, <2>8, <2>10, <2>11
  <1> QED BY <1>3, <1>4

\* Options of zero grant nothing and take nothing.
LEMMA NoOptionsFacts ==
  ASSUME NEW gs, GreedyList(gs)
  PROVE  LET o == NoOptions(gs)
         IN  /\ o \in [DOMAIN gs -> Int] /\ Total(o) = 0 /\ \A i \in DOMAIN gs : o[i] = 0
             /\ NewFirst(gs, o)
  <1> DEFINE o == NoOptions(gs)
  <1>1. o \in [DOMAIN gs -> Int] /\ DOMAIN o = DOMAIN gs /\ \A i \in DOMAIN gs : o[i] = 0
    BY DEF NoOptions
  <1>2. IsFiniteSet(DOMAIN gs)
    BY ListFinite
  <1>3. Total(o) = 0
    BY <1>1, <1>2, SumZero, TotalIsSum
  <1> QED BY <1>1, <1>3 DEF NewFirst

\* The percentage is one of two.
LEMMA PercentTyped == ASSUME NEW t, NEW c PROVE cluster_perc_power(t, c) \in Nat
  BY DEF cluster_perc_power, MAX_PERC_POWER

\* The sum of two uints as the code has it.
LEMMA UintSum ==
  ASSUME NEW a \in Uint, NEW b \in Uint
  PROVE  /\ (a + b) % UintSize \in Uint
         /\ a + b < UintSize => (a + b) % UintSize = a + b
         /\ b = 0 => (a + b) % UintSize = a
  BY UintSizeAssumption DEF Uint

\* The difference of two uints that does not wrap.
LEMMA UintDiff ==
  ASSUME NEW a \in Uint, NEW b \in Uint, b <= a
  PROVE  (a - b) % UintSize = a - b /\ a - b \in Uint
  BY UintSizeAssumption DEF Uint

\* What powercap_reallocation starts from: the power that is free.
LEMMA FreePower ==
  ASSUME NEW t \in Uint, NEW q \in Uint, NEW cap \in Uint
  PROVE  LET need == (t + q) % UintSize
             free == IF q > 0 /\ need <= cap THEN cap - need ELSE (cap - t) % UintSize
         IN  need \in Uint /\ free \in Uint /\ (need <= cap => free = cap - need)
  <1> DEFINE need == (t + q) % UintSize
             free == IF q > 0 /\ need <= cap THEN cap - need ELSE (cap - t) % UintSize
  <1>1. need \in Uint /\ (q = 0 => need = t)
    BY UintSum
  <1>2. need <= cap => cap - need \in Uint
    BY <1>1, UintDiff
  <1>3. (cap - t) % UintSize \in Uint
    BY ModIsUint DEF Uint
  <1>4. need <= cap /\ q = 0 => (cap - t) % UintSize = cap - need
    BY <1>1, UintDiff
  <1>5. q > 0 \/ q = 0
    BY DEF Uint
  <1> HIDE DEF need
  <1>6. free \in Uint /\ (need <= cap => free = cap - need)
    BY <1>2, <1>3, <1>4, <1>5
  <1> QED BY <1>1, <1>6 DEF need

\* The decision e grants only what is free of cap beyond need, or takes back what is
\* missing; in both cases the nodes that hold no extra power come first.
Sound(gs, cap, need, e) ==
    /\ need <= cap => /\ need + Total(e.opts) <= cap
                      /\ e.total_free = cap - need - Total(e.opts)
                      /\ \A i \in DOMAIN gs : e.opts[i] \in 0 .. gs[i].req
    /\ need > cap => /\ 0 - Total(e.opts) = ear_min(need - cap, Total(ExtraPower(gs)))
                     /\ \A i \in DOMAIN gs : 0 - e.opts[i] \in 0 .. gs[i].extra

\* What a call of powercap_reallocation decides, for all answers of the nodes.
LEMMA ReallocationResult ==
  ASSUME NEW st, Status(st), NEW cap \in Uint, NEW d \in Decision(st.greedy),
         d.opts = NoOptions(st.greedy)
  PROVE  LET e == powercap_reallocation(st, cap, d)
         IN  /\ e \in Decision(st.greedy)
             /\ e.ret => Sound(st.greedy, cap, (st.total + st.requested) % UintSize, e)
             /\ ~e.ret => e.opts = d.opts /\ st.released # 0
             /\ NewFirst(st.greedy, e.opts)
  <1> DEFINE gs == st.greedy
             a == aggregate_data(gs)
             wanted == a.total_req_greedy
             need == (st.total + st.requested) % UintSize
             free == IF st.requested > 0 /\ need <= cap THEN cap - need
                     ELSE (cap - st.total) % UintSize
             e == [d EXCEPT !.ret = TRUE, !.perc = cluster_perc_power(st.total, cap),
                            !.must_send = @ \/ st.requested > 0,
                            !.total_free = free]
             r == powercap_reallocation(st, cap, d)
             Goal == /\ r \in Decision(gs)
                     /\ r.ret => Sound(gs, cap, need, r)
                     /\ ~r.ret => r.opts = d.opts /\ st.released # 0
                     /\ NewFirst(gs, r.opts)
  <1>1. GreedyList(gs) /\ \A i \in DOMAIN gs : gs[i].req \in Nat /\ gs[i].extra \in Nat
    BY DEF Status, GreedyList
  <1>2. st.total \in Uint /\ st.requested \in Uint /\ st.released \in Uint
    BY DEF Status
  <1>3. need \in Uint /\ free \in Uint /\ (need <= cap => free = cap - need)
    BY <1>2, FreePower
  <1>4. wanted \in Nat /\ wanted = Total(Requests(gs)) /\ a.num_extra \in Nat
    BY <1>1, AggregateFacts
  <1>5. cap \in Nat /\ need \in Nat /\ free \in Nat
    BY <1>3, UintFacts, Zenon
  <1>6. \/ need <= cap /\ wanted = 0 /\ r = e
        \/ /\ need <= cap /\ wanted <= free
           /\ r = [e EXCEPT !.total_free = @ - wanted, !.opts = Requests(gs), !.must_send = TRUE]
        \/ need <= cap /\ r = allocate_free_power_to_greedy_nodes(gs, e)
        \/ /\ need > cap
           /\ r = [e EXCEPT !.opts = reduce_allocation(gs, e.opts, need - cap),
                            !.total_free = 0, !.must_send = TRUE]
        \/ st.released # 0 /\ r = [e EXCEPT !.ret = FALSE]
    <2> DEFINE ef == e.total_free
    <2>1. ef = free
      BY DEF Decision
    <2>2. r = CASE need <= cap /\ wanted = 0 -> e
                [] need <= cap /\ wanted > 0 /\ wanted <= ef ->
                       [e EXCEPT !.total_free = @ - wanted, !.opts = Requests(gs), !.must_send = TRUE]
                [] need <= cap /\ wanted > ef /\ st.released = 0 ->
                       allocate_free_power_to_greedy_nodes(gs, e)
                [] need > cap /\ st.released = 0 ->
                       [e EXCEPT !.opts = reduce_allocation(gs, e.opts, need - cap),
                                 !.total_free = 0, !.must_send = TRUE]
                [] OTHER -> [e EXCEPT !.ret = FALSE]
      BY DEF powercap_reallocation
    <2> DEFINE r2 == [e EXCEPT !.total_free = @ - wanted, !.opts = Requests(gs), !.must_send = TRUE]
               r3 == allocate_free_power_to_greedy_nodes(gs, e)
               r4 == [e EXCEPT !.opts = reduce_allocation(gs, e.opts, need - cap),
                               !.total_free = 0, !.must_send = TRUE]
               r5 == [e EXCEPT !.ret = FALSE]
               rel == st.released
    <2>3. r = CASE need <= cap /\ wanted = 0 -> e
                [] need <= cap /\ wanted > 0 /\ wanted <= ef -> r2
                [] need <= cap /\ wanted > ef /\ rel = 0 -> r3
                [] need > cap /\ rel = 0 -> r4
                [] OTHER -> r5
      BY <2>2
    <2>4. \/ need <= cap /\ wanted = 0 /\ r = e
          \/ need <= cap /\ wanted <= ef /\ r = r2
          \/ need <= cap /\ r = r3
          \/ need > cap /\ r = r4
          \/ rel # 0 /\ r = r5
      <3> HIDE DEF r2, r3, r4, r5, rel, ef, e, r, need, wanted, free
      <3> QED BY <1>4, <1>5, <2>1, <2>3
    <2> QED BY <2>1, <2>4
  <1>7. e \in Decision(gs) /\ e.opts = NoOptions(gs) /\ e.total_free = free /\ e.ret
    BY <1>3, PercentTyped, Zenon DEF Decision
  <1>8. /\ NoOptions(gs) \in [DOMAIN gs -> Int] /\ Total(NoOptions(gs)) = 0
        /\ \A i \in DOMAIN gs : (NoOptions(gs))[i] = 0
        /\ NewFirst(gs, NoOptions(gs))
    BY <1>1, NoOptionsFacts
  <1> HIDE DEF e, r, need, free, wanted, a
  <1>9. ASSUME need <= cap, wanted = 0, r = e
         PROVE  Goal
    <2>1. Sound(gs, cap, need, e)
      BY <1>1, <1>3, <1>5, <1>7, <1>8, <1>9 DEF Sound
    <2> QED BY <1>7, <1>8, <1>9, <2>1
  <1>10. ASSUME need <= cap, wanted <= free,
                r = [e EXCEPT !.total_free = @ - wanted, !.opts = Requests(gs), !.must_send = TRUE]
         PROVE  Goal
    <2> DEFINE o == Requests(gs)
    <2>1. o \in [DOMAIN gs -> Int] /\ \A i \in DOMAIN gs : o[i] = gs[i].req
      BY <1>1 DEF Requests
    <2>2. free - wanted \in Uint
      BY <1>3, <1>4, <1>5, <1>10, UintSizeAssumption DEF Uint
    <2> HIDE DEF o
    <2>3. r \in Decision(gs) /\ r.opts = o /\ r.total_free = free - wanted /\ r.ret
      BY <1>7, <1>10, <2>1, <2>2, Zenon DEF Decision, o
    <2>4. Total(o) = wanted
      BY <1>4 DEF o
    <2>5. Sound(gs, cap, need, r)
      BY <1>1, <1>3, <1>4, <1>5, <1>10, <2>1, <2>3, <2>4 DEF Sound
    <2>6. NewFirst(gs, o)
      BY <2>1 DEF NewFirst
    <2> QED BY <2>3, <2>5, <2>6
  <1>11. ASSUME need <= cap, r = allocate_free_power_to_greedy_nodes(gs, e)
         PROVE  Goal
    <2>1. /\ r \in Decision(gs) /\ r.ret = e.ret
          /\ \A i \in DOMAIN gs : r.opts[i] \in 0 .. gs[i].req
          /\ Total(r.opts) \in Nat
          /\ Total(r.opts) <= free
          /\ r.total_free = free - Total(r.opts)
          /\ NewFirst(gs, r.opts)
      BY <1>1, <1>7, <1>11, AllocationFits, Zenon
    <2>2. Sound(gs, cap, need, r)
      BY <1>3, <1>5, <1>11, <2>1 DEF Sound
    <2> QED BY <1>7, <2>1, <2>2
  <1>12. ASSUME need > cap,
                r = [e EXCEPT !.opts = reduce_allocation(gs, e.opts, need - cap),
                              !.total_free = 0, !.must_send = TRUE]
         PROVE  Goal
    <2> DEFINE x == ExtraPower(gs)
               o == reduce_allocation(gs, e.opts, need - cap)
    <2>1. need - cap \in Nat
      BY <1>5, <1>12
    <2>2. /\ o \in [DOMAIN gs -> Int]
          /\ 0 - Total(o) = ear_min(need - cap, Total(x))
          /\ \A i \in DOMAIN gs : o[i] <= 0 /\ 0 - o[i] \in 0 .. gs[i].extra
      <3>1. CASE aggregate_data(gs).num_extra = 0
        <4>1. o = NoOptions(gs)
          BY <1>7, <3>1 DEF reduce_allocation
        <4>2. \A i \in DOMAIN gs : gs[i].extra = 0
          BY <1>1, <3>1, AggregateFacts
        <4>3. Total(x) = 0
          <5>1. DOMAIN x = DOMAIN gs /\ \A i \in DOMAIN gs : x[i] = 0
            BY <4>2 DEF ExtraPower
          <5>2. IsFiniteSet(DOMAIN gs)
            BY <1>1, ListFinite
          <5> HIDE DEF x
          <5> QED BY <5>1, <5>2, SumZero, TotalIsSum
        <4>4. ear_min(need - cap, 0) = 0
          BY <2>1 DEF ear_min
        <4> HIDE DEF o, x
        <4>5. o \in [DOMAIN gs -> Int] /\ Total(o) = 0 /\ \A i \in DOMAIN gs : o[i] = 0
          BY <1>8, <4>1
        <4> QED BY <4>2, <4>3, <4>4, <4>5
      <3>2. CASE aggregate_data(gs).num_extra # 0
        <4>1. /\ DOMAIN o = DOMAIN gs
              /\ \A i \in DOMAIN gs : o[i] \in Int /\ o[i] <= 0 /\ gs[i].extra + o[i] \in Nat
              /\ 0 - Total(o) = ear_min(need - cap, Total(x))
          BY <1>1, <2>1, <3>2, ReductionTakes
        <4>2. o = [i \in DOMAIN gs |-> o[i]]
          BY <3>2 DEF reduce_allocation, Round2
        <4> HIDE DEF o, x
        <4>3. \A i \in DOMAIN gs : 0 - o[i] \in 0 .. gs[i].extra
          BY <1>1, <4>1
        <4> QED BY <4>1, <4>2, <4>3
      <3> QED BY <3>1, <3>2
    <2>3. r = [e EXCEPT !.opts = o, !.total_free = 0, !.must_send = TRUE] /\ x = ExtraPower(gs)
      BY <1>12
    <2> HIDE DEF o, x
    <2>4. r \in Decision(gs) /\ r.opts = o /\ r.ret
      BY <1>7, <2>2, <2>3, UintFacts, Zenon DEF Decision
    <2>5. Sound(gs, cap, need, r)
      BY <1>5, <1>12, <2>2, <2>3, <2>4 DEF Sound
    <2>6. NewFirst(gs, o)
      <3>1. \A i \in DOMAIN gs : ~(o[i] > 0)
        BY <2>2
      <3> QED BY <3>1 DEF NewFirst
    <2> QED BY <2>4, <2>5, <2>6
  <1>13. ASSUME st.released # 0, r = [e EXCEPT !.ret = FALSE]
         PROVE  Goal
    <2>1. r \in Decision(gs) /\ r.opts = NoOptions(gs) /\ ~r.ret
      BY <1>7, <1>13, Zenon DEF Decision
    <2> QED BY <1>8, <1>13, <2>1
  <1>14. Goal
    <2> HIDE DEF Goal
    <2> QED BY <1>6, <1>9, <1>10, <1>11, <1>12, <1>13
  <1> QED BY <1>14 DEF r, need
=============================================================================
