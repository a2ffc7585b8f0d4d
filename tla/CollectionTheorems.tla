------------------------- MODULE CollectionTheorems -------------------------
(***************************************************************************)
(* Facts about the sums and subsequences that the components' books are    *)
(* kept with.  An induction is an argument from the least counterexample:  *)
(* a set of numbers that holds one holds a least one.                      *)
(***************************************************************************)
EXTENDS Integers, Containers, FiniteSets, FiniteSetTheorems, SequenceTheorems, TLAPS

\* Every nonempty set of natural numbers has a least element.
LEMMA LeastNatural ==
  ASSUME NEW T \in SUBSET Nat, T # {}
  PROVE  \E n \in T : (\A m \in T : n <= m) /\ n - 1 \notin T
<1>1. PICK n \in T : \A m \in T : ~ (<<m, n>> \in OpToRel(<, Nat))
  BY NatLessThanWellFounded, WFMin
<1>2. ASSUME NEW m \in T PROVE n <= m
  <2>1. ASSUME m < n PROVE <<m, n>> \in OpToRel(<, Nat)
    BY <2>1 DEF OpToRel
  <2>2. ~ (m < n)
    BY <1>1, <2>1, Zenon
  <2> QED
    BY <2>2
<1>3. ASSUME n - 1 \in T PROVE FALSE
  BY <1>2, <1>3
<1> QED
  BY <1>2, <1>3

(***************************************************************************)
(* Sums.                                                                   *)
(***************************************************************************)
Pick(s) == CHOOSE x \in s : TRUE

\* g computes the sums of f over the sets of a family that is closed under
\* removal of the picked element.
Computes(g, f, F) ==
  g = [s \in F |-> IF s = {} THEN 0 ELSE f[Pick(s)] + g[s \ {Pick(s)}]]

UpTo(S, n) == {s \in SUBSET S : Cardinality(s) <= n}

\* Removing the picked element of a nonempty finite set makes it smaller.
LEMMA PickShrinks ==
  ASSUME NEW S, IsFiniteSet(S), NEW s \in SUBSET S, s # {}
  PROVE  /\ Pick(s) \in s /\ s \ {Pick(s)} \in SUBSET S
         /\ Cardinality(s) \in Nat
         /\ Cardinality(s \ {Pick(s)}) = Cardinality(s) - 1
<1>1. Pick(s) \in s
  BY DEF Pick
<1>2. IsFiniteSet(s)
  BY FS_Subset
<1> QED
  BY <1>1, <1>2, FS_RemoveElement, FS_CardinalityType

LEMMA RemoveShrinks ==
  ASSUME NEW S, IsFiniteSet(S), NEW x \in S
  PROVE  Cardinality(S \ {x}) = Cardinality(S) - 1 /\ Cardinality(S) - 1 \in Nat
<1>1. Cardinality(S \ {x}) = Cardinality(S) - 1
  BY FS_RemoveElement
<1>2. Cardinality(S \ {x}) \in Nat
  BY FS_RemoveElement, FS_CardinalityType
<1> QED
  BY <1>1, <1>2

\* The recursion that sums over the subsets of a finite set has a solution.
LEMMA SumsExist ==
  ASSUME NEW S, IsFiniteSet(S), NEW f
  PROVE  \E g : Computes(g, f, SUBSET S)
<1> DEFINE Bad == {n \in Nat : ~ \E g : Computes(g, f, UpTo(S, n))}
<1>1. Bad = {}
  <2>1. SUFFICES ASSUME Bad # {} PROVE FALSE
    OBVIOUS
  <2>2. PICK n \in Bad : n - 1 \notin Bad
    BY <2>1, LeastNatural
  <2>3. \A s \in UpTo(S, 0) : s = {}
    BY FS_Subset, FS_EmptySet, FS_CardinalityType DEF UpTo
  <2>4. n # 0
    <3>1. Computes([s \in UpTo(S, 0) |-> 0], f, UpTo(S, 0))
      BY <2>3 DEF Computes
    <3> QED
      BY <2>2, <3>1
  <2>5. n - 1 \in Nat /\ n - 1 \notin Bad
    BY <2>2, <2>4
  <2>6. PICK g : Computes(g, f, UpTo(S, n - 1))
    BY <2>5
  <2> DEFINE h == [s \in UpTo(S, n) |-> IF s \in UpTo(S, n - 1) THEN g[s]
                                        ELSE f[Pick(s)] + g[s \ {Pick(s)}]]
  <2>7. ASSUME NEW s \in UpTo(S, n), s # {}
        PROVE  s \ {Pick(s)} \in UpTo(S, n - 1) /\ s \ {Pick(s)} \in UpTo(S, n)
    BY <2>5, <2>7, PickShrinks DEF UpTo
  <2>8. ASSUME NEW s \in UpTo(S, n)
        PROVE  h[s] = IF s = {} THEN 0 ELSE f[Pick(s)] + h[s \ {Pick(s)}]
    <3>1. CASE s = {}
      <4>1. s \in UpTo(S, n - 1)
        BY <2>5, <3>1, FS_EmptySet DEF UpTo
      <4> QED
        BY <2>6, <3>1, <4>1 DEF Computes
    <3>2. CASE s # {}
      <4>1. h[s \ {Pick(s)}] = g[s \ {Pick(s)}]
        BY <2>7, <3>2
      <4>2. s \in UpTo(S, n - 1) => g[s] = f[Pick(s)] + g[s \ {Pick(s)}]
        BY <2>6, <3>2 DEF Computes
      <4> QED
        BY <3>2, <4>1, <4>2
    <3> QED
      BY <3>1, <3>2
  <2>9. Computes(h, f, UpTo(S, n))
    <3>1. h = [s \in UpTo(S, n) |-> h[s]]
      OBVIOUS
    <3> HIDE DEF h
    <3> QED
      BY <2>8, <3>1 DEF Computes
  <2> QED
    BY <2>2, <2>9
<1>2. Cardinality(S) \in Nat /\ UpTo(S, Cardinality(S)) = SUBSET S
  BY FS_Subset, FS_CardinalityType DEF UpTo
<1>3. Cardinality(S) \notin Bad
  BY <1>1
<1> QED
  BY <1>2, <1>3

\* SumFunctionOnSet is the value of that recursion at the whole set.
LEMMA SumIsComputed ==
  ASSUME NEW S, IsFiniteSet(S), NEW f
  PROVE  \E g : Computes(g, f, SUBSET S) /\ SumFunctionOnSet(f, S) = g[S]
<1> DEFINE Solves(g) == g = [s \in SUBSET S |-> IF s = {} THEN 0 ELSE
                               f[CHOOSE x \in s : TRUE] + g[s \ {CHOOSE x \in s : TRUE}]]
           iter == CHOOSE g : Solves(g)
<1>1. SumFunctionOnSet(f, S) = iter[S]
  BY DEF SumFunctionOnSet, FoldFunctionOnSet, MapThenFoldSet
<1>2. \A g : Solves(g) <=> Computes(g, f, SUBSET S)
  BY DEF Computes, Pick
<1>3. \E g : Solves(g)
  <2> HIDE DEF Solves
  <2>1. \E g : Computes(g, f, SUBSET S)
    BY SumsExist
  <2> QED
    BY <1>2, <2>1, Zenon
<1>4. Computes(iter, f, SUBSET S)
  <2> HIDE DEF Solves
  <2>1. Solves(iter)
    BY <1>3, Zenon
  <2> QED
    BY <1>2, <2>1, Zenon
<1> QED
  BY <1>1, <1>4

\* A solution over the subsets of a set gives the sums over all of them: it
\* agrees with the solutions over theirs.
LEMMA SumsUnique ==
  ASSUME NEW S, IsFiniteSet(S), NEW f, NEW g, Computes(g, f, SUBSET S)
  PROVE  \A T \in SUBSET S : SumFunctionOnSet(f, T) = g[T]
<1> SUFFICES ASSUME NEW T \in SUBSET S
             PROVE  SumFunctionOnSet(f, T) = g[T]
  OBVIOUS
<1>0. PICK h : Computes(h, f, SUBSET T) /\ SumFunctionOnSet(f, T) = h[T]
  BY FS_Subset, SumIsComputed
<1> DEFINE Bad == {n \in Nat : \E s \in SUBSET T : Cardinality(s) = n /\ g[s] # h[s]}
<1>1. SUFFICES ASSUME NEW t \in SUBSET T, g[t] # h[t] PROVE FALSE
  BY <1>0
<1>2. Cardinality(t) \in Bad
  BY <1>1, FS_Subset, FS_CardinalityType
<1>3. PICK n \in Bad : n - 1 \notin Bad
  BY <1>2, LeastNatural
<1>4. PICK s \in SUBSET T : Cardinality(s) = n /\ g[s] # h[s]
  BY <1>3
<1>5. s \in SUBSET S
  BY <1>4
<1>6. s # {}
  BY <1>0, <1>4, <1>5 DEF Computes
<1>7. /\ g[s] = f[Pick(s)] + g[s \ {Pick(s)}]
      /\ h[s] = f[Pick(s)] + h[s \ {Pick(s)}]
  BY <1>0, <1>4, <1>5, <1>6 DEF Computes
<1>8. Cardinality(s \ {Pick(s)}) = n - 1 /\ n - 1 \in Nat
  BY <1>3, <1>4, <1>5, <1>6, PickShrinks, FS_Subset, FS_EmptySet
<1>10. g[s \ {Pick(s)}] = h[s \ {Pick(s)}]
  BY <1>3, <1>8
<1> QED
  BY <1>4, <1>7, <1>10

\* The sum over a nonempty set is the picked element's value and the sum over
\* the rest.
LEMMA SumPicked ==
  ASSUME NEW S, IsFiniteSet(S), NEW f
  PROVE  SumFunctionOnSet(f, S) =
           IF S = {} THEN 0 ELSE f[Pick(S)] + SumFunctionOnSet(f, S \ {Pick(S)})
<1>1. PICK g : Computes(g, f, SUBSET S) /\ SumFunctionOnSet(f, S) = g[S]
  BY SumIsComputed
<1>2. g[S] = IF S = {} THEN 0 ELSE f[Pick(S)] + g[S \ {Pick(S)}]
  BY <1>1 DEF Computes
<1>3. SumFunctionOnSet(f, S \ {Pick(S)}) = g[S \ {Pick(S)}]
  BY <1>1, SumsUnique
<1> QED
  BY <1>1, <1>2, <1>3

\* A sum of integers is an integer, and any element may be taken first.
THEOREM SumRemove ==
  ASSUME NEW S, IsFiniteSet(S), NEW f, \A x \in S : f[x] \in Int
  PROVE  /\ SumFunctionOnSet(f, S) \in Int
         /\ \A x \in S : SumFunctionOnSet(f, S) = f[x] + SumFunctionOnSet(f, S \ {x})
<1> DEFINE Good(s) == /\ SumFunctionOnSet(f, s) \in Int
                      /\ \A x \in s : SumFunctionOnSet(f, s) = f[x] + SumFunctionOnSet(f, s \ {x})
           Bad == {n \in Nat : \E s \in SUBSET S : Cardinality(s) = n /\ ~ Good(s)}
<1>1. SUFFICES ASSUME ~ Good(S) PROVE FALSE
  OBVIOUS
<1>2. Cardinality(S) \in Bad
  BY <1>1, FS_CardinalityType
<1>3. PICK n \in Bad : \A m \in Bad : n <= m
  BY <1>2, LeastNatural
<1>4. PICK s \in SUBSET S : Cardinality(s) = n /\ ~ Good(s)
  BY <1>3
<1>5. IsFiniteSet(s)
  BY FS_Subset
<1>6. ASSUME NEW t \in SUBSET s, t # s
      PROVE  Good(t)
  <2>1. Cardinality(t) < n /\ Cardinality(t) \in Nat /\ t \in SUBSET S
    BY <1>4, <1>5, <1>6, FS_Subset, FS_CardinalityType
  <2>2. Cardinality(t) \notin Bad
    BY <1>3, <2>1
  <2> HIDE DEF Good
  <2> QED
    BY <2>1, <2>2
<1>7. s # {}
  <2>1. ASSUME s = {} PROVE Good(s)
    BY <2>1, <1>5, SumPicked
  <2> QED
    BY <1>4, <2>1
<1>8. PICK p \in s : p = Pick(s) /\ f[p] \in Int
  BY <1>7 DEF Pick
<1>9. /\ SumFunctionOnSet(f, s) = f[p] + SumFunctionOnSet(f, s \ {p})
      /\ SumFunctionOnSet(f, s \ {p}) \in Int
  <2>1. SumFunctionOnSet(f, s) = f[p] + SumFunctionOnSet(f, s \ {p})
    BY <1>5, <1>7, <1>8, SumPicked
  <2> QED
    BY <1>6, <1>8, <2>1
<1>10. ASSUME NEW x \in s, x # p
       PROVE  SumFunctionOnSet(f, s) = f[x] + SumFunctionOnSet(f, s \ {x})
  <2>1. PICK u, v, w : u = s \ {p} /\ v = s \ {x} /\ w = s \ {p, x}
    OBVIOUS
  <2>2. /\ u \in SUBSET s /\ u # s /\ x \in u /\ u \ {x} = w
        /\ v \in SUBSET s /\ v # s /\ p \in v /\ v \ {p} = w
        /\ w \in SUBSET s /\ w # s
    BY <1>8, <1>10, <2>1
  <2>3. Good(u) /\ Good(v) /\ Good(w)
    BY <1>6, <2>2
  <2>4. /\ SumFunctionOnSet(f, u) = f[x] + SumFunctionOnSet(f, w)
        /\ SumFunctionOnSet(f, v) = f[p] + SumFunctionOnSet(f, w)
        /\ SumFunctionOnSet(f, w) \in Int
    BY <2>2, <2>3
  <2>5. SumFunctionOnSet(f, s) = f[p] + SumFunctionOnSet(f, u)
    BY <1>9, <2>1
  <2>6. SumFunctionOnSet(f, s) = f[x] + SumFunctionOnSet(f, v)
    BY <1>8, <2>4, <2>5
  <2> QED
    BY <2>1, <2>6
<1>11. SumFunctionOnSet(f, s) \in Int
  BY <1>8, <1>9
<1>12. Good(s)
  BY <1>9, <1>10, <1>11
<1> QED
  BY <1>4, <1>12

\* The sum over nothing, and the sum when one element is added.
THEOREM SumAdd ==
  ASSUME NEW S, IsFiniteSet(S), NEW f, NEW x, x \notin S,
         f[x] \in Int, \A y \in S : f[y] \in Int
  PROVE  SumFunctionOnSet(f, S \cup {x}) = SumFunctionOnSet(f, S) + f[x]
<1>1. PICK T : T = S \cup {x} /\ IsFiniteSet(T) /\ T \ {x} = S
  <2>1. IsFiniteSet(S \cup {x})
    BY FS_AddElement
  <2>2. (S \cup {x}) \ {x} = S
    OBVIOUS
  <2> QED
    BY <2>1, <2>2
<1>2. \A y \in T : f[y] \in Int
  BY <1>1
<1>3. SumFunctionOnSet(f, S) \in Int
  BY SumRemove
<1>4. SumFunctionOnSet(f, T) = f[x] + SumFunctionOnSet(f, T \ {x})
  BY <1>1, <1>2, SumRemove
<1>5. SumFunctionOnSet(f, T) = f[x] + SumFunctionOnSet(f, S)
  BY <1>1, <1>4
<1>6. SumFunctionOnSet(f, S \cup {x}) = f[x] + SumFunctionOnSet(f, S)
  BY <1>1, <1>5
<1> QED
  BY <1>3, <1>6

THEOREM SumEmpty == \A f : SumFunctionOnSet(f, {}) = 0
<1> TAKE f
<1> QED
  BY FS_EmptySet, SumPicked

\* A sum of natural numbers is one.
THEOREM SumNat ==
  ASSUME NEW S, IsFiniteSet(S), NEW f, \A x \in S : f[x] \in Nat
  PROVE  SumFunctionOnSet(f, S) \in Nat
<1> DEFINE Bad == {n \in Nat : \E s \in SUBSET S : Cardinality(s) = n
                                                   /\ SumFunctionOnSet(f, s) \notin Nat}
<1>1. SUFFICES ASSUME SumFunctionOnSet(f, S) \notin Nat PROVE FALSE
  OBVIOUS
<1>2. Cardinality(S) \in Bad
  BY <1>1, FS_CardinalityType
<1>3. PICK n \in Bad : n - 1 \notin Bad
  BY <1>2, LeastNatural
<1>4. PICK s \in SUBSET S : Cardinality(s) = n /\ SumFunctionOnSet(f, s) \notin Nat
  BY <1>3
<1>5. IsFiniteSet(s)
  BY FS_Subset
<1>6. s # {}
  BY <1>4, SumEmpty
<1>7. PICK x \in s : f[x] \in Nat
  BY <1>6
<1>8. PICK t \in SUBSET S : t = s \ {x} /\ Cardinality(t) = n - 1 /\ n - 1 \in Nat
  <2>1. s \ {x} \in SUBSET S
    OBVIOUS
  <2> QED
    BY <1>4, <1>5, <2>1, RemoveShrinks
<1>10. SumFunctionOnSet(f, t) \in Nat
  BY <1>3, <1>8
<1>11. \A y \in s : f[y] \in Int
  OBVIOUS
<1>12. SumFunctionOnSet(f, s) = f[x] + SumFunctionOnSet(f, t)
  BY <1>5, <1>7, <1>8, <1>11, SumRemove
<1> QED
  BY <1>4, <1>7, <1>10, <1>12

\* A sum depends only on the values at the summed elements.
THEOREM SumSame ==
  ASSUME NEW S, IsFiniteSet(S), NEW f, NEW g,
         \A x \in S : f[x] \in Int /\ f[x] = g[x]
  PROVE  SumFunctionOnSet(f, S) = SumFunctionOnSet(g, S)
<1> DEFINE Bad == {n \in Nat : \E s \in SUBSET S :
                     Cardinality(s) = n /\ SumFunctionOnSet(f, s) # SumFunctionOnSet(g, s)}
<1>1. SUFFICES ASSUME SumFunctionOnSet(f, S) # SumFunctionOnSet(g, S) PROVE FALSE
  OBVIOUS
<1>2. Cardinality(S) \in Bad
  BY <1>1, FS_CardinalityType
<1>3. PICK n \in Bad : n - 1 \notin Bad
  BY <1>2, LeastNatural
<1>4. PICK s \in SUBSET S :
        Cardinality(s) = n /\ SumFunctionOnSet(f, s) # SumFunctionOnSet(g, s)
  BY <1>3
<1>5. IsFiniteSet(s)
  BY FS_Subset
<1>6. s # {}
  BY <1>4, SumEmpty
<1>7. PICK x \in s : f[x] = g[x]
  BY <1>6
<1>8. PICK t \in SUBSET S : t = s \ {x} /\ Cardinality(t) = n - 1 /\ n - 1 \in Nat
  <2>1. s \ {x} \in SUBSET S
    OBVIOUS
  <2> QED
    BY <1>4, <1>5, <2>1, RemoveShrinks
<1>10. SumFunctionOnSet(f, t) = SumFunctionOnSet(g, t)
  BY <1>3, <1>8
<1>11. (\A y \in s : f[y] \in Int) /\ (\A y \in s : g[y] \in Int)
  OBVIOUS
<1>12. SumFunctionOnSet(f, s) = f[x] + SumFunctionOnSet(f, t)
  BY <1>5, <1>7, <1>8, <1>11, SumRemove
<1>13. SumFunctionOnSet(g, s) = g[x] + SumFunctionOnSet(g, t)
  BY <1>5, <1>7, <1>8, <1>11, SumRemove
<1> QED
  BY <1>4, <1>7, <1>10, <1>12, <1>13

\* A sum splits over a subset and what is left of the set.
THEOREM SumSplit ==
  ASSUME NEW S, IsFiniteSet(S), NEW f, \A x \in S : f[x] \in Int, NEW T \in SUBSET S
  PROVE  SumFunctionOnSet(f, S) = SumFunctionOnSet(f, T) + SumFunctionOnSet(f, S \ T)
<1> DEFINE Splits(s) ==
      SumFunctionOnSet(f, S) = SumFunctionOnSet(f, s) + SumFunctionOnSet(f, S \ s)
           Bad == {n \in Nat : \E s \in SUBSET S : Cardinality(s) = n /\ ~ Splits(s)}
<1>1. SUFFICES ASSUME ~ Splits(T) PROVE FALSE
  OBVIOUS
<1>2. Cardinality(T) \in Bad
  BY <1>1, FS_Subset, FS_CardinalityType
<1>3. PICK n \in Bad : n - 1 \notin Bad
  BY <1>2, LeastNatural
<1>4. PICK s \in SUBSET S : Cardinality(s) = n /\ ~ Splits(s)
  BY <1>3
<1>5. IsFiniteSet(s)
  BY FS_Subset
<1>6. s # {}
  <2>1. S \ {} = S /\ SumFunctionOnSet(f, S) \in Int /\ SumFunctionOnSet(f, {}) = 0
    BY SumEmpty, SumRemove
  <2>2. Splits({})
    BY <2>1
  <2> QED
    BY <1>4, <2>2
<1>7. PICK x \in s : f[x] \in Int
  BY <1>6
<1>8. PICK t \in SUBSET S : t = s \ {x} /\ Cardinality(t) = n - 1 /\ n - 1 \in Nat
  <2>1. s \ {x} \in SUBSET S
    OBVIOUS
  <2> QED
    BY <1>4, <1>5, <2>1, RemoveShrinks
<1>10. Splits(t)
  BY <1>3, <1>8
<1>11. PICK u \in SUBSET S : u = S \ t /\ IsFiniteSet(u) /\ x \in u /\ u \ {x} = S \ s
  <2>1. IsFiniteSet(S \ t)
    BY FS_Difference
  <2>2. S \ t \in SUBSET S /\ x \in S \ t /\ (S \ t) \ {x} = S \ s
    BY <1>7, <1>8
  <2> QED
    BY <2>1, <2>2
<1>12. SumFunctionOnSet(f, s) = f[x] + SumFunctionOnSet(f, t)
  <2>1. \A y \in s : f[y] \in Int
    OBVIOUS
  <2> QED
    BY <1>5, <1>7, <1>8, <2>1, SumRemove
<1>13. SumFunctionOnSet(f, u) = f[x] + SumFunctionOnSet(f, S \ s)
  <2>1. \A y \in u : f[y] \in Int
    OBVIOUS
  <2>2. SumFunctionOnSet(f, u) = f[x] + SumFunctionOnSet(f, u \ {x})
    BY <1>11, <2>1, SumRemove
  <2> QED
    BY <1>11, <2>2
<1>14. SumFunctionOnSet(f, t) \in Int /\ SumFunctionOnSet(f, S \ s) \in Int
  <2>1. IsFiniteSet(t) /\ (\A y \in t : f[y] \in Int)
    BY <1>5, <1>8, FS_Subset
  <2>2. IsFiniteSet(S \ s) /\ (\A y \in S \ s : f[y] \in Int)
    BY FS_Difference
  <2> QED
    BY <2>1, <2>2, SumRemove
<1>15. SumFunctionOnSet(f, S) = SumFunctionOnSet(f, t) + SumFunctionOnSet(f, u)
  BY <1>10, <1>11
<1> QED
  BY <1>4, <1>7, <1>12, <1>13, <1>14, <1>15

\* A part of a set of natural numbers sums to no more than the whole.
THEOREM SumGrows ==
  ASSUME NEW S, IsFiniteSet(S), NEW f, \A x \in S : f[x] \in Nat, NEW T \in SUBSET S
  PROVE  SumFunctionOnSet(f, T) <= SumFunctionOnSet(f, S)
<1>1. \A x \in S : f[x] \in Int
  OBVIOUS
<1>2. PICK a : a = SumFunctionOnSet(f, T) /\ a \in Nat
  <2>1. IsFiniteSet(T) /\ \A x \in T : f[x] \in Nat
    BY FS_Subset
  <2> QED
    BY <2>1, SumNat
<1>3. PICK b : b = SumFunctionOnSet(f, S \ T) /\ b \in Nat
  <2>1. IsFiniteSet(S \ T) /\ \A x \in S \ T : f[x] \in Nat
    BY FS_Difference
  <2> QED
    BY <2>1, SumNat
<1>4. SumFunctionOnSet(f, S) = a + b
  BY <1>1, <1>2, <1>3, SumSplit
<1> QED
  BY <1>2, <1>3, <1>4

\* The sizes of the parts of a finite set, one for each member of an index set
\* and disjoint, sum to its size.
THEOREM SumOfParts ==
  ASSUME NEW S, IsFiniteSet(S), NEW A, IsFiniteSet(A), NEW P \in [S -> SUBSET A],
         \A x, y \in S : x # y => P[x] \cap P[y] = {},
         A = UNION {P[x] : x \in S},
         NEW f, \A x \in S : f[x] = Cardinality(P[x])
  PROVE  SumFunctionOnSet(f, S) = Cardinality(A)
<1> DEFINE All(s) == UNION {P[x] : x \in s}
           Bad == {n \in Nat : \E s \in SUBSET S :
                     Cardinality(s) = n /\ SumFunctionOnSet(f, s) # Cardinality(All(s))}
<1>1. SUFFICES ASSUME SumFunctionOnSet(f, S) # Cardinality(All(S)) PROVE FALSE
  OBVIOUS
<1>2. Cardinality(S) \in Bad
  BY <1>1, FS_CardinalityType
<1>3. PICK n \in Bad : n - 1 \notin Bad
  BY <1>2, LeastNatural
<1>4. PICK s \in SUBSET S :
        Cardinality(s) = n /\ SumFunctionOnSet(f, s) # Cardinality(All(s))
  BY <1>3
<1>5. IsFiniteSet(s)
  BY FS_Subset
<1>6. s # {}
  <2>1. All({}) = {} /\ Cardinality({}) = 0
    BY FS_EmptySet
  <2> QED
    BY <1>4, <2>1, SumEmpty
<1>7. PICK x \in s : TRUE
  BY <1>6
<1>8. PICK t \in SUBSET S : t = s \ {x} /\ Cardinality(t) = n - 1 /\ n - 1 \in Nat
  <2>1. s \ {x} \in SUBSET S
    OBVIOUS
  <2> QED
    BY <1>4, <1>5, <2>1, RemoveShrinks
<1>9. SumFunctionOnSet(f, t) = Cardinality(All(t))
  BY <1>3, <1>8
<1>10. \A y \in S : P[y] \in SUBSET A /\ IsFiniteSet(P[y])
  <2> TAKE y \in S
  <2>1. P[y] \in SUBSET A
    OBVIOUS
  <2> QED
    BY <2>1, FS_Subset
<1>11. \A y \in s : f[y] \in Int
  BY <1>10, FS_CardinalityType
<1>12. SumFunctionOnSet(f, s) = f[x] + SumFunctionOnSet(f, t)
  BY <1>5, <1>7, <1>8, <1>11, SumRemove
<1>13. PICK p, q : p = P[x] /\ q = All(t)
  OBVIOUS
<1>14. IsFiniteSet(p) /\ IsFiniteSet(q)
  <2>1. q \in SUBSET A
    BY <1>8, <1>10, <1>13
  <2> QED
    BY <1>10, <1>13, <2>1, FS_Subset
<1>15. All(s) = p \cup q /\ p \cap q = {}
  <2>1. s = t \cup {x} /\ x \notin t
    BY <1>7, <1>8
  <2>2. All(s) = p \cup q
    BY <1>13, <2>1
  <2>3. \A y \in t : P[y] \cap p = {}
    BY <1>7, <1>8, <1>13, <2>1
  <2> QED
    BY <1>13, <2>2, <2>3
<1>16. Cardinality(All(s)) = Cardinality(p) + Cardinality(q)
  <2>1. Cardinality(p \cup q) = Cardinality(p) + Cardinality(q) - Cardinality(p \cap q)
    BY <1>14, FS_Union
  <2>2. Cardinality(p) \in Nat /\ Cardinality(q) \in Nat
    BY <1>14, FS_CardinalityType
  <2>3. Cardinality(p \cap q) = 0
    BY <1>15, FS_EmptySet
  <2> HIDE DEF All
  <2> QED
    BY <1>15, <2>1, <2>2, <2>3
<1> QED
  BY <1>4, <1>7, <1>9, <1>12, <1>13, <1>16

(***************************************************************************)
(* Filtered queues.                                                        *)
(***************************************************************************)
\* g[n] is what Filter keeps of the first n elements.
Keeps(g, q, S, m) ==
  g = [n \in 0 .. m |-> IF n = 0 THEN <<>>
                        ELSE IF q[n] \in S THEN Append(g[n - 1], q[n])
                        ELSE g[n - 1]]

LEMMA KeptExists ==
  ASSUME NEW q, NEW S, NEW k \in Nat
  PROVE  \E g : Keeps(g, q, S, k)
<1> DEFINE Bad == {m \in Nat : ~ \E g : Keeps(g, q, S, m)}
<1>1. SUFFICES ASSUME k \in Bad PROVE FALSE
  OBVIOUS
<1>2. PICK m \in Bad : m - 1 \notin Bad
  BY <1>1, LeastNatural
<1>3. m # 0
  <2>1. Keeps([n \in 0 .. 0 |-> <<>>], q, S, 0)
    BY DEF Keeps
  <2> QED
    BY <1>2, <2>1
<1>4. m - 1 \in Nat /\ m - 1 \notin Bad
  BY <1>2, <1>3
<1>5. PICK g : Keeps(g, q, S, m - 1)
  BY <1>4
<1> DEFINE h == [n \in 0 .. m |-> IF n < m THEN g[n]
                                  ELSE IF q[n] \in S THEN Append(g[n - 1], q[n])
                                  ELSE g[n - 1]]
<1>6. ASSUME NEW n \in 0 .. m
      PROVE  h[n] = IF n = 0 THEN <<>>
                    ELSE IF q[n] \in S THEN Append(h[n - 1], q[n])
                    ELSE h[n - 1]
  <2>1. CASE n = 0
    <3>1. h[n] = g[n] /\ g[n] = <<>>
      BY <1>3, <1>4, <1>5, <2>1 DEF Keeps
    <3> QED
      BY <2>1, <3>1
  <2>2. CASE n # 0
    <3>1. n - 1 \in 0 .. m /\ n - 1 < m /\ h[n - 1] = g[n - 1]
      BY <2>2
    <3>2. CASE n < m
      <4>1. n \in 0 .. (m - 1) /\ h[n] = g[n]
        BY <3>2
      <4> QED
        BY <1>5, <2>2, <3>1, <4>1 DEF Keeps
    <3>3. CASE n = m
      BY <2>2, <3>1, <3>3
    <3> QED
      BY <3>2, <3>3
  <2> QED
    BY <2>1, <2>2
<1>7. Keeps(h, q, S, m)
  <2>1. h = [n \in 0 .. m |-> h[n]]
    OBVIOUS
  <2> HIDE DEF h
  <2> QED
    BY <1>6, <2>1 DEF Keeps
<1> QED
  BY <1>2, <1>7

LEMMA FilterIsKept ==
  ASSUME NEW q, NEW S, Len(q) \in Nat
  PROVE  \E g : Keeps(g, q, S, Len(q)) /\ Filter(q, S) = g[Len(q)]
<1> DEFINE Solves(g) == g = [n \in 0 .. Len(q) |-> IF n = 0 THEN <<>>
                                                  ELSE IF q[n] \in S THEN Append(g[n - 1], q[n])
                                                  ELSE g[n - 1]]
           kept == CHOOSE g : Solves(g)
<1>1. Filter(q, S) = kept[Len(q)]
  BY DEF Filter
<1>2. \A g : Solves(g) <=> Keeps(g, q, S, Len(q))
  BY DEF Keeps
<1>3. \E g : Solves(g)
  <2> HIDE DEF Solves
  <2>1. \E g : Keeps(g, q, S, Len(q))
    BY KeptExists
  <2> QED
    BY <1>2, <2>1, Zenon
<1>4. Keeps(kept, q, S, Len(q))
  <2> HIDE DEF Solves
  <2>1. Solves(kept)
    BY <1>3, Zenon
  <2> QED
    BY <1>2, <2>1, Zenon
<1> QED
  BY <1>1, <1>4

\* No element is in the queue twice.
Distinct(q) == \A i, j \in DOMAIN q : q[i] = q[j] => i = j

\* Filtering keeps exactly the elements asked for, and none twice.
THEOREM FilterKeeps ==
  ASSUME NEW T, NEW q \in Seq(T), NEW S
  PROVE  /\ Filter(q, S) \in Seq(T \cap S)
         /\ \A x : x \in Range(Filter(q, S)) <=> x \in Range(q) /\ x \in S
         /\ Distinct(q) => Distinct(Filter(q, S))
<1>1. Len(q) \in Nat /\ DOMAIN q = 1 .. Len(q) /\ \A i \in 1 .. Len(q) : q[i] \in T
  BY LenProperties
<1>2. PICK g : Keeps(g, q, S, Len(q)) /\ Filter(q, S) = g[Len(q)]
  BY <1>1, FilterIsKept
<1> DEFINE Fits(n, r) ==
             /\ r \in Seq(T \cap S)
             /\ \A i \in 1 .. Len(r) : \E j \in 1 .. n : r[i] = q[j]
             /\ \A j \in 1 .. n : q[j] \in S => \E i \in 1 .. Len(r) : r[i] = q[j]
             /\ Distinct(q) => \A i, j \in 1 .. Len(r) : r[i] = r[j] => i = j
           Good(n) == Fits(n, g[n])
           Bad == {n \in Nat : n <= Len(q) /\ ~ Good(n)}
<1>3. Bad = {}
  <2>1. SUFFICES ASSUME Bad # {} PROVE FALSE
    OBVIOUS
  <2>2. PICK n \in Bad : n - 1 \notin Bad
    BY <2>1, LeastNatural
  <2>3. n # 0
    <3>1. g[0] = <<>>
      BY <1>1, <1>2 DEF Keeps
    <3>2. Good(0)
      BY <3>1
    <3> QED
      BY <2>2, <3>2
  <2>4. n \in 1 .. Len(q) /\ n - 1 \in Nat /\ n - 1 <= Len(q)
    BY <1>1, <2>2, <2>3
  <2>5. Good(n - 1)
    <3> HIDE DEF Good
    <3> QED
      BY <2>2, <2>4
  <2>6. PICK s \in Seq(T \cap S) : s = g[n - 1]
    BY <2>5
  <2>7. Len(s) \in Nat
    OBVIOUS
  <2>8. g[n] = IF q[n] \in S THEN Append(s, q[n]) ELSE s
    <3>1. n \in 0 .. Len(q) /\ n # 0
      BY <1>1, <2>4
    <3>2. g[n] = IF q[n] \in S THEN Append(g[n - 1], q[n]) ELSE g[n - 1]
      BY <1>2, <3>1 DEF Keeps
    <3> QED
      BY <2>6, <3>2
  <2>9. /\ \A i \in 1 .. Len(s) : \E j \in 1 .. n - 1 : s[i] = q[j]
        /\ \A j \in 1 .. n - 1 : q[j] \in S => \E i \in 1 .. Len(s) : s[i] = q[j]
        /\ Distinct(q) => \A i, j \in 1 .. Len(s) : s[i] = s[j] => i = j
    BY <2>5, <2>6
  <2>10. CASE q[n] \notin S
    <3>1. g[n] = s
      BY <2>8, <2>10
    <3>2. \A j \in 1 .. n : j # n => j \in 1 .. n - 1
      BY <2>4
    <3>3. \A j \in 1 .. n - 1 : j \in 1 .. n
      BY <2>4
    <3>4. Good(n)
      BY <2>9, <2>10, <3>1, <3>2, <3>3
    <3> QED
      BY <2>2, <3>4
  <2>11. CASE q[n] \in S
    <3>1. PICK r : r = Append(s, q[n]) /\ g[n] = r
      BY <2>8, <2>11
    <3>2. /\ r \in Seq(T \cap S) /\ Len(r) = Len(s) + 1 /\ r[Len(s) + 1] = q[n]
          /\ \A i \in 1 .. Len(s) : r[i] = s[i]
      BY <1>1, <2>4, <2>11, <3>1, AppendProperties
    <3>3. \A i \in 1 .. Len(r) : \E j \in 1 .. n : r[i] = q[j]
      <4>1. ASSUME NEW i \in 1 .. Len(r) PROVE \E j \in 1 .. n : r[i] = q[j]
        <5>1. CASE i = Len(s) + 1
          BY <2>4, <3>2, <5>1
        <5>2. CASE i \in 1 .. Len(s)
          <6>1. PICK j \in 1 .. n - 1 : s[i] = q[j]
            BY <2>9, <5>2
          <6> QED
            BY <2>4, <3>2, <5>2, <6>1
        <5> QED
          BY <2>7, <3>2, <5>1, <5>2
      <4> QED
        BY <4>1
    <3>4. \A j \in 1 .. n : q[j] \in S => \E i \in 1 .. Len(r) : r[i] = q[j]
      <4>1. ASSUME NEW j \in 1 .. n, q[j] \in S PROVE \E i \in 1 .. Len(r) : r[i] = q[j]
        <5>1. CASE j = n
          BY <2>7, <3>2, <5>1
        <5>2. CASE j # n
          <6>1. j \in 1 .. n - 1
            BY <2>4, <5>2
          <6>2. PICK i \in 1 .. Len(s) : s[i] = q[j]
            BY <2>9, <4>1, <6>1
          <6> QED
            BY <2>7, <3>2, <6>2
        <5> QED
          BY <5>1, <5>2
      <4> QED
        BY <4>1
    <3>5. Distinct(q) => \A i, j \in 1 .. Len(r) : r[i] = r[j] => i = j
      <4>1. SUFFICES ASSUME Distinct(q), NEW i \in 1 .. Len(r), NEW j \in 1 .. Len(r), r[i] = r[j]
                     PROVE  i = j
        OBVIOUS
      <4>2. \A k \in 1 .. Len(s) : s[k] # q[n]
        <5>1. ASSUME NEW k \in 1 .. Len(s), s[k] = q[n] PROVE FALSE
          <6>1. PICK m \in 1 .. n - 1 : s[k] = q[m]
            BY <2>9
          <6>2. m \in DOMAIN q /\ n \in DOMAIN q /\ q[m] = q[n] /\ m # n
            BY <1>1, <2>4, <5>1, <6>1
          <6> QED
            BY <4>1, <6>2 DEF Distinct
        <5> QED
          BY <5>1
      <4>3. i \in 1 .. Len(s) \/ i = Len(s) + 1
        BY <2>7, <3>2
      <4>4. j \in 1 .. Len(s) \/ j = Len(s) + 1
        BY <2>7, <3>2
      <4> QED
        BY <2>9, <3>2, <4>1, <4>2, <4>3, <4>4
    <3>6. Fits(n, r)
      BY <3>2, <3>3, <3>4, <3>5
    <3>7. Good(n)
      <4> HIDE DEF Fits
      <4> QED
        BY <3>1, <3>6
    <3> QED
      BY <2>2, <3>7
  <2> QED
    BY <2>10, <2>11
<1>4. Good(Len(q))
  <2> HIDE DEF Good
  <2> QED
    BY <1>1, <1>3
<1>5. PICK f \in Seq(T \cap S) : f = Filter(q, S) /\ DOMAIN f = 1 .. Len(f)
  BY <1>2, <1>4, LenProperties
<1>6. /\ \A i \in 1 .. Len(f) : \E j \in 1 .. Len(q) : f[i] = q[j]
      /\ \A j \in 1 .. Len(q) : q[j] \in S => \E i \in 1 .. Len(f) : f[i] = q[j]
      /\ Distinct(q) => \A i, j \in 1 .. Len(f) : f[i] = f[j] => i = j
  BY <1>2, <1>4, <1>5
<1>7. \A i \in 1 .. Len(f) : f[i] \in S
  BY <1>5
<1>8. \A x : x \in Range(f) <=> x \in Range(q) /\ x \in S
  <2>1. Range(f) = {f[i] : i \in 1 .. Len(f)} /\ Range(q) = {q[i] : i \in 1 .. Len(q)}
    BY <1>1, <1>5 DEF Range
  <2>2. \A x \in Range(f) : x \in Range(q) /\ x \in S
    BY <1>6, <1>7, <2>1
  <2>3. \A x \in Range(q) : x \in S => x \in Range(f)
    BY <1>6, <2>1
  <2> QED
    BY <2>2, <2>3
<1> QED
  BY <1>5, <1>6, <1>8 DEF Distinct

(***************************************************************************)
(* Queues, by the set of their elements.                                   *)
(***************************************************************************)
\* What a queue holds is of its type; an empty one holds nothing.
THEOREM QueueHolds ==
  ASSUME NEW T, NEW q \in Seq(T)
  PROVE  /\ Range(q) \subseteq T
         /\ q = <<>> <=> Range(q) = {}
         /\ q # <<>> => Head(q) \in Range(q) /\ Head(q) \in T
<1>1. /\ Len(q) \in Nat /\ DOMAIN q = 1 .. Len(q)
      /\ \A i \in 1 .. Len(q) : q[i] \in T
  BY LenProperties
<1>2. Range(q) = {q[i] : i \in 1 .. Len(q)}
  BY <1>1 DEF Range
<1>3. ASSUME q = <<>> PROVE Range(q) = {}
  BY <1>2, <1>3
<1>4. ASSUME q # <<>> PROVE 1 \in 1 .. Len(q) /\ Head(q) = q[1]
  BY <1>1, <1>4, EmptySeq
<1> QED
  BY <1>1, <1>2, <1>3, <1>4

THEOREM QueueEmpty == Range(<<>>) = {} /\ Distinct(<<>>) /\ \A T : <<>> \in Seq(T)
<1>1. DOMAIN <<>> = {}
  OBVIOUS
<1> QED
  BY <1>1, EmptySeq DEF Range, Distinct

\* Joining a queue at its end.
THEOREM QueueAppend ==
  ASSUME NEW T, NEW q \in Seq(T), NEW x \in T
  PROVE  /\ Append(q, x) \in Seq(T)
         /\ Range(Append(q, x)) = Range(q) \cup {x}
         /\ Distinct(q) /\ x \notin Range(q) => Distinct(Append(q, x))
<1>1. Len(q) \in Nat /\ DOMAIN q = 1 .. Len(q) /\ Range(q) = {q[i] : i \in 1 .. Len(q)}
  BY LenProperties DEF Range
<1> DEFINE r == Append(q, x)
<1>2. /\ r \in Seq(T) /\ Len(r) = Len(q) + 1 /\ r[Len(q) + 1] = x
      /\ \A i \in 1 .. Len(q) : r[i] = q[i]
  BY AppendProperties
<1> HIDE DEF r
<1>3. DOMAIN r = 1 .. Len(q) + 1
  BY <1>2, LenProperties
<1>4. \A i \in 1 .. Len(q) + 1 : i \in 1 .. Len(q) \/ i = Len(q) + 1
  BY <1>1
<1>5. 1 .. Len(q) \subseteq 1 .. Len(q) + 1 /\ Len(q) + 1 \in 1 .. Len(q) + 1
  BY <1>1
<1>6. Range(r) = Range(q) \cup {x}
  <2>1. Range(r) = {r[i] : i \in 1 .. Len(q) + 1}
    BY <1>3 DEF Range
  <2> QED
    BY <1>1, <1>2, <1>4, <1>5, <2>1
<1>7. ASSUME Distinct(q), x \notin Range(q) PROVE Distinct(r)
  <2>1. SUFFICES ASSUME NEW i \in 1 .. Len(q) + 1, NEW j \in 1 .. Len(q) + 1, r[i] = r[j]
                 PROVE  i = j
    BY <1>3 DEF Distinct
  <2> QED
    BY <1>1, <1>2, <1>4, <1>7, <2>1 DEF Distinct
<1> QED
  BY <1>2, <1>6, <1>7 DEF r

\* Leaving a queue at its front.
THEOREM QueueTail ==
  ASSUME NEW T, NEW q \in Seq(T), q # <<>>
  PROVE  /\ Tail(q) \in Seq(T) /\ Head(q) \in T /\ Head(q) \in Range(q)
         /\ Range(q) = Range(Tail(q)) \cup {Head(q)}
         /\ Distinct(q) => Distinct(Tail(q)) /\ Head(q) \notin Range(Tail(q))
<1>1. Len(q) \in Nat \ {0} /\ DOMAIN q = 1 .. Len(q) /\ Range(q) = {q[i] : i \in 1 .. Len(q)}
  BY LenProperties, EmptySeq DEF Range
<1>2. Head(q) \in T /\ Head(q) = q[1]
  BY HeadTailProperties
<1> DEFINE r == Tail(q)
<1>3. /\ r \in Seq(T) /\ Len(r) = Len(q) - 1
      /\ \A i \in 1 .. Len(q) - 1 : r[i] = q[i + 1]
  BY HeadTailProperties
<1> HIDE DEF r
<1>4. DOMAIN r = 1 .. Len(q) - 1 /\ Range(r) = {q[i + 1] : i \in 1 .. Len(q) - 1}
  <2>1. DOMAIN r = 1 .. Len(q) - 1
    BY <1>3, LenProperties
  <2> QED
    BY <1>3, <2>1 DEF Range
<1>5. \A i \in 1 .. Len(q) - 1 : i + 1 \in 1 .. Len(q) /\ i + 1 # 1
  BY <1>1
<1>6. \A i \in 1 .. Len(q) : i = 1 \/ (i - 1 \in 1 .. Len(q) - 1 /\ i = (i - 1) + 1)
  BY <1>1
<1>7. 1 \in 1 .. Len(q)
  BY <1>1
<1>8. Range(q) = Range(r) \cup {Head(q)}
  <2>1. \A x \in Range(q) : x \in Range(r) \cup {Head(q)}
    BY <1>1, <1>2, <1>4, <1>6
  <2>2. \A x \in Range(r) \cup {Head(q)} : x \in Range(q)
    BY <1>1, <1>2, <1>4, <1>5, <1>7
  <2> QED
    BY <2>1, <2>2
<1>9. ASSUME Distinct(q) PROVE Distinct(r) /\ Head(q) \notin Range(r)
  <2>1. ASSUME NEW i \in 1 .. Len(q) - 1, NEW j \in 1 .. Len(q) - 1, r[i] = r[j] PROVE i = j
    <3>1. i + 1 = j + 1
      BY <1>1, <1>3, <1>5, <1>9, <2>1 DEF Distinct
    <3> QED
      BY <1>1, <3>1
  <2>2. \A i \in 1 .. Len(q) - 1 : q[i + 1] # q[1]
    BY <1>1, <1>5, <1>7, <1>9 DEF Distinct
  <2> QED
    BY <1>2, <1>4, <2>1, <2>2 DEF Distinct
<1> QED
  BY <1>2, <1>3, <1>7, <1>1, <1>8, <1>9 DEF r

\* Two queues in a row.
THEOREM QueueConcat ==
  ASSUME NEW T, NEW p \in Seq(T), NEW q \in Seq(T)
  PROVE  /\ p \o q \in Seq(T)
         /\ Range(p \o q) = Range(p) \cup Range(q)
         /\ Distinct(p) /\ Distinct(q) /\ Range(p) \cap Range(q) = {} => Distinct(p \o q)
<1>1. /\ Len(p) \in Nat /\ DOMAIN p = 1 .. Len(p) /\ Range(p) = {p[i] : i \in 1 .. Len(p)}
      /\ Len(q) \in Nat /\ DOMAIN q = 1 .. Len(q) /\ Range(q) = {q[i] : i \in 1 .. Len(q)}
  BY LenProperties DEF Range
<1> DEFINE r == p \o q
<1>2. /\ r \in Seq(T) /\ Len(r) = Len(p) + Len(q)
      /\ \A i \in 1 .. Len(p) + Len(q) :
           r[i] = IF i <= Len(p) THEN p[i] ELSE q[i - Len(p)]
  BY ConcatProperties
<1> HIDE DEF r
<1>3. DOMAIN r = 1 .. Len(p) + Len(q) /\ Range(r) = {r[i] : i \in 1 .. Len(p) + Len(q)}
  <2>1. DOMAIN r = 1 .. Len(p) + Len(q)
    BY <1>2, LenProperties
  <2> QED
    BY <2>1 DEF Range
<1>4. \A i \in 1 .. Len(p) : i \in 1 .. Len(p) + Len(q) /\ r[i] = p[i]
  BY <1>1, <1>2
<1>5. \A j \in 1 .. Len(q) : j + Len(p) \in 1 .. Len(p) + Len(q) /\ r[j + Len(p)] = q[j]
  <2> TAKE j \in 1 .. Len(q)
  <2>1. /\ j + Len(p) \in 1 .. Len(p) + Len(q) /\ ~ (j + Len(p) <= Len(p))
        /\ (j + Len(p)) - Len(p) = j
    BY <1>1
  <2> QED
    BY <1>2, <2>1
<1>6. \A i \in 1 .. Len(p) + Len(q) :
        i \in 1 .. Len(p) \/ (i - Len(p) \in 1 .. Len(q) /\ r[i] = q[i - Len(p)])
  <2> TAKE i \in 1 .. Len(p) + Len(q)
  <2>1. CASE i <= Len(p)
    BY <1>1, <2>1
  <2>2. CASE ~ (i <= Len(p))
    <3>1. i - Len(p) \in 1 .. Len(q)
      BY <1>1, <2>2
    <3> QED
      BY <1>2, <2>2, <3>1
  <2> QED
    BY <2>1, <2>2
<1>7. Range(r) = Range(p) \cup Range(q)
  <2>1. \A x \in Range(r) : x \in Range(p) \cup Range(q)
    BY <1>1, <1>3, <1>4, <1>6
  <2>2. \A x \in Range(p) : x \in Range(r)
    BY <1>1, <1>3, <1>4
  <2>3. \A x \in Range(q) : x \in Range(r)
    BY <1>1, <1>3, <1>5
  <2> QED
    BY <2>1, <2>2, <2>3
<1>8. ASSUME Distinct(p), Distinct(q), Range(p) \cap Range(q) = {} PROVE Distinct(r)
  <2>1. SUFFICES ASSUME NEW i \in 1 .. Len(p) + Len(q), NEW j \in 1 .. Len(p) + Len(q), r[i] = r[j]
                 PROVE  i = j
    BY <1>3 DEF Distinct
  <2>2. CASE i \in 1 .. Len(p) /\ j \in 1 .. Len(p)
    BY <1>1, <1>4, <1>8, <2>1, <2>2 DEF Distinct
  <2>3. CASE i \in 1 .. Len(p) /\ j \notin 1 .. Len(p)
    BY <1>1, <1>4, <1>6, <1>8, <2>1, <2>3
  <2>4. CASE i \notin 1 .. Len(p) /\ j \in 1 .. Len(p)
    BY <1>1, <1>4, <1>6, <1>8, <2>1, <2>4
  <2>5. CASE i \notin 1 .. Len(p) /\ j \notin 1 .. Len(p)
    <3>1. /\ i - Len(p) \in 1 .. Len(q) /\ j - Len(p) \in 1 .. Len(q)
          /\ q[i - Len(p)] = q[j - Len(p)]
      BY <1>6, <2>1, <2>5
    <3>2. i - Len(p) = j - Len(p)
      BY <1>1, <1>8, <3>1 DEF Distinct
    <3> QED
      BY <1>1, <3>2
  <2> QED
    BY <2>2, <2>3, <2>4, <2>5
<1> QED
  BY <1>2, <1>7, <1>8 DEF r

\* A queue that holds nothing twice is as long as what it holds.
THEOREM QueueLength ==
  ASSUME NEW T, NEW q \in Seq(T)
  PROVE  /\ IsFiniteSet(Range(q))
         /\ Distinct(q) => Len(q) = Cardinality(Range(q))
<1>1. Len(q) \in Nat /\ DOMAIN q = 1 .. Len(q) /\ q \in [1 .. Len(q) -> T]
  BY LenProperties
<1>2. Range(q) = {q[i] : i \in 1 .. Len(q)}
  BY <1>1 DEF Range
<1>3. q \in [1 .. Len(q) -> Range(q)]
  BY <1>1, <1>2
<1>4. q \in Surjection(1 .. Len(q), Range(q))
  BY <1>2, <1>3 DEF Surjection
<1>5. IsFiniteSet(1 .. Len(q)) /\ Cardinality(1 .. Len(q)) = Len(q)
  <2>1. 1 \in Int /\ Len(q) \in Int
    BY <1>1
  <2> QED
    BY <1>1, <2>1, FS_Interval
<1>6. /\ IsFiniteSet(Range(q))
      /\ Cardinality(Range(q)) = Cardinality(1 .. Len(q)) <=> q \in Injection(1 .. Len(q), Range(q))
  BY <1>4, <1>5, FS_Surjection
<1>7. ASSUME Distinct(q) PROVE q \in Injection(1 .. Len(q), Range(q))
  <2>1. \A i, j \in 1 .. Len(q) : q[i] = q[j] => i = j
    BY <1>1, <1>7 DEF Distinct
  <2> QED
    BY <1>3, <2>1 DEF Injection, IsInjective
<1> QED
  BY <1>5, <1>6, <1>7

-----------------------------------------------------------------------------
\* A sum over an interval that grows by a number.
LEMMA SumNext ==
  ASSUME NEW f, NEW a \in Int, NEW b \in Int, NEW c \in Int, c = b + 1, a <= c,
         \A i \in a .. c : f[i] \in Int
  PROVE  SumFunctionOnSet(f, a .. c) = SumFunctionOnSet(f, a .. b) + f[c]
<1>1. PICK S : S = a .. b
  OBVIOUS
<1>2. IsFiniteSet(S)
  BY <1>1, FS_Interval
<1>3. a .. c = S \cup {c}
  BY <1>1
<1>4. c \notin S
  BY <1>1
<1>5. f[c] \in Int
  BY <1>3
<1>6. \A y \in S : f[y] \in Int
  BY <1>3
<1>7. SumFunctionOnSet(f, S \cup {c}) = SumFunctionOnSet(f, S) + f[c]
  BY <1>2, <1>4, <1>5, <1>6, SumAdd
<1> QED
  BY <1>1, <1>3, <1>7

\* g is f from place k + 1 on, for n places.
Shifted(f, g, k, n) == \A i \in 1 .. n : f[k + i] \in Int /\ g[i] = f[k + i]

\* A sum over an interval does not depend on where the interval starts.
THEOREM SumShift ==
  ASSUME NEW f, NEW g, NEW k \in Nat, NEW n \in Nat, Shifted(f, g, k, n)
  PROVE  SumFunctionOnSet(f, k + 1 .. k + n) = SumFunctionOnSet(g, 1 .. n)
<1> DEFINE Same(m) == SumFunctionOnSet(f, k + 1 .. k + m) = SumFunctionOnSet(g, 1 .. m)
           Bad == {m \in Nat : m <= n /\ ~ Same(m)}
<1>1. SUFFICES ASSUME n \in Bad PROVE FALSE
  OBVIOUS
<1>2. PICK m \in Bad : m - 1 \notin Bad
  BY <1>1, LeastNatural
<1>3. m \in Nat /\ m <= n /\ ~ Same(m)
  OBVIOUS
<1>4. Same(0)
  <2>1. k + 1 .. k + 0 = {} /\ 1 .. 0 = {}
    OBVIOUS
  <2> QED
    BY <2>1, SumEmpty
<1> HIDE DEF Same
<1>5. PICK l \in Nat : m = l + 1
  BY <1>3, <1>4
<1>6. Same(l)
  BY <1>2, <1>3, <1>5
<1>7. /\ \A y \in k + 1 .. k + m : f[y] \in Int
      /\ \A y \in 1 .. m : g[y] \in Int
      /\ g[m] = f[k + m]
  <2>1. ASSUME NEW y \in k + 1 .. k + m PROVE f[y] \in Int
    <3>1. PICK i : i = y - k
      OBVIOUS
    <3>2. i \in 1 .. n /\ y = k + i
      BY <1>3, <3>1
    <3> QED
      BY <3>2 DEF Shifted
  <2>2. ASSUME NEW y \in 1 .. m PROVE g[y] \in Int
    <3>1. y \in 1 .. n
      BY <1>3
    <3> QED
      BY <3>1 DEF Shifted
  <2>3. m \in 1 .. n
    BY <1>3, <1>5
  <2> QED
    BY <2>1, <2>2, <2>3 DEF Shifted
<1>8. SumFunctionOnSet(f, k + 1 .. k + m) = SumFunctionOnSet(f, k + 1 .. k + l) + f[k + m]
  <2>1. PICK a \in Int, b \in Int, c \in Int : a = k + 1 /\ b = k + l /\ c = k + m
    BY <1>3
  <2>2. c = b + 1 /\ a <= c
    BY <1>3, <1>5, <2>1
  <2>3. \A y \in a .. c : f[y] \in Int
    BY <1>7, <2>1
  <2>4. SumFunctionOnSet(f, a .. c) = SumFunctionOnSet(f, a .. b) + f[c]
    BY <2>2, <2>3, SumNext
  <2> QED
    BY <2>1, <2>4
<1>9. SumFunctionOnSet(g, 1 .. m) = SumFunctionOnSet(g, 1 .. l) + g[m]
  <2>1. PICK a \in Int, b \in Int, c \in Int : a = 1 /\ b = l /\ c = m
    BY <1>3
  <2>2. c = b + 1 /\ a <= c
    BY <1>3, <1>5, <2>1
  <2>3. \A y \in a .. c : g[y] \in Int
    BY <1>7, <2>1
  <2>4. SumFunctionOnSet(g, a .. c) = SumFunctionOnSet(g, a .. b) + g[c]
    BY <2>2, <2>3, SumNext
  <2> QED
    BY <2>1, <2>4
<1> QED
  BY <1>3, <1>6, <1>7, <1>8, <1>9 DEF Same

\* The least element and the greatest one of a bounded set.
THEOREM LeastAndGreatest ==
  ASSUME NEW T \in SUBSET Nat, T # {}
  PROVE  /\ \E x \in T : \A y \in T : x <= y
         /\ \A b \in Nat : (\A y \in T : y <= b) => \E x \in T : \A y \in T : y <= x
<1>1. \E x \in T : \A y \in T : x <= y
  BY LeastNatural
<1>2. ASSUME NEW b \in Nat, \A y \in T : y <= b
      PROVE  \E x \in T : \A y \in T : y <= x
  <2> DEFINE Bounds == {c \in Nat : \A y \in T : y <= c}
  <2>1. PICK c \in Bounds : c - 1 \notin Bounds
    BY <1>2, LeastNatural
  <2>2. PICK y \in T : c - 1 \in Nat => ~ (y <= c - 1)
    BY <2>1
  <2>3. y = c
    BY <2>1, <2>2
  <2> QED
    BY <2>1, <2>3
<1> QED
  BY <1>1, <1>2

\* The values of a function on an interval have a bound.
THEOREM ValuesBounded ==
  ASSUME NEW f, NEW n \in Nat, \A i \in 1 .. n : f[i] \in Nat
  PROVE  \E b \in Nat : \A i \in 1 .. n : f[i] <= b
<1> DEFINE Bad == {m \in Nat : m <= n /\ ~ \E b \in Nat : \A i \in 1 .. m : f[i] <= b}
<1>1. SUFFICES ASSUME n \in Bad PROVE FALSE
  OBVIOUS
<1>2. PICK m \in Bad : m - 1 \notin Bad
  BY <1>1, LeastNatural
<1>3. m # 0
  <2>1. \A i \in 1 .. 0 : f[i] <= 0
    OBVIOUS
  <2> QED
    BY <2>1
<1>4. PICK b \in Nat : \A i \in 1 .. m - 1 : f[i] <= b
  BY <1>2, <1>3
<1>5. PICK c : c = IF b <= f[m] THEN f[m] ELSE b
  OBVIOUS
<1>6. f[m] \in Nat /\ m \in Nat
  BY <1>2, <1>3
<1>7. c \in Nat /\ b <= c /\ f[m] <= c
  BY <1>5, <1>6
<1>8. ASSUME NEW i \in 1 .. m PROVE f[i] <= c
  <2>1. CASE i = m
    BY <1>7, <2>1
  <2>2. CASE i # m
    <3>1. i \in 1 .. m - 1
      BY <1>6, <2>2
    <3>2. f[i] \in Nat /\ f[i] <= b
      BY <1>2, <1>4, <1>6, <3>1
    <3> QED
      BY <1>7, <3>2
  <2> QED
    BY <2>1, <2>2
<1> QED
  BY <1>2, <1>7, <1>8
=============================================================================
