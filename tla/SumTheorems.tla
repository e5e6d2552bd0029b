------------------------------ MODULE SumTheorems ------------------------------
(***************************************************************************)
(* Induction stated with sets, which the provers can instantiate, and what *)
(* the proofs of this project need to know of SumFunctionOnSet: it adds up *)
(* the values of a function in any order.                                  *)
(***************************************************************************)
EXTENDS Integers, FiniteSetsExt, FiniteSetTheorems, WellFoundedInduction, TLAPS

-----------------------------------------------------------------------------
(* Induction: on numbers, and on the subsets of a finite set.              *)

LEMMA LeastOf ==
  ASSUME NEW T, T \subseteq Nat, T # {}
  PROVE  \E j \in T : \A k \in T : j <= k
<1> DEFINE R == OpToRel(<, Nat)
<1>1. \E j \in T : \A k \in T : ~(<< k, j >> \in R)
  <2> HIDE DEF R
  <2>1. IsWellFoundedOn(R, Nat)
    BY NatLessThanWellFounded DEF R
  <2>2. QED
    BY <2>1, WFMin
<1>2. \A j, k \in Nat : ~(<< k, j >> \in R) => j <= k
  BY DEF OpToRel
<1>3. QED
  BY <1>1, <1>2

LEMMA NumberInduction ==
  ASSUME NEW S, 0 \in S, \A n \in Nat : n \in S => n + 1 \in S
  PROVE  \A n \in Nat : n \in S
<1> SUFFICES ASSUME Nat \ S # {}
             PROVE  FALSE
  OBVIOUS
<1>1. PICK j \in Nat \ S : \A k \in Nat \ S : j <= k
  BY LeastOf
<1>2. j # 0 /\ j - 1 \in Nat
  BY <1>1
<1>3. j - 1 \in S
  BY <1>1, <1>2
<1>4. (j - 1) + 1 \in S
  BY <1>2, <1>3
<1>5. QED
  BY <1>1, <1>4

LEMMA WithoutOne ==
  ASSUME NEW S, IsFiniteSet(S), NEW x \in S
  PROVE  /\ IsFiniteSet(S \ {x})
         /\ Cardinality(S \ {x}) = Cardinality(S) - 1
         /\ Cardinality(S) \in Nat /\ Cardinality(S) > 0
<1>1. Cardinality(S) \in Nat /\ Cardinality(S) # 0
  BY FS_CardinalityType, FS_EmptySet
<1>2. QED
  BY <1>1, FS_RemoveElement

LEMMA SubsetInduction ==
  ASSUME NEW S, IsFiniteSet(S), NEW P, {} \in P,
         \A T \in SUBSET S, x \in S : T \in P /\ x \notin T => T \cup {x} \in P
  PROVE  \A T \in SUBSET S : T \in P
<1> DEFINE N == {n \in Nat : \A T \in SUBSET S : Cardinality(T) = n => T \in P}
<1>1. \A T \in SUBSET S : IsFiniteSet(T) /\ Cardinality(T) \in Nat
  BY FS_Subset, FS_CardinalityType
<1>2. 0 \in N
  BY <1>1, FS_EmptySet
<1>3. ASSUME NEW n \in Nat, n \in N
      PROVE  n + 1 \in N
  <2> SUFFICES ASSUME NEW T \in SUBSET S, Cardinality(T) = n + 1
               PROVE  T \in P
    OBVIOUS
  <2>1. PICK x : x \in T
    BY <1>1, FS_EmptySet
  <2>2. Cardinality(T \ {x}) = n
    <3> HIDE DEF N
    <3>1. QED
      BY <1>1, <2>1, WithoutOne
  <2>3. T \ {x} \in P
    BY <1>3, <2>2
  <2>4. (T \ {x}) \cup {x} \in P
    BY <2>1, <2>3
  <2>5. (T \ {x}) \cup {x} = T
    BY <2>1
  <2>6. QED
    BY <2>4, <2>5
<1>4. \A n \in Nat : n \in N
  <2> HIDE DEF N
  <2>1. QED
    BY <1>2, <1>3, NumberInduction
<1>5. QED
  BY <1>1, <1>4

-----------------------------------------------------------------------------
(* The function that SumFunctionOnSet is the value of, at the whole set.   *)
Pick(s) == CHOOSE x \in s : TRUE

Adds(f, D, g) == g = [s \in D |-> IF s = {} THEN 0 ELSE f[Pick(s)] + g[s \ {Pick(s)}]]

AddsUp(f, D, g) == Adds(f, SUBSET D, g)

LEMMA PickIsElement ==
  ASSUME NEW s, s # {}
  PROVE  Pick(s) \in s
BY DEF Pick

LEMMA SumIsChosen ==
  ASSUME NEW f, NEW D, NEW h, AddsUp(f, D, h)
  PROVE  \E g : AddsUp(f, D, g) /\ SumFunctionOnSet(f, D) = g[D]
BY Zenon DEF SumFunctionOnSet, FoldFunctionOnSet, MapThenFoldSet, AddsUp, Adds, Pick

LEMMA AdderExists ==
  ASSUME NEW f, NEW D, IsFiniteSet(D)
  PROVE  \E g : AddsUp(f, D, g)
<1> DEFINE Small(n) == {s \in SUBSET D : Cardinality(s) <= n}
           N == {n \in Nat : \E g : Adds(f, Small(n), g)}
<1>1. \A s \in SUBSET D : IsFiniteSet(s) /\ Cardinality(s) \in Nat
  BY FS_Subset, FS_CardinalityType
<1>2. ASSUME NEW s \in SUBSET D, s # {}
      PROVE  /\ s \ {Pick(s)} \in SUBSET D
             /\ Cardinality(s \ {Pick(s)}) = Cardinality(s) - 1
  BY <1>1, <1>2, WithoutOne, PickIsElement
<1>3. 0 \in N
  <2> DEFINE g == [s \in Small(0) |-> 0]
  <2>1. \A s \in Small(0) : s = {}
    BY <1>1, FS_EmptySet
  <2>2. Adds(f, Small(0), g)
    BY <2>1, Zenon DEF Adds
  <2>3. QED
    BY <2>2
<1>4. ASSUME NEW n \in Nat, n \in N
      PROVE  n + 1 \in N
  <2>1. PICK h : Adds(f, Small(n), h)
    BY <1>4
  <2> DEFINE g == [s \in Small(n + 1) |->
                     IF s = {} THEN 0 ELSE f[Pick(s)] + h[s \ {Pick(s)}]]
  <2>2. ASSUME NEW s \in Small(n + 1), s # {}
        PROVE  s \ {Pick(s)} \in Small(n)
    BY <1>1, <1>2, <2>2
  <2>3. ASSUME NEW s \in Small(n)
        PROVE  s \in Small(n + 1)
    BY <1>1
  <2>4. ASSUME NEW s \in Small(n)
        PROVE  g[s] = h[s]
    BY <2>1, <2>3, Zenon DEF Adds
  <2>5. Adds(f, Small(n + 1), g)
    BY <2>2, <2>4, Zenon DEF Adds
  <2>6. QED
    <3> HIDE DEF g, Small
    <3>1. QED
      BY <2>5
<1>5. Cardinality(D) \in N
  <2> HIDE DEF N
  <2>1. QED
    BY <1>1, <1>3, <1>4, NumberInduction
<1>6. Small(Cardinality(D)) = SUBSET D
  BY FS_Subset
<1>7. QED
  BY <1>5, <1>6 DEF AddsUp

(* Two such functions agree where both are defined.                        *)
LEMMA AddersAgree ==
  ASSUME NEW f, NEW D, IsFiniteSet(D), NEW g, AddsUp(f, D, g),
         NEW E, E \subseteq D, NEW h, AddsUp(f, E, h)
  PROVE  g[E] = h[E]
<1> DEFINE N == {n \in Nat : \A s \in SUBSET E : Cardinality(s) = n => g[s] = h[s]}
<1>1. \A s \in SUBSET E : IsFiniteSet(s) /\ Cardinality(s) \in Nat
  BY FS_Subset, FS_CardinalityType
<1>2. 0 \in N
  BY <1>1, FS_EmptySet DEF AddsUp, Adds
<1>3. ASSUME NEW n \in Nat, n \in N
      PROVE  n + 1 \in N
  <2> SUFFICES ASSUME NEW s \in SUBSET E, Cardinality(s) = n + 1
               PROVE  g[s] = h[s]
    OBVIOUS
  <2>1. s # {}
    BY <1>1, FS_EmptySet
  <2>2. /\ s \ {Pick(s)} \in SUBSET E
        /\ Cardinality(s \ {Pick(s)}) = n
    <3> HIDE DEF N
    <3>1. QED
      BY <1>1, <2>1, WithoutOne, PickIsElement
  <2>3. g[s \ {Pick(s)}] = h[s \ {Pick(s)}]
    BY <1>3, <2>2
  <2>4. /\ g[s] = f[Pick(s)] + g[s \ {Pick(s)}]
        /\ h[s] = f[Pick(s)] + h[s \ {Pick(s)}]
    BY <2>1, Zenon DEF AddsUp, Adds
  <2>5. QED
    BY <2>3, <2>4
<1>4. \A n \in Nat : n \in N
  <2> HIDE DEF N
  <2>1. QED
    BY <1>2, <1>3, NumberInduction
<1>5. QED
  BY <1>1, <1>4

-----------------------------------------------------------------------------
(* The sum over the empty set, and over a set without one of its elements. *)

LEMMA SumEmpty ==
  ASSUME NEW f
  PROVE  SumFunctionOnSet(f, {}) = 0
<1>1. PICK h : AddsUp(f, {}, h)
  BY AdderExists, FS_EmptySet
<1>2. PICK g : AddsUp(f, {}, g) /\ SumFunctionOnSet(f, {}) = g[{}]
  BY <1>1, SumIsChosen
<1>3. QED
  BY <1>2 DEF AddsUp, Adds

LEMMA SumPick ==
  ASSUME NEW f, NEW D, IsFiniteSet(D), D # {}
  PROVE  SumFunctionOnSet(f, D) = f[Pick(D)] + SumFunctionOnSet(f, D \ {Pick(D)})
<1> DEFINE E == D \ {Pick(D)}
<1>1. IsFiniteSet(E)
  BY FS_RemoveElement
<1>2. PICK g : AddsUp(f, D, g) /\ SumFunctionOnSet(f, D) = g[D]
  BY AdderExists, SumIsChosen
<1>3. PICK h : AddsUp(f, E, h) /\ SumFunctionOnSet(f, E) = h[E]
  BY <1>1, AdderExists, SumIsChosen
<1>4. g[E] = h[E]
  <2> HIDE DEF E
  <2>1. E \subseteq D
    BY DEF E
  <2>2. QED
    BY <1>2, <1>3, <2>1, AddersAgree
<1>5. g[D] = f[Pick(D)] + g[E]
  BY <1>2, Zenon DEF AddsUp, Adds
<1>6. QED
  BY <1>2, <1>3, <1>4, <1>5

LEMMA SumInt ==
  ASSUME NEW f, NEW D, IsFiniteSet(D), \A x \in D : f[x] \in Int
  PROVE  \A T \in SUBSET D : SumFunctionOnSet(f, T) \in Int
<1> DEFINE N == {n \in Nat : \A T \in SUBSET D :
                   Cardinality(T) = n => SumFunctionOnSet(f, T) \in Int}
<1>1. \A T \in SUBSET D : IsFiniteSet(T) /\ Cardinality(T) \in Nat
  BY FS_Subset, FS_CardinalityType
<1>2. 0 \in N
  BY <1>1, FS_EmptySet, SumEmpty
<1>3. ASSUME NEW n \in Nat, n \in N
      PROVE  n + 1 \in N
  <2> SUFFICES ASSUME NEW T \in SUBSET D, Cardinality(T) = n + 1
               PROVE  SumFunctionOnSet(f, T) \in Int
    OBVIOUS
  <2>1. T # {}
    BY <1>1, FS_EmptySet
  <2>2. Pick(T) \in T
    BY <2>1, PickIsElement
  <2>3. /\ T \ {Pick(T)} \in SUBSET D
        /\ Cardinality(T \ {Pick(T)}) = n
    <3> HIDE DEF N
    <3>1. QED
      BY <1>1, <2>2, WithoutOne
  <2>4. SumFunctionOnSet(f, T \ {Pick(T)}) \in Int
    BY <1>3, <2>3
  <2>5. SumFunctionOnSet(f, T) = f[Pick(T)] + SumFunctionOnSet(f, T \ {Pick(T)})
    BY <1>1, <2>1, SumPick
  <2>6. QED
    BY <2>2, <2>4, <2>5
<1>4. \A n \in Nat : n \in N
  <2> HIDE DEF N
  <2>1. QED
    BY <1>2, <1>3, NumberInduction
<1>5. QED
  BY <1>1, <1>4

LEMMA SumRemove ==
  ASSUME NEW f, NEW D, IsFiniteSet(D), \A x \in D : f[x] \in Int, NEW y \in D
  PROVE  SumFunctionOnSet(f, D) = f[y] + SumFunctionOnSet(f, D \ {y})
<1> DEFINE Sum(T) == SumFunctionOnSet(f, T)
           N == {n \in Nat : \A T \in SUBSET D :
                   Cardinality(T) = n => \A x \in T : Sum(T) = f[x] + Sum(T \ {x})}
<1>1. \A T \in SUBSET D : IsFiniteSet(T) /\ Cardinality(T) \in Nat
  BY FS_Subset, FS_CardinalityType
<1>2. 0 \in N
  BY <1>1, FS_EmptySet
<1>3. \A T \in SUBSET D : Sum(T) \in Int
  BY SumInt
<1>4. ASSUME NEW n \in Nat, n \in N
      PROVE  n + 1 \in N
  <2> SUFFICES ASSUME NEW T \in SUBSET D, Cardinality(T) = n + 1, NEW x \in T
               PROVE  Sum(T) = f[x] + Sum(T \ {x})
    OBVIOUS
  <2> DEFINE c == Pick(T)
  <2>1. c \in T
    BY PickIsElement
  <2> HIDE DEF c
  <2>2. Sum(T) = f[c] + Sum(T \ {c})
    BY <1>1, SumPick DEF c
  <2>3. CASE c = x
    BY <2>2, <2>3
  <2>4. CASE c # x
    <3>1. /\ Cardinality(T \ {c}) = n /\ T \ {c} \in SUBSET D /\ x \in T \ {c}
          /\ Cardinality(T \ {x}) = n /\ T \ {x} \in SUBSET D /\ c \in T \ {x}
      <4> HIDE DEF N, Sum
      <4>1. QED
        BY <1>1, <2>1, <2>4, WithoutOne
    <3>2. Sum(T \ {c}) = f[x] + Sum((T \ {c}) \ {x})
      BY <1>4, <3>1
    <3>3. Sum(T \ {x}) = f[c] + Sum((T \ {x}) \ {c})
      BY <1>4, <3>1
    <3>4. (T \ {c}) \ {x} = (T \ {x}) \ {c} /\ (T \ {c}) \ {x} \in SUBSET D
      OBVIOUS
    <3>5. f[x] \in Int /\ f[c] \in Int /\ Sum((T \ {c}) \ {x}) \in Int
      BY <1>3, <2>1
    <3>6. Sum((T \ {x}) \ {c}) = Sum((T \ {c}) \ {x})
      BY <3>4
    <3> HIDE DEF Sum, N
    <3>7. QED
      BY <2>2, <3>2, <3>3, <3>5, <3>6
  <2>5. QED
    BY <2>3, <2>4
<1>5. \A n \in Nat : n \in N
  <2> HIDE DEF N
  <2>1. QED
    BY <1>2, <1>4, NumberInduction
<1>6. QED
  BY <1>1, <1>5

LEMMA SumAdd ==
  ASSUME NEW f, NEW D, IsFiniteSet(D), \A x \in D : f[x] \in Int,
         NEW y, y \notin D, f[y] \in Int
  PROVE  SumFunctionOnSet(f, D \cup {y}) = f[y] + SumFunctionOnSet(f, D)
<1>1. IsFiniteSet(D \cup {y})
  BY FS_AddElement
<1>2. (D \cup {y}) \ {y} = D
  OBVIOUS
<1>3. SumFunctionOnSet(f, D \cup {y}) = f[y] + SumFunctionOnSet(f, (D \cup {y}) \ {y})
  BY <1>1, SumRemove
<1>4. QED
  BY <1>2, <1>3

-----------------------------------------------------------------------------
(* Functions that agree, sums of sums, multiples, bounds, and intervals.   *)

LEMMA SumEqual ==
  ASSUME NEW f, NEW g, NEW D, IsFiniteSet(D), \A x \in D : f[x] \in Int /\ f[x] = g[x]
  PROVE  SumFunctionOnSet(f, D) = SumFunctionOnSet(g, D)
<1> DEFINE P == {T \in SUBSET D : SumFunctionOnSet(f, T) = SumFunctionOnSet(g, T)}
<1>1. {} \in P
  BY SumEmpty
<1>2. ASSUME NEW T \in SUBSET D, NEW x \in D, T \in P, x \notin T
      PROVE  T \cup {x} \in P
  <2>1. IsFiniteSet(T) /\ \A y \in T : f[y] \in Int /\ g[y] \in Int
    BY FS_Subset
  <2>2. SumFunctionOnSet(f, T \cup {x}) = f[x] + SumFunctionOnSet(f, T)
    BY <1>2, <2>1, SumAdd
  <2>3. SumFunctionOnSet(g, T \cup {x}) = g[x] + SumFunctionOnSet(g, T)
    BY <1>2, <2>1, SumAdd
  <2>4. QED
    BY <1>2, <2>2, <2>3
<1>3. D \in P
  <2> HIDE DEF P
  <2>1. QED
    BY <1>1, <1>2, SubsetInduction
<1>4. QED
  BY <1>3

LEMMA SumUnion ==
  ASSUME NEW f, NEW D, NEW E, IsFiniteSet(D), IsFiniteSet(E), D \cap E = {},
         \A x \in D \cup E : f[x] \in Int
  PROVE  SumFunctionOnSet(f, D \cup E) = SumFunctionOnSet(f, D) + SumFunctionOnSet(f, E)
<1> DEFINE P == {T \in SUBSET E : SumFunctionOnSet(f, D \cup T)
                                     = SumFunctionOnSet(f, D) + SumFunctionOnSet(f, T)}
<1>1. {} \in P
  <2>1. D \cup {} = D /\ SumFunctionOnSet(f, D) \in Int
    BY SumInt
  <2>2. QED
    BY <2>1, SumEmpty
<1>2. ASSUME NEW T \in SUBSET E, NEW x \in E, T \in P, x \notin T
      PROVE  T \cup {x} \in P
  <2>1. /\ IsFiniteSet(T) /\ IsFiniteSet(D \cup T) /\ x \notin D \cup T
        /\ \A y \in D \cup T : f[y] \in Int
    BY <1>2, FS_Subset, FS_Union
  <2>2. SumFunctionOnSet(f, T \cup {x}) = f[x] + SumFunctionOnSet(f, T)
    BY <1>2, <2>1, SumAdd
  <2>3. SumFunctionOnSet(f, (D \cup T) \cup {x}) = f[x] + SumFunctionOnSet(f, D \cup T)
    BY <1>2, <2>1, SumAdd
  <2>4. /\ SumFunctionOnSet(f, T) \in Int /\ SumFunctionOnSet(f, D) \in Int
        /\ f[x] \in Int
    BY <2>1, SumInt
  <2>5. SumFunctionOnSet(f, D \cup (T \cup {x})) = SumFunctionOnSet(f, (D \cup T) \cup {x})
    <3>1. D \cup (T \cup {x}) = (D \cup T) \cup {x}
      OBVIOUS
    <3>2. QED
      BY <3>1, Zenon
  <2>6. SumFunctionOnSet(f, D \cup (T \cup {x}))
          = SumFunctionOnSet(f, D) + SumFunctionOnSet(f, T \cup {x})
    <3>1. SumFunctionOnSet(f, D \cup T)
            = SumFunctionOnSet(f, D) + SumFunctionOnSet(f, T)
      BY <1>2
    <3> HIDE DEF P
    <3>2. QED
      BY <2>2, <2>3, <2>4, <2>5, <3>1
  <2>7. QED
    BY <2>6
<1>3. E \in P
  <2> HIDE DEF P
  <2>1. QED
    BY <1>1, <1>2, SubsetInduction
<1>4. QED
  BY <1>3

LEMMA SumMultiple ==
  ASSUME NEW f, NEW g, NEW D, IsFiniteSet(D), NEW k \in Int,
         \A x \in D : f[x] \in Int /\ g[x] = k * f[x]
  PROVE  SumFunctionOnSet(g, D) = k * SumFunctionOnSet(f, D)
<1> DEFINE P == {T \in SUBSET D : SumFunctionOnSet(g, T) = k * SumFunctionOnSet(f, T)}
<1>1. {} \in P
  BY SumEmpty
<1>2. ASSUME NEW T \in SUBSET D, NEW x \in D, T \in P, x \notin T
      PROVE  T \cup {x} \in P
  <2>1. IsFiniteSet(T) /\ \A y \in T : f[y] \in Int /\ g[y] \in Int
    BY FS_Subset
  <2>2. SumFunctionOnSet(f, T \cup {x}) = f[x] + SumFunctionOnSet(f, T)
    BY <1>2, <2>1, SumAdd
  <2>3. SumFunctionOnSet(g, T \cup {x}) = g[x] + SumFunctionOnSet(g, T)
    BY <1>2, <2>1, SumAdd
  <2>4. SumFunctionOnSet(f, T) \in Int /\ f[x] \in Int
    BY <2>1, SumInt
  <2>5. \A a, b \in Int : k * a + k * b = k * (a + b)
    OBVIOUS
  <2>6. SumFunctionOnSet(g, T \cup {x}) = k * SumFunctionOnSet(f, T \cup {x})
    BY <1>2, <2>2, <2>3, <2>4, <2>5
  <2>7. QED
    BY <2>6
<1>3. D \in P
  <2> HIDE DEF P
  <2>1. QED
    BY <1>1, <1>2, SubsetInduction
<1>4. QED
  BY <1>3

LEMMA SumAtMost ==
  ASSUME NEW f, NEW g, NEW D, IsFiniteSet(D),
         \A x \in D : f[x] \in Int /\ g[x] \in Int /\ f[x] <= g[x]
  PROVE  SumFunctionOnSet(f, D) <= SumFunctionOnSet(g, D)
<1> DEFINE P == {T \in SUBSET D : SumFunctionOnSet(f, T) <= SumFunctionOnSet(g, T)}
<1>1. {} \in P
  BY SumEmpty
<1>2. ASSUME NEW T \in SUBSET D, NEW x \in D, T \in P, x \notin T
      PROVE  T \cup {x} \in P
  <2>1. IsFiniteSet(T) /\ \A y \in T : f[y] \in Int /\ g[y] \in Int
    BY FS_Subset
  <2>2. SumFunctionOnSet(f, T \cup {x}) = f[x] + SumFunctionOnSet(f, T)
    BY <1>2, <2>1, SumAdd
  <2>3. SumFunctionOnSet(g, T \cup {x}) = g[x] + SumFunctionOnSet(g, T)
    BY <1>2, <2>1, SumAdd
  <2>4. SumFunctionOnSet(f, T) \in Int /\ SumFunctionOnSet(g, T) \in Int
    BY <2>1, SumInt
  <2>5. QED
    BY <1>2, <2>2, <2>3, <2>4
<1>3. D \in P
  <2> HIDE DEF P
  <2>1. QED
    BY <1>1, <1>2, SubsetInduction
<1>4. QED
  BY <1>3

LEMMA SumZero ==
  ASSUME NEW f, NEW D, IsFiniteSet(D), \A x \in D : f[x] = 0
  PROVE  SumFunctionOnSet(f, D) = 0
<1> DEFINE P == {T \in SUBSET D : SumFunctionOnSet(f, T) = 0}
<1>1. {} \in P
  BY SumEmpty
<1>2. ASSUME NEW T \in SUBSET D, NEW x \in D, T \in P, x \notin T
      PROVE  T \cup {x} \in P
  <2>1. IsFiniteSet(T) /\ \A y \in T : f[y] \in Int
    BY FS_Subset
  <2>2. SumFunctionOnSet(f, T \cup {x}) = f[x] + SumFunctionOnSet(f, T)
    BY <1>2, <2>1, SumAdd
  <2>3. QED
    BY <1>2, <2>2
<1>3. D \in P
  <2> HIDE DEF P
  <2>1. QED
    BY <1>1, <1>2, SubsetInduction
<1>4. QED
  BY <1>3

LEMMA SumNat ==
  ASSUME NEW f, NEW D, IsFiniteSet(D), \A x \in D : f[x] \in Nat
  PROVE  SumFunctionOnSet(f, D) \in Nat
<1> DEFINE z == [x \in D |-> 0]
<1>1. SumFunctionOnSet(z, D) = 0
  BY SumZero
<1>2. SumFunctionOnSet(z, D) <= SumFunctionOnSet(f, D)
  <2>1. \A x \in D : z[x] \in Int /\ f[x] \in Int /\ z[x] <= f[x]
    OBVIOUS
  <2> HIDE DEF z
  <2>2. QED
    BY <2>1, SumAtMost
<1>3. SumFunctionOnSet(f, D) \in Int
  BY SumInt
<1>4. QED
  BY <1>1, <1>2, <1>3

LEMMA SumNext ==
  ASSUME NEW f, NEW n \in Nat, \A i \in 0..n : f[i] \in Int
  PROVE  SumFunctionOnSet(f, 0..n) = SumFunctionOnSet(f, 0..(n - 1)) + f[n]
<1>1. IsFiniteSet(0..(n - 1)) /\ n \notin 0..(n - 1) /\ 0..n = (0..(n - 1)) \cup {n}
  <2>1. 0 \in Int /\ n - 1 \in Int
    OBVIOUS
  <2>2. IsFiniteSet(0..(n - 1))
    BY <2>1, FS_Interval
  <2>3. QED
    BY <2>2
<1>2. SumFunctionOnSet(f, (0..(n - 1)) \cup {n}) = f[n] + SumFunctionOnSet(f, 0..(n - 1))
  BY <1>1, SumAdd
<1>3. SumFunctionOnSet(f, 0..(n - 1)) \in Int
  BY <1>1, SumInt
<1>4. SumFunctionOnSet(f, 0..n) = SumFunctionOnSet(f, (0..(n - 1)) \cup {n})
  BY <1>1, Zenon
<1>5. QED
  BY <1>2, <1>3, <1>4

-----------------------------------------------------------------------------
(* Powers of two.  The provers know no law of exponents; a power of two is *)
(* the number of subsets of a set, and sets can be counted.                *)

LEMMA PowerIsCount ==
  ASSUME NEW n \in Nat
  PROVE  /\ 2^n = Cardinality(SUBSET (1..n))
         /\ IsFiniteSet(SUBSET (1..n))
<1>1. IsFiniteSet(1..n) /\ Cardinality(1..n) = n
  BY FS_Interval
<1>2. Cardinality(SUBSET (1..n)) = 2^Cardinality(1..n) /\ IsFiniteSet(SUBSET (1..n))
  BY <1>1, FS_SUBSET
<1>3. QED
  BY <1>1, <1>2, Zenon

LEMMA PowerNat ==
  ASSUME NEW n \in Nat
  PROVE  2^n \in Nat /\ 2^n > 0
<1> DEFINE S == SUBSET (1..n)
<1>1. 2^n = Cardinality(S) /\ IsFiniteSet(S)
  BY PowerIsCount
<1>2. {} \in S
  OBVIOUS
<1> HIDE DEF S
<1>3. Cardinality(S) \in Nat /\ Cardinality(S) # 0
  BY <1>1, <1>2, FS_CardinalityType, FS_EmptySet
<1>4. QED
  BY <1>1, <1>3

LEMMA PowerNext ==
  ASSUME NEW n \in Nat
  PROVE  2^(n + 1) = 2 * 2^n
<1> DEFINE S == SUBSET (1..n)
           T == {s \cup {n + 1} : s \in S}
           f == [s \in S |-> s \cup {n + 1}]
<1>1. 2^n = Cardinality(S) /\ IsFiniteSet(S)
  BY PowerIsCount
<1>2. 2^(n + 1) = Cardinality(SUBSET (1..(n + 1)))
  <2>1. n + 1 \in Nat
    OBVIOUS
  <2>2. QED
    BY <2>1, PowerIsCount
<1>3. SUBSET (1..(n + 1)) = S \cup T
  <2>1. ASSUME NEW t \in SUBSET (1..(n + 1))
        PROVE  t \in S \cup T
    <3>1. CASE n + 1 \in t
      <4>1. t \ {n + 1} \in S /\ t = (t \ {n + 1}) \cup {n + 1}
        BY <3>1
      <4>2. QED
        BY <4>1
    <3>2. CASE n + 1 \notin t
      BY <3>2
    <3>3. QED
      BY <3>1, <3>2
  <2>2. ASSUME NEW t \in S \cup T
        PROVE  t \in SUBSET (1..(n + 1))
    OBVIOUS
  <2>3. QED
    BY <2>1, <2>2
<1>4. S \cap T = {}
  <2>1. \A s \in S : n + 1 \notin s
    OBVIOUS
  <2>2. \A t \in T : n + 1 \in t
    OBVIOUS
  <2>3. QED
    BY <2>1, <2>2
<1>5. f \in Bijection(S, T)
  <2>1. ASSUME NEW s \in S
        PROVE  s = (s \cup {n + 1}) \ {n + 1}
    OBVIOUS
  <2>2. ASSUME NEW s \in S, NEW t \in S, f[s] = f[t]
        PROVE  s = t
    <3>1. s \cup {n + 1} = t \cup {n + 1}
      BY <2>2
    <3>2. (s \cup {n + 1}) \ {n + 1} = (t \cup {n + 1}) \ {n + 1}
      BY <3>1
    <3>3. QED
      BY <2>1, <3>2
  <2>3. f \in [S -> T] /\ \A t \in T : \E s \in S : f[s] = t
    OBVIOUS
  <2> HIDE DEF f, S, T
  <2>4. QED
    BY <2>2, <2>3 DEF Bijection, Injection, Surjection, IsInjective
<1>6. IsFiniteSet(T) /\ Cardinality(T) = Cardinality(S)
  <2> HIDE DEF f, S, T
  <2>1. QED
    BY <1>1, <1>5, FS_Bijection DEF ExistsBijection
<1>7. Cardinality(S \cup T) = Cardinality(S) + Cardinality(T)
  <2> HIDE DEF f, S, T
  <2>1. Cardinality(S \cap T) = 0
    BY <1>4, FS_EmptySet
  <2>2. Cardinality(S \cup T) = Cardinality(S) + Cardinality(T) - Cardinality(S \cap T)
    BY <1>1, <1>6, FS_Union
  <2>3. Cardinality(S) \in Nat /\ Cardinality(T) \in Nat
    BY <1>1, <1>6, FS_CardinalityType
  <2>4. QED
    BY <2>1, <2>2, <2>3
<1>8. 2^(n + 1) = Cardinality(S \cup T)
  BY <1>2, <1>3, Zenon
<1>9. Cardinality(S) \in Nat
  BY <1>1, FS_CardinalityType
<1> HIDE DEF S, T, f
<1>10. QED
  BY <1>1, <1>6, <1>7, <1>8, <1>9

LEMMA PowerSum ==
  ASSUME NEW m \in Nat, NEW n \in Nat
  PROVE  2^(m + n) = 2^m * 2^n
<1> DEFINE N == {k \in Nat : 2^(m + k) = 2^m * 2^k}
<1>1. 0 \in N
  <2>1. 2^0 = 1 /\ 2^m \in Nat /\ m + 0 = m
    BY PowerNat
  <2>2. QED
    BY <2>1
<1>2. ASSUME NEW k \in Nat, k \in N
      PROVE  k + 1 \in N
  <2>1. 2^(m + k + 1) = 2 * 2^(m + k) /\ 2^(k + 1) = 2 * 2^k
    BY PowerNext
  <2>2. 2^(m + k) = 2^m * 2^k
    BY <1>2
  <2>3. 2^m \in Nat /\ 2^k \in Nat
    BY PowerNat
  <2>4. \A a, b \in Nat : 2 * (a * b) = a * (2 * b)
    OBVIOUS
  <2>5. m + (k + 1) = m + k + 1
    OBVIOUS
  <2>6. 2^(m + (k + 1)) = 2^m * 2^(k + 1)
    BY <2>1, <2>2, <2>3, <2>4, <2>5
  <2>7. QED
    BY <2>6
<1>3. n \in N
  <2> HIDE DEF N
  <2>1. QED
    BY <1>1, <1>2, NumberInduction
<1>4. QED
  BY <1>3

LEMMA PowerExceeds ==
  ASSUME NEW n \in Nat
  PROVE  n < 2^n
<1> DEFINE N == {k \in Nat : k < 2^k}
<1>1. 0 \in N
  OBVIOUS
<1>2. ASSUME NEW k \in Nat, k \in N
      PROVE  k + 1 \in N
  <2>1. 2^(k + 1) = 2 * 2^k /\ 2^k \in Nat /\ k < 2^k
    BY <1>2, PowerNext, PowerNat
  <2>2. QED
    BY <2>1
<1>3. n \in N
  <2> HIDE DEF N
  <2>1. QED
    BY <1>1, <1>2, NumberInduction
<1>4. QED
  BY <1>3

LEMMA PowerMonotone ==
  ASSUME NEW m \in Nat, NEW n \in Nat, m <= n
  PROVE  2^m <= 2^n
<1>1. n - m \in Nat /\ m + (n - m) = n
  OBVIOUS
<1>2. 2^n = 2^m * 2^(n - m)
  BY <1>1, PowerSum
<1>3. 2^m \in Nat /\ 2^(n - m) \in Nat /\ 2^(n - m) >= 1
  BY <1>1, PowerNat
<1>4. \A a, b \in Nat : b >= 1 => a <= a * b
  OBVIOUS
<1>5. QED
  BY <1>2, <1>3, <1>4
================================================================================
