---------------------------- MODULE SumTheorems -----------------------------
(***************************************************************************)
(* Sums over finite sets (SumFunctionOnSet of Functions): what the parts   *)
(* ordered, the shares of a document and the payments of a case are added  *)
(* up with.  The theorems of the library on recursive definitions and on   *)
(* induction take operators as parameters; here the recursion is followed  *)
(* with functions, and induction is the search for a smallest subset that  *)
(* goes wrong.                                                             *)
(***************************************************************************)
EXTENDS FiniteSetsExt, FiniteSetTheorems, TLAPS

\* The element that a sum takes first.
Pick(s) == CHOOSE x \in s : TRUE

\* g adds up f over every subset of S.
Adds(g, f, S) ==
  g = [s \in SUBSET S |-> IF s = {} THEN 0 ELSE f[Pick(s)] + g[s \ {Pick(s)}]]

\* Among sets of subsets of a finite set some have no smaller one beside them.
LEMMA SmallestSubset ==
  ASSUME NEW S, IsFiniteSet(S), NEW Bad \in SUBSET (SUBSET S), Bad # {}
  PROVE  \E T \in Bad : \A U \in SUBSET T : U # T => U \notin Bad
<1>1. IsWellFoundedOn(StrictSubsetOrdering(S), SUBSET S)
  BY FS_StrictSubsetOrderingWellFounded, FS_FiniteSubsetsOfFinite
<1>2. PICK T \in Bad : \A U \in Bad : ~ (<<U, T>> \in StrictSubsetOrdering(S))
  <2>1. Bad \subseteq SUBSET S
    OBVIOUS
  <2>. QED
    BY <1>1, <2>1, WFMin
<1>3. ASSUME NEW U \in SUBSET T, U # T PROVE U \notin Bad
  <2>1. U \in SUBSET S /\ T \in SUBSET S
    OBVIOUS
  <2>2. <<U, T>> \in StrictSubsetOrdering(S)
    BY <1>3, <2>1 DEF StrictSubsetOrdering
  <2>. QED
    BY <1>2, <2>2
<1>. QED
  BY <1>3

\* The sum is that of any function that adds up, of which there is one.
LEMMA SumIsChosen ==
  ASSUME NEW f, NEW S
  PROVE  SumFunctionOnSet(f, S) = (CHOOSE g : Adds(g, f, S))[S]
BY DEF SumFunctionOnSet, FoldFunctionOnSet, MapThenFoldSet, Adds, Pick

\* A function that adds up, step by step.
LEMMA AddsStep ==
  ASSUME NEW f, NEW S, NEW g, Adds(g, f, S), NEW T \in SUBSET S
  PROVE  g[T] = IF T = {} THEN 0 ELSE f[Pick(T)] + g[T \ {Pick(T)}]
BY DEF Adds

LEMMA PickIn ==
  ASSUME NEW T, T # {}
  PROVE  /\ Pick(T) \in T
         /\ T \ {Pick(T)} \in SUBSET T
         /\ T \ {Pick(T)} # T
BY DEF Pick

\* Two functions that add up agree.
LEMMA AddsAgree ==
  ASSUME NEW f, NEW A, IsFiniteSet(A), NEW B \in SUBSET A, NEW g, NEW h,
         Adds(g, f, A), Adds(h, f, B)
  PROVE  g[B] = h[B]
<1> DEFINE Bad == {T \in SUBSET A : T \in SUBSET B /\ g[T] # h[T]}
<1>1. SUFFICES ASSUME Bad # {} PROVE FALSE
  <2>1. B \notin Bad
    BY <1>1
  <2>. QED
    BY <2>1
<1>2. Bad \in SUBSET (SUBSET A)
  OBVIOUS
<1>3. PICK T \in Bad : \A U \in SUBSET T : U # T => U \notin Bad
  <2> HIDE DEF Bad
  <2>. QED
    BY <1>1, <1>2, SmallestSubset
<1>4. T \in SUBSET A /\ T \in SUBSET B /\ g[T] # h[T]
  OBVIOUS
<1> HIDE DEF Bad
<1>5. /\ g[T] = IF T = {} THEN 0 ELSE f[Pick(T)] + g[T \ {Pick(T)}]
      /\ h[T] = IF T = {} THEN 0 ELSE f[Pick(T)] + h[T \ {Pick(T)}]
  BY <1>4 DEF Adds
<1>6. T # {}
  BY <1>4, <1>5
<1>7. T \ {Pick(T)} \in SUBSET T /\ T \ {Pick(T)} # T
  BY <1>6, PickIn
<1>8. g[T \ {Pick(T)}] = h[T \ {Pick(T)}]
  BY <1>3, <1>4, <1>7 DEF Bad
<1>. QED
  BY <1>4, <1>5, <1>8

\* There is a function that adds up over the subsets of a finite set.
LEMMA AddsExists ==
  ASSUME NEW f, NEW S, IsFiniteSet(S)
  PROVE  \E g : Adds(g, f, S)
<1> DEFINE Bad == {T \in SUBSET S : ~ \E g : Adds(g, f, T)}
<1>1. SUFFICES ASSUME Bad # {} PROVE FALSE
  OBVIOUS
<1>2. Bad \in SUBSET (SUBSET S)
  OBVIOUS
<1>3. PICK T \in Bad : \A U \in SUBSET T : U # T => U \notin Bad
  <2> HIDE DEF Bad
  <2>. QED
    BY <1>1, <1>2, SmallestSubset
<1>4. T \in SUBSET S /\ ~ \E g : Adds(g, f, T)
  OBVIOUS
<1> DEFINE part[U \in SUBSET T] == CHOOSE g : Adds(g, f, U)
           whole == [s \in SUBSET T |->
                       IF s = {} THEN 0
                       ELSE f[Pick(s)] + part[s \ {Pick(s)}][s \ {Pick(s)}]]
<1>5. ASSUME NEW U \in SUBSET T, U # T PROVE Adds(part[U], f, U)
  <2>1. U \in SUBSET S /\ U \notin Bad
    BY <1>3, <1>4, <1>5
  <2>2. \E g : Adds(g, f, U)
    BY <2>1
  <2>3. part[U] = CHOOSE g : Adds(g, f, U)
    OBVIOUS
  <2>. QED
    BY <2>2, <2>3
<1> HIDE DEF part, Bad
<1>6. ASSUME NEW U \in SUBSET T, U # T PROVE whole[U] = part[U][U]
  <2>1. PICK a : a = part[U] /\ Adds(a, f, U)
    BY <1>5, <1>6
  <2>2. U \in SUBSET U
    OBVIOUS
  <2>3. a[U] = IF U = {} THEN 0 ELSE f[Pick(U)] + a[U \ {Pick(U)}]
    BY <2>1, <2>2, AddsStep
  <2>4. CASE U = {}
    BY <2>1, <2>3, <2>4
  <2>5. CASE U # {}
    <3>1. PICK V : V = U \ {Pick(U)}
      OBVIOUS
    <3>2. V \in SUBSET U /\ V \in SUBSET T /\ V # T
      BY <1>6, <2>5, <3>1, PickIn
    <3>3. PICK b : b = part[V] /\ Adds(b, f, V)
      BY <1>5, <3>2
    <3>4. IsFiniteSet(U)
      BY <1>4, FS_Subset
    <3>5. a[V] = b[V]
      <4>1. Adds(a, f, U)
        BY <2>1
      <4>2. Adds(b, f, V)
        BY <3>3
      <4>3. V \in SUBSET U
        BY <3>2
      <4> HIDE DEF whole
      <4>. QED
        BY <3>4, <4>1, <4>2, <4>3, AddsAgree
    <3>6. whole[U] = f[Pick(U)] + part[V][V]
      BY <2>5, <3>1
    <3>. QED
      BY <2>1, <2>3, <2>5, <3>1, <3>3, <3>5, <3>6
  <2>. QED
    BY <2>4, <2>5
<1>7. Adds(whole, f, T)
  <2>1. ASSUME NEW s \in SUBSET T
        PROVE  (IF s = {} THEN 0
                ELSE f[Pick(s)] + part[s \ {Pick(s)}][s \ {Pick(s)}]) =
               (IF s = {} THEN 0 ELSE f[Pick(s)] + whole[s \ {Pick(s)}])
    <3>1. CASE s # {}
      <4>1. /\ s \ {Pick(s)} \in SUBSET T
            /\ s \ {Pick(s)} # T
        BY <3>1, PickIn
      <4>. QED
        BY <1>6, <4>1
    <3>. QED
      BY <3>1
  <2>. QED
    BY <2>1 DEF Adds
<1>. QED
  BY <1>4, <1>7

\* A sum is that of the element taken first and of the rest.
LEMMA SumStep ==
  ASSUME NEW f, NEW S, IsFiniteSet(S)
  PROVE  SumFunctionOnSet(f, S) =
           IF S = {} THEN 0
           ELSE f[Pick(S)] + SumFunctionOnSet(f, S \ {Pick(S)})
<1> DEFINE g == CHOOSE x : Adds(x, f, S)
           R == S \ {Pick(S)}
           h == CHOOSE x : Adds(x, f, R)
<1>1. Adds(g, f, S)
  BY AddsExists
<1>2. g[S] = IF S = {} THEN 0 ELSE f[Pick(S)] + g[R]
  <2>1. S \in SUBSET S
    OBVIOUS
  <2> HIDE DEF g
  <2>. QED
    BY <1>1, <2>1, AddsStep
<1>3. IsFiniteSet(R)
  BY FS_Subset
<1>4. Adds(h, f, R)
  BY <1>3, AddsExists
<1>5. g[R] = h[R]
  <2>1. R \in SUBSET S
    OBVIOUS
  <2> HIDE DEF g, h, R
  <2>. QED
    BY <1>1, <1>4, <2>1, AddsAgree
<1>6. SumFunctionOnSet(f, S) = g[S] /\ SumFunctionOnSet(f, R) = h[R]
  BY SumIsChosen
<1>. QED
  BY <1>2, <1>5, <1>6

-----------------------------------------------------------------------------
(* What is used of sums elsewhere.                                         *)

\* Nothing comes to zero.
THEOREM SumEmpty ==
  ASSUME NEW f
  PROVE  SumFunctionOnSet(f, {}) = 0
BY SumStep, FS_EmptySet

\* A sum of integers is one.
THEOREM SumType ==
  ASSUME NEW f, NEW S, IsFiniteSet(S), \A x \in S : f[x] \in Int
  PROVE  SumFunctionOnSet(f, S) \in Int
<1> DEFINE Bad == {T \in SUBSET S : SumFunctionOnSet(f, T) \notin Int}
<1>1. SUFFICES ASSUME Bad # {} PROVE FALSE
  OBVIOUS
<1>2. Bad \in SUBSET (SUBSET S)
  OBVIOUS
<1>3. PICK T \in Bad : \A U \in SUBSET T : U # T => U \notin Bad
  <2> HIDE DEF Bad
  <2>. QED
    BY <1>1, <1>2, SmallestSubset
<1>4. T \in SUBSET S /\ SumFunctionOnSet(f, T) \notin Int /\ IsFiniteSet(T)
  BY FS_Subset
<1>5. T # {}
  BY <1>4, SumEmpty
<1>6. SumFunctionOnSet(f, T \ {Pick(T)}) \in Int /\ f[Pick(T)] \in Int
  BY <1>3, <1>4, <1>5, PickIn
<1>. QED
  BY <1>4, <1>5, <1>6, SumStep

\* Any element can be taken first.
THEOREM SumRemove ==
  ASSUME NEW f, NEW S, IsFiniteSet(S), \A y \in S : f[y] \in Int, NEW x \in S
  PROVE  SumFunctionOnSet(f, S) = f[x] + SumFunctionOnSet(f, S \ {x})
<1> DEFINE Wrong(T, y) ==
             SumFunctionOnSet(f, T) # f[y] + SumFunctionOnSet(f, T \ {y})
           Bad == {T \in SUBSET S : \E y \in T : Wrong(T, y)}
<1>1. SUFFICES ASSUME Bad # {} PROVE FALSE
  OBVIOUS
<1>2. Bad \in SUBSET (SUBSET S)
  OBVIOUS
<1>3. PICK T \in Bad : \A U \in SUBSET T : U # T => U \notin Bad
  <2> HIDE DEF Bad
  <2>. QED
    BY <1>1, <1>2, SmallestSubset
<1>4. T \in SUBSET S /\ IsFiniteSet(T)
  BY FS_Subset
<1>5. PICK y \in T : Wrong(T, y)
  OBVIOUS
<1> DEFINE z == Pick(T)
           rest == (T \ {y}) \ {z}
<1>6. z \in T
  BY <1>5, PickIn
<1>7. SumFunctionOnSet(f, T) = f[z] + SumFunctionOnSet(f, T \ {z})
  BY <1>4, <1>5, SumStep
<1>8. z # y
  BY <1>5, <1>7
<1>9. \A U \in SUBSET T : U # T => \A v \in U : ~Wrong(U, v)
  BY <1>3, <1>4
<1> HIDE DEF z, Bad
<1>10. SumFunctionOnSet(f, T \ {z}) = f[y] + SumFunctionOnSet(f, rest)
  <2>1. T \ {z} \in SUBSET T /\ T \ {z} # T /\ y \in T \ {z}
    BY <1>6, <1>8
  <2>2. (T \ {z}) \ {y} = rest
    OBVIOUS
  <2>. QED
    BY <1>9, <2>1, <2>2
<1>11. SumFunctionOnSet(f, T \ {y}) = f[z] + SumFunctionOnSet(f, rest)
  <2>1. T \ {y} \in SUBSET T /\ T \ {y} # T /\ z \in T \ {y}
    BY <1>6, <1>8
  <2>. QED
    BY <1>9, <2>1
<1>12. /\ f[y] \in Int /\ f[z] \in Int
       /\ SumFunctionOnSet(f, rest) \in Int
  <2>1. rest \in SUBSET S /\ IsFiniteSet(rest)
    BY <1>4, FS_Subset
  <2>2. \A v \in rest : f[v] \in Int
    BY <2>1
  <2>. QED
    BY <1>4, <1>6, <2>1, <2>2, SumType
<1>. QED
  <2>1. SumFunctionOnSet(f, T) # f[y] + SumFunctionOnSet(f, T \ {y})
    BY <1>5
  <2> HIDE DEF rest, Wrong
  <2>. QED
    BY <1>7, <1>10, <1>11, <1>12, <2>1

\* An element more adds its number.
THEOREM SumAdd ==
  ASSUME NEW f, NEW S, IsFiniteSet(S), NEW x, x \notin S,
         \A y \in S \cup {x} : f[y] \in Int
  PROVE  SumFunctionOnSet(f, S \cup {x}) = SumFunctionOnSet(f, S) + f[x]
<1>1. IsFiniteSet(S \cup {x}) /\ (S \cup {x}) \ {x} = S
  BY FS_AddElement
<1>2. SumFunctionOnSet(f, S \cup {x}) = f[x] + SumFunctionOnSet(f, S)
  BY <1>1, SumRemove
<1>3. SumFunctionOnSet(f, S) \in Int /\ f[x] \in Int
  BY SumType
<1>. QED
  BY <1>2, <1>3

\* Functions that agree on a set have the same sum over it.
THEOREM SumSame ==
  ASSUME NEW f, NEW g, NEW S, IsFiniteSet(S), \A x \in S : f[x] = g[x]
  PROVE  SumFunctionOnSet(f, S) = SumFunctionOnSet(g, S)
<1> DEFINE Bad == {T \in SUBSET S : SumFunctionOnSet(f, T) # SumFunctionOnSet(g, T)}
<1>1. SUFFICES ASSUME Bad # {} PROVE FALSE
  OBVIOUS
<1>2. Bad \in SUBSET (SUBSET S)
  OBVIOUS
<1>3. PICK T \in Bad : \A U \in SUBSET T : U # T => U \notin Bad
  <2> HIDE DEF Bad
  <2>. QED
    BY <1>1, <1>2, SmallestSubset
<1>4. /\ T \in SUBSET S /\ IsFiniteSet(T)
      /\ SumFunctionOnSet(f, T) # SumFunctionOnSet(g, T)
  BY FS_Subset
<1>5. T # {}
  BY <1>4, SumEmpty
<1>6. /\ SumFunctionOnSet(f, T \ {Pick(T)}) = SumFunctionOnSet(g, T \ {Pick(T)})
      /\ f[Pick(T)] = g[Pick(T)]
  BY <1>3, <1>4, <1>5, PickIn
<1>. QED
  BY <1>4, <1>5, <1>6, SumStep

\* Of numbers that are not negative, fewer come to no more.
THEOREM SumMonotone ==
  ASSUME NEW f, NEW S, IsFiniteSet(S), \A x \in S : f[x] \in Nat,
         NEW R \in SUBSET S
  PROVE  SumFunctionOnSet(f, R) \in Nat /\ SumFunctionOnSet(f, R) <= SumFunctionOnSet(f, S)
<1> DEFINE Sum(T) == SumFunctionOnSet(f, T)
           Bad == {T \in SUBSET S : ~ /\ Sum(T) \in Nat
                                      /\ \A U \in SUBSET T : Sum(U) <= Sum(T)}
<1>0. ASSUME NEW T \in SUBSET S PROVE IsFiniteSet(T) /\ Sum(T) \in Int
  <2>1. IsFiniteSet(T) /\ \A x \in T : f[x] \in Int
    BY FS_Subset
  <2>. QED
    BY <2>1, SumType
<1>1. SUFFICES ASSUME Bad # {} PROVE FALSE
  <2>1. S \notin Bad /\ R \notin Bad
    BY <1>1
  <2>. QED
    BY <2>1
<1>2. Bad \in SUBSET (SUBSET S)
  OBVIOUS
<1>3. PICK T \in Bad : \A U \in SUBSET T : U # T => U \notin Bad
  <2> HIDE DEF Bad
  <2>. QED
    BY <1>1, <1>2, SmallestSubset
<1>4. T \in SUBSET S /\ IsFiniteSet(T) /\ \A x \in T : f[x] \in Int
  BY <1>0
<1> HIDE DEF Sum
<1>5. ASSUME NEW U \in SUBSET T, U # T
      PROVE  Sum(U) \in Nat /\ \A V \in SUBSET U : Sum(V) <= Sum(U)
  BY <1>3, <1>4, <1>5
<1>6. ASSUME NEW U \in SUBSET T, U # T PROVE Sum(T) \in Nat /\ Sum(U) <= Sum(T)
  <2>1. PICK x \in T : x \notin U
    BY <1>6
  <2>2. Sum(T) = f[x] + Sum(T \ {x})
    BY <1>4, SumRemove DEF Sum
  <2>3. Sum(T \ {x}) \in Nat /\ Sum(U) <= Sum(T \ {x})
    BY <1>5, <2>1
  <2>4. f[x] \in Nat /\ Sum(U) \in Nat
    BY <1>4, <1>5, <1>6
  <2>. QED
    BY <2>2, <2>3, <2>4
<1>7. Sum(T) \in Nat
  <2>1. CASE T = {}
    BY <2>1, SumEmpty DEF Sum
  <2>2. CASE T # {}
    <3>1. T \ {Pick(T)} \in SUBSET T /\ T \ {Pick(T)} # T
      BY <2>2, PickIn
    <3>. QED
      BY <1>6, <3>1
  <2>. QED
    BY <2>1, <2>2
<1>8. \A U \in SUBSET T : Sum(U) <= Sum(T)
  BY <1>6, <1>7
<1>. QED
  BY <1>4, <1>7, <1>8

=============================================================================
