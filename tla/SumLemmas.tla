----------------------------- MODULE SumLemmas -----------------------------
(***************************************************************************)
(* Sums over finite sets, as SumFunctionOnSet of the community module      *)
(* Functions computes them: one element at a time, the choice of element   *)
(* left open.  A sum is a value of a recursive function; that there is     *)
(* one, and that the choice does not matter, are inductions over the       *)
(* subsets of the set, here an argument about a smallest counterexample.   *)
(***************************************************************************)
EXTENDS Integers, FiniteSets, FiniteSetTheorems, WellFoundedInduction, Functions, TLAPS

(***************************************************************************)
(* What holds of a subset whenever it holds of those with one element less *)
(* holds of all subsets of a finite set.                                   *)
(***************************************************************************)
LEMMA SubsetInduction ==
    ASSUME NEW S, IsFiniteSet(S), NEW Good,
           \A T \in SUBSET S : (\A x \in T : T \ {x} \in Good) => T \in Good
    PROVE  \A T \in SUBSET S : T \in Good
<1> DEFINE Bad == (SUBSET S) \ Good
<1> SUFFICES ASSUME Bad # {} PROVE FALSE
  OBVIOUS
<1>1. \E T \in Bad : \A U \in Bad : <<U, T>> \notin StrictSubsetOrdering(S)
  <2>1. IsWellFoundedOn(StrictSubsetOrdering(S), FiniteSubsetsOf(S))
    BY FS_StrictSubsetOrderingWellFounded
  <2>2. Bad \subseteq FiniteSubsetsOf(S)
    BY FS_FiniteSubsetsOfFinite
  <2> HIDE DEF Bad
  <2> QED
    BY <2>1, <2>2, WFMin
<1>2. PICK T \in Bad : \A U \in Bad : <<U, T>> \notin StrictSubsetOrdering(S)
  BY <1>1
<1>3. PICK x \in T : T \ {x} \notin Good
  OBVIOUS
<1>4. T \ {x} \in Bad
  BY <1>3
<1>5. <<T \ {x}, T>> \in StrictSubsetOrdering(S)
  <2>1. T \ {x} \in SUBSET S /\ T \in SUBSET S
    OBVIOUS
  <2>2. T \ {x} \subseteq T /\ T \ {x} # T
    BY <1>3
  <2> QED
    BY <2>1, <2>2 DEF StrictSubsetOrdering
<1> QED
  BY <1>2, <1>4, <1>5

(***************************************************************************)
(* An image of a finite set is finite.                                     *)
(***************************************************************************)
LEMMA ImageFinite ==
    ASSUME NEW S, IsFiniteSet(S), NEW f
    PROVE  IsFiniteSet({f[x] : x \in S})
<1> DEFINE image(T) == {f[x] : x \in T}
           Good == {T \in SUBSET S : IsFiniteSet(image(T))}
<1>1. ASSUME NEW T \in SUBSET S, \A x \in T : T \ {x} \in Good
      PROVE  T \in Good
  <2>1. CASE T = {}
    <3>1. image(T) = {}
      BY <2>1
    <3> QED
      BY <3>1, FS_EmptySet
  <2>2. CASE T # {}
    <3>1. PICK y : y \in T
      BY <2>2
    <3>2. IsFiniteSet(image(T \ {y}))
      BY <1>1, <3>1
    <3>3. image(T) = image(T \ {y}) \cup {f[y]}
      BY <3>1
    <3> HIDE DEF image
    <3>4. IsFiniteSet(image(T \ {y}) \cup {f[y]})
      BY <3>2, FS_AddElement
    <3> QED
      BY <3>3, <3>4
  <2> QED
    BY <2>1, <2>2
<1>2. \A T \in SUBSET S : T \in Good
  <2> HIDE DEF Good
  <2> QED
    BY <1>1, SubsetInduction
<1> QED
  BY <1>2

-----------------------------------------------------------------------------
(***************************************************************************)
(* The recursion a sum is computed by, on one subset and on all of them.   *)
(***************************************************************************)
Pick(s) == CHOOSE x \in s : TRUE

Step(g, w, s) == IF s = {} THEN 0 ELSE w[Pick(s)] + g[s \ {Pick(s)}]

IsSum(g, w, S) == g = [s \in SUBSET S |-> Step(g, w, s)]

(***************************************************************************)
(* SumFunctionOnSet is a value of a function that obeys the recursion, if  *)
(* there is such a function.                                               *)
(***************************************************************************)
LEMMA SumIsChosen ==
    ASSUME NEW w, NEW S
    PROVE  SumFunctionOnSet(w, S) = (CHOOSE g : IsSum(g, w, S))[S]
BY DEF SumFunctionOnSet, FoldFunctionOnSet, MapThenFoldSet, IsSum, Step, Pick

(***************************************************************************)
(* What is picked from a set is in it.                                     *)
(***************************************************************************)
LEMMA PickIn == \A s : s # {} => Pick(s) \in s
BY DEF Pick

(***************************************************************************)
(* There is one: a function right on the sets of up to n elements makes    *)
(* one right on the sets of up to n + 1.                                   *)
(***************************************************************************)
LEMMA SumExists ==
    ASSUME NEW S, IsFiniteSet(S), NEW w
    PROVE  \E g : IsSum(g, w, S)
<1> DEFINE RightUpTo(g, n) == \A s \in SUBSET S : Cardinality(s) <= n => g[s] = Step(g, w, s)
           Good == {T \in SUBSET S : \E g : RightUpTo(g, Cardinality(T))}
<1>0. \A s \in SUBSET S : IsFiniteSet(s) /\ Cardinality(s) \in Nat
  BY FS_Subset, FS_CardinalityType
<1>1. ASSUME NEW T \in SUBSET S, \A x \in T : T \ {x} \in Good
      PROVE  T \in Good
  <2>1. CASE T = {}
    <3> DEFINE h == [s \in SUBSET S |-> 0]
    <3>1. ASSUME NEW s \in SUBSET S, Cardinality(s) <= Cardinality(T)
          PROVE  h[s] = Step(h, w, s)
      <4>1. Cardinality(s) = 0
        BY <1>0, <2>1, <3>1, FS_EmptySet
      <4>2. s = {}
        BY <4>1, <1>0, FS_EmptySet
      <4> QED
        BY <4>2 DEF Step
    <3> HIDE DEF h
    <3>2. RightUpTo(h, Cardinality(T))
      BY <3>1
    <3> QED
      BY <3>2
  <2>2. CASE T # {}
    <3>1. PICK x : x \in T
      BY <2>2
    <3>2. PICK g : RightUpTo(g, Cardinality(T \ {x}))
      BY <1>1, <3>1
    <3>3. Cardinality(T) = Cardinality(T \ {x}) + 1
      BY <3>1, <1>0, FS_RemoveElement
    <3> DEFINE h == [s \in SUBSET S |-> Step(g, w, s)]
    <3>4. ASSUME NEW s \in SUBSET S, Cardinality(s) <= Cardinality(T)
          PROVE  h[s] = Step(h, w, s)
      <4>1. CASE s = {}
        BY <4>1 DEF Step
      <4>2. CASE s # {}
        <5> DEFINE u == s \ {Pick(s)}
        <5>1. Pick(s) \in s
          BY <4>2, PickIn
        <5>2. u \in SUBSET S /\ Cardinality(u) = Cardinality(s) - 1
          BY <5>1, <1>0, FS_RemoveElement
        <5>3. Cardinality(u) <= Cardinality(T \ {x})
          BY <5>2, <3>3, <3>4, <1>0
        <5>4. g[u] = Step(g, w, u)
          BY <5>2, <5>3, <3>2
        <5>5. h[u] = g[u]
          BY <5>2, <5>4
        <5>6. h[s] = w[Pick(s)] + g[u]
          BY <4>2 DEF Step
        <5>7. Step(h, w, s) = w[Pick(s)] + h[u]
          BY <4>2 DEF Step
        <5> QED
          BY <5>5, <5>6, <5>7
      <4> QED
        BY <4>1, <4>2
    <3> HIDE DEF h
    <3>5. RightUpTo(h, Cardinality(T))
      BY <3>4
    <3> QED
      BY <3>5
  <2> QED
    BY <2>1, <2>2
<1>2. \A U \in SUBSET S : U \in Good
  <2> HIDE DEF Good
  <2> QED
    BY <1>1, SubsetInduction
<1>3. PICK g : RightUpTo(g, Cardinality(S))
  BY <1>2
<1>4. \A s \in SUBSET S : g[s] = Step(g, w, s)
  BY <1>3, <1>0, FS_Subset
<1> DEFINE h == [s \in SUBSET S |-> g[s]]
<1>5. \A s \in SUBSET S : Step(h, w, s) = Step(g, w, s)
  <2> SUFFICES ASSUME NEW s \in SUBSET S PROVE Step(h, w, s) = Step(g, w, s)
    OBVIOUS
  <2>1. h[s \ {Pick(s)}] = g[s \ {Pick(s)}]
    OBVIOUS
  <2> QED
    BY <2>1 DEF Step
<1>6. h = [s \in SUBSET S |-> Step(h, w, s)]
  BY <1>4, <1>5
<1> QED
  BY <1>6 DEF IsSum

(***************************************************************************)
(* So the sum is the value of a function that obeys the recursion.         *)
(***************************************************************************)
LEMMA SumOfStep ==
    ASSUME NEW S, IsFiniteSet(S), NEW w
    PROVE  \E g : IsSum(g, w, S) /\ SumFunctionOnSet(w, S) = g[S]
<1>1. IsSum((CHOOSE g : IsSum(g, w, S)), w, S)
  BY SumExists
<1> QED
  BY <1>1, SumIsChosen

(***************************************************************************)
(* Two such functions agree where both are defined and the values they sum *)
(* are the same.                                                           *)
(***************************************************************************)
LEMMA SumsAgree ==
    ASSUME NEW S, IsFiniteSet(S), NEW T \in SUBSET S, NEW w, NEW v, NEW g, NEW h,
           IsSum(g, w, S), IsSum(h, v, T), \A x \in T : w[x] = v[x]
    PROVE  g[T] = h[T]
<1> DEFINE Good == {U \in SUBSET T : g[U] = h[U]}
<1>1. ASSUME NEW U \in SUBSET T, \A x \in U : U \ {x} \in Good
      PROVE  U \in Good
  <2>1. g[U] = Step(g, w, U)
    BY DEF IsSum
  <2>2. h[U] = Step(h, v, U)
    BY DEF IsSum
  <2>3. CASE U = {}
    BY <2>1, <2>2, <2>3 DEF Step
  <2>4. CASE U # {}
    <3>1. Pick(U) \in U
      BY <2>4, PickIn
    <3>2. g[U \ {Pick(U)}] = h[U \ {Pick(U)}] /\ w[Pick(U)] = v[Pick(U)]
      BY <3>1, <1>1
    <3>3. Step(g, w, U) = Step(h, v, U)
      BY <3>2 DEF Step
    <3> QED
      BY <3>3, <2>1, <2>2
  <2> QED
    BY <2>3, <2>4
<1>2. IsFiniteSet(T)
  BY FS_Subset
<1>3. \A U \in SUBSET T : U \in Good
  <2> HIDE DEF Good
  <2> QED
    BY <1>1, <1>2, SubsetInduction
<1> QED
  BY <1>3

-----------------------------------------------------------------------------
(***************************************************************************)
(* The sum over no elements.                                               *)
(***************************************************************************)
LEMMA SumEmpty == ASSUME NEW w PROVE SumFunctionOnSet(w, {}) = 0
<1>1. PICK g : IsSum(g, w, {}) /\ SumFunctionOnSet(w, {}) = g[{}]
  BY SumOfStep, FS_EmptySet
<1>2. g[{}] = Step(g, w, {})
  BY <1>1 DEF IsSum
<1> QED
  BY <1>1, <1>2 DEF Step

(***************************************************************************)
(* A sum depends on the values over its set only.                          *)
(***************************************************************************)
LEMMA SumSame ==
    ASSUME NEW S, IsFiniteSet(S), NEW w, NEW v, \A x \in S : w[x] = v[x]
    PROVE  SumFunctionOnSet(w, S) = SumFunctionOnSet(v, S)
<1>1. PICK g : IsSum(g, w, S) /\ SumFunctionOnSet(w, S) = g[S]
  BY SumOfStep
<1>2. PICK h : IsSum(h, v, S) /\ SumFunctionOnSet(v, S) = h[S]
  BY SumOfStep
<1>3. S \in SUBSET S
  OBVIOUS
<1> QED
  BY <1>1, <1>2, <1>3, SumsAgree

(***************************************************************************)
(* A sum of integers is one.                                               *)
(***************************************************************************)
LEMMA SumType ==
    ASSUME NEW S, IsFiniteSet(S), NEW w, \A x \in S : w[x] \in Int
    PROVE  SumFunctionOnSet(w, S) \in Int
<1>1. PICK g : IsSum(g, w, S) /\ SumFunctionOnSet(w, S) = g[S]
  BY SumOfStep
<1> DEFINE Good == {T \in SUBSET S : g[T] \in Int}
<1>2. ASSUME NEW T \in SUBSET S, \A x \in T : T \ {x} \in Good
      PROVE  T \in Good
  <2>1. g[T] = Step(g, w, T)
    BY <1>1 DEF IsSum
  <2>2. CASE T = {}
    BY <2>1, <2>2 DEF Step
  <2>3. CASE T # {}
    <3>1. Pick(T) \in T
      BY <2>3, PickIn
    <3>2. g[T \ {Pick(T)}] \in Int /\ w[Pick(T)] \in Int
      BY <3>1, <1>2
    <3> QED
      BY <2>1, <2>3, <3>2 DEF Step
  <2> QED
    BY <2>2, <2>3
<1>3. \A U \in SUBSET S : U \in Good
  <2> HIDE DEF Good
  <2> QED
    BY <1>2, SubsetInduction
<1> QED
  BY <1>1, <1>3

(***************************************************************************)
(* A sum is any of its values and the sum of the others, not only the one  *)
(* the recursion picks.                                                    *)
(***************************************************************************)
LEMMA SumRemove ==
    ASSUME NEW S, IsFiniteSet(S), NEW w, \A x \in S : w[x] \in Int, NEW y \in S
    PROVE  SumFunctionOnSet(w, S) = w[y] + SumFunctionOnSet(w, S \ {y})
<1>1. PICK g : IsSum(g, w, S) /\ SumFunctionOnSet(w, S) = g[S]
  BY SumOfStep
<1>2. ASSUME NEW T \in SUBSET S PROVE g[T] = SumFunctionOnSet(w, T)
  <2>1. IsFiniteSet(T)
    BY FS_Subset
  <2>2. PICK h : IsSum(h, w, T) /\ SumFunctionOnSet(w, T) = h[T]
    BY <2>1, SumOfStep
  <2> QED
    BY <1>1, <2>2, SumsAgree
<1>3. \A T \in SUBSET S : g[T] \in Int
  <2> SUFFICES ASSUME NEW T \in SUBSET S PROVE g[T] \in Int
    OBVIOUS
  <2>1. IsFiniteSet(T)
    BY FS_Subset
  <2> QED
    BY <1>2, <2>1, SumType
<1> DEFINE Good == {T \in SUBSET S : \A x \in T : g[T] = w[x] + g[T \ {x}]}
<1>4. ASSUME NEW T \in SUBSET S, \A x \in T : T \ {x} \in Good
      PROVE  T \in Good
  <2> SUFFICES ASSUME NEW x \in T PROVE g[T] = w[x] + g[T \ {x}]
    OBVIOUS
  <2> DEFINE p == Pick(T)
  <2>1. p \in T
    BY PickIn
  <2>2. g[T] = w[p] + g[T \ {p}]
    BY <1>1 DEF IsSum, Step
  <2> HIDE DEF p
  <2>3. CASE x = p
    BY <2>2, <2>3
  <2>4. CASE x # p
    <3>1. g[T \ {p}] = w[x] + g[(T \ {p}) \ {x}]
      BY <1>4, <2>1, <2>4
    <3>2. g[T \ {x}] = w[p] + g[(T \ {x}) \ {p}]
      BY <1>4, <2>1, <2>4
    <3>3. (T \ {p}) \ {x} = (T \ {x}) \ {p}
      OBVIOUS
    <3> DEFINE rest == g[(T \ {x}) \ {p}]
    <3>4. w[x] \in Int /\ w[p] \in Int /\ rest \in Int
      BY <1>3, <2>1
    <3>5. g[T] = w[p] + (w[x] + rest) /\ g[T \ {x}] = w[p] + rest
      BY <2>2, <3>1, <3>2, <3>3
    <3> HIDE DEF rest
    <3> QED
      BY <3>4, <3>5
  <2> QED
    BY <2>3, <2>4
<1>5. \A U \in SUBSET S : U \in Good
  <2> HIDE DEF Good
  <2> QED
    BY <1>4, SubsetInduction
<1>6. g[S] = w[y] + g[S \ {y}]
  BY <1>5
<1> QED
  BY <1>1, <1>2, <1>6

(***************************************************************************)
(* The sum over two sets that share nothing.                               *)
(***************************************************************************)
LEMMA SumUnion ==
    ASSUME NEW A, NEW B, IsFiniteSet(A), IsFiniteSet(B), A \cap B = {},
           NEW w, \A x \in A \cup B : w[x] \in Int
    PROVE  SumFunctionOnSet(w, A \cup B) = SumFunctionOnSet(w, A) + SumFunctionOnSet(w, B)
<1> DEFINE sum(X) == SumFunctionOnSet(w, X)
           Good == {T \in SUBSET B : sum(A \cup T) = sum(A) + sum(T)}
<1>0. \A T \in SUBSET B : /\ IsFiniteSet(T) /\ IsFiniteSet(A \cup T)
                          /\ sum(T) \in Int /\ sum(A \cup T) \in Int
  <2> SUFFICES ASSUME NEW T \in SUBSET B
               PROVE  /\ IsFiniteSet(T) /\ IsFiniteSet(A \cup T)
                      /\ sum(T) \in Int /\ sum(A \cup T) \in Int
    OBVIOUS
  <2>1. IsFiniteSet(T)
    BY FS_Subset
  <2>2. IsFiniteSet(A \cup T)
    BY <2>1, FS_Union
  <2>3. (\A x \in T : w[x] \in Int) /\ (\A x \in A \cup T : w[x] \in Int)
    OBVIOUS
  <2> QED
    BY <2>1, <2>2, <2>3, SumType
<1>1. sum(A) \in Int
  BY SumType
<1>2. ASSUME NEW T \in SUBSET B, \A x \in T : T \ {x} \in Good
      PROVE  T \in Good
  <2>1. CASE T = {}
    <3>1. A \cup T = A /\ sum(T) = 0
      BY <2>1, SumEmpty
    <3> HIDE DEF sum
    <3> QED
      BY <3>1, <1>1
  <2>2. CASE T # {}
    <3>1. PICK y : y \in T
      BY <2>2
    <3>2. sum(A \cup (T \ {y})) = sum(A) + sum(T \ {y})
      BY <1>2, <3>1
    <3>3. sum(T) = w[y] + sum(T \ {y})
      <4>1. IsFiniteSet(T) /\ \A x \in T : w[x] \in Int
        BY <1>0
      <4> QED
        BY <4>1, <3>1, SumRemove
    <3>4. sum(A \cup T) = w[y] + sum((A \cup T) \ {y})
      <4>1. IsFiniteSet(A \cup T) /\ (\A x \in A \cup T : w[x] \in Int) /\ y \in A \cup T
        BY <1>0, <3>1
      <4> QED
        BY <4>1, SumRemove
    <3>5. (A \cup T) \ {y} = A \cup (T \ {y})
      BY <3>1
    <3>6. w[y] \in Int /\ sum(T \ {y}) \in Int
      BY <1>0, <3>1
    <3> HIDE DEF sum
    <3>7. sum(A \cup T) = w[y] + (sum(A) + sum(T \ {y}))
      BY <3>2, <3>4, <3>5
    <3>8. sum(A \cup T) = sum(A) + sum(T)
      BY <3>3, <3>6, <3>7, <1>1
    <3> QED
      BY <3>8
  <2> QED
    BY <2>1, <2>2
<1>3. \A U \in SUBSET B : U \in Good
  <2> HIDE DEF Good
  <2> QED
    BY <1>2, SubsetInduction
<1> QED
  BY <1>3

(***************************************************************************)
(* The sum over one element.                                               *)
(***************************************************************************)
LEMMA SumOne ==
    ASSUME NEW y, NEW w, w[y] \in Int
    PROVE  SumFunctionOnSet(w, {y}) = w[y]
<1>1. SumFunctionOnSet(w, {y}) = w[y] + SumFunctionOnSet(w, {y} \ {y})
  <2>1. IsFiniteSet({y}) /\ y \in {y} /\ \A x \in {y} : w[x] \in Int
    BY FS_Singleton
  <2> QED
    BY <2>1, SumRemove
<1>2. {y} \ {y} = {}
  OBVIOUS
<1>3. SumFunctionOnSet(w, {y} \ {y}) = 0
  BY <1>2, SumEmpty
<1> QED
  BY <1>1, <1>3

(***************************************************************************)
(* A sum of natural numbers is one, and positive if one of them is.        *)
(***************************************************************************)
LEMMA SumNat ==
    ASSUME NEW S, IsFiniteSet(S), NEW w, \A x \in S : w[x] \in Nat
    PROVE  /\ SumFunctionOnSet(w, S) \in Nat
           /\ \A x \in S : SumFunctionOnSet(w, S) >= w[x]
<1> DEFINE Good == {T \in SUBSET S : SumFunctionOnSet(w, T) \in Nat}
<1>0. ASSUME NEW T \in SUBSET S, NEW x \in T
      PROVE  SumFunctionOnSet(w, T) = w[x] + SumFunctionOnSet(w, T \ {x})
  <2>1. IsFiniteSet(T) /\ \A z \in T : w[z] \in Int
    BY FS_Subset
  <2> QED
    BY <2>1, SumRemove
<1>1. ASSUME NEW T \in SUBSET S, \A x \in T : T \ {x} \in Good
      PROVE  T \in Good
  <2>1. CASE T = {}
    BY <2>1, SumEmpty
  <2>2. CASE T # {}
    <3>1. PICK x : x \in T
      BY <2>2
    <3>2. SumFunctionOnSet(w, T \ {x}) \in Nat /\ w[x] \in Nat
      BY <1>1, <3>1
    <3> QED
      BY <1>0, <3>1, <3>2
  <2> QED
    BY <2>1, <2>2
<1>2. \A T \in SUBSET S : T \in Good
  <2> HIDE DEF Good
  <2> QED
    BY <1>1, SubsetInduction
<1>3. ASSUME NEW x \in S PROVE SumFunctionOnSet(w, S) >= w[x]
  <2>1. SumFunctionOnSet(w, S \ {x}) \in Nat /\ w[x] \in Nat
    BY <1>2
  <2> QED
    BY <1>0, <2>1
<1> QED
  BY <1>2, <1>3
=============================================================================
