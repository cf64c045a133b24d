----------------------------- MODULE FiniteSums -----------------------------
(***************************************************************************)
(* What the proofs need of SumFunctionOnSet, the sum of a function's       *)
(* values over a finite set: its value is a natural number that does not   *)
(* depend on the order in which the elements are taken.                    *)
(*                                                                         *)
(* SumFunctionOnSet is a recursive function over the subsets of its        *)
(* argument.  The induction it calls for is on the strict subset ordering, *)
(* which is well-founded on finite sets: a property is given as the set of *)
(* the subsets that have it, and a set without it would have a smallest    *)
(* subset without it.  The same induction gives counting up to a number,   *)
(* and with it functions defined step by step.                             *)
(***************************************************************************)
EXTENDS Integers, Functions, FiniteSetTheorems, TLAPS

\* A set that contains a subset of S as soon as it contains all that are
\* smaller contains all of them.
LEMMA SubsetInduction ==
  ASSUME NEW S, IsFiniteSet(S), NEW A,
         \A T \in SUBSET S : (\A U \in SUBSET T : U # T => U \in A) => T \in A
  PROVE  \A T \in SUBSET S : T \in A
<1> DEFINE Bad == {T \in SUBSET S : T \notin A}
<1>1. SUFFICES ASSUME Bad # {}
               PROVE  FALSE
  OBVIOUS
<1>2. Bad \subseteq FiniteSubsetsOf(S) /\ IsWellFoundedOn(StrictSubsetOrdering(S), FiniteSubsetsOf(S))
  BY FS_FiniteSubsetsOfFinite, FS_StrictSubsetOrderingWellFounded
<1> HIDE DEF Bad
<1>3. PICK T \in Bad : \A U \in Bad : ~(<<U, T>> \in StrictSubsetOrdering(S))
  BY <1>1, <1>2, WFMin
<1>4. \A U \in SUBSET T : U # T => U \in A
  BY <1>3 DEF StrictSubsetOrdering, Bad
<1> QED
  BY <1>3, <1>4 DEF Bad

\* The element a sum takes first, and the function that the sum is defined by.
Leading(s) == CHOOSE x \in s : TRUE

SumGraph(g, f, S) ==
  g = [s \in SUBSET S |-> IF s = {} THEN 0 ELSE f[Leading(s)] + g[s \ {Leading(s)}]]

LEMMA SumIsGraph ==
  ASSUME NEW f, NEW S
  PROVE  SumFunctionOnSet(f, S) = (CHOOSE g : SumGraph(g, f, S))[S]
BY DEF SumFunctionOnSet, FoldFunctionOnSet, MapThenFoldSet, SumGraph, Leading

\* Two such functions agree where both are defined.
LEMMA GraphsAgree ==
  ASSUME NEW S, IsFiniteSet(S), NEW T, NEW f, NEW e, NEW g, NEW h,
         SumGraph(g, f, S), SumGraph(h, e, T), \A x \in S \cap T : f[x] = e[x]
  PROVE  \A s \in SUBSET S : s \subseteq T => g[s] = h[s]
<1> DEFINE A == {s \in SUBSET S : s \subseteq T => g[s] = h[s]}
<1>1. ASSUME NEW s \in SUBSET S, \A u \in SUBSET s : u # s => u \in A
      PROVE  s \in A
  <2>1. SUFFICES ASSUME s \subseteq T
                 PROVE  g[s] = h[s]
    OBVIOUS
  <2>2. CASE s = {}
    BY <2>1, <2>2 DEF SumGraph
  <2>3. CASE s # {}
    <3>1. PICK x : x = Leading(s)
      OBVIOUS
    <3>2. x \in s
      BY <2>3, <3>1 DEF Leading
    <3>3. g[s] = f[x] + g[s \ {x}] /\ h[s] = e[x] + h[s \ {x}]
      BY <2>1, <2>3, <3>1 DEF SumGraph
    <3>4. s \ {x} \in A
      BY <1>1, <3>2
    <3>5. g[s \ {x}] = h[s \ {x}]
      BY <2>1, <3>4
    <3> QED
      BY <2>1, <3>2, <3>3, <3>5
  <2> QED
    BY <2>2, <2>3
<1> HIDE DEF A
<1>2. \A s \in SUBSET S : s \in A
  BY <1>1, SubsetInduction
<1> QED
  BY <1>2 DEF A

\* There is one for every finite set.
LEMMA GraphExists ==
  ASSUME NEW S, IsFiniteSet(S), NEW f, \A x \in S : f[x] \in Nat
  PROVE  \E g \in [SUBSET S -> Nat] : SumGraph(g, f, S)
<1> DEFINE A == {T \in SUBSET S : \E g \in [SUBSET T -> Nat] : SumGraph(g, f, T)}
           Val(s) == (CHOOSE g \in [SUBSET s -> Nat] : SumGraph(g, f, s))[s]
<1>1. ASSUME NEW T \in SUBSET S, \A U \in SUBSET T : U # T => U \in A
      PROVE  T \in A
  <2>1. \A s \in SUBSET T : IsFiniteSet(s)
    BY FS_Subset
  <2>2. ASSUME NEW s \in SUBSET T, s # T
        PROVE  /\ (CHOOSE g \in [SUBSET s -> Nat] : SumGraph(g, f, s)) \in [SUBSET s -> Nat]
               /\ SumGraph(CHOOSE g \in [SUBSET s -> Nat] : SumGraph(g, f, s), f, s)
               /\ Val(s) \in Nat
    <3>1. \E g \in [SUBSET s -> Nat] : SumGraph(g, f, s)
      BY <1>1, <2>2
    <3>2. /\ (CHOOSE g \in [SUBSET s -> Nat] : SumGraph(g, f, s)) \in [SUBSET s -> Nat]
          /\ SumGraph(CHOOSE g \in [SUBSET s -> Nat] : SumGraph(g, f, s), f, s)
      BY <3>1
    <3> QED
      BY <3>2
  <2>3. ASSUME NEW s \in SUBSET T, s # T, s # {}
        PROVE  Val(s) = f[Leading(s)] + Val(s \ {Leading(s)})
    <3>1. PICK x : x = Leading(s)
      OBVIOUS
    <3>2. x \in s
      BY <2>3, <3>1 DEF Leading
    <3>3. PICK g : g = CHOOSE h \in [SUBSET s -> Nat] : SumGraph(h, f, s)
      OBVIOUS
    <3>4. PICK h : h = CHOOSE k \in [SUBSET (s \ {x}) -> Nat] : SumGraph(k, f, s \ {x})
      OBVIOUS
    <3>5. SumGraph(g, f, s) /\ SumGraph(h, f, s \ {x})
      BY <2>2, <2>3, <3>2, <3>3, <3>4
    <3>6. g[s] = f[x] + g[s \ {x}]
      BY <2>3, <3>1, <3>5 DEF SumGraph
    <3>7. g[s \ {x}] = h[s \ {x}]
      BY <2>1, <3>5, GraphsAgree
    <3>8. Val(s) = g[s] /\ Val(s \ {x}) = h[s \ {x}]
      BY <3>3, <3>4
    <3> QED
      BY <3>1, <3>6, <3>7, <3>8
  <2>4. ASSUME NEW s \in SUBSET T, s = {}, s # T
        PROVE  Val(s) = 0
    <3>1. PICK g : g = CHOOSE h \in [SUBSET s -> Nat] : SumGraph(h, f, s)
      OBVIOUS
    <3>2. SumGraph(g, f, s) /\ Val(s) = g[s]
      BY <2>2, <2>4, <3>1
    <3> QED
      BY <2>4, <3>2 DEF SumGraph
  <2> HIDE DEF Val
  <2>5. PICK v : v = IF T = {} THEN 0 ELSE f[Leading(T)] + Val(T \ {Leading(T)})
    OBVIOUS
  <2>6. v \in Nat
    <3>1. CASE T # {}
      <4>1. Leading(T) \in T
        BY <3>1 DEF Leading
      <4>2. f[Leading(T)] \in Nat /\ Val(T \ {Leading(T)}) \in Nat
        BY <2>2, <4>1
      <4> QED
        BY <2>5, <3>1, <4>2
    <3> QED
      BY <2>5, <3>1
  <2>7. PICK g : g = [s \in SUBSET T |-> IF s = T THEN v ELSE Val(s)]
    OBVIOUS
  <2>8. g \in [SUBSET T -> Nat]
    BY <2>2, <2>6, <2>7
  <2>9. ASSUME NEW s \in SUBSET T
        PROVE  g[s] = IF s = {} THEN 0 ELSE f[Leading(s)] + g[s \ {Leading(s)}]
    <3>1. CASE s = {}
      BY <2>4, <2>5, <2>7, <3>1
    <3>2. CASE s # {}
      <4>1. PICK x : x = Leading(s)
        OBVIOUS
      <4>2. x \in s
        BY <3>2, <4>1 DEF Leading
      <4>3. s \ {x} \in SUBSET T /\ s \ {x} # T /\ g[s \ {x}] = Val(s \ {x})
        BY <2>7, <4>2
      <4> QED
        BY <2>3, <2>5, <2>7, <3>2, <4>1, <4>3
    <3> QED
      BY <3>1, <3>2
  <2>10. SumGraph(g, f, T)
    BY <2>7, <2>9 DEF SumGraph
  <2> QED
    BY <2>8, <2>10
<1> HIDE DEF A
<1>2. \A T \in SUBSET S : T \in A
  BY <1>1, SubsetInduction
<1> QED
  BY <1>2 DEF A

\* The sum over a finite set is a number, over the empty set it is 0, and the
\* first element can be taken out.
LEMMA SumRecursion ==
  ASSUME NEW S, IsFiniteSet(S), NEW f, \A x \in S : f[x] \in Nat
  PROVE  /\ SumFunctionOnSet(f, S) \in Nat
         /\ S = {} => SumFunctionOnSet(f, S) = 0
         /\ S # {} => SumFunctionOnSet(f, S) = f[Leading(S)] + SumFunctionOnSet(f, S \ {Leading(S)})
<1>1. PICK k \in [SUBSET S -> Nat] : SumGraph(k, f, S)
  BY GraphExists
<1>2. PICK g : g = CHOOSE h : SumGraph(h, f, S)
  OBVIOUS
<1>3. SumGraph(g, f, S) /\ SumFunctionOnSet(f, S) = g[S]
  BY <1>1, <1>2, SumIsGraph
<1>4. g[S] = k[S]
  BY <1>1, <1>3, GraphsAgree
<1>5. ASSUME S # {}
      PROVE  SumFunctionOnSet(f, S) = f[Leading(S)] + SumFunctionOnSet(f, S \ {Leading(S)})
  <2>1. PICK R : R = S \ {Leading(S)}
    OBVIOUS
  <2>2. IsFiniteSet(R) /\ R \subseteq S /\ \A x \in R : f[x] \in Nat
    BY <2>1, FS_Subset
  <2>3. PICK h : h = CHOOSE e : SumGraph(e, f, R)
    OBVIOUS
  <2>4. \E e : SumGraph(e, f, R)
    BY <2>2, GraphExists
  <2>5. SumGraph(h, f, R) /\ SumFunctionOnSet(f, R) = h[R]
    BY <2>3, <2>4, SumIsGraph
  <2>6. h[R] = g[R]
    BY <1>3, <2>2, <2>5, GraphsAgree
  <2>7. g[S] = f[Leading(S)] + g[R]
    BY <1>3, <1>5, <2>1 DEF SumGraph
  <2> QED
    BY <1>3, <2>1, <2>5, <2>6, <2>7
<1>6. S = {} => g[S] = 0
  BY <1>3 DEF SumGraph
<1> QED
  BY <1>1, <1>3, <1>4, <1>5, <1>6

\* Any element can be taken out first.
LEMMA SumWithout ==
  ASSUME NEW S, IsFiniteSet(S), NEW f, \A x \in S : f[x] \in Nat, NEW y \in S
  PROVE  SumFunctionOnSet(f, S) = f[y] + SumFunctionOnSet(f, S \ {y})
<1> DEFINE A == {T \in SUBSET S : \A z \in T : SumFunctionOnSet(f, T) = f[z] + SumFunctionOnSet(f, T \ {z})}
<1>0. \A T \in SUBSET S : IsFiniteSet(T)
  BY FS_Subset
<1>1. ASSUME NEW T \in SUBSET S, \A U \in SUBSET T : U # T => U \in A
      PROVE  T \in A
  <2> SUFFICES ASSUME NEW z \in T
               PROVE  SumFunctionOnSet(f, T) = f[z] + SumFunctionOnSet(f, T \ {z})
    OBVIOUS
  <2>1. PICK x : x = Leading(T)
    OBVIOUS
  <2>2. x \in T /\ SumFunctionOnSet(f, T) = f[x] + SumFunctionOnSet(f, T \ {x})
    BY <1>0, <2>1, SumRecursion DEF Leading
  <2>3. CASE z = x
    BY <2>2, <2>3
  <2>4. CASE z # x
    <3>1. T \ {x} \in A /\ T \ {z} \in A /\ z \in T \ {x} /\ x \in T \ {z}
      BY <1>1, <2>2, <2>4
    <3>2. /\ SumFunctionOnSet(f, T \ {x}) = f[z] + SumFunctionOnSet(f, (T \ {x}) \ {z})
          /\ SumFunctionOnSet(f, T \ {z}) = f[x] + SumFunctionOnSet(f, (T \ {z}) \ {x})
      BY <3>1
    <3>3. (T \ {x}) \ {z} = (T \ {z}) \ {x}
      OBVIOUS
    <3>4. SumFunctionOnSet(f, (T \ {x}) \ {z}) \in Nat /\ f[x] \in Nat /\ f[z] \in Nat
      BY <1>0, <2>2, SumRecursion
    <3>5. PICK r \in Nat : r = SumFunctionOnSet(f, (T \ {x}) \ {z}) /\ r = SumFunctionOnSet(f, (T \ {z}) \ {x})
      BY <3>3, <3>4
    <3>6. f[x] + (f[z] + r) = f[z] + (f[x] + r)
      BY <3>4
    <3> QED
      BY <2>2, <3>2, <3>5, <3>6
  <2> QED
    BY <2>3, <2>4
<1> HIDE DEF A
<1>2. \A T \in SUBSET S : T \in A
  BY <1>1, SubsetInduction
<1>3. S \in A
  BY <1>2
<1> QED
  BY <1>3 DEF A

\* A new element adds its value.
LEMMA SumWith ==
  ASSUME NEW S, IsFiniteSet(S), NEW y, y \notin S, NEW f, \A x \in S \cup {y} : f[x] \in Nat
  PROVE  SumFunctionOnSet(f, S \cup {y}) = f[y] + SumFunctionOnSet(f, S)
<1>1. IsFiniteSet(S \cup {y}) /\ (S \cup {y}) \ {y} = S
  BY FS_AddElement
<1> QED
  BY <1>1, SumWithout

\* Only the values over the set matter.
LEMMA SumSame ==
  ASSUME NEW S, IsFiniteSet(S), NEW f, NEW e, \A x \in S : f[x] \in Nat /\ e[x] = f[x]
  PROVE  SumFunctionOnSet(e, S) = SumFunctionOnSet(f, S)
<1>1. PICK g : g = CHOOSE k : SumGraph(k, f, S)
  OBVIOUS
<1>2. PICK h : h = CHOOSE k : SumGraph(k, e, S)
  OBVIOUS
<1>3. (\E k : SumGraph(k, f, S)) /\ \E k : SumGraph(k, e, S)
  BY GraphExists
<1>4. SumGraph(g, f, S) /\ SumGraph(h, e, S)
  BY <1>1, <1>2, <1>3
<1>5. g[S] = h[S]
  BY <1>4, GraphsAgree
<1> QED
  BY <1>1, <1>2, <1>5, SumIsGraph

\* A subset that is taken out takes its own sum with it.
LEMMA SumSplit ==
  ASSUME NEW S, IsFiniteSet(S), NEW T \in SUBSET S, NEW f, \A x \in S : f[x] \in Nat
  PROVE  SumFunctionOnSet(f, S) = SumFunctionOnSet(f, T) + SumFunctionOnSet(f, S \ T)
<1> DEFINE A == {U \in SUBSET T : SumFunctionOnSet(f, S) = SumFunctionOnSet(f, U) + SumFunctionOnSet(f, S \ U)}
<1>0. IsFiniteSet(T) /\ \A U \in SUBSET S : IsFiniteSet(U) /\ SumFunctionOnSet(f, U) \in Nat
  BY FS_Subset, SumRecursion
<1>1. ASSUME NEW U \in SUBSET T, \A V \in SUBSET U : V # U => V \in A
      PROVE  U \in A
  <2>1. CASE U = {}
    <3>1. SumFunctionOnSet(f, U) = 0 /\ S \ U = S
      BY <2>1, <1>0, SumRecursion
    <3> QED
      BY <1>0, <3>1
  <2>2. CASE U # {}
    <3>1. PICK x : x \in U
      BY <2>2
    <3>2. PICK V : V = U \ {x}
      OBVIOUS
    <3>3. SumFunctionOnSet(f, S) = SumFunctionOnSet(f, V) + SumFunctionOnSet(f, S \ V)
      BY <1>1, <3>1, <3>2
    <3>4. SumFunctionOnSet(f, U) = f[x] + SumFunctionOnSet(f, V)
      BY <1>0, <3>1, <3>2, SumWithout
    <3>5. SumFunctionOnSet(f, S \ V) = f[x] + SumFunctionOnSet(f, S \ U)
      <4>1. x \in S \ V /\ (S \ V) \ {x} = S \ U /\ IsFiniteSet(S \ V) /\ \A y \in S \ V : f[y] \in Nat
        BY <1>0, <3>1, <3>2
      <4> QED
        BY <4>1, SumWithout
    <3>6. /\ f[x] \in Nat /\ SumFunctionOnSet(f, V) \in Nat /\ SumFunctionOnSet(f, S \ U) \in Nat
      BY <1>0, <3>1, <3>2
    <3>7. SumFunctionOnSet(f, S) = SumFunctionOnSet(f, U) + SumFunctionOnSet(f, S \ U)
      BY <3>3, <3>4, <3>5, <3>6
    <3> QED
      BY <3>7
  <2> QED
    BY <2>1, <2>2
<1> HIDE DEF A
<1>2. \A U \in SUBSET T : U \in A
  BY <1>0, <1>1, SubsetInduction
<1>3. T \in A
  BY <1>2
<1> QED
  BY <1>3 DEF A

\* A sum is at least each of its terms.
LEMMA SumAbove ==
  ASSUME NEW S, IsFiniteSet(S), NEW f, \A x \in S : f[x] \in Nat, NEW y \in S
  PROVE  f[y] <= SumFunctionOnSet(f, S)
<1>1. SumFunctionOnSet(f, S) = f[y] + SumFunctionOnSet(f, S \ {y})
  BY SumWithout
<1>2. IsFiniteSet(S \ {y}) /\ \A x \in S \ {y} : f[x] \in Nat
  BY FS_Subset
<1>3. PICK a \in Nat : a = SumFunctionOnSet(f, S \ {y})
  BY <1>2, SumRecursion
<1>4. f[y] \in Nat
  OBVIOUS
<1> QED
  BY <1>1, <1>3, <1>4

\* Larger terms make a larger sum.
LEMMA SumMonotone ==
  ASSUME NEW S, IsFiniteSet(S), NEW f, NEW e,
         \A x \in S : f[x] \in Nat /\ e[x] \in Nat /\ f[x] <= e[x]
  PROVE  SumFunctionOnSet(f, S) <= SumFunctionOnSet(e, S)
<1> DEFINE A == {T \in SUBSET S : SumFunctionOnSet(f, T) <= SumFunctionOnSet(e, T)}
<1>0. \A T \in SUBSET S : IsFiniteSet(T)
  BY FS_Subset
<1>1. ASSUME NEW T \in SUBSET S, \A U \in SUBSET T : U # T => U \in A
      PROVE  T \in A
  <2>1. CASE T = {}
    <3>1. SumFunctionOnSet(f, T) = 0 /\ SumFunctionOnSet(e, T) = 0
      BY <1>0, <2>1, SumRecursion
    <3> QED
      BY <3>1
  <2>2. CASE T # {}
    <3>1. PICK x : x \in T
      BY <2>2
    <3>2. PICK R : R = T \ {x}
      OBVIOUS
    <3>3. R \in SUBSET S /\ R \in A
      BY <1>1, <3>1, <3>2
    <3>4. /\ SumFunctionOnSet(f, T) = f[x] + SumFunctionOnSet(f, R)
          /\ SumFunctionOnSet(e, T) = e[x] + SumFunctionOnSet(e, R)
      BY <1>0, <3>1, <3>2, SumWithout
    <3>5. PICK a \in Nat, b \in Nat : a = SumFunctionOnSet(f, R) /\ b = SumFunctionOnSet(e, R) /\ a <= b
      BY <1>0, <3>3, SumRecursion
    <3>6. f[x] \in Nat /\ e[x] \in Nat /\ f[x] <= e[x]
      BY <3>1
    <3> QED
      BY <3>4, <3>5, <3>6
  <2> QED
    BY <2>1, <2>2
<1> HIDE DEF A
<1>2. \A T \in SUBSET S : T \in A
  BY <1>1, SubsetInduction
<1>3. S \in A
  BY <1>2
<1> QED
  BY <1>3 DEF A

\* Zeros add up to zero.
LEMMA SumOfZeros ==
  ASSUME NEW S, IsFiniteSet(S), NEW f, \A x \in S : f[x] = 0
  PROVE  SumFunctionOnSet(f, S) = 0
<1> DEFINE A == {T \in SUBSET S : SumFunctionOnSet(f, T) = 0}
<1>0. \A T \in SUBSET S : IsFiniteSet(T)
  BY FS_Subset
<1>1. ASSUME NEW T \in SUBSET S, \A U \in SUBSET T : U # T => U \in A
      PROVE  T \in A
  <2>1. CASE T = {}
    <3>1. IsFiniteSet(T) /\ \A x \in T : f[x] \in Nat
      BY <1>0
    <3> QED
      BY <2>1, <3>1, SumRecursion
  <2>2. CASE T # {}
    <3>1. PICK x : x \in T
      BY <2>2
    <3>2. T \ {x} \in A
      BY <1>1, <3>1
    <3>3. IsFiniteSet(T) /\ f[x] = 0 /\ \A y \in T : f[y] \in Nat
      BY <1>0, <3>1
    <3>4. SumFunctionOnSet(f, T) = f[x] + SumFunctionOnSet(f, T \ {x})
      BY <3>1, <3>3, SumWithout
    <3>5. SumFunctionOnSet(f, T \ {x}) = 0
      BY <3>2
    <3> QED
      BY <3>3, <3>4, <3>5
  <2> QED
    BY <2>1, <2>2
<1> HIDE DEF A
<1>2. \A T \in SUBSET S : T \in A
  BY <1>1, SubsetInduction
<1>3. S \in A
  BY <1>2
<1> QED
  BY <1>3 DEF A

\* One more at one element is one more in every sum over it.
LEMMA SumIncrement ==
  ASSUME NEW S, IsFiniteSet(S), NEW f, \A x \in S : f[x] \in Nat, NEW y, NEW e,
         \A x \in S : x # y => e[x] = f[x], y \in S => e[y] = f[y] + 1
  PROVE  /\ y \in S => SumFunctionOnSet(e, S) = SumFunctionOnSet(f, S) + 1
         /\ y \notin S => SumFunctionOnSet(e, S) = SumFunctionOnSet(f, S)
<1>0. SumFunctionOnSet(f, S) \in Nat
  BY SumRecursion
<1>1. CASE y \notin S
  <2>1. \A x \in S : e[x] = f[x]
    BY <1>1
  <2>2. SumFunctionOnSet(e, S) = SumFunctionOnSet(f, S)
    BY <2>1, SumSame
  <2> QED
    BY <1>0, <1>1, <2>2
<1>2. CASE y \in S
  <2>1. PICK R : R = S \ {y}
    OBVIOUS
  <2>2. IsFiniteSet(R) /\ \A x \in R : f[x] \in Nat /\ e[x] = f[x]
    BY <2>1, FS_Subset
  <2>3. SumFunctionOnSet(e, R) = SumFunctionOnSet(f, R)
    BY <2>2, SumSame
  <2>4. PICK a \in Nat : a = SumFunctionOnSet(f, R)
    BY <2>2, SumRecursion
  <2>5. \A x \in S : e[x] \in Nat
    <3> TAKE x \in S
    <3>1. f[x] \in Nat /\ (x = y => e[x] = f[x] + 1) /\ (x # y => e[x] = f[x])
      BY <1>2
    <3> QED
      BY <3>1
  <2>6. SumFunctionOnSet(e, S) = e[y] + SumFunctionOnSet(e, R)
    BY <1>2, <2>1, <2>5, SumWithout
  <2>7. SumFunctionOnSet(f, S) = f[y] + SumFunctionOnSet(f, R)
    BY <1>2, <2>1, SumWithout
  <2>8. e[y] = f[y] + 1 /\ f[y] \in Nat
    BY <1>2
  <2> QED
    BY <1>2, <2>3, <2>4, <2>6, <2>7, <2>8
<1> QED
  BY <1>1, <1>2

-----------------------------------------------------------------------------
(* Counting, and functions defined step by step *)

\* Counting up to n from zero reaches every number on the way.
LEMMA CountingUp ==
  ASSUME NEW n \in Nat, NEW A, 0 \in A, \A i \in 1..n : i - 1 \in A => i \in A
  PROVE  \A i \in 0..n : i \in A
<1> DEFINE B == {T \in SUBSET (1..n) : \A k \in 0..n : T = 1..k => k \in A}
<1>1. PICK S : S = 1..n  OBVIOUS
<1>2. IsFiniteSet(S)  BY <1>1, FS_Interval
<1>3. ASSUME NEW T \in SUBSET S, \A U \in SUBSET T : U # T => U \in B
      PROVE  T \in B
  <2>1. SUFFICES ASSUME NEW k \in 0..n, T = 1..k PROVE k \in A
    BY <1>1
  <2>2. CASE k = 0
    BY <2>2
  <2>3. CASE k # 0
    <3>1. PICK U : U = 1..k - 1  OBVIOUS
    <3>2. U \in SUBSET T /\ k \in T /\ k \notin U /\ k - 1 \in 0..n  BY <2>1, <2>3, <3>1
    <3>3. U \in B  BY <1>3, <3>2
    <3>4. k - 1 \in A  BY <3>1, <3>2, <3>3
    <3> QED  BY <2>3, <3>4
  <2> QED  BY <2>2, <2>3
<1> HIDE DEF B
<1>4. \A T \in SUBSET S : T \in B  BY <1>2, <1>3, SubsetInduction
<1>5. ASSUME NEW i \in 0..n
      PROVE  i \in A
  <2>1. 1..i \in SUBSET S  BY <1>1
  <2>2. 1..i \in B  BY <1>4, <2>1
  <2> QED  BY <2>2 DEF B
<1> QED  BY <1>5

\* g is defined step by step up to n: it starts at v0, and st makes each value
\* of the one before.
Steps(g, n, v0, st) == g = [i \in 0..n |-> IF i = 0 THEN v0 ELSE st[<<i, g[i - 1]>>]]

LEMMA StepsExist ==
  ASSUME NEW n \in Nat, NEW V, NEW v0 \in V, NEW st, \A i \in 1..n : \A v \in V : st[<<i, v>>] \in V
  PROVE  \E g \in [0..n -> V] : Steps(g, n, v0, st)
<1> DEFINE A == {k \in 0..n : \E g \in [0..k -> V] : Steps(g, k, v0, st)}
<1>1. 0 \in A
  <2>1. PICK g : g = [i \in 0..0 |-> v0]  OBVIOUS
  <2>2. \A i : i \in 0..0 <=> i = 0  OBVIOUS
  <2>3. g \in [0..0 -> V] /\ g = [i \in 0..0 |-> IF i = 0 THEN v0 ELSE st[<<i, g[i - 1]>>]]  BY <2>1, <2>2
  <2>4. Steps(g, 0, v0, st)  BY <2>3 DEF Steps
  <2> QED  BY <2>3, <2>4
<1>2. ASSUME NEW k \in 1..n, k - 1 \in A
      PROVE  k \in A
  <2>1. PICK g \in [0..k - 1 -> V] : Steps(g, k - 1, v0, st)  BY <1>2
  <2>2. \A i \in 0..k - 1 : g[i] = IF i = 0 THEN v0 ELSE st[<<i, g[i - 1]>>]  BY <2>1 DEF Steps
  <2>3. PICK x \in V : x = st[<<k, g[k - 1]>>]
    <3>1. g[k - 1] \in V  BY <2>1
    <3> QED  BY <3>1
  <2>4. PICK h : h = [i \in 0..k |-> IF i = k THEN x ELSE g[i]]  OBVIOUS
  <2>5. h \in [0..k -> V]
    <3>1. \A i \in 0..k : i # k => i \in 0..k - 1  OBVIOUS
    <3> QED  BY <2>1, <2>4, <3>1
  <2>6. \A i \in 0..k : h[i] = IF i = 0 THEN v0 ELSE st[<<i, h[i - 1]>>]
    <3>1. SUFFICES ASSUME NEW i \in 0..k PROVE h[i] = IF i = 0 THEN v0 ELSE st[<<i, h[i - 1]>>]
      OBVIOUS
    <3>2. CASE i = k
      <4>1. h[i] = x /\ h[i - 1] = g[k - 1] /\ i # 0  BY <2>4, <3>2
      <4> QED  BY <2>3, <3>2, <4>1
    <3>3. CASE i # k
      <4>1. i \in 0..k - 1 /\ h[i] = g[i]  BY <2>4, <3>3
      <4>2. i # 0 => h[i - 1] = g[i - 1]  BY <2>4, <3>3
      <4> QED  BY <2>2, <4>1, <4>2
    <3> QED  BY <3>2, <3>3
  <2>7. Steps(h, k, v0, st)  BY <2>5, <2>6 DEF Steps
  <2> QED  BY <2>5, <2>7
<1> HIDE DEF A
<1>3. \A i \in 0..n : i \in A  BY <1>1, <1>2, CountingUp
<1>4. n \in A  BY <1>3
<1> QED  BY <1>4 DEF A

\* What a quotient is between.
LEMMA DivBounds ==
  ASSUME NEW x \in Nat, NEW L \in Nat, L # 0
  PROVE  x \div L \in Nat /\ L * (x \div L) <= x /\ x < L * (x \div L) + L
<1>1. PICK q \in Int : q = x \div L  OBVIOUS
<1>2. L * q <= x /\ x < L * q + L  BY <1>1
<1>3. q >= 0
  <2>1. SUFFICES ASSUME q <= -1 PROVE FALSE  BY <1>1
  <2>2. PICK p \in Nat : p = -1 - q  BY <2>1
  <2>3. L * p >= 0  OBVIOUS
  <2>4. L * p = -L - L * q  BY <2>2
  <2> QED  BY <1>2, <2>3, <2>4
<1> QED  BY <1>1, <1>2, <1>3
=============================================================================
