---------------------------------- MODULE Sums ----------------------------------
(***************************************************************************)
(* Sums over finite sets, as SumFunctionOnSet of the community modules     *)
(* computes them: by a recursive function on the subsets.  The library's   *)
(* induction theorems cannot be instantiated with a formula here, so each  *)
(* lemma takes a smallest subset for which it fails.                       *)
(***************************************************************************)
EXTENDS Naturals, Functions, FiniteSetsExt, TLAPS, FiniteSetTheorems, WellFoundedInduction

\* What a fold that has reached the elements `s` makes of them.
FoldStep(iter, f, s) ==
    IF s = {} THEN 0 ELSE LET x == CHOOSE x \in s : TRUE IN f[x] + iter[s \ {x}]

\* The function that the fold iterates with.
Iterates(iter, f, S) == iter = [s \in SUBSET S |-> FoldStep(iter, f, s)]

\* What the definition of SumFunctionOnSet says.
LEMMA SumIterates ==
    ASSUME NEW f, NEW S
    PROVE  SumFunctionOnSet(f, S) = (CHOOSE iter : Iterates(iter, f, S))[S]
  BY DEF SumFunctionOnSet, FoldFunctionOnSet, MapThenFoldSet, Iterates, FoldStep

\* A set of subsets of a finite set has a smallest member: induction over finite sets,
\* with the subsets for which a statement fails in the place of `Bad`.
LEMMA SmallestSubset ==
    ASSUME NEW S, IsFiniteSet(S), NEW Bad, Bad \subseteq SUBSET S, Bad # {}
    PROVE  \E T \in Bad : \A U \in SUBSET T : U # T => U \notin Bad
<1>1. IsWellFoundedOn(StrictSubsetOrdering(S), SUBSET S)
  BY FS_FiniteSubsetsOfFinite, FS_StrictSubsetOrderingWellFounded
<1>2. PICK T \in Bad : \A U \in Bad : <<U, T>> \notin StrictSubsetOrdering(S)
  BY <1>1, WFMin
<1>3. ASSUME NEW U \in SUBSET T, U # T PROVE U \notin Bad
  <2>1. SUFFICES ASSUME U \in Bad PROVE FALSE
    OBVIOUS
  <2>2. <<U, T>> \in (SUBSET S) \X (SUBSET S)
    BY <2>1
  <2>3. <<U, T>> \in StrictSubsetOrdering(S)
    BY <1>3, <2>2, Zenon DEF StrictSubsetOrdering
  <2>4. QED
    BY <1>2, <2>1, <2>3
<1>4. QED
  BY <1>3

\* A set and each of its subsets are summed by the same values,
LEMMA IteratesOnce ==
    ASSUME NEW f, NEW S, IsFiniteSet(S), NEW T \in SUBSET S, NEW a, NEW b,
           Iterates(a, f, S), Iterates(b, f, T)
    PROVE  \A s \in SUBSET T : a[s] = b[s]
<1> DEFINE Bad == {s \in SUBSET T : a[s] # b[s]}
<1>1. SUFFICES ASSUME Bad # {} PROVE FALSE
  OBVIOUS
<1>2. IsFiniteSet(T)
  BY FS_Subset
<1>3. PICK s \in Bad : \A u \in SUBSET s : u # s => u \notin Bad
  <2>1. Bad \subseteq SUBSET T
    OBVIOUS
  <2> HIDE DEF Bad
  <2>2. QED
    BY <1>1, <1>2, <2>1, SmallestSubset
<1>4. s \in SUBSET T /\ s \in SUBSET S /\ a[s] # b[s]
  BY <1>3
<1>5. a[s] = FoldStep(a, f, s) /\ b[s] = FoldStep(b, f, s)
  BY <1>4 DEF Iterates
<1>6. CASE s = {}
  BY <1>4, <1>5, <1>6 DEF FoldStep
<1>7. CASE s # {}
  <2> DEFINE x == CHOOSE x \in s : TRUE
  <2>1. x \in s
    BY <1>7
  <2> HIDE DEF x
  <2>2. s \ {x} \in SUBSET s /\ s \ {x} # s /\ s \ {x} \in SUBSET T
    BY <1>4, <2>1
  <2>3. a[s \ {x}] = b[s \ {x}]
    BY <1>3, <2>2
  <2>4. a[s] = f[x] + a[s \ {x}] /\ b[s] = f[x] + b[s \ {x}]
    BY <1>5, <1>7 DEF FoldStep, x
  <2>5. QED
    BY <1>4, <2>3, <2>4
<1>8. QED
  BY <1>6, <1>7

\* and there are such values: those of a set extend those of its proper subsets.
LEMMA IteratesExist ==
    ASSUME NEW f, NEW S, IsFiniteSet(S)
    PROVE  \E iter : Iterates(iter, f, S)
<1> DEFINE Bad == {T \in SUBSET S : ~\E iter : Iterates(iter, f, T)}
<1>1. SUFFICES ASSUME Bad # {} PROVE FALSE
  BY DEF Iterates
<1>2. PICK T \in Bad : \A U \in SUBSET T : U # T => U \notin Bad
  <2>1. Bad \subseteq SUBSET S
    OBVIOUS
  <2> HIDE DEF Bad
  <2>2. QED
    BY <1>1, <2>1, SmallestSubset
<1>3. T \in SUBSET S /\ IsFiniteSet(T)
  BY <1>2, FS_Subset
<1>4. \A U \in SUBSET T : U # T => \E iter : Iterates(iter, f, U)
  BY <1>2, <1>3
<1> DEFINE of(U) == CHOOSE iter : Iterates(iter, f, U)
           below == [U \in SUBSET T |-> of(U)[U]]
           all == [U \in SUBSET T |-> FoldStep(below, f, U)]
<1>5. \A U \in SUBSET T : U # T => Iterates(of(U), f, U)
  BY <1>4
<1> HIDE DEF of
<1>6. \A U \in SUBSET T : U # T => below[U] = FoldStep(below, f, U)
  <2>1. SUFFICES ASSUME NEW U \in SUBSET T, U # T PROVE below[U] = FoldStep(below, f, U)
    OBVIOUS
  <2>2. Iterates(of(U), f, U)
    BY <1>5, <2>1
  <2>3. below[U] = FoldStep(of(U), f, U)
    BY <2>2 DEF Iterates
  <2>4. CASE U = {}
    BY <2>3, <2>4 DEF FoldStep
  <2>5. CASE U # {}
    <3> DEFINE x == CHOOSE x \in U : TRUE
               V == U \ {x}
    <3>1. x \in U
      BY <2>5
    <3>2. below[U] = f[x] + of(U)[V] /\ FoldStep(below, f, U) = f[x] + below[V]
      BY <2>3, <2>5 DEF FoldStep
    <3> HIDE DEF x
    <3>3. V \in SUBSET U /\ V \in SUBSET T /\ V # T
      BY <2>1, <3>1
    <3>4. Iterates(of(V), f, V)
      BY <1>5, <3>3
    <3>5. IsFiniteSet(U)
      BY <1>3, FS_Subset
    <3>6. of(U)[V] = of(V)[V]
      BY <2>2, <3>3, <3>4, <3>5, IteratesOnce, SMTT(30)
    <3>7. QED
      BY <3>2, <3>3, <3>6
  <2>6. QED
    BY <2>4, <2>5
<1>7. \A U \in SUBSET T : U # T => all[U] = below[U]
  BY <1>6
<1>8. \A U \in SUBSET T : FoldStep(all, f, U) = FoldStep(below, f, U)
  <2>1. SUFFICES ASSUME NEW U \in SUBSET T, U # {} PROVE FoldStep(all, f, U) = FoldStep(below, f, U)
    BY DEF FoldStep
  <2> DEFINE x == CHOOSE x \in U : TRUE
  <2>2. x \in U
    BY <2>1
  <2>3. FoldStep(all, f, U) = f[x] + all[U \ {x}] /\ FoldStep(below, f, U) = f[x] + below[U \ {x}]
    BY <2>1 DEF FoldStep
  <2> HIDE DEF x, all, below
  <2>4. U \ {x} \in SUBSET T /\ U \ {x} # T
    BY <2>2
  <2>5. QED
    BY <1>7, <2>3, <2>4
<1>9. Iterates(all, f, T)
  BY <1>8 DEF Iterates
<1>10. QED
  BY <1>2, <1>9

\* The recursion that the definition stands for.
LEMMA SumOfSome ==
    ASSUME NEW f, NEW S, IsFiniteSet(S), S # {}
    PROVE  LET x == CHOOSE x \in S : TRUE
           IN SumFunctionOnSet(f, S) = f[x] + SumFunctionOnSet(f, S \ {x})
<1> DEFINE x == CHOOSE x \in S : TRUE
           of(U) == CHOOSE iter : Iterates(iter, f, U)
<1>1. x \in S
  OBVIOUS
<1>2. IsFiniteSet(S \ {x})
  BY FS_Subset
<1>3. Iterates(of(S), f, S) /\ Iterates(of(S \ {x}), f, S \ {x})
  BY <1>2, IteratesExist
<1>4. SumFunctionOnSet(f, S) = of(S)[S] /\ SumFunctionOnSet(f, S \ {x}) = of(S \ {x})[S \ {x}]
  BY SumIterates
<1>5. of(S)[S] = FoldStep(of(S), f, S)
  BY <1>3 DEF Iterates
<1>6. FoldStep(of(S), f, S) = f[x] + of(S)[S \ {x}]
  BY DEF FoldStep
<1> HIDE DEF of, x
<1>7. of(S)[S \ {x}] = of(S \ {x})[S \ {x}]
  BY <1>3, IteratesOnce
<1>8. QED
  BY <1>4, <1>5, <1>6, <1>7 DEF x

\* The sum over nothing.
LEMMA SumOfNone == \A f : SumFunctionOnSet(f, {}) = 0
<1>1. SUFFICES ASSUME NEW f PROVE SumFunctionOnSet(f, {}) = 0
  OBVIOUS
<1> DEFINE of == CHOOSE iter : Iterates(iter, f, {})
<1>2. IsFiniteSet({})
  BY FS_EmptySet
<1>3. Iterates(of, f, {})
  BY <1>2, IteratesExist
<1>4. SumFunctionOnSet(f, {}) = of[{}]
  BY SumIterates
<1> HIDE DEF of
<1>5. of[{}] = FoldStep(of, f, {})
  BY <1>3 DEF Iterates
<1>6. QED
  BY <1>4, <1>5 DEF FoldStep

\* A sum of numbers is a number.
LEMMA SumIsNat ==
    ASSUME NEW S, IsFiniteSet(S), NEW f, \A x \in S : f[x] \in Nat
    PROVE  SumFunctionOnSet(f, S) \in Nat
<1> DEFINE Bad == {T \in SUBSET S : SumFunctionOnSet(f, T) \notin Nat}
<1>1. SUFFICES ASSUME Bad # {} PROVE FALSE
  OBVIOUS
<1>2. PICK T \in Bad : \A U \in SUBSET T : U # T => U \notin Bad
  <2>1. Bad \subseteq SUBSET S
    OBVIOUS
  <2> HIDE DEF Bad
  <2>2. QED
    BY <1>1, <2>1, SmallestSubset
<1>3. T \in SUBSET S /\ IsFiniteSet(T) /\ SumFunctionOnSet(f, T) \notin Nat
  BY <1>2, FS_Subset
<1>4. T # {}
  BY <1>3, SumOfNone
<1> DEFINE x == CHOOSE x \in T : TRUE
<1>5. x \in T
  BY <1>4
<1>6. SumFunctionOnSet(f, T) = f[x] + SumFunctionOnSet(f, T \ {x})
  BY <1>3, <1>4, SumOfSome
<1> HIDE DEF x
<1>7. SumFunctionOnSet(f, T \ {x}) \in Nat
  BY <1>2, <1>3, <1>5
<1>8. QED
  BY <1>3, <1>5, <1>6, <1>7

\* The sum after one of the terms changed.
LEMMA SumChanges ==
    ASSUME NEW S, IsFiniteSet(S), NEW f, NEW g, NEW y \in S,
           \A x \in S : f[x] \in Nat /\ g[x] \in Nat,
           \A x \in S : x # y => g[x] = f[x]
    PROVE  SumFunctionOnSet(g, S) + f[y] = SumFunctionOnSet(f, S) + g[y]
<1> DEFINE Holds(T) ==
             IF y \in T THEN SumFunctionOnSet(g, T) + f[y] = SumFunctionOnSet(f, T) + g[y]
             ELSE SumFunctionOnSet(g, T) = SumFunctionOnSet(f, T)
           Bad == {T \in SUBSET S : ~Holds(T)}
<1>1. SUFFICES ASSUME Bad # {} PROVE FALSE
  OBVIOUS
<1>2. PICK T \in Bad : \A U \in SUBSET T : U # T => U \notin Bad
  <2>1. Bad \subseteq SUBSET S
    OBVIOUS
  <2> HIDE DEF Bad
  <2>2. QED
    BY <1>1, <2>1, SmallestSubset
<1>3. T \in SUBSET S /\ IsFiniteSet(T) /\ ~Holds(T)
  BY <1>2, FS_Subset
<1>4. T # {}
  BY <1>3, SumOfNone
<1> DEFINE x == CHOOSE x \in T : TRUE
           rest == T \ {x}
<1>5. x \in T
  BY <1>4
<1>6. /\ SumFunctionOnSet(f, T) = f[x] + SumFunctionOnSet(f, rest)
      /\ SumFunctionOnSet(g, T) = g[x] + SumFunctionOnSet(g, rest)
  BY <1>3, <1>4, SumOfSome
<1> HIDE DEF x
<1>7. Holds(rest)
  BY <1>2, <1>3, <1>5
<1>8. SumFunctionOnSet(f, rest) \in Nat /\ SumFunctionOnSet(g, rest) \in Nat
  <2>1. IsFiniteSet(rest) /\ \A z \in rest : f[z] \in Nat /\ g[z] \in Nat
    BY <1>3, FS_Subset
  <2> HIDE DEF rest
  <2>2. QED
    BY <2>1, SumIsNat
<1>9. f[x] \in Nat /\ g[x] \in Nat /\ f[y] \in Nat /\ g[y] \in Nat
  BY <1>3, <1>5
<1>10. CASE x = y
  <2>1. y \notin rest /\ y \in T
    BY <1>5, <1>10
  <2>2. SumFunctionOnSet(g, rest) = SumFunctionOnSet(f, rest)
    BY <1>7, <2>1
  <2>3. SumFunctionOnSet(g, T) + f[y] = SumFunctionOnSet(f, T) + g[y]
    BY <1>6, <1>8, <1>9, <1>10, <2>2
  <2>4. QED
    BY <1>3, <2>1, <2>3
<1>11. CASE x # y
  <2>1. g[x] = f[x]
    BY <1>3, <1>5, <1>11
  <2>2. y \in T <=> y \in rest
    BY <1>11
  <2>3. CASE y \in T
    <3>1. SumFunctionOnSet(g, rest) + f[y] = SumFunctionOnSet(f, rest) + g[y]
      BY <1>7, <2>2, <2>3
    <3> HIDE DEF rest
    <3>2. SumFunctionOnSet(g, T) + f[y] = SumFunctionOnSet(f, T) + g[y]
      BY <1>6, <1>8, <1>9, <2>1, <3>1
    <3>3. QED
      BY <1>3, <2>3, <3>2
  <2>4. CASE y \notin T
    BY <1>3, <1>6, <1>7, <2>1, <2>2, <2>4
  <2>5. QED
    BY <2>3, <2>4
<1>12. QED
  BY <1>10, <1>11

\* Functions that agree have the same sum.
LEMMA SumSame ==
    ASSUME NEW S, IsFiniteSet(S), NEW f, NEW g, \A x \in S : g[x] = f[x],
           \A x \in S : f[x] \in Nat
    PROVE  SumFunctionOnSet(g, S) = SumFunctionOnSet(f, S)
<1>1. CASE S = {}
  BY <1>1, SumOfNone
<1>2. CASE S # {}
  <2>1. PICK y \in S : TRUE
    BY <1>2
  <2>2. SumFunctionOnSet(g, S) + f[y] = SumFunctionOnSet(f, S) + g[y]
    BY <2>1, SumChanges
  <2>3. SumFunctionOnSet(g, S) \in Nat /\ SumFunctionOnSet(f, S) \in Nat
    BY SumIsNat
  <2>4. f[y] \in Nat /\ g[y] = f[y]
    BY <2>1
  <2>5. QED
    BY <2>2, <2>3, <2>4
<1>3. QED
  BY <1>1, <1>2

\* What the terms of a part of the set were worth is missing once they are zero.
LEMMA SumWithout ==
    ASSUME NEW S, IsFiniteSet(S), NEW R \in SUBSET S, NEW f, NEW g,
           \A x \in S : f[x] \in Nat,
           \A x \in S : g[x] = IF x \in R THEN 0 ELSE f[x]
    PROVE  SumFunctionOnSet(g, S) + SumFunctionOnSet(f, R) = SumFunctionOnSet(f, S)
<1> DEFINE without(T) == [x \in S |-> IF x \in T THEN 0 ELSE f[x]]
           Bad == {T \in SUBSET R : SumFunctionOnSet(without(T), S) + SumFunctionOnSet(f, T)
                                       # SumFunctionOnSet(f, S)}
<1>1. Bad = {}
  <2>1. SUFFICES ASSUME Bad # {} PROVE FALSE
    OBVIOUS
  <2>2. PICK T \in Bad : \A U \in SUBSET T : U # T => U \notin Bad
    <3>1. Bad \subseteq SUBSET R /\ IsFiniteSet(R)
      BY FS_Subset
    <3> HIDE DEF Bad
    <3>2. QED
      BY <2>1, <3>1, SmallestSubset
  <2>3. T \in SUBSET S /\ T \in SUBSET R /\ IsFiniteSet(T)
    BY <2>2, FS_Subset
  <2>4. SumFunctionOnSet(without(T), S) + SumFunctionOnSet(f, T) # SumFunctionOnSet(f, S)
    BY <2>2
  <2>5. SumFunctionOnSet(f, S) \in Nat
    BY SumIsNat
  <2>6. CASE T = {}
    <3> DEFINE h == without(T)
    <3>1. \A x \in S : h[x] = f[x]
      BY <2>6
    <3> HIDE DEF h
    <3>2. SumFunctionOnSet(h, S) = SumFunctionOnSet(f, S)
      BY <3>1, SumSame
    <3>3. SumFunctionOnSet(f, T) = 0
      BY <2>6, SumOfNone
    <3>4. QED
      BY <2>4, <2>5, <3>2, <3>3 DEF h
  <2>7. CASE T # {}
    <3> DEFINE y == CHOOSE x \in T : TRUE
               rest == T \ {y}
               h == without(rest)
               k == without(T)
    <3>1. y \in T
      BY <2>7
    <3>2. SumFunctionOnSet(f, T) = f[y] + SumFunctionOnSet(f, rest)
      BY <2>3, <2>7, SumOfSome
    <3> HIDE DEF y
    <3>3. rest \in SUBSET T /\ rest # T /\ rest \in SUBSET R
      BY <2>3, <3>1
    <3>4. SumFunctionOnSet(h, S) + SumFunctionOnSet(f, rest) = SumFunctionOnSet(f, S)
      BY <2>2, <3>3
    <3>5. /\ \A x \in S : h[x] \in Nat
          /\ \A x \in S : k[x] \in Nat
          /\ \A x \in S : x # y => k[x] = h[x]
      OBVIOUS
    <3>6. y \in S /\ k[y] = 0 /\ h[y] = f[y] /\ f[y] \in Nat
      BY <2>3, <3>1
    <3>7. IsFiniteSet(rest) /\ \A x \in rest : f[x] \in Nat
      BY <2>3, FS_Subset
    <3> HIDE DEF h, k, rest
    <3>8. SumFunctionOnSet(k, S) + h[y] = SumFunctionOnSet(h, S) + k[y]
      <4> HIDE DEF Bad
      <4>1. \A x \in S : h[x] \in Nat /\ k[x] \in Nat
        BY <3>5
      <4>2. QED
        BY <3>5, <3>6, <4>1, SumChanges
    <3>9. /\ SumFunctionOnSet(k, S) \in Nat /\ SumFunctionOnSet(h, S) \in Nat
          /\ SumFunctionOnSet(f, rest) \in Nat
      BY <3>5, <3>7, SumIsNat
    <3>10. SumFunctionOnSet(k, S) + SumFunctionOnSet(f, T) = SumFunctionOnSet(f, S)
      BY <2>5, <3>2, <3>4, <3>6, <3>8, <3>9
    <3>11. QED
      BY <2>4, <3>10 DEF k
  <2>8. QED
    BY <2>6, <2>7
<1>2. SumFunctionOnSet(without(R), S) + SumFunctionOnSet(f, R) = SumFunctionOnSet(f, S)
  BY <1>1
<1> DEFINE h == without(R)
<1>3. \A x \in S : g[x] = h[x] /\ h[x] \in Nat
  OBVIOUS
<1> HIDE DEF h
<1>4. SumFunctionOnSet(g, S) = SumFunctionOnSet(h, S)
  BY <1>3, SumSame
<1>5. QED
  BY <1>2, <1>4 DEF h

\* A sum of zeros.
LEMMA SumOfZeros ==
    ASSUME NEW S, IsFiniteSet(S), NEW f, \A x \in S : f[x] = 0
    PROVE  SumFunctionOnSet(f, S) = 0
<1>1. \A x \in S : f[x] \in Nat
  OBVIOUS
<1>2. SumFunctionOnSet(f, S) \in Nat
  BY <1>1, SumIsNat
<1>3. \A x \in S : f[x] = IF x \in S THEN 0 ELSE f[x]
  OBVIOUS
<1>4. SumFunctionOnSet(f, S) + SumFunctionOnSet(f, S) = SumFunctionOnSet(f, S)
  BY <1>1, <1>3, SumWithout
<1>5. QED
  BY <1>2, <1>4, SMTT(30)

\* A part of the terms sums to no more than all of them.
LEMMA SumOfPart ==
    ASSUME NEW S, IsFiniteSet(S), NEW R \in SUBSET S, NEW f, \A x \in S : f[x] \in Nat
    PROVE  SumFunctionOnSet(f, R) <= SumFunctionOnSet(f, S)
<1> DEFINE g == [x \in S |-> IF x \in R THEN 0 ELSE f[x]]
<1>1. \A x \in S : g[x] \in Nat
  OBVIOUS
<1>2. \A x \in S : g[x] = IF x \in R THEN 0 ELSE f[x]
  OBVIOUS
<1> HIDE DEF g
<1>3. SumFunctionOnSet(g, S) + SumFunctionOnSet(f, R) = SumFunctionOnSet(f, S)
  BY <1>2, SumWithout
<1>4. SumFunctionOnSet(g, S) \in Nat
  BY <1>1, SumIsNat
<1>5. IsFiniteSet(R) /\ \A x \in R : f[x] \in Nat
  BY FS_Subset
<1>6. SumFunctionOnSet(f, R) \in Nat
  BY <1>5, SumIsNat
<1>7. QED
  BY <1>3, <1>4, <1>6

\* Smaller terms have a smaller sum.
LEMMA SumAtMost ==
    ASSUME NEW S, IsFiniteSet(S), NEW f, NEW g,
           \A x \in S : f[x] \in Nat /\ g[x] \in Nat /\ f[x] <= g[x]
    PROVE  SumFunctionOnSet(f, S) <= SumFunctionOnSet(g, S)
<1> DEFINE Bad == {T \in SUBSET S : ~(SumFunctionOnSet(f, T) <= SumFunctionOnSet(g, T))}
<1>1. SUFFICES ASSUME Bad # {} PROVE FALSE
  OBVIOUS
<1>2. PICK T \in Bad : \A U \in SUBSET T : U # T => U \notin Bad
  <2>1. Bad \subseteq SUBSET S
    OBVIOUS
  <2> HIDE DEF Bad
  <2>2. QED
    BY <1>1, <2>1, SmallestSubset
<1>3. T \in SUBSET S /\ IsFiniteSet(T) /\ ~(SumFunctionOnSet(f, T) <= SumFunctionOnSet(g, T))
  BY <1>2, FS_Subset
<1>4. T # {}
  BY <1>3, SumOfNone
<1> DEFINE x == CHOOSE x \in T : TRUE
           rest == T \ {x}
<1>5. x \in T
  BY <1>4
<1>6. /\ SumFunctionOnSet(f, T) = f[x] + SumFunctionOnSet(f, rest)
      /\ SumFunctionOnSet(g, T) = g[x] + SumFunctionOnSet(g, rest)
  BY <1>3, <1>4, SumOfSome
<1> HIDE DEF x
<1>7. SumFunctionOnSet(f, rest) <= SumFunctionOnSet(g, rest)
  BY <1>2, <1>3, <1>5
<1>8. SumFunctionOnSet(f, rest) \in Nat /\ SumFunctionOnSet(g, rest) \in Nat
  <2>1. IsFiniteSet(rest) /\ \A z \in rest : f[z] \in Nat /\ g[z] \in Nat
    BY <1>3, FS_Subset
  <2> HIDE DEF rest
  <2>2. QED
    BY <2>1, SumIsNat
<1>9. f[x] \in Nat /\ g[x] \in Nat /\ f[x] <= g[x]
  BY <1>3, <1>5
<1> HIDE DEF rest
<1>10. SumFunctionOnSet(f, T) <= SumFunctionOnSet(g, T)
  BY <1>6, <1>7, <1>8, <1>9
<1>11. QED
  BY <1>3, <1>10

\* One of the terms grows by no more than `more`, and the others do not.
LEMMA SumGrows ==
    ASSUME NEW S, IsFiniteSet(S), NEW f, NEW g, NEW y \in S, NEW more \in Nat,
           \A x \in S : f[x] \in Nat /\ g[x] \in Nat,
           \A x \in S : x # y => g[x] <= f[x],
           g[y] <= f[y] + more
    PROVE  SumFunctionOnSet(g, S) <= SumFunctionOnSet(f, S) + more
<1> DEFINE h == [x \in S |-> IF x = y THEN f[y] + more ELSE f[x]]
<1>1. \A x \in S : h[x] \in Nat /\ g[x] <= h[x] /\ (x # y => h[x] = f[x])
  OBVIOUS
<1>2. h[y] = f[y] + more
  OBVIOUS
<1> HIDE DEF h
<1>3. SumFunctionOnSet(g, S) <= SumFunctionOnSet(h, S)
  <2>1. \A x \in S : g[x] \in Nat /\ h[x] \in Nat /\ g[x] <= h[x]
    BY <1>1
  <2>2. QED
    BY <2>1, SumAtMost
<1>4. SumFunctionOnSet(h, S) + f[y] = SumFunctionOnSet(f, S) + h[y]
  <2>1. \A x \in S : f[x] \in Nat /\ h[x] \in Nat
    BY <1>1
  <2>2. \A x \in S : x # y => h[x] = f[x]
    BY <1>1
  <2>3. QED
    BY <2>1, <2>2, SumChanges
<1>5. /\ SumFunctionOnSet(g, S) \in Nat /\ SumFunctionOnSet(h, S) \in Nat
      /\ SumFunctionOnSet(f, S) \in Nat
  BY <1>1, SumIsNat
<1>6. f[y] \in Nat
  OBVIOUS
<1>7. QED
  BY <1>2, <1>3, <1>4, <1>5, <1>6

\* Terms that are greater by no more than `more` each.
LEMMA SumShifts ==
    ASSUME NEW S, IsFiniteSet(S), NEW f, NEW g, NEW more \in Nat,
           \A x \in S : f[x] \in Nat /\ g[x] \in Nat /\ f[x] <= g[x] + more
    PROVE  SumFunctionOnSet(f, S) <= SumFunctionOnSet(g, S) + Cardinality(S) * more
<1> DEFINE Bad == {T \in SUBSET S : ~(SumFunctionOnSet(f, T)
                                         <= SumFunctionOnSet(g, T) + Cardinality(T) * more)}
<1>1. SUFFICES ASSUME Bad # {} PROVE FALSE
  OBVIOUS
<1>2. PICK T \in Bad : \A U \in SUBSET T : U # T => U \notin Bad
  <2>1. Bad \subseteq SUBSET S
    OBVIOUS
  <2> HIDE DEF Bad
  <2>2. QED
    BY <1>1, <2>1, SmallestSubset
<1>3. /\ T \in SUBSET S /\ IsFiniteSet(T)
      /\ ~(SumFunctionOnSet(f, T) <= SumFunctionOnSet(g, T) + Cardinality(T) * more)
  BY <1>2, FS_Subset
<1>4. T # {}
  <2>1. Cardinality({}) * more = 0 /\ 0 <= 0 + 0
    BY FS_EmptySet
  <2>2. QED
    BY <1>3, <2>1, SumOfNone
<1> DEFINE x == CHOOSE x \in T : TRUE
           rest == T \ {x}
<1>5. x \in T
  BY <1>4
<1>6. /\ SumFunctionOnSet(f, T) = f[x] + SumFunctionOnSet(f, rest)
      /\ SumFunctionOnSet(g, T) = g[x] + SumFunctionOnSet(g, rest)
  BY <1>3, <1>4, SumOfSome
<1> HIDE DEF x
<1>7. /\ rest \in SUBSET S /\ IsFiniteSet(rest)
      /\ SumFunctionOnSet(f, rest) <= SumFunctionOnSet(g, rest) + Cardinality(rest) * more
  BY <1>2, <1>3, <1>5, FS_Subset
<1>8. SumFunctionOnSet(f, rest) \in Nat /\ SumFunctionOnSet(g, rest) \in Nat
  <2>1. \A z \in rest : f[z] \in Nat /\ g[z] \in Nat
    BY <1>3
  <2> HIDE DEF rest
  <2>2. QED
    BY <1>7, <2>1, SumIsNat
<1>9. f[x] \in Nat /\ g[x] \in Nat /\ f[x] <= g[x] + more
  BY <1>3, <1>5
<1>10. Cardinality(rest) \in Nat /\ Cardinality(T) = Cardinality(rest) + 1
  <2>1. Cardinality(T) \in Nat /\ Cardinality(rest) \in Nat
    BY <1>3, <1>7, FS_CardinalityType
  <2>2. Cardinality(rest) = Cardinality(T) - 1
    BY <1>3, <1>5, FS_RemoveElement
  <2>3. QED
    BY <2>1, <2>2
<1>11. PICK n \in Nat : n = Cardinality(rest)
  BY <1>10
<1> HIDE DEF rest
<1>12. Cardinality(T) * more = n * more + more /\ n * more \in Nat
  BY <1>10, <1>11
<1>13. PICK k \in Nat : k = n * more
  BY <1>12
<1>14. SumFunctionOnSet(f, rest) <= SumFunctionOnSet(g, rest) + k
  BY <1>7, <1>11, <1>13
<1>15. SumFunctionOnSet(f, T) <= SumFunctionOnSet(g, T) + (k + more)
  BY <1>6, <1>8, <1>9, <1>14
<1>16. QED
  BY <1>3, <1>12, <1>13, <1>15

-----------------------------------------------------------------------------
(* The ends of sets of numbers.                                              *)

\* Of numbers, the minimum is the smallest.
LEMMA SmallestNumber ==
    ASSUME NEW S \in SUBSET Nat, S # {}
    PROVE  Min(S) \in S /\ \A n \in S : Min(S) <= n
<1>1. PICK m \in S : \A n \in S : <<n, m>> \notin OpToRel(<, Nat)
  BY NatLessThanWellFounded, WFMin
<1>2. \A n \in S : m <= n
  <2>1. SUFFICES ASSUME NEW n \in S, n < m PROVE FALSE
    OBVIOUS
  <2>2. <<n, m>> \in Nat \X Nat
    OBVIOUS
  <2>3. <<n, m>> \in OpToRel(<, Nat)
    BY <2>1, <2>2, Zenon DEF OpToRel
  <2>4. QED
    BY <1>1, <2>3
<1>3. QED
  BY <1>2 DEF Min

\* A finite set of numbers that is not empty has a largest: one without would have a
\* smallest subset without.
LEMMA FiniteMax ==
    ASSUME NEW S \in SUBSET Nat, IsFiniteSet(S), S # {}
    PROVE  Max(S) \in S /\ \A y \in S : y <= Max(S)
<1> DEFINE HasMax(T) == \E x \in T : \A y \in T : x >= y
           Without == {T \in SUBSET S : T # {} /\ ~HasMax(T)}
<1>1. Without = {}
  <2>1. SUFFICES ASSUME Without # {} PROVE FALSE
    OBVIOUS
  <2>2. IsWellFoundedOn(StrictSubsetOrdering(S), SUBSET S)
    BY FS_FiniteSubsetsOfFinite, FS_StrictSubsetOrderingWellFounded
  <2>3. PICK T \in Without : \A U \in Without : <<U, T>> \notin StrictSubsetOrdering(S)
    <3>1. Without \subseteq SUBSET S
      OBVIOUS
    <3> HIDE DEF Without
    <3>2. QED
      BY <2>1, <2>2, <3>1, WFMin
  <2>4. T \in SUBSET S /\ T # {} /\ ~HasMax(T)
    BY <2>3
  <2>5. PICK x \in T : TRUE
    BY <2>4
  <2>6. PICK U : U = T \ {x}
    OBVIOUS
  <2>7. U \in SUBSET S /\ U \subseteq T /\ U # T
    BY <2>4, <2>5, <2>6
  <2>8. U \notin Without
    BY <2>3, <2>4, <2>7 DEF StrictSubsetOrdering
  <2>9. CASE U = {}
    <3>1. T = {x} /\ x \in Nat
      BY <2>4, <2>5, <2>6, <2>9
    <3>2. QED
      BY <2>4, <3>1
  <2>10. CASE U # {}
    <3>1. HasMax(U)
      BY <2>7, <2>8, <2>10
    <3>2. PICK m \in U : \A y \in U : m >= y
      BY <3>1
    <3>3. m \in T /\ m \in Nat /\ x \in Nat /\ \A y \in T : y = x \/ y \in U
      BY <2>4, <2>5, <2>6, <3>2
    <3>4. CASE m >= x
      BY <2>4, <3>2, <3>3, <3>4
    <3>5. CASE x > m
      <4>1. ASSUME NEW y \in T PROVE x >= y
        <5>1. y \in Nat
          BY <2>4
        <5>2. QED
          BY <3>2, <3>3, <3>5, <5>1
      <4>2. QED
        BY <2>4, <4>1
    <3>6. QED
      BY <3>3, <3>4, <3>5
  <2>11. QED
    BY <2>9, <2>10
<1>2. HasMax(S)
  BY <1>1
<1>3. Max(S) \in S /\ \A y \in S : Max(S) >= y
  BY <1>2, Zenon DEF Max
<1>4. QED
  BY <1>3
=============================================================================
