------------------------------ MODULE FiniteSums ------------------------------
(***************************************************************************)
(* Facts about finite sums, SumFunctionOnSet(f, S) of the community        *)
(* modules, that the ledgers of this project rest on.  The library's       *)
(* induction theorems take an operator as parameter; here a claim about    *)
(* every subset of a finite set is proved instead by looking at a minimal  *)
(* subset for which it fails (MinimalSubset).                              *)
(***************************************************************************)
EXTENDS Integers, FiniteSets, Functions, FiniteSetTheorems, WellFoundedInduction, TLAPS

\* The recursion that MapThenFoldSet unfolds for a sum, and its chosen solution.
SumEquation(g, f, S) ==
  g = [T \in SUBSET S |-> IF T = {} THEN 0
         ELSE f[CHOOSE x \in T : TRUE] + g[T \ {CHOOSE x \in T : TRUE}]]
SumFcn(f, S) == CHOOSE g : SumEquation(g, f, S)

\* Induction over the subsets of a finite set, by a minimal counterexample.
LEMMA MinimalSubset ==
  ASSUME NEW S, IsFiniteSet(S), NEW F, F \subseteq SUBSET S, F # {}
  PROVE  \E T \in F : \A U \in F : U \subseteq T => U = T
<1>1. IsWellFoundedOn(StrictSubsetOrdering(S), SUBSET S)
  BY FS_StrictSubsetOrderingWellFounded, FS_FiniteSubsetsOfFinite
<1>2. \E T \in F : \A U \in F : ~(<<U, T>> \in StrictSubsetOrdering(S))
  BY <1>1, WFMin
<1> QED BY <1>2 DEF StrictSubsetOrdering

\* A finite set of numbers that is not empty has a maximum.
LEMMA HasMaximum ==
  ASSUME NEW S, IsFiniteSet(S), S \subseteq Int, S # {}
  PROVE  \E x \in S : \A y \in S : x >= y
<1> DEFINE F == {T \in SUBSET S : T # {} /\ ~\E x \in T : \A y \in T : x >= y}
<1>1. F = {}
  <2> SUFFICES ASSUME F # {} PROVE FALSE
    OBVIOUS
  <2>1. PICK T \in F : \A U \in F : U \subseteq T => U = T
    <3>1. F \subseteq SUBSET S
      OBVIOUS
    <3> HIDE DEF F
    <3>2. IsFiniteSet(S) /\ F # {}
      OBVIOUS
    <3> QED BY ONLY <3>1, <3>2, MinimalSubset
  <2>2. PICK x : x \in T
    OBVIOUS
  <2>3. T \ {x} \notin F
    BY <2>1, <2>2
  <2>4. CASE T \ {x} = {}
    BY <2>2, <2>4
  <2>5. CASE T \ {x} # {}
    <3>1. PICK m \in T \ {x} : \A y \in T \ {x} : m >= y
      BY <2>3, <2>5
    <3>2. \/ \A y \in T : x >= y
          \/ \A y \in T : m >= y
      BY <2>2, <3>1
    <3> QED BY <2>2, <3>1, <3>2
  <2> QED BY <2>4, <2>5
<1> QED BY <1>1

\* Two solutions of the recursion agree wherever both are defined.
LEMMA SumAgree ==
  ASSUME NEW f, NEW S, NEW W, IsFiniteSet(W), W \subseteq S,
         NEW g, NEW h, SumEquation(g, f, S), SumEquation(h, f, W)
  PROVE  \A T \in SUBSET W : g[T] = h[T]
<1> DEFINE F == {T \in SUBSET W : g[T] # h[T]}
<1> SUFFICES ASSUME F # {} PROVE FALSE
  OBVIOUS
<1>1. PICK T \in F : \A U \in F : U \subseteq T => U = T
  <2>1. F \subseteq SUBSET W
    OBVIOUS
  <2> HIDE DEF F
  <2> QED BY <2>1, MinimalSubset
<1>2. T # {}
  BY DEF SumEquation
<1> DEFINE x == CHOOSE x \in T : TRUE
<1>3. x \in T
  BY <1>2
<1>4. g[T \ {x}] = h[T \ {x}]
  BY <1>1, <1>3
<1>5. g[T] = f[x] + g[T \ {x}] /\ h[T] = f[x] + h[T \ {x}]
  BY <1>2 DEF SumEquation
<1> QED BY <1>4, <1>5

\* The recursion has a solution on a finite set, so the chosen one is a solution.
LEMMA SumDefined ==
  ASSUME NEW f, NEW S, IsFiniteSet(S)
  PROVE  SumEquation(SumFcn(f, S), f, S)
<1> DEFINE F == {T \in SUBSET S : ~SumEquation(SumFcn(f, T), f, T)}
<1> SUFFICES ASSUME F # {} PROVE FALSE
  OBVIOUS
<1>1. PICK T \in F : \A U \in F : U \subseteq T => U = T
  <2>1. F \subseteq SUBSET S
    OBVIOUS
  <2> HIDE DEF F
  <2> QED BY <2>1, MinimalSubset
<1> DEFINE pick(U) == CHOOSE x \in U : TRUE
           h == [U \in SUBSET T |-> IF U = {} THEN 0
                  ELSE f[pick(U)] + SumFcn(f, U \ {pick(U)})[U \ {pick(U)}]]
<1>2. \A U \in SUBSET T : U # T => SumEquation(SumFcn(f, U), f, U)
  BY <1>1
<1>3. \A U \in SUBSET T : U # T => h[U] = SumFcn(f, U)[U]
  <2>0. {} # T => h[{}] = SumFcn(f, {})[{}]
    <3>1. {} # T => SumEquation(SumFcn(f, {}), f, {})
      BY <1>2
    <3>2. h[{}] = 0
      OBVIOUS
    <3> QED BY <3>1, <3>2 DEF SumEquation
  <2> SUFFICES ASSUME NEW U \in SUBSET T, U # T, U # {} PROVE h[U] = SumFcn(f, U)[U]
    BY <2>0
  <2> DEFINE V == U \ {pick(U)}
  <2>1. pick(U) \in U /\ V \subseteq U /\ V \in SUBSET T /\ V # T
    OBVIOUS
  <2>2. IsFiniteSet(V)
    BY <2>1, FS_Subset
  <2>3. SumFcn(f, U)[V] = SumFcn(f, V)[V]
    BY <1>2, <2>1, <2>2, SumAgree
  <2>4. SumFcn(f, U)[U] = f[pick(U)] + SumFcn(f, U)[V]
    BY <1>2 DEF SumEquation
  <2> QED BY <2>3, <2>4
<1>4. SumEquation(h, f, T)
  <2>1. ASSUME NEW U \in SUBSET T, U # {}
        PROVE  h[U] = f[pick(U)] + h[U \ {pick(U)}]
    <3>1. pick(U) \in U /\ U \ {pick(U)} \in SUBSET T /\ U \ {pick(U)} # T
      BY <2>1
    <3> QED BY <1>3, <3>1, <2>1
  <2>2. h = [U \in SUBSET T |-> IF U = {} THEN 0 ELSE f[pick(U)] + h[U \ {pick(U)}]]
    <3>1. h[{}] = 0
      OBVIOUS
    <3>2. h = [U \in SUBSET T |-> h[U]]
      OBVIOUS
    <3> HIDE DEF h, pick
    <3>3. \A U \in SUBSET T : h[U] = IF U = {} THEN 0 ELSE f[pick(U)] + h[U \ {pick(U)}]
      BY <2>1, <3>1
    <3> QED BY ONLY <3>2, <3>3
  <2> QED BY ONLY <2>2 DEF SumEquation
<1>5. SumEquation(SumFcn(f, T), f, T)
  BY <1>4 DEF SumFcn
<1> QED BY <1>1, <1>5

\* The sum of the community modules is the value of the recursion at the whole set.
LEMMA SumUnfold ==
  ASSUME NEW f, NEW S
  PROVE  SumFunctionOnSet(f, S) = SumFcn(f, S)[S]
  BY Zenon DEF SumFunctionOnSet, FoldFunctionOnSet, MapThenFoldSet, SumFcn, SumEquation

\* What the recursion of one set says about the sums of all its subsets.
LEMMA SumOnSubset ==
  ASSUME NEW f, NEW S, IsFiniteSet(S), NEW T \in SUBSET S
  PROVE  SumFcn(f, S)[T] = SumFunctionOnSet(f, T)
<1>1. IsFiniteSet(T)
  BY FS_Subset
<1>2. SumFcn(f, S)[T] = SumFcn(f, T)[T]
  BY <1>1, SumDefined, SumAgree
<1> QED BY <1>2, SumUnfold

-----------------------------------------------------------------------------
LEMMA SumEmpty ==
  ASSUME NEW f
  PROVE  SumFunctionOnSet(f, {}) = 0
<1>1. SumEquation(SumFcn(f, {}), f, {})
  BY SumDefined, FS_EmptySet
<1> QED BY <1>1, SumUnfold DEF SumEquation

\* One step of the recursion: the element it takes first.
LEMMA SumStep ==
  ASSUME NEW f, NEW S, IsFiniteSet(S), S # {}
  PROVE  \E x \in S : SumFunctionOnSet(f, S) = f[x] + SumFunctionOnSet(f, S \ {x})
<1> DEFINE x == CHOOSE x \in S : TRUE
<1>1. x \in S
  OBVIOUS
<1>2. SumFcn(f, S)[S] = f[x] + SumFcn(f, S)[S \ {x}]
  <2> DEFINE g == SumFcn(f, S)
  <2>1. SumEquation(g, f, S)
    BY SumDefined
  <2> HIDE DEF g
  <2>2. g[S] = f[x] + g[S \ {x}]
    BY <2>1 DEF SumEquation
  <2> QED BY <2>2 DEF g
<1>3. SumFcn(f, S)[S \ {x}] = SumFunctionOnSet(f, S \ {x})
  BY SumOnSubset
<1> HIDE DEF x
<1> QED BY <1>1, <1>2, <1>3, SumUnfold

\* A sum of integers is an integer.
LEMMA SumInt ==
  ASSUME NEW f, NEW S, IsFiniteSet(S), \A y \in S : f[y] \in Int
  PROVE  SumFunctionOnSet(f, S) \in Int
<1> DEFINE F == {T \in SUBSET S : SumFunctionOnSet(f, T) \notin Int}
<1> SUFFICES ASSUME F # {} PROVE FALSE
  OBVIOUS
<1>1. PICK T \in F : \A U \in F : U \subseteq T => U = T
  <2>1. F \subseteq SUBSET S
    OBVIOUS
  <2> HIDE DEF F
  <2> QED BY <2>1, MinimalSubset
<1>2. IsFiniteSet(T) /\ T # {}
  <2>1. T \in SUBSET S /\ SumFunctionOnSet(f, T) \notin Int
    OBVIOUS
  <2>2. IsFiniteSet(T)
    BY <2>1, FS_Subset
  <2>3. SumFunctionOnSet(f, {}) \in Int
    BY SumEmpty
  <2> QED BY <2>1, <2>2, <2>3
<1>3. PICK x \in T : SumFunctionOnSet(f, T) = f[x] + SumFunctionOnSet(f, T \ {x})
  BY <1>2, SumStep
<1>4. SumFunctionOnSet(f, T \ {x}) \in Int
  BY <1>1
<1> QED BY <1>3, <1>4

\* The order does not matter: any element may be taken first.
LEMMA SumRemove ==
  ASSUME NEW f, NEW S, IsFiniteSet(S), \A y \in S : f[y] \in Int
  PROVE  \A x \in S : SumFunctionOnSet(f, S) = f[x] + SumFunctionOnSet(f, S \ {x})
<1> DEFINE Any(T) == \A x \in T : SumFunctionOnSet(f, T) = f[x] + SumFunctionOnSet(f, T \ {x})
           F == {T \in SUBSET S : ~Any(T)}
<1> SUFFICES ASSUME F # {} PROVE FALSE
  OBVIOUS
<1>1. PICK T \in F : \A U \in F : U \subseteq T => U = T
  <2>1. F \subseteq SUBSET S
    OBVIOUS
  <2> HIDE DEF F
  <2> QED BY <2>1, MinimalSubset
<1>2. IsFiniteSet(T) /\ T # {}
  BY FS_Subset
<1>3. PICK c \in T : SumFunctionOnSet(f, T) = f[c] + SumFunctionOnSet(f, T \ {c})
  BY <1>2, SumStep
<1>4. PICK x \in T : SumFunctionOnSet(f, T) # f[x] + SumFunctionOnSet(f, T \ {x})
  BY <1>1
<1>5. c # x
  BY <1>3, <1>4
<1> DEFINE R == T \ {c, x}
<1>6. (T \ {c}) \ {x} = R /\ (T \ {x}) \ {c} = R
  OBVIOUS
<1>7. Any(T \ {c}) /\ Any(T \ {x})
  BY <1>1, <1>3, <1>4
<1>8. /\ SumFunctionOnSet(f, T \ {c}) = f[x] + SumFunctionOnSet(f, R)
      /\ SumFunctionOnSet(f, T \ {x}) = f[c] + SumFunctionOnSet(f, R)
  BY <1>5, <1>6, <1>7
<1>9. SumFunctionOnSet(f, R) \in Int /\ f[x] \in Int /\ f[c] \in Int
  <2>1. IsFiniteSet(R) /\ \A y \in R : f[y] \in Int
    BY <1>2, FS_Subset
  <2> QED BY <2>1, SumInt
<1> HIDE DEF R
<1> QED BY <1>3, <1>4, <1>8, <1>9

\* A sum of natural numbers is one.
LEMMA SumNat ==
  ASSUME NEW f, NEW S, IsFiniteSet(S), \A y \in S : f[y] \in Nat
  PROVE  SumFunctionOnSet(f, S) \in Nat
<1> DEFINE F == {T \in SUBSET S : SumFunctionOnSet(f, T) \notin Nat}
<1> SUFFICES ASSUME F # {} PROVE FALSE
  OBVIOUS
<1>1. PICK T \in F : \A U \in F : U \subseteq T => U = T
  <2>1. F \subseteq SUBSET S
    OBVIOUS
  <2> HIDE DEF F
  <2> QED BY <2>1, MinimalSubset
<1>2. IsFiniteSet(T)
  <2>1. T \in SUBSET S
    OBVIOUS
  <2> QED BY <2>1, FS_Subset
<1>3. T # {}
  BY SumEmpty
<1>4. PICK x : x \in T
  BY <1>3
<1>5. T \ {x} \notin F
  BY <1>1, <1>4
<1>6. SumFunctionOnSet(f, T) = f[x] + SumFunctionOnSet(f, T \ {x})
  BY <1>2, <1>4, SumRemove
<1> QED BY <1>4, <1>5, <1>6

\* Equal terms, equal sums.
LEMMA SumEqual ==
  ASSUME NEW f, NEW g, NEW S, IsFiniteSet(S), \A y \in S : f[y] = g[y] /\ f[y] \in Int
  PROVE  SumFunctionOnSet(f, S) = SumFunctionOnSet(g, S)
<1> DEFINE F == {T \in SUBSET S : SumFunctionOnSet(f, T) # SumFunctionOnSet(g, T)}
<1> SUFFICES ASSUME F # {} PROVE FALSE
  OBVIOUS
<1>1. PICK T \in F : \A U \in F : U \subseteq T => U = T
  <2>1. F \subseteq SUBSET S
    OBVIOUS
  <2> HIDE DEF F
  <2> QED BY <2>1, MinimalSubset
<1>2. IsFiniteSet(T)
  <2>1. T \in SUBSET S
    OBVIOUS
  <2> QED BY <2>1, FS_Subset
<1>3. T # {}
  BY SumEmpty
<1>4. PICK x : x \in T
  BY <1>3
<1>5. T \ {x} \notin F
  BY <1>1, <1>4
<1>6. SumFunctionOnSet(f, T) = f[x] + SumFunctionOnSet(f, T \ {x})
  BY <1>2, <1>4, SumRemove
<1>7. SumFunctionOnSet(g, T) = g[x] + SumFunctionOnSet(g, T \ {x})
  <2>1. \A y \in T : g[y] \in Int
    OBVIOUS
  <2> QED BY <2>1, <1>2, <1>4, SumRemove
<1> QED BY <1>4, <1>5, <1>6, <1>7

\* Smaller terms, smaller sum.
LEMMA SumMonotone ==
  ASSUME NEW f, NEW g, NEW S, IsFiniteSet(S),
         \A y \in S : f[y] \in Int /\ g[y] \in Int /\ f[y] <= g[y]
  PROVE  SumFunctionOnSet(f, S) <= SumFunctionOnSet(g, S)
<1> DEFINE F == {T \in SUBSET S : ~(SumFunctionOnSet(f, T) <= SumFunctionOnSet(g, T))}
<1> SUFFICES ASSUME F # {} PROVE FALSE
  OBVIOUS
<1>1. PICK T \in F : \A U \in F : U \subseteq T => U = T
  <2>1. F \subseteq SUBSET S
    OBVIOUS
  <2> HIDE DEF F
  <2> QED BY <2>1, MinimalSubset
<1>2. IsFiniteSet(T)
  <2>1. T \in SUBSET S
    OBVIOUS
  <2> QED BY <2>1, FS_Subset
<1>3. T # {}
  BY SumEmpty
<1>4. PICK x : x \in T
  BY <1>3
<1>5. T \ {x} \notin F
  BY <1>1, <1>4
<1>6. /\ SumFunctionOnSet(f, T) = f[x] + SumFunctionOnSet(f, T \ {x})
      /\ SumFunctionOnSet(g, T) = g[x] + SumFunctionOnSet(g, T \ {x})
  BY <1>2, <1>4, SumRemove
<1>7. SumFunctionOnSet(f, T \ {x}) \in Int /\ SumFunctionOnSet(g, T \ {x}) \in Int
  <2>1. IsFiniteSet(T \ {x})
    BY <1>2, FS_RemoveElement
  <2> QED BY <2>1, SumInt
<1> QED BY <1>4, <1>5, <1>6, <1>7

\* The sum of a sum of terms.
LEMMA SumPlus ==
  ASSUME NEW f, NEW g, NEW h, NEW S, IsFiniteSet(S),
         \A y \in S : f[y] \in Int /\ g[y] \in Int /\ h[y] = f[y] + g[y]
  PROVE  SumFunctionOnSet(h, S) = SumFunctionOnSet(f, S) + SumFunctionOnSet(g, S)
<1> DEFINE F == {T \in SUBSET S : SumFunctionOnSet(h, T) # SumFunctionOnSet(f, T) + SumFunctionOnSet(g, T)}
<1> SUFFICES ASSUME F # {} PROVE FALSE
  OBVIOUS
<1>1. PICK T \in F : \A U \in F : U \subseteq T => U = T
  <2>1. F \subseteq SUBSET S
    OBVIOUS
  <2> HIDE DEF F
  <2> QED BY <2>1, MinimalSubset
<1>2. IsFiniteSet(T)
  <2>1. T \in SUBSET S
    OBVIOUS
  <2> QED BY <2>1, FS_Subset
<1>3. T # {}
  <2> SUFFICES ASSUME T = {} PROVE FALSE
    OBVIOUS
  <2>1. SumFunctionOnSet(f, T) = 0 /\ SumFunctionOnSet(g, T) = 0 /\ SumFunctionOnSet(h, T) = 0
    BY SumEmpty
  <2>2. SumFunctionOnSet(h, T) = SumFunctionOnSet(f, T) + SumFunctionOnSet(g, T)
    BY <2>1
  <2> QED BY <2>2
<1>4. PICK x : x \in T
  BY <1>3
<1>5. T \ {x} \notin F
  BY <1>1, <1>4
<1>6. /\ SumFunctionOnSet(f, T) = f[x] + SumFunctionOnSet(f, T \ {x})
      /\ SumFunctionOnSet(g, T) = g[x] + SumFunctionOnSet(g, T \ {x})
  BY <1>2, <1>4, SumRemove
<1>7. SumFunctionOnSet(h, T) = h[x] + SumFunctionOnSet(h, T \ {x})
  <2>1. \A y \in T : h[y] \in Int
    OBVIOUS
  <2> QED BY <2>1, <1>2, <1>4, SumRemove
<1>8. SumFunctionOnSet(f, T \ {x}) \in Int /\ SumFunctionOnSet(g, T \ {x}) \in Int
  <2>1. IsFiniteSet(T \ {x})
    BY <1>2, FS_RemoveElement
  <2> QED BY <2>1, SumInt
<1> QED BY <1>4, <1>5, <1>6, <1>7, <1>8

\* A sum of equal terms.
LEMMA SumConstant ==
  ASSUME NEW f, NEW c \in Int, NEW S, IsFiniteSet(S), \A y \in S : f[y] = c
  PROVE  SumFunctionOnSet(f, S) = c * Cardinality(S)
<1> DEFINE F == {T \in SUBSET S : SumFunctionOnSet(f, T) # c * Cardinality(T)}
<1> SUFFICES ASSUME F # {} PROVE FALSE
  OBVIOUS
<1>1. PICK T \in F : \A U \in F : U \subseteq T => U = T
  <2>1. F \subseteq SUBSET S
    OBVIOUS
  <2> HIDE DEF F
  <2> QED BY <2>1, MinimalSubset
<1>2. IsFiniteSet(T)
  <2>1. T \in SUBSET S
    OBVIOUS
  <2> QED BY <2>1, FS_Subset
<1>3. T # {}
  BY SumEmpty, FS_EmptySet
<1>4. PICK x : x \in T
  BY <1>3
<1>5. T \ {x} \notin F
  BY <1>1, <1>4
<1>6. SumFunctionOnSet(f, T) = f[x] + SumFunctionOnSet(f, T \ {x})
  BY <1>2, <1>4, SumRemove
<1>7. Cardinality(T) \in Nat /\ Cardinality(T \ {x}) = Cardinality(T) - 1
  BY <1>2, <1>4, FS_RemoveElement, FS_CardinalityType
<1>8. SumFunctionOnSet(f, T \ {x}) = c * (Cardinality(T) - 1)
  BY <1>5, <1>7
<1>9. c + c * (Cardinality(T) - 1) = c * Cardinality(T)
  BY <1>7
<1> QED BY <1>4, <1>6, <1>8, <1>9

\* A constant factor comes out of a sum.
LEMMA SumScale ==
  ASSUME NEW f, NEW g, NEW c \in Int, NEW S, IsFiniteSet(S),
         \A y \in S : f[y] \in Int /\ g[y] = c * f[y]
  PROVE  SumFunctionOnSet(g, S) = c * SumFunctionOnSet(f, S)
<1> DEFINE F == {T \in SUBSET S : SumFunctionOnSet(g, T) # c * SumFunctionOnSet(f, T)}
<1> SUFFICES ASSUME F # {} PROVE FALSE
  OBVIOUS
<1>1. PICK T \in F : \A U \in F : U \subseteq T => U = T
  <2>1. F \subseteq SUBSET S
    OBVIOUS
  <2> HIDE DEF F
  <2> QED BY <2>1, MinimalSubset
<1>2. IsFiniteSet(T)
  <2>1. T \in SUBSET S
    OBVIOUS
  <2> QED BY <2>1, FS_Subset
<1>3. T # {}
  <2>1. c * 0 = 0
    OBVIOUS
  <2> QED BY <2>1, SumEmpty
<1>4. PICK x : x \in T
  BY <1>3
<1>5. T \ {x} \notin F
  BY <1>1, <1>4
<1>6. \A y \in T : f[y] \in Int /\ g[y] = c * f[y] /\ g[y] \in Int
  OBVIOUS
<1>7. /\ SumFunctionOnSet(f, T) = f[x] + SumFunctionOnSet(f, T \ {x})
      /\ SumFunctionOnSet(g, T) = g[x] + SumFunctionOnSet(g, T \ {x})
  BY <1>2, <1>4, <1>6, SumRemove
<1>8. SumFunctionOnSet(f, T \ {x}) \in Int
  <2>1. IsFiniteSet(T \ {x})
    BY <1>2, FS_RemoveElement
  <2> QED BY <2>1, SumInt
<1>9. SumFunctionOnSet(g, T \ {x}) = c * SumFunctionOnSet(f, T \ {x})
  BY <1>5
<1>10. f[x] \in Int /\ g[x] = c * f[x]
  BY <1>4, <1>6
<1>11. c * (f[x] + SumFunctionOnSet(f, T \ {x})) = c * f[x] + c * SumFunctionOnSet(f, T \ {x})
  BY <1>8, <1>10
<1>12. SumFunctionOnSet(g, T) = c * SumFunctionOnSet(f, T)
  BY <1>7, <1>9, <1>10, <1>11
<1> QED BY <1>12

\* Terms that vanish outside T do not count.
LEMMA SumSupport ==
  ASSUME NEW f, NEW S, IsFiniteSet(S), \A y \in S : f[y] \in Int,
         NEW W \in SUBSET S, \A y \in S \ W : f[y] = 0
  PROVE  SumFunctionOnSet(f, S) = SumFunctionOnSet(f, W)
<1> DEFINE F == {T \in SUBSET S : W \subseteq T /\ SumFunctionOnSet(f, T) # SumFunctionOnSet(f, W)}
<1> SUFFICES ASSUME F # {} PROVE FALSE
  OBVIOUS
<1>1. PICK T \in F : \A U \in F : U \subseteq T => U = T
  <2>1. F \subseteq SUBSET S
    OBVIOUS
  <2> HIDE DEF F
  <2> QED BY <2>1, MinimalSubset
<1>2. IsFiniteSet(T)
  <2>1. T \in SUBSET S
    OBVIOUS
  <2> QED BY <2>1, FS_Subset
<1>3. PICK x : x \in T /\ x \notin W
  OBVIOUS
<1>4. T \ {x} \notin F /\ T \ {x} \in SUBSET S /\ W \subseteq T \ {x}
  BY <1>1, <1>3
<1>5. SumFunctionOnSet(f, T) = f[x] + SumFunctionOnSet(f, T \ {x})
  BY <1>2, <1>3, SumRemove
<1>6. SumFunctionOnSet(f, T \ {x}) \in Int /\ f[x] = 0
  <2>1. IsFiniteSet(T \ {x}) /\ \A y \in T \ {x} : f[y] \in Int
    BY <1>2, FS_RemoveElement
  <2> QED BY <2>1, <1>3, SumInt
<1> QED BY <1>4, <1>5, <1>6

\* Changing one term changes the sum by as much.
LEMMA SumChange ==
  ASSUME NEW f, NEW g, NEW S, IsFiniteSet(S), NEW x \in S,
         \A y \in S : f[y] \in Int /\ g[y] \in Int,
         \A y \in S \ {x} : f[y] = g[y]
  PROVE  SumFunctionOnSet(g, S) = SumFunctionOnSet(f, S) + g[x] - f[x]
<1>1. /\ SumFunctionOnSet(f, S) = f[x] + SumFunctionOnSet(f, S \ {x})
      /\ SumFunctionOnSet(g, S) = g[x] + SumFunctionOnSet(g, S \ {x})
  BY SumRemove
<1>2. IsFiniteSet(S \ {x})
  BY FS_RemoveElement
<1>3. SumFunctionOnSet(f, S \ {x}) = SumFunctionOnSet(g, S \ {x})
  BY <1>2, SumEqual
<1>4. SumFunctionOnSet(f, S \ {x}) \in Int
  BY <1>2, SumInt
<1> QED BY <1>1, <1>3, <1>4

\* A sum of natural numbers is no less than any of its terms.
LEMMA SumMember ==
  ASSUME NEW f, NEW S, IsFiniteSet(S), \A y \in S : f[y] \in Nat, NEW x \in S
  PROVE  f[x] <= SumFunctionOnSet(f, S)
<1>1. SumFunctionOnSet(f, S) = f[x] + SumFunctionOnSet(f, S \ {x})
  BY SumRemove
<1>2. SumFunctionOnSet(f, S \ {x}) \in Nat
  <2>1. IsFiniteSet(S \ {x})
    BY FS_RemoveElement
  <2> QED BY <2>1, SumNat
<1> QED BY <1>1, <1>2

\* A sum over a prefix of the naturals, by its last term.
LEMMA SumUpTo ==
  ASSUME NEW f, NEW j \in Nat \ {0}, \A y \in 1..j : f[y] \in Int
  PROVE  SumFunctionOnSet(f, 1..j) = f[j] + SumFunctionOnSet(f, 1..(j - 1))
<1> DEFINE D == 1..j
<1>1. IsFiniteSet(D)
  BY FS_Interval
<1>2. \A y \in D : f[y] \in Int
  OBVIOUS
<1>3. j \in D /\ D \ {j} = 1..(j - 1)
  OBVIOUS
<1> HIDE DEF D
<1>4. \A x \in D : SumFunctionOnSet(f, D) = f[x] + SumFunctionOnSet(f, D \ {x})
  BY <1>1, <1>2, SumRemove
<1>5. SumFunctionOnSet(f, D) = f[j] + SumFunctionOnSet(f, D \ {j})
  BY <1>3, <1>4
<1> QED BY <1>3, <1>5 DEF D

(***************************************************************************)
(* Amounts grouped by who they go to: what each member of S gets, summed   *)
(* over S, is the sum of the amounts.                                      *)
(***************************************************************************)
LEMMA SumByOwner ==
  ASSUME NEW S, IsFiniteSet(S), NEW D, IsFiniteSet(D), NEW own, NEW amt,
         \A i \in D : own[i] \in S, \A i \in D : amt[i] \in Int,
         NEW part, \A a \in S : \A i \in D : part[a][i] = IF own[i] = a THEN amt[i] ELSE 0,
         NEW got, \A a \in S : got[a] = SumFunctionOnSet(part[a], D)
  PROVE  SumFunctionOnSet(got, S) = SumFunctionOnSet(amt, D)
<1> DEFINE G(T) == [a \in S |-> SumFunctionOnSet(part[a], T)]
           Fits(T) == SumFunctionOnSet(G(T), S) = SumFunctionOnSet(amt, T)
           F == {T \in SUBSET D : ~Fits(T)}
<1>0. \A a \in S : \A i \in D : part[a][i] \in Int
  OBVIOUS
<1>1. ASSUME F # {} PROVE FALSE
  <2>1. PICK T \in F : \A U \in F : U \subseteq T => U = T
    <3>1. F \subseteq SUBSET D
      OBVIOUS
    <3> HIDE DEF F
    <3> QED BY <1>1, <3>1, MinimalSubset
  <2>2. T \subseteq D /\ ~Fits(T) /\ IsFiniteSet(T)
    BY <2>1, FS_Subset
  <2>3. \A U \in SUBSET D : IsFiniteSet(U)
    BY FS_Subset
  <2>4. T # {}
    <3> SUFFICES ASSUME T = {} PROVE FALSE
      OBVIOUS
    <3>1. \A a \in S : G(T)[a] = 0
      BY SumEmpty
    <3>2. PICK z : z = G(T)
      OBVIOUS
    <3>3. SumFunctionOnSet(z, S) = 0 * Cardinality(S)
      BY <3>1, <3>2, SumConstant
    <3>4. SumFunctionOnSet(z, S) = 0
      BY <3>3, FS_CardinalityType
    <3>5. SumFunctionOnSet(amt, T) = 0
      BY SumEmpty
    <3> QED BY <2>2, <3>2, <3>4, <3>5
  <2>5. PICK x \in T : TRUE
    BY <2>4
  <2>6. PICK U : U = T \ {x}
    OBVIOUS
  <2>7. Fits(U) /\ U \subseteq D
    <3>1. U \subseteq T /\ U # T /\ U \in SUBSET D
      BY <2>2, <2>5, <2>6
    <3>2. U \notin F
      BY <2>1, <3>1
    <3> QED BY <3>1, <3>2
  <2>8. SumFunctionOnSet(amt, T) = amt[x] + SumFunctionOnSet(amt, U)
    <3>1. \A i \in T : amt[i] \in Int
      BY <2>2
    <3>2. \A i \in T : SumFunctionOnSet(amt, T) = amt[i] + SumFunctionOnSet(amt, T \ {i})
      BY <2>2, <3>1, SumRemove
    <3> QED BY <2>5, <2>6, <3>2
  <2>9. ASSUME NEW a \in S
        PROVE  /\ G(T)[a] = part[a][x] + G(U)[a]
               /\ G(U)[a] \in Int
    <3> DEFINE h == part[a]
    <3>1. \A i \in T : h[i] \in Int
      BY <1>0, <2>2
    <3>2. \A i \in U : h[i] \in Int
      BY <1>0, <2>7
    <3>3. IsFiniteSet(U)
      BY <2>3, <2>7
    <3> HIDE DEF h
    <3>4. \A i \in T : SumFunctionOnSet(h, T) = h[i] + SumFunctionOnSet(h, T \ {i})
      BY <2>2, <3>1, SumRemove
    <3>5. SumFunctionOnSet(h, U) \in Int
      BY <3>2, <3>3, SumInt
    <3> QED BY <2>5, <2>6, <3>4, <3>5 DEF h
  <2>10. PICK t, u : t = G(T) /\ u = G(U)
    OBVIOUS
  <2>11. PICK y \in S : y = own[x]
    BY <2>2, <2>5
  <2>12. part[y][x] = amt[x] /\ amt[x] \in Int /\ \A a \in S \ {y} : part[a][x] = 0
    BY <2>2, <2>5, <2>11
  <2>13. \A a \in S : u[a] \in Int /\ t[a] \in Int
    BY <1>0, <2>2, <2>5, <2>9, <2>10
  <2>14. \A a \in S \ {y} : u[a] = t[a]
    BY <2>9, <2>10, <2>12
  <2>15. t[y] = amt[x] + u[y] /\ u[y] \in Int
    BY <2>9, <2>10, <2>12, <2>11
  <2>16. SumFunctionOnSet(t, S) = SumFunctionOnSet(u, S) + t[y] - u[y]
    BY <2>11, <2>13, <2>14, SumChange
  <2>17. SumFunctionOnSet(u, S) \in Int
    <3>1. \A a \in S : u[a] \in Int
      BY <2>13
    <3> QED BY <3>1, SumInt
  <2>18. SumFunctionOnSet(t, S) = SumFunctionOnSet(amt, U) + amt[x]
    BY <2>7, <2>10, <2>12, <2>15, <2>16, <2>17
  <2>19. SumFunctionOnSet(amt, U) \in Int
    BY <2>7, <2>10, <2>17
  <2> QED BY <2>2, <2>8, <2>10, <2>12, <2>18, <2>19
<1>2. Fits(D)
  BY <1>1
<1>3. SumFunctionOnSet(got, S) = SumFunctionOnSet(G(D), S)
  <2>1. PICK g : g = G(D)
    OBVIOUS
  <2>2. \A a \in S : g[a] = got[a]
    BY <2>1
  <2>3. \A a \in S : g[a] \in Int
    <3> TAKE a \in S
    <3>1. PICK h : h = part[a]
      OBVIOUS
    <3>2. \A i \in D : h[i] \in Int
      BY <1>0, <3>1
    <3>3. SumFunctionOnSet(h, D) \in Int
      BY <3>2, SumInt
    <3> QED BY <2>1, <3>1, <3>3
  <2>4. SumFunctionOnSet(g, S) = SumFunctionOnSet(got, S)
    BY <2>2, <2>3, SumEqual
  <2> QED BY <2>1, <2>4
<1> QED BY <1>2, <1>3

\* One more term, and the others as they were.
LEMMA SumExtend ==
  ASSUME NEW f, NEW g, NEW S, IsFiniteSet(S), NEW x, x \notin S,
         \A y \in S : f[y] \in Int, \A y \in S : g[y] = f[y], g[x] \in Int
  PROVE  /\ SumFunctionOnSet(g, S \cup {x}) = g[x] + SumFunctionOnSet(f, S)
         /\ SumFunctionOnSet(f, S) \in Int
<1>1. PICK T : T = S \cup {x}
  OBVIOUS
<1>2. IsFiniteSet(T) /\ x \in T /\ T \ {x} = S
  BY <1>1, FS_AddElement
<1>3. \A y \in T : g[y] \in Int
  BY <1>1
<1>4. \A y \in T : SumFunctionOnSet(g, T) = g[y] + SumFunctionOnSet(g, T \ {y})
  BY <1>2, <1>3, SumRemove
<1>5. SumFunctionOnSet(f, S) = SumFunctionOnSet(g, S)
  <2>1. \A y \in S : f[y] = g[y] /\ f[y] \in Int
    OBVIOUS
  <2> QED BY <2>1, SumEqual
<1>6. SumFunctionOnSet(f, S) \in Int
  BY SumInt
<1> QED BY <1>1, <1>2, <1>4, <1>5, <1>6
=============================================================================
