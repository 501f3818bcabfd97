------------------------------ MODULE ListsProofs ------------------------------
(***************************************************************************)
(* Sums of weights, and lists that are filtered and sorted: what the       *)
(* operators of Lists return, for lists of any length.                     *)
(*                                                                         *)
(* The induction over finite sets is that of the library, for sets where   *)
(* it has predicates: a set of subsets has a smallest element.             *)
(***************************************************************************)
EXTENDS Lists, FiniteSetTheorems, WellFoundedInduction, TLAPS

Chosen(s) == CHOOSE i \in s : TRUE

(* The recursion that a sum over a set is the solution of. *)
Solves(g, f, S) ==
    g = [s \in SUBSET S |-> IF s = {} THEN 0 ELSE f[Chosen(s)] + g[s \ {Chosen(s)}]]

(* Of the subsets of a finite set, some of which are bad, a smallest bad   *)
(* one exists.                                                             *)
LEMMA Smallest ==
  ASSUME NEW S, IsFiniteSet(S), NEW Bad \in SUBSET SUBSET S, Bad # {}
  PROVE  \E T \in Bad : \A U \in Bad : U \subseteq T => U = T
<1>1. IsWellFoundedOn(StrictSubsetOrdering(S), SUBSET S)
  BY FS_StrictSubsetOrderingWellFounded, FS_FiniteSubsetsOfFinite
<1>2. \E T \in Bad : \A U \in Bad : ~(<<U, T>> \in StrictSubsetOrdering(S))
  BY <1>1, WFMin
<1> QED
  BY <1>2 DEF StrictSubsetOrdering

(* Induction over a finite set, for a set of subsets in place of a         *)
(* predicate.                                                              *)
LEMMA FiniteInduction ==
  ASSUME NEW S, IsFiniteSet(S), NEW Good, {} \in Good,
         \A T \in SUBSET S : \A x \in S \ T : T \in Good => T \union {x} \in Good
  PROVE  S \in Good
<1> DEFINE Bad == {T \in SUBSET S : T \notin Good}
<1> SUFFICES ASSUME Bad # {} PROVE FALSE
  OBVIOUS
<1>2. PICK T \in Bad : \A U \in Bad : U \subseteq T => U = T
  <2>1. Bad \in SUBSET SUBSET S
    OBVIOUS
  <2> HIDE DEF Bad
  <2> QED
    BY <2>1, Smallest
<1>3. PICK x \in T : TRUE
  BY <1>2
<1>4. T \ {x} \in Good
  BY <1>2, <1>3
<1>5. T = (T \ {x}) \union {x} /\ x \in S \ (T \ {x})
  BY <1>2, <1>3
<1> QED
  BY <1>2, <1>4, <1>5

(* The sum of the library is the value of a solution of its recursion. *)
LEMMA SumIsChosen ==
  ASSUME NEW f, NEW S
  PROVE SumFunctionOnSet(f, S) = (CHOOSE g : Solves(g, f, S))[S]
BY DEF SumFunctionOnSet, FoldFunctionOnSet, MapThenFoldSet, Solves, Chosen

(* What is chosen from a set that is not empty is in it. *)
LEMMA ChosenIn == ASSUME NEW s, s # {} PROVE Chosen(s) \in s
  BY DEF Chosen

(* The recursion has at most one solution. *)
LEMMA Unique ==
  ASSUME NEW f, NEW S, IsFiniteSet(S), NEW g, NEW h, Solves(g, f, S), Solves(h, f, S)
  PROVE  g = h
<1> DEFINE Bad == {s \in SUBSET S : g[s] # h[s]}
<1>1. SUFFICES ASSUME Bad # {} PROVE FALSE
  <2>1. g = [s \in SUBSET S |-> g[s]] /\ h = [s \in SUBSET S |-> h[s]]
    BY DEF Solves
  <2>2. Bad = {} => \A s \in SUBSET S : g[s] = h[s]
    OBVIOUS
  <2> QED
    BY <2>1, <2>2
<1>2. PICK T \in Bad : \A U \in Bad : U \subseteq T => U = T
  <2>1. Bad \in SUBSET SUBSET S
    OBVIOUS
  <2> HIDE DEF Bad
  <2> QED
    BY <1>1, <2>1, Smallest
<1>3. \A s \in SUBSET S : /\ g[s] = IF s = {} THEN 0 ELSE f[Chosen(s)] + g[s \ {Chosen(s)}]
                          /\ h[s] = IF s = {} THEN 0 ELSE f[Chosen(s)] + h[s \ {Chosen(s)}]
  BY DEF Solves
<1>4. T # {}
  BY <1>2, <1>3
<1>5. T \ {Chosen(T)} \subseteq T /\ T \ {Chosen(T)} # T
  BY <1>4, ChosenIn
<1>6. T \ {Chosen(T)} \in SUBSET S /\ T \ {Chosen(T)} \notin Bad
  BY <1>2, <1>5
<1>7. g[T \ {Chosen(T)}] = h[T \ {Chosen(T)}]
  BY <1>6
<1> QED
  BY <1>2, <1>3, <1>4, <1>7

(* A solution for a set is one for each of its subsets. *)
LEMMA Restricted ==
  ASSUME NEW f, NEW S, NEW g, Solves(g, f, S), NEW T \in SUBSET S
  PROVE  Solves([s \in SUBSET T |-> g[s]], f, T)
<1> DEFINE h == [s \in SUBSET T |-> g[s]]
<1>1. \A s \in SUBSET S : g[s] = IF s = {} THEN 0 ELSE f[Chosen(s)] + g[s \ {Chosen(s)}]
  BY DEF Solves
<1>2. \A s \in SUBSET T : s \in SUBSET S /\ s \ {Chosen(s)} \in SUBSET T
  OBVIOUS
<1>3. \A s \in SUBSET T : h[s] = IF s = {} THEN 0 ELSE f[Chosen(s)] + h[s \ {Chosen(s)}]
  BY <1>1, <1>2
<1> QED
  BY <1>3 DEF Solves

(* The recursion has a solution for every finite set. *)
LEMMA Exists ==
  ASSUME NEW f, NEW S, IsFiniteSet(S)
  PROVE  \E g : Solves(g, f, S)
<1> DEFINE Bad == {s \in SUBSET S : ~\E g : Solves(g, f, s)}
<1>1. SUFFICES ASSUME Bad # {} PROVE FALSE
  OBVIOUS
<1>2. PICK T \in Bad : \A U \in Bad : U \subseteq T => U = T
  <2>1. Bad \in SUBSET SUBSET S
    OBVIOUS
  <2> HIDE DEF Bad
  <2> QED
    BY <1>1, <2>1, Smallest
<1> DEFINE sol(U) == CHOOSE g : Solves(g, f, U)
           c == Chosen(T)
           v == IF T = {} THEN 0 ELSE f[c] + sol(T \ {c})[T \ {c}]
           h == [s \in SUBSET T |-> IF s = T THEN v ELSE sol(s)[s]]
<1>3. \A U \in SUBSET T : U # T => Solves(sol(U), f, U)
  <2>1. \A U \in SUBSET T : U # T => \E g : Solves(g, f, U)
    BY <1>2
  <2> QED
    BY <2>1
<1>4. ASSUME NEW U \in SUBSET T, U # T, NEW V \in SUBSET U
      PROVE  sol(V)[V] = sol(U)[V]
  <2>1. V # T /\ IsFiniteSet(V)
    BY <1>2, <1>4, FS_Subset
  <2>2. Solves([s \in SUBSET V |-> sol(U)[s]], f, V)
    BY <1>3, <1>4, Restricted
  <2>3. sol(V) = [s \in SUBSET V |-> sol(U)[s]]
    BY <1>3, <1>4, <2>1, <2>2, Unique
  <2> QED
    BY <2>3
<1>5. ASSUME NEW s \in SUBSET T
      PROVE  h[s] = IF s = {} THEN 0 ELSE f[Chosen(s)] + h[s \ {Chosen(s)}]
  <2>1. CASE s = T
    <3>1. T # {} => T \ {c} # T /\ T \ {c} \in SUBSET T
      BY ChosenIn
    <3> QED
      BY <2>1, <3>1
  <2>2. CASE s # T
    <3>1. sol(s)[s] = IF s = {} THEN 0 ELSE f[Chosen(s)] + sol(s)[s \ {Chosen(s)}]
      <4>1. Solves(sol(s), f, s)
        BY <1>3, <2>2
      <4> HIDE DEF sol
      <4> QED
        BY <4>1 DEF Solves
    <3>2. s # {} => s \ {Chosen(s)} # T /\ s \ {Chosen(s)} \in SUBSET s
      BY ChosenIn
    <3>3. s # {} => sol(s \ {Chosen(s)})[s \ {Chosen(s)}] = sol(s)[s \ {Chosen(s)}]
      BY <1>4, <2>2, <3>2
    <3> HIDE DEF sol
    <3> QED
      BY <2>2, <3>1, <3>2, <3>3
  <2> QED
    BY <2>1, <2>2
<1>6. Solves(h, f, T)
  <2> HIDE DEF v, sol
  <2> QED
    BY <1>5 DEF Solves
<1> QED
  BY <1>2, <1>6

(* The sum is the chosen element and the sum over the others. *)
LEMMA SumChosen ==
  ASSUME NEW f, NEW S, IsFiniteSet(S), S # {}
  PROVE  SumFunctionOnSet(f, S) = f[Chosen(S)] + SumFunctionOnSet(f, S \ {Chosen(S)})
<1> DEFINE g == CHOOSE g : Solves(g, f, S)
           T == S \ {Chosen(S)}
           h == CHOOSE h : Solves(h, f, T)
<1>1. Solves(g, f, S)
  BY Exists
<1>2. IsFiniteSet(T) /\ T \in SUBSET S
  BY FS_Subset
<1>3. Solves(h, f, T)
  BY <1>2, Exists
<1>4. Solves([s \in SUBSET T |-> g[s]], f, T)
  <2> HIDE DEF g, T
  <2> QED
    BY <1>1, <1>2, Restricted
<1>5. h = [s \in SUBSET T |-> g[s]]
  <2> HIDE DEF g, h, T
  <2> QED
    BY <1>2, <1>3, <1>4, Unique
<1>6. SumFunctionOnSet(f, S) = g[S] /\ SumFunctionOnSet(f, T) = h[T]
  BY SumIsChosen
<1>7. g[S] = f[Chosen(S)] + g[T]
  <2> HIDE DEF g
  <2> QED
    BY <1>1 DEF Solves
<1> HIDE DEF g, h
<1> QED
  BY <1>5, <1>6, <1>7

(* The sum over nothing is zero. *)
LEMMA SumEmpty == ASSUME NEW f PROVE SumFunctionOnSet(f, {}) = 0
<1> DEFINE g == CHOOSE g : Solves(g, f, {})
<1>1. Solves(g, f, {})
  BY Exists, FS_EmptySet
<1>2. SumFunctionOnSet(f, {}) = g[{}]
  BY SumIsChosen
<1> HIDE DEF g
<1> QED
  BY <1>1, <1>2 DEF Solves

(* A sum of integers is an integer. *)
LEMMA SumInt ==
  ASSUME NEW S, IsFiniteSet(S), NEW f, \A i \in S : f[i] \in Int
  PROVE  SumFunctionOnSet(f, S) \in Int
<1> DEFINE Bad == {T \in SUBSET S : SumFunctionOnSet(f, T) \notin Int}
<1> SUFFICES ASSUME Bad # {} PROVE FALSE
  OBVIOUS
<1>2. PICK T \in Bad : \A U \in Bad : U \subseteq T => U = T
  <2>1. Bad \in SUBSET SUBSET S
    OBVIOUS
  <2> HIDE DEF Bad
  <2> QED
    BY <2>1, Smallest
<1>3. T # {}
  <2>1. SumFunctionOnSet(f, {}) \in Int
    BY SumEmpty
  <2> QED
    BY <1>2, <2>1
<1>4. Chosen(T) \in T /\ SumFunctionOnSet(f, T) = f[Chosen(T)] + SumFunctionOnSet(f, T \ {Chosen(T)})
  BY <1>2, <1>3, ChosenIn, SumChosen, FS_Subset
<1>5. SumFunctionOnSet(f, T \ {Chosen(T)}) \in Int
  BY <1>2, <1>4
<1> QED
  BY <1>2, <1>4, <1>5

(* Any element may be taken out first, whichever the recursion chooses. *)
LEMMA SumAny ==
  ASSUME NEW S, IsFiniteSet(S), NEW f, \A i \in S : f[i] \in Int
  PROVE  \A T \in SUBSET S : \A x \in T : SumFunctionOnSet(f, T) = f[x] + SumFunctionOnSet(f, T \ {x})
<1> DEFINE Bad == {T \in SUBSET S : \E x \in T : SumFunctionOnSet(f, T) # f[x] + SumFunctionOnSet(f, T \ {x})}
<1>1. SUFFICES ASSUME Bad # {} PROVE FALSE
  <2>1. ASSUME Bad = {}, NEW T \in SUBSET S, NEW x \in T
        PROVE  SumFunctionOnSet(f, T) = f[x] + SumFunctionOnSet(f, T \ {x})
    <3>1. T \notin Bad
      BY <2>1
    <3> QED
      BY <3>1
  <2> QED
    BY <2>1
<1>2. PICK T \in Bad : \A U \in Bad : U \subseteq T => U = T
  <2>1. Bad \in SUBSET SUBSET S
    OBVIOUS
  <2> HIDE DEF Bad
  <2> QED
    BY <1>1, <2>1, Smallest
<1>3. PICK x \in T : SumFunctionOnSet(f, T) # f[x] + SumFunctionOnSet(f, T \ {x})
  BY <1>2
<1> DEFINE c == Chosen(T)
           R == T \ {c, x}
<1>4. c \in T /\ SumFunctionOnSet(f, T) = f[c] + SumFunctionOnSet(f, T \ {c})
  BY <1>2, <1>3, ChosenIn, SumChosen, FS_Subset
<1>5. x # c /\ T \ {c} \notin Bad /\ T \ {x} \notin Bad /\ c \in T \ {x} /\ x \in T \ {c}
  BY <1>2, <1>3, <1>4
<1>6. SumFunctionOnSet(f, T \ {c}) = f[x] + SumFunctionOnSet(f, R)
  <2>1. (T \ {c}) \ {x} = R
    OBVIOUS
  <2> QED
    BY <1>2, <1>5, <2>1
<1>7. SumFunctionOnSet(f, T \ {x}) = f[c] + SumFunctionOnSet(f, R)
  <2>1. (T \ {x}) \ {c} = R
    OBVIOUS
  <2> QED
    BY <1>2, <1>5, <2>1
<1>8. R \in SUBSET S /\ SumFunctionOnSet(f, R) \in Int
  <2>1. IsFiniteSet(R) /\ R \in SUBSET S
    BY <1>2, FS_Subset
  <2> HIDE DEF R
  <2> QED
    BY <2>1, SumInt
<1>9. f[x] \in Int /\ f[c] \in Int
  BY <1>2, <1>3, <1>4
<1> HIDE DEF c, R
<1> QED
  BY <1>3, <1>4, <1>6, <1>7, <1>8, <1>9

(* One element and the sum over the others. *)
LEMMA SumStep ==
  ASSUME NEW S, IsFiniteSet(S), NEW f, \A i \in S : f[i] \in Int, NEW x \in S
  PROVE  /\ SumFunctionOnSet(f, S \ {x}) \in Int
         /\ SumFunctionOnSet(f, S) = f[x] + SumFunctionOnSet(f, S \ {x})
<1>1. S \in SUBSET S /\ IsFiniteSet(S \ {x})
  BY FS_Subset
<1> QED
  BY <1>1, SumAny, SumInt

(* Sums of functions that are related point by point. *)
LEMMA SumAdded ==
  ASSUME NEW S, IsFiniteSet(S), NEW f, NEW g, NEW h,
         \A i \in S : f[i] \in Int /\ g[i] \in Int /\ h[i] = f[i] + g[i]
  PROVE  SumFunctionOnSet(h, S) = SumFunctionOnSet(f, S) + SumFunctionOnSet(g, S)
<1> DEFINE Equal(T) == SumFunctionOnSet(h, T) = SumFunctionOnSet(f, T) + SumFunctionOnSet(g, T)
           Good == {T \in SUBSET S : Equal(T)}
<1>1. {} \in Good
  BY SumEmpty
<1>2. ASSUME NEW T \in SUBSET S, NEW x \in S \ T, T \in Good
      PROVE  T \union {x} \in Good
  <2> DEFINE U == T \union {x}
  <2>1. IsFiniteSet(U) /\ U \ {x} = T /\ x \in U /\ U \in SUBSET S
    BY FS_Subset, FS_AddElement
  <2>2. \A i \in U : f[i] \in Int /\ g[i] \in Int /\ h[i] \in Int
    OBVIOUS
  <2> HIDE DEF U
  <2>3. /\ SumFunctionOnSet(f, U) = f[x] + SumFunctionOnSet(f, T) /\ SumFunctionOnSet(f, T) \in Int
        /\ SumFunctionOnSet(g, U) = g[x] + SumFunctionOnSet(g, T) /\ SumFunctionOnSet(g, T) \in Int
        /\ SumFunctionOnSet(h, U) = h[x] + SumFunctionOnSet(h, T)
    BY <2>1, <2>2, SumStep
  <2>4. Equal(U)
    BY <1>2, <2>2, <2>1, <2>3
  <2> QED
    BY <2>1, <2>4 DEF U
<1> HIDE DEF Good
<1>3. S \in Good
  BY <1>1, <1>2, FiniteInduction
<1> QED
  BY <1>3 DEF Good

(* A sum of zeros. *)
LEMMA SumZero ==
  ASSUME NEW S, IsFiniteSet(S), NEW f, \A i \in S : f[i] = 0
  PROVE  SumFunctionOnSet(f, S) = 0
<1>1. SumFunctionOnSet(f, S) = SumFunctionOnSet(f, S) + SumFunctionOnSet(f, S)
  BY SumAdded
<1> QED
  BY <1>1, SumInt

(* Functions that agree on a set have the same sum over it. *)
LEMMA SumSame ==
  ASSUME NEW S, IsFiniteSet(S), NEW f, NEW g,
         \A i \in S : f[i] \in Int /\ g[i] = f[i]
  PROVE  SumFunctionOnSet(g, S) = SumFunctionOnSet(f, S)
<1> DEFINE z == [i \in S |-> 0]
<1>1. \A i \in S : z[i] = 0
  OBVIOUS
<1> HIDE DEF z
<1>2. SumFunctionOnSet(z, S) = 0 /\ SumFunctionOnSet(g, S) = SumFunctionOnSet(f, S) + SumFunctionOnSet(z, S)
  BY <1>1, SumZero, SumAdded
<1> QED
  BY <1>2, SumInt

(* A change of one value changes the sum by as much. *)
LEMMA SumOneChanged ==
  ASSUME NEW S, IsFiniteSet(S), NEW f, NEW g, NEW x \in S, NEW d \in Int,
         \A i \in S : f[i] \in Int /\ g[i] = IF i = x THEN f[i] + d ELSE f[i]
  PROVE  SumFunctionOnSet(g, S) = SumFunctionOnSet(f, S) + d
<1> DEFINE T == S \ {x}
<1>1. IsFiniteSet(T) /\ \A i \in T : f[i] \in Int /\ g[i] = f[i]
  BY FS_Subset
<1>2. SumFunctionOnSet(g, T) = SumFunctionOnSet(f, T)
  <2> HIDE DEF T
  <2> QED
    BY <1>1, SumSame
<1>3. \A i \in S : g[i] \in Int
  OBVIOUS
<1>4. /\ SumFunctionOnSet(f, S) = f[x] + SumFunctionOnSet(f, T) /\ SumFunctionOnSet(f, T) \in Int
      /\ SumFunctionOnSet(g, S) = g[x] + SumFunctionOnSet(g, T)
  BY <1>3, SumStep
<1>5. g[x] = f[x] + d /\ f[x] \in Int
  OBVIOUS
<1> HIDE DEF T
<1> QED
  BY <1>2, <1>4, <1>5

(* A lower bound of the values, as often as there are values. *)
LEMMA SumAtLeast ==
  ASSUME NEW S, IsFiniteSet(S), NEW c \in Int, NEW f, \A i \in S : f[i] \in Int /\ f[i] >= c
  PROVE  SumFunctionOnSet(f, S) >= c * Cardinality(S)
<1> DEFINE Holds(T) == SumFunctionOnSet(f, T) >= c * Cardinality(T)
           Good == {T \in SUBSET S : Holds(T)}
<1>1. {} \in Good
  BY SumEmpty, FS_EmptySet
<1>2. ASSUME NEW T \in SUBSET S, NEW x \in S \ T, T \in Good
      PROVE  T \union {x} \in Good
  <2> DEFINE U == T \union {x}
             n == Cardinality(T)
  <2>1. IsFiniteSet(T) /\ U \ {x} = T /\ x \in U /\ U \in SUBSET S
    BY FS_Subset
  <2>2. IsFiniteSet(U) /\ Cardinality(U) = n + 1 /\ n \in Nat
    BY <2>1, FS_AddElement, FS_CardinalityType
  <2>3. \A i \in U : f[i] \in Int
    OBVIOUS
  <2>4. f[x] \in Int /\ f[x] >= c /\ SumFunctionOnSet(f, T) >= c * n
    BY <1>2
  <2> HIDE DEF U, n
  <2>5. SumFunctionOnSet(f, U) = f[x] + SumFunctionOnSet(f, T) /\ SumFunctionOnSet(f, T) \in Int
    BY <2>1, <2>2, <2>3, SumStep
  <2>6. c * (n + 1) = c * n + c /\ c * n \in Int
    BY <2>2
  <2>7. Holds(U)
    BY <2>2, <2>4, <2>5, <2>6
  <2> QED
    BY <2>1, <2>7 DEF U
<1> HIDE DEF Good
<1>3. S \in Good
  BY <1>1, <1>2, FiniteInduction
<1> QED
  BY <1>3 DEF Good

(* A function that is nowhere above another has no greater sum, and the    *)
(* same sum only where they agree everywhere.                              *)
LEMMA SumOrdered ==
  ASSUME NEW S, IsFiniteSet(S), NEW f, NEW g,
         \A i \in S : f[i] \in Int /\ g[i] \in Int /\ f[i] <= g[i]
  PROVE  /\ SumFunctionOnSet(f, S) <= SumFunctionOnSet(g, S)
         /\ SumFunctionOnSet(f, S) = SumFunctionOnSet(g, S) => \A i \in S : f[i] = g[i]
<1> DEFINE d == [i \in S |-> g[i] - f[i]]
<1>1. \A i \in S : d[i] \in Int /\ d[i] >= 0 /\ g[i] = f[i] + d[i]
  OBVIOUS
<1> HIDE DEF d
<1>2. SumFunctionOnSet(g, S) = SumFunctionOnSet(f, S) + SumFunctionOnSet(d, S)
  BY <1>1, SumAdded
<1>3. ASSUME NEW T \in SUBSET S
      PROVE  SumFunctionOnSet(d, T) \in Int /\ SumFunctionOnSet(d, T) >= 0
  <2>1. IsFiniteSet(T) /\ \A i \in T : d[i] \in Int /\ d[i] >= 0
    BY <1>1, FS_Subset
  <2>2. SumFunctionOnSet(d, T) >= 0 * Cardinality(T)
    BY <2>1, SumAtLeast
  <2> QED
    BY <2>1, <2>2, SumInt, FS_CardinalityType
<1>4. SumFunctionOnSet(f, S) \in Int /\ SumFunctionOnSet(g, S) \in Int
  BY SumInt
<1>5. ASSUME NEW x \in S, SumFunctionOnSet(d, S) = 0 PROVE d[x] = 0
  <2>1. SumFunctionOnSet(d, S) = d[x] + SumFunctionOnSet(d, S \ {x})
    BY <1>1, SumStep
  <2> QED
    BY <1>1, <1>3, <1>5, <2>1
<1> QED
  BY <1>1, <1>2, <1>3, <1>4, <1>5

-----------------------------------------------------------------------------
(* Extremes and arrangements.                                              *)

(* A finite set of numbers has a greatest one. *)
LEMMA MaxIs ==
  ASSUME NEW S \in SUBSET Int, IsFiniteSet(S), S # {}
  PROVE  Max(S) \in S /\ \A y \in S : Max(S) >= y
<1> DEFINE Good == {T \in SUBSET S : T = {} \/ \E x \in T : \A y \in T : x >= y}
<1>1. {} \in Good
  OBVIOUS
<1>2. ASSUME NEW T \in SUBSET S, NEW x \in S \ T, T \in Good
      PROVE  T \union {x} \in Good
  BY <1>2
<1> HIDE DEF Good
<1>3. S \in Good
  BY <1>1, <1>2, FiniteInduction
<1> QED
  BY <1>3 DEF Good, Max

(* A finite set of numbers has a least one. *)
LEMMA MinIs ==
  ASSUME NEW S \in SUBSET Int, IsFiniteSet(S), S # {}
  PROVE  Min(S) \in S /\ \A y \in S : Min(S) <= y
<1> DEFINE Good == {T \in SUBSET S : T = {} \/ \E x \in T : \A y \in T : x <= y}
<1>1. {} \in Good
  OBVIOUS
<1>2. ASSUME NEW T \in SUBSET S, NEW x \in S \ T, T \in Good
      PROVE  T \union {x} \in Good
  BY <1>2
<1> HIDE DEF Good
<1>3. S \in Good
  BY <1>1, <1>2, FiniteInduction
<1> QED
  BY <1>3 DEF Good, Min

IsStrictOrder(I, R) ==
    /\ \A i \in I : <<i, i>> \notin R
    /\ \A i, j, k \in I : <<i, j>> \in R /\ <<j, k>> \in R => <<i, k>> \in R
    /\ \A i, j \in I : i = j \/ <<i, j>> \in R \/ <<j, i>> \in R

(* An arrangement holds every element, once, and in the order. *)
LEMMA ArrangedIs ==
  ASSUME NEW I, IsFiniteSet(I), NEW R, IsStrictOrder(I, R)
  PROVE  /\ Arranged(I, R) \in [1..Cardinality(I) -> I]
         /\ \A i \in I : \E k \in 1..Cardinality(I) : Arranged(I, R)[k] = i
         /\ \A k, l \in 1..Cardinality(I) :
               k < l => <<Arranged(I, R)[k], Arranged(I, R)[l]>> \in R
<1> DEFINE Below(i) == {j \in I : <<j, i>> \in R}
           rank(i) == Cardinality(Below(i))
           n == Cardinality(I)
           A == Arranged(I, R)
<1>1. n \in Nat
  BY FS_CardinalityType
<1>2. ASSUME NEW i \in I PROVE IsFiniteSet(Below(i)) /\ rank(i) \in Nat /\ rank(i) < n
  <2>1. Below(i) \in SUBSET I /\ i \notin Below(i)
    BY DEF IsStrictOrder
  <2> HIDE DEF Below
  <2>2. IsFiniteSet(Below(i)) /\ rank(i) <= n /\ (n = rank(i) => I = Below(i))
    BY <2>1, FS_Subset
  <2>3. rank(i) \in Nat
    BY <2>2, FS_CardinalityType
  <2> QED
    BY <1>1, <2>1, <2>2, <2>3
<1>3. ASSUME NEW i \in I, NEW j \in I, <<i, j>> \in R PROVE rank(i) < rank(j)
  <2>1. Below(i) \in SUBSET Below(j) /\ i \in Below(j) /\ i \notin Below(i)
    BY <1>3 DEF IsStrictOrder
  <2>2. /\ IsFiniteSet(Below(j)) /\ rank(i) \in Nat /\ rank(j) \in Nat
    BY <1>2
  <2> HIDE DEF Below
  <2>3. rank(i) <= rank(j) /\ (rank(j) = rank(i) => Below(j) = Below(i))
    BY <2>1, <2>2, FS_Subset
  <2> QED
    BY <2>1, <2>2, <2>3
<1> HIDE DEF rank, Below, A
<1>4. ASSUME NEW i \in I, NEW j \in I, rank(i) = rank(j) PROVE i = j
  <2>1. rank(i) \in Nat /\ rank(j) \in Nat
    BY <1>2
  <2>2. <<i, j>> \notin R /\ <<j, i>> \notin R
    BY <1>3, <1>4, <2>1
  <2> QED
    BY <2>2 DEF IsStrictOrder
<1>5. ASSUME NEW k \in 1..n PROVE \E i \in I : rank(i) = k - 1
  <2> DEFINE f == [i \in I |-> rank(i) + 1]
  <2>1. f \in Injection(I, 1..n)
    <3>1. f \in [I -> 1..n]
      BY <1>1, <1>2
    <3>2. ASSUME NEW i \in I, NEW j \in I, f[i] = f[j] PROVE i = j
      <4>1. rank(i) = rank(j)
        BY <1>2, <3>2
      <4> QED
        BY <1>4, <4>1
    <3> HIDE DEF f
    <3> QED
      BY <3>1, <3>2 DEF Injection, IsInjective
  <2>2. IsFiniteSet(1..n) /\ Cardinality(1..n) = n
    BY <1>1, FS_Interval
  <2>3. f \in Surjection(I, 1..n)
    <3> HIDE DEF f
    <3> QED
      BY <2>1, <2>2, FS_Injection
  <2>4. PICK i \in I : f[i] = k
    BY <2>3 DEF Surjection
  <2>5. rank(i) + 1 = k
    BY <2>4
  <2> QED
    BY <1>2, <2>5
<1>6. ASSUME NEW k \in 1..n PROVE A[k] \in I /\ rank(A[k]) = k - 1
  <2>1. A[k] = CHOOSE i \in I : rank(i) = k - 1
    BY DEF Arranged, A, rank, Below
  <2> QED
    BY <1>5, <2>1
<1>7. A \in [1..n -> I]
  <2> DEFINE B == [k \in 1..n |-> CHOOSE i \in I : rank(i) = k - 1]
  <2>1. A = B
    BY DEF Arranged, A, rank, Below
  <2>2. \A k \in 1..n : B[k] \in I
    BY <1>6, <2>1
  <2>3. B \in [1..n -> I]
    BY <2>2
  <2> QED
    BY <2>1, <2>3
<1>8. ASSUME NEW i \in I PROVE \E k \in 1..n : A[k] = i
  <2>1. rank(i) + 1 \in 1..n
    BY <1>1, <1>2
  <2>2. A[rank(i) + 1] \in I /\ rank(A[rank(i) + 1]) = rank(i)
    BY <1>2, <1>6, <2>1
  <2> QED
    BY <1>4, <2>1, <2>2
<1>9. ASSUME NEW k \in 1..n, NEW l \in 1..n, k < l PROVE <<A[k], A[l]>> \in R
  <2>1. A[k] \in I /\ A[l] \in I /\ rank(A[k]) < rank(A[l])
    BY <1>1, <1>6, <1>9
  <2>2. A[k] # A[l] /\ ~(<<A[l], A[k]>> \in R)
    BY <1>2, <1>3, <2>1
  <2> QED
    BY <2>1, <2>2 DEF IsStrictOrder
<1> QED
  BY <1>7, <1>8, <1>9 DEF A

(* Numbers in ascending order: each once. *)
LEMMA AscendingIs ==
  ASSUME NEW I \in SUBSET Int, IsFiniteSet(I)
  PROVE  /\ Ascending(I) \in [1..Cardinality(I) -> I]
         /\ \A i \in I : \E k \in 1..Cardinality(I) : Ascending(I)[k] = i
         /\ \A k, l \in 1..Cardinality(I) : k < l => Ascending(I)[k] < Ascending(I)[l]
<1> DEFINE R == {p \in I \X I : p[1] < p[2]}
<1>1. \A i, j \in I : <<i, j>> \in R <=> i < j
  OBVIOUS
<1>2. Ascending(I) = Arranged(I, R)
  BY DEF Ascending
<1> HIDE DEF R
<1>3. IsStrictOrder(I, R)
  BY <1>1 DEF IsStrictOrder
<1>4. /\ Arranged(I, R) \in [1..Cardinality(I) -> I]
      /\ \A i \in I : \E k \in 1..Cardinality(I) : Arranged(I, R)[k] = i
      /\ \A k, l \in 1..Cardinality(I) :
            k < l => <<Arranged(I, R)[k], Arranged(I, R)[l]>> \in R
  BY <1>3, ArrangedIs
<1> QED
  BY <1>1, <1>2, <1>4

(* The places of a filtered list: those of the entries that pass.          *)
PlacesOf(s, S) == {i \in DOMAIN s : s[i] \in S}

IsFilterOf(t, s, S, a) ==
    /\ a \in [DOMAIN t -> PlacesOf(s, S)]
    /\ \A i \in PlacesOf(s, S) : \E k \in DOMAIN t : a[k] = i
    /\ \A k, l \in DOMAIN t : k < l => a[k] < a[l]
    /\ \A k \in DOMAIN t : t[k] = s[a[k]]

(* A filter keeps the entries that pass, in their order, and no other. *)
LEMMA AmongIs ==
  ASSUME NEW T, NEW s \in Seq(T), NEW S
  PROVE  /\ Among(s, S) \in Seq(T \intersect S)
         /\ IsFiniteSet(PlacesOf(s, S))
         /\ Len(Among(s, S)) = Cardinality(PlacesOf(s, S))
         /\ IsFilterOf(Among(s, S), s, S, Ascending(PlacesOf(s, S)))
<1> DEFINE I == PlacesOf(s, S)
           a == Ascending(I)
           n == Cardinality(I)
<1>1. I \in SUBSET Int /\ I \in SUBSET (1..Len(s)) /\ Len(s) \in Nat
  BY DEF PlacesOf
<1>2. IsFiniteSet(I) /\ n \in Nat
  <2>1. IsFiniteSet(1..Len(s))
    BY <1>1, FS_Interval
  <2> HIDE DEF I
  <2> QED
    BY <1>1, <2>1, FS_Subset, FS_CardinalityType
<1>3. /\ a \in [1..n -> I] /\ \A i \in I : \E k \in 1..n : a[k] = i
      /\ \A k, l \in 1..n : k < l => a[k] < a[l]
  BY <1>1, <1>2, AscendingIs
<1>4. Among(s, S) = [k \in 1..n |-> s[a[k]]]
  <2>1. DOMAIN a = 1..n
    BY <1>3
  <2> QED
    BY <2>1 DEF Among, EntriesAt, PlacesOf
<1>5. \A i \in I : s[i] \in T \intersect S
  BY DEF PlacesOf
<1> HIDE DEF I, a, n
<1>6. Among(s, S) \in [1..n -> T \intersect S]
  BY <1>3, <1>4, <1>5
<1>7. Among(s, S) \in Seq(T \intersect S) /\ Len(Among(s, S)) = n /\ DOMAIN Among(s, S) = 1..n
  BY <1>2, <1>6
<1>8. \A k \in 1..n : Among(s, S)[k] = s[a[k]]
  BY <1>4
<1> QED
  BY <1>2, <1>3, <1>7, <1>8 DEF IsFilterOf, I, a, n

(* What is in a filtered list. *)
LEMMA AmongRange ==
  ASSUME NEW T, NEW s \in Seq(T), NEW S
  PROVE  Range(Among(s, S)) = Range(s) \intersect S
<1> DEFINE t == Among(s, S)
           a == Ascending(PlacesOf(s, S))
<1>1. IsFilterOf(t, s, S, a)
  BY AmongIs
<1> HIDE DEF t, a
<1>2. ASSUME NEW k \in DOMAIN t PROVE t[k] \in Range(s) \intersect S
  BY <1>1 DEF IsFilterOf, PlacesOf, Range
<1>3. ASSUME NEW i \in DOMAIN s, s[i] \in S PROVE \E k \in DOMAIN t : t[k] = s[i]
  BY <1>1, <1>3 DEF IsFilterOf, PlacesOf
<1> QED
  BY <1>2, <1>3 DEF Range, t

(* Filters of which one lets more pass are the same when they are as long. *)
LEMMA AmongNested ==
  ASSUME NEW T, NEW s \in Seq(T), NEW S, NEW U, S \intersect Range(s) \subseteq U,
         Len(Among(s, S)) = Len(Among(s, U))
  PROVE  Among(s, S) = Among(s, U)
<1>1. PlacesOf(s, S) \in SUBSET PlacesOf(s, U)
  BY DEF PlacesOf, Range
<1>2. /\ IsFiniteSet(PlacesOf(s, U))
      /\ Cardinality(PlacesOf(s, S)) = Cardinality(PlacesOf(s, U))
  BY AmongIs
<1>3. PlacesOf(s, S) = PlacesOf(s, U)
  BY <1>1, <1>2, FS_Subset
<1>4. \A V : Among(s, V) = EntriesAt(s, Ascending(PlacesOf(s, V)))
  BY DEF Among, PlacesOf
<1> QED
  BY <1>3, <1>4

(* Entries that neither goes before are equally good. *)
IsWeakOrder(D, R) ==
    /\ \A c \in D : <<c, c>> \notin R
    /\ \A c, d, e \in D : <<c, d>> \in R /\ <<d, e>> \in R => <<c, e>> \in R
    /\ \A c, d, e \in D : <<c, e>> \in R => <<c, d>> \in R \/ <<d, e>> \in R

IsSortOf(t, s, R, a) ==
    /\ a \in [DOMAIN s -> DOMAIN s]
    /\ \A i \in DOMAIN s : \E k \in DOMAIN s : a[k] = i
    /\ \A k, l \in DOMAIN s : k < l =>
          \/ <<s[a[k]], s[a[l]]>> \in R
          \/ <<s[a[l]], s[a[k]]>> \notin R /\ a[k] < a[l]
    /\ \A k \in DOMAIN s : t[k] = s[a[k]]

(* A stable sort keeps every entry once; an entry comes before another     *)
(* because it goes before it, or because neither goes before the other and *)
(* it came first.                                                          *)
LEMMA StableSortIs ==
  ASSUME NEW T, NEW s \in Seq(T), NEW R, IsWeakOrder(Range(s), R)
  PROVE  /\ StableSort(s, R) \in Seq(T)
         /\ Len(StableSort(s, R)) = Len(s)
         /\ IsSortOf(StableSort(s, R), s, R, Arranged(DOMAIN s, StableOrder(s, R)))
<1> DEFINE D == DOMAIN s
           O == StableOrder(s, R)
           a == Arranged(D, O)
           n == Len(s)
<1>1. n \in Nat /\ D = 1..n /\ IsFiniteSet(D) /\ Cardinality(D) = n /\ D \in SUBSET Int
  <2>1. n \in Nat /\ D = 1..n
    OBVIOUS
  <2> HIDE DEF D, n
  <2>2. IsFiniteSet(1..n) /\ Cardinality(1..n) = n
    BY <2>1, FS_Interval
  <2> QED
    BY <2>1, <2>2
<1>2. \A i, j \in D : <<i, j>> \in O <=>
         \/ <<s[i], s[j]>> \in R
         \/ <<s[j], s[i]>> \notin R /\ i < j
  BY DEF StableOrder
<1>3. \A i \in D : s[i] \in Range(s)
  BY DEF Range
<1> HIDE DEF O, D
<1>4. IsStrictOrder(D, O)
  <2>1. ASSUME NEW i \in D PROVE <<i, i>> \notin O
    <3>1. i \in Int /\ <<s[i], s[i]>> \notin R
      BY <1>1, <1>3 DEF IsWeakOrder
    <3>2. <<i, i>> \in O => <<s[i], s[i]>> \in R \/ i < i
      BY <1>2
    <3> QED
      BY <3>1, <3>2
  <2>2. ASSUME NEW i \in D, NEW j \in D PROVE i = j \/ <<i, j>> \in O \/ <<j, i>> \in O
    <3>1. i = j \/ i < j \/ j < i
      BY <1>1
    <3>2. /\ i < j => <<i, j>> \in O \/ <<s[j], s[i]>> \in R
          /\ j < i => <<j, i>> \in O \/ <<s[i], s[j]>> \in R
          /\ <<s[i], s[j]>> \in R => <<i, j>> \in O
          /\ <<s[j], s[i]>> \in R => <<j, i>> \in O
      BY <1>2
    <3> QED
      BY <3>1, <3>2
  <2>3. ASSUME NEW i \in D, NEW j \in D, NEW k \in D, <<i, j>> \in O, <<j, k>> \in O
        PROVE  <<i, k>> \in O
    <3> DEFINE ij == <<s[i], s[j]>> \in R
               ji == <<s[j], s[i]>> \in R
               jk == <<s[j], s[k]>> \in R
               kj == <<s[k], s[j]>> \in R
               ik == <<s[i], s[k]>> \in R
               ki == <<s[k], s[i]>> \in R
    <3>1. /\ ij /\ jk => ik
          /\ ik => ij \/ jk
          /\ ij => ik \/ kj
          /\ jk => ji \/ ik
          /\ ki => kj \/ ji
          /\ ~(ij /\ ji) /\ ~(jk /\ kj) /\ ~(ik /\ ki)
      BY <1>3 DEF IsWeakOrder
    <3>2. ij \/ (~ji /\ i < j)
      BY <1>2, <2>3
    <3>3. jk \/ (~kj /\ j < k)
      BY <1>2, <2>3
    <3>4. ik \/ (~ki /\ i < k)
      <4> HIDE DEF ij, ji, jk, kj, ik, ki
      <4> QED
        BY <1>1, <3>1, <3>2, <3>3
    <3> QED
      BY <1>2, <3>4
  <2> QED
    BY <2>1, <2>2, <2>3 DEF IsStrictOrder
<1>5. /\ a \in [1..n -> D] /\ \A i \in D : \E k \in 1..n : a[k] = i
      /\ \A k, l \in 1..n : k < l => <<a[k], a[l]>> \in O
  BY <1>1, <1>4, ArrangedIs
<1>6. StableSort(s, R) = [k \in 1..n |-> s[a[k]]]
  <2>1. DOMAIN a = 1..n
    BY <1>5
  <2> QED
    BY <2>1 DEF StableSort, EntriesAt, O, D
<1> HIDE DEF a
<1>7. StableSort(s, R) \in [1..n -> T]
  BY <1>1, <1>5, <1>6
<1>8. StableSort(s, R) \in Seq(T) /\ Len(StableSort(s, R)) = n
  BY <1>1, <1>7
<1>9. \A k, l \in D : k < l =>
          \/ <<s[a[k]], s[a[l]]>> \in R
          \/ <<s[a[l]], s[a[k]]>> \notin R /\ a[k] < a[l]
  BY <1>1, <1>2, <1>5
<1>10. \A k \in D : StableSort(s, R)[k] = s[a[k]]
  BY <1>1, <1>6
<1> QED
  BY <1>1, <1>5, <1>8, <1>9, <1>10 DEF IsSortOf, a, O, D

(* An order by three numbers, the first of which counts most. *)
SmallerBy(f, g, h, c, d) ==
    \/ f[c] < f[d]
    \/ f[c] = f[d] /\ g[c] < g[d]
    \/ f[c] = f[d] /\ g[c] = g[d] /\ h[c] < h[d]

LEMMA OrderByNumbers ==
    ASSUME NEW D, NEW R, NEW f \in [D -> Int], NEW g \in [D -> Int], NEW h \in [D -> Int],
           \A c, d \in D : <<c, d>> \in R <=> SmallerBy(f, g, h, c, d)
    PROVE  IsWeakOrder(D, R)
<1>0. \A c, d \in D : <<c, d>> \in R <=>
             \/ f[c] < f[d]
             \/ f[c] = f[d] /\ g[c] < g[d]
             \/ f[c] = f[d] /\ g[c] = g[d] /\ h[c] < h[d]
  BY DEF SmallerBy
<1>1. \A c \in D : f[c] \in Int /\ g[c] \in Int /\ h[c] \in Int
  OBVIOUS
<1>2. ASSUME NEW c \in D PROVE <<c, c>> \notin R
  BY <1>0, <1>1
<1>3. ASSUME NEW c \in D, NEW d \in D, NEW e \in D, <<c, d>> \in R, <<d, e>> \in R
      PROVE  <<c, e>> \in R
  BY <1>0, <1>1, <1>3
<1>4. ASSUME NEW c \in D, NEW d \in D, NEW e \in D, <<c, e>> \in R
      PROVE  <<c, d>> \in R \/ <<d, e>> \in R
  BY <1>0, <1>1, <1>4
<1> QED BY <1>2, <1>3, <1>4 DEF IsWeakOrder

(* The first of a sorted list goes before all others, or came first. *)
LEMMA FirstOfSort ==
    ASSUME NEW T, NEW s \in Seq(T), s # <<>>, NEW R, IsWeakOrder(Range(s), R)
    PROVE  \E i \in DOMAIN s :
             /\ StableSort(s, R)[1] = s[i]
             /\ \A j \in DOMAIN s : j # i =>
                  \/ <<s[i], s[j]>> \in R
                  \/ <<s[j], s[i]>> \notin R /\ i < j
<1> DEFINE t == StableSort(s, R)
           a == Arranged(DOMAIN s, StableOrder(s, R))
<1>1. IsSortOf(t, s, R, a)
  BY StableSortIs
<1>2. 1 \in DOMAIN s /\ DOMAIN s = 1..Len(s) /\ Len(s) \in Nat
  OBVIOUS
<1> HIDE DEF t, a
<1>3. a[1] \in DOMAIN s /\ t[1] = s[a[1]]
  BY <1>1, <1>2 DEF IsSortOf
<1>4. ASSUME NEW j \in DOMAIN s, j # a[1]
      PROVE  \/ <<s[a[1]], s[j]>> \in R
             \/ <<s[j], s[a[1]]>> \notin R /\ a[1] < j
  <2>1. PICK k \in DOMAIN s : a[k] = j
    BY <1>1 DEF IsSortOf
  <2>2. 1 < k
    BY <1>2, <1>4, <2>1
  <2> QED BY <1>1, <1>2, <2>1, <2>2 DEF IsSortOf
<1> QED BY <1>3, <1>4 DEF t

(* Induction up to a number, for a set in place of a property. *)
LEMMA UpToInduction ==
  ASSUME NEW n \in Nat, NEW S, 0 \in S, \A k \in 1..n : k - 1 \in S => k \in S
  PROVE  0..n \subseteq S
<1> DEFINE Bad == (0..n) \ S
<1>1. IsFiniteSet(0..n)
  BY FS_Interval
<1>2. Bad \in SUBSET Int /\ IsFiniteSet(Bad)
  BY <1>1, FS_Subset
<1>3. ASSUME Bad # {} PROVE FALSE
  <2>1. PICK k \in Bad : \A j \in Bad : k <= j
    <3> HIDE DEF Bad
    <3> QED BY <1>2, <1>3, MinIs
  <2>2. k \in 1..n /\ k - 1 \notin Bad
    BY <2>1
  <2> QED BY <2>2
<1> QED BY <1>3

(* A walk from x in n steps, each of which goes from a set to itself. *)
IsWalk(h, n, D, x, g) ==
    /\ h \in [0..n -> D] /\ h[0] = x
    /\ \A k \in 1..n : h[k] = g[k][h[k - 1]]

(* Such a walk exists. *)
LEMMA WalkExists ==
  ASSUME NEW n \in Nat, NEW D, NEW x \in D, NEW g \in [1..n -> [D -> D]]
  PROVE  \E h : IsWalk(h, n, D, x, g)
<1> DEFINE Reaches(m, h) == IsWalk(h, m, D, x, g)
           S == {m \in 0..n : \E h : Reaches(m, h)}
<1>1. 0 \in S
  <2>1. Reaches(0, [k \in 0..0 |-> x])
    BY DEF IsWalk
  <2> HIDE DEF Reaches
  <2> QED BY <2>1
<1>2. ASSUME NEW m \in 1..n, m - 1 \in S PROVE m \in S
  <2>1. PICK h : Reaches(m - 1, h)
    BY <1>2
  <2>1a. /\ h \in [0..(m - 1) -> D] /\ h[0] = x
         /\ \A k \in 1..(m - 1) : h[k] = g[k][h[k - 1]]
    BY <2>1 DEF IsWalk
  <2> DEFINE e == [k \in 0..m |-> IF k = m THEN g[m][h[m - 1]] ELSE h[k]]
  <2>2. g[m] \in [D -> D] /\ h \in [0..(m - 1) -> D] /\ h[m - 1] \in D
    BY <2>1a
  <2>3. e \in [0..m -> D] /\ e[0] = x
    BY <2>1a, <2>2
  <2>4. ASSUME NEW k \in 1..m PROVE e[k] = g[k][e[k - 1]]
    <3>1. CASE k = m
      BY <3>1
    <3>2. CASE k # m
      <4>1. k \in 1..(m - 1) /\ e[k] = h[k] /\ e[k - 1] = h[k - 1]
        BY <3>2
      <4> QED BY <2>1a, <4>1
    <3> QED BY <3>1, <3>2
  <2>5. Reaches(m, e)
    BY <2>3, <2>4 DEF IsWalk
  <2> HIDE DEF Reaches, e
  <2> QED BY <2>5
<1> HIDE DEF S
<1>3. 0..n \subseteq S
  BY <1>1, <1>2, UpToInduction
<1>4. n \in S
  BY <1>3
<1> QED BY <1>4 DEF S

(* There is one ascending order of a set of numbers. *)
LEMMA AscendingUnique ==
  ASSUME NEW I \in SUBSET Int, IsFiniteSet(I), NEW n \in Nat, NEW c \in [1..n -> I],
         \A i \in I : \E k \in 1..n : c[k] = i,
         \A k, l \in 1..n : k < l => c[k] < c[l]
  PROVE  n = Cardinality(I) /\ c = Ascending(I)
<1> DEFINE a == Ascending(I)
           m == Cardinality(I)
<1>1. m = n
  <2>0. \A k \in 1..n : c[k] \in Int
    OBVIOUS
  <2>1. ASSUME NEW k \in 1..n, NEW l \in 1..n, c[k] = c[l] PROVE k = l
    <3>1. ~(k < l) /\ ~(l < k)
      BY <2>0, <2>1
    <3> QED BY <3>1
  <2>2. c \in Bijection(1..n, I)
    BY <2>1 DEF Bijection, Injection, Surjection, IsInjective
  <2>3. IsFiniteSet(1..n) /\ Cardinality(1..n) = n
    BY FS_Interval
  <2> QED BY <2>2, <2>3, FS_Bijection DEF ExistsBijection
<1>2. /\ a \in [1..n -> I] /\ \A i \in I : \E k \in 1..n : a[k] = i
      /\ \A k, l \in 1..n : k < l => a[k] < a[l]
  BY <1>1, AscendingIs
<1> HIDE DEF a, m
<1> DEFINE Bad == {k \in 1..n : c[k] # a[k]}
<1>3. IsFiniteSet(1..n)
  BY FS_Interval
<1>4. Bad \in SUBSET Int /\ IsFiniteSet(Bad)
  BY <1>3, FS_Subset
<1>5. ASSUME Bad # {} PROVE FALSE
  <2>1. PICK k \in Bad : \A j \in Bad : k <= j
    <3> HIDE DEF Bad
    <3> QED BY <1>4, <1>5, MinIs
  <2>2. k \in 1..n /\ c[k] # a[k] /\ \A j \in 1..n : j < k => c[j] = a[j]
    BY <2>1
  <2>3. PICK l \in 1..n : a[l] = c[k]
    BY <1>2, <2>2
  <2>4. PICK j \in 1..n : c[j] = a[k]
    BY <1>2, <2>2
  <2>5. k < l
    <3>1. l < k => c[l] = c[k]
      BY <2>2, <2>3
    <3>2. l < k => c[l] < c[k] /\ c[l] \in Int
      BY <2>2
    <3> QED BY <2>2, <2>3, <3>1, <3>2
  <2>6. k < j
    <3>1. j < k => a[j] = a[k]
      BY <2>2, <2>4
    <3>2. j < k => a[j] < a[k] /\ a[j] \in Int
      BY <1>2, <2>2
    <3> QED BY <2>2, <2>4, <3>1, <3>2
  <2>7. a[k] < c[k] /\ c[k] < a[k] /\ a[k] \in Int /\ c[k] \in Int
    BY <1>2, <2>2, <2>3, <2>4, <2>5, <2>6
  <2> QED BY <2>7
<1>6. \A k \in 1..n : c[k] = a[k]
  BY <1>5
<1>7. c = a
  BY <1>2, <1>6
<1> QED BY <1>1, <1>7 DEF a, m

(* Two lists are filtered alike if what passes is found in both in the     *)
(* same order.                                                             *)
LEMMA AmongSame ==
  ASSUME NEW T, NEW s \in Seq(T), NEW t \in Seq(T), NEW S, NEW U,
         NEW h \in [PlacesOf(t, U) -> PlacesOf(s, S)],
         \A i \in PlacesOf(s, S) : \E k \in PlacesOf(t, U) : h[k] = i,
         \A k, l \in PlacesOf(t, U) : k < l => h[k] < h[l],
         \A k \in PlacesOf(t, U) : t[k] = s[h[k]]
  PROVE  Among(t, U) = Among(s, S)
<1> DEFINE I == PlacesOf(s, S)
           J == PlacesOf(t, U)
           a == Ascending(J)
           n == Cardinality(J)
           c == [k \in 1..n |-> h[a[k]]]
<1>1. I \in SUBSET Int /\ J \in SUBSET Int
  BY DEF PlacesOf
<1>2. IsFiniteSet(I) /\ IsFiniteSet(J) /\ n \in Nat
  BY AmongIs, FS_CardinalityType
<1>3. /\ a \in [1..n -> J] /\ \A j \in J : \E k \in 1..n : a[k] = j
      /\ \A k, l \in 1..n : k < l => a[k] < a[l]
  BY <1>1, <1>2, AscendingIs
<1> HIDE DEF I, J, a, n
<1>4. c \in [1..n -> I]
  BY <1>3 DEF I, J
<1>5. \A i \in I : \E k \in 1..n : c[k] = i
  BY <1>3 DEF I, J
<1>6. \A k, l \in 1..n : k < l => c[k] < c[l]
  BY <1>3 DEF I, J
<1> HIDE DEF c
<1>7. c = Ascending(I)
  BY <1>1, <1>2, <1>4, <1>5, <1>6, AscendingUnique
<1>8. Among(t, U) = [k \in 1..n |-> t[a[k]]]
  <2>1. DOMAIN a = 1..n
    BY <1>3
  <2> QED BY <2>1 DEF Among, EntriesAt, PlacesOf, a, J
<1>9. Among(s, S) = [k \in 1..n |-> s[c[k]]]
  <2>1. DOMAIN c = 1..n
    BY <1>4
  <2> QED BY <1>7, <2>1 DEF Among, EntriesAt, PlacesOf, I
<1>10. \A k \in 1..n : t[a[k]] = s[c[k]]
  BY <1>3 DEF c, J
<1> QED BY <1>8, <1>9, <1>10

(* What is left of a list when some places are kept. *)
LEMMA EntriesIs ==
  ASSUME NEW T, NEW s \in Seq(T), NEW I \in SUBSET (DOMAIN s)
  PROVE  /\ EntriesAt(s, Ascending(I)) \in Seq(T)
         /\ Len(EntriesAt(s, Ascending(I))) = Cardinality(I) /\ Cardinality(I) \in Nat
         /\ Ascending(I) \in [DOMAIN EntriesAt(s, Ascending(I)) -> I]
         /\ \A i \in I : \E k \in DOMAIN EntriesAt(s, Ascending(I)) : Ascending(I)[k] = i
         /\ \A k, l \in DOMAIN EntriesAt(s, Ascending(I)) :
               k < l => Ascending(I)[k] < Ascending(I)[l]
         /\ \A k \in DOMAIN EntriesAt(s, Ascending(I)) :
               EntriesAt(s, Ascending(I))[k] = s[Ascending(I)[k]]
<1> DEFINE a == Ascending(I)
           n == Cardinality(I)
           t == EntriesAt(s, a)
<1>1. DOMAIN s = 1..Len(s) /\ Len(s) \in Nat
  OBVIOUS
<1>2. I \in SUBSET Int /\ IsFiniteSet(1..Len(s))
  BY <1>1, FS_Interval
<1>3. IsFiniteSet(I) /\ n \in Nat
  BY <1>1, <1>2, FS_Subset, FS_CardinalityType
<1>4. /\ a \in [1..n -> I] /\ \A i \in I : \E k \in 1..n : a[k] = i
      /\ \A k, l \in 1..n : k < l => a[k] < a[l]
  BY <1>2, <1>3, AscendingIs
<1> HIDE DEF a, n
<1>5. t = [k \in 1..n |-> s[a[k]]]
  <2>1. DOMAIN a = 1..n
    BY <1>4
  <2> QED BY <2>1 DEF EntriesAt
<1>6. \A i \in I : s[i] \in T
  BY <1>1
<1> HIDE DEF t
<1>7. t \in [1..n -> T] /\ \A k \in 1..n : t[k] = s[a[k]]
  BY <1>4, <1>5, <1>6
<1>8. t \in Seq(T) /\ Len(t) = n /\ DOMAIN t = 1..n
  BY <1>3, <1>7
<1> QED BY <1>3, <1>4, <1>7, <1>8 DEF t, a, n

(* To drop entries that a filter does not pass changes nothing for it. *)
LEMMA AmongKept ==
  ASSUME NEW T, NEW s \in Seq(T), NEW I \in SUBSET (DOMAIN s), NEW S, NEW U,
         \A i \in DOMAIN s : s[i] \in S => i \in I,
         \A i \in I : s[i] \in U <=> s[i] \in S
  PROVE  Among(EntriesAt(s, Ascending(I)), U) = Among(s, S)
<1> DEFINE a == Ascending(I)
           t == EntriesAt(s, a)
           h == [k \in PlacesOf(t, U) |-> a[k]]
<1>1. /\ t \in Seq(T) /\ a \in [DOMAIN t -> I]
      /\ \A i \in I : \E k \in DOMAIN t : a[k] = i
      /\ \A k, l \in DOMAIN t : k < l => a[k] < a[l]
      /\ \A k \in DOMAIN t : t[k] = s[a[k]]
  BY EntriesIs
<1> HIDE DEF a, t
<1>2. h \in [PlacesOf(t, U) -> PlacesOf(s, S)]
  BY <1>1 DEF PlacesOf
<1>3. \A i \in PlacesOf(s, S) : \E k \in PlacesOf(t, U) : h[k] = i
  BY <1>1 DEF PlacesOf
<1>4. /\ \A k, l \in PlacesOf(t, U) : k < l => h[k] < h[l]
      /\ \A k \in PlacesOf(t, U) : t[k] = s[h[k]]
  BY <1>1 DEF PlacesOf
<1> HIDE DEF h
<1>5. Among(t, U) = Among(s, S)
  BY <1>1, <1>2, <1>3, <1>4, AmongSame
<1> QED BY <1>5 DEF t, a

(* A filter that all entries pass. *)
LEMMA AmongAll ==
  ASSUME NEW T, NEW s \in Seq(T), NEW S, \A i \in DOMAIN s : s[i] \in S
  PROVE  Among(s, S) = s
<1> DEFINE I == PlacesOf(s, S)
           n == Len(s)
           c == [k \in 1..n |-> k]
<1>1. n \in Nat /\ DOMAIN s = 1..n
  OBVIOUS
<1>2. I = 1..n
  BY <1>1 DEF PlacesOf
<1>3. I \in SUBSET Int /\ IsFiniteSet(I)
  BY <1>1, <1>2, FS_Interval
<1>4. /\ c \in [1..n -> I] /\ \A i \in I : \E k \in 1..n : c[k] = i
      /\ \A k, l \in 1..n : k < l => c[k] < c[l]
  BY <1>2
<1> HIDE DEF I, c, n
<1>5. c = Ascending(I)
  BY <1>1, <1>3, <1>4, AscendingUnique
<1>6. Among(s, S) = [k \in DOMAIN c |-> s[c[k]]]
  BY <1>5 DEF Among, EntriesAt, I, PlacesOf
<1>7. Among(s, S) = [k \in 1..n |-> s[k]]
  BY <1>6 DEF c
<1> QED BY <1>1, <1>7

(* The list t is s with x put in after place i. *)
IsInserted(t, s, i, x) ==
    /\ i \in 0..Len(s) /\ DOMAIN t = 1..(Len(s) + 1)
    /\ t[i + 1] = x
    /\ \A k \in 1..i : t[k] = s[k]
    /\ \A k \in (i + 1)..Len(s) : t[k + 1] = s[k]

(* What a list with an entry more has in its places. *)
LEMMA InsertedIs ==
  ASSUME NEW T, NEW s \in Seq(T), NEW x \in T, NEW i \in 0..Len(s)
  PROVE  LET t == SubSeq(s, 1, i) \o <<x>> \o SubSeq(s, i + 1, Len(s))
         IN  t \in Seq(T) /\ IsInserted(t, s, i, x)
<1> DEFINE a == SubSeq(s, 1, i)
           b == SubSeq(s, i + 1, Len(s))
           t == a \o <<x>> \o b
<1>1. Len(s) \in Nat /\ i \in Nat /\ i <= Len(s)
  OBVIOUS
<1>2. /\ a \in Seq(T) /\ Len(a) = i /\ \A k \in 1..i : a[k] = s[k]
      /\ b \in Seq(T) /\ Len(b) = Len(s) - i
      /\ \A k \in 1..(Len(s) - i) : b[k] = s[i + k]
  BY <1>1
<1> HIDE DEF a, b
<1>3. <<x>> \in Seq(T)
  OBVIOUS
<1>4. t \in Seq(T) /\ Len(t) = Len(s) + 1
  <2> DEFINE front == a \o <<x>>
  <2>1. front \in Seq(T) /\ Len(front) = i + 1
    BY <1>2, <1>3
  <2> HIDE DEF front
  <2>2. front \o b \in Seq(T) /\ Len(front \o b) = Len(front) + Len(b)
    <3>1. front \in Seq(T) /\ b \in Seq(T)
      BY <1>2, <2>1
    <3> QED BY ONLY <3>1
  <2>3. t = front \o b
    BY DEF front
  <2> HIDE DEF t
  <2> QED BY <1>1, <1>2, <2>1, <2>2, <2>3
<1>5. t[i + 1] = x /\ \A k \in 1..i : t[k] = a[k]
  BY <1>1, <1>2, <1>3
<1>6. \A k \in (i + 1)..Len(s) : t[k + 1] = b[k - i] /\ k - i \in 1..(Len(s) - i) /\ i + (k - i) = k
  BY <1>1, <1>2, <1>3
<1>7. DOMAIN t = 1..(Len(s) + 1)
  BY <1>4
<1> HIDE DEF t
<1>8. ASSUME NEW k \in (i + 1)..Len(s) PROVE t[k + 1] = s[k]
  <2>1. t[k + 1] = b[k - i] /\ b[k - i] = s[i + (k - i)]
    BY <1>2, <1>6
  <2> QED BY <1>6, <2>1
<1>9. IsInserted(t, s, i, x)
  BY <1>2, <1>5, <1>7, <1>8 DEF IsInserted
<1> QED BY <1>4, <1>9 DEF t, a, b

(* A filter that does not pass the entry put in sees no difference. *)
LEMMA NothingInserted ==
  ASSUME NEW T, NEW s \in Seq(T), NEW i \in 0..Len(s)
  PROVE  SubSeq(s, 1, i) \o <<>> \o SubSeq(s, i + 1, Len(s)) = s
<1> DEFINE a == SubSeq(s, 1, i)
           b == SubSeq(s, i + 1, Len(s))
           t == a \o <<>> \o b
<1>1. Len(s) \in Nat /\ i \in Nat /\ i <= Len(s)
  OBVIOUS
<1>2. /\ a \in Seq(T) /\ Len(a) = i /\ \A k \in 1..i : a[k] = s[k]
      /\ b \in Seq(T) /\ Len(b) = Len(s) - i
      /\ \A k \in 1..(Len(s) - i) : b[k] = s[i + k]
  BY <1>1
<1> HIDE DEF a, b
<1>3. a \o <<>> = a
  BY <1>2
<1>4. t \in Seq(T) /\ Len(t) = Len(s) /\ \A k \in 1..i : t[k] = a[k]
  <2>1. t = a \o b
    BY <1>3
  <2> HIDE DEF t
  <2> QED BY <1>1, <1>2, <2>1
<1>5. \A k \in (i + 1)..Len(s) : t[k] = b[k - i] /\ k - i \in 1..(Len(s) - i) /\ i + (k - i) = k
  BY <1>1, <1>2, <1>3
<1> HIDE DEF t
<1>6. \A k \in 1..Len(s) : t[k] = s[k]
  BY <1>1, <1>2, <1>4, <1>5
<1>7. t = s
  BY <1>4, <1>6
<1> QED BY <1>7 DEF t, a, b

(* A filter does not see what is inserted if that does not pass. *)
LEMMA AmongInserted ==
  ASSUME NEW T, NEW s \in Seq(T), NEW t \in Seq(T), NEW i, NEW x, IsInserted(t, s, i, x),
         NEW S, NEW U, x \notin U, \A k \in DOMAIN s : s[k] \in S <=> s[k] \in U
  PROVE  Among(t, U) = Among(s, S)
<1> DEFINE h == [k \in PlacesOf(t, U) |-> IF k <= i THEN k ELSE k - 1]
<1>1. /\ Len(s) \in Nat /\ DOMAIN s = 1..Len(s) /\ i \in 0..Len(s)
      /\ DOMAIN t = 1..(Len(s) + 1) /\ t[i + 1] = x
      /\ \A k \in 1..i : t[k] = s[k]
      /\ \A k \in (i + 1)..Len(s) : t[k + 1] = s[k]
  BY DEF IsInserted
<1>2. ASSUME NEW k \in PlacesOf(t, U)
      PROVE  h[k] \in PlacesOf(s, S) /\ t[k] = s[h[k]]
  <2>1. k \in 1..(Len(s) + 1) /\ t[k] \in U /\ k # i + 1
    BY <1>1 DEF PlacesOf
  <2>2. CASE k <= i
    BY <1>1, <2>1, <2>2 DEF PlacesOf
  <2>3. CASE ~(k <= i)
    <3>1. k - 1 \in (i + 1)..Len(s) /\ (k - 1) + 1 = k
      BY <1>1, <2>1, <2>3
    <3>2. t[k] = s[k - 1] /\ k - 1 \in DOMAIN s
      BY <1>1, <3>1
    <3> QED BY <2>1, <2>3, <3>2 DEF PlacesOf
  <2> QED BY <2>2, <2>3
<1>3. h \in [PlacesOf(t, U) -> PlacesOf(s, S)]
  BY <1>2
<1>4. ASSUME NEW j \in PlacesOf(s, S) PROVE \E k \in PlacesOf(t, U) : h[k] = j
  <2>1. j \in 1..Len(s) /\ s[j] \in U
    BY <1>1 DEF PlacesOf
  <2>2. CASE j <= i
    <3>1. j \in PlacesOf(t, U)
      BY <1>1, <2>1, <2>2 DEF PlacesOf
    <3> QED BY <2>2, <3>1
  <2>3. CASE ~(j <= i)
    <3>1. t[j + 1] = s[j] /\ j + 1 \in DOMAIN t
      BY <1>1, <2>1, <2>3
    <3>2. j + 1 \in PlacesOf(t, U)
      BY <2>1, <3>1 DEF PlacesOf
    <3>3. ~(j + 1 <= i) /\ (j + 1) - 1 = j
      BY <1>1, <2>1, <2>3
    <3>4. h[j + 1] = j
      BY <3>2, <3>3
    <3> QED BY <3>2, <3>4
  <2> QED BY <2>2, <2>3
<1>5. ASSUME NEW k \in PlacesOf(t, U), NEW l \in PlacesOf(t, U), k < l
      PROVE  h[k] < h[l]
  <2>1. k \in 1..(Len(s) + 1) /\ l \in 1..(Len(s) + 1) /\ k # i + 1 /\ l # i + 1
    BY <1>1 DEF PlacesOf
  <2>2. h[k] = (IF k <= i THEN k ELSE k - 1) /\ h[l] = (IF l <= i THEN l ELSE l - 1)
    OBVIOUS
  <2> HIDE DEF h
  <2> QED BY <1>1, <1>5, <2>1, <2>2
<1> HIDE DEF h
<1> QED BY <1>2, <1>3, <1>4, <1>5, AmongSame

(* The list t is s with entries left out: h tells where each is from.      *)
SubBy(t, s, h) ==
    /\ h \in [DOMAIN t -> DOMAIN s]
    /\ \A k, l \in DOMAIN t : k < l => h[k] < h[l]
    /\ \A k \in DOMAIN t : t[k] = s[h[k]]
Hit(h, i) == \E k \in DOMAIN h : h[k] = i

(* A filter sees no difference if what it passes is still there. *)
LEMMA AmongSub ==
  ASSUME NEW T, NEW s \in Seq(T), NEW t \in Seq(T), NEW h, SubBy(t, s, h), NEW S, NEW U,
         \A i \in DOMAIN s : s[i] \in S => Hit(h, i),
         \A k \in DOMAIN t : t[k] \in U <=> t[k] \in S
  PROVE  Among(t, U) = Among(s, S)
<1> DEFINE g == [k \in PlacesOf(t, U) |-> h[k]]
<1>1. /\ h \in [DOMAIN t -> DOMAIN s]
      /\ \A k, l \in DOMAIN t : k < l => h[k] < h[l]
      /\ \A k \in DOMAIN t : t[k] = s[h[k]]
  BY DEF SubBy
<1>2. g \in [PlacesOf(t, U) -> PlacesOf(s, S)]
  BY <1>1 DEF PlacesOf
<1>3. ASSUME NEW i \in PlacesOf(s, S) PROVE \E k \in PlacesOf(t, U) : g[k] = i
  <2>1. i \in DOMAIN s /\ s[i] \in S
    BY DEF PlacesOf
  <2>2. PICK k \in DOMAIN t : h[k] = i
    BY <1>1, <2>1 DEF Hit
  <2>3. k \in PlacesOf(t, U)
    BY <1>1, <2>1, <2>2 DEF PlacesOf
  <2> QED BY <2>2, <2>3
<1>4. /\ \A k, l \in PlacesOf(t, U) : k < l => g[k] < g[l]
      /\ \A k \in PlacesOf(t, U) : t[k] = s[g[k]]
  BY <1>1 DEF PlacesOf
<1> HIDE DEF g
<1> QED BY <1>2, <1>3, <1>4, AmongSame

(* To filter a list with entries left out is to leave entries out of the   *)
(* filtered list.                                                          *)
FirstKept(s, S, I) ==
    \A j \in PlacesOf(s, S) : (\A l \in PlacesOf(s, S) : j <= l) => j \in I

(* Where the entries of the filtered list are from. *)
LEMMA FilteredSub ==
  ASSUME NEW T, NEW s \in Seq(T), NEW I \in SUBSET (DOMAIN s), NEW S, NEW U,
         \A i \in I : s[i] \in U <=> s[i] \in S
  PROVE  LET t == Among(s, S)
             r == Among(EntriesAt(s, Ascending(I)), U)
         IN  \E h : /\ SubBy(r, t, h)
                    /\ \A i \in DOMAIN t : ~Hit(h, i) => \E j \in (DOMAIN s) \ I : t[i] = s[j]
                    /\ FirstKept(s, S, I) /\ t # <<>> => r # <<>> /\ h[1] = 1
<1> DEFINE a == Ascending(I)
           e == EntriesAt(s, a)
           t == Among(s, S)
           r == Among(e, U)
           b == Ascending(PlacesOf(s, S))
           c == Ascending(PlacesOf(e, U))
<1>1. /\ e \in Seq(T) /\ a \in [DOMAIN e -> I]
      /\ \A i \in I : \E k \in DOMAIN e : a[k] = i
      /\ \A k, l \in DOMAIN e : k < l => a[k] < a[l]
      /\ \A k \in DOMAIN e : e[k] = s[a[k]]
  BY EntriesIs
<1> HIDE DEF a, e
<1>2. /\ b \in [DOMAIN t -> PlacesOf(s, S)]
      /\ \A i \in PlacesOf(s, S) : \E k \in DOMAIN t : b[k] = i
      /\ \A k, l \in DOMAIN t : k < l => b[k] < b[l]
      /\ \A k \in DOMAIN t : t[k] = s[b[k]]
      /\ t \in Seq(T \cap S)
  BY AmongIs DEF IsFilterOf
<1>3. /\ c \in [DOMAIN r -> PlacesOf(e, U)]
      /\ \A i \in PlacesOf(e, U) : \E k \in DOMAIN r : c[k] = i
      /\ \A k, l \in DOMAIN r : k < l => c[k] < c[l]
      /\ \A k \in DOMAIN r : r[k] = e[c[k]]
      /\ r \in Seq(T \cap U)
  BY <1>1, AmongIs DEF IsFilterOf
<1> HIDE DEF b, c, t, r
<1>4. /\ DOMAIN t = 1..Len(t) /\ Len(t) \in Nat
      /\ DOMAIN r = 1..Len(r) /\ Len(r) \in Nat
      /\ DOMAIN s = 1..Len(s) /\ Len(s) \in Nat
  <2>1. DOMAIN t = 1..Len(t) /\ Len(t) \in Nat
    BY <1>2
  <2>2. DOMAIN r = 1..Len(r) /\ Len(r) \in Nat
    BY <1>3
  <2> QED BY <2>1, <2>2
<1>5. \A k \in DOMAIN t : b[k] \in Int
  BY <1>2, <1>4 DEF PlacesOf
<1>6. ASSUME NEW k \in DOMAIN t, NEW l \in DOMAIN t
      PROVE  /\ b[k] = b[l] => k = l
             /\ b[k] < b[l] => k < l
  <2>1. k \in Int /\ l \in Int /\ b[k] \in Int /\ b[l] \in Int
    BY <1>4, <1>5
  <2>2. /\ k < l => b[k] < b[l]
        /\ l < k => b[l] < b[k]
    BY <1>2
  <2> QED BY <2>1, <2>2
<1>7. \A k \in DOMAIN r : c[k] \in DOMAIN e /\ e[c[k]] \in U
  BY <1>3 DEF PlacesOf
<1>8. ASSUME NEW k \in DOMAIN r PROVE \E i \in DOMAIN t : b[i] = a[c[k]]
  <2>1. a[c[k]] \in I /\ e[c[k]] = s[a[c[k]]]
    BY <1>1, <1>7
  <2>2. a[c[k]] \in PlacesOf(s, S)
    BY <1>7, <2>1 DEF PlacesOf
  <2> QED BY <1>2, <2>2
<1> DEFINE h == [k \in DOMAIN r |-> CHOOSE i \in DOMAIN t : b[i] = a[c[k]]]
<1>9. ASSUME NEW k \in DOMAIN r PROVE h[k] \in DOMAIN t /\ b[h[k]] = a[c[k]]
  BY <1>8
<1>10. h \in [DOMAIN r -> DOMAIN t]
  BY <1>9
<1> HIDE DEF h
<1>11. SubBy(r, t, h)
  <2>1. ASSUME NEW k \in DOMAIN r, NEW l \in DOMAIN r, k < l PROVE h[k] < h[l]
    <3>1. c[k] < c[l]
      BY <1>3, <2>1
    <3>2. a[c[k]] < a[c[l]]
      BY <1>1, <1>7, <3>1
    <3>3. b[h[k]] < b[h[l]]
      BY <1>9, <3>2
    <3> QED BY <1>6, <1>9, <3>3
  <2>2. ASSUME NEW k \in DOMAIN r PROVE r[k] = t[h[k]]
    <3>1. r[k] = s[a[c[k]]]
      BY <1>1, <1>3, <1>7
    <3> QED BY <1>2, <1>9, <3>1
  <2> QED BY <1>10, <2>1, <2>2 DEF SubBy
<1>12. ASSUME NEW i \in DOMAIN t, b[i] \in I PROVE Hit(h, i)
  <2>1. PICK q \in DOMAIN e : a[q] = b[i]
    BY <1>1, <1>12
  <2>2. b[i] \in PlacesOf(s, S)
    BY <1>2
  <2>3. e[q] = s[b[i]] /\ s[b[i]] \in S
    BY <1>1, <2>1, <2>2 DEF PlacesOf
  <2>4. q \in PlacesOf(e, U)
    BY <1>12, <2>3 DEF PlacesOf
  <2>5. PICK k \in DOMAIN r : c[k] = q
    BY <1>3, <2>4
  <2>6. h[k] \in DOMAIN t /\ b[h[k]] = b[i]
    BY <1>9, <2>1, <2>5
  <2>7. h[k] = i
    BY <1>6, <2>6
  <2> QED BY <1>10, <2>7 DEF Hit
<1>13. ASSUME NEW i \in DOMAIN t, ~Hit(h, i) PROVE \E j \in (DOMAIN s) \ I : t[i] = s[j]
  <2>1. b[i] \in DOMAIN s /\ b[i] \notin I /\ t[i] = s[b[i]]
    BY <1>2, <1>12, <1>13 DEF PlacesOf
  <2> QED BY <2>1
<1>14. ASSUME FirstKept(s, S, I), t # <<>> PROVE r # <<>> /\ h[1] = 1
  <2>1. 1 \in DOMAIN t
    BY <1>2, <1>4, <1>14
  <2>2. ASSUME NEW l \in PlacesOf(s, S) PROVE b[1] <= l
    <3>1. PICK i \in DOMAIN t : b[i] = l
      BY <1>2
    <3>2. i # 1 => 1 < i
      BY <1>4
    <3>3. i # 1 => b[1] < b[i]
      BY <1>2, <2>1, <3>2
    <3> QED BY <1>5, <2>1, <3>1, <3>3
  <2>3. b[1] \in I
    <3>1. b[1] \in PlacesOf(s, S)
      BY <1>2, <2>1
    <3> QED BY <1>14, <2>2, <3>1 DEF FirstKept
  <2>4. PICK k \in DOMAIN r : h[k] = 1
    BY <1>10, <1>12, <2>1, <2>3 DEF Hit
  <2>5. 1 \in DOMAIN r /\ h[1] \in 1..Len(t)
    BY <1>4, <1>10, <2>4
  <2>6. k # 1 => h[1] < h[k]
    <3>1. k # 1 => 1 < k
      BY <1>4
    <3> QED BY <1>11, <2>5, <3>1 DEF SubBy
  <2>7. k = 1
    BY <2>4, <2>5, <2>6
  <2>8. r # <<>>
    BY <2>5
  <2> QED BY <2>4, <2>7, <2>8
<1> QED BY <1>11, <1>13, <1>14 DEF t, r, e, a
==============================================================================
