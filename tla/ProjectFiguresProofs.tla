------------------------ MODULE ProjectFiguresProofs ------------------------
(***************************************************************************)
(* Proofs about ProjectFigures: that the allocation and the reports of the *)
(* single types lose no cost, that a compensation exceeds its deviation by *)
(* no more than rounding adds, that a summary adds up while the data       *)
(* change, and that the figures which are computed twice agree.            *)
(*                                                                         *)
(* The figures are folds over finite sets.  Sigma is such a sum with its   *)
(* summands as a function; each fold of the model is shown to be one, and  *)
(* the laws of sums are proved for Sigma by taking a smallest set that     *)
(* would violate them.                                                     *)
(***************************************************************************)
EXTENDS ProjectFigures, FiniteSetTheorems, WellFoundedInduction, TLAPS

-----------------------------------------------------------------------------
(* Induction.  The induction theorems of the library take an operator; this *)
(* form, with the set of what would be wrong, needs none.                   *)

\* A set of natural numbers has a least element.
LEMMA Least ==
  ASSUME NEW T \in SUBSET Nat, T # {}
  PROVE  \E x \in T : \A y \in T : ~(y < x)
<1> DEFINE R == OpToRel(<, Nat)
<1>1. IsWellFoundedOn(R, Nat)
  BY NatLessThanWellFounded
<1>2. \A a, b \in Nat : <<a, b>> \in R <=> a < b
  BY DEF OpToRel
<1> HIDE DEF R
<1>3. \E x \in T : \A y \in T : ~ (<<y, x>> \in R)
  BY <1>1, WFMin
<1> QED BY <1>2, <1>3

\* Among sets of subsets of a finite set there is a smallest.
LEMMA Smallest ==
  ASSUME NEW S, IsFiniteSet(S), NEW Bad \in SUBSET (SUBSET S), Bad # {}
  PROVE  \E s \in Bad : \A t \in Bad : t \subseteq s => t = s
<1> DEFINE T == {Cardinality(s) : s \in Bad}
<1>1. \A s \in SUBSET S : IsFiniteSet(s) /\ Cardinality(s) \in Nat
  BY FS_Subset, FS_CardinalityType
<1>2. T \in SUBSET Nat /\ T # {}
  BY <1>1
<1>3. PICK n \in T : \A m \in T : ~(m < n)
  <2> HIDE DEF T
  <2> QED BY <1>2, Least
<1>4. PICK s \in Bad : Cardinality(s) = n
  OBVIOUS
<1>5. ASSUME NEW t \in Bad, t \subseteq s PROVE t = s
  <2>1. IsFiniteSet(s) /\ Cardinality(t) \in Nat /\ Cardinality(s) \in Nat
    BY <1>1
  <2>2. Cardinality(t) <= Cardinality(s) /\ (Cardinality(t) = Cardinality(s) => t = s)
    BY <1>5, <2>1, FS_Subset
  <2>3. ~(Cardinality(t) < Cardinality(s))
    BY <1>3, <1>4
  <2> QED BY <2>1, <2>2, <2>3
<1> QED BY <1>5

LEMMA MaxOf ==
  ASSUME NEW S, S \subseteq Int, IsFiniteSet(S), S # {}
  PROVE  Max(S) \in S /\ \A x \in S : x <= Max(S)
<1> DEFINE Bad == {s \in SUBSET S : s # {} /\ \A x \in s : \E y \in s : y > x}
<1>1. Bad = {}
  <2> SUFFICES ASSUME Bad # {} PROVE FALSE
    OBVIOUS
  <2>1. PICK s \in Bad : \A t \in Bad : t \subseteq s => t = s
    <3>1. Bad \in SUBSET (SUBSET S)
      OBVIOUS
    <3> HIDE DEF Bad
    <3> QED BY ONLY <3>1, Smallest, IsFiniteSet(S), Bad # {}
  <2>2. PICK z \in s : TRUE
    BY <2>1
  <2>3. PICK y \in s : y > z
    BY <2>1
  <2>4. s \ {z} \notin Bad
    <3>1. s \ {z} \subseteq s /\ s \ {z} # s
      BY <2>2
    <3> HIDE DEF Bad
    <3> QED BY <2>1, <3>1
  <2>5. s \ {z} \in SUBSET S /\ s \ {z} # {}
    BY <2>1, <2>2, <2>3
  <2>6. PICK x \in s \ {z} : \A w \in s \ {z} : ~(w > x)
    BY <2>4, <2>5
  <2>7. \A w \in s : ~(w > x)
    BY <2>1, <2>2, <2>3, <2>6
  <2> QED BY <2>1, <2>6, <2>7
<1>2. \E x \in S : \A y \in S : x >= y
  <2>1. PICK x \in S : \A y \in S : ~(y > x)
    BY <1>1
  <2> QED BY <2>1
<1> HIDE DEF Bad
<1> QED BY <1>2 DEF Max

LEMMA MinOf ==
  ASSUME NEW S, S \subseteq Int, IsFiniteSet(S), S # {}
  PROVE  Min(S) \in S /\ \A x \in S : Min(S) <= x
<1> DEFINE Bad == {s \in SUBSET S : s # {} /\ \A x \in s : \E y \in s : y < x}
<1>1. Bad = {}
  <2> SUFFICES ASSUME Bad # {} PROVE FALSE
    OBVIOUS
  <2>1. PICK s \in Bad : \A t \in Bad : t \subseteq s => t = s
    <3>1. Bad \in SUBSET (SUBSET S)
      OBVIOUS
    <3> HIDE DEF Bad
    <3> QED BY ONLY <3>1, Smallest, IsFiniteSet(S), Bad # {}
  <2>2. PICK z \in s : TRUE
    BY <2>1
  <2>3. PICK y \in s : y < z
    BY <2>1
  <2>4. s \ {z} \notin Bad
    <3>1. s \ {z} \subseteq s /\ s \ {z} # s
      BY <2>2
    <3> HIDE DEF Bad
    <3> QED BY <2>1, <3>1
  <2>5. s \ {z} \in SUBSET S /\ s \ {z} # {}
    BY <2>1, <2>2, <2>3
  <2>6. PICK x \in s \ {z} : \A w \in s \ {z} : ~(w < x)
    BY <2>4, <2>5
  <2>7. \A w \in s : ~(w < x)
    BY <2>1, <2>2, <2>3, <2>6
  <2> QED BY <2>1, <2>6, <2>7
<1>2. \E x \in S : \A y \in S : x =< y
  <2>1. PICK x \in S : \A y \in S : ~(y < x)
    BY <1>1
  <2> QED BY <2>1
<1> HIDE DEF Bad
<1> QED BY <1>2 DEF Min

-----------------------------------------------------------------------------
(* Sums.                                                                    *)

Pick(s) == CHOOSE x \in s : TRUE
\* f adds up g over every subset of S, one element after the other.
Adds(f, g, S) == f = [s \in SUBSET S |-> IF s = {} THEN 0 ELSE g[Pick(s)] + f[s \ {Pick(s)}]]
Sigma(g, S) == (CHOOSE f : Adds(f, g, S))[S]

LEMMA PickIn == ASSUME NEW s, s # {} PROVE Pick(s) \in s
BY DEF Pick

\* Functions that add up g agree on the finite sets both are defined on.
LEMMA AddsUnique ==
  ASSUME NEW g, NEW S, NEW T, NEW R, IsFiniteSet(R), R \subseteq S, R \subseteq T,
         NEW f, NEW h, Adds(f, g, S), Adds(h, g, T)
  PROVE  f[R] = h[R]
<1> DEFINE Bad == {s \in SUBSET R : f[s] # h[s]}
<1> SUFFICES ASSUME Bad # {} PROVE FALSE
  OBVIOUS
<1>1. PICK s \in Bad : \A t \in Bad : t \subseteq s => t = s
  <2>1. Bad \in SUBSET (SUBSET R)
    OBVIOUS
  <2> HIDE DEF Bad
  <2> QED BY <2>1, Smallest
<1>2. /\ f[s] = IF s = {} THEN 0 ELSE g[Pick(s)] + f[s \ {Pick(s)}]
      /\ h[s] = IF s = {} THEN 0 ELSE g[Pick(s)] + h[s \ {Pick(s)}]
  <2>1. s \in SUBSET S /\ s \in SUBSET T
    OBVIOUS
  <2> QED BY <2>1 DEF Adds
<1>3. s # {}
  BY <1>2
<1>4. s \ {Pick(s)} \notin Bad
  BY <1>1, <1>3, PickIn
<1>5. f[s \ {Pick(s)}] = h[s \ {Pick(s)}]
  BY <1>4
<1> QED BY <1>2, <1>3, <1>5

\* Over the subsets of a finite set there is such a function.
LEMMA AddsExists ==
  ASSUME NEW g, NEW S, IsFiniteSet(S)
  PROVE  \E f : Adds(f, g, S)
<1> DEFINE Bad == {s \in SUBSET S : ~ \E f : Adds(f, g, s)}
<1> SUFFICES ASSUME Bad # {} PROVE FALSE
  OBVIOUS
<1>1. PICK s \in Bad : \A t \in Bad : t \subseteq s => t = s
  <2>1. Bad \in SUBSET (SUBSET S)
    OBVIOUS
  <2> HIDE DEF Bad
  <2> QED BY <2>1, Smallest
<1> DEFINE of(t) == CHOOSE f : Adds(f, g, t)
           v == [t \in SUBSET s |-> IF t = s THEN IF s = {} THEN 0 ELSE g[Pick(s)] + of(s \ {Pick(s)})[s \ {Pick(s)}]
                                             ELSE of(t)[t]]
<1>2. ASSUME NEW t \in SUBSET s, t # s PROVE Adds(of(t), g, t)
  BY <1>1, <1>2
<1>3. ASSUME NEW t \in SUBSET s
      PROVE  v[t] = IF t = {} THEN 0 ELSE g[Pick(t)] + v[t \ {Pick(t)}]
  <2>1. CASE t = {}
    <3>1. CASE t = s
      BY <2>1, <3>1
    <3>2. CASE t # s
      <4>1. of(t)[t] = 0
        <5>1. t \in SUBSET t
          OBVIOUS
        <5> HIDE DEF of
        <5> QED BY <1>2, <2>1, <3>2, <5>1 DEF Adds
      <4> HIDE DEF of
      <4> QED BY <2>1, <3>2, <4>1
    <3> QED BY <3>1, <3>2
  <2>2. CASE t # {}
    <3> DEFINE u == t \ {Pick(t)}
    <3>1. u \in SUBSET t /\ u \in SUBSET s /\ u # s
      BY <2>2, PickIn
    <3>2. v[u] = of(u)[u]
      <4> HIDE DEF of, u
      <4> QED BY <3>1
    <3>3. CASE t = s
      <4> HIDE DEF of
      <4> QED BY <2>2, <3>2, <3>3
    <3>4. CASE t # s
      <4>1. v[t] = of(t)[t]
        <5> HIDE DEF of
        <5> QED BY <3>4
      <4>2. of(t)[t] = g[Pick(t)] + of(t)[u]
        <5> HIDE DEF of
        <5>1. Adds(of(t), g, t)
          BY <1>2, <3>4
        <5>2. t \in SUBSET t
          OBVIOUS
        <5> QED BY <2>2, <5>1, <5>2 DEF Adds
      <4>3. of(t)[u] = of(u)[u]
        <5> HIDE DEF of, u
        <5>1. Adds(of(t), g, t) /\ Adds(of(u), g, u)
          BY <1>2, <3>1, <3>4
        <5>2. IsFiniteSet(u)
          BY <3>1, FS_Subset
        <5> QED BY <3>1, <5>1, <5>2, AddsUnique
      <4> HIDE DEF of, v
      <4> QED BY <2>2, <3>2, <4>1, <4>2, <4>3
    <3> QED BY <3>3, <3>4
  <2> QED BY <2>1, <2>2
<1>4. Adds(v, g, s)
  <2>1. v = [t \in SUBSET s |-> v[t]]
    OBVIOUS
  <2> HIDE DEF v
  <2>2. [t \in SUBSET s |-> v[t]] =
        [t \in SUBSET s |-> IF t = {} THEN 0 ELSE g[Pick(t)] + v[t \ {Pick(t)}]]
    BY <1>3
  <2> QED BY <2>1, <2>2 DEF Adds
<1> HIDE DEF v
<1> QED BY <1>4

\* So a sum is what its definition by CHOOSE suggests.
LEMMA SigmaSteps ==
  ASSUME NEW g, NEW S, IsFiniteSet(S)
  PROVE  Sigma(g, S) = IF S = {} THEN 0 ELSE g[Pick(S)] + Sigma(g, S \ {Pick(S)})
<1> DEFINE of(t) == CHOOSE f : Adds(f, g, t)
<1>1. ASSUME NEW t \in SUBSET S PROVE Adds(of(t), g, t)
  <2>1. IsFiniteSet(t)
    BY FS_Subset
  <2> QED BY <2>1, AddsExists
<1>2. Adds(of(S), g, S)
  BY <1>1
<1> DEFINE u == S \ {Pick(S)}
<1>3. of(S)[S] = IF S = {} THEN 0 ELSE g[Pick(S)] + of(S)[u]
  <2> HIDE DEF of
  <2>1. S \in SUBSET S
    OBVIOUS
  <2> QED BY <1>2, <2>1 DEF Adds
<1>4. of(S)[u] = of(u)[u]
  <2>1. u \in SUBSET S /\ IsFiniteSet(u)
    BY FS_Subset
  <2> HIDE DEF of, u
  <2> QED BY <1>1, <1>2, <2>1, AddsUnique
<1> QED BY <1>3, <1>4 DEF Sigma

LEMMA SigmaEmpty == ASSUME NEW g PROVE Sigma(g, {}) = 0
BY SigmaSteps, FS_EmptySet

\* What g has no number for is not added up.
Adding(g, S) == IsFiniteSet(S) /\ \A x \in S : g[x] \in Int

LEMMA SigmaInt == ASSUME NEW g, NEW S, Adding(g, S) PROVE Sigma(g, S) \in Int
<1> DEFINE Bad == {s \in SUBSET S : Sigma(g, s) \notin Int}
<1> SUFFICES ASSUME Bad # {} PROVE FALSE
  OBVIOUS
<1>1. PICK s \in Bad : \A t \in Bad : t \subseteq s => t = s
  <2>1. Bad \in SUBSET (SUBSET S) /\ IsFiniteSet(S)
    BY DEF Adding
  <2> HIDE DEF Bad
  <2> QED BY <2>1, Smallest
<1>2. IsFiniteSet(s)
  BY FS_Subset DEF Adding
<1>3. Sigma(g, s) = IF s = {} THEN 0 ELSE g[Pick(s)] + Sigma(g, s \ {Pick(s)})
  BY <1>2, SigmaSteps
<1>4. CASE s # {}
  <2>1. Pick(s) \in s /\ g[Pick(s)] \in Int
    BY <1>4, PickIn DEF Adding
  <2>2. s \ {Pick(s)} \notin Bad
    BY <1>1, <2>1
  <2> QED BY <1>3, <1>4, <2>1, <2>2
<1> QED BY <1>3, <1>4

\* Any element may be added last.
LEMMA SigmaTake ==
  ASSUME NEW g, NEW S, Adding(g, S), NEW x \in S
  PROVE  Sigma(g, S) = g[x] + Sigma(g, S \ {x})
<1> DEFINE Bad == {s \in SUBSET S : \E y \in s : Sigma(g, s) # g[y] + Sigma(g, s \ {y})}
<1> SUFFICES ASSUME Bad # {} PROVE FALSE
  OBVIOUS
<1>1. PICK s \in Bad : \A t \in Bad : t \subseteq s => t = s
  <2>1. Bad \in SUBSET (SUBSET S) /\ IsFiniteSet(S)
    BY DEF Adding
  <2> HIDE DEF Bad
  <2> QED BY <2>1, Smallest
<1>2. PICK y \in s : Sigma(g, s) # g[y] + Sigma(g, s \ {y})
  OBVIOUS
<1> DEFINE z == Pick(s)
<1>3. z \in s
  BY <1>2, PickIn
<1> HIDE DEF z
<1>4. IsFiniteSet(s) /\ IsFiniteSet(s \ {y})
  BY FS_Subset DEF Adding
<1>5. Sigma(g, s) = g[z] + Sigma(g, s \ {z})
  BY <1>3, <1>4, SigmaSteps DEF z
<1>6. y # z
  BY <1>2, <1>5
<1>7. Sigma(g, s \ {z}) = g[y] + Sigma(g, (s \ {z}) \ {y})
  <2>1. s \ {z} \notin Bad /\ s \ {z} \in SUBSET S /\ y \in s \ {z}
    BY <1>1, <1>3, <1>6
  <2> QED BY <2>1
<1>8. Sigma(g, s \ {y}) = g[z] + Sigma(g, (s \ {y}) \ {z})
  <2>1. s \ {y} \notin Bad /\ s \ {y} \in SUBSET S /\ z \in s \ {y}
    BY <1>1, <1>3, <1>6
  <2> QED BY <2>1
<1>9. (s \ {z}) \ {y} = (s \ {y}) \ {z}
  OBVIOUS
<1>10. /\ g[y] \in Int /\ g[z] \in Int /\ Sigma(g, (s \ {y}) \ {z}) \in Int
  <2>1. Adding(g, (s \ {y}) \ {z})
    BY FS_Subset DEF Adding
  <2> QED BY <1>3, <2>1, SigmaInt DEF Adding
<1> DEFINE w == (s \ {y}) \ {z}
<1>11. Sigma(g, s \ {z}) = g[y] + Sigma(g, w) /\ Sigma(g, s \ {y}) = g[z] + Sigma(g, w)
       /\ Sigma(g, w) \in Int /\ g[y] \in Int /\ g[z] \in Int
  BY <1>7, <1>8, <1>9, <1>10, Zenon
<1>12. Sigma(g, s) = g[y] + Sigma(g, s \ {y})
  <2> DEFINE a == Sigma(g, s) b == Sigma(g, s \ {y}) c == Sigma(g, s \ {z}) d == Sigma(g, w)
             e == g[y] f == g[z]
  <2>1. a = f + c /\ c = e + d /\ b = f + d /\ d \in Int /\ e \in Int /\ f \in Int
    BY <1>5, <1>11
  <2>2. a = e + b
    <3> HIDE DEF a, b, c, d, e, f
    <3> QED BY <2>1
  <2> QED BY <2>2
<1> QED BY <1>2, <1>12

\* Sums look at nothing but the elements.
LEMMA SigmaSame ==
  ASSUME NEW g, NEW h, NEW S, Adding(g, S), \A x \in S : g[x] = h[x]
  PROVE  Sigma(g, S) = Sigma(h, S)
<1> DEFINE Bad == {s \in SUBSET S : Sigma(g, s) # Sigma(h, s)}
<1> SUFFICES ASSUME Bad # {} PROVE FALSE
  OBVIOUS
<1>1. PICK s \in Bad : \A t \in Bad : t \subseteq s => t = s
  <2>1. Bad \in SUBSET (SUBSET S) /\ IsFiniteSet(S)
    BY DEF Adding
  <2> HIDE DEF Bad
  <2> QED BY <2>1, Smallest
<1>2. IsFiniteSet(s)
  BY FS_Subset DEF Adding
<1>3. /\ Sigma(g, s) = IF s = {} THEN 0 ELSE g[Pick(s)] + Sigma(g, s \ {Pick(s)})
      /\ Sigma(h, s) = IF s = {} THEN 0 ELSE h[Pick(s)] + Sigma(h, s \ {Pick(s)})
  BY <1>2, SigmaSteps
<1>4. CASE s # {}
  <2>1. Pick(s) \in s /\ g[Pick(s)] = h[Pick(s)]
    BY <1>4, PickIn
  <2>2. s \ {Pick(s)} \notin Bad
    BY <1>1, <2>1
  <2> QED BY <1>3, <1>4, <2>1, <2>2
<1> QED BY <1>3, <1>4

\* A sum of sums is the sum of both.
LEMMA SigmaPlus ==
  ASSUME NEW g, NEW h, NEW k, NEW S, Adding(g, S), Adding(h, S), \A x \in S : k[x] = g[x] + h[x]
  PROVE  Sigma(k, S) = Sigma(g, S) + Sigma(h, S)
<1> DEFINE Bad == {s \in SUBSET S : Sigma(k, s) # Sigma(g, s) + Sigma(h, s)}
<1> SUFFICES ASSUME Bad # {} PROVE FALSE
  OBVIOUS
<1>1. PICK s \in Bad : \A t \in Bad : t \subseteq s => t = s
  <2>1. Bad \in SUBSET (SUBSET S) /\ IsFiniteSet(S)
    BY DEF Adding
  <2> HIDE DEF Bad
  <2> QED BY <2>1, Smallest
<1>2. IsFiniteSet(s)
  BY FS_Subset DEF Adding
<1>3. /\ Sigma(g, s) = IF s = {} THEN 0 ELSE g[Pick(s)] + Sigma(g, s \ {Pick(s)})
      /\ Sigma(h, s) = IF s = {} THEN 0 ELSE h[Pick(s)] + Sigma(h, s \ {Pick(s)})
      /\ Sigma(k, s) = IF s = {} THEN 0 ELSE k[Pick(s)] + Sigma(k, s \ {Pick(s)})
  BY <1>2, SigmaSteps
<1>4. CASE s # {}
  <2> DEFINE x == Pick(s)
             u == s \ {x}
  <2>1. x \in s /\ k[x] = g[x] + h[x] /\ g[x] \in Int /\ h[x] \in Int
    BY <1>4, PickIn DEF Adding
  <2>2. u \notin Bad /\ u \in SUBSET S
    BY <1>1, <2>1
  <2>3. Sigma(k, u) = Sigma(g, u) + Sigma(h, u)
    BY <2>2
  <2>4. Sigma(g, u) \in Int /\ Sigma(h, u) \in Int
    <3>1. Adding(g, u) /\ Adding(h, u)
      BY <2>2, FS_Subset DEF Adding
    <3> HIDE DEF u
    <3> QED BY <3>1, SigmaInt
  <2>5. /\ Sigma(g, s) = g[x] + Sigma(g, u) /\ Sigma(h, s) = h[x] + Sigma(h, u)
        /\ Sigma(k, s) = k[x] + Sigma(k, u) /\ Sigma(k, s) # Sigma(g, s) + Sigma(h, s)
    BY <1>1, <1>3, <1>4
  <2> HIDE DEF x, u
  <2> QED BY <2>1, <2>3, <2>4, <2>5
<1> QED BY <1>3, <1>4

LEMMA SigmaTimes ==
  ASSUME NEW g, NEW h, NEW S, NEW a \in Int, Adding(g, S), \A x \in S : h[x] = a * g[x]
  PROVE  Sigma(h, S) = a * Sigma(g, S)
<1> DEFINE Bad == {s \in SUBSET S : Sigma(h, s) # a * Sigma(g, s)}
<1> SUFFICES ASSUME Bad # {} PROVE FALSE
  OBVIOUS
<1>1. PICK s \in Bad : \A t \in Bad : t \subseteq s => t = s
  <2>1. Bad \in SUBSET (SUBSET S) /\ IsFiniteSet(S)
    BY DEF Adding
  <2> HIDE DEF Bad
  <2> QED BY <2>1, Smallest
<1>2. IsFiniteSet(s)
  BY FS_Subset DEF Adding
<1>3. /\ Sigma(g, s) = IF s = {} THEN 0 ELSE g[Pick(s)] + Sigma(g, s \ {Pick(s)})
      /\ Sigma(h, s) = IF s = {} THEN 0 ELSE h[Pick(s)] + Sigma(h, s \ {Pick(s)})
  BY <1>2, SigmaSteps
<1>4. CASE s # {}
  <2> DEFINE x == Pick(s)
             u == s \ {x}
  <2>1. x \in s /\ h[x] = a * g[x] /\ g[x] \in Int
    BY <1>4, PickIn DEF Adding
  <2>2. u \notin Bad /\ u \in SUBSET S
    BY <1>1, <2>1
  <2>3. Sigma(h, u) = a * Sigma(g, u)
    BY <2>2
  <2>4. Sigma(g, u) \in Int
    <3>1. Adding(g, u)
      BY <2>2, FS_Subset DEF Adding
    <3> HIDE DEF u
    <3> QED BY <3>1, SigmaInt
  <2>5. /\ Sigma(g, s) = g[x] + Sigma(g, u) /\ Sigma(h, s) = h[x] + Sigma(h, u)
        /\ Sigma(h, s) # a * Sigma(g, s)
    BY <1>1, <1>3, <1>4
  <2> HIDE DEF x, u
  <2>6. \A b, c \in Int : a * (b + c) = a * b + a * c
    OBVIOUS
  <2> QED BY <2>1, <2>3, <2>4, <2>5, <2>6
<1>5. CASE s = {}
  BY <1>1, <1>3, <1>5
<1> QED BY <1>4, <1>5

LEMMA SigmaZero ==
  ASSUME NEW g, NEW S, IsFiniteSet(S), \A x \in S : g[x] = 0
  PROVE  Sigma(g, S) = 0
<1> DEFINE o == [x \in S |-> 0]
<1>1. Adding(o, S) /\ \A x \in S : g[x] = 0 * o[x]
  BY DEF Adding
<1> HIDE DEF o
<1>2. Sigma(g, S) = 0 * Sigma(o, S) /\ Sigma(o, S) \in Int
  BY <1>1, SigmaTimes, SigmaInt
<1> QED BY <1>2

\* Where g is zero need not be looked at.
LEMMA SigmaDrop ==
  ASSUME NEW g, NEW S, NEW R \in SUBSET S, Adding(g, S), \A x \in S \ R : g[x] = 0
  PROVE  Sigma(g, S) = Sigma(g, R)
<1> DEFINE a == [x \in S |-> IF x \in R THEN g[x] ELSE 0]
<1> DEFINE Bad == {s \in SUBSET S : Sigma(g, s) # Sigma(g, s \cap R)}
<1> SUFFICES ASSUME Bad # {} PROVE FALSE
  <2>1. S \cap R = R
    OBVIOUS
  <2> QED BY <2>1
<1>1. PICK s \in Bad : \A t \in Bad : t \subseteq s => t = s
  <2>1. Bad \in SUBSET (SUBSET S) /\ IsFiniteSet(S)
    BY DEF Adding
  <2> HIDE DEF Bad
  <2> QED BY <2>1, Smallest
<1> DEFINE x == Pick(s)
           u == s \ {x}
<1>2. s # {}
  <2>1. ({}) \cap R = {}
    OBVIOUS
  <2> QED BY <1>1, <2>1
<1>3. x \in s /\ x \in S /\ u \in SUBSET S /\ g[x] \in Int
  BY <1>2, PickIn DEF Adding
<1>4. Sigma(g, u) = Sigma(g, u \cap R)
  <2>1. u \notin Bad
    BY <1>1, <1>3
  <2> QED BY <1>3, <2>1
<1>5. Adding(g, s) /\ Adding(g, u) /\ Adding(g, s \cap R) /\ Adding(g, u \cap R)
  BY FS_Subset DEF Adding
<1> HIDE DEF x
<1>6. Sigma(g, s) = g[x] + Sigma(g, u)
  BY <1>3, <1>5, SigmaTake
<1>7. CASE x \in R
  <2>1. x \in s \cap R /\ (s \cap R) \ {x} = u \cap R
    BY <1>3, <1>7
  <2>2. Sigma(g, s \cap R) = g[x] + Sigma(g, u \cap R)
    BY <1>5, <2>1, SigmaTake
  <2> QED BY <1>1, <1>4, <1>6, <2>2
<1>8. CASE x \notin R
  <2>1. s \cap R = u \cap R /\ g[x] = 0
    BY <1>3, <1>8
  <2>2. Sigma(g, u) \in Int
    BY <1>5, SigmaInt
  <2> QED BY <1>1, <1>4, <1>6, <2>1, <2>2
<1> QED BY <1>7, <1>8

\* Elements may be added up group by group.
LEMMA SigmaGroups ==
  ASSUME NEW g, NEW S, Adding(g, S), NEW C, IsFiniteSet(C), NEW k, \A x \in S : k[x] \in C
  PROVE  Sigma(g, S) = Sigma([c \in C |-> Sigma(g, {x \in S : k[x] = c})], C)
<1> DEFINE by(s) == [c \in C |-> Sigma(g, {x \in s : k[x] = c})]
           Bad == {s \in SUBSET S : Sigma(g, s) # Sigma(by(s), C)}
<1> SUFFICES ASSUME Bad # {} PROVE FALSE
  OBVIOUS
<1>1. PICK s \in Bad : \A t \in Bad : t \subseteq s => t = s
  <2>1. Bad \in SUBSET (SUBSET S) /\ IsFiniteSet(S)
    BY DEF Adding
  <2> HIDE DEF Bad
  <2> QED BY <2>1, Smallest
<1>2. CASE s = {}
  <2>1. \A c \in C : {x \in s : k[x] = c} = {}
    BY <1>2
  <2>2. \A c \in C : by(s)[c] = 0
    BY <2>1, SigmaEmpty
  <2> HIDE DEF by
  <2>3. Sigma(by(s), C) = 0 /\ Sigma(g, s) = 0
    BY <1>2, <2>2, SigmaZero, SigmaEmpty
  <2> QED BY <1>1, <2>3
<1>3. CASE s # {}
  <2> DEFINE z == Pick(s)
             u == s \ {z}
             d == [c \in C |-> IF c = k[z] THEN g[z] ELSE 0]
  <2>1. z \in s /\ z \in S /\ u \in SUBSET S /\ g[z] \in Int /\ k[z] \in C
    BY <1>3, PickIn DEF Adding
  <2>2. Sigma(g, u) = Sigma(by(u), C)
    <3>1. u \notin Bad
      BY <1>1, <2>1
    <3> HIDE DEF by
    <3> QED BY <2>1, <3>1
  <2>3. Adding(g, s) /\ Adding(g, u)
        /\ \A c \in C : Adding(g, {x \in s : k[x] = c}) /\ Adding(g, {x \in u : k[x] = c})
    BY FS_Subset DEF Adding
  <2> HIDE DEF z
  <2>4. Sigma(g, s) = g[z] + Sigma(g, u)
    BY <2>1, <2>3, SigmaTake
  <2>5. ASSUME NEW c \in C PROVE by(s)[c] = d[c] + by(u)[c] /\ by(u)[c] \in Int /\ d[c] \in Int
    <3>1. Sigma(g, {x \in u : k[x] = c}) \in Int
      BY <2>3, SigmaInt
    <3>2. CASE c = k[z]
      <4>1. z \in {x \in s : k[x] = c} /\ {x \in s : k[x] = c} \ {z} = {x \in u : k[x] = c}
        BY <2>1, <3>2
      <4>2. Sigma(g, {x \in s : k[x] = c}) = g[z] + Sigma(g, {x \in u : k[x] = c})
        BY <2>3, <4>1, SigmaTake
      <4> QED BY <2>1, <3>1, <3>2, <4>2
    <3>3. CASE c # k[z]
      <4>1. {x \in s : k[x] = c} = {x \in u : k[x] = c}
        BY <3>3
      <4>2. by(s)[c] = by(u)[c] /\ by(u)[c] = Sigma(g, {x \in u : k[x] = c}) /\ d[c] = 0
        BY <3>3, <4>1
      <4> HIDE DEF by, d
      <4> QED BY <3>1, <4>2
    <3> QED BY <3>2, <3>3
  <2>6. Sigma(d, C) = g[z]
    <3>1. Adding(d, C) /\ \A c \in C \ {k[z]} : d[c] = 0
      BY <2>1 DEF Adding
    <3>2. d[k[z]] = g[z]
      BY <2>1
    <3> HIDE DEF d
    <3>3. Sigma(d, C) = d[k[z]] + Sigma(d, C \ {k[z]})
      BY <2>1, <3>1, SigmaTake
    <3>4. Sigma(d, C \ {k[z]}) = 0
      BY <3>1, FS_Subset, SigmaZero DEF Adding
    <3> QED BY <2>1, <3>2, <3>3, <3>4
  <2>7. Adding(d, C) /\ Adding(by(u), C)
    <3> HIDE DEF d, by
    <3> QED BY <2>5 DEF Adding
  <2>8. Sigma(by(s), C) = Sigma(d, C) + Sigma(by(u), C)
    <3> DEFINE a == by(s)
               b == by(u)
    <3>1. Adding(d, C) /\ Adding(b, C) /\ \A c \in C : a[c] = d[c] + b[c]
      BY <2>5, <2>7
    <3> HIDE DEF a, b, d
    <3>2. Sigma(a, C) = Sigma(d, C) + Sigma(b, C)
      BY <3>1, SigmaPlus
    <3> QED BY <3>2 DEF a, b
  <2> HIDE DEF d, by, u
  <2> QED BY <1>1, <2>2, <2>4, <2>6, <2>8
<1> QED BY <1>2, <1>3

\* Rows and columns of a table may be added up in either order.
LEMMA SigmaSwap ==
  ASSUME NEW I, NEW J, IsFiniteSet(I), IsFiniteSet(J), NEW m, \A i \in I, j \in J : m[i][j] \in Int
  PROVE  Sigma([i \in I |-> Sigma([j \in J |-> m[i][j]], J)], I) =
         Sigma([j \in J |-> Sigma([i \in I |-> m[i][j]], I)], J)
<1> DEFINE row == [i \in I |-> Sigma([j \in J |-> m[i][j]], J)]
           column(s) == [j \in J |-> Sigma([i \in I |-> m[i][j]], s)]
           Bad == {s \in SUBSET I : Sigma(row, s) # Sigma(column(s), J)}
<1> SUFFICES ASSUME Bad # {} PROVE FALSE
  OBVIOUS
<1>1. PICK s \in Bad : \A t \in Bad : t \subseteq s => t = s
  <2>1. Bad \in SUBSET (SUBSET I) /\ IsFiniteSet(I)
    OBVIOUS
  <2> HIDE DEF Bad, row, column
  <2> QED BY <2>1, Smallest
<1>2. /\ \A i \in I : Adding([j \in J |-> m[i][j]], J)
      /\ \A j \in J : \A t \in SUBSET I : Adding([i \in I |-> m[i][j]], t)
  BY FS_Subset DEF Adding
<1>3. \A i \in I : row[i] \in Int
  BY <1>2, SigmaInt
<1>4. CASE s = {}
  <2>1. \A j \in J : column(s)[j] = 0
    BY <1>4, SigmaEmpty
  <2> HIDE DEF column, row
  <2>2. Sigma(column(s), J) = 0 /\ Sigma(row, s) = 0
    BY <1>4, <2>1, SigmaZero, SigmaEmpty
  <2> QED BY <1>1, <2>2
<1>5. CASE s # {}
  <2> DEFINE z == Pick(s)
             u == s \ {z}
             last == [j \in J |-> m[z][j]]
  <2>1. z \in s /\ z \in I /\ u \in SUBSET I
    BY <1>5, PickIn
  <2>2. Sigma(row, u) = Sigma(column(u), J)
    <3>1. u \notin Bad
      BY <1>1, <2>1
    <3> HIDE DEF row, column
    <3> QED BY <2>1, <3>1
  <2> HIDE DEF z
  <2>3. Sigma(row, s) = row[z] + Sigma(row, u)
    <3>1. Adding(row, s)
      BY <1>3, FS_Subset DEF Adding
    <3> HIDE DEF row, column
    <3>2. \A x \in s : Sigma(row, s) = row[x] + Sigma(row, s \ {x})
      <4> HIDE DEF Bad
      <4> QED BY <3>1, SigmaTake
    <3> QED BY <2>1, <3>2
  <2>4. ASSUME NEW j \in J PROVE column(s)[j] = last[j] + column(u)[j] /\ column(u)[j] \in Int /\ last[j] \in Int
    <3> DEFINE c == [i \in I |-> m[i][j]]
    <3>1. Adding(c, s) /\ Adding(c, u) /\ c[z] = last[j] /\ last[j] \in Int
      BY <1>2, <2>1
    <3>2. column(s)[j] = Sigma(c, s) /\ column(u)[j] = Sigma(c, u)
      OBVIOUS
    <3> HIDE DEF c, column, last
    <3>3. Sigma(c, s) = c[z] + Sigma(c, u) /\ Sigma(c, u) \in Int
      <4>1. \A x \in s : Sigma(c, s) = c[x] + Sigma(c, s \ {x})
        <5> HIDE DEF Bad, u
        <5> QED BY <3>1, SigmaTake
      <4>2. Sigma(c, u) \in Int
        <5> HIDE DEF Bad, u
        <5> QED BY <3>1, SigmaInt
      <4> QED BY <2>1, <4>1, <4>2
    <3> QED BY <3>1, <3>2, <3>3
  <2>5. Sigma(last, J) = row[z]
    BY <2>1
  <2>6. Sigma(column(s), J) = Sigma(last, J) + Sigma(column(u), J)
    <3>1. Adding(last, J) /\ Adding(column(u), J)
      <4> HIDE DEF last, column
      <4> QED BY <2>4 DEF Adding
    <3> DEFINE a == column(s)
               b == column(u)
    <3>2. Adding(last, J) /\ Adding(b, J) /\ \A j \in J : a[j] = last[j] + b[j]
      BY <2>4, <3>1
    <3> HIDE DEF a, b, last, Bad
    <3>3. Sigma(a, J) = Sigma(last, J) + Sigma(b, J)
      BY <3>2, SigmaPlus
    <3> QED BY <3>3 DEF a, b
  <2> HIDE DEF column, row, last, u
  <2> QED BY <1>1, <2>2, <2>3, <2>5, <2>6
<1> QED BY <1>4, <1>5

\* The image of a finite set is finite.
LEMMA ImageFinite ==
  ASSUME NEW S, IsFiniteSet(S), NEW k
  PROVE  IsFiniteSet({k[x] : x \in S})
<1> DEFINE Bad == {s \in SUBSET S : ~IsFiniteSet({k[x] : x \in s})}
<1> SUFFICES ASSUME Bad # {} PROVE FALSE
  OBVIOUS
<1>1. PICK s \in Bad : \A t \in Bad : t \subseteq s => t = s
  <2>1. Bad \in SUBSET (SUBSET S)
    OBVIOUS
  <2> HIDE DEF Bad
  <2> QED BY <2>1, Smallest
<1>2. CASE s = {}
  <2>1. {k[x] : x \in s} = {}
    BY <1>2
  <2> QED BY <1>1, <2>1, FS_EmptySet
<1>3. CASE s # {}
  <2> DEFINE z == Pick(s)
             u == s \ {z}
  <2>1. z \in s /\ u \in SUBSET S
    BY <1>3, PickIn
  <2>2. u \notin Bad
    BY <1>1, <2>1
  <2>3. {k[x] : x \in s} = {k[x] : x \in u} \cup {k[z]}
    BY <2>1
  <2>4. IsFiniteSet({k[x] : x \in u})
    BY <2>1, <2>2
  <2>5. IsFiniteSet({k[x] : x \in u} \cup {k[z]})
    <3> DEFINE T == {k[x] : x \in u}
    <3> HIDE DEF T, u, z
    <3> QED BY <2>4, FS_AddElement DEF T
  <2> QED BY <1>1, <2>3, <2>5
<1> QED BY <1>2, <1>3

\* A sum over an image, where no two elements have one image.
LEMMA SigmaImage ==
  ASSUME NEW g, NEW S, IsFiniteSet(S), NEW k, \A x, y \in S : k[x] = k[y] => x = y,
         NEW h, \A x \in S : h[x] = g[k[x]] /\ h[x] \in Int
  PROVE  Sigma(g, {k[x] : x \in S}) = Sigma(h, S)
<1> DEFINE Y == {k[x] : x \in S}
           of(y) == {x \in S : k[x] = y}
<1>1. IsFiniteSet(Y)
  BY ImageFinite
<1>2. Adding(h, S) /\ \A x \in S : k[x] \in Y
  BY DEF Adding
<1>3. ASSUME NEW y \in Y PROVE g[y] = Sigma(h, of(y)) /\ g[y] \in Int
  <2>1. PICK x \in S : k[x] = y
    OBVIOUS
  <2>2. of(y) = {x}
    BY <2>1
  <2>3. Adding(h, {x})
    BY <2>1, FS_Singleton DEF Adding
  <2>4. Sigma(h, {x}) = h[x] + Sigma(h, {x} \ {x})
    BY <2>3, SigmaTake
  <2>5. Sigma(h, {x} \ {x}) = 0
    <3>1. {x} \ {x} = {}
      OBVIOUS
    <3> QED BY <3>1, SigmaEmpty
  <2>6. Sigma(h, {x}) = h[x]
    BY <2>1, <2>4, <2>5
  <2> QED BY <2>1, <2>2, <2>6
<1> HIDE DEF Y
<1>4. Sigma(h, S) = Sigma([y \in Y |-> Sigma(h, of(y))], Y)
  BY <1>1, <1>2, SigmaGroups
<1>5. Sigma(g, Y) = Sigma([y \in Y |-> Sigma(h, of(y))], Y)
  <2> DEFINE s == [y \in Y |-> Sigma(h, of(y))]
  <2>1. Adding(g, Y) /\ \A y \in Y : g[y] = s[y]
    BY <1>1, <1>3 DEF Adding
  <2> HIDE DEF s
  <2>2. Sigma(g, Y) = Sigma(s, Y)
    BY <2>1, SigmaSame
  <2> QED BY <2>2 DEF s
<1> QED BY <1>4, <1>5 DEF Y

LEMMA SigmaPositive ==
  ASSUME NEW g, NEW S, IsFiniteSet(S), \A x \in S : g[x] \in Int /\ g[x] > 0, S # {}
  PROVE  Sigma(g, S) \in Int /\ Sigma(g, S) > 0
<1> DEFINE Bad == {s \in SUBSET S : s # {} /\ ~(Sigma(g, s) > 0)}
<1>0. ASSUME NEW s \in SUBSET S PROVE Adding(g, s)
  BY FS_Subset DEF Adding
<1>1. Bad = {}
  <2> SUFFICES ASSUME Bad # {} PROVE FALSE
    OBVIOUS
  <2>1. PICK s \in Bad : \A t \in Bad : t \subseteq s => t = s
    <3>1. Bad \in SUBSET (SUBSET S)
      OBVIOUS
    <3> HIDE DEF Bad
    <3> QED BY <3>1, Smallest
  <2> DEFINE z == Pick(s)
             u == s \ {z}
  <2>2. z \in s /\ u \in SUBSET S
    BY <2>1, PickIn
  <2>3. Sigma(g, s) = g[z] + Sigma(g, u) /\ Sigma(g, u) \in Int
    BY <1>0, <2>1, <2>2, SigmaTake, SigmaInt
  <2>4. g[z] \in Int /\ g[z] > 0
    BY <2>1, <2>2
  <2>5. CASE u = {}
    <3>1. Sigma(g, u) = 0
      BY <2>5, SigmaEmpty
    <3> QED BY <2>1, <2>3, <2>4, <3>1
  <2>6. CASE u # {}
    <3>1. u \notin Bad
      BY <2>1, <2>2
    <3>2. Sigma(g, u) > 0
      BY <2>2, <2>6, <3>1
    <3> QED BY <2>1, <2>3, <2>4, <3>2
  <2> QED BY <2>5, <2>6
<1>2. Sigma(g, S) > 0
  BY <1>1
<1> QED BY <1>0, <1>2, SigmaInt

-----------------------------------------------------------------------------
(* The sums of the model are such sums.                                     *)

gross == [l \in LineT |-> Gross(l)]
qty == [l \in LineT |-> l.qty]
amount == [l \in LineT |-> l.amount]

LEMMA GrossIsSigma == ASSUME NEW S \in SUBSET LineT PROVE GrossOf(S) = Sigma(gross, S)
<1>1. ASSUME NEW f
      PROVE  f = [s \in SUBSET S |-> IF s = {} THEN 0 ELSE Gross(Pick(s)) + f[s \ {Pick(s)}]]
             <=> Adds(f, gross, S)
  BY PickIn DEF Adds, gross
<1>2. (CHOOSE f : f = [s \in SUBSET S |-> IF s = {} THEN 0 ELSE Gross(Pick(s)) + f[s \ {Pick(s)}]])
      = CHOOSE f : Adds(f, gross, S)
  BY <1>1
<1> QED BY <1>2 DEF GrossOf, MapThenSumSet, MapThenFoldSet, Pick, Sigma

LEMMA QtyIsSigma == ASSUME NEW S \in SUBSET LineT PROVE QtyOf(S) = Sigma(qty, S)
<1>1. ASSUME NEW f
      PROVE  f = [s \in SUBSET S |-> IF s = {} THEN 0 ELSE Pick(s).qty + f[s \ {Pick(s)}]]
             <=> Adds(f, qty, S)
  BY PickIn DEF Adds, qty
<1>2. (CHOOSE f : f = [s \in SUBSET S |-> IF s = {} THEN 0 ELSE Pick(s).qty + f[s \ {Pick(s)}]])
      = CHOOSE f : Adds(f, qty, S)
  BY <1>1
<1> QED BY <1>2 DEF QtyOf, MapThenSumSet, MapThenFoldSet, Pick, Sigma

LEMMA AmountIsSigma == ASSUME NEW S \in SUBSET LineT PROVE AmountOf(S) = Sigma(amount, S)
<1>1. ASSUME NEW f
      PROVE  f = [s \in SUBSET S |-> IF s = {} THEN 0 ELSE Pick(s).amount + f[s \ {Pick(s)}]]
             <=> Adds(f, amount, S)
  BY PickIn DEF Adds, amount
<1>2. (CHOOSE f : f = [s \in SUBSET S |-> IF s = {} THEN 0 ELSE Pick(s).amount + f[s \ {Pick(s)}]])
      = CHOOSE f : Adds(f, amount, S)
  BY <1>1
<1> QED BY <1>2 DEF AmountOf, MapThenSumSet, MapThenFoldSet, Pick, Sigma

LEMMA LinesAdd ==
  ASSUME NEW S \in SUBSET LineT, IsFiniteSet(S)
  PROVE  Adding(gross, S) /\ Adding(qty, S) /\ Adding(amount, S)
<1>1. ASSUME NEW l \in S PROVE Gross(l) \in Int /\ l.qty \in Int /\ l.amount \in Int
  <2>1. l.amount \in Int /\ l.qty \in Int /\ l.vat \in Int \cup {None} /\ l.inv \in Invoices
    BY DEF LineT
  <2>2. RateOf[l.inv] \in Nat \cup {None}
    BY <2>1, FiguresAssumption
  <2>3. ASSUME NEW a \in Int, NEW r \in Int PROVE (a * r) \div 100 \in Int
    OBVIOUS
  <2> QED BY <2>1, <2>2, <2>3 DEF Gross
<1> QED BY <1>1 DEF Adding, gross, qty, amount

LEMMA SumsAreInt ==
  ASSUME NEW S \in SUBSET LineT, IsFiniteSet(S)
  PROVE  GrossOf(S) \in Int /\ QtyOf(S) \in Int /\ AmountOf(S) \in Int
BY LinesAdd, SigmaInt, GrossIsSigma, QtyIsSigma, AmountIsSigma

-----------------------------------------------------------------------------
(* The portions of a pool make up the pool.                                 *)

LEMMA Division ==
  ASSUME NEW w \in Int, w > 0, NEW x \in Int
  PROVE  /\ x % w = 0 => w * (x \div w) = x
         /\ \A y \in Int : x = w * y => x % w = 0 /\ x \div w = y
         /\ x \div w \in Int
OBVIOUS

LEMMA Quotient ==
  ASSUME NEW x \in Int, NEW d \in Int, d > 0
  PROVE  /\ x \div d \in Int /\ (x >= 0 => x \div d >= 0)
         /\ d * (x \div d) <= x /\ x <= d * (x \div d) + d - 1
         /\ \A k \in Int : d * k <= x /\ x <= d * k + d - 1 => x \div d = k
<1> DEFINE q == x \div d
           r == x % d
<1>1. q \in Int /\ r \in Int /\ x = d * q + r /\ 0 <= r /\ r <= d - 1 /\ (x >= 0 => q >= 0)
  OBVIOUS
<1>2. ASSUME NEW k \in Int, d * k <= x, x <= d * k + d - 1 PROVE q = k
  <2> DEFINE e == k - q
             p == d * e
  <2>1. e \in Int /\ p \in Int /\ p = d * k - d * q
    BY <1>1
  <2>2. p <= r /\ p >= r - (d - 1)
    <3> HIDE DEF q, r, p, e
    <3>1. d * k \in Int /\ d * q \in Int
      BY <1>1
    <3> DEFINE a == d * k
               b == d * q
    <3> HIDE DEF a, b
    <3>2. a \in Int /\ b \in Int /\ a <= x /\ x <= a + d - 1 /\ x = b + r /\ p = a - b
      BY <1>1, <1>2, <2>1, <3>1 DEF a, b
    <3> QED BY <1>1, <2>1, <3>2
  <2>3. p < d /\ p > -d
    <3> HIDE DEF q, r, p, e
    <3> QED BY <1>1, <2>1, <2>2
  <2>4. ~(e >= 1) /\ ~(e <= -1)
    <3> HIDE DEF q, r
    <3> QED BY <1>1, <2>1, <2>3
  <2> QED BY <1>1, <2>1, <2>4
<1> HIDE DEF q, r
<1> QED BY <1>1, <1>2 DEF q

\* How much of the basis falls on a class.
Weight(rows) == IF Cardinality(DimsOf(rows)) <= 1 THEN qty ELSE amount

LEMMA BasisIsSigma ==
  ASSUME NEW rows, NEW part \in SUBSET LineT, IsFiniteSet(part)
  PROVE  Basis(rows, part) = Sigma(Weight(rows), part) /\ Adding(Weight(rows), part) /\ Basis(rows, part) \in Int
BY QtyIsSigma, AmountIsSigma, LinesAdd, SigmaInt DEF Basis, Weight

\* The basis of an invoice is the sum of what falls on its classes.
LEMMA BasisByClass ==
  ASSUME NEW rows \in SUBSET LineT, IsFiniteSet(rows), NEW C, IsFiniteSet(C), ClassesOf(rows) \subseteq C
  PROVE  /\ Basis(rows, rows) = Sigma([c \in C |-> Basis(rows, Of(rows, c))], C)
         /\ \A c \in C : Basis(rows, Of(rows, c)) \in Int
         /\ \A c \in C \ ClassesOf(rows) : Basis(rows, Of(rows, c)) = 0
<1> DEFINE w == Weight(rows)
           k == [l \in rows |-> l.class]
<1>1. \A c \in C : Of(rows, c) = {l \in rows : k[l] = c} /\ Of(rows, c) \in SUBSET LineT
                   /\ IsFiniteSet(Of(rows, c))
  BY FS_Subset DEF Of
<1>2. \A l \in rows : k[l] \in C
  BY DEF ClassesOf
<1>3. Adding(w, rows) /\ Basis(rows, rows) = Sigma(w, rows)
  BY BasisIsSigma
<1>4. \A c \in C : Basis(rows, Of(rows, c)) = Sigma(w, {l \in rows : k[l] = c})
                   /\ Basis(rows, Of(rows, c)) \in Int
  BY <1>1, BasisIsSigma
<1>5. Sigma(w, rows) = Sigma([c \in C |-> Sigma(w, {l \in rows : k[l] = c})], C)
  <2> HIDE DEF w, k
  <2> QED BY <1>2, <1>3, SigmaGroups
<1>6. [c \in C |-> Sigma(w, {l \in rows : k[l] = c})] = [c \in C |-> Basis(rows, Of(rows, c))]
  BY <1>4
<1>7. \A c \in C \ ClassesOf(rows) : {l \in rows : k[l] = c} = {}
  BY DEF ClassesOf
<1> HIDE DEF w, k
<1> QED BY <1>3, <1>4, <1>5, <1>6, <1>7, SigmaEmpty

\* The portions of the classes make up the pool, where there is something to divide by:
\* times the whole basis they are the pool times the bases of the classes.
LEMMA PortionsMakeUp ==
  ASSUME NEW rows \in SUBSET LineT, IsFiniteSet(rows), NEW C, IsFiniteSet(C), ClassesOf(rows) \subseteq C,
         NEW pool \in Int,
         \A c \in ClassesOf(rows) : Basis(rows, rows) > 0
            => (pool * Basis(rows, Of(rows, c))) % Basis(rows, rows) = 0
  PROVE  /\ Sigma([c \in C |-> Portion(pool, rows, c)], C) = IF Basis(rows, rows) > 0 THEN pool ELSE 0
         /\ \A c \in C : Portion(pool, rows, c) \in Int
         /\ \A c \in C \ ClassesOf(rows) : Portion(pool, rows, c) = 0
<1> DEFINE w == Basis(rows, rows)
           b == [c \in C |-> Basis(rows, Of(rows, c))]
           p == [c \in C |-> Portion(pool, rows, c)]
<1>1. w = Sigma(b, C) /\ Adding(b, C) /\ w \in Int
  BY BasisByClass, BasisIsSigma DEF Adding
<1>2. \A c \in C : b[c] = Basis(rows, Of(rows, c)) /\ b[c] \in Int /\ (c \notin ClassesOf(rows) => b[c] = 0)
  BY BasisByClass
<1>3. \A c \in C : p[c] = IF w <= 0 THEN 0 ELSE (pool * b[c]) \div w
  BY DEF Portion
<1>4. CASE w <= 0
  <2>1. \A c \in C : p[c] = 0 /\ Portion(pool, rows, c) = 0
    BY <1>3, <1>4
  <2>2. Sigma(p, C) = 0
    <3> HIDE DEF p
    <3> QED BY <2>1, SigmaZero
  <2> QED BY <1>1, <1>4, <2>1, <2>2
<1>5. CASE w > 0
  <2>1. ASSUME NEW c \in C PROVE p[c] \in Int /\ w * p[c] = pool * b[c] /\ (c \notin ClassesOf(rows) => p[c] = 0)
    <3>1. p[c] = (pool * b[c]) \div w /\ b[c] \in Int /\ pool * b[c] \in Int
      BY <1>1, <1>2, <1>3, <1>5
    <3>2. CASE c \in ClassesOf(rows)
      <4>1. (pool * b[c]) % w = 0
        BY <1>2, <1>5, <3>2
      <4> HIDE DEF p, b, w
      <4> QED BY <1>1, <1>5, <3>1, <3>2, <4>1, Division
    <3>3. CASE c \notin ClassesOf(rows)
      <4>1. b[c] = 0
        BY <1>2, <3>3
      <4> HIDE DEF p, b, w
      <4>2. pool * b[c] = 0 /\ 0 = w * 0
        BY <1>1, <4>1
      <4>3. p[c] = 0
        BY <1>1, <1>5, <3>1, <4>2, Division
      <4> QED BY <1>1, <4>2, <4>3
    <3> QED BY <3>2, <3>3
  <2> DEFINE q == [c \in C |-> pool * b[c]]
  <2>2. Adding(p, C) /\ \A c \in C : q[c] = pool * b[c] /\ q[c] = w * p[c]
    <3> HIDE DEF p, b, w
    <3> QED BY <2>1 DEF Adding
  <2>3. Sigma(q, C) = pool * Sigma(b, C) /\ Sigma(q, C) = w * Sigma(p, C) /\ Sigma(p, C) \in Int
    <3> HIDE DEF p, b, w, q
    <3> QED BY <1>1, <2>2, SigmaTimes, SigmaInt
  <2>4. Sigma(p, C) = pool
    <3> DEFINE s == Sigma(p, C)
    <3>1. w * s = pool * w /\ s \in Int
      BY <1>1, <2>3
    <3> HIDE DEF s, w
    <3>2. w * s = w * pool
      BY <1>1, <3>1
    <3>3. \A x, y, z \in Int : x > 0 /\ x * y = x * z => y = z
      OBVIOUS
    <3>4. s = pool
      BY <1>1, <1>5, <3>1, <3>2, <3>3
    <3> QED BY <3>4 DEF s
  <2>5. \A c \in C : Portion(pool, rows, c) \in Int /\ (c \notin ClassesOf(rows) => Portion(pool, rows, c) = 0)
    <3>1. \A c \in C : Portion(pool, rows, c) = p[c]
      OBVIOUS
    <3> HIDE DEF p
    <3> QED BY <2>1, <3>1
  <2> HIDE DEF p, b
  <2> QED BY <1>5, <2>4, <2>5 DEF p
<1> QED BY <1>1, <1>4, <1>5

\* What divides every line of a pool divides the pool.
LEMMA PoolDivides ==
  ASSUME NEW pool \in SUBSET LineT, IsFiniteSet(pool), NEW w \in Int, w > 0, NEW b \in Int,
         \A l \in pool : (Gross(l) * b) % w = 0
  PROVE  (GrossOf(pool) * b) % w = 0
<1> DEFINE h == [l \in pool |-> (Gross(l) * b) \div w]
           q == [l \in pool |-> b * gross[l]]
<1>1. Adding(gross, pool) /\ GrossOf(pool) = Sigma(gross, pool) /\ \A l \in pool : gross[l] = Gross(l)
  BY LinesAdd, GrossIsSigma DEF gross
<1>2. \A l \in pool : gross[l] \in Int
  BY <1>1 DEF Adding
<1>3. ASSUME NEW l \in pool PROVE h[l] \in Int /\ q[l] = b * gross[l] /\ q[l] = w * h[l]
  <2>1. Gross(l) = gross[l] /\ gross[l] \in Int /\ (Gross(l) * b) % w = 0
    BY <1>1, <1>2
  <2>2. h[l] = (gross[l] * b) \div w /\ q[l] = b * gross[l] /\ gross[l] * b \in Int
        /\ gross[l] * b = b * gross[l]
    BY <2>1
  <2> HIDE DEF h, q
  <2> QED BY <2>1, <2>2, Division
<1>4. Adding(h, pool)
  <2> HIDE DEF h, q
  <2> QED BY <1>1, <1>3 DEF Adding
<1>5. Sigma(q, pool) = b * Sigma(gross, pool) /\ Sigma(q, pool) = w * Sigma(h, pool) /\ Sigma(h, pool) \in Int
      /\ Sigma(gross, pool) \in Int
  <2> HIDE DEF h, q
  <2> QED BY <1>1, <1>3, <1>4, SigmaTimes, SigmaInt
<1>6. GrossOf(pool) * b = w * Sigma(h, pool) /\ GrossOf(pool) * b \in Int
  <2> HIDE DEF h, q
  <2> QED BY <1>1, <1>5
<1> HIDE DEF h, q
<1> QED BY <1>5, <1>6, Division

-----------------------------------------------------------------------------
(* Conservation.                                                            *)

LEMMA TypesFinite == IsFiniteSet(Types)
BY FiguresAssumption, FS_AddElement DEF Types

\* The rows that share the cost of an invoice and what they share.
RowsT(d) ==
  /\ d.base \in SUBSET LineT /\ d.delivery \in SUBSET LineT /\ d.additive \in SUBSET LineT
  /\ IsFiniteSet(d.base) /\ IsFiniteSet(d.delivery) /\ IsFiniteSet(d.additive)
  /\ \A l \in d.base : l.class \in Classes

\* No portion is rounded.
Divides(d) ==
  \A i \in Invoices : \A rows \in SUBSET In(d.base, i) : \A c \in ClassesOf(rows) :
    \A pool \in SUBSET In(d.delivery \cup d.additive, i) :
      Basis(rows, rows) > 0 => (GrossOf(pool) * Basis(rows, Of(rows, c))) % Basis(rows, rows) = 0

share(d, c) == [i \in Invoices |-> DeliveryShare(d.base, d.delivery, i, c) + AdditiveShare(d.base, d.additive, i, c)]

LEMMA SharedIsSigma ==
  ASSUME NEW d, d.base \in SUBSET LineT, NEW c
  PROVE  Shared(d, c) = Sigma(share(d, c), InvoicesOf(Of(d.base, c)))
<1> DEFINE S == InvoicesOf(Of(d.base, c))
           of(i) == DeliveryShare(d.base, d.delivery, i, c) + AdditiveShare(d.base, d.additive, i, c)
<1>0. S \subseteq Invoices
  BY DEF InvoicesOf, Of, LineT
<1>1. ASSUME NEW f
      PROVE  f = [s \in SUBSET S |-> IF s = {} THEN 0 ELSE of(Pick(s)) + f[s \ {Pick(s)}]]
             <=> Adds(f, share(d, c), S)
  <2> HIDE DEF S
  <2> QED BY <1>0, PickIn DEF Adds, share
<1>2. (CHOOSE f : f = [s \in SUBSET S |-> IF s = {} THEN 0 ELSE of(Pick(s)) + f[s \ {Pick(s)}]])
      = CHOOSE f : Adds(f, share(d, c), S)
  <2> HIDE DEF S, of
  <2> QED BY <1>1
<1> QED BY <1>2 DEF Shared, MapThenSumSet, MapThenFoldSet, Pick, Sigma

LEMMA ClassesAddUp ==
  ASSUME NEW d, NEW C, C = ClassesOf(d.base)
  PROVE  AllShared(d) = Sigma([c \in C |-> Shared(d, c)], C)
<1> DEFINE g == [c \in C |-> Shared(d, c)]
<1>1. ASSUME NEW f
      PROVE  f = [s \in SUBSET C |-> IF s = {} THEN 0 ELSE Shared(d, Pick(s)) + f[s \ {Pick(s)}]]
             <=> Adds(f, g, C)
  BY PickIn DEF Adds
<1>2. (CHOOSE f : f = [s \in SUBSET C |-> IF s = {} THEN 0 ELSE Shared(d, Pick(s)) + f[s \ {Pick(s)}]])
      = CHOOSE f : Adds(f, g, C)
  <2> HIDE DEF g
  <2> QED BY <1>1
<1> QED BY <1>2 DEF AllShared, MapThenSumSet, MapThenFoldSet, Pick, Sigma

LEMMA InvoicesAddUp ==
  ASSUME NEW d, NEW I, I = InvoicesOf(d.base)
  PROVE  AllCharged(d) = Sigma([i \in I |-> Charged(d, i)], I)
<1> DEFINE g == [i \in I |-> Charged(d, i)]
<1>1. ASSUME NEW f
      PROVE  f = [s \in SUBSET I |-> IF s = {} THEN 0 ELSE Charged(d, Pick(s)) + f[s \ {Pick(s)}]]
             <=> Adds(f, g, I)
  BY PickIn DEF Adds
<1>2. (CHOOSE f : f = [s \in SUBSET I |-> IF s = {} THEN 0 ELSE Charged(d, Pick(s)) + f[s \ {Pick(s)}]])
      = CHOOSE f : Adds(f, g, I)
  <2> HIDE DEF g
  <2> QED BY <1>1
<1> QED BY <1>2 DEF AllCharged, MapThenSumSet, MapThenFoldSet, Pick, Sigma

ofType(d, i) == [t \in Types |-> Given(OfType(In(d.additive, i), t), OfType(In(d.base, i), t))]

LEMMA TypesAddUp ==
  ASSUME NEW d, NEW i
  PROVE  Charged(d, i) = Given(In(d.delivery, i), In(d.base, i)) + Sigma(ofType(d, i), Types)
<1> DEFINE given(t) == Given(OfType(In(d.additive, i), t), OfType(In(d.base, i), t))
<1>1. ASSUME NEW f
      PROVE  f = [s \in SUBSET Types |-> IF s = {} THEN 0 ELSE given(Pick(s)) + f[s \ {Pick(s)}]]
             <=> Adds(f, ofType(d, i), Types)
  BY PickIn DEF Adds, ofType
<1>2. (CHOOSE f : f = [s \in SUBSET Types |-> IF s = {} THEN 0 ELSE given(Pick(s)) + f[s \ {Pick(s)}]])
      = CHOOSE f : Adds(f, ofType(d, i), Types)
  <2> HIDE DEF given
  <2> QED BY <1>1
<1> QED BY <1>2 DEF Charged, MapThenSumSet, MapThenFoldSet, Pick, Sigma

\* The classes get from an invoice what it was charged.
LEMMA InvoiceConserved ==
  ASSUME NEW d, RowsT(d), Divides(d), NEW i \in Invoices, NEW C, C = ClassesOf(d.base)
  PROVE  /\ IsFiniteSet(C)
         /\ Sigma([c \in C |-> share(d, c)[i]], C) = Charged(d, i)
         /\ \A c \in C : share(d, c)[i] \in Int
         /\ \A c \in C : i \notin InvoicesOf(Of(d.base, c)) => share(d, c)[i] = 0
<1> DEFINE rows == In(d.base, i)
           pool == GrossOf(In(d.delivery, i))
           rowsOf(t) == OfType(rows, t)
           poolOf(t) == GrossOf(OfType(In(d.additive, i), t))
           of(t) == {c \in C : TypeOf[c] = t}
           a == [c \in C |-> AdditiveShare(d.base, d.additive, i, c)]
           b == [c \in C |-> Portion(pool, rows, c)]
<1>1. IsFiniteSet(C) /\ C \subseteq Classes /\ \A c \in C : TypeOf[c] \in Types
  <2> DEFINE k == [l \in d.base |-> l.class]
  <2>1. C = {k[l] : l \in d.base}
    BY DEF ClassesOf
  <2>2. IsFiniteSet({k[l] : l \in d.base})
    <3> HIDE DEF k
    <3> QED BY ImageFinite DEF RowsT
  <2>3. C \subseteq Classes
    BY DEF ClassesOf, RowsT
  <2> QED BY <2>1, <2>2, <2>3, FiguresAssumption
<1>2. /\ rows \in SUBSET LineT /\ IsFiniteSet(rows) /\ ClassesOf(rows) \subseteq C
      /\ In(d.delivery, i) \in SUBSET LineT /\ IsFiniteSet(In(d.delivery, i)) /\ pool \in Int
  <2>1. rows \in SUBSET d.base /\ In(d.delivery, i) \in SUBSET d.delivery
    BY DEF In
  <2>2. IsFiniteSet(rows) /\ IsFiniteSet(In(d.delivery, i)) /\ In(d.delivery, i) \in SUBSET LineT
    BY <2>1, FS_Subset DEF RowsT
  <2> QED BY <2>1, <2>2, SumsAreInt DEF RowsT, ClassesOf
<1>3. ASSUME NEW t \in Types
      PROVE  /\ rowsOf(t) \in SUBSET LineT /\ IsFiniteSet(rowsOf(t)) /\ ClassesOf(rowsOf(t)) \subseteq of(t)
             /\ IsFiniteSet(of(t)) /\ rowsOf(t) \in SUBSET rows
             /\ OfType(In(d.additive, i), t) \in SUBSET LineT /\ IsFiniteSet(OfType(In(d.additive, i), t))
             /\ poolOf(t) \in Int
  <2>1. rowsOf(t) \in SUBSET rows /\ OfType(In(d.additive, i), t) \in SUBSET d.additive /\ of(t) \in SUBSET C
    BY DEF In, OfType
  <2>2. IsFiniteSet(rowsOf(t)) /\ IsFiniteSet(of(t)) /\ IsFiniteSet(OfType(In(d.additive, i), t))
    <3> HIDE DEF rows, rowsOf, of
    <3> QED BY <1>1, <1>2, <2>1, FS_Subset DEF RowsT
  <2>3. OfType(In(d.additive, i), t) \in SUBSET LineT /\ rowsOf(t) \in SUBSET LineT
    BY <1>2, <2>1 DEF RowsT
  <2>4. \A l \in rowsOf(t) : l.class \in C /\ TypeOf[l.class] = t
    BY <1>2 DEF OfType, ClassesOf
  <2>5. ClassesOf(rowsOf(t)) \subseteq of(t)
    BY <2>4 DEF ClassesOf
  <2> QED BY <2>1, <2>2, <2>3, <2>5, SumsAreInt
<1>4. /\ Sigma(b, C) = Given(In(d.delivery, i), rows) /\ \A c \in C : b[c] \in Int
      /\ \A c \in C \ ClassesOf(rows) : b[c] = 0
  <2>1. ASSUME NEW c \in ClassesOf(rows), Basis(rows, rows) > 0
        PROVE  (pool * Basis(rows, Of(rows, c))) % Basis(rows, rows) = 0
    <3>1. In(d.delivery, i) \in SUBSET In(d.delivery \cup d.additive, i)
      BY DEF In
    <3> HIDE DEF rows
    <3> QED BY <2>1, <3>1 DEF Divides, rows
  <2> HIDE DEF pool, rows
  <2>2. /\ Sigma([c \in C |-> Portion(pool, rows, c)], C) = IF Basis(rows, rows) > 0 THEN pool ELSE 0
        /\ \A c \in C : Portion(pool, rows, c) \in Int
        /\ \A c \in C \ ClassesOf(rows) : Portion(pool, rows, c) = 0
    BY <1>1, <1>2, <2>1, PortionsMakeUp
  <2> QED BY <2>2 DEF Given, pool
<1>5. ASSUME NEW t \in Types
      PROVE  /\ Sigma([c \in of(t) |-> Portion(poolOf(t), rowsOf(t), c)], of(t)) = ofType(d, i)[t]
             /\ \A c \in of(t) : Portion(poolOf(t), rowsOf(t), c) \in Int
             /\ \A c \in of(t) \ ClassesOf(rowsOf(t)) : Portion(poolOf(t), rowsOf(t), c) = 0
  <2> DEFINE r == rowsOf(t)
             p == poolOf(t)
             T == of(t)
  <2>1. ASSUME NEW c \in ClassesOf(r), Basis(r, r) > 0
        PROVE  (p * Basis(r, Of(r, c))) % Basis(r, r) = 0
    <3>1. OfType(In(d.additive, i), t) \in SUBSET In(d.delivery \cup d.additive, i) /\ r \in SUBSET In(d.base, i)
      BY DEF In, OfType
    <3> HIDE DEF r
    <3> QED BY <2>1, <3>1 DEF Divides, r
  <2>2. ofType(d, i)[t] = IF Basis(r, r) > 0 THEN p ELSE 0
    BY DEF ofType, Given
  <2>3. r \in SUBSET LineT /\ IsFiniteSet(r) /\ ClassesOf(r) \subseteq T /\ IsFiniteSet(T) /\ p \in Int
    BY <1>3
  <2> HIDE DEF r, p, T
  <2>4. /\ Sigma([c \in T |-> Portion(p, r, c)], T) = IF Basis(r, r) > 0 THEN p ELSE 0
        /\ \A c \in T : Portion(p, r, c) \in Int
        /\ \A c \in T \ ClassesOf(r) : Portion(p, r, c) = 0
    BY <2>1, <2>3, PortionsMakeUp
  <2> QED BY <2>2, <2>4 DEF r, p, T
<1>6. ASSUME NEW t \in Types, NEW c \in of(t)
      PROVE  /\ a[c] = Portion(poolOf(t), rowsOf(t), c) /\ a[c] \in Int
             /\ c \notin ClassesOf(rowsOf(t)) => a[c] = 0
  <2>1. a[c] = Portion(poolOf(t), rowsOf(t), c)
    BY DEF AdditiveShare
  <2> HIDE DEF a, of, rowsOf, poolOf
  <2> QED BY <1>5, <2>1
<1>7. Sigma(a, C) = Sigma(ofType(d, i), Types) /\ Adding(a, C)
  <2>1. Adding(a, C)
    <3>1. \A c \in C : c \in of(TypeOf[c])
      OBVIOUS
    <3> HIDE DEF a, of
    <3> QED BY <1>1, <1>6, <3>1 DEF Adding
  <2>2. ASSUME NEW t \in Types PROVE Sigma(a, of(t)) = ofType(d, i)[t]
    <3> DEFINE h == [c \in of(t) |-> Portion(poolOf(t), rowsOf(t), c)]
               T == of(t)
    <3>1. IsFiniteSet(T) /\ (\A c \in T : a[c] = h[c] /\ a[c] \in Int) /\ Sigma(h, T) = ofType(d, i)[t]
      <4>1. \A c \in T : h[c] = Portion(poolOf(t), rowsOf(t), c)
        OBVIOUS
      <4> HIDE DEF a, of, rowsOf, poolOf
      <4> QED BY <1>3, <1>5, <1>6, <4>1
    <3> HIDE DEF a, h, T
    <3>2. Sigma(a, T) = Sigma(h, T)
      BY <3>1, SigmaSame DEF Adding
    <3> QED BY <3>1, <3>2 DEF T
  <2>3. Sigma(a, C) = Sigma([t \in Types |-> Sigma(a, {c \in C : TypeOf[c] = t})], Types)
    <3> HIDE DEF a
    <3> QED BY <1>1, <2>1, TypesFinite, SigmaGroups
  <2>4. [t \in Types |-> Sigma(a, {c \in C : TypeOf[c] = t})] = ofType(d, i)
    <3> HIDE DEF a
    <3> QED BY <2>2 DEF ofType
  <2> QED BY <2>1, <2>3, <2>4
<1>8. \A c \in C : share(d, c)[i] = b[c] + a[c]
  BY DEF share, DeliveryShare
<1>9. Sigma([c \in C |-> share(d, c)[i]], C) = Sigma(b, C) + Sigma(a, C)
  <2> DEFINE k == [c \in C |-> share(d, c)[i]]
  <2>1. Adding(b, C) /\ \A c \in C : k[c] = b[c] + a[c]
    BY <1>1, <1>4, <1>8 DEF Adding
  <2> HIDE DEF k, a, b
  <2>2. Sigma(k, C) = Sigma(b, C) + Sigma(a, C)
    BY <1>7, <2>1, SigmaPlus
  <2> QED BY <2>2 DEF k
<1>10. ASSUME NEW c \in C PROVE share(d, c)[i] \in Int /\ (i \notin InvoicesOf(Of(d.base, c)) => share(d, c)[i] = 0)
  <2>1. share(d, c)[i] = b[c] + a[c] /\ b[c] \in Int /\ TypeOf[c] \in Types /\ c \in of(TypeOf[c])
    BY <1>1, <1>4, <1>8
  <2>2. a[c] \in Int
    BY <1>6, <2>1
  <2>3. ASSUME i \notin InvoicesOf(Of(d.base, c)) PROVE b[c] = 0 /\ a[c] = 0
    <3>1. c \notin ClassesOf(rows) /\ c \notin ClassesOf(rowsOf(TypeOf[c]))
      BY <2>3 DEF InvoicesOf, Of, ClassesOf, In, OfType
    <3> HIDE DEF a, b, of, rowsOf, rows
    <3> QED BY <1>4, <1>6, <2>1, <3>1
  <2> HIDE DEF a, b
  <2> QED BY <2>1, <2>2, <2>3
<1> HIDE DEF a, b
<1> QED BY <1>1, <1>4, <1>7, <1>9, <1>10, TypesAddUp DEF rows

\* From all invoices, too: a sum over classes of sums over invoices is swapped.
LEMMA Conservation == ASSUME NEW d, RowsT(d), Divides(d) PROVE AllShared(d) = AllCharged(d)
<1> DEFINE C == ClassesOf(d.base)
           I == InvoicesOf(d.base)
           m == [i \in I |-> [c \in C |-> share(d, c)[i]]]
<1>1. I \subseteq Invoices /\ IsFiniteSet(I) /\ IsFiniteSet(C)
  <2> DEFINE k == [l \in d.base |-> l.inv]
             h == [l \in d.base |-> l.class]
  <2>1. I = {k[l] : l \in d.base} /\ C = {h[l] : l \in d.base} /\ I \subseteq Invoices
    BY DEF InvoicesOf, ClassesOf, LineT, RowsT
  <2>2. IsFiniteSet({k[l] : l \in d.base}) /\ IsFiniteSet({h[l] : l \in d.base})
    <3> HIDE DEF k, h
    <3> QED BY ImageFinite DEF RowsT
  <2> QED BY <2>1, <2>2
<1>2. ASSUME NEW i \in I
      PROVE  /\ Sigma([c \in C |-> share(d, c)[i]], C) = Charged(d, i)
             /\ \A c \in C : share(d, c)[i] \in Int
             /\ \A c \in C : i \notin InvoicesOf(Of(d.base, c)) => share(d, c)[i] = 0
  <2>1. i \in Invoices
    BY <1>1
  <2> HIDE DEF I
  <2> QED BY <2>1, InvoiceConserved
<1>3. ASSUME NEW c \in C PROVE Shared(d, c) = Sigma([i \in I |-> m[i][c]], I)
  <2> DEFINE R == InvoicesOf(Of(d.base, c))
             g == [i \in I |-> m[i][c]]
  <2>1. R \in SUBSET I
    BY DEF InvoicesOf, Of
  <2>2. \A i \in I : g[i] = share(d, c)[i]
    OBVIOUS
  <2>3. Adding(g, I) /\ \A i \in I \ R : g[i] = 0
    <3> HIDE DEF g, R, I
    <3> QED BY <1>1, <1>2, <2>2 DEF R, Adding
  <2>4. Adding(g, R)
    <3> HIDE DEF g, R, I
    <3> QED BY <2>1, <2>3, FS_Subset DEF Adding
  <2> HIDE DEF g, R, I, m
  <2>5. Sigma(g, I) = Sigma(g, R)
    BY <2>1, <2>3, SigmaDrop
  <2>6. Sigma(g, R) = Sigma(share(d, c), R)
    BY <2>1, <2>2, <2>4, SigmaSame
  <2>7. Shared(d, c) = Sigma(share(d, c), R)
    BY SharedIsSigma DEF R, RowsT
  <2> QED BY <2>5, <2>6, <2>7 DEF g
<1>4. \A i \in I, c \in C : m[i][c] \in Int
  <2> HIDE DEF I, C
  <2> QED BY <1>2
<1>5. \A i \in I : Charged(d, i) = Sigma([c \in C |-> m[i][c]], C)
  <2>1. \A i \in I : [c \in C |-> m[i][c]] = [c \in C |-> share(d, c)[i]]
    OBVIOUS
  <2> HIDE DEF I, C, m
  <2> QED BY <1>2, <2>1
<1> HIDE DEF C, I, m
<1>6. Sigma([i \in I |-> Sigma([c \in C |-> m[i][c]], C)], I)
      = Sigma([c \in C |-> Sigma([i \in I |-> m[i][c]], I)], C)
  BY <1>1, <1>4, SigmaSwap
<1>7. [i \in I |-> Sigma([c \in C |-> m[i][c]], C)] = [i \in I |-> Charged(d, i)]
      /\ [c \in C |-> Sigma([i \in I |-> m[i][c]], I)] = [c \in C |-> Shared(d, c)]
  BY <1>3, <1>5
<1>8. AllShared(d) = Sigma([c \in C |-> Shared(d, c)], C)
  <2>1. C = ClassesOf(d.base)
    BY DEF C
  <2> QED BY <2>1, ClassesAddUp
<1>9. AllCharged(d) = Sigma([i \in I |-> Charged(d, i)], I)
  <2>1. I = InvoicesOf(d.base)
    BY DEF I
  <2> QED BY <2>1, InvoicesAddUp
<1> QED BY <1>6, <1>7, <1>8, <1>9

-----------------------------------------------------------------------------
(* What the requests leave in the database.                                 *)

\* A class is taken off the lines when it is deleted.
Unclassed(l) == [l EXCEPT !.class = None]
LinesSound == \A l \in lines : \E k \in input.lines : l = k \/ l = Unclassed(k)
RefsSound ==
  /\ refs \subseteq input.prices /\ IsFiniteSet(refs)
  /\ \A r \in refs : TypeOf[r.class] # "other"
  /\ \A r, s \in refs : r.id = s.id => r = s
RulesSound == byClass \in [Classes -> Rules] /\ byType \in [Types -> Rules]
DataSound == input \in Inputs /\ LinesSound /\ RefsSound /\ RulesSound

LEMMA InputFacts ==
  ASSUME DataSound
  PROVE  /\ input.lines \in SUBSET LineT /\ IsFiniteSet(input.lines) /\ Exact(input.lines)
         /\ input.prices \in SUBSET PriceT /\ input.pcts \in SUBSET (0..100)
         /\ \A p, q \in input.prices : p.id = q.id => p.class = q.class /\ p.dim = q.dim
  BY InputsAssumption DEF DataSound, InputT

LEMMA DataStarts == Init => DataSound
BY FS_EmptySet DEF Init, DataSound, LinesSound, RefsSound, RulesSound, Rules

LEMMA DataKept == ASSUME DataSound, [Next]_vars PROVE DataSound'
<1>1. CASE UNCHANGED vars
  BY <1>1 DEF vars, DataSound, LinesSound, RefsSound, RulesSound, Rules
<1>2. CASE Summarise
  BY <1>2 DEF Summarise, Query, QueryExcluded, QueryTotals, QueryDates, QueryCorridors, QueryIds, QueryBase,
     QueryDelivery, QueryAdditive, QueryPrices, QueryTurnover, Answer, data,
     DataSound, LinesSound, RefsSound, RulesSound, Rules
<1>3. CASE Change
  <2>1. ASSUME NEW i \in Invoices, NEW items \in SUBSET In(input.lines, i), NEW j \in Invoices,
               SaveInvoice(i, items) \/ Reparse(j, i, items)
        PROVE  DataSound'
    <3>1. /\ UNCHANGED <<refs, byClass, byType, input>>
          /\ \A l \in lines' : l \in lines \/ l \in input.lines
      BY <2>1 DEF SaveInvoice, Reparse, Write, In
    <3> QED BY <3>1 DEF DataSound, LinesSound, RefsSound, RulesSound, Rules
  <2>2. ASSUME NEW r \in input.prices, CreatePrice(r) PROVE DataSound'
    <3>1. UNCHANGED <<lines, byClass, byType, input>> /\ refs' = refs \cup {r} /\ MayPrice(r)
          /\ \A s \in refs : s.id # r.id
      BY <2>2 DEF CreatePrice, Write
    <3>2. IsFiniteSet(refs')
      BY <3>1, FS_AddElement DEF DataSound, RefsSound
    <3>3. RefsSound'
      BY <3>1, <3>2 DEF DataSound, RefsSound, MayPrice
    <3> QED BY <3>1, <3>3 DEF DataSound, LinesSound, RulesSound, Rules
  <2>3. ASSUME NEW r \in input.prices, DeletePrice(r) PROVE DataSound'
    <3>1. UNCHANGED <<lines, byClass, byType, input>> /\ refs' = refs \ {r}
      BY <2>3 DEF DeletePrice, Write
    <3>2. IsFiniteSet(refs')
      BY <3>1, FS_RemoveElement DEF DataSound, RefsSound
    <3>3. RefsSound'
      BY <3>1, <3>2 DEF DataSound, RefsSound
    <3> QED BY <3>1, <3>3 DEF DataSound, LinesSound, RulesSound, Rules
  <2>4. ASSUME NEW r \in input.prices, NEW new \in input.prices, UpdatePrice(r, new) PROVE DataSound'
    <3>1. /\ UNCHANGED <<lines, byClass, byType, input>> /\ refs' = (refs \ {r}) \cup {new}
          /\ r \in refs /\ new.id = r.id /\ TypeOf[r.class] # "other"
      BY <2>4 DEF UpdatePrice, Write
    <3>2. IsFiniteSet(refs')
      BY <3>1, FS_RemoveElement, FS_AddElement DEF DataSound, RefsSound
    <3>3. new.class = r.class
      BY <3>1, InputFacts
    <3>4. RefsSound'
      BY <3>1, <3>2, <3>3 DEF DataSound, RefsSound
    <3> QED BY <3>1, <3>4 DEF DataSound, LinesSound, RulesSound, Rules
  <2>5. ASSUME NEW rule \in Rules, NEW t \in Types, SetTypeCorridor(t, rule) PROVE DataSound'
    BY <2>5 DEF SetTypeCorridor, Write, DataSound, LinesSound, RefsSound, RulesSound, Rules
  <2>6. ASSUME NEW rule \in Rules, NEW c \in Classes, SetClassCorridor(c, rule) PROVE DataSound'
    BY <2>6 DEF SetClassCorridor, Write, DataSound, LinesSound, RefsSound, RulesSound, Rules
  <2>7. ASSUME NEW c \in Classes, DeleteClass(c) PROVE DataSound'
    <3>1. /\ UNCHANGED <<byType, input>> /\ refs' = {r \in refs : r.class # c}
          /\ lines' = {IF l.class = c THEN Unclassed(l) ELSE l : l \in lines}
          /\ byClass' = [byClass EXCEPT ![c] = None]
      BY <2>7 DEF DeleteClass, Write, Unclassed
    <3>2. IsFiniteSet(refs')
      BY <3>1, FS_Subset DEF DataSound, RefsSound
    <3>3. RefsSound'
      BY <3>1, <3>2 DEF DataSound, RefsSound
    <3>4. RulesSound' /\ input' \in Inputs
      BY <3>1 DEF DataSound, RulesSound, Rules
    <3>5. LinesSound'
      <4> SUFFICES ASSUME NEW l \in lines' PROVE \E k \in input.lines : l = k \/ l = Unclassed(k)
        BY <3>1 DEF LinesSound
      <4>1. PICK o \in lines : l = o \/ l = Unclassed(o)
        BY <3>1
      <4>2. PICK k \in input.lines : o = k \/ o = Unclassed(k)
        BY DEF DataSound, LinesSound
      <4>3. Unclassed(Unclassed(k)) = Unclassed(k)
        <5>1. k \in LineT
          BY InputFacts
        <5> QED BY <5>1 DEF Unclassed, LineT
      <4> QED BY <4>1, <4>2, <4>3
    <3> QED BY <3>3, <3>4, <3>5 DEF DataSound
  <2>8. ASSUME NEW s, Exclude(s) \/ Include(s) PROVE DataSound'
    BY <2>8 DEF Exclude, Include, Write, DataSound, LinesSound, RefsSound, RulesSound, Rules
  <2> QED BY <1>3, <2>1, <2>2, <2>3, <2>4, <2>5, <2>6, <2>7, <2>8 DEF Change
<1> QED BY <1>1, <1>2, <1>3 DEF Next

LEMMA DataInvariance == Spec => []DataSound
BY DataStarts, DataKept, PTL DEF Spec

\* A line of the database was entered as it is, or has only lost its class.
LEMMA LinesAreDrawn ==
  ASSUME DataSound
  PROVE  /\ lines \in SUBSET LineT /\ IsFiniteSet(lines)
         /\ \A l \in lines : \E k \in input.lines :
              /\ l.inv = k.inv /\ l.kind = k.kind /\ l.dim = k.dim /\ Gross(l) = Gross(k)
              /\ l.class # None => l = k
<1> DEFINE un == [k \in input.lines |-> Unclassed(k)]
<1>1. lines \subseteq input.lines \cup {un[k] : k \in input.lines}
  BY DEF DataSound, LinesSound
<1>2. IsFiniteSet(input.lines \cup {un[k] : k \in input.lines})
  <2>1. IsFiniteSet({un[k] : k \in input.lines}) /\ IsFiniteSet(input.lines)
    <3> HIDE DEF un
    <3> QED BY InputFacts, ImageFinite
  <2> DEFINE T == {un[k] : k \in input.lines}
  <2> HIDE DEF T
  <2> QED BY <2>1, FS_Union DEF T
<1>3. IsFiniteSet(lines)
  <2> DEFINE T == input.lines \cup {un[k] : k \in input.lines}
  <2> HIDE DEF T
  <2> QED BY <1>1, <1>2, FS_Subset DEF T
<1>4. ASSUME NEW k \in input.lines
      PROVE  /\ k \in LineT /\ Unclassed(k) \in LineT /\ Unclassed(k).class = None
             /\ Unclassed(k).inv = k.inv /\ Unclassed(k).kind = k.kind /\ Unclassed(k).dim = k.dim
             /\ Gross(Unclassed(k)) = Gross(k)
  <2>1. k \in LineT
    BY InputFacts
  <2>2. /\ Unclassed(k) \in LineT /\ Unclassed(k).class = None
        /\ Unclassed(k).inv = k.inv /\ Unclassed(k).kind = k.kind /\ Unclassed(k).dim = k.dim
        /\ Unclassed(k).amount = k.amount /\ Unclassed(k).vat = k.vat
    BY <2>1 DEF Unclassed, LineT
  <2> QED BY <2>1, <2>2 DEF Gross
<1> QED BY <1>3, <1>4 DEF DataSound, LinesSound

\* No portion of any part of the lines is rounded.
LEMMA PartSound ==
  ASSUME DataSound, NEW ls \in SUBSET lines,
         NEW d, d.base = Base(ls), d.delivery = Delivery(ls), d.additive = Additive(ls)
  PROVE  RowsT(d) /\ Divides(d)
<1>3. Base(ls) \in SUBSET lines /\ Delivery(ls) \in SUBSET lines /\ Additive(ls) \in SUBSET lines
  BY DEF Base, Delivery, Additive, Material
<1>4. RowsT(d)
  <2>1. /\ IsFiniteSet(Base(ls)) /\ IsFiniteSet(Delivery(ls)) /\ IsFiniteSet(Additive(ls))
    BY <1>3, LinesAreDrawn, FS_Subset
  <2>2. \A l \in Base(ls) : l.class \in Classes
    BY <1>3, LinesAreDrawn DEF Base, LineT
  <2> QED BY <1>3, <2>1, <2>2, LinesAreDrawn DEF RowsT
<1>5. Divides(d)
  <2> SUFFICES ASSUME NEW i \in Invoices, NEW rows \in SUBSET In(d.base, i), NEW c \in ClassesOf(rows),
                      NEW pool \in SUBSET In(d.delivery \cup d.additive, i), Basis(rows, rows) > 0
               PROVE  (GrossOf(pool) * Basis(rows, Of(rows, c))) % Basis(rows, rows) = 0
    BY DEF Divides
  <2> DEFINE base == In(Base(input.lines), i)
             pools == {Gross(l) : l \in In(Delivery(input.lines) \cup Additive(input.lines), i)}
  <2>1. rows \in SUBSET base /\ rows \in SUBSET Base(ls)
    <3> SUFFICES ASSUME NEW l \in rows PROVE l \in base /\ l \in Base(ls)
      OBVIOUS
    <3>1. l \in Base(ls) /\ l.inv = i
      BY DEF In
    <3>2. l \in lines /\ l.class # None /\ l.kind = "material" /\ l.dim # None /\ RoleOf[l.class] = "base"
      BY <1>3, <3>1 DEF Base, Material
    <3>3. l \in input.lines
      BY <3>2, LinesAreDrawn
    <3> QED BY <3>1, <3>2, <3>3 DEF Base, Material, In
  <2>2. ASSUME NEW l \in pool PROVE Gross(l) \in pools
    <3>1. l \in Delivery(ls) \cup Additive(ls) /\ l.inv = i /\ l \in lines
      BY <1>3 DEF In
    <3>2. PICK k \in input.lines : /\ l.inv = k.inv /\ l.kind = k.kind /\ Gross(l) = Gross(k)
                                   /\ l.class # None => l = k
      BY <3>1, LinesAreDrawn
    <3>3. k \in Delivery(input.lines) \cup Additive(input.lines)
      BY <3>1, <3>2 DEF Delivery, Additive, Material
    <3> QED BY <3>1, <3>2, <3>3 DEF In
  <2>3. \A p \in pools : (p * Basis(rows, Of(rows, c))) % Basis(rows, rows) = 0
    <3>1. Exact(input.lines)
      BY InputFacts
    <3> QED BY <2>1, <3>1 DEF Exact
  <2>4. /\ pool \in SUBSET LineT /\ IsFiniteSet(pool)
        /\ rows \in SUBSET LineT /\ IsFiniteSet(rows)
        /\ Of(rows, c) \in SUBSET LineT /\ IsFiniteSet(Of(rows, c))
    <3>1. pool \in SUBSET lines /\ rows \in SUBSET lines /\ Of(rows, c) \in SUBSET lines
      BY <1>3, <2>1 DEF In, Of
    <3> QED BY <3>1, LinesAreDrawn, FS_Subset
  <2>5. Basis(rows, rows) \in Int /\ Basis(rows, Of(rows, c)) \in Int
    BY <2>4, BasisIsSigma
  <2>6. \A l \in pool : (Gross(l) * Basis(rows, Of(rows, c))) % Basis(rows, rows) = 0
    BY <2>2, <2>3
  <2> QED BY <2>4, <2>5, <2>6, PoolDivides
<1> QED BY <1>4, <1>5

LEMMA MonthSound ==
  ASSUME DataSound, NEW m, NEW ex
  PROVE  RowsT(MonthData(Db, m, ex)) /\ Divides(MonthData(Db, m, ex))
<1> DEFINE ls == Within(Counted(lines, ex), m)
           d == MonthData(Db, m, ex)
<1>1. d.base = Base(ls) /\ d.delivery = Delivery(ls) /\ d.additive = Additive(ls)
  BY DEF MonthData, Db
<1>2. ls \in SUBSET lines
  BY DEF Within, Counted
<1> HIDE DEF d, ls
<1>3. RowsT(d) /\ Divides(d)
  BY <1>1, <1>2, PartSound
<1> QED BY <1>3 DEF d

\* The allocation neither loses nor invents shared cost: the classes of a month get what
\* its invoices were charged, wherever there is something to divide by
\* (_aggregate_by_class, compute_shared_shares).
THEOREM CostIsShared == Spec => []AllocationConserves
<1>1. DataSound => AllocationConserves
  BY MonthSound, Conservation DEF AllocationConserves
<1> QED BY <1>1, DataInvariance, PTL

-----------------------------------------------------------------------------
(* A row of the report.                                                     *)

LEMMA PortionIsInt ==
  ASSUME NEW pool \in Int, NEW rows \in SUBSET LineT, IsFiniteSet(rows), NEW c
  PROVE  Portion(pool, rows, c) \in Int
<1> DEFINE w == Basis(rows, rows)
           x == Basis(rows, Of(rows, c))
<1>1. Of(rows, c) \in SUBSET LineT /\ IsFiniteSet(Of(rows, c))
  BY FS_Subset DEF Of
<1>2. w \in Int /\ x \in Int
  BY <1>1, SumsAreInt DEF Basis
<1>3. Portion(pool, rows, c) = IF w <= 0 THEN 0 ELSE (pool * x) \div w
  BY DEF Portion
<1> HIDE DEF w, x
<1>4. pool * x \in Int
  BY <1>2
<1>5. w > 0 => (pool * x) \div w \in Int
  <2> DEFINE y == pool * x
  <2> HIDE DEF y
  <2>1. w > 0 => y \div w \in Int
    BY <1>2, <1>4, Division DEF y
  <2> QED BY <2>1 DEF y
<1> QED BY <1>2, <1>3, <1>5

LEMMA SharedIsInt ==
  ASSUME NEW d, RowsT(d), NEW c
  PROVE  Shared(d, c) \in Int
<1> DEFINE R == InvoicesOf(Of(d.base, c))
<1>1. IsFiniteSet(R) /\ R \subseteq Invoices
  <2> DEFINE k == [l \in Of(d.base, c) |-> l.inv]
  <2>1. R = {k[l] : l \in Of(d.base, c)} /\ R \subseteq Invoices /\ IsFiniteSet(Of(d.base, c))
    BY FS_Subset DEF InvoicesOf, Of, LineT, RowsT
  <2> HIDE DEF k
  <2> QED BY <2>1, ImageFinite
<1>2. ASSUME NEW i \in R PROVE share(d, c)[i] \in Int
  <2>1. /\ In(d.delivery, i) \in SUBSET LineT /\ IsFiniteSet(In(d.delivery, i))
        /\ In(d.base, i) \in SUBSET LineT /\ IsFiniteSet(In(d.base, i))
        /\ OfType(In(d.additive, i), TypeOf[c]) \in SUBSET LineT
        /\ IsFiniteSet(OfType(In(d.additive, i), TypeOf[c]))
        /\ OfType(In(d.base, i), TypeOf[c]) \in SUBSET LineT
        /\ IsFiniteSet(OfType(In(d.base, i), TypeOf[c]))
    BY FS_Subset DEF In, OfType, RowsT
  <2>2. DeliveryShare(d.base, d.delivery, i, c) \in Int
    BY <2>1, SumsAreInt, PortionIsInt DEF DeliveryShare
  <2>3. AdditiveShare(d.base, d.additive, i, c) \in Int
    BY <2>1, SumsAreInt, PortionIsInt DEF AdditiveShare
  <2> QED BY <1>1, <2>2, <2>3 DEF share
<1> HIDE DEF R
<1>3. Sigma(share(d, c), R) \in Int
  BY <1>1, <1>2, SigmaInt DEF Adding
<1> QED BY <1>3, SharedIsSigma DEF R, RowsT

\* The order of the prices is total, so one of them is the latest.
Later(r, s) ==
  \/ r.from > s.from
  \/ r.from = s.from /\ r.to > s.to
  \/ r.from = s.from /\ r.to = s.to /\ r.id > s.id

\* Of prices with distinct ids one is the latest.
LEMMA LatestIsOne ==
  ASSUME NEW R \in SUBSET PriceT, IsFiniteSet(R), R # {}, \A r, s \in R : r.id = s.id => r = s
  PROVE  Latest(R) \in R
<1> DEFINE Bad == {S \in SUBSET R : S # {} /\ \A r \in S : \E s \in S \ {r} : ~Later(r, s)}
<1>1. \A r, s \in R : r # s => Later(r, s) \/ Later(s, r)
  BY DEF PriceT, Later
<1>2. \A r, s, t \in R : Later(r, s) /\ Later(s, t) => Later(r, t)
  BY DEF PriceT, Later
<1>3. Bad = {}
  <2> SUFFICES ASSUME Bad # {} PROVE FALSE
    OBVIOUS
  <2>0. Bad \in SUBSET (SUBSET R)
    OBVIOUS
  <2>1. PICK S \in Bad : \A t \in Bad : t \subseteq S => t = S
    <3> HIDE DEF Bad
    <3> QED BY <2>0, Smallest
  <2>2. PICK x \in S : TRUE
    OBVIOUS
  <2>3. S \ {x} # {}
    OBVIOUS
  <2>4. S \ {x} \notin Bad
    <3>1. S \ {x} \subseteq S /\ S \ {x} # S
      BY <2>2
    <3> HIDE DEF Bad
    <3> QED BY <2>1, <3>1
  <2>5. PICK r \in S \ {x} : \A s \in (S \ {x}) \ {r} : Later(r, s)
    BY <2>3, <2>4
  <2>6. ~Later(r, x)
    BY <2>1, <2>5
  <2>7. Later(x, r)
    BY <1>1, <2>2, <2>5, <2>6
  <2>8. \A s \in S \ {x} : Later(x, s)
    BY <1>2, <2>2, <2>5, <2>7
  <2> QED BY <2>1, <2>2, <2>8
<1>4. \E r \in R : \A s \in R \ {r} : Later(r, s)
  BY <1>3
<1> HIDE DEF Bad
<1> QED BY <1>4 DEF Latest, Later

\* money_round is off by half a kopeck at most and keeps the sign.
LEMMA Rounded ==
  ASSUME NEW n \in Int, NEW m \in Int, m > 0
  PROVE  /\ RoundDiv(n, m) \in Int
         /\ n >= 0 => RoundDiv(n, m) >= 0
         /\ n <= 0 => RoundDiv(n, m) <= 0
         /\ 2 * n - m <= 2 * (m * RoundDiv(n, m)) /\ 2 * (m * RoundDiv(n, m)) <= 2 * n + m
<1> DEFINE a == Abs(n)
           w == 2 * m
           x == 2 * a + m
           r == x \div w
<1>1. a \in Nat /\ (n < 0 => a = -n) /\ (n >= 0 => a = n) /\ w \in Int /\ w > 0 /\ x \in Nat
  BY DEF Abs
<1>2. RoundDiv(n, m) = IF n < 0 THEN -r ELSE r
  BY DEF RoundDiv
<1>3. r \in Int /\ w * r <= x /\ x <= w * r + w - 1 /\ r >= 0
  <2> HIDE DEF a, w, x
  <2> QED BY <1>1, Quotient
<1>4. w = 2 * m /\ x = 2 * a + m
  OBVIOUS
<1>5. n = 0 => r = 0
  <2>1. n = 0 => a = 0
    BY <1>1
  <2>2. n = 0 => w * 0 <= x /\ x <= w * 0 + w - 1
    BY <1>1, <1>4, <2>1
  <2> HIDE DEF a, w, x
  <2> QED BY <1>1, <2>2, Quotient
<1> DEFINE mr == m * r
<1>6. mr \in Int /\ w * r = 2 * mr /\ m * (-r) = -mr
  <2> HIDE DEF a, x, r
  <2> QED BY <1>3
<1> HIDE DEF a, w, x, r
<1>7. m * RoundDiv(n, m) = IF n < 0 THEN -mr ELSE mr
  BY <1>2, <1>6
<1> HIDE DEF mr
<1> QED BY <1>1, <1>2, <1>3, <1>4, <1>5, <1>6, <1>7

\* The bounds of a compensation per unit, from the distance of its price to the corridor.
LEMMA PerUnitBounded ==
  ASSUME NEW total \in Int, NEW q \in Int, q > 0, NEW price \in Nat, NEW pct \in 0..100,
         NEW e, e = Excess(total, q, price), NEW unit, unit = PerUnit(total, q, price, pct)
  PROVE  /\ unit \in Int /\ e \in Int
         /\ unit > 0 => e > 0
         /\ unit < 0 => e < 0
         /\ 2 * (PriceScale * Abs(unit * q)) <= 2 * Abs(e) + PriceScale * q
<1> DEFINE S == Scale
           P == PriceScale
           pq == price * q
           slack == pct * pq
           upper == 100 * total * S - price * (100 + pct) * q
           lower == 100 * total * S - price * (100 - pct) * q
           m == 100 * P * q
<1>1. P \in Int /\ P > 0 /\ S \in Int
  BY FiguresAssumption DEF Scale
<1>2. pq \in Nat /\ slack \in Nat
  OBVIOUS
<1>3. e = total * S - pq /\ e \in Int
  BY <1>1 DEF Excess
<1>4. unit = IF upper > 0 THEN RoundDiv(upper, m) ELSE IF lower < 0 THEN RoundDiv(lower, m) ELSE 0
  BY DEF PerUnit
<1>5. upper = 100 * e - slack /\ lower = 100 * e + slack
  <2> HIDE DEF P, S
  <2> DEFINE ts == total * S
  <2>1. 100 * total * S = 100 * ts /\ ts \in Int
    BY <1>1
  <2>2. price * (100 + pct) * q = 100 * pq + slack /\ price * (100 - pct) * q = 100 * pq - slack
    OBVIOUS
  <2>3. pq \in Int /\ slack \in Int /\ e = ts - pq
    BY <1>2, <1>3
  <2>4. upper = 100 * ts - (100 * pq + slack) /\ lower = 100 * ts - (100 * pq - slack)
    BY <2>1, <2>2
  <2> HIDE DEF ts, pq, slack, upper, lower
  <2> QED BY <2>1, <2>3, <2>4
<1> DEFINE Pq == P * q
<1>6. Pq \in Int /\ Pq > 0 /\ m = 100 * Pq /\ m \in Int /\ m > 0
  <2> HIDE DEF P
  <2> QED BY <1>1
<1> HIDE DEF pq, slack, upper, lower, m, S
<1>7. \A u \in Int : u * q \in Int /\ m * u = 100 * (P * (u * q))
                     /\ (u >= 0 => Abs(u * q) = u * q) /\ (u <= 0 => Abs(u * q) = -(u * q))
  <2> SUFFICES ASSUME NEW u \in Int
               PROVE  u * q \in Int /\ m * u = 100 * (P * (u * q))
                      /\ (u >= 0 => Abs(u * q) = u * q) /\ (u <= 0 => Abs(u * q) = -(u * q))
    OBVIOUS
  <2>1. u * q \in Int /\ (u >= 0 => u * q >= 0) /\ (u <= 0 => u * q <= 0)
    OBVIOUS
  <2>2. m * u = 100 * (P * (u * q))
    <3> HIDE DEF P
    <3>1. Pq * u = P * (u * q)
      BY <1>1
    <3> HIDE DEF Pq
    <3> QED BY <1>6, <3>1
  <2> QED BY <2>1, <2>2 DEF Abs
<1> DEFINE puq == P * (unit * q)
<1>8. CASE upper > 0
  <2>1. unit \in Int /\ unit >= 0 /\ 2 * (m * unit) <= 2 * upper + m
    <3>1. upper \in Int /\ unit = RoundDiv(upper, m)
      BY <1>2, <1>3, <1>4, <1>5, <1>8
    <3> QED BY <1>6, <1>8, <3>1, Rounded
  <2>2. m * unit = 100 * puq /\ puq \in Int /\ P * Abs(unit * q) = puq
    BY <1>1, <1>7, <2>1
  <2> HIDE DEF puq
  <2>3. e > 0 /\ 2 * puq <= 2 * e + Pq
    BY <1>2, <1>3, <1>5, <1>6, <1>8, <2>1, <2>2
  <2> QED BY <1>3, <2>1, <2>2, <2>3 DEF Abs
<1>9. CASE ~(upper > 0) /\ lower < 0
  <2>1. unit \in Int /\ unit <= 0 /\ 2 * lower - m <= 2 * (m * unit)
    <3>1. lower \in Int /\ unit = RoundDiv(lower, m)
      BY <1>2, <1>3, <1>4, <1>5, <1>9
    <3> QED BY <1>6, <1>9, <3>1, Rounded
  <2>2. m * unit = 100 * puq /\ puq \in Int /\ P * Abs(unit * q) = -puq
    <3>1. m * unit = 100 * puq /\ Abs(unit * q) = -(unit * q) /\ unit * q \in Int
      BY <1>7, <2>1
    <3> HIDE DEF P
    <3> QED BY <1>1, <3>1
  <2> HIDE DEF puq
  <2>3. e < 0 /\ -(2 * puq) <= -(2 * e) + Pq
    BY <1>2, <1>3, <1>5, <1>6, <1>9, <2>1, <2>2
  <2> QED BY <1>3, <2>1, <2>2, <2>3 DEF Abs
<1>10. CASE ~(upper > 0) /\ ~(lower < 0)
  <2>1. unit = 0 /\ unit * q = 0
    BY <1>4, <1>10
  <2>2. Abs(unit * q) = 0 /\ PriceScale * 0 = 0
    BY <1>1, <2>1 DEF Abs
  <2>3. Abs(e) \in Nat
    BY <1>3 DEF Abs
  <2> QED BY <1>3, <1>6, <2>1, <2>2, <2>3
<1> QED BY <1>8, <1>9, <1>10

\* A compensation that is rounded once more, beside a deviation that is rounded.
LEMMA CompensationBounded ==
  ASSUME NEW total \in Int, NEW q \in Int, q > 0, NEW price \in Nat, NEW pct \in 0..100,
         NEW dev, dev = RoundDiv(Excess(total, q, price), Scale),
         NEW comp, comp = RoundDiv(PerUnit(total, q, price, pct) * q, QtyScale)
  PROVE  /\ comp \in Int /\ dev \in Int
         /\ comp > 0 => dev >= 0
         /\ comp < 0 => dev <= 0
         /\ 2 * QtyScale * Abs(comp) <= 2 * QtyScale * Abs(dev) + q + 2 * QtyScale
<1> DEFINE e == Excess(total, q, price)
           unit == PerUnit(total, q, price, pct)
           u == unit * q
           Q == QtyScale
           P == PriceScale
<1>1. Q \in Int /\ Q > 0 /\ P \in Int /\ P > 0
  BY FiguresAssumption
<1>2. /\ unit \in Int /\ e \in Int
      /\ unit > 0 => e > 0
      /\ unit < 0 => e < 0
      /\ 2 * (P * Abs(u)) <= 2 * Abs(e) + P * q
  <2> HIDE DEF e
  <2> QED BY PerUnitBounded DEF e
<1>3. Scale = P * Q /\ Scale \in Int /\ Scale > 0
  BY <1>1 DEF Scale
<1> HIDE DEF e, Q, P
<1>4. u \in Int /\ (unit > 0 => u > 0) /\ (unit < 0 => u < 0) /\ (unit = 0 => u = 0)
  <2> HIDE DEF unit
  <2> QED BY <1>2
<1> HIDE DEF unit, u
<1>5. /\ comp \in Int /\ (u >= 0 => comp >= 0) /\ (u <= 0 => comp <= 0)
      /\ 2 * u - Q <= 2 * (Q * comp) /\ 2 * (Q * comp) <= 2 * u + Q
  BY <1>1, <1>4, Rounded DEF Q, u, unit
<1>6. /\ dev \in Int /\ (e >= 0 => dev >= 0) /\ (e <= 0 => dev <= 0)
      /\ 2 * e - Scale <= 2 * (Scale * dev) /\ 2 * (Scale * dev) <= 2 * e + Scale
  BY <1>2, <1>3, Rounded DEF e
<1>7. (comp > 0 => dev >= 0) /\ (comp < 0 => dev <= 0)
  BY <1>2, <1>4, <1>5, <1>6
<1> DEFINE Qc == Q * comp
           Qd == Q * dev
<1>8. Qc \in Int /\ Qd \in Int /\ Scale * dev = P * Qd /\ Abs(u) \in Nat
      /\ 2 * Abs(Qc) <= 2 * Abs(u) + Q
      /\ Abs(Qc) = Q * Abs(comp) /\ Abs(Qd) = Q * Abs(dev)
  <2>1. Qc \in Int /\ Qd \in Int /\ Scale * dev = P * Qd
    BY <1>1, <1>3, <1>5, <1>6
  <2>2. /\ comp >= 0 => Qc >= 0
        /\ comp <= 0 => Qc <= 0
        /\ dev >= 0 => Qd >= 0
        /\ dev <= 0 => Qd <= 0
    BY <1>1, <1>5, <1>6
  <2>3. Q * (-comp) = -Qc /\ Q * (-dev) = -Qd
    BY <1>1, <1>5, <1>6
  <2> HIDE DEF Qc, Qd
  <2>4. 2 * u - Q <= 2 * Qc /\ 2 * Qc <= 2 * u + Q
    BY <1>5 DEF Qc
  <2>5. Abs(u) \in Nat /\ 2 * Abs(Qc) <= 2 * Abs(u) + Q
    BY <1>1, <1>4, <2>1, <2>4 DEF Abs
  <2>6. Abs(Qc) = Q * Abs(comp)
    BY <1>5, <2>1, <2>2, <2>3 DEF Abs, Qc
  <2>7. Abs(Qd) = Q * Abs(dev)
    BY <1>6, <2>1, <2>2, <2>3 DEF Abs, Qd
  <2> QED BY <2>1, <2>5, <2>6, <2>7
<1> HIDE DEF Qc, Qd
<1> DEFINE au == Abs(u)
           ac == Abs(Qc)
           ad == Abs(Qd)
<1>9. au \in Nat /\ ac \in Nat /\ ad \in Nat
  BY <1>8 DEF Abs
<1>10. 2 * Abs(e) <= 2 * (P * ad) + P * Q
  <2>1. 2 * e - P * Q <= 2 * (P * Qd) /\ 2 * (P * Qd) <= 2 * e + P * Q
    BY <1>3, <1>6, <1>8
  <2>2. P * (-Qd) = -(P * Qd) /\ P * Qd \in Int /\ P * Q \in Int
    BY <1>1, <1>8
  <2>3. (Qd >= 0 => P * Qd >= 0) /\ (Qd <= 0 => P * Qd <= 0)
    BY <1>1, <1>8
  <2> DEFINE x == P * Qd
             y == P * Q
  <2>4. P * ad = IF Qd < 0 THEN -x ELSE x
    BY <2>2 DEF Abs
  <2> HIDE DEF x, y, ad
  <2>5. /\ 2 * e - y <= 2 * x /\ 2 * x <= 2 * e + y /\ x \in Int /\ y \in Int
        /\ Qd >= 0 => x >= 0
        /\ Qd <= 0 => x <= 0
    BY <2>1, <2>2, <2>3 DEF x, y
  <2>6. 2 * Abs(e) <= 2 * (IF Qd < 0 THEN -x ELSE x) + y
    BY <1>2, <1>8, <2>5 DEF Abs
  <2> QED BY <2>4, <2>6 DEF y
<1>11. 2 * ac <= 2 * au + Q
  BY <1>8
<1>12. 2 * (P * au) <= 2 * (P * ad) + P * Q + P * q
  <2>1. P * au \in Int /\ P * ad \in Int /\ P * Q \in Int /\ P * q \in Int /\ Abs(e) \in Int
    <3> HIDE DEF au, ad
    <3> QED BY <1>1, <1>2, <1>9 DEF Abs
  <2>2. 2 * (P * au) <= 2 * Abs(e) + P * q
    BY <1>2
  <2> DEFINE a == P * au
             b == P * ad
             y == P * Q
             z == P * q
             v == Abs(e)
  <2>3. 2 * a <= 2 * v + z /\ 2 * v <= 2 * b + y /\ a \in Int /\ b \in Int /\ y \in Int /\ z \in Int /\ v \in Int
    BY <1>10, <2>1, <2>2
  <2>4. 2 * a <= 2 * b + y + z
    <3> HIDE DEF a, b, y, z, v
    <3> QED BY <2>3
  <2> QED BY <2>4
<1>13. 2 * au <= 2 * ad + Q + q
  <2> DEFINE l == 2 * au
             r == 2 * ad + Q + q
  <2>1. l \in Int /\ r \in Int
    <3> HIDE DEF au, ad
    <3> QED BY <1>1, <1>9
  <2>2. P * l = 2 * (P * au) /\ P * r = 2 * (P * ad) + P * Q + P * q
    <3> HIDE DEF au, ad
    <3> QED BY <1>1, <1>9
  <2>3. P * l <= P * r
    BY <1>12, <2>2
  <2> HIDE DEF l, r
  <2>4. l <= r
    <3>1. ~(l >= r + 1)
      <4> SUFFICES ASSUME l >= r + 1 PROVE FALSE
        OBVIOUS
      <4>1. P * l >= P * (r + 1)
        BY <1>1, <2>1
      <4>2. P * (r + 1) = P * r + P
        BY <1>1, <2>1
      <4> DEFINE pl == P * l
                 pr == P * r
      <4>3. pl \in Int /\ pr \in Int /\ pl >= pr + P /\ pl <= pr
        BY <1>1, <2>1, <2>3, <4>1, <4>2
      <4> HIDE DEF pl, pr
      <4> QED BY <1>1, <4>3
    <3> QED BY <2>1, <3>1
  <2> QED BY <2>4 DEF l, r
<1>14. 2 * ac <= 2 * ad + q + 2 * Q
  <2> HIDE DEF au, ac, ad
  <2> QED BY <1>1, <1>9, <1>11, <1>13
<1>15. 2 * Q * Abs(comp) = 2 * ac /\ 2 * Q * Abs(dev) = 2 * ad
  <2>1. Abs(comp) \in Int /\ Abs(dev) \in Int
    BY <1>5, <1>6 DEF Abs
  <2> DEFINE x == Abs(comp)
             y == Abs(dev)
  <2>2. ac = Q * x /\ ad = Q * y
    BY <1>8
  <2> HIDE DEF x, y, ac, ad
  <2> QED BY <1>1, <2>1, <2>2 DEF x, y
<1>16. 2 * Q * Abs(comp) <= 2 * Q * Abs(dev) + q + 2 * Q
  <2> HIDE DEF ac, ad
  <2> QED BY <1>14, <1>15
<1> QED BY <1>5, <1>6, <1>7, <1>16 DEF Q

LEMMA ScalePositive == Scale \in Int /\ Scale > 0
BY FiguresAssumption DEF Scale

LEMMA RoundedIsInt ==
  ASSUME NEW total \in Int, NEW q \in Int, NEW price \in Nat
  PROVE  Excess(total, q, price) \in Int /\ RoundDiv(Excess(total, q, price), Scale) \in Int
<1> DEFINE e == Excess(total, q, price)
<1>1. e \in Int
  BY ScalePositive DEF Excess
<1> HIDE DEF e
<1>2. RoundDiv(e, Scale) \in Int
  BY <1>1, ScalePositive, Rounded
<1> QED BY <1>1, <1>2 DEF e

\* What is rounded one by one stays within half a kopeck for each of the sum.
LEMMA RoundedAddUp ==
  ASSUME NEW g, NEW h, NEW S, IsFiniteSet(S), NEW m \in Int, m > 0,
         \A x \in S : g[x] \in Int /\ h[x] = RoundDiv(g[x], m)
  PROVE  /\ Sigma(g, S) \in Int /\ Sigma(h, S) \in Int /\ Cardinality(S) \in Nat
         /\ 2 * Sigma(g, S) - m * Cardinality(S) <= 2 * (m * Sigma(h, S))
         /\ 2 * (m * Sigma(h, S)) <= 2 * Sigma(g, S) + m * Cardinality(S)
<1>0. ASSUME NEW x \in S
      PROVE  h[x] \in Int /\ 2 * g[x] - m <= 2 * (m * h[x]) /\ 2 * (m * h[x]) <= 2 * g[x] + m
  BY Rounded
<1>1. ASSUME NEW s \in SUBSET S
      PROVE  /\ IsFiniteSet(s) /\ Adding(g, s) /\ Adding(h, s)
             /\ Sigma(g, s) \in Int /\ Sigma(h, s) \in Int /\ Cardinality(s) \in Nat
  <2>1. IsFiniteSet(s) /\ Adding(g, s) /\ Adding(h, s)
    BY <1>0, FS_Subset DEF Adding
  <2> QED BY <2>1, SigmaInt, FS_CardinalityType
<1> DEFINE near(s) == /\ 2 * Sigma(g, s) - m * Cardinality(s) <= 2 * (m * Sigma(h, s))
                      /\ 2 * (m * Sigma(h, s)) <= 2 * Sigma(g, s) + m * Cardinality(s)
           Bad == {s \in SUBSET S : ~near(s)}
<1>2. ASSUME Bad # {} PROVE FALSE
  <2>1. PICK s \in Bad : \A t \in Bad : t \subseteq s => t = s
    <3>1. Bad \in SUBSET (SUBSET S)
      OBVIOUS
    <3> HIDE DEF Bad
    <3> QED BY <1>2, <3>1, Smallest
  <2>2. CASE s = {}
    <3>1. Sigma(g, s) = 0 /\ Sigma(h, s) = 0 /\ Cardinality(s) = 0
      BY <2>2, SigmaEmpty, FS_EmptySet
    <3> QED BY <2>1, <3>1
  <2>3. CASE s # {}
    <3> DEFINE z == Pick(s)
               u == s \ {z}
    <3>1. z \in s /\ u \in SUBSET S /\ u \notin Bad
      <4>1. z \in s
        BY <2>3, PickIn
      <4> QED BY <2>1, <4>1
    <3>2. near(u)
      BY <3>1
    <3>3. Sigma(g, s) = g[z] + Sigma(g, u) /\ Sigma(h, s) = h[z] + Sigma(h, u)
      <4> HIDE DEF z, near
      <4> QED BY <1>1, <3>1, SigmaTake
    <3>4. Cardinality(s) = Cardinality(u) + 1
      <4> HIDE DEF z, near
      <4>1. Cardinality(u) = Cardinality(s) - 1 /\ Cardinality(s) \in Nat
        BY <1>1, <3>1, FS_RemoveElement
      <4> QED BY <4>1
    <3> DEFINE a == Sigma(g, u)
               b == Sigma(h, u)
               n == Cardinality(u)
               c == g[z]
               e == h[z]
    <3>5. /\ a \in Int /\ b \in Int /\ n \in Int /\ c \in Int /\ e \in Int
          /\ 2 * c - m <= 2 * (m * e) /\ 2 * (m * e) <= 2 * c + m
          /\ 2 * a - m * n <= 2 * (m * b) /\ 2 * (m * b) <= 2 * a + m * n
      <4>1. a \in Int /\ b \in Int /\ n \in Int
        BY <1>1, <3>1
      <4> QED BY <1>0, <3>1, <3>2, <4>1
    <3>6. ~ (/\ 2 * (c + a) - m * (n + 1) <= 2 * (m * (e + b))
             /\ 2 * (m * (e + b)) <= 2 * (c + a) + m * (n + 1))
      BY <2>1, <3>3, <3>4
    <3> HIDE DEF a, b, n, c, e
    <3>7. m * (n + 1) = m * n + m /\ m * (e + b) = m * e + m * b
      BY <3>5
    <3> DEFINE mn == m * n
               me == m * e
               mb == m * b
    <3>8. mn \in Int /\ me \in Int /\ mb \in Int
      BY <3>5
    <3>9. ~ (/\ 2 * (c + a) - (mn + m) <= 2 * (me + mb)
             /\ 2 * (me + mb) <= 2 * (c + a) + (mn + m))
      BY <3>6, <3>7
    <3>10. /\ 2 * c - m <= 2 * me /\ 2 * me <= 2 * c + m
           /\ 2 * a - mn <= 2 * mb /\ 2 * mb <= 2 * a + mn
      BY <3>5
    <3> HIDE DEF mn, me, mb
    <3> QED BY <3>5, <3>8, <3>9, <3>10
  <2> QED BY <2>2, <2>3
<1>3. near(S)
  BY <1>2
<1> QED BY <1>1, <1>3

LEMMA RefChosen ==
  ASSUME DataSound, NEW c, NEW from, NEW to, NEW ref, ref = RefIn(refs, c, from, to), ref # None
  PROVE  ref \in refs /\ ref.class = c
<1> DEFINE R == {r \in refs : r.class = c /\ r.from <= to /\ r.to >= from}
<1>1. R \in SUBSET refs /\ IsFiniteSet(R)
  BY FS_Subset DEF DataSound, RefsSound
<1>2. R # {} => Latest(R) \in R
  <2>1. R \in SUBSET PriceT /\ \A r, s \in R : r.id = s.id => r = s
    BY <1>1, InputFacts DEF DataSound, RefsSound
  <2> HIDE DEF R
  <2> QED BY <1>1, <2>1, LatestIsOne
<1>3. ref = IF R = {} THEN None ELSE Latest(R)
  BY DEF RefIn, LatestOrNone
<1>4. \A r \in R : r.class = c
  OBVIOUS
<1> HIDE DEF R
<1> QED BY <1>1, <1>2, <1>3, <1>4

\* What a summary and the report may rely on of a row.
Bounded(r) ==
  /\ r.deviation # None
  /\ r.compensation > 0 => r.deviation >= 0
  /\ r.compensation < 0 => r.deviation <= 0
  /\ 2 * QtyScale * Abs(r.compensation) <= 2 * QtyScale * Abs(r.deviation) + r.qty + 2 * QtyScale
RowSound(r) ==
  /\ r.class \in Classes /\ r.dir = TypeOf[r.class]
  /\ r.compensation \in Int \cup {None}
  /\ r.compensation # None => r.dir # "other" /\ Bounded(r)

\* Prices and rules as the requests leave them.
Priced(d) == d.refs = refs /\ d.byClass \in [Classes -> Rules] /\ d.byType \in [Types -> Rules]

\* A row of compute_calculations is bounded, whatever the price and the corridor.
LEMMA RowIsSound ==
  ASSUME DataSound, NEW d, RowsT(d), Priced(d), NEW from, NEW to, NEW c \in Classes,
         QtyOf(Of(d.base, c)) > 0, NEW r, r = CalcRow(d, from, to, c)
  PROVE  RowSound(r)
<1> DEFINE rows == Of(d.base, c)
           q == QtyOf(rows)
           total == GrossOf(rows) + Shared(d, c)
           ref == RefIn(d.refs, c, from, to)
           pct == Corridor(d.byClass, d.byType, c)
<1>1. q \in Int /\ q > 0 /\ total \in Int
  <2>1. rows \in SUBSET LineT /\ IsFiniteSet(rows)
    BY FS_Subset DEF Of, RowsT
  <2>2. Shared(d, c) \in Int
    BY SharedIsInt
  <2> QED BY <2>1, <2>2, SumsAreInt
<1>2. ref # None => ref.price \in Nat /\ TypeOf[c] # "other"
  <2> HIDE DEF rows, q, total, pct
  <2>1. ref # None => ref \in refs /\ ref.class = c
    BY RefChosen DEF Priced
  <2> HIDE DEF ref
  <2> QED BY <2>1, InputFacts DEF DataSound, RefsSound, PriceT
<1>3. pct # None => pct \in 0..100
  <2>1. TypeOf[c] \in Types
    BY FiguresAssumption
  <2>2. d.byClass[c] \in input.pcts \cup {Off, None} /\ d.byType[TypeOf[c]] \in input.pcts \cup {Off, None}
    BY <2>1 DEF Priced, Rules
  <2> QED BY <2>2, InputFacts DEF Corridor
<1>4. /\ r.class = c /\ r.dir = TypeOf[c] /\ r.qty = q
      /\ r.compensation # None =>
           /\ pct # None /\ ref # None
           /\ r.compensation = RoundDiv(PerUnit(total, q, ref.price, pct) * q, QtyScale)
           /\ r.deviation = RoundDiv(Excess(total, q, ref.price), Scale)
  BY DEF CalcRow
<1>5. ASSUME r.compensation # None
      PROVE  r.compensation \in Int /\ r.dir # "other" /\ Bounded(r)
  <2>1. ref.price \in Nat /\ pct \in 0..100 /\ TypeOf[c] # "other"
    BY <1>2, <1>3, <1>4, <1>5
  <2> DEFINE p == ref.price
  <2> HIDE DEF q, total, ref, pct, p
  <2>2. p \in Nat
    BY <2>1 DEF p
  <2>3. /\ r.compensation = RoundDiv(PerUnit(total, q, p, pct) * q, QtyScale)
        /\ r.deviation = RoundDiv(Excess(total, q, p), Scale) /\ r.qty = q
    BY <1>4, <1>5 DEF p
  <2>4. /\ r.compensation \in Int /\ r.deviation \in Int
        /\ r.compensation > 0 => r.deviation >= 0
        /\ r.compensation < 0 => r.deviation <= 0
        /\ 2 * QtyScale * Abs(r.compensation) <= 2 * QtyScale * Abs(r.deviation) + q + 2 * QtyScale
    <3> DEFINE dev == RoundDiv(Excess(total, q, p), Scale)
               comp == RoundDiv(PerUnit(total, q, p, pct) * q, QtyScale)
    <3>1. dev = RoundDiv(Excess(total, q, p), Scale) /\ comp = RoundDiv(PerUnit(total, q, p, pct) * q, QtyScale)
      OBVIOUS
    <3> HIDE DEF dev, comp
    <3>2. /\ comp \in Int /\ dev \in Int
          /\ comp > 0 => dev >= 0
          /\ comp < 0 => dev <= 0
          /\ 2 * QtyScale * Abs(comp) <= 2 * QtyScale * Abs(dev) + q + 2 * QtyScale
      BY <1>1, <2>1, <2>2, <3>1, CompensationBounded
    <3> QED BY <2>3, <3>1, <3>2
  <2>5. r.deviation # None
    BY <2>4, FiguresAssumption
  <2> QED BY <1>4, <2>1, <2>3, <2>4, <2>5 DEF Bounded
<1> QED BY <1>4, <1>5 DEF RowSound

\* A compensation has a deviation beside it and never goes against it; what it exceeds it by is
\* what three roundings can add: of the price per unit, for each unit, and of both amounts
\* (compute_compensation_per_unit, compute_calculations).
THEOREM CompensationIsBounded == Spec => []CompensationWithinDeviation
<1>1. DataSound => CompensationWithinDeviation
  <2> SUFFICES ASSUME DataSound, NEW r \in CalcRows(Db, 0, LastDay, excluded, Types), r.compensation # None
               PROVE  Bounded(r)
    BY DEF CompensationWithinDeviation, Bounded
  <2>1. PICK m \in Months(0, LastDay) : r \in MonthRows(MonthData(Db, m, excluded), m)
    BY DEF CalcRows
  <2> DEFINE d == MonthData(Db, m, excluded)
  <2>2. RowsT(d)
    BY MonthSound
  <2>3. Priced(d)
    BY DEF MonthData, Db, Priced, DataSound, RulesSound
  <2> HIDE DEF d
  <2>4. PICK c \in ClassesOf(d.base) : QtyOf(Of(d.base, c)) > 0 /\ r = CalcRow(d, m.from, m.to, c)
    BY <2>1 DEF MonthRows, d
  <2>5. c \in Classes
    BY <2>2, <2>4 DEF RowsT, ClassesOf
  <2>6. RowSound(r)
    BY <2>2, <2>3, <2>4, <2>5, RowIsSound
  <2> QED BY <2>6 DEF RowSound
<1> QED BY <1>1, DataInvariance, PTL

-----------------------------------------------------------------------------
(* The summary, query by query.                                             *)

\* What the queries so far have left in a summary request, while nothing has changed.
Totalled ==
  LET ls == Counted(lines, excluded) IN
  summary.moved = 0 =>
    /\ summary.pc # "idle" => summary.excluded = excluded
    /\ summary.pc \notin {"idle", "totals"} =>
         summary.total = GrossOf(ls) /\ summary.delivery = GrossOf(Delivery(ls))
    /\ summary.pc \notin {"idle", "totals", "done"} => summary.other = OtherKind(ls)
    /\ summary.pc = "done" =>
         /\ summary.other = OtherKind(ls) + OtherMaterial(ls)
         /\ summary.turnover = [t \in Directions |-> Turnover(ls, t)]
\* What they have left whatever has changed: lines, some of them gone by now.
Gathered ==
  /\ RowsT([base |-> summary.base, delivery |-> summary.freight, additive |-> summary.additive])
  /\ summary.pc \in {"month", "base", "delivery", "additive", "prices"} =>
       summary.byClass \in [Classes -> Rules] /\ summary.byType \in [Types -> Rules]
RowsAreSound == IsFiniteSet(summary.rows) /\ \A r \in summary.rows : RowSound(r)
SummarySound ==
  /\ DOMAIN summary = DOMAIN NoSummary
  /\ summary.moved \in Nat
  /\ summary.pc = "idle" => summary = NoSummary
  /\ Totalled /\ Gathered /\ RowsAreSound

LEMMA RowSoundStays == ASSUME input' = input PROVE \A r : RowSound(r)' <=> RowSound(r)
BY DEF RowSound, Bounded

LEMMA NoneIsSound == ASSUME summary = NoSummary PROVE SummarySound
BY FS_EmptySet DEF NoSummary, SummarySound, Totalled, Gathered, RowsAreSound, RowsT

LEMMA NoneIsSoundNext == ASSUME summary' = NoSummary PROVE SummarySound'
BY FS_EmptySet DEF NoSummary, SummarySound, Totalled, Gathered, RowsAreSound, RowsT

LEMMA MonthRowsSound ==
  ASSUME DataSound, NEW d, RowsT(d), Priced(d), NEW m
  PROVE  IsFiniteSet(MonthRows(d, m)) /\ \A r \in MonthRows(d, m) : RowSound(r)
<1> DEFINE C == {x \in ClassesOf(d.base) : QtyOf(Of(d.base, x)) > 0}
           row == [c \in C |-> CalcRow(d, m.from, m.to, c)]
<1>1. IsFiniteSet(C) /\ C \subseteq Classes
  <2> DEFINE k == [l \in d.base |-> l.class]
  <2>1. ClassesOf(d.base) = {k[l] : l \in d.base} /\ C \subseteq ClassesOf(d.base)
    BY DEF ClassesOf
  <2>2. IsFiniteSet({k[l] : l \in d.base})
    <3> HIDE DEF k
    <3> QED BY ImageFinite DEF RowsT
  <2>3. ClassesOf(d.base) \subseteq Classes
    BY DEF RowsT, ClassesOf
  <2> HIDE DEF C, k
  <2> QED BY <2>1, <2>2, <2>3, FS_Subset
<1>2. MonthRows(d, m) = {row[c] : c \in C}
  BY DEF MonthRows
<1>3. ASSUME NEW c \in C PROVE RowSound(row[c])
  <2>1. c \in Classes /\ QtyOf(Of(d.base, c)) > 0 /\ row[c] = CalcRow(d, m.from, m.to, c)
    BY <1>1
  <2> HIDE DEF C, row
  <2> QED BY <2>1, RowIsSound
<1> HIDE DEF C, row
<1> QED BY <1>1, <1>2, <1>3, ImageFinite

\* The rows of a month join those of the months before.
LEMMA MonthIsSound ==
  ASSUME DataSound, SummarySound, NEW rows, IsFiniteSet(rows), \A r \in rows : RowSound(r),
         summary.pc \in {"month", "base", "prices"},
         summary' = NextMonth(rows), UNCHANGED <<data, input>>
  PROVE  SummarySound'
<1>1. /\ DOMAIN summary' = DOMAIN NoSummary /\ summary'.pc \in {"turnover", "month"}
      /\ summary'.excluded = summary.excluded /\ summary'.moved = summary.moved
      /\ summary'.total = summary.total
      /\ summary'.delivery = summary.delivery /\ summary'.other = summary.other
      /\ summary'.byClass = summary.byClass /\ summary'.byType = summary.byType
      /\ summary'.base = {} /\ summary'.freight = {} /\ summary'.additive = {}
      /\ summary'.rows = summary.rows \cup rows
  BY DEF SummarySound, NextMonth, NoSummary
<1>2. IsFiniteSet(summary'.rows)
  <2>1. IsFiniteSet(summary.rows)
    BY DEF SummarySound, RowsAreSound
  <2>2. IsFiniteSet(summary.rows \cup rows)
    BY <2>1, FS_Union
  <2> QED BY <1>1, <2>2
<1>3. UNCHANGED <<lines, excluded, input>>
  BY DEF data
<1>4. RowsAreSound'
  BY <1>1, <1>2, <1>3, RowSoundStays DEF SummarySound, RowsAreSound
<1>5. Totalled'
  BY <1>1, <1>3 DEF SummarySound, Totalled
<1>6. Gathered'
  BY <1>1, <1>3, FS_EmptySet DEF SummarySound, Gathered, RowsT, Rules
<1> QED BY <1>1, <1>4, <1>5, <1>6 DEF SummarySound

\* A query that adds no row.
LEMMA QueryIsSound ==
  ASSUME SummarySound, UNCHANGED <<data, input>>, DOMAIN summary' = DOMAIN NoSummary,
         summary'.pc # "idle", summary'.moved = summary.moved, summary'.rows = summary.rows,
         Totalled', Gathered'
  PROVE  SummarySound'
<1>1. UNCHANGED <<excluded, input>>
  BY DEF data
<1>2. RowsAreSound'
  BY <1>1, RowSoundStays DEF SummarySound, RowsAreSound
<1> QED BY <1>1, <1>2 DEF SummarySound

LEMMA LinesInNext == ASSUME UNCHANGED data PROVE Counted(lines', excluded') = Counted(lines, excluded)
BY DEF data, Counted

\* The rows a query of a month may return are some lines of the project.
LEMMA ChosenSound ==
  ASSUME DataSound
  PROVE  RowsT([base |-> Base(Chosen), delivery |-> Delivery(Chosen), additive |-> Additive(Chosen)])
<1>1. Chosen \in SUBSET lines
  BY DEF Chosen
<1> DEFINE d == [base |-> Base(Chosen), delivery |-> Delivery(Chosen), additive |-> Additive(Chosen)]
<1>2. d.base = Base(Chosen) /\ d.delivery = Delivery(Chosen) /\ d.additive = Additive(Chosen)
  OBVIOUS
<1> HIDE DEF d
<1>3. RowsT(d)
  BY <1>1, <1>2, PartSound
<1> QED BY <1>3 DEF d

\* Each query keeps what the ones before it have left.
LEMMA SummaryKept == ASSUME DataSound, SummarySound, [Next]_vars PROVE SummarySound'
<1> USE DEF SummarySound
<1>1. CASE UNCHANGED vars
  <2>1. RowsAreSound'
    BY <1>1, RowSoundStays DEF vars, RowsAreSound
  <2>2. Totalled' /\ Gathered'
    BY <1>1 DEF vars, Totalled, Gathered, Rules
  <2> QED BY <1>1, <2>1, <2>2 DEF vars
<1>2. CASE Change
  <2>1. Write
    BY <1>2 DEF Change, SaveInvoice, Reparse, CreatePrice, DeletePrice, UpdatePrice, SetTypeCorridor,
       SetClassCorridor, DeleteClass, Exclude, Include
  <2>2. CASE summary.pc = "idle"
    <3>1. summary' = NoSummary
      BY <2>1, <2>2 DEF Write
    <3> QED BY <3>1, NoneIsSoundNext
  <2>3. CASE summary.pc # "idle"
    <3>1. summary' = [summary EXCEPT !.moved = summary.moved + 1] /\ input' = input
      BY <2>1, <2>3 DEF Write
    <3>2. /\ DOMAIN summary' = DOMAIN NoSummary /\ summary'.moved = summary.moved + 1
          /\ summary'.pc = summary.pc /\ summary'.rows = summary.rows
          /\ summary'.base = summary.base /\ summary'.freight = summary.freight
          /\ summary'.additive = summary.additive
          /\ summary'.byClass = summary.byClass /\ summary'.byType = summary.byType
      BY <3>1 DEF NoSummary
    <3>3. summary'.moved \in Nat /\ summary'.moved # 0
      BY <3>2
    <3>4. Totalled'
      BY <3>3 DEF Totalled
    <3>5. Gathered'
      BY <3>1, <3>2 DEF Gathered, Rules
    <3>6. RowsAreSound'
      BY <3>1, <3>2, RowSoundStays DEF RowsAreSound
    <3> QED BY <2>3, <3>2, <3>3, <3>4, <3>5, <3>6
  <2> QED BY <2>2, <2>3
<1>3. CASE QueryExcluded
  <2>1. /\ UNCHANGED <<data, input>> /\ summary.pc = "idle"
        /\ summary' = [NoSummary EXCEPT !.pc = "totals", !.excluded = excluded]
    BY <1>3 DEF QueryExcluded, Query
  <2>2. /\ DOMAIN summary' = DOMAIN NoSummary /\ summary'.pc = "totals" /\ summary'.excluded = excluded /\ summary'.moved = summary.moved
        /\ summary'.rows = summary.rows /\ summary'.base = {} /\ summary'.freight = {} /\ summary'.additive = {}
    BY <2>1 DEF NoSummary
  <2>3. Totalled'
    BY <2>1, <2>2 DEF Totalled, data
  <2>4. Gathered'
    BY <2>2, FS_EmptySet DEF Gathered, RowsT
  <2> QED BY <2>1, <2>2, <2>3, <2>4, QueryIsSound
<1>4. CASE QueryTotals
  <2>1. /\ UNCHANGED <<data, input>> /\ summary.pc = "totals"
        /\ summary' = [summary EXCEPT !.pc = "dates", !.total = GrossOf(Counted(lines, summary.excluded)),
                         !.delivery = GrossOf(Delivery(Counted(lines, summary.excluded))),
                         !.other = OtherKind(Counted(lines, summary.excluded))]
    BY <1>4 DEF QueryTotals, Query
  <2>2. /\ DOMAIN summary' = DOMAIN NoSummary /\ summary'.pc = "dates" /\ summary'.excluded = summary.excluded /\ summary'.moved = summary.moved
        /\ summary'.rows = summary.rows /\ summary'.base = summary.base
        /\ summary'.freight = summary.freight /\ summary'.additive = summary.additive
        /\ summary'.total = GrossOf(Counted(lines, summary.excluded))
        /\ summary'.delivery = GrossOf(Delivery(Counted(lines, summary.excluded)))
        /\ summary'.other = OtherKind(Counted(lines, summary.excluded))
    BY <2>1 DEF NoSummary
  <2>3. Totalled'
    BY <2>1, <2>2, LinesInNext DEF Totalled, data
  <2>4. Gathered'
    BY <2>1, <2>2 DEF Gathered, data
  <2> QED BY <2>1, <2>2, <2>3, <2>4, QueryIsSound
<1>5. ASSUME NEW pc \in {"turnover", "corridors"}, NEW ms, summary.pc = "dates", UNCHANGED <<data, input>>,
             summary' = [summary EXCEPT !.pc = pc, !.months = ms]
      PROVE  SummarySound'
  <2>2. /\ DOMAIN summary' = DOMAIN NoSummary /\ summary'.pc = pc /\ summary'.excluded = summary.excluded /\ summary'.moved = summary.moved
        /\ summary'.rows = summary.rows /\ summary'.base = summary.base
        /\ summary'.freight = summary.freight /\ summary'.additive = summary.additive
        /\ summary'.total = summary.total /\ summary'.delivery = summary.delivery
        /\ summary'.other = summary.other
    BY <1>5 DEF NoSummary
  <2>3. Totalled'
    BY <1>5, <2>2, LinesInNext DEF Totalled, data
  <2>4. Gathered'
    BY <1>5, <2>2 DEF Gathered, data
  <2> QED BY <1>5, <2>2, <2>3, <2>4, QueryIsSound
<1>6. CASE QueryDates
  <2>1. \E pc \in {"turnover", "corridors"} : \E ms : summary' = [summary EXCEPT !.pc = pc, !.months = ms]
    <3>1. CASE summary' = [summary EXCEPT !.pc = "turnover"]
      <4>1. summary' = [summary EXCEPT !.pc = "turnover", !.months = summary.months]
        BY <3>1 DEF NoSummary
      <4> QED BY <4>1
    <3> QED BY <1>6, <3>1 DEF QueryDates, Query
  <2> QED BY <1>5, <1>6, <2>1 DEF QueryDates, Query
<1>7. CASE QueryCorridors
  <2>1. /\ UNCHANGED <<data, input>> /\ summary.pc = "corridors"
        /\ summary' = [summary EXCEPT !.pc = "month", !.byClass = byClass, !.byType = byType]
    BY <1>7 DEF QueryCorridors, Query
  <2>2. /\ DOMAIN summary' = DOMAIN NoSummary /\ summary'.pc = "month" /\ summary'.excluded = summary.excluded /\ summary'.moved = summary.moved
        /\ summary'.rows = summary.rows /\ summary'.base = summary.base
        /\ summary'.freight = summary.freight /\ summary'.additive = summary.additive
        /\ summary'.total = summary.total /\ summary'.delivery = summary.delivery
        /\ summary'.other = summary.other /\ summary'.byClass = byClass /\ summary'.byType = byType
    BY <2>1 DEF NoSummary
  <2>3. Totalled'
    BY <2>1, <2>2, LinesInNext DEF Totalled, data
  <2>4. Gathered'
    BY <2>1, <2>2 DEF Gathered, data, DataSound, RulesSound, Rules
  <2> QED BY <2>1, <2>2, <2>3, <2>4, QueryIsSound
<1>8. CASE QueryIds
  <2> DEFINE ids == InvoicesOf(Within(Counted(lines, summary.excluded), Month))
  <2>1. /\ UNCHANGED <<data, input>> /\ summary.pc = "month"
        /\ summary' = IF ids = {} THEN NextMonth({}) ELSE [summary EXCEPT !.pc = "base", !.ids = ids]
    BY <1>8 DEF QueryIds, Query
  <2> HIDE DEF ids
  <2>2. CASE ids = {}
    <3>1. summary' = NextMonth({}) /\ IsFiniteSet({}) /\ \A r \in {} : RowSound(r)
      BY <2>1, <2>2, FS_EmptySet
    <3> QED BY <2>1, <3>1, MonthIsSound
  <2>3. CASE ids # {}
    <3>1. /\ DOMAIN summary' = DOMAIN NoSummary /\ summary'.pc = "base" /\ summary'.excluded = summary.excluded /\ summary'.moved = summary.moved
          /\ summary'.rows = summary.rows /\ summary'.base = summary.base
          /\ summary'.freight = summary.freight /\ summary'.additive = summary.additive
          /\ summary'.total = summary.total /\ summary'.delivery = summary.delivery
          /\ summary'.other = summary.other
          /\ summary'.byClass = summary.byClass /\ summary'.byType = summary.byType
      BY <2>1, <2>3 DEF NoSummary
    <3>2. Totalled'
      BY <2>1, <3>1, LinesInNext DEF Totalled, data
    <3>3. Gathered'
      BY <2>1, <3>1 DEF Gathered, data, Rules
    <3> QED BY <2>1, <3>1, <3>2, <3>3, QueryIsSound
  <2> QED BY <2>2, <2>3
<1>9. CASE QueryBase
  <2>1. /\ UNCHANGED <<data, input>> /\ summary.pc = "base"
        /\ summary' = IF Base(Chosen) = {} THEN NextMonth({})
                      ELSE [summary EXCEPT !.pc = "delivery", !.base = Base(Chosen)]
    BY <1>9 DEF QueryBase, Query
  <2>2. CASE Base(Chosen) = {}
    <3>1. summary' = NextMonth({}) /\ IsFiniteSet({}) /\ \A r \in {} : RowSound(r)
      BY <2>1, <2>2, FS_EmptySet
    <3> QED BY <2>1, <3>1, MonthIsSound
  <2>3. CASE Base(Chosen) # {}
    <3>1. /\ DOMAIN summary' = DOMAIN NoSummary /\ summary'.pc = "delivery" /\ summary'.excluded = summary.excluded /\ summary'.moved = summary.moved
          /\ summary'.rows = summary.rows /\ summary'.base = Base(Chosen)
          /\ summary'.freight = summary.freight /\ summary'.additive = summary.additive
          /\ summary'.total = summary.total /\ summary'.delivery = summary.delivery
          /\ summary'.other = summary.other
          /\ summary'.byClass = summary.byClass /\ summary'.byType = summary.byType
      BY <2>1, <2>3 DEF NoSummary
    <3>2. Totalled'
      BY <2>1, <3>1, LinesInNext DEF Totalled, data
    <3>4. Gathered'
      BY <2>1, <3>1, ChosenSound DEF Gathered, RowsT, data, Rules
    <3> QED BY <2>1, <3>1, <3>2, <3>4, QueryIsSound
  <2> QED BY <2>2, <2>3
<1>10. CASE QueryDelivery
  <2>1. /\ UNCHANGED <<data, input>> /\ summary.pc = "delivery"
        /\ summary' = [summary EXCEPT !.pc = "additive", !.freight = Delivery(Chosen)]
    BY <1>10 DEF QueryDelivery, Query
  <2>2. /\ DOMAIN summary' = DOMAIN NoSummary /\ summary'.pc = "additive" /\ summary'.excluded = summary.excluded /\ summary'.moved = summary.moved
        /\ summary'.rows = summary.rows /\ summary'.base = summary.base
        /\ summary'.freight = Delivery(Chosen) /\ summary'.additive = summary.additive
        /\ summary'.total = summary.total /\ summary'.delivery = summary.delivery
        /\ summary'.other = summary.other
        /\ summary'.byClass = summary.byClass /\ summary'.byType = summary.byType
    BY <2>1 DEF NoSummary
  <2>3. Totalled'
    BY <2>1, <2>2, LinesInNext DEF Totalled, data
  <2>5. Gathered'
    BY <2>1, <2>2, ChosenSound DEF Gathered, RowsT, data, Rules
  <2> QED BY <2>1, <2>2, <2>3, <2>5, QueryIsSound
<1>11. CASE QueryAdditive
  <2>1. /\ UNCHANGED <<data, input>> /\ summary.pc = "additive"
        /\ summary' = [summary EXCEPT !.pc = "prices", !.additive = Additive(Chosen)]
    BY <1>11 DEF QueryAdditive, Query
  <2>2. /\ DOMAIN summary' = DOMAIN NoSummary /\ summary'.pc = "prices" /\ summary'.excluded = summary.excluded /\ summary'.moved = summary.moved
        /\ summary'.rows = summary.rows /\ summary'.base = summary.base
        /\ summary'.freight = summary.freight /\ summary'.additive = Additive(Chosen)
        /\ summary'.total = summary.total /\ summary'.delivery = summary.delivery
        /\ summary'.other = summary.other
        /\ summary'.byClass = summary.byClass /\ summary'.byType = summary.byType
    BY <2>1 DEF NoSummary
  <2>3. Totalled'
    BY <2>1, <2>2, LinesInNext DEF Totalled, data
  <2>5. Gathered'
    BY <2>1, <2>2, ChosenSound DEF Gathered, RowsT, data, Rules
  <2> QED BY <2>1, <2>2, <2>3, <2>5, QueryIsSound
<1>12. CASE QueryPrices
  <2> DEFINE d == [base |-> summary.base, delivery |-> summary.freight, additive |-> summary.additive,
                   refs |-> refs, byClass |-> summary.byClass, byType |-> summary.byType]
             rows == MonthRows(d, Month)
  <2>1. UNCHANGED <<data, input>> /\ summary.pc = "prices" /\ summary' = NextMonth(rows)
    BY <1>12 DEF QueryPrices, Query
  <2>2. RowsT(d)
    BY DEF Gathered, RowsT
  <2>3. Priced(d)
    BY <2>1 DEF Gathered, Priced
  <2> HIDE DEF d
  <2>4. IsFiniteSet(rows) /\ \A r \in rows : RowSound(r)
    BY <2>2, <2>3, MonthRowsSound
  <2> HIDE DEF rows
  <2> QED BY <2>1, <2>4, MonthIsSound
<1>13. CASE QueryTurnover
  <2> DEFINE ls == Counted(lines, summary.excluded)
  <2>1. /\ UNCHANGED <<data, input>> /\ summary.pc = "turnover"
        /\ summary' = [summary EXCEPT !.pc = "done", !.turnover = [t \in Directions |-> Turnover(ls, t)],
                         !.other = summary.other + OtherMaterial(ls)]
    BY <1>13 DEF QueryTurnover, Query
  <2>2. /\ DOMAIN summary' = DOMAIN NoSummary /\ summary'.pc = "done" /\ summary'.excluded = summary.excluded
        /\ summary'.moved = summary.moved
        /\ summary'.rows = summary.rows /\ summary'.base = summary.base
        /\ summary'.freight = summary.freight /\ summary'.additive = summary.additive
        /\ summary'.total = summary.total /\ summary'.delivery = summary.delivery
        /\ summary'.other = summary.other + OtherMaterial(ls)
        /\ summary'.turnover = [t \in Directions |-> Turnover(ls, t)]
    BY <2>1 DEF NoSummary
  <2>3. summary.moved = 0 => summary.excluded = excluded /\ Counted(lines', excluded') = ls
    BY <2>1, LinesInNext DEF Totalled
  <2> HIDE DEF ls
  <2>4. summary.moved = 0 =>
          summary.other = OtherKind(ls) /\ summary.total = GrossOf(ls) /\ summary.delivery = GrossOf(Delivery(ls))
    BY <2>1, <2>3 DEF Totalled, ls
  <2>5. Totalled'
    BY <2>1, <2>2, <2>3, <2>4 DEF Totalled, data
  <2>6. Gathered'
    BY <2>1, <2>2 DEF Gathered, data
  <2> QED BY <2>1, <2>2, <2>5, <2>6, QueryIsSound
<1>14. CASE Answer
  BY <1>14, NoneIsSoundNext DEF Answer, Query
<1> QED BY <1>1, <1>2, <1>3, <1>4, <1>6, <1>7, <1>8, <1>9, <1>10, <1>11, <1>12, <1>13, <1>14
     DEF Next, Summarise

LEMMA SummaryInvariance == Spec => []SummarySound
<1>1. Init => SummarySound
  BY NoneIsSound DEF Init
<1> QED BY <1>1, SummaryKept, DataInvariance, PTL DEF Spec

-----------------------------------------------------------------------------
(* What the summary shows.                                                  *)

LEMMA SigmaSplit ==
  ASSUME NEW g, NEW S, Adding(g, S), NEW R \in SUBSET S
  PROVE  Sigma(g, S) = Sigma(g, R) + Sigma(g, S \ R)
<1> DEFINE h == [x \in S |-> IF x \in R THEN g[x] ELSE 0]
           k == [x \in S |-> IF x \in R THEN 0 ELSE g[x]]
<1>1. /\ \A x \in S : g[x] = h[x] + k[x] /\ h[x] \in Int /\ k[x] \in Int
      /\ \A x \in R : h[x] = g[x]
      /\ \A x \in S \ R : k[x] = g[x] /\ h[x] = 0
      /\ \A x \in S \ (S \ R) : k[x] = 0
  BY DEF Adding
<1>2. Adding(h, S) /\ Adding(k, S) /\ Adding(h, R) /\ Adding(k, S \ R)
  <2>1. IsFiniteSet(S) /\ IsFiniteSet(R) /\ IsFiniteSet(S \ R)
    BY FS_Subset DEF Adding
  <2> HIDE DEF h, k
  <2> QED BY <1>1, <2>1 DEF Adding
<1> HIDE DEF h, k
<1>3. Sigma(g, S) = Sigma(h, S) + Sigma(k, S)
  BY <1>1, <1>2, SigmaPlus
<1>4. Sigma(h, S) = Sigma(h, R) /\ Sigma(k, S) = Sigma(k, S \ R)
  BY <1>1, <1>2, SigmaDrop
<1>5. Sigma(h, R) = Sigma(g, R) /\ Sigma(k, S \ R) = Sigma(g, S \ R)
  BY <1>1, <1>2, SigmaSame
<1> QED BY <1>3, <1>4, <1>5

LEMMA DirectionsAddUp == ASSUME NEW f PROVE SumDirections(f) = Sigma(f, Directions)
<1>1. ASSUME NEW e
      PROVE  e = [s \in SUBSET Directions |-> IF s = {} THEN 0 ELSE f[Pick(s)] + e[s \ {Pick(s)}]]
             <=> Adds(e, f, Directions)
  BY DEF Adds
<1>2. (CHOOSE e : e = [s \in SUBSET Directions |-> IF s = {} THEN 0 ELSE f[Pick(s)] + e[s \ {Pick(s)}]])
      = CHOOSE e : Adds(e, f, Directions)
  BY <1>1
<1> QED BY <1>2 DEF SumDirections, MapThenSumSet, MapThenFoldSet, Pick, Sigma

\* Delivery, other kinds, and material by direction and without one.
LEMMA LinesPartition ==
  ASSUME NEW ls \in SUBSET LineT, IsFiniteSet(ls), NEW f, f = [t \in Directions |-> Turnover(ls, t)]
  PROVE  GrossOf(ls) = SumDirections(f) + GrossOf(Delivery(ls)) + (OtherKind(ls) + OtherMaterial(ls))
<1> DEFINE M == Material(ls)
           D == Delivery(ls)
           O == {l \in ls : l.kind = "other"}
           N == {l \in M : l.class = None \/ TypeOf[l.class] = "other"}
           k == [l \in ls |-> TypeOf[l.class]]
           A == M \ N
<1>1. /\ D \in SUBSET ls /\ ls \ D = M \cup O /\ O \in SUBSET (ls \ D) /\ (ls \ D) \ O = M
      /\ N \in SUBSET M /\ M \in SUBSET ls
  BY DEF Material, Delivery, LineT, Kinds
<1>2. \A l \in A : k[l] \in Directions
  <2>1. \A l \in A : l \in ls /\ l.class \in Classes /\ TypeOf[l.class] # "other"
    BY <1>1 DEF LineT
  <2> QED BY <2>1, FiguresAssumption DEF Types
<1>3. \A t \in Directions : {l \in A : k[l] = t} = OfType(Material(ls), t)
  BY <1>1, FiguresAssumption DEF OfType
<1>4. Adding(gross, ls) /\ Adding(gross, ls \ D) /\ Adding(gross, M) /\ Adding(gross, A)
  <2> HIDE DEF M, D, O, N
  <2>1. /\ ls \ D \in SUBSET ls /\ IsFiniteSet(ls \ D) /\ IsFiniteSet(M)
        /\ A \in SUBSET ls /\ IsFiniteSet(A) /\ M \in SUBSET ls
    BY <1>1, FS_Subset
  <2> QED BY <2>1, LinesAdd
<1>5. /\ GrossOf(ls) = Sigma(gross, ls) /\ GrossOf(Delivery(ls)) = Sigma(gross, D)
      /\ OtherKind(ls) = Sigma(gross, O) /\ OtherMaterial(ls) = Sigma(gross, N)
      /\ \A t \in Directions : f[t] = Sigma(gross, {l \in A : k[l] = t})
  <2>1. N \in SUBSET LineT /\ D \in SUBSET LineT /\ O \in SUBSET LineT
        /\ \A t : OfType(Material(ls), t) \in SUBSET LineT
    BY DEF Material, Delivery, OfType
  <2>2. OtherMaterial(ls) = GrossOf(N) /\ OtherKind(ls) = GrossOf(O)
    BY DEF OtherMaterial, OtherKind
  <2>3. \A t \in Directions : f[t] = GrossOf(OfType(Material(ls), t))
    BY DEF Turnover
  <2> HIDE DEF M, D, O, N, k, A
  <2> QED BY <1>3, <2>1, <2>2, <2>3, GrossIsSigma DEF D
<1> HIDE DEF M, D, O, N, k, A
<1>6. Sigma(gross, ls) = Sigma(gross, D) + Sigma(gross, ls \ D)
  BY <1>1, <1>4, SigmaSplit
<1>7. Sigma(gross, ls \ D) = Sigma(gross, O) + Sigma(gross, M)
  BY <1>1, <1>4, SigmaSplit
<1>8. Sigma(gross, M) = Sigma(gross, N) + Sigma(gross, A)
  BY <1>1, <1>4, SigmaSplit DEF A
<1>9. Sigma(gross, A) = Sigma([t \in Directions |-> Sigma(gross, {l \in A : k[l] = t})], Directions)
  BY <1>2, <1>4, FiguresAssumption, SigmaGroups
<1>10. [t \in Directions |-> Sigma(gross, {l \in A : k[l] = t})] = f
  BY <1>5
<1>11. SumDirections(f) = Sigma(gross, A)
  BY <1>9, <1>10, DirectionsAddUp
<1>12. Sigma(gross, D) \in Int /\ Sigma(gross, O) \in Int /\ Sigma(gross, N) \in Int /\ Sigma(gross, A) \in Int
  <2>1. Adding(gross, D) /\ Adding(gross, O) /\ Adding(gross, N)
    BY <1>1, <1>4, FS_Subset DEF Adding
  <2> QED BY <1>4, <2>1, SigmaInt
<1> QED BY <1>5, <1>6, <1>7, <1>8, <1>11, <1>12

-----------------------------------------------------------------------------
(* The compensation of the project and of its directions.                   *)

\* The compensations of rows, as the sum takes them.
Comps(rows) ==
  {v \in {[class |-> r.class, from |-> r.from, value |-> r.compensation] : r \in rows} : v.value # None}
value(V) == [v \in V |-> v.value]

LEMMA ValuesAddUp == ASSUME NEW V PROVE MapThenSumSet(LAMBDA v : v.value, V) = Sigma(value(V), V)
<1>1. ASSUME NEW e
      PROVE  e = [s \in SUBSET V |-> IF s = {} THEN 0 ELSE Pick(s).value + e[s \ {Pick(s)}]]
             <=> Adds(e, value(V), V)
  BY PickIn DEF Adds, value
<1>2. (CHOOSE e : e = [s \in SUBSET V |-> IF s = {} THEN 0 ELSE Pick(s).value + e[s \ {Pick(s)}]])
      = CHOOSE e : Adds(e, value(V), V)
  BY <1>1
<1> QED BY <1>2 DEF MapThenSumSet, MapThenFoldSet, Pick, Sigma

LEMMA FullIsSigma ==
  ASSUME NEW rows
  PROVE  FullCompensation(rows) = IF Comps(rows) = {} THEN None ELSE Sigma(value(Comps(rows)), Comps(rows))
<1> DEFINE V == Comps(rows)
<1>1. FullCompensation(rows) = IF V = {} THEN None ELSE MapThenSumSet(LAMBDA v : v.value, V)
  BY DEF FullCompensation, SumOrNone, Comps
<1>2. MapThenSumSet(LAMBDA v : v.value, V) = Sigma(value(V), V)
  <2> HIDE DEF V
  <2> QED BY ValuesAddUp
<1> QED BY <1>1, <1>2

LEMMA ShownAddUp ==
  ASSUME NEW rows, NEW T
  PROVE  MapThenSumSet(LAMBDA t : Overpayment(rows, t), T) = Sigma([t \in T |-> Overpayment(rows, t)], T)
<1> DEFINE g == [t \in T |-> Overpayment(rows, t)]
<1>1. ASSUME NEW e
      PROVE  e = [s \in SUBSET T |-> IF s = {} THEN 0 ELSE Overpayment(rows, Pick(s)) + e[s \ {Pick(s)}]]
             <=> Adds(e, g, T)
  BY PickIn DEF Adds
<1>2. (CHOOSE e : e = [s \in SUBSET T |-> IF s = {} THEN 0 ELSE Overpayment(rows, Pick(s)) + e[s \ {Pick(s)}]])
      = CHOOSE e : Adds(e, g, T)
  <2> HIDE DEF g
  <2> QED BY <1>1
<1> QED BY <1>2 DEF MapThenSumSet, MapThenFoldSet, Pick, Sigma

\* Every row with a compensation belongs to one direction.
LEMMA OverpaymentsMakeUp ==
  ASSUME NEW rows, IsFiniteSet(rows), \A r \in rows : RowSound(r),
         NEW full, full = FullCompensation(rows),
         NEW shown, shown = {t \in Directions : Overpayment(rows, t) # None}
  PROVE  IF full = None THEN shown = {} ELSE full = Sigma([t \in shown |-> Overpayment(rows, t)], shown)
<1> DEFINE V == Comps(rows)
           g == value(V)
           k == [v \in V |-> TypeOf[v.class]]
           of(t) == {v \in V : k[v] = t}
<1>1. Adding(g, V) /\ \A v \in V : k[v] \in Directions
  <2> DEFINE h == [r \in rows |-> [class |-> r.class, from |-> r.from, value |-> r.compensation]]
             H == {h[r] : r \in rows}
  <2>1. V \subseteq H
    BY DEF Comps
  <2>2. IsFiniteSet(H)
    <3> HIDE DEF h
    <3> QED BY ImageFinite
  <2>3. IsFiniteSet(V)
    <3> HIDE DEF V, H
    <3> QED BY <2>1, <2>2, FS_Subset
  <2>4. ASSUME NEW v \in V PROVE v.value \in Int /\ TypeOf[v.class] \in Directions
    <3>1. PICK r \in rows : v.class = r.class /\ v.value = r.compensation /\ r.compensation # None
      BY DEF Comps
    <3>2. RowSound(r)
      OBVIOUS
    <3>3. TypeOf[r.class] \in Types
      BY <3>2, FiguresAssumption DEF RowSound
    <3> HIDE DEF V
    <3> QED BY <3>1, <3>2, <3>3 DEF RowSound, Types
  <2>5. \A v \in V : g[v] = v.value
    BY DEF value
  <2> HIDE DEF V, g
  <2> QED BY <2>3, <2>4, <2>5 DEF Adding, V
<1>2. ASSUME NEW t \in Directions
      PROVE  /\ Comps({r \in rows : r.dir = t}) = of(t)
             /\ Overpayment(rows, t) = IF of(t) = {} THEN None ELSE Sigma(g, of(t))
             /\ Sigma(g, of(t)) \in Int
  <2>1. Comps({r \in rows : r.dir = t}) = of(t)
    <3>1. \A r \in rows : r.dir = TypeOf[r.class]
      BY DEF RowSound
    <3> QED BY <3>1 DEF Comps
  <2>2. Adding(g, of(t)) /\ of(t) \in SUBSET V
    <3> HIDE DEF V, g, k
    <3> QED BY <1>1, FS_Subset DEF Adding
  <2>3. Sigma(value(of(t)), of(t)) = Sigma(g, of(t))
    <3> DEFINE O == of(t)
    <3>1. \A v \in O : g[v] = value(O)[v]
      BY DEF value
    <3> HIDE DEF O, V, g
    <3>2. Sigma(g, O) = Sigma(value(O), O)
      BY <2>2, <3>1, SigmaSame DEF O
    <3> QED BY <3>2 DEF O
  <2> HIDE DEF V, g, k, of
  <2>4. Overpayment(rows, t) = FullCompensation({r \in rows : r.dir = t})
    BY DEF Overpayment
  <2>5. Overpayment(rows, t) = IF of(t) = {} THEN None ELSE Sigma(value(of(t)), of(t))
    BY <2>1, <2>4, FullIsSigma
  <2> QED BY <2>1, <2>2, <2>3, <2>5, SigmaInt
<1>3. full = IF V = {} THEN None ELSE Sigma(g, V)
  BY FullIsSigma
<1> DEFINE sum == [t \in Directions |-> Sigma(g, of(t))]
           over == [t \in shown |-> Overpayment(rows, t)]
<1>4. Sigma(g, V) = Sigma(sum, Directions)
  <2> HIDE DEF V, g, k
  <2> QED BY <1>1, FiguresAssumption, SigmaGroups
<1>5. \A t \in Directions : t \in shown <=> of(t) # {}
  <2> HIDE DEF V, g, k, of
  <2> QED BY <1>2, FiguresAssumption
<1>6. /\ shown \in SUBSET Directions /\ \A t \in shown : sum[t] = over[t] /\ sum[t] \in Int
      /\ \A t \in Directions \ shown : sum[t] = 0
      /\ \A t \in Directions : sum[t] \in Int
  <2> HIDE DEF V, g, k, of
  <2>1. \A t \in Directions \ shown : sum[t] = 0
    BY <1>5, SigmaEmpty
  <2> QED BY <1>2, <1>5, <2>1
<1>7. Sigma(sum, Directions) = Sigma(over, shown)
  <2> HIDE DEF sum, over
  <2>1. Adding(sum, Directions) /\ Adding(sum, shown)
    BY <1>6, FiguresAssumption, FS_Subset DEF Adding
  <2>2. Sigma(sum, Directions) = Sigma(sum, shown)
    BY <1>6, <2>1, SigmaDrop
  <2>3. Sigma(sum, shown) = Sigma(over, shown)
    BY <1>6, <2>1, SigmaSame
  <2> QED BY <2>2, <2>3
<1>8. V = {} => shown = {}
  BY <1>5, <1>6
<1>9. Sigma(g, V) # None
  <2> HIDE DEF V, g
  <2> QED BY <1>1, SigmaInt, FiguresAssumption
<1> HIDE DEF V, g, k, of, sum
<1> QED BY <1>3, <1>4, <1>7, <1>8, <1>9

\* A summary is put together by a series of queries while others change the data.  The
\* compensation of the project is the sum of those it shows for the directions, whatever
\* was committed between the queries; the total is the sum of the parts if nothing was
\* (get_project_summary, _direction_summaries).
THEOREM SummaryIsConsistent == Spec => []SummaryAddsUp
<1>1. DataSound /\ SummarySound => SummaryAddsUp
  <2> SUFFICES ASSUME DataSound, SummarySound, summary.pc = "done" PROVE SummaryAddsUp
    BY DEF SummaryAddsUp
  <2> DEFINE ls == Counted(lines, excluded)
  <2>1. ls \in SUBSET LineT /\ IsFiniteSet(ls)
    BY LinesAreDrawn, FS_Subset DEF Counted
  <2>2. summary.moved = 0 =>
          /\ summary.total = GrossOf(ls) /\ summary.delivery = GrossOf(Delivery(ls))
          /\ summary.other = OtherKind(ls) + OtherMaterial(ls)
          /\ summary.turnover = [t \in Directions |-> Turnover(ls, t)]
    BY DEF SummarySound, Totalled
  <2> HIDE DEF ls
  <2>3. summary.moved = 0 =>
          summary.total = SumDirections(summary.turnover) + summary.delivery + summary.other
    BY <2>1, <2>2, LinesPartition
  <2>4. IsFiniteSet(summary.rows) /\ \A r \in summary.rows : RowSound(r)
    BY DEF SummarySound, RowsAreSound
  <2> DEFINE full == FullCompensation(summary.rows)
             shown == {t \in Directions : Overpayment(summary.rows, t) # None}
  <2>5. IF full = None THEN shown = {}
        ELSE full = Sigma([t \in shown |-> Overpayment(summary.rows, t)], shown)
    BY <2>4, OverpaymentsMakeUp
  <2>6. MapThenSumSet(LAMBDA t : Overpayment(summary.rows, t), shown)
        = Sigma([t \in shown |-> Overpayment(summary.rows, t)], shown)
    <3> HIDE DEF shown
    <3> QED BY ShownAddUp
  <2> QED BY <2>3, <2>5, <2>6 DEF SummaryAddsUp
<1> QED BY <1>1, DataInvariance, SummaryInvariance, PTL

-----------------------------------------------------------------------------
(* The rows of a report, over all months.                                   *)

LEMMA LastDayIsLast ==
  LastDay \in Nat /\ \A i \in Invoices : DateOf[i] <= LastDay
<1> DEFINE k == [i \in Invoices |-> DateOf[i]]
           I == {k[i] : i \in Invoices}
           S == {0} \cup I
<1>1. IsFiniteSet(I)
  <2> HIDE DEF k
  <2> QED BY FiguresAssumption, ImageFinite
<1>2. I \subseteq Nat
  BY FiguresAssumption
<1>3. S = {0} \cup {DateOf[i] : i \in Invoices}
  OBVIOUS
<1>4. IsFiniteSet(S) /\ S \subseteq Int /\ S # {} /\ 0 \in S /\ \A i \in Invoices : DateOf[i] \in S
  <2>1. \A i \in Invoices : DateOf[i] \in I
    OBVIOUS
  <2> HIDE DEF I
  <2>2. IsFiniteSet(S)
    BY <1>1, FS_Singleton, FS_Union
  <2>3. S \subseteq Int
    BY <1>2
  <2> QED BY <2>1, <2>2, <2>3
<1>5. LastDay = Max(S)
  BY <1>3 DEF LastDay
<1>6. \A x \in S : x \in Nat
  BY <1>2
<1> HIDE DEF S, I
<1> QED BY <1>4, <1>5, <1>6, MaxOf

LEMMA OfTwo ==
  ASSUME NEW a \in Int, NEW b \in Int
  PROVE  Max({a, b}) = (IF a >= b THEN a ELSE b) /\ Min({a, b}) = (IF a <= b THEN a ELSE b)
<1> DEFINE S == {a, b}
<1>1. IsFiniteSet(S)
  <2>1. S = {a} \cup {b}
    OBVIOUS
  <2> HIDE DEF S
  <2>2. IsFiniteSet({a} \cup {b})
    BY FS_Singleton, FS_Union
  <2> QED BY <2>1, <2>2
<1>2. S \subseteq Int /\ S # {} /\ a \in S /\ b \in S /\ \A x \in S : x = a \/ x = b
  OBVIOUS
<1>3. Max(S) \in S /\ (\A x \in S : x <= Max(S)) /\ Min(S) \in S /\ \A x \in S : Min(S) <= x
  <2> HIDE DEF S
  <2> QED BY <1>1, <1>2, MaxOf, MinOf
<1> DEFINE hi == Max(S)
           lo == Min(S)
<1> HIDE DEF hi, lo
<1>4. (hi = a \/ hi = b) /\ a <= hi /\ b <= hi /\ (lo = a \/ lo = b) /\ lo <= a /\ lo <= b
  BY <1>2, <1>3 DEF hi, lo
<1>5. hi = (IF a >= b THEN a ELSE b) /\ lo = (IF a <= b THEN a ELSE b)
  BY <1>4
<1> QED BY <1>5 DEF hi, lo

\* The months of a whole report, by number.
month(k) == [from |-> k * MonthDays,
             to |-> IF LastDay <= k * MonthDays + MonthDays - 1 THEN LastDay
                    ELSE k * MonthDays + MonthDays - 1]
Numbers == 0 .. (LastDay \div MonthDays)

\* The months of a report are numbered, and each invoice is in the one of its date.
LEMMA MonthsByNumber ==
  /\ Months(0, LastDay) = {month(k) : k \in Numbers}
  /\ IsFiniteSet(Numbers) /\ Numbers \subseteq Nat
  /\ \A i \in Invoices : MonthOf(i) \in Numbers
  /\ \A k \in Numbers : \A i \in Invoices :
       /\ DateOf[i] \in month(k).from .. month(k).to <=> MonthOf(i) = k
       /\ DateOf[i] \in month(k).from .. month(k).from + MonthDays - 1 <=> MonthOf(i) = k
  /\ \A j, k \in Numbers : month(j).from = month(k).from => j = k
<1> DEFINE D == MonthDays
           L == LastDay
<1>1. D \in Int /\ D > 0 /\ L \in Nat
  BY LastDayIsLast, FiguresAssumption
<1>2. L \div D \in Int /\ 0 \div D = 0
  <2> HIDE DEF D, L
  <2> QED BY <1>1, Quotient
<1>3. IsFiniteSet(Numbers) /\ Numbers \subseteq Nat
  <2> DEFINE q == L \div D
  <2>1. Numbers = 0 .. q /\ q \in Int
    BY <1>2 DEF Numbers
  <2> HIDE DEF q
  <2> QED BY <2>1, FS_Interval
<1>4. ASSUME NEW k \in Numbers
      PROVE  [from |-> Max({0, k * D}), to |-> Min({L, k * D + D - 1})] = month(k)
  <2> DEFINE a == k * D
             b == k * D + D - 1
  <2>1. a \in Int /\ a >= 0 /\ b \in Int
    <3>1. k \in Nat
      BY <1>3
    <3> HIDE DEF D
    <3> QED BY <1>1, <3>1
  <2>2. month(k) = [from |-> a, to |-> IF L <= b THEN L ELSE b]
    BY DEF month
  <2> HIDE DEF a, b, L
  <2>3. Max({0, a}) = a /\ Min({L, b}) = IF L <= b THEN L ELSE b
    <3>1. Max({0, a}) = IF 0 >= a THEN 0 ELSE a
      BY <2>1, OfTwo
    <3>2. Min({L, b}) = IF L <= b THEN L ELSE b
      BY <1>1, <2>1, OfTwo
    <3> QED BY <2>1, <3>1, <3>2
  <2> QED BY <2>2, <2>3 DEF a, b
<1>5. Months(0, LastDay) = {month(k) : k \in Numbers}
  <2>1. Months(0, LastDay) = {[from |-> Max({0, k * D}), to |-> Min({L, k * D + D - 1})] : k \in Numbers}
    BY <1>2 DEF Months, Numbers
  <2> HIDE DEF D, L
  <2> QED BY <1>4, <2>1
<1>6. ASSUME NEW i \in Invoices
      PROVE  /\ DateOf[i] \in Nat /\ DateOf[i] <= L /\ MonthOf(i) = DateOf[i] \div D
             /\ MonthOf(i) \in Numbers
  <2>1. DateOf[i] \in Nat /\ DateOf[i] <= L /\ MonthOf(i) = DateOf[i] \div D
    BY LastDayIsLast, FiguresAssumption DEF MonthOf
  <2> DEFINE x == DateOf[i]
             q == x \div D
             p == L \div D
  <2>2. q \in Int /\ q >= 0 /\ D * q <= x /\ p \in Int /\ L <= D * p + D - 1
    <3> HIDE DEF x, D, L
    <3> QED BY <1>1, <2>1, Quotient DEF x
  <2>3. q <= p
    <3> SUFFICES ASSUME q >= p + 1 PROVE FALSE
      BY <2>2
    <3>1. D * q >= D * (p + 1) /\ D * (p + 1) = D * p + D
      <4> HIDE DEF x, q, p, D, L
      <4> QED BY <1>1, <2>2
    <3> DEFINE u == D * q
               v == D * p
    <3>2. u \in Int /\ v \in Int
      <4> HIDE DEF x, q, p, D, L
      <4> QED BY <1>1, <2>2
    <3> HIDE DEF u, v, x, q, p, D, L
    <3>3. u <= x /\ L <= v + D - 1 /\ u >= v + D /\ x <= L /\ x \in Nat
      BY <2>1, <2>2, <3>1 DEF u, v, x
    <3> QED BY <1>1, <3>2, <3>3
  <2>4. Numbers = 0 .. p
    BY DEF Numbers
  <2> HIDE DEF x, q, p
  <2> QED BY <2>1, <2>2, <2>3, <2>4 DEF q, x
<1>7. ASSUME NEW k \in Numbers, NEW i \in Invoices
      PROVE  /\ DateOf[i] \in month(k).from .. month(k).to <=> MonthOf(i) = k
             /\ DateOf[i] \in month(k).from .. month(k).from + D - 1 <=> MonthOf(i) = k
  <2> DEFINE x == DateOf[i]
             a == k * D
  <2>1. k \in Int /\ a \in Int /\ a = D * k /\ x \in Nat /\ x <= L
    <3>1. k \in Int
      BY <1>3
    <3> HIDE DEF D
    <3> QED BY <1>1, <1>6, <3>1
  <2>2. a <= x /\ x <= a + D - 1 <=> MonthOf(i) = k
    <3>1. MonthOf(i) = x \div D
      BY <1>6
    <3> HIDE DEF x, D, L
    <3>2. /\ D * (x \div D) <= x /\ x <= D * (x \div D) + D - 1
          /\ D * k <= x /\ x <= D * k + D - 1 => x \div D = k
      BY <1>1, <2>1, Quotient
    <3> HIDE DEF a
    <3> QED BY <2>1, <3>1, <3>2
  <2>3. month(k).from = a /\ month(k).to = IF L <= a + D - 1 THEN L ELSE a + D - 1
    BY DEF month
  <2> HIDE DEF x, a, D, L
  <2>4. /\ x \in month(k).from .. month(k).to <=> a <= x /\ x <= a + D - 1
        /\ x \in month(k).from .. month(k).from + D - 1 <=> a <= x /\ x <= a + D - 1
    BY <1>1, <2>1, <2>3
  <2> QED BY <2>2, <2>4 DEF x
<1>8. ASSUME NEW j \in Numbers, NEW k \in Numbers, month(j).from = month(k).from PROVE j = k
  <2>1. j * D = k * D /\ j \in Int /\ k \in Int
    BY <1>3, <1>8 DEF month
  <2> DEFINE e == j - k
  <2>2. e \in Int /\ e * D = 0
    <3> HIDE DEF D
    <3> QED BY <1>1, <2>1
  <2>3. e = 0
    <3> HIDE DEF e, D
    <3> QED BY <1>1, <2>2
  <2> QED BY <2>1, <2>3
<1> QED BY <1>3, <1>5, <1>6, <1>7, <1>8

\* What the queries of month k return, and the row of a class.
dataOf(k, ex) == MonthData(Db, month(k), ex)
rowOf(k, ex, c) == CalcRow(dataOf(k, ex), month(k).from, month(k).to, c)
classesOf(k, ex) == {c \in ClassesOf(dataOf(k, ex).base) : QtyOf(Of(dataOf(k, ex).base, c)) > 0}

\* A row has a deviation where it has a price of its dimension.
PriceSound(r) ==
  /\ r.qty \in Int /\ r.qty > 0 /\ r.deviation \in Int \cup {None}
  /\ r.price \in Nat \cup {None}
  /\ r.deviation # None => r.price # None /\ r.price > 0
  /\ ~r.mismatch /\ r.price # None /\ r.price > 0 => r.deviation # None

\* A row of the right dimension has a deviation if and only if it has a price.
LEMMA RowHasPrice ==
  ASSUME DataSound, NEW d, RowsT(d), Priced(d), NEW from, NEW to, NEW c, QtyOf(Of(d.base, c)) > 0,
         NEW r, r = CalcRow(d, from, to, c)
  PROVE  PriceSound(r)
<1> DEFINE rows == Of(d.base, c)
           q == QtyOf(rows)
           total == GrossOf(rows) + Shared(d, c)
           ref == RefIn(d.refs, c, from, to)
           mismatch == Cardinality(DimsOf(rows)) > 1 \/ (ref # None /\ ref.dim \notin DimsOf(rows))
<1>1. q \in Int /\ q > 0 /\ total \in Int
  <2>1. rows \in SUBSET LineT /\ IsFiniteSet(rows)
    BY FS_Subset DEF Of, RowsT
  <2>2. Shared(d, c) \in Int
    BY SharedIsInt
  <2> QED BY <2>1, <2>2, SumsAreInt
<1>2. ref # None => ref.price \in Nat
  <2> HIDE DEF rows, q, total
  <2>1. ref # None => ref \in refs /\ ref.class = c
    BY RefChosen DEF Priced
  <2> HIDE DEF ref
  <2> QED BY <2>1, InputFacts DEF DataSound, RefsSound, PriceT
<1>3. /\ r.qty = q /\ r.mismatch = mismatch
      /\ r.price = IF ref = None THEN None ELSE ref.price
      /\ r.deviation = IF ref # None /\ ~mismatch /\ ref.price > 0
                       THEN RoundDiv(Excess(total, q, ref.price), Scale) ELSE None
  BY DEF CalcRow
<1> HIDE DEF rows, q, total, ref, mismatch
<1>4. CASE ref = None
  BY <1>1, <1>3, <1>4 DEF PriceSound
<1>5. CASE ref # None
  <2> DEFINE dev == RoundDiv(Excess(total, q, ref.price), Scale)
  <2>1. dev \in Int /\ dev # None /\ ref.price \in Nat /\ ref.price # None
    <3>1. ref.price \in Nat /\ ref.price # None
      BY <1>2, <1>5, FiguresAssumption
    <3>2. dev \in Int
      BY <1>1, <3>1, RoundedIsInt
    <3> HIDE DEF dev
    <3> QED BY <3>1, <3>2, FiguresAssumption
  <2>2. r.price = ref.price /\ r.deviation = IF ~mismatch /\ ref.price > 0 THEN dev ELSE None
    BY <1>3, <1>5
  <2> HIDE DEF dev
  <2> QED BY <1>1, <1>3, <2>1, <2>2 DEF PriceSound
<1> QED BY <1>4, <1>5

\* The rows of a report are told apart by class and month.
LEMMA ReportRows ==
  ASSUME DataSound, NEW ex, NEW rows, rows = CalcRows(Db, 0, LastDay, ex, Types)
  PROVE  /\ IsFiniteSet(rows)
         /\ \A r \in rows : \E k \in Numbers : \E c \in classesOf(k, ex) : r = rowOf(k, ex, c)
         /\ \A k \in Numbers : \A c \in classesOf(k, ex) : rowOf(k, ex, c) \in rows
         /\ \A r \in rows : RowSound(r) /\ PriceSound(r)
         /\ \A r, s \in rows : r.class = s.class /\ r.from = s.from => r = s
<1>1. ASSUME NEW k \in Numbers
      PROVE  RowsT(dataOf(k, ex)) /\ Priced(dataOf(k, ex)) /\ classesOf(k, ex) \subseteq Classes
  <2>1. RowsT(dataOf(k, ex))
    BY MonthSound DEF dataOf
  <2>2. Priced(dataOf(k, ex))
    BY DEF MonthData, Db, Priced, DataSound, RulesSound, dataOf
  <2>3. classesOf(k, ex) \subseteq Classes
    BY <2>1 DEF RowsT, classesOf, ClassesOf
  <2> QED BY <2>1, <2>2, <2>3
<1>2. ASSUME NEW k \in Numbers, NEW c \in classesOf(k, ex)
      PROVE  /\ RowSound(rowOf(k, ex, c)) /\ PriceSound(rowOf(k, ex, c))
             /\ rowOf(k, ex, c).class = c /\ rowOf(k, ex, c).dir = TypeOf[c]
             /\ rowOf(k, ex, c).from = month(k).from
  <2>1. c \in Classes /\ QtyOf(Of(dataOf(k, ex).base, c)) > 0
    BY <1>1 DEF classesOf
  <2>2. RowSound(rowOf(k, ex, c)) /\ PriceSound(rowOf(k, ex, c))
    BY <1>1, <2>1, RowIsSound, RowHasPrice DEF rowOf
  <2> QED BY <2>2 DEF rowOf, CalcRow
<1> DEFINE all == UNION {MonthRows(MonthData(Db, m, ex), m) : m \in Months(0, LastDay)}
           of(k) == {rowOf(k, ex, c) : c \in classesOf(k, ex)}
<1>3. ASSUME NEW k \in Numbers PROVE MonthRows(MonthData(Db, month(k), ex), month(k)) = of(k)
  BY DEF MonthRows, rowOf, classesOf, dataOf
<1>4. all = UNION {of(k) : k \in Numbers}
  <2>1. Months(0, LastDay) = {month(k) : k \in Numbers}
    BY MonthsByNumber
  <2> HIDE DEF of
  <2> QED BY <1>3, <2>1
<1>5. rows = all
  <2>1. rows = {r \in all : r.dir \in Types}
    BY DEF CalcRows
  <2>2. \A r \in all : r.dir \in Types
    <3> SUFFICES ASSUME NEW k \in Numbers, NEW r \in of(k) PROVE r.dir \in Types
      <4> HIDE DEF all, of
      <4> QED BY <1>4
    <3>1. PICK c \in classesOf(k, ex) : r = rowOf(k, ex, c)
      OBVIOUS
    <3> QED BY <1>1, <1>2, <3>1, FiguresAssumption
  <2> HIDE DEF all
  <2> QED BY <2>1, <2>2
<1>6. IsFiniteSet(rows)
  <2> DEFINE f == [k \in Numbers |-> of(k)]
             F == {f[k] : k \in Numbers}
  <2>1. IsFiniteSet(F)
    <3> HIDE DEF f
    <3> QED BY MonthsByNumber, ImageFinite
  <2>2. ASSUME NEW k \in Numbers PROVE IsFiniteSet(of(k))
    <3>1. IsFiniteSet(MonthRows(MonthData(Db, month(k), ex), month(k)))
      BY <1>1, MonthRowsSound DEF dataOf
    <3> QED BY <1>3, <3>1
  <2>3. F = {of(k) : k \in Numbers}
    OBVIOUS
  <2>4. \A T \in F : IsFiniteSet(T)
    <3> HIDE DEF of
    <3> QED BY <2>2
  <2>5. IsFiniteSet(UNION F)
    <3> HIDE DEF F
    <3> QED BY <2>1, <2>4, FS_UNION
  <2> HIDE DEF F, all, of
  <2> QED BY <1>4, <1>5, <2>3, <2>5
<1>7. \A r \in rows : \E k \in Numbers : \E c \in classesOf(k, ex) : r = rowOf(k, ex, c)
  BY <1>4, <1>5
<1>8. \A k \in Numbers : \A c \in classesOf(k, ex) : rowOf(k, ex, c) \in rows
  <2> SUFFICES ASSUME NEW k \in Numbers, NEW c \in classesOf(k, ex) PROVE rowOf(k, ex, c) \in all
    BY <1>5
  <2>1. rowOf(k, ex, c) \in of(k)
    OBVIOUS
  <2> HIDE DEF of, all
  <2> QED BY <1>4, <2>1
<1> HIDE DEF all, of
<1>9. \A r \in rows : RowSound(r) /\ PriceSound(r)
  BY <1>2, <1>7
<1>10. ASSUME NEW r \in rows, NEW s \in rows, r.class = s.class, r.from = s.from PROVE r = s
  <2>1. PICK j \in Numbers : \E b \in classesOf(j, ex) : r = rowOf(j, ex, b)
    BY <1>7
  <2>2. PICK k \in Numbers : \E c \in classesOf(k, ex) : s = rowOf(k, ex, c)
    BY <1>7
  <2>5. PICK b \in classesOf(j, ex) : r = rowOf(j, ex, b)
    BY <2>1
  <2>6. PICK c \in classesOf(k, ex) : s = rowOf(k, ex, c)
    BY <2>2
  <2>3. month(j).from = month(k).from /\ b = c
    BY <1>2, <1>10, <2>5, <2>6
  <2>4. j = k
    BY <2>3, MonthsByNumber
  <2> QED BY <2>5, <2>6, <2>3, <2>4
<1> QED BY <1>6, <1>7, <1>8, <1>9, <1>10

-----------------------------------------------------------------------------
(* The chart: what the pages add up by class.                               *)

\* Values that are known, under a class.
Known(W) == {v \in W : v.value # None}
total(K) == IF K = {} THEN None ELSE Sigma(value(K), K)

LEMMA KnownAddUp == ASSUME NEW W PROVE SumOrNone(W) = total(Known(W))
<1> DEFINE V == Known(W)
<1>1. SumOrNone(W) = IF V = {} THEN None ELSE MapThenSumSet(LAMBDA v : v.value, V)
  BY DEF SumOrNone, Known
<1>2. MapThenSumSet(LAMBDA v : v.value, V) = Sigma(value(V), V)
  <2> HIDE DEF V
  <2> QED BY ValuesAddUp
<1> QED BY <1>1, <1>2 DEF total

\* Known values are added up class by class.
LEMMA ByClass ==
  ASSUME NEW K, IsFiniteSet(K), NEW C, IsFiniteSet(C), \A v \in K : v.value \in Int /\ v.class \in C,
         NEW G, G = {[class |-> c, value |-> total({v \in K : v.class = c})] : c \in C}
  PROVE  SumOrNone(G) = total(K)
<1> DEFINE of(c) == {v \in K : v.class = c}
           P == {c \in C : of(c) # {}}
           k == [c \in P |-> [class |-> c, value |-> total(of(c))]]
           g == value(K)
           cl == [v \in K |-> v.class]
           s == [c \in C |-> Sigma(g, of(c))]
           h == [c \in P |-> total(of(c))]
           KG == {k[c] : c \in P}
<1>1. Adding(g, K) /\ \A v \in K : cl[v] \in C
  BY DEF value, Adding
<1>2. ASSUME NEW c \in C
      PROVE  /\ s[c] \in Int /\ s[c] = Sigma(value(of(c)), of(c))
             /\ (c \in P => total(of(c)) = s[c]) /\ (c \notin P => total(of(c)) = None /\ s[c] = 0)
  <2> DEFINE O == of(c)
  <2>1. O \in SUBSET K /\ IsFiniteSet(O) /\ \A v \in O : g[v] \in Int /\ g[v] = value(O)[v]
    BY FS_Subset DEF value
  <2>2. s[c] = Sigma(g, O)
    OBVIOUS
  <2>3. c \in P <=> O # {}
    OBVIOUS
  <2> HIDE DEF O, g, P, s
  <2>4. Sigma(g, O) \in Int
    BY <2>1, SigmaInt DEF Adding
  <2>5. Sigma(g, O) = Sigma(value(O), O)
    BY <2>1, SigmaSame DEF Adding
  <2>6. O = {} => Sigma(g, O) = 0
    BY SigmaEmpty
  <2>7. total(O) = IF O = {} THEN None ELSE s[c]
    BY <2>2, <2>5 DEF total
  <2> QED BY <2>2, <2>3, <2>4, <2>5, <2>6, <2>7 DEF O
<1>3. P \in SUBSET C /\ IsFiniteSet(P)
  <2>1. P \in SUBSET C
    OBVIOUS
  <2> HIDE DEF P
  <2> QED BY <2>1, FS_Subset
<1>4. Known(G) = KG
  <2>1. \A c \in P : total(of(c)) # None
    <3> HIDE DEF of, P, s
    <3> QED BY <1>2, <1>3, FiguresAssumption
  <2>2. \A c \in C \ P : total(of(c)) = None
    <3> HIDE DEF of, P, s
    <3> QED BY <1>2
  <2>3. KG = {[class |-> c, value |-> total(of(c))] : c \in P}
    OBVIOUS
  <2> DEFINE t(c) == total(of(c))
  <2>4. G = {[class |-> c, value |-> t(c)] : c \in C} /\ KG = {[class |-> c, value |-> t(c)] : c \in P}
    BY <2>3
  <2>5. (\A c \in P : t(c) # None) /\ (\A c \in C \ P : t(c) = None)
    BY <2>1, <2>2
  <2> HIDE DEF of, P, KG, s, t
  <2>6. ASSUME NEW v \in Known(G) PROVE v \in KG
    <3>1. PICK c \in C : v = [class |-> c, value |-> t(c)]
      BY <2>4 DEF Known
    <3>2. t(c) # None
      BY <3>1 DEF Known
    <3> QED BY <2>4, <2>5, <3>1, <3>2
  <2>7. ASSUME NEW v \in KG PROVE v \in Known(G)
    <3>1. PICK c \in P : v = [class |-> c, value |-> t(c)]
      BY <2>4
    <3>2. v \in G /\ v.value = t(c)
      BY <1>3, <2>4, <3>1
    <3> QED BY <2>5, <3>2 DEF Known
  <2> QED BY <2>6, <2>7
<1>5. Sigma(value(KG), KG) = Sigma(h, P)
  <2>1. \A b, c \in P : k[b] = k[c] => b = c
    OBVIOUS
  <2>2. \A c \in P : h[c] = value(KG)[k[c]]
    BY DEF value
  <2>3. \A c \in P : h[c] \in Int
    <3>1. \A c \in P : h[c] = total(of(c))
      OBVIOUS
    <3> HIDE DEF of, P, h, s
    <3> QED BY <1>2, <1>3, <3>1
  <2> DEFINE u == value(KG)
  <2> HIDE DEF k, P, h, u
  <2>4. Sigma(u, {k[c] : c \in P}) = Sigma(h, P)
    BY <1>3, <2>1, <2>2, <2>3, SigmaImage DEF u
  <2> QED BY <2>4 DEF u
<1>6. Sigma(g, K) = Sigma(s, C)
  <2> HIDE DEF g, cl
  <2>1. Sigma(g, K) = Sigma([c \in C |-> Sigma(g, {v \in K : cl[v] = c})], C)
    BY <1>1, SigmaGroups
  <2>2. \A c \in C : {v \in K : cl[v] = c} = of(c)
    BY DEF cl
  <2> QED BY <2>1, <2>2
<1>7. Sigma(s, C) = Sigma(h, P)
  <2>1. \A c \in P : h[c] = total(of(c))
    OBVIOUS
  <2> HIDE DEF s, h, P, of
  <2>2. Adding(s, C) /\ Adding(s, P) /\ (\A c \in C \ P : s[c] = 0) /\ \A c \in P : s[c] = h[c]
    BY <1>2, <1>3, <2>1 DEF Adding
  <2>3. Sigma(s, C) = Sigma(s, P)
    BY <1>3, <2>2, SigmaDrop
  <2>4. Sigma(s, P) = Sigma(h, P)
    BY <2>2, SigmaSame
  <2> QED BY <2>3, <2>4
<1>8. K = {} <=> KG = {}
  <2>1. KG = {} <=> P = {}
    OBVIOUS
  <2>2. P = {} <=> K = {}
    OBVIOUS
  <2> QED BY <2>1, <2>2
<1> HIDE DEF KG, k, s, h, P, of, cl
<1> QED BY <1>4, <1>5, <1>6, <1>7, <1>8, KnownAddUp DEF total, g

ClassesFinite(rows) == IsFiniteSet(rows) => IsFiniteSet(ClassesOf(rows))
LEMMA ClassesAreFinite == ASSUME NEW rows PROVE ClassesFinite(rows)
<1> DEFINE k == [r \in rows |-> r.class]
<1>1. ClassesOf(rows) = {k[r] : r \in rows}
  BY DEF ClassesOf
<1> HIDE DEF k
<1> QED BY <1>1, ImageFinite DEF ClassesFinite

\* Bars add up the months of a class first; the banner is the same.
LEMMA BannerAgrees ==
  ASSUME NEW rows, IsFiniteSet(rows), \A r \in rows : r.compensation \in Int \cup {None}
  PROVE  TotalBannerComp(rows) = FullCompensation(rows)
<1> DEFINE C == ClassesOf(rows)
           K == Comps(rows)
           G == {[class |-> a.class, value |-> a.compensation] : a \in AggregateCalcs(rows)}
<1>1. \A R : FullCompensation(R) = total(Comps(R))
  BY FullIsSigma DEF total
<1>2. \A c : Comps(Of(rows, c)) = {v \in K : v.class = c}
  BY DEF Comps, Of
<1>3. IsFiniteSet(K) /\ \A v \in K : v.value \in Int /\ v.class \in C
  <2> DEFINE h == [r \in rows |-> [class |-> r.class, from |-> r.from, value |-> r.compensation]]
             H == {h[r] : r \in rows}
  <2>1. K \subseteq H
    BY DEF Comps
  <2>2. IsFiniteSet(H)
    <3> HIDE DEF h
    <3> QED BY ImageFinite
  <2>3. IsFiniteSet(K)
    <3> HIDE DEF K, H
    <3> QED BY <2>1, <2>2, FS_Subset
  <2>4. \A v \in K : v.value \in Int /\ v.class \in C
    BY DEF Comps, ClassesOf
  <2> QED BY <2>3, <2>4
<1>4. G = {[class |-> c, value |-> total({v \in K : v.class = c})] : c \in C}
  <2> DEFINE t(c) == total({v \in K : v.class = c})
  <2>1. \A c : Aggregated(rows, c).class = c /\ Aggregated(rows, c).compensation = FullCompensation(Of(rows, c))
    BY DEF Aggregated
  <2>2. \A c : FullCompensation(Of(rows, c)) = t(c)
    <3> HIDE DEF K
    <3> QED BY <1>1, <1>2
  <2>3. G = {[class |-> Aggregated(rows, c).class, value |-> Aggregated(rows, c).compensation] : c \in C}
    BY DEF AggregateCalcs
  <2> HIDE DEF t, C, G
  <2>4. G = {[class |-> c, value |-> t(c)] : c \in C}
    BY <2>1, <2>2, <2>3
  <2> QED BY <2>4 DEF t
<1>5. IsFiniteSet(C)
  BY ClassesAreFinite DEF ClassesFinite
<1>6. TotalBannerComp(rows) = SumOrNone(G)
  BY DEF TotalBannerComp
<1> HIDE DEF G, K, C
<1>7. SumOrNone(G) = total(K)
  BY <1>3, <1>4, <1>5, ByClass
<1> QED BY <1>1, <1>6, <1>7 DEF K

LEMMA ReferenceIsSigma ==
  ASSUME NEW S
  PROVE  MapThenSumSet(LAMBDA r : r.price * r.qty, S) = Sigma([r \in S |-> r.price * r.qty], S)
<1> DEFINE g == [r \in S |-> r.price * r.qty]
<1>1. ASSUME NEW e
      PROVE  e = [s \in SUBSET S |-> IF s = {} THEN 0 ELSE Pick(s).price * Pick(s).qty + e[s \ {Pick(s)}]]
             <=> Adds(e, g, S)
  BY PickIn DEF Adds
<1>2. (CHOOSE e : e = [s \in SUBSET S |-> IF s = {} THEN 0
                                          ELSE Pick(s).price * Pick(s).qty + e[s \ {Pick(s)}]])
      = CHOOSE e : Adds(e, g, S)
  <2> HIDE DEF g
  <2> QED BY <1>1
<1> QED BY <1>2 DEF MapThenSumSet, MapThenFoldSet, Pick, Sigma

LEMMA DeviationIsSigma ==
  ASSUME NEW S
  PROVE  MapThenSumSet(LAMBDA r : OrZero(r.deviation), S) = Sigma([r \in S |-> OrZero(r.deviation)], S)
<1> DEFINE g == [r \in S |-> OrZero(r.deviation)]
<1>1. ASSUME NEW e
      PROVE  e = [s \in SUBSET S |-> IF s = {} THEN 0 ELSE OrZero(Pick(s).deviation) + e[s \ {Pick(s)}]]
             <=> Adds(e, g, S)
  BY PickIn DEF Adds
<1>2. (CHOOSE e : e = [s \in SUBSET S |-> IF s = {} THEN 0
                                          ELSE OrZero(Pick(s).deviation) + e[s \ {Pick(s)}]])
      = CHOOSE e : Adds(e, g, S)
  <2> HIDE DEF g
  <2> QED BY <1>1
<1> QED BY <1>2 DEF MapThenSumSet, MapThenFoldSet, Pick, Sigma

\* The deviations of rows, as the sum takes them.
Devs(rows) == Known({[class |-> r.class, from |-> r.from, value |-> r.deviation] : r \in rows})

\* The bar of a class.
LEMMA BarOfClass ==
  ASSUME NEW rows, IsFiniteSet(rows), \A r \in rows : PriceSound(r) /\ ~r.mismatch,
         \A r, s \in rows : r.class = s.class /\ r.from = s.from => r = s,
         NEW c, NEW a, a = Aggregated(rows, c)
  PROVE  /\ a.class = c /\ a.deviation = total({v \in Devs(rows) : v.class = c})
         /\ HasBar(a) <=> a.deviation # None
         /\ a.deviation = None <=> \A r \in Of(rows, c) : r.deviation = None
<1> DEFINE covered == CoveredRows(Of(rows, c))
           ref == MapThenSumSet(LAMBDA r : r.price * r.qty, covered)
           dev == MapThenSumSet(LAMBDA r : OrZero(r.deviation), covered)
           g == [r \in covered |-> r.price * r.qty]
           h == [r \in covered |-> OrZero(r.deviation)]
           k == [r \in covered |-> [class |-> r.class, from |-> r.from, value |-> r.deviation]]
           K == {v \in Devs(rows) : v.class = c}
<1>1. a.class = c /\ a.reference = ref /\ a.deviation = IF covered = {} THEN None ELSE dev
  BY DEF Aggregated
<1>2. ref = Sigma(g, covered) /\ dev = Sigma(h, covered)
  <2> HIDE DEF covered
  <2> QED BY ReferenceIsSigma, DeviationIsSigma
<1>3. \A r \in Of(rows, c) : r \in rows /\ r.class = c /\ (r \in covered <=> r.deviation # None)
  BY DEF CoveredRows, Of, PriceSound
<1>4. covered \in SUBSET rows /\ IsFiniteSet(covered) /\ \A r \in covered : r.class = c
  <2>1. covered \in SUBSET rows /\ \A r \in covered : r.class = c
    BY DEF CoveredRows, Of
  <2> HIDE DEF covered
  <2> QED BY <2>1, FS_Subset
<1>5. ASSUME NEW r \in covered
      PROVE  /\ g[r] \in Int /\ g[r] > 0 /\ h[r] \in Int /\ h[r] = r.deviation /\ r.deviation # None
             /\ k[r] = [class |-> c, from |-> r.from, value |-> r.deviation]
  <2>1. r \in rows /\ r.price \in Nat /\ r.price > 0 /\ r.qty \in Int /\ r.qty > 0 /\ r.deviation \in Int
        /\ r.deviation # None /\ r.class = c
    BY <1>4, FiguresAssumption DEF CoveredRows, Of, PriceSound
  <2>2. r.price * r.qty \in Int /\ r.price * r.qty > 0
    <3> DEFINE x == r.price
               y == r.qty
    <3> HIDE DEF x, y
    <3>1. x * y \in Int /\ x * y > 0
      BY <2>1 DEF x, y
    <3> QED BY <3>1 DEF x, y
  <2> QED BY <2>1, <2>2 DEF OrZero
<1>6. K = {k[r] : r \in covered}
  <2>1. ASSUME NEW v \in K PROVE v \in {k[r] : r \in covered}
    <3>1. PICK r \in rows : v = [class |-> r.class, from |-> r.from, value |-> r.deviation] /\ v.value # None
      BY DEF Devs, Known
    <3>2. r \in covered
      BY <1>3, <3>1 DEF Of
    <3> QED BY <3>1, <3>2
  <2>2. ASSUME NEW r \in covered PROVE k[r] \in K
    BY <1>4, <1>5 DEF Devs, Known
  <2> QED BY <2>1, <2>2
<1>7. Sigma(value(K), K) = Sigma(h, covered)
  <2> DEFINE u == value(K)
  <2>1. \A r, s \in covered : k[r] = k[s] => r = s
    <3> SUFFICES ASSUME NEW r \in covered, NEW s \in covered, k[r] = k[s] PROVE r = s
      OBVIOUS
    <3>1. r.from = s.from /\ r.class = s.class
      BY <1>4, <1>5
    <3> QED BY <1>4, <3>1
  <2>2. \A r \in covered : h[r] = u[k[r]] /\ h[r] \in Int
    <3> SUFFICES ASSUME NEW r \in covered PROVE h[r] = u[k[r]] /\ h[r] \in Int
      OBVIOUS
    <3>1. k[r] \in K
      BY <1>6
    <3>2. k[r].value = r.deviation
      BY <1>5
    <3> HIDE DEF K, covered, h, k
    <3>3. u[k[r]] = k[r].value
      BY <3>1 DEF value
    <3> QED BY <1>5, <3>2, <3>3
  <2> HIDE DEF u, k, h, covered, K
  <2>3. Sigma(u, {k[r] : r \in covered}) = Sigma(h, covered)
    BY <1>4, <2>1, <2>2, SigmaImage
  <2> QED BY <1>6, <2>3 DEF u
<1>8. K = {} <=> covered = {}
  <2> HIDE DEF K, covered, k
  <2> QED BY <1>6
<1>9. covered # {} => ref > 0 /\ dev # None
  <2>1. covered # {} => Sigma(g, covered) \in Int /\ Sigma(g, covered) > 0
    <3> HIDE DEF covered, g, h, k
    <3> QED BY <1>4, <1>5, SigmaPositive
  <2>2. Sigma(h, covered) \in Int
    <3> HIDE DEF covered, g, h, k
    <3> QED BY <1>4, <1>5, SigmaInt DEF Adding
  <2> HIDE DEF covered, g, h, ref, dev
  <2> QED BY <1>2, <2>1, <2>2, FiguresAssumption
<1>10. covered = {} <=> \A r \in Of(rows, c) : r.deviation = None
  <2>1. covered \subseteq Of(rows, c)
    BY DEF CoveredRows
  <2> HIDE DEF covered
  <2> QED BY <1>3, <2>1
<1> HIDE DEF covered, ref, dev, g, h, k, K
<1>11. a.deviation = total(K)
  BY <1>1, <1>2, <1>7, <1>8 DEF total
<1>12. (a.deviation = None <=> covered = {}) /\ (HasBar(a) <=> a.deviation # None)
  BY <1>1, <1>9 DEF HasBar
<1> QED BY <1>1, <1>10, <1>11, <1>12 DEF K

\* Where no dimension is mismatched, the bars make up the deviation.
LEMMA BarsAgree ==
  ASSUME NEW rows, IsFiniteSet(rows), \A r \in rows : PriceSound(r) /\ ~r.mismatch,
         \A r, s \in rows : r.class = s.class /\ r.from = s.from => r = s
  PROVE  /\ SumOrNone({[class |-> a.class, value |-> a.deviation] : a \in Bars(rows)}) = FullDeviation(rows)
         /\ ClassesOf(WithoutPrice(rows))
            = {c \in ClassesOf(rows) : \A r \in Of(rows, c) : r.deviation = None}
<1> DEFINE C == ClassesOf(rows)
           K == Devs(rows)
           A == [c \in C |-> Aggregated(rows, c)]
           B == {[class |-> a.class, value |-> a.deviation] : a \in Bars(rows)}
           G == {[class |-> c, value |-> total({v \in K : v.class = c})] : c \in C}
<1>1. IsFiniteSet(C)
  BY ClassesAreFinite DEF ClassesFinite
<1>2. IsFiniteSet(K) /\ \A v \in K : v.value \in Int /\ v.class \in C
  <2> DEFINE h == [r \in rows |-> [class |-> r.class, from |-> r.from, value |-> r.deviation]]
             H == {h[r] : r \in rows}
  <2>1. K \subseteq H
    BY DEF Devs, Known
  <2>2. IsFiniteSet(H)
    <3> HIDE DEF h
    <3> QED BY ImageFinite
  <2>3. IsFiniteSet(K)
    <3> HIDE DEF K, H
    <3> QED BY <2>1, <2>2, FS_Subset
  <2>4. \A v \in K : v.value \in Int /\ v.class \in C
    BY DEF Devs, Known, ClassesOf, PriceSound
  <2> QED BY <2>3, <2>4
<1>3. ASSUME NEW c \in C
      PROVE  /\ A[c].class = c /\ A[c].deviation = total({v \in K : v.class = c})
             /\ HasBar(A[c]) <=> A[c].deviation # None
             /\ A[c].deviation = None <=> \A r \in Of(rows, c) : r.deviation = None
  <2> DEFINE a == A[c]
  <2>1. a = Aggregated(rows, c)
    OBVIOUS
  <2> HIDE DEF a, A, C
  <2> QED BY <2>1, BarOfClass DEF a
<1>4. AggregateCalcs(rows) = {A[c] : c \in C}
  BY DEF AggregateCalcs
<1>5. Known(B) = Known(G)
  <2>0. B = {[class |-> a.class, value |-> a.deviation] : a \in {x \in {A[c] : c \in C} : HasBar(x)}}
    BY <1>4 DEF Bars
  <2> HIDE DEF A, B, C, K
  <2>1. ASSUME NEW v \in Known(B) PROVE v \in Known(G)
    <3>1. PICK c \in C : v = [class |-> A[c].class, value |-> A[c].deviation] /\ v.value # None
      BY <2>0 DEF Known
    <3>2. v = [class |-> c, value |-> total({w \in K : w.class = c})]
      BY <1>3, <3>1
    <3> QED BY <3>1, <3>2 DEF Known
  <2>2. ASSUME NEW v \in Known(G) PROVE v \in Known(B)
    <3>1. PICK c \in C : v = [class |-> c, value |-> total({w \in K : w.class = c})] /\ v.value # None
      BY DEF Known
    <3>2. v = [class |-> A[c].class, value |-> A[c].deviation] /\ A[c].deviation # None /\ HasBar(A[c])
      BY <1>3, <3>1
    <3>3. v \in B
      BY <2>0, <3>2
    <3> QED BY <3>1, <3>3 DEF Known
  <2> QED BY <2>1, <2>2
<1>6. SumOrNone(B) = SumOrNone(G)
  <2> HIDE DEF B, G
  <2> QED BY <1>5, KnownAddUp
<1>7. SumOrNone(G) = total(K)
  <2> HIDE DEF K, C
  <2> QED BY <1>1, <1>2, ByClass
<1>8. FullDeviation(rows) = total(K)
  BY KnownAddUp DEF FullDeviation, Devs
<1>9. ClassesOf(WithoutPrice(rows)) = {c \in C : \A r \in Of(rows, c) : r.deviation = None}
  <2>0. ClassesOf(WithoutPrice(rows)) = {a.class : a \in {x \in {A[c] : c \in C} : ~HasBar(x)}}
    BY <1>4 DEF WithoutPrice, ClassesOf
  <2> DEFINE bare(c) == \A r \in Of(rows, c) : r.deviation = None
  <2>1. \A c \in C : A[c].class = c /\ (~HasBar(A[c]) <=> bare(c))
    <3> HIDE DEF A, C, K
    <3> QED BY <1>3
  <2> HIDE DEF A, C, K, bare
  <2>2. {a.class : a \in {x \in {A[c] : c \in C} : ~HasBar(x)}} = {c \in C : bare(c)}
    BY <2>1
  <2> QED BY <2>0, <2>2 DEF bare
<1> HIDE DEF B, G, C, K
<1> QED BY <1>6, <1>7, <1>8, <1>9 DEF B, C

LEMMA ChartIsRight == DataSound => ChartAgrees
<1> SUFFICES ASSUME DataSound PROVE ChartAgrees
  OBVIOUS
<1> DEFINE rows == CalcRows(Db, 0, LastDay, excluded, Types)
<1>1. /\ IsFiniteSet(rows) /\ \A r \in rows : RowSound(r) /\ PriceSound(r)
      /\ \A r, s \in rows : r.class = s.class /\ r.from = s.from => r = s
  BY ReportRows
<1> HIDE DEF rows
<1>2. ASSUME NEW R \in SUBSET rows PROVE TotalBannerComp(R) = FullCompensation(R)
  <2>1. IsFiniteSet(R) /\ \A r \in R : r.compensation \in Int \cup {None}
    BY <1>1, FS_Subset DEF RowSound
  <2> QED BY <2>1, BannerAgrees
<1>3. \A t \in Directions : Subtotal(rows, t) = Overpayment(rows, t)
  <2> SUFFICES ASSUME NEW t \in Directions PROVE Subtotal(rows, t) = Overpayment(rows, t)
    OBVIOUS
  <2> DEFINE R == {r \in rows : r.dir = t}
  <2>1. R \in SUBSET rows
    OBVIOUS
  <2>2. Subtotal(rows, t) = TotalBannerComp(R) /\ Overpayment(rows, t) = FullCompensation(R)
    BY DEF Subtotal, Section, Overpayment
  <2> HIDE DEF R
  <2> QED BY <1>2, <2>1, <2>2
<1>4. TotalBannerComp(rows) = FullCompensation(rows)
  BY <1>2
<1>5. (\A r \in rows : ~r.mismatch) =>
        /\ SumOrNone({[class |-> a.class, value |-> a.deviation] : a \in Bars(rows)}) = FullDeviation(rows)
        /\ ClassesOf(WithoutPrice(rows)) = {c \in ClassesOf(rows) : \A r \in Of(rows, c) : r.deviation = None}
  BY <1>1, BarsAgree
<1> QED BY <1>3, <1>4, <1>5 DEF ChartAgrees, rows

-----------------------------------------------------------------------------
(* The tab of months.                                                       *)

LEMMA TotalsAreSigma ==
  ASSUME NEW b, NEW S, S = DOMAIN b
  PROVE  /\ MonthTotals(b).amount = Sigma([m \in S |-> MonthRow(b[m]).amount], S)
         /\ MonthTotals(b).qty = Sigma([m \in S |-> MonthRow(b[m]).qty], S)
<1> DEFINE g == [m \in S |-> MonthRow(b[m]).amount]
           h == [m \in S |-> MonthRow(b[m]).qty]
<1>1. ASSUME NEW e
      PROVE  /\ e = [s \in SUBSET S |-> IF s = {} THEN 0 ELSE MonthRow(b[Pick(s)]).amount + e[s \ {Pick(s)}]]
                <=> Adds(e, g, S)
             /\ e = [s \in SUBSET S |-> IF s = {} THEN 0 ELSE MonthRow(b[Pick(s)]).qty + e[s \ {Pick(s)}]]
                <=> Adds(e, h, S)
  BY PickIn DEF Adds
<1>2. (CHOOSE e : e = [s \in SUBSET S |-> IF s = {} THEN 0
                                          ELSE MonthRow(b[Pick(s)]).amount + e[s \ {Pick(s)}]])
      = CHOOSE e : Adds(e, g, S)
  <2> HIDE DEF g, h
  <2> QED BY <1>1
<1>3. (CHOOSE e : e = [s \in SUBSET S |-> IF s = {} THEN 0
                                          ELSE MonthRow(b[Pick(s)]).qty + e[s \ {Pick(s)}]])
      = CHOOSE e : Adds(e, h, S)
  <2> HIDE DEF g, h
  <2> QED BY <1>1
<1>4. /\ MonthTotals(b).amount = MapThenSumSet(LAMBDA m : MonthRow(b[m]).amount, DOMAIN b)
      /\ MonthTotals(b).qty = MapThenSumSet(LAMBDA m : MonthRow(b[m]).qty, DOMAIN b)
  BY DEF MonthTotals
<1>5. MapThenSumSet(LAMBDA m : MonthRow(b[m]).amount, S) = Sigma(g, S)
  BY <1>2 DEF MapThenSumSet, MapThenFoldSet, Pick, Sigma
<1>6. MapThenSumSet(LAMBDA m : MonthRow(b[m]).qty, S) = Sigma(h, S)
  BY <1>3 DEF MapThenSumSet, MapThenFoldSet, Pick, Sigma
<1> QED BY <1>4, <1>5, <1>6

\* Months without an invoice add nothing.
LEMMA MonthsMakeUp ==
  ASSUME NEW ls \in SUBSET LineT, IsFiniteSet(ls), NEW t \in Directions,
         NEW raw, raw = MonthlySummary(ls, t), raw # {},
         NEW totals, totals = MonthTotals(BuildFullSequence(raw))
  PROVE  totals.amount = Turnover(ls, t) /\ totals.qty = MonthlyVolume(ls, t)
<1> DEFINE mine == OfType(Material(ls), t)
           vol == {l \in Base(ls) : TypeOf[l.class] = t /\ l.dim = DimOf[t]}
           of(m) == {l \in mine : MonthOf(l.inv) = m}
           volOf(m) == {l \in vol : MonthOf(l.inv) = m}
           M == {MonthOf(l.inv) : l \in mine}
           B(m) == [month |-> m, amount |-> GrossOf(of(m)), qty |-> MonthlyVolume(of(m), t),
                    invoices |-> Cardinality(InvoicesOf(of(m)))]
           S == Min(M) .. Max(M)
           k == [l \in ls |-> MonthOf(l.inv)]
           buckets == BuildFullSequence(raw)
<1>1. mine \in SUBSET ls /\ vol \in SUBSET mine
  BY DEF OfType, Material, Base
<1>2. /\ mine \in SUBSET LineT /\ IsFiniteSet(mine) /\ vol \in SUBSET LineT /\ IsFiniteSet(vol)
      /\ \A m : of(m) \in SUBSET LineT /\ volOf(m) \in SUBSET LineT
  <2>1. IsFiniteSet(mine)
    <3> HIDE DEF mine, vol
    <3> QED BY <1>1, FS_Subset
  <2>2. IsFiniteSet(vol)
    <3> HIDE DEF mine, vol
    <3> QED BY <1>1, <2>1, FS_Subset
  <2>3. mine \in SUBSET LineT /\ vol \in SUBSET LineT
    <3> HIDE DEF mine, vol
    <3> QED BY <1>1
  <2> HIDE DEF mine, vol
  <2> QED BY <2>1, <2>2, <2>3
<1>3. IsFiniteSet(M) /\ M \subseteq Int
  <2> DEFINE f == [l \in mine |-> MonthOf(l.inv)]
  <2>1. M = {f[l] : l \in mine}
    OBVIOUS
  <2>2. IsFiniteSet({f[l] : l \in mine})
    <3> HIDE DEF f, mine
    <3> QED BY <1>2, ImageFinite
  <2>3. \A i \in Invoices : MonthOf(i) \in Int
    <3>1. Numbers \subseteq Nat /\ \A i \in Invoices : MonthOf(i) \in Numbers
      BY MonthsByNumber
    <3>2. \A n \in Numbers : n \in Int
      BY <3>1
    <3> QED BY <3>1, <3>2
  <2>4. M \subseteq Int
    <3> HIDE DEF mine
    <3> QED BY <1>2, <2>3 DEF LineT
  <2> QED BY <2>1, <2>2, <2>4
<1>4. raw = {B(m) : m \in M}
  BY DEF MonthlySummary
<1>5. {b.month : b \in raw} = M
  <2>1. \A m : B(m).month = m
    OBVIOUS
  <2> HIDE DEF B, M
  <2> QED BY <1>4, <2>1
<1>6. IsFiniteSet(S) /\ M \subseteq S
  <2>1. M # {}
    <3> HIDE DEF B, M
    <3> QED BY <1>4
  <2> HIDE DEF M
  <2>2. Min(M) \in Int /\ Max(M) \in Int /\ \A x \in M : x \in Int /\ Min(M) <= x /\ x <= Max(M)
    BY <1>3, <2>1, MinOf, MaxOf
  <2> QED BY <2>2, FS_Interval
<1>7. buckets = [m \in S |-> {b \in raw : b.month = m}]
  BY <1>5 DEF BuildFullSequence
<1>8. \A m : m \notin M => of(m) = {} /\ volOf(m) = {}
  BY <1>1
<1>9. \A m : MonthlyVolume(of(m), t) = QtyOf(volOf(m))
  <2> SUFFICES ASSUME NEW m PROVE MonthlyVolume(of(m), t) = QtyOf(volOf(m))
    OBVIOUS
  <2>1. {l \in Base(of(m)) : TypeOf[l.class] = t /\ l.dim = DimOf[t]} = volOf(m)
    BY DEF Base, Material, OfType
  <2> HIDE DEF of, volOf
  <2> QED BY <2>1 DEF MonthlyVolume
<1>10. ASSUME NEW m \in S
       PROVE  /\ MonthRow(buckets[m]).amount = Sigma(gross, of(m))
              /\ MonthRow(buckets[m]).qty = Sigma(qty, volOf(m))
  <2> DEFINE b == {x \in raw : x.month = m}
  <2>0. buckets[m] = b
    <3> HIDE DEF S, buckets, b
    <3> QED BY <1>7 DEF b
  <2>1. CASE m \in M
    <3>1. b = {B(m)}
      <4>1. \A n : B(n).month = n
        OBVIOUS
      <4> HIDE DEF B, M
      <4> QED BY <1>4, <2>1, <4>1
    <3>2. \A x : MonthRow({x}).amount = x.amount /\ MonthRow({x}).qty = x.qty
      BY DEF MonthRow
    <3>3. B(m).amount = GrossOf(of(m)) /\ B(m).qty = QtyOf(volOf(m))
      BY <1>9
    <3>4. GrossOf(of(m)) = Sigma(gross, of(m)) /\ QtyOf(volOf(m)) = Sigma(qty, volOf(m))
      <4> HIDE DEF of, volOf
      <4> QED BY <1>2, GrossIsSigma, QtyIsSigma
    <3> HIDE DEF b, B, of, volOf, buckets, S, M
    <3> QED BY <2>0, <3>1, <3>2, <3>3, <3>4
  <2>2. CASE m \notin M
    <3>1. b = {}
      <4>1. \A n : B(n).month = n
        OBVIOUS
      <4> HIDE DEF B, M
      <4> QED BY <1>4, <2>2, <4>1
    <3>2. MonthRow({}).amount = 0 /\ MonthRow({}).qty = 0
      BY DEF MonthRow
    <3>3. of(m) = {} /\ volOf(m) = {}
      BY <1>8, <2>2
    <3> HIDE DEF b, B, of, volOf, buckets, S, M
    <3> QED BY <2>0, <3>1, <3>2, <3>3, SigmaEmpty
  <2> QED BY <2>1, <2>2
<1>11. S = DOMAIN buckets
  <2> HIDE DEF buckets, S
  <2> QED BY <1>7
<1>12. /\ totals.amount = Sigma([m \in S |-> Sigma(gross, of(m))], S)
       /\ totals.qty = Sigma([m \in S |-> Sigma(qty, volOf(m))], S)
  <2>1. /\ totals.amount = Sigma([m \in S |-> MonthRow(buckets[m]).amount], S)
        /\ totals.qty = Sigma([m \in S |-> MonthRow(buckets[m]).qty], S)
    <3>1. totals = MonthTotals(buckets)
      OBVIOUS
    <3> HIDE DEF buckets, S
    <3> QED BY <1>11, <3>1, TotalsAreSigma
  <2> HIDE DEF buckets, S, of, volOf
  <2>2. /\ [m \in S |-> MonthRow(buckets[m]).amount] = [m \in S |-> Sigma(gross, of(m))]
        /\ [m \in S |-> MonthRow(buckets[m]).qty] = [m \in S |-> Sigma(qty, volOf(m))]
    BY <1>10
  <2> QED BY <2>1, <2>2
<1>13. \A l \in mine : k[l] = MonthOf(l.inv) /\ k[l] \in S
  <2>1. \A l \in mine : k[l] = MonthOf(l.inv) /\ k[l] \in M
    BY <1>1
  <2> HIDE DEF mine, k, S, M
  <2> QED BY <1>6, <2>1
<1>14. \A m : of(m) = {l \in mine : k[l] = m} /\ volOf(m) = {l \in vol : k[l] = m}
  <2>1. \A l \in vol : l \in mine
    BY <1>1
  <2> HIDE DEF mine, vol, k, S
  <2> QED BY <1>13, <2>1
<1>15. Sigma(gross, mine) = Sigma([m \in S |-> Sigma(gross, of(m))], S)
  <2> HIDE DEF of, volOf, mine, vol, S, k
  <2>1. Adding(gross, mine)
    BY <1>2, LinesAdd
  <2>2. Sigma(gross, mine) = Sigma([m \in S |-> Sigma(gross, {l \in mine : k[l] = m})], S)
    BY <1>6, <1>13, <2>1, SigmaGroups
  <2> QED BY <1>14, <2>2
<1>16. Sigma(qty, vol) = Sigma([m \in S |-> Sigma(qty, volOf(m))], S)
  <2>0. \A l \in vol : k[l] \in S
    <3> HIDE DEF mine, vol, k, S
    <3> QED BY <1>1, <1>13
  <2> HIDE DEF of, volOf, mine, vol, S, k
  <2>1. Adding(qty, vol)
    BY <1>2, LinesAdd
  <2>2. Sigma(qty, vol) = Sigma([m \in S |-> Sigma(qty, {l \in vol : k[l] = m})], S)
    BY <1>6, <2>0, <2>1, SigmaGroups
  <2> QED BY <1>14, <2>2
<1>17. Turnover(ls, t) = GrossOf(mine) /\ MonthlyVolume(ls, t) = QtyOf(vol)
  BY DEF Turnover, MonthlyVolume
<1>18. GrossOf(mine) = Sigma(gross, mine) /\ QtyOf(vol) = Sigma(qty, vol)
  <2> HIDE DEF mine, vol
  <2> QED BY <1>2, GrossIsSigma, QtyIsSigma
<1> HIDE DEF mine, vol, of, volOf, S, buckets
<1> QED BY <1>12, <1>15, <1>16, <1>17, <1>18

LEMMA MonthsAreRight == DataSound => MonthsAgree
<1> SUFFICES ASSUME DataSound, NEW t \in Directions, MonthlySummary(Counted(lines, excluded), t) # {}
             PROVE  LET ls == Counted(lines, excluded)
                        totals == MonthTotals(BuildFullSequence(MonthlySummary(ls, t)))
                    IN totals.amount = Turnover(ls, t) /\ totals.qty = MonthlyVolume(ls, t)
  BY DEF MonthsAgree
<1> DEFINE ls == Counted(lines, excluded)
<1>1. ls \in SUBSET LineT /\ IsFiniteSet(ls)
  BY LinesAreDrawn, FS_Subset DEF Counted
<1>2. MonthlySummary(ls, t) # {}
  OBVIOUS
<1> HIDE DEF ls
<1>3. LET totals == MonthTotals(BuildFullSequence(MonthlySummary(ls, t)))
      IN totals.amount = Turnover(ls, t) /\ totals.qty = MonthlyVolume(ls, t)
  BY <1>1, <1>2, MonthsMakeUp
<1> QED BY <1>3 DEF ls

-----------------------------------------------------------------------------
(* The example of the handbook.                                             *)

\* Cost that every line of a set is charged exactly goes by quantity.
LEMMA ExactParts ==
  ASSUME NEW w \in Int, w > 0, NEW b \in Int, NEW x \in Int, NEW y \in Int,
         (x * b) % w = 0, (y * b) % w = 0
  PROVE  ((x + y) * b) \div w = (x * b) \div w + (y * b) \div w
<1> DEFINE p == (x * b) \div w
           q == (y * b) \div w
<1>1. p \in Int /\ q \in Int /\ w * p = x * b /\ w * q = y * b
  <2>1. x * b \in Int /\ y * b \in Int
    OBVIOUS
  <2> QED BY <2>1, Division
<1> HIDE DEF p, q
<1>2. (x + y) * b = x * b + y * b /\ w * (p + q) = w * p + w * q
  BY <1>1
<1>3. (x + y) * b = w * (p + q) /\ (x + y) * b \in Int /\ p + q \in Int
  BY <1>1, <1>2
<1>4. ((x + y) * b) \div w = p + q
  BY <1>3, Division
<1> QED BY <1>4 DEF p, q

LEMMA SameElement ==
  ASSUME NEW S, Cardinality(S) = 1, IsFiniteSet(S), NEW x \in S, NEW y \in S
  PROVE  x = y
<1>1. \E z : S = {z}
  BY FS_Singleton
<1> QED BY <1>1

TypesOf(rows) == {TypeOf[c] : c \in ClassesOf(rows)}
Splits(base, cost) ==
  \A rows \in SUBSET base : \A c \in ClassesOf(rows) : \A pool \in SUBSET cost :
    Basis(rows, rows) > 0 => (GrossOf(pool) * Basis(rows, Of(rows, c))) % Basis(rows, rows) = 0

\* One division of delivery and additives together gives the same as one of each.
LEMMA ExampleIsRight ==
  ASSUME NEW i \in Invoices, NEW ls \in SUBSET LineT, IsFiniteSet(ls), \A l \in ls : l.inv = i,
         NEW base, base = Base(ls), NEW freight, freight = Delivery(ls), NEW extra, extra = Additive(ls),
         Splits(base, freight \cup extra), Cardinality(TypesOf(base \cup extra)) = 1,
         Cardinality(DimsOf(base)) = 1,
         NEW c \in ClassesOf(base)
  PROVE  Allocate(ls, c) = GrossOf(Of(base, c)) + DeliveryShare(base, freight, i, c)
                           + AdditiveShare(base, extra, i, c)
<1> DEFINE types == TypesOf(base \cup extra)
           w == Basis(base, base)
           b == Basis(base, Of(base, c))
           x == GrossOf(freight)
           y == GrossOf(extra)
<1>1. /\ base \in SUBSET ls /\ freight \in SUBSET ls /\ extra \in SUBSET ls
      /\ \A l \in base \cup extra : l.class # None
  BY DEF Base, Delivery, Additive, Material
<1>2. /\ In(base, i) = base /\ In(freight, i) = freight /\ In(extra, i) = extra
  BY <1>1 DEF In
<1>3. IsFiniteSet(types)
  <2> DEFINE k == [l \in base \cup extra |-> TypeOf[l.class]]
  <2>1. types = {k[l] : l \in base \cup extra}
    <3>1. ASSUME NEW u \in types PROVE \E l \in base \cup extra : u = k[l]
      <4>1. PICK z \in ClassesOf(base \cup extra) : u = TypeOf[z]
        BY DEF TypesOf
      <4>2. PICK l \in base \cup extra : z = l.class
        BY DEF ClassesOf
      <4> QED BY <4>1, <4>2
    <3>2. ASSUME NEW l \in base \cup extra PROVE k[l] \in types
      <4>1. l.class \in ClassesOf(base \cup extra)
        BY DEF ClassesOf
      <4> QED BY <4>1 DEF TypesOf
    <3> HIDE DEF k, types
    <3> QED BY <3>1, <3>2
  <2>2. IsFiniteSet(base \cup extra)
    BY <1>1, FS_Subset
  <2> HIDE DEF k, types
  <2> QED BY <2>1, <2>2, ImageFinite
<1>4. \A l \in base \cup extra : TypeOf[l.class] = TypeOf[c]
  <2>1. TypeOf[c] \in types /\ \A l \in base \cup extra : TypeOf[l.class] \in types
    <3>1. \A l \in base \cup extra : l.class \in ClassesOf(base \cup extra)
      BY DEF ClassesOf
    <3>2. PICK l \in base : l.class = c
      BY DEF ClassesOf
    <3> QED BY <3>1, <3>2 DEF TypesOf
  <2>2. Cardinality(types) = 1
    OBVIOUS
  <2> HIDE DEF types
  <2> QED BY <1>3, <2>1, <2>2, SameElement
<1>5. OfType(base, TypeOf[c]) = base /\ OfType(extra, TypeOf[c]) = extra
  BY <1>1, <1>4 DEF OfType
<1>6. w = QtyOf(base) /\ b = QtyOf(Of(base, c))
  BY DEF Basis
<1>7. w \in Int /\ b \in Int /\ x \in Int /\ y \in Int
  <2>1. /\ base \in SUBSET LineT /\ Of(base, c) \in SUBSET LineT
        /\ freight \in SUBSET LineT /\ extra \in SUBSET LineT
        /\ IsFiniteSet(base) /\ IsFiniteSet(Of(base, c)) /\ IsFiniteSet(freight) /\ IsFiniteSet(extra)
    BY <1>1, FS_Subset DEF Of
  <2> QED BY <1>6, <2>1, SumsAreInt
<1>8. w > 0 => (x * b) % w = 0 /\ (y * b) % w = 0
  <2>1. /\ base \in SUBSET base /\ freight \in SUBSET (freight \cup extra)
        /\ extra \in SUBSET (freight \cup extra)
    OBVIOUS
  <2> QED BY <2>1 DEF Splits
<1>9. /\ DeliveryShare(base, freight, i, c) = IF w <= 0 THEN 0 ELSE (x * b) \div w
      /\ AdditiveShare(base, extra, i, c) = IF w <= 0 THEN 0 ELSE (y * b) \div w
  BY <1>2, <1>5 DEF DeliveryShare, AdditiveShare, Portion
<1>10. Allocate(ls, c) = GrossOf(Of(base, c)) + IF w > 0 THEN ((x + y) * b) \div w ELSE 0
  BY <1>6 DEF Allocate
<1>11. GrossOf(Of(base, c)) \in Int
  BY <1>1, SumsAreInt, FS_Subset DEF Of
<1> HIDE DEF w, b, x, y
<1>12. CASE w > 0
  <2>1. ((x + y) * b) \div w = (x * b) \div w + (y * b) \div w
    BY <1>7, <1>8, <1>12, ExactParts
  <2>2. x * b \in Int /\ y * b \in Int
    BY <1>7
  <2>3. (x * b) \div w \in Int /\ (y * b) \div w \in Int
    BY <1>7, <1>12, <2>2, Division
  <2> DEFINE p == (x * b) \div w
             q == (y * b) \div w
  <2>4. ~(w <= 0)
    BY <1>7, <1>12
  <2> HIDE DEF p, q
  <2>5. Allocate(ls, c) = GrossOf(Of(base, c)) + (p + q)
    BY <1>10, <1>12, <2>1 DEF p, q
  <2>6. DeliveryShare(base, freight, i, c) = p /\ AdditiveShare(base, extra, i, c) = q
    BY <1>9, <2>4 DEF p, q
  <2>7. p \in Int /\ q \in Int
    BY <2>3 DEF p, q
  <2> QED BY <1>11, <2>5, <2>6, <2>7
<1>13. CASE ~(w > 0)
  <2>1. w <= 0
    BY <1>7, <1>13
  <2> QED BY <1>9, <1>10, <1>11, <1>13, <2>1
<1> QED BY <1>12, <1>13

LEMMA ExamplesAreRight == DataSound => HandbookAgrees
<1> SUFFICES ASSUME DataSound, NEW i \in InvoicesOf(lines), NEW ls, ls = In(lines, i),
                    Cardinality({TypeOf[c] : c \in ClassesOf(Base(ls) \cup Additive(ls))}) = 1,
                    Cardinality(DimsOf(Base(ls))) = 1,
                    NEW c \in ClassesOf(Base(ls))
             PROVE  Allocate(ls, c) = GrossOf(Of(Base(ls), c)) + DeliveryShare(Base(ls), Delivery(ls), i, c)
                                      + AdditiveShare(Base(ls), Additive(ls), i, c)
  BY DEF HandbookAgrees
<1>1. ls \in SUBSET lines /\ \A l \in ls : l.inv = i
  BY DEF In
<1>2. ls \in SUBSET LineT /\ IsFiniteSet(ls) /\ i \in Invoices
  BY <1>1, LinesAreDrawn, FS_Subset DEF InvoicesOf, LineT
<1>3. \A rows \in SUBSET Base(ls) : \A x \in ClassesOf(rows) :
        \A pool \in SUBSET (Delivery(ls) \cup Additive(ls)) :
          Basis(rows, rows) > 0 => (GrossOf(pool) * Basis(rows, Of(rows, x))) % Basis(rows, rows) = 0
  <2> DEFINE d == [base |-> Base(ls), delivery |-> Delivery(ls), additive |-> Additive(ls)]
  <2>1. d.base = Base(ls) /\ d.delivery = Delivery(ls) /\ d.additive = Additive(ls)
    OBVIOUS
  <2> HIDE DEF d
  <2>2. Divides(d)
    BY <1>1, <2>1, PartSound
  <2>3. /\ In(Base(ls), i) = Base(ls)
        /\ In(Delivery(ls) \cup Additive(ls), i) = Delivery(ls) \cup Additive(ls)
    BY <1>1 DEF In, Base, Delivery, Additive, Material
  <2> QED BY <1>2, <2>1, <2>2, <2>3 DEF Divides
<1> DEFINE base == Base(ls)
           freight == Delivery(ls)
           extra == Additive(ls)
<1>4. /\ base = Base(ls) /\ freight = Delivery(ls) /\ extra = Additive(ls)
      /\ Cardinality(TypesOf(base \cup extra)) = 1
      /\ Cardinality(DimsOf(base)) = 1 /\ c \in ClassesOf(base)
  BY DEF TypesOf
<1>5. Splits(base, freight \cup extra)
  BY <1>3 DEF Splits
<1> HIDE DEF base, freight, extra
<1>6. Allocate(ls, c) = GrossOf(Of(base, c)) + DeliveryShare(base, freight, i, c) + AdditiveShare(base, extra, i, c)
  BY <1>1, <1>2, <1>4, <1>5, ExampleIsRight
<1> QED BY <1>6 DEF base, freight, extra

-----------------------------------------------------------------------------
(* The Excel report.                                                        *)

cost(V) == [x \in V |-> x.mat + x.alloc]

LEMMA CostsAddUp == ASSUME NEW V PROVE MapThenSumSet(LAMBDA x : x.mat + x.alloc, V) = Sigma(cost(V), V)
<1>1. ASSUME NEW e
      PROVE  e = [s \in SUBSET V |-> IF s = {} THEN 0 ELSE (Pick(s).mat + Pick(s).alloc) + e[s \ {Pick(s)}]]
             <=> Adds(e, cost(V), V)
  BY PickIn DEF Adds, cost
<1>2. (CHOOSE e : e = [s \in SUBSET V |-> IF s = {} THEN 0
                                          ELSE (Pick(s).mat + Pick(s).alloc) + e[s \ {Pick(s)}]])
      = CHOOSE e : Adds(e, cost(V), V)
  BY <1>1
<1> QED BY <1>2 DEF MapThenSumSet, MapThenFoldSet, Pick, Sigma

OnlyOf(rows, D) == {l \in rows : l.inv \in D}
ExportedOf(ls, c, D) == {x \in ExportRows(ls) : x.class = c /\ x.inv \in D}

\* The rows of a class in the report, for the invoices D of a month.
LEMMA ExportOfClass ==
  ASSUME NEW ls \in SUBSET LineT, IsFiniteSet(ls), NEW D \in SUBSET Invoices,
         NEW d, RowsT(d), Divides(d),
         d.base = OnlyOf(Base(ls), D), d.delivery = OnlyOf(Delivery(ls), D),
         d.additive = OnlyOf(Additive(ls), D),
         NEW c \in ClassesOf(d.base), NEW mine, mine = Of(d.base, c),
         Cardinality(DimsOf(mine)) = 1, \A i \in InvoicesOf(mine) : QtyOf(In(mine, i)) > 0,
         NEW of, of = ExportedOf(ls, c, D)
  PROVE  Sigma(cost(of), of) = GrossOf(mine) + Shared(d, c)
<1> DEFINE I == InvoicesOf(mine)
<1>1. mine \in SUBSET LineT /\ IsFiniteSet(mine) /\ I \subseteq Invoices
  <2>1. mine \in SUBSET d.base
    BY DEF Of
  <2>2. mine \in SUBSET LineT /\ IsFiniteSet(mine)
    BY <2>1, FS_Subset DEF RowsT
  <2> QED BY <2>2 DEF InvoicesOf, LineT
<1>2. IsFiniteSet(I)
  <2> DEFINE k == [l \in mine |-> l.inv]
  <2>1. I = {k[l] : l \in mine}
    BY DEF InvoicesOf
  <2> HIDE DEF k, I
  <2> QED BY <1>1, <2>1, ImageFinite
<1>3. PICK o \in mine : TRUE
  <2>1. PICK l \in d.base : l.class = c
    BY DEF ClassesOf
  <2> QED BY <2>1 DEF Of
<1>4. \A l \in mine : l.dim = o.dim
  <2>1. IsFiniteSet(DimsOf(mine))
    <3> DEFINE k == [l \in mine |-> l.dim]
    <3>1. DimsOf(mine) = {k[l] : l \in mine}
      BY DEF DimsOf
    <3> HIDE DEF k, I
    <3> QED BY ONLY <1>1, <3>1, ImageFinite
  <2>2. \A l \in mine : l.dim \in DimsOf(mine)
    BY DEF DimsOf
  <2> QED BY <1>3, <2>1, <2>2, SameElement
<1> DEFINE E(i) == ExportRow(Base(ls), Delivery(ls), Additive(ls), i, c, o.dim)
           mats == [i \in I |-> GrossOf(In(mine, i))]
           k == [i \in I |-> E(i)]
<1>5. ASSUME NEW i \in I
      PROVE  /\ E(i).inv = i /\ E(i).class = c /\ i \in D
             /\ E(i).qty = QtyOf(In(mine, i)) /\ E(i).mat = GrossOf(In(mine, i))
             /\ E(i).alloc = share(d, c)[i]
  <2>1. PICK l \in mine : l.inv = i
    BY DEF InvoicesOf
  <2>2. i \in D /\ i \in Invoices
    BY <1>1, <2>1 DEF Of, OnlyOf
  <2>3. /\ In(Base(ls), i) = In(d.base, i) /\ In(Delivery(ls), i) = In(d.delivery, i)
        /\ In(Additive(ls), i) = In(d.additive, i)
    BY <2>2 DEF In, OnlyOf
  <2>4. {l2 \in Of(In(Base(ls), i), c) : l2.dim = o.dim} = In(mine, i)
    <3>1. Of(In(Base(ls), i), c) = In(mine, i)
      BY <2>3 DEF Of, In
    <3>2. In(mine, i) \subseteq mine
      BY DEF In
    <3> QED BY <1>4, <3>1, <3>2
  <2>5. /\ DeliveryShare(Base(ls), Delivery(ls), i, c) = DeliveryShare(d.base, d.delivery, i, c)
        /\ AdditiveShare(Base(ls), Additive(ls), i, c) = AdditiveShare(d.base, d.additive, i, c)
    BY <2>3 DEF DeliveryShare, AdditiveShare
  <2>6. share(d, c)[i] = DeliveryShare(d.base, d.delivery, i, c) + AdditiveShare(d.base, d.additive, i, c)
    BY <2>2 DEF share
  <2> QED BY <2>2, <2>4, <2>5, <2>6 DEF ExportRow
<1>6. of = {k[i] : i \in I}
  <2> DEFINE row(l) == ExportRow(Base(ls), Delivery(ls), Additive(ls), l.inv, l.class, l.dim)
  <2>1. ASSUME NEW x \in of PROVE \E i \in I : x = E(i)
    <3>1. PICK l \in Base(ls) : x = row(l)
      BY DEF ExportRows, ExportedOf
    <3>2. l.class = c /\ l.inv \in D
      BY <3>1 DEF ExportRow, ExportedOf
    <3>3. l \in mine
      BY <3>2 DEF Of, OnlyOf
    <3>4. l.inv \in I /\ l.dim = o.dim
      BY <1>4, <3>3 DEF InvoicesOf
    <3> QED BY <3>1, <3>2, <3>4
  <2>2. ASSUME NEW i \in I PROVE E(i) \in of
    <3>1. PICK l \in mine : l.inv = i
      BY DEF InvoicesOf
    <3>2. l \in Base(ls) /\ l.class = c /\ l.dim = o.dim
      BY <1>4, <3>1 DEF Of, OnlyOf
    <3>3. E(i) = row(l)
      BY <3>1, <3>2
    <3>4. E(i).qty > 0
      BY <1>5
    <3> HIDE DEF E
    <3>5. E(i) \in ExportRows(ls)
      BY <3>2, <3>3, <3>4 DEF ExportRows
    <3> QED BY <1>5, <3>5 DEF ExportedOf
  <2>3. \A i \in I : k[i] = E(i)
    OBVIOUS
  <2> HIDE DEF k, E, I
  <2> QED BY <2>1, <2>2, <2>3
<1>7. \A i \in I : mats[i] \in Int /\ share(d, c)[i] \in Int
  <2>1. \A i \in Invoices : share(d, c)[i] \in Int
    BY InvoiceConserved
  <2>2. ASSUME NEW i \in I PROVE GrossOf(In(mine, i)) \in Int
    <3>1. In(mine, i) \in SUBSET LineT /\ IsFiniteSet(In(mine, i))
      BY <1>1, FS_Subset DEF In
    <3> QED BY <3>1, SumsAreInt
  <2> QED BY <1>1, <2>1, <2>2
<1> DEFINE h == [i \in I |-> mats[i] + share(d, c)[i]]
<1>8. Sigma(cost(of), of) = Sigma(h, I)
  <2>1. \A i, j \in I : k[i] = k[j] => i = j
    <3>1. \A i \in I : k[i].inv = i
      <4>1. \A i \in I : k[i] = E(i)
        OBVIOUS
      <4> HIDE DEF k, E
      <4> QED BY <1>5, <4>1
    <3> HIDE DEF k
    <3> QED BY <3>1
  <2>2. \A i \in I : h[i] = cost(of)[k[i]] /\ h[i] \in Int
    <3> SUFFICES ASSUME NEW i \in I PROVE h[i] = cost(of)[k[i]] /\ h[i] \in Int
      OBVIOUS
    <3>1. k[i] = E(i) /\ k[i] \in of
      BY <1>6
    <3>2. h[i] = mats[i] + share(d, c)[i] /\ mats[i] = GrossOf(In(mine, i))
      OBVIOUS
    <3> HIDE DEF h, k, E, mats, I
    <3>3. cost(of)[k[i]] = E(i).mat + E(i).alloc
      BY <3>1 DEF cost
    <3> QED BY <1>5, <1>7, <3>2, <3>3
  <2> HIDE DEF h, k, I
  <2>3. Sigma(cost(of), {k[i] : i \in I}) = Sigma(h, I)
    BY <1>2, <2>1, <2>2, SigmaImage
  <2> QED BY <1>6, <2>3
<1>9. Sigma(h, I) = Sigma(mats, I) + Sigma(share(d, c), I)
  <2>1. \A i \in I : h[i] = mats[i] + share(d, c)[i]
    OBVIOUS
  <2> HIDE DEF h, mats, I
  <2>2. Adding(mats, I) /\ Adding(share(d, c), I)
    BY <1>2, <1>7 DEF Adding
  <2> QED BY <2>1, <2>2, SigmaPlus
<1>10. Sigma(mats, I) = GrossOf(mine)
  <2> DEFINE inv == [l \in mine |-> l.inv]
  <2>1. Adding(gross, mine) /\ \A l \in mine : inv[l] \in I
    BY <1>1, LinesAdd DEF InvoicesOf
  <2>2. \A i \in I : {l \in mine : inv[l] = i} = In(mine, i) /\ In(mine, i) \in SUBSET LineT
    BY <1>1 DEF In
  <2>3. mats = [i \in I |-> GrossOf(In(mine, i))]
    OBVIOUS
  <2> HIDE DEF inv, mats, I
  <2>4. Sigma(gross, mine) = Sigma([i \in I |-> Sigma(gross, {l \in mine : inv[l] = i})], I)
    BY ONLY <1>2, <2>1, SigmaGroups
  <2>5. [i \in I |-> Sigma(gross, {l \in mine : inv[l] = i})] = mats
    BY <2>2, <2>3, GrossIsSigma
  <2> QED BY <1>1, <2>4, <2>5, GrossIsSigma
<1>11. Shared(d, c) = Sigma(share(d, c), I)
  BY SharedIsSigma DEF RowsT
<1> HIDE DEF h, mats, I
<1> QED BY <1>8, <1>9, <1>10, <1>11

LEMMA ReportIsRight == DataSound => ExportAgrees
<1> DEFINE ls == Counted(lines, excluded)
           rows == CalcRows(Db, 0, LastDay, excluded, Types)
<1> SUFFICES ASSUME DataSound, NEW r \in rows,
                    NEW m, m = [from |-> r.from, to |-> r.from + MonthDays - 1],
                    NEW mine, mine = Of(Within(Base(ls), m), r.class),
                    NEW of, of = {x \in ExportRows(ls) : x.class = r.class /\ DateOf[x.inv] \in m.from .. m.to},
                    Cardinality(DimsOf(mine)) = 1, \A i \in InvoicesOf(mine) : QtyOf(In(mine, i)) > 0
             PROVE  MapThenSumSet(LAMBDA x : x.mat + x.alloc, of) = r.mat + r.shared
  BY DEF ExportAgrees
<1>1. PICK k \in Numbers : \E c \in classesOf(k, excluded) : r = rowOf(k, excluded, c)
  <2> HIDE DEF rows
  <2> QED BY ReportRows DEF rows
<1>2. PICK c \in classesOf(k, excluded) : r = rowOf(k, excluded, c)
  BY <1>1
<1> DEFINE d == dataOf(k, excluded)
           D == {i \in Invoices : MonthOf(i) = k}
<1>3. RowsT(d) /\ Divides(d)
  BY MonthSound DEF dataOf
<1>4. ls \in SUBSET LineT /\ IsFiniteSet(ls)
  BY LinesAreDrawn, FS_Subset DEF Counted
<1>5. c \in ClassesOf(d.base)
  BY DEF classesOf
<1>6. /\ r.class = c /\ r.from = month(k).from
      /\ r.mat = GrossOf(Of(d.base, c)) /\ r.shared = (GrossOf(Of(d.base, c)) + Shared(d, c)) - GrossOf(Of(d.base, c))
  BY <1>2 DEF rowOf, CalcRow
<1>7. \A i \in Invoices : /\ DateOf[i] \in month(k).from .. month(k).to <=> i \in D
                          /\ DateOf[i] \in m.from .. m.to <=> i \in D
  <2>1. m.from = month(k).from /\ m.to = month(k).from + MonthDays - 1
    BY <1>6
  <2> QED BY <2>1, MonthsByNumber
<1>8. /\ d.base = Base(Within(ls, month(k))) /\ d.delivery = Delivery(Within(ls, month(k)))
      /\ d.additive = Additive(Within(ls, month(k)))
  BY DEF dataOf, MonthData, Db
<1>9. \A l \in ls : l.inv \in Invoices
  BY <1>4 DEF LineT
<1> HIDE DEF d, D, ls, rows
<1>10. /\ d.base = OnlyOf(Base(ls), D) /\ d.delivery = OnlyOf(Delivery(ls), D)
       /\ d.additive = OnlyOf(Additive(ls), D)
  <2>1. Within(ls, month(k)) = {l \in ls : l.inv \in D}
    BY <1>7, <1>9 DEF Within
  <2> QED BY <1>8, <2>1 DEF Base, Delivery, Additive, Material, OnlyOf
<1>11. mine = Of(d.base, c)
  <2>1. Within(Base(ls), m) = OnlyOf(Base(ls), D)
    BY <1>7, <1>9 DEF Within, Base, Material, OnlyOf
  <2> QED BY <1>6, <1>10, <2>1
<1>12. of = ExportedOf(ls, c, D)
  <2>1. \A x \in ExportRows(ls) : x.inv \in Invoices
    <3> SUFFICES ASSUME NEW x \in ExportRows(ls) PROVE x.inv \in Invoices
      OBVIOUS
    <3>1. PICK l \in Base(ls) : x = ExportRow(Base(ls), Delivery(ls), Additive(ls), l.inv, l.class, l.dim)
      BY DEF ExportRows
    <3>2. x.inv = l.inv
      BY <3>1 DEF ExportRow
    <3> QED BY <1>9, <3>2 DEF Base, Material
  <2> QED BY <1>6, <1>7, <2>1 DEF ExportedOf
<1>13. Sigma(cost(of), of) = GrossOf(mine) + Shared(d, c)
  <2>1. D \in SUBSET Invoices
    BY DEF D
  <2>2. Cardinality(DimsOf(mine)) = 1 /\ \A i \in InvoicesOf(mine) : QtyOf(In(mine, i)) > 0
    OBVIOUS
  <2> HIDE DEF D
  <2> QED BY ONLY <1>3, <1>4, <1>5, <1>10, <1>11, <1>12, <2>1, <2>2, ExportOfClass
<1>14. GrossOf(mine) \in Int /\ Shared(d, c) \in Int
  <2>1. mine \in SUBSET LineT /\ IsFiniteSet(mine)
    BY <1>3, <1>11, FS_Subset DEF Of, RowsT
  <2> QED BY <1>3, <2>1, SumsAreInt, SharedIsInt
<1>15. Sigma(cost(of), of) = r.mat + r.shared
  <2> DEFINE g == GrossOf(mine)
             a == Shared(d, c)
  <2>1. r.mat = g /\ r.shared = (g + a) - g /\ g \in Int /\ a \in Int
    BY <1>6, <1>11, <1>14
  <2> HIDE DEF g, a
  <2>2. r.mat + r.shared = g + a
    BY <2>1
  <2> QED BY <1>13, <2>2 DEF g, a
<1> QED BY <1>15, CostsAddUp

-----------------------------------------------------------------------------
(* The supplier card.                                                       *)

\* The price of a class on the card, and the deviation of a class.
refOf(c) == LatestOrNone({r \in refs : r.class = c})
card(d, c) == Excess(GrossOf(Of(d.base, c)) + Shared(d, c), QtyOf(Of(d.base, c)), refOf(c).price)
pricedIn(d) ==
  {c \in ClassesOf(d.base) : QtyOf(Of(d.base, c)) > 0 /\ refOf(c) # None /\ refOf(c).price > 0}

LEMMA CardIsSigma ==
  ASSUME NEW s, NEW ls, ls = {l \in lines : SupplierOf[l.inv] = s},
         NEW d, d = [base |-> Base(ls), delivery |-> Delivery(ls), additive |-> Additive(ls)],
         NEW P, P = pricedIn(d)
  PROVE  SupplierDeviation(Db, s)
         = IF P = {} THEN None ELSE RoundDiv(Sigma([c \in P |-> card(d, c)], P), Scale)
<1> DEFINE own == {l \in Db.lines : SupplierOf[l.inv] = s}
           e == [base |-> Base(own), delivery |-> Delivery(own), additive |-> Additive(own)]
           ref(c) == LatestOrNone({r \in Db.refs : r.class = c})
           Q == {c \in ClassesOf(e.base) : QtyOf(Of(e.base, c)) > 0 /\ ref(c) # None /\ ref(c).price > 0}
           dev(c) == Excess(GrossOf(Of(e.base, c)) + Shared(e, c), QtyOf(Of(e.base, c)), ref(c).price)
           g == [c \in Q |-> dev(c)]
<1>1. SupplierDeviation(Db, s) = IF Q = {} THEN None ELSE RoundDiv(MapThenSumSet(LAMBDA c : dev(c), Q), Scale)
  BY DEF SupplierDeviation
<1>2. e = d /\ \A c : ref(c) = refOf(c)
  BY DEF Db, refOf
<1>3. Q = P /\ \A c : dev(c) = card(d, c)
  <2> HIDE DEF e, ref
  <2> QED BY <1>2 DEF pricedIn, card
<1> HIDE DEF Q, dev
<1>4. ASSUME NEW f
      PROVE  f = [x \in SUBSET Q |-> IF x = {} THEN 0 ELSE dev(Pick(x)) + f[x \ {Pick(x)}]]
             <=> Adds(f, g, Q)
  BY PickIn DEF Adds
<1>5. (CHOOSE f : f = [x \in SUBSET Q |-> IF x = {} THEN 0 ELSE dev(Pick(x)) + f[x \ {Pick(x)}]])
      = CHOOSE f : Adds(f, g, Q)
  <2> HIDE DEF g
  <2> QED BY <1>4
<1>6. MapThenSumSet(LAMBDA c : dev(c), Q) = Sigma(g, Q)
  BY <1>5 DEF MapThenSumSet, MapThenFoldSet, Pick, Sigma
<1>7. g = [c \in P |-> card(d, c)]
  BY <1>3
<1> HIDE DEF g
<1> QED BY <1>1, <1>3, <1>6, <1>7

\* Where all lines are of one supplier and one month.
LEMMA OneScope ==
  ASSUME DataSound, SameScope, NEW s \in {SupplierOf[i] : i \in InvoicesOf(lines)}
  PROVE  /\ \A l \in lines : SupplierOf[l.inv] = s /\ s # None
         /\ \E k \in Numbers : \A l \in lines : MonthOf(l.inv) = k
         /\ \E l \in lines : l.inv \in Invoices
<1> DEFINE I == InvoicesOf(lines)
           sup == [i \in I |-> SupplierOf[i]]
           mon == [i \in I |-> DateOf[i] \div MonthDays]
<1>1. IsFiniteSet(I) /\ I \subseteq Invoices
  <2> DEFINE k == [l \in lines |-> l.inv]
  <2>1. I = {k[l] : l \in lines}
    BY DEF InvoicesOf
  <2>2. I \subseteq Invoices
    BY LinesAreDrawn DEF InvoicesOf, LineT
  <2> HIDE DEF k, I
  <2> QED BY <2>1, <2>2, LinesAreDrawn, ImageFinite
<1>2. IsFiniteSet({sup[i] : i \in I}) /\ IsFiniteSet({mon[i] : i \in I})
  <2> HIDE DEF sup, mon, I
  <2> QED BY <1>1, ImageFinite
<1>3. {sup[i] : i \in I} = {SupplierOf[i] : i \in I} /\ {mon[i] : i \in I} = {DateOf[i] \div MonthDays : i \in I}
  OBVIOUS
<1>4. Cardinality({sup[i] : i \in I}) = 1 /\ Cardinality({mon[i] : i \in I}) = 1
  BY <1>3 DEF SameScope
<1>5. PICK i0 \in I : s = SupplierOf[i0]
  OBVIOUS
<1>6. \A i \in I : sup[i] = s /\ mon[i] = mon[i0] /\ mon[i] = MonthOf(i)
  <2>1. sup[i0] = s /\ (\A i \in I : sup[i] \in {sup[j] : j \in I} /\ mon[i] \in {mon[j] : j \in I})
    BY <1>5
  <2>2. \A i \in I : mon[i] = MonthOf(i)
    BY DEF MonthOf
  <2> DEFINE S == {sup[j] : j \in I}
             M == {mon[j] : j \in I}
  <2> HIDE DEF S, M, sup, mon, I
  <2>3. /\ IsFiniteSet(S) /\ Cardinality(S) = 1 /\ IsFiniteSet(M) /\ Cardinality(M) = 1
        /\ \A i \in I : sup[i] \in S /\ mon[i] \in M
    BY <1>2, <1>4, <2>1 DEF S, M
  <2> QED BY <1>5, <2>1, <2>2, <2>3, SameElement
<1>7. \A l \in lines : l.inv \in I
  BY DEF InvoicesOf
<1>8. \A i \in I : sup[i] = SupplierOf[i]
  OBVIOUS
<1>9. s # None
  <2>1. PICK l \in lines : l.inv = i0
    BY DEF InvoicesOf
  <2> QED BY <1>5, <2>1 DEF SameScope
<1>10. \E l \in lines : l.inv \in Invoices
  <2>1. PICK l \in lines : l.inv = i0
    BY DEF InvoicesOf
  <2> HIDE DEF I
  <2> QED BY <1>1, <1>7, <2>1
<1>11. mon[i0] \in Numbers
  <2> HIDE DEF mon, I
  <2> QED BY <1>1, <1>5, <1>6, MonthsByNumber
<1> HIDE DEF I, sup, mon
<1> QED BY <1>6, <1>7, <1>8, <1>9, <1>10, <1>11

\* The deviation of a row whose dimension is that of its price.
LEMMA DeviationOfRow ==
  ASSUME NEW d, NEW from, NEW to, NEW c, NEW r, r = CalcRow(d, from, to, c),
         NEW ref, ref = RefIn(d.refs, c, from, to)
  PROVE  /\ r.class = c /\ r.from = from
         /\ ~r.mismatch =>
              r.deviation = IF ref # None /\ ref.price > 0
                            THEN RoundDiv(Excess(GrossOf(Of(d.base, c)) + Shared(d, c),
                                                 QtyOf(Of(d.base, c)), ref.price), Scale)
                            ELSE None
<1> DEFINE mine == Of(d.base, c)
           sum == GrossOf(mine) + Shared(d, c)
           price == RefIn(d.refs, c, from, to)
           mis == Cardinality(DimsOf(mine)) > 1 \/ (price # None /\ price.dim \notin DimsOf(mine))
<1>1. /\ r.class = c /\ r.from = from /\ r.mismatch = mis
      /\ r.deviation = IF price # None /\ ~mis /\ price.price > 0
                       THEN RoundDiv(Excess(sum, QtyOf(mine), price.price), Scale) ELSE None
  BY DEF CalcRow
<1>2. price = ref /\ mis \in BOOLEAN
  OBVIOUS
<1>3. ~r.mismatch => r.deviation = IF ref # None /\ ref.price > 0
                                   THEN RoundDiv(Excess(sum, QtyOf(mine), ref.price), Scale) ELSE None
  <2> HIDE DEF mis, price, sum, mine
  <2> QED BY <1>1, <1>2
<1>4. r.class = c /\ r.from = from
  BY DEF CalcRow
<1> QED BY <1>3, <1>4

LEMMA CardIsRight == DataSound => SupplierCardAgreesOnDims
<1> DEFINE all == CalcRows(Db, 0, LastDay, {}, Types)
<1> SUFFICES ASSUME DataSound, SameScope, NEW rows, rows = all, \A r \in rows : ~r.mismatch,
                    NEW s \in {SupplierOf[i] : i \in InvoicesOf(lines)}
             PROVE  /\ SupplierDeviation(Db, s) = None <=> FullDeviation(rows) = None
                    /\ FullDeviation(rows) # None =>
                         2 * Abs(SupplierDeviation(Db, s) - FullDeviation(rows))
                         <= Cardinality({r \in rows : r.deviation # None}) + 1
  BY DEF SupplierCardAgreesOnDims
<1>1. /\ \A l \in lines : SupplierOf[l.inv] = s /\ s # None
      /\ \E k \in Numbers : \A l \in lines : MonthOf(l.inv) = k
      /\ \E l \in lines : l.inv \in Invoices
  BY OneScope
<1>2. PICK k \in Numbers : \A l \in lines : MonthOf(l.inv) = k
  BY <1>1
<1> DEFINE e == dataOf(k, {})
           d == [base |-> Base(lines), delivery |-> Delivery(lines), additive |-> Additive(lines)]
           P == pricedIn(d)
           exact == [c \in P |-> card(d, c)]
           g == [c \in P |-> RoundDiv(card(d, c), Scale)]
           C == classesOf(k, {})
<1>3. \A l \in lines : l.inv \in Invoices
  BY LinesAreDrawn DEF LineT
<1>4. Counted(lines, {}) = lines
  BY DEF Counted
<1>5. /\ e.base = d.base /\ e.delivery = d.delivery /\ e.additive = d.additive /\ e.refs = refs
      /\ \A j \in Numbers : j # k => classesOf(j, {}) = {}
  <2>1. Within(lines, month(k)) = lines
    BY <1>2, <1>3, MonthsByNumber DEF Within
  <2>2. ASSUME NEW j \in Numbers, j # k PROVE classesOf(j, {}) = {}
    <3>1. Within(lines, month(j)) = {}
      BY <1>2, <1>3, <2>2, MonthsByNumber DEF Within
    <3>2. dataOf(j, {}).base = Base({})
      BY <1>4, <3>1 DEF dataOf, MonthData, Db
    <3>3. Base({}) = {}
      BY DEF Base, Material
    <3> QED BY <3>2, <3>3 DEF classesOf, ClassesOf
  <2>3. /\ e.base = Base(lines) /\ e.delivery = Delivery(lines) /\ e.additive = Additive(lines)
        /\ e.refs = refs
    BY <1>4, <2>1 DEF dataOf, MonthData, Db
  <2> QED BY <2>2, <2>3
<1>6. RowsT(e) /\ RowsT(d)
  <2>1. RowsT(e)
    BY MonthSound DEF dataOf
  <2> QED BY <1>5, <2>1 DEF RowsT
<1>7. ASSUME NEW c PROVE Shared(e, c) = Shared(d, c) /\ Of(e.base, c) = Of(d.base, c)
  <2> HIDE DEF e, d
  <2>1. share(e, c) = share(d, c)
    BY <1>5 DEF share
  <2>2. Shared(e, c) = Sigma(share(e, c), InvoicesOf(Of(e.base, c)))
        /\ Shared(d, c) = Sigma(share(d, c), InvoicesOf(Of(d.base, c)))
    BY <1>6, SharedIsSigma DEF RowsT
  <2> QED BY <1>5, <2>1, <2>2
<1>8. ASSUME NEW c PROVE RefIn(refs, c, month(k).from, month(k).to) = refOf(c)
  <2>1. PICK l \in lines : l.inv \in Invoices
    BY <1>1
  <2> DEFINE x == DateOf[l.inv]
  <2>2. x \in Int /\ x \in month(k).from .. month(k).to
    BY <1>2, <2>1, MonthsByNumber, FiguresAssumption
  <2>3. \A r \in refs : x \in r.from .. r.to /\ r.from \in Nat /\ r.to \in Nat
    BY <2>1, InputFacts DEF SameScope, InvoicesOf, DataSound, RefsSound, PriceT
  <2>4. month(k).from \in Int /\ month(k).to \in Int
    <3>1. k \in Nat /\ MonthDays \in Nat /\ LastDay \in Nat
      BY MonthsByNumber, FiguresAssumption, LastDayIsLast
    <3>2. k * MonthDays \in Int
      BY <3>1
    <3> QED BY <3>1, <3>2 DEF month
  <2> HIDE DEF x
  <2>5. \A r \in refs : r.from <= month(k).to /\ r.to >= month(k).from
    BY <2>2, <2>3, <2>4
  <2>6. {r \in refs : r.class = c /\ r.from <= month(k).to /\ r.to >= month(k).from}
        = {r \in refs : r.class = c}
    BY <2>5
  <2> QED BY <2>6 DEF RefIn, refOf
<1> DEFINE row(c) == rowOf(k, {}, c)
<1>9. ASSUME NEW c \in C
      PROVE  /\ row(c) \in rows /\ row(c).class = c /\ row(c).from = month(k).from
             /\ row(c).deviation = IF c \in P THEN RoundDiv(card(d, c), Scale) ELSE None
             /\ row(c).deviation \in Int \cup {None}
  <2>1. row(c) \in rows /\ PriceSound(row(c))
    <3> HIDE DEF all
    <3> QED BY ReportRows DEF all
  <2>2. ~row(c).mismatch
    BY <2>1
  <2>3. c \in ClassesOf(d.base) /\ QtyOf(Of(d.base, c)) > 0
    BY <1>5 DEF classesOf
  <2>4. /\ row(c).class = c /\ row(c).from = month(k).from
        /\ ~row(c).mismatch =>
             row(c).deviation = IF refOf(c) # None /\ refOf(c).price > 0
                                THEN RoundDiv(Excess(GrossOf(Of(e.base, c)) + Shared(e, c),
                                                     QtyOf(Of(e.base, c)), refOf(c).price), Scale)
                                ELSE None
    <3>1. RefIn(e.refs, c, month(k).from, month(k).to) = refOf(c)
      BY <1>5, <1>8
    <3>2. row(c) = CalcRow(e, month(k).from, month(k).to, c)
      BY DEF rowOf
    <3> HIDE DEF e, row
    <3> QED BY <3>1, <3>2, DeviationOfRow DEF e
  <2>5. c \in P <=> refOf(c) # None /\ refOf(c).price > 0
    BY <2>3 DEF pricedIn
  <2>6. /\ GrossOf(Of(e.base, c)) = GrossOf(Of(d.base, c)) /\ Shared(e, c) = Shared(d, c)
        /\ QtyOf(Of(e.base, c)) = QtyOf(Of(d.base, c))
    <3> HIDE DEF e, d
    <3> QED BY <1>7
  <2> HIDE DEF e, d, P, row
  <2> QED BY <2>1, <2>2, <2>4, <2>5, <2>6 DEF card, PriceSound
<1>10. \A r \in rows : \E c \in C : r = row(c)
  <2>1. \A r \in rows : \E j \in Numbers : \E c \in classesOf(j, {}) : r = rowOf(j, {}, c)
    <3> HIDE DEF all
    <3> QED BY ReportRows DEF all
  <2> QED BY <1>5, <2>1
<1>11. P \subseteq C
  BY <1>5 DEF pricedIn, classesOf
<1>12. \A c \in P : exact[c] \in Int /\ g[c] \in Int /\ g[c] = RoundDiv(exact[c], Scale)
  <2> SUFFICES ASSUME NEW c \in P PROVE card(d, c) \in Int /\ RoundDiv(card(d, c), Scale) \in Int
    OBVIOUS
  <2>1. Shared(d, c) \in Int
    BY <1>6, SharedIsInt
  <2>2. GrossOf(Of(d.base, c)) \in Int /\ QtyOf(Of(d.base, c)) \in Int
    BY <1>6, SumsAreInt, FS_Subset DEF Of, RowsT
  <2>3. refOf(c).price \in Nat
    <3>1. refOf(c) = RefIn(refs, c, month(k).from, month(k).to) /\ refOf(c) # None
      BY <1>8 DEF P, pricedIn
    <3>2. refOf(c) \in refs
      BY <3>1, RefChosen
    <3> QED BY <3>2, InputFacts DEF DataSound, RefsSound, PriceT
  <2> DEFINE t == GrossOf(Of(d.base, c)) + Shared(d, c)
             q == QtyOf(Of(d.base, c))
             p == refOf(c).price
  <2>4. t \in Int /\ q \in Int /\ p \in Nat
    BY <2>1, <2>2, <2>3
  <2>5. card(d, c) = Excess(t, q, p)
    BY DEF card
  <2> HIDE DEF t, q, p, d, P
  <2> QED BY <2>4, <2>5, RoundedIsInt
<1> DEFINE v(c) == [class |-> c, from |-> month(k).from, value |-> RoundDiv(card(d, c), Scale)]
           kv == [c \in P |-> v(c)]
           kr == [c \in P |-> row(c)]
           R == {r \in rows : r.deviation # None}
<1>13. ASSUME NEW c \in P
       PROVE  /\ row(c) \in rows /\ row(c).class = c /\ row(c).from = month(k).from
              /\ row(c).deviation = RoundDiv(card(d, c), Scale) /\ row(c).deviation # None
  <2>1. c \in C /\ RoundDiv(card(d, c), Scale) \in Int
    BY <1>11, <1>12
  <2> HIDE DEF P, C, row, d, g, exact
  <2> QED BY <1>9, <2>1, FiguresAssumption
<1>14. ASSUME NEW r \in R PROVE \E c \in P : r = row(c)
  <2>1. r \in rows /\ r.deviation # None
    OBVIOUS
  <2> HIDE DEF P, C, row, d, R
  <2>2. PICK c \in C : r = row(c)
    BY <1>10, <2>1
  <2> QED BY <1>9, <2>1, <2>2
<1>15. Devs(rows) = {kv[c] : c \in P} /\ R = {kr[c] : c \in P}
  <2> HIDE DEF all, row, d, P, C, R
  <2>0. \A c \in P : kv[c] = v(c) /\ kr[c] = row(c)
    OBVIOUS
  <2>1. ASSUME NEW x \in Devs(rows) PROVE x \in {kv[c] : c \in P}
    <3>1. PICK r \in rows : x = [class |-> r.class, from |-> r.from, value |-> r.deviation] /\ r.deviation # None
      BY DEF Devs, Known
    <3>2. r \in R
      BY <3>1 DEF R
    <3>3. PICK c \in P : r = row(c)
      BY <1>14, <3>2
    <3>4. x = v(c)
      BY <1>13, <3>1, <3>3
    <3> QED BY <2>0, <3>4
  <2>2. ASSUME NEW c \in P PROVE kv[c] \in Devs(rows) /\ kr[c] \in R
    <3> DEFINE y == [class |-> row(c).class, from |-> row(c).from, value |-> row(c).deviation]
    <3>1. y = v(c) /\ y.value # None /\ row(c) \in rows /\ row(c).deviation # None
      BY <1>13
    <3>2. y \in Devs(rows)
      BY <3>1 DEF Devs, Known
    <3>3. row(c) \in R
      BY <3>1 DEF R
    <3> QED BY <2>0, <3>1, <3>2, <3>3
  <2>3. R \subseteq {kr[c] : c \in P}
    BY <1>14, <2>0
  <2> HIDE DEF kv, kr
  <2> QED BY <2>1, <2>2, <2>3
<1>16. IsFiniteSet(P)
  <2>1. IsFiniteSet(ClassesOf(d.base))
    BY <1>6, ClassesAreFinite DEF ClassesFinite, RowsT
  <2>2. P \subseteq ClassesOf(d.base)
    BY DEF pricedIn
  <2> HIDE DEF d, P
  <2> QED BY <2>1, <2>2, FS_Subset
<1>17. Cardinality(R) = Cardinality(P)
  <2>1. \A b, c \in P : kr[b] = kr[c] => b = c
    <3> HIDE DEF row, d, P, C
    <3> QED BY <1>13
  <2> HIDE DEF row, d, P, C, R
  <2>2. kr \in Bijection(P, R)
    BY <1>15, <2>1 DEF Bijection, Injection, Surjection, IsInjective
  <2> QED BY <1>16, <2>2, FS_Bijection DEF ExistsBijection
<1>18. Sigma(value(Devs(rows)), Devs(rows)) = Sigma(g, P)
  <2>1. \A b, c \in P : kv[b] = kv[c] => b = c
    OBVIOUS
  <2>2. \A c \in P : g[c] = kv[c].value
    OBVIOUS
  <2> DEFINE u == value(Devs(rows))
             Y == Devs(rows)
  <2>3. \A y \in Y : u[y] = y.value
    BY DEF value
  <2> HIDE DEF u, kv, g, P, d, Y, R
  <2>4. \A c \in P : g[c] = u[kv[c]] /\ g[c] \in Int
    BY <1>12, <1>15, <2>2, <2>3 DEF Y
  <2>5. Sigma(u, {kv[c] : c \in P}) = Sigma(g, P)
    BY <1>16, <2>1, <2>4, SigmaImage
  <2> QED BY <1>15, <2>5 DEF u, Y
<1>19. SupplierDeviation(Db, s) = IF P = {} THEN None ELSE RoundDiv(Sigma(exact, P), Scale)
  <2>1. lines = {l \in lines : SupplierOf[l.inv] = s}
    BY <1>1
  <2> HIDE DEF P, d
  <2> QED BY <2>1, CardIsSigma DEF P, d
<1>20. FullDeviation(rows) = IF Devs(rows) = {} THEN None ELSE Sigma(value(Devs(rows)), Devs(rows))
  BY KnownAddUp DEF FullDeviation, Devs, total
<1>21. Devs(rows) = {} <=> P = {}
  <2> HIDE DEF kv, P, g, R, kr
  <2> QED BY <1>15
<1> DEFINE G == Sigma(exact, P)
           H == Sigma(g, P)
           D == RoundDiv(G, Scale)
           n == Cardinality(R)
<1> HIDE DEF P, g, exact, kv, kr, d, all, R, row
<1>22. /\ G \in Int /\ H \in Int /\ n \in Nat
       /\ 2 * G - Scale * n <= 2 * (Scale * H) /\ 2 * (Scale * H) <= 2 * G + Scale * n
  <2> HIDE DEF G, H
  <2> QED BY <1>12, <1>16, <1>17, ScalePositive, RoundedAddUp DEF G, H
<1>23. D \in Int /\ 2 * G - Scale <= 2 * (Scale * D) /\ 2 * (Scale * D) <= 2 * G + Scale
  <2> HIDE DEF G
  <2> QED BY <1>22, ScalePositive, Rounded
<1> HIDE DEF G, H, D, n
<1>24. 2 * Abs(D - H) <= n + 1
  <2> DEFINE x == D - H
             S == Scale
             sd == S * D
             sh == S * H
             sn == S * n
  <2>1. x \in Int /\ S * x = sd - sh /\ sd \in Int /\ sh \in Int /\ sn \in Int /\ S \in Int /\ S > 0
    BY <1>22, <1>23, ScalePositive
  <2>2. 2 * (sd - sh) <= sn + S /\ 2 * (sh - sd) <= sn + S
    <3>1. /\ 2 * G - sn <= 2 * sh /\ 2 * sh <= 2 * G + sn
          /\ 2 * G - S <= 2 * sd /\ 2 * sd <= 2 * G + S /\ G \in Int
      BY <1>22, <1>23
    <3> HIDE DEF sd, sh, sn, S
    <3> QED BY <2>1, <3>1
  <2>3. ASSUME NEW y \in Int, S * y <= sn + S PROVE y <= n + 1
    <3>1. ~(y >= n + 2)
      <4> SUFFICES ASSUME y >= n + 2 PROVE FALSE
        OBVIOUS
      <4>1. S * y >= S * (n + 2) /\ S * (n + 2) = sn + 2 * S
        <5> HIDE DEF S
        <5> QED BY <1>22, <2>1
      <4> DEFINE sy == S * y
      <4>2. sy \in Int /\ sy >= sn + 2 * S /\ sy <= sn + S
        BY <2>1, <2>3, <4>1
      <4> HIDE DEF sy, sn, S
      <4> QED BY <2>1, <4>2
    <3> QED BY <1>22, <3>1
  <2>4. S * (2 * x) = 2 * (sd - sh) /\ S * (-(2 * x)) = 2 * (sh - sd)
    <3>1. S * (2 * x) = 2 * (S * x) /\ S * (-(2 * x)) = -(2 * (S * x))
      <4> HIDE DEF S, x
      <4> QED BY <2>1
    <3> DEFINE sx == S * x
    <3> HIDE DEF sd, sh, sx
    <3>2. sx = sd - sh
      BY <2>1 DEF sx
    <3> QED BY <2>1, <3>1, <3>2 DEF sx
  <2> HIDE DEF x, sd, sh, sn, S
  <2>5. 2 * x <= n + 1 /\ -(2 * x) <= n + 1
    BY <2>1, <2>2, <2>3, <2>4
  <2>6. 2 * Abs(x) <= n + 1
    BY <1>22, <2>1, <2>5 DEF Abs
  <2> QED BY <2>6 DEF x
<1>25. D # None /\ H # None
  BY <1>22, <1>23, FiguresAssumption
<1> QED BY <1>18, <1>19, <1>20, <1>21, <1>24, <1>25 DEF G, H, D, n, R

-----------------------------------------------------------------------------
(* The reports of the single types.                                         *)

LEMMA OneMonth == ASSUME NEW k \in Numbers PROVE Months(month(k).from, month(k).to) = {month(k)}
<1> DEFINE D == MonthDays
           L == LastDay
           p == L \div D
           a == k * D
           b == k * D + D - 1
           to == IF L <= b THEN L ELSE b
<1>1. D \in Int /\ D > 0 /\ L \in Nat
  BY LastDayIsLast, FiguresAssumption
<1>2. p \in Int /\ p >= 0 /\ D * p <= L
  <2> HIDE DEF D, L
  <2> QED BY <1>1, Quotient
<1>3. k \in Int /\ k <= p /\ k >= 0
  <2>1. Numbers = 0 .. p
    BY DEF Numbers
  <2> HIDE DEF p
  <2> QED BY <1>2, <2>1
<1>4. a \in Int /\ a = D * k /\ b = a + D - 1 /\ a <= D * p
  <2> HIDE DEF D, p
  <2> QED BY <1>1, <1>2, <1>3
<1>5. month(k) = [from |-> a, to |-> to]
  BY DEF month
<1>6. to \in Int /\ a <= to /\ to <= b /\ b \in Int
  <2> HIDE DEF D, L, p, a, b
  <2>1. D * p \in Int
    BY <1>1, <1>2
  <2> DEFINE dp == D * p
  <2> HIDE DEF dp
  <2>2. dp \in Int /\ a <= dp /\ dp <= L
    BY <1>2, <1>4, <2>1 DEF dp
  <2> QED BY <1>1, <1>4, <2>2
<1>7. a \div D = k /\ to \div D = k
  <2> HIDE DEF D, L, p, a, b, to
  <2>1. D * k <= a /\ a <= D * k + D - 1 /\ D * k <= to /\ to <= D * k + D - 1
    BY <1>1, <1>4, <1>6
  <2> QED BY <1>1, <1>3, <1>4, <1>6, <2>1, Quotient
<1>8. Max({a, a}) = a /\ Min({to, b}) = to
  <2> HIDE DEF D, L, p, a, b, to
  <2> QED BY <1>4, <1>6, OfTwo
<1>9. Months(a, to) = {[from |-> Max({a, m * D}), to |-> Min({to, m * D + D - 1})] : m \in k .. k}
  <2> HIDE DEF a, to
  <2> QED BY <1>7 DEF Months
<1>10. k .. k = {k}
  BY <1>3
<1>11. Months(a, to) = {[from |-> Max({a, a}), to |-> Min({to, b})]}
  BY <1>9, <1>10
<1> QED BY <1>5, <1>8, <1>11

sharedOf(V) == [r \in V |-> r.shared]

LEMMA SharesAddUp == ASSUME NEW V PROVE MapThenSumSet(LAMBDA r : r.shared, V) = Sigma(sharedOf(V), V)
<1>1. ASSUME NEW e
      PROVE  e = [s \in SUBSET V |-> IF s = {} THEN 0 ELSE Pick(s).shared + e[s \ {Pick(s)}]]
             <=> Adds(e, sharedOf(V), V)
  BY PickIn DEF Adds, sharedOf
<1>2. (CHOOSE e : e = [s \in SUBSET V |-> IF s = {} THEN 0 ELSE Pick(s).shared + e[s \ {Pick(s)}]])
      = CHOOSE e : Adds(e, sharedOf(V), V)
  BY <1>1
<1> QED BY <1>2 DEF MapThenSumSet, MapThenFoldSet, Pick, Sigma

\* What the report of type t of month k shares out.
report(k, t) == CalcRows(Db, month(k).from, month(k).to, excluded, {t})
sharedIn(k, t) == MapThenSumSet(LAMBDA r : r.shared, report(k, t))

LEMMA ReportsAddUp ==
  ASSUME NEW k
  PROVE  MapThenSumSet(LAMBDA t : sharedIn(k, t), Types) = Sigma([t \in Types |-> sharedIn(k, t)], Types)
<1> DEFINE g == [t \in Types |-> sharedIn(k, t)]
<1>1. ASSUME NEW e
      PROVE  e = [s \in SUBSET Types |-> IF s = {} THEN 0 ELSE sharedIn(k, Pick(s)) + e[s \ {Pick(s)}]]
             <=> Adds(e, g, Types)
  BY PickIn DEF Adds
<1>2. (CHOOSE e : e = [s \in SUBSET Types |-> IF s = {} THEN 0 ELSE sharedIn(k, Pick(s)) + e[s \ {Pick(s)}]])
      = CHOOSE e : Adds(e, g, Types)
  <2> HIDE DEF g
  <2> QED BY <1>1
<1> QED BY <1>2 DEF MapThenSumSet, MapThenFoldSet, Pick, Sigma

LEMMA ReportsShareOut ==
  ASSUME DataSound, NEW k \in Numbers, NEW d, d = dataOf(k, excluded),
         \A c \in ClassesOf(d.base) : QtyOf(Of(d.base, c)) > 0
  PROVE  MapThenSumSet(LAMBDA t : sharedIn(k, t), Types) = AllCharged(d)
<1> DEFINE C == ClassesOf(d.base)
           row == [c \in C |-> rowOf(k, excluded, c)]
           rows == {row[c] : c \in C}
           kind == [r \in rows |-> TypeOf[r.class]]
           g == sharedOf(rows)
           h == [c \in C |-> Shared(d, c)]
<1>1. RowsT(d) /\ Divides(d)
  BY MonthSound DEF dataOf
<1>2. C \subseteq Classes /\ IsFiniteSet(C) /\ C = classesOf(k, excluded)
  <2>1. C \subseteq Classes
    BY <1>1 DEF RowsT, ClassesOf
  <2>2. IsFiniteSet(C)
    BY <1>1, ClassesAreFinite DEF ClassesFinite, RowsT
  <2>3. C = classesOf(k, excluded)
    BY DEF classesOf
  <2> QED BY <2>1, <2>2, <2>3
<1>3. ASSUME NEW c \in C
      PROVE  /\ row[c].class = c /\ row[c].dir = TypeOf[c] /\ row[c].shared = Shared(d, c)
             /\ Shared(d, c) \in Int /\ TypeOf[c] \in Types
  <2>1. /\ row[c].class = c /\ row[c].dir = TypeOf[c]
        /\ row[c].shared = (GrossOf(Of(d.base, c)) + Shared(d, c)) - GrossOf(Of(d.base, c))
    BY DEF rowOf, CalcRow
  <2>2. Shared(d, c) \in Int /\ GrossOf(Of(d.base, c)) \in Int
    BY <1>1, SharedIsInt, SumsAreInt, FS_Subset DEF Of, RowsT
  <2>3. TypeOf[c] \in Types
    BY <1>2, FiguresAssumption
  <2> DEFINE x == Shared(d, c)
             y == GrossOf(Of(d.base, c))
  <2>4. x \in Int /\ y \in Int /\ row[c].shared = (y + x) - y
    BY <2>1, <2>2
  <2> HIDE DEF x, y, row, C
  <2>5. row[c].shared = x
    BY <2>4
  <2> QED BY <2>1, <2>2, <2>3, <2>5 DEF x
<1>4. MonthRows(MonthData(Db, month(k), excluded), month(k)) = rows
  BY <1>2 DEF MonthRows, rowOf, classesOf, dataOf
<1>5. ASSUME NEW t \in Types PROVE report(k, t) = {r \in rows : kind[r] = t}
  <2>1. report(k, t) = {r \in rows : r.dir \in {t}}
    <3> HIDE DEF rows
    <3> QED BY <1>4, OneMonth DEF report, CalcRows
  <2>2. \A r \in rows : r.dir = kind[r]
    <3> SUFFICES ASSUME NEW c \in C PROVE row[c].dir = kind[row[c]]
      OBVIOUS
    <3>1. row[c] \in rows
      OBVIOUS
    <3> HIDE DEF rows, row, C
    <3>2. kind[row[c]] = TypeOf[row[c].class]
      BY <3>1
    <3> QED BY <1>3, <3>2
  <2> HIDE DEF rows, kind
  <2> QED BY <2>1, <2>2
<1>6. \A b, c \in C : row[b] = row[c] => b = c
  <2> HIDE DEF row, C
  <2> QED BY <1>3
<1>7. IsFiniteSet(rows)
  <2> HIDE DEF row, C
  <2> QED BY <1>2, ImageFinite
<1>8. \A r \in rows : g[r] = r.shared /\ g[r] \in Int /\ kind[r] \in Types
  <2> SUFFICES ASSUME NEW r \in rows PROVE g[r] = r.shared /\ r.shared \in Int /\ kind[r] \in Types
    OBVIOUS
  <2>1. g[r] = r.shared /\ kind[r] = TypeOf[r.class]
    BY DEF sharedOf
  <2>2. PICK c \in C : r = row[c]
    OBVIOUS
  <2> HIDE DEF row, C, rows, g, kind
  <2> QED BY <1>3, <2>1, <2>2
<1>9. \A c \in C : row[c] \in rows
  OBVIOUS
<1> DEFINE part(t) == {r \in rows : kind[r] = t}
<1>10. ASSUME NEW t \in Types PROVE sharedIn(k, t) = Sigma(g, part(t))
  <2> DEFINE V == part(t)
  <2>1. \A r \in V : sharedOf(V)[r] = r.shared
    BY DEF sharedOf
  <2>2. V \in SUBSET rows
    OBVIOUS
  <2> HIDE DEF V, rows, g, kind
  <2>3. IsFiniteSet(V)
    BY <1>7, <2>2, FS_Subset
  <2>4. Sigma(g, V) = Sigma(sharedOf(V), V)
    BY <1>8, <2>1, <2>2, <2>3, SigmaSame DEF Adding
  <2>5. report(k, t) = V
    BY <1>5 DEF V
  <2>6. sharedIn(k, t) = Sigma(sharedOf(V), V)
    BY <2>5, SharesAddUp DEF sharedIn
  <2> QED BY <2>4, <2>6 DEF V
<1> HIDE DEF g, rows, kind, row, C, part
<1>11. [t \in Types |-> sharedIn(k, t)] = [t \in Types |-> Sigma(g, part(t))]
  BY <1>10
<1>12. Sigma(g, rows) = Sigma([t \in Types |-> Sigma(g, part(t))], Types)
  BY <1>7, <1>8, TypesFinite, SigmaGroups DEF Adding, part
<1>13. Sigma(g, rows) = Sigma(h, C)
  <2>1. \A c \in C : h[c] = g[row[c]] /\ h[c] \in Int
    BY <1>3, <1>8, <1>9
  <2> HIDE DEF h
  <2>2. Sigma(g, {row[c] : c \in C}) = Sigma(h, C)
    BY <1>2, <1>6, <2>1, SigmaImage
  <2> QED BY <2>2 DEF rows
<1>14. AllShared(d) = Sigma(h, C)
  BY ClassesAddUp DEF C
<1>15. AllShared(d) = AllCharged(d)
  BY <1>1, Conservation
<1> QED BY <1>11, <1>12, <1>13, <1>14, <1>15, ReportsAddUp

\* Asked for one by one, the reports of the types share out what the invoices of a month
\* were charged, none of it twice and none of it lost: the filter by direction of
\* compute_calculations moves no shared cost between the reports.
THEOREM ReportsConserve == Spec => []DirectionReportsConserve
<1>1. DataSound => DirectionReportsConserve
  <2> SUFFICES ASSUME DataSound, NEW m \in AllMonths,
                      \A c \in ClassesOf(MonthData(Db, m, excluded).base) :
                        QtyOf(Of(MonthData(Db, m, excluded).base, c)) > 0
               PROVE  MapThenSumSet(LAMBDA t : MapThenSumSet(LAMBDA r : r.shared,
                                      CalcRows(Db, m.from, m.to, excluded, {t})), Types)
                      = AllCharged(MonthData(Db, m, excluded))
    BY DEF DirectionReportsConserve
  <2>1. AllMonths = Months(0, LastDay)
    BY DEF AllMonths, LastDay
  <2>2. PICK k \in Numbers : m = month(k)
    BY <2>1, MonthsByNumber
  <2> DEFINE d == dataOf(k, excluded)
  <2>3. d = MonthData(Db, m, excluded)
    BY <2>2 DEF dataOf
  <2> HIDE DEF d
  <2>4. MapThenSumSet(LAMBDA t : sharedIn(k, t), Types) = AllCharged(d)
    BY <2>3, ReportsShareOut DEF d
  <2>5. MapThenSumSet(LAMBDA t : sharedIn(k, t), Types)
        = MapThenSumSet(LAMBDA t : MapThenSumSet(LAMBDA r : r.shared,
                          CalcRows(Db, m.from, m.to, excluded, {t})), Types)
    BY <2>2 DEF sharedIn, report
  <2> QED BY <2>3, <2>4, <2>5
<1> QED BY <1>1, DataInvariance, PTL

-----------------------------------------------------------------------------
(* All copies.                                                              *)

\* The implementations of the same figures agree, whatever the lines, prices and
\* corridors: the Excel report, the supplier card (up to half a kopeck for each amount
\* that is rounded), the chart of deviations, the tab of months and the example of the
\* handbook repeat what compute_calculations and the summary answer.
THEOREM CopiesAreOne == Spec => []CopiesAgree
<1>1. DataSound => CopiesAgree
  BY ReportIsRight, CardIsRight, ChartIsRight, MonthsAreRight, ExamplesAreRight DEF CopiesAgree
<1> QED BY <1>1, DataInvariance, PTL

=============================================================================
