---------------------------- MODULE SumTheorems ----------------------------
(***************************************************************************)
(* What proofs need to know of sums over a finite set, and of the greatest *)
(* of a finite set of numbers.                                             *)
(*                                                                         *)
(* The induction is over sets (of numbers, of subsets) and not over        *)
(* operators: a set that is not all of them lacks a minimal one, as the    *)
(* library's well-founded orderings tell.                                  *)
(***************************************************************************)
EXTENDS Sums, FiniteSetTheorems, TLAPS

-----------------------------------------------------------------------------
(* Induction *)

LEMMA SubsetInduction ==
  ASSUME NEW S, IsFiniteSet(S), NEW Q \in SUBSET (SUBSET S), {} \in Q,
         \A t \in SUBSET S : t # {} /\ (\A x \in t : t \ {x} \in Q) => t \in Q
  PROVE  Q = SUBSET S
<1> DEFINE T == (SUBSET S) \ Q
<1>1. SUFFICES ASSUME T # {} PROVE FALSE
  OBVIOUS
<1>2. IsWellFoundedOn(StrictSubsetOrdering(S), SUBSET S)
  BY FS_StrictSubsetOrderingWellFounded, FS_FiniteSubsetsOfFinite
<1>3. PICK t \in T : \A u \in T : ~ (<<u, t>> \in StrictSubsetOrdering(S))
  <2>1. T \subseteq SUBSET S
    OBVIOUS
  <2> HIDE DEF T
  <2> QED BY <1>1, <1>2, <2>1, WFMin
<1>4. ASSUME NEW x \in t PROVE t \ {x} \in Q
  <2>1. t \ {x} \in SUBSET S /\ <<t \ {x}, t>> \in StrictSubsetOrdering(S)
    BY DEF StrictSubsetOrdering
  <2> QED BY <1>3, <2>1
<1>5. t # {}
  OBVIOUS
<1> QED BY <1>4, <1>5

LEMMA NumberInduction ==
  ASSUME NEW Q \in SUBSET Nat, 0 \in Q, \A n \in Q : n + 1 \in Q
  PROVE  Q = Nat
<1> DEFINE T == Nat \ Q
<1>1. SUFFICES ASSUME T # {} PROVE FALSE
  OBVIOUS
<1>2. PICK t \in T : \A u \in T : ~ (<<u, t>> \in OpToRel(<, Nat))
  BY <1>1, NatLessThanWellFounded, WFMin
<1>3. t - 1 \in Nat /\ <<t - 1, t>> \in OpToRel(<, Nat)
  BY DEF OpToRel
<1>4. t - 1 \in Q
  BY <1>2, <1>3
<1> QED BY <1>4

-----------------------------------------------------------------------------
(* The sum is the value at S of the function that the fold defines.        *)

Pick(s) == CHOOSE x \in s : TRUE

ValueAt(f, g, s) == IF s = {} THEN 0 ELSE f[Pick(s)] + g[s \ {Pick(s)}]

Adds(f, g, S) == g = [s \in SUBSET S |-> ValueAt(f, g, s)]

LEMMA PickIn == ASSUME NEW s, s # {} PROVE Pick(s) \in s
BY DEF Pick

LEMMA SumDef ==
  ASSUME NEW f, NEW S
  PROVE  SumOver(f, S) = (CHOOSE g : Adds(f, g, S))[S]
BY Zenon DEF SumOver, MapThenSumSet, MapThenFoldSet, Adds, ValueAt, Pick

(* That function exists: it may be defined for larger and larger sets. *)
LEMMA AddsExists ==
  ASSUME NEW S, IsFiniteSet(S), NEW f
  PROVE  \E g : Adds(f, g, S)
<1> DEFINE Good(g, n) == g = [t \in SUBSET S |-> IF Cardinality(t) <= n THEN ValueAt(f, g, t) ELSE 0]
           Q == {n \in Nat : \E g : Good(g, n)}
<1>0. \A t \in SUBSET S : /\ IsFiniteSet(t) /\ Cardinality(t) \in Nat
                          /\ Cardinality(t) <= Cardinality(S)
                          /\ t # {} => /\ Pick(t) \in t /\ t \ {Pick(t)} \in SUBSET S
                                       /\ Cardinality(t \ {Pick(t)}) = Cardinality(t) - 1
  BY FS_Subset, FS_CardinalityType, FS_RemoveElement, PickIn
<1>1. 0 \in Q
  <2> DEFINE g == [t \in SUBSET S |-> 0]
  <2>1. \A t \in SUBSET S : Cardinality(t) <= 0 => t = {}
    <3> SUFFICES ASSUME NEW t \in SUBSET S, Cardinality(t) <= 0 PROVE t = {}
      OBVIOUS
    <3>1. Cardinality(t) \in Nat /\ IsFiniteSet(t)
      BY <1>0
    <3>2. Cardinality(t) = 0
      BY <3>1
    <3> QED BY <3>1, <3>2, FS_EmptySet
  <2>2. Good(g, 0)
    BY <2>1 DEF ValueAt
  <2> QED BY <2>2
<1>2. ASSUME NEW n \in Q PROVE n + 1 \in Q
  <2>1. PICK g : Good(g, n)
    OBVIOUS
  <2> DEFINE h == [t \in SUBSET S |-> IF Cardinality(t) <= n + 1 THEN ValueAt(f, g, t) ELSE 0]
  <2>2. \A t \in SUBSET S : Cardinality(t) <= n => h[t] = g[t]
    <3> SUFFICES ASSUME NEW t \in SUBSET S, Cardinality(t) <= n PROVE h[t] = g[t]
      OBVIOUS
    <3>1. g[t] = ValueAt(f, g, t)
      BY <2>1
    <3>2. Cardinality(t) \in Nat /\ n \in Nat
      BY <1>0
    <3>3. Cardinality(t) <= n + 1
      BY <3>2
    <3>4. h[t] = ValueAt(f, g, t)
      BY <3>3
    <3> QED BY <3>1, <3>4
  <2>3. \A t \in SUBSET S : Cardinality(t) <= n + 1 => ValueAt(f, g, t) = ValueAt(f, h, t)
    <3> SUFFICES ASSUME NEW t \in SUBSET S, Cardinality(t) <= n + 1
                 PROVE ValueAt(f, g, t) = ValueAt(f, h, t)
      OBVIOUS
    <3>1. t # {} => g[t \ {Pick(t)}] = h[t \ {Pick(t)}]
      <4> HIDE DEF h
      <4> QED BY <1>0, <2>2
    <3> HIDE DEF h
    <3> QED BY <3>1 DEF ValueAt
  <2>4. Good(h, n + 1)
    <3> DEFINE rhs == [t \in SUBSET S |-> IF Cardinality(t) <= n + 1 THEN ValueAt(f, h, t) ELSE 0]
    <3>1. \A t \in SUBSET S : h[t] = rhs[t]
      BY <2>3
    <3>2. h = rhs
      BY <3>1
    <3> HIDE DEF h
    <3> QED BY <3>2
  <2>5. n + 1 \in Nat
    OBVIOUS
  <2> HIDE DEF h
  <2> QED BY <2>4, <2>5
<1>3. Cardinality(S) \in Q
  <2>1. Q = Nat
    <3>1. Q \in SUBSET Nat /\ \A n \in Q : n + 1 \in Q
      BY <1>2
    <3> HIDE DEF Q
    <3> QED BY <1>1, <3>1, NumberInduction
  <2> QED BY <2>1, FS_CardinalityType
<1>4. PICK g : Good(g, Cardinality(S))
  BY <1>3
<1> QED BY <1>0, <1>4 DEF Adds

(* Its values depend on the values summed only, which are integers here. *)
LEMMA AddsUnique ==
  ASSUME NEW S, IsFiniteSet(S), NEW A, NEW B, S \subseteq A, S \subseteq B,
         NEW f, NEW e, \A x \in S : f[x] = e[x] /\ f[x] \in Int,
         NEW g, NEW h, Adds(f, g, A), Adds(e, h, B)
  PROVE  g[S] = h[S] /\ g[S] \in Int
<1> DEFINE Q == {t \in SUBSET S : g[t] = h[t] /\ g[t] \in Int}
<1>1. \A t \in SUBSET S : g[t] = ValueAt(f, g, t) /\ h[t] = ValueAt(e, h, t)
  BY DEF Adds
<1>2. {} \in Q
  <2>1. g[{}] = 0 /\ h[{}] = 0
    BY <1>1 DEF ValueAt
  <2> QED BY <2>1
<1>3. ASSUME NEW t \in SUBSET S, t # {}, \A x \in t : t \ {x} \in Q PROVE t \in Q
  <2>1. Pick(t) \in t /\ Pick(t) \in S
    BY <1>3, PickIn
  <2>2. t \ {Pick(t)} \in Q
    BY <1>3, <2>1
  <2>3. /\ g[t] = f[Pick(t)] + g[t \ {Pick(t)}]
        /\ h[t] = e[Pick(t)] + h[t \ {Pick(t)}]
    BY <1>1, <1>3 DEF ValueAt
  <2> QED BY <2>1, <2>2, <2>3
<1>4. Q = SUBSET S
  <2>1. Q \in SUBSET (SUBSET S)
    OBVIOUS
  <2>2. \A t \in SUBSET S : t # {} /\ (\A x \in t : t \ {x} \in Q) => t \in Q
    BY <1>3
  <2> HIDE DEF Q
  <2> QED BY <1>2, <2>1, <2>2, SubsetInduction
<1> QED BY <1>4

LEMMA SumAdds ==
  ASSUME NEW S, IsFiniteSet(S), NEW f, \A x \in S : f[x] \in Int,
         NEW T, S \subseteq T, NEW g, Adds(f, g, T)
  PROVE  SumOver(f, S) = g[S] /\ SumOver(f, S) \in Int
<1> DEFINE h == CHOOSE h : Adds(f, h, S)
<1>1. Adds(f, h, S)
  BY AddsExists
<1>2. SumOver(f, S) = h[S]
  BY SumDef
<1> HIDE DEF h
<1> QED BY <1>1, <1>2, AddsUnique

-----------------------------------------------------------------------------
(* What is used of sums. *)

LEMMA SumType ==
  ASSUME NEW S, IsFiniteSet(S), NEW f, \A x \in S : f[x] \in Int
  PROVE  SumOver(f, S) \in Int
<1>1. PICK g : Adds(f, g, S)
  BY AddsExists
<1> QED BY <1>1, SumAdds

LEMMA SumEmpty ==
  ASSUME NEW f
  PROVE  SumOver(f, {}) = 0
<1>1. IsFiniteSet({})
  BY FS_EmptySet
<1>2. PICK g : Adds(f, g, {})
  BY <1>1, AddsExists
<1>3. g[{}] = 0
  BY <1>2 DEF Adds, ValueAt
<1> QED BY <1>1, <1>2, <1>3, SumAdds

LEMMA SumSame ==
  ASSUME NEW S, IsFiniteSet(S), NEW f, NEW e,
         \A x \in S : f[x] = e[x] /\ f[x] \in Int
  PROVE  SumOver(f, S) = SumOver(e, S)
<1>1. PICK g : Adds(f, g, S)
  BY AddsExists
<1>2. PICK h : Adds(e, h, S)
  BY AddsExists
<1>3. SumOver(f, S) = g[S] /\ SumOver(e, S) = h[S]
  BY <1>1, <1>2, SumAdds
<1> QED BY <1>1, <1>2, <1>3, AddsUnique

LEMMA SumZero ==
  ASSUME NEW S, IsFiniteSet(S)
  PROVE  SumOver([x \in S |-> 0], S) = 0
<1> DEFINE f == [x \in S |-> 0]
           Q == {t \in SUBSET S : SumOver(f, t) = 0}
<1>1. PICK g : Adds(f, g, S)
  BY AddsExists
<1>2. \A t \in SUBSET S : IsFiniteSet(t) /\ \A x \in t : f[x] = 0
  BY FS_Subset
<1>3. ASSUME NEW t \in SUBSET S PROVE SumOver(f, t) = g[t]
  <2>1. IsFiniteSet(t) /\ \A x \in t : f[x] \in Int
    BY <1>2
  <2> HIDE DEF f
  <2> QED BY <1>1, <2>1, SumAdds
<1>4. {} \in Q
  BY SumEmpty
<1>5. ASSUME NEW t \in SUBSET S, t # {}, \A x \in t : t \ {x} \in Q PROVE t \in Q
  <2>1. Pick(t) \in t /\ t \ {Pick(t)} \in SUBSET S
    BY <1>5, PickIn
  <2>2. g[t] = f[Pick(t)] + g[t \ {Pick(t)}]
    <3> HIDE DEF f
    <3> QED BY <1>1, <1>5 DEF Adds, ValueAt
  <2>3. f[Pick(t)] = 0 /\ g[t \ {Pick(t)}] = 0
    BY <1>2, <1>3, <1>5, <2>1
  <2> QED BY <1>3, <2>2, <2>3
<1>6. Q = SUBSET S
  <2>1. Q \in SUBSET (SUBSET S)
    OBVIOUS
  <2>2. \A t \in SUBSET S : t # {} /\ (\A x \in t : t \ {x} \in Q) => t \in Q
    BY <1>5
  <2> HIDE DEF Q
  <2> QED BY <1>4, <2>1, <2>2, SubsetInduction
<1> QED BY <1>6

(* Any element may be added last. *)
LEMMA SumRemove ==
  ASSUME NEW S, IsFiniteSet(S), NEW f, \A x \in S : f[x] \in Int, NEW z \in S
  PROVE  SumOver(f, S) = f[z] + SumOver(f, S \ {z})
<1> DEFINE Q == {t \in SUBSET S : \A x \in t : SumOver(f, t) = f[x] + SumOver(f, t \ {x})}
<1>1. \A t \in SUBSET S : IsFiniteSet(t)
  BY FS_Subset
<1>2. \A t \in SUBSET S : SumOver(f, t) \in Int
  BY <1>1, SumType
<1>3. {} \in Q
  OBVIOUS
<1>4. ASSUME NEW t \in SUBSET S, t # {}, \A x \in t : t \ {x} \in Q PROVE t \in Q
  <2> DEFINE p == Pick(t)
  <2>1. p \in t /\ f[p] \in Int
    BY <1>4, PickIn
  <2>2. SumOver(f, t) = f[p] + SumOver(f, t \ {p})
    <3>1. PICK g : Adds(f, g, S)
      BY AddsExists
    <3>2. SumOver(f, t) = g[t] /\ SumOver(f, t \ {p}) = g[t \ {p}]
      <4>1. t \ {p} \in SUBSET S
        OBVIOUS
      <4> QED BY <1>1, <3>1, <4>1, SumAdds
    <3> QED BY <1>4, <3>1, <3>2 DEF Adds, ValueAt
  <2> HIDE DEF p
  <2>3. ASSUME NEW x \in t PROVE SumOver(f, t) = f[x] + SumOver(f, t \ {x})
    <3>1. CASE x = p
      BY <2>2, <3>1
    <3>2. CASE x # p
      <4>1. SumOver(f, t \ {p}) = f[x] + SumOver(f, (t \ {p}) \ {x})
        BY <1>4, <2>1, <3>2
      <4>2. SumOver(f, t \ {x}) = f[p] + SumOver(f, (t \ {x}) \ {p})
        BY <1>4, <2>1, <3>2
      <4>3. (t \ {p}) \ {x} = (t \ {x}) \ {p} /\ (t \ {x}) \ {p} \in SUBSET S
        OBVIOUS
      <4>4. SumOver(f, (t \ {x}) \ {p}) \in Int /\ f[x] \in Int
        BY <1>2, <4>3
      <4> DEFINE rest == SumOver(f, (t \ {x}) \ {p})
      <4>5. /\ SumOver(f, t) = f[p] + (f[x] + rest) /\ SumOver(f, t \ {x}) = f[p] + rest
            /\ rest \in Int /\ f[x] \in Int /\ f[p] \in Int
        BY <2>1, <2>2, <4>1, <4>2, <4>3, <4>4
      <4> HIDE DEF rest
      <4> QED BY <4>5
    <3> QED BY <3>1, <3>2
  <2> QED BY <2>3
<1>5. Q = SUBSET S
  <2>1. Q \in SUBSET (SUBSET S)
    OBVIOUS
  <2>2. \A t \in SUBSET S : t # {} /\ (\A x \in t : t \ {x} \in Q) => t \in Q
    BY <1>4
  <2> HIDE DEF Q
  <2> QED BY <1>3, <2>1, <2>2, SubsetInduction
<1> QED BY <1>5

(* One value changes. *)
LEMMA SumChange ==
  ASSUME NEW S, IsFiniteSet(S), NEW f, NEW e, NEW z \in S,
         \A x \in S : f[x] \in Int /\ e[x] \in Int,
         \A x \in S \ {z} : e[x] = f[x]
  PROVE  SumOver(e, S) = SumOver(f, S) + (e[z] - f[z])
<1>1. IsFiniteSet(S \ {z})
  BY FS_Subset
<1>2. SumOver(e, S \ {z}) = SumOver(f, S \ {z}) /\ SumOver(f, S \ {z}) \in Int
  BY <1>1, SumSame, SumType
<1>3. SumOver(f, S) = f[z] + SumOver(f, S \ {z}) /\ SumOver(e, S) = e[z] + SumOver(e, S \ {z})
  BY SumRemove
<1> QED BY <1>2, <1>3

(* Greater values, greater sums. *)
LEMMA SumAtMost ==
  ASSUME NEW S, IsFiniteSet(S), NEW f, NEW e,
         \A x \in S : f[x] \in Int /\ e[x] \in Int /\ f[x] <= e[x]
  PROVE  SumOver(f, S) <= SumOver(e, S)
<1> DEFINE Q == {t \in SUBSET S : SumOver(f, t) <= SumOver(e, t)}
<1>1. \A t \in SUBSET S : IsFiniteSet(t) /\ SumOver(f, t) \in Int /\ SumOver(e, t) \in Int
  BY FS_Subset, SumType
<1>2. {} \in Q
  BY SumEmpty
<1>3. ASSUME NEW t \in SUBSET S, t # {}, \A x \in t : t \ {x} \in Q PROVE t \in Q
  <2>1. PICK x : x \in t
    BY <1>3
  <2>2. t \ {x} \in SUBSET S /\ t \ {x} \in Q
    BY <1>3, <2>1
  <2>3. SumOver(f, t) = f[x] + SumOver(f, t \ {x}) /\ SumOver(e, t) = e[x] + SumOver(e, t \ {x})
    BY <1>1, <2>1, SumRemove
  <2> QED BY <1>1, <2>1, <2>2, <2>3
<1>4. Q = SUBSET S
  <2>1. Q \in SUBSET (SUBSET S)
    OBVIOUS
  <2>2. \A t \in SUBSET S : t # {} /\ (\A x \in t : t \ {x} \in Q) => t \in Q
    BY <1>3
  <2> HIDE DEF Q
  <2> QED BY <1>2, <2>1, <2>2, SubsetInduction
<1> QED BY <1>4

(* The sum is that of a part and that of the rest. *)
LEMMA SumSplit ==
  ASSUME NEW S, IsFiniteSet(S), NEW f, \A x \in S : f[x] \in Int, NEW T
  PROVE  SumOver(f, S) = SumOver(f, S \cap T) + SumOver(f, S \ T)
<1> DEFINE Q == {t \in SUBSET S : SumOver(f, t) = SumOver(f, t \cap T) + SumOver(f, t \ T)}
<1>1. \A t \in SUBSET S : IsFiniteSet(t) /\ SumOver(f, t) \in Int
  BY FS_Subset, SumType
<1>2. {} \in Q
  <2>1. {} \cap T = {} /\ {} \ T = {}
    OBVIOUS
  <2> QED BY <2>1, SumEmpty
<1>3. ASSUME NEW t \in SUBSET S, t # {}, \A x \in t : t \ {x} \in Q PROVE t \in Q
  <2>1. PICK x : x \in t
    BY <1>3
  <2> DEFINE u == t \ {x}
  <2>2. u \in SUBSET S /\ SumOver(f, u) = SumOver(f, u \cap T) + SumOver(f, u \ T)
    BY <1>3, <2>1
  <2>3. SumOver(f, t) = f[x] + SumOver(f, u) /\ f[x] \in Int
    BY <1>1, <2>1, SumRemove
  <2>4. /\ t \cap T \in SUBSET S /\ t \ T \in SUBSET S
        /\ u \cap T \in SUBSET S /\ u \ T \in SUBSET S
    OBVIOUS
  <2>5. CASE x \in T
    <3>1. u \ T = t \ T /\ u \cap T = (t \cap T) \ {x} /\ x \in t \cap T
      BY <2>1, <2>5
    <3>2. SumOver(f, t \cap T) = f[x] + SumOver(f, u \cap T)
      BY <1>1, <2>4, <3>1, SumRemove
    <3>3. SumOver(f, u) = SumOver(f, u \cap T) + SumOver(f, t \ T)
      BY <2>2, <3>1
    <3>4. /\ SumOver(f, u \cap T) \in Int /\ SumOver(f, t \ T) \in Int
      BY <1>1, <2>4
    <3>5. SumOver(f, t) = SumOver(f, t \cap T) + SumOver(f, t \ T)
      <4> HIDE DEF u
      <4> QED BY <2>3, <3>2, <3>3, <3>4
    <3> QED BY <3>5
  <2>6. CASE x \notin T
    <3>1. u \cap T = t \cap T /\ u \ T = (t \ T) \ {x} /\ x \in t \ T
      BY <2>1, <2>6
    <3>2. SumOver(f, t \ T) = f[x] + SumOver(f, u \ T)
      BY <1>1, <2>4, <3>1, SumRemove
    <3>3. SumOver(f, u) = SumOver(f, t \cap T) + SumOver(f, u \ T)
      BY <2>2, <3>1
    <3>4. /\ SumOver(f, t \cap T) \in Int /\ SumOver(f, u \ T) \in Int
      BY <1>1, <2>4
    <3>5. SumOver(f, t) = SumOver(f, t \cap T) + SumOver(f, t \ T)
      <4> HIDE DEF u
      <4> QED BY <2>3, <3>2, <3>3, <3>4
    <3> QED BY <3>5
  <2> QED BY <2>5, <2>6
<1>4. Q = SUBSET S
  <2>1. Q \in SUBSET (SUBSET S)
    OBVIOUS
  <2>2. \A t \in SUBSET S : t # {} /\ (\A x \in t : t \ {x} \in Q) => t \in Q
    BY <1>3
  <2> HIDE DEF Q
  <2> QED BY <1>2, <2>1, <2>2, SubsetInduction
<1> QED BY <1>4

(* The greatest of a finite set of numbers. *)
LEMMA MaxIn ==
  ASSUME NEW S \in SUBSET Int, IsFiniteSet(S), S # {}
  PROVE  Max(S) \in S /\ \A x \in S : x <= Max(S)
<1> DEFINE Q == {t \in SUBSET S : t # {} => \E m \in t : \A x \in t : m >= x}
<1>1. {} \in Q
  OBVIOUS
<1>2. ASSUME NEW t \in SUBSET S, t # {}, \A x \in t : t \ {x} \in Q PROVE t \in Q
  <2>1. PICK x : x \in t
    BY <1>2
  <2>2. CASE t \ {x} = {}
    BY <2>1, <2>2
  <2>3. CASE t \ {x} # {}
    <3>1. PICK m \in t \ {x} : \A y \in t \ {x} : m >= y
      BY <1>2, <2>1, <2>3
    <3>2. IF m >= x THEN \A y \in t : m >= y ELSE \A y \in t : x >= y
      BY <2>1, <3>1
    <3> QED BY <2>1, <3>1, <3>2
  <2> QED BY <2>2, <2>3
<1>3. Q = SUBSET S
  <2>1. Q \in SUBSET (SUBSET S)
    OBVIOUS
  <2>2. \A t \in SUBSET S : t # {} /\ (\A x \in t : t \ {x} \in Q) => t \in Q
    BY <1>2
  <2> HIDE DEF Q
  <2> QED BY <1>1, <2>1, <2>2, SubsetInduction
<1>4. \E m \in S : \A x \in S : m >= x
  BY <1>3
<1> QED BY <1>4 DEF Max

(* The greatest of some of the first numbers. *)
LEMMA MaxBelow ==
  ASSUME NEW n \in Nat, NEW S \in SUBSET (0 .. n), S # {}
  PROVE  Max(S) \in S /\ \A x \in S : x <= Max(S)
<1>1. IsFiniteSet(0 .. n)
  BY FS_Interval
<1>2. IsFiniteSet(S)
  BY <1>1, FS_Subset
<1> QED BY <1>2, MaxIn

=============================================================================
