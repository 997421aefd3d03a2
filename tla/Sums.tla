-------------------------------- MODULE Sums --------------------------------
(***************************************************************************)
(* The facts about SumFunctionOnSet that the proofs about counters need:   *)
(* what changes when one element is added, or one value.  A recursive      *)
(* function is the CHOOSE of what satisfies its equation; that something   *)
(* does, and one thing only, is shown from the smallest set for which it   *)
(* would not be so (WFMin).                                                *)
(***************************************************************************)
EXTENDS Integers, Functions, FiniteSetTheorems, TLAPS

Pick(T) == CHOOSE x \in T : TRUE

\* The equation that the fold's iteration satisfies.
IsSum(h, f, S) ==
    h = [T \in SUBSET S |-> IF T = {} THEN 0 ELSE f[Pick(T)] + h[T \ {Pick(T)}]]

LEMMA PickMember == \A T : T # {} => Pick(T) \in T
BY DEF Pick

LEMMA SmallestSet ==
    ASSUME NEW S, IsFiniteSet(S), NEW B, B \subseteq SUBSET S, B # {}
    PROVE  \E T \in B : \A U \in B : ~(U \subseteq T /\ U # T)
<1>1. FiniteSubsetsOf(S) = SUBSET S
  BY FS_FiniteSubsetsOfFinite
<1>2. IsWellFoundedOn(StrictSubsetOrdering(S), SUBSET S)
  BY <1>1, FS_StrictSubsetOrderingWellFounded
<1>3. PICK T \in B : \A U \in B : ~(<<U, T>> \in StrictSubsetOrdering(S))
  BY <1>2, WFMin
<1> QED
  BY <1>3 DEF StrictSubsetOrdering

LEMMA SumEquation ==
    ASSUME NEW h, NEW f, NEW S, IsSum(h, f, S)
    PROVE  /\ h[{}] = 0
           /\ \A T \in SUBSET S : T # {} => h[T] = f[Pick(T)] + h[T \ {Pick(T)}]
BY DEF IsSum

LEMMA OneSum ==
    ASSUME NEW f, NEW S, IsFiniteSet(S), NEW g, NEW h, NEW R,
           IsSum(g, f, R), IsSum(h, f, S), S \subseteq R
    PROVE  \A T \in SUBSET S : g[T] = h[T]
<1> DEFINE B == {T \in SUBSET S : g[T] # h[T]}
<1> SUFFICES ASSUME B # {} PROVE FALSE
  OBVIOUS
<1>1. PICK T \in B : \A U \in B : ~(U \subseteq T /\ U # T)
  <2>1. B \subseteq SUBSET S
    OBVIOUS
  <2> HIDE DEF B
  <2> QED
    BY <2>1, SmallestSet
<1>2. T # {}
  BY SumEquation
<1>3. Pick(T) \in T
  BY <1>2, PickMember
<1>4. g[T \ {Pick(T)}] = h[T \ {Pick(T)}]
  BY <1>1, <1>3
<1>5. T \in SUBSET S /\ T \in SUBSET R
  OBVIOUS
<1>6. g[T] = f[Pick(T)] + g[T \ {Pick(T)}] /\ h[T] = f[Pick(T)] + h[T \ {Pick(T)}]
  BY <1>2, <1>5, SumEquation
<1> QED
  BY <1>4, <1>6

LEMMA SumExists ==
    ASSUME NEW f, NEW S, IsFiniteSet(S)
    PROVE  \E h : IsSum(h, f, S)
<1> DEFINE B == {T \in SUBSET S : ~ \E h : IsSum(h, f, T)}
<1> SUFFICES ASSUME B # {} PROVE FALSE
  OBVIOUS
<1>1. PICK T \in B : \A U \in B : ~(U \subseteq T /\ U # T)
  <2>1. B \subseteq SUBSET S
    OBVIOUS
  <2> HIDE DEF B
  <2> QED
    BY <2>1, SmallestSet
<1> DEFINE H(U) == CHOOSE h : IsSum(h, f, U)
           value(U) == IF U = {} THEN 0 ELSE f[Pick(U)] + H(U \ {Pick(U)})[U \ {Pick(U)}]
           g == [U \in SUBSET T |-> value(U)]
<1>2. ASSUME NEW U \in SUBSET T, U # T PROVE IsSum(H(U), f, U) /\ IsFiniteSet(U)
  <2>1. \E h : IsSum(h, f, U)
    BY <1>1, <1>2
  <2>2. IsSum(H(U), f, U)
    BY <2>1
  <2>3. IsFiniteSet(U)
    BY FS_Subset
  <2> QED
    BY <2>2, <2>3
<1> HIDE DEF H
<1>3. ASSUME NEW U \in SUBSET T, U # T PROVE H(U)[U] = value(U)
  <2>1. IsSum(H(U), f, U)
    BY <1>2, <1>3
  <2>2. CASE U = {}
    BY <2>1, <2>2, SumEquation
  <2>3. CASE U # {}
    <3> DEFINE V == U \ {Pick(U)}
    <3>1. V \in SUBSET T /\ V \subseteq U /\ V # T /\ U \in SUBSET U /\ V \in SUBSET V
      BY <1>3, <2>3, PickMember
    <3>2. IsSum(H(V), f, V) /\ IsFiniteSet(V)
      BY <1>2, <3>1
    <3>3. H(U)[V] = H(V)[V]
      BY <2>1, <3>1, <3>2, OneSum
    <3>4. H(U)[U] = f[Pick(U)] + H(U)[V]
      BY <2>1, <2>3, <3>1, SumEquation
    <3> QED
      BY <2>3, <3>3, <3>4
  <2> QED
    BY <2>2, <2>3
<1>4. \A U \in SUBSET T : U # {} => g[U] = f[Pick(U)] + g[U \ {Pick(U)}]
  <2> SUFFICES ASSUME NEW U \in SUBSET T, U # {}
               PROVE  g[U] = f[Pick(U)] + g[U \ {Pick(U)}]
    OBVIOUS
  <2> DEFINE V == U \ {Pick(U)}
  <2>1. V \in SUBSET T /\ V # T
    BY PickMember
  <2>2. g[V] = H(V)[V]
    BY <1>3, <2>1
  <2> QED
    BY <2>2
<1>5. g[{}] = 0
  OBVIOUS
<1>6. IsSum(g, f, T)
  <2> HIDE DEF value
  <2>1. DOMAIN g = SUBSET T
    OBVIOUS
  <2>2. \A U \in SUBSET T : g[U] = IF U = {} THEN 0 ELSE f[Pick(U)] + g[U \ {Pick(U)}]
    BY <1>4, <1>5
  <2>3. g = [U \in SUBSET T |-> g[U]]
    OBVIOUS
  <2> HIDE DEF g
  <2> QED
    BY <2>2, <2>3 DEF IsSum
<1> QED
  BY <1>1, <1>6

LEMMA SumIsSum ==
    ASSUME NEW f, NEW S, IsFiniteSet(S)
    PROVE  \E h : IsSum(h, f, S) /\ SumFunctionOnSet(f, S) = h[S]
<1> DEFINE h == CHOOSE h : IsSum(h, f, S)
<1>1. SumFunctionOnSet(f, S) = h[S]
  BY DEF SumFunctionOnSet, FoldFunctionOnSet, MapThenFoldSet, IsSum, Pick
<1>2. IsSum(h, f, S)
  BY SumExists
<1> QED
  BY <1>1, <1>2

-----------------------------------------------------------------------------

LEMMA SumOfNone == \A f : SumFunctionOnSet(f, {}) = 0
BY FS_EmptySet, SumIsSum, SumEquation

LEMMA SumUnfolds ==
    ASSUME NEW f, NEW S, IsFiniteSet(S), S # {}
    PROVE  SumFunctionOnSet(f, S) = f[Pick(S)] + SumFunctionOnSet(f, S \ {Pick(S)})
<1> DEFINE T == S \ {Pick(S)}
<1>1. PICK h : IsSum(h, f, S) /\ SumFunctionOnSet(f, S) = h[S]
  BY SumIsSum
<1>2. IsFiniteSet(T)
  BY FS_RemoveElement
<1>3. PICK g : IsSum(g, f, T) /\ SumFunctionOnSet(f, T) = g[T]
  BY <1>2, SumIsSum
<1>4. h[T] = g[T]
  BY <1>1, <1>2, <1>3, OneSum
<1>5. h[S] = f[Pick(S)] + h[T]
  BY <1>1, SumEquation
<1> QED
  BY <1>1, <1>3, <1>4, <1>5

(* A sum of integers is one. *)
LEMMA SumType ==
    ASSUME NEW f, NEW S, IsFiniteSet(S), \A x \in S : f[x] \in Int
    PROVE  SumFunctionOnSet(f, S) \in Int
<1> DEFINE B == {T \in SUBSET S : SumFunctionOnSet(f, T) \notin Int}
<1> SUFFICES ASSUME B # {} PROVE FALSE
  OBVIOUS
<1>1. PICK T \in B : \A U \in B : ~(U \subseteq T /\ U # T)
  <2>1. B \subseteq SUBSET S
    OBVIOUS
  <2> HIDE DEF B
  <2> QED
    BY <2>1, SmallestSet
<1>2. T # {} /\ IsFiniteSet(T)
  <2>1. SumFunctionOnSet(f, {}) \in Int
    BY SumOfNone
  <2> QED
    BY <2>1, FS_Subset
<1>3. Pick(T) \in T
  BY <1>2, PickMember
<1>4. SumFunctionOnSet(f, T \ {Pick(T)}) \in Int
  BY <1>1, <1>3
<1>5. SumFunctionOnSet(f, T) = f[Pick(T)] + SumFunctionOnSet(f, T \ {Pick(T)})
  BY <1>2, SumUnfolds
<1> QED
  BY <1>3, <1>4, <1>5

(* Only the values on the set matter. *)
LEMMA SumOfEqual ==
    ASSUME NEW f, NEW g, NEW S, IsFiniteSet(S), \A x \in S : f[x] = g[x]
    PROVE  SumFunctionOnSet(f, S) = SumFunctionOnSet(g, S)
<1> DEFINE B == {T \in SUBSET S : SumFunctionOnSet(f, T) # SumFunctionOnSet(g, T)}
<1> SUFFICES ASSUME B # {} PROVE FALSE
  OBVIOUS
<1>1. PICK T \in B : \A U \in B : ~(U \subseteq T /\ U # T)
  <2>1. B \subseteq SUBSET S
    OBVIOUS
  <2> HIDE DEF B
  <2> QED
    BY <2>1, SmallestSet
<1>2. T # {} /\ IsFiniteSet(T)
  BY SumOfNone, FS_Subset
<1>3. Pick(T) \in T
  BY <1>2, PickMember
<1>4. SumFunctionOnSet(f, T \ {Pick(T)}) = SumFunctionOnSet(g, T \ {Pick(T)})
  BY <1>1, <1>3
<1>5. /\ SumFunctionOnSet(f, T) = f[Pick(T)] + SumFunctionOnSet(f, T \ {Pick(T)})
      /\ SumFunctionOnSet(g, T) = g[Pick(T)] + SumFunctionOnSet(g, T \ {Pick(T)})
  BY <1>2, SumUnfolds
<1> QED
  BY <1>3, <1>4, <1>5

(* Any element can be taken out first. *)
LEMMA SumTakesOut ==
    ASSUME NEW f, NEW S, IsFiniteSet(S), \A x \in S : f[x] \in Int, NEW y \in S
    PROVE  SumFunctionOnSet(f, S) = f[y] + SumFunctionOnSet(f, S \ {y})
<1> DEFINE B == {T \in SUBSET S : \E x \in T : SumFunctionOnSet(f, T) # f[x] + SumFunctionOnSet(f, T \ {x})}
<1> SUFFICES ASSUME B # {} PROVE FALSE
  OBVIOUS
<1>1. PICK T \in B : \A U \in B : ~(U \subseteq T /\ U # T)
  <2>1. B \subseteq SUBSET S
    OBVIOUS
  <2> HIDE DEF B
  <2> QED
    BY <2>1, SmallestSet
<1>2. PICK x \in T : SumFunctionOnSet(f, T) # f[x] + SumFunctionOnSet(f, T \ {x})
  BY <1>1
<1> DEFINE p == Pick(T)
<1>3. p \in T
  BY PickMember
<1> HIDE DEF p
<1>4. \A U \in SUBSET T : IsFiniteSet(U) /\ U \in SUBSET S
  BY FS_Subset
<1>5. SumFunctionOnSet(f, T) = f[p] + SumFunctionOnSet(f, T \ {p})
  BY <1>2, <1>4, SumUnfolds DEF p
<1>6. x # p
  BY <1>2, <1>5
<1>7. SumFunctionOnSet(f, T \ {p}) = f[x] + SumFunctionOnSet(f, (T \ {p}) \ {x})
  <2>1. T \ {p} \notin B /\ x \in T \ {p}
    BY <1>1, <1>3, <1>6
  <2> QED
    BY <1>4, <2>1
<1>8. SumFunctionOnSet(f, T \ {x}) = f[p] + SumFunctionOnSet(f, (T \ {x}) \ {p})
  <2>1. T \ {x} \notin B /\ p \in T \ {x}
    BY <1>1, <1>3, <1>6
  <2> QED
    BY <1>4, <2>1
<1>9. (T \ {p}) \ {x} = (T \ {x}) \ {p}
  OBVIOUS
<1>10. /\ f[x] \in Int /\ f[p] \in Int
       /\ SumFunctionOnSet(f, (T \ {p}) \ {x}) \in Int
  <2>1. IsFiniteSet((T \ {p}) \ {x}) /\ \A z \in (T \ {p}) \ {x} : f[z] \in Int
    BY <1>4
  <2> QED
    BY <1>3, <1>4, <2>1, SumType
<1> QED
  BY <1>2, <1>5, <1>7, <1>8, <1>9, <1>10

(* A sum of zeros. *)
LEMMA SumOfZeros ==
    ASSUME NEW f, NEW S, IsFiniteSet(S), \A x \in S : f[x] = 0
    PROVE  SumFunctionOnSet(f, S) = 0
<1> DEFINE B == {T \in SUBSET S : SumFunctionOnSet(f, T) # 0}
<1> SUFFICES ASSUME B # {} PROVE FALSE
  OBVIOUS
<1>1. PICK T \in B : \A U \in B : ~(U \subseteq T /\ U # T)
  <2>1. B \subseteq SUBSET S
    OBVIOUS
  <2> HIDE DEF B
  <2> QED
    BY <2>1, SmallestSet
<1>2. T # {} /\ IsFiniteSet(T)
  BY SumOfNone, FS_Subset
<1>3. Pick(T) \in T
  BY <1>2, PickMember
<1>4. SumFunctionOnSet(f, T \ {Pick(T)}) = 0
  BY <1>1, <1>3
<1>5. SumFunctionOnSet(f, T) = f[Pick(T)] + SumFunctionOnSet(f, T \ {Pick(T)})
  BY <1>2, SumUnfolds
<1> QED
  BY <1>3, <1>4, <1>5

(* One value is changed. *)
LEMMA SumChanges ==
    ASSUME NEW f, NEW g, NEW S, IsFiniteSet(S), \A x \in S : f[x] \in Int,
           NEW y, NEW d \in Int,
           \A x \in S \ {y} : g[x] = f[x],
           y \in S => g[y] = f[y] + d
    PROVE  SumFunctionOnSet(g, S) = SumFunctionOnSet(f, S) + (IF y \in S THEN d ELSE 0)
<1>1. CASE y \notin S
  <2>1. SumFunctionOnSet(f, S) \in Int /\ SumFunctionOnSet(g, S) = SumFunctionOnSet(f, S)
    BY <1>1, SumOfEqual, SumType
  <2> QED
    BY <1>1, <2>1
<1>2. CASE y \in S
  <2> DEFINE T == S \ {y}
  <2>1. IsFiniteSet(T)
    BY FS_RemoveElement
  <2>2. SumFunctionOnSet(f, T) = SumFunctionOnSet(g, T) /\ SumFunctionOnSet(f, T) \in Int
    BY <2>1, SumOfEqual, SumType
  <2>3. SumFunctionOnSet(f, S) = f[y] + SumFunctionOnSet(f, T)
    BY <1>2, SumTakesOut
  <2>4. SumFunctionOnSet(g, S) = g[y] + SumFunctionOnSet(g, T)
    <3>1. \A x \in S : g[x] \in Int
      BY <1>2
    <3> QED
      BY <1>2, <3>1, SumTakesOut
  <2> QED
    BY <1>2, <2>2, <2>3, <2>4
<1> QED
  BY <1>1, <1>2

=============================================================================
