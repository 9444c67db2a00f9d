--------------------------- MODULE FairShareProofs ---------------------------
(***************************************************************************)
(* FairShare shares a capacity without exceeding or wasting it, and        *)
(* weighted max-min fairly, for any participants and any bounds of the     *)
(* inputs.  First come the facts about sums that this needs: a claim that  *)
(* fails for a finite set fails for a smallest one of its subsets, which   *)
(* replaces induction.                                                     *)
(***************************************************************************)
EXTENDS FairShare, FiniteSetTheorems, WellFoundedInduction, TLAPS

\* What the fold of a sum takes next from a set, and the table it builds.
Picked(S) == CHOOSE x \in S : TRUE
IsTable(g, f, S) ==
    g = [T \in SUBSET S |-> IF T = {} THEN 0 ELSE f[Picked(T)] + g[T \ {Picked(T)}]]

\* A claim about the subsets of a finite set that fails for one fails for a smallest one.
LEMMA SmallestSubset ==
    ASSUME NEW S, IsFiniteSet(S), NEW B \in SUBSET (SUBSET S), B # {}
    PROVE  \E T \in B : T \subseteq S /\ IsFiniteSet(T) /\ \A U \in SUBSET T : U # T => U \notin B
<1>1. PICK T \in B : \A U \in B : <<U, T>> \notin StrictSubsetOrdering(S)
  <2>1. IsWellFoundedOn(StrictSubsetOrdering(S), FiniteSubsetsOf(S))
    BY FS_StrictSubsetOrderingWellFounded
  <2>2. B \subseteq FiniteSubsetsOf(S)
    BY FS_FiniteSubsetsOfFinite
  <2> QED  BY <2>1, <2>2, WFMin
<1>2. ASSUME NEW U \in SUBSET T, U # T PROVE U \notin B
  BY <1>1, <1>2 DEF StrictSubsetOrdering
<1> QED  BY <1>1, <1>2, FS_Subset

LEMMA TableAt ==
    ASSUME NEW f, NEW S, NEW g, IsTable(g, f, S), NEW T \in SUBSET S
    PROVE  g[T] = IF T = {} THEN 0 ELSE f[Picked(T)] + g[T \ {Picked(T)}]
BY DEF IsTable

LEMMA PickedIn == ASSUME NEW T, T # {} PROVE Picked(T) \in T
BY DEF Picked

\* The tables of a set and of one of its subsets agree.
LEMMA TablesAgree ==
    ASSUME NEW f, NEW S, IsFiniteSet(S), NEW g, IsTable(g, f, S),
           NEW U \in SUBSET S, NEW h, IsTable(h, f, U)
    PROVE  g[U] = h[U]
<1> DEFINE B == {T \in SUBSET U : g[T] # h[T]}
<1>1. SUFFICES ASSUME B # {} PROVE FALSE
  OBVIOUS
<1>2. IsFiniteSet(U)
  BY FS_Subset
<1>3. PICK T \in B : T \subseteq U /\ IsFiniteSet(T) /\ \A V \in SUBSET T : V # T => V \notin B
  <2>1. B \in SUBSET (SUBSET U)  OBVIOUS
  <2> HIDE DEF B
  <2> QED  BY <1>1, <1>2, <2>1, SmallestSubset
<1>4. T \in SUBSET S /\ T \in SUBSET U /\ g[T] # h[T]
  BY <1>3
<1>5. T # {}
  <2>1. {} \in SUBSET S /\ {} \in SUBSET U
    OBVIOUS
  <2>2. g[{}] = 0 /\ h[{}] = 0
    BY <2>1, TableAt
  <2> QED  BY <1>4, <2>2
<1>6. Picked(T) \in T
  BY <1>5, PickedIn
<1>7. g[T \ {Picked(T)}] = h[T \ {Picked(T)}]
  BY <1>3, <1>6
<1> QED  BY <1>4, <1>5, <1>7, TableAt

LEMMA TableExists ==
    ASSUME NEW f, NEW S, IsFiniteSet(S)
    PROVE  \E g : IsTable(g, f, S)
<1> DEFINE B == {T \in SUBSET S : ~ \E g : IsTable(g, f, T)}
<1>1. SUFFICES ASSUME B # {} PROVE FALSE
  OBVIOUS
<1>2. PICK T \in B : T \subseteq S /\ IsFiniteSet(T) /\ \A U \in SUBSET T : U # T => U \notin B
  <2>1. B \in SUBSET (SUBSET S)  OBVIOUS
  <2> HIDE DEF B
  <2> QED  BY <1>1, <2>1, SmallestSubset
<1> DEFINE Table(U) == CHOOSE g : IsTable(g, f, U)
           Value(U) == Table(U)[U]
           F == [U \in SUBSET T |-> IF U = {} THEN 0 ELSE f[Picked(U)] + Value(U \ {Picked(U)})]
<1>3. ASSUME NEW U \in SUBSET T, U # T PROVE IsTable(Table(U), f, U)
  BY <1>2, <1>3
<1>4. ASSUME NEW U \in SUBSET T, U # T, U # {}
      PROVE  Value(U) = f[Picked(U)] + Value(U \ {Picked(U)})
  <2>1. Picked(U) \in U
    BY <1>4, PickedIn
  <2>2. IsTable(Table(U), f, U) /\ IsTable(Table(U \ {Picked(U)}), f, U \ {Picked(U)})
    BY <1>3, <1>4, <2>1
  <2> HIDE DEF Table
  <2>3. Value(U) = f[Picked(U)] + Table(U)[U \ {Picked(U)}]
    BY <1>4, <2>2, TableAt
  <2>4. Table(U)[U \ {Picked(U)}] = Value(U \ {Picked(U)})
    BY <1>2, <2>2, FS_Subset, TablesAgree
  <2> QED  BY <2>3, <2>4
<1>5. Value({}) = 0 \/ T = {}
  BY <1>3, TableAt
<1>6. ASSUME NEW U \in SUBSET T, U # {}
      PROVE  F[U \ {Picked(U)}] = Value(U \ {Picked(U)})
  <2>1. U \ {Picked(U)} \in SUBSET T /\ U \ {Picked(U)} # T
    BY <1>6, PickedIn
  <2> HIDE DEF Value
  <2> QED  BY <1>4, <1>5, <2>1, <1>6
<1>7. F = [U \in SUBSET T |-> IF U = {} THEN 0 ELSE f[Picked(U)] + F[U \ {Picked(U)}]]
  <2> HIDE DEF Value
  <2> QED  BY <1>6
<1>8. IsTable(F, f, T)
  <2> HIDE DEF F
  <2> QED  BY <1>7 DEF IsTable
<1> QED  BY <1>2, <1>8

LEMMA SumEmpty == ASSUME NEW f PROVE SumOf(f, {}) = 0
<1>1. PICK g : IsTable(g, f, {})
  BY TableExists, FS_EmptySet
<1>2. IsTable(CHOOSE h : IsTable(h, f, {}), f, {})
  BY <1>1
<1>3. SumOf(f, {}) = (CHOOSE h : IsTable(h, f, {}))[{}]
  BY DEF SumOf, SumFunctionOnSet, FoldFunctionOnSet, MapThenFoldSet, IsTable, Picked
<1> QED  BY <1>2, <1>3, TableAt

LEMMA SumTable ==
    ASSUME NEW f, NEW S, IsFiniteSet(S)
    PROVE  \E g : IsTable(g, f, S) /\ SumOf(f, S) = g[S]
<1>1. PICK g : IsTable(g, f, S)
  BY TableExists
<1>2. IsTable(CHOOSE h : IsTable(h, f, S), f, S)
  BY <1>1
<1>3. SumOf(f, S) = (CHOOSE h : IsTable(h, f, S))[S]
  BY DEF SumOf, SumFunctionOnSet, FoldFunctionOnSet, MapThenFoldSet, IsTable, Picked
<1> QED  BY <1>2, <1>3

LEMMA SumPicked ==
    ASSUME NEW f, NEW S, IsFiniteSet(S), S # {}
    PROVE  SumOf(f, S) = f[Picked(S)] + SumOf(f, S \ {Picked(S)})
<1>1. PICK g : IsTable(g, f, S) /\ SumOf(f, S) = g[S]
  BY SumTable
<1>2. IsFiniteSet(S \ {Picked(S)})
  BY FS_Subset
<1>3. PICK h : IsTable(h, f, S \ {Picked(S)}) /\ SumOf(f, S \ {Picked(S)}) = h[S \ {Picked(S)}]
  BY <1>2, SumTable
<1>4. g[S \ {Picked(S)}] = h[S \ {Picked(S)}]
  BY <1>1, <1>3, TablesAgree
<1> QED  BY <1>1, <1>3, <1>4, TableAt

LEMMA SumNat ==
    ASSUME NEW S, IsFiniteSet(S), NEW f, \A x \in S : f[x] \in Nat
    PROVE  SumOf(f, S) \in Nat
<1> DEFINE B == {T \in SUBSET S : SumOf(f, T) \notin Nat}
<1>1. SUFFICES ASSUME B # {} PROVE FALSE
  OBVIOUS
<1>2. PICK T \in B : T \subseteq S /\ IsFiniteSet(T) /\ \A U \in SUBSET T : U # T => U \notin B
  <2>1. B \in SUBSET (SUBSET S)  OBVIOUS
  <2> HIDE DEF B
  <2> QED  BY <1>1, <2>1, SmallestSubset
<1>3. T # {}
  BY SumEmpty
<1>4. Picked(T) \in T /\ f[Picked(T)] \in Nat
  BY <1>3, <1>2, PickedIn
<1>5. SumOf(f, T \ {Picked(T)}) \in Nat
  BY <1>2, <1>4
<1> QED  BY <1>2, <1>3, <1>4, <1>5, SumPicked

\* Any element may be taken out first.
LEMMA SumTake ==
    ASSUME NEW S, IsFiniteSet(S), NEW f, \A x \in S : f[x] \in Nat, NEW y \in S
    PROVE  SumOf(f, S) = f[y] + SumOf(f, S \ {y})
<1> DEFINE B == {T \in SUBSET S : \E x \in T : SumOf(f, T) # f[x] + SumOf(f, T \ {x})}
<1>1. SUFFICES ASSUME B # {} PROVE FALSE
  OBVIOUS
<1>2. PICK T \in B : T \subseteq S /\ IsFiniteSet(T) /\ \A U \in SUBSET T : U # T => U \notin B
  <2>1. B \in SUBSET (SUBSET S)  OBVIOUS
  <2> HIDE DEF B
  <2> QED  BY <1>1, <2>1, SmallestSubset
<1>3. PICK x \in T : SumOf(f, T) # f[x] + SumOf(f, T \ {x})
  BY <1>2
<1> DEFINE p == Picked(T)
<1>4. p \in T /\ p # x /\ SumOf(f, T) = f[p] + SumOf(f, T \ {p})
  BY <1>2, <1>3, PickedIn, SumPicked
<1> HIDE DEF p
<1>5. SumOf(f, T \ {p}) = f[x] + SumOf(f, (T \ {p}) \ {x})
  BY <1>2, <1>3, <1>4
<1>6. SumOf(f, T \ {x}) = f[p] + SumOf(f, (T \ {x}) \ {p})
  BY <1>2, <1>3, <1>4
<1>7. (T \ {x}) \ {p} = (T \ {p}) \ {x}
  OBVIOUS
<1>8. SumOf(f, (T \ {p}) \ {x}) \in Nat
  <2>1. IsFiniteSet((T \ {p}) \ {x}) BY <1>2, FS_Subset
  <2> QED  BY <1>2, <2>1, SumNat
<1>9. f[x] \in Nat /\ f[p] \in Nat
  BY <1>2, <1>3, <1>4
<1> HIDE DEF B
<1> QED  BY <1>3, <1>4, <1>5, <1>6, <1>7, <1>8, <1>9

LEMMA SumEqual ==
    ASSUME NEW S, IsFiniteSet(S), NEW f, NEW g, \A x \in S : f[x] = g[x]
    PROVE  SumOf(f, S) = SumOf(g, S)
<1> DEFINE B == {T \in SUBSET S : SumOf(f, T) # SumOf(g, T)}
<1>1. SUFFICES ASSUME B # {} PROVE FALSE
  OBVIOUS
<1>2. PICK T \in B : T \subseteq S /\ IsFiniteSet(T) /\ \A U \in SUBSET T : U # T => U \notin B
  <2>1. B \in SUBSET (SUBSET S)  OBVIOUS
  <2> HIDE DEF B
  <2> QED  BY <1>1, <2>1, SmallestSubset
<1>3. T # {}
  BY SumEmpty
<1>4. Picked(T) \in T /\ f[Picked(T)] = g[Picked(T)]
  BY <1>3, <1>2, PickedIn
<1>5. SumOf(f, T \ {Picked(T)}) = SumOf(g, T \ {Picked(T)})
  BY <1>2, <1>4
<1> QED  BY <1>2, <1>3, <1>4, <1>5, SumPicked

\* A sum over a set is that over a part of it and that over the rest.
LEMMA SumSplit ==
    ASSUME NEW S, IsFiniteSet(S), NEW f, \A x \in S : f[x] \in Nat, NEW R \in SUBSET S
    PROVE  SumOf(f, S) = SumOf(f, R) + SumOf(f, S \ R)
<1> DEFINE B == {T \in SUBSET S : SumOf(f, S) # SumOf(f, T) + SumOf(f, S \ T)}
<1>1. SUFFICES ASSUME B # {} PROVE FALSE
  OBVIOUS
<1>2. PICK T \in B : T \subseteq S /\ IsFiniteSet(T) /\ \A U \in SUBSET T : U # T => U \notin B
  <2>1. B \in SUBSET (SUBSET S)  OBVIOUS
  <2> HIDE DEF B
  <2> QED  BY <1>1, <2>1, SmallestSubset
<1>3. T # {}
  <2>1. SumOf(f, {}) = 0 /\ S \ {} = S /\ SumOf(f, S) \in Nat
    BY SumEmpty, SumNat
  <2> QED  BY <2>1
<1>4. PICK y \in T : f[y] \in Nat
  BY <1>2, <1>3
<1>5. SumOf(f, S) = SumOf(f, T \ {y}) + SumOf(f, S \ (T \ {y}))
  BY <1>2, <1>4
<1>6. SumOf(f, T) = f[y] + SumOf(f, T \ {y})
  BY <1>2, <1>4, SumTake
<1>7. SumOf(f, S \ (T \ {y})) = f[y] + SumOf(f, S \ T)
  <2>1. (S \ (T \ {y})) \ {y} = S \ T
    BY <1>2, <1>4
  <2>2. y \in S \ (T \ {y}) /\ IsFiniteSet(S \ (T \ {y}))
    BY <1>2, <1>4, FS_Subset
  <2>3. SumOf(f, S \ (T \ {y})) = f[y] + SumOf(f, (S \ (T \ {y})) \ {y})
    BY <2>2, SumTake
  <2> QED  BY <2>1, <2>3
<1>8. SumOf(f, T \ {y}) \in Nat /\ SumOf(f, S \ T) \in Nat
  <2>1. IsFiniteSet(T \ {y}) /\ IsFiniteSet(S \ T)
    BY <1>2, FS_Subset
  <2> QED  BY <1>2, <2>1, SumNat
<1>9. SumOf(f, S) # SumOf(f, T) + SumOf(f, S \ T)
  BY <1>2
<1> HIDE DEF B
<1> QED  BY <1>4, <1>5, <1>6, <1>7, <1>8, <1>9

LEMMA SumAtMost ==
    ASSUME NEW S, IsFiniteSet(S), NEW f, NEW g,
           \A x \in S : f[x] \in Nat /\ g[x] \in Nat /\ f[x] <= g[x]
    PROVE  SumOf(f, S) <= SumOf(g, S)
<1> DEFINE B == {T \in SUBSET S : ~(SumOf(f, T) <= SumOf(g, T))}
<1>1. SUFFICES ASSUME B # {} PROVE FALSE
  OBVIOUS
<1>2. PICK T \in B : T \subseteq S /\ IsFiniteSet(T) /\ \A U \in SUBSET T : U # T => U \notin B
  <2>1. B \in SUBSET (SUBSET S)  OBVIOUS
  <2> HIDE DEF B
  <2> QED  BY <1>1, <2>1, SmallestSubset
<1>3. T # {}
  BY SumEmpty
<1>4. Picked(T) \in T /\ f[Picked(T)] \in Nat /\ g[Picked(T)] \in Nat /\ f[Picked(T)] <= g[Picked(T)]
  BY <1>3, <1>2, PickedIn
<1>5. SumOf(f, T \ {Picked(T)}) <= SumOf(g, T \ {Picked(T)})
  BY <1>2, <1>4
<1>6. SumOf(f, T \ {Picked(T)}) \in Nat /\ SumOf(g, T \ {Picked(T)}) \in Nat
  <2>1. IsFiniteSet(T \ {Picked(T)})
    BY <1>2, FS_Subset
  <2> QED  BY <1>2, <2>1, SumNat
<1>7. SumOf(f, T) = f[Picked(T)] + SumOf(f, T \ {Picked(T)})
      /\ SumOf(g, T) = g[Picked(T)] + SumOf(g, T \ {Picked(T)})
  BY <1>2, <1>3, SumPicked
<1>8. ~(SumOf(f, T) <= SumOf(g, T))
  BY <1>2
<1> HIDE DEF B
<1> QED  BY <1>4, <1>5, <1>6, <1>7, <1>8

LEMMA Distribute ==
    ASSUME NEW a \in Int, NEW b \in Int, NEW c \in Int
    PROVE  (a + b) * c = a * c + b * c /\ c * (a + b) = c * a + c * b
OBVIOUS

\* The parts of c that fall to the elements by their weight w, in units of 1/W, rounded
\* down, are together no more than the part that falls to the set.
LEMMA SumOfFloors ==
    ASSUME NEW S, IsFiniteSet(S), NEW w, NEW s, NEW c \in Nat, NEW W \in Nat,
           \A x \in S : w[x] \in Nat /\ s[x] \in Nat /\ s[x] * W <= c * w[x]
    PROVE  SumOf(s, S) * W <= c * SumOf(w, S)
<1> DEFINE B == {T \in SUBSET S : ~(SumOf(s, T) * W <= c * SumOf(w, T))}
<1>1. SUFFICES ASSUME B # {} PROVE FALSE
  OBVIOUS
<1>2. PICK T \in B : T \subseteq S /\ IsFiniteSet(T) /\ \A U \in SUBSET T : U # T => U \notin B
  <2>1. B \in SUBSET (SUBSET S)  OBVIOUS
  <2> HIDE DEF B
  <2> QED  BY <1>1, <2>1, SmallestSubset
<1>3. T # {}
  BY SumEmpty
<1> DEFINE p == Picked(T)  U == T \ {p}
<1>4. p \in T /\ w[p] \in Nat /\ s[p] \in Nat /\ s[p] * W <= c * w[p]
  BY <1>3, <1>2, PickedIn
<1>5. SumOf(s, U) * W <= c * SumOf(w, U)
  BY <1>2, <1>4
<1>6. SumOf(s, U) \in Nat /\ SumOf(w, U) \in Nat
  <2>1. IsFiniteSet(U)
    BY <1>2, FS_Subset
  <2> QED  BY <1>2, <2>1, SumNat
<1>7. SumOf(s, T) = s[p] + SumOf(s, U) /\ SumOf(w, T) = w[p] + SumOf(w, U)
  BY <1>2, <1>3, SumPicked
<1>8. ~(SumOf(s, T) * W <= c * SumOf(w, T))
  BY <1>2
<1> HIDE DEF B, p, U
<1>9. SumOf(s, T) * W = s[p] * W + SumOf(s, U) * W
      /\ c * SumOf(w, T) = c * w[p] + c * SumOf(w, U)
  BY <1>4, <1>6, <1>7, Distribute
<1>10. s[p] * W \in Int /\ SumOf(s, U) * W \in Int /\ c * w[p] \in Int /\ c * SumOf(w, U) \in Int
  BY <1>4, <1>6
<1> QED  BY <1>4, <1>5, <1>8, <1>9, <1>10

\* And what the floors leave over is less than one unit of W for each of them.
LEMMA SumOfFloorsLeaves ==
    ASSUME NEW S, IsFiniteSet(S), NEW w, NEW s, NEW c \in Nat, NEW W \in Nat,
           \A x \in S : w[x] \in Nat /\ s[x] \in Nat /\ c * w[x] < (s[x] + 1) * W
    PROVE  c * SumOf(w, S) + Cardinality(S) <= (SumOf(s, S) + Cardinality(S)) * W
<1> DEFINE Left(T) == c * SumOf(w, T) + Cardinality(T)
           Right(T) == (SumOf(s, T) + Cardinality(T)) * W
           B == {T \in SUBSET S : ~(Left(T) <= Right(T))}
<1>1. SUFFICES ASSUME B # {} PROVE FALSE
  OBVIOUS
<1>2. PICK T \in B : T \subseteq S /\ IsFiniteSet(T) /\ \A U \in SUBSET T : U # T => U \notin B
  <2>1. B \in SUBSET (SUBSET S)  OBVIOUS
  <2> HIDE DEF B
  <2> QED  BY <1>1, <2>1, SmallestSubset
<1>3. T # {}
  <2>1. c * 0 + 0 <= (0 + 0) * W
    OBVIOUS
  <2>2. Left({}) <= Right({})
    BY <2>1, SumEmpty, FS_EmptySet
  <2> HIDE DEF Left, Right
  <2> QED  BY <2>2
<1> DEFINE p == Picked(T)  U == T \ {p}  n == Cardinality(U)
<1>4. p \in T /\ w[p] \in Nat /\ s[p] \in Nat /\ c * w[p] < (s[p] + 1) * W
  BY <1>3, <1>2, PickedIn
<1>5. Left(U) <= Right(U)
  BY <1>2, <1>4
<1>6. SumOf(s, U) \in Nat /\ SumOf(w, U) \in Nat /\ n \in Nat /\ Cardinality(T) = n + 1
  <2>1. IsFiniteSet(U)
    BY <1>2, FS_Subset
  <2>2. n \in Nat /\ Cardinality(T) = n + 1
    BY <1>2, <1>4, <2>1, FS_CardinalityType, FS_RemoveElement
  <2> QED  BY <1>2, <2>1, <2>2, SumNat
<1>7. SumOf(s, T) = s[p] + SumOf(s, U) /\ SumOf(w, T) = w[p] + SumOf(w, U)
  BY <1>2, <1>3, SumPicked
<1>8. ~(Left(T) <= Right(T))
  BY <1>2
<1> HIDE DEF B, p, U, n
<1>9. Left(U) = c * SumOf(w, U) + n /\ Right(U) = (SumOf(s, U) + n) * W
      /\ Left(T) = c * (w[p] + SumOf(w, U)) + (n + 1)
      /\ Right(T) = ((s[p] + 1) + (SumOf(s, U) + n)) * W
  <2>1. s[p] + SumOf(s, U) + (n + 1) = (s[p] + 1) + (SumOf(s, U) + n)
    BY <1>4, <1>6
  <2> QED  BY <1>6, <1>7, <2>1 DEF n
<1> HIDE DEF Left, Right
<1>10. Left(T) = c * w[p] + c * SumOf(w, U) + (n + 1)
       /\ Right(T) = (s[p] + 1) * W + (SumOf(s, U) + n) * W
  BY <1>4, <1>6, <1>9, Distribute
<1>11. c * w[p] \in Int /\ c * SumOf(w, U) \in Int /\ (s[p] + 1) * W \in Int
       /\ (SumOf(s, U) + n) * W \in Int
  BY <1>4, <1>6
<1> QED  BY <1>4, <1>5, <1>6, <1>8, <1>9, <1>10, <1>11

LEMMA SumZero ==
    ASSUME NEW S, IsFiniteSet(S), NEW f, \A x \in S : f[x] = 0
    PROVE  SumOf(f, S) = 0
<1> DEFINE B == {T \in SUBSET S : SumOf(f, T) # 0}
<1>1. SUFFICES ASSUME B # {} PROVE FALSE
  OBVIOUS
<1>2. PICK T \in B : T \subseteq S /\ IsFiniteSet(T) /\ \A U \in SUBSET T : U # T => U \notin B
  <2>1. B \in SUBSET (SUBSET S)  OBVIOUS
  <2> HIDE DEF B
  <2> QED  BY <1>1, <2>1, SmallestSubset
<1>3. T # {}
  BY SumEmpty
<1>4. Picked(T) \in T /\ f[Picked(T)] = 0
  BY <1>3, <1>2, PickedIn
<1>5. SumOf(f, T \ {Picked(T)}) = 0
  BY <1>2, <1>4
<1>6. SumOf(f, T) = 0
  BY <1>2, <1>3, <1>4, <1>5, SumPicked
<1> QED  BY <1>6

\* Values that were zero are set for a part of a set.
LEMMA SumFill ==
    ASSUME NEW S, IsFiniteSet(S), NEW T \in SUBSET S, NEW f, NEW g,
           \A x \in S : f[x] \in Nat /\ g[x] \in Nat,
           \A x \in T : f[x] = 0, \A x \in S \ T : f[x] = g[x]
    PROVE  SumOf(g, S) = SumOf(f, S) + SumOf(g, T)
<1>1. IsFiniteSet(T) /\ IsFiniteSet(S \ T)
  BY FS_Subset
<1>2. SumOf(f, S) = SumOf(f, T) + SumOf(f, S \ T) /\ SumOf(g, S) = SumOf(g, T) + SumOf(g, S \ T)
  BY SumSplit
<1>3. SumOf(f, T) = 0 /\ SumOf(f, S \ T) = SumOf(g, S \ T)
  BY <1>1, SumZero, SumEqual
<1>4. SumOf(g, T) \in Nat /\ SumOf(g, S \ T) \in Nat
  BY <1>1, SumNat
<1> QED  BY <1>2, <1>3, <1>4

LEMMA LowestIn ==
    ASSUME NEW S \in SUBSET Nat, S # {}
    PROVE  Lowest(S) \in S /\ \A y \in S : Lowest(S) <= y
<1>1. PICK k \in S : TRUE
  OBVIOUS
<1> DEFINE R == 0..k  B == {T \in SUBSET R : \E x \in S : T = 0..x}
<1>2. PICK T \in B : T \subseteq R /\ IsFiniteSet(T) /\ \A U \in SUBSET T : U # T => U \notin B
  <2>1. B \in SUBSET (SUBSET R) /\ B # {}
    <3>1. R \in B
      OBVIOUS
    <3> QED  BY <3>1
  <2>2. IsFiniteSet(R)
    BY FS_Interval
  <2> HIDE DEF B, R
  <2> QED  BY <2>1, <2>2, SmallestSubset
<1>3. PICK x \in S : T = 0..x
  BY <1>2
<1>4. ASSUME NEW y \in S, y < x PROVE FALSE
  <2>1. 0..y \in SUBSET T /\ 0..y # T
    BY <1>3, <1>4
  <2>2. 0..y \in B
    BY <1>2, <2>1
  <2> HIDE DEF B
  <2> QED  BY <1>2, <2>1, <2>2
<1>5. x \in S /\ \A y \in S : x <= y
  BY <1>4
<1> QED  BY <1>5 DEF Lowest

-----------------------------------------------------------------------------
(***************************************************************************)
(* Products.                                                               *)
(***************************************************************************)

LEMMA TimesAtMost ==
    ASSUME NEW a \in Nat, NEW b \in Nat, NEW c \in Nat, a <= b
    PROVE  a * c <= b * c
OBVIOUS

LEMMA TimesLess ==
    ASSUME NEW a \in Nat, NEW b \in Nat, NEW c \in Nat \ {0}, a < b
    PROVE  a * c < b * c
OBVIOUS

LEMMA CancelAtMost ==
    ASSUME NEW a \in Nat, NEW b \in Nat, NEW c \in Nat \ {0}, a * c <= b * c
    PROVE  a <= b
<1>1. SUFFICES ASSUME b < a PROVE FALSE
  OBVIOUS
<1>2. b * c < a * c
  BY <1>1, TimesLess
<1>3. a * c \in Nat /\ b * c \in Nat
  OBVIOUS
<1> QED  BY <1>2, <1>3

LEMMA CancelLess ==
    ASSUME NEW a \in Nat, NEW b \in Nat, NEW c \in Nat \ {0}, a * c < b * c
    PROVE  a < b
<1>1. SUFFICES ASSUME b <= a PROVE FALSE
  OBVIOUS
<1>2. b * c <= a * c
  BY <1>1, TimesAtMost
<1>3. a * c \in Nat /\ b * c \in Nat
  OBVIOUS
<1> QED  BY <1>2, <1>3

LEMMA Swap ==
    ASSUME NEW a \in Nat, NEW b \in Nat, NEW c \in Nat
    PROVE  (a * b) * c = (a * c) * b /\ a * b \in Nat /\ a * c \in Nat /\ b * c \in Nat
           /\ (a * b) * c \in Nat /\ a * b = b * a
OBVIOUS

LEMMA Quotient ==
    ASSUME NEW a \in Nat, NEW b \in Nat \ {0}
    PROVE  /\ a \div b \in Nat
           /\ (a \div b) * b <= a /\ a < ((a \div b) + 1) * b
OBVIOUS

\* Who has taken no more than the share takes no more of the level that is left when
\* others leave with no more than theirs.
LEMMA LevelRises ==
    ASSUME NEW r \in Nat, NEW w \in Nat, NEW c \in Nat, NEW e \in Nat,
           NEW W \in Nat \ {0}, NEW V \in Nat, r * W <= c * w, c * V <= e * W
    PROVE  r * V <= e * w
<1>1. (r * V) * W = (r * W) * V /\ (r * W) * V <= (c * w) * V
  BY Swap, TimesAtMost
<1>2. (c * w) * V = (c * V) * w /\ (c * V) * w <= (e * W) * w
  BY Swap, TimesAtMost
<1>3. (e * W) * w = (e * w) * W
  BY Swap
<1>4. /\ (r * V) * W \in Nat /\ (c * w) * V \in Nat /\ (e * w) * W \in Nat
      /\ r * V \in Nat /\ e * w \in Nat
  BY Swap
<1>5. (r * V) * W <= (e * w) * W
  BY <1>1, <1>2, <1>3, <1>4
<1> QED  BY <1>4, <1>5, CancelAtMost

LEMMA SharesCompare ==
    ASSUME NEW a \in Nat, NEW b \in Nat, NEW c \in Nat, NEW v \in Nat, NEW w \in Nat \ {0},
           NEW W \in Nat \ {0}, a * W <= c * w, c * v < b * W
    PROVE  a * v < b * w
<1>1. (a * v) * W = (a * W) * v /\ (a * W) * v <= (c * w) * v
  BY Swap, TimesAtMost
<1>2. (c * w) * v = (c * v) * w /\ (c * v) * w < (b * W) * w
  BY Swap, TimesLess
<1>3. (b * W) * w = (b * w) * W
  BY Swap
<1>4. /\ (a * v) * W \in Nat /\ (c * w) * v \in Nat /\ (b * w) * W \in Nat
      /\ a * v \in Nat /\ b * w \in Nat
  BY Swap
<1>5. (a * v) * W < (b * w) * W
  BY <1>1, <1>2, <1>3, <1>4
<1> QED  BY <1>4, <1>5, CancelLess

-----------------------------------------------------------------------------
(***************************************************************************)
(* The inductive invariant.                                                *)
(***************************************************************************)

Peers ==
    IF class = "contributors" THEN Contributors ELSE IF class = "leeches" THEN Leeches ELSE {}
Weights == [i \in Ids |-> Weight(i)]

TypeInv ==
    /\ total \in 1..MaxCapacity
    /\ weight \in [Ids -> 0..MaxWeight] /\ demand \in [Ids -> 0..MaxDemand]
    /\ class \in {"contributors", "leeches", "done"} /\ pc \in {"round", "spread"}
    /\ active \subseteq {i \in Peers : demand[i] > 0}
    /\ capacity \in 0..total
    /\ rate \in [Ids -> Nat] /\ \A i \in Ids : rate[i] <= demand[i]
    /\ remainder \in Nat /\ turn \subseteq active
    /\ pc = "round" => turn = {}

\* What is not given away is what is left to give.
Budget ==
    /\ class # "done" =>
         SumOf(rate, Ids) + (IF pc = "round" THEN capacity ELSE remainder) = total
    /\ SumOf(rate, Ids) <= total

\* Everyone in the last round has its floor and room above it, and the pass still to
\* come has a unit at most for each.
Spreading ==
    pc = "spread" =>
        /\ capacity > 0 /\ active # {}
        /\ remainder < Cardinality(active) /\ remainder <= Cardinality(turn)
        /\ \A i \in active : /\ Share(i) < demand[i]
                             /\ rate[i] = IF i \in turn THEN Share(i) ELSE Share(i) + 1

\* Who has left a round has its demand, and a round runs out of capacity only if
\* there was none from the start.
Rounds ==
    /\ pc = "round" => \A i \in active : rate[i] = 0
    /\ \A i \in Peers \ active : rate[i] = demand[i]
    /\ class = "contributors" => \A l \in Leeches : rate[l] = 0
    /\ pc = "round" /\ capacity = 0 => active = {} \/ \A i \in Peers : rate[i] = 0

\* The leeches' turn comes with every contributor served, or with nothing left.
Served ==
    /\ class # "contributors" =>
        \/ \A c \in Contributors : rate[c] = demand[c]
        \/ /\ SumOf(rate, Ids) = total /\ \A l \in Leeches : rate[l] = 0
           /\ class = "leeches" => pc = "round" /\ capacity = 0
    /\ class = "done" /\ SumOf(rate, Ids) < total => rate = demand

FairAmong(P) ==
    \A i, j \in P : rate[i] < demand[i] /\ rate[j] > 0 =>
        (rate[j] - 1) * Weight(i) < (rate[i] + 1) * Weight(j)

\* What anyone has who has left is within its part of what is left for the others.
Levels ==
    /\ active # {} => \A j \in Peers \ active :
          rate[j] * SumOf(Weights, active) <= capacity * Weight(j)
    /\ class # "contributors" => FairAmong(Contributors)
    /\ class = "done" => FairAmong(Leeches)

FairInv == TypeInv /\ Budget /\ Spreading /\ Rounds /\ Served /\ Levels

LEMMA PeersAreIds ==
    /\ Peers \subseteq Ids /\ Contributors \subseteq Ids /\ Leeches \subseteq Ids
    /\ Ids \ Contributors = Leeches /\ IsFiniteSet(Ids)
BY FairAssumption DEF Peers, Contributors, Leeches

LEMMA WeightType ==
    ASSUME TypeInv, NEW i \in Ids
    PROVE  Weight(i) \in Nat \ {0} /\ Weights[i] = Weight(i)
<1>1. weight[i] \in 0..MaxWeight /\ MaxWeight \in Nat
  BY FairAssumption DEF TypeInv
<1> QED  BY <1>1 DEF Weight, Weights

LEMMA InputType ==
    ASSUME TypeInv
    PROVE  /\ \A i \in Ids : demand[i] \in Nat /\ rate[i] \in Nat /\ rate[i] <= demand[i]
           /\ total \in Nat \ {0} /\ capacity \in Nat /\ capacity <= total
           /\ active \subseteq Ids /\ IsFiniteSet(active) /\ turn \subseteq Ids
           /\ IsFiniteSet(turn)
<1>1. total \in 1..MaxCapacity /\ capacity \in 0..total /\ MaxCapacity \in Nat
  BY FairAssumption DEF TypeInv
<1>2. active \subseteq Ids /\ turn \subseteq Ids
  BY PeersAreIds DEF TypeInv
<1>3. IsFiniteSet(active) /\ IsFiniteSet(turn)
  BY <1>2, PeersAreIds, FS_Subset
<1>4. ASSUME NEW i \in Ids PROVE demand[i] \in Nat /\ rate[i] \in Nat /\ rate[i] <= demand[i]
  <2>1. demand[i] \in 0..MaxDemand /\ MaxDemand \in Nat /\ rate[i] \in Nat /\ rate[i] <= demand[i]
    BY <1>4, FairAssumption DEF TypeInv
  <2> QED  BY <2>1
<1>5. total \in Nat \ {0} /\ capacity \in Nat /\ capacity <= total
  BY <1>1
<1> QED  BY <1>2, <1>3, <1>4, <1>5

\* The weight of a set of participants, and that of a part of it.
LEMMA WeightOfSet ==
    ASSUME TypeInv, NEW S \in SUBSET Ids
    PROVE  /\ SumOf(Weights, S) \in Nat
           /\ S # {} => SumOf(Weights, S) \in Nat \ {0}
           /\ SumOf([j \in S |-> Weight(j)], S) = SumOf(Weights, S)
           /\ IsFiniteSet(S)
<1>1. IsFiniteSet(S)
  BY PeersAreIds, FS_Subset
<1>2. \A i \in S : Weights[i] \in Nat \ {0}
  BY WeightType
<1>3. SumOf(Weights, S) \in Nat
  BY <1>1, <1>2, SumNat
<1>4. ASSUME NEW i \in S PROVE SumOf(Weights, S) # 0
  <2>1. SumOf(Weights, S) = Weights[i] + SumOf(Weights, S \ {i})
    BY <1>1, <1>2, SumTake
  <2>2. SumOf(Weights, S \ {i}) \in Nat
    BY <1>1, <1>2, FS_Subset, SumNat
  <2> QED  BY <1>2, <2>1, <2>2
<1>5. SumOf([j \in S |-> Weight(j)], S) = SumOf(Weights, S)
  <2> DEFINE f == [j \in S |-> Weight(j)]
  <2>1. \A j \in S : f[j] = Weights[j]
    BY WeightType
  <2> HIDE DEF f
  <2>2. SumOf(f, S) = SumOf(Weights, S)
    BY <1>1, <2>1, SumEqual
  <2> QED  BY <2>2 DEF f
<1> QED  BY <1>1, <1>3, <1>4, <1>5

LEMMA ShareBounds ==
    ASSUME TypeInv, NEW i \in active
    PROVE  /\ Share(i) \in Nat
           /\ Share(i) * SumOf(Weights, active) <= capacity * Weight(i)
           /\ capacity * Weight(i) < (Share(i) + 1) * SumOf(Weights, active)
<1> DEFINE W == SumOf(Weights, active)  a == capacity * Weight(i)
<1>1. W \in Nat \ {0} /\ SumOf([j \in active |-> Weight(j)], active) = W
  BY InputType, WeightOfSet
<1>2. a \in Nat
  BY InputType, WeightType
<1>3. Share(i) = a \div W
  BY <1>1 DEF Share
<1> HIDE DEF W, a
<1>4. /\ a \div W \in Nat
      /\ (a \div W) * W <= a /\ a < ((a \div W) + 1) * W
  BY <1>1, <1>2, Quotient
<1> QED  BY <1>3, <1>4 DEF W, a

\* The floors fit the capacity, and leave less than a unit for each.
LEMMA FloorsFit ==
    ASSUME TypeInv, active # {}
    PROVE  LET floors == SumOf([i \in active |-> Share(i)], active)
           IN  floors \in Nat /\ floors <= capacity
               /\ capacity - floors < Cardinality(active)
<1> DEFINE s == [i \in active |-> Share(i)]  W == SumOf(Weights, active)
           n == Cardinality(active)
<1>1. /\ IsFiniteSet(active) /\ capacity \in Nat /\ W \in Nat \ {0} /\ n \in Nat \ {0}
      /\ active \subseteq Ids
  BY InputType, WeightOfSet, FS_EmptySet, FS_CardinalityType
<1>2. \A i \in active : /\ s[i] \in Nat /\ Weights[i] \in Nat
                        /\ s[i] * W <= capacity * Weights[i]
                        /\ capacity * Weights[i] < (s[i] + 1) * W
  BY <1>1, ShareBounds, WeightType
<1> HIDE DEF s
<1>3. SumOf(s, active) \in Nat
  BY <1>1, <1>2, SumNat
<1>4. SumOf(s, active) * W <= capacity * W
  <2> HIDE DEF W
  <2>1. SumOf(s, active) * W <= capacity * SumOf(Weights, active)
    BY <1>1, <1>2, SumOfFloors
  <2> QED  BY <2>1 DEF W
<1>5. capacity * W + n <= (SumOf(s, active) + n) * W
  <2> HIDE DEF W
  <2>1. capacity * SumOf(Weights, active) + Cardinality(active)
          <= (SumOf(s, active) + Cardinality(active)) * W
    BY <1>1, <1>2, SumOfFloorsLeaves
  <2> QED  BY <2>1 DEF W
<1> HIDE DEF W, n
<1>6. SumOf(s, active) <= capacity
  BY <1>1, <1>3, <1>4, CancelAtMost
<1>7. capacity < SumOf(s, active) + n
  <2>1. capacity * W \in Nat /\ (SumOf(s, active) + n) * W \in Nat
    BY <1>1, <1>3
  <2>2. capacity * W < (SumOf(s, active) + n) * W
    BY <1>1, <1>5, <2>1
  <2> QED  BY <1>1, <1>3, <2>2, CancelLess
<1>8. SumOf(s, active) \in Nat /\ SumOf(s, active) <= capacity
      /\ capacity - SumOf(s, active) < n
  BY <1>1, <1>3, <1>6, <1>7
<1> QED  BY <1>8 DEF s, n

\* Who leaves takes no more than its part of the capacity, and takes all of it only if
\* nobody stays.
LEMMA SatisfiedFit ==
    ASSUME TypeInv, NEW T \in SUBSET active, \A i \in T : demand[i] <= Share(i)
    PROVE  LET taken == SumOf(demand, T)
           IN  /\ taken \in Nat /\ taken <= capacity
               /\ capacity * SumOf(Weights, active \ T)
                    <= (capacity - taken) * SumOf(Weights, active)
               /\ taken = capacity /\ capacity > 0 => T = active
<1> DEFINE W == SumOf(Weights, active)  A == SumOf(Weights, T)
           V == SumOf(Weights, active \ T)  d == SumOf(demand, T)
<1>1. /\ IsFiniteSet(active) /\ capacity \in Nat /\ active \subseteq Ids
      /\ IsFiniteSet(T) /\ T \subseteq Ids
  BY InputType, FS_Subset
<1>2. /\ W \in Nat /\ A \in Nat /\ V \in Nat /\ W = A + V
      /\ active \ T # {} => V # 0
  <2>1. \A i \in active : Weights[i] \in Nat
    BY <1>1, WeightType
  <2>2. W = A + V
    BY <1>1, <2>1, SumSplit
  <2>3. W \in Nat /\ A \in Nat
    BY <1>1, WeightOfSet
  <2>4. V \in Nat /\ (active \ T # {} => V # 0)
    <3>1. active \ T \in SUBSET Ids
      BY <1>1
    <3> QED  BY <3>1, WeightOfSet
  <2> HIDE DEF W, A, V
  <2> QED  BY <2>2, <2>3, <2>4
<1>3. d \in Nat /\ \A i \in T : demand[i] \in Nat /\ Weights[i] \in Nat
                                /\ demand[i] * W <= capacity * Weights[i]
  <2>1. ASSUME NEW i \in T PROVE demand[i] \in Nat /\ Weights[i] \in Nat
                                /\ demand[i] * W <= capacity * Weights[i]
    <3>1. demand[i] \in Nat /\ Weights[i] \in Nat \ {0} /\ Weights[i] = Weight(i)
      BY <1>1, InputType, WeightType
    <3>2. Share(i) \in Nat /\ Share(i) * W <= capacity * Weight(i)
      BY ShareBounds
    <3> HIDE DEF W
    <3>3. demand[i] * W <= Share(i) * W
      BY <1>2, <3>1, <3>2, TimesAtMost
    <3>4. demand[i] * W \in Nat /\ Share(i) * W \in Nat /\ capacity * Weight(i) \in Nat
      BY <1>1, <1>2, <3>1, <3>2
    <3> QED  BY <3>1, <3>2, <3>3, <3>4
  <2>2. d \in Nat
    BY <1>1, <2>1, SumNat
  <2> QED  BY <2>1, <2>2
<1>4. d * W <= capacity * A
  <2> HIDE DEF W
  <2> QED  BY <1>1, <1>2, <1>3, SumOfFloors
<1> HIDE DEF W, A, V, d
<1>5. capacity * W = capacity * A + capacity * V
  BY <1>1, <1>2, Distribute
<1>6. d * W \in Nat /\ capacity * A \in Nat /\ capacity * V \in Nat
  BY <1>1, <1>2, <1>3
<1>7. W = 0 => T = {} /\ d = 0
  <2>1. T # {} => A # 0
    BY <1>1, WeightOfSet DEF A
  <2>2. T = {} => d = 0
    BY SumEmpty DEF d
  <2> QED  BY <1>2, <2>1, <2>2
<1>8. d <= capacity
  <2>1. CASE W = 0
    BY <1>1, <1>7, <2>1
  <2>2. CASE W # 0
    <3>1. d * W <= capacity * W
      BY <1>4, <1>5, <1>6
    <3> QED  BY <1>1, <1>2, <1>3, <2>2, <3>1, CancelAtMost
  <2> QED  BY <2>1, <2>2
<1>9. capacity * V <= (capacity - d) * W
  <2>1. (capacity - d) * W + d * W = capacity * W
    <3>1. capacity - d \in Nat /\ (capacity - d) + d = capacity
      BY <1>1, <1>3, <1>8
    <3> QED  BY <1>2, <1>3, <3>1, Distribute
  <2>2. (capacity - d) * W \in Nat
    BY <1>1, <1>2, <1>3, <1>8
  <2> QED  BY <1>4, <1>5, <1>6, <2>1, <2>2
<1>10. ASSUME d = capacity, capacity > 0, T # active PROVE FALSE
  <2>1. V \in Nat \ {0}
    BY <1>2, <1>10
  <2>2. capacity * V \in Nat \ {0}
    BY <1>1, <1>10, <2>1
  <2>3. (capacity - d) * W = 0
    BY <1>1, <1>2, <1>10
  <2> QED  BY <1>9, <2>2, <2>3
<1> QED  BY <1>3, <1>8, <1>9, <1>10 DEF d, V, W

-----------------------------------------------------------------------------
(***************************************************************************)
(* Every step keeps the invariant.                                         *)
(***************************************************************************)

LEMMA InitInv == Init => FairInv
<1> SUFFICES ASSUME Init PROVE FairInv
  OBVIOUS
<1>1. TypeInv
  BY FairAssumption DEF Init, TypeInv, Peers, Contributors
<1>2. SumOf(rate, Ids) = 0
  BY PeersAreIds, SumZero DEF Init
<1>3. Budget
  BY <1>1, <1>2, InputType DEF Init, Budget
<1>4. Spreading /\ Served
  BY DEF Init, Spreading, Served
<1>5. Rounds
  <2>1. \A i \in Ids : demand[i] \in Nat /\ rate[i] = 0
    BY <1>1, InputType DEF Init
  <2> QED  BY <1>1, <2>1, InputType, PeersAreIds DEF Init, Rounds, Peers, Contributors
<1>6. Levels
  <2>1. ASSUME active # {}, NEW j \in Peers \ active
        PROVE  rate[j] * SumOf(Weights, active) <= capacity * Weight(j)
    <3>1. j \in Ids /\ rate[j] = 0
      BY PeersAreIds DEF Init
    <3>2. SumOf(Weights, active) \in Nat /\ capacity \in Nat /\ Weight(j) \in Nat
      BY <1>1, <3>1, InputType, WeightOfSet, WeightType
    <3>3. capacity * Weight(j) \in Nat /\ 0 * SumOf(Weights, active) = 0
      BY <3>2
    <3> QED  BY <3>1, <3>3
  <2> QED  BY <2>1 DEF Init, Levels
<1> QED  BY <1>1, <1>3, <1>4, <1>5, <1>6 DEF FairInv

\* What depends on the inputs only, and what a step of a class does not touch.
LEMMA SameInputs ==
    ASSUME UNCHANGED inputs
    PROVE  /\ Contributors' = Contributors /\ Leeches' = Leeches /\ Weights' = Weights
           /\ \A i : Weight(i)' = Weight(i)
           /\ UNCHANGED <<total, weight, demand>>
BY DEF inputs, Contributors, Leeches, Weights, Weight

LEMMA FairAmongKept ==
    ASSUME TypeInv, UNCHANGED inputs, NEW P \in SUBSET Ids, FairAmong(P),
           \A i \in P : rate'[i] = rate[i]
    PROVE  FairAmong(P)'
BY SameInputs DEF FairAmong

\* The contributors keep what they have while the leeches are served.
LEMMA ServedKept ==
    ASSUME FairInv, UNCHANGED <<inputs, class>>, class # "done", capacity > 0,
           \A i \in Ids \ active : rate'[i] = rate[i]
    PROVE  Served' /\ (class # "contributors" => FairAmong(Contributors)')
<1>1. CASE class = "contributors"
  BY <1>1 DEF Served
<1>2. CASE class = "leeches"
  <2>1. \A c \in Contributors : c \in Ids \ active
    BY <1>2 DEF FairInv, TypeInv, Peers, Leeches, Contributors
  <2>2. \A c \in Contributors : rate[c] = demand[c]
    BY <1>2, FairAssumption DEF FairInv, Served, TypeInv
  <2>3. FairAmong(Contributors)'
    <3>1. FairAmong(Contributors) /\ Contributors' = Contributors
      BY <1>2, SameInputs DEF FairInv, Levels
    <3> QED  BY <2>1, <3>1, FairAmongKept, PeersAreIds DEF FairInv
  <2>4. Served'
    BY <1>2, <2>1, <2>2, SameInputs DEF Served
  <2> QED  BY <2>3, <2>4
<1> QED  BY <1>1, <1>2 DEF FairInv, TypeInv

LEMMA SatisfyStep ==
    ASSUME FairInv, Satisfy
    PROVE  FairInv'
<1> DEFINE T == Satisfied  d == SumOf(demand, T)
<1>1. /\ TypeInv /\ pc = "round" /\ capacity > 0 /\ T # {} /\ T \subseteq active
      /\ rate' = [i \in Ids |-> IF i \in T THEN demand[i] ELSE rate[i]]
      /\ capacity' = capacity - d /\ active' = active \ T
      /\ UNCHANGED <<inputs, class, pc, remainder, turn>>
      /\ \A i \in T : demand[i] <= Share(i)
  BY DEF Satisfy, FairInv, Satisfied, Fits
<1>2. /\ \A i \in Ids : demand[i] \in Nat /\ rate[i] \in Nat /\ rate[i] <= demand[i]
      /\ total \in Nat \ {0} /\ capacity \in Nat /\ capacity <= total
      /\ active \subseteq Ids /\ IsFiniteSet(active) /\ T \subseteq Ids
  BY <1>1, InputType
<1>3. /\ d \in Nat /\ d <= capacity
      /\ capacity * SumOf(Weights, active \ T) <= (capacity - d) * SumOf(Weights, active)
      /\ d = capacity => T = active
  <2> HIDE DEF T
  <2> QED  BY <1>1, SatisfiedFit
<1> HIDE DEF T, d
<1>4. class # "done" /\ Peers' = Peers
  BY <1>1, SameInputs DEF FairInv, TypeInv, Peers
<1>5. TypeInv'
  <2>1. capacity' \in 0..total
    BY <1>1, <1>2, <1>3
  <2>2. rate' \in [Ids -> Nat] /\ \A i \in Ids : rate'[i] <= demand[i]
    BY <1>1, <1>2
  <2>3. active' \subseteq {i \in Peers : demand[i] > 0} /\ turn' = {}
    BY <1>1 DEF TypeInv
  <2> QED  BY <1>1, <1>4, <2>1, <2>2, <2>3, SameInputs DEF TypeInv
<1>6. Budget'
  <2>1. SumOf(rate', Ids) = SumOf(rate, Ids) + SumOf(rate', T)
    <3>1. \A i \in T : rate[i] = 0
      BY <1>1 DEF FairInv, Rounds
    <3>2. \A i \in Ids : rate'[i] \in Nat
      BY <1>1, <1>2
    <3> QED  BY <1>1, <1>2, <3>1, <3>2, PeersAreIds, SumFill
  <2>2. SumOf(rate', T) = d
    <3>1. IsFiniteSet(T) /\ \A i \in T : rate'[i] = demand[i]
      BY <1>1, <1>2, FS_Subset
    <3> QED  BY <3>1, SumEqual DEF d
  <2>3. SumOf(rate, Ids) \in Nat /\ SumOf(rate, Ids) + capacity = total
    BY <1>1, <1>2, <1>4, PeersAreIds, SumNat DEF FairInv, Budget
  <2>4. SumOf(rate', Ids) + capacity' = total /\ SumOf(rate', Ids) <= total
    BY <1>1, <1>2, <1>3, <2>1, <2>2, <2>3
  <2> QED  BY <1>1, <1>4, <2>4, SameInputs DEF Budget, SumOf
<1>7. Spreading'
  BY <1>1 DEF Spreading
<1>8. Rounds'
  <2>1. \A i \in active' : rate'[i] = 0
    BY <1>1, <1>2 DEF FairInv, Rounds
  <2>2. \A i \in Peers \ active' : rate'[i] = demand[i]
    BY <1>1, <1>2, PeersAreIds DEF FairInv, Rounds
  <2>3. class = "contributors" => \A l \in Leeches : rate'[l] = 0
    <3>1. class = "contributors" => \A l \in Leeches : l \notin T /\ l \in Ids /\ rate[l] = 0
      BY <1>1 DEF FairInv, Rounds, TypeInv, Peers, Leeches
    <3> QED  BY <1>1, <3>1
  <2>4. capacity' = 0 => active' = {}
    BY <1>1, <1>2, <1>3
  <2> QED  BY <1>1, <1>4, <2>1, <2>2, <2>3, <2>4, SameInputs DEF Rounds
<1>9. Served' /\ (class # "contributors" => FairAmong(Contributors)')
  <2>1. \A i \in Ids \ active : rate'[i] = rate[i]
    BY <1>1
  <2> QED  BY <1>1, <1>4, <2>1, ServedKept
<1>10. Levels'
  <2> DEFINE W == SumOf(Weights, active)  V == SumOf(Weights, active')
  <2>1. ASSUME active' # {}, NEW j \in Peers \ active'
        PROVE  rate'[j] * V <= capacity' * Weight(j)
    <3>1. j \in Ids /\ rate'[j] \in Nat /\ Weight(j) \in Nat \ {0}
      BY <1>5, <1>1, PeersAreIds, WeightType, <1>2
    <3>2. W \in Nat \ {0} /\ V \in Nat
      <4>1. active # {} /\ active' \subseteq Ids
        BY <1>1, <1>2, <2>1
      <4> QED  BY <1>1, <1>2, <4>1, WeightOfSet
    <3>3. rate'[j] * W <= capacity * Weight(j)
      <4>1. CASE j \in T
        <5>1. rate'[j] = demand[j] /\ demand[j] <= Share(j) /\ Share(j) \in Nat
              /\ Share(j) * W <= capacity * Weight(j) /\ demand[j] \in Nat
          BY <1>1, <1>2, <4>1, <3>1, ShareBounds
        <5> HIDE DEF W
        <5>2. demand[j] * W <= Share(j) * W
          BY <3>2, <5>1, TimesAtMost
        <5>3. demand[j] * W \in Nat /\ Share(j) * W \in Nat /\ capacity * Weight(j) \in Nat
          BY <1>2, <3>1, <3>2, <5>1
        <5> QED  BY <5>1, <5>2, <5>3
      <4>2. CASE j \notin T
        <5>1. j \in Peers \ active /\ rate'[j] = rate[j] /\ active # {}
          BY <1>1, <2>1, <3>1, <4>2
        <5> QED  BY <5>1 DEF FairInv, Levels
      <4> QED  BY <4>1, <4>2
    <3>4. capacity * V <= capacity' * W /\ capacity' \in Nat
      BY <1>1, <1>2, <1>3
    <3> HIDE DEF W, V
    <3> QED  BY <1>2, <3>1, <3>2, <3>3, <3>4, LevelRises
  <2> QED  BY <1>1, <1>4, <1>9, <2>1, SameInputs DEF Levels, SumOf
<1> QED  BY <1>5, <1>6, <1>7, <1>8, <1>9, <1>10 DEF FairInv

LEMMA FloorsStep ==
    ASSUME FairInv, Floors
    PROVE  FairInv'
<1> DEFINE s == [i \in active |-> Share(i)]  d == SumOf(s, active)
<1>1. /\ TypeInv /\ pc = "round" /\ capacity > 0 /\ active # {}
      /\ rate' = [i \in Ids |-> IF i \in active THEN Share(i) ELSE rate[i]]
      /\ remainder' = capacity - d /\ turn' = active /\ pc' = "spread"
      /\ UNCHANGED <<inputs, class, active, capacity>>
      /\ \A i \in active : ~(demand[i] <= Share(i))
  BY DEF Floors, FairInv, Satisfied, Fits
<1>2. /\ \A i \in Ids : demand[i] \in Nat /\ rate[i] \in Nat /\ rate[i] <= demand[i]
      /\ total \in Nat \ {0} /\ capacity \in Nat /\ capacity <= total
      /\ active \subseteq Ids /\ IsFiniteSet(active)
  BY <1>1, InputType
<1>3. \A i \in active : Share(i) \in Nat /\ Share(i) < demand[i] /\ s[i] = Share(i)
  <2>1. ASSUME NEW i \in active PROVE Share(i) \in Nat /\ Share(i) < demand[i]
    <3>1. Share(i) \in Nat /\ demand[i] \in Nat
      BY <1>1, <1>2, ShareBounds
    <3> QED  BY <1>1, <3>1
  <2> QED  BY <2>1
<1>4. d \in Nat /\ d <= capacity /\ capacity - d < Cardinality(active)
  BY <1>1, FloorsFit
<1> HIDE DEF s, d
<1>5. class # "done" /\ Peers' = Peers
  BY <1>1, SameInputs DEF FairInv, TypeInv, Peers
<1>6. TypeInv'
  <2>1. rate' \in [Ids -> Nat] /\ \A i \in Ids : rate'[i] <= demand[i]
    BY <1>1, <1>2, <1>3
  <2>2. remainder' \in Nat
    BY <1>1, <1>2, <1>4
  <2>3. active' \subseteq {i \in Peers : demand[i] > 0} /\ turn' \subseteq active'
    BY <1>1 DEF TypeInv
  <2> QED  BY <1>1, <1>5, <2>1, <2>2, <2>3, SameInputs DEF TypeInv
<1>7. Budget'
  <2>1. SumOf(rate', Ids) = SumOf(rate, Ids) + SumOf(rate', active)
    <3>1. \A i \in active : rate[i] = 0
      BY <1>1 DEF FairInv, Rounds
    <3>2. \A i \in Ids : rate'[i] \in Nat
      BY <1>6 DEF TypeInv
    <3> QED  BY <1>1, <1>2, <3>1, <3>2, PeersAreIds, SumFill
  <2>2. SumOf(rate', active) = d
    <3>1. \A i \in active : rate'[i] = s[i]
      BY <1>1, <1>2, <1>3
    <3> QED  BY <1>2, <3>1, SumEqual DEF d
  <2>3. SumOf(rate, Ids) \in Nat /\ SumOf(rate, Ids) + capacity = total
    BY <1>1, <1>2, <1>5, PeersAreIds, SumNat DEF FairInv, Budget
  <2>4. SumOf(rate', Ids) + remainder' = total /\ SumOf(rate', Ids) <= total
    BY <1>1, <1>2, <1>4, <2>1, <2>2, <2>3
  <2> QED  BY <1>1, <1>5, <2>4, SameInputs DEF Budget, SumOf
<1>8. \A i : Share(i)' = Share(i)
  BY <1>1, SameInputs DEF Share, SumOf
<1>9. Spreading'
  <2>1. remainder' < Cardinality(active) /\ remainder' <= Cardinality(turn')
    <3>1. remainder' \in Nat /\ Cardinality(active) \in Nat
      BY <1>2, <1>6, FS_CardinalityType DEF TypeInv
    <3> QED  BY <1>1, <1>4, <3>1
  <2>2. \A i \in active : Share(i) < demand[i] /\ rate'[i] = Share(i)
    BY <1>1, <1>2, <1>3
  <2> QED  BY <1>1, <1>8, <2>1, <2>2, SameInputs DEF Spreading
<1>10. Rounds'
  <2>1. \A i \in Peers \ active : rate'[i] = demand[i]
    BY <1>1, PeersAreIds DEF FairInv, Rounds
  <2>2. class = "contributors" => \A l \in Leeches : rate'[l] = 0
    <3>1. class = "contributors" => \A l \in Leeches : l \notin active /\ l \in Ids /\ rate[l] = 0
      BY <1>1 DEF FairInv, Rounds, TypeInv, Peers, Leeches
    <3> QED  BY <1>1, <3>1
  <2> QED  BY <1>1, <1>5, <2>1, <2>2, SameInputs DEF Rounds
<1>11. \A i \in Ids \ active : rate'[i] = rate[i]
  BY <1>1
<1>12. Served' /\ (class # "contributors" => FairAmong(Contributors)')
  BY <1>1, <1>5, <1>11, ServedKept
<1>13. Levels'
  <2>1. \A j \in Peers \ active : rate'[j] * SumOf(Weights, active) <= capacity * Weight(j)
    BY <1>1, <1>11, PeersAreIds DEF FairInv, Levels
  <2> QED  BY <1>1, <1>5, <1>12, <2>1, SameInputs DEF Levels, SumOf
<1> QED  BY <1>6, <1>7, <1>9, <1>10, <1>12, <1>13 DEF FairInv

LEMMA HandOutStep ==
    ASSUME FairInv, HandOut
    PROVE  FairInv'
<1> DEFINE i == Lowest(turn)
<1>1. /\ TypeInv /\ pc = "spread" /\ remainder > 0 /\ turn # {} /\ turn \subseteq active
      /\ HandOutTo(i) /\ turn' = turn \ {i}
      /\ UNCHANGED <<inputs, class, pc, active, capacity>>
      /\ remainder \in Nat
  BY DEF HandOut, FairInv, TypeInv
<1>2. /\ \A j \in Ids : demand[j] \in Nat /\ rate[j] \in Nat /\ rate[j] <= demand[j]
      /\ total \in Nat \ {0} /\ capacity \in Nat /\ capacity <= total
      /\ active \subseteq Ids /\ IsFiniteSet(active) /\ turn \subseteq Ids /\ IsFiniteSet(turn)
  BY <1>1, InputType
<1>3. i \in turn
  <2>1. turn \in SUBSET Nat
    BY <1>2, FairAssumption
  <2> QED  BY <1>1, <2>1, LowestIn
<1>4. /\ capacity > 0 /\ active # {}
      /\ remainder < Cardinality(active) /\ remainder <= Cardinality(turn)
      /\ \A j \in active : /\ Share(j) < demand[j]
                           /\ rate[j] = IF j \in turn THEN Share(j) ELSE Share(j) + 1
  BY <1>1 DEF FairInv, Spreading
<1> HIDE DEF i
<1>5. rate[i] < demand[i] /\ rate[i] = Share(i)
  BY <1>1, <1>3, <1>4
<1>6. rate' = [rate EXCEPT ![i] = rate[i] + 1] /\ remainder' = remainder - 1
  BY <1>1, <1>5 DEF HandOutTo
<1>7. /\ rate \in [Ids -> Nat] /\ i \in Ids /\ i \in active
      /\ rate'[i] = rate[i] + 1 /\ \A j \in Ids \ {i} : rate'[j] = rate[j]
  BY <1>1, <1>2, <1>3, <1>6 DEF TypeInv
<1>8. class # "done" /\ Peers' = Peers
  BY <1>1, <1>3, SameInputs DEF FairInv, TypeInv, Peers
<1>9. TypeInv'
  <2>1. rate' \in [Ids -> Nat] /\ \A j \in Ids : rate'[j] <= demand[j]
    BY <1>2, <1>5, <1>6, <1>7
  <2>2. remainder' \in Nat
    BY <1>1, <1>6
  <2>3. active' \subseteq {j \in Peers : demand[j] > 0} /\ turn' \subseteq active'
    BY <1>1 DEF TypeInv
  <2> QED  BY <1>1, <1>8, <2>1, <2>2, <2>3, SameInputs DEF TypeInv
<1>10. Budget'
  <2>1. SumOf(rate, Ids) = rate[i] + SumOf(rate, Ids \ {i})
        /\ SumOf(rate', Ids) = rate'[i] + SumOf(rate', Ids \ {i})
    <3>1. \A j \in Ids : rate[j] \in Nat /\ rate'[j] \in Nat
      BY <1>7, <1>9 DEF TypeInv
    <3> QED  BY <1>7, <3>1, PeersAreIds, SumTake
  <2>2. SumOf(rate, Ids \ {i}) \in Nat /\ SumOf(rate', Ids \ {i}) = SumOf(rate, Ids \ {i})
    <3>1. IsFiniteSet(Ids \ {i})
      BY PeersAreIds, FS_Subset
    <3> QED  BY <1>2, <1>7, <3>1, SumNat, SumEqual
  <2>3. SumOf(rate, Ids) + remainder = total
    BY <1>1, <1>8 DEF FairInv, Budget
  <2>4. SumOf(rate', Ids) + remainder' = total /\ SumOf(rate', Ids) <= total
    BY <1>1, <1>2, <1>6, <1>7, <2>1, <2>2, <2>3
  <2> QED  BY <1>1, <1>8, <2>4, SameInputs DEF Budget, SumOf
<1>11. \A j : Share(j)' = Share(j)
  BY <1>1, SameInputs DEF Share, SumOf
<1>12. Spreading'
  <2>1. remainder' < Cardinality(active) /\ remainder' <= Cardinality(turn')
    <3>1. Cardinality(turn') = Cardinality(turn) - 1 /\ Cardinality(turn) \in Nat
          /\ Cardinality(active) \in Nat
      BY <1>1, <1>2, <1>3, FS_CardinalityType, FS_RemoveElement
    <3> QED  BY <1>1, <1>4, <1>6, <3>1
  <2>2. \A j \in active : /\ Share(j) < demand[j]
                          /\ rate'[j] = IF j \in turn' THEN Share(j) ELSE Share(j) + 1
    BY <1>1, <1>2, <1>3, <1>4, <1>5, <1>7
  <2> QED  BY <1>1, <1>4, <1>11, <2>1, <2>2, SameInputs DEF Spreading
<1>13. \A j \in Ids \ active : rate'[j] = rate[j]
  BY <1>7
<1>14. Rounds'
  <2>1. \A j \in Peers \ active : rate'[j] = demand[j]
    BY <1>13, PeersAreIds DEF FairInv, Rounds
  <2>2. class = "contributors" => \A l \in Leeches : rate'[l] = 0
    <3>1. class = "contributors" => \A l \in Leeches : l \notin active /\ l \in Ids /\ rate[l] = 0
      BY <1>1 DEF FairInv, Rounds, TypeInv, Peers, Leeches
    <3> QED  BY <1>13, <3>1
  <2> QED  BY <1>1, <1>8, <2>1, <2>2, SameInputs DEF Rounds
<1>15. Served' /\ (class # "contributors" => FairAmong(Contributors)')
  BY <1>1, <1>4, <1>8, <1>13, ServedKept
<1>16. Levels'
  <2>1. \A j \in Peers \ active : rate'[j] * SumOf(Weights, active) <= capacity * Weight(j)
    BY <1>4, <1>13, PeersAreIds DEF FairInv, Levels
  <2> QED  BY <1>1, <1>8, <1>15, <2>1, SameInputs DEF Levels, SumOf
<1> QED  BY <1>9, <1>10, <1>12, <1>14, <1>15, <1>16 DEF FairInv

\* When a class is done, all of it is served or nothing is left.
LEMMA ClassServed ==
    ASSUME FairInv, ClassDone, class # "done"
    PROVE  \/ \A i \in Peers : rate[i] = demand[i]
           \/ SumOf(rate, Ids) = total
<1>1. SumOf(rate, Ids) \in Nat
  BY InputType, PeersAreIds, SumNat DEF FairInv
<1>2. CASE pc = "round" /\ active = {}
  BY <1>2 DEF FairInv, Rounds
<1>3. CASE pc = "round" /\ capacity = 0
  BY <1>1, <1>3 DEF FairInv, Budget
<1>4. CASE pc = "spread" /\ (remainder = 0 \/ turn = {})
  <2>1. remainder = 0
    BY <1>4, FS_EmptySet DEF FairInv, Spreading, TypeInv
  <2> QED  BY <1>1, <1>4, <2>1 DEF FairInv, Budget
<1> QED  BY <1>2, <1>3, <1>4 DEF ClassDone

\* And the class has been served fairly.
LEMMA ClassFair ==
    ASSUME FairInv, ClassDone, class # "done"
    PROVE  FairAmong(Peers)
<1> SUFFICES ASSUME NEW i \in Peers, NEW j \in Peers, rate[i] < demand[i], rate[j] > 0
             PROVE  (rate[j] - 1) * Weight(i) < (rate[i] + 1) * Weight(j)
  BY DEF FairAmong
<1> DEFINE W == SumOf(Weights, active)
<1>1. /\ i \in Ids /\ j \in Ids
      /\ rate[i] \in Nat /\ rate[j] \in Nat \ {0} /\ demand[i] \in Nat /\ capacity \in Nat
      /\ active \subseteq Ids
  BY PeersAreIds, InputType DEF FairInv
<1>2. Weight(i) \in Nat \ {0} /\ Weight(j) \in Nat \ {0}
  BY <1>1, WeightType DEF FairInv
<1>3. i \in active
  BY <1>1 DEF FairInv, Rounds
<1>4. pc = "spread"
  BY <1>1, <1>3 DEF FairInv, Rounds, ClassDone, TypeInv
<1>5. W \in Nat \ {0}
  BY <1>1, <1>3, WeightOfSet DEF FairInv
<1>6. capacity * Weight(i) < (rate[i] + 1) * W
  <2>1. /\ Share(i) \in Nat /\ capacity * Weight(i) < (Share(i) + 1) * W
        /\ Share(i) + 1 <= rate[i] + 1
    BY <1>1, <1>3, <1>4, ShareBounds DEF FairInv, Spreading
  <2> HIDE DEF W
  <2>2. (Share(i) + 1) * W <= (rate[i] + 1) * W
    BY <1>1, <1>5, <2>1, TimesAtMost
  <2>3. /\ (Share(i) + 1) * W \in Nat /\ (rate[i] + 1) * W \in Nat
        /\ capacity * Weight(i) \in Nat
    BY <1>1, <1>2, <1>5, <2>1
  <2> QED  BY <2>1, <2>2, <2>3
<1>7. (rate[j] - 1) * W <= capacity * Weight(j)
  <2>1. capacity * Weight(j) \in Nat /\ (rate[j] - 1) * W \in Nat /\ rate[j] * W \in Nat
    BY <1>1, <1>2, <1>5
  <2>2. CASE j \in active
    <3>1. /\ Share(j) \in Nat /\ Share(j) * W <= capacity * Weight(j)
          /\ rate[j] - 1 <= Share(j)
      BY <1>1, <1>4, <2>2, ShareBounds DEF FairInv, Spreading
    <3> HIDE DEF W
    <3>2. (rate[j] - 1) * W <= Share(j) * W
      BY <1>1, <1>5, <3>1, TimesAtMost
    <3>3. Share(j) * W \in Nat
      BY <1>5, <3>1
    <3> QED  BY <2>1, <3>1, <3>2, <3>3
  <2>3. CASE j \notin active
    <3>1. rate[j] * W <= capacity * Weight(j)
      BY <1>3, <2>3 DEF FairInv, Levels
    <3> HIDE DEF W
    <3>2. (rate[j] - 1) * W <= rate[j] * W
      BY <1>1, <1>5, TimesAtMost
    <3> QED  BY <2>1, <3>1, <3>2
  <2> QED  BY <2>2, <2>3
<1> HIDE DEF W
<1>8. rate[j] - 1 \in Nat /\ rate[i] + 1 \in Nat
  BY <1>1
<1> QED  BY <1>1, <1>2, <1>5, <1>6, <1>7, <1>8, SharesCompare

LEMMA ToLeeches ==
    ASSUME FairInv, NextClass, class = "contributors"
    PROVE  FairInv'
<1>1. /\ TypeInv /\ ClassDone /\ class' = "leeches" /\ pc' = "round" /\ turn' = {}
      /\ active' = {i \in Leeches : demand[i] > 0} /\ remainder' = 0
      /\ capacity' = total - SumOf(rate, Contributors)
      /\ UNCHANGED <<inputs, rate>>
  BY DEF FairInv, NextClass, Leftover
<1>2. /\ \A j \in Ids : demand[j] \in Nat /\ rate[j] \in Nat /\ rate[j] <= demand[j]
      /\ total \in Nat \ {0}
  BY <1>1, InputType
<1>3. Peers = Contributors /\ Peers' = Leeches
  BY <1>1, SameInputs DEF Peers
<1>4. \A l \in Leeches : rate[l] = 0 /\ l \in Ids
  BY PeersAreIds DEF FairInv, Rounds
<1>5. SumOf(rate, Ids) = SumOf(rate, Contributors) /\ SumOf(rate, Ids) \in Nat
      /\ SumOf(rate, Ids) <= total
  <2>1. SumOf(rate, Ids) = SumOf(rate, Contributors) + SumOf(rate, Leeches)
    BY <1>2, PeersAreIds, SumSplit
  <2>2. SumOf(rate, Leeches) = 0 /\ SumOf(rate, Contributors) \in Nat
    <3>1. IsFiniteSet(Leeches) /\ IsFiniteSet(Contributors)
      BY PeersAreIds, FS_Subset
    <3> QED  BY <1>2, <1>4, <3>1, PeersAreIds, SumZero, SumNat
  <2> QED  BY <2>1, <2>2 DEF FairInv, Budget
<1>6. capacity' \in Nat /\ capacity' <= total /\ SumOf(rate, Ids) + capacity' = total
  BY <1>1, <1>2, <1>5
<1>7. TypeInv'
  <2>1. capacity' \in 0..total
    BY <1>2, <1>6
  <2> QED  BY <1>1, <1>3, <2>1, SameInputs DEF TypeInv
<1>8. Budget'
  BY <1>1, <1>5, <1>6, SameInputs DEF Budget, SumOf
<1>9. Spreading'
  BY <1>1 DEF Spreading
<1>10. Rounds'
  <2>1. \A l \in Leeches \ active' : rate[l] = demand[l]
    BY <1>1, <1>2, <1>4
  <2> QED  BY <1>1, <1>3, <1>4, <2>1, SameInputs DEF Rounds
<1>11. Served'
  <2>1. \/ \A c \in Contributors : rate[c] = demand[c]
        \/ SumOf(rate, Ids) = total /\ capacity' = 0
    BY <1>1, <1>3, <1>5, <1>6, ClassServed
  <2> QED  BY <1>1, <1>4, <2>1, SameInputs DEF Served, SumOf
<1>12. Levels'
  <2>1. ASSUME NEW j \in Leeches, active' # {}
        PROVE  rate[j] * SumOf(Weights, active') <= capacity' * Weight(j)
    <3>1. SumOf(Weights, active') \in Nat /\ Weight(j) \in Nat /\ rate[j] = 0
      <4>1. active' \in SUBSET Ids
        BY <1>1, PeersAreIds
      <4> QED  BY <1>1, <1>4, <2>1, <4>1, WeightOfSet, WeightType
    <3>2. capacity' * Weight(j) \in Nat /\ 0 * SumOf(Weights, active') = 0
      BY <1>6, <3>1
    <3> QED  BY <3>1, <3>2
  <2>2. FairAmong(Contributors)'
    <3>1. FairAmong(Contributors)
      BY <1>1, <1>3, ClassFair
    <3> QED  BY <1>1, <3>1, SameInputs DEF FairAmong
  <2> QED  BY <1>1, <1>3, <2>1, <2>2, SameInputs DEF Levels, SumOf
<1> QED  BY <1>7, <1>8, <1>9, <1>10, <1>11, <1>12 DEF FairInv

LEMMA ToDone ==
    ASSUME FairInv, NextClass, class = "leeches"
    PROVE  FairInv'
<1>1. /\ TypeInv /\ ClassDone /\ class' = "done" /\ pc' = "round" /\ turn' = {}
      /\ active' = {} /\ remainder' = 0 /\ capacity' = 0
      /\ UNCHANGED <<inputs, rate>>
  BY DEF FairInv, NextClass
<1>2. /\ \A j \in Ids : demand[j] \in Nat /\ rate[j] \in Nat /\ rate[j] <= demand[j]
      /\ total \in Nat \ {0}
  BY <1>1, InputType
<1>3. Peers = Leeches /\ Peers' = {}
  BY <1>1 DEF Peers
<1>4. TypeInv'
  <2>1. 0 \in 0..total
    BY <1>2
  <2> QED  BY <1>1, <1>3, <2>1, SameInputs DEF TypeInv
<1>5. Budget' /\ Spreading' /\ Rounds'
  BY <1>1, <1>3, SameInputs DEF FairInv, Budget, Spreading, Rounds, SumOf
<1>6. Served'
  <2>1. \/ \A l \in Leeches : rate[l] = demand[l]
        \/ SumOf(rate, Ids) = total
    BY <1>1, <1>3, ClassServed
  <2>2. \/ \A c \in Contributors : rate[c] = demand[c]
        \/ SumOf(rate, Ids) = total /\ \A l \in Leeches : rate[l] = 0
    BY DEF FairInv, Served
  <2>3. ASSUME SumOf(rate, Ids) < total PROVE rate = demand
    <3>1. SumOf(rate, Ids) # total
      BY <1>2, <2>3, PeersAreIds, SumNat
    <3>2. \A i \in Ids : rate[i] = demand[i]
      BY <2>1, <2>2, <3>1, PeersAreIds
    <3> QED  BY <1>1, <3>2 DEF TypeInv
  <2> QED  BY <1>1, <2>2, <2>3, SameInputs DEF Served, SumOf
<1>7. Levels'
  <2>1. FairAmong(Leeches) /\ FairAmong(Contributors)
    BY <1>1, <1>3, ClassFair DEF FairInv, Levels
  <2> QED  BY <1>1, <2>1, SameInputs DEF Levels, FairAmong
<1> QED  BY <1>4, <1>5, <1>6, <1>7 DEF FairInv

LEMMA NextInv ==
    ASSUME FairInv, [Next]_vars
    PROVE  FairInv'
<1>1. CASE Satisfy
  BY <1>1, SatisfyStep
<1>2. CASE Floors
  BY <1>2, FloorsStep
<1>3. CASE HandOut
  BY <1>3, HandOutStep
<1>4. CASE NextClass
  <2>1. class \in {"contributors", "leeches"}
    BY <1>4 DEF NextClass, FairInv, TypeInv
  <2> QED  BY <1>4, <2>1, ToLeeches, ToDone
<1>5. CASE UNCHANGED vars
  <2>1. UNCHANGED inputs /\ Peers' = Peers
    BY <1>5, SameInputs DEF vars, inputs, Peers
  <2>2. UNCHANGED <<total, weight, demand, class, pc, active, capacity, rate, remainder, turn>>
    BY <1>5 DEF vars, inputs
  <2>3. TypeInv' /\ Budget' /\ Rounds' /\ Served' /\ Levels'
    BY <2>1, <2>2, SameInputs
       DEF FairInv, TypeInv, Budget, Rounds, Served, Levels, FairAmong, SumOf
  <2>4. Spreading'
    BY <2>2, SameInputs, <2>1 DEF FairInv, Spreading, Share, SumOf
  <2> QED  BY <2>3, <2>4 DEF FairInv
<1> QED  BY <1>1, <1>2, <1>3, <1>4, <1>5 DEF Next, Finished

THEOREM InductiveInvariant == Spec => []FairInv
BY InitInv, NextInv, PTL DEF Spec

-----------------------------------------------------------------------------

\* What an allocation computes stays within its bounds (weighted_max_min, fair.rs).
THEOREM TypeCorrect == Spec => []TypeOK
<1>1. FairInv => TypeOK
  <2> SUFFICES ASSUME FairInv PROVE TypeOK
    OBVIOUS
  <2>1. \A i \in Ids : rate[i] \in 0..demand[i]
    BY InputType DEF FairInv
  <2>2. active \in {S \in SUBSET Ids : \A i \in S : demand[i] > 0}
    BY InputType DEF FairInv, TypeInv
  <2>3. pc = "spread" => remainder < Cardinality(active)
    BY DEF FairInv, Spreading
  <2> QED  BY <2>1, <2>2, <2>3 DEF FairInv, TypeInv, TypeOK
<1> QED  BY <1>1, InductiveInvariant, PTL

\* "The sum of allocations never exceeds capacity", for both classes together.
THEOREM Budgeted == Spec => []NeverOversubscribed
<1>1. FairInv => NeverOversubscribed
  BY DEF FairInv, Budget, NeverOversubscribed
<1> QED  BY <1>1, InductiveInvariant, PTL

\* Nothing is wasted while somebody wants it, and no leech has anything that a
\* contributor wants.
THEOREM NothingWasted == Spec => []WorkConserving
<1>1. FairInv => WorkConserving
  <2> SUFFICES ASSUME FairInv, class = "done"
               PROVE  /\ SumOf(rate, Ids) < total => rate = demand
                      /\ \A c \in Contributors, l \in Leeches : rate[l] > 0 => rate[c] = demand[c]
    BY DEF WorkConserving
  <2>1. \/ \A c \in Contributors : rate[c] = demand[c]
        \/ \A l \in Leeches : rate[l] = 0
    BY DEF FairInv, Served
  <2> QED  BY <2>1 DEF FairInv, Served
<1> QED  BY <1>1, InductiveInvariant, PTL

\* The outcome is the weighted max-min allocation, up to the units that floors take
\* away and the remainder adds.
THEOREM Fairness == Spec => []MaxMinFair
<1>1. FairInv => MaxMinFair
  <2> SUFFICES ASSUME FairInv, class = "done", NEW i \in Ids, NEW j \in Ids,
                      rate[i] < demand[i], i \in Contributors <=> j \in Contributors,
                      rate[j] > 0
               PROVE  (rate[j] - 1) * Weight(i) < (rate[i] + 1) * Weight(j)
    BY DEF MaxMinFair
  <2>1. (i \in Contributors /\ j \in Contributors) \/ (i \in Leeches /\ j \in Leeches)
    BY PeersAreIds
  <2> QED  BY <2>1 DEF FairInv, Levels, FairAmong
<1> QED  BY <1>1, InductiveInvariant, PTL

\* One pass over the entries hands out the whole remainder, so that the loop of the
\* code, which would pass over them again, never does.
THEOREM OnePass == Spec => []OnePassSuffices
<1>1. FairInv => OnePassSuffices
  <2> SUFFICES ASSUME FairInv, pc = "spread"
               PROVE  remainder <= Cardinality({i \in turn : rate[i] < demand[i]})
    BY DEF OnePassSuffices
  <2>1. turn = {i \in turn : rate[i] < demand[i]}
    BY DEF FairInv, TypeInv, Spreading
  <2> QED  BY <2>1 DEF FairInv, Spreading
<1> QED  BY <1>1, InductiveInvariant, PTL
=============================================================================
