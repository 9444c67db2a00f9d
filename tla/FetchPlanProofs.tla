--------------------------- MODULE FetchPlanProofs ---------------------------
(***************************************************************************)
(* A plan that FetchPlan hands out covers the file, and a plan is handed   *)
(* out unless a share is too small, for any exits and any bounds of the    *)
(* inputs.                                                                 *)
(***************************************************************************)
EXTENDS FetchPlan, FiniteSetTheorems, SequenceTheorems, WellFoundedInduction, TLAPS

(***************************************************************************)
(* Sums and products, as far as the cut by weights needs them; they are    *)
(* proved as in FairShareProofs.                                           *)
(***************************************************************************)
SumOf(f, S) == SumFunctionOnSet(f, S)

\* What the fold of a sum takes next from a set, and the table it builds.
Picked(S) == CHOOSE x \in S : TRUE
IsTable(g, f, S) ==
    g = [T \in SUBSET S |-> IF T = {} THEN 0 ELSE f[Picked(T)] + g[T \ {Picked(T)}]]

\* A claim about the subsets of a finite set that fails for one fails for a smallest one.
LEMMA SmallestSubset ==
    ASSUME NEW S, IsFiniteSet(S), NEW B \in SUBSET (SUBSET S), B # {}
    PROVE  \E T \in B : T \subseteq S /\ IsFiniteSet(T) /\ \A U \in SUBSET T : U # T => U \notin B
<1>1. PICK T \in B : \A U \in B : <<U, T>> \notin StrictSubsetOrdering(S)
  <2>1. IsWellFoundedOn(StrictSubsetOrdering(S), FiniteSubsetsOf(S))
    BY FS_StrictSubsetOrderingWellFounded
  <2>2. B \subseteq FiniteSubsetsOf(S)
    BY FS_FiniteSubsetsOfFinite
  <2> QED  BY <2>1, <2>2, WFMin
<1>2. ASSUME NEW U \in SUBSET T, U # T PROVE U \notin B
  BY <1>1, <1>2 DEF StrictSubsetOrdering
<1> QED  BY <1>1, <1>2, FS_Subset

LEMMA TableAt ==
    ASSUME NEW f, NEW S, NEW g, IsTable(g, f, S), NEW T \in SUBSET S
    PROVE  g[T] = IF T = {} THEN 0 ELSE f[Picked(T)] + g[T \ {Picked(T)}]
BY DEF IsTable

LEMMA PickedIn == ASSUME NEW T, T # {} PROVE Picked(T) \in T
BY DEF Picked

\* The tables of a set and of one of its subsets agree.
LEMMA TablesAgree ==
    ASSUME NEW f, NEW S, IsFiniteSet(S), NEW g, IsTable(g, f, S),
           NEW U \in SUBSET S, NEW h, IsTable(h, f, U)
    PROVE  g[U] = h[U]
<1> DEFINE B == {T \in SUBSET U : g[T] # h[T]}
<1>1. SUFFICES ASSUME B # {} PROVE FALSE
  OBVIOUS
<1>2. IsFiniteSet(U)
  BY FS_Subset
<1>3. PICK T \in B : T \subseteq U /\ IsFiniteSet(T) /\ \A V \in SUBSET T : V # T => V \notin B
  <2>1. B \in SUBSET (SUBSET U)  OBVIOUS
  <2> HIDE DEF B
  <2> QED  BY <1>1, <1>2, <2>1, SmallestSubset
<1>4. T \in SUBSET S /\ T \in SUBSET U /\ g[T] # h[T]
  BY <1>3
<1>5. T # {}
  <2>1. {} \in SUBSET S /\ {} \in SUBSET U
    OBVIOUS
  <2>2. g[{}] = 0 /\ h[{}] = 0
    BY <2>1, TableAt
  <2> QED  BY <1>4, <2>2
<1>6. Picked(T) \in T
  BY <1>5, PickedIn
<1>7. g[T \ {Picked(T)}] = h[T \ {Picked(T)}]
  BY <1>3, <1>6
<1> QED  BY <1>4, <1>5, <1>7, TableAt

LEMMA TableExists ==
    ASSUME NEW f, NEW S, IsFiniteSet(S)
    PROVE  \E g : IsTable(g, f, S)
<1> DEFINE B == {T \in SUBSET S : ~ \E g : IsTable(g, f, T)}
<1>1. SUFFICES ASSUME B # {} PROVE FALSE
  OBVIOUS
<1>2. PICK T \in B : T \subseteq S /\ IsFiniteSet(T) /\ \A U \in SUBSET T : U # T => U \notin B
  <2>1. B \in SUBSET (SUBSET S)  OBVIOUS
  <2> HIDE DEF B
  <2> QED  BY <1>1, <2>1, SmallestSubset
<1> DEFINE Table(U) == CHOOSE g : IsTable(g, f, U)
           Value(U) == Table(U)[U]
           F == [U \in SUBSET T |-> IF U = {} THEN 0 ELSE f[Picked(U)] + Value(U \ {Picked(U)})]
<1>3. ASSUME NEW U \in SUBSET T, U # T PROVE IsTable(Table(U), f, U)
  BY <1>2, <1>3
<1>4. ASSUME NEW U \in SUBSET T, U # T, U # {}
      PROVE  Value(U) = f[Picked(U)] + Value(U \ {Picked(U)})
  <2>1. Picked(U) \in U
    BY <1>4, PickedIn
  <2>2. IsTable(Table(U), f, U) /\ IsTable(Table(U \ {Picked(U)}), f, U \ {Picked(U)})
    BY <1>3, <1>4, <2>1
  <2> HIDE DEF Table
  <2>3. Value(U) = f[Picked(U)] + Table(U)[U \ {Picked(U)}]
    BY <1>4, <2>2, TableAt
  <2>4. Table(U)[U \ {Picked(U)}] = Value(U \ {Picked(U)})
    BY <1>2, <2>2, FS_Subset, TablesAgree
  <2> QED  BY <2>3, <2>4
<1>5. Value({}) = 0 \/ T = {}
  BY <1>3, TableAt
<1>6. ASSUME NEW U \in SUBSET T, U # {}
      PROVE  F[U \ {Picked(U)}] = Value(U \ {Picked(U)})
  <2>1. U \ {Picked(U)} \in SUBSET T /\ U \ {Picked(U)} # T
    BY <1>6, PickedIn
  <2> HIDE DEF Value
  <2> QED  BY <1>4, <1>5, <2>1, <1>6
<1>7. F = [U \in SUBSET T |-> IF U = {} THEN 0 ELSE f[Picked(U)] + F[U \ {Picked(U)}]]
  <2> HIDE DEF Value
  <2> QED  BY <1>6
<1>8. IsTable(F, f, T)
  <2> HIDE DEF F
  <2> QED  BY <1>7 DEF IsTable
<1> QED  BY <1>2, <1>8

LEMMA SumEmpty == ASSUME NEW f PROVE SumOf(f, {}) = 0
<1>1. PICK g : IsTable(g, f, {})
  BY TableExists, FS_EmptySet
<1>2. IsTable(CHOOSE h : IsTable(h, f, {}), f, {})
  BY <1>1
<1>3. SumOf(f, {}) = (CHOOSE h : IsTable(h, f, {}))[{}]
  BY DEF SumOf, SumFunctionOnSet, FoldFunctionOnSet, MapThenFoldSet, IsTable, Picked
<1> QED  BY <1>2, <1>3, TableAt

LEMMA SumTable ==
    ASSUME NEW f, NEW S, IsFiniteSet(S)
    PROVE  \E g : IsTable(g, f, S) /\ SumOf(f, S) = g[S]
<1>1. PICK g : IsTable(g, f, S)
  BY TableExists
<1>2. IsTable(CHOOSE h : IsTable(h, f, S), f, S)
  BY <1>1
<1>3. SumOf(f, S) = (CHOOSE h : IsTable(h, f, S))[S]
  BY DEF SumOf, SumFunctionOnSet, FoldFunctionOnSet, MapThenFoldSet, IsTable, Picked
<1> QED  BY <1>2, <1>3

LEMMA SumPicked ==
    ASSUME NEW f, NEW S, IsFiniteSet(S), S # {}
    PROVE  SumOf(f, S) = f[Picked(S)] + SumOf(f, S \ {Picked(S)})
<1>1. PICK g : IsTable(g, f, S) /\ SumOf(f, S) = g[S]
  BY SumTable
<1>2. IsFiniteSet(S \ {Picked(S)})
  BY FS_Subset
<1>3. PICK h : IsTable(h, f, S \ {Picked(S)}) /\ SumOf(f, S \ {Picked(S)}) = h[S \ {Picked(S)}]
  BY <1>2, SumTable
<1>4. g[S \ {Picked(S)}] = h[S \ {Picked(S)}]
  BY <1>1, <1>3, TablesAgree
<1> QED  BY <1>1, <1>3, <1>4, TableAt

LEMMA SumNat ==
    ASSUME NEW S, IsFiniteSet(S), NEW f, \A x \in S : f[x] \in Nat
    PROVE  SumOf(f, S) \in Nat
<1> DEFINE B == {T \in SUBSET S : SumOf(f, T) \notin Nat}
<1>1. SUFFICES ASSUME B # {} PROVE FALSE
  OBVIOUS
<1>2. PICK T \in B : T \subseteq S /\ IsFiniteSet(T) /\ \A U \in SUBSET T : U # T => U \notin B
  <2>1. B \in SUBSET (SUBSET S)  OBVIOUS
  <2> HIDE DEF B
  <2> QED  BY <1>1, <2>1, SmallestSubset
<1>3. T # {}
  BY SumEmpty
<1>4. Picked(T) \in T /\ f[Picked(T)] \in Nat
  BY <1>3, <1>2, PickedIn
<1>5. SumOf(f, T \ {Picked(T)}) \in Nat
  BY <1>2, <1>4
<1> QED  BY <1>2, <1>3, <1>4, <1>5, SumPicked

\* Any element may be taken out first.
LEMMA SumTake ==
    ASSUME NEW S, IsFiniteSet(S), NEW f, \A x \in S : f[x] \in Nat, NEW y \in S
    PROVE  SumOf(f, S) = f[y] + SumOf(f, S \ {y})
<1> DEFINE B == {T \in SUBSET S : \E x \in T : SumOf(f, T) # f[x] + SumOf(f, T \ {x})}
<1>1. SUFFICES ASSUME B # {} PROVE FALSE
  OBVIOUS
<1>2. PICK T \in B : T \subseteq S /\ IsFiniteSet(T) /\ \A U \in SUBSET T : U # T => U \notin B
  <2>1. B \in SUBSET (SUBSET S)  OBVIOUS
  <2> HIDE DEF B
  <2> QED  BY <1>1, <2>1, SmallestSubset
<1>3. PICK x \in T : SumOf(f, T) # f[x] + SumOf(f, T \ {x})
  BY <1>2
<1> DEFINE p == Picked(T)
<1>4. p \in T /\ p # x /\ SumOf(f, T) = f[p] + SumOf(f, T \ {p})
  BY <1>2, <1>3, PickedIn, SumPicked
<1> HIDE DEF p
<1>5. SumOf(f, T \ {p}) = f[x] + SumOf(f, (T \ {p}) \ {x})
  BY <1>2, <1>3, <1>4
<1>6. SumOf(f, T \ {x}) = f[p] + SumOf(f, (T \ {x}) \ {p})
  BY <1>2, <1>3, <1>4
<1>7. (T \ {x}) \ {p} = (T \ {p}) \ {x}
  OBVIOUS
<1>8. SumOf(f, (T \ {p}) \ {x}) \in Nat
  <2>1. IsFiniteSet((T \ {p}) \ {x}) BY <1>2, FS_Subset
  <2> QED  BY <1>2, <2>1, SumNat
<1>9. f[x] \in Nat /\ f[p] \in Nat
  BY <1>2, <1>3, <1>4
<1> HIDE DEF B
<1> QED  BY <1>3, <1>4, <1>5, <1>6, <1>7, <1>8, <1>9

LEMMA SumEqual ==
    ASSUME NEW S, IsFiniteSet(S), NEW f, NEW g, \A x \in S : f[x] = g[x]
    PROVE  SumOf(f, S) = SumOf(g, S)
<1> DEFINE B == {T \in SUBSET S : SumOf(f, T) # SumOf(g, T)}
<1>1. SUFFICES ASSUME B # {} PROVE FALSE
  OBVIOUS
<1>2. PICK T \in B : T \subseteq S /\ IsFiniteSet(T) /\ \A U \in SUBSET T : U # T => U \notin B
  <2>1. B \in SUBSET (SUBSET S)  OBVIOUS
  <2> HIDE DEF B
  <2> QED  BY <1>1, <2>1, SmallestSubset
<1>3. T # {}
  BY SumEmpty
<1>4. Picked(T) \in T /\ f[Picked(T)] = g[Picked(T)]
  BY <1>3, <1>2, PickedIn
<1>5. SumOf(f, T \ {Picked(T)}) = SumOf(g, T \ {Picked(T)})
  BY <1>2, <1>4
<1> QED  BY <1>2, <1>3, <1>4, <1>5, SumPicked

LEMMA LowestIn ==
    ASSUME NEW S \in SUBSET Nat, S # {}
    PROVE  Lowest(S) \in S /\ \A y \in S : Lowest(S) <= y
<1>1. PICK k \in S : TRUE
  OBVIOUS
<1> DEFINE R == 0..k  B == {T \in SUBSET R : \E x \in S : T = 0..x}
<1>2. PICK T \in B : T \subseteq R /\ IsFiniteSet(T) /\ \A U \in SUBSET T : U # T => U \notin B
  <2>1. B \in SUBSET (SUBSET R) /\ B # {}
    <3>1. R \in B
      OBVIOUS
    <3> QED  BY <3>1
  <2>2. IsFiniteSet(R)
    BY FS_Interval
  <2> HIDE DEF B, R
  <2> QED  BY <2>1, <2>2, SmallestSubset
<1>3. PICK x \in S : T = 0..x
  BY <1>2
<1>4. ASSUME NEW y \in S, y < x PROVE FALSE
  <2>1. 0..y \in SUBSET T /\ 0..y # T
    BY <1>3, <1>4
  <2>2. 0..y \in B
    BY <1>2, <2>1
  <2> HIDE DEF B
  <2> QED  BY <1>2, <2>1, <2>2
<1>5. x \in S /\ \A y \in S : x <= y
  BY <1>4
<1> QED  BY <1>5 DEF Lowest

LEMMA Distribute ==
    ASSUME NEW a \in Int, NEW b \in Int, NEW c \in Int
    PROVE  (a + b) * c = a * c + b * c /\ c * (a + b) = c * a + c * b
OBVIOUS

LEMMA Quotient ==
    ASSUME NEW a \in Nat, NEW b \in Nat \ {0}
    PROVE  /\ a \div b \in Nat
           /\ (a \div b) * b <= a /\ a < ((a \div b) + 1) * b
OBVIOUS

LEMMA TimesAtMost ==
    ASSUME NEW a \in Nat, NEW b \in Nat, NEW c \in Nat, a <= b
    PROVE  a * c <= b * c
OBVIOUS

LEMMA TimesLess ==
    ASSUME NEW a \in Nat, NEW b \in Nat, NEW c \in Nat \ {0}, a < b
    PROVE  a * c < b * c
OBVIOUS

LEMMA CancelAtMost ==
    ASSUME NEW a \in Nat, NEW b \in Nat, NEW c \in Nat \ {0}, a * c <= b * c
    PROVE  a <= b
<1>1. SUFFICES ASSUME b < a PROVE FALSE
  OBVIOUS
<1>2. b * c < a * c
  BY <1>1, TimesLess
<1>3. a * c \in Nat /\ b * c \in Nat
  OBVIOUS
<1> QED  BY <1>2, <1>3

LEMMA Remainder ==
    ASSUME NEW a \in Nat, NEW b \in Nat \ {0}
    PROVE  /\ a \div b \in Nat /\ a % b \in Nat /\ a % b < b
           /\ (a \div b) * b + (a % b) = a
OBVIOUS

-----------------------------------------------------------------------------
(***************************************************************************)
(* Sequences of segments.                                                  *)
(***************************************************************************)

Segments == [first : 0..(size - 1), last : 0..(size - 1), exit : kept]

\* Gaps and overlaps there may be, but nothing is out of order.
Ordered(s) ==
    /\ \A i \in 1..Len(s) : s[i].first <= s[i].last
    /\ \A i, j \in 1..Len(s) : i < j => s[i].first <= s[j].first /\ s[i].last <= s[j].last

LEMMA RemoveAtProperties ==
    ASSUME NEW S, NEW s \in Seq(S), NEW i \in 1..Len(s)
    PROVE  /\ RemoveAt(s, i) \in Seq(S)
           /\ Len(RemoveAt(s, i)) = Len(s) - 1
           /\ \A j \in 1..(Len(s) - 1) :
                RemoveAt(s, i)[j] = IF j < i THEN s[j] ELSE s[j + 1]
<1> DEFINE a == SubSeq(s, 1, i - 1)  b == SubSeq(s, i + 1, Len(s))
<1>1. Len(s) \in Nat /\ \A j \in 1..Len(s) : s[j] \in S
  BY LenProperties, ElementOfSeq
<1>2. /\ a \in Seq(S) /\ Len(a) = i - 1
      /\ \A j \in 1..(i - 1) : a[j] = s[j]
  <2>1. \A j \in 1..(i - 1) : s[j] \in S
    BY <1>1
  <2>2. /\ a \in Seq(S) /\ Len(a) = IF 1 <= i - 1 THEN (i - 1) - 1 + 1 ELSE 0
        /\ \A j \in 1..((i - 1) - 1 + 1) : a[j] = s[1 + j - 1]
    BY <1>1, <2>1, SubSeqProperties
  <2> HIDE DEF a
  <2>3. \A j \in 1..(i - 1) : a[j] = s[j]
    <3>1. ASSUME NEW j \in 1..(i - 1) PROVE a[j] = s[j]
      <4>1. 1 + j - 1 = j /\ j \in 1..((i - 1) - 1 + 1)
        OBVIOUS
      <4> QED  BY <2>2, <4>1
    <3> QED  BY <3>1
  <2> QED  BY <1>1, <2>2, <2>3
<1>3. /\ b \in Seq(S) /\ Len(b) = Len(s) - i
      /\ \A j \in 1..(Len(s) - i) : b[j] = s[i + j]
  <2>1. \A j \in (i + 1)..Len(s) : s[j] \in S
    BY <1>1
  <2>2. /\ b \in Seq(S) /\ Len(b) = IF i + 1 <= Len(s) THEN Len(s) - (i + 1) + 1 ELSE 0
        /\ \A j \in 1..(Len(s) - (i + 1) + 1) : b[j] = s[(i + 1) + j - 1]
    BY <1>1, <2>1, SubSeqProperties
  <2> HIDE DEF b
  <2>3. \A j \in 1..(Len(s) - i) : b[j] = s[i + j]
    <3>1. ASSUME NEW j \in 1..(Len(s) - i) PROVE b[j] = s[i + j]
      <4>1. (i + 1) + j - 1 = i + j /\ j \in 1..(Len(s) - (i + 1) + 1)
        BY <1>1
      <4> QED  BY <2>2, <4>1
    <3> QED  BY <3>1
  <2> QED  BY <1>1, <2>2, <2>3
<1> HIDE DEF a, b
<1>4. /\ a \o b \in Seq(S) /\ Len(a \o b) = Len(a) + Len(b)
      /\ \A j \in 1..(Len(a) + Len(b)) :
           (a \o b)[j] = IF j <= Len(a) THEN a[j] ELSE b[j - Len(a)]
  BY <1>2, <1>3, ConcatProperties
<1>5. ASSUME NEW j \in 1..(Len(s) - 1)
      PROVE  (a \o b)[j] = IF j < i THEN s[j] ELSE s[j + 1]
  <2>1. CASE j < i
    BY <1>1, <1>2, <1>3, <1>4, <2>1
  <2>2. CASE ~(j < i)
    <3>1. (a \o b)[j] = b[j - (i - 1)]
      BY <1>1, <1>2, <1>3, <1>4, <2>2
    <3>2. j - (i - 1) \in 1..(Len(s) - i) /\ i + (j - (i - 1)) = j + 1
      BY <1>1, <2>2
    <3>3. b[j - (i - 1)] = s[i + (j - (i - 1))]
      BY <1>3, <3>2
    <3> QED  BY <2>2, <3>1, <3>2, <3>3
  <2> QED  BY <2>1, <2>2
<1>6. Len(a \o b) = Len(s) - 1
  BY <1>1, <1>2, <1>3, <1>4
<1>7. RemoveAt(s, i) = a \o b
  BY DEF RemoveAt, a, b
<1> QED  BY <1>4, <1>5, <1>6, <1>7

\* The parts of a range, in order, within it, and without a gap between them.
LEMMA EvenSubsplitProperties ==
    ASSUME NEW first \in 0..(size - 1), NEW last \in first..(size - 1), size \in Nat,
           NEW parts \in Nat \ {0}, NEW e \in kept
    PROVE  LET s == EvenSubsplit(first, last, parts, e)
           IN  /\ s \in Seq(Segments) /\ Ordered(s)
               /\ \A i \in 1..Len(s) : first <= s[i].first /\ s[i].last <= last
               /\ last - first + 1 >= parts =>
                    /\ Len(s) = parts /\ s[1].first = first /\ s[parts].last = last
                    /\ \A i \in 2..parts : s[i].first = s[i - 1].last + 1
               /\ last - first + 1 < parts => s = <<>>
<1> DEFINE len == last - first + 1
           base == len \div parts
           extra == len % parts
           Cut(i) == first + i * base + (IF i < extra THEN i ELSE extra)
           s == [i \in 1..parts |-> Segment(Cut(i - 1), Cut(i) - 1, e)]
<1>1. first \in Nat /\ last \in Nat /\ len \in Nat \ {0} /\ last < size /\ first <= last
  OBVIOUS
<1>2. base \in Nat /\ extra \in Nat /\ extra < parts /\ base * parts + extra = len
  <2> HIDE DEF len
  <2> QED  BY <1>1, Remainder
<1>3. EvenSubsplit(first, last, parts, e) = IF base = 0 THEN <<>> ELSE s
  BY DEF EvenSubsplit
<1>4. base = 0 <=> len < parts
  <2> HIDE DEF len, base, extra
  <2>1. CASE base = 0
    BY <1>1, <1>2, <2>1
  <2>2. CASE base # 0
    <3>1. 1 * parts <= base * parts
      BY <1>2, <2>2, TimesAtMost
    <3>2. base * parts \in Nat /\ 1 * parts = parts
      BY <1>2
    <3> QED  BY <1>1, <1>2, <2>2, <3>1, <3>2
  <2> QED  BY <2>1, <2>2
<1>5. CASE base = 0
  <2>1. <<>> \in Seq(Segments) /\ Ordered(<<>>) /\ Len(<<>>) = 0
    BY EmptySeq DEF Ordered
  <2>2. ~(len >= parts)
    BY <1>1, <1>4, <1>5
  <2> HIDE DEF base, s
  <2> QED  BY <1>3, <1>5, <2>1, <2>2
<1>6. CASE base # 0
  <2> HIDE DEF len, base, extra
  <2>1. ASSUME NEW i \in 0..parts PROVE i * base \in Nat /\ Cut(i) \in Nat
    BY <1>1, <1>2
  <2>2. ASSUME NEW i \in 0..parts, NEW j \in 0..parts, i < j PROVE Cut(i) < Cut(j)
    <3>1. i * base < j * base
      BY <1>2, <1>6, <2>2, TimesLess
    <3>2. i * base \in Nat /\ j * base \in Nat
      BY <2>1
    <3>3. (IF i < extra THEN i ELSE extra) <= (IF j < extra THEN j ELSE extra)
      BY <1>2, <2>2
    <3> QED  BY <1>1, <1>2, <3>1, <3>2, <3>3
  <2>3. Cut(0) = first /\ Cut(parts) = last + 1
    <3>1. 0 * base = 0 /\ parts * base = base * parts
      BY <1>2
    <3>2. base * parts \in Nat
      BY <1>2
    <3>3. first + len = last + 1
      BY DEF len
    <3> QED  BY <1>1, <1>2, <3>1, <3>2, <3>3
  <2> HIDE DEF Cut
  <2>4. ASSUME NEW i \in 0..parts PROVE first <= Cut(i) /\ Cut(i) <= last + 1
    BY <2>1, <2>2, <2>3, <1>1
  <2>5. ASSUME NEW i \in 1..parts
        PROVE  /\ s[i].first = Cut(i - 1) /\ s[i].last = Cut(i) - 1
               /\ s[i] \in Segments
               /\ s[i].first <= s[i].last /\ first <= s[i].first /\ s[i].last <= last
    <3>1. i - 1 \in 0..parts /\ i \in 0..parts /\ i - 1 < i
      OBVIOUS
    <3>2. Cut(i - 1) < Cut(i) /\ Cut(i - 1) \in Nat /\ Cut(i) \in Nat
      BY <2>1, <2>2, <3>1
    <3>3. first <= Cut(i - 1) /\ Cut(i) <= last + 1
      BY <2>4, <3>1
    <3>4. s[i] = [first |-> Cut(i - 1), last |-> Cut(i) - 1, exit |-> e]
      BY DEF Segment
    <3>5. Cut(i - 1) \in 0..(size - 1) /\ Cut(i) - 1 \in 0..(size - 1)
      BY <1>1, <3>2, <3>3
    <3> HIDE DEF s
    <3> QED  BY <1>1, <3>2, <3>3, <3>4, <3>5 DEF Segments
  <2>6. s \in Seq(Segments) /\ Len(s) = parts
    <3>1. s \in [1..parts -> Segments]
      BY <2>5
    <3> HIDE DEF s
    <3>2. s \in Seq(Segments)
      BY <3>1, SeqDef
    <3> QED  BY <3>1, <3>2, LenProperties
  <2> HIDE DEF s
  <2>7. Ordered(s)
    <3>1. ASSUME NEW i \in 1..parts, NEW j \in 1..parts, i < j
          PROVE  s[i].first <= s[j].first /\ s[i].last <= s[j].last
      <4>1. i - 1 \in 0..parts /\ j - 1 \in 0..parts /\ i - 1 < j - 1
            /\ i \in 0..parts /\ j \in 0..parts
        BY <3>1
      <4>2. Cut(i - 1) < Cut(j - 1) /\ Cut(i) < Cut(j)
        BY <2>2, <3>1, <4>1
      <4>3. Cut(i - 1) \in Nat /\ Cut(j - 1) \in Nat /\ Cut(i) \in Nat /\ Cut(j) \in Nat
        BY <2>1, <4>1
      <4> QED  BY <2>5, <4>2, <4>3
    <3> QED  BY <2>5, <2>6, <3>1 DEF Ordered
  <2>8. /\ s[1].first = first /\ s[parts].last = last
        /\ \A i \in 2..parts : s[i].first = s[i - 1].last + 1
    <3>1. s[1].first = first
      BY <2>3, <2>5
    <3>2. s[parts].last = last
      BY <1>1, <2>3, <2>5
    <3>3. ASSUME NEW i \in 2..parts PROVE s[i].first = s[i - 1].last + 1
      <4>1. i \in 1..parts /\ i - 1 \in 1..parts /\ i - 1 \in 0..parts
        OBVIOUS
      <4>2. s[i].first = Cut(i - 1) /\ s[i - 1].last = Cut(i - 1) - 1 /\ Cut(i - 1) \in Nat
        BY <2>1, <2>5, <4>1
      <4> QED  BY <4>2
    <3> QED  BY <3>1, <3>2, <3>3
  <2>9. ~(len < parts)
    BY <1>4, <1>6
  <2>10. EvenSubsplit(first, last, parts, e) = s
    BY <1>3, <1>6
  <2> QED  BY <2>5, <2>6, <2>7, <2>8, <2>9, <2>10 DEF len
<1> QED  BY <1>5, <1>6

\* Segments from a position on follow those before it in order.
LEMMA OrderedConcat ==
    ASSUME NEW s \in Seq(Segments), NEW t \in Seq(Segments), Ordered(s), Ordered(t),
           size \in Nat, NEW c \in Nat,
           \A i \in 1..Len(s) : s[i].first <= c /\ s[i].last <= c,
           \A i \in 1..Len(t) : c <= t[i].first
    PROVE  /\ s \o t \in Seq(Segments) /\ Ordered(s \o t)
           /\ Len(s \o t) = Len(s) + Len(t)
           /\ \A i \in 1..(Len(s) + Len(t)) :
                (s \o t)[i] = IF i <= Len(s) THEN s[i] ELSE t[i - Len(s)]
<1>1. Len(s) \in Nat /\ Len(t) \in Nat
  BY LenProperties
<1>2. /\ \A i \in 1..Len(s) : s[i].first \in Nat /\ s[i].last \in Nat
      /\ \A i \in 1..Len(t) : t[i].first \in Nat /\ t[i].last \in Nat
  <2>1. \A x \in Segments : x.first \in Nat /\ x.last \in Nat
    BY DEF Segments
  <2> QED  BY <2>1, ElementOfSeq
<1>3. /\ s \o t \in Seq(Segments) /\ Len(s \o t) = Len(s) + Len(t)
      /\ \A i \in 1..(Len(s) + Len(t)) :
           (s \o t)[i] = IF i <= Len(s) THEN s[i] ELSE t[i - Len(s)]
  BY ConcatProperties
<1> DEFINE r == s \o t  n == Len(s)  m == Len(t)
<1>4. r \in Seq(Segments) /\ Len(r) = n + m
      /\ \A i \in 1..(n + m) : r[i] = IF i <= n THEN s[i] ELSE t[i - n]
  BY <1>3
<1> HIDE DEF r
<1>5. ASSUME NEW i \in 1..(n + m) PROVE r[i].first <= r[i].last
  <2>1. CASE i <= n
    BY <1>1, <1>4, <2>1 DEF Ordered
  <2>2. CASE ~(i <= n)
    <3>1. i - n \in 1..m
      BY <1>1, <2>2
    <3> QED  BY <1>4, <2>2, <3>1 DEF Ordered
  <2> QED  BY <2>1, <2>2
<1>6. ASSUME NEW i \in 1..(n + m), NEW j \in 1..(n + m), i < j
      PROVE  r[i].first <= r[j].first /\ r[i].last <= r[j].last
  <2>1. CASE j <= n
    <3>1. i \in 1..n /\ j \in 1..n /\ i <= n
      BY <1>1, <1>6, <2>1
    <3> QED  BY <1>4, <1>6, <2>1, <3>1 DEF Ordered
  <2>2. CASE ~(i <= n)
    <3>1. i - n \in 1..m /\ j - n \in 1..m /\ i - n < j - n /\ ~(j <= n)
      BY <1>1, <1>6, <2>2
    <3> QED  BY <1>4, <2>2, <3>1 DEF Ordered
  <2>3. CASE i <= n /\ ~(j <= n)
    <3>1. i \in 1..n /\ j - n \in 1..m
      BY <1>1, <2>3
    <3>2. r[i] = s[i] /\ r[j] = t[j - n]
      BY <1>4, <2>3
    <3>3. s[i].first <= c /\ s[i].last <= c /\ c <= t[j - n].first
          /\ t[j - n].first <= t[j - n].last
      BY <3>1 DEF Ordered
    <3>4. /\ s[i].first \in Nat /\ s[i].last \in Nat
          /\ t[j - n].first \in Nat /\ t[j - n].last \in Nat
      BY <1>2, <3>1
    <3>5. s[i].first <= t[j - n].first
      BY <3>3, <3>4
    <3>6. s[i].last <= t[j - n].last
      BY <3>3, <3>4
    <3> QED  BY <3>2, <3>5, <3>6
  <2> QED  BY <2>1, <2>2, <2>3
<1>7. Ordered(r)
  BY <1>4, <1>5, <1>6 DEF Ordered
<1> QED  BY <1>3, <1>7 DEF r

LEMMA FirstMoved ==
    ASSUME NEW a, NEW b, NEW c, NEW v
    PROVE  [[first |-> a, last |-> b, exit |-> c] EXCEPT !.first = v]
             = [first |-> v, last |-> b, exit |-> c]
OBVIOUS

LEMMA LastMoved ==
    ASSUME NEW a, NEW b, NEW c, NEW v
    PROVE  [[first |-> a, last |-> b, exit |-> c] EXCEPT !.last = v]
             = [first |-> a, last |-> v, exit |-> c]
OBVIOUS

\* What MergeTiny makes of the segments.
Merged(i) ==
    IF i < Len(segs)
    THEN RemoveAt([segs EXCEPT ![i + 1].first = segs[i].first], i)
    ELSE RemoveAt([segs EXCEPT ![i - 1].last = segs[i].last], i)

LEMMA MergedProperties ==
    ASSUME segs \in Seq(Segments), Ordered(segs), size \in Nat, Len(segs) > 1,
           NEW i \in 1..Len(segs)
    PROVE  /\ Merged(i) \in Seq(Segments) /\ Ordered(Merged(i))
           /\ Len(Merged(i)) = Len(segs) - 1
           /\ \A j \in 1..(Len(segs) - 1) :
                /\ Merged(i)[j].first = IF j <= i THEN segs[j].first ELSE segs[j + 1].first
                /\ Merged(i)[j].last = IF j < i /\ (i < Len(segs) \/ j < i - 1)
                                       THEN segs[j].last ELSE segs[j + 1].last
<1> DEFINE n == Len(segs)
<1>1. n \in Nat /\ \A j \in 1..n : segs[j] \in Segments
  BY LenProperties, ElementOfSeq
<1>2. \A j \in 1..n : /\ segs[j].first \in 0..(size - 1) /\ segs[j].last \in 0..(size - 1)
                      /\ segs[j].exit \in kept
                      /\ segs[j] = [first |-> segs[j].first, last |-> segs[j].last,
                                    exit |-> segs[j].exit]
  BY <1>1 DEF Segments
<1>3. /\ Merged(i) \in Seq(Segments) /\ Len(Merged(i)) = n - 1
      /\ \A j \in 1..(n - 1) :
           /\ Merged(i)[j].first = IF j <= i THEN segs[j].first ELSE segs[j + 1].first
           /\ Merged(i)[j].last = IF j < i /\ (i < n \/ j < i - 1)
                                  THEN segs[j].last ELSE segs[j + 1].last
  <2>1. CASE i < n
    <3> DEFINE x == [first |-> segs[i].first, last |-> segs[i + 1].last,
                     exit |-> segs[i + 1].exit]
               s == [segs EXCEPT ![i + 1] = x]
    <3>1. i + 1 \in 1..n /\ x \in Segments
      BY <1>1, <1>2, <2>1 DEF Segments
    <3>2. [segs EXCEPT ![i + 1].first = segs[i].first] = s
      <4>1. [segs[i + 1] EXCEPT !.first = segs[i].first] = x
        <5> DEFINE y == segs[i + 1]
        <5>1. y = [first |-> y.first, last |-> y.last, exit |-> y.exit]
          BY <1>2, <3>1
        <5>2. [y EXCEPT !.first = segs[i].first] = x
          <6> DEFINE z == [first |-> y.first, last |-> y.last, exit |-> y.exit]
          <6>1. [z EXCEPT !.first = segs[i].first] = x
            BY FirstMoved
          <6> HIDE DEF z, x, y
          <6> QED  BY <5>1, <6>1 DEF z
        <5> QED  BY <5>2
      <4>2. [segs EXCEPT ![i + 1].first = segs[i].first]
              = [segs EXCEPT ![i + 1] = [segs[i + 1] EXCEPT !.first = segs[i].first]]
        OBVIOUS
      <4> HIDE DEF x
      <4> QED  BY <4>1, <4>2
    <3>3. /\ s \in Seq(Segments) /\ Len(s) = n
          /\ \A j \in 1..n : s[j] = IF j = i + 1 THEN x ELSE segs[j]
      <4> HIDE DEF x
      <4> QED  BY <3>1, ExceptSeq
    <3>4. Merged(i) = RemoveAt(s, i)
      BY <2>1, <3>2 DEF Merged
    <3> HIDE DEF s
    <3>5. /\ RemoveAt(s, i) \in Seq(Segments) /\ Len(RemoveAt(s, i)) = n - 1
          /\ \A j \in 1..(n - 1) : RemoveAt(s, i)[j] = IF j < i THEN s[j] ELSE s[j + 1]
      BY <3>3, RemoveAtProperties
    <3>6. ASSUME NEW j \in 1..(n - 1)
          PROVE  /\ Merged(i)[j].first = IF j <= i THEN segs[j].first ELSE segs[j + 1].first
                 /\ Merged(i)[j].last = IF j < i THEN segs[j].last ELSE segs[j + 1].last
      <4>1. j \in 1..n /\ j + 1 \in 1..n
        BY <1>1
      <4>2. CASE j < i
        <5>1. Merged(i)[j] = segs[j]
          BY <1>1, <3>3, <3>4, <3>5, <4>1, <4>2
        <5> QED  BY <4>2, <5>1
      <4>3. CASE j = i
        <5>1. Merged(i)[j] = x
          BY <1>1, <3>3, <3>4, <3>5, <4>1, <4>3
        <5> QED  BY <4>3, <5>1
      <4>4. CASE j > i
        <5>1. Merged(i)[j] = segs[j + 1]
          BY <1>1, <3>3, <3>4, <3>5, <4>1, <4>4
        <5> QED  BY <4>4, <5>1
      <4> QED  BY <1>1, <4>2, <4>3, <4>4
    <3> QED  BY <2>1, <3>4, <3>5, <3>6
  <2>2. CASE i = n
    <3> DEFINE x == [first |-> segs[i - 1].first, last |-> segs[i].last,
                     exit |-> segs[i - 1].exit]
               s == [segs EXCEPT ![i - 1] = x]
    <3>1. i - 1 \in 1..n /\ x \in Segments /\ ~(i < n)
      <4>1. i - 1 \in 1..n /\ ~(i < n)
        BY <1>1, <2>2
      <4> QED  BY <1>2, <4>1 DEF Segments
    <3>2. [segs EXCEPT ![i - 1].last = segs[i].last] = s
      <4>1. [segs[i - 1] EXCEPT !.last = segs[i].last] = x
        <5> DEFINE y == segs[i - 1]
        <5>1. y = [first |-> y.first, last |-> y.last, exit |-> y.exit]
          BY <1>2, <3>1
        <5>2. [y EXCEPT !.last = segs[i].last] = x
          <6> DEFINE z == [first |-> y.first, last |-> y.last, exit |-> y.exit]
          <6>1. [z EXCEPT !.last = segs[i].last] = x
            BY LastMoved
          <6> HIDE DEF z, x, y
          <6> QED  BY <5>1, <6>1 DEF z
        <5> QED  BY <5>2
      <4>2. [segs EXCEPT ![i - 1].last = segs[i].last]
              = [segs EXCEPT ![i - 1] = [segs[i - 1] EXCEPT !.last = segs[i].last]]
        OBVIOUS
      <4> HIDE DEF x
      <4> QED  BY <4>1, <4>2
    <3>3. /\ s \in Seq(Segments) /\ Len(s) = n
          /\ \A j \in 1..n : s[j] = IF j = i - 1 THEN x ELSE segs[j]
      <4> HIDE DEF x
      <4> QED  BY <3>1, ExceptSeq
    <3>4. Merged(i) = RemoveAt(s, i)
      BY <3>1, <3>2 DEF Merged
    <3> HIDE DEF s
    <3>5. /\ RemoveAt(s, i) \in Seq(Segments) /\ Len(RemoveAt(s, i)) = n - 1
          /\ \A j \in 1..(n - 1) : RemoveAt(s, i)[j] = IF j < i THEN s[j] ELSE s[j + 1]
      BY <3>3, RemoveAtProperties
    <3>6. ASSUME NEW j \in 1..(n - 1)
          PROVE  /\ Merged(i)[j].first = segs[j].first /\ j <= i
                 /\ Merged(i)[j].last = IF j < i - 1 THEN segs[j].last ELSE segs[j + 1].last
      <4>1. j \in 1..n /\ j + 1 \in 1..n /\ j < i
        BY <1>1, <2>2
      <4>2. CASE j < i - 1
        <5>1. Merged(i)[j] = segs[j]
          BY <1>1, <3>3, <3>4, <3>5, <4>1, <4>2
        <5> QED  BY <4>1, <4>2, <5>1
      <4>3. CASE j = i - 1
        <5>1. Merged(i)[j] = x /\ j + 1 = i /\ ~(j < i - 1)
          BY <1>1, <3>3, <3>4, <3>5, <4>1, <4>3
        <5>2. x.first = segs[j].first /\ x.last = segs[j + 1].last
          BY <4>3, <5>1
        <5> QED  BY <4>1, <5>1, <5>2
      <4> QED  BY <1>1, <4>1, <4>2, <4>3
    <3> QED  BY <2>2, <3>1, <3>4, <3>5, <3>6
  <2> QED  BY <1>1, <2>1, <2>2
<1>4. Ordered(Merged(i))
  <2> DEFINE r == Merged(i)
  <2>1. ASSUME NEW j \in 1..(n - 1) PROVE r[j].first <= r[j].last
    <3>1. j \in 1..n /\ j + 1 \in 1..n /\ j < j + 1
      BY <1>1
    <3>2. /\ segs[j].first <= segs[j].last /\ segs[j].last <= segs[j + 1].last
          /\ segs[j + 1].first <= segs[j + 1].last
      BY <3>1 DEF Ordered
    <3>3. /\ segs[j].first \in Int /\ segs[j].last \in Int
          /\ segs[j + 1].first \in Int /\ segs[j + 1].last \in Int
      <4>1. \A y \in 0..(size - 1) : y \in Int
        OBVIOUS
      <4> QED  BY <1>2, <3>1, <4>1
    <3>4. /\ r[j].first = segs[j].first \/ (r[j].first = segs[j + 1].first /\ j > i)
          /\ r[j].last = segs[j + 1].last \/ (r[j].last = segs[j].last /\ j < i)
      BY <1>1, <1>3
    <3> QED  BY <3>2, <3>3, <3>4
  <2>2. ASSUME NEW j \in 1..(n - 1), NEW k \in 1..(n - 1), j < k
        PROVE  r[j].first <= r[k].first /\ r[j].last <= r[k].last
    <3>1. /\ j \in 1..n /\ j + 1 \in 1..n /\ k \in 1..n /\ k + 1 \in 1..n
          /\ j < k + 1 /\ j + 1 < k + 1
      BY <1>1, <2>2
    <3>2. /\ segs[j].first <= segs[k].first /\ segs[j].first <= segs[k + 1].first
          /\ segs[j + 1].first <= segs[k + 1].first
          /\ segs[j].last <= segs[k].last /\ segs[j].last <= segs[k + 1].last
          /\ segs[j + 1].last <= segs[k + 1].last
      BY <2>2, <3>1 DEF Ordered
    <3>3. r[j].first <= r[k].first
      BY <1>3, <2>2, <3>2
    <3>4. r[j].last <= r[k].last
      BY <1>3, <2>2, <3>2
    <3> QED  BY <3>3, <3>4
  <2> QED  BY <1>3, <2>1, <2>2 DEF Ordered
<1> QED  BY <1>3, <1>4
-----------------------------------------------------------------------------
(***************************************************************************)
(* The inductive invariant.                                                *)
(***************************************************************************)

Units(S) == SumOf(weight, S)
Floor(e) == (size * weight[e]) \div Units(kept)
Floors == [e \in kept |-> Floor(e)]

\* The inputs and the sets of exits.
InputInv ==
    /\ size \in 1..MaxSize /\ \E S \in SUBSET Exits : weight \in [S -> 1..MaxWeight]
    /\ perExit \in 1..MaxPerExit /\ minimum \in 1..MaxMinimum
    /\ pc \in {"drop", "split", "merge", "validate", "ok", "invalid"}
    /\ kept \subseteq given /\ kept # {} /\ todo \subseteq kept
    /\ spe \in {1, perExit}

\* The dropped exits are the weakest, and they had to go.
DropInv ==
    /\ \A k \in kept, d \in given \ kept : weight[d] <= weight[k]
    /\ kept # given => size < (Cardinality(kept) + 1) * minimum
    /\ pc # "drop" => ~TooMany

\* The cut goes through the exits in id order; the cursor is the sum of the floors
\* of those it has passed and leaves the others their part.
CutInv ==
    /\ start = cursor /\ cursor \in 0..size
    /\ pc = "drop" => segs = <<>> /\ cursor = 0 /\ todo = {}
    /\ pc = "split" =>
         /\ todo # {} /\ \A e \in todo, d \in kept \ todo : d < e
         /\ cursor * Units(kept) + size * Units(todo) <= size * Units(kept)
         /\ cursor = SumOf(Floors, kept \ todo)

SegsInv ==
    /\ segs \in Seq(Segments) /\ Ordered(segs)
    /\ pc = "split" => \A i \in 1..Len(segs) : segs[i].first <= start /\ segs[i].last <= start
    /\ pc = "ok" => Valid

\* The precondition of LargeSharesAlwaysPlan.
Generous ==
    /\ minimum > 1 \/ ShareOf(Lowest(kept)) > 0
    /\ \A e \in kept : ShareOf(e) \notin 1..(spe - 1)

\* Under it the segments are a chain up to the end of the cut.  Its only flaw is
\* byte 0 more than once, which takes segments below a minimum of two or more.
Joins(last, next) == next = last + 1 \/ (last = 0 /\ next = 0 /\ minimum > 1)

Chain(s, end) ==
    /\ Len(s) = 0 => end = 0
    /\ Len(s) > 0 => s[1].first = 0 /\ Joins(s[Len(s)].last, end)
    /\ \A i \in 2..Len(s) : Joins(s[i - 1].last, s[i].first)

ChainInv ==
    Generous =>
        /\ pc = "split" => Chain(segs, start) /\ (start > 0 \/ minimum > 1 \/ todo = kept)
        /\ pc = "merge" => Chain(segs, size)
        /\ pc = "validate" => Valid
        /\ pc # "invalid"

PlanInv == InputInv /\ DropInv /\ CutInv /\ SegsInv /\ ChainInv

-----------------------------------------------------------------------------
(***************************************************************************)
(* What the invariant says of the inputs and of the shares.                *)
(***************************************************************************)

LEMMA InputType ==
    ASSUME InputInv
    PROVE  /\ size \in Nat \ {0} /\ minimum \in Nat \ {0} /\ spe \in Nat \ {0}
           /\ kept \subseteq Nat /\ IsFiniteSet(kept) /\ Cardinality(kept) \in Nat \ {0}
           /\ \A e \in kept : weight[e] \in Nat \ {0}
<1>1. /\ MaxSize \in Nat /\ MaxWeight \in Nat /\ MaxPerExit \in Nat /\ MaxMinimum \in Nat
      /\ Exits \subseteq Nat /\ IsFiniteSet(Exits)
  BY PlanAssumption
<1>2. PICK S \in SUBSET Exits : weight \in [S -> 1..MaxWeight]
  BY DEF InputInv
<1>3. given = S
  BY <1>2 DEF given
<1>4. kept \subseteq S /\ kept # {}
  BY <1>3 DEF InputInv
<1>5. kept \subseteq Nat /\ IsFiniteSet(kept)
  <2>1. kept \subseteq Exits
    BY <1>2, <1>4
  <2> QED  BY <1>1, <2>1, FS_Subset
<1>6. Cardinality(kept) \in Nat /\ Cardinality(kept) # 0
  BY <1>4, <1>5, FS_CardinalityType, FS_EmptySet
<1>7. \A e \in kept : weight[e] \in Nat \ {0}
  BY <1>1, <1>2, <1>4
<1>8. size \in Nat \ {0} /\ minimum \in Nat \ {0} /\ spe \in Nat \ {0}
  BY <1>1 DEF InputInv
<1> QED  BY <1>5, <1>6, <1>7, <1>8

LEMMA UnitsType ==
    ASSUME InputInv, NEW S \in SUBSET kept
    PROVE  Units(S) \in Nat /\ (S # {} => Units(S) > 0)
           /\ \A e \in S : Units(S) = weight[e] + Units(S \ {e}) /\ Units(S \ {e}) \in Nat
<1>1. IsFiniteSet(S) /\ \A e \in S : weight[e] \in Nat \ {0}
  BY InputType, FS_Subset
<1>2. Units(S) \in Nat
  BY <1>1, SumNat DEF Units
<1>3. ASSUME NEW e \in S
      PROVE  Units(S) = weight[e] + Units(S \ {e}) /\ Units(S \ {e}) \in Nat
  <2>1. IsFiniteSet(S \ {e})
    BY <1>1, FS_Subset
  <2>2. Units(S \ {e}) \in Nat
    BY <1>1, <2>1, SumNat DEF Units
  <2>3. \A x \in S : weight[x] \in Nat
    BY <1>1
  <2>4. Units(S) = weight[e] + Units(S \ {e})
    BY <1>1, <2>3, SumTake DEF Units
  <2> QED  BY <2>2, <2>4
<1>4. S # {} => Units(S) > 0
  <2> SUFFICES ASSUME S # {} PROVE Units(S) > 0
    OBVIOUS
  <2>1. PICK e \in S : TRUE
    OBVIOUS
  <2>2. weight[e] \in Nat \ {0}
    BY <1>1, <2>1
  <2>3. Units(S) = weight[e] + Units(S \ {e}) /\ Units(S \ {e}) \in Nat
    BY <1>3, <2>1
  <2> QED  BY <2>2, <2>3
<1> QED  BY <1>2, <1>3, <1>4

LEMMA FloorType ==
    ASSUME InputInv, NEW e \in kept
    PROVE  Floor(e) \in Nat /\ Floor(e) * Units(kept) <= size * weight[e]
<1>1. Units(kept) \in Nat \ {0}
  BY UnitsType DEF InputInv
<1>2. size * weight[e] \in Nat
  BY InputType
<1> DEFINE a == size * weight[e]  b == Units(kept)
<1>3. a \div b \in Nat /\ (a \div b) * b <= a
  <2>1. a \in Nat /\ b \in Nat \ {0}
    BY <1>1, <1>2
  <2> HIDE DEF a, b
  <2> QED  BY <2>1, Quotient
<1> QED  BY <1>3 DEF Floor

\* The share of the last exit is what the floors of the others leave.
LEMMA ShareIs ==
    ASSUME InputInv, NEW e \in kept
    PROVE  ShareOf(e) = IF \A d \in kept : d <= e
                        THEN size - SumOf(Floors, kept \ {e}) ELSE Floor(e)
<1> DEFINE others == kept \ {e}  F == [d \in others |-> Floor(d)]
<1>1. SumOf(F, others) = SumOf(Floors, others)
  <2>1. IsFiniteSet(others)
    BY InputType, FS_Subset
  <2>2. \A x \in others : F[x] = Floors[x]
    BY DEF Floors
  <2> HIDE DEF F, others
  <2> QED  BY <2>1, <2>2, SumEqual
<1>2. ShareOf(e) = IF \A d \in kept : d <= e THEN size - SumOf(F, others) ELSE Floor(e)
  BY DEF ShareOf, Floor, Units, SumOf
<1> HIDE DEF F
<1> QED  BY <1>1, <1>2

\* One exit more in the sum of the floors.
LEMMA FloorsTake ==
    ASSUME InputInv, NEW S \in SUBSET kept, NEW e \in S
    PROVE  SumOf(Floors, S \ {e}) \in Nat /\ SumOf(Floors, S) = SumOf(Floors, S \ {e}) + Floor(e)
<1>1. IsFiniteSet(S) /\ IsFiniteSet(S \ {e})
  BY InputType, FS_Subset
<1>2. \A x \in S : Floors[x] \in Nat
  BY FloorType DEF Floors
<1>3. Floors[e] = Floor(e) /\ Floor(e) \in Nat
  BY FloorType DEF Floors
<1>4. SumOf(Floors, S \ {e}) \in Nat
  BY <1>1, <1>2, SumNat
<1>5. SumOf(Floors, S) = Floors[e] + SumOf(Floors, S \ {e})
  BY <1>1, <1>2, SumTake
<1> QED  BY <1>3, <1>4, <1>5

\* The cut of one more share ends within the file, and its length is the exit's share.
LEMMA ShareEndIs ==
    ASSUME InputInv, CutInv, pc = "split", NEW e \in todo, \A d \in todo : e <= d
    PROVE  /\ ShareEnd(e) \in cursor..size
           /\ ShareOf(e) = ShareEnd(e) - cursor
           /\ todo # {e} =>
                /\ ShareEnd(e) * Units(kept) + size * Units(todo \ {e}) <= size * Units(kept)
                /\ ShareEnd(e) = SumOf(Floors, kept \ (todo \ {e}))
<1>1. /\ size \in Nat \ {0} /\ kept \subseteq Nat /\ cursor \in Nat /\ cursor <= size
      /\ e \in kept /\ todo \subseteq kept /\ weight[e] \in Nat
  BY InputType DEF InputInv, CutInv
<1>2. CASE todo = {e}
  <2>1. ShareEnd(e) = size
    BY <1>2 DEF ShareEnd
  <2>2. \A d \in kept : d <= e
    <3>1. ASSUME NEW d \in kept PROVE d <= e
      <4>1. d = e \/ d < e
        BY <1>2 DEF CutInv
      <4> QED  BY <1>1, <4>1
    <3> QED  BY <3>1
  <2>3. cursor = SumOf(Floors, kept \ {e})
    BY <1>2 DEF CutInv
  <2>4. ShareOf(e) = size - cursor
    BY <1>1, <2>2, <2>3, ShareIs
  <2> QED  BY <1>1, <1>2, <2>1, <2>4
<1>3. CASE todo # {e}
  <2>1. ShareEnd(e) = cursor + Floor(e)
    BY <1>3 DEF ShareEnd, Floor, Units, SumOf
  <2>2. ShareOf(e) = Floor(e)
    <3>1. PICK d \in todo : d # e
      BY <1>3
    <3>2. d \in kept /\ ~(d <= e)
      BY <1>1, <3>1
    <3> QED  BY <1>1, <3>2, ShareIs
  <2>3. ShareEnd(e) = SumOf(Floors, kept \ (todo \ {e}))
    <3> DEFINE S == kept \ (todo \ {e})
    <3>1. S \in SUBSET kept /\ e \in S /\ S \ {e} = kept \ todo
      BY <1>1
    <3> HIDE DEF S
    <3>2. SumOf(Floors, S) = SumOf(Floors, kept \ todo) + Floor(e)
      BY <3>1, FloorsTake
    <3>3. cursor = SumOf(Floors, kept \ todo)
      BY DEF CutInv
    <3> QED  BY <2>1, <3>2, <3>3 DEF S
  <2> DEFINE U == Units(kept)  R == Units(todo \ {e})  w == weight[e]  f == Floor(e)
  <2>4. U \in Nat \ {0} /\ R \in Nat /\ Units(todo) = w + R /\ f \in Nat /\ w \in Nat
        /\ f * U <= size * w
    <3>1. U \in Nat \ {0}
      BY <1>1, UnitsType
    <3>2. R \in Nat /\ Units(todo) = w + R
      BY <1>1, UnitsType
    <3> QED  BY <1>1, <3>1, <3>2, FloorType
  <2>5. cursor * U + size * (w + R) <= size * U
    BY <2>4 DEF CutInv
  <2> HIDE DEF U, R, w, f
  <2>6. (cursor + f) * U = cursor * U + f * U /\ size * (w + R) = size * w + size * R
    BY <1>1, <2>4, Distribute
  <2>7. /\ cursor * U \in Nat /\ f * U \in Nat /\ size * w \in Nat /\ size * R \in Nat
        /\ size * U \in Nat
    BY <1>1, <2>4
  <2>8. (cursor + f) * U + size * R <= size * U
    BY <2>4, <2>5, <2>6, <2>7
  <2>9. cursor + f <= size
    <3>1. (cursor + f) * U <= size * U
      BY <2>6, <2>7, <2>8
    <3>2. cursor + f \in Nat
      BY <1>1, <2>4
    <3> QED  BY <1>1, <2>4, <3>1, <3>2, CancelAtMost
  <2>10. ShareEnd(e) \in cursor..size /\ ShareOf(e) = ShareEnd(e) - cursor
    BY <1>1, <2>1, <2>2, <2>4, <2>9 DEF f
  <2>11. ShareEnd(e) * Units(kept) + size * Units(todo \ {e}) <= size * Units(kept)
    BY <2>1, <2>8 DEF U, R, f
  <2> QED  BY <2>3, <2>10, <2>11
<1> QED  BY <1>2, <1>3

-----------------------------------------------------------------------------
(***************************************************************************)
(* Chains of segments.                                                     *)
(***************************************************************************)

LEMMA ChainConcat ==
    ASSUME NEW s \in Seq(Segments), NEW t \in Seq(Segments), NEW c, NEW end, Chain(s, c),
           \/ Len(t) = 0 /\ end = c
           \/ Len(t) > 0 /\ t[1].first = c /\ Joins(t[Len(t)].last, end),
           \A i \in 2..Len(t) : Joins(t[i - 1].last, t[i].first)
    PROVE  Chain(s \o t, end)
<1> DEFINE r == s \o t  n == Len(s)  m == Len(t)
<1>1. n \in Nat /\ m \in Nat
  BY LenProperties
<1>2. Len(r) = n + m /\ \A i \in 1..(n + m) : r[i] = IF i <= n THEN s[i] ELSE t[i - n]
  BY ConcatProperties
<1>3. /\ n = 0 => c = 0
      /\ n > 0 => s[1].first = 0 /\ Joins(s[n].last, c)
      /\ \A i \in 2..n : Joins(s[i - 1].last, s[i].first)
  BY DEF Chain
<1> HIDE DEF r, n, m
<1>4. CASE m = 0
  <2>1. end = c /\ Len(r) = n /\ \A i \in 1..n : r[i] = s[i]
    BY <1>1, <1>2, <1>4 DEF m
  <2>2. \A i \in 2..n : r[i] = s[i] /\ r[i - 1] = s[i - 1]
    <3>1. ASSUME NEW i \in 2..n PROVE i \in 1..n /\ i - 1 \in 1..n
      BY <1>1
    <3> QED  BY <2>1, <3>1
  <2>3. n > 0 => r[1] = s[1] /\ r[n] = s[n]
    BY <1>1, <2>1
  <2> QED  BY <1>1, <1>3, <2>1, <2>2, <2>3 DEF Chain, r
<1>5. CASE m > 0
  <2>1. t[1].first = c /\ Joins(t[m].last, end)
    BY <1>1, <1>5 DEF m
  <2>2. r[1].first = 0
    <3>1. CASE n = 0
      BY <1>1, <1>2, <1>3, <1>5, <2>1, <3>1
    <3>2. CASE n > 0
      BY <1>1, <1>2, <1>3, <1>5, <3>2
    <3> QED  BY <1>1, <3>1, <3>2
  <2>3. r[n + m] = t[m]
    BY <1>1, <1>2, <1>5
  <2>4. ASSUME NEW i \in 2..(n + m) PROVE Joins(r[i - 1].last, r[i].first)
    <3>1. i \in 1..(n + m) /\ i - 1 \in 1..(n + m)
      BY <1>1
    <3>2. CASE i <= n
      <4>1. r[i] = s[i] /\ r[i - 1] = s[i - 1] /\ i \in 2..n
        BY <1>1, <1>2, <3>1, <3>2
      <4> QED  BY <1>3, <4>1
    <3>3. CASE i = n + 1
      <4>1. r[i] = t[1] /\ r[i - 1] = s[n] /\ n > 0
        BY <1>1, <1>2, <3>1, <3>3
      <4> QED  BY <1>3, <2>1, <4>1
    <3>4. CASE i > n + 1
      <4>1. ~(i <= n) /\ ~(i - 1 <= n) /\ (i - 1) - n = (i - n) - 1 /\ i - n \in 2..m
        BY <1>1, <3>4
      <4>2. r[i] = t[i - n] /\ r[i - 1] = t[(i - 1) - n]
        BY <1>2, <3>1, <4>1
      <4>3. Joins(t[(i - n) - 1].last, t[i - n].first)
        BY <4>1 DEF m
      <4> QED  BY <4>1, <4>2, <4>3
    <3> QED  BY <1>1, <3>2, <3>3, <3>4
  <2>5. n + m > 0
    BY <1>1, <1>5
  <2>6. Chain(r, end)
    BY <1>2, <2>1, <2>2, <2>3, <2>4, <2>5 DEF Chain
  <2> QED  BY <2>6 DEF r
<1> QED  BY <1>1, <1>4, <1>5

LEMMA ChainMerged ==
    ASSUME segs \in Seq(Segments), Ordered(segs), size \in Nat, Len(segs) > 1,
           NEW i \in 1..Len(segs), Chain(segs, size)
    PROVE  Chain(Merged(i), size)
<1> DEFINE r == Merged(i)  n == Len(segs)
<1>1. n \in Nat /\ n > 1 /\ i \in 1..n
  BY LenProperties
<1>2. /\ Len(r) = n - 1
      /\ \A j \in 1..(n - 1) :
           /\ r[j].first = IF j <= i THEN segs[j].first ELSE segs[j + 1].first
           /\ r[j].last = IF j < i /\ (i < n \/ j < i - 1) THEN segs[j].last ELSE segs[j + 1].last
  BY MergedProperties
<1>3. /\ segs[1].first = 0 /\ Joins(segs[n].last, size)
      /\ \A j \in 2..n : Joins(segs[j - 1].last, segs[j].first)
  BY <1>1 DEF Chain
<1> HIDE DEF r, n
<1>4. r[1].first = 0
  <2>1. 1 \in 1..(n - 1) /\ 1 <= i
    BY <1>1
  <2>2. r[1].first = segs[1].first
    BY <1>2, <2>1
  <2> QED  BY <1>3, <2>2
<1>5. r[n - 1].last = segs[n].last
  <2>1. n - 1 \in 1..(n - 1) /\ (n - 1) + 1 = n
    BY <1>1
  <2>2. ~(n - 1 < i /\ (i < n \/ n - 1 < i - 1))
    BY <1>1
  <2> QED  BY <1>2, <2>1, <2>2
<1>6. ASSUME NEW j \in 2..(n - 1) PROVE Joins(r[j - 1].last, r[j].first)
  <2>1. j \in 1..(n - 1) /\ j - 1 \in 1..(n - 1) /\ (j - 1) + 1 = j /\ (j + 1) - 1 = j
        /\ j \in 2..n /\ j + 1 \in 2..n
    BY <1>1
  <2>2. CASE j <= i
    <3>1. j - 1 < i /\ (i < n \/ j - 1 < i - 1)
      BY <1>1, <2>1, <2>2
    <3>2. r[j].first = segs[j].first /\ r[j - 1].last = segs[j - 1].last
      BY <1>2, <2>1, <2>2, <3>1
    <3> QED  BY <1>3, <2>1, <3>2
  <2>3. CASE ~(j <= i)
    <3>1. ~(j - 1 < i)
      BY <1>1, <2>1, <2>3
    <3>2. r[j].first = segs[j + 1].first /\ r[j - 1].last = segs[j].last
      BY <1>2, <2>1, <2>3, <3>1
    <3>3. Joins(segs[(j + 1) - 1].last, segs[j + 1].first)
      BY <1>3, <2>1
    <3> QED  BY <2>1, <3>2, <3>3
  <2> QED  BY <2>2, <2>3
<1>7. n - 1 > 0 /\ n - 1 # 0
  BY <1>1
<1>8. Chain(r, size)
  BY <1>2, <1>3, <1>4, <1>5, <1>6, <1>7 DEF Chain
<1> QED  BY <1>8 DEF r

\* When no segment is below the minimum any more, a chain up to the size is a plan.
LEMMA ChainIsValid ==
    ASSUME InputInv, segs \in Seq(Segments), Ordered(segs), Chain(segs, size),
           Len(segs) <= 1 \/ \A i \in DOMAIN segs : ~Tiny(i)
    PROVE  Valid
<1> DEFINE n == Len(segs)
<1>1. size \in Nat \ {0} /\ minimum \in Nat \ {0}
  BY InputType
<1>2. n \in Nat /\ DOMAIN segs = 1..n
  BY LenProperties
<1>3. \A i \in 1..n : segs[i].first \in Nat /\ segs[i].last \in Nat
  <2>1. \A x \in Segments : x.first \in Nat /\ x.last \in Nat
    BY DEF Segments
  <2> QED  BY <2>1, ElementOfSeq
<1>4. n > 0
  BY <1>1, <1>2 DEF Chain
<1>5. /\ segs[1].first = 0 /\ Joins(segs[n].last, size)
      /\ \A i \in 2..n : Joins(segs[i - 1].last, segs[i].first)
  BY <1>4 DEF Chain
<1>6. size = segs[n].last + 1
  BY <1>1, <1>5 DEF Joins
<1>7. ASSUME NEW i \in 1..n PROVE segs[i].first = IF i = 1 THEN 0 ELSE segs[i - 1].last + 1
  <2>1. CASE i = 1
    BY <1>5, <2>1
  <2>2. CASE i # 1
    <3>1. i \in 2..n /\ i - 1 \in 1..n /\ ~(n <= 1)
      BY <1>2, <2>2
    <3>2. Joins(segs[i - 1].last, segs[i].first)
      BY <1>5, <3>1
    <3>3. ASSUME segs[i - 1].last = 0, minimum > 1 PROVE FALSE
      <4>1. segs[i - 1].first <= segs[i - 1].last
        BY <3>1 DEF Ordered
      <4>2. segs[i - 1].first = 0
        BY <1>3, <3>1, <3>3, <4>1
      <4>3. Tiny(i - 1)
        BY <1>1, <3>3, <4>2 DEF Tiny, Length
      <4> QED  BY <1>2, <3>1, <4>3
    <3> QED  BY <2>2, <3>2, <3>3 DEF Joins
  <2> QED  BY <2>1, <2>2
<1>8. segs # <<>>
  BY <1>4
<1>9. Last(segs) = segs[n]
  BY DEF Last
<1> QED  BY <1>2, <1>6, <1>7, <1>8, <1>9 DEF Valid

-----------------------------------------------------------------------------
(***************************************************************************)
(* Every step keeps the invariant.                                         *)
(***************************************************************************)

LEMMA Frame ==
    ASSUME UNCHANGED <<inputs, kept>>
    PROVE  /\ Segments' = Segments /\ Floors' = Floors /\ given' = given
           /\ Units(kept)' = Units(kept) /\ TooMany' = TooMany
           /\ spe' = spe => Generous' = Generous
           /\ segs' = segs => Valid' = Valid
<1>1. size' = size /\ weight' = weight /\ perExit' = perExit /\ minimum' = minimum /\ kept' = kept
  BY DEF inputs
<1>2. Segments' = Segments /\ given' = given /\ TooMany' = TooMany
  BY <1>1 DEF Segments, given, TooMany
<1>3. Units(kept)' = Units(kept) /\ Floors' = Floors
  BY <1>1 DEF Units, Floors, Floor, SumOf
<1>4. spe' = spe => Generous' = Generous
  BY <1>1 DEF Generous, ShareOf
<1>5. segs' = segs => Valid' = Valid
  BY <1>1 DEF Valid
<1> QED  BY <1>2, <1>3, <1>4, <1>5

LEMMA InitPlan == Init => PlanInv
<1> SUFFICES ASSUME Init PROVE PlanInv
  OBVIOUS
<1>1. PICK S \in (SUBSET Exits) \ {{}} : weight \in [S -> 1..MaxWeight]
  BY DEF Init
<1>2. given = S /\ kept = S
  BY <1>1 DEF given, Init
<1>3. InputInv
  <2> DEFINE W(T) == weight \in [T -> 1..MaxWeight]
  <2>1. S # {} /\ \E T \in SUBSET Exits : W(T)
    <3>1. S # {} /\ S \in SUBSET Exits /\ W(S)
      BY <1>1
    <3> HIDE DEF W
    <3> QED  BY <3>1
  <2>2. kept = given /\ kept # {} /\ todo = {} /\ spe = perExit /\ pc = "drop"
    BY <1>2, <2>1 DEF Init
  <2>3. size \in 1..MaxSize /\ perExit \in 1..MaxPerExit /\ minimum \in 1..MaxMinimum
    BY DEF Init
  <2> QED  BY <2>1, <2>2, <2>3 DEF InputInv
<1>4. DropInv
  BY <1>2 DEF DropInv, Init
<1>5. CutInv
  BY PlanAssumption DEF CutInv, Init
<1>6. SegsInv
  <2>1. segs = <<>> /\ pc = "drop"
    BY DEF Init
  <2>2. <<>> \in Seq(Segments) /\ Len(<<>>) = 0
    BY EmptySeq
  <2> QED  BY <2>1, <2>2 DEF SegsInv, Ordered
<1>7. ChainInv
  BY DEF ChainInv, Init
<1> QED  BY <1>3, <1>4, <1>5, <1>6, <1>7 DEF PlanInv

LEMMA DropStep == ASSUME PlanInv, DropWeakest PROVE PlanInv'
<1>1. PICK e \in kept : Weakest(e) /\ kept' = kept \ {e}
  BY DEF DropWeakest
<1>2. /\ pc = "drop" /\ pc' = pc /\ todo' = todo /\ spe' = spe /\ start' = start
      /\ cursor' = cursor /\ segs' = segs
      /\ size' = size /\ weight' = weight /\ perExit' = perExit /\ minimum' = minimum
      /\ TooMany
  BY DEF DropWeakest, inputs
<1>3. /\ InputInv /\ DropInv /\ segs = <<>> /\ cursor = 0 /\ todo = {} /\ start = 0
  BY <1>2 DEF PlanInv, CutInv
<1>4. /\ IsFiniteSet(kept) /\ Cardinality(kept) \in Nat /\ minimum \in Nat /\ size \in Nat
      /\ kept \subseteq Nat /\ kept \subseteq given
      /\ \A d \in kept : weight[d] \in Nat
  BY <1>3, InputType DEF InputInv
<1>5. Cardinality(kept') = Cardinality(kept) - 1
  BY <1>1, <1>4, FS_RemoveElement
<1>6. kept' # {}
  BY <1>2, <1>4, <1>5, FS_EmptySet DEF TooMany
<1>7. given' = given
  BY <1>2 DEF given
<1>8. InputInv'
  BY <1>1, <1>2, <1>3, <1>6, <1>7 DEF InputInv
<1>9. DropInv'
  <2>1. ASSUME NEW k \in kept', NEW d \in given \ kept' PROVE weight[d] <= weight[k]
    <3>1. CASE d = e
      <4>1. weight[e] < weight[k] \/ weight[e] = weight[k]
        BY <1>1 DEF Weakest
      <4> QED  BY <1>1, <1>4, <3>1, <4>1
    <3>2. CASE d # e
      BY <1>1, <1>3, <3>2 DEF DropInv
    <3> QED  BY <3>1, <3>2
  <2>2. size < (Cardinality(kept') + 1) * minimum
    <3>1. Cardinality(kept') + 1 = Cardinality(kept)
      BY <1>4, <1>5
    <3> QED  BY <1>2, <3>1 DEF TooMany
  <2> QED  BY <1>2, <1>7, <2>1, <2>2 DEF DropInv
<1>10. CutInv'
  BY <1>2, <1>3, <1>4 DEF CutInv
<1>11. SegsInv'
  <2>1. <<>> \in Seq(Segments') /\ Len(<<>>) = 0
    BY EmptySeq
  <2> QED  BY <1>2, <1>3, <2>1 DEF SegsInv, Ordered
<1>12. ChainInv'
  BY <1>2 DEF ChainInv
<1> QED  BY <1>8, <1>9, <1>10, <1>11, <1>12 DEF PlanInv

LEMMA ChooseStep == ASSUME PlanInv, ChooseSplit PROVE PlanInv'
<1>1. /\ pc = "drop" /\ ~TooMany /\ UNCHANGED <<inputs, kept>> /\ spe' \in {1, perExit}
      /\ start' = start /\ cursor' = cursor
      /\ size' = size /\ weight' = weight /\ perExit' = perExit /\ minimum' = minimum
      /\ kept' = kept
  BY DEF ChooseSplit, inputs
<1>2. /\ InputInv /\ DropInv /\ segs = <<>> /\ cursor = 0 /\ todo = {} /\ start = 0
  BY <1>1 DEF PlanInv, CutInv
<1>3. /\ size \in Nat \ {0} /\ minimum \in Nat /\ kept \subseteq Nat /\ kept # {}
  BY <1>2, InputType DEF InputInv
<1>4. /\ Segments' = Segments /\ Floors' = Floors /\ given' = given /\ Units(kept)' = Units(kept)
      /\ TooMany' = TooMany
  BY <1>1, Frame
<1>5. ASSUME todo' \subseteq kept, pc' \in {"split", "merge"} PROVE InputInv' /\ DropInv'
  <2>1. InputInv'
    BY <1>1, <1>2, <1>4, <1>5 DEF InputInv
  <2>2. DropInv'
    BY <1>1, <1>2, <1>4, <1>5 DEF DropInv
  <2> QED  BY <2>1, <2>2
<1>6. CASE pc' = "merge" /\ segs' = <<Segment(0, size - 1, Lowest(kept))>> /\ todo' = todo
  <2> DEFINE g == Segment(0, size - 1, Lowest(kept))
  <2>1. g \in Segments /\ g.first = 0 /\ g.last = size - 1
    <3>1. Lowest(kept) \in kept
      BY <1>3, LowestIn
    <3> QED  BY <1>3, <3>1 DEF Segments, Segment
  <2> HIDE DEF g
  <2>2. segs' = <<g>>
    BY <1>6 DEF g
  <2>3. segs' \in Seq(Segments) /\ Len(segs') = 1 /\ segs'[1] = g
    BY <2>1, <2>2
  <2>4. Ordered(segs')
    BY <1>3, <2>1, <2>3 DEF Ordered
  <2>5. SegsInv'
    BY <1>4, <1>6, <2>3, <2>4 DEF SegsInv
  <2>6. CutInv'
    BY <1>1, <1>2, <1>3, <1>6 DEF CutInv
  <2>7. Chain(segs', size)
    BY <1>3, <2>1, <2>3 DEF Chain, Joins
  <2>8. ChainInv'
    BY <1>1, <1>6, <2>7 DEF ChainInv, Chain, Joins
  <2> QED  BY <1>2, <1>5, <1>6, <2>5, <2>6, <2>8 DEF PlanInv
<1>7. CASE pc' = "split" /\ todo' = kept /\ segs' = segs
  <2>1. <<>> \in Seq(Segments) /\ Len(<<>>) = 0
    BY EmptySeq
  <2>2. SegsInv'
    BY <1>2, <1>4, <1>7, <2>1 DEF SegsInv, Ordered
  <2>3. CutInv'
    <3>1. Units(kept) \in Nat
      BY <1>2, UnitsType
    <3>2. Units(todo)' = Units(kept)
      BY <1>1, <1>7 DEF Units, SumOf
    <3>3. 0 * Units(kept) + size * Units(kept) <= size * Units(kept)
      <4>1. 0 * Units(kept) = 0 /\ size * Units(kept) \in Nat
        BY <1>3, <3>1
      <4> QED  BY <4>1
    <3>4. (kept \ todo)' = {} /\ SumOf(Floors, {}) = 0
      BY <1>1, <1>7, SumEmpty
    <3>5. SumOf(Floors, kept \ todo)' = SumOf(Floors, {})
      BY <1>4, <3>4 DEF SumOf
    <3> QED  BY <1>1, <1>2, <1>3, <1>4, <1>7, <3>2, <3>3, <3>4, <3>5 DEF CutInv
  <2>4. Chain(segs', start')
    BY <1>1, <1>2, <1>7, <2>1 DEF Chain
  <2>5. ChainInv'
    BY <1>1, <1>7, <2>4 DEF ChainInv, Chain, Joins
  <2> QED  BY <1>5, <1>7, <2>2, <2>3, <2>5 DEF PlanInv
<1>8. \/ pc' = "merge" /\ segs' = <<Segment(0, size - 1, Lowest(kept))>> /\ todo' = todo
      \/ pc' = "split" /\ todo' = kept /\ segs' = segs
  BY DEF ChooseSplit
<1> QED  BY <1>6, <1>7, <1>8

LEMMA SplitStep == ASSUME PlanInv, SplitExit PROVE PlanInv'
<1>1. PICK e \in todo :
        /\ e = Lowest(todo)
        /\ IF LastByte(ShareEnd(e)) >= start
           THEN /\ segs' = segs \o EvenSubsplit(start, LastByte(ShareEnd(e)), spe, e)
                /\ start' = ShareEnd(e)
           ELSE UNCHANGED <<segs, start>>
        /\ cursor' = ShareEnd(e)
        /\ todo' = todo \ {e}
        /\ pc' = IF todo = {e} THEN "merge" ELSE "split"
  BY DEF SplitExit
<1>2. /\ pc = "split" /\ UNCHANGED <<inputs, kept>> /\ kept' = kept /\ spe' = spe
      /\ size' = size /\ weight' = weight /\ perExit' = perExit /\ minimum' = minimum
  BY DEF SplitExit, inputs
<1>3. InputInv /\ DropInv /\ CutInv /\ SegsInv /\ ChainInv
  BY DEF PlanInv
<1>4. /\ size \in Nat \ {0} /\ minimum \in Nat \ {0} /\ spe \in Nat \ {0} /\ kept \subseteq Nat
      /\ e \in kept /\ todo \subseteq kept /\ start = cursor /\ start \in Nat /\ start <= size
  BY <1>3, InputType DEF InputInv, CutInv
<1>5. \A d \in todo : e <= d
  <2>1. todo \in SUBSET Nat /\ todo # {}
    BY <1>4
  <2> QED  BY <1>1, <2>1, LowestIn
<1> DEFINE end == ShareEnd(e)
<1>6. /\ end \in start..size /\ ShareOf(e) = end - start
      /\ todo # {e} =>
           /\ end * Units(kept) + size * Units(todo \ {e}) <= size * Units(kept)
           /\ end = SumOf(Floors, kept \ (todo \ {e}))
  BY <1>2, <1>3, <1>4, <1>5, ShareEndIs
<1>7. /\ segs' = IF LastByte(end) >= start
                 THEN segs \o EvenSubsplit(start, LastByte(end), spe, e) ELSE segs
      /\ LastByte(end) >= start => start' = end
      /\ ~(LastByte(end) >= start) => start' = start
      /\ cursor' = end
  BY <1>1
<1> HIDE DEF end
<1>8. /\ Segments' = Segments /\ Floors' = Floors /\ given' = given /\ Units(kept)' = Units(kept)
      /\ TooMany' = TooMany /\ Generous' = Generous
  BY <1>2, Frame
<1>9. end \in Nat /\ start <= end /\ end <= size
  BY <1>4, <1>6
<1>10. /\ LastByte(end) \in Nat /\ LastByte(end) <= end /\ LastByte(end) < size
       /\ LastByte(end) >= start => LastByte(end) \in start..(size - 1) /\ start \in 0..(size - 1)
       /\ ~(LastByte(end) >= start) => end = start
  BY <1>4, <1>9 DEF LastByte
<1>11. start' = end
  BY <1>7, <1>10
<1>12. InputInv'
  <2>1. todo' \subseteq kept /\ pc' \in {"split", "merge"}
    BY <1>1, <1>4
  <2> QED  BY <1>2, <1>3, <1>8, <2>1 DEF InputInv
<1>13. DropInv'
  BY <1>2, <1>3, <1>8 DEF DropInv
<1>14. CutInv'
  <2>1. start' = cursor' /\ cursor' \in 0..size /\ pc' # "drop"
    BY <1>1, <1>4, <1>7, <1>9, <1>11
  <2>2. ASSUME pc' = "split"
        PROVE  /\ todo' # {} /\ \A d \in todo', c \in kept \ todo' : c < d
               /\ cursor' * Units(kept) + size * Units(todo)' <= size * Units(kept)
               /\ cursor' = SumOf(Floors, kept \ todo)'
    <3>1. todo # {e} /\ todo' = todo \ {e}
      BY <1>1, <2>2
    <3>2. todo' # {}
      BY <3>1
    <3>3. ASSUME NEW d \in todo', NEW c \in kept \ todo' PROVE c < d
      <4>1. CASE c = e
        BY <1>4, <1>5, <3>1, <4>1
      <4>2. CASE c # e
        BY <1>2, <1>3, <3>1, <4>2 DEF CutInv
      <4> QED  BY <4>1, <4>2
    <3>4. Units(todo)' = Units(todo \ {e})
      BY <1>2, <3>1 DEF Units, SumOf
    <3>5. SumOf(Floors, kept \ todo)' = SumOf(Floors, kept \ (todo \ {e}))
      BY <1>2, <1>8, <3>1 DEF SumOf
    <3> QED  BY <1>6, <1>7, <3>1, <3>2, <3>3, <3>4, <3>5
  <2> QED  BY <1>2, <1>8, <2>1, <2>2 DEF CutInv
<1> DEFINE t == EvenSubsplit(start, LastByte(end), spe, e)
<1>15. ASSUME LastByte(end) >= start
       PROVE  /\ t \in Seq(Segments) /\ Ordered(t)
              /\ \A i \in 1..Len(t) : start <= t[i].first /\ t[i].last <= LastByte(end)
              /\ LastByte(end) - start + 1 >= spe =>
                   /\ Len(t) = spe /\ t[1].first = start /\ t[spe].last = LastByte(end)
                   /\ \A i \in 2..spe : t[i].first = t[i - 1].last + 1
              /\ LastByte(end) - start + 1 < spe => t = <<>>
  <2> DEFINE l == LastByte(end)
  <2>1. /\ start \in 0..(size - 1) /\ l \in start..(size - 1) /\ size \in Nat
        /\ spe \in Nat \ {0} /\ e \in kept
    BY <1>4, <1>10, <1>15
  <2> HIDE DEF l
  <2>2. LET s == EvenSubsplit(start, l, spe, e)
        IN  /\ s \in Seq(Segments) /\ Ordered(s)
            /\ \A i \in 1..Len(s) : start <= s[i].first /\ s[i].last <= l
            /\ l - start + 1 >= spe =>
                 /\ Len(s) = spe /\ s[1].first = start /\ s[spe].last = l
                 /\ \A i \in 2..spe : s[i].first = s[i - 1].last + 1
            /\ l - start + 1 < spe => s = <<>>
    <3> HIDE DEF t
    <3> QED  BY <2>1, EvenSubsplitProperties
  <2> QED  BY <2>2 DEF l
<1>16. SegsInv'
  <2>1. /\ segs \in Seq(Segments) /\ Ordered(segs)
        /\ \A i \in 1..Len(segs) : segs[i].first <= start /\ segs[i].last <= start
    BY <1>2, <1>3 DEF SegsInv
  <2>2. Len(segs) \in Nat /\ \A i \in 1..Len(segs) : segs[i].first \in Nat /\ segs[i].last \in Nat
    <3>1. \A x \in Segments : x.first \in Nat /\ x.last \in Nat
      BY DEF Segments
    <3> QED  BY <2>1, <3>1, ElementOfSeq, LenProperties
  <2>3. /\ segs' \in Seq(Segments) /\ Ordered(segs')
        /\ \A i \in 1..Len(segs') : segs'[i].first <= end /\ segs'[i].last <= end
    <3>1. CASE ~(LastByte(end) >= start)
      <4>1. segs' = segs /\ end = start
        BY <1>7, <1>10, <3>1
      <4> QED  BY <2>1, <4>1
    <3>2. CASE LastByte(end) >= start
      <4>1. segs' = segs \o t
        BY <1>7, <3>2
      <4>2. /\ t \in Seq(Segments) /\ Ordered(t)
            /\ \A i \in 1..Len(t) : start <= t[i].first /\ t[i].last <= LastByte(end)
        BY <1>15, <3>2
      <4> HIDE DEF t
      <4>3. /\ segs' \in Seq(Segments) /\ Ordered(segs') /\ Len(segs') = Len(segs) + Len(t)
            /\ \A i \in 1..(Len(segs) + Len(t)) :
                 segs'[i] = IF i <= Len(segs) THEN segs[i] ELSE t[i - Len(segs)]
        BY <1>4, <2>1, <4>1, <4>2, OrderedConcat
      <4>4. Len(t) \in Nat /\ \A i \in 1..Len(t) : t[i].first \in Nat /\ t[i].last \in Nat
        <5>1. \A x \in Segments : x.first \in Nat /\ x.last \in Nat
          BY DEF Segments
        <5> QED  BY <4>2, <5>1, ElementOfSeq, LenProperties
      <4>5. ASSUME NEW i \in 1..Len(segs') PROVE segs'[i].first <= end /\ segs'[i].last <= end
        <5>1. CASE i <= Len(segs)
          <6>1. i \in 1..Len(segs) /\ segs'[i] = segs[i]
            BY <2>2, <4>3, <4>4, <5>1
          <6>2. /\ segs[i].first <= start /\ segs[i].last <= start
                /\ segs[i].first \in Nat /\ segs[i].last \in Nat
            BY <2>1, <2>2, <6>1
          <6> QED  BY <1>4, <1>9, <6>1, <6>2
        <5>2. CASE ~(i <= Len(segs))
          <6> DEFINE k == i - Len(segs)
          <6>1. k \in 1..Len(t) /\ segs'[i] = t[k]
            BY <2>2, <4>3, <4>4, <5>2
          <6> HIDE DEF k
          <6>2. /\ t[k].first <= t[k].last /\ t[k].last <= LastByte(end)
                /\ t[k].first \in Nat /\ t[k].last \in Nat
            BY <4>2, <4>4, <6>1 DEF Ordered
          <6> QED  BY <1>9, <1>10, <6>1, <6>2
        <5> QED  BY <5>1, <5>2
      <4> QED  BY <4>3, <4>5
    <3> QED  BY <3>1, <3>2
  <2> QED  BY <1>1, <1>8, <1>11, <2>3 DEF SegsInv
<1>17. ChainInv'
  <2> SUFFICES ASSUME Generous
               PROVE  Chain(segs', end) /\ (end > 0 \/ minimum > 1)
    <3>1. todo = {e} => end = size
      BY DEF end, ShareEnd
    <3> QED  BY <1>1, <1>2, <1>8, <1>11, <3>1 DEF ChainInv, Chain, Joins
  <2>1. /\ Chain(segs, start) /\ (start > 0 \/ minimum > 1 \/ todo = kept)
        /\ segs \in Seq(Segments)
    BY <1>2, <1>3 DEF ChainInv, SegsInv
  <2>2. end > 0 \/ minimum > 1
    <3> SUFFICES ASSUME end = 0, ~(minimum > 1) PROVE FALSE
      BY <1>9
    <3>1. start = 0 /\ todo = kept
      BY <1>4, <1>9, <2>1
    <3>2. ShareOf(Lowest(kept)) = 0
      BY <1>1, <1>6, <3>1
    <3> QED  BY <3>2 DEF Generous
  <2>3. end - start \notin 1..(spe - 1)
    BY <1>4, <1>6 DEF Generous
  <2>4. CASE end = start
    <3>1. CASE ~(LastByte(end) >= start)
      BY <1>7, <2>1, <2>2, <2>4, <3>1
    <3>2. CASE LastByte(end) >= start
      <4>1. start = 0 /\ end = 0 /\ LastByte(end) = 0 /\ minimum > 1
        BY <1>4, <2>2, <2>4, <3>2 DEF LastByte
      <4>2. LastByte(end) - start + 1 = 1 /\ segs' = segs \o t
        BY <1>7, <3>2, <4>1
      <4>3. /\ t \in Seq(Segments)
            /\ 1 >= spe => Len(t) = spe /\ t[1].first = start /\ t[spe].last = LastByte(end)
            /\ 1 < spe => t = <<>>
        BY <1>15, <3>2, <4>2
      <4> HIDE DEF t
      <4>4. CASE spe = 1
        <5>1. Len(t) = 1 /\ t[1].first = start /\ t[Len(t)].last = 0
          <6>1. Len(t) = spe /\ t[1].first = start /\ t[spe].last = 0
            BY <1>4, <4>1, <4>3, <4>4
          <6> QED  BY <4>4, <6>1
        <5>2. /\ Len(t) > 0 /\ Joins(t[Len(t)].last, end)
              /\ \A i \in 2..Len(t) : Joins(t[i - 1].last, t[i].first)
          BY <4>1, <5>1 DEF Joins
        <5>3. \/ Len(t) = 0 /\ end = start
              \/ Len(t) > 0 /\ t[1].first = start /\ Joins(t[Len(t)].last, end)
          BY <5>1, <5>2
        <5>4. Chain(segs \o t, end)
          BY <2>1, <4>3, <5>2, <5>3, ChainConcat
        <5> QED  BY <2>2, <4>2, <5>4
      <4>5. CASE spe # 1
        <5>1. Len(t) = 0 /\ \A i \in 2..Len(t) : Joins(t[i - 1].last, t[i].first)
          BY <1>4, <4>3, <4>5
        <5>2. Chain(segs \o t, end)
          BY <2>1, <2>4, <4>3, <5>1, ChainConcat
        <5> QED  BY <2>2, <4>2, <5>2
      <4> QED  BY <4>4, <4>5
    <3> QED  BY <3>1, <3>2
  <2>5. CASE end # start
    <3>1. end - start >= spe /\ end > start
      BY <1>4, <1>9, <2>3, <2>5
    <3>2. LastByte(end) = end - 1 /\ LastByte(end) >= start /\ LastByte(end) - start + 1 = end - start
      BY <1>4, <1>9, <3>1 DEF LastByte
    <3>3. segs' = segs \o t
      BY <1>7, <3>2
    <3>4. /\ t \in Seq(Segments) /\ Len(t) = spe /\ t[1].first = start
          /\ t[spe].last = LastByte(end)
          /\ \A i \in 2..spe : t[i].first = t[i - 1].last + 1
      BY <1>15, <3>1, <3>2
    <3> HIDE DEF t
    <3>5. Len(t) > 0 /\ Joins(t[Len(t)].last, end)
      BY <1>4, <1>9, <3>2, <3>4 DEF Joins
    <3>6. \A i \in 2..Len(t) : Joins(t[i - 1].last, t[i].first)
      BY <3>4 DEF Joins
    <3>7. Chain(segs \o t, end)
      BY <2>1, <3>4, <3>5, <3>6, ChainConcat
    <3> QED  BY <2>2, <3>3, <3>7
  <2> QED  BY <2>4, <2>5
<1> QED  BY <1>12, <1>13, <1>14, <1>16, <1>17 DEF PlanInv

LEMMA MergeStep == ASSUME PlanInv, MergeTiny PROVE PlanInv'
<1>1. PICK i \in DOMAIN segs : segs' = Merged(i)
  BY DEF MergeTiny, Merged
<1>2. /\ pc = "merge" /\ pc' = pc /\ Len(segs) > 1 /\ UNCHANGED <<inputs, kept>> /\ kept' = kept
      /\ spe' = spe /\ todo' = todo /\ start' = start /\ cursor' = cursor
      /\ size' = size /\ weight' = weight /\ perExit' = perExit /\ minimum' = minimum
  BY DEF MergeTiny, inputs
<1>3. InputInv /\ DropInv /\ CutInv /\ SegsInv /\ ChainInv
  BY DEF PlanInv
<1>4. /\ Segments' = Segments /\ Floors' = Floors /\ given' = given /\ Units(kept)' = Units(kept)
      /\ TooMany' = TooMany /\ Generous' = Generous
  BY <1>2, Frame
<1>5. size \in Nat /\ segs \in Seq(Segments) /\ Ordered(segs) /\ i \in 1..Len(segs)
  <2>1. segs \in Seq(Segments) /\ Ordered(segs)
    BY <1>3 DEF SegsInv
  <2>2. DOMAIN segs = 1..Len(segs)
    BY <2>1, LenProperties
  <2> QED  BY <1>3, <2>1, <2>2, InputType
<1>6. InputInv'
  BY <1>2, <1>3, <1>4 DEF InputInv
<1>7. DropInv'
  BY <1>2, <1>3, <1>4 DEF DropInv
<1>8. CutInv'
  BY <1>2, <1>3 DEF CutInv
<1>9. SegsInv'
  <2>1. segs' \in Seq(Segments) /\ Ordered(segs')
    BY <1>1, <1>2, <1>5, MergedProperties
  <2> QED  BY <1>2, <1>4, <2>1 DEF SegsInv
<1>10. ChainInv'
  <2>1. ASSUME Generous PROVE Chain(segs', size)
    <3>1. Chain(segs, size)
      BY <1>2, <1>3, <2>1 DEF ChainInv
    <3> QED  BY <1>1, <1>2, <1>5, <3>1, ChainMerged
  <2> QED  BY <1>2, <1>4, <2>1 DEF ChainInv, Chain, Joins
<1> QED  BY <1>6, <1>7, <1>8, <1>9, <1>10 DEF PlanInv

LEMMA MergeDoneStep == ASSUME PlanInv, MergeDone PROVE PlanInv'
<1>1. /\ pc = "merge" /\ pc' = "validate" /\ UNCHANGED <<inputs, kept>> /\ kept' = kept
      /\ spe' = spe /\ todo' = todo /\ start' = start /\ cursor' = cursor /\ segs' = segs
      /\ size' = size /\ weight' = weight /\ perExit' = perExit /\ minimum' = minimum
  BY DEF MergeDone, inputs
<1>2. InputInv /\ DropInv /\ CutInv /\ SegsInv /\ ChainInv
  BY DEF PlanInv
<1>3. /\ Segments' = Segments /\ Floors' = Floors /\ given' = given /\ Units(kept)' = Units(kept)
      /\ TooMany' = TooMany /\ Generous' = Generous /\ Valid' = Valid
  BY <1>1, Frame
<1>4. InputInv'
  BY <1>1, <1>2, <1>3 DEF InputInv
<1>5. DropInv'
  BY <1>1, <1>2, <1>3 DEF DropInv
<1>6. CutInv'
  BY <1>1, <1>2 DEF CutInv
<1>7. segs \in Seq(Segments) /\ Ordered(segs)
  BY <1>2 DEF SegsInv
<1>8. SegsInv'
  BY <1>1, <1>3, <1>7 DEF SegsInv
<1>9. ChainInv'
  <2>1. ASSUME Generous PROVE Valid
    <3>1. Chain(segs, size)
      BY <1>1, <1>2, <2>1 DEF ChainInv
    <3>2. Len(segs) <= 1 \/ \A i \in DOMAIN segs : ~Tiny(i)
      BY DEF MergeDone
    <3> QED  BY <1>2, <1>7, <3>1, <3>2, ChainIsValid
  <2> QED  BY <1>1, <1>3, <2>1 DEF ChainInv
<1> QED  BY <1>4, <1>5, <1>6, <1>8, <1>9 DEF PlanInv

LEMMA ValidateStep == ASSUME PlanInv, Validate PROVE PlanInv'
<1>1. /\ pc = "validate" /\ pc' = (IF Valid THEN "ok" ELSE "invalid")
      /\ UNCHANGED <<inputs, kept>> /\ kept' = kept
      /\ spe' = spe /\ todo' = todo /\ start' = start /\ cursor' = cursor /\ segs' = segs
      /\ size' = size /\ weight' = weight /\ perExit' = perExit /\ minimum' = minimum
  BY DEF Validate, inputs
<1>2. InputInv /\ DropInv /\ CutInv /\ SegsInv /\ ChainInv
  BY DEF PlanInv
<1>3. /\ Segments' = Segments /\ Floors' = Floors /\ given' = given /\ Units(kept)' = Units(kept)
      /\ TooMany' = TooMany /\ Generous' = Generous /\ Valid' = Valid
  BY <1>1, Frame
<1>4. InputInv'
  BY <1>1, <1>2, <1>3 DEF InputInv
<1>5. DropInv'
  BY <1>1, <1>2, <1>3 DEF DropInv
<1>6. CutInv'
  BY <1>1, <1>2 DEF CutInv
<1>7. SegsInv'
  BY <1>1, <1>2, <1>3 DEF SegsInv
<1>8. ChainInv'
  BY <1>1, <1>2, <1>3 DEF ChainInv
<1> QED  BY <1>4, <1>5, <1>6, <1>7, <1>8 DEF PlanInv

LEMMA StutterStep == ASSUME PlanInv, UNCHANGED vars PROVE PlanInv'
<1>1. /\ pc' = pc /\ UNCHANGED <<inputs, kept>> /\ kept' = kept
      /\ spe' = spe /\ todo' = todo /\ start' = start /\ cursor' = cursor /\ segs' = segs
      /\ size' = size /\ weight' = weight /\ perExit' = perExit /\ minimum' = minimum
  BY DEF vars, inputs
<1>2. InputInv /\ DropInv /\ CutInv /\ SegsInv /\ ChainInv
  BY DEF PlanInv
<1>3. /\ Segments' = Segments /\ Floors' = Floors /\ given' = given /\ Units(kept)' = Units(kept)
      /\ TooMany' = TooMany /\ Generous' = Generous /\ Valid' = Valid
  BY <1>1, Frame
<1>4. InputInv'
  BY <1>1, <1>2, <1>3 DEF InputInv
<1>5. DropInv'
  BY <1>1, <1>2, <1>3 DEF DropInv
<1>6. CutInv'
  <2>1. Units(todo)' = Units(todo) /\ SumOf(Floors, kept \ todo)' = SumOf(Floors, kept \ todo)
    BY <1>1, <1>3 DEF Units, SumOf
  <2> QED  BY <1>1, <1>2, <1>3, <2>1 DEF CutInv
<1>7. SegsInv'
  BY <1>1, <1>2, <1>3 DEF SegsInv
<1>8. ChainInv'
  BY <1>1, <1>2, <1>3 DEF ChainInv, Chain, Joins
<1> QED  BY <1>4, <1>5, <1>6, <1>7, <1>8 DEF PlanInv

-----------------------------------------------------------------------------
(***************************************************************************)
(* The results.                                                            *)
(***************************************************************************)

\* Every reachable state of the planner satisfies the inductive invariant.
THEOREM InductiveInvariant == Spec => []PlanInv
<1>1. PlanInv /\ [Next]_vars => PlanInv'
  <2> SUFFICES ASSUME PlanInv, [Next]_vars PROVE PlanInv'
    OBVIOUS
  <2>1. CASE DropWeakest  BY <2>1, DropStep
  <2>2. CASE ChooseSplit  BY <2>2, ChooseStep
  <2>3. CASE SplitExit  BY <2>3, SplitStep
  <2>4. CASE MergeTiny  BY <2>4, MergeStep
  <2>5. CASE MergeDone  BY <2>5, MergeDoneStep
  <2>6. CASE Validate  BY <2>6, ValidateStep
  <2>7. CASE Finished  BY <2>7, StutterStep DEF Finished
  <2>8. CASE UNCHANGED vars  BY <2>8, StutterStep
  <2> QED
    BY <2>1, <2>2, <2>3, <2>4, <2>5, <2>6, <2>7, <2>8 DEF Next
<1> QED  BY <1>1, InitPlan, PTL DEF Spec

\* What the planner computes stays within its bounds: no cut and no segment leaves
\* the file, and every segment has a kept exit (FetchPlan::build, plan.rs).
THEOREM TypeCorrect == Spec => []TypeOK
<1>1. PlanInv => TypeOK
  <2> SUFFICES ASSUME PlanInv PROVE TypeOK
    OBVIOUS
  <2>1. InputInv /\ start \in 0..size /\ cursor \in 0..size /\ segs \in Seq(Segments) /\ Ordered(segs)
    BY DEF PlanInv, CutInv, SegsInv
  <2>2. ASSUME NEW i \in DOMAIN segs
        PROVE  /\ segs[i].first \in 0..(size - 1) /\ segs[i].last \in segs[i].first..(size - 1)
               /\ segs[i].exit \in kept
    <3>1. i \in 1..Len(segs) /\ segs[i] \in Segments
      BY <2>1, LenProperties, ElementOfSeq
    <3>2. /\ segs[i].first \in 0..(size - 1) /\ segs[i].last \in 0..(size - 1)
          /\ segs[i].exit \in kept
      BY <3>1 DEF Segments
    <3>3. segs[i].first <= segs[i].last
      BY <2>1, <3>1 DEF Ordered
    <3> QED  BY <3>2, <3>3
  <2> QED  BY <2>1, <2>2 DEF TypeOK, InputInv
<1> QED  BY <1>1, InductiveInvariant, PTL

\* A plan that is handed out has every byte of the file in exactly one segment,
\* whatever the cut and the merging did on the way (FetchPlan::validate, plan.rs).
THEOREM Coverage == Spec => []EveryByteOnce
<1>1. PlanInv => EveryByteOnce
  <2> SUFFICES ASSUME PlanInv, pc = "ok", NEW b \in 0..(size - 1)
               PROVE  Cardinality({i \in DOMAIN segs : segs[i].first <= b /\ b <= segs[i].last}) = 1
    BY DEF EveryByteOnce
  <2> DEFINE n == Len(segs)  holders == {i \in DOMAIN segs : segs[i].first <= b /\ b <= segs[i].last}
             M == {i \in 1..n : b <= segs[i].last}  m == Lowest(M)
  <2>1. InputInv /\ segs \in Seq(Segments) /\ Ordered(segs) /\ Valid
    BY DEF PlanInv, SegsInv
  <2>2. n \in Nat /\ DOMAIN segs = 1..n
    BY <2>1, LenProperties
  <2>3. \A i \in 1..n : segs[i].first \in Nat /\ segs[i].last \in Nat
    <3>1. \A x \in Segments : x.first \in Nat /\ x.last \in Nat
      BY DEF Segments
    <3> QED  BY <2>1, <3>1, ElementOfSeq
  <2>4. size \in Nat \ {0} /\ b \in Nat /\ b < size
    BY <2>1, InputType
  <2>5. n > 0 /\ segs[n].last + 1 = size
    <3>1. segs # <<>> /\ Last(segs).last + 1 = size
      BY <2>1, <2>4 DEF Valid
    <3>2. n # 0
      BY <2>1, <3>1, EmptySeq
    <3> QED  BY <2>2, <3>1, <3>2 DEF Last
  <2>6. \A i \in 1..n : segs[i].first = IF i = 1 THEN 0 ELSE segs[i - 1].last + 1
    BY <2>1, <2>2 DEF Valid
  <2>7. \A i, j \in 1..n : i < j => segs[i].last <= segs[j].last
    BY <2>1 DEF Ordered
  <2> HIDE DEF n
  <2>8. m \in M /\ \A i \in M : m <= i
    <3>1. n \in M
      BY <2>2, <2>3, <2>4, <2>5
    <3>2. M \in SUBSET Nat /\ M # {}
      BY <2>2, <3>1
    <3> HIDE DEF M
    <3> QED  BY <3>2, LowestIn
  <2> HIDE DEF m
  <2>9. m \in 1..n /\ b <= segs[m].last
    BY <2>8
  <2>10. segs[m].first <= b
    <3>1. CASE m = 1
      BY <2>4, <2>6, <2>9, <3>1
    <3>2. CASE m # 1
      <4>1. m - 1 \in 1..n /\ ~(m <= m - 1)
        BY <2>2, <2>9, <3>2
      <4>2. ~(b <= segs[m - 1].last)
        BY <2>8, <4>1
      <4>3. segs[m].first = segs[m - 1].last + 1 /\ segs[m - 1].last \in Nat
        BY <2>3, <2>6, <2>9, <3>2, <4>1
      <4> QED  BY <2>4, <4>2, <4>3
    <3> QED  BY <3>1, <3>2
  <2>11. ASSUME NEW i \in 1..n, segs[i].first <= b, b <= segs[i].last PROVE i = m
    <3> SUFFICES ASSUME i # m PROVE FALSE
      OBVIOUS
    <3>1. m < i /\ i - 1 \in 1..n /\ i # 1 /\ (m = i - 1 \/ m < i - 1)
      BY <2>2, <2>8, <2>9, <2>11
    <3>2. segs[m].last <= segs[i - 1].last
      BY <2>3, <2>7, <2>9, <3>1
    <3>3. segs[i].first = segs[i - 1].last + 1
      BY <2>6, <3>1
    <3>4. segs[m].last \in Nat /\ segs[i - 1].last \in Nat
      BY <2>3, <2>9, <3>1
    <3> QED  BY <2>4, <2>9, <2>11, <3>2, <3>3, <3>4
  <2>12. holders = {m}
    BY <2>2, <2>9, <2>10, <2>11
  <2> HIDE DEF holders
  <2>13. Cardinality(holders) = 1
    BY <2>12, FS_Singleton
  <2> QED  BY <2>13 DEF holders
<1> QED  BY <1>1, InductiveInvariant, PTL

\* The exits that were dropped are the weakest, and no more were dropped than had to
\* (the loop at plan.rs:53).
THEOREM Dropping == Spec => []KeepsTheStrongest
<1>1. PlanInv => KeepsTheStrongest
  BY DEF PlanInv, DropInv, KeepsTheStrongest
<1> QED  BY <1>1, InductiveInvariant, PTL

\* A plan is rejected only when a share is too small for its parts or when the first
\* exit gets nothing: cutting by floors, with the rest to the last exit, splitting
\* the shares and merging the small segments leave no gap and no overlap otherwise.
THEOREM Planning == Spec => []LargeSharesAlwaysPlan
<1>1. PlanInv => LargeSharesAlwaysPlan
  BY DEF PlanInv, ChainInv, Generous, LargeSharesAlwaysPlan
<1> QED  BY <1>1, InductiveInvariant, PTL

\* The safety half of PlannerEnds: every step takes the planner to a later loop or makes
\* what the loop works on smaller, the exits, the shares to cut or the segments.
Later(p, q) ==
    \/ p = "drop" /\ q \in {"split", "merge"}
    \/ p = "split" /\ q = "merge"
    \/ p = "merge" /\ q = "validate"
    \/ p = "validate" /\ q \in {"ok", "invalid"}

THEOREM EveryStepShrinks ==
    Spec => [][\/ Later(pc, pc')
               \/ /\ pc' = pc
                  /\ \/ pc = "drop" /\ Cardinality(kept') < Cardinality(kept)
                     \/ pc = "split" /\ Cardinality(todo') < Cardinality(todo)
                     \/ pc = "merge" /\ Len(segs') < Len(segs)]_vars
<1> DEFINE Shrinks == \/ Later(pc, pc')
                      \/ /\ pc' = pc
                         /\ \/ pc = "drop" /\ Cardinality(kept') < Cardinality(kept)
                            \/ pc = "split" /\ Cardinality(todo') < Cardinality(todo)
                            \/ pc = "merge" /\ Len(segs') < Len(segs)
<1>1. PlanInv /\ [Next]_vars => [Shrinks]_vars
  <2> SUFFICES ASSUME PlanInv, Next, ~UNCHANGED vars PROVE Shrinks
    OBVIOUS
  <2>1. /\ InputInv /\ IsFiniteSet(kept) /\ Cardinality(kept) \in Nat /\ IsFiniteSet(todo)
        /\ Cardinality(todo) \in Nat /\ segs \in Seq(Segments) /\ Ordered(segs) /\ size \in Nat
    <3>1. InputInv /\ segs \in Seq(Segments) /\ Ordered(segs)
      BY DEF PlanInv, SegsInv
    <3>2. IsFiniteSet(kept) /\ todo \subseteq kept /\ size \in Nat
      BY <3>1, InputType DEF InputInv
    <3> QED  BY <3>1, <3>2, FS_Subset, FS_CardinalityType
  <2>2. CASE DropWeakest
    <3>1. PICK e \in kept : kept' = kept \ {e}
      BY <2>2 DEF DropWeakest
    <3>2. Cardinality(kept \ {e}) = Cardinality(kept) - 1
      BY <2>1, <3>1, FS_RemoveElement
    <3>3. Cardinality(kept') < Cardinality(kept)
      BY <2>1, <3>1, <3>2
    <3> QED  BY <2>2, <3>3 DEF DropWeakest
  <2>3. CASE ChooseSplit
    BY <2>3 DEF ChooseSplit, Later
  <2>4. CASE SplitExit
    <3>1. PICK e \in todo : todo' = todo \ {e}
      BY <2>4 DEF SplitExit
    <3>2. Cardinality(todo \ {e}) = Cardinality(todo) - 1
      BY <2>1, <3>1, FS_RemoveElement
    <3>3. Cardinality(todo') < Cardinality(todo)
      BY <2>1, <3>1, <3>2
    <3>4. pc = "split" /\ pc' \in {"split", "merge"}
      BY <2>4 DEF SplitExit
    <3> QED  BY <3>3, <3>4 DEF Later
  <2>5. CASE MergeTiny
    <3>1. PICK i \in DOMAIN segs : segs' = Merged(i)
      BY <2>5 DEF MergeTiny, Merged
    <3>2. Len(segs) > 1 /\ i \in 1..Len(segs) /\ Len(segs) \in Nat
      BY <2>1, <2>5, <3>1, LenProperties DEF MergeTiny
    <3>3. Len(segs') = Len(segs) - 1
      BY <2>1, <3>1, <3>2, MergedProperties
    <3> QED  BY <2>5, <3>2, <3>3 DEF MergeTiny
  <2>6. CASE MergeDone
    BY <2>6 DEF MergeDone, Later
  <2>7. CASE Validate
    BY <2>7 DEF Validate, Later
  <2> QED  BY <2>2, <2>3, <2>4, <2>5, <2>6, <2>7 DEF Next, Finished
<1> QED  BY <1>1, InductiveInvariant, PTL DEF Spec
=============================================================================
