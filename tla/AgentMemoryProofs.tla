-------------------------- MODULE AgentMemoryProofs --------------------------
(***************************************************************************)
(* Theorems about AgentMemory, for histories of any length and any number  *)
(* of runs and agents: what its folds over sequences compute, what a       *)
(* context is made of, and that runs that overlap lose no message.         *)
(***************************************************************************)
EXTENDS AgentMemory, FiniteSetTheorems, SequenceTheorems, WellFoundedInduction, TLAPS

(* Induction, as the absence of a least counterexample *)

\* A set of numbers has a least one.
LEMMA LeastNat ==
    ASSUME NEW T \in SUBSET Nat, T # {}
    PROVE  \E n \in T : \A m \in T : n <= m
<1>. DEFINE R == OpToRel(<, Nat)
<1>1. IsWellFoundedOn(R, Nat)
  BY NatLessThanWellFounded
<1>2. R = {r \in Nat \X Nat : r[1] < r[2]}
  BY DEF OpToRel
<1>. HIDE DEF R
<1>3. PICK n \in T : \A m \in T : ~ (<<m, n>> \in R)
  BY <1>1, WFMin
<1>4. \A m \in T : ~ (m < n)
  BY <1>2, <1>3
<1>. QED
  BY <1>3, <1>4

\* Induction from the first position of a sequence to its last.
LEMMA Upwards ==
    ASSUME NEW n \in Nat, NEW P \in SUBSET (0..n), 0 \in P,
           \A i \in 1..n : i - 1 \in P => i \in P
    PROVE  P = 0..n
<1>. DEFINE Bad == {i \in 0..n : i \notin P}
<1>1. SUFFICES ASSUME Bad # {}
               PROVE  FALSE
  OBVIOUS
<1>2. PICK i \in Bad : \A j \in Bad : i <= j
  <2>1. Bad \in SUBSET Nat
    OBVIOUS
  <2>. HIDE DEF Bad
  <2>. QED
    BY <1>1, <2>1, LeastNat
<1>3. i \in 1..n /\ i - 1 \in 0..n /\ ~ (i <= i - 1)
  BY <1>2
<1>. QED
  BY <1>2, <1>3

\* Induction from behind the last position of a sequence to its first.
LEMMA Downwards ==
    ASSUME NEW n \in Nat, NEW P \in SUBSET (1..n + 1), n + 1 \in P,
           \A i \in 1..n : i + 1 \in P => i \in P
    PROVE  P = 1..n + 1
<1>. DEFINE Q == {k \in 0..n : n + 1 - k \in P}
<1>1. 0 \in Q
  OBVIOUS
<1>2. ASSUME NEW k \in 1..n, k - 1 \in Q
      PROVE  k \in Q
  <2>1. n + 1 - k \in 1..n /\ n + 1 - (k - 1) = n + 1 - k + 1
    OBVIOUS
  <2>. QED
    BY <1>2, <2>1
<1>3. Q = 0..n
  <2>. HIDE DEF Q
  <2>1. Q \in SUBSET (0..n)
    BY DEF Q
  <2>. QED
    BY <1>1, <1>2, <2>1, Upwards
<1>4. ASSUME NEW i \in 1..n + 1
      PROVE  i \in P
  <2>1. n + 1 - i \in 0..n /\ n + 1 - (n + 1 - i) = i
    OBVIOUS
  <2>2. n + 1 - (n + 1 - i) \in P
    <3>. HIDE DEF Q
    <3>1. n + 1 - i \in Q
      BY <1>3, <2>1
    <3>. QED
      BY <3>1 DEF Q
  <2>. QED
    BY <2>1, <2>2
<1>. QED
  BY <1>4

-----------------------------------------------------------------------------
(* Folds.  A fold over a sequence goes through a table with an entry for      *)
(* every set of positions; such a table exists, so that the entries obey the  *)
(* recurrence that defines them.                                              *)

Picks(pick, n) == \A s \in SUBSET (1..n) : s # {} => pick[s] \in s

Entry(step, pick, base, g, s) ==
    IF s = {} THEN base ELSE step[<<pick[s], g[s \ {pick[s]}]>>]

IsTable(step, pick, base, g, n) ==
    \A s \in SUBSET (1..n) : g[s] = Entry(step, pick, base, g, s)

RightUpTo(step, pick, base, g, n, k) ==
    \A s \in SUBSET (1..n) : Cardinality(s) <= k => g[s] = Entry(step, pick, base, g, s)

\* The positions of a sequence are finitely many, and taking one out leaves fewer.
LEMMA PositionOut ==
    ASSUME NEW n \in Nat, NEW s \in SUBSET (1..n), NEW i \in s
    PROVE  /\ Cardinality(s) \in Nat /\ Cardinality(s) > 0 /\ Cardinality(s) <= n
           /\ Cardinality(s \ {i}) = Cardinality(s) - 1
<1>1. IsFiniteSet(1..n) /\ Cardinality(1..n) = n
  <2>1. 1 \in Int /\ n \in Int
    OBVIOUS
  <2>. QED
    BY <2>1, FS_Interval
<1>2. IsFiniteSet(s) /\ Cardinality(s) <= n
  BY <1>1, FS_Subset
<1>3. Cardinality(s) \in Nat /\ Cardinality(s) # 0
  BY <1>2, FS_CardinalityType, FS_EmptySet
<1>. QED
  BY <1>2, <1>3, FS_RemoveElement

\* A table that is right for small sets gives one that is right for larger sets.
LEMMA RightOneMore ==
    ASSUME NEW n \in Nat, NEW V, NEW base \in V, NEW step \in [(1..n) \X V -> V], NEW pick,
           Picks(pick, n),
           NEW k \in Nat, NEW g \in [SUBSET (1..n) -> V], RightUpTo(step, pick, base, g, n, k)
    PROVE  \E h \in [SUBSET (1..n) -> V] : RightUpTo(step, pick, base, h, n, k + 1)
<1>. DEFINE h == [s \in SUBSET (1..n) |->
                    IF Cardinality(s) = k + 1 THEN Entry(step, pick, base, g, s) ELSE g[s]]
<1>1. ASSUME NEW s \in SUBSET (1..n)
      PROVE  Entry(step, pick, base, g, s) \in V
  <2>1. CASE s = {}
    BY <2>1 DEF Entry
  <2>2. CASE s # {}
    <3>1. pick[s] \in 1..n /\ s \ {pick[s]} \in SUBSET (1..n)
      BY <2>2 DEF Picks
    <3>2. <<pick[s], g[s \ {pick[s]}]>> \in (1..n) \X V
      BY <3>1
    <3>. QED
      BY <2>2, <3>2 DEF Entry
  <2>. QED
    BY <2>1, <2>2
<1>2. h \in [SUBSET (1..n) -> V]
  BY <1>1
<1>3. ASSUME NEW s \in SUBSET (1..n), Cardinality(s) <= k + 1
      PROVE  h[s] = Entry(step, pick, base, h, s)
  <2>1. Entry(step, pick, base, h, s) = Entry(step, pick, base, g, s)
    <3>1. CASE s = {}
      BY <3>1 DEF Entry
    <3>2. CASE s # {}
      <4>1. pick[s] \in s
        BY <3>2 DEF Picks
      <4>2. s \ {pick[s]} \in SUBSET (1..n) /\ Cardinality(s \ {pick[s]}) # k + 1
        BY <1>3, <4>1, PositionOut
      <4>3. h[s \ {pick[s]}] = g[s \ {pick[s]}]
        BY <4>2
      <4>. QED
        BY <3>2, <4>3 DEF Entry
    <3>. QED
      BY <3>1, <3>2
  <2>2. CASE Cardinality(s) = k + 1
    BY <2>1, <2>2
  <2>3. CASE Cardinality(s) # k + 1
    <3>1. Cardinality(s) \in Nat
      <4>1. CASE s = {}
        BY <4>1, FS_EmptySet
      <4>2. CASE s # {}
        BY <4>2, PositionOut
      <4>. QED
        BY <4>1, <4>2
    <3>2. Cardinality(s) <= k
      BY <1>3, <2>3, <3>1
    <3>3. g[s] = Entry(step, pick, base, g, s)
      BY <3>2 DEF RightUpTo
    <3>. QED
      BY <2>1, <2>3, <3>3
  <2>. QED
    BY <2>2, <2>3
<1>. HIDE DEF h
<1>4. RightUpTo(step, pick, base, h, n, k + 1)
  BY <1>3 DEF RightUpTo
<1>. QED
  BY <1>2, <1>4

\* There is a right table, whatever a fold does at each position and in which order.
LEMMA TableExists ==
    ASSUME NEW n \in Nat, NEW V, NEW base \in V, NEW step \in [(1..n) \X V -> V], NEW pick,
           Picks(pick, n)
    PROVE  \E g \in [SUBSET (1..n) -> V] : IsTable(step, pick, base, g, n)
<1>. DEFINE P == {k \in 0..n : \E g \in [SUBSET (1..n) -> V] :
                                  RightUpTo(step, pick, base, g, n, k)}
<1>1. 0 \in P
  <2>. DEFINE g == [s \in SUBSET (1..n) |-> base]
  <2>1. ASSUME NEW s \in SUBSET (1..n), Cardinality(s) <= 0
        PROVE  s = {}
    <3>1. ASSUME NEW i \in s
          PROVE  FALSE
      <4>1. Cardinality(s) \in Nat /\ Cardinality(s) > 0
        BY PositionOut
      <4>. QED
        BY <2>1, <4>1
    <3>. QED
      BY <3>1
  <2>2. RightUpTo(step, pick, base, g, n, 0)
    BY <2>1 DEF RightUpTo, Entry
  <2>3. g \in [SUBSET (1..n) -> V]
    OBVIOUS
  <2>. HIDE DEF g
  <2>4. \E f \in [SUBSET (1..n) -> V] : RightUpTo(step, pick, base, f, n, 0)
    BY <2>2, <2>3
  <2>. QED
    BY <2>4
<1>2. ASSUME NEW k \in 1..n, k - 1 \in P
      PROVE  k \in P
  <2>1. PICK g \in [SUBSET (1..n) -> V] : RightUpTo(step, pick, base, g, n, k - 1)
    BY <1>2
  <2>2. k - 1 \in Nat /\ k - 1 + 1 = k
    OBVIOUS
  <2>3. \E h \in [SUBSET (1..n) -> V] : RightUpTo(step, pick, base, h, n, k - 1 + 1)
    BY <2>1, <2>2, RightOneMore
  <2>. QED
    BY <2>2, <2>3
<1>3. n \in P
  <2>. HIDE DEF P
  <2>1. P \in SUBSET (0..n)
    BY DEF P
  <2>2. P = 0..n
    BY <1>1, <1>2, <2>1, Upwards
  <2>. QED
    BY <2>2
<1>4. PICK g \in [SUBSET (1..n) -> V] : RightUpTo(step, pick, base, g, n, n)
  BY <1>3
<1>5. ASSUME NEW s \in SUBSET (1..n)
      PROVE  Cardinality(s) <= n
  <2>1. CASE s = {}
    BY <2>1, FS_EmptySet
  <2>2. CASE s # {}
    BY <2>2, PositionOut
  <2>. QED
    BY <2>1, <2>2
<1>. QED
  BY <1>4, <1>5 DEF RightUpTo, IsTable

\* The position a fold takes next: the first or the last of those left.
LEMMA FirstAndLast ==
    ASSUME NEW n \in Nat, NEW s \in SUBSET (1..n), s # {}
    PROVE  Min(s) \in s /\ Max(s) \in s
<1>1. Min(s) \in s
  <2>1. \E x \in s : \A y \in s : x =< y
    BY LeastNat
  <2>. QED
    BY <2>1 DEF Min
<1>2. Max(s) \in s
  <2>. DEFINE Above == {m \in Nat : \A y \in s : m >= y}
  <2>1. n \in Above
    OBVIOUS
  <2>2. PICK m \in Above : \A k \in Above : m <= k
    BY <2>1, LeastNat
  <2>3. m \in s
    <3>1. SUFFICES ASSUME m \notin s
                   PROVE  FALSE
      OBVIOUS
    <3>2. PICK y \in s : TRUE
      OBVIOUS
    <3>3. y \in Nat /\ m >= y /\ y # m /\ y >= 1
      BY <2>2, <3>1, <3>2
    <3>4. m - 1 \in Nat /\ ~ (m <= m - 1)
      BY <2>2, <3>3
    <3>5. \A z \in s : m - 1 >= z
      BY <2>2, <3>1
    <3>. QED
      BY <2>2, <3>4, <3>5
  <2>4. \E x \in s : \A y \in s : x >= y
    BY <2>2, <2>3
  <2>. QED
    BY <2>4 DEF Max
<1>. QED
  BY <1>1, <1>2

\* The last of the first i positions is i, and leaves the first i - 1.
LEMMA LastOfFirst ==
    ASSUME NEW i \in Nat, i > 0
    PROVE  Max(1..i) = i /\ (1..i) \ {i} = 1..i - 1
<1>1. Max(1..i) \in 1..i /\ \A y \in 1..i : Max(1..i) >= y
  <2>1. \E x \in 1..i : \A y \in 1..i : x >= y
    <3>1. i \in 1..i /\ \A y \in 1..i : i >= y
      OBVIOUS
    <3>. QED
      BY <3>1
  <2>. QED
    BY <2>1 DEF Max
<1>2. i \in 1..i
  OBVIOUS
<1>3. (1..i) \ {i} = 1..i - 1
  OBVIOUS
<1>. QED
  BY <1>1, <1>2, <1>3

\* The first of the positions from i on is i, and leaves those after it.
LEMMA FirstOfLast ==
    ASSUME NEW n \in Nat, NEW i \in 1..n
    PROVE  Min(i..n) = i /\ (i..n) \ {i} = (i + 1)..n
<1>1. Min(i..n) \in i..n /\ \A y \in i..n : Min(i..n) =< y
  <2>1. \E x \in i..n : \A y \in i..n : x =< y
    <3>1. i \in i..n /\ \A y \in i..n : i =< y
      OBVIOUS
    <3>. QED
      BY <3>1
  <2>. QED
    BY <2>1 DEF Min
<1>2. i \in i..n
  OBVIOUS
<1>3. (i..n) \ {i} = (i + 1)..n
  OBVIOUS
<1>. QED
  BY <1>1, <1>2, <1>3
-----------------------------------------------------------------------------
(* What the folds of AgentMemory compute *)

FromLeft(step, base, g, n) ==
    \A s \in SUBSET (1..n) :
        g[s] = IF s = {} THEN base ELSE step[<<Max(s), g[s \ {Max(s)}]>>]

FromRight(step, base, g, n) ==
    \A s \in SUBSET (1..n) :
        g[s] = IF s = {} THEN base ELSE step[<<Min(s), g[s \ {Min(s)}]>>]

\* The table of a fold from the left.
LEMMA LeftTable ==
    ASSUME NEW n \in Nat, NEW V, NEW base \in V, NEW step \in [(1..n) \X V -> V]
    PROVE  \E g \in [SUBSET (1..n) -> V] : FromLeft(step, base, g, n)
<1>1. PICK pick : \A s \in SUBSET (1..n) : pick[s] = Max(s)
  <2>1. \A s \in SUBSET (1..n) : [t \in SUBSET (1..n) |-> Max(t)][s] = Max(s)
    OBVIOUS
  <2>. QED
    BY <2>1
<1>2. Picks(pick, n)
  BY <1>1, FirstAndLast DEF Picks
<1>3. PICK g \in [SUBSET (1..n) -> V] : IsTable(step, pick, base, g, n)
  BY <1>2, TableExists
<1>4. ASSUME NEW s \in SUBSET (1..n)
      PROVE  g[s] = IF s = {} THEN base ELSE step[<<pick[s], g[s \ {pick[s]}]>>]
  BY <1>3 DEF IsTable, Entry
<1>5. FromLeft(step, base, g, n)
  BY <1>1, <1>4 DEF FromLeft
<1>. QED
  BY <1>5

\* The table of a fold from the right.
LEMMA RightTable ==
    ASSUME NEW n \in Nat, NEW V, NEW base \in V, NEW step \in [(1..n) \X V -> V]
    PROVE  \E g \in [SUBSET (1..n) -> V] : FromRight(step, base, g, n)
<1>1. PICK pick : \A s \in SUBSET (1..n) : pick[s] = Min(s)
  <2>1. \A s \in SUBSET (1..n) : [t \in SUBSET (1..n) |-> Min(t)][s] = Min(s)
    OBVIOUS
  <2>. QED
    BY <2>1
<1>2. Picks(pick, n)
  BY <1>1, FirstAndLast DEF Picks
<1>3. PICK g \in [SUBSET (1..n) -> V] : IsTable(step, pick, base, g, n)
  BY <1>2, TableExists
<1>4. ASSUME NEW s \in SUBSET (1..n)
      PROVE  g[s] = IF s = {} THEN base ELSE step[<<pick[s], g[s \ {pick[s]}]>>]
  BY <1>3 DEF IsTable, Entry
<1>5. FromRight(step, base, g, n)
  BY <1>1, <1>4 DEF FromRight
<1>. QED
  BY <1>5

SizeEntry(s, g, S) == IF S = {} THEN 0 ELSE g[S \ {Max(S)}] + s[Max(S)].size
SizeTable(s) == CHOOSE g : g = [S \in SUBSET DOMAIN s |-> SizeEntry(s, g, S)]

OwnEntry(s, r, g, S) ==
    IF S = {} THEN << >>
    ELSE IF s[Max(S)].run = r THEN Append(g[S \ {Max(S)}], s[Max(S)]) ELSE g[S \ {Max(S)}]
OwnTable(s, r) == CHOOSE g : g = [S \in SUBSET DOMAIN s |-> OwnEntry(s, r, g, S)]

TrimEntry(s, g, S) ==
    IF S = {} THEN << >>
    ELSE IF Fits(s[Min(S)], g[S \ {Min(S)}])
         THEN <<s[Min(S)]>> \o g[S \ {Min(S)}] ELSE g[S \ {Min(S)}]
TrimTable(s) == CHOOSE g : g = [S \in SUBSET DOMAIN s |-> TrimEntry(s, g, S)]

\* The folds of the module are the last entries of their tables.
LEMMA FoldsAreTables ==
    ASSUME NEW s, NEW r
    PROVE  /\ TotalSize(s) = SizeTable(s)[DOMAIN s]
           /\ OfRun(s, r) = OwnTable(s, r)[DOMAIN s]
           /\ Trimmed(s) = TrimTable(s)[DOMAIN s]
<1>1. TotalSize(s) = SizeTable(s)[DOMAIN s]
  BY DEF TotalSize, FoldLeft, MapThenFoldSet, SizeTable, SizeEntry
<1>2. OfRun(s, r) = OwnTable(s, r)[DOMAIN s]
  BY DEF OfRun, FoldLeft, MapThenFoldSet, OwnTable, OwnEntry
<1>3. Trimmed(s) = TrimTable(s)[DOMAIN s]
  BY DEF Trimmed, FoldRight, MapThenFoldSet, TrimTable, TrimEntry
<1>. QED
  BY <1>1, <1>2, <1>3
\* A length is a number, whatever is measured.
LEMMA ItemSizes ==
    /\ \A m \in ContextItem : m.size \in Nat
    /\ Message \subseteq ContextItem
  BY MemoryAssumption DEF ContextItem, Message

\* TotalSize adds up the lengths from the first to the last.
LEMMA SizesAddUp ==
    ASSUME NEW s \in Seq(ContextItem)
    PROVE  \E sum \in [0..Len(s) -> Nat] :
              /\ sum[0] = 0 /\ sum[Len(s)] = TotalSize(s)
              /\ \A i \in 1..Len(s) : sum[i] = sum[i - 1] + s[i].size
<1> DEFINE n == Len(s)
           h == SizeTable(s)
           step == [p \in (1..n) \X Nat |-> p[2] + s[p[1]].size]
<1>1. n \in Nat /\ DOMAIN s = 1..n /\ \A i \in 1..n : s[i] \in ContextItem
  OBVIOUS
<1>2. \A i \in 1..n : s[i].size \in Nat
  BY <1>1, ItemSizes
<1>. HIDE DEF n
<1>3. step \in [(1..n) \X Nat -> Nat]
  BY <1>2
<1>4. \A i \in 1..n, v \in Nat : step[<<i, v>>] = v + s[i].size
  OBVIOUS
<1>. HIDE DEF step
<1>5. PICK g \in [SUBSET (1..n) -> Nat] : FromLeft(step, 0, g, n)
  BY <1>1, <1>3, LeftTable
<1>6. ASSUME NEW S \in SUBSET (1..n)
      PROVE  g[S] = SizeEntry(s, g, S)
  <2>1. CASE S = {}
    BY <1>5, <2>1 DEF SizeEntry, FromLeft
  <2>2. CASE S # {}
    <3>1. Max(S) \in 1..n /\ S \ {Max(S)} \in SUBSET (1..n)
      BY <1>1, <2>2, FirstAndLast
    <3>2. g[S \ {Max(S)}] \in Nat
      BY <3>1
    <3>. QED
      BY <1>4, <1>5, <2>2, <3>1, <3>2 DEF SizeEntry, FromLeft
  <2>. QED
    BY <2>1, <2>2
<1>7. g = [S \in SUBSET DOMAIN s |-> SizeEntry(s, g, S)]
  BY <1>1, <1>6
<1>8. h = [S \in SUBSET DOMAIN s |-> SizeEntry(s, h, S)]
  BY <1>7 DEF SizeTable
<1>. HIDE DEF h
<1>9. h[{}] = 0
  BY <1>8 DEF SizeEntry
<1>10. ASSUME NEW i \in 1..n
       PROVE  h[1..i] = h[1..i - 1] + s[i].size
  <2>1. Max(1..i) = i /\ (1..i) \ {i} = 1..i - 1
    BY <1>1, LastOfFirst
  <2>2. 1..i \in SUBSET DOMAIN s /\ 1..i # {}
    <3>1. i \in 1..i /\ \A j \in 1..i : j \in 1..n
      BY <1>1
    <3>. QED
      BY <1>1, <3>1
  <2>. QED
    BY <1>8, <2>1, <2>2 DEF SizeEntry
<1> DEFINE P == {i \in 0..n : h[1..i] \in Nat}
<1>11. 0 \in P
  <2>1. 1..0 = {}
    OBVIOUS
  <2>. QED
    BY <1>1, <1>9, <2>1
<1>12. \A i \in 1..n : i - 1 \in P => i \in P
  BY <1>2, <1>10
<1>13. P = 0..n
  <2>1. P \in SUBSET (0..n)
    OBVIOUS
  <2>. HIDE DEF P
  <2>. QED
    BY <1>1, <1>11, <1>12, <2>1, Upwards
<1> DEFINE sum == [i \in 0..n |-> h[1..i]]
<1>14. sum \in [0..n -> Nat]
  BY <1>13
<1>15. sum[0] = 0 /\ sum[n] = TotalSize(s)
  <2>1. 1..0 = {} /\ 0 \in 0..n /\ n \in 0..n
    BY <1>1
  <2>2. TotalSize(s) = h[1..n]
    BY <1>1, FoldsAreTables DEF h
  <2>. QED
    BY <1>9, <2>1, <2>2
<1>16. \A i \in 1..n : sum[i] = sum[i - 1] + s[i].size
  BY <1>1, <1>10
<1>. QED
  <2>. HIDE DEF sum
  <2>. QED
    BY <1>14, <1>15, <1>16 DEF n

\* Two totals that start alike and grow alike are alike.
LEMMA SameSums ==
    ASSUME NEW n \in Nat, NEW a, NEW b, a[0] = b[0],
           \A i \in 1..n : a[i - 1] = b[i - 1] => a[i] = b[i]
    PROVE  a[n] = b[n]
<1> DEFINE P == {i \in 0..n : a[i] = b[i]}
<1>1. P \in SUBSET (0..n) /\ 0 \in P
  OBVIOUS
<1>2. \A i \in 1..n : i - 1 \in P => i \in P
  OBVIOUS
<1>3. P = 0..n
  <2>. HIDE DEF P
  <2>. QED
    BY <1>1, <1>2, Upwards
<1>4. n \in 0..n
  OBVIOUS
<1>. QED
  BY <1>3, <1>4

\* Nothing weighs nothing, and lengths add up over a concatenation.
LEMMA SizeOfConcat ==
    ASSUME NEW s \in Seq(ContextItem), NEW t \in Seq(ContextItem)
    PROVE  /\ TotalSize(s) \in Nat
           /\ TotalSize(s \o t) = TotalSize(s) + TotalSize(t)
<1> DEFINE u == s \o t
           n == Len(s)
           k == Len(t)
<1>1. /\ u \in Seq(ContextItem) /\ Len(u) = n + k
      /\ \A i \in 1..n : u[i] = s[i]
      /\ \A i \in 1..k : u[n + i] = t[i]
      /\ n \in Nat /\ k \in Nat
  OBVIOUS
<1>2. \A i \in 1..n : s[i].size \in Nat
  BY ItemSizes
<1>3. \A i \in 1..k : t[i].size \in Nat
  BY ItemSizes
<1>. HIDE DEF u, n, k
<1>0. \A i \in 1..n : i \in 1..n + k /\ u[i] = s[i]
  BY <1>1
<1>4. PICK a \in [0..n -> Nat] :
         /\ a[0] = 0 /\ a[n] = TotalSize(s)
         /\ \A i \in 1..n : a[i] = a[i - 1] + s[i].size
  BY SizesAddUp DEF n
<1>5. PICK b \in [0..k -> Nat] :
         /\ b[0] = 0 /\ b[k] = TotalSize(t)
         /\ \A i \in 1..k : b[i] = b[i - 1] + t[i].size
  BY SizesAddUp DEF k
<1>6. PICK c \in [0..(n + k) -> Nat] :
         /\ c[0] = 0 /\ c[n + k] = TotalSize(u)
         /\ \A i \in 1..n + k : c[i] = c[i - 1] + u[i].size
  <2>1. \E c \in [0..Len(u) -> Nat] :
           /\ c[0] = 0 /\ c[Len(u)] = TotalSize(u)
           /\ \A i \in 1..Len(u) : c[i] = c[i - 1] + u[i].size
    BY <1>1, SizesAddUp
  <2>. QED
    BY <1>1, <2>1
<1>7. a[n] = c[n]
  <2>1. ASSUME NEW i \in 1..n, a[i - 1] = c[i - 1]
        PROVE  a[i] = c[i]
    <3>1. i \in 1..n + k /\ u[i] = s[i]
      BY <1>0
    <3>. QED
      BY <1>4, <1>6, <2>1, <3>1
  <2>2. a[0] = c[0]
    BY <1>4, <1>6
  <2>. QED
    BY <1>1, <2>1, <2>2, SameSums
<1>8. a[n] + b[k] = c[n + k]
  <2> DEFINE d == [i \in 0..k |-> a[n] + b[i]]
             e == [i \in 0..k |-> c[n + i]]
  <2>1. ASSUME NEW i \in 1..k, d[i - 1] = e[i - 1]
        PROVE  d[i] = e[i]
    <3>1. /\ n + i \in 1..n + k /\ u[n + i] = t[i] /\ n + i - 1 = n + (i - 1)
          /\ i - 1 \in 0..k /\ i \in 0..k
      BY <1>1
    <3>2. a[n] + b[i - 1] = c[n + (i - 1)]
      BY <2>1, <3>1
    <3>3. c[n + i] = c[n + (i - 1)] + t[i].size
      <4>1. PICK j \in 1..n + k : j = n + i
        BY <3>1
      <4>2. c[j] = c[j - 1] + u[j].size
        BY <1>6
      <4>3. j - 1 = n + (i - 1) /\ u[j] = t[i]
        BY <1>1, <3>1, <4>1
      <4>. QED
        BY <4>1, <4>2, <4>3
    <3>4. b[i] = b[i - 1] + t[i].size
      BY <1>5
    <3>5. a[n] \in Nat /\ b[i - 1] \in Nat /\ t[i].size \in Nat
      BY <1>1, <1>3, <1>4, <1>5, <3>1
    <3>6. a[n] + b[i] = c[n + i]
      BY <3>2, <3>3, <3>4, <3>5
    <3>. QED
      BY <3>1, <3>6
  <2>2. d[0] = e[0]
    BY <1>1, <1>5, <1>7
  <2>3. d[k] = a[n] + b[k] /\ e[k] = c[n + k]
    BY <1>1
  <2>. HIDE DEF d, e
  <2>4. d[k] = e[k]
    BY <1>1, <2>1, <2>2, SameSums
  <2>. QED
    BY <2>3, <2>4
<1>9. a[n] \in Nat
  BY <1>1, <1>4
<1>. QED
  BY <1>4, <1>5, <1>6, <1>8, <1>9 DEF u

\* The length of a sequence with nothing or one item in it.
LEMMA SizeOfOne ==
    /\ TotalSize(<< >>) = 0
    /\ \A m \in ContextItem : TotalSize(<<m>>) = m.size
<1>1. TotalSize(<< >>) = 0
  <2>1. << >> \in Seq(ContextItem) /\ Len(<< >>) = 0
    OBVIOUS
  <2>. QED
    BY <2>1, SizesAddUp
<1>2. ASSUME NEW m \in ContextItem
      PROVE  TotalSize(<<m>>) = m.size
  <2>1. <<m>> \in Seq(ContextItem) /\ Len(<<m>>) = 1 /\ <<m>>[1] = m
    OBVIOUS
  <2>2. PICK sum \in [0..1 -> Nat] :
           /\ sum[0] = 0 /\ sum[1] = TotalSize(<<m>>)
           /\ \A i \in 1..1 : sum[i] = sum[i - 1] + <<m>>[i].size
    <3>1. \E sum \in [0..Len(<<m>>) -> Nat] :
             /\ sum[0] = 0 /\ sum[Len(<<m>>)] = TotalSize(<<m>>)
             /\ \A i \in 1..Len(<<m>>) : sum[i] = sum[i - 1] + <<m>>[i].size
      BY <2>1, SizesAddUp
    <3>. QED
      BY <2>1, <3>1
  <2>3. sum[1] = sum[0] + m.size
    BY <2>1, <2>2
  <2>4. m.size \in Nat
    BY ItemSizes
  <2>. QED
    BY <2>2, <2>3, <2>4
<1>. QED
  BY <1>1, <1>2

-----------------------------------------------------------------------------
(* The messages of one run in a history *)

\* OfRun goes through a history from its first message to its last.
LEMMA OwnMessages ==
    ASSUME NEW s \in Seq(Message), NEW r
    PROVE  \E own \in [0..Len(s) -> Seq(Message)] :
              /\ own[0] = << >> /\ own[Len(s)] = OfRun(s, r)
              /\ \A i \in 1..Len(s) :
                    own[i] = IF s[i].run = r THEN Append(own[i - 1], s[i]) ELSE own[i - 1]
<1> DEFINE n == Len(s)
           h == OwnTable(s, r)
           step == [p \in (1..n) \X Seq(Message) |->
                      IF s[p[1]].run = r THEN Append(p[2], s[p[1]]) ELSE p[2]]
<1>1. n \in Nat /\ DOMAIN s = 1..n /\ \A i \in 1..n : s[i] \in Message
  OBVIOUS
<1>. HIDE DEF n
<1>2. \A i \in 1..n, v \in Seq(Message) :
         step[<<i, v>>] = IF s[i].run = r THEN Append(v, s[i]) ELSE v
  OBVIOUS
<1>3. step \in [(1..n) \X Seq(Message) -> Seq(Message)]
  <2>1. ASSUME NEW p \in (1..n) \X Seq(Message)
        PROVE  (IF s[p[1]].run = r THEN Append(p[2], s[p[1]]) ELSE p[2]) \in Seq(Message)
    BY <1>1
  <2>. QED
    BY <2>1
<1>. HIDE DEF step
<1>4. << >> \in Seq(Message)
  OBVIOUS
<1>5. PICK g \in [SUBSET (1..n) -> Seq(Message)] : FromLeft(step, << >>, g, n)
  BY <1>1, <1>3, <1>4, LeftTable
<1>6. ASSUME NEW S \in SUBSET (1..n)
      PROVE  g[S] = OwnEntry(s, r, g, S)
  <2>1. CASE S = {}
    BY <1>5, <2>1 DEF OwnEntry, FromLeft
  <2>2. CASE S # {}
    <3>1. Max(S) \in 1..n /\ S \ {Max(S)} \in SUBSET (1..n)
      BY <1>1, <2>2, FirstAndLast
    <3>2. g[S \ {Max(S)}] \in Seq(Message)
      BY <3>1
    <3>3. g[S] = step[<<Max(S), g[S \ {Max(S)}]>>]
      BY <1>5, <2>2 DEF FromLeft
    <3>4. step[<<Max(S), g[S \ {Max(S)}]>>] =
             IF s[Max(S)].run = r THEN Append(g[S \ {Max(S)}], s[Max(S)]) ELSE g[S \ {Max(S)}]
      BY <1>2, <3>1, <3>2
    <3>. QED
      BY <2>2, <3>3, <3>4 DEF OwnEntry
  <2>. QED
    BY <2>1, <2>2
<1>7. g = [S \in SUBSET DOMAIN s |-> OwnEntry(s, r, g, S)]
  BY <1>1, <1>6
<1>8. h = [S \in SUBSET DOMAIN s |-> OwnEntry(s, r, h, S)]
  BY <1>7 DEF OwnTable
<1>. HIDE DEF h
<1>9. h[{}] = << >>
  BY <1>8 DEF OwnEntry
<1>10. ASSUME NEW i \in 1..n
       PROVE  h[1..i] = IF s[i].run = r THEN Append(h[1..i - 1], s[i]) ELSE h[1..i - 1]
  <2>1. Max(1..i) = i /\ (1..i) \ {i} = 1..i - 1
    BY <1>1, LastOfFirst
  <2>2. 1..i \in SUBSET DOMAIN s /\ 1..i # {}
    <3>1. i \in 1..i /\ \A j \in 1..i : j \in 1..n
      BY <1>1
    <3>. QED
      BY <1>1, <3>1
  <2>. QED
    BY <1>8, <2>1, <2>2 DEF OwnEntry
<1> DEFINE P == {i \in 0..n : h[1..i] \in Seq(Message)}
<1>11. 0 \in P
  <2>1. 1..0 = {}
    OBVIOUS
  <2>2. h[1..0] = << >>
    BY <1>9, <2>1, Zenon
  <2>3. h[1..0] \in Seq(Message)
    BY <1>4, <2>2, Zenon
  <2>4. 0 \in 0..n
    BY <1>1
  <2>. QED
    BY <2>3, <2>4
<1>12. ASSUME NEW i \in 1..n, i - 1 \in P
       PROVE  i \in P
  <2>1. h[1..i - 1] \in Seq(Message) /\ s[i] \in Message
    BY <1>1, <1>12
  <2>2. Append(h[1..i - 1], s[i]) \in Seq(Message)
    BY <2>1
  <2>3. h[1..i] \in Seq(Message)
    BY <1>10, <2>1, <2>2
  <2>. QED
    BY <1>1, <2>3
<1>13. P = 0..n
  <2>1. P \in SUBSET (0..n)
    OBVIOUS
  <2>. HIDE DEF P
  <2>. QED
    BY <1>1, <1>11, <1>12, <2>1, Upwards
<1> DEFINE own == [i \in 0..n |-> h[1..i]]
<1>14. own \in [0..n -> Seq(Message)]
  BY <1>13
<1>15. own[0] = << >> /\ own[n] = OfRun(s, r)
  <2>1. 1..0 = {} /\ 0 \in 0..n /\ n \in 0..n
    BY <1>1
  <2>2. OfRun(s, r) = h[1..n]
    BY <1>1, FoldsAreTables DEF h
  <2>. QED
    BY <1>9, <2>1, <2>2
<1>16. ASSUME NEW i \in 1..n
       PROVE  own[i] = IF s[i].run = r THEN Append(own[i - 1], s[i]) ELSE own[i - 1]
  <2>1. i \in 0..n /\ i - 1 \in 0..n
    BY <1>1
  <2>2. own[i] = h[1..i] /\ own[i - 1] = h[1..i - 1]
    BY <2>1
  <2>. HIDE DEF own
  <2>. QED
    BY <1>10, <2>2
<1>. QED
  <2>. HIDE DEF own
  <2>. QED
    BY <1>14, <1>15, <1>16 DEF n

\* Of nothing a run has nothing, and a message that is appended is one of its author's
\* run and of no other.
LEMMA OwnAppended ==
    /\ \A r : OfRun(<< >>, r) = << >>
    /\ \A r : \A s \in Seq(Message), m \in Message :
          /\ OfRun(s, r) \in Seq(Message)
          /\ OfRun(Append(s, m), r) = IF m.run = r THEN Append(OfRun(s, r), m) ELSE OfRun(s, r)
<1>1. ASSUME NEW r
      PROVE  OfRun(<< >>, r) = << >>
  <2>0. << >> \in Seq(Message) /\ Len(<< >>) = 0
    OBVIOUS
  <2>1. PICK s \in Seq(Message) : s = << >> /\ Len(s) = 0
    BY <2>0
  <2>2. PICK own \in [0..Len(s) -> Seq(Message)] :
           own[0] = << >> /\ own[Len(s)] = OfRun(s, r)
    BY OwnMessages
  <2>. QED
    BY <2>1, <2>2
<1>2. ASSUME NEW s \in Seq(Message), NEW m \in Message, NEW r
      PROVE  /\ OfRun(s, r) \in Seq(Message)
             /\ OfRun(Append(s, m), r) = IF m.run = r THEN Append(OfRun(s, r), m) ELSE OfRun(s, r)
  <2> DEFINE u == Append(s, m)
             n == Len(s)
  <2>1. /\ u \in Seq(Message) /\ n \in Nat /\ Len(u) = n + 1
        /\ \A i \in 1..n : u[i] = s[i]
        /\ u[n + 1] = m
    OBVIOUS
  <2>. HIDE DEF u
  <2>2. PICK a \in [0..n -> Seq(Message)] :
           /\ a[0] = << >> /\ a[n] = OfRun(s, r)
           /\ \A i \in 1..n : a[i] = IF s[i].run = r THEN Append(a[i - 1], s[i]) ELSE a[i - 1]
    BY OwnMessages
  <2>3. PICK b \in [0..n + 1 -> Seq(Message)] :
           /\ b[0] = << >> /\ b[n + 1] = OfRun(u, r)
           /\ \A i \in 1..n + 1 :
                 b[i] = IF u[i].run = r THEN Append(b[i - 1], u[i]) ELSE b[i - 1]
    <3>1. \E b \in [0..Len(u) -> Seq(Message)] :
             /\ b[0] = << >> /\ b[Len(u)] = OfRun(u, r)
             /\ \A i \in 1..Len(u) :
                   b[i] = IF u[i].run = r THEN Append(b[i - 1], u[i]) ELSE b[i - 1]
      <4>1. u \in Seq(Message)
        BY <2>1
      <4>. QED
        BY <4>1, OwnMessages
    <3>. QED
      BY <2>1, <3>1
  <2>. HIDE DEF n
  <2>4. a[n] = b[n]
    <3>1. ASSUME NEW i \in 1..n, a[i - 1] = b[i - 1]
          PROVE  a[i] = b[i]
      <4>1. i \in 1..n + 1 /\ u[i] = s[i]
        BY <2>1
      <4>. QED
        BY <2>2, <2>3, <3>1, <4>1
    <3>2. a[0] = b[0]
      BY <2>2, <2>3
    <3>. QED
      BY <2>1, <3>1, <3>2, SameSums
  <2>5. b[n + 1] = IF m.run = r THEN Append(b[n], m) ELSE b[n]
    <3>1. PICK j \in 1..n + 1 : j = n + 1 /\ j - 1 = n
      BY <2>1
    <3>2. b[j] = IF u[j].run = r THEN Append(b[j - 1], u[j]) ELSE b[j - 1]
      BY <2>3
    <3>. QED
      BY <2>1, <3>1, <3>2
  <2>6. a[n] \in Seq(Message)
    BY <2>1, <2>2
  <2>. QED
    BY <2>2, <2>3, <2>4, <2>5, <2>6 DEF u
<1>. QED
  BY <1>1, <1>2

-----------------------------------------------------------------------------
(* What trimming keeps *)

\* MemoryContext.to_messages goes through the history from its newest message to its
\* oldest.
LEMMA TrimmedStepwise ==
    ASSUME NEW s \in Seq(ContextItem)
    PROVE  \E kept \in [1..Len(s) + 1 -> Seq(ContextItem)] :
              /\ kept[Len(s) + 1] = << >> /\ kept[1] = Trimmed(s)
              /\ \A i \in 1..Len(s) :
                    kept[i] = IF Fits(s[i], kept[i + 1]) THEN <<s[i]>> \o kept[i + 1]
                                                         ELSE kept[i + 1]
<1> DEFINE n == Len(s)
           h == TrimTable(s)
           step == [p \in (1..n) \X Seq(ContextItem) |->
                      IF Fits(s[p[1]], p[2]) THEN <<s[p[1]]>> \o p[2] ELSE p[2]]
<1>1. n \in Nat /\ DOMAIN s = 1..n /\ \A i \in 1..n : s[i] \in ContextItem
  OBVIOUS
<1>. HIDE DEF n
<1>2. \A i \in 1..n, v \in Seq(ContextItem) :
         step[<<i, v>>] = IF Fits(s[i], v) THEN <<s[i]>> \o v ELSE v
  OBVIOUS
<1>3. step \in [(1..n) \X Seq(ContextItem) -> Seq(ContextItem)]
  <2>1. ASSUME NEW p \in (1..n) \X Seq(ContextItem)
        PROVE  (IF Fits(s[p[1]], p[2]) THEN <<s[p[1]]>> \o p[2] ELSE p[2]) \in Seq(ContextItem)
    <3>1. s[p[1]] \in ContextItem /\ p[2] \in Seq(ContextItem)
      BY <1>1
    <3>2. <<s[p[1]]>> \o p[2] \in Seq(ContextItem)
      BY <3>1
    <3>. QED
      BY <3>1, <3>2
  <2>. QED
    BY <2>1
<1>. HIDE DEF step
<1>4. << >> \in Seq(ContextItem)
  OBVIOUS
<1>5. PICK g \in [SUBSET (1..n) -> Seq(ContextItem)] : FromRight(step, << >>, g, n)
  BY <1>1, <1>3, <1>4, RightTable
<1>6. ASSUME NEW S \in SUBSET (1..n)
      PROVE  g[S] = TrimEntry(s, g, S)
  <2>1. CASE S = {}
    BY <1>5, <2>1 DEF TrimEntry, FromRight
  <2>2. CASE S # {}
    <3>1. Min(S) \in 1..n /\ S \ {Min(S)} \in SUBSET (1..n)
      BY <1>1, <2>2, FirstAndLast
    <3>2. g[S \ {Min(S)}] \in Seq(ContextItem)
      BY <3>1
    <3>3. g[S] = step[<<Min(S), g[S \ {Min(S)}]>>]
      BY <1>5, <2>2 DEF FromRight
    <3>4. step[<<Min(S), g[S \ {Min(S)}]>>] =
             IF Fits(s[Min(S)], g[S \ {Min(S)}])
             THEN <<s[Min(S)]>> \o g[S \ {Min(S)}] ELSE g[S \ {Min(S)}]
      BY <1>2, <3>1, <3>2
    <3>. QED
      BY <2>2, <3>3, <3>4 DEF TrimEntry
  <2>. QED
    BY <2>1, <2>2
<1>7. g = [S \in SUBSET DOMAIN s |-> TrimEntry(s, g, S)]
  BY <1>1, <1>6
<1>8. h = [S \in SUBSET DOMAIN s |-> TrimEntry(s, h, S)]
  BY <1>7 DEF TrimTable
<1>. HIDE DEF h
<1>9. h[{}] = << >>
  BY <1>8 DEF TrimEntry
<1>10. ASSUME NEW i \in 1..n
       PROVE  h[i..n] = IF Fits(s[i], h[i + 1..n]) THEN <<s[i]>> \o h[i + 1..n] ELSE h[i + 1..n]
  <2>1. Min(i..n) = i /\ (i..n) \ {i} = i + 1..n
    BY <1>1, FirstOfLast
  <2>2. i..n \in SUBSET DOMAIN s /\ i..n # {}
    <3>1. i \in i..n /\ \A j \in i..n : j \in 1..n
      BY <1>1
    <3>. QED
      BY <1>1, <3>1
  <2>. QED
    BY <1>8, <2>1, <2>2 DEF TrimEntry
<1> DEFINE P == {i \in 1..n + 1 : h[i..n] \in Seq(ContextItem)}
<1>11. n + 1 \in P /\ h[n + 1..n] = << >>
  <2>1. n + 1..n = {} /\ n + 1 \in 1..n + 1
    BY <1>1
  <2>2. h[n + 1..n] = << >>
    BY <1>9, <2>1
  <2>. QED
    BY <1>4, <2>1, <2>2
<1>12. ASSUME NEW i \in 1..n, i + 1 \in P
       PROVE  i \in P
  <2>1. h[i + 1..n] \in Seq(ContextItem) /\ s[i] \in ContextItem
    BY <1>1, <1>12
  <2>2. <<s[i]>> \o h[i + 1..n] \in Seq(ContextItem)
    BY <2>1
  <2>3. h[i..n] \in Seq(ContextItem)
    BY <1>10, <2>1, <2>2
  <2>. QED
    BY <1>1, <2>3
<1>13. P = 1..n + 1
  <2>1. P \in SUBSET (1..n + 1)
    OBVIOUS
  <2>2. n + 1 \in P
    BY <1>11
  <2>. HIDE DEF P
  <2>. QED
    BY <1>1, <1>12, <2>1, <2>2, Downwards
<1> DEFINE kept == [i \in 1..n + 1 |-> h[i..n]]
<1>14. kept \in [1..n + 1 -> Seq(ContextItem)]
  BY <1>13
<1>15. kept[n + 1] = << >> /\ kept[1] = Trimmed(s)
  <2>1. 1 \in 1..n + 1 /\ n + 1 \in 1..n + 1
    BY <1>1
  <2>2. Trimmed(s) = h[1..n]
    BY <1>1, FoldsAreTables DEF h
  <2>. QED
    BY <1>11, <2>1, <2>2
<1>16. ASSUME NEW i \in 1..n
       PROVE  kept[i] = IF Fits(s[i], kept[i + 1]) THEN <<s[i]>> \o kept[i + 1] ELSE kept[i + 1]
  <2>1. i \in 1..n + 1 /\ i + 1 \in 1..n + 1
    BY <1>1
  <2>2. kept[i] = h[i..n] /\ kept[i + 1] = h[i + 1..n]
    BY <2>1
  <2>. HIDE DEF kept
  <2>. QED
    BY <1>10, <2>2
<1>. QED
  <2>. HIDE DEF kept
  <2>. QED
    BY <1>14, <1>15, <1>16 DEF n

\* A trimmed history is one message or within the budget, consists of what was there,
\* and has the newest.
TrimmedWell(kept, s) ==
    /\ Len(kept) <= 1 \/ SnapshotSize + TotalSize(kept) <= MaxChars
    /\ \A k \in DOMAIN kept : \E j \in DOMAIN s : kept[k] = s[j]

\* Keeping one message more, if it fits, keeps the history trimmed well.
LEMMA TrimOneMore ==
    ASSUME NEW s \in Seq(ContextItem), NEW i \in DOMAIN s, NEW kept \in Seq(ContextItem),
           TrimmedWell(kept, s), Fits(s[i], kept)
    PROVE  TrimmedWell(<<s[i]>> \o kept, s)
<1> DEFINE m == s[i]
           more == <<m>> \o kept
<1>1. m \in ContextItem /\ <<m>> \in Seq(ContextItem)
  OBVIOUS
<1>2. /\ Len(more) = Len(kept) + 1 /\ Len(kept) \in Nat
      /\ \A k \in DOMAIN more : more[k] = m \/ \E l \in DOMAIN kept : more[k] = kept[l]
  BY <1>1
<1>3. TotalSize(more) = m.size + TotalSize(kept) /\ TotalSize(kept) \in Nat /\ m.size \in Nat
  BY <1>1, SizeOfConcat, SizeOfOne, ItemSizes
<1>4. Len(more) <= 1 \/ SnapshotSize + TotalSize(more) <= MaxChars
  <2>1. CASE kept = << >>
    <3>1. Len(kept) = 0
      BY <2>1
    <3>. QED
      BY <1>2, <3>1
  <2>2. CASE SnapshotSize + TotalSize(kept) + m.size <= MaxChars
    <3>. HIDE DEF m, more
    <3>. QED
      BY <1>3, <2>2, MemoryAssumption
  <2>. QED
    BY <2>1, <2>2 DEF Fits
<1>5. \A k \in DOMAIN more : \E j \in DOMAIN s : more[k] = s[j]
  <2>. HIDE DEF more
  <2>. QED
    BY <1>2 DEF TrimmedWell
<1>. QED
  BY <1>4, <1>5 DEF TrimmedWell

\* What MemoryContext.to_messages makes of a history of any length.
LEMMA TrimmedIs ==
    ASSUME NEW s \in Seq(ContextItem)
    PROVE  /\ Trimmed(s) \in Seq(ContextItem) /\ TrimmedWell(Trimmed(s), s)
           /\ s # << >> => \E k \in DOMAIN Trimmed(s) : Trimmed(s)[k] = s[Len(s)]
<1> DEFINE n == Len(s)
           Newest(kept) == \E k \in DOMAIN kept : kept[k] = s[n]
<1>1. n \in Nat /\ DOMAIN s = 1..n /\ (s # << >> => n > 0)
  OBVIOUS
<1>2. PICK kept \in [1..n + 1 -> Seq(ContextItem)] :
         /\ kept[n + 1] = << >> /\ kept[1] = Trimmed(s)
         /\ \A i \in 1..n :
               kept[i] = IF Fits(s[i], kept[i + 1]) THEN <<s[i]>> \o kept[i + 1] ELSE kept[i + 1]
  BY TrimmedStepwise
<1>. HIDE DEF n, Newest
<1> DEFINE P == {i \in 1..n + 1 : TrimmedWell(kept[i], s) /\ (i <= n => Newest(kept[i]))}
<1>3. n + 1 \in P
  <2>1. TrimmedWell(<< >>, s)
    BY DEF TrimmedWell
  <2>2. n + 1 \in 1..n + 1 /\ ~ (n + 1 <= n)
    BY <1>1
  <2>. QED
    BY <1>2, <2>1, <2>2
<1>4. ASSUME NEW i \in 1..n, i + 1 \in P
      PROVE  i \in P
  <2>1. /\ kept[i + 1] \in Seq(ContextItem) /\ TrimmedWell(kept[i + 1], s)
        /\ i + 1 <= n => Newest(kept[i + 1])
        /\ i \in 1..n + 1 /\ i \in DOMAIN s /\ i + 1 \in 1..n + 1
    BY <1>1, <1>2, <1>4
  <2>2. kept[i] = IF Fits(s[i], kept[i + 1]) THEN <<s[i]>> \o kept[i + 1] ELSE kept[i + 1]
    BY <1>2
  <2>3. TrimmedWell(kept[i], s)
    BY <2>1, <2>2, TrimOneMore
  <2>4. Newest(kept[i])
    <3>1. CASE i = n
      <4>1. kept[i + 1] = << >>
        BY <1>2, <3>1
      <4>2. Fits(s[i], kept[i + 1])
        BY <4>1 DEF Fits
      <4>3. kept[i] = <<s[n]>>
        BY <2>2, <3>1, <4>1, <4>2
      <4>. QED
        BY <4>3 DEF Newest
    <3>2. CASE i # n
      <4>1. i + 1 <= n
        BY <1>1, <3>2
      <4>2. PICK k \in DOMAIN kept[i + 1] : kept[i + 1][k] = s[n]
        BY <2>1, <4>1 DEF Newest
      <4>3. CASE Fits(s[i], kept[i + 1])
        <5>1. /\ k + 1 \in DOMAIN (<<s[i]>> \o kept[i + 1])
              /\ (<<s[i]>> \o kept[i + 1])[k + 1] = kept[i + 1][k]
          BY <2>1, <4>2
        <5>. QED
          BY <2>2, <4>2, <4>3, <5>1 DEF Newest
      <4>4. CASE ~ Fits(s[i], kept[i + 1])
        BY <2>2, <4>2, <4>4 DEF Newest
      <4>. QED
        BY <4>3, <4>4
    <3>. QED
      BY <3>1, <3>2
  <2>. QED
    BY <2>1, <2>3, <2>4
<1>5. 1 \in P
  <2>1. P \in SUBSET (1..n + 1)
    OBVIOUS
  <2>2. P = 1..n + 1
    <3>. HIDE DEF P
    <3>. QED
      BY <1>1, <1>3, <1>4, <2>1, Downwards
  <2>3. 1 \in 1..n + 1
    BY <1>1
  <2>. QED
    BY <2>2, <2>3
<1>6. 1 \in 1..n + 1 /\ (s # << >> => 1 <= n)
  BY <1>1
<1>. QED
  BY <1>2, <1>5, <1>6 DEF Newest, n

-----------------------------------------------------------------------------
(* The context of a run *)

\* What an item of a context tells was said by agent a.
SaidBy(m, a) ==
    /\ IsMessage(m) => m.from = a
    /\ IsSummary(m) => \A j \in DOMAIN m.summary : m.summary[j].from = a

\* Messages, summaries and snapshots are told apart by their fields.
LEMMA Kinds ==
    /\ \A m \in Message : IsMessage(m) /\ ~ IsSummary(m)
    /\ ~ IsMessage(Snapshot) /\ ~ IsSummary(Snapshot) /\ Snapshot \in ContextItem
    /\ \A messages \in Seq(Message) :
          /\ ~ IsMessage(Summary(messages)) /\ Summary(messages).summary = messages
          /\ Summary(messages) \in ContextItem
<1>1. \A m \in Message : IsMessage(m) /\ ~ IsSummary(m)
  BY DEF Message, IsMessage, IsSummary
<1>2. ~ IsMessage(Snapshot) /\ ~ IsSummary(Snapshot) /\ Snapshot \in ContextItem
  BY DEF Snapshot, IsMessage, IsSummary, ContextItem
<1>3. ASSUME NEW messages \in Seq(Message)
      PROVE  /\ ~ IsMessage(Summary(messages)) /\ Summary(messages).summary = messages
             /\ Summary(messages) \in ContextItem
  BY DEF Summary, IsMessage, ContextItem
<1>. QED
  BY <1>1, <1>2, <1>3

\* The last n items of a sequence, of which the newest is one.
LEMMA LastNIs ==
    ASSUME NEW s \in Seq(Message), NEW n \in Nat \ {0}
    PROVE  /\ LastN(s, n) \in Seq(Message) /\ Len(LastN(s, n)) <= Len(s)
           /\ \A k \in DOMAIN LastN(s, n) : \E j \in DOMAIN s : LastN(s, n)[k] = s[j]
           /\ s # << >> => /\ LastN(s, n) # << >>
                           /\ LastN(s, n)[Len(LastN(s, n))] = s[Len(s)]
<1> DEFINE l == Len(s)
           from == (IF l > n THEN l - n ELSE 0) + 1
           t == LastN(s, n)
<1>1. l \in Nat /\ from \in Nat /\ from >= 1 /\ from <= l + 1 /\ (l > 0 => from <= l)
  OBVIOUS
<1>2. t = SubSeq(s, from, l)
  BY DEF LastN
<1>3. DOMAIN s = 1..l /\ (s # << >> => l > 0) /\ \A i \in from..l : s[i] \in Message
  OBVIOUS
<1>. HIDE DEF from, l, t
<1>4. /\ t \in Seq(Message) /\ Len(t) = IF from <= l THEN l - from + 1 ELSE 0
      /\ \A k \in 1..l - from + 1 : t[k] = s[from + k - 1]
  BY <1>1, <1>2, <1>3, SubSeqProperties
<1>5. Len(t) = l - from + 1 /\ DOMAIN t = 1..l - from + 1
  BY <1>1, <1>4
<1>6. ASSUME NEW k \in DOMAIN t
      PROVE  \E j \in DOMAIN s : t[k] = s[j]
  <2>1. from + k - 1 \in DOMAIN s /\ t[k] = s[from + k - 1]
    BY <1>1, <1>3, <1>4, <1>5
  <2>. QED
    BY <2>1
<1>7. ASSUME s # << >>
      PROVE  t # << >> /\ t[Len(t)] = s[l]
  <2>1. from <= l /\ l > 0
    BY <1>1, <1>3, <1>7
  <2>2. Len(t) \in 1..l - from + 1 /\ from + Len(t) - 1 = l
    BY <1>1, <1>5, <2>1
  <2>3. Len(t) # 0
    BY <2>2
  <2>. QED
    BY <1>4, <2>2, <2>3
<1>. QED
  BY <1>1, <1>4, <1>5, <1>6, <1>7 DEF t, l

\* MemoryContextBuilder.build: every item of what it makes of a history is a message of
\* that history or a summary of some, and the newest message comes last.
LEMMA HistoryMessagesAre ==
    ASSUME NEW history \in Seq(Message)
    PROVE  LET items_ == HistoryMessages(history)
           IN  /\ items_ \in Seq(ContextItem)
               /\ \A a : (\A j \in DOMAIN history : history[j].from = a)
                            => \A k \in DOMAIN items_ : SaidBy(items_[k], a)
               /\ WithHistory /\ history # << >> =>
                     items_ # << >> /\ items_[Len(items_)] = history[Len(history)]
<1> DEFINE recent == Recent(history)
           older == Older(history)
           chosen == LastN(older, MaxSummarized)
           summarized == Summarized(history)
           made == HistoryMessages(history)
           Said(s, a) == \A j \in DOMAIN s : s[j].from = a
<1>1. /\ recent \in Seq(Message) /\ Len(recent) <= Len(history)
      /\ \A k \in DOMAIN recent : \E j \in DOMAIN history : recent[k] = history[j]
      /\ history # << >> => recent # << >> /\ recent[Len(recent)] = history[Len(history)]
  BY LastNIs, MemoryAssumption DEF Recent
<1>2. /\ older \in Seq(Message)
      /\ \A k \in DOMAIN older : \E j \in DOMAIN history : older[k] = history[j]
  <2> DEFINE n == Len(history) - Len(recent)
  <2>1. n \in Nat /\ n <= Len(history) /\ older = SubSeq(history, 1, n)
    BY <1>1 DEF Older
  <2>. HIDE DEF n, older, recent
  <2>2. /\ SubSeq(history, 1, n) \in Seq(Message) /\ Len(SubSeq(history, 1, n)) = n
        /\ \A k \in 1..n : SubSeq(history, 1, n)[k] = history[k]
    BY <2>1
  <2>3. DOMAIN older = 1..n /\ \A k \in 1..n : k \in DOMAIN history
    BY <2>1, <2>2
  <2>. QED
    BY <2>1, <2>2, <2>3
<1>3. /\ chosen \in Seq(Message)
      /\ \A k \in DOMAIN chosen : \E j \in DOMAIN older : chosen[k] = older[j]
  <2>. HIDE DEF older
  <2>. QED
    BY <1>2, LastNIs, MemoryAssumption
<1>4. /\ summarized \in Seq(ContextItem)
      /\ \A a : Said(history, a) => \A k \in DOMAIN summarized : SaidBy(summarized[k], a)
  <2>1. summarized = IF older = << >> THEN << >> ELSE <<Summary(chosen)>>
    BY DEF Summarized
  <2>. HIDE DEF older, chosen, summarized
  <2>2. Summary(chosen) \in ContextItem
    BY <1>3, Kinds
  <2>3. ASSUME NEW a, Said(history, a)
        PROVE  SaidBy(Summary(chosen), a)
    <3>1. Said(chosen, a)
      BY <1>2, <1>3, <2>3
    <3>. QED
      BY <1>3, <3>1, Kinds DEF SaidBy
  <2>. HIDE DEF Said
  <2>4. CASE older = << >>
    BY <2>1, <2>4
  <2>5. CASE older # << >>
    <3>1. summarized = <<Summary(chosen)>>
      BY <2>1, <2>5
    <3>2. summarized \in Seq(ContextItem) /\ DOMAIN summarized = {1}
      BY <2>2, <3>1
    <3>3. summarized[1] = Summary(chosen)
      BY <3>1
    <3>. QED
      BY <2>3, <3>2, <3>3
  <2>. QED
    BY <2>4, <2>5
<1>5. recent \in Seq(ContextItem)
  <2>. HIDE DEF recent
  <2>. QED
    BY <1>1, ItemSizes
<1>6. ASSUME NEW a, Said(history, a)
      PROVE  \A k \in DOMAIN recent : SaidBy(recent[k], a)
  <2>. HIDE DEF recent
  <2>1. ASSUME NEW k \in DOMAIN recent
        PROVE  SaidBy(recent[k], a)
    <3>1. recent[k] \in Message /\ recent[k].from = a
      BY <1>1, <1>6
    <3>. QED
      BY <3>1, Kinds DEF SaidBy
  <2>. QED
    BY <2>1
<1>7. made = IF WithHistory THEN summarized \o recent ELSE << >>
  BY DEF HistoryMessages
<1>. HIDE DEF recent, summarized, made, Said
<1>8. /\ made \in Seq(ContextItem)
      /\ \A k \in DOMAIN made : \/ \E j \in DOMAIN summarized : made[k] = summarized[j]
                                \/ \E j \in DOMAIN recent : made[k] = recent[j]
      /\ WithHistory /\ recent # << >> => made # << >> /\ made[Len(made)] = recent[Len(recent)]
  <2>1. CASE WithHistory
    <3>1. /\ made \in Seq(ContextItem) /\ Len(made) = Len(summarized) + Len(recent)
          /\ \A k \in 1..Len(made) : made[k] = IF k <= Len(summarized) THEN summarized[k]
                                               ELSE recent[k - Len(summarized)]
      BY <1>4, <1>5, <1>7, <2>1, ConcatProperties
    <3>2. /\ Len(summarized) \in Nat /\ Len(recent) \in Nat /\ DOMAIN made = 1..Len(made)
          /\ DOMAIN summarized = 1..Len(summarized) /\ DOMAIN recent = 1..Len(recent)
          /\ recent # << >> => Len(recent) > 0
      BY <1>4, <1>5, <3>1
    <3>3. ASSUME NEW k \in DOMAIN made
          PROVE  \/ \E j \in DOMAIN summarized : made[k] = summarized[j]
                 \/ \E j \in DOMAIN recent : made[k] = recent[j]
      <4>1. CASE k <= Len(summarized)
        BY <3>1, <3>2, <4>1
      <4>2. CASE ~ (k <= Len(summarized))
        <5>1. k - Len(summarized) \in DOMAIN recent /\ made[k] = recent[k - Len(summarized)]
          BY <3>1, <3>2, <4>2
        <5>. QED
          BY <5>1
      <4>. QED
        BY <4>1, <4>2
    <3>4. ASSUME recent # << >>
          PROVE  made # << >> /\ made[Len(made)] = recent[Len(recent)]
      <4>1. /\ Len(made) \in 1..Len(made) /\ ~ (Len(made) <= Len(summarized))
            /\ Len(made) - Len(summarized) = Len(recent) /\ Len(made) # 0
        BY <3>1, <3>2, <3>4
      <4>. QED
        BY <3>1, <4>1
    <3>. QED
      BY <3>1, <3>3, <3>4
  <2>2. CASE ~ WithHistory
    <3>1. made = << >>
      BY <1>7, <2>2
    <3>. QED
      BY <2>2, <3>1
  <2>. QED
    BY <2>1, <2>2
<1>9. ASSUME NEW a, Said(history, a)
      PROVE  \A k \in DOMAIN made : SaidBy(made[k], a)
  BY <1>4, <1>6, <1>8, <1>9
<1>. QED
  BY <1>1, <1>8, <1>9 DEF made, Said

\* The context ContextSound asks of the first k - 1 items of a run's messages.
RunSound(c, k, r) ==
    LET before == SubSeq(c, 1, k - 1)
        history == SubSeq(before, Len(DomainMessages) + 1, Len(before))
    IN  /\ Len(history) <= 1 \/ TotalSize(before) <= MaxChars
        /\ IsPrefix(DomainMessages, before)
        /\ \A i \in k..Len(c) : IsMessage(c[i]) /\ c[i].run = r

\* MemoryContext.to_messages: the snapshot, then the trimmed history, together within
\* the budget; it tells what the agent's history tells and includes its newest message.
LEMMA ContextIs ==
    ASSUME NEW history \in Seq(Message)
    PROVE  LET c == Context(history)
               kept == SubSeq(c, Len(DomainMessages) + 1, Len(c))
           IN  /\ c \in Seq(ContextItem)
               /\ Len(kept) <= 1 \/ TotalSize(c) <= MaxChars
               /\ IsPrefix(DomainMessages, c)
               /\ \A a : (\A j \in DOMAIN history : history[j].from = a)
                            => \A k \in DOMAIN c : SaidBy(c[k], a)
               /\ WithHistory /\ history # << >> =>
                     \E k \in DOMAIN c : c[k] = history[Len(history)]
<1> DEFINE d == DomainMessages
           all == HistoryMessages(history)
           kept == Trimmed(all)
           c == Context(history)
           Said(s, a) == \A j \in DOMAIN s : s[j].from = a
           AllSaid(s, a) == \A k \in DOMAIN s : SaidBy(s[k], a)
<1>1. /\ all \in Seq(ContextItem)
      /\ \A a : Said(history, a) => AllSaid(all, a)
      /\ WithHistory /\ history # << >> => all # << >> /\ all[Len(all)] = history[Len(history)]
  BY HistoryMessagesAre
<1>2. /\ kept \in Seq(ContextItem)
      /\ Len(kept) <= 1 \/ SnapshotSize + TotalSize(kept) <= MaxChars
      /\ \A k \in DOMAIN kept : \E j \in DOMAIN all : kept[k] = all[j]
      /\ all # << >> => \E k \in DOMAIN kept : kept[k] = all[Len(all)]
  <2>. HIDE DEF all
  <2>. QED
    BY <1>1, TrimmedIs DEF TrimmedWell
<1>3. /\ d \in Seq(ContextItem) /\ Len(d) \in Nat
      /\ TotalSize(d) = SnapshotSize
      /\ \A k \in DOMAIN d : d[k] = Snapshot
  <2>1. CASE SnapshotSize > 0
    <3>1. d = <<Snapshot>> /\ Snapshot \in ContextItem /\ Snapshot.size = SnapshotSize
      BY <2>1, Kinds DEF DomainMessages, Snapshot
    <3>. QED
      BY <3>1, SizeOfOne
  <2>2. CASE ~ (SnapshotSize > 0)
    <3>1. d = << >> /\ SnapshotSize = 0
      BY <2>2, MemoryAssumption DEF DomainMessages
    <3>. QED
      BY <3>1, SizeOfOne
  <2>. QED
    BY <2>1, <2>2
<1>4. c = d \o kept
  BY DEF Context
<1>. HIDE DEF d, all, kept, c
<1>5. /\ c \in Seq(ContextItem) /\ Len(c) = Len(d) + Len(kept)
      /\ \A i \in 1..Len(c) : c[i] = IF i <= Len(d) THEN d[i] ELSE kept[i - Len(d)]
      /\ Len(d) \in Nat /\ Len(kept) \in Nat
      /\ DOMAIN c = 1..Len(c) /\ DOMAIN d = 1..Len(d) /\ DOMAIN kept = 1..Len(kept)
  BY <1>2, <1>3, <1>4, ConcatProperties
<1>6. TotalSize(c) = SnapshotSize + TotalSize(kept)
  BY <1>2, <1>3, <1>4, SizeOfConcat
<1>7. SubSeq(c, Len(d) + 1, Len(c)) \in Seq(ContextItem) /\ Len(SubSeq(c, Len(d) + 1, Len(c))) = Len(kept)
  <2>1. \A i \in Len(d) + 1..Len(c) : c[i] \in ContextItem
    BY <1>5
  <2>2. /\ SubSeq(c, Len(d) + 1, Len(c)) \in Seq(ContextItem)
        /\ Len(SubSeq(c, Len(d) + 1, Len(c))) =
              IF Len(d) + 1 <= Len(c) THEN Len(c) - (Len(d) + 1) + 1 ELSE 0
    <3>1. Len(d) + 1 \in Int /\ Len(c) \in Int
      BY <1>5
    <3>. QED
      BY <2>1, <3>1, SubSeqProperties
  <2>. QED
    BY <1>5, <2>2
<1>8. IsPrefix(d, c)
  <2>1. SubSeq(d, 1, Len(d)) = SubSeq(c, 1, Len(d))
    BY <1>3, <1>5
  <2>. QED
    BY <1>5, <2>1 DEF IsPrefix
<1>9. ASSUME NEW a, Said(history, a)
      PROVE  AllSaid(c, a)
  <2>1. AllSaid(all, a)
    BY <1>1, <1>9
  <2>2. ASSUME NEW k \in DOMAIN c
        PROVE  SaidBy(c[k], a)
    <3>1. CASE k <= Len(d)
      <4>1. c[k] = Snapshot
        BY <1>3, <1>5, <3>1
      <4>. QED
        BY <4>1, Kinds DEF SaidBy
    <3>2. CASE ~ (k <= Len(d))
      <4>1. k - Len(d) \in DOMAIN kept /\ c[k] = kept[k - Len(d)]
        BY <1>5, <3>2
      <4>2. PICK j \in DOMAIN all : c[k] = all[j]
        BY <1>2, <4>1
      <4>. QED
        BY <2>1, <4>2
    <3>. QED
      BY <3>1, <3>2
  <2>. QED
    BY <2>2
<1>10. ASSUME WithHistory, history # << >>
       PROVE  \E k \in DOMAIN c : c[k] = history[Len(history)]
  <2>1. PICK k \in DOMAIN kept : kept[k] = history[Len(history)]
    BY <1>1, <1>2, <1>10
  <2>2. PICK j \in DOMAIN c : ~ (j <= Len(d)) /\ j - Len(d) = k
    <3>1. k \in 1..Len(kept)
      BY <1>5
    <3>2. Len(d) + k \in 1..Len(c) /\ ~ (Len(d) + k <= Len(d)) /\ Len(d) + k - Len(d) = k
      BY <1>5, <3>1
    <3>. QED
      BY <1>5, <3>2
  <2>3. c[j] = kept[k]
    BY <1>5, <2>2
  <2>. QED
    BY <2>1, <2>3
<1>11. Len(SubSeq(c, Len(d) + 1, Len(c))) <= 1 \/ TotalSize(c) <= MaxChars
  BY <1>2, <1>6, <1>7
<1>. HIDE DEF Said, AllSaid
<1>12. \A a : Said(history, a) => AllSaid(c, a)
  BY <1>9
<1>. QED
  BY <1>5, <1>8, <1>10, <1>11, <1>12 DEF d, c, Said, AllSaid

\* A run starts from a sound context, and its task is its own.
LEMMA SoundAtStart ==
    ASSUME NEW history \in Seq(Message), NEW r, NEW task \in Message, task.run = r
    PROVE  LET c == Append(Context(history), task)
           IN  c \in Seq(ContextItem) /\ Len(c) \in Nat \ {0} /\ RunSound(c, Len(c), r)
<1> DEFINE x == Context(history)
           c == Append(x, task)
           d == DomainMessages
<1>1. /\ x \in Seq(ContextItem) /\ IsPrefix(d, x)
      /\ Len(SubSeq(x, Len(d) + 1, Len(x))) <= 1 \/ TotalSize(x) <= MaxChars
  BY ContextIs
<1>2. task \in ContextItem /\ IsMessage(task)
  BY ItemSizes, Kinds
<1>. HIDE DEF x, d
<1>3. /\ c \in Seq(ContextItem) /\ Len(c) = Len(x) + 1 /\ Len(x) \in Nat
      /\ c[Len(c)] = task /\ SubSeq(c, 1, Len(c) - 1) = x
  BY <1>1, <1>2
<1>. HIDE DEF c
<1>4. \A i \in Len(c)..Len(c) : IsMessage(c[i]) /\ c[i].run = r
  BY <1>2, <1>3
<1>5. RunSound(c, Len(c), r)
  BY <1>1, <1>3, <1>4 DEF RunSound, d
<1>6. Len(c) \in Nat \ {0}
  BY <1>3
<1>. QED
  BY <1>3, <1>5, <1>6 DEF c, x

\* What a run appends leaves its context alone.
LEMMA SoundAfter ==
    ASSUME NEW c \in Seq(ContextItem), NEW k \in 1..Len(c), NEW r, RunSound(c, k, r),
           NEW m \in Message, m.run = r
    PROVE  /\ Append(c, m) \in Seq(ContextItem) /\ k \in 1..Len(Append(c, m))
           /\ RunSound(Append(c, m), k, r)
<1> DEFINE e == Append(c, m)
<1>1. m \in ContextItem /\ IsMessage(m)
  BY ItemSizes, Kinds
<1>2. /\ e \in Seq(ContextItem) /\ Len(e) = Len(c) + 1 /\ Len(c) \in Nat
      /\ \A i \in 1..Len(c) : e[i] = c[i]
      /\ e[Len(c) + 1] = m
  BY <1>1
<1>3. SubSeq(e, 1, k - 1) = SubSeq(c, 1, k - 1)
  BY <1>1
<1>. HIDE DEF e
<1>4. ASSUME NEW i \in k..Len(e)
      PROVE  IsMessage(e[i]) /\ e[i].run = r
  <2>1. CASE i \in 1..Len(c)
    <3>1. i \in k..Len(c) /\ e[i] = c[i]
      BY <1>2, <2>1
    <3>. QED
      BY <3>1 DEF RunSound
  <2>2. CASE i \notin 1..Len(c)
    <3>1. i = Len(c) + 1
      BY <1>2, <2>2
    <3>. QED
      BY <1>1, <1>2, <3>1
  <2>. QED
    BY <2>1, <2>2
<1>5. RunSound(e, k, r)
  BY <1>3, <1>4 DEF RunSound
<1>6. k \in 1..Len(e)
  BY <1>2
<1>. QED
  BY <1>2, <1>5, <1>6 DEF e

-----------------------------------------------------------------------------
(* Overlapping runs *)

\* Histories hold what their own agent said, and runs have messages of their own from
\* their task on.
Owned == \A a \in Agents : \A i \in DOMAIN items[a] : items[a][i].from = a

Begun ==
    \A r \in Runs :
        /\ state[r] = "new" => OfRun(items[MemoryKey(r)], r) = << >>
        /\ state[r] # "new" => start[r] \in 1..Len(conversation[r])

MemoryInv == MemoryTypeOK /\ Owned /\ Begun /\ ContextSound /\ HistoryComplete

\* What a run knows was said by its agent, if all its items tell so; and an item is known.
LEMMA KnownIs ==
    ASSUME MemoryTypeOK, NEW r \in Runs, NEW a
    PROVE  /\ (\A m \in Known(r) : m.from = a)
                 <=> \A k \in DOMAIN conversation[r] : SaidBy(conversation[r][k], a)
           /\ \A k \in DOMAIN conversation[r] :
                 IsMessage(conversation[r][k]) => conversation[r][k] \in Known(r)
  BY DEF Known, SaidBy

\* The same of the state after a step.
LEMMA KnownAfter ==
    ASSUME MemoryTypeOK', NEW r \in Runs, NEW a
    PROVE  /\ (\A m \in Known(r)' : m.from = a)
                 <=> \A k \in DOMAIN conversation'[r] : SaidBy(conversation'[r][k], a)
           /\ \A k \in DOMAIN conversation'[r] :
                 IsMessage(conversation'[r][k]) => conversation'[r][k] \in Known(r)'
  BY DEF Known, SaidBy

\* ContextSound, run by run.
LEMMA ContextSoundIs ==
    ContextSound <=> \A r \in Runs : state[r] # "new" => RunSound(conversation[r], start[r], r)
  BY DEF ContextSound, RunSound

\* A message is appended to a run and to its agent's history, and to nothing else.
Appends(r, m, c) ==
    /\ conversation' = [conversation EXCEPT ![r] = c]
    /\ items' = [items EXCEPT ![AgentOf[r]] = Append(@, m)]

\* Nothing of the histories is disturbed by a message of run r, but its own part.
LEMMA HistoriesAfter ==
    ASSUME MemoryInv, NEW r \in Runs, NEW m \in Message, m.from = AgentOf[r], m.run = r,
           NEW c, Appends(r, m, c)
    PROVE  /\ items' \in [Agents -> Seq(Message)]
           /\ Owned'
           /\ \A q \in Runs : q # r =>
                 OfRun(items[MemoryKey(q)], q)' = OfRun(items[MemoryKey(q)], q)
           /\ OfRun(items[MemoryKey(r)], r)' = Append(OfRun(items[MemoryKey(r)], r), m)
<1>1. items \in [Agents -> Seq(Message)] /\ AgentOf \in [Runs -> Agents]
  BY MemoryAssumption DEF MemoryInv, MemoryTypeOK
<1>2. \A a \in Agents : items'[a] = IF a = AgentOf[r] THEN Append(items[a], m) ELSE items[a]
  BY <1>1 DEF Appends
<1>3. items' \in [Agents -> Seq(Message)]
  BY <1>1 DEF Appends
<1>4. Owned'
  <2>1. ASSUME NEW a \in Agents, NEW i \in DOMAIN items'[a]
        PROVE  items'[a][i].from = a
    <3>1. items[a] \in Seq(Message) /\ \A j \in DOMAIN items[a] : items[a][j].from = a
      BY <1>1 DEF MemoryInv, Owned
    <3>2. CASE a = AgentOf[r]
      <4>1. items'[a] = Append(items[a], m) /\ m.from = a
        BY <1>2, <3>2
      <4>2. (i \in DOMAIN items[a] /\ items'[a][i] = items[a][i]) \/ items'[a][i] = m
        BY <2>1, <3>1, <4>1
      <4>. QED
        BY <3>1, <4>1, <4>2
    <3>3. CASE a # AgentOf[r]
      BY <1>2, <2>1, <3>1, <3>3
    <3>. QED
      BY <3>2, <3>3
  <2>. QED
    BY <2>1 DEF Owned
<1>5. ASSUME NEW q \in Runs
      PROVE  OfRun(items'[AgentOf[q]], q) =
                IF q = r THEN Append(OfRun(items[AgentOf[q]], q), m) ELSE OfRun(items[AgentOf[q]], q)
  <2>1. AgentOf[q] \in Agents /\ items[AgentOf[q]] \in Seq(Message)
    BY <1>1
  <2>2. CASE AgentOf[q] = AgentOf[r]
    <3>1. items'[AgentOf[q]] = Append(items[AgentOf[q]], m)
      BY <1>2, <2>1, <2>2
    <3>2. OfRun(Append(items[AgentOf[q]], m), q) =
             IF m.run = q THEN Append(OfRun(items[AgentOf[q]], q), m)
                          ELSE OfRun(items[AgentOf[q]], q)
      BY <2>1, OwnAppended
    <3>3. m.run = q <=> q = r
      OBVIOUS
    <3>. QED
      BY <3>1, <3>2, <3>3
  <2>3. CASE AgentOf[q] # AgentOf[r]
    <3>1. items'[AgentOf[q]] = items[AgentOf[q]] /\ q # r
      BY <1>2, <2>1, <2>3
    <3>. QED
      BY <3>1
  <2>. QED
    BY <2>2, <2>3
<1>. QED
  BY <1>3, <1>4, <1>5 DEF MemoryKey

\* A sequence from some position on, when one item is appended.
LEMMA TailAppended ==
    ASSUME NEW c \in Seq(ContextItem), NEW m \in ContextItem, NEW k \in 1..Len(c)
    PROVE  SubSeq(Append(c, m), k, Len(Append(c, m))) = Append(SubSeq(c, k, Len(c)), m)
<1> DEFINE e == Append(c, m)
           t == SubSeq(c, k, Len(c))
           u == SubSeq(e, k, Len(e))
<1>1. /\ e \in Seq(ContextItem) /\ Len(e) = Len(c) + 1 /\ Len(c) \in Nat
      /\ \A i \in 1..Len(c) : e[i] = c[i]
      /\ e[Len(c) + 1] = m /\ \A i \in k..Len(c) : c[i] \in ContextItem
  OBVIOUS
<1>. HIDE DEF e
<1>2. \A i \in k..Len(e) : e[i] \in ContextItem
  BY <1>1
<1>3. /\ t \in Seq(ContextItem) /\ Len(t) = Len(c) - k + 1
      /\ \A i \in 1..Len(c) - k + 1 : t[i] = c[k + i - 1]
  <2>1. k \in Int /\ Len(c) \in Int /\ k <= Len(c)
    BY <1>1
  <2>. QED
    BY <1>1, <2>1, SubSeqProperties
<1>4. /\ u \in Seq(ContextItem) /\ Len(u) = Len(e) - k + 1
      /\ \A i \in 1..Len(e) - k + 1 : u[i] = e[k + i - 1]
  <2>1. k \in Int /\ Len(e) \in Int /\ k <= Len(e)
    BY <1>1
  <2>. QED
    BY <1>2, <2>1, SubSeqProperties
<1>. HIDE DEF t, u
<1>5. /\ Append(t, m) \in Seq(ContextItem) /\ Len(Append(t, m)) = Len(t) + 1
      /\ \A i \in 1..Len(t) : Append(t, m)[i] = t[i]
      /\ Append(t, m)[Len(t) + 1] = m
  BY <1>3, AppendProperties
<1>6. Len(u) = Len(Append(t, m))
  BY <1>1, <1>3, <1>4, <1>5
<1>7. ASSUME NEW i \in 1..Len(u)
      PROVE  u[i] = Append(t, m)[i]
  <2>1. i \in 1..Len(e) - k + 1 /\ u[i] = e[k + i - 1]
    BY <1>4
  <2>2. CASE i <= Len(t)
    <3>1. i \in 1..Len(t) /\ i \in 1..Len(c) - k + 1 /\ k + i - 1 \in 1..Len(c)
      BY <1>1, <1>3, <2>1, <2>2
    <3>. QED
      BY <1>1, <1>3, <1>5, <2>1, <3>1
  <2>3. CASE ~ (i <= Len(t))
    <3>1. /\ i \in Int /\ k \in Int /\ Len(c) \in Int /\ Len(t) = Len(c) - k + 1
          /\ i <= Len(c) + 1 - k + 1 /\ ~ (i <= Len(t))
      BY <1>1, <1>3, <2>1, <2>3
    <3>2. i = Len(t) + 1 /\ k + i - 1 = Len(c) + 1
      BY <3>1
    <3>. QED
      BY <1>1, <1>5, <2>1, <3>2
  <2>. QED
    BY <2>2, <2>3
<1>8. u = Append(t, m)
  BY <1>4, <1>5, <1>6, <1>7, SeqEqual
<1>. QED
  BY <1>8 DEF u, t, e

\* Before the first run there is nothing.
LEMMA InitMemory == Init => MemoryInv
<1>. SUFFICES ASSUME Init PROVE MemoryInv
  OBVIOUS
<1>1. /\ items = [a \in Agents |-> << >>] /\ conversation = [r \in Runs |-> << >>]
      /\ start = [r \in Runs |-> 0] /\ state = [r \in Runs |-> "new"]
  BY DEF Init
<1>2. MemoryTypeOK
  <2>1. << >> \in Seq(Message) /\ << >> \in Seq(ContextItem)
    OBVIOUS
  <2>. QED
    BY <1>1, <2>1 DEF MemoryTypeOK
<1>3. Owned
  BY <1>1 DEF Owned
<1>4. ASSUME NEW r \in Runs
      PROVE  state[r] = "new" /\ OfRun(items[MemoryKey(r)], r) = << >>
  <2>1. items[MemoryKey(r)] = << >> /\ state[r] = "new"
    BY <1>1, MemoryAssumption DEF MemoryKey
  <2>. QED
    BY <2>1, OwnAppended
<1>5. Begun
  BY <1>4 DEF Begun
<1>6. ContextSound /\ HistoryComplete
  BY <1>4 DEF ContextSound, HistoryComplete
<1>. QED
  BY <1>2, <1>3, <1>5, <1>6 DEF MemoryInv

\* What a step of run r leaves of the other runs, and what it must do for its own.
LEMMA OneRun ==
    ASSUME MemoryInv, NEW r \in Runs, NEW m \in Message, m.from = AgentOf[r], m.run = r,
           NEW c \in Seq(ContextItem), Appends(r, m, c), MemoryTypeOK',
           \A q \in Runs : q # r => start'[q] = start[q] /\ state'[q] = state[q],
           state'[r] # "new", start'[r] \in 1..Len(c), RunSound(c, start'[r], r),
           \A k \in DOMAIN c : SaidBy(c[k], AgentOf[r]),
           SubSeq(c, start'[r], Len(c)) = Append(OfRun(items[MemoryKey(r)], r), m)
    PROVE  MemoryInv'
<1>1. conversation \in [Runs -> Seq(ContextItem)]
  BY DEF MemoryInv, MemoryTypeOK
<1>2. conversation'[r] = c /\ \A q \in Runs : q # r => conversation'[q] = conversation[q]
  BY <1>1 DEF Appends
<1>3. /\ Owned'
      /\ \A q \in Runs : q # r =>
            OfRun(items[MemoryKey(q)], q)' = OfRun(items[MemoryKey(q)], q)
      /\ OfRun(items[MemoryKey(r)], r)' = Append(OfRun(items[MemoryKey(r)], r), m)
  BY HistoriesAfter
<1>4. ASSUME NEW q \in Runs
      PROVE  /\ state'[q] = "new" => OfRun(items[MemoryKey(q)], q)' = << >>
             /\ state'[q] # "new" =>
                   /\ start'[q] \in 1..Len(conversation'[q])
                   /\ RunSound(conversation'[q], start'[q], q)
                   /\ \A k \in DOMAIN conversation'[q] : SaidBy(conversation'[q][k], AgentOf[q])
                   /\ OfRun(items[MemoryKey(q)], q)' =
                         SubSeq(conversation'[q], start'[q], Len(conversation'[q]))
  <2>1. CASE q = r
    BY <1>2, <1>3, <2>1
  <2>2. CASE q # r
    <3>1. /\ conversation'[q] = conversation[q] /\ start'[q] = start[q] /\ state'[q] = state[q]
          /\ OfRun(items[MemoryKey(q)], q)' = OfRun(items[MemoryKey(q)], q)
      BY <1>2, <1>3, <2>2
    <3>2. /\ state[q] = "new" => OfRun(items[MemoryKey(q)], q) = << >>
          /\ state[q] # "new" => start[q] \in 1..Len(conversation[q])
      BY DEF MemoryInv, Begun
    <3>3. state[q] # "new" => RunSound(conversation[q], start[q], q)
      BY ContextSoundIs DEF MemoryInv
    <3>4. state[q] # "new" =>
             /\ \A k \in DOMAIN conversation[q] : SaidBy(conversation[q][k], AgentOf[q])
             /\ OfRun(items[MemoryKey(q)], q) =
                   SubSeq(conversation[q], start[q], Len(conversation[q]))
      <4>1. (\A n \in Known(q) : n.from = AgentOf[q])
                <=> \A k \in DOMAIN conversation[q] : SaidBy(conversation[q][k], AgentOf[q])
        BY KnownIs DEF MemoryInv
      <4>. QED
        BY <4>1 DEF MemoryInv, HistoryComplete
    <3>. QED
      BY <3>1, <3>2, <3>3, <3>4
  <2>. QED
    BY <2>1, <2>2
<1>5. Begun'
  BY <1>4 DEF Begun
<1>6. ContextSound'
  BY <1>4 DEF ContextSound, RunSound
<1>7. HistoryComplete'
  <2>1. ASSUME NEW q \in Runs, state'[q] # "new"
        PROVE  /\ \A n \in Known(q)' : n.from = AgentOf[q]
               /\ OfRun(items[MemoryKey(q)], q)' =
                     SubSeq(conversation'[q], start'[q], Len(conversation'[q]))
    <3>1. (\A n \in Known(q)' : n.from = AgentOf[q])
              <=> \A k \in DOMAIN conversation'[q] : SaidBy(conversation'[q][k], AgentOf[q])
      BY KnownAfter
    <3>. QED
      BY <1>4, <2>1, <3>1
  <2>. QED
    BY <2>1 DEF HistoryComplete
<1>. QED
  BY <1>3, <1>5, <1>6, <1>7 DEF MemoryInv

\* The part of a sequence from its last position on is that one item.
LEMMA LastAlone ==
    ASSUME NEW S, NEW s \in Seq(S), Len(s) \in 1..Len(s)
    PROVE  SubSeq(s, Len(s), Len(s)) = <<s[Len(s)]>>
<1>1. Len(s) \in Int /\ Len(s) \in Len(s)..Len(s) /\ Len(s) < Len(s) + 1 /\ Len(s) + 1 \in Int
  OBVIOUS
<1>2. SubSeq(s, Len(s), Len(s)) = <<s[Len(s)]>> \o SubSeq(s, Len(s) + 1, Len(s))
  BY <1>1, SubSeqRecursiveFirst
<1>3. SubSeq(s, Len(s) + 1, Len(s)) = << >>
  BY <1>1, SubSeqEmpty
<1>4. s[Len(s)] \in S
  OBVIOUS
<1>5. <<s[Len(s)]>> \in Seq(S)
  BY <1>4
<1>. QED
  BY <1>2, <1>3, <1>5, ConcatEmptySeq

\* AgentLoop.run starts from its agent's history, whoever writes to it meanwhile.
LEMMA StartKeeps ==
    ASSUME MemoryInv, NEW r \in Runs, NEW size \in Sizes, Start(r, size)
    PROVE  MemoryInv'
<1> DEFINE task == [from |-> AgentOf[r], run |-> r, size |-> size]
           history == items[MemoryKey(r)]
           c == Append(Context(history), task)
<1>1. /\ items \in [Agents -> Seq(Message)] /\ conversation \in [Runs -> Seq(ContextItem)]
      /\ start \in [Runs -> Nat] /\ state \in [Runs -> {"new", "running", "stopped"}]
      /\ AgentOf[r] \in Agents /\ MemoryKey(r) = AgentOf[r]
  BY MemoryAssumption DEF MemoryInv, MemoryTypeOK, MemoryKey
<1>2. task \in Message /\ task.from = AgentOf[r] /\ task.run = r
  BY <1>1 DEF Message
<1>3. history \in Seq(Message) /\ \A j \in DOMAIN history : history[j].from = AgentOf[r]
  BY <1>1 DEF MemoryInv, Owned
<1>4. /\ state[r] = "new" /\ conversation' = [conversation EXCEPT ![r] = c]
      /\ start' = [start EXCEPT ![r] = Len(c)]
      /\ items' = [items EXCEPT ![AgentOf[r]] = Append(@, task)]
      /\ state' = [state EXCEPT ![r] = "running"]
  BY <1>1 DEF Start
<1>. HIDE DEF task, history
<1>5. c \in Seq(ContextItem) /\ Len(c) \in Nat \ {0} /\ RunSound(c, Len(c), r)
  BY <1>2, <1>3, SoundAtStart
<1>6. \A k \in DOMAIN c : SaidBy(c[k], AgentOf[r])
  <2>1. /\ Context(history) \in Seq(ContextItem)
        /\ \A k \in DOMAIN Context(history) : SaidBy(Context(history)[k], AgentOf[r])
    BY <1>3, ContextIs
  <2>2. SaidBy(task, AgentOf[r])
    BY <1>2, Kinds DEF SaidBy
  <2>3. ASSUME NEW k \in DOMAIN c
        PROVE  (k \in DOMAIN Context(history) /\ c[k] = Context(history)[k]) \/ c[k] = task
    BY <2>1
  <2>. QED
    BY <2>1, <2>2, <2>3
<1>7. SubSeq(c, Len(c), Len(c)) = <<task>> /\ c[Len(c)] = task
  <2>1. Context(history) \in Seq(ContextItem)
    BY <1>3, ContextIs
  <2>. HIDE DEF c
  <2>2. c[Len(c)] = task
    BY <2>1 DEF c
  <2>3. SubSeq(c, Len(c), Len(c)) = <<c[Len(c)]>>
    BY <1>5, LastAlone
  <2>. QED
    BY <2>2, <2>3
<1>. HIDE DEF c
<1>8. OfRun(items[MemoryKey(r)], r) = << >>
  BY <1>4 DEF MemoryInv, Begun
<1>9. Appends(r, task, c)
  BY <1>4 DEF Appends
<1>10. start'[r] = Len(c) /\ state'[r] = "running" /\ Len(c) \in 1..Len(c)
  BY <1>1, <1>4, <1>5
<1>11. \A q \in Runs : q # r => start'[q] = start[q] /\ state'[q] = state[q]
  BY <1>1, <1>4
<1>12. MemoryTypeOK'
  <2>1. items' \in [Agents -> Seq(Message)]
    BY <1>2, <1>9, HistoriesAfter
  <2>2. conversation' \in [Runs -> Seq(ContextItem)]
    BY <1>1, <1>4, <1>5
  <2>3. start' \in [Runs -> Nat] /\ state' \in [Runs -> {"new", "running", "stopped"}]
    BY <1>1, <1>4, <1>5
  <2>. QED
    BY <2>1, <2>2, <2>3 DEF MemoryTypeOK
<1>13. SubSeq(c, start'[r], Len(c)) = Append(OfRun(items[MemoryKey(r)], r), task)
  <2>1. Append(<< >>, task) = <<task>>
    OBVIOUS
  <2>. QED
    BY <1>7, <1>8, <1>10, <2>1
<1>. QED
  BY <1>2, <1>5, <1>6, <1>9, <1>10, <1>11, <1>12, <1>13, OneRun

\* A message of a run goes to its own end and to its agent's history.
LEMMA ProduceKeeps ==
    ASSUME MemoryInv, NEW r \in Runs, NEW size \in Sizes, Produce(r, size)
    PROVE  MemoryInv'
<1> DEFINE m == [from |-> AgentOf[r], run |-> r, size |-> size]
           c == conversation[r]
           e == Append(c, m)
<1>1. /\ items \in [Agents -> Seq(Message)] /\ conversation \in [Runs -> Seq(ContextItem)]
      /\ start \in [Runs -> Nat] /\ state \in [Runs -> {"new", "running", "stopped"}]
      /\ AgentOf[r] \in Agents /\ MemoryKey(r) = AgentOf[r]
  BY MemoryAssumption DEF MemoryInv, MemoryTypeOK, MemoryKey
<1>2. m \in Message /\ m.from = AgentOf[r] /\ m.run = r
  BY <1>1 DEF Message
<1>3. /\ state[r] = "running" /\ start' = start /\ state' = state
      /\ conversation' = [conversation EXCEPT ![r] = e]
      /\ items' = [items EXCEPT ![AgentOf[r]] = Append(@, m)]
  BY <1>1 DEF Produce
<1>4. c \in Seq(ContextItem) /\ start[r] \in 1..Len(c)
  BY <1>1, <1>3 DEF MemoryInv, Begun
<1>5. RunSound(c, start[r], r)
  BY <1>3, ContextSoundIs DEF MemoryInv
<1>6. /\ \A k \in DOMAIN c : SaidBy(c[k], AgentOf[r])
      /\ OfRun(items[MemoryKey(r)], r) = SubSeq(c, start[r], Len(c))
  <2>1. (\A n \in Known(r) : n.from = AgentOf[r])
            <=> \A k \in DOMAIN c : SaidBy(c[k], AgentOf[r])
    BY KnownIs DEF MemoryInv
  <2>. QED
    BY <1>3, <2>1 DEF MemoryInv, HistoryComplete
<1>. HIDE DEF m, c
<1>7. e \in Seq(ContextItem) /\ start[r] \in 1..Len(e) /\ RunSound(e, start[r], r)
  BY <1>2, <1>4, <1>5, SoundAfter
<1>8. \A k \in DOMAIN e : SaidBy(e[k], AgentOf[r])
  <2>1. SaidBy(m, AgentOf[r])
    BY <1>2, Kinds DEF SaidBy
  <2>2. ASSUME NEW k \in DOMAIN e
        PROVE  (k \in DOMAIN c /\ e[k] = c[k]) \/ e[k] = m
    BY <1>4
  <2>. QED
    BY <1>6, <2>1, <2>2
<1>9. SubSeq(e, start[r], Len(e)) = Append(OfRun(items[MemoryKey(r)], r), m)
  <2>1. m \in ContextItem
    BY <1>2, ItemSizes
  <2>. QED
    BY <1>4, <1>6, <2>1, TailAppended
<1>. HIDE DEF e
<1>10. Appends(r, m, e)
  BY <1>3 DEF Appends
<1>11. MemoryTypeOK'
  <2>1. items' \in [Agents -> Seq(Message)]
    BY <1>2, <1>10, HistoriesAfter
  <2>2. conversation' \in [Runs -> Seq(ContextItem)]
    BY <1>1, <1>3, <1>7
  <2>. QED
    BY <1>1, <1>3, <2>1, <2>2 DEF MemoryTypeOK
<1>12. state'[r] # "new" /\ start'[r] = start[r]
  BY <1>3
<1>. QED
  BY <1>2, <1>3, <1>7, <1>8, <1>9, <1>10, <1>11, <1>12, OneRun

\* A run that stops leaves its messages where they are.
LEMMA StopKeeps ==
    ASSUME MemoryInv, NEW r \in Runs, Stop(r)
    PROVE  MemoryInv'
<1>1. /\ state[r] = "running" /\ state' = [state EXCEPT ![r] = "stopped"]
      /\ UNCHANGED <<items, conversation, start>>
  BY DEF Stop
<1>2. state \in [Runs -> {"new", "running", "stopped"}]
  BY DEF MemoryInv, MemoryTypeOK
<1>3. \A q \in Runs : state'[q] = "new" <=> state[q] = "new"
  BY <1>1, <1>2
<1>4. MemoryTypeOK'
  BY <1>1 DEF MemoryInv, MemoryTypeOK
<1>5. Owned' /\ Begun'
  BY <1>1, <1>3 DEF MemoryInv, Owned, Begun, MemoryKey
<1>6. ContextSound'
  BY <1>1, <1>3 DEF MemoryInv, ContextSound
<1>7. HistoryComplete'
  BY <1>1, <1>3 DEF MemoryInv, HistoryComplete, Known, MemoryKey
<1>. QED
  BY <1>4, <1>5, <1>6, <1>7 DEF MemoryInv

\* Every step of every run keeps the histories and the contexts sound.
LEMMA NextMemory == MemoryInv /\ [Next]_vars => MemoryInv'
<1>. SUFFICES ASSUME MemoryInv, [Next]_vars PROVE MemoryInv'
  OBVIOUS
<1>1. CASE UNCHANGED vars
  <2>1. items' = items /\ conversation' = conversation /\ start' = start /\ state' = state
    BY <1>1 DEF vars
  <2>2. MemoryTypeOK'
    BY <2>1 DEF MemoryInv, MemoryTypeOK
  <2>3. Owned' /\ Begun'
    BY <2>1 DEF MemoryInv, Owned, Begun, MemoryKey
  <2>4. ContextSound'
    BY <2>1 DEF MemoryInv, ContextSound
  <2>5. HistoryComplete'
    BY <2>1 DEF MemoryInv, HistoryComplete, Known, MemoryKey
  <2>. QED
    BY <2>2, <2>3, <2>4, <2>5 DEF MemoryInv
<1>2. ASSUME NEW r \in Runs, Stop(r)
      PROVE  MemoryInv'
  BY <1>2, StopKeeps
<1>3. ASSUME NEW r \in Runs, NEW size \in Sizes, Start(r, size) \/ Produce(r, size)
      PROVE  MemoryInv'
  BY <1>3, StartKeeps, ProduceKeeps
<1>. QED
  BY <1>1, <1>2, <1>3 DEF Next

\* The invariant holds for every interleaving of the runs.
LEMMA MemoryAlways == Spec => []MemoryInv
  BY InitMemory, NextMemory, PTL DEF Spec

\* Histories and contexts are sequences of messages, summaries and snapshots.
THEOREM MemoryTypes == Spec => []MemoryTypeOK
<1>1. MemoryInv => MemoryTypeOK
  BY DEF MemoryInv
<1>. QED
  BY <1>1, MemoryAlways, PTL

\* A context made by MemoryContext.to_messages stays inside the budget unless one message
\* exceeds it, begins with the snapshot, and the run's own messages follow untrimmed.
THEOREM ContextsSound == Spec => []ContextSound
<1>1. MemoryInv => ContextSound
  BY DEF MemoryInv
<1>. QED
  BY <1>1, MemoryAlways, PTL

\* InMemorySessionMemory has each message of each run, in its order, however the runs of an
\* agent overlap, and lets no message reach another agent.
THEOREM HistoriesComplete == Spec => []HistoryComplete
<1>1. MemoryInv => HistoryComplete
  BY DEF MemoryInv
<1>. QED
  BY <1>1, MemoryAlways, PTL

\* However long a history is and however it is trimmed, the message before a run's start is
\* part of what the run knows.
THEOREM NewestAlwaysKept == Spec => NewestKept
<1> DEFINE Keep == \A r \in Runs : state[r] = "new" /\ state'[r] = "running" /\ WithHistory =>
                      LET history == items[MemoryKey(r)]
                      IN  history # << >> => history[Len(history)] \in Known(r)'
<1>1. ASSUME MemoryInv, MemoryInv', [Next]_vars
      PROVE  Keep
  <2>1. ASSUME NEW r \in Runs, state[r] = "new", state'[r] = "running", WithHistory,
               items[MemoryKey(r)] # << >>
        PROVE  items[MemoryKey(r)][Len(items[MemoryKey(r)])] \in Known(r)'
    <3> DEFINE history == items[MemoryKey(r)]
    <3>1. /\ items \in [Agents -> Seq(Message)] /\ MemoryKey(r) \in Agents
          /\ state \in [Runs -> {"new", "running", "stopped"}]
          /\ conversation \in [Runs -> Seq(ContextItem)]
      BY <1>1, MemoryAssumption DEF MemoryInv, MemoryTypeOK, MemoryKey
    <3>2. PICK size \in Sizes : Start(r, size)
      <4>1. \A q \in Runs : ~ (q # r /\ Stop(q)) /\ ~ Stop(r)
                            /\ \A size \in Sizes : /\ ~ Produce(q, size)
                                                   /\ Start(q, size) => q = r
        BY <2>1, <3>1 DEF Stop, Start, Produce
      <4>2. ~ UNCHANGED vars
        BY <2>1 DEF vars
      <4>. QED
        BY <1>1, <4>1, <4>2 DEF Next
    <3>3. history \in Seq(Message) /\ history # << >>
      BY <2>1, <3>1
    <3> DEFINE task == [from |-> AgentOf[r], run |-> r, size |-> size]
    <3>4. conversation'[r] = Append(Context(history), task)
      BY <3>1, <3>2 DEF Start
    <3>. HIDE DEF history, task
    <3>5. PICK k \in DOMAIN Context(history) : Context(history)[k] = history[Len(history)]
      BY <2>1, <3>3, ContextIs
    <3>6. k \in DOMAIN conversation'[r] /\ conversation'[r][k] = history[Len(history)]
      <4>1. Context(history) \in Seq(ContextItem)
        BY <3>3, ContextIs
      <4>. QED
        BY <3>4, <3>5, <4>1
    <3>7. IsMessage(history[Len(history)])
      <4>1. history[Len(history)] \in Message
        BY <3>3
      <4>. QED
        BY <4>1, Kinds
    <3>8. history[Len(history)] \in Known(r)'
      <4>1. \A i \in DOMAIN conversation'[r] :
               IsMessage(conversation'[r][i]) => conversation'[r][i] \in Known(r)'
        BY <1>1, KnownAfter DEF MemoryInv
      <4>. QED
        BY <3>6, <3>7, <4>1
    <3>. QED
      BY <3>8 DEF history
  <2>. QED
    BY <2>1
<1>2. MemoryInv /\ MemoryInv' /\ [Next]_vars => [Keep]_vars
  BY <1>1
<1>. QED
  BY <1>2, MemoryAlways, PTL DEF Spec, NewestKept
=============================================================================
