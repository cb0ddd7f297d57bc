-------------------------- MODULE ForkReadsProofs --------------------------
(* The invariants of reading a fork, for all forks, sizes of records and    *)
(* extents trees, and of the volume under it, for all intact volumes.  The  *)
(* heart of the first is Move, which both loops share and which keeps the   *)
(* position inside an extent, and the search of the tree, which finds the   *)
(* record that goes on with the fork if the tree is in the program's order. *)
(* The second rests on what shifts do to powers of two.                     *)
EXTENDS ForkReads, NaturalsInduction, WellFoundedInduction, TLAPS

\* A set of numbers that is not empty has a least one.
LEMMA Least ==
    ASSUME NEW S \in SUBSET Nat, S # {}
    PROVE  \E n \in S : \A m \in S : n <= m
  <1>1. PICK n \in S : \A m \in S : ~(<<m, n>> \in OpToRel(<, Nat))
    BY WFMin, NatLessThanWellFounded, Zenon
  <1>2. \A m \in S : ~(m < n)
    <2> SUFFICES ASSUME NEW m \in S, m < n PROVE FALSE
      OBVIOUS
    <2>1. <<m, n>> \in Nat \X Nat /\ <<m, n>>[1] < <<m, n>>[2]
      OBVIOUS
    <2>2. <<m, n>> \in OpToRel(<, Nat)
      BY <2>1, Zenon DEF OpToRel
    <2> QED
      BY <1>1, <2>2, Zenon
  <1> QED
    BY <1>2

\* Number grows by PerRecord with each record.
LEMMA Product ==
    ASSUME NEW r \in Nat, NEW P \in Nat \ {0}
    PROVE  /\ (r + 1) * P = r * P + P
           /\ r * P \in Nat
           /\ r <= r * P
  BY SMT

\* An element of a sequence over a set is in the set.
LEMMA Element ==
    ASSUME NEW S, NEW s \in Seq(S), NEW k \in 1 .. Len(s)
    PROVE  s[k] \in S
  OBVIOUS

\* The records of the extents tree are those behind the fork's own.
LEMMA Layout ==
    ASSUME NEW f \in Forks
    PROVE  /\ Len(Extents[f]) \in Nat
           /\ Total(f) = Base[f][Len(Extents[f]) + 1] /\ Total(f) \in Nat
           /\ Base[f][1] = 0
           /\ \A k \in 1 .. Len(Extents[f]) :
                /\ Base[f][k] \in Nat
                /\ Extents[f][k].start \in Nat /\ Extents[f][k].count \in Nat \ {0}
                /\ Base[f][k + 1] = Base[f][k] + Extents[f][k].count
  <1>1. Extents[f] \in Seq([start : Nat, count : Nat \ {0}])
    BY LayoutAssumption
  <1>2. Len(Extents[f]) \in Nat
    BY <1>1
  <1>3. Base[f] \in [1 .. Len(Extents[f]) + 1 -> Nat]
    BY LayoutAssumption
  <1>4. \A k \in 1 .. Len(Extents[f]) : Extents[f][k] \in [start : Nat, count : Nat \ {0}]
    BY <1>1, Element
  <1>5. \A k \in 1 .. Len(Extents[f]) :
            Extents[f][k].start \in Nat /\ Extents[f][k].count \in Nat \ {0}
    BY <1>4
  <1>6. Total(f) = Base[f][Len(Extents[f]) + 1]
    BY DEF Total
  <1>7. \A k \in 1 .. Len(Extents[f]) + 1 : Base[f][k] \in Nat
    BY <1>3
  <1>8. Total(f) \in Nat
    BY <1>2, <1>6, <1>7
  <1> QED
    BY <1>2, <1>5, <1>6, <1>7, <1>8, LayoutAssumption

\* What the iterator's position means while it is used.
At(f, k) ==
    /\ k \in 1 .. Len(Extents[f])
    /\ block < Extents[f][k].count
    /\ curr_block = Base[f][k] + block

\* The number of the extent at hand is positive.
LEMMA NumberIsNat ==
    ASSUME TypeOK
    PROVE  Number \in Nat /\ Number > 0
  <1>1. record \in Nat /\ index \in Nat /\ PerRecord \in Nat \ {0}
    BY LayoutAssumption DEF TypeOK
  <1>2. record * PerRecord \in Nat
    BY <1>1, Product
  <1> QED
    BY <1>1, <1>2 DEF Number

\* Blocks of a fork ascend with its extents.
LEMMA BaseAscends ==
    ASSUME NEW f \in Forks, NEW j \in 1 .. Len(Extents[f]) + 1, NEW k \in 1 .. Len(Extents[f]) + 1,
           j < k
    PROVE  Base[f][j] < Base[f][k]
  <1> DEFINE n == Len(Extents[f])
             B(i) == Base[f][i]
             S == {i \in j + 1 .. n + 1 : ~(B(j) < B(i))}
  <1>1. n \in Nat /\ \A i \in 1 .. n + 1 : B(i) \in Nat
    BY Layout, LayoutAssumption
  <1>2. \A i \in 1 .. n : B(i) < B(i + 1)
    <2>1. ASSUME NEW i \in 1 .. n PROVE B(i) < B(i + 1)
      <3>1. Extents[f][i].count \in Nat \ {0} /\ B(i + 1) = B(i) + Extents[f][i].count
        BY Layout
      <3>2. B(i) \in Nat
        BY <1>1
      <3> HIDE DEF B
      <3> QED
        BY <3>1, <3>2
    <2> QED
      BY <2>1
  <1> HIDE DEF n, B
  <1>3. j \in 1 .. n + 1 /\ k \in j + 1 .. n + 1
    BY <1>1 DEF n
  <1>4. S = {}
    <2> SUFFICES ASSUME S # {} PROVE FALSE
      OBVIOUS
    <2>1. S \in SUBSET Nat
      BY <1>1, <1>3
    <2>2. PICK i \in S : \A m \in S : i <= m
      BY <2>1, Least
    <2>3. i \in j + 1 .. n + 1 /\ i - 1 \in 1 .. n /\ i - 1 \in Nat
      BY <1>1, <1>3, <2>2
    <2>4. B(i - 1) < B(i) /\ B(i - 1) \in Nat /\ B(i) \in Nat /\ B(j) \in Nat
      BY <1>1, <1>2, <1>3, <2>3
    <2>5. i - 1 \notin S
      BY <2>2, <2>3
    <2>6. i - 1 = j \/ B(j) < B(i - 1)
      <3>1. i - 1 = j \/ i - 1 \in j + 1 .. n + 1
        BY <1>1, <1>3, <2>3
      <3> QED
        BY <2>5, <3>1
    <2> QED
      BY <2>2, <2>4, <2>6
  <1>5. B(j) < B(k)
    BY <1>3, <1>4
  <1> QED
    BY <1>5 DEF B

\* The key of a record says which one of the fork it is.
LEMMA KeyTells ==
    ASSUME NEW f \in Forks, NEW j \in Nat, NEW k \in Nat,
           HasRecord(f, j), HasRecord(f, k), KeyOf(f, j) = KeyOf(f, k)
    PROVE  j = k
  <1> DEFINE a == j * PerRecord
             b == k * PerRecord
  <1>1. PerRecord \in Nat \ {0} /\ Len(Extents[f]) \in Nat
    BY Layout, LayoutAssumption
  <1>2. /\ a \in Nat /\ b \in Nat /\ a < Len(Extents[f]) /\ b < Len(Extents[f])
        /\ Base[f][a + 1] = Base[f][b + 1]
    BY <1>1, Product DEF HasRecord, KeyOf
  <1>3. (j < k => a < b) /\ (k < j => b < a)
    BY <1>1, SMT
  <1>4. a + 1 \in 1 .. Len(Extents[f]) + 1 /\ b + 1 \in 1 .. Len(Extents[f]) + 1
    BY <1>1, <1>2
  <1> HIDE DEF a, b
  <1>5. a = b
    <2>1. Base[f][a + 1] \in Nat
      BY <1>1, <1>2, <1>4, LayoutAssumption
    <2>2. CASE a < b
      <3>1. Base[f][a + 1] < Base[f][b + 1]
        BY <1>2, <1>4, <2>2, BaseAscends
      <3> QED
        BY <1>2, <2>1, <3>1
    <2>3. CASE b < a
      <3>1. Base[f][b + 1] < Base[f][a + 1]
        BY <1>2, <1>4, <2>3, BaseAscends
      <3> QED
        BY <1>2, <2>1, <3>1
    <2> QED
      BY <1>2, <2>2, <2>3
  <1> QED
    BY <1>2, <1>3, <1>5

\* The iterator is inside the extent that Number is the number of.
Inside == At(call.fork, Number) /\ index < PerRecord

LEMMA ExtentIs ==
    ASSUME TypeOK, Number <= Len(Extents[call.fork])
    PROVE  /\ Number \in 1 .. Len(Extents[call.fork])
           /\ Extent = Extents[call.fork][Number]
           /\ Extent.start \in Nat /\ Extent.count \in Nat \ {0}
           /\ Base[call.fork][Number + 1] = Base[call.fork][Number] + Extent.count
           /\ Base[call.fork][Number] \in Nat
  <1>1. call.fork \in Forks
    BY DEF TypeOK
  <1>2. Len(Extents[call.fork]) \in Nat
    BY <1>1, Layout
  <1>3. Number \in 1 .. Len(Extents[call.fork])
    BY <1>2, NumberIsNat
  <1>4. Extent = Extents[call.fork][Number]
    BY DEF Extent
  <1> QED
    BY <1>1, <1>3, <1>4, Layout

\* What a loop's move does to the iterator, wherever it ends.
LEMMA MoveKeeps ==
    ASSUME TypeOK, call' = call, NEW step \in {"skip", "read"}, NEW diff \in Nat,
           Inside, diff <= Extent.count - block, Move(diff, step)
    PROVE  /\ curr_block' = curr_block + diff
           /\ block' \in Nat /\ index' \in Nat /\ loop' \in {loop, step}
           /\ UNCHANGED <<record, place, extents, tree, node, failed>>
           /\ \/ pc' = step /\ Inside' /\ answer' = answer
              \/ pc' = "extents" /\ loop' = step /\ BehindTrue' /\ answer' = answer
              \/ pc' = "idle" /\ answer' = "null" /\ curr_block' >= Total(call.fork)
  <1> DEFINE f == call.fork
  <1>1. /\ f \in Forks /\ record \in Nat
        /\ PerRecord \in Nat \ {0} /\ block \in Nat /\ index \in Nat /\ curr_block \in Nat
    BY LayoutAssumption DEF TypeOK
  <1>2. /\ Number \in Nat /\ Number \in 1 .. Len(Extents[f])
        /\ Extent = Extents[f][Number] /\ Extent.count \in Nat \ {0}
        /\ Base[f][Number + 1] = Base[f][Number] + Extent.count
        /\ Base[f][Number] \in Nat
        /\ index < PerRecord /\ block < Extent.count /\ curr_block = Base[f][Number] + block
    BY ExtentIs, NumberIsNat DEF Inside, At
  <1>3. curr_block' = curr_block + diff
    BY DEF Move
  <1>4. Total(f) \in Nat /\ Len(Extents[f]) \in Nat /\ Total(f) = Base[f][Len(Extents[f]) + 1]
    BY <1>1, Layout
  <1>5. CASE PastFork
    BY <1>1, <1>3, <1>5 DEF Move, Return, PastFork, search
  <1>6. CASE ~PastFork /\ ~PastExtent(diff)
    <2>1. /\ block' = block + diff /\ index' = index /\ pc' = step
          /\ UNCHANGED <<record, place, search, answer, failed>>
      BY <1>6 DEF Move, PositionAfter
    <2>2. block + diff < Extent.count
      BY <1>1, <1>2, <1>6 DEF PastExtent
    <2>3. Number' = Number
      BY <2>1 DEF Number
    <2>4. block + diff < Extents[f][Number].count
      BY <1>2, <2>2
    <2>5. curr_block + diff = Base[f][Number] + (block + diff)
      <3> DEFINE b == Base[f][Number]
      <3>1. b \in Nat /\ curr_block = b + block
        BY <1>2
      <3> HIDE DEF b
      <3>2. curr_block + diff = b + (block + diff)
        BY <1>1, <3>1
      <3> QED
        BY <3>2 DEF b
    <2>6. /\ Number' \in 1 .. Len(Extents[call'.fork])
          /\ block' < Extents[call'.fork][Number'].count
          /\ curr_block' = Base[call'.fork][Number'] + block'
      BY <1>2, <1>3, <2>1, <2>3, <2>4, <2>5, Zenon
    <2>7. index' < PerRecord
      BY <1>2, <2>1
    <2>8. Inside'
      BY <2>6, <2>7 DEF Inside, At
    <2> QED
      BY <1>1, <1>3, <2>1, <2>8 DEF search
  <1>7. CASE ~PastFork /\ PastExtent(diff)
    <2> DEFINE n == Extent.count
    <2>1. n \in Nat /\ diff <= n - block /\ block + diff >= n
      BY <1>2, <1>7 DEF PastExtent
    <2> HIDE DEF n
    <2>2. block + diff = n
      BY <1>1, <2>1
    <2>3. block' = 0
      BY <1>7 DEF Move, PositionAfter
    <2>4. block' = 0 /\ block + diff = Extent.count
      BY <2>2, <2>3 DEF n
    <2>5. curr_block' = Base[f][Number + 1]
      <3> DEFINE b == Base[f][Number]
                 b2 == Base[f][Number + 1]
      <3>1. b \in Nat /\ b2 = b + n /\ curr_block = b + block /\ n \in Nat
        BY <1>2, <2>1 DEF n
      <3> HIDE DEF b, b2
      <3>2. curr_block + diff = b2
        BY <1>1, <2>2, <3>1
      <3> QED
        BY <1>3, <3>2 DEF b2
    <2>6. curr_block' < Total(f)
      BY <1>1, <1>3, <1>4, <1>7 DEF PastFork
    <2>7. CASE index + 1 >= PerRecord
      <3>1. NextExtent(step)
        BY <1>7, <2>7 DEF Move
      <3>2. /\ index' = 0 /\ pc' = "extents" /\ loop' = step
            /\ UNCHANGED <<record, place, extents, tree, node, answer, failed>>
        BY <3>1 DEF NextExtent
      <3>3. BehindTrue'
        <4> DEFINE j == record + 1
        <4>1. j \in Nat /\ j > 0
          BY <1>1
        <4>2. j * PerRecord = Number
          BY <1>1, <1>2, <2>7, Product DEF Number
        <4>3. Number # Len(Extents[f])
          BY <1>4, <2>5, <2>6
        <4>4. Number < Len(Extents[f])
          BY <1>2, <1>4, <4>3
        <4>5. HasRecord(f, j) /\ curr_block' = Base[f][j * PerRecord + 1]
          BY <2>5, <4>1, <4>2, <4>4 DEF HasRecord
        <4> HIDE DEF j
        <4>6. /\ index' = 0 /\ block' = 0 /\ HasRecord(call'.fork, record' + 1)
              /\ curr_block' = Base[call'.fork][(record' + 1) * PerRecord + 1]
          BY <2>4, <3>2, <4>5 DEF j
        <4> QED
          BY <4>6 DEF BehindTrue, HasRecord
      <3> QED
        BY <1>1, <1>3, <2>4, <3>2, <3>3
    <2>8. CASE ~(index + 1 >= PerRecord)
      <3>1. /\ index' = index + 1 /\ pc' = step
            /\ UNCHANGED <<record, place, search, answer, failed>>
        BY <1>7, <2>8 DEF Move
      <3>2. record * PerRecord \in Nat
        BY <1>1, Product
      <3>3. Number' = Number + 1
        BY <1>1, <3>1, <3>2 DEF Number
      <3>4. Number # Len(Extents[f])
        BY <1>4, <2>5, <2>6
      <3>5. Number + 1 \in 1 .. Len(Extents[f])
        BY <1>2, <1>4, <3>4
      <3>6. Extents[f][Number + 1].count \in Nat \ {0} /\ Base[f][Number + 1] \in Nat
        BY <1>1, <3>5, Layout
      <3>7. Inside'
        <4>1. /\ Number' \in 1 .. Len(Extents[call'.fork])
              /\ block' < Extents[call'.fork][Number'].count
              /\ curr_block' = Base[call'.fork][Number'] + block'
          BY <1>1, <2>4, <2>5, <3>3, <3>5, <3>6
        <4>2. index' < PerRecord
          BY <1>1, <2>8, <3>1
        <4> QED
          BY <4>1, <4>2 DEF Inside, At
      <3> QED
        BY <1>1, <1>3, <2>4, <3>1, <3>7 DEF search
    <2> QED
      BY <2>7, <2>8
  <1> QED
    BY <1>5, <1>6, <1>7

-----------------------------------------------------------------------------
(* Where the search of the extents tree ends. *)

\* A node of an extents tree, and what the assumption says of it.
LEMMA NodeIs ==
    ASSUME NEW t \in ExtentsTrees, NEW n \in DOMAIN t.node
    PROVE  /\ UInt16(n) = n /\ n # 0 /\ t.node[n].leaf \in BOOLEAN
           /\ t.node[n].keys \in Seq(Key) /\ Len(t.node[n].keys) \in Nat \ {0}
           /\ \A i \in 1 .. Len(t.node[n].keys) : t.node[n].keys[i] \in Key
           /\ \A i, j \in 1 .. Len(t.node[n].keys) :
                 i < j => Precedes(t.node[n].keys[i], t.node[n].keys[j])
           /\ ~t.node[n].leaf =>
                 \A i \in 1 .. Len(t.node[n].keys) : t.node[n].vals[i] \in DOMAIN t.node
           /\ t.node[n].leaf => /\ t.node[n].next \in LeavesOf(t) \cup {0}
                                /\ \A i \in 1 .. Len(t.node[n].keys) : t.node[n].vals[i] \in Nat
  <1>1. NodeOK(t, n) /\ NodeNumbers \in Nat \ {0}
    BY ExtentsAssumption
  <1>2. n \in 1 .. NodeNumbers - 1
    BY <1>1 DEF NodeOK
  <1>3. UInt16(n) = n
    BY <1>1, <1>2 DEF UInt16
  <1> QED
    BY <1>1, <1>2, <1>3, SMTT(30) DEF NodeOK

\* Differences of numbers below 2^31 are what they are.
LEMMA SignedIs ==
    ASSUME NEW a \in 0 .. Half - 1, NEW b \in 0 .. Half - 1
    PROVE  Signed(a - b) = a - b
  <1>1. Half \in Nat \ {0}
    BY ExtentsAssumption
  <1> DEFINE d == a - b + Half
  <1>2. d \in 0 .. 2 * Half - 1
    BY <1>1
  <1>3. d % (2 * Half) = d
    BY <1>1, <1>2
  <1> QED
    BY <1>1, <1>2, <1>3 DEF Signed

\* The program's order is the volume's among keys of data forks, and keys that compare
\* as equal are, of whatever fork.
DataKeys == {k \in Key : k.type = DataFork}
LEMMA CompareIs ==
    ASSUME NEW k1 \in Key, NEW k2 \in DataKeys
    PROVE  /\ Compare(k1, k2) \in Int
           /\ Compare(k1, k2) = 0 <=> k1 = k2
           /\ k1 \in DataKeys => /\ Compare(k1, k2) > 0 <=> Precedes(k1, k2)
                                 /\ Compare(k1, k2) < 0 <=> Precedes(k2, k1)
  <1>1. Half \in Nat \ {0}
    BY ExtentsAssumption
  <1>2. /\ k1.file \in 0 .. Half - 1 /\ k2.file \in 0 .. Half - 1
        /\ k1.start \in 0 .. Half - 1 /\ k2.start \in 0 .. Half - 1
        /\ k1.type \in {0, 255} /\ k2.type = 0
        /\ k1 \in DataKeys <=> k1.type = 0
        /\ k1 = k2 <=> k1.type = k2.type /\ k1.file = k2.file /\ k1.start = k2.start
    BY DEF Key, DataKeys, DataFork, ResourceFork
  <1>3. /\ Signed(k2.file - k1.file) = k2.file - k1.file
        /\ Signed(k2.start - k1.start) = k2.start - k1.start
    BY <1>2, SignedIs
  <1>4. Compare(k1, k2) = IF k1.type # 0 THEN - k1.type
                          ELSE IF k2.file - k1.file # 0 THEN k2.file - k1.file ELSE k2.start - k1.start
    BY <1>2, <1>3 DEF Compare
  <1> QED
    BY <1>1, <1>2, <1>4 DEF Precedes

\* The order of the volume is a strict one.
LEMMA PrecedesOrders ==
    ASSUME NEW k1 \in Key, NEW k2 \in Key
    PROVE  /\ ~Precedes(k1, k1)
           /\ Precedes(k1, k2) => ~Precedes(k2, k1)
           /\ \A k3 \in Key : Precedes(k1, k2) /\ Precedes(k2, k3) => Precedes(k1, k3)
  <1>1. Half \in Nat \ {0}
    BY ExtentsAssumption
  <1> QED
    BY <1>1 DEF Precedes, Key, DataFork, ResourceFork

\* One turn of the binary search between start and end, f for the turns after it.
Turn(f, keys, key, b) ==
    LET mid  == (b[1] + b[2]) \div 2
        comp == Compare(keys[mid + 1], key)
    IN  IF comp > 0 /\ mid + 1 < b[2] THEN f[<<mid + 1, b[2]>>]
        ELSE IF comp < 0 /\ b[1] < mid THEN f[<<b[1], mid>>]
        ELSE [mid |-> mid + 1, comp |-> comp]
Bounds(keys) == (0 .. Len(keys)) \X (0 .. Len(keys))

\* The turns after it have less to search.
LEMMA TurnNarrows ==
    ASSUME NEW keys, Len(keys) \in Nat, NEW key, NEW b \in Bounds(keys), NEW f, NEW g,
           \A c \in Bounds(keys) : c[1] < c[2] /\ c[2] - c[1] < b[2] - b[1] => f[c] = g[c]
    PROVE  Turn(f, keys, key, b) = Turn(g, keys, key, b)
<1> DEFINE mid == (b[1] + b[2]) \div 2
<1>1. b[1] \in 0 .. Len(keys) /\ b[2] \in 0 .. Len(keys) /\ mid \in Nat
  BY DEF Bounds
<1>2. ASSUME mid + 1 < b[2]
      PROVE  f[<<mid + 1, b[2]>>] = g[<<mid + 1, b[2]>>]
  <2>1. b[1] <= mid
    BY <1>1, <1>2
  <2>2. <<mid + 1, b[2]>> \in Bounds(keys)
    BY <1>1, <1>2 DEF Bounds
  <2> HIDE DEF mid
  <2> DEFINE c == <<mid + 1, b[2]>>
  <2>3. c[1] = mid + 1 /\ c[2] = b[2]
    OBVIOUS
  <2> HIDE DEF c
  <2>4. c[1] < c[2] /\ c[2] - c[1] < b[2] - b[1]
    BY <1>1, <1>2, <2>1, <2>3
  <2>5. f[c] = g[c]
    BY <2>2, <2>4 DEF c
  <2> QED
    BY <2>5 DEF c
<1>3. ASSUME b[1] < mid
      PROVE  f[<<b[1], mid>>] = g[<<b[1], mid>>]
  <2>1. mid < b[2]
    BY <1>1, <1>3
  <2>2. <<b[1], mid>> \in Bounds(keys)
    BY <1>1, <1>3, <2>1 DEF Bounds
  <2> QED
    BY <1>1, <1>3, <2>1, <2>2
<1> QED
  BY <1>2, <1>3 DEF Turn

\* So the search is what its definition says: by induction on what is left.
LEMMA ProbingUnfolds ==
    ASSUME NEW keys, Len(keys) \in Nat, NEW key
    PROVE  \A b \in Bounds(keys) :
              Probing(keys, key)[b] = Turn(Probing(keys, key), keys, key, b)
<1> DEFINE D == Bounds(keys)
           Upto(f, w) == \A b \in D : b[2] - b[1] <= w => f[b] = Turn(f, keys, key, b)
           P(w) == \E f : Upto(f, w)
<1>1. P(0)
  <2> DEFINE f == [b \in D |-> Turn([c \in {} |-> 0], keys, key, b)]
  <2>1. SUFFICES ASSUME NEW b \in D, b[2] - b[1] <= 0
                 PROVE  Turn([c \in {} |-> 0], keys, key, b) = Turn(f, keys, key, b)
    OBVIOUS
  <2> HIDE DEF f
  <2>2. \A c \in D : ~(c[1] < c[2] /\ c[2] - c[1] < b[2] - b[1])
    BY <2>1 DEF Bounds
  <2> QED
    BY <2>2, TurnNarrows
<1>2. ASSUME NEW w \in Nat, P(w) PROVE P(w + 1)
  <2>1. PICK f : Upto(f, w)
    BY <1>2
  <2> DEFINE g == [b \in D |-> IF b[2] - b[1] <= w THEN f[b] ELSE Turn(f, keys, key, b)]
  <2>2. \A b \in D : /\ b[2] - b[1] <= w => g[b] = f[b]
                     /\ ~(b[2] - b[1] <= w) => g[b] = Turn(f, keys, key, b)
    OBVIOUS
  <2> HIDE DEF g
  <2>3. ASSUME NEW b \in D, b[2] - b[1] <= w + 1
        PROVE  g[b] = Turn(g, keys, key, b)
    <3>1. \A c \in D : c[1] < c[2] /\ c[2] - c[1] < b[2] - b[1] => f[c] = g[c]
      <4>1. \A c \in D : c[2] - c[1] < b[2] - b[1] => c[2] - c[1] <= w
        BY <2>3 DEF Bounds
      <4> QED
        BY <4>1, <2>2
    <3>2. Turn(f, keys, key, b) = Turn(g, keys, key, b)
      BY <3>1, TurnNarrows
    <3>3. g[b] = Turn(f, keys, key, b)
      BY <2>1, <2>2
    <3> QED
      BY <3>2, <3>3
  <2> QED
    BY <2>3
<1> HIDE DEF P
<1>3. P(Len(keys))
  <2>1. \A n \in Nat : P(n)
    <3> SUFFICES ASSUME NEW n \in Nat, ~P(n) PROVE FALSE
      OBVIOUS
    <3>1. PICK m \in {i \in Nat : ~P(i)} : \A i \in {j \in Nat : ~P(j)} : m <= i
      BY Least
    <3>2. m # 0 /\ m - 1 \in Nat
      BY <1>1, <3>1
    <3>3. P(m - 1)
      BY <3>1, <3>2
    <3>4. P(m)
      BY <1>2, <3>2, <3>3
    <3> QED
      BY <3>1, <3>4
  <2> QED
    BY <2>1
<1>4. PICK f : Upto(f, Len(keys))
  BY <1>3 DEF P
<1> DEFINE g == [b \in D |-> f[b]]
<1>5. g = [b \in D |-> Turn(g, keys, key, b)]
  <2>1. \A b \in D : b[2] - b[1] <= Len(keys)
    BY DEF Bounds
  <2>2. ASSUME NEW b \in D PROVE g[b] = Turn(g, keys, key, b)
    <3>1. g[b] = Turn(f, keys, key, b)
      BY <1>4, <2>1
    <3>2. Turn(f, keys, key, b) = Turn(g, keys, key, b)
      <4>1. \A c \in D : f[c] = g[c]
        OBVIOUS
      <4> HIDE DEF g
      <4> QED
        BY <4>1, TurnNarrows
    <3> QED
      BY <3>1, <3>2
  <2> QED
    BY <2>2
<1> HIDE DEF g
<1>6. Probing(keys, key) = CHOOSE h : h = [b \in D |-> Turn(h, keys, key, b)]
  BY DEF Probing, Turn, Bounds
<1> DEFINE h == Probing(keys, key)
<1>7. h = [b \in D |-> Turn(h, keys, key, b)]
  <2> HIDE DEF D
  <2> QED
    BY <1>5, <1>6
<1> HIDE DEF h
<1>8. \A b \in D : h[b] = Turn(h, keys, key, b)
  BY <1>7
<1> QED
  BY <1>8 DEF h

\* Where the search is to look: among keys of data forks, those up to start are before
\* the key, those behind end are behind it.
Plain(keys) == \A i \in 1 .. Len(keys) : keys[i] \in DataKeys
Narrowed(keys, key, b) ==
    /\ b[1] < b[2]
    /\ Plain(keys) => /\ \A i \in 1 .. b[1] : Precedes(keys[i], key)
                      /\ \A i \in b[2] + 1 .. Len(keys) : Precedes(key, keys[i])

\* What it finds: a key and how it compares; among keys of data forks, that or one next
\* to where it would be.
Found(keys, key, p) ==
    /\ p.mid \in 1 .. Len(keys) /\ p.comp = Compare(keys[p.mid], key)
    /\ Plain(keys) => /\ \A i \in 1 .. p.mid - 1 : Precedes(keys[i], key)
                      /\ \A i \in p.mid + 1 .. Len(keys) : Precedes(key, keys[i])

Ascend(keys) == \A i, j \in 1 .. Len(keys) : i < j => Precedes(keys[i], keys[j])

\* A turn finds it, or narrows the search.
LEMMA TurnFinds ==
    ASSUME NEW keys \in Seq(Key), Ascend(keys), NEW key \in DataKeys, NEW f,
           NEW b \in Bounds(keys), Narrowed(keys, key, b)
    PROVE  \/ Found(keys, key, Turn(f, keys, key, b))
           \/ \E c \in Bounds(keys) : /\ c[2] - c[1] < b[2] - b[1] /\ Narrowed(keys, key, c)
                                      /\ Turn(f, keys, key, b) = f[c]
<1> DEFINE mid == (b[1] + b[2]) \div 2
           comp == Compare(keys[mid + 1], key)
<1>1. /\ Len(keys) \in Nat /\ b[1] \in 0 .. Len(keys) /\ b[2] \in 0 .. Len(keys)
      /\ mid \in Nat /\ b[1] <= mid /\ mid < b[2]
  BY DEF Bounds, Narrowed
<1>2. key \in Key /\ \A i \in 1 .. Len(keys) : keys[i] \in Key
  BY DEF DataKeys
<1>3. Turn(f, keys, key, b) =
        IF comp > 0 /\ mid + 1 < b[2] THEN f[<<mid + 1, b[2]>>]
        ELSE IF comp < 0 /\ b[1] < mid THEN f[<<b[1], mid>>]
        ELSE [mid |-> mid + 1, comp |-> comp]
  BY DEF Turn
<1> HIDE DEF mid
<1> DEFINE m == mid + 1
<1>4. m \in 1 .. Len(keys) /\ m = mid + 1 /\ keys[m] \in Key
  BY <1>1, <1>2
<1>5. /\ comp \in Int /\ comp = Compare(keys[m], key)
      /\ comp = 0 <=> keys[m] = key
      /\ Plain(keys) => /\ comp > 0 <=> Precedes(keys[m], key)
                        /\ comp < 0 <=> Precedes(key, keys[m])
  BY <1>4, CompareIs DEF Plain
<1> HIDE DEF comp, m
<1>6. \A i \in 1 .. m - 1 : Precedes(keys[i], keys[m])
  BY <1>1, <1>4 DEF Ascend
<1>7. \A i \in m + 1 .. Len(keys) : Precedes(keys[m], keys[i])
  BY <1>1, <1>4 DEF Ascend
<1>8. Plain(keys) /\ comp >= 0 => \A i \in 1 .. m - 1 : Precedes(keys[i], key)
  BY <1>1, <1>2, <1>4, <1>5, <1>6, PrecedesOrders
<1>9. Plain(keys) /\ comp <= 0 => \A i \in m + 1 .. Len(keys) : Precedes(key, keys[i])
  BY <1>1, <1>2, <1>4, <1>5, <1>7, PrecedesOrders
<1>10. CASE comp > 0 /\ mid + 1 < b[2]
  <2> DEFINE c == <<mid + 1, b[2]>>
  <2>1. c[1] = m /\ c[2] = b[2] /\ c \in Bounds(keys)
    BY <1>1, <1>4, <1>10 DEF Bounds
  <2>2. Turn(f, keys, key, b) = f[c]
    BY <1>3, <1>10
  <2> HIDE DEF c
  <2>3. c[2] - c[1] < b[2] - b[1]
    BY <1>1, <1>4, <2>1
  <2>4. Plain(keys) => \A i \in 1 .. m : Precedes(keys[i], key)
    BY <1>4, <1>5, <1>8, <1>10
  <2>5. Narrowed(keys, key, c)
    BY <1>1, <1>4, <1>10, <2>1, <2>4 DEF Narrowed
  <2> QED
    BY <2>1, <2>2, <2>3, <2>5
<1>11. CASE comp < 0 /\ b[1] < mid
  <2> DEFINE c == <<b[1], mid>>
  <2>1. c[1] = b[1] /\ c[2] = mid /\ c \in Bounds(keys)
    BY <1>1, <1>4, <1>11 DEF Bounds
  <2>2. Turn(f, keys, key, b) = f[c]
    BY <1>3, <1>5, <1>11
  <2> HIDE DEF c
  <2>3. c[2] - c[1] < b[2] - b[1]
    BY <1>1, <1>4, <2>1
  <2>4. Plain(keys) => \A i \in m .. Len(keys) : Precedes(key, keys[i])
    BY <1>4, <1>5, <1>9, <1>11
  <2>5. Narrowed(keys, key, c)
    BY <1>1, <1>4, <1>11, <2>1, <2>4 DEF Narrowed
  <2> QED
    BY <2>1, <2>2, <2>3, <2>5
<1>12. CASE ~(comp > 0 /\ mid + 1 < b[2]) /\ ~(comp < 0 /\ b[1] < mid)
  <2> DEFINE p == [mid |-> m, comp |-> comp]
  <2>1. Turn(f, keys, key, b) = p
    BY <1>3, <1>4, <1>12
  <2>2. p.mid = m /\ p.comp = comp
    OBVIOUS
  <2> HIDE DEF p
  <2>3. Plain(keys) => \A i \in 1 .. m - 1 : Precedes(keys[i], key)
    <3>1. CASE comp >= 0
      BY <1>8, <3>1
    <3>2. CASE comp < 0
      BY <1>1, <1>4, <1>12, <3>2 DEF Narrowed
    <3> QED
      BY <1>5, <3>1, <3>2
  <2>4. Plain(keys) => \A i \in m + 1 .. Len(keys) : Precedes(key, keys[i])
    <3>1. CASE comp <= 0
      BY <1>9, <3>1
    <3>2. CASE comp > 0
      BY <1>1, <1>4, <1>12, <3>2 DEF Narrowed
    <3> QED
      BY <1>5, <3>1, <3>2
  <2>5. Found(keys, key, p)
    BY <1>4, <1>5, <2>2, <2>3, <2>4 DEF Found
  <2> QED
    BY <2>1, <2>5
<1> QED
  BY <1>5, <1>10, <1>11, <1>12

\* The binary search finds a key among ascending ones, or where it would be.
LEMMA ProbeFinds ==
    ASSUME NEW keys \in Seq(Key), Len(keys) > 0, Ascend(keys), NEW key \in DataKeys
    PROVE  Found(keys, key, Probe(keys, key))
<1> DEFINE f == Probing(keys, key)
           Open == {b \in Bounds(keys) : Narrowed(keys, key, b) /\ ~Found(keys, key, f[b])}
<1>1. \A b \in Bounds(keys) : f[b] = Turn(f, keys, key, b)
  BY ProbingUnfolds
<1> HIDE DEF f
<1>2. ASSUME NEW b \in Open
      PROVE  \E c \in Open : c[2] - c[1] < b[2] - b[1]
  BY <1>1, TurnFinds
<1>3. Open = {}
  <2> SUFFICES ASSUME Open # {} PROVE FALSE
    OBVIOUS
  <2> DEFINE W == {b[2] - b[1] : b \in Open}
  <2>1. W \in SUBSET Nat /\ W # {}
    BY DEF Bounds, Narrowed
  <2>2. PICK w \in W : \A v \in W : w <= v
    BY <2>1, Least
  <2>3. PICK b \in Open : w = b[2] - b[1]
    BY <2>2
  <2>4. PICK c \in Open : c[2] - c[1] < b[2] - b[1]
    BY <1>2
  <2>5. c[2] - c[1] \in W
    OBVIOUS
  <2>6. w <= c[2] - c[1] /\ w \in Nat /\ c[2] - c[1] \in Nat
    BY <2>1, <2>2, <2>5
  <2> QED
    BY <2>3, <2>4, <2>6
<1>4. <<0, Len(keys)>> \in Bounds(keys) /\ Narrowed(keys, key, <<0, Len(keys)>>)
  BY DEF Bounds, Narrowed
<1>5. Found(keys, key, f[<<0, Len(keys)>>])
  BY <1>3, <1>4
<1> QED
  BY <1>5 DEF Probe, f

\* The child is one of the node's, or none is; among keys of data forks, the last whose
\* first key is not behind the key.
LEMMA ChildIs ==
    ASSUME NEW keys \in Seq(Key), Len(keys) > 0, Ascend(keys), NEW key \in DataKeys
    PROVE  /\ Child(keys, key) \in 0 .. Len(keys)
           /\ Plain(keys) => \A i \in 1 .. Len(keys) :
                                i <= Child(keys, key) <=> ~Precedes(key, keys[i])
<1> DEFINE p == Probe(keys, key)
<1>1. Found(keys, key, p) /\ Len(keys) \in Nat
  BY ProbeFinds
<1>2. Child(keys, key) = IF p.comp < 0 THEN p.mid - 1 ELSE p.mid
  BY DEF Child
<1> HIDE DEF p
<1>3. key \in Key /\ \A i \in 1 .. Len(keys) : keys[i] \in Key
  BY DEF DataKeys
<1>4. p.mid \in 1 .. Len(keys) /\ p.comp = Compare(keys[p.mid], key) /\ p.comp \in Int
  BY <1>1, <1>3, CompareIs DEF Found
<1>5. ASSUME Plain(keys), NEW i \in 1 .. Len(keys)
      PROVE  /\ i < p.mid => ~Precedes(key, keys[i])
             /\ i > p.mid => Precedes(key, keys[i])
             /\ i = p.mid => (p.comp < 0 <=> Precedes(key, keys[i]))
  BY <1>1, <1>3, <1>4, <1>5, PrecedesOrders, CompareIs, SMTT(40) DEF Found, Plain
<1> QED
  BY <1>1, <1>2, <1>4, <1>5

-----------------------------------------------------------------------------
\* Nothing has been read yet.
LEMMA InitInv == Init => IInv
  <1> SUFFICES ASSUME Init PROVE IInv
    OBVIOUS
  <1>1. call \in [fork : Forks, first : Nat, count : Nat]
    <2>1. PICK f \in Forks : call = [fork |-> f, first |-> 0, count |-> 0]
      BY DEF Init
    <2> QED
      BY <2>1
  <1>2. buf = <<>> /\ buf \in Seq(Nat)
    BY DEF Init
  <1>3. TypeOK
    BY <1>1, <1>2 DEF Init, TypeOK
  <1> QED
    BY <1>2, <1>3 DEF Init, IInv, PositionTrue, BehindTrue, PlaceTrue, SearchTrue, Searching,
       Loop, Progress, ReadsTheFork, FailsForAReason

\* A record found stays where it is while its blocks are read.
LEMMA PlaceKept ==
    ASSUME PlaceTrue, pc \in {"skip", "read", "next"}, pc' \notin {"behind", "first"},
           UNCHANGED <<call, record, place, extents>>
    PROVE  PlaceTrue'
  BY DEF PlaceTrue, Places, KeyAt, ValueAt, KeyOf

\* Where a loop uses the iterator, it is inside an extent.
LEMMA UsedInside ==
    ASSUME IInv, pc \in {"read", "next"} \/ (pc = "skip" /\ skip > 0)
    PROVE  Inside /\ Number <= Len(Extents[call.fork])
  <1>1. TypeOK /\ PositionTrue /\ Progress
    BY DEF IInv
  <1>2. pc \in {"skip", "read", "next"} /\ ~(pc = "skip" /\ skip = 0 /\ count = 0)
    BY <1>1 DEF TypeOK
  <1>3. Number <= Len(Extents[call.fork]) /\ index < PerRecord
    BY <1>1, <1>2 DEF PositionTrue
  <1>4. block < Extent.count /\ curr_block = Base[call.fork][Number] + block
    BY <1>1, <1>2, <1>3 DEF PositionTrue
  <1>5. Number \in 1 .. Len(Extents[call.fork]) /\ Extent = Extents[call.fork][Number]
    BY <1>1, <1>3, ExtentIs
  <1> QED
    BY <1>3, <1>4, <1>5 DEF Inside, At

\* Back to what the invariant says of the position.
LEMMA InsideTrue == Inside => PositionTrue
  <1> SUFFICES ASSUME Inside PROVE PositionTrue
    OBVIOUS
  <1>1. Number \in 1 .. Len(Extents[call.fork]) => Extent = Extents[call.fork][Number]
    BY DEF Extent
  <1> QED
    BY <1>1 DEF PositionTrue, Inside, At

\* A call begins at the first block of the first extent.
LEMMA CallInv == IInv /\ Call => IInv'
  <1> SUFFICES ASSUME IInv, Call PROVE IInv'
    OBVIOUS
  <1>1. PICK f \in Forks : \E first \in 0 .. Total(f), n \in 0 .. Total(f) :
            /\ n > 0 => Total(f) > 0
            /\ first > 0 => n > 0
            /\ call' = [fork |-> f, first |-> first, count |-> n]
            /\ skip' = first /\ count' = n
    BY DEF Call
  <1>2. PICK first \in 0 .. Total(f), n \in 0 .. Total(f) :
            /\ n > 0 => Total(f) > 0
            /\ first > 0 => n > 0
            /\ call' = [fork |-> f, first |-> first, count |-> n]
            /\ skip' = first /\ count' = n
    BY <1>1
  <1>3. /\ Total(f) \in Nat /\ Len(Extents[f]) \in Nat /\ Base[f][1] = 0
        /\ Total(f) = Base[f][Len(Extents[f]) + 1]
        /\ PerRecord \in Nat \ {0}
    BY Layout, LayoutAssumption
  <1>4. /\ curr_block' = 0 /\ block' = 0 /\ index' = 0 /\ record' = 0
        /\ pc' = "skip" /\ buf' = <<>> /\ answer' = "none" /\ failed' = FALSE
        /\ UNCHANGED <<extents, tree, loop>>
    BY DEF Call, search
  <1>5. TypeOK'
    <2>1. call' \in [fork : Forks, first : Nat, count : Nat] /\ skip' \in Nat /\ count' \in Nat
      BY <1>2, <1>3
    <2>2. buf' \in Seq(Nat) /\ UNCHANGED <<extents, tree, loop>>
      BY <1>4 DEF TypeOK, IInv
    <2> QED
      BY <1>4, <2>1, <2>2 DEF TypeOK, IInv
  <1>6. Number' = 1
    BY <1>3, <1>4 DEF Number
  <1>7. PositionTrue'
    <2>1. CASE n = 0
      <3>1. skip' = 0 /\ count' = 0
        BY <1>2, <1>3, <2>1
      <3>2. 1 <= Len(Extents[f]) => Extents[f][1].count \in Nat \ {0}
        BY <1>3, Layout
      <3> QED
        BY <1>2, <1>3, <1>4, <1>6, <3>1, <3>2 DEF PositionTrue, Extent
    <2>2. CASE n # 0
      <3>1. Len(Extents[f]) # 0
        BY <1>2, <1>3, <2>2
      <3>2. 1 \in 1 .. Len(Extents[f]) /\ Extents[f][1].count \in Nat \ {0}
        BY <1>3, <3>1, Layout
      <3> QED
        BY <1>2, <1>3, <1>4, <1>6, <3>2 DEF PositionTrue, Extent
    <2> QED
      BY <2>1, <2>2
  <1>8. Progress' /\ ReadsTheFork' /\ FailsForAReason'
    BY <1>2, <1>3, <1>4 DEF Progress, Loop, Searching, ReadsTheFork, FailsForAReason
  <1>9. BehindTrue' /\ PlaceTrue' /\ SearchTrue'
    BY <1>4 DEF BehindTrue, PlaceTrue, SearchTrue, Searching
  <1> QED
    BY <1>5, <1>7, <1>8, <1>9 DEF IInv

\* A turn of the skip loop brings the position as far as it takes off skip.
LEMMA SkipInv == IInv /\ Skip => IInv'
  <1> SUFFICES ASSUME IInv, Skip PROVE IInv'
    OBVIOUS
  <1> DEFINE diff == IF skip < Left THEN skip ELSE Left
  <1>1. /\ TypeOK /\ PlaceTrue /\ Progress /\ ReadsTheFork /\ FailsForAReason
        /\ pc = "skip" /\ skip > 0 /\ skip' = skip - diff /\ Move(diff, "skip")
        /\ UNCHANGED <<call, count, buf>>
    BY DEF IInv, Skip
  <1>2. Inside /\ Number <= Len(Extents[call.fork])
    BY <1>1, UsedInside
  <1>3. Extent.count \in Nat \ {0} /\ block < Extent.count /\ block \in Nat /\ skip \in Nat
    BY <1>1, <1>2, ExtentIs DEF Inside, At, TypeOK
  <1>4. diff \in Nat /\ diff <= Extent.count - block /\ diff <= skip
    BY <1>3 DEF Left
  <1> HIDE DEF diff
  <1>5. /\ curr_block' = curr_block + diff
        /\ block' \in Nat /\ index' \in Nat /\ loop' \in {loop, "skip"}
        /\ UNCHANGED <<record, place, extents, tree, node, failed>>
        /\ \/ pc' = "skip" /\ Inside' /\ answer' = answer
           \/ pc' = "extents" /\ loop' = "skip" /\ BehindTrue' /\ answer' = answer
           \/ pc' = "idle" /\ answer' = "null" /\ curr_block' >= Total(call.fork)
    BY <1>1, <1>2, <1>4, MoveKeeps
  <1>6. curr_block \in Nat /\ curr_block + skip = call.first /\ count = call.count /\ buf = <<>>
    BY <1>1 DEF TypeOK, Progress, Loop, Searching
  <1>7. TypeOK'
    BY <1>1, <1>3, <1>4, <1>5, <1>6 DEF TypeOK
  <1>8. PositionTrue'
    <2>1. CASE pc' = "skip"
      <3>1. Inside'
        BY <1>5, <2>1
      <3> QED
        BY <3>1, InsideTrue, PTL
    <2>2. CASE pc' # "skip"
      BY <1>5, <2>2 DEF PositionTrue
    <2> QED
      BY <2>1, <2>2
  <1>9. Progress' /\ ReadsTheFork'
    BY <1>1, <1>3, <1>4, <1>5, <1>6 DEF Progress, Loop, Searching, ReadsTheFork
  <1>10. FailsForAReason'
    <2>1. curr_block' <= call.first /\ call.first \in Nat /\ call.fork \in Forks
      BY <1>1, <1>3, <1>4, <1>5, <1>6 DEF TypeOK
    <2>2. Total(call.fork) \in Nat
      BY <2>1, Layout
    <2>3. pc' = "idle" => call.first >= Total(call.fork)
      BY <1>4, <1>5, <1>6, <2>1, <2>2
    <2> QED
      BY <1>1, <2>3 DEF FailsForAReason, Total
  <1>11. BehindTrue' /\ PlaceTrue' /\ SearchTrue'
    <2>1. PlaceTrue'
      BY <1>1, <1>5, PlaceKept
    <2>2. BehindTrue' /\ SearchTrue'
      BY <1>5 DEF BehindTrue, SearchTrue, Searching
    <2> QED
      BY <2>1, <2>2
  <1> QED
    BY <1>7, <1>8, <1>9, <1>10, <1>11 DEF IInv

\* With nothing left to skip the position is the first block of the call.
LEMMA SkippedInv == IInv /\ Skipped => IInv'
  <1> SUFFICES ASSUME IInv, Skipped PROVE IInv'
    OBVIOUS
  <1>1. /\ TypeOK /\ PositionTrue /\ PlaceTrue /\ Progress /\ ReadsTheFork /\ FailsForAReason
        /\ pc = "skip" /\ skip = 0
        /\ UNCHANGED <<call, skip, count, iter, extents, tree, node, loop, buf, failed>>
    BY DEF IInv, Skipped, search
  <1>2. \/ count > 0 /\ pc' = "read" /\ answer' = answer
        \/ ~(count > 0) /\ pc' = "idle" /\ answer' = "buf"
    BY DEF Skipped, Return
  <1>3. count \in Nat /\ curr_block \in Nat /\ curr_block + skip = call.first
        /\ count = call.count /\ buf = <<>>
    BY <1>1 DEF TypeOK, Progress, Loop, Searching
  <1>4. TypeOK'
    BY <1>1, <1>2 DEF TypeOK, iter
  <1>5. PositionTrue'
    BY <1>1, <1>2 DEF PositionTrue, Number, Extent, iter
  <1>6. Progress' /\ ReadsTheFork' /\ FailsForAReason'
    <2>1. Progress'
      BY <1>1, <1>2, <1>3 DEF Progress, Loop, Searching, iter
    <2>2. ReadsTheFork'
      BY <1>1, <1>2, <1>3 DEF ReadsTheFork
    <2>3. FailsForAReason'
      BY <1>1, <1>2 DEF FailsForAReason
    <2> QED
      BY <2>1, <2>2, <2>3
  <1>7. BehindTrue' /\ PlaceTrue' /\ SearchTrue'
    <2>1. PlaceTrue'
      BY <1>1, <1>2, PlaceKept DEF iter
    <2>2. BehindTrue' /\ SearchTrue'
      BY <1>1, <1>2 DEF BehindTrue, SearchTrue, Searching
    <2> QED
      BY <2>1, <2>2
  <1> QED
    BY <1>4, <1>5, <1>6, <1>7 DEF IInv

\* The block that is read is that of the fork where the iterator is.
LEMMA ReadsBlock ==
    ASSUME TypeOK, Inside
    PROVE  IsBlock(call.fork, curr_block, Extent.start + block)
  <1>1. /\ Number \in 1 .. Len(Extents[call.fork]) /\ block < Extents[call.fork][Number].count
        /\ curr_block = Base[call.fork][Number] + block /\ block \in Nat
    BY DEF TypeOK, Inside, At
  <1>2. Number <= Len(Extents[call.fork])
    <2>1. Len(Extents[call.fork]) \in Nat
      BY Layout DEF TypeOK
    <2> QED
      BY <1>1, <2>1
  <1>3. /\ Extent = Extents[call.fork][Number] /\ Extent.count \in Nat /\ Extent.start \in Nat
        /\ Base[call.fork][Number + 1] = Base[call.fork][Number] + Extent.count
        /\ Base[call.fork][Number] \in Nat
    BY <1>2, ExtentIs
  <1>4. /\ Base[call.fork][Number] <= curr_block /\ curr_block < Base[call.fork][Number + 1]
        /\ Extent.start + block = Extents[call.fork][Number].start
                                  + (curr_block - Base[call.fork][Number])
    BY <1>1, <1>3, SMTT(30)
  <1> QED
    BY <1>1, <1>4 DEF IsBlock

\* The block read is the next one of the fork.
LEMMA ReadInv == IInv /\ Read => IInv'
  <1> SUFFICES ASSUME IInv, Read PROVE IInv'
    OBVIOUS
  <1>1. /\ TypeOK /\ PositionTrue /\ PlaceTrue /\ Progress /\ ReadsTheFork /\ FailsForAReason
        /\ pc = "read" /\ count' = count - 1 /\ buf' = Append(buf, Extent.start + block)
        /\ UNCHANGED <<call, skip, iter, extents, tree, node, loop, failed>>
    BY DEF IInv, Read, search
  <1>2. \/ count' > 0 /\ pc' = "next" /\ answer' = answer
        \/ ~(count' > 0) /\ pc' = "idle" /\ answer' = "buf"
    BY DEF Read, Return
  <1>3. Inside /\ Number <= Len(Extents[call.fork])
    BY <1>1, UsedInside
  <1> DEFINE b == Extent.start + block
  <1>4. IsBlock(call.fork, curr_block, b) /\ b \in Nat
    <2>1. Extent.start \in Nat /\ block \in Nat
      BY <1>1, <1>3, ExtentIs DEF TypeOK
    <2> QED
      BY <1>1, <1>3, <2>1, ReadsBlock
  <1> HIDE DEF b
  <1>5. /\ buf \in Seq(Nat) /\ Len(buf) \in Nat /\ count \in Nat /\ count > 0
        /\ Len(buf) + count = call.count /\ skip = 0
        /\ curr_block = call.first + Len(buf) /\ call.first \in Nat /\ call.count \in Nat
    BY <1>1 DEF TypeOK, Progress, Loop, Searching
  <1>6. /\ buf' = Append(buf, b) /\ buf' \in Seq(Nat) /\ Len(buf') = Len(buf) + 1
        /\ \A i \in 1 .. Len(buf) : buf'[i] = buf[i]
        /\ buf'[Len(buf) + 1] = b
    BY <1>1, <1>4, <1>5 DEF b
  <1>7. TypeOK'
    BY <1>1, <1>2, <1>5, <1>6 DEF TypeOK, iter
  <1>8. PositionTrue'
    BY <1>1, <1>2, <1>3 DEF PositionTrue, Number, Extent, iter
  <1>9. Progress'
    BY <1>1, <1>2, <1>5, <1>6 DEF Progress, Loop, Searching, iter
  <1>10. ReadsTheFork'
    <2>1. ASSUME NEW i \in 1 .. Len(buf')
          PROVE  IsBlock(call.fork, call.first + i - 1, buf'[i])
      <3>1. CASE i \in 1 .. Len(buf)
        BY <1>1, <1>6, <3>1 DEF ReadsTheFork
      <3>2. CASE i = Len(buf) + 1
        <4>1. call.first + i - 1 = curr_block
          BY <1>5, <3>2
        <4> QED
          BY <1>4, <1>6, <3>2, <4>1
      <3> QED
        BY <1>5, <1>6, <3>1, <3>2
    <2>2. pc' = "idle" => Len(buf') = call.count
      BY <1>1, <1>2, <1>5, <1>6
    <2>3. call' = call
      BY <1>1
    <2> QED
      BY <2>1, <2>2, <2>3 DEF ReadsTheFork, IsBlock
  <1>11. FailsForAReason'
    BY <1>1, <1>2 DEF FailsForAReason
  <1>12. BehindTrue' /\ PlaceTrue' /\ SearchTrue'
    <2>1. PlaceTrue'
      BY <1>1, <1>2, PlaceKept DEF iter
    <2>2. BehindTrue' /\ SearchTrue'
      BY <1>1, <1>2 DEF BehindTrue, SearchTrue, Searching
    <2> QED
      BY <2>1, <2>2
  <1> QED
    BY <1>7, <1>8, <1>9, <1>10, <1>11, <1>12 DEF IInv

\* A failed read ends the call.
LEMMA ReadFailsInv == IInv /\ ReadFails => IInv'
  <1> SUFFICES ASSUME IInv, ReadFails PROVE IInv'
    OBVIOUS
  <1>1. /\ TypeOK /\ Progress /\ ReadsTheFork /\ pc = "read" /\ count' = count - 1
        /\ pc' = "idle" /\ answer' = "null" /\ failed' = TRUE
        /\ UNCHANGED <<call, skip, iter, extents, tree, node, loop, buf>>
    BY DEF IInv, ReadFails, Return, search
  <1>2. count \in Nat /\ count > 0
    BY <1>1 DEF TypeOK, Progress, Loop, Searching
  <1>3. TypeOK'
    BY <1>1, <1>2 DEF TypeOK, iter
  <1>4. PositionTrue' /\ Progress' /\ FailsForAReason'
    BY <1>1 DEF PositionTrue, Progress, Loop, Searching, FailsForAReason
  <1>5. ReadsTheFork'
    BY <1>1 DEF ReadsTheFork
  <1>6. BehindTrue' /\ PlaceTrue' /\ SearchTrue'
    BY <1>1 DEF BehindTrue, PlaceTrue, SearchTrue, Searching
  <1> QED
    BY <1>3, <1>4, <1>5, <1>6 DEF IInv

\* The read loop moves on by one block.
LEMMA AdvanceInv == IInv /\ Advance => IInv'
  <1> SUFFICES ASSUME IInv, Advance PROVE IInv'
    OBVIOUS
  <1>1. /\ TypeOK /\ PlaceTrue /\ Progress /\ ReadsTheFork /\ FailsForAReason
        /\ pc = "next" /\ Move(1, "read") /\ UNCHANGED <<call, skip, count, buf>>
    BY DEF IInv, Advance
  <1>2. Inside /\ Number <= Len(Extents[call.fork])
    BY <1>1, UsedInside
  <1>3. Extent.count \in Nat \ {0} /\ block < Extent.count /\ block \in Nat
    BY <1>1, <1>2, ExtentIs DEF Inside, At, TypeOK
  <1>4. 1 <= Extent.count - block
    BY <1>3
  <1>5. /\ curr_block' = curr_block + 1
        /\ block' \in Nat /\ index' \in Nat /\ loop' \in {loop, "read"}
        /\ UNCHANGED <<record, place, extents, tree, node, failed>>
        /\ \/ pc' = "read" /\ Inside' /\ answer' = answer
           \/ pc' = "extents" /\ loop' = "read" /\ BehindTrue' /\ answer' = answer
           \/ pc' = "idle" /\ answer' = "null" /\ curr_block' >= Total(call.fork)
    BY <1>1, <1>2, <1>4, MoveKeeps
  <1>6. /\ curr_block \in Nat /\ count \in Nat /\ count > 0 /\ skip = 0 /\ Len(buf) \in Nat
        /\ Len(buf) + count = call.count /\ curr_block = call.first + Len(buf) - 1
        /\ call.first \in Nat /\ call.count \in Nat /\ call.fork \in Forks
    BY <1>1 DEF TypeOK, Progress, Loop, Searching
  <1>7. TypeOK'
    BY <1>1, <1>5, <1>6 DEF TypeOK
  <1>8. PositionTrue'
    <2>1. CASE pc' = "read"
      <3>1. Inside'
        BY <1>5, <2>1
      <3> QED
        BY <3>1, InsideTrue, PTL
    <2>2. CASE pc' # "read"
      BY <1>5, <2>2 DEF PositionTrue
    <2> QED
      BY <2>1, <2>2
  <1>9. Progress' /\ ReadsTheFork'
    <2>1. Progress'
      <3>1. Loop' \in {"read", "idle"} /\ UNCHANGED <<call, skip, count, buf>>
        BY <1>1, <1>5 DEF Loop, Searching
      <3>2. curr_block' = call.first + Len(buf)
        BY <1>5, <1>6
      <3> QED
        BY <1>6, <3>1, <3>2 DEF Progress
    <2>2. ReadsTheFork'
      BY <1>1, <1>5 DEF ReadsTheFork
    <2> QED
      BY <2>1, <2>2
  <1>10. FailsForAReason'
    <2>1. Total(call.fork) \in Nat
      BY <1>6, Layout
    <2>2. pc' = "idle" => call.first + call.count > Total(call.fork)
      BY <1>5, <1>6, <2>1
    <2> QED
      BY <1>1, <2>2 DEF FailsForAReason, Total
  <1>11. BehindTrue' /\ PlaceTrue' /\ SearchTrue'
    <2>1. PlaceTrue'
      BY <1>1, <1>5, PlaceKept
    <2>2. BehindTrue' /\ SearchTrue'
      BY <1>5 DEF BehindTrue, SearchTrue, Searching
    <2> QED
      BY <2>1, <2>2
  <1> QED
    BY <1>7, <1>8, <1>9, <1>10, <1>11 DEF IInv

-----------------------------------------------------------------------------
(* The steps of the search. *)

\* While the next record is looked for, nothing but the search moves on, and what is read
\* stays: what is left to show is where it has come to.
Looked == UNCHANGED <<call, skip, count, curr_block, block, index, buf, extents, loop>>
LEMMA SearchKeeps ==
    ASSUME IInv, Searching, Looked, tree' \in {"none", "made", "torn"}, failed' \in BOOLEAN,
           record' \in Nat,
           \/ Searching' /\ record' = record /\ answer' = answer
           \/ pc' = loop /\ Inside' /\ answer' = answer
           \/ pc' \in {"null", "torn"} /\ record' = record /\ answer' = answer
           \/ pc' = "idle" /\ answer' = "null" /\ (failed' \/ ~DataForksOnly(extents)),
           PlaceTrue', SearchTrue'
    PROVE  IInv'
  <1>1. /\ TypeOK /\ BehindTrue /\ Progress /\ ReadsTheFork
        /\ Looked /\ loop \in {"skip", "read"}
    BY DEF IInv, TypeOK
  <1>2. TypeOK'
    BY <1>1 DEF TypeOK, Looked, Searching
  <1>3. PositionTrue'
    <2>1. CASE pc' = loop /\ Inside'
      <3>1. Inside'
        BY <2>1
      <3> QED
        BY <3>1, InsideTrue, PTL
    <2>2. CASE pc' \notin {"skip", "read", "next"}
      BY <2>2 DEF PositionTrue
    <2> QED
      BY <1>1, <2>1, <2>2 DEF Searching
  <1>4. BehindTrue'
    <2>1. CASE Searching'
      <3>1. record' = record
        BY <1>1, <2>1 DEF Searching
      <3> QED
        BY <1>1, <2>1, <3>1 DEF BehindTrue, Looked, HasRecord
    <2>2. CASE ~Searching'
      BY <2>2 DEF BehindTrue
    <2> QED
      BY <2>1, <2>2
  <1>5. Progress'
    <2>1. Loop' = loop \/ Loop' \in {"idle", "null", "torn"}
      BY <1>1 DEF Loop, Looked
    <2>2. Loop = loop
      BY DEF Loop
    <2> QED
      BY <1>1, <2>1, <2>2 DEF Progress, Looked
  <1>6. ReadsTheFork'
    <2>1. answer' # "buf" \/ pc' # "idle"
      BY <1>1 DEF Searching
    <2> QED
      BY <1>1, <2>1 DEF ReadsTheFork, Looked
  <1>7. FailsForAReason'
    <2>1. pc' = "idle" => failed' \/ ~DataForksOnly(extents)
      BY <1>1 DEF Searching
    <2> QED
      BY <1>1, <2>1 DEF FailsForAReason, Looked
  <1> QED
    BY <1>2, <1>3, <1>4, <1>5, <1>6, <1>7 DEF IInv

\* What is looked for is a key of a data fork.
LEMMA WantedIs ==
    ASSUME IInv, Searching
    PROVE  /\ call.fork \in Forks /\ record \in Nat /\ HasRecord(call.fork, record + 1)
           /\ record + 1 \in 1 .. Len(Extents[call.fork])
           /\ Wanted = KeyOf(call.fork, record + 1) /\ Wanted \in DataKeys
           /\ \E n \in LeavesOf(extents) : \E p \in Places(n) : KeyAt(p) = Wanted
  <1> DEFINE f == call.fork
             j == record + 1
  <1>1. f \in Forks /\ record \in Nat /\ extents \in ExtentsTrees /\ BehindTrue
    BY DEF IInv, TypeOK
  <1>2. HasRecord(f, j) /\ curr_block = Base[f][j * PerRecord + 1] /\ j \in Nat /\ j > 0
    BY <1>1 DEF BehindTrue
  <1>3. j \in 1 .. Len(Extents[f])
    <2>1. PerRecord \in Nat \ {0} /\ Len(Extents[f]) \in Nat
      BY <1>1, Layout, LayoutAssumption
    <2>2. j <= j * PerRecord /\ j * PerRecord \in Nat
      BY <1>2, <2>1, Product
    <2> QED
      BY <1>2, <2>1, <2>2 DEF HasRecord
  <1>4. Wanted = KeyOf(f, j)
    BY <1>2 DEF Wanted, KeyOf
  <1>5. PICK n \in LeavesOf(extents) : \E i \in 1 .. Len(extents.node[n].keys) :
           extents.node[n].keys[i] = KeyOf(f, j)
    BY <1>1, <1>2, <1>3, ExtentsAssumption DEF RecordsOK
  <1>6. PICK i \in 1 .. Len(extents.node[n].keys) : extents.node[n].keys[i] = KeyOf(f, j)
    BY <1>5
  <1>7. extents.node[n].keys[i] \in Key
    BY <1>1, NodeIs DEF LeavesOf
  <1>8. Wanted \in DataKeys
    BY <1>4, <1>6, <1>7 DEF DataKeys, KeyOf
  <1>9. [node |-> n, index |-> i] \in Places(n) /\ KeyAt([node |-> n, index |-> i]) = Wanted
    BY <1>4, <1>6 DEF Places, KeyAt
  <1> QED
    BY <1>1, <1>2, <1>3, <1>4, <1>8, <1>9

\* A record under the key looked for is taken: the loop goes on inside its first extent.
LEMMA TakeKeeps ==
    ASSUME IInv, Searching, Looked, tree' = tree, failed' = failed,
           node \in LeavesOf(extents), NEW i \in 1 .. Len(Node.keys), Node.keys[i] = Wanted,
           Take(i)
    PROVE  IInv'
  <1> DEFINE f == call.fork
             j == record + 1
  <1>1. /\ TypeOK /\ BehindTrue /\ extents \in ExtentsTrees /\ f \in Forks
        /\ tree \in {"none", "made", "torn"} /\ failed \in BOOLEAN /\ loop \in {"skip", "read"}
    BY DEF IInv, TypeOK
  <1>2. HasRecord(f, j) /\ Wanted = KeyOf(f, j) /\ j \in Nat /\ j \in 1 .. Len(Extents[f])
    BY WantedIs
  <1>3. Node.vals[i] = j
    <2>1. HasRecord(f, Node.vals[i]) /\ Node.keys[i] = KeyOf(f, Node.vals[i])
      <3>1. Node.keys[i].type = DataFork /\ Node.keys[i].file = f
        BY <1>2 DEF KeyOf
      <3> QED
        BY <1>1, <3>1, ExtentsAssumption DEF RecordsOK, Node
    <2>2. Node.vals[i] \in Nat
      BY <1>1, NodeIs DEF LeavesOf, Node
    <2> QED
      BY <1>1, <1>2, <2>1, <2>2, KeyTells
  <1>4. record' = j /\ place' = [node |-> node, index |-> i] /\ pc' = loop /\ answer' = answer
    BY <1>3 DEF Take
  <1>5. PlaceTrue'
    <2>1. place' \in UNION {Places(n) : n \in LeavesOf(extents)}'
      <3>1. i \in 1 .. Len(extents'.node[node].keys) /\ node \in LeavesOf(extents')
        BY DEF Node, Looked
      <3>2. \E n \in LeavesOf(extents') : \E l \in 1 .. Len(extents'.node[n].keys) :
               place' = [node |-> n, index |-> l]
        BY <1>4, <3>1
      <3> QED
        BY <3>2 DEF Places
    <2>2. KeyAt(place)' = KeyOf(call.fork, record)'
      BY <1>2, <1>4 DEF KeyAt, KeyOf, Node, Looked
    <2>3. ValueAt(place)' = record'
      BY <1>3, <1>4 DEF ValueAt, Node, Looked
    <2>4. pc' \in {"skip", "read"}
      BY <1>1, <1>4
    <2> QED
      BY <2>1, <2>2, <2>3, <2>4 DEF PlaceTrue
  <1>6. Inside'
    <2> DEFINE k == j * PerRecord
    <2>1. PerRecord \in Nat \ {0} /\ Len(Extents[f]) \in Nat
      BY <1>1, Layout, LayoutAssumption
    <2>2. k \in Nat /\ k < Len(Extents[f]) /\ curr_block = Base[f][k + 1] /\ index = 0 /\ block = 0
      BY <1>1, <1>2, <2>1, Product DEF BehindTrue, HasRecord
    <2>3. Number' = k + 1
      BY <1>4, <2>2 DEF Number, Looked
    <2>4. k + 1 \in 1 .. Len(Extents[f])
      BY <2>1, <2>2
    <2>5. Extents[f][k + 1].count \in Nat \ {0} /\ Base[f][k + 1] \in Nat
      BY <1>1, <2>4, Layout
    <2> QED
      BY <2>1, <2>2, <2>3, <2>4, <2>5 DEF Inside, At, Looked
  <1>7. SearchTrue'
    BY <1>1, <1>4 DEF SearchTrue
  <1> QED
    BY <1>1, <1>2, <1>4, <1>5, <1>6, <1>7, SearchKeeps

\* A visit of a node: it is at hand, or could not be read, or it may be torn.
LEMMA VisitIs ==
    ASSUME TypeOK, NEW n \in DOMAIN extents.node, NEW step, NEW missed, Visit(n, step, missed)
    PROVE  /\ Looked /\ UNCHANGED <<record, place>>
           /\ tree' \in {"none", "made", "torn"} /\ failed' \in BOOLEAN
           /\ \/ node' = n /\ pc' = step /\ answer' = answer
              \/ missed /\ failed' = TRUE
              \/ pc' = "torn" /\ answer' = answer
  <1>1. UInt16(n) = n
    BY NodeIs DEF TypeOK
  <1> QED
    BY <1>1 DEF Visit, Looked, iter, TypeOK

\* The place of the record at hand, and what is behind it in the leaves.
LEMMA PlaceIs ==
    ASSUME IInv, Searching, record # 0
    PROVE  LET n == place.node
               i == place.index
           IN  /\ n \in LeavesOf(extents) /\ n \in DOMAIN extents.node /\ i \in 1 .. Len(extents.node[n].keys)
               /\ IF i < Len(extents.node[n].keys) THEN extents.node[n].keys[i + 1] = Wanted
                  ELSE /\ extents.node[n].next \in LeavesOf(extents)
                       /\ extents.node[extents.node[n].next].keys[1] = Wanted
  <1> DEFINE f == call.fork
             n == place.node
             i == place.index
  <1>1. /\ f \in Forks /\ extents \in ExtentsTrees /\ HasRecord(f, record + 1)
        /\ Wanted = KeyOf(f, record + 1) /\ PlaceTrue
    BY WantedIs DEF IInv, TypeOK
  <1>2. /\ place \in UNION {Places(m) : m \in LeavesOf(extents)}
        /\ KeyAt(place) = KeyOf(f, record) /\ ValueAt(place) = record
    BY <1>1 DEF PlaceTrue, Searching
  <1>3. PICK m \in LeavesOf(extents) : \E l \in 1 .. Len(extents.node[m].keys) :
           place = [node |-> m, index |-> l]
    BY <1>2 DEF Places
  <1>4. n \in LeavesOf(extents) /\ i \in 1 .. Len(extents.node[n].keys)
    BY <1>3
  <1>5. /\ extents.node[n].keys[i].type = DataFork /\ extents.node[n].keys[i].file = f
        /\ extents.node[n].vals[i] = record
    BY <1>2 DEF KeyAt, ValueAt, KeyOf
  <1>6. IF i < Len(extents.node[n].keys) THEN extents.node[n].keys[i + 1] = Wanted
        ELSE /\ extents.node[n].next # 0
             /\ extents.node[extents.node[n].next].keys[1] = Wanted
    <2> DEFINE keys == extents.node[n].keys
               key == keys[i]
               j == extents.node[n].vals[i]
    <2>1. key.type = DataFork /\ key.file \in Forks /\ HasRecord(key.file, j + 1) =>
             IF i < Len(keys) THEN keys[i + 1] = KeyOf(key.file, j + 1)
             ELSE /\ extents.node[n].next # 0
                  /\ extents.node[extents.node[n].next].keys[1] = KeyOf(key.file, j + 1)
      <3>1. RecordsOK(extents)
        BY <1>1, ExtentsAssumption
      <3>2. \A leaf \in LeavesOf(extents) : \A l \in 1 .. Len(extents.node[leaf].keys) :
              LET k == extents.node[leaf].keys[l]
                  r == extents.node[leaf].vals[l]
              IN  k.type = DataFork /\ k.file \in Forks /\ HasRecord(k.file, r + 1) =>
                    IF l < Len(extents.node[leaf].keys) THEN extents.node[leaf].keys[l + 1] = KeyOf(k.file, r + 1)
                    ELSE /\ extents.node[leaf].next # 0
                         /\ extents.node[extents.node[leaf].next].keys[1] = KeyOf(k.file, r + 1)
        BY <3>1 DEF RecordsOK
      <3> QED
        BY <1>4, <3>2
    <2>2. key.type = DataFork /\ key.file = f /\ j = record
      BY <1>5
    <2> HIDE DEF key, j
    <2> QED
      BY <1>1, <2>1, <2>2
  <1>7. extents.node[n].next \in LeavesOf(extents) \cup {0}
    BY <1>1, <1>4, NodeIs DEF LeavesOf
  <1> QED
    BY <1>4, <1>6, <1>7 DEF LeavesOf

\* The tree is made, or there is none.
LEMMA CreateTreeInv == IInv /\ CreateTree => IInv'
  <1> SUFFICES ASSUME IInv, CreateTree PROVE IInv'
    OBVIOUS
  <1>1. /\ pc = "extents" /\ pc' \in {"extents", "null"} /\ TypeOK /\ PlaceTrue
        /\ tree' \in {"none", "made", "torn"} /\ failed' \in BOOLEAN
        /\ Looked /\ UNCHANGED <<record, place, node, answer>>
    BY DEF IInv, CreateTree, TypeOK, Looked, iter
  <1>2. PlaceTrue'
    BY <1>1 DEF PlaceTrue, Places, KeyAt, ValueAt, KeyOf, Looked
  <1>3. SearchTrue'
    BY <1>1 DEF SearchTrue
  <1>4. record \in Nat
    BY <1>1 DEF TypeOK
  <1> QED
    BY <1>1, <1>2, <1>3, <1>4, SearchKeeps DEF Searching

\* The record looked for is below the root.
LEMMA StartSearchInv == IInv /\ StartSearch => IInv'
  <1> SUFFICES ASSUME IInv, StartSearch PROVE IInv'
    OBVIOUS
  <1>1. /\ TypeOK /\ extents \in ExtentsTrees /\ pc = "extents" /\ Searching /\ record = 0
        /\ Visit(extents.root, "search", Return("null"))
    BY DEF IInv, TypeOK, StartSearch, Searching
  <1>2. extents.root \in DOMAIN extents.node /\ Under(extents)[extents.root] = LeavesOf(extents)
    BY <1>1, ExtentsAssumption DEF TreeOK
  <1>3. /\ Looked /\ UNCHANGED <<record, place>>
        /\ tree' \in {"none", "made", "torn"} /\ failed' \in BOOLEAN
        /\ \/ node' = extents.root /\ pc' = "search" /\ answer' = answer
           \/ pc' = "idle" /\ answer' = "null" /\ failed' = TRUE
           \/ pc' = "torn" /\ answer' = answer
    BY <1>1, <1>2, VisitIs DEF Return
  <1>4. PICK n \in LeavesOf(extents) : \E p \in Places(n) : KeyAt(p) = Wanted
    BY <1>1, WantedIs
  <1>5. SearchTrue'
    <2> SUFFICES ASSUME pc' = "search"
                 PROVE  /\ node' \in DOMAIN extents'.node /\ record' = 0
                        /\ \E m \in Under(extents')[node'] : \E p \in Places(m)' : KeyAt(p)' = Wanted'
      BY DEF SearchTrue
    <2>1. node' = extents.root /\ extents' = extents /\ Wanted' = Wanted
      BY <1>3 DEF Looked, Wanted
    <2>2. \E p \in Places(n)' : KeyAt(p)' = Wanted
      BY <1>4, <2>1 DEF Places, KeyAt
    <2> QED
      BY <1>1, <1>2, <1>3, <1>4, <2>1, <2>2
  <1>6. PlaceTrue'
    BY <1>1, <1>3 DEF PlaceTrue
  <1>7. record' \in Nat /\ record' = record
    BY <1>1, <1>3
  <1>8. \/ Searching' /\ record' = record /\ answer' = answer
        \/ pc' \in {"null", "torn"} /\ record' = record /\ answer' = answer
        \/ pc' = "idle" /\ answer' = "null" /\ failed'
    BY <1>3, <1>7 DEF Searching
  <1> QED
    BY <1>1, <1>3, <1>5, <1>6, <1>7, <1>8, SearchKeeps

\* The child gone to, if there is one, is a node; and the record looked for is below it,
\* if it is below the node and the keys are in the program's order.
LEMMA BelowChild ==
    ASSUME IInv, pc = "search", ~Node.leaf
    PROVE  LET c == Child(Node.keys, Wanted)
               Holds(n) == \E m \in Under(extents)[n] : \E p \in Places(m) : KeyAt(p) = Wanted
           IN  /\ c \in 0 .. Len(Node.keys)
               /\ c > 0 => Node.vals[c] \in DOMAIN extents.node
               /\ DataForksOnly(extents) => c > 0 /\ Holds(Node.vals[c])
  <1> DEFINE keys == Node.keys
             vals == Node.vals
             c == Child(keys, Wanted)
             Holds(n) == \E m \in Under(extents)[n] : \E p \in Places(m) : KeyAt(p) = Wanted
  <1>1. /\ extents \in ExtentsTrees /\ node \in DOMAIN extents.node /\ SearchTrue /\ Searching
        /\ Wanted \in DataKeys /\ Wanted \in Key
    BY WantedIs DEF IInv, TypeOK, SearchTrue, Searching, DataKeys
  <1>2. /\ keys \in Seq(Key) /\ Len(keys) \in Nat \ {0} /\ Ascend(keys)
        /\ \A i \in 1 .. Len(keys) : keys[i] \in Key
        /\ \A i \in 1 .. Len(keys) : vals[i] \in DOMAIN extents.node
    BY <1>1, NodeIs DEF Ascend, Node
  <1>3. c \in 0 .. Len(keys) /\ (Plain(keys) => \A i \in 1 .. Len(keys) : i <= c <=> ~Precedes(Wanted, keys[i]))
    BY <1>1, <1>2, ChildIs
  <1>4. Under(extents)[node] = UNION {Under(extents)[vals[i]] : i \in 1 .. Len(keys)}
    BY <1>1, ExtentsAssumption DEF TreeOK, Node
  <1>5. \A i \in 1 .. Len(keys) : \A m \in Under(extents)[vals[i]] :
           \A k \in 1 .. Len(extents.node[m].keys) :
             /\ ~Precedes(extents.node[m].keys[k], keys[i])
             /\ i < Len(keys) => Precedes(extents.node[m].keys[k], keys[i + 1])
    <2>1. node \in DOMAIN extents.node \ LeavesOf(extents)
      BY <1>1 DEF LeavesOf, Node
    <2> QED
      BY <1>1, <2>1, ExtentsAssumption DEF TreeOK, Node
  <1> HIDE DEF c
  <1>6. ASSUME DataForksOnly(extents) PROVE c > 0 /\ Holds(vals[c])
    <2>1. Plain(keys)
      BY <1>1, <1>2, <1>6 DEF DataForksOnly, Plain, DataKeys, Node
    <2> HIDE DEF keys, vals
    <2>2. PICK m \in Under(extents)[node] : \E p \in Places(m) : KeyAt(p) = Wanted
      BY <1>1, <1>6 DEF SearchTrue
    <2>3. PICK k \in 1 .. Len(extents.node[m].keys) : extents.node[m].keys[k] = Wanted
      BY <2>2 DEF Places, KeyAt
    <2>4. PICK i \in 1 .. Len(keys) : m \in Under(extents)[vals[i]]
      BY <1>4, <2>2
    <2>5. ~Precedes(Wanted, keys[i]) /\ (i < Len(keys) => Precedes(Wanted, keys[i + 1]))
      BY <1>5, <2>3, <2>4
    <2>6. i <= c
      BY <1>3, <2>1, <2>5
    <2>7. i < Len(keys) => ~(i + 1 <= c)
      BY <1>2, <1>3, <2>1, <2>5
    <2>8. i = c
      BY <1>2, <1>3, <2>6, <2>7
    <2> QED
      BY <2>2, <2>4, <2>8
  <1> QED
    BY <1>2, <1>3, <1>6 DEF c

\* A step down the tree.
LEMMA DescendInv == IInv /\ Descend => IInv'
  <1> SUFFICES ASSUME IInv, Descend PROVE IInv'
    OBVIOUS
  <1> DEFINE child == Node.vals[Child(Node.keys, Wanted)]
             Holds(n) == \E m \in Under(extents)[n] : \E p \in Places(m) : KeyAt(p) = Wanted
  <1>1. /\ TypeOK /\ extents \in ExtentsTrees /\ pc = "search" /\ Searching /\ record = 0
        /\ ~Node.leaf /\ Child(Node.keys, Wanted) > 0
        /\ Visit(child, "search", Crash)
    BY DEF IInv, TypeOK, Descend, SearchTrue, Searching
  <1>2. child \in DOMAIN extents.node /\ (DataForksOnly(extents) => Holds(child))
    BY <1>1, BelowChild
  <1> HIDE DEF child
  <1>3. /\ Looked /\ UNCHANGED <<record, place>>
        /\ tree' \in {"none", "made", "torn"} /\ failed' \in BOOLEAN
        /\ \/ node' = child /\ pc' = "search" /\ answer' = answer
           \/ pc' = "null" /\ answer' = answer
           \/ pc' = "torn" /\ answer' = answer
    BY <1>1, <1>2, VisitIs DEF Crash
  <1>4. SearchTrue'
    <2> SUFFICES ASSUME pc' = "search"
                 PROVE  /\ node' \in DOMAIN extents'.node /\ record' = 0
                        /\ DataForksOnly(extents') =>
                             \E m \in Under(extents')[node'] : \E p \in Places(m)' : KeyAt(p)' = Wanted'
      BY DEF SearchTrue
    <2>1. node' = child /\ extents' = extents /\ Wanted' = Wanted
      BY <1>3 DEF Looked, Wanted
    <2>2. \A m : Places(m)' = Places(m)
      BY <2>1 DEF Places
    <2>3. \A p : KeyAt(p)' = KeyAt(p)
      BY <2>1 DEF KeyAt
    <2> QED
      BY <1>1, <1>2, <1>3, <2>1, <2>2, <2>3
  <1>5. PlaceTrue'
    BY <1>1, <1>3 DEF PlaceTrue
  <1>6. record' \in Nat /\ record' = record
    BY <1>1, <1>3
  <1>7. \/ Searching' /\ record' = record /\ answer' = answer
        \/ pc' \in {"null", "torn"} /\ record' = record /\ answer' = answer
    BY <1>3, <1>6 DEF Searching
  <1> QED
    BY <1>1, <1>3, <1>4, <1>5, <1>6, <1>7, SearchKeeps

\* What is looked for is nowhere only if keys of resource forks are in the way.
LEMMA NotThereKeeps ==
    ASSUME IInv, Searching, Looked, UNCHANGED <<tree, failed>>, NotThere, ~DataForksOnly(extents)
    PROVE  IInv'
  <1>1. /\ tree' \in {"none", "made", "torn"} /\ failed' \in BOOLEAN /\ record' \in Nat
        /\ pc' = "idle" /\ answer' = "null"
    BY DEF IInv, TypeOK, NotThere, Return
  <1>2. PlaceTrue' /\ SearchTrue'
    BY <1>1 DEF PlaceTrue, SearchTrue
  <1> QED
    BY <1>1, <1>2, SearchKeeps

LEMMA BeforeAllInv == IInv /\ BeforeAll => IInv'
  <1> SUFFICES ASSUME IInv, BeforeAll PROVE IInv'
    OBVIOUS
  <1>1. /\ pc = "search" /\ Searching /\ ~Node.leaf /\ Child(Node.keys, Wanted) = 0 /\ NotThere
        /\ Looked /\ UNCHANGED <<tree, failed>>
    BY DEF BeforeAll, Searching, Looked, search
  <1>2. ~DataForksOnly(extents)
    BY <1>1, BelowChild
  <1> QED
    BY <1>1, <1>2, NotThereKeeps

\* The leaf has what is looked for.
LEMMA FindExtentInv == IInv /\ FindExtent => IInv'
  <1> SUFFICES ASSUME IInv, FindExtent PROVE IInv'
    OBVIOUS
  <1> DEFINE keys == Node.keys
             p == Probe(keys, Wanted)
  <1>1. /\ pc = "search" /\ Searching /\ Node.leaf /\ Looked /\ UNCHANGED <<tree, failed>>
        /\ IF p.comp = 0 THEN Take(p.mid) ELSE NotThere
    BY DEF FindExtent, Searching, Looked, search
  <1>2. /\ extents \in ExtentsTrees /\ node \in DOMAIN extents.node /\ SearchTrue
        /\ Wanted \in DataKeys /\ Wanted \in Key
    BY <1>1, WantedIs DEF IInv, TypeOK, SearchTrue, DataKeys
  <1>3. /\ keys \in Seq(Key) /\ Len(keys) \in Nat \ {0} /\ Ascend(keys)
        /\ \A i \in 1 .. Len(keys) : keys[i] \in Key
    BY <1>2, NodeIs DEF Ascend, Node
  <1>4. Found(keys, Wanted, p)
    BY <1>2, <1>3, ProbeFinds
  <1> HIDE DEF p
  <1>5. p.mid \in 1 .. Len(keys) /\ (p.comp = 0 <=> keys[p.mid] = Wanted)
    BY <1>2, <1>3, <1>4, CompareIs DEF Found
  <1>6. CASE p.comp = 0
    BY <1>1, <1>2, <1>5, <1>6, TakeKeeps DEF LeavesOf, Node
  <1>7. CASE p.comp # 0
    <2>1. ASSUME DataForksOnly(extents) PROVE FALSE
      <3>1. Under(extents)[node] = {node}
        BY <1>1, <1>2, ExtentsAssumption DEF TreeOK, Node
      <3>2. PICK k \in 1 .. Len(keys) : keys[k] = Wanted
        BY <1>1, <1>2, <2>1, <3>1 DEF SearchTrue, Places, KeyAt, Node
      <3>3. Plain(keys)
        BY <1>2, <1>3, <2>1 DEF DataForksOnly, Plain, DataKeys, Node
      <3>4. ~Precedes(Wanted, Wanted)
        BY <1>2, PrecedesOrders
      <3>5. k \notin 1 .. p.mid - 1 /\ k \notin p.mid + 1 .. Len(keys)
        BY <1>4, <3>2, <3>3, <3>4 DEF Found
      <3>6. k = p.mid
        BY <1>3, <1>5, <3>5
      <3> QED
        BY <1>5, <1>7, <3>2, <3>6
    <2> QED
      BY <1>1, <1>7, <2>1, NotThereKeeps
  <1> QED
    BY <1>6, <1>7

\* Back to the leaf of the record at hand.
LEMMA RecordsNodeInv == IInv /\ RecordsNode => IInv'
  <1> SUFFICES ASSUME IInv, RecordsNode PROVE IInv'
    OBVIOUS
  <1>1. /\ TypeOK /\ PlaceTrue /\ pc = "extents" /\ Searching /\ record # 0 /\ record \in Nat
        /\ Visit(place.node, "behind", Crash)
    BY DEF IInv, TypeOK, RecordsNode, Searching
  <1>2. place.node \in DOMAIN extents.node
    BY <1>1, PlaceIs
  <1>3. /\ Looked /\ UNCHANGED <<record, place>>
        /\ tree' \in {"none", "made", "torn"} /\ failed' \in BOOLEAN
        /\ \/ node' = place.node /\ pc' = "behind" /\ answer' = answer
           \/ pc' = "null" /\ answer' = answer
           \/ pc' = "torn" /\ answer' = answer
    BY <1>1, <1>2, VisitIs DEF Crash
  <1>4. PlaceTrue'
    BY <1>1, <1>3 DEF PlaceTrue, Places, KeyAt, ValueAt, KeyOf, Looked
  <1>5. SearchTrue'
    BY <1>3 DEF SearchTrue
  <1>6. \/ Searching' /\ record' = record /\ answer' = answer
        \/ pc' \in {"null", "torn"} /\ record' = record /\ answer' = answer
    BY <1>3 DEF Searching
  <1> QED
    BY <1>1, <1>3, <1>4, <1>5, <1>6, SearchKeeps

\* And to the leaf behind it, where there is one.
LEMMA NextLeafInv == IInv /\ NextLeaf => IInv'
  <1> SUFFICES ASSUME IInv, NextLeaf PROVE IInv'
    OBVIOUS
  <1>1. /\ TypeOK /\ PlaceTrue /\ pc = "behind" /\ Searching /\ record # 0 /\ record \in Nat
        /\ node = place.node /\ place.index >= Len(Node.keys) /\ extents \in ExtentsTrees
    BY DEF IInv, TypeOK, NextLeaf, Searching, PlaceTrue
  <1>2. place.node \in DOMAIN extents.node /\ place.index \in 1 .. Len(Node.keys)
    BY <1>1, PlaceIs DEF Node
  <1>3. Len(Node.keys) \in Nat /\ place.index = Len(Node.keys)
    BY <1>1, <1>2, NodeIs DEF Node
  <1>4. Node.next \in LeavesOf(extents)
    BY <1>1, <1>3, PlaceIs DEF Node
  <1>5. Node.next \in DOMAIN extents.node /\ UInt16(Node.next) = Node.next /\ Node.next # 0
    BY <1>1, <1>4, NodeIs DEF LeavesOf
  <1>6. Visit(Node.next, "first", Return("null"))
    BY <1>5 DEF NextLeaf
  <1>7. /\ Looked /\ UNCHANGED <<record, place>>
        /\ tree' \in {"none", "made", "torn"} /\ failed' \in BOOLEAN
        /\ \/ node' = Node.next /\ pc' = "first" /\ answer' = answer
           \/ pc' = "idle" /\ answer' = "null" /\ failed' = TRUE
           \/ pc' = "torn" /\ answer' = answer
    BY <1>1, <1>5, <1>6, VisitIs DEF Return
  <1>8. PlaceTrue'
    <2>1. CASE pc' = "first"
      <3>1. node' = extents.node[place.node].next /\ place.index = Len(extents.node[place.node].keys)
        BY <1>1, <1>3, <1>7, <2>1 DEF Node
      <3> QED
        BY <1>1, <1>5, <1>7, <2>1, <3>1 DEF PlaceTrue, Places, KeyAt, ValueAt, KeyOf, Looked, Node
    <2>2. CASE pc' \in {"idle", "torn"}
      BY <2>2 DEF PlaceTrue
    <2> QED
      BY <1>7, <2>1, <2>2
  <1>9. SearchTrue'
    BY <1>7 DEF SearchTrue
  <1>10. \/ Searching' /\ record' = record /\ answer' = answer
         \/ pc' \in {"null", "torn"} /\ record' = record /\ answer' = answer
         \/ pc' = "idle" /\ answer' = "null" /\ failed'
    BY <1>7 DEF Searching
  <1> QED
    BY <1>1, <1>7, <1>8, <1>9, <1>10, SearchKeeps

\* The record behind is the one that goes on with the fork.
LEMMA NextRecordInv == IInv /\ NextRecord => IInv'
  <1> SUFFICES ASSUME IInv, NextRecord PROVE IInv'
    OBVIOUS
  <1> DEFINE i == IF pc = "first" THEN 1 ELSE place.index + 1
  <1>1. /\ TypeOK /\ PlaceTrue /\ pc \in {"behind", "first"} /\ Searching /\ record # 0
        /\ extents \in ExtentsTrees /\ Looked /\ UNCHANGED <<tree, failed>>
        /\ pc = "behind" => place.index < Len(Node.keys) /\ node = place.node
        /\ pc = "first" => /\ place.index = Len(extents.node[place.node].keys)
                           /\ node = extents.node[place.node].next
    BY DEF IInv, TypeOK, NextRecord, Searching, PlaceTrue, Looked, search
  <1>2. node \in LeavesOf(extents) /\ i \in 1 .. Len(Node.keys) /\ Node.keys[i] = Wanted
    <2>1. CASE pc = "behind"
      <3>1. /\ place.node \in LeavesOf(extents) /\ place.index \in 1 .. Len(Node.keys)
            /\ Node.keys[place.index + 1] = Wanted
        BY <1>1, <2>1, PlaceIs DEF Node
      <3>2. Len(Node.keys) \in Nat
        BY <1>1, <2>1, <3>1, NodeIs DEF Node, LeavesOf
      <3> QED
        BY <1>1, <2>1, <3>1, <3>2
    <2>2. CASE pc = "first"
      <3>1. place.node \in DOMAIN extents.node /\ place.index = Len(extents.node[place.node].keys)
        BY <1>1, <2>2, PlaceIs
      <3>2. Len(extents.node[place.node].keys) \in Nat
        BY <1>1, <3>1, NodeIs
      <3>3. node \in LeavesOf(extents) /\ Node.keys[1] = Wanted
        BY <1>1, <2>2, <3>1, <3>2, PlaceIs DEF Node
      <3>4. Len(Node.keys) \in Nat \ {0}
        BY <1>1, <3>3, NodeIs DEF Node, LeavesOf
      <3> QED
        BY <2>2, <3>3, <3>4
    <2> QED
      BY <1>1, <2>1, <2>2
  <1>3. Node.keys[i].file = call.fork /\ Node.keys[i].type = DataFork
    BY <1>2 DEF Wanted
  <1>4. Take(i)
    BY <1>3 DEF NextRecord
  <1> HIDE DEF i
  <1> QED
    BY <1>1, <1>2, <1>4, TakeKeeps

\* Every step of the search keeps it.
LEMMA SearchInv == IInv /\ Search => IInv'
  BY CreateTreeInv, StartSearchInv, DescendInv, BeforeAllInv, FindExtentInv,
     RecordsNodeInv, NextLeafInv, NextRecordInv DEF Search

\* The invariant is about these variables only.
LEMMA StutterInv == IInv /\ UNCHANGED vars => IInv'
  <1> SUFFICES ASSUME IInv, UNCHANGED vars PROVE IInv'
    OBVIOUS
  <1>1. TypeOK' /\ ReadsTheFork' /\ FailsForAReason'
    BY DEF IInv, TypeOK, ReadsTheFork, FailsForAReason, vars, iter, search
  <1>2. PositionTrue' /\ BehindTrue' /\ Progress'
    BY DEF IInv, PositionTrue, BehindTrue, Progress, Loop, Searching, Number, Extent, vars, iter, search
  <1>3. PlaceTrue'
    BY DEF IInv, PlaceTrue, Places, KeyAt, ValueAt, KeyOf, vars, iter, search
  <1>4. SearchTrue'
    BY DEF IInv, SearchTrue, Places, KeyAt, Wanted, vars, iter, search
  <1> QED
    BY <1>1, <1>2, <1>3, <1>4 DEF IInv

-----------------------------------------------------------------------------
\* The iterator's position is the fork's, in every state.
THEOREM Invariance == Spec => []IInv
  <1>1. IInv /\ [Next]_vars => IInv'
    BY CallInv, SkipInv, SkippedInv, ReadInv, ReadFailsInv, AdvanceInv, SearchInv, StutterInv
       DEF Next, Step
  <1> QED
    BY <1>1, InitInv, PTL DEF Spec

\* volume_readfromfork reads the blocks of the fork, in order.
THEOREM ReadsRight == Spec => []ReadsTheFork
  <1>1. IInv => ReadsTheFork
    BY DEF IInv
  <1> QED
    BY <1>1, Invariance, PTL

\* It fails only where the fork ends or a read fails, if no record of a resource fork is in
\* the extents tree: the search of the tree finds what goes on with the fork.
THEOREM FailsRight == Spec => []FailsForAReason
  <1>1. IInv => FailsForAReason
    BY DEF IInv
  <1> QED
    BY <1>1, Invariance, PTL

-----------------------------------------------------------------------------
(* Powers of two: the functions on them unfold by induction. *)

\* A set of numbers that holds each one whose predecessors it holds, holds all: how the
\* recursive functions below are shown to be what their definitions say.
LEMMA All ==
    ASSUME NEW S \in SUBSET Nat,
           \A n \in Nat : (\A m \in Nat : m < n => m \in S) => n \in S
    PROVE  S = Nat
  <1> SUFFICES ASSUME Nat \ S # {} PROVE FALSE
    OBVIOUS
  <1>1. PICK n \in Nat \ S : \A m \in Nat \ S : n <= m
    BY Least
  <1>2. \A m \in Nat : m < n => m \in S
    BY <1>1
  <1> QED
    BY <1>1, <1>2

\* A value for n from those below it, for Two and for Halvings.
Doubled(f, n) == IF n = 0 THEN 1 ELSE 2 * f[n - 1]
Halved(f, n) == IF n > 2 THEN f[n \div 2] + 1 ELSE 0

\* Halving ends.
LEMMA HalfIsLess ==
    ASSUME NEW n \in Nat, n > 2
    PROVE  n \div 2 \in Nat /\ n \div 2 < n
  BY SMT

\* Two is what its definition says.
LEMMA TwoUnfolds == \A n \in Nat : V!Two[n] = Doubled(V!Two, n)
  <1> DEFINE Upto(f, k) == \A n \in Nat : n <= k => f[n] = Doubled(f, n)
             S == {k \in Nat : \E f : Upto(f, k)}
  <1>1. ASSUME NEW k \in Nat, \A m \in Nat : m < k => m \in S
        PROVE  k \in S
    <2>1. CASE k = 0
      <3> DEFINE g == [n \in Nat |-> 1]
      <3>1. Upto(g, k)
        BY <2>1 DEF Doubled
      <3> QED
        BY <3>1
    <2>2. CASE k # 0
      <3>1. PICK f : Upto(f, k - 1)
        BY <1>1, <2>2
      <3> DEFINE g == [n \in Nat |-> IF n < k THEN f[n] ELSE 2 * f[n - 1]]
      <3>2. \A n \in Nat : n <= k => g[n] = Doubled(g, n)
        BY <2>2, <3>1 DEF Doubled
      <3> QED
        BY <3>2
    <2> QED
      BY <2>1, <2>2
  <1>2. S = Nat
    <2> HIDE DEF S
    <2>1. S \in SUBSET Nat
      BY DEF S
    <2> QED
      BY <1>1, <2>1, All
  <1> DEFINE F(k) == CHOOSE f : Upto(f, k)
  <1>3. \A k \in Nat : Upto(F(k), k)
    <2> HIDE DEF Upto
    <2>1. \A k \in Nat : \E f : Upto(f, k)
      BY <1>2
    <2> QED
      BY <2>1
  <1>4. \A k \in Nat : \A n \in Nat : n <= k => F(k)[n] = F(n)[n]
    <2> HIDE DEF F
    <2> DEFINE T == {n \in Nat : \A k \in Nat : n <= k => F(k)[n] = F(n)[n]}
    <2>1. ASSUME NEW n \in Nat, \A m \in Nat : m < n => m \in T
          PROVE  n \in T
      <3> SUFFICES ASSUME NEW k \in Nat, n <= k PROVE F(k)[n] = F(n)[n]
        OBVIOUS
      <3>1. F(k)[n] = Doubled(F(k), n) /\ F(n)[n] = Doubled(F(n), n)
        BY <1>3
      <3>2. CASE n = 0
        BY <3>1, <3>2 DEF Doubled
      <3>3. CASE n # 0
        <4>1. F(k)[n - 1] = F(n)[n - 1]
          BY <2>1, <3>3
        <4> QED
          BY <3>1, <3>3, <4>1 DEF Doubled
      <3> QED
        BY <3>2, <3>3
    <2>2. T = Nat
      <3> HIDE DEF T
      <3>1. T \in SUBSET Nat
        BY DEF T
      <3> QED
        BY <2>1, <3>1, All
    <2> QED
      BY <2>2
  <1> DEFINE g == [n \in Nat |-> F(n)[n]]
  <1>5. g = [n \in Nat |-> Doubled(g, n)]
    <2> HIDE DEF F
    <2> SUFFICES ASSUME NEW n \in Nat PROVE F(n)[n] = Doubled(g, n)
      OBVIOUS
    <2>1. F(n)[n] = Doubled(F(n), n)
      BY <1>3
    <2>2. CASE n = 0
      BY <2>1, <2>2 DEF Doubled
    <2>3. CASE n # 0
      <3>1. F(n)[n - 1] = g[n - 1]
        BY <1>4, <2>3
      <3> QED
        BY <2>1, <2>3, <3>1 DEF Doubled
    <2> QED
      BY <2>2, <2>3
  <1> HIDE DEF g
  <1>6. V!Two = CHOOSE h : h = [n \in Nat |-> Doubled(h, n)]
    BY DEF V!Two, Doubled
  <1> DEFINE h == V!Two
  <1>7. h = [n \in Nat |-> Doubled(h, n)]
    BY <1>5, <1>6
  <1> HIDE DEF h
  <1>8. \A n \in Nat : h[n] = Doubled(h, n)
    BY <1>7
  <1> QED
    BY <1>8 DEF h

\* So is Halvings.
LEMMA HalvingsUnfolds == \A n \in Nat : V!Halvings[n] = Halved(V!Halvings, n)
  <1> DEFINE Upto(f, k) == \A n \in Nat : n <= k => f[n] = Halved(f, n)
             S == {k \in Nat : \E f : Upto(f, k)}
  <1>1. ASSUME NEW k \in Nat, \A m \in Nat : m < k => m \in S
        PROVE  k \in S
    <2>1. CASE k = 0
      <3> DEFINE g == [n \in Nat |-> 0]
      <3>1. Upto(g, k)
        BY <2>1 DEF Halved
      <3> QED
        BY <3>1
    <2>2. CASE k # 0
      <3>1. PICK f : Upto(f, k - 1)
        BY <1>1, <2>2
      <3> DEFINE g == [n \in Nat |-> IF n < k THEN f[n] ELSE Halved(f, n)]
      <3>2. ASSUME NEW n \in Nat, n <= k
            PROVE  g[n] = Halved(g, n)
        <4>1. n > 2 => g[n \div 2] = f[n \div 2]
          BY <3>2, HalfIsLess
        <4>2. g[n] = Halved(f, n)
          BY <2>2, <3>1, <3>2
        <4> QED
          BY <4>1, <4>2 DEF Halved
      <3> QED
        BY <3>2
    <2> QED
      BY <2>1, <2>2
  <1>2. S = Nat
    <2> HIDE DEF S
    <2>1. S \in SUBSET Nat
      BY DEF S
    <2> QED
      BY <1>1, <2>1, All
  <1> DEFINE F(k) == CHOOSE f : Upto(f, k)
  <1>3. \A k \in Nat : Upto(F(k), k)
    <2> HIDE DEF Upto
    <2>1. \A k \in Nat : \E f : Upto(f, k)
      BY <1>2
    <2> QED
      BY <2>1
  <1>4. \A k \in Nat : \A n \in Nat : n <= k => F(k)[n] = F(n)[n]
    <2> HIDE DEF F
    <2> DEFINE T == {n \in Nat : \A k \in Nat : n <= k => F(k)[n] = F(n)[n]}
    <2>1. ASSUME NEW n \in Nat, \A m \in Nat : m < n => m \in T
          PROVE  n \in T
      <3> SUFFICES ASSUME NEW k \in Nat, n <= k PROVE F(k)[n] = F(n)[n]
        OBVIOUS
      <3>1. F(k)[n] = Halved(F(k), n) /\ F(n)[n] = Halved(F(n), n)
        BY <1>3
      <3>2. CASE ~(n > 2)
        BY <3>1, <3>2 DEF Halved
      <3>3. CASE n > 2
        <4>1. F(k)[n \div 2] = F(n)[n \div 2]
          BY <2>1, <3>3, HalfIsLess
        <4> QED
          BY <3>1, <3>3, <4>1 DEF Halved
      <3> QED
        BY <3>2, <3>3
    <2>2. T = Nat
      <3> HIDE DEF T
      <3>1. T \in SUBSET Nat
        BY DEF T
      <3> QED
        BY <2>1, <3>1, All
    <2> QED
      BY <2>2
  <1> DEFINE g == [n \in Nat |-> F(n)[n]]
  <1>5. g = [n \in Nat |-> Halved(g, n)]
    <2> HIDE DEF F
    <2> SUFFICES ASSUME NEW n \in Nat PROVE F(n)[n] = Halved(g, n)
      OBVIOUS
    <2>1. F(n)[n] = Halved(F(n), n)
      BY <1>3
    <2>2. CASE ~(n > 2)
      BY <2>1, <2>2 DEF Halved
    <2>3. CASE n > 2
      <3>1. F(n)[n \div 2] = g[n \div 2]
        BY <1>4, <2>3, HalfIsLess
      <3> QED
        BY <2>1, <2>3, <3>1 DEF Halved
    <2> QED
      BY <2>2, <2>3
  <1> HIDE DEF g
  <1>6. V!Halvings = CHOOSE h : h = [n \in Nat |-> Halved(h, n)]
    BY DEF V!Halvings, Halved
  <1> DEFINE h == V!Halvings
  <1>7. h = [n \in Nat |-> Halved(h, n)]
    BY <1>5, <1>6
  <1> HIDE DEF h
  <1>8. \A n \in Nat : h[n] = Halved(h, n)
    BY <1>7
  <1> QED
    BY <1>8 DEF h

\* What is needed of powers of two.
LEMMA Powers ==
    /\ V!Two[0] = 1
    /\ \A n \in Nat : /\ V!Two[n] \in Nat /\ V!Two[n] > 0
                      /\ V!Two[n + 1] = 2 * V!Two[n]
  <1> DEFINE S == {n \in Nat : V!Two[n] \in Nat /\ V!Two[n] > 0}
  <1>1. V!Two[0] = 1
    BY TwoUnfolds DEF Doubled
  <1>2. ASSUME NEW n \in Nat PROVE V!Two[n + 1] = 2 * V!Two[n]
    <2>1. V!Two[n + 1] = Doubled(V!Two, n + 1)
      BY TwoUnfolds
    <2> QED
      BY <2>1 DEF Doubled
  <1>3. ASSUME NEW n \in Nat, \A m \in Nat : m < n => m \in S
        PROVE  n \in S
    <2>1. CASE n = 0
      BY <1>1, <2>1
    <2>2. CASE n # 0
      <3>1. n - 1 \in Nat /\ n - 1 < n /\ (n - 1) + 1 = n
        BY <2>2
      <3>2. V!Two[n] = 2 * V!Two[n - 1] /\ n - 1 \in S
        BY <1>2, <1>3, <3>1
      <3> QED
        BY <3>2
    <2> QED
      BY <2>1, <2>2
  <1>4. S = Nat
    <2> HIDE DEF S
    <2>1. S \in SUBSET Nat
      BY DEF S
    <2> QED
      BY <1>3, <2>1, All
  <1> QED
    BY <1>1, <1>2, <1>4

\* The loop over sect_per_block finds the power that a volume's block size is.
LEMMA ShiftIs ==
    ASSUME NEW n \in Nat
    PROVE  V!Shift(V!Two[n]) = n
  <1> DEFINE S == {k \in Nat : V!Halvings[V!Two[k + 1]] = k}
  <1>1. ASSUME NEW k \in Nat, \A m \in Nat : m < k => m \in S
        PROVE  k \in S
    <2>1. /\ V!Two[k + 1] \in Nat /\ V!Two[k + 1] = 2 * V!Two[k]
          /\ V!Two[k] \in Nat /\ V!Two[k] > 0
      BY Powers
    <2>2. V!Halvings[V!Two[k + 1]] = Halved(V!Halvings, V!Two[k + 1])
      BY <2>1, HalvingsUnfolds
    <2>3. CASE k = 0
      BY <2>1, <2>2, <2>3, Powers DEF Halved
    <2>4. CASE k # 0
      <3>1. k - 1 \in S /\ (k - 1) + 1 = k /\ k - 1 \in Nat
        BY <1>1, <2>4
      <3>2. V!Two[k] = 2 * V!Two[k - 1] /\ V!Two[k - 1] \in Nat /\ V!Two[k - 1] > 0
        BY <3>1, Powers
      <3>3. V!Halvings[V!Two[k]] = k - 1
        BY <3>1
      <3> DEFINE p == V!Two[k]
      <3>4. V!Two[k + 1] = 2 * p /\ p \in Nat /\ p > 1
        BY <2>1, <3>2
      <3> HIDE DEF p
      <3>5. (2 * p) \div 2 = p /\ 2 * p > 2
        BY <3>4
      <3>6. Halved(V!Halvings, 2 * p) = V!Halvings[p] + 1
        BY <3>5 DEF Halved
      <3> QED
        BY <2>2, <3>1, <3>3, <3>4, <3>6 DEF p
    <2> QED
      BY <2>3, <2>4
  <1>2. S = Nat
    <2> HIDE DEF S
    <2>1. S \in SUBSET Nat
      BY DEF S
    <2> QED
      BY <1>1, <2>1, All
  <1>3. CASE n = 0
    BY <1>3, Powers DEF V!Shift
  <1>4. CASE n # 0
    <2>1. n - 1 \in S /\ (n - 1) + 1 = n /\ n - 1 \in Nat
      BY <1>2, <1>4
    <2>2. V!Two[n] = 2 * V!Two[n - 1] /\ V!Two[n - 1] \in Nat /\ V!Two[n - 1] > 0
      BY <2>1, Powers
    <2>3. V!Two[n] > 1 /\ V!Halvings[V!Two[n]] = n - 1
      BY <2>1, <2>2
    <2> QED
      BY <2>1, <2>3 DEF V!Shift
  <1> QED
    BY <1>3, <1>4

-----------------------------------------------------------------------------
(* The volume. *)

\* A start that is a multiple of the block size survives the shift of volume_open.
LEMMA Aligned ==
    ASSUME NEW q \in Nat, NEW p \in Nat, p > 0, NEW b \in Nat
    PROVE  (q * p) \div p = q /\ (b + q) * p = q * p + b * p /\ q * p \in Nat /\ b * p \in Nat
  BY SMT

\* A block before block t ends before it begins.
LEMMA Before ==
    ASSUME NEW b \in Nat, NEW t \in Nat, b < t, NEW p \in Nat
    PROVE  b * p + p <= t * p
  <1>1. t = b + 1 + (t - b - 1) /\ t - b - 1 \in Nat
    OBVIOUS
  <1> DEFINE c == t - b - 1
  <1>2. c \in Nat /\ t = (b + 1) + c
    BY <1>1
  <1> HIDE DEF c
  <1>3. t * p = (b + 1) * p + c * p
    BY <1>2, SMT
  <1>4. (b + 1) * p = b * p + p /\ c * p \in Nat /\ b * p \in Nat
    BY <1>2, SMT
  <1> QED
    BY <1>3, <1>4

\* Where a volume of the assumption lies, and how large its blocks are.
LEMMA VolumeIs ==
    ASSUME NEW v \in Volumes
    PROVE  /\ v.partition \in Nat /\ v.total \in Nat /\ v.cat \in Nat /\ v.cat < v.total
           /\ V!Start(v) \in Nat /\ V!Sectors(v) \in Nat /\ V!Sectors(v) >= 4
           /\ v.per_block \in Nat /\ v.per_block > 0
           /\ V!Two[V!Shift(v.per_block)] = v.per_block /\ V!Shift(v.per_block) \in Nat
           /\ V!Start(v) \div v.per_block \in Nat
           /\ (V!Start(v) \div v.per_block) * v.per_block = V!Start(v)
           /\ v.total * v.per_block <= V!Sectors(v)
  <1>1. V!Intact(v)
    BY VolumesAssumption
  <1>2. v.partition \in Nat /\ v.total \in Nat /\ v.cat \in Nat /\ v.cat < v.total
        /\ V!Sectors(v) >= 4 /\ v.total * v.per_block <= V!Sectors(v) /\ v.per_block \in Nat
    BY <1>1 DEF V!Intact
  <1>3. V!Start(v) \in Nat /\ V!Sectors(v) \in Nat
    <2>1. CASE v.wrapper = None
      <3>1. V!Start(v) = v.partition /\ V!Sectors(v) = v.per_block * v.total
        BY <2>1 DEF V!Start, V!Sectors
      <3> QED
        BY <1>2, <3>1, SMT
    <2>2. CASE v.wrapper # None
      <3>1. v.wrapper \in [first_block : Nat, size : Nat, embeds : Nat, embedl : Nat]
        BY <1>1, <2>2 DEF V!Intact
      <3> DEFINE s == v.wrapper.size
                 e == v.wrapper.embeds
                 l == v.wrapper.embedl
                 f == v.wrapper.first_block
      <3>2. s \in Nat /\ e \in Nat /\ l \in Nat /\ f \in Nat
        BY <3>1
      <3>3. V!Start(v) = v.partition + f + e * s /\ V!Sectors(v) = l * s
        BY <2>2 DEF V!Start, V!Sectors
      <3> HIDE DEF s, e, l, f
      <3>4. e * s \in Nat /\ l * s \in Nat
        BY <3>2, SMT
      <3> QED
        BY <1>2, <3>2, <3>3, <3>4
    <2> QED
      BY <2>1, <2>2
  <1>4. PICK n \in Nat : v.per_block = V!Two[n]
    BY <1>1, <1>2 DEF V!Intact
  <1>5. v.per_block \in Nat /\ v.per_block > 0 /\ V!Shift(v.per_block) = n
    BY <1>4, Powers, ShiftIs
  <1>6. PICK q \in Nat : V!Start(v) = q * v.per_block
    BY <1>1, <1>3 DEF V!Intact
  <1>7. V!Start(v) \div v.per_block = q
    BY <1>5, <1>6, Aligned
  <1> QED
    BY <1>2, <1>3, <1>4, <1>5, <1>6, <1>7

VolumeInv == V!TypeOK /\ V!PlacesTrue /\ V!SectorsRight

\* A wrapped volume begins where the wrapper says.
LEMMA EmbeddedIs ==
    ASSUME NEW v \in Volumes, v.wrapper # None
    PROVE  /\ v.partition + (v.wrapper.first_block + v.wrapper.embeds * v.wrapper.size) = V!Start(v)
           /\ v.wrapper.embedl * v.wrapper.size = V!Sectors(v)
  <1>1. v.wrapper \in [first_block : Nat, size : Nat, embeds : Nat, embedl : Nat]
        /\ v.partition \in Nat
    BY VolumesAssumption DEF V!Intact
  <1> DEFINE m == v.wrapper.embeds * v.wrapper.size
             f == v.wrapper.first_block
  <1>2. m \in Nat /\ f \in Nat
    BY <1>1, SMT
  <1>3. V!Start(v) = v.partition + f + m /\ v.wrapper.embedl * v.wrapper.size = V!Sectors(v)
    BY DEF V!Start, V!Sectors
  <1> HIDE DEF m, f
  <1>4. v.partition + (f + m) = V!Start(v)
    BY <1>1, <1>2, <1>3
  <1> QED
    BY <1>3, <1>4 DEF m, f

\* A read of sectors, before the block size is that of the volume.
LEMMA SectorRead ==
    ASSUME NEW b \in Nat, startblock' \in Nat, shift' = 0, V!ReadSector(b)
    PROVE  last' = b /\ sector' = b + startblock'
  <1>1. V!Two[0] = 1
    BY Powers
  <1> QED
    BY <1>1 DEF V!ReadSector

\* A read of one of its blocks.
LEMMA BlockRead ==
    ASSUME NEW v \in Volumes, NEW b \in Nat, b < v.total,
           startblock' \in Nat, startblock' * v.per_block = V!Start(v),
           V!Two[shift'] = v.per_block, V!ReadSector(b)
    PROVE  /\ last' = b /\ sector' = V!Start(v) + b * v.per_block /\ sector' \in Nat
           /\ sector' + v.per_block <= V!Start(v) + V!Sectors(v)
  <1>1. /\ v.per_block \in Nat /\ v.per_block > 0 /\ V!Start(v) \in Nat /\ V!Sectors(v) \in Nat
        /\ v.total \in Nat /\ v.total * v.per_block <= V!Sectors(v)
    BY VolumeIs
  <1>2. last' = b /\ sector' = (b + startblock') * v.per_block
    BY DEF V!ReadSector
  <1> DEFINE p == v.per_block
             t == v.total
             q == startblock'
  <1>3. (b + q) * p = q * p + b * p /\ b * p \in Nat
    <2> HIDE DEF p, q
    <2> QED
      BY <1>1, Aligned DEF p, q
  <1>4. b * p + p <= t * p /\ t * p \in Nat
    <2>1. p \in Nat /\ t \in Nat /\ b < t /\ p > 0
      BY <1>1
    <2> HIDE DEF p, t
    <2> QED
      BY <2>1, Before, Aligned
  <1> DEFINE bp == b * p
             tp == t * p
  <1>5. bp + p <= tp /\ tp \in Nat /\ bp \in Nat /\ tp <= V!Sectors(v)
    BY <1>1, <1>3, <1>4
  <1>6. sector' = V!Start(v) + bp
    BY <1>2, <1>3
  <1> HIDE DEF bp, tp
  <1>7. sector' \in Nat /\ sector' + p <= V!Start(v) + V!Sectors(v)
    BY <1>1, <1>5, <1>6
  <1> QED
    BY <1>2, <1>6, <1>7 DEF bp

\* No volume is open yet.
LEMMA VolumeStarts == V!Init => VolumeInv
  <1> SUFFICES ASSUME V!Init PROVE VolumeInv
    OBVIOUS
  <1>1. /\ state = "closed" /\ disk \in Volumes /\ startblock = 0 /\ maxblocks = 0
        /\ shift = 0 /\ sector = 0 /\ last = 0 /\ lost = FALSE
    BY DEF V!Init
  <1>2. V!TypeOK
    BY <1>1 DEF V!TypeOK
  <1>3. V!PlacesTrue /\ V!SectorsRight
    BY <1>1, Zenon DEF V!PlacesTrue, V!SectorsRight
  <1> QED
    BY <1>2, <1>3 DEF VolumeInv

\* Each step of opening a volume keeps what is known of it, and refuses an intact one
\* only where a read fails or its catalog's nodes are no whole blocks.
LEMMA OpeningKeeps ==
    ASSUME VolumeInv, V!Opening
    PROVE  VolumeInv' /\ disk' = disk /\ state # "open"
           /\ (state' = "closed" =>
                 lost' \/ state = "closed" \/ ~V!NodesFit(disk.cat_node, disk))
  <1> DEFINE Goal == /\ VolumeInv' /\ disk' = disk /\ state # "open"
                     /\ (state' = "closed" =>
                           lost' \/ state = "closed" \/ ~V!NodesFit(disk.cat_node, disk))
  <1>1. /\ disk \in Volumes /\ startblock \in Nat /\ maxblocks \in Nat /\ shift \in Nat
        /\ sector \in Nat /\ lost \in BOOLEAN /\ last \in Nat
        /\ last < maxblocks \/ last = 0
    BY DEF VolumeInv, V!TypeOK
  <1>2. V!PlacesTrue
    BY DEF VolumeInv
  <1>3. /\ disk.partition \in Nat /\ V!Start(disk) \in Nat
        /\ V!Sectors(disk) \in Nat /\ V!Sectors(disk) >= 4
        /\ disk.total \in Nat /\ disk.cat \in Nat /\ disk.cat < disk.total
    BY <1>1, VolumeIs
  <1>4. ASSUME V!Open PROVE Goal
    <2>1. /\ state = "closed" /\ state' = "header" /\ disk' = disk
          /\ startblock' = disk.partition /\ maxblocks' = 3 /\ shift' = 0
          /\ sector' = 0 /\ last' = 0 /\ lost' = FALSE
      BY <1>4 DEF V!Open
    <2>2. V!TypeOK'
      BY <1>1, <1>3, <2>1 DEF V!TypeOK
    <2>3. V!PlacesTrue' /\ V!SectorsRight'
      BY <2>1, Zenon DEF V!PlacesTrue, V!SectorsRight
    <2> QED
      BY <2>1, <2>2, <2>3 DEF VolumeInv
  <1>5. ASSUME V!Fails PROVE Goal
    <2>1. /\ state \in {"header", "embedded", "backup", "catalog"}
          /\ state' = "closed" /\ lost' = TRUE
          /\ UNCHANGED <<disk, startblock, maxblocks, shift, sector, last>>
      BY <1>5 DEF V!Fails
    <2>2. V!TypeOK'
      BY <1>1, <2>1 DEF V!TypeOK
    <2>3. V!PlacesTrue' /\ V!SectorsRight'
      BY <2>1 DEF V!PlacesTrue, V!SectorsRight
    <2> QED
      BY <2>1, <2>2, <2>3 DEF VolumeInv
  <1>6. ASSUME V!Wrapper PROVE Goal
    <2>1. /\ state = "header" /\ disk.wrapper # None /\ last' = 2 /\ sector' = 2 + startblock
          /\ maxblocks' = disk.wrapper.embedl * disk.wrapper.size
          /\ startblock' = startblock + (disk.wrapper.first_block
                                          + disk.wrapper.embeds * disk.wrapper.size)
          /\ state' = "embedded" /\ UNCHANGED <<disk, shift, lost>>
      BY <1>6 DEF V!Wrapper, V!Embedded
    <2>2. startblock = disk.partition /\ shift = 0
      BY <1>2, <2>1 DEF V!PlacesTrue
    <2>3. startblock' = V!Start(disk) /\ maxblocks' = V!Sectors(disk)
      BY <1>1, <2>1, <2>2, EmbeddedIs
    <2>4. V!TypeOK'
      BY <1>1, <1>3, <2>1, <2>3 DEF V!TypeOK
    <2>5. V!PlacesTrue' /\ V!SectorsRight'
      BY <2>1, <2>2, <2>3 DEF V!PlacesTrue, V!SectorsRight, V!Start, V!Sectors
    <2> QED
      BY <2>1, <2>4, <2>5 DEF VolumeInv
  <1>7. ASSUME V!ReadEmbedded PROVE Goal
    <2>1. /\ state = "embedded" /\ UNCHANGED <<startblock, shift, disk, maxblocks, lost>>
          /\ V!ReadSector(2)
          /\ state' = IF sector' \in V!Headers(disk) THEN "backup" ELSE "closed"
      BY <1>7 DEF V!ReadEmbedded
    <2>2. startblock = V!Start(disk) /\ maxblocks = V!Sectors(disk) /\ shift = 0
      BY <1>2, <2>1 DEF V!PlacesTrue
    <2>3. last' = 2 /\ sector' = 2 + V!Start(disk)
      BY <1>3, <2>1, <2>2, SectorRead
    <2>4. state' = "backup"
      BY <1>3, <2>1, <2>3 DEF V!Headers
    <2>5. V!TypeOK'
      BY <1>1, <1>3, <2>1, <2>2, <2>3, <2>4 DEF V!TypeOK
    <2>6. V!PlacesTrue' /\ V!SectorsRight'
      BY <2>1, <2>2, <2>4 DEF V!PlacesTrue, V!SectorsRight, V!Start, V!Sectors
    <2> QED
      BY <2>1, <2>4, <2>5, <2>6 DEF VolumeInv
  <1>8. ASSUME V!Native PROVE Goal
    <2>1. /\ state = "header" /\ disk.wrapper = None
          /\ UNCHANGED <<startblock, shift, disk, lost>> /\ V!ReadSector(2)
          /\ maxblocks' = disk.per_block * disk.total /\ state' = "backup"
      BY <1>8 DEF V!Native
    <2>2. startblock = disk.partition /\ shift = 0
      BY <1>2, <2>1 DEF V!PlacesTrue
    <2>3. startblock = V!Start(disk) /\ maxblocks' = V!Sectors(disk)
      BY <2>1, <2>2 DEF V!Start, V!Sectors
    <2>4. last' = 2 /\ sector' = 2 + V!Start(disk)
      BY <1>3, <2>1, <2>2, <2>3, SectorRead
    <2>5. V!TypeOK'
      BY <1>1, <1>3, <2>1, <2>3, <2>4 DEF V!TypeOK
    <2>6. V!PlacesTrue' /\ V!SectorsRight'
      BY <2>1, <2>2, <2>3 DEF V!PlacesTrue, V!SectorsRight, V!Start, V!Sectors
    <2> QED
      BY <2>1, <2>5, <2>6 DEF VolumeInv
  <1>9. ASSUME V!ReadBackup PROVE Goal
    <2>1. /\ state = "backup" /\ UNCHANGED <<startblock, shift, disk, maxblocks, lost>>
          /\ V!ReadSector(maxblocks - 2)
          /\ state' = IF sector' \in V!Headers(disk) THEN "catalog" ELSE "closed"
      BY <1>9 DEF V!ReadBackup, V!Backup
    <2>2. startblock = V!Start(disk) /\ maxblocks = V!Sectors(disk) /\ shift = 0
      BY <1>2, <2>1 DEF V!PlacesTrue
    <2>3. maxblocks - 2 \in Nat
      BY <1>3, <2>2
    <2>4. last' = maxblocks - 2 /\ sector' = (maxblocks - 2) + V!Start(disk)
      BY <1>3, <2>1, <2>2, <2>3, SectorRead
    <2>5. sector' = V!Start(disk) + V!Sectors(disk) - 2
      BY <1>3, <2>2, <2>4
    <2>6. state' = "catalog"
      BY <2>1, <2>5 DEF V!Headers
    <2>7. V!TypeOK'
      BY <1>1, <1>3, <2>1, <2>2, <2>3, <2>4, <2>6 DEF V!TypeOK
    <2>8. V!PlacesTrue' /\ V!SectorsRight'
      BY <2>1, <2>2, <2>6 DEF V!PlacesTrue, V!SectorsRight, V!Start, V!Sectors
    <2> QED
      BY <2>1, <2>6, <2>7, <2>8 DEF VolumeInv
  <1>10. ASSUME V!ReadCatalog PROVE Goal
    <2>1. /\ state = "catalog" /\ shift' = V!Shift(disk.per_block)
          /\ startblock' = startblock \div V!Two[shift'] /\ maxblocks' = disk.total
          /\ V!ReadSector(disk.cat) /\ UNCHANGED <<disk, lost>>
          /\ state' \in IF sector' # V!Catalog(disk) THEN {"open", "closed"}
                        ELSE IF V!NodesFit(disk.cat_node, disk) THEN {"open"} ELSE {"closed"}
      BY <1>10 DEF V!ReadCatalog, V!StartInBlocks
    <2>2. startblock = V!Start(disk)
      BY <1>2, <2>1 DEF V!PlacesTrue
    <2>3. /\ V!Two[shift'] = disk.per_block /\ shift' \in Nat /\ startblock' \in Nat
          /\ startblock' * disk.per_block = V!Start(disk)
      BY <1>1, <2>1, <2>2, VolumeIs
    <2>4. /\ last' = disk.cat /\ sector' = V!Start(disk) + disk.cat * disk.per_block
          /\ sector' \in Nat /\ sector' + disk.per_block <= V!Start(disk) + V!Sectors(disk)
      BY <1>1, <1>3, <2>1, <2>3, BlockRead
    <2>5. state' = "open" \/ (state' = "closed" /\ ~V!NodesFit(disk.cat_node, disk))
      BY <2>1, <2>4 DEF V!Catalog
    <2>6. V!TypeOK'
      BY <1>1, <1>3, <2>1, <2>3, <2>4, <2>5 DEF V!TypeOK
    <2>7. V!PlacesTrue'
      BY <2>1, <2>3, <2>5, Zenon DEF V!PlacesTrue, V!Start
    <2>8. V!SectorsRight'
      BY <2>1, <2>4, Zenon DEF V!SectorsRight, V!Start, V!Sectors
    <2> QED
      BY <2>1, <2>5, <2>6, <2>7, <2>8 DEF VolumeInv
  <1> QED
    BY <1>4, <1>5, <1>6, <1>7, <1>8, <1>9, <1>10 DEF V!Opening

\* So does the read of a block ...
LEMMA BlockKeeps ==
    ASSUME VolumeInv, NEW b \in Nat, V!ReadBlock(b)
    PROVE  /\ VolumeInv' /\ disk' = disk /\ state' = "open" /\ b \in 0 .. disk.total - 1
           /\ sector' = V!Start(disk) + b * disk.per_block
  <1>1. /\ disk \in Volumes /\ startblock \in Nat /\ maxblocks \in Nat /\ shift \in Nat
        /\ lost \in BOOLEAN
    BY DEF VolumeInv, V!TypeOK
  <1>2. /\ state = "open" /\ b < maxblocks /\ V!ReadSector(b)
        /\ UNCHANGED <<startblock, shift, state, disk, maxblocks, lost>>
    BY DEF V!ReadBlock
  <1>3. /\ startblock * disk.per_block = V!Start(disk) /\ V!Two[shift] = disk.per_block
        /\ maxblocks = disk.total
    BY <1>2 DEF VolumeInv, V!PlacesTrue
  <1>4. /\ last' = b /\ sector' = V!Start(disk) + b * disk.per_block
        /\ sector' \in Nat /\ sector' + disk.per_block <= V!Start(disk) + V!Sectors(disk)
    BY <1>1, <1>2, <1>3, BlockRead
  <1>5. V!TypeOK'
    BY <1>1, <1>2, <1>4 DEF V!TypeOK
  <1>6. V!PlacesTrue'
    BY <1>2, <1>3, Zenon DEF V!PlacesTrue, V!Start
  <1>7. V!SectorsRight'
    BY <1>2, <1>4, Zenon DEF V!SectorsRight, V!Start, V!Sectors
  <1>8. b \in 0 .. disk.total - 1
    BY <1>1, <1>2, <1>3
  <1> QED
    BY <1>2, <1>4, <1>5, <1>6, <1>7, <1>8 DEF VolumeInv

\* ... and closing.
LEMMA CloseKeeps ==
    ASSUME VolumeInv, V!Close
    PROVE  VolumeInv'
  <1>1. /\ startblock \in Nat /\ maxblocks \in Nat /\ shift \in Nat /\ sector \in Nat
        /\ lost \in BOOLEAN /\ last \in Nat
        /\ last < maxblocks \/ last = 0
    BY DEF VolumeInv, V!TypeOK
  <1>2. /\ state' = "closed" /\ disk' \in Volumes
        /\ UNCHANGED <<startblock, maxblocks, shift, sector, last, lost>>
    BY DEF V!Close
  <1>3. V!TypeOK'
    BY <1>1, <1>2 DEF V!TypeOK
  <1>4. V!PlacesTrue' /\ V!SectorsRight'
    BY <1>2, Zenon DEF V!PlacesTrue, V!SectorsRight
  <1> QED
    BY <1>3, <1>4 DEF VolumeInv

-----------------------------------------------------------------------------
(* Both. *)

\* Neither a volume is open nor a block read.
LEMMA ReadsStart == ReadsInit => ReadsInv
  <1> SUFFICES ASSUME ReadsInit PROVE ReadsInv
    OBVIOUS
  <1>1. IInv /\ VolumeInv
    BY InitInv, VolumeStarts DEF ReadsInit
  <1>2. buf = <<>> /\ sectors = <<>>
    BY DEF ReadsInit, Init
  <1>3. SectorsOfBlocks
    BY <1>2 DEF SectorsOfBlocks
  <1> QED
    BY <1>1, <1>3 DEF ReadsInv, VolumeInv

\* Opening reads no fork.
LEMMA OpenVolumeKeeps == ReadsInv /\ OpenVolume => ReadsInv'
  <1> SUFFICES ASSUME ReadsInv, OpenVolume PROVE ReadsInv'
    OBVIOUS
  <1>1. IInv /\ VolumeInv /\ SectorsOfBlocks /\ V!Opening /\ UNCHANGED <<vars, sectors>>
    BY DEF ReadsInv, VolumeInv, OpenVolume
  <1>2. IInv'
    BY <1>1, StutterInv
  <1>3. VolumeInv' /\ disk' = disk
    BY <1>1, OpeningKeeps
  <1>4. buf' = buf
    BY <1>1 DEF vars
  <1>5. SectorsOfBlocks'
    BY <1>1, <1>3, <1>4 DEF SectorsOfBlocks, V!Start
  <1> QED
    BY <1>2, <1>3, <1>5 DEF ReadsInv, VolumeInv

\* Closing forgets what was read.
LEMMA CloseVolumeKeeps == ReadsInv /\ CloseVolume => ReadsInv'
  <1> SUFFICES ASSUME ReadsInv, CloseVolume PROVE ReadsInv'
    OBVIOUS
  <1>1. /\ IInv /\ VolumeInv /\ V!Close /\ pc = "idle"
        /\ extents' = ExtentsOf(disk') /\ tree' = "none" /\ loop' = "skip"
        /\ call' \in [fork : Forks, first : {0}, count : {0}] /\ skip' = 0 /\ count' = 0
        /\ curr_block' = 0 /\ block' = 0 /\ index' = 0 /\ record' = 0
        /\ buf' = <<>> /\ sectors' = <<>> /\ answer' = "none" /\ failed' = FALSE /\ pc' = pc
    BY DEF ReadsInv, VolumeInv, CloseVolume
  <1>2. VolumeInv'
    BY <1>1, CloseKeeps
  <1>3. TypeOK'
    <2>1. buf' \in Seq(Nat) /\ call' \in [fork : Forks, first : Nat, count : Nat]
      BY <1>1
    <2>2. extents' \in ExtentsTrees
      BY <1>1, VolumesAssumption DEF V!Close
    <2> QED
      BY <1>1, <2>1, <2>2 DEF TypeOK
  <1>4. /\ PositionTrue' /\ BehindTrue' /\ PlaceTrue' /\ SearchTrue'
        /\ Progress' /\ ReadsTheFork' /\ FailsForAReason'
    BY <1>1 DEF PositionTrue, BehindTrue, PlaceTrue, SearchTrue, Searching, Loop, Progress,
       ReadsTheFork, FailsForAReason
  <1>5. SectorsOfBlocks'
    BY <1>1 DEF SectorsOfBlocks
  <1> QED
    BY <1>2, <1>3, <1>4, <1>5 DEF ReadsInv, VolumeInv, IInv

\* A call begins with nothing read, and with the catalog found.
LEMMA StartCallKeeps == ReadsInv /\ StartCall => ReadsInv'
  <1> SUFFICES ASSUME ReadsInv, StartCall PROVE ReadsInv'
    OBVIOUS
  <1>1. /\ IInv /\ VolumeInv /\ state = "open" /\ Call
        /\ sectors' = <<>> /\ last' = disk.cat /\ sector' = V!Catalog(disk)
        /\ UNCHANGED <<state, disk, startblock, maxblocks, shift, lost>>
    BY DEF ReadsInv, VolumeInv, StartCall
  <1>2. IInv'
    BY <1>1, CallInv
  <1>3. SectorsOfBlocks'
    BY <1>1 DEF SectorsOfBlocks, Call
  <1>4. /\ disk \in Volumes /\ startblock \in Nat /\ maxblocks \in Nat /\ shift \in Nat
        /\ lost \in BOOLEAN
        /\ startblock * disk.per_block = V!Start(disk) /\ V!Two[shift] = disk.per_block
        /\ maxblocks = disk.total
    BY <1>1 DEF VolumeInv, V!TypeOK, V!PlacesTrue
  <1> DEFINE d == disk.cat * disk.per_block
             t == disk.total * disk.per_block
  <1>5. /\ V!Start(disk) \in Nat /\ V!Sectors(disk) \in Nat /\ disk.per_block \in Nat
        /\ disk.cat \in Nat /\ disk.cat < disk.total
        /\ d + disk.per_block <= t /\ d \in Nat /\ t \in Nat /\ t <= V!Sectors(disk)
    <2>1. /\ disk.total \in Nat /\ disk.cat \in Nat /\ disk.cat < disk.total
          /\ V!Start(disk) \in Nat /\ V!Sectors(disk) \in Nat
          /\ disk.per_block \in Nat /\ disk.per_block > 0
          /\ t <= V!Sectors(disk)
      BY <1>4, VolumeIs
    <2>2. d + disk.per_block <= t
      BY <2>1, Before
    <2>3. d \in Nat /\ t \in Nat
      BY <2>1, Aligned
    <2> QED
      BY <2>1, <2>2, <2>3
  <1>6. sector' = V!Start(disk) + d
    BY <1>1 DEF V!Catalog
  <1> HIDE DEF d, t
  <1>7. sector' \in Nat /\ sector' + disk.per_block <= V!Start(disk) + V!Sectors(disk)
    BY <1>5, <1>6
  <1>8. V!TypeOK'
    BY <1>1, <1>4, <1>5, <1>7 DEF V!TypeOK
  <1>9. V!PlacesTrue'
    BY <1>1, <1>4, Zenon DEF V!PlacesTrue, V!Start
  <1>10. V!SectorsRight'
    BY <1>1, <1>6, <1>7, Zenon DEF V!SectorsRight, V!Start, V!Sectors, d
  <1> QED
    BY <1>2, <1>3, <1>8, <1>9, <1>10 DEF ReadsInv

\* The steps that read nothing leave the sectors read alone.
LEMMA IterateKeeps == ReadsInv /\ Iterate => ReadsInv'
  <1> SUFFICES ASSUME ReadsInv, Iterate PROVE ReadsInv'
    OBVIOUS
  <1>1. /\ IInv /\ VolumeInv /\ SectorsOfBlocks
        /\ Skip \/ Skipped \/ ReadFails \/ Advance \/ Search
        /\ UNCHANGED <<volume, sectors>>
    BY DEF ReadsInv, VolumeInv, Iterate
  <1>2. IInv'
    BY <1>1, SkipInv, SkippedInv, ReadFailsInv, AdvanceInv, SearchInv
  <1>3. buf' = buf
    BY <1>1 DEF Skip, Skipped, ReadFails, Advance, Search, CreateTree, StartSearch, Descend,
       BeforeAll, FindExtent, RecordsNode, NextLeaf, NextRecord, Visit
  <1>4. SectorsOfBlocks'
    BY <1>1, <1>3 DEF SectorsOfBlocks, V!Start, volume
  <1>5. VolumeInv'
    BY <1>1 DEF volume, VolumeInv, V!TypeOK, V!PlacesTrue, V!SectorsRight, V!Start, V!Sectors
  <1> QED
    BY <1>2, <1>4, <1>5 DEF ReadsInv, VolumeInv

\* The step that reads adds the block and its sector.
LEMMA ReadBlockKeeps == ReadsInv /\ ReadBlock => ReadsInv'
  <1> SUFFICES ASSUME ReadsInv, ReadBlock PROVE ReadsInv'
    OBVIOUS
  <1> DEFINE b == Extent.start + block
  <1>1. /\ IInv /\ VolumeInv /\ SectorsOfBlocks /\ Read /\ V!ReadBlock(b)
        /\ sectors' = Append(sectors, sector') /\ buf' = Append(buf, b)
    BY DEF ReadsInv, VolumeInv, ReadBlock, Read
  <1>2. IInv'
    BY <1>1, ReadInv
  <1>3. b \in Nat
    <2>1. Inside /\ Number <= Len(Extents[call.fork]) /\ TypeOK
      BY <1>1, UsedInside DEF IInv, Read
    <2> QED
      BY <2>1, ExtentIs DEF TypeOK
  <1> HIDE DEF b
  <1>4. /\ VolumeInv' /\ disk' = disk /\ b \in 0 .. disk.total - 1
        /\ sector' = V!Start(disk) + b * disk.per_block
    BY <1>1, <1>3, BlockKeeps
  <1>5. SectorsOfBlocks'
    <2>1. buf \in Seq(Nat) /\ Len(buf) \in Nat
      BY <1>1 DEF IInv, TypeOK
    <2>2. /\ sectors \in Seq(Nat) /\ Len(sectors) = Len(buf)
          /\ \A i \in 1 .. Len(buf) :
                buf[i] \in 0 .. disk.total - 1 /\ sectors[i] = V!Start(disk) + buf[i] * disk.per_block
      BY <1>1 DEF SectorsOfBlocks
    <2>3. sector' \in Nat
      BY <1>4 DEF VolumeInv, V!TypeOK
    <2>4. /\ Len(buf') = Len(buf) + 1 /\ Len(sectors') = Len(buf) + 1 /\ sectors' \in Seq(Nat)
          /\ \A i \in 1 .. Len(buf) : buf'[i] = buf[i] /\ sectors'[i] = sectors[i]
          /\ buf'[Len(buf) + 1] = b /\ sectors'[Len(buf) + 1] = sector'
      BY <1>1, <1>3, <2>1, <2>2, <2>3
    <2>5. ASSUME NEW i \in 1 .. Len(buf')
          PROVE  buf'[i] \in 0 .. disk.total - 1 /\ sectors'[i] = V!Start(disk) + buf'[i] * disk.per_block
      <3>1. CASE i \in 1 .. Len(buf)
        BY <2>2, <2>4, <3>1
      <3>2. CASE i = Len(buf) + 1
        BY <1>4, <2>4, <3>2
      <3> QED
        BY <2>1, <2>4, <3>1, <3>2
    <2> QED
      BY <1>4, <2>4, <2>5 DEF SectorsOfBlocks, V!Start
  <1> QED
    BY <1>2, <1>4, <1>5 DEF ReadsInv, VolumeInv

\* The invariant is about these variables only.
LEMMA ReadsStutter == ReadsInv /\ UNCHANGED allVars => ReadsInv'
  <1> SUFFICES ASSUME ReadsInv, UNCHANGED allVars PROVE ReadsInv'
    OBVIOUS
  <1>1. IInv /\ VolumeInv /\ SectorsOfBlocks /\ UNCHANGED <<vars, volume, sectors>>
    BY DEF ReadsInv, VolumeInv, allVars
  <1>2. IInv' /\ buf' = buf
    BY <1>1, StutterInv DEF vars
  <1>3. SectorsOfBlocks'
    BY <1>1, <1>2 DEF SectorsOfBlocks, V!Start, volume
  <1>4. VolumeInv'
    BY <1>1 DEF volume, VolumeInv, V!TypeOK, V!PlacesTrue, V!SectorsRight, V!Start, V!Sectors
  <1> QED
    BY <1>2, <1>3, <1>4 DEF ReadsInv, VolumeInv

-----------------------------------------------------------------------------
\* The invariant of volume and iterator together, from volume_open to volume_close.
THEOREM ReadsInvariance == ReadsSpec => []ReadsInv
  <1>1. ReadsInv /\ [ReadsNext]_allVars => ReadsInv'
    BY OpenVolumeKeeps, CloseVolumeKeeps, StartCallKeeps, IterateKeeps, ReadBlockKeeps,
       ReadsStutter DEF ReadsNext, Reading
  <1> QED
    BY <1>1, ReadsStart, PTL DEF ReadsSpec

\* The sectors of the blocks of the fork are the sectors of the file.
LEMMA ReadsTrue == ReadsInv => ReadsTheFile
  <1> SUFFICES ASSUME ReadsInv, NEW i \in 1 .. Len(sectors)
               PROVE  \E b \in 0 .. disk.total - 1 :
                          /\ IsBlock(call.fork, call.first + i - 1, b)
                          /\ sectors[i] = V!Start(disk) + b * disk.per_block
    BY DEF ReadsTheFile
  <1>1. ReadsTheFork /\ SectorsOfBlocks
    BY DEF ReadsInv, IInv
  <1>2. i \in 1 .. Len(buf)
    BY <1>1 DEF SectorsOfBlocks
  <1>3. /\ IsBlock(call.fork, call.first + i - 1, buf[i])
        /\ buf[i] \in 0 .. disk.total - 1 /\ sectors[i] = V!Start(disk) + buf[i] * disk.per_block
    BY <1>1, <1>2 DEF ReadsTheFork, SectorsOfBlocks
  <1> QED
    BY <1>3

\* volume_readfromfork fills its buffer from the fork's blocks, in order, each at its
\* place in the partition.
THEOREM FilesAreRead == ReadsSpec => []ReadsTheFile
  BY ReadsTrue, ReadsInvariance, PTL

\* Each call of volume_readfromfork, on a volume as it was opened, ends with all blocks that
\* were asked for, each read at its place in the partition, or with none for a reason.
Answered ==
    /\ pc = "idle" /\ answer = "buf" => Len(sectors) = call.count /\ ReadsTheFile
    /\ FailsForAReason
THEOREM CallsAreAnswered == ReadsSpec => []Answered
  <1>1. ASSUME ReadsInv PROVE Answered
    <2>1. ReadsTheFork /\ FailsForAReason /\ Len(sectors) = Len(buf) /\ ReadsTheFile
      BY <1>1, ReadsTrue DEF ReadsInv, IInv, SectorsOfBlocks
    <2> QED
      BY <2>1 DEF Answered, ReadsTheFork
  <1> QED
    BY <1>1, ReadsInvariance, PTL

\* With the volume open, volume_readinbuf reads inside the volume, block by block.
THEOREM SectorsAreBlocks == ReadsSpec => []V!SectorsRight
  <1>1. ReadsInv => V!SectorsRight
    BY DEF ReadsInv
  <1> QED
    BY <1>1, ReadsInvariance, PTL

\* volume_open refuses an intact volume, wrapped or not, whose catalog's nodes are whole
\* blocks, only where a read fails.
THEOREM IntactOpens == ReadsSpec => OpensIntact
  <1> DEFINE A == state' = "closed" =>
                    lost' \/ state \in {"closed", "open"} \/ ~V!NodesFit(disk.cat_node, disk)
  <1>1. ASSUME ReadsInv, [ReadsNext]_allVars PROVE [A]_V!vars
    <2>0. VolumeInv
      BY <1>1 DEF ReadsInv, VolumeInv
    <2>1. CASE OpenVolume
      <3>1. V!Opening
        BY <2>1 DEF OpenVolume
      <3> QED
        BY <2>0, <3>1, OpeningKeeps
    <2>2. CASE CloseVolume
      BY <2>2 DEF CloseVolume, V!Close
    <2>3. CASE StartCall
      BY <2>3 DEF StartCall
    <2>4. CASE Iterate
      BY <2>4 DEF Iterate, volume, V!vars
    <2>5. CASE ReadBlock
      BY <2>5 DEF ReadBlock, V!ReadBlock
    <2>6. CASE UNCHANGED allVars
      BY <2>6 DEF allVars, volume, V!vars
    <2> QED
      BY <1>1, <2>1, <2>2, <2>3, <2>4, <2>5, <2>6 DEF ReadsNext, Reading
  <1>2. ReadsSpec => [][A]_V!vars
    BY <1>1, ReadsInvariance, PTL DEF ReadsSpec
  <1> QED
    BY <1>2 DEF OpensIntact, V!OpensIntact
=============================================================================
