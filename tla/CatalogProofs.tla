--------------------------- MODULE CatalogProofs ---------------------------
(***************************************************************************)
(* For every catalog that the volume format allows, however its records    *)
(* are spread over nodes, every cache and every pattern of failing reads:  *)
(* what is found is what the path names, and a listing is its folder's.    *)
(* Of the cache alone: an entry's buffer is its own node or torn, and the  *)
(* node returned last survives the next call.                              *)
(*                                                                         *)
(* The binary search and the resolving of a path are recursive functions;  *)
(* that they are what their definitions say is shown by induction, on the  *)
(* keys left to search and on the names of the path.                       *)
(***************************************************************************)
EXTENDS Catalog, WellFoundedInduction, SequenceTheorems, TLAPS

-----------------------------------------------------------------------------
(* The node cache. *)

\* Every set of natural numbers that is not empty has a least element.
LEMMA Least ==
    ASSUME NEW S \in SUBSET Nat, S # {}
    PROVE  \E n \in S : \A m \in S : n <= m
<1>1. PICK n \in S : \A m \in S : ~(<<m, n>> \in OpToRel(<, Nat))
  BY WFMin, NatLessThanWellFounded, Zenon
<1>2. \A m \in S : ~(m < n)
  <2> SUFFICES ASSUME NEW m \in S, m < n PROVE FALSE
    OBVIOUS
  <2>1. <<m, n>> \in Nat \X Nat /\ <<m, n>>[1] < <<m, n>>[2]
    OBVIOUS
  <2>2. <<m, n>> \in OpToRel(<, Nat)
    BY <2>1, Zenon DEF OpToRel
  <2> QED
    BY <1>1, <2>2, Zenon
<1> QED
  BY <1>2

\* The positions the search looks at are entries, and never the current one.
LEMMA PositionIsOther ==
    ASSUME currindex \in Slots, NEW k \in 1 .. Size - 1
    PROVE  Position(k) \in Slots /\ Position(k) # currindex
BY CacheAssumption DEF Position, Slots

\* The search ends.
LEMMA SearchEnds ==
    ASSUME NEW n
    PROVE  /\ Steps(n) \in 1 .. Size /\ Ends(n, Steps(n))
           /\ \A j \in 1 .. Steps(n) - 1 : ~Ends(n, j)
<1> DEFINE S == {k \in 1 .. Size : Ends(n, k)}
<1>1. S \in SUBSET Nat /\ Size \in S
  BY CacheAssumption DEF Ends
<1>2. PICK k \in S : \A m \in S : k <= m
  BY <1>1, Least
<1>3. k \in 1 .. Size /\ Ends(n, k) /\ \A j \in 1 .. k - 1 : ~Ends(n, j)
  <2>1. \A j \in 1 .. k - 1 : j \in 1 .. Size /\ ~(k <= j)
    BY <1>1, <1>2, CacheAssumption
  <2> QED
    BY <1>2, <2>1
<1> QED
  BY <1>3 DEF Steps

\* One of the entries that were passed is the oldest, and the first such.
LEMMA OldestIsPassed ==
    ASSUME CacheTypeOK, NEW n, Steps(n) = Size
    PROVE  \E k \in 1 .. Size - 1 : Oldest(n) = Position(k)
<1> DEFINE priority(k) == Aged(n)[Position(k)].priority
           First(k) == \A j \in 1 .. Size - 1 :
                          priority(j) < priority(k) \/ (priority(j) = priority(k) /\ k <= j)
<1>1. Size \in Nat /\ Size > 1 /\ MaxPriority \in Nat
  BY CacheAssumption
<1>2. \A k \in 1 .. Size - 1 : priority(k) \in 0 .. MaxPriority
  <2> SUFFICES ASSUME NEW k \in 1 .. Size - 1 PROVE priority(k) \in 0 .. MaxPriority
    OBVIOUS
  <2>1. Position(k) \in Slots
    BY PositionIsOther DEF CacheTypeOK
  <2>2. entries[Position(k)] \in Entry
    BY <2>1 DEF CacheTypeOK
  <2>3. \A p \in 0 .. MaxPriority : Older(p) \in 0 .. MaxPriority
    BY <1>1 DEF Older
  <2> QED
    BY <2>1, <2>2, <2>3 DEF Aged, Entry
<1> HIDE DEF priority
<1>3. PICK m \in {MaxPriority - priority(k) : k \in 1 .. Size - 1} :
         \A x \in {MaxPriority - priority(k) : k \in 1 .. Size - 1} : m <= x
  <2>1. {MaxPriority - priority(k) : k \in 1 .. Size - 1} \in SUBSET Nat
    BY <1>1, <1>2
  <2>2. 1 \in 1 .. Size - 1
    BY <1>1
  <2>3. {MaxPriority - priority(k) : k \in 1 .. Size - 1} # {}
    BY <2>2
  <2> QED
    BY <2>1, <2>3, Least
<1>4. \A k \in 1 .. Size - 1 : m <= MaxPriority - priority(k)
  BY <1>3
<1> DEFINE Greatest == {k \in 1 .. Size - 1 : MaxPriority - priority(k) = m}
<1>5. Greatest \in SUBSET Nat /\ Greatest # {}
  BY <1>3
<1>6. PICK k \in Greatest : \A j \in Greatest : k <= j
  BY <1>5, Least
<1>7. First(k)
  BY <1>1, <1>2, <1>4, <1>6
<1>8. Oldest(n) = Position(CHOOSE i \in 1 .. Size - 1 : First(i))
  BY DEF Oldest, priority
<1>9. (CHOOSE i \in 1 .. Size - 1 : First(i)) \in 1 .. Size - 1
  BY <1>6, <1>7
<1> QED
  BY <1>8, <1>9

\* So the entry to make room is never the current one.
LEMMA VictimIsOther ==
    ASSUME CacheTypeOK, NEW n
    PROVE  Victim(n) \in Slots /\ Victim(n) # currindex
<1>1. CASE Steps(n) < Size
  <2>1. Steps(n) \in 1 .. Size - 1
    BY <1>1, SearchEnds, CacheAssumption
  <2> QED
    BY <1>1, <2>1, PositionIsOther DEF Victim, CacheTypeOK
<1>2. CASE ~(Steps(n) < Size)
  <2>1. Steps(n) = Size
    BY <1>2, SearchEnds, CacheAssumption
  <2> QED
    BY <1>2, <2>1, OldestIsPassed, PositionIsOther DEF Victim, CacheTypeOK
<1> QED
  BY <1>1, <1>2

\* Ageing changes priorities only, and keeps them in range.
LEMMA AgingKeeps ==
    ASSUME CacheTypeOK, NEW n
    PROVE  /\ Aged(n) \in [Slots -> Entry]
           /\ \A i \in Slots : Aged(n)[i].index = entries[i].index
<1>1. \A p \in 0 .. MaxPriority : Older(p) \in 0 .. MaxPriority
  BY CacheAssumption DEF Older
<1> QED
  BY <1>1 DEF Aged, CacheTypeOK, Entry

-----------------------------------------------------------------------------
\* One lookup keeps the invariant.
LEMMA LookupStep ==
    ASSUME CacheInv, NEW n \in Nodes, NodeByIndex(n)
    PROVE  CacheInv'
<1> DEFINE v == Victim(n)
           new == [index |-> n, priority |-> Height[n] * DepthFactor]
<1>1. v \in Slots /\ v # currindex
  BY VictimIsOther DEF CacheInv
<1>2. Aged(n) \in [Slots -> Entry] /\ \A i \in Slots : Aged(n)[i].index = entries[i].index
  BY AgingKeeps DEF CacheInv
<1>3. asked' = n /\ n # 0 /\ currindex \in Slots /\ None \notin Slots
  BY CacheAssumption DEF NodeByIndex, CacheInv, CacheTypeOK, Slots
<1>4. new \in Entry /\ new.index = n
  BY CacheAssumption DEF Entry
<1>5. CASE FindCurrent(n)
  BY <1>3, <1>5 DEF FindCurrent, CacheInv, CacheTypeOK, EntriesTrue, GotCurrent, Holds
<1>6. CASE FindOther(n)
  <2> DEFINE i == Position(Steps(n))
  <2>1. Steps(n) \in 1 .. Size - 1
    BY <1>6, SearchEnds, CacheAssumption DEF FindOther
  <2>2. i \in Slots
    BY <1>3, <2>1, PositionIsOther
  <2>3. /\ entries' = [Aged(n) EXCEPT ![i].priority = Younger(@)]
        /\ currindex' = i /\ got' = i /\ buffers' = buffers /\ failed' = failed
        /\ entries[i].index = n
    BY <1>6 DEF FindOther, Holds
  <2> HIDE DEF i
  <2>4. \A p \in 0 .. MaxPriority : Younger(p) \in 0 .. MaxPriority
    BY CacheAssumption DEF Younger
  <2>5. entries' \in [Slots -> Entry] /\ \A j \in Slots : entries'[j].index = entries[j].index
    BY <1>2, <2>2, <2>3, <2>4 DEF Entry
  <2> QED
    BY <1>3, <2>2, <2>3, <2>5 DEF CacheInv, CacheTypeOK, EntriesTrue, GotCurrent, Holds
<1>7. CASE Load(n)
  <2>1. /\ entries' = [Aged(n) EXCEPT ![v] = new]
        /\ buffers' = [buffers EXCEPT ![v] = n]
        /\ currindex' = v /\ got' = v /\ failed' = failed
    BY <1>7 DEF Load
  <2> HIDE DEF v, new
  <2>2. entries' \in [Slots -> Entry] /\ entries'[v].index = n
           /\ \A j \in Slots \ {v} : entries'[j].index = entries[j].index
    BY <1>1, <1>2, <1>4, <2>1
  <2>3. buffers' \in [Slots -> Nodes \cup {Raw, Torn}] /\ buffers'[v] = n
           /\ \A j \in Slots \ {v} : buffers'[j] = buffers[j]
    BY <1>1, <2>1 DEF CacheInv, CacheTypeOK
  <2> QED
    BY <1>1, <1>3, <2>1, <2>2, <2>3 DEF CacheInv, CacheTypeOK, EntriesTrue, GotCurrent, Holds
<1>8. CASE LoadFails(n)
  <2>1. PICK b \in {buffers[v], Torn} :
           /\ entries' = Aged(n)
           /\ buffers' = [buffers EXCEPT ![v] = b]
           /\ currindex' = v /\ got' = None /\ failed' = TRUE
    BY <1>8 DEF LoadFails
  <2> HIDE DEF v
  <2> QED
    BY <1>1, <1>2, <1>3, <2>1 DEF CacheInv, CacheTypeOK, EntriesTrue, GotCurrent
<1> QED
  BY <1>5, <1>6, <1>7, <1>8 DEF NodeByIndex

\* One lookup leaves the node returned before it alone.
LEMMA LookupLeaves ==
    ASSUME CacheInv, NEW n \in Nodes, NodeByIndex(n), got # None
    PROVE  entries'[got].index = entries[got].index /\ buffers'[got] = buffers[got]
<1>1. got = currindex /\ currindex \in Slots
  BY DEF CacheInv, GotCurrent, CacheTypeOK
<1>2. Victim(n) \in Slots /\ Victim(n) # currindex
  BY VictimIsOther DEF CacheInv
<1>3. Aged(n) \in [Slots -> Entry] /\ Aged(n)[currindex].index = entries[currindex].index
  BY <1>1, AgingKeeps DEF CacheInv
<1>4. CASE FindCurrent(n)
  BY <1>4 DEF FindCurrent
<1>5. CASE FindOther(n)
  <2>1. Steps(n) \in 1 .. Size - 1
    BY <1>5, SearchEnds, CacheAssumption DEF FindOther
  <2>2. Position(Steps(n)) \in Slots /\ Position(Steps(n)) # currindex
    BY <1>1, <2>1, PositionIsOther
  <2> QED
    BY <1>1, <1>3, <1>5, <2>2 DEF FindOther
<1>6. CASE Load(n)
  BY <1>1, <1>2, <1>3, <1>6 DEF Load, CacheInv, CacheTypeOK
<1>7. CASE LoadFails(n)
  BY <1>1, <1>2, <1>3, <1>7 DEF LoadFails, CacheInv, CacheTypeOK
<1> QED
  BY <1>4, <1>5, <1>6, <1>7 DEF NodeByIndex

\* The empty cache has it.
LEMMA CacheStarts == CacheInit => CacheInv
<1> SUFFICES ASSUME CacheInit PROVE CacheInv
  OBVIOUS
<1>1. 0 \in Slots /\ 0 \in 0 .. MaxPriority
  BY CacheAssumption DEF Slots
<1>2. CacheTypeOK
  BY <1>1 DEF CacheInit, CacheTypeOK, Entry
<1>3. EntriesTrue /\ GotCurrent
  BY DEF CacheInit, EntriesTrue, GotCurrent
<1> QED
  BY <1>2, <1>3 DEF CacheInv

\* The invariant of the cache holds for every size, tree and sequence of calls.
THEOREM CacheInvariance == CacheSpec => []CacheInv
<1>1. CacheInit => CacheInv
  BY CacheStarts
<1>2. CacheInv /\ [Lookup]_cacheVars => CacheInv'
  <2>1. CacheInv /\ Lookup => CacheInv'
    BY LookupStep DEF Lookup
  <2>2. CacheInv /\ UNCHANGED cacheVars => CacheInv'
    BY DEF CacheInv, CacheTypeOK, EntriesTrue, GotCurrent, Holds, cacheVars
  <2> QED
    BY <2>1, <2>2
<1> QED
  BY <1>1, <1>2, PTL DEF CacheSpec

\* btree_node_by_index returns the node asked for, or one torn by a failed read.
THEOREM ReturnsOwnNode == CacheSpec => []OwnNodeOrTorn
<1>1. CacheInv => OwnNodeOrTorn
  BY DEF CacheInv, CacheTypeOK, EntriesTrue, GotCurrent, Holds, OwnNodeOrTorn
<1> QED
  BY <1>1, CacheInvariance, PTL

\* Pointers into the node returned last survive the next lookup.
THEOREM LastNodeSurvives == CacheSpec => LastNodeStays
<1>1. CacheInv /\ [Lookup]_cacheVars =>
         [got # None => /\ entries'[got].index = entries[got].index
                        /\ buffers'[got] = buffers[got]]_cacheVars
  <2>1. ASSUME CacheInv, Lookup, got # None
        PROVE  entries'[got].index = entries[got].index /\ buffers'[got] = buffers[got]
    BY <2>1, LookupLeaves DEF Lookup
  <2> QED
    BY <2>1
<1> QED
  BY <1>1, CacheInvariance, PTL DEF CacheSpec, LastNodeStays

-----------------------------------------------------------------------------
(* Keys. *)

\* Ids are less than Half apart, so their difference is an int.
LEMMA SignedIs ==
    ASSUME NEW d \in Int, -Half < d, d < Half
    PROVE  Signed(d) = d
<1>1. Half \in Nat /\ Half > 0
  BY CatalogAssumption DEF RootFolder
<1>2. \A x, m \in Nat : x < m => x % m = x
  OBVIOUS
<1>3. d + Half \in Nat /\ 2 * Half \in Nat /\ d + Half < 2 * Half
  BY <1>1
<1>4. (d + Half) % (2 * Half) = d + Half
  BY <1>2, <1>3
<1> QED
  BY <1>1, <1>4 DEF Signed

\* record_key_compare compares: first the folders, then the names.
LEMMA CompareIs ==
    ASSUME NEW k1 \in Key, NEW k2 \in Key
    PROVE  /\ Compare(k1, k2) \in Int
           /\ Compare(k1, k2) > 0 <=> Before(k1, k2)
           /\ Compare(k1, k2) < 0 <=> Before(k2, k1)
           /\ Compare(k1, k2) = 0 <=> k1 = k2
<1>1. Half \in Nat
  BY CatalogAssumption
<1>2. /\ k1.parent \in 0 .. Half - 1 /\ k2.parent \in 0 .. Half - 1
      /\ k1.name \in Nat /\ k2.name \in Nat
      /\ k1 = k2 <=> k1.parent = k2.parent /\ k1.name = k2.name
  BY DEF Key, Id
<1>3. Signed(k2.parent - k1.parent) = k2.parent - k1.parent
  BY <1>1, <1>2, SignedIs
<1> QED
  BY <1>1, <1>2, <1>3 DEF Compare, Before

\* Before is a strict total order.
LEMMA BeforeOrders ==
    ASSUME NEW k1 \in Key, NEW k2 \in Key
    PROVE  /\ ~Before(k1, k1)
           /\ ~Before(k1, k2) /\ ~Before(k2, k1) => k1 = k2
           /\ \A k3 \in Key : Before(k1, k2) /\ Before(k2, k3) => Before(k1, k3)
<1>1. Half \in Nat
  BY CatalogAssumption
<1> QED
  BY <1>1 DEF Before, Key, Id


\* One turn of the binary search between start and end, f for the turns after it.
Turn(f, keys, key, b) ==
    LET mid  == (b[1] + b[2]) \div 2
        comp == Compare(keys[mid + 1], key)
    IN  IF comp > 0 /\ mid + 1 < b[2] THEN f[<<mid + 1, b[2]>>]
        ELSE IF comp < 0 /\ b[1] < mid THEN f[<<b[1], mid>>]
        ELSE [mid |-> mid + 1, comp |-> comp]
Bounds(keys) == (0 .. Len(keys)) \X (0 .. Len(keys))

\* The turns after it have less to search.
LEMMA TurnNarrows ==
    ASSUME NEW keys, Len(keys) \in Nat, NEW key, NEW b \in Bounds(keys), NEW f, NEW g,
           \A c \in Bounds(keys) : c[1] < c[2] /\ c[2] - c[1] < b[2] - b[1] => f[c] = g[c]
    PROVE  Turn(f, keys, key, b) = Turn(g, keys, key, b)
<1> DEFINE mid == (b[1] + b[2]) \div 2
<1>1. b[1] \in 0 .. Len(keys) /\ b[2] \in 0 .. Len(keys) /\ mid \in Nat
  BY DEF Bounds
<1>2. ASSUME mid + 1 < b[2]
      PROVE  f[<<mid + 1, b[2]>>] = g[<<mid + 1, b[2]>>]
  <2>1. b[1] <= mid
    BY <1>1, <1>2
  <2>2. <<mid + 1, b[2]>> \in Bounds(keys)
    BY <1>1, <1>2 DEF Bounds
  <2> HIDE DEF mid
  <2> DEFINE c == <<mid + 1, b[2]>>
  <2>3. c[1] = mid + 1 /\ c[2] = b[2]
    OBVIOUS
  <2> HIDE DEF c
  <2>4. c[1] < c[2] /\ c[2] - c[1] < b[2] - b[1]
    BY <1>1, <1>2, <2>1, <2>3
  <2>5. f[c] = g[c]
    BY <2>2, <2>4 DEF c
  <2> QED
    BY <2>5 DEF c
<1>3. ASSUME b[1] < mid
      PROVE  f[<<b[1], mid>>] = g[<<b[1], mid>>]
  <2>1. mid < b[2]
    BY <1>1, <1>3
  <2>2. <<b[1], mid>> \in Bounds(keys)
    BY <1>1, <1>3, <2>1 DEF Bounds
  <2> QED
    BY <1>1, <1>3, <2>1, <2>2
<1> QED
  BY <1>2, <1>3 DEF Turn

\* So the search is what its definition says: by induction on what is left.
LEMMA ProbingUnfolds ==
    ASSUME NEW keys, Len(keys) \in Nat, NEW key
    PROVE  \A b \in Bounds(keys) :
              Probing(keys, key)[b] = Turn(Probing(keys, key), keys, key, b)
<1> DEFINE D == Bounds(keys)
           Upto(f, w) == \A b \in D : b[2] - b[1] <= w => f[b] = Turn(f, keys, key, b)
           P(w) == \E f : Upto(f, w)
<1>1. P(0)
  <2> DEFINE f == [b \in D |-> Turn([c \in {} |-> 0], keys, key, b)]
  <2>1. SUFFICES ASSUME NEW b \in D, b[2] - b[1] <= 0
                 PROVE  Turn([c \in {} |-> 0], keys, key, b) = Turn(f, keys, key, b)
    OBVIOUS
  <2> HIDE DEF f
  <2>2. \A c \in D : ~(c[1] < c[2] /\ c[2] - c[1] < b[2] - b[1])
    BY <2>1 DEF Bounds
  <2> QED
    BY <2>2, TurnNarrows
<1>2. ASSUME NEW w \in Nat, P(w) PROVE P(w + 1)
  <2>1. PICK f : Upto(f, w)
    BY <1>2
  <2> DEFINE g == [b \in D |-> IF b[2] - b[1] <= w THEN f[b] ELSE Turn(f, keys, key, b)]
  <2>2. \A b \in D : /\ b[2] - b[1] <= w => g[b] = f[b]
                     /\ ~(b[2] - b[1] <= w) => g[b] = Turn(f, keys, key, b)
    OBVIOUS
  <2> HIDE DEF g
  <2>3. ASSUME NEW b \in D, b[2] - b[1] <= w + 1
        PROVE  g[b] = Turn(g, keys, key, b)
    <3>1. \A c \in D : c[1] < c[2] /\ c[2] - c[1] < b[2] - b[1] => f[c] = g[c]
      <4>1. \A c \in D : c[2] - c[1] < b[2] - b[1] => c[2] - c[1] <= w
        BY <2>3 DEF Bounds
      <4> QED
        BY <4>1, <2>2
    <3>2. Turn(f, keys, key, b) = Turn(g, keys, key, b)
      BY <3>1, TurnNarrows
    <3>3. g[b] = Turn(f, keys, key, b)
      BY <2>1, <2>2
    <3> QED
      BY <3>2, <3>3
  <2> QED
    BY <2>3
<1> HIDE DEF P
<1>3. P(Len(keys))
  <2>1. \A n \in Nat : P(n)
    <3> SUFFICES ASSUME NEW n \in Nat, ~P(n) PROVE FALSE
      OBVIOUS
    <3>1. PICK m \in {i \in Nat : ~P(i)} : \A i \in {j \in Nat : ~P(j)} : m <= i
      BY Least
    <3>2. m # 0 /\ m - 1 \in Nat
      BY <1>1, <3>1
    <3>3. P(m - 1)
      BY <3>1, <3>2
    <3>4. P(m)
      BY <1>2, <3>2, <3>3
    <3> QED
      BY <3>1, <3>4
  <2> QED
    BY <2>1
<1>4. PICK f : Upto(f, Len(keys))
  BY <1>3 DEF P
<1> DEFINE g == [b \in D |-> f[b]]
<1>5. g = [b \in D |-> Turn(g, keys, key, b)]
  <2>1. \A b \in D : b[2] - b[1] <= Len(keys)
    BY DEF Bounds
  <2>2. ASSUME NEW b \in D PROVE g[b] = Turn(g, keys, key, b)
    <3>1. g[b] = Turn(f, keys, key, b)
      BY <1>4, <2>1
    <3>2. Turn(f, keys, key, b) = Turn(g, keys, key, b)
      <4>1. \A c \in D : f[c] = g[c]
        OBVIOUS
      <4> HIDE DEF g
      <4> QED
        BY <4>1, TurnNarrows
    <3> QED
      BY <3>1, <3>2
  <2> QED
    BY <2>2
<1> HIDE DEF g
<1>6. Probing(keys, key) = CHOOSE h : h = [b \in D |-> Turn(h, keys, key, b)]
  BY DEF Probing, Turn, Bounds
<1> DEFINE h == Probing(keys, key)
<1>7. h = [b \in D |-> Turn(h, keys, key, b)]
  <2> HIDE DEF D
  <2> QED
    BY <1>5, <1>6
<1> HIDE DEF h
<1>8. \A b \in D : h[b] = Turn(h, keys, key, b)
  BY <1>7
<1> QED
  BY <1>8 DEF h

\* Where the search is to look: the keys up to start are before the key, those
\* behind end are behind it.
Narrowed(keys, key, b) ==
    /\ b[1] < b[2]
    /\ \A i \in 1 .. b[1] : Before(keys[i], key)
    /\ \A i \in b[2] + 1 .. Len(keys) : Before(key, keys[i])

\* What it finds: the key, or one next to where it would be.
Found(keys, key, p) ==
    /\ p.mid \in 1 .. Len(keys) /\ p.comp \in Int
    /\ p.comp > 0 <=> Before(keys[p.mid], key)
    /\ p.comp < 0 <=> Before(key, keys[p.mid])
    /\ p.comp = 0 <=> keys[p.mid] = key
    /\ \A i \in 1 .. p.mid - 1 : Before(keys[i], key)
    /\ \A i \in p.mid + 1 .. Len(keys) : Before(key, keys[i])

Ascend(keys) == \A i, j \in 1 .. Len(keys) : i < j => Before(keys[i], keys[j])

\* A turn finds it, or narrows the search.
LEMMA TurnFinds ==
    ASSUME NEW keys \in Seq(Key), Ascend(keys), NEW key \in Key, NEW f,
           NEW b \in Bounds(keys), Narrowed(keys, key, b)
    PROVE  \/ Found(keys, key, Turn(f, keys, key, b))
           \/ \E c \in Bounds(keys) : /\ c[2] - c[1] < b[2] - b[1] /\ Narrowed(keys, key, c)
                                      /\ Turn(f, keys, key, b) = f[c]
<1> DEFINE mid == (b[1] + b[2]) \div 2
           comp == Compare(keys[mid + 1], key)
<1>1. /\ Len(keys) \in Nat /\ b[1] \in 0 .. Len(keys) /\ b[2] \in 0 .. Len(keys)
      /\ mid \in Nat /\ b[1] <= mid /\ mid < b[2]
  BY DEF Bounds, Narrowed
<1>2. \A i \in 1 .. Len(keys) : keys[i] \in Key
  OBVIOUS
<1>3. Turn(f, keys, key, b) =
        IF comp > 0 /\ mid + 1 < b[2] THEN f[<<mid + 1, b[2]>>]
        ELSE IF comp < 0 /\ b[1] < mid THEN f[<<b[1], mid>>]
        ELSE [mid |-> mid + 1, comp |-> comp]
  BY DEF Turn
<1> HIDE DEF mid
<1> DEFINE m == mid + 1
<1>4. m \in 1 .. Len(keys) /\ m = mid + 1 /\ keys[m] \in Key
  BY <1>1, <1>2
<1>5. /\ comp \in Int
      /\ comp > 0 <=> Before(keys[m], key)
      /\ comp < 0 <=> Before(key, keys[m])
      /\ comp = 0 <=> keys[m] = key
  BY <1>4, CompareIs
<1> HIDE DEF comp, m
<1>6. \A i \in 1 .. m - 1 : Before(keys[i], keys[m])
  BY <1>1, <1>4 DEF Ascend
<1>7. \A i \in m + 1 .. Len(keys) : Before(keys[m], keys[i])
  BY <1>1, <1>4 DEF Ascend
<1>8. comp >= 0 => \A i \in 1 .. m - 1 : Before(keys[i], key)
  BY <1>1, <1>2, <1>4, <1>5, <1>6, BeforeOrders
<1>9. comp <= 0 => \A i \in m + 1 .. Len(keys) : Before(key, keys[i])
  BY <1>1, <1>2, <1>4, <1>5, <1>7, BeforeOrders
<1>10. CASE comp > 0 /\ mid + 1 < b[2]
  <2> DEFINE c == <<mid + 1, b[2]>>
  <2>1. c[1] = m /\ c[2] = b[2] /\ c \in Bounds(keys)
    BY <1>1, <1>4, <1>10 DEF Bounds
  <2>2. Turn(f, keys, key, b) = f[c]
    BY <1>3, <1>10
  <2> HIDE DEF c
  <2>3. c[2] - c[1] < b[2] - b[1]
    BY <1>1, <1>4, <2>1
  <2>4. \A i \in 1 .. m : Before(keys[i], key)
    BY <1>4, <1>5, <1>8, <1>10
  <2>5. Narrowed(keys, key, c)
    BY <1>1, <1>4, <1>10, <2>1, <2>4 DEF Narrowed
  <2> QED
    BY <2>1, <2>2, <2>3, <2>5
<1>11. CASE comp < 0 /\ b[1] < mid
  <2> DEFINE c == <<b[1], mid>>
  <2>1. c[1] = b[1] /\ c[2] = mid /\ c \in Bounds(keys)
    BY <1>1, <1>4, <1>11 DEF Bounds
  <2>2. Turn(f, keys, key, b) = f[c]
    BY <1>3, <1>5, <1>11
  <2> HIDE DEF c
  <2>3. c[2] - c[1] < b[2] - b[1]
    BY <1>1, <1>4, <2>1
  <2>4. \A i \in m .. Len(keys) : Before(key, keys[i])
    BY <1>4, <1>5, <1>9, <1>11
  <2>5. Narrowed(keys, key, c)
    BY <1>1, <1>4, <1>11, <2>1, <2>4 DEF Narrowed
  <2> QED
    BY <2>1, <2>2, <2>3, <2>5
<1>12. CASE ~(comp > 0 /\ mid + 1 < b[2]) /\ ~(comp < 0 /\ b[1] < mid)
  <2> DEFINE p == [mid |-> m, comp |-> comp]
  <2>1. Turn(f, keys, key, b) = p
    BY <1>3, <1>4, <1>12
  <2>2. p.mid = m /\ p.comp = comp
    OBVIOUS
  <2> HIDE DEF p
  <2>3. \A i \in 1 .. m - 1 : Before(keys[i], key)
    <3>1. CASE comp >= 0
      BY <1>8, <3>1
    <3>2. CASE comp < 0
      BY <1>1, <1>4, <1>12, <3>2 DEF Narrowed
    <3> QED
      BY <1>5, <3>1, <3>2
  <2>4. \A i \in m + 1 .. Len(keys) : Before(key, keys[i])
    <3>1. CASE comp <= 0
      BY <1>9, <3>1
    <3>2. CASE comp > 0
      BY <1>1, <1>4, <1>12, <3>2 DEF Narrowed
    <3> QED
      BY <1>5, <3>1, <3>2
  <2>5. Found(keys, key, p)
    BY <1>4, <1>5, <2>2, <2>3, <2>4 DEF Found
  <2> QED
    BY <2>1, <2>5
<1> QED
  BY <1>5, <1>10, <1>11, <1>12

\* The binary search finds a key among ascending ones, or where it would be.
LEMMA ProbeFinds ==
    ASSUME NEW keys \in Seq(Key), Len(keys) > 0, Ascend(keys), NEW key \in Key
    PROVE  Found(keys, key, Probe(keys, key))
<1> DEFINE f == Probing(keys, key)
           Open == {b \in Bounds(keys) : Narrowed(keys, key, b) /\ ~Found(keys, key, f[b])}
<1>1. \A b \in Bounds(keys) : f[b] = Turn(f, keys, key, b)
  BY ProbingUnfolds
<1> HIDE DEF f
<1>2. ASSUME NEW b \in Open
      PROVE  \E c \in Open : c[2] - c[1] < b[2] - b[1]
  BY <1>1, TurnFinds
<1>3. Open = {}
  <2> SUFFICES ASSUME Open # {} PROVE FALSE
    OBVIOUS
  <2> DEFINE W == {b[2] - b[1] : b \in Open}
  <2>1. W \in SUBSET Nat /\ W # {}
    BY DEF Bounds, Narrowed
  <2>2. PICK w \in W : \A v \in W : w <= v
    BY <2>1, Least
  <2>3. PICK b \in Open : w = b[2] - b[1]
    BY <2>2
  <2>4. PICK c \in Open : c[2] - c[1] < b[2] - b[1]
    BY <1>2
  <2>5. c[2] - c[1] \in W
    OBVIOUS
  <2>6. w <= c[2] - c[1] /\ w \in Nat /\ c[2] - c[1] \in Nat
    BY <2>1, <2>2, <2>5
  <2> QED
    BY <2>3, <2>4, <2>6
<1>4. <<0, Len(keys)>> \in Bounds(keys) /\ Narrowed(keys, key, <<0, Len(keys)>>)
  BY DEF Bounds, Narrowed
<1>5. Found(keys, key, f[<<0, Len(keys)>>])
  BY <1>3, <1>4
<1> QED
  BY <1>5 DEF Probe, f

\* The child is the last one whose first key is not behind the key.
LEMMA ChildIs ==
    ASSUME NEW keys \in Seq(Key), Len(keys) > 0, Ascend(keys), NEW key \in Key
    PROVE  /\ Child(keys, key) \in 0 .. Len(keys)
           /\ \A i \in 1 .. Len(keys) : i <= Child(keys, key) <=> ~Before(key, keys[i])
<1> DEFINE p == Probe(keys, key)
<1>1. Found(keys, key, p) /\ Len(keys) \in Nat
  BY ProbeFinds
<1>2. Child(keys, key) = IF p.comp < 0 THEN p.mid - 1 ELSE p.mid
  BY DEF Child
<1> HIDE DEF p
<1>3. \A i \in 1 .. Len(keys) : Before(keys[i], key) => ~Before(key, keys[i])
  BY BeforeOrders
<1>4. \A i \in 1 .. Len(keys) : keys[i] = key => ~Before(key, keys[i])
  BY BeforeOrders
<1> QED
  BY <1>1, <1>2, <1>3, <1>4 DEF Found

-----------------------------------------------------------------------------
(* What a catalog holds. *)

\* What the assumption says of one catalog.
CatalogOK(t) == (\A n \in NodesOf(t) : NodeOK(t, n)) /\ TreeOK(t) /\ ChainOK(t) /\ FoldersOK(t)

\* Keys of a node.
LEMMA KeysOfNode ==
    ASSUME NEW t, NEW n \in NodesOf(t), NodeOK(t, n)
    PROVE  /\ t.node[n].keys \in Seq(Key) /\ Len(t.node[n].keys) \in Nat \ {0}
           /\ Ascend(t.node[n].keys)
           /\ t.node[n].leaf \in BOOLEAN
           /\ \A i \in 1 .. Len(t.node[n].keys) : t.node[n].keys[i] \in Key
BY DEF NodeOK, Ascend

\* A record is where it says, and has a key and data.
LEMMA RecordIs ==
    ASSUME NEW t, CatalogOK(t), NEW r \in RecordsOf(t)
    PROVE  /\ r.node \in LeavesOf(t) /\ r.index \in 1 .. Len(t.node[r.node].keys)
           /\ r = RecordOf(t, r.node, r.index)
           /\ r.key = t.node[r.node].keys[r.index] /\ r.data = t.node[r.node].vals[r.index]
           /\ r.key \in Key /\ r.data \in Data
<1>0. PICK n \in LeavesOf(t) : r \in {RecordOf(t, n, i) : i \in 1 .. Len(t.node[n].keys)}
  BY DEF RecordsOf
<1>1. PICK i \in 1 .. Len(t.node[n].keys) : r = RecordOf(t, n, i)
  BY <1>0
<1>2. r.node = n /\ r.index = i /\ r.key = t.node[n].keys[i] /\ r.data = t.node[n].vals[i]
  BY <1>1 DEF RecordOf
<1>3. NodeOK(t, n) /\ n \in NodesOf(t) /\ t.node[n].leaf
  BY DEF CatalogOK, LeavesOf
<1>4. /\ t.node[n].keys \in Seq(Key) /\ t.node[n].vals \in Seq(Data)
      /\ Len(t.node[n].vals) = Len(t.node[n].keys)
  BY <1>3 DEF NodeOK
<1> QED
  BY <1>1, <1>2, <1>4

\* Every place in a leaf has its record.
LEMMA IsRecord ==
    ASSUME NEW t, NEW n \in LeavesOf(t), NEW i \in 1 .. Len(t.node[n].keys)
    PROVE  /\ RecordOf(t, n, i) \in RecordsOf(t)
           /\ RecordOf(t, n, i).key = t.node[n].keys[i]
           /\ RecordOf(t, n, i).data = t.node[n].vals[i]
           /\ RecordOf(t, n, i).node = n /\ RecordOf(t, n, i).index = i
BY DEF RecordsOf, RecordOf

\* In ascending keys the order of the places is that of the keys.
LEMMA AscendingIs ==
    ASSUME NEW keys, Ascend(keys), Len(keys) \in Nat,
           \A i \in 1 .. Len(keys) : keys[i] \in Key,
           NEW i \in 1 .. Len(keys), NEW j \in 1 .. Len(keys)
    PROVE  /\ i < j <=> Before(keys[i], keys[j])
           /\ keys[i] = keys[j] => i = j
<1>1. i < j => Before(keys[i], keys[j])
  BY DEF Ascend
<1>2. j < i => Before(keys[j], keys[i])
  BY DEF Ascend
<1>3. keys[i] \in Key /\ keys[j] \in Key
  OBVIOUS
<1>4. /\ ~Before(keys[i], keys[i])
      /\ Before(keys[i], keys[j]) /\ Before(keys[j], keys[i]) => Before(keys[i], keys[i])
  BY <1>3, BeforeOrders
<1> QED
  BY <1>1, <1>2, <1>4

\* What the leaf chain says of one leaf.
LEMMA FollowsLeaf ==
    ASSUME NEW t, CatalogOK(t), NEW n \in LeavesOf(t)
    PROVE  /\ t.node[n].next # 0 => Before(t.node[n].keys[Len(t.node[n].keys)],
                                          t.node[t.node[n].next].keys[1])
           /\ \A r \in RecordsOf(t) :
                 \/ r.node = n
                 \/ Before(r.key, t.node[n].keys[1])
                 \/ t.node[n].next # 0 /\ ~Before(r.key, t.node[t.node[n].next].keys[1])
<1>1. ChainOK(t)
  BY DEF CatalogOK
<1> QED
  BY <1>1, Zenon DEF ChainOK

\* Keys are unique.
LEMMA KeysUnique ==
    ASSUME NEW t, CatalogOK(t), NEW r \in RecordsOf(t), NEW s \in RecordsOf(t), r.key = s.key
    PROVE  r = s
<1> DEFINE n == r.node
           keys == t.node[n].keys
<1>1. /\ n \in LeavesOf(t) /\ n \in NodesOf(t) /\ NodeOK(t, n)
      /\ r.index \in 1 .. Len(keys) /\ r.key = keys[r.index] /\ r = RecordOf(t, n, r.index)
      /\ s.index \in 1 .. Len(t.node[s.node].keys) /\ s = RecordOf(t, s.node, s.index)
      /\ s.key = t.node[s.node].keys[s.index]
  BY RecordIs DEF CatalogOK, LeavesOf
<1>2. Len(keys) \in Nat /\ Ascend(keys) /\ \A i \in 1 .. Len(keys) : keys[i] \in Key
  BY <1>1, KeysOfNode
<1>3. ~Before(s.key, keys[1])
  <2>1. r.index = 1 \/ Before(keys[1], keys[r.index])
    BY <1>1, <1>2 DEF Ascend
  <2>2. 1 \in 1 .. Len(keys)
    BY <1>1, <1>2
  <2> QED
    BY <1>1, <1>2, <2>1, <2>2, BeforeOrders
<1>4. ~(t.node[n].next # 0 /\ ~Before(s.key, t.node[t.node[n].next].keys[1]))
  <2> SUFFICES ASSUME t.node[n].next # 0 PROVE Before(s.key, t.node[t.node[n].next].keys[1])
    OBVIOUS
  <2> DEFINE m == t.node[n].next
             last == keys[Len(keys)]
  <2>1. m \in LeavesOf(t)
    BY <1>1 DEF NodeOK, LeavesOf
  <2>2. NodeOK(t, m) /\ m \in NodesOf(t)
    BY <2>1 DEF CatalogOK, LeavesOf
  <2>3. t.node[m].keys[1] \in Key
    BY <2>2, KeysOfNode
  <2>4. Before(last, t.node[m].keys[1])
    BY <1>1, FollowsLeaf
  <2>5. Len(keys) \in 1 .. Len(keys) /\ last \in Key
    BY <1>1, <1>2
  <2>6. r.index = Len(keys) \/ Before(keys[r.index], last)
    <3> HIDE DEF keys
    <3>1. r.index < Len(keys) <=> Before(keys[r.index], keys[Len(keys)])
      BY <1>1, <1>2, <2>5, AscendingIs
    <3> QED
      BY <1>1, <1>2, <3>1
  <2>7. keys[r.index] \in Key /\ s.key = keys[r.index]
    BY <1>1, <1>2
  <2> HIDE DEF m, last
  <2>8. Before(s.key, t.node[m].keys[1])
    BY <2>3, <2>4, <2>5, <2>6, <2>7, BeforeOrders DEF last
  <2> QED
    BY <2>8 DEF m
<1>5. s.node = n
  BY <1>1, <1>3, <1>4, FollowsLeaf
<1>6. r.index = s.index
  <2>1. keys[r.index] = keys[s.index] /\ s.index \in 1 .. Len(keys)
    BY <1>1, <1>5
  <2> HIDE DEF keys
  <2> QED
    BY <1>1, <1>2, <2>1, AscendingIs
<1> QED
  BY <1>1, <1>5, <1>6

\* The record of a name in a folder is what is entered.
LEMMA EntersRecord ==
    ASSUME NEW t, CatalogOK(t), NEW d \in Data, d.type = "folder", NEW r \in RecordsOf(t),
           r.key.parent = d.id
    PROVE  Entered(t, d, r.key.name) = r.data
<1>1. r.key = [parent |-> d.id, name |-> r.key.name]
  BY RecordIs DEF Key
<1>2. Named(t, d.id, r.key.name) = {r}
  BY <1>1, KeysUnique DEF Named
<1>3. d # None
  BY CatalogAssumption
<1> QED
  BY <1>2, <1>3 DEF Entered

\* Without one nothing is.
LEMMA EntersNothing ==
    ASSUME NEW t, NEW d, NEW name,
           \A r \in RecordsOf(t) : r.key # [parent |-> d.id, name |-> name]
    PROVE  Entered(t, d, name) = None
BY DEF Entered, Named

\* Nothing is in a file.
LEMMA EntersNoFile ==
    ASSUME NEW t, NEW d, NEW name, d = None \/ d.type # "folder"
    PROVE  Entered(t, d, name) = None
BY DEF Entered

\* The path is followed name by name.
LEMMA ResolvingUnfolds ==
    ASSUME NEW t, NEW p, Len(p) \in Nat
    PROVE  /\ Resolving(t, p)[0] = RecordOf(t, t.leaf_head, 1).data
           /\ \A k \in 1 .. Len(p) : Resolving(t, p)[k] = Entered(t, Resolving(t, p)[k - 1], p[k])
<1> DEFINE Root == RecordOf(t, t.leaf_head, 1).data
           Part(f, k) == IF k = 0 THEN Root ELSE Entered(t, f[k - 1], p[k])
           P(n) == \E f : \A k \in 0 .. n : f[k] = Part(f, k)
<1> HIDE DEF Root
<1>1. P(0)
  <2>1. \A k \in 0 .. 0 : [i \in 0 .. 0 |-> Root][k] = Part([i \in 0 .. 0 |-> Root], k)
    OBVIOUS
  <2> QED
    BY <2>1
<1>2. ASSUME NEW n \in Nat, P(n) PROVE P(n + 1)
  <2>1. PICK f : \A k \in 0 .. n : f[k] = Part(f, k)
    BY <1>2
  <2> DEFINE g == [k \in 0 .. n + 1 |-> IF k <= n THEN f[k] ELSE Entered(t, f[n], p[n + 1])]
  <2>2. ASSUME NEW k \in 0 .. n + 1 PROVE g[k] = Part(g, k)
    <3>1. CASE k = 0
      BY <2>1, <3>1
    <3>2. CASE k \in 1 .. n
      BY <2>1, <3>2
    <3>3. CASE k = n + 1
      BY <3>3
    <3> QED
      BY <3>1, <3>2, <3>3
  <2> HIDE DEF g, Part
  <2> QED
    BY <2>2
<1> HIDE DEF P
<1>3. P(Len(p))
  <2> SUFFICES ASSUME ~P(Len(p)) PROVE FALSE
    OBVIOUS
  <2>1. PICK m \in {i \in Nat : ~P(i)} : \A i \in {j \in Nat : ~P(j)} : m <= i
    BY Least
  <2>2. m # 0 /\ m - 1 \in Nat
    BY <1>1, <2>1
  <2>3. P(m - 1)
    BY <2>1, <2>2
  <2>4. P(m)
    BY <1>2, <2>2, <2>3
  <2> QED
    BY <2>1, <2>4
<1>4. PICK f : \A k \in 0 .. Len(p) : f[k] = Part(f, k)
  BY <1>3 DEF P
<1> DEFINE g == [k \in 0 .. Len(p) |-> f[k]]
<1>5. g = [k \in 0 .. Len(p) |-> Part(g, k)]
  BY <1>4
<1> HIDE DEF g
<1>6. Resolving(t, p) = CHOOSE h : h = [k \in 0 .. Len(p) |-> Part(h, k)]
  BY DEF Resolving, Root
<1> DEFINE h == Resolving(t, p)
<1>7. h = [k \in 0 .. Len(p) |-> Part(h, k)]
  <2> HIDE DEF Part
  <2> QED
    BY <1>5, <1>6
<1> HIDE DEF h
<1>8. \A k \in 0 .. Len(p) : h[k] = Part(h, k)
  BY <1>7
<1>9. \A k \in 0 .. Len(p) : Resolving(t, p)[k] = Part(Resolving(t, p), k)
  BY <1>8 DEF h
<1> QED
  BY <1>9 DEF Root

\* Behind a name that is not there nothing is.
LEMMA NothingBehind ==
    ASSUME NEW t, NEW p, Len(p) \in Nat, NEW k \in 0 .. Len(p), Resolving(t, p)[k] = None
    PROVE  Resolved(t, p) = None
<1> DEFINE at == Resolving(t, p)
           S == {i \in k .. Len(p) : at[i] # None}
<1>1. \A i \in 1 .. Len(p) : at[i - 1] = None => at[i] = None
  BY ResolvingUnfolds, EntersNoFile
<1> HIDE DEF at
<1>2. S = {}
  <2> SUFFICES ASSUME S # {} PROVE FALSE
    OBVIOUS
  <2>1. S \in SUBSET Nat
    OBVIOUS
  <2>2. PICK m \in S : \A i \in S : m <= i
    BY <2>1, Least
  <2>3. m # k /\ m \in k .. Len(p)
    BY <2>2 DEF at
  <2>4. m - 1 \in k .. Len(p) /\ m \in 1 .. Len(p)
    BY <2>3
  <2>5. m - 1 \notin S
    BY <2>2, <2>3
  <2> QED
    BY <1>1, <2>2, <2>4, <2>5
<1> QED
  BY <1>2 DEF Resolved, at

-----------------------------------------------------------------------------
(* Nodes. *)

\* What a caller gets: nothing and a failed read, or a buffer that holds the
\* node, or torn.
LEMMA LookupGets ==
    ASSUME CacheInv, NEW n \in Nodes, NodeByIndex(n)
    PROVE  /\ CacheInv' /\ (failed => failed')
           /\ got' = None => failed'
           /\ got' # None => buffers'[got'] = n \/ buffers'[got'] = Torn
<1>1. CacheInv'
  BY LookupStep
<1>2. failed => failed'
  BY DEF NodeByIndex, FindCurrent, FindOther, Load, LoadFails
<1>3. got' = None => failed'
  <2>1. None \notin Slots
    BY CacheAssumption DEF Slots
  <2>2. CASE FindCurrent(n)
    BY <2>1, <2>2 DEF FindCurrent, CacheInv, CacheTypeOK
  <2>3. CASE FindOther(n)
    <3>1. Steps(n) \in 1 .. Size - 1
      BY <2>3, SearchEnds, CacheAssumption DEF FindOther
    <3>2. Position(Steps(n)) \in Slots
      BY <3>1, PositionIsOther DEF CacheInv, CacheTypeOK
    <3> QED
      BY <2>1, <2>3, <3>2 DEF FindOther
  <2>4. CASE Load(n)
    BY <2>1, <2>4, VictimIsOther DEF Load, CacheInv
  <2>5. CASE LoadFails(n)
    BY <2>5 DEF LoadFails
  <2> QED
    BY <2>2, <2>3, <2>4, <2>5 DEF NodeByIndex
<1>4. asked' = n
  BY DEF NodeByIndex
<1>5. got' # None => buffers'[got'] = n \/ buffers'[got'] = Torn
  <2> SUFFICES ASSUME got' # None PROVE buffers'[got'] = n \/ buffers'[got'] = Torn
    OBVIOUS
  <2>1. got' \in Slots /\ entries'[got'].index = n /\ n # 0
    BY <1>1, <1>4 DEF CacheInv, CacheTypeOK, GotCurrent, Holds
  <2> QED
    BY <1>1, <2>1 DEF CacheInv, EntriesTrue
<1> QED
  BY <1>1, <1>2, <1>3, <1>5

-----------------------------------------------------------------------------
(* The invariant. *)

\* The part of path p that is left, rest, and what the part before it leads to.
Reached(t, p, rest, d) ==
    \E k \in 0 .. Len(p) :
        /\ Len(rest) = Len(p) - k
        /\ \A i \in 1 .. Len(rest) : rest[i] = p[k + i]
        /\ Resolving(t, p)[k] = d

\* The name of key w is the next of path p, in the folder of its parent.
Seeks(t, p, rest, w) ==
    \E k \in 1 .. Len(p) :
        /\ Len(rest) = Len(p) - k
        /\ \A i \in 1 .. Len(rest) : rest[i] = p[k + i]
        /\ w.name = p[k]
        /\ LET d == Resolving(t, p)[k - 1]
           IN  d \in Data /\ d.type = "folder" /\ w.parent = d.id

\* The path leads to the folder of this id.
LeadsToFolder(t, p, id) ==
    LET d == Resolved(t, p) IN d \in Data /\ d.type = "folder" /\ d.id = id

\* A record of this key is in a leaf below node n.
Below(t, n, w) == \A r \in RecordsOf(t) : r.key = w => r.node \in Under(t)[n]

Thread == [parent |-> RootFolder, name |-> 0]

TypesOK ==
    /\ CacheInv /\ tree \in Trees /\ Addressable(tree)
    /\ pc \in {"idle", "component", "search", "list", "next", "null", "torn"}
    /\ question.op \in {"file", "list", "name"} /\ question.path \in Seq(Nat \ {0})
    /\ path \in Seq(Nat \ {0})

ComponentInv ==
    /\ rec \in RecordsOf(tree) /\ listing = None
    /\ IF question.op = "name" THEN rec.key = Thread /\ path = <<>>
       ELSE rec.key.name # 0 /\ Reached(tree, question.path, path, rec.data)

SearchInv ==
    /\ got # None /\ buffers[got] \in NodesOf(tree)
    /\ want \in Key /\ Below(tree, buffers[got], want)
    /\ listing \in {None, <<>>}
    /\ IF listing = <<>>
       THEN question.op = "list" /\ want.name = 0 /\ LeadsToFolder(tree, question.path, want.parent)
       ELSE IF question.op = "name" THEN want = Thread /\ path = <<>>
       ELSE Seeks(tree, question.path, path, want)

\* The names of folder id before a record's, and up to it.
NamesBefore(t, id, key) ==
    {m \in Nat \ {0} : m < key.name /\ \E s \in RecordsOf(t) : s.key = [parent |-> id, name |-> m]}
NamesUpTo(t, id, key) ==
    {m \in Nat \ {0} : m <= key.name /\ \E s \in RecordsOf(t) : s.key = [parent |-> id, name |-> m]}

ListInv ==
    /\ question.op = "list" /\ rec \in RecordsOf(tree)
    /\ LeadsToFolder(tree, question.path, rec.key.parent)
    /\ listing \in Seq(Nat)
    /\ ListsAll(listing, NamesBefore(tree, rec.key.parent, rec.key))

NextInv ==
    /\ question.op = "list" /\ rec \in RecordsOf(tree)
    /\ got # None /\ buffers[got] = rec.node
    /\ LeadsToFolder(tree, question.path, rec.key.parent)
    /\ listing \in Seq(Nat)
    /\ ListsAll(listing, NamesUpTo(tree, rec.key.parent, rec.key))

CatInv ==
    /\ TypesOK
    /\ pc = "component" => ComponentInv
    /\ pc = "search" => SearchInv
    /\ pc = "list" => ListInv
    /\ pc = "next" => NextInv
    /\ AnswersRight /\ AnswersSound

-----------------------------------------------------------------------------
(* Facts of a state. *)

\* The tree at hand.
LEMMA TreeIs ==
    ASSUME tree \in Trees, Addressable(tree)
    PROVE  /\ CatalogOK(tree)
           /\ tree.root \in Nodes /\ tree.root \in NodesOf(tree)
           /\ tree.leaf_head \in Nodes /\ tree.leaf_head \in LeavesOf(tree)
           /\ NodesOf(tree) \subseteq Nodes /\ LeavesOf(tree) \subseteq NodesOf(tree)
           /\ \A n \in NodesOf(tree) : UInt16(n) = n /\ n # 0
<1>1. CatalogOK(tree)
  BY CatalogAssumption DEF CatalogOK
<1>2. \A n \in NodesOf(tree) : UInt16(n) = n /\ n \in Nodes /\ n # 0
  <2> SUFFICES ASSUME NEW n \in NodesOf(tree) PROVE UInt16(n) = n /\ n \in Nodes /\ n # 0
    OBVIOUS
  <2>1. n \in Nat /\ UInt16(n) \in Nodes /\ n < NodeNumbers /\ NodeNumbers \in Nat \ {0}
    BY <1>1, CatalogAssumption DEF CatalogOK, NodeOK, Addressable
  <2>2. UInt16(n) = n
    BY <2>1 DEF UInt16
  <2> QED
    BY <2>1, <2>2, CacheAssumption
<1>4. NodesOf(tree) \subseteq Nodes /\ LeavesOf(tree) \subseteq NodesOf(tree)
  BY <1>2 DEF LeavesOf
<1>3. tree.root \in NodesOf(tree) /\ tree.leaf_head \in LeavesOf(tree)
  BY <1>1 DEF CatalogOK, TreeOK, FoldersOK
<1> QED
  BY <1>1, <1>2, <1>3, <1>4

\* Every folder has its thread.
LEMMA HasThread ==
    ASSUME NEW t, CatalogOK(t), NEW r \in RecordsOf(t), r.data.type = "folder"
    PROVE  \E s \in RecordsOf(t) : /\ s.key = [parent |-> r.data.id, name |-> 0]
                                   /\ s.data.type = "folder_thread"
BY DEF CatalogOK, FoldersOK

\* The root folder's record is the first, and its thread says so.
LEMMA RootIs ==
    ASSUME NEW t, CatalogOK(t)
    PROVE  /\ RecordOf(t, t.leaf_head, 1) \in RecordsOf(t)
           /\ RecordOf(t, t.leaf_head, 1).key.name # 0
           /\ RecordOf(t, t.leaf_head, 1).data.type = "folder"
           /\ \E s \in RecordsOf(t) : s.key = Thread
           /\ \A s \in RecordsOf(t) : s.key = Thread => s.data.type = "folder_thread"
<1> DEFINE root == RecordOf(t, t.leaf_head, 1)
<1>1. t.leaf_head \in LeavesOf(t) /\ root.data = [type |-> "folder", id |-> RootFolder]
  BY DEF CatalogOK, FoldersOK
<1>2. NodeOK(t, t.leaf_head) /\ t.leaf_head \in NodesOf(t)
  BY <1>1 DEF CatalogOK, LeavesOf
<1>3. 1 \in 1 .. Len(t.node[t.leaf_head].keys)
  BY <1>2, KeysOfNode
<1>4. root \in RecordsOf(t)
  BY <1>1, <1>3, IsRecord
<1>5. root.data.type = "folder" /\ root.data.id = RootFolder
  BY <1>1
<1>6. root.key.name # 0
  BY <1>4, <1>5 DEF CatalogOK, FoldersOK
<1>7. PICK s \in RecordsOf(t) : s.key = Thread /\ s.data.type = "folder_thread"
  BY <1>4, <1>5, HasThread DEF Thread
<1> QED
  BY <1>4, <1>5, <1>6, <1>7, KeysUnique

\* The folder a path leads to is a record's, and has a thread.
LEMMA FolderAt ==
    ASSUME NEW t, CatalogOK(t), NEW p \in Seq(Nat \ {0}), NEW k \in 0 .. Len(p),
           NEW d, d = Resolving(t, p)[k], d # None
    PROVE  \E r \in RecordsOf(t) : r.data = d
<1>1. Len(p) \in Nat
  OBVIOUS
<1>2. CASE k = 0
  BY <1>1, <1>2, ResolvingUnfolds, RootIs
<1>3. CASE k # 0
  <2>1. k \in 1 .. Len(p)
    BY <1>3
  <2>2. d = Entered(t, Resolving(t, p)[k - 1], p[k])
    BY <1>1, <2>1, ResolvingUnfolds
  <2> DEFINE e == Resolving(t, p)[k - 1]
  <2>3. Named(t, e.id, p[k]) # {} /\ d = (CHOOSE r \in Named(t, e.id, p[k]) : TRUE).data
    BY <2>2 DEF Entered
  <2> QED
    BY <2>3 DEF Named
<1> QED
  BY <1>2, <1>3

-----------------------------------------------------------------------------
(* Answers. *)

\* A right answer that is one is part of the truth.
LEMMA RightIsPart ==
    ASSUME NEW a, IsAnswer(a), a.ok, question.op \in {"file", "list", "name"}
    PROVE  IsPart(a)
<1>1. Failed.ok = FALSE
  BY DEF Failed
<1> QED
  BY <1>1 DEF IsAnswer, IsPart, ListsAll

\* A call that returns nothing because a read failed.
LEMMA FailedReturn ==
    ASSUME failed', Return(Failed)
    PROVE  AnswersRight' /\ AnswersSound'
<1>1. answer'.ok = FALSE
  BY DEF Return, Failed
<1> QED
  BY <1>1 DEF AnswersRight, AnswersSound

\* A call that returns the right answer.
LEMMA RightReturn ==
    ASSUME NEW a, IsAnswer(a), Return(a), UNCHANGED <<tree, question>>,
           question.op \in {"file", "list", "name"}
    PROVE  AnswersRight' /\ AnswersSound'
<1>1. answer' = a
  BY DEF Return
<1>2. IsAnswer(a)' /\ (IsPart(a)' <=> IsPart(a))
  BY DEF IsAnswer, IsPart
<1>3. a.ok => IsPart(a)
  BY RightIsPart
<1> QED
  BY <1>1, <1>2, <1>3 DEF AnswersRight, AnswersSound

\* A step that does not return.
LEMMA NoReturn ==
    ASSUME pc' # "idle"
    PROVE  AnswersRight' /\ AnswersSound'
BY DEF AnswersRight, AnswersSound, Answered

\* The path leads to what the last component is.
LEMMA ReachedEnd ==
    ASSUME NEW t, NEW p \in Seq(Nat \ {0}), NEW d, Reached(t, p, <<>>, d)
    PROVE  Resolved(t, p) = d
<1>1. PICK k \in 0 .. Len(p) : Len(<<>>) = Len(p) - k /\ Resolving(t, p)[k] = d
  BY DEF Reached
<1>2. k = Len(p)
  BY <1>1
<1> QED
  BY <1>1, <1>2 DEF Resolved

\* What a search that finds no record says of the path.
LEMMA SeeksNothing ==
    ASSUME NEW t, NEW p \in Seq(Nat \ {0}), NEW rest, NEW w \in Key, Seeks(t, p, rest, w),
           \A r \in RecordsOf(t) : r.key # w
    PROVE  Resolved(t, p) = None
<1>1. PICK k \in 1 .. Len(p) : w.name = p[k] /\ w.parent = Resolving(t, p)[k - 1].id
  BY DEF Seeks
<1> DEFINE d == Resolving(t, p)[k - 1]
<1>2. w = [parent |-> d.id, name |-> p[k]]
  BY <1>1 DEF Key
<1>3. Entered(t, d, p[k]) = None
  BY <1>2, EntersNothing
<1>4. Resolving(t, p)[k] = None
  BY <1>3, ResolvingUnfolds
<1> QED
  BY <1>4, NothingBehind

-----------------------------------------------------------------------------
(* Lookups of the catalog. *)

\* After a lookup of a tree's node: a read failed, or the node is at hand, or a
\* torn one is and nothing follows.
LEMMA CatalogLookup ==
    ASSUME CacheInv, tree \in Trees, Addressable(tree), NEW n \in NodesOf(tree),
           NodeByIndex(UInt16(n))
    PROVE  /\ CacheInv' /\ (failed => failed')
           /\ Missed => failed'
           /\ ~Missed => \A step : \/ /\ Use(step) = step /\ got' # None /\ buffers'[got'] = n
                                      /\ n \in LeavesOf(tree) => UseLeaf(step) = step
                                   \/ Use(step) = "torn" /\ UseLeaf(step) = "torn"
<1>1. n \in Nodes /\ NodeByIndex(n) /\ NodesOf(tree) \subseteq Nodes
  BY TreeIs
<1>2. Torn \notin NodesOf(tree)
  BY <1>1, CacheAssumption
<1>3. /\ CacheInv' /\ (failed => failed') /\ (got' = None => failed')
      /\ got' # None => buffers'[got'] = n \/ buffers'[got'] = Torn
  BY <1>1, LookupGets
<1>4. ASSUME NEW step, got' # None, buffers'[got'] = n
      PROVE  Use(step) = step /\ (n \in LeavesOf(tree) => UseLeaf(step) = step)
  BY <1>4 DEF Use, UseLeaf, NodesOf, LeavesOf
<1>5. ASSUME NEW step, buffers'[got'] = Torn
      PROVE  Use(step) = "torn" /\ UseLeaf(step) = "torn"
  BY <1>2, <1>5 DEF Use, UseLeaf, NodesOf
<1> QED
  BY <1>3, <1>4, <1>5 DEF Missed

\* No names listed is not the same as no listing.
LEMMA EmptyIsNot ==
    /\ <<>> \in Seq(Nat \ {0}) /\ <<>> \in Seq(Nat)
    /\ None # <<>> /\ None \notin Seq(Nat)
<1>1. <<>> \in Seq(Nat \ {0}) /\ <<>> \in Seq(Nat)
  BY EmptySeq
<1> QED
  BY <1>1, CatalogAssumption

\* All leaves are below the root.
LEMMA BelowRoot ==
    ASSUME NEW t, CatalogOK(t), NEW w
    PROVE  Below(t, t.root, w)
<1>1. Under(t)[t.root] = LeavesOf(t)
  BY DEF CatalogOK, TreeOK
<1> QED
  BY <1>1, RecordIs DEF Below

\* The child looked at next holds the key, if the node does.
LEMMA BelowChild ==
    ASSUME NEW t, CatalogOK(t), NEW n \in NodesOf(t), ~t.node[n].leaf, NEW w \in Key,
           Below(t, n, w)
    PROVE  LET c == Child(t.node[n].keys, w)
           IN  /\ c \in 0 .. Len(t.node[n].keys)
               /\ c > 0 => /\ t.node[n].vals[c] \in NodesOf(t)
                           /\ Below(t, t.node[n].vals[c], w)
               /\ c = 0 => \A r \in RecordsOf(t) : r.key # w
<1> DEFINE keys == t.node[n].keys
           vals == t.node[n].vals
           c == Child(keys, w)
<1>1. NodeOK(t, n) /\ n \notin LeavesOf(t)
  BY DEF CatalogOK, LeavesOf
<1>2. keys \in Seq(Key) /\ Len(keys) \in Nat \ {0} /\ Ascend(keys)
      /\ \A i \in 1 .. Len(keys) : keys[i] \in Key
  BY <1>1, KeysOfNode
<1>3. vals \in Seq(NodesOf(t)) /\ Len(vals) = Len(keys)
  BY <1>1 DEF NodeOK
<1>4. Under(t)[n] = UNION {Under(t)[vals[i]] : i \in 1 .. Len(keys)}
  BY <1>1 DEF CatalogOK, TreeOK
<1>5. \A r \in RecordsOf(t), i \in 1 .. Len(keys) :
         r.node \in Under(t)[vals[i]] =>
            ~Before(r.key, keys[i]) /\ (i < Len(keys) => Before(r.key, keys[i + 1]))
  BY <1>1 DEF CatalogOK, TreeOK
<1> HIDE DEF keys, vals
<1>6. c \in 0 .. Len(keys) /\ \A i \in 1 .. Len(keys) : i <= c <=> ~Before(w, keys[i])
  BY <1>2, ChildIs
<1> HIDE DEF c
<1>7. ASSUME NEW r \in RecordsOf(t), r.key = w
      PROVE  c > 0 /\ r.node \in Under(t)[vals[c]]
  <2>1. PICK i \in 1 .. Len(keys) : r.node \in Under(t)[vals[i]]
    BY <1>4, <1>7 DEF Below
  <2>2. ~Before(w, keys[i]) /\ (i < Len(keys) => Before(w, keys[i + 1]))
    BY <1>5, <1>7, <2>1
  <2>3. i <= c
    BY <1>6, <2>2
  <2>4. i < Len(keys) => ~(i + 1 <= c)
    BY <1>2, <1>6, <2>2
  <2>5. i = c
    BY <1>2, <1>6, <2>3, <2>4
  <2> QED
    BY <2>1, <2>5
<1>8. c > 0 => c \in 1 .. Len(keys) /\ vals[c] \in NodesOf(t)
  BY <1>2, <1>3, <1>6
<1>9. Below(t, vals[c], w) \/ ~(c > 0)
  BY <1>7 DEF Below
<1>10. c = 0 => \A r \in RecordsOf(t) : r.key # w
  BY <1>7
<1> QED
  BY <1>6, <1>8, <1>9, <1>10 DEF c, keys, vals

\* The record found in a leaf is the key's, and none found is none there.
LEMMA FoundInLeaf ==
    ASSUME NEW t, CatalogOK(t), NEW n \in LeavesOf(t), NEW w \in Key, Below(t, n, w)
    PROVE  LET p == Probe(t.node[n].keys, w)
           IN  /\ p.comp = 0 => /\ RecordOf(t, n, p.mid) \in RecordsOf(t)
                                /\ RecordOf(t, n, p.mid).key = w
               /\ p.comp # 0 => \A r \in RecordsOf(t) : r.key # w
<1> DEFINE keys == t.node[n].keys
           p == Probe(keys, w)
<1>1. NodeOK(t, n) /\ n \in NodesOf(t) /\ t.node[n].leaf
  BY DEF CatalogOK, LeavesOf
<1>2. keys \in Seq(Key) /\ Len(keys) \in Nat \ {0} /\ Ascend(keys)
  BY <1>1, KeysOfNode
<1>3. Found(keys, w, p)
  BY <1>2, ProbeFinds
<1>4. Under(t)[n] = {n}
  BY <1>1 DEF CatalogOK, TreeOK
<1> HIDE DEF p
<1>5. p.comp = 0 => RecordOf(t, n, p.mid) \in RecordsOf(t) /\ RecordOf(t, n, p.mid).key = w
  BY <1>3, IsRecord DEF Found
<1>6. ASSUME NEW r \in RecordsOf(t), r.key = w
      PROVE  p.comp = 0
  <2>1. r.node = n
    BY <1>4, <1>6 DEF Below
  <2>2. r.index \in 1 .. Len(keys) /\ keys[r.index] = w
    BY <1>6, <2>1, RecordIs
  <2> HIDE DEF keys
  <2>3. ~Before(w, w)
    BY BeforeOrders
  <2> QED
    BY <1>2, <1>3, <2>2, <2>3 DEF Found
<1> QED
  BY <1>5, <1>6 DEF p, keys

-----------------------------------------------------------------------------
(* The steps of resolving a path. *)

\* A call starts: what it was asked before does not matter.
LEMMA AskStep ==
    ASSUME CatInv, Ask PROVE CatInv'
<1>1. PICK op \in {"file", "list"}, p \in Paths :
         /\ pc = "idle" /\ NodeByIndex(UInt16(tree.leaf_head))
         /\ question' = [op |-> op, path |-> p] /\ path' = p /\ listing' = None
         /\ \/ Missed /\ Return(Failed)
            \/ /\ ~Missed /\ pc' = UseLeaf("component") /\ answer' = None
               /\ rec' = IF pc' = "torn" THEN NoRecord ELSE Record(buffers'[got'], 1)
         /\ tree' = tree
  BY DEF Ask
<1>2. /\ tree \in Trees /\ Addressable(tree) /\ CacheInv /\ p \in Seq(Nat \ {0})
      /\ question'.op = op /\ question'.path = p /\ question'.op # "name"
  BY <1>1, CatalogAssumption DEF CatInv, TypesOK
<1>3. CatalogOK(tree) /\ tree.leaf_head \in NodesOf(tree) /\ tree.leaf_head \in LeavesOf(tree)
  BY <1>2, TreeIs
<1>4. /\ CacheInv' /\ (Missed => failed')
      /\ ~Missed => \/ UseLeaf("component") = "component" /\ buffers'[got'] = tree.leaf_head
                    \/ UseLeaf("component") = "torn"
  BY <1>1, <1>2, <1>3, CatalogLookup
<1>5. CASE Missed /\ Return(Failed)
  <2>1. AnswersRight' /\ AnswersSound'
    BY <1>4, <1>5, FailedReturn
  <2>2. TypesOK'
    BY <1>1, <1>2, <1>4, <1>5 DEF TypesOK, Return
  <2> QED
    BY <1>5, <2>1, <2>2 DEF CatInv, Return
<1>6. CASE ~Missed /\ pc' = "torn"
  <2>1. TypesOK'
    BY <1>1, <1>2, <1>4, <1>6 DEF TypesOK
  <2> QED
    BY <1>6, <2>1, NoReturn DEF CatInv
<1>7. CASE ~Missed /\ pc' = "component"
  <2>1. rec' = RecordOf(tree, tree.leaf_head, 1)
    BY <1>1, <1>4, <1>7 DEF Record, Return
  <2>2. rec' \in RecordsOf(tree) /\ rec'.key.name # 0
    BY <1>3, <2>1, RootIs
  <2>3. Reached(tree, p, p, rec'.data)
    <3>1. Len(p) \in Nat
      BY <1>2
    <3>2. Resolving(tree, p)[0] = rec'.data
      BY <2>1, <3>1, ResolvingUnfolds
    <3> QED
      BY <3>1, <3>2 DEF Reached
  <2>4. TypesOK'
    BY <1>1, <1>2, <1>4, <1>7 DEF TypesOK
  <2>5. ComponentInv'
    BY <1>1, <1>2, <2>2, <2>3 DEF ComponentInv
  <2> QED
    BY <1>7, <2>4, <2>5, NoReturn DEF CatInv
<1> QED
  BY <1>1, <1>4, <1>5, <1>6, <1>7

\* The volume's name is asked: the thread of the root folder is sought.
LEMMA AskNameStep ==
    ASSUME CatInv, AskName PROVE CatInv'
<1>1. /\ tree \in Trees /\ Addressable(tree) /\ CacheInv /\ tree' = tree
      /\ question'.op = "name" /\ question'.path = <<>> /\ path' = <<>> /\ listing' = None
      /\ want' = Thread
      /\ \/ Missed /\ Return(Failed)
         \/ ~Missed /\ pc' = Use("search") /\ answer' = None
  BY DEF AskName, CatInv, TypesOK, Thread
<1>2. CatalogOK(tree) /\ tree.root \in NodesOf(tree)
  BY <1>1, TreeIs
<1>3. /\ CacheInv' /\ (Missed => failed')
      /\ ~Missed => \/ Use("search") = "search" /\ got' # None /\ buffers'[got'] = tree.root
                    \/ Use("search") = "torn"
  BY <1>1, <1>2, CatalogLookup DEF AskName
<1>4. <<>> \in Seq(Nat \ {0}) /\ None # <<>>
  BY EmptyIsNot
<1>5. CASE Missed /\ Return(Failed)
  <2>1. AnswersRight' /\ AnswersSound'
    BY <1>3, <1>5, FailedReturn
  <2>2. TypesOK'
    BY <1>1, <1>3, <1>4, <1>5 DEF TypesOK, Return
  <2> QED
    BY <1>5, <2>1, <2>2 DEF CatInv, Return
<1>6. CASE ~Missed /\ pc' = "torn"
  <2>1. TypesOK'
    BY <1>1, <1>3, <1>4, <1>6 DEF TypesOK
  <2> QED
    BY <1>6, <2>1, NoReturn DEF CatInv
<1>7. CASE ~Missed /\ pc' = "search"
  <2>1. TypesOK'
    BY <1>1, <1>3, <1>4, <1>7 DEF TypesOK
  <2>2. Thread \in Key
    BY CatalogAssumption DEF Thread, Key, Id, RootFolder
  <2>3. got' # None /\ buffers'[got'] = tree.root
    BY <1>1, <1>3, <1>7 DEF Return
  <2>4. SearchInv'
    BY <1>1, <1>2, <1>4, <2>2, <2>3, BelowRoot DEF SearchInv
  <2> QED
    BY <1>7, <2>1, <2>4, NoReturn DEF CatInv
<1> QED
  BY <1>1, <1>3, <1>5, <1>6, <1>7

\* What is left of a path but its first name.
LEMMA TailIs ==
    ASSUME NEW rest \in Seq(Nat \ {0}), rest # <<>>
    PROVE  /\ Tail(rest) \in Seq(Nat \ {0}) /\ Len(Tail(rest)) = Len(rest) - 1
           /\ Head(rest) = rest[1] /\ Head(rest) \in Nat \ {0} /\ Len(rest) \in Nat \ {0}
           /\ \A i \in 1 .. Len(rest) - 1 : Tail(rest)[i] = rest[i + 1]
<1>1. Len(rest) \in Nat \ {0}
  BY EmptySeq
<1> QED
  BY <1>1, HeadTailProperties

\* The next component is sought in the folder reached.
LEMMA ReachedSeeks ==
    ASSUME NEW t, NEW p \in Seq(Nat \ {0}), NEW rest \in Seq(Nat \ {0}), rest # <<>>,
           NEW d \in Data, d.type = "folder", Reached(t, p, rest, d)
    PROVE  Seeks(t, p, Tail(rest), [parent |-> d.id, name |-> Head(rest)])
<1>1. PICK k \in 0 .. Len(p) : /\ Len(rest) = Len(p) - k
                               /\ \A i \in 1 .. Len(rest) : rest[i] = p[k + i]
                               /\ Resolving(t, p)[k] = d
  BY DEF Reached
<1>2. /\ Len(Tail(rest)) = Len(rest) - 1 /\ Head(rest) = rest[1] /\ Len(rest) \in Nat \ {0}
      /\ \A i \in 1 .. Len(rest) - 1 : Tail(rest)[i] = rest[i + 1]
  BY TailIs
<1>3. Len(p) \in Nat
  OBVIOUS
<1> DEFINE j == k + 1
           w == [parent |-> d.id, name |-> Head(rest)]
<1>4. j \in 1 .. Len(p) /\ Len(Tail(rest)) = Len(p) - j /\ j - 1 = k
  BY <1>1, <1>2, <1>3
<1>5. w.name = p[j] /\ w.parent = d.id
  BY <1>1, <1>2
<1>6. \A i \in 1 .. Len(Tail(rest)) : Tail(rest)[i] = p[j + i]
  <2> SUFFICES ASSUME NEW i \in 1 .. Len(Tail(rest)) PROVE Tail(rest)[i] = p[j + i]
    OBVIOUS
  <2>1. i + 1 \in 1 .. Len(rest) /\ i \in 1 .. Len(rest) - 1 /\ k + (i + 1) = j + i
    BY <1>1, <1>2
  <2> QED
    BY <1>1, <1>2, <2>1
<1> HIDE DEF j, w
<1> QED
  BY <1>1, <1>4, <1>5, <1>6 DEF Seeks, w

\* A name behind a file is not there.
LEMMA ReachedFile ==
    ASSUME NEW t, NEW p \in Seq(Nat \ {0}), NEW rest \in Seq(Nat \ {0}), rest # <<>>,
           NEW d, d.type # "folder", Reached(t, p, rest, d)
    PROVE  Resolved(t, p) = None
<1>1. PICK k \in 0 .. Len(p) : Len(rest) = Len(p) - k /\ Resolving(t, p)[k] = d
  BY DEF Reached
<1>2. Len(rest) \in Nat \ {0} /\ Len(p) \in Nat
  BY TailIs
<1> DEFINE j == k + 1
<1>3. j \in 1 .. Len(p) /\ j - 1 = k
  BY <1>1, <1>2
<1>4. Resolving(t, p)[j] = Entered(t, d, p[j])
  BY <1>1, <1>2, <1>3, ResolvingUnfolds
<1>5. Resolving(t, p)[j] = None
  BY <1>4, EntersNoFile
<1> QED
  BY <1>2, <1>3, <1>5, NothingBehind

\* The record sought is where the next component leads.
LEMMA SeeksReaches ==
    ASSUME NEW t, CatalogOK(t), NEW p \in Seq(Nat \ {0}), NEW rest,
           NEW r \in RecordsOf(t), Seeks(t, p, rest, r.key)
    PROVE  Reached(t, p, rest, r.data) /\ r.key.name # 0
<1>1. PICK k \in 1 .. Len(p) :
         /\ Len(rest) = Len(p) - k
         /\ \A i \in 1 .. Len(rest) : rest[i] = p[k + i]
         /\ r.key.name = p[k]
         /\ Resolving(t, p)[k - 1] \in Data /\ Resolving(t, p)[k - 1].type = "folder"
         /\ r.key.parent = Resolving(t, p)[k - 1].id
  BY DEF Seeks
<1>2. p[k] \in Nat \ {0} /\ Len(p) \in Nat /\ k \in 0 .. Len(p)
  OBVIOUS
<1>3. Resolving(t, p)[k] = Entered(t, Resolving(t, p)[k - 1], p[k])
  BY <1>2, ResolvingUnfolds
<1>4. Resolving(t, p)[k] = r.data
  BY <1>1, <1>3, EntersRecord
<1> QED
  BY <1>1, <1>2, <1>4 DEF Reached

\* What a record in a path is.
LEMMA ComponentIs ==
    ASSUME CatInv, pc = "component"
    PROVE  /\ CatalogOK(tree) /\ rec \in RecordsOf(tree) /\ rec.data \in Data /\ rec.key \in Key
           /\ listing = None
           /\ question.op = "name" => rec.key = Thread /\ path = <<>>
           /\ question.op # "name" =>
                /\ Reached(tree, question.path, path, rec.data)
                /\ rec.data.type \in {"file", "folder"}
<1>1. CatalogOK(tree)
  BY TreeIs DEF CatInv, TypesOK
<1>2. rec \in RecordsOf(tree)
  BY DEF CatInv, ComponentInv
<1>3. rec.key.name # 0 => rec.data.type \in {"file", "folder"}
  BY <1>1, <1>2 DEF CatalogOK, FoldersOK
<1> QED
  BY <1>1, <1>2, <1>3, RecordIs DEF CatInv, ComponentInv

\* The next component of the path is sought in the folder the last one led to.
LEMMA LookUpComponentStep ==
    ASSUME CatInv, LookUpComponent PROVE CatInv'
<1>1. /\ pc = "component" /\ path # <<>> /\ rec.data.type \in {"folder", "folder_thread"}
      /\ want' = [parent |-> ParentId, name |-> Head(path)] /\ path' = Tail(path)
      /\ tree' = tree /\ question' = question /\ listing' = listing
      /\ \/ Missed /\ Return(Failed)
         \/ ~Missed /\ pc' = Use("search")
      /\ NodeByIndex(UInt16(tree.root))
  BY DEF LookUpComponent, MissedElse
<1>2. /\ tree \in Trees /\ Addressable(tree) /\ CacheInv /\ question.path \in Seq(Nat \ {0})
      /\ path \in Seq(Nat \ {0}) /\ question.op \in {"file", "list", "name"}
  BY DEF CatInv, TypesOK
<1>3. CatalogOK(tree) /\ tree.root \in NodesOf(tree)
  BY <1>2, TreeIs
<1>4. /\ CacheInv' /\ (Missed => failed')
      /\ ~Missed => \/ Use("search") = "search" /\ got' # None /\ buffers'[got'] = tree.root
                    \/ Use("search") = "torn"
  BY <1>1, <1>2, <1>3, CatalogLookup
<1>5. /\ listing = None /\ question.op # "name" /\ rec.data.type = "folder" /\ rec.data \in Data
      /\ Reached(tree, question.path, path, rec.data)
  BY <1>1, ComponentIs
<1>6. path' \in Seq(Nat \ {0}) /\ Head(path) \in Nat \ {0}
  BY <1>1, <1>2, TailIs
<1>7. want' = [parent |-> rec.data.id, name |-> Head(path)]
  BY <1>1, <1>5 DEF ParentId
<1>8. CASE Missed /\ Return(Failed)
  <2>1. AnswersRight' /\ AnswersSound'
    BY <1>4, <1>8, FailedReturn
  <2>2. TypesOK'
    BY <1>1, <1>2, <1>4, <1>6, <1>8 DEF TypesOK, Return
  <2> QED
    BY <1>8, <2>1, <2>2 DEF CatInv, Return
<1>9. CASE ~Missed /\ pc' = "torn"
  <2>1. TypesOK'
    BY <1>1, <1>2, <1>4, <1>6, <1>9 DEF TypesOK
  <2> QED
    BY <1>9, <2>1, NoReturn DEF CatInv
<1>10. CASE ~Missed /\ pc' = "search"
  <2>1. TypesOK'
    BY <1>1, <1>2, <1>4, <1>6, <1>10 DEF TypesOK
  <2>2. want' \in Key
    BY <1>5, <1>6, <1>7 DEF Key, Data
  <2>3. Seeks(tree, question.path, path', want')
    BY <1>1, <1>2, <1>5, <1>7, ReachedSeeks
  <2>4. got' # None /\ buffers'[got'] = tree.root
    BY <1>1, <1>4, <1>10 DEF Return
  <2>5. SearchInv'
    BY <1>1, <1>3, <1>5, <2>2, <2>3, <2>4, EmptyIsNot, BelowRoot DEF SearchInv
  <2> QED
    BY <1>10, <2>1, <2>5, NoReturn DEF CatInv
<1> QED
  BY <1>1, <1>4, <1>8, <1>9, <1>10

\* A component behind a file: the path leads nowhere, and the answer says so.
LEMMA NotAFolderStep ==
    ASSUME CatInv, NotAFolder PROVE CatInv'
<1>1. /\ pc = "component" /\ path # <<>> /\ rec.data.type \notin {"folder", "folder_thread"}
      /\ Return(Failed) /\ UNCHANGED <<cacheVars, tree, question, path, want, listing, rec>>
  BY DEF NotAFolder
<1>2. /\ question.path \in Seq(Nat \ {0}) /\ path \in Seq(Nat \ {0})
      /\ question.op \in {"file", "list", "name"}
  BY DEF CatInv, TypesOK
<1>3. /\ question.op # "name" /\ Reached(tree, question.path, path, rec.data)
  BY <1>1, ComponentIs
<1>4. Resolved(tree, question.path) = None
  BY <1>1, <1>2, <1>3, ReachedFile
<1>5. IsAnswer(Failed)
  BY <1>2, <1>3, <1>4 DEF IsAnswer
<1>6. AnswersRight' /\ AnswersSound'
  BY <1>1, <1>2, <1>5, RightReturn
<1>7. TypesOK'
  BY <1>1 DEF CatInv, TypesOK, Return, CacheInv, CacheTypeOK, EntriesTrue, GotCurrent, Holds, cacheVars
<1> QED
  BY <1>1, <1>6, <1>7 DEF CatInv, Return

-----------------------------------------------------------------------------
(* The steps of a search. *)

\* The state of a search.
LEMMA SearchIs ==
    ASSUME CatInv, pc = "search"
    PROVE  /\ CatalogOK(tree) /\ CacheInv /\ tree \in Trees /\ Addressable(tree)
           /\ buffers[got] \in NodesOf(tree) /\ want \in Key
           /\ Below(tree, buffers[got], want)
           /\ Node = tree.node[buffers[got]] /\ Node.leaf \in BOOLEAN
           /\ Node.leaf <=> buffers[got] \in LeavesOf(tree)
<1>1. CatalogOK(tree)
  BY TreeIs DEF CatInv, TypesOK
<1>2. buffers[got] \in NodesOf(tree)
  BY DEF CatInv, SearchInv
<1>3. NodeOK(tree, buffers[got])
  BY <1>1, <1>2 DEF CatalogOK
<1> QED
  BY <1>1, <1>2, <1>3, KeysOfNode DEF CatInv, TypesOK, SearchInv, Node, LeavesOf

\* A search that finds nothing was one for a component, which is not there.
LEMMA NothingFound ==
    ASSUME CatInv, pc = "search", \A r \in RecordsOf(tree) : r.key # want
    PROVE  listing = None /\ IsAnswer(Failed)
<1>1. CatalogOK(tree) /\ want \in Key
  BY SearchIs
<1>2. /\ question.path \in Seq(Nat \ {0}) /\ question.op \in {"file", "list", "name"}
  BY DEF CatInv, TypesOK
<1>3. listing # <<>>
  <2> SUFFICES ASSUME listing = <<>> PROVE FALSE
    OBVIOUS
  <2> DEFINE d == Resolved(tree, question.path)
  <2>1. want.name = 0 /\ d \in Data /\ d.type = "folder" /\ d.id = want.parent
    BY DEF CatInv, SearchInv, LeadsToFolder
  <2>2. d # None
    BY <2>1, CatalogAssumption
  <2>3. PICK r \in RecordsOf(tree) : r.data = d
    BY <1>1, <1>2, <2>2, FolderAt DEF Resolved
  <2>4. PICK s \in RecordsOf(tree) : s.key = [parent |-> d.id, name |-> 0]
    BY <1>1, <2>1, <2>3, HasThread
  <2>5. want = [parent |-> d.id, name |-> 0]
    BY <1>1, <2>1 DEF Key
  <2> QED
    BY <2>4, <2>5
<1>4. listing = None
  BY <1>3 DEF CatInv, SearchInv
<1>5. question.op # "name"
  BY <1>1, <1>3, RootIs DEF CatInv, SearchInv
<1>6. Resolved(tree, question.path) = None
  BY <1>1, <1>2, <1>3, <1>5, SeeksNothing DEF CatInv, SearchInv
<1> QED
  BY <1>2, <1>4, <1>5, <1>6 DEF IsAnswer

\* One level down: what is sought is below the child that is looked up.
LEMMA DescendStep ==
    ASSUME CatInv, Descend PROVE CatInv'
<1> DEFINE n == buffers[got]
           m == Node.vals[Child(Node.keys, want)]
<1>1. /\ pc = "search" /\ ~Node.leaf /\ Child(Node.keys, want) > 0
      /\ NodeByIndex(UInt16(m))
      /\ \/ Missed /\ Crash
         \/ ~Missed /\ pc' = Use("search")
      /\ UNCHANGED <<tree, question, path, want, listing, rec>>
  BY DEF Descend, MissedElse
<1>2. CatalogOK(tree) /\ CacheInv /\ tree \in Trees /\ n \in NodesOf(tree) /\ want \in Key
      /\ Addressable(tree) /\ Below(tree, n, want) /\ Node = tree.node[n]
  BY <1>1, SearchIs
<1>3. m \in NodesOf(tree) /\ Below(tree, m, want)
  BY <1>1, <1>2, BelowChild
<1> HIDE DEF n, m
<1>4. /\ CacheInv'
      /\ ~Missed => \/ Use("search") = "search" /\ got' # None /\ buffers'[got'] = m
                    \/ Use("search") = "torn"
  BY <1>1, <1>2, <1>3, CatalogLookup
<1>5. pc' \in {"null", "torn", "search"}
  BY <1>1, <1>4 DEF Crash
<1>6. TypesOK'
  BY <1>1, <1>4, <1>5 DEF CatInv, TypesOK
<1>7. pc' = "search" => SearchInv'
  <2> SUFFICES ASSUME pc' = "search" PROVE SearchInv'
    OBVIOUS
  <2>1. got' # None /\ buffers'[got'] = m
    BY <1>1, <1>4 DEF Crash
  <2> QED
    BY <1>1, <1>3, <2>1 DEF CatInv, SearchInv
<1> QED
  BY <1>5, <1>6, <1>7, NoReturn DEF CatInv

\* What a step of a search keeps that looks nothing up.
LEMMA CacheKept ==
    ASSUME CacheInv, UNCHANGED cacheVars
    PROVE  CacheInv'
BY DEF CacheInv, CacheTypeOK, EntriesTrue, GotCurrent, Holds, cacheVars

\* The search ends without a record.
LEMMA NotFoundStep ==
    ASSUME CatInv, pc = "search", \A r \in RecordsOf(tree) : r.key # want, NotFound,
           UNCHANGED <<cacheVars, tree, question, path, want, listing, rec>>
    PROVE  CatInv'
<1>1. listing = None /\ IsAnswer(Failed)
  BY NothingFound
<1>2. Return(Failed)
  BY <1>1 DEF NotFound
<1>3. TypesOK'
  BY <1>2, CacheKept DEF CatInv, TypesOK, Return
<1>4. AnswersRight' /\ AnswersSound'
  BY <1>1, <1>2, RightReturn DEF CatInv, TypesOK
<1> QED
  BY <1>2, <1>3, <1>4 DEF CatInv, Return

\* The key is in front of all keys of the node: no record has it.
LEMMA BeforeAllStep ==
    ASSUME CatInv, BeforeAll PROVE CatInv'
<1>1. /\ pc = "search" /\ ~Node.leaf /\ Child(Node.keys, want) = 0 /\ NotFound
      /\ UNCHANGED <<cacheVars, tree, question, path, want, listing, rec>>
  BY DEF BeforeAll
<1>2. \A r \in RecordsOf(tree) : r.key # want
  BY <1>1, SearchIs, BelowChild
<1> QED
  BY <1>1, <1>2, NotFoundStep

\* In the leaf: the record found is the next component, or the thread a listing
\* starts at; if none is found there is none.
LEMMA FindKeyStep ==
    ASSUME CatInv, FindKey PROVE CatInv'
<1> DEFINE n == buffers[got]
           p == Probe(Node.keys, want)
<1>1. /\ pc = "search" /\ Node.leaf
      /\ UNCHANGED <<cacheVars, tree, question, path, want, listing>>
      /\ p.comp = 0 => /\ rec' = Record(n, p.mid)
                       /\ pc' = IF listing = None THEN "component" ELSE "list"
                       /\ UNCHANGED answer
      /\ p.comp # 0 => NotFound /\ UNCHANGED rec
  BY DEF FindKey
<1>2. CatalogOK(tree) /\ n \in LeavesOf(tree) /\ want \in Key /\ Below(tree, n, want)
      /\ Node = tree.node[n]
  BY <1>1, SearchIs
<1>3. /\ p.comp = 0 => /\ RecordOf(tree, n, p.mid) \in RecordsOf(tree)
                       /\ RecordOf(tree, n, p.mid).key = want
      /\ p.comp # 0 => \A r \in RecordsOf(tree) : r.key # want
  BY <1>2, FoundInLeaf
<1> HIDE DEF n, p
<1>4. CASE p.comp # 0
  BY <1>1, <1>3, <1>4, NotFoundStep
<1>5. CASE p.comp = 0
  <2>1. /\ rec' \in RecordsOf(tree) /\ rec'.key = want /\ tree' = tree
        /\ question' = question /\ path' = path /\ listing' = listing
        /\ pc' = IF listing = None THEN "component" ELSE "list"
    BY <1>1, <1>3, <1>5 DEF Record
  <2>2. question.path \in Seq(Nat \ {0})
    BY DEF CatInv, TypesOK
  <2>3. TypesOK'
    BY <1>1, <2>1, CacheKept DEF CatInv, TypesOK
  <2>4. CASE listing = None
    <3>1. question.op # "name" =>
             rec'.key.name # 0 /\ Reached(tree, question.path, path, rec'.data)
      BY <1>1, <1>2, <2>1, <2>2, <2>4, SeeksReaches, EmptyIsNot DEF CatInv, SearchInv
    <3>2. question.op = "name" => rec'.key = Thread /\ path = <<>>
      BY <1>1, <2>1, <2>4, EmptyIsNot DEF CatInv, SearchInv
    <3>3. ComponentInv'
      BY <2>1, <2>4, <3>1, <3>2 DEF ComponentInv
    <3> QED
      BY <2>1, <2>3, <2>4, <3>3, NoReturn DEF CatInv
  <2>5. CASE listing # None
    <3>1. /\ listing = <<>> /\ question.op = "list" /\ want.name = 0
          /\ LeadsToFolder(tree, question.path, want.parent)
      BY <1>1, <2>5 DEF CatInv, SearchInv
    <3>2. NamesBefore(tree, want.parent, want) = {}
      BY <3>1 DEF NamesBefore
    <3>3. ListsAll(<<>>, NamesBefore(tree, want.parent, want))
      BY <3>2 DEF ListsAll, Lists
    <3>4. ListInv'
      BY <2>1, <3>1, <3>3, EmptyIsNot DEF ListInv
    <3> QED
      BY <2>1, <2>3, <2>5, <3>4, NoReturn DEF CatInv
  <2> QED
    BY <2>4, <2>5
<1> QED
  BY <1>4, <1>5

-----------------------------------------------------------------------------
(* The steps at the end of a path. *)

\* A return of the right answer at the end of a path.
LEMMA ReturnsRight ==
    ASSUME CatInv, NEW a, IsAnswer(a), Return(a),
           UNCHANGED <<cacheVars, tree, question, path, want, listing, rec>>
    PROVE  CatInv'
<1>1. TypesOK'
  BY CacheKept DEF CatInv, TypesOK, Return
<1>2. AnswersRight' /\ AnswersSound'
  BY RightReturn DEF CatInv, TypesOK
<1> QED
  BY <1>1, <1>2 DEF CatInv, Return

\* The path of a file question ends: its record says what it is.
LEMMA FileFoundStep ==
    ASSUME CatInv, FileFound PROVE CatInv'
<1> DEFINE a == IF rec.data.type = "file" THEN Ok(rec.data.id) ELSE Failed
<1>1. /\ pc = "component" /\ path = <<>> /\ question.op = "file" /\ Return(a)
      /\ UNCHANGED <<cacheVars, tree, question, path, want, listing, rec>>
  BY DEF FileFound
<1>2. question.path \in Seq(Nat \ {0})
  BY DEF CatInv, TypesOK
<1>3. Resolved(tree, question.path) = rec.data /\ rec.data # None
  BY <1>1, <1>2, ComponentIs, ReachedEnd, CatalogAssumption
<1>4. IsAnswer(a)
  BY <1>1, <1>3 DEF IsAnswer
<1> HIDE DEF a
<1> QED
  BY <1>1, <1>4, ReturnsRight

\* The root folder's thread is found.
LEMMA NameFoundStep ==
    ASSUME CatInv, NameFound PROVE CatInv'
<1> DEFINE a == IF rec.data.type = "folder_thread" THEN Ok(rec.key.parent) ELSE Failed
<1>1. /\ pc = "component" /\ question.op = "name" /\ Return(a)
      /\ UNCHANGED <<cacheVars, tree, question, path, want, listing, rec>>
  BY DEF NameFound
<1>2. CatalogOK(tree) /\ rec \in RecordsOf(tree) /\ rec.key = Thread
  BY <1>1, ComponentIs
<1>3. rec.data.type = "folder_thread" /\ rec.key.parent = RootFolder
  BY <1>2, RootIs DEF Thread
<1>4. IsAnswer(a)
  BY <1>1, <1>3 DEF IsAnswer
<1> HIDE DEF a
<1> QED
  BY <1>1, <1>4, ReturnsRight

\* Only folders are listed.
LEMMA ListFileStep ==
    ASSUME CatInv, ListFile PROVE CatInv'
<1>1. /\ pc = "component" /\ path = <<>> /\ question.op = "list" /\ rec.data.type # "folder"
      /\ Return(Failed)
      /\ UNCHANGED <<cacheVars, tree, question, path, want, listing, rec>>
  BY DEF ListFile
<1>2. question.path \in Seq(Nat \ {0})
  BY DEF CatInv, TypesOK
<1>3. Resolved(tree, question.path) = rec.data
  BY <1>1, <1>2, ComponentIs, ReachedEnd
<1>4. IsAnswer(Failed)
  BY <1>1, <1>3 DEF IsAnswer
<1> QED
  BY <1>1, <1>4, ReturnsRight

\* A return of what is listed so far, after a read that failed.
LEMMA ReturnsPart ==
    ASSUME failed', NEW list, Return(Ok(list)), UNCHANGED <<tree, question>>,
           question.op = "list",
           Resolved(tree, question.path) # None, Resolved(tree, question.path).type = "folder",
           Lists(list, Members(tree, Resolved(tree, question.path)))
    PROVE  AnswersRight' /\ AnswersSound'
<1>1. answer' = Ok(list) /\ Ok(list).value = list
  BY DEF Return, Ok
<1>2. IsPart(Ok(list))'
  BY <1>1 DEF IsPart
<1> QED
  BY <1>1, <1>2 DEF AnswersRight, AnswersSound

\* A listing starts: the folder's thread is sought.
LEMMA StartListingStep ==
    ASSUME CatInv, StartListing PROVE CatInv'
<1>1. /\ pc = "component" /\ path = <<>> /\ question.op = "list" /\ rec.data.type = "folder"
      /\ NodeByIndex(UInt16(tree.root))
      /\ want' = [parent |-> rec.data.id, name |-> 0] /\ listing' = <<>>
      /\ \/ Missed /\ Return(Ok(<<>>))
         \/ ~Missed /\ pc' = Use("search")
      /\ tree' = tree /\ question' = question /\ path' = path /\ rec' = rec
  BY DEF StartListing, MissedElse
<1>2. tree \in Trees /\ Addressable(tree) /\ CacheInv /\ question.path \in Seq(Nat \ {0})
  BY DEF CatInv, TypesOK
<1>3. CatalogOK(tree) /\ tree.root \in NodesOf(tree)
  BY <1>2, TreeIs
<1>4. /\ CacheInv' /\ (Missed => failed')
      /\ ~Missed => \/ Use("search") = "search" /\ got' # None /\ buffers'[got'] = tree.root
                    \/ Use("search") = "torn"
  BY <1>1, <1>2, <1>3, CatalogLookup
<1>5. Resolved(tree, question.path) = rec.data /\ rec.data # None /\ rec.data \in Data
  BY <1>1, <1>2, ComponentIs, ReachedEnd, CatalogAssumption
<1>6. CASE Missed /\ Return(Ok(<<>>))
  <2>1. Lists(<<>>, Members(tree, Resolved(tree, question.path)))
    BY DEF Lists
  <2>2. AnswersRight' /\ AnswersSound'
    BY <1>1, <1>4, <1>5, <1>6, <2>1, ReturnsPart
  <2>3. TypesOK'
    BY <1>1, <1>4, <1>6 DEF CatInv, TypesOK, Return
  <2> QED
    BY <1>6, <2>2, <2>3 DEF CatInv, Return
<1>7. CASE ~Missed /\ pc' = "torn"
  <2>1. TypesOK'
    BY <1>1, <1>4, <1>7 DEF CatInv, TypesOK
  <2> QED
    BY <1>7, <2>1, NoReturn DEF CatInv
<1>8. CASE ~Missed /\ pc' = "search"
  <2>1. TypesOK'
    BY <1>1, <1>4, <1>8 DEF CatInv, TypesOK
  <2>2. want' \in Key /\ want'.name = 0 /\ want'.parent = rec.data.id
    BY <1>1, <1>5 DEF Key, Data
  <2>3. LeadsToFolder(tree, question.path, want'.parent)
    BY <1>1, <1>5, <2>2 DEF LeadsToFolder
  <2>4. got' # None /\ buffers'[got'] = tree.root
    BY <1>1, <1>4, <1>8 DEF Return
  <2>5. SearchInv'
    BY <1>1, <1>3, <2>2, <2>3, <2>4, BelowRoot DEF SearchInv
  <2> QED
    BY <1>8, <2>1, <2>5, NoReturn DEF CatInv
<1> QED
  BY <1>1, <1>4, <1>6, <1>7, <1>8

-----------------------------------------------------------------------------
(* The steps of a listing. *)

\* The state of a listing.
LEMMA ListIs ==
    ASSUME CatInv, pc \in {"list", "next"}
    PROVE  LET d == Resolved(tree, question.path)
           IN  /\ CatalogOK(tree) /\ CacheInv /\ tree \in Trees /\ Addressable(tree)
               /\ question.op = "list"
               /\ rec \in RecordsOf(tree) /\ rec.key \in Key /\ rec.data \in Data
               /\ rec.node \in LeavesOf(tree) /\ rec.node \in NodesOf(tree)
               /\ d \in Data /\ d # None /\ d.type = "folder" /\ d.id = rec.key.parent
               /\ listing \in Seq(Nat)
               /\ question.path \in Seq(Nat \ {0})
<1>1. CatalogOK(tree)
  BY TreeIs DEF CatInv, TypesOK
<1>2. /\ question.op = "list" /\ rec \in RecordsOf(tree)
      /\ LeadsToFolder(tree, question.path, rec.key.parent) /\ listing \in Seq(Nat)
  BY DEF CatInv, ListInv, NextInv
<1> QED
  BY <1>1, <1>2, RecordIs, CatalogAssumption DEF CatInv, TypesOK, LeadsToFolder, LeavesOf

\* The members of a folder are the names of its records.
LEMMA MemberIs ==
    ASSUME NEW t, CatalogOK(t), NEW d
    PROVE  \A m : m \in Members(t, d) <=>
              m \in Nat \ {0} /\ \E s \in RecordsOf(t) : s.key = [parent |-> d.id, name |-> m]
<1>1. \A s \in RecordsOf(t) : s.key \in Key
  BY RecordIs
<1>2. \A s \in RecordsOf(t) : /\ s.key.name \in Nat
                              /\ s.key = [parent |-> s.key.parent, name |-> s.key.name]
  BY <1>1 DEF Key
<1> QED
  BY <1>2 DEF Members

\* No record comes between two.
Adjacent(t, r, s) == \A x \in RecordsOf(t) : Before(r.key, x.key) => ~Before(x.key, s.key)

\* The name that is listed is the record's, after those before it.
LEMMA ListsOneMore ==
    ASSUME NEW t, CatalogOK(t), NEW r \in RecordsOf(t), NEW list \in Seq(Nat),
           ListsAll(list, NamesBefore(t, r.key.parent, r.key))
    PROVE  LET more == IF r.data.type \in {"file", "folder"} THEN Append(list, r.key.name) ELSE list
           IN  more \in Seq(Nat) /\ ListsAll(more, NamesUpTo(t, r.key.parent, r.key))
<1> DEFINE name == r.key.name
           before == NamesBefore(t, r.key.parent, r.key)
           upto == NamesUpTo(t, r.key.parent, r.key)
           n == Len(list)
<1>1. /\ r.key \in Key /\ name \in Nat /\ n \in Nat /\ DOMAIN list = 1 .. n
      /\ r.key = [parent |-> r.key.parent, name |-> name]
      /\ r.data.type \in {"file", "folder"} <=> name # 0
  <2>1. r.key \in Key
    BY RecordIs
  <2>2. r.data.type \in {"file", "folder"} <=> name # 0
    BY DEF CatalogOK, FoldersOK
  <2>3. n \in Nat /\ DOMAIN list = 1 .. n
    BY LenProperties
  <2> QED
    BY <2>1, <2>2, <2>3 DEF Key
<1>2. \A m : m \in upto <=> m \in before \/ (m = name /\ name # 0)
  BY <1>1 DEF NamesBefore, NamesUpTo
<1>3. \A m \in before : m \in Nat \ {0} /\ m < name
  BY DEF NamesBefore
<1> HIDE DEF before, upto
<1>4. CASE name = 0
  <2>1. upto = before
    BY <1>2, <1>4
  <2> QED
    BY <1>1, <1>4, <2>1 DEF before, upto
<1>5. CASE name # 0
  <2> DEFINE more == Append(list, name)
  <2>1. /\ more \in Seq(Nat) /\ Len(more) = n + 1 /\ DOMAIN more = 1 .. n + 1
        /\ \A i \in 1 .. n : more[i] = list[i]
        /\ more[n + 1] = name
    BY <1>1
  <2> HIDE DEF more
  <2>2. /\ \A i, j \in 1 .. n : i < j => list[i] < list[j]
        /\ \A i \in 1 .. n : list[i] \in before
        /\ \A m \in before : \E j \in 1 .. n : list[j] = m
    BY <1>1 DEF ListsAll, Lists, before
  <2>3. ASSUME NEW i \in 1 .. n + 1, NEW j \in 1 .. n + 1, i < j PROVE more[i] < more[j]
    <3>1. i \in 1 .. n
      BY <1>1, <2>3
    <3>2. CASE j \in 1 .. n
      BY <2>1, <2>2, <2>3, <3>1, <3>2
    <3>3. CASE j = n + 1
      BY <1>3, <2>1, <2>2, <3>1, <3>3
    <3> QED
      BY <1>1, <3>2, <3>3
  <2>4. \A i \in 1 .. n + 1 : more[i] \in upto
    BY <1>1, <1>2, <1>5, <2>1, <2>2
  <2>5. \A m \in upto : \E j \in 1 .. n + 1 : more[j] = m
    <3> SUFFICES ASSUME NEW m \in upto PROVE \E j \in 1 .. n + 1 : more[j] = m
      OBVIOUS
    <3>1. CASE m \in before
      BY <1>1, <2>1, <2>2, <3>1
    <3>2. CASE m = name
      BY <1>1, <2>1, <3>2
    <3> QED
      BY <1>2, <3>1, <3>2
  <2>6. ListsAll(more, upto)
    BY <2>1, <2>3, <2>4, <2>5 DEF ListsAll, Lists
  <2> QED
    BY <1>1, <1>5, <2>1, <2>6 DEF more, upto
<1> QED
  BY <1>4, <1>5

\* At the next record of the folder, the names up to the last are those before it.
LEMMA ListsOn ==
    ASSUME NEW t, CatalogOK(t), NEW r \in RecordsOf(t), NEW s \in RecordsOf(t),
           Before(r.key, s.key), Adjacent(t, r, s), s.key.parent = r.key.parent
    PROVE  NamesBefore(t, s.key.parent, s.key) = NamesUpTo(t, r.key.parent, r.key)
<1>1. r.key \in Key /\ s.key \in Key
  BY RecordIs
<1>2. r.key.name \in Nat /\ s.key.name \in Nat /\ r.key.name < s.key.name
  BY <1>1 DEF Before, Key, Id
<1>3. ASSUME NEW m \in Nat \ {0}, NEW x \in RecordsOf(t),
             x.key = [parent |-> r.key.parent, name |-> m]
      PROVE  m < s.key.name <=> m <= r.key.name
  <2>1. x.key.parent = r.key.parent /\ x.key.name = m
    BY <1>3
  <2>2. Before(r.key, x.key) => ~Before(x.key, s.key)
    BY DEF Adjacent
  <2> QED
    BY <1>1, <1>2, <2>1, <2>2 DEF Before
<1> QED
  BY <1>3 DEF NamesBefore, NamesUpTo

\* At another folder's, or behind the last record, they are all.
LEMMA ListsEnd ==
    ASSUME NEW t, CatalogOK(t), NEW r \in RecordsOf(t), NEW d, d.id = r.key.parent,
           \A x \in RecordsOf(t) : Before(r.key, x.key) => x.key.parent # r.key.parent
    PROVE  NamesUpTo(t, r.key.parent, r.key) = Members(t, d)
<1>1. r.key \in Key /\ r.key.name \in Nat
  BY RecordIs DEF Key
<1>2. ASSUME NEW m \in Nat \ {0}, NEW x \in RecordsOf(t),
             x.key = [parent |-> r.key.parent, name |-> m]
      PROVE  m <= r.key.name
  <2>1. x.key.parent = r.key.parent /\ x.key.name = m
    BY <1>2
  <2>2. ~Before(r.key, x.key)
    BY <2>1
  <2> QED
    BY <1>1, <2>1, <2>2 DEF Before
<1>3. \A m : m \in Members(t, d) <=>
         m \in Nat \ {0} /\ \E s \in RecordsOf(t) : s.key = [parent |-> d.id, name |-> m]
  BY MemberIs
<1> QED
  BY <1>2, <1>3 DEF NamesUpTo

\* A listing up to some record is one of the folder's first members.
LEMMA ListsFirst ==
    ASSUME NEW t, CatalogOK(t), NEW d, NEW key, d.id = key.parent, key.name \in Nat,
           NEW list \in Seq(Nat), ListsAll(list, NamesUpTo(t, key.parent, key))
    PROVE  Lists(list, Members(t, d))
<1> DEFINE upto == NamesUpTo(t, key.parent, key)
<1>1. \A m : m \in Members(t, d) <=>
         m \in Nat \ {0} /\ \E s \in RecordsOf(t) : s.key = [parent |-> d.id, name |-> m]
  BY MemberIs
<1>2. \A m : m \in upto <=> m \in Members(t, d) /\ m <= key.name
  BY <1>1 DEF NamesUpTo
<1>3. \A m \in Members(t, d) : m \in Nat
  BY <1>1
<1> HIDE DEF upto
<1>4. /\ \A i, j \in DOMAIN list : i < j => list[i] < list[j]
      /\ \A i \in DOMAIN list : list[i] \in upto
      /\ \A m \in upto : \E j \in DOMAIN list : list[j] = m
  BY DEF ListsAll, Lists, upto
<1>5. \A m \in Members(t, d), i \in DOMAIN list : m < list[i] => m \in upto
  BY <1>2, <1>3, <1>4
<1> QED
  BY <1>2, <1>4, <1>5 DEF Lists

\* The callback gets the record's name if it has one.
LEMMA ListRecordStep ==
    ASSUME CatInv, ListRecord PROVE CatInv'
<1>1. /\ pc = "list" /\ listing' = Listed /\ NodeByIndex(rec.node)
      /\ \/ Missed /\ Crash
         \/ ~Missed /\ pc' = Use("next")
      /\ tree' = tree /\ question' = question /\ path' = path /\ rec' = rec
  BY DEF ListRecord, MissedElse
<1>2. /\ CatalogOK(tree) /\ CacheInv /\ tree \in Trees /\ question.op = "list"
      /\ rec \in RecordsOf(tree) /\ rec.node \in NodesOf(tree) /\ listing \in Seq(Nat)
      /\ Addressable(tree)
  BY <1>1, ListIs
<1>7. NodeByIndex(UInt16(rec.node))
  BY <1>1, <1>2, TreeIs
<1>3. /\ CacheInv'
      /\ ~Missed => \/ Use("next") = "next" /\ got' # None /\ buffers'[got'] = rec.node
                    \/ Use("next") = "torn"
  BY <1>2, <1>7, CatalogLookup
<1>4. pc' \in {"null", "torn", "next"}
  BY <1>1, <1>3 DEF Crash
<1>5. TypesOK'
  BY <1>1, <1>3, <1>4 DEF CatInv, TypesOK
<1>6. pc' = "next" => NextInv'
  <2> SUFFICES ASSUME pc' = "next" PROVE NextInv'
    OBVIOUS
  <2>1. got' # None /\ buffers'[got'] = rec.node
    BY <1>1, <1>3 DEF Crash
  <2>2. /\ LeadsToFolder(tree, question.path, rec.key.parent)
        /\ ListsAll(listing, NamesBefore(tree, rec.key.parent, rec.key))
    BY <1>1 DEF CatInv, ListInv
  <2>3. listing' \in Seq(Nat) /\ ListsAll(listing', NamesUpTo(tree, rec.key.parent, rec.key))
    BY <1>1, <1>2, <2>2, ListsOneMore DEF Listed
  <2> QED
    BY <1>1, <1>2, <2>1, <2>2, <2>3 DEF NextInv
<1> QED
  BY <1>4, <1>5, <1>6, NoReturn DEF CatInv

\* The record after the last one listed: the folder's next, or its end.
LEMMA MoveToStep ==
    ASSUME CatInv, pc = "next", CacheInv', UNCHANGED <<tree, question, path, want, listing>>,
           failed => failed',
           NEW n, NEW i, MoveTo(n, i), RecordOf(tree, n, i) \in RecordsOf(tree),
           Before(rec.key, RecordOf(tree, n, i).key), Adjacent(tree, rec, RecordOf(tree, n, i))
    PROVE  CatInv'
<1> DEFINE s == RecordOf(tree, n, i)
           d == Resolved(tree, question.path)
<1>1. /\ rec' = s
      /\ s.key.parent = rec.key.parent => pc' = "list" /\ UNCHANGED answer
      /\ s.key.parent # rec.key.parent => Return(Ok(listing))
  BY DEF MoveTo, Record
<1>2. /\ CatalogOK(tree) /\ question.op = "list" /\ rec \in RecordsOf(tree) /\ rec.key \in Key
      /\ d # None /\ d.type = "folder" /\ d.id = rec.key.parent /\ listing \in Seq(Nat)
  BY ListIs
<1>3. ListsAll(listing, NamesUpTo(tree, rec.key.parent, rec.key))
      /\ LeadsToFolder(tree, question.path, rec.key.parent)
  BY DEF CatInv, NextInv
<1> HIDE DEF s
<1>4. s \in RecordsOf(tree) /\ Before(rec.key, s.key) /\ Adjacent(tree, rec, s) /\ s.key \in Key
  BY <1>2, RecordIs DEF s
<1>5. CASE s.key.parent = rec.key.parent
  <2>1. ListsAll(listing, NamesBefore(tree, s.key.parent, s.key))
    BY <1>2, <1>3, <1>4, <1>5, ListsOn
  <2>2. ListInv'
    BY <1>1, <1>2, <1>3, <1>4, <1>5, <2>1 DEF ListInv
  <2>3. TypesOK'
    BY <1>1, <1>5 DEF CatInv, TypesOK
  <2> QED
    BY <1>1, <1>5, <2>2, <2>3, NoReturn DEF CatInv
<1>6. CASE s.key.parent # rec.key.parent
  <2>1. ASSUME NEW x \in RecordsOf(tree), Before(rec.key, x.key)
        PROVE  x.key.parent # rec.key.parent
    <3>1. x.key \in Key /\ ~Before(x.key, s.key)
      BY <1>2, <1>4, <2>1, RecordIs DEF Adjacent
    <3> QED
      BY <1>2, <1>4, <1>6, <3>1, CatalogAssumption DEF Before, Key, Id
  <2>2. NamesUpTo(tree, rec.key.parent, rec.key) = Members(tree, d)
    BY <1>2, <2>1, ListsEnd
  <2>3. IsAnswer(Ok(listing))
    BY <1>2, <1>3, <2>2 DEF IsAnswer, Ok
  <2>4. AnswersRight' /\ AnswersSound'
    BY <1>1, <1>2, <1>6, <2>3, RightReturn
  <2>5. TypesOK'
    BY <1>1, <1>6 DEF CatInv, TypesOK, Return
  <2> QED
    BY <1>1, <1>6, <2>4, <2>5 DEF CatInv, Return
<1> QED
  BY <1>5, <1>6

\* The next record of a leaf comes after, and none between.
LEMMA NextInLeaf ==
    ASSUME NEW t, CatalogOK(t), NEW r \in RecordsOf(t), r.index < Len(t.node[r.node].keys)
    PROVE  LET s == RecordOf(t, r.node, r.index + 1)
           IN  s \in RecordsOf(t) /\ Before(r.key, s.key) /\ Adjacent(t, r, s)
<1> DEFINE n == r.node
           keys == t.node[n].keys
           i == r.index
           s == RecordOf(t, n, i + 1)
           next == t.node[n].next
           first == t.node[next].keys[1]
<1>1. n \in LeavesOf(t) /\ n \in NodesOf(t) /\ NodeOK(t, n) /\ i \in 1 .. Len(keys)
      /\ r.key = keys[i]
  BY RecordIs DEF CatalogOK, LeavesOf
<1>2. Len(keys) \in Nat \ {0} /\ Ascend(keys) /\ \A j \in 1 .. Len(keys) : keys[j] \in Key
  BY <1>1, KeysOfNode
<1>3. i + 1 \in 1 .. Len(keys)
  BY <1>1, <1>2
<1>4. s \in RecordsOf(t) /\ s.key = keys[i + 1]
  BY <1>1, <1>3, IsRecord
<1>5. next # 0 => Before(keys[Len(keys)], first) /\ first \in Key
  <2> SUFFICES ASSUME next # 0 PROVE Before(keys[Len(keys)], first) /\ first \in Key
    OBVIOUS
  <2>1. Before(keys[Len(keys)], first)
    BY <1>1, FollowsLeaf
  <2>2. next \in LeavesOf(t)
    BY <1>1 DEF NodeOK, LeavesOf
  <2>3. NodeOK(t, next) /\ next \in NodesOf(t)
    BY <2>2 DEF CatalogOK, LeavesOf
  <2> QED
    BY <2>1, <2>3, KeysOfNode
<1>6. \A x \in RecordsOf(t) : \/ x.node = n
                              \/ Before(x.key, keys[1])
                              \/ next # 0 /\ ~Before(x.key, first)
  BY <1>1, FollowsLeaf
<1>7. \A x \in RecordsOf(t) : x.key \in Key /\ (x.node = n => x.index \in 1 .. Len(keys)
                                                              /\ x.key = keys[x.index])
  BY RecordIs
<1> HIDE DEF keys, i, s, n, next, first
<1>8. Before(keys[i], keys[i + 1])
  BY <1>1, <1>2, <1>3, AscendingIs
<1>9. ASSUME NEW x \in RecordsOf(t), Before(keys[i], x.key) PROVE ~Before(x.key, keys[i + 1])
  <2>1. CASE x.node = n
    <3> DEFINE j == x.index
    <3>1. j \in 1 .. Len(keys) /\ x.key = keys[j]
      BY <1>7, <2>1
    <3> HIDE DEF j
    <3>2. i < j
      BY <1>1, <1>2, <1>9, <3>1, AscendingIs
    <3>3. ~(j < i + 1)
      BY <1>1, <1>2, <3>1, <3>2
    <3> QED
      BY <1>1, <1>2, <1>3, <3>1, <3>3, AscendingIs
  <2>2. CASE Before(x.key, keys[1])
    <3>1. 1 \in 1 .. Len(keys)
      BY <1>2
    <3>2. Before(keys[i], keys[1])
      BY <1>1, <1>2, <1>7, <1>9, <2>2, <3>1, BeforeOrders
    <3>3. i < 1
      BY <1>1, <1>2, <3>1, <3>2, AscendingIs
    <3> QED
      BY <1>1, <3>3
  <2>3. CASE next # 0 /\ ~Before(x.key, first)
    <3>1. Len(keys) \in 1 .. Len(keys)
      BY <1>2
    <3>2. ~Before(keys[Len(keys)], keys[i + 1])
      <4>1. ~(Len(keys) < i + 1)
        BY <1>1, <1>2, <1>3
      <4> QED
        BY <1>1, <1>2, <1>3, <3>1, <4>1, AscendingIs
    <3>3. /\ Before(keys[Len(keys)], first) /\ first \in Key /\ keys[i + 1] \in Key
          /\ keys[Len(keys)] \in Key /\ x.key \in Key
      BY <1>2, <1>3, <1>5, <1>7, <2>3, <3>1
    <3>4. Before(keys[i + 1], first)
      BY <3>2, <3>3, BeforeOrders
    <3> QED
      BY <2>3, <3>3, <3>4, BeforeOrders
  <2> QED
    BY <1>6, <2>1, <2>2, <2>3
<1> QED
  BY <1>1, <1>4, <1>8, <1>9 DEF Adjacent, i, s, n

\* So does the first of the next leaf after the last of one, and behind the last
\* leaf there is none.
LEMMA NextInChain ==
    ASSUME NEW t, CatalogOK(t), NEW r \in RecordsOf(t), ~(r.index < Len(t.node[r.node].keys))
    PROVE  LET next == t.node[r.node].next
               s == RecordOf(t, next, 1)
           IN  /\ next # 0 => /\ next \in NodesOf(t) /\ next \in LeavesOf(t)
                              /\ s \in RecordsOf(t) /\ Before(r.key, s.key) /\ Adjacent(t, r, s)
               /\ next = 0 => \A x \in RecordsOf(t) : ~Before(r.key, x.key)
<1> DEFINE n == r.node
           keys == t.node[n].keys
           i == r.index
           next == t.node[n].next
           first == t.node[next].keys[1]
           s == RecordOf(t, next, 1)
<1>1. n \in LeavesOf(t) /\ n \in NodesOf(t) /\ NodeOK(t, n) /\ i \in 1 .. Len(keys)
      /\ r.key = keys[i]
  BY RecordIs DEF CatalogOK, LeavesOf
<1>2. Len(keys) \in Nat \ {0} /\ Ascend(keys) /\ \A j \in 1 .. Len(keys) : keys[j] \in Key
  BY <1>1, KeysOfNode
<1>3. i = Len(keys)
  BY <1>1, <1>2
<1>4. next # 0 => /\ next \in NodesOf(t) /\ next \in LeavesOf(t) /\ Before(keys[i], first) /\ first \in Key
                  /\ s \in RecordsOf(t) /\ s.key = first
  <2> SUFFICES ASSUME next # 0
               PROVE  /\ next \in NodesOf(t) /\ next \in LeavesOf(t)
                      /\ Before(keys[i], first) /\ first \in Key
                      /\ s \in RecordsOf(t) /\ s.key = first
    OBVIOUS
  <2>1. Before(keys[Len(keys)], first)
    BY <1>1, FollowsLeaf
  <2>2. next \in LeavesOf(t)
    BY <1>1 DEF NodeOK, LeavesOf
  <2>3. NodeOK(t, next) /\ next \in NodesOf(t)
    BY <2>2 DEF CatalogOK, LeavesOf
  <2>4. 1 \in 1 .. Len(t.node[next].keys) /\ first \in Key
    BY <2>3, KeysOfNode
  <2>5. s \in RecordsOf(t) /\ s.key = first
    BY <2>2, <2>4, IsRecord
  <2> HIDE DEF keys
  <2> QED
    BY <1>3, <2>1, <2>2, <2>3, <2>4, <2>5
<1>5. \A x \in RecordsOf(t) : \/ x.node = n
                              \/ Before(x.key, keys[1])
                              \/ next # 0 /\ ~Before(x.key, first)
  BY <1>1, FollowsLeaf
<1>6. \A x \in RecordsOf(t) : x.key \in Key /\ (x.node = n => x.index \in 1 .. Len(keys)
                                                              /\ x.key = keys[x.index])
  BY RecordIs
<1> HIDE DEF keys, i, s, n, next, first
<1>7. ASSUME NEW x \in RecordsOf(t), Before(keys[i], x.key) PROVE next # 0 /\ ~Before(x.key, first)
  <2>1. x.node # n
    <3> SUFFICES ASSUME x.node = n PROVE FALSE
      OBVIOUS
    <3> DEFINE j == x.index
    <3>1. j \in 1 .. Len(keys) /\ x.key = keys[j]
      BY <1>6
    <3> HIDE DEF j
    <3>2. i < j
      BY <1>1, <1>2, <1>7, <3>1, AscendingIs
    <3> QED
      BY <1>2, <1>3, <3>1, <3>2
  <2>2. ~Before(x.key, keys[1])
    <3> SUFFICES ASSUME Before(x.key, keys[1]) PROVE FALSE
      OBVIOUS
    <3>1. 1 \in 1 .. Len(keys)
      BY <1>2
    <3>2. Before(keys[i], keys[1])
      BY <1>1, <1>2, <1>6, <1>7, <3>1, BeforeOrders
    <3>3. i < 1
      BY <1>1, <1>2, <3>1, <3>2, AscendingIs
    <3> QED
      BY <1>1, <3>3
  <2> QED
    BY <1>5, <2>1, <2>2
<1>8. \A x \in RecordsOf(t) : Before(r.key, x.key) => next # 0 /\ ~Before(x.key, first)
  BY <1>1, <1>7
<1> QED
  BY <1>1, <1>4, <1>8 DEF Adjacent, s, n, next

\* The node at hand is the record's.
LEMMA NextIs ==
    ASSUME CatInv, pc = "next"
    PROVE  /\ CatalogOK(tree) /\ rec \in RecordsOf(tree) /\ buffers[got] = rec.node
           /\ Node = tree.node[rec.node] /\ rec.index \in 1 .. Len(tree.node[rec.node].keys)
           /\ Len(tree.node[rec.node].keys) \in Nat
<1>1. CatalogOK(tree) /\ rec \in RecordsOf(tree) /\ rec.node \in NodesOf(tree)
  BY ListIs
<1>2. buffers[got] = rec.node
  BY DEF CatInv, NextInv
<1>3. NodeOK(tree, rec.node)
  BY <1>1 DEF CatalogOK
<1>4. rec.index \in 1 .. Len(tree.node[rec.node].keys)
  BY <1>1, RecordIs
<1>5. Len(tree.node[rec.node].keys) \in Nat
  BY <1>1, <1>3, KeysOfNode
<1> QED
  BY <1>1, <1>2, <1>4, <1>5 DEF Node

\* The number of the next leaf is 0 in 16 bits only if there is none.
LEMMA LeafNumber ==
    ASSUME CatInv, pc = "next"
    PROVE  UInt16(tree.node[rec.node].next) = 0 <=> tree.node[rec.node].next = 0
<1> DEFINE n == tree.node[rec.node].next
<1>1. CatalogOK(tree) /\ rec \in RecordsOf(tree) /\ tree \in Trees /\ Addressable(tree)
  BY NextIs DEF CatInv, TypesOK
<1>2. rec.node \in LeavesOf(tree) /\ NodeOK(tree, rec.node)
  BY <1>1, RecordIs DEF CatalogOK, LeavesOf
<1>3. n \in LeavesOf(tree) \cup {0}
  BY <1>2 DEF NodeOK, LeavesOf
<1>4. n # 0 => UInt16(n) = n
  BY <1>1, <1>3, TreeIs
<1>5. UInt16(0) = 0
  BY CatalogAssumption DEF UInt16
<1> QED
  BY <1>4, <1>5

\* record_next within a leaf.
LEMMA NextRecordStep ==
    ASSUME CatInv, NextRecord PROVE CatInv'
<1>1. /\ pc = "next" /\ rec.index < Len(Node.keys) /\ MoveTo(buffers[got], rec.index + 1)
      /\ UNCHANGED <<cacheVars, tree, question, path, want, listing>>
  BY DEF NextRecord
<1>2. /\ CatalogOK(tree) /\ rec \in RecordsOf(tree) /\ buffers[got] = rec.node
      /\ Node = tree.node[rec.node]
  BY <1>1, NextIs
<1> DEFINE s == RecordOf(tree, rec.node, rec.index + 1)
<1>3. s \in RecordsOf(tree) /\ Before(rec.key, s.key) /\ Adjacent(tree, rec, s)
  BY <1>1, <1>2, NextInLeaf
<1>4. CacheInv' /\ (failed => failed')
  BY <1>1, CacheKept DEF CatInv, TypesOK, cacheVars
<1>5. MoveTo(rec.node, rec.index + 1)
  BY <1>1, <1>2
<1>6. UNCHANGED <<tree, question, path, want, listing>>
  BY <1>1
<1> QED
  BY <1>1, <1>3, <1>4, <1>5, <1>6, MoveToStep

\* record_next goes on to the next leaf; if that cannot be read, what is listed so
\* far is returned.
LEMMA NextNodeStep ==
    ASSUME CatInv, NextNode PROVE CatInv'
<1> DEFINE n == tree.node[rec.node].next
           s == RecordOf(tree, n, 1)
           d == Resolved(tree, question.path)
<1>1. /\ pc = "next" /\ rec.index >= Len(Node.keys) /\ UInt16(Node.next) # 0
      /\ NodeByIndex(UInt16(Node.next))
      /\ \/ Missed /\ Return(Ok(listing)) /\ UNCHANGED rec
         \/ /\ ~Missed
            /\ IF UseLeaf("list") = "torn" THEN pc' = "torn" /\ UNCHANGED <<rec, answer>>
               ELSE MoveTo(buffers'[got'], 1)
      /\ UNCHANGED <<tree, question, path, want, listing>>
  BY DEF NextNode
<1>2. /\ CatalogOK(tree) /\ rec \in RecordsOf(tree) /\ Node = tree.node[rec.node]
      /\ ~(rec.index < Len(tree.node[rec.node].keys))
  BY <1>1, NextIs
<1>10. n # 0
  BY <1>1, <1>2, LeafNumber, CatalogAssumption DEF UInt16
<1>3. n \in NodesOf(tree) /\ s \in RecordsOf(tree) /\ Before(rec.key, s.key)
      /\ Adjacent(tree, rec, s) /\ n \in LeavesOf(tree)
  BY <1>2, <1>10, NextInChain
<1>4. /\ d # None /\ d.type = "folder" /\ d.id = rec.key.parent /\ listing \in Seq(Nat)
      /\ question.op = "list" /\ rec.key \in Key /\ CacheInv /\ tree \in Trees
      /\ Addressable(tree)
  BY <1>1, ListIs
<1> HIDE DEF n
<1>5. NodeByIndex(UInt16(n))
  BY <1>1, <1>2 DEF n
<1>6. /\ CacheInv' /\ (failed => failed') /\ (Missed => failed')
      /\ ~Missed => \/ UseLeaf("list") = "list" /\ buffers'[got'] = n
                    \/ UseLeaf("list") = "torn"
  BY <1>3, <1>4, <1>5, CatalogLookup
<1>7. CASE Missed /\ Return(Ok(listing)) /\ UNCHANGED rec
  <2>1. ListsAll(listing, NamesUpTo(tree, rec.key.parent, rec.key))
    BY <1>1 DEF CatInv, NextInv
  <2>2. rec.key.name \in Nat
    BY <1>4 DEF Key
  <2>3. Lists(listing, Members(tree, d))
    BY <1>2, <1>4, <2>1, <2>2, ListsFirst
  <2>4. AnswersRight' /\ AnswersSound'
    BY <1>1, <1>4, <1>6, <1>7, <2>3, ReturnsPart
  <2>5. TypesOK'
    BY <1>1, <1>6, <1>7 DEF CatInv, TypesOK, Return
  <2> QED
    BY <1>7, <2>4, <2>5 DEF CatInv, Return
<1>8. CASE ~Missed /\ pc' = "torn" /\ UNCHANGED <<rec, answer>>
  <2>1. TypesOK'
    BY <1>1, <1>6, <1>8 DEF CatInv, TypesOK
  <2> QED
    BY <1>8, <2>1, NoReturn DEF CatInv
<1>9. CASE MoveTo(buffers'[got'], 1) /\ buffers'[got'] = n
  <2>1. MoveTo(n, 1)
    BY <1>9
  <2>2. UNCHANGED <<tree, question, path, want, listing>>
    BY <1>1
  <2> QED
    BY <1>1, <1>3, <1>6, <2>1, <2>2, MoveToStep
<1> QED
  BY <1>1, <1>6, <1>7, <1>8, <1>9

\* record_next behind the last leaf: the listing is complete.
LEMMA LastNodeStep ==
    ASSUME CatInv, LastNode PROVE CatInv'
<1> DEFINE d == Resolved(tree, question.path)
<1>1. /\ pc = "next" /\ rec.index >= Len(Node.keys) /\ UInt16(Node.next) = 0 /\ Return(Ok(listing))
      /\ UNCHANGED <<cacheVars, tree, question, path, want, listing, rec>>
  BY DEF LastNode
<1>2. /\ CatalogOK(tree) /\ rec \in RecordsOf(tree) /\ Node = tree.node[rec.node]
      /\ ~(rec.index < Len(tree.node[rec.node].keys))
  BY <1>1, NextIs
<1>8. tree.node[rec.node].next = 0
  BY <1>1, <1>2, LeafNumber
<1>3. \A x \in RecordsOf(tree) : ~Before(rec.key, x.key)
  BY <1>2, <1>8, NextInChain
<1>4. /\ d # None /\ d.type = "folder" /\ d.id = rec.key.parent /\ question.op = "list"
  BY <1>1, ListIs
<1>5. NamesUpTo(tree, rec.key.parent, rec.key) = Members(tree, d)
  BY <1>2, <1>3, <1>4, ListsEnd
<1>6. ListsAll(listing, Members(tree, d))
  BY <1>1, <1>5 DEF CatInv, NextInv
<1>7. IsAnswer(Ok(listing))
  BY <1>4, <1>6 DEF IsAnswer, Ok
<1> QED
  BY <1>1, <1>7, ReturnsRight

-----------------------------------------------------------------------------
\* A search or listing goes right at every step, for every catalog that the
\* volume format allows and whose nodes have numbers of 16 bits, every cache and
\* every pattern of failing reads.
THEOREM CatalogInvariance == Spec => [](Addressable(tree) => CatInv)
<1>1. Init => (Addressable(tree) => CatInv)
  <2> SUFFICES ASSUME Init, Addressable(tree) PROVE CatInv
    OBVIOUS
  <2>1. CacheInv
    BY CacheStarts DEF Init
  <2>2. TypesOK
    BY <2>1, EmptyIsNot DEF Init, TypesOK
  <2>3. AnswersRight /\ AnswersSound
    BY DEF Init, AnswersRight, AnswersSound, Answered
  <2> QED
    BY <2>2, <2>3 DEF Init, CatInv
<1>2. CatInv /\ [Next]_vars => CatInv'
  <2>1. ASSUME CatInv, Ask PROVE CatInv'
    BY <2>1, AskStep
  <2>2. ASSUME CatInv, AskName PROVE CatInv'
    BY <2>2, AskNameStep
  <2>3. ASSUME CatInv, Step PROVE CatInv'
    BY <2>3, LookUpComponentStep, NotAFolderStep, DescendStep, BeforeAllStep, FindKeyStep,
       FileFoundStep, NameFoundStep, ListFileStep, StartListingStep, ListRecordStep,
       NextRecordStep, NextNodeStep, LastNodeStep DEF Step
  <2>4. ASSUME CatInv, UNCHANGED vars PROVE CatInv'
    <3>1. UNCHANGED <<cacheVars, tree, pc, question, path, want, listing, rec, answer>>
      BY <2>4 DEF vars, catVars
    <3>2. TypesOK'
      BY <2>4, <3>1, CacheKept DEF CatInv, TypesOK
    <3>3. (AnswersRight /\ AnswersSound)'
      BY <2>4, <3>1 DEF CatInv, AnswersRight, AnswersSound, Answered, IsAnswer, IsPart, cacheVars
    <3>4. (ComponentInv' <=> ComponentInv) /\ (ListInv' <=> ListInv)
      BY <3>1 DEF ComponentInv, ListInv
    <3>5. (SearchInv' <=> SearchInv) /\ (NextInv' <=> NextInv)
      BY <3>1 DEF SearchInv, NextInv, cacheVars
    <3> QED
      BY <2>4, <3>1, <3>2, <3>3, <3>4, <3>5 DEF CatInv
  <2> QED
    BY <2>1, <2>2, <2>3, <2>4 DEF Next
<1>3. (Addressable(tree) => CatInv) /\ [Next]_vars => (Addressable(tree) => CatInv)'
  <2> SUFFICES ASSUME [Next]_vars, Addressable(tree)' PROVE Addressable(tree)
    BY <1>2
  <2>1. tree' = tree
    BY Zenon DEF Next, Step, Ask, AskName, LookUpComponent, NotAFolder, Descend, BeforeAll,
       FindKey, FileFound, NameFound, ListFile, StartListing, ListRecord, NextRecord, NextNode,
       LastNode, vars, catVars
  <2> QED
    BY <2>1
<1> QED
  BY <1>1, <1>3, PTL DEF Spec

\* What is found is what the path names, and a listing is complete and in order,
\* as long as reads succeed.
THEOREM SearchesRight == Spec => []AnswersRight
<1>1. (Addressable(tree) => CatInv) => AnswersRight
  BY DEF CatInv, AnswersRight
<1> QED
  BY <1>1, CatalogInvariance, PTL

\* Whatever reads fail, an answer is never false.
THEOREM SearchesSound == Spec => []AnswersSound
<1>1. (Addressable(tree) => CatInv) => AnswersSound
  BY DEF CatInv, AnswersSound
<1> QED
  BY <1>1, CatalogInvariance, PTL
=============================================================================
