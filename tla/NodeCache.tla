----------------------------- MODULE NodeCache -----------------------------
(***************************************************************************)
(* The node cache of an HFS+ B-tree: btree_node_by_index and what it calls *)
(* (hfsplus/hfsp_btree.c).  A fixed array of entries, searched downwards   *)
(* from the entry used last; an entry that was passed over ages, the       *)
(* oldest one makes room.  Reading a node from the card may fail half way, *)
(* and the caller goes on with the same cache.                             *)
(*                                                                         *)
(* A buffer is either the node whose bytes it holds, Raw as malloc left    *)
(* it, or Torn when a failed read overwrote some of it.  A definition      *)
(* marked "mistake" is a plausible error the specification does not use.   *)
(***************************************************************************)
EXTENDS Integers

CONSTANTS
    Size,         \* cache->size: depth of the tree + EXTRA_CACHESIZE
    Nodes,        \* numbers of the tree's nodes; 0 is its header
    Height,       \* node -> its height, 1 for a leaf
    DepthFactor,  \* DEPTH_FACTOR
    MaxPriority,  \* UINT_MAX
    Raw, Torn, None

ASSUME CacheAssumption ==
    /\ Size \in Nat /\ Size > 1
    /\ 0 \notin Nodes
    /\ Height \in [Nodes -> Nat]
    /\ DepthFactor \in Nat /\ MaxPriority \in Nat \ {0}
    /\ \A n \in Nodes : Height[n] * DepthFactor <= MaxPriority
    /\ {Raw, Torn, None} \cap (Nodes \cup 0 .. Size - 1) = {} /\ Raw # Torn

VARIABLES
    entries,    \* cache->entries: node number (0: empty) and priority
    buffers,    \* cache->buffers
    currindex,  \* cache->currindex
    asked, got, \* the last call: the node asked for, the buffer returned or None
    failed      \* some read has failed (history)

cacheVars == <<entries, buffers, currindex, asked, got, failed>>

Slots == 0 .. Size - 1
Entry == [index : Nodes \cup {0}, priority : 0 .. MaxPriority]

\* node_cache_init
CacheInit ==
    /\ entries = [i \in Slots |-> [index |-> 0, priority |-> 0]]
    /\ buffers = [i \in Slots |-> Raw]
    /\ currindex = 0
    /\ asked = 0 /\ got = None /\ failed = FALSE

-----------------------------------------------------------------------------
\* The search looks at these entries, k = 1, 2, ..., Size - 1.
Position(k) == (currindex - k) % Size

\* It ends at the node or at an empty entry, or when it has been round.
Ends(n, k) == k = Size \/ entries[Position(k)].index \in {0, n}
Steps(n) == CHOOSE k \in 1 .. Size : Ends(n, k) /\ \A j \in 1 .. k - 1 : ~Ends(n, j)

Older(p)   == IF p = MaxPriority THEN p ELSE p + 1
Younger(p) == IF p = 0 THEN p ELSE p - 1

Passed(n) == {Position(k) : k \in 1 .. Steps(n) - 1}
Aged(n) == [i \in Slots |-> IF i \in Passed(n)
                            THEN [entries[i] EXCEPT !.priority = Older(@)] ELSE entries[i]]

\* mistake: the entry used last makes room
OldestCurrent(n) == currindex

\* The first of those with the largest number, of all that were passed.
Oldest(n) ==
    LET priority(k) == Aged(n)[Position(k)].priority
        k == CHOOSE k \in 1 .. Size - 1 :
                \A j \in 1 .. Size - 1 :
                    priority(j) < priority(k) \/ (priority(j) = priority(k) /\ k <= j)
    IN  Position(k)

Victim(n) == IF Steps(n) < Size THEN Position(Steps(n)) ELSE Oldest(n)

Holds(i, n) == entries[i].index = n
Missing(n)  == /\ ~Holds(currindex, n)
               /\ Steps(n) < Size => ~Holds(Position(Steps(n)), n)

\* The shortcut to the current node.
FindCurrent(n) ==
    /\ Holds(currindex, n)
    /\ got' = currindex
    /\ UNCHANGED <<entries, buffers, currindex, failed>>

FindOther(n) ==
    /\ ~Holds(currindex, n) /\ Steps(n) < Size /\ Holds(Position(Steps(n)), n)
    /\ LET i == Position(Steps(n))
       IN  /\ entries' = [Aged(n) EXCEPT ![i].priority = Younger(@)]
           /\ currindex' = i
           /\ got' = i
    /\ UNCHANGED <<buffers, failed>>

\* mistake: the entry gets its number before the node is read
LoadFailsEarly(n) ==
    /\ Missing(n)
    /\ LET i == Victim(n)
       IN  /\ \E b \in {buffers[i], Torn} : buffers' = [buffers EXCEPT ![i] = b]
           /\ entries' = [Aged(n) EXCEPT ![i] =
                             [index |-> n, priority |-> Height[n] * DepthFactor]]
           /\ currindex' = i
    /\ got' = None
    /\ failed' = TRUE

\* node_cache_load_buf
Load(n) ==
    /\ Missing(n)
    /\ LET i == Victim(n)
       IN  /\ entries' = [Aged(n) EXCEPT ![i] =
                             [index |-> n, priority |-> Height[n] * DepthFactor]]
           /\ buffers' = [buffers EXCEPT ![i] = n]
           /\ currindex' = i
           /\ got' = i
    /\ UNCHANGED failed

\* The read fails: the buffer may be overwritten, the entry is left alone.
LoadFails(n) ==
    /\ Missing(n)
    /\ LET i == Victim(n)
       IN  /\ \E b \in {buffers[i], Torn} : buffers' = [buffers EXCEPT ![i] = b]
           /\ entries' = Aged(n)
           /\ currindex' = i
    /\ got' = None
    /\ failed' = TRUE

NodeByIndex(n) ==
    /\ asked' = n
    /\ FindCurrent(n) \/ FindOther(n) \/ Load(n) \/ LoadFails(n)

Lookup == \E n \in Nodes : NodeByIndex(n)

CacheSpec == CacheInit /\ [][Lookup]_cacheVars

-----------------------------------------------------------------------------
\* The variables have their types; priorities never leave their 32 bits.
CacheTypeOK ==
    /\ entries \in [Slots -> Entry]
    /\ buffers \in [Slots -> Nodes \cup {Raw, Torn}]
    /\ currindex \in Slots
    /\ asked \in Nodes \cup {0} /\ got \in Slots \cup {None}
    /\ failed \in BOOLEAN

\* However reads failed before, btree_node_by_index never returns a whole node
\* other than the one asked for; and none that is torn if no read has failed.
OwnNodeOrTorn ==
    got # None => buffers[got] = asked \/ (failed /\ buffers[got] = Torn)

\* The node returned last stays where it is during the next call, so that the
\* pointers into it that record_find_node and record_next hold remain good.
LastNodeStays ==
    [][got # None => /\ entries'[got].index = entries[got].index
                     /\ buffers'[got] = buffers[got]]_cacheVars

\* "Read node at given index, using cache" (hfsp_btree.c line 158): what is
\* returned is the node.
ReturnsNode == got # None => buffers[got] = asked

\* Why: an entry that has a number has that node's bytes, or torn ones.
EntriesTrue ==
    \A i \in Slots :
        entries[i].index # 0 =>
            buffers[i] = entries[i].index \/ (failed /\ buffers[i] = Torn)
GotCurrent == got # None => got = currindex /\ Holds(currindex, asked) /\ asked # 0

CacheInv == CacheTypeOK /\ EntriesTrue /\ GotCurrent
=============================================================================
