----------------------------- MODULE BlockIter -----------------------------
(***************************************************************************)
(* Reading blocks of a fork: volume_readfromfork (hfsplus/hfsp_volume.c)   *)
(* with its iterator (hfsplus/hfsp_blockiter.c).  A fork's blocks lie in   *)
(* extents; its first eight are in the fork's own record, the rest, eight  *)
(* at a time, in records of the extents tree, under the number of the      *)
(* first block in them.  Each step is one turn of a loop, which reads at   *)
(* most one block, or one call of btree_node_by_index for the extents tree *)
(* and what is done with the node.                                         *)
(*                                                                         *)
(* The volume orders the keys of that tree by file, kind of fork and first *)
(* block; record_extent_key_compare looks at the kind of fork first.  A    *)
(* definition marked "mistake" is not used by the specification.           *)
(***************************************************************************)
EXTENDS Integers, Sequences

CONSTANTS
    Forks,       \* files of the volume, of which the data forks are read
    Extents,     \* fork -> its extents in order: start, count
    Base,        \* fork -> extent -> its first block in the fork
    PerRecord,   \* extents in a record: 8
    ReadErrors,  \* bound: whether reads may fail
    ExtentsTrees,  \* extents trees: root, nodes, and whether btree_init takes them
    Half,        \* 2^31: an int holds -Half .. Half - 1
    NodeNumbers  \* 2^16: as many numbers has a UInt16

\* An intact volume: no empty extent among those of a fork, and total_blocks is
\* the sum of their counts.
ASSUME LayoutAssumption ==
    /\ PerRecord \in Nat \ {0}
    /\ ReadErrors \in BOOLEAN
    /\ \A f \in Forks :
        /\ Extents[f] \in Seq([start : Nat, count : Nat \ {0}])
        /\ Base[f] \in [1 .. Len(Extents[f]) + 1 -> Nat]
        /\ Base[f][1] = 0
        /\ \A k \in 1 .. Len(Extents[f]) : Base[f][k + 1] = Base[f][k] + Extents[f][k].count

Total(f) == Base[f][Len(Extents[f]) + 1]                \* total_blocks

VARIABLES
    pc,          \* "idle", "skip", "read", "next"; in the extents tree "extents", "search",
                 \* "behind", "first"; where nothing is defined any more "null", "torn"
    call,        \* the call: fork, first block, count
    skip,        \* blocks still to skip
    count,       \* blocks still to read
    curr_block, block, index,  \* of the iterator, with in_extent
    record,      \* the record b->e is in: 0 the fork's own, then in_extent is true
    extents,     \* the volume's extents tree
    tree,        \* vol->extents: "none", "made", or "torn", if a node could not be read
    node,        \* the node at hand
    place,       \* where b->er was found
    loop,        \* where it is needed: "skip" or "read"
    buf,         \* the blocks read
    answer,      \* of the last call: "buf" or "null"
    failed       \* a read has failed in this call (history)

iter == <<curr_block, block, index, record, place>>
search == <<extents, tree, node, loop>>
vars == <<pc, call, skip, count, iter, search, buf, answer, failed>>

NoPlace == [node |-> 0, index |-> 0]

Init ==
    /\ pc = "idle" /\ call \in [fork : Forks, first : {0}, count : {0}]
    /\ skip = 0 /\ count = 0
    /\ curr_block = 0 /\ block = 0 /\ index = 0 /\ record = 0 /\ place = NoPlace
    /\ extents \in ExtentsTrees /\ tree = "none" /\ node = 0 /\ loop = "skip"
    /\ buf = <<>> /\ answer = "none" /\ failed = FALSE

-----------------------------------------------------------------------------
\* The extent b->e points to; behind a fork's last there is an empty one.
Number == record * PerRecord + index + 1
NoExtent == [start |-> 0, count |-> 0]
Extent == IF Number <= Len(Extents[call.fork]) THEN Extents[call.fork][Number] ELSE NoExtent

Return(a) == pc' = "idle" /\ answer' = a

\* Start of volume_readfromfork: blockiter_init.
Call ==
    /\ pc = "idle"
    /\ \E f \in Forks : \E first \in 0 .. Total(f), n \in 0 .. Total(f) :
        /\ n > 0 => Total(f) > 0
        /\ first > 0 => n > 0
        /\ call' = [fork |-> f, first |-> first, count |-> n]
        /\ skip' = first /\ count' = n
    /\ curr_block' = 0 /\ block' = 0 /\ index' = 0 /\ record' = 0 /\ place' = NoPlace
    /\ pc' = "skip" /\ buf' = <<>> /\ answer' = "none" /\ failed' = FALSE
    /\ UNCHANGED search

\* blockiter_next_extent: the next record is looked for in the extents tree.
NextExtent(step) ==
    /\ index' = 0 /\ loop' = step /\ pc' = "extents"
    /\ UNCHANGED <<record, place, extents, tree, node, answer, failed>>

\* mistakes: one block early, and the position in the extent is not reset
PastForkEarly == curr_block' + 1 >= Total(call.fork)
PositionKept(diff) == block + diff

PastFork == curr_block' >= Total(call.fork)
PastExtent(diff) == block + diff >= Extent.count
PositionAfter(diff) == IF PastExtent(diff) THEN 0 ELSE block + diff

\* Both loops move on alike: past the end of the fork the call fails, past the
\* end of the extent the next one is taken.
Move(diff, step) ==
    /\ curr_block' = curr_block + diff
    /\ IF PastFork
       THEN /\ Return("null") /\ block' = block + diff
            /\ UNCHANGED <<index, record, place, search, failed>>
       ELSE /\ block' = PositionAfter(diff)
            /\ IF PastExtent(diff) /\ index + 1 >= PerRecord THEN NextExtent(step)
               ELSE /\ index' = IF PastExtent(diff) THEN index + 1 ELSE index
                    /\ pc' = step
                    /\ UNCHANGED <<record, place, search, answer, failed>>

\* mistake: what is behind instead of what is left
Behind == block

Left == Extent.count - block

\* One turn of blockiter_skip's loop: to the block, or to the end of the extent.
Skip ==
    /\ pc = "skip" /\ skip > 0
    /\ LET diff == IF skip < Left THEN skip ELSE Left
       IN  skip' = skip - diff /\ Move(diff, "skip")
    /\ UNCHANGED <<call, count, buf>>

Skipped ==
    /\ pc = "skip" /\ skip = 0
    /\ IF count > 0 THEN pc' = "read" /\ UNCHANGED answer ELSE Return("buf")
    /\ UNCHANGED <<call, skip, count, iter, search, buf, failed>>

\* blockiter_curr and volume_readinbuf
Read ==
    /\ pc = "read"
    /\ count' = count - 1
    /\ buf' = Append(buf, Extent.start + block)
    /\ IF count' > 0 THEN pc' = "next" /\ UNCHANGED answer ELSE Return("buf")
    /\ UNCHANGED <<call, skip, iter, search, failed>>

ReadFails ==
    /\ pc = "read" /\ ReadErrors
    /\ count' = count - 1
    /\ Return("null") /\ failed' = TRUE
    /\ UNCHANGED <<call, skip, iter, search, buf>>

\* blockiter_next
Advance ==
    /\ pc = "next"
    /\ Move(1, "read")
    /\ UNCHANGED <<call, skip, count, buf>>

-----------------------------------------------------------------------------
(***************************************************************************)
(* The record that goes on with a fork, in the extents tree.               *)
(***************************************************************************)
DataFork == 0        \* HFSP_EXTENT_DATA
ResourceFork == 255  \* HFSP_EXTENT_RSRC

\* A node's number on the volume, as the parameter index of btree_node_by_index.
UInt16(n) == n % NodeNumbers

\* The difference of two UInt32, as an int.
Signed(d) == ((d + Half) % (2 * Half)) - Half

\* record_extent_key_compare: positive if k1 is before k2.
Compare(k1, k2) ==
    LET type == k2.type - k1.type
        file == Signed(k2.file - k1.file)
    IN  IF type # 0 THEN type ELSE IF file # 0 THEN file ELSE Signed(k2.start - k1.start)

\* The binary search of record_find_node and record_find_key: where it ended,
\* counted from 1, and how the key there compares.
Probing(keys, key) ==
    LET probe[b \in (0 .. Len(keys)) \X (0 .. Len(keys))] ==
            LET mid  == (b[1] + b[2]) \div 2
                comp == Compare(keys[mid + 1], key)
            IN  IF comp > 0 /\ mid + 1 < b[2] THEN probe[<<mid + 1, b[2]>>]
                ELSE IF comp < 0 /\ b[1] < mid THEN probe[<<b[1], mid>>]
                ELSE [mid |-> mid + 1, comp |-> comp]
    IN  probe
Probe(keys, key) == Probing(keys, key)[<<0, Len(keys)>>]

ChildAtProbe(keys, key) == Probe(keys, key).mid                  \* mistake
Child(keys, key) ==
    LET p == Probe(keys, key) IN IF p.comp < 0 THEN p.mid - 1 ELSE p.mid

Wanted == [type |-> DataFork, file |-> call.fork, start |-> curr_block]
Node == extents.node[node]

\* A NULL node is read.
Crash == pc' = "null" /\ UNCHANGED answer

\* btree_node_by_index: the node is there, or cannot be read.  Once one could not,
\* the cache may have a torn one (see NodeCache), and what is in it is not defined.
Visit(n, step, missed) ==
    /\ \/ node' = UInt16(n) /\ pc' = step /\ UNCHANGED <<tree, answer, failed>>
       \/ ReadErrors /\ missed /\ tree' = "torn" /\ failed' = TRUE /\ UNCHANGED node
       \/ tree = "torn" /\ pc' = "torn" /\ UNCHANGED <<tree, node, answer, failed>>
    /\ UNCHANGED <<call, skip, count, iter, extents, loop, buf>>

\* volume_create_extents_tree, when the tree is first wanted; if that fails,
\* record_init_file is given none.
CreateTree ==
    /\ pc = "extents" /\ tree = "none"
    /\ \/ extents.fits /\ tree' = "made" /\ UNCHANGED <<pc, failed>>
       \/ extents.fits /\ ReadErrors /\ pc' = "null" /\ failed' = TRUE /\ UNCHANGED tree
       \/ ~extents.fits /\ pc' = "null" /\ UNCHANGED <<tree, failed>>
    /\ UNCHANGED <<call, skip, count, iter, extents, node, loop, buf, answer>>

\* record_init_file: the search begins at the root ...
StartSearch ==
    /\ pc = "extents" /\ tree # "none" /\ record = 0
    /\ Visit(extents.root, "search", Return("null"))

\* ... and goes down; a child that cannot be read is NULL, and the loop's
\* condition reads its kind.
Descend ==
    /\ pc = "search" /\ ~Node.leaf /\ Child(Node.keys, Wanted) > 0
    /\ Visit(Node.vals[Child(Node.keys, Wanted)], "search", Crash)

\* The record is in b->er, and the loop goes on.
Take(i) ==
    /\ record' = Node.vals[i] /\ place' = [node |-> node, index |-> i]
    /\ pc' = loop /\ UNCHANGED answer

NotThere == Return("null") /\ UNCHANGED <<record, place>>

BeforeAll ==
    /\ pc = "search" /\ ~Node.leaf /\ Child(Node.keys, Wanted) = 0
    /\ NotThere
    /\ UNCHANGED <<call, skip, count, curr_block, block, index, search, buf, failed>>

FindExtent ==
    /\ pc = "search" /\ Node.leaf
    /\ LET p == Probe(Node.keys, Wanted) IN IF p.comp = 0 THEN Take(p.mid) ELSE NotThere
    /\ UNCHANGED <<call, skip, count, curr_block, block, index, search, buf, failed>>

\* record_next_extent goes back to the record's node, which is read without a test,
RecordsNode ==
    /\ pc = "extents" /\ tree # "none" /\ record # 0
    /\ Visit(place.node, "behind", Crash)

\* and on to the next leaf, if the record was the last in its own.
NextLeaf ==
    /\ pc = "behind" /\ place.index >= Len(Node.keys)
    /\ IF UInt16(Node.next) # 0 THEN Visit(Node.next, "first", Return("null"))
       ELSE /\ NotThere
            /\ UNCHANGED <<call, skip, count, curr_block, block, index, search, buf, failed>>

\* The record there must be of the same fork; its first block is not looked at.
NextRecord ==
    /\ pc = "first" \/ (pc = "behind" /\ place.index < Len(Node.keys))
    /\ LET i == IF pc = "first" THEN 1 ELSE place.index + 1
       IN  IF Node.keys[i].file = call.fork /\ Node.keys[i].type = DataFork THEN Take(i)
           ELSE NotThere
    /\ UNCHANGED <<call, skip, count, curr_block, block, index, search, buf, failed>>

Search == \/ CreateTree \/ StartSearch \/ Descend \/ BeforeAll \/ FindExtent
          \/ RecordsNode \/ NextLeaf \/ NextRecord
Step == Skip \/ Skipped \/ Read \/ ReadFails \/ Advance \/ Search
Next == Call \/ Step

Spec == Init /\ [][Next]_vars

-----------------------------------------------------------------------------
(***************************************************************************)
(* What an extents tree is, as the volume format has it.                   *)
(***************************************************************************)
LeavesOf(t) == {n \in DOMAIN t.node : t.node[n].leaf}
Key == [type : {DataFork, ResourceFork}, file : 0 .. Half - 1, start : 0 .. Half - 1]

\* The order of the volume: a file, its forks, the blocks of each.
Precedes(k1, k2) ==
    \/ k1.file < k2.file
    \/ k1.file = k2.file /\ k1.type < k2.type
    \/ k1.file = k2.file /\ k1.type = k2.type /\ k1.start < k2.start

\* Keys ascend; each has a value: what record of its fork it is, or a node below.
\* There are fewer nodes than a UInt16 has numbers.
NodeOK(t, n) ==
    LET keys == t.node[n].keys
        vals == t.node[n].vals
    IN  /\ n \in 1 .. NodeNumbers - 1 /\ t.node[n].leaf \in BOOLEAN
        /\ keys \in Seq(Key) /\ Len(keys) > 0 /\ Len(vals) = Len(keys)
        /\ \A i, j \in 1 .. Len(keys) : i < j => Precedes(keys[i], keys[j])
        /\ vals \in Seq(IF t.node[n].leaf THEN Nat ELSE DOMAIN t.node)
        /\ t.node[n].leaf => t.node[n].next \in LeavesOf(t) \cup {0}

\* The leaves below a node, itself if it is one.
Under(t) ==
    LET under[n \in DOMAIN t.node] ==
            IF t.node[n].leaf THEN {n}
            ELSE UNION {under[t.node[n].vals[i]] : i \in 1 .. Len(t.node[n].keys)}
    IN  under

\* No node is below itself, all leaves are below the root, and the keys below a
\* child are those from its key to the next.
TreeOK(t) ==
    /\ t.root \in DOMAIN t.node
    /\ \A n \in DOMAIN t.node :
          Under(t)[n] = IF t.node[n].leaf THEN {n}
                        ELSE UNION {Under(t)[t.node[n].vals[i]] : i \in 1 .. Len(t.node[n].keys)}
    /\ Under(t)[t.root] = LeavesOf(t)
    /\ \A n \in DOMAIN t.node \ LeavesOf(t) : \A i \in 1 .. Len(t.node[n].keys) :
          \A m \in Under(t)[t.node[n].vals[i]] : \A k \in 1 .. Len(t.node[m].keys) :
             /\ ~Precedes(t.node[m].keys[k], t.node[n].keys[i])
             /\ i < Len(t.node[n].keys) => Precedes(t.node[m].keys[k], t.node[n].keys[i + 1])

\* Every record of a file's data fork is in a leaf under its key, and in the leaves
\* those of a fork follow each other.
HasRecord(f, j) == j > 0 /\ j * PerRecord < Len(Extents[f])
KeyOf(f, j) == [type |-> DataFork, file |-> f, start |-> Base[f][j * PerRecord + 1]]
RecordsOK(t) ==
    /\ \A f \in Forks : \A j \in 1 .. Len(Extents[f]) : HasRecord(f, j) =>
          \E n \in LeavesOf(t) : \E i \in 1 .. Len(t.node[n].keys) : t.node[n].keys[i] = KeyOf(f, j)
    /\ \A n \in LeavesOf(t) : \A i \in 1 .. Len(t.node[n].keys) :
          LET key == t.node[n].keys[i]
              j   == t.node[n].vals[i]
          IN  key.type = DataFork /\ key.file \in Forks =>
                /\ HasRecord(key.file, j) /\ key = KeyOf(key.file, j)
                /\ HasRecord(key.file, j + 1) =>
                      IF i < Len(t.node[n].keys) THEN t.node[n].keys[i + 1] = KeyOf(key.file, j + 1)
                      ELSE t.node[n].next # 0 /\ t.node[t.node[n].next].keys[1] = KeyOf(key.file, j + 1)

ASSUME ExtentsAssumption ==
    /\ Half \in Nat \ {0} /\ NodeNumbers \in Nat \ {0}
    /\ Forks \subseteq 0 .. Half - 1
    /\ \A t \in ExtentsTrees :
          /\ t.fits \in BOOLEAN
          /\ \A n \in DOMAIN t.node : NodeOK(t, n)
          /\ TreeOK(t) /\ RecordsOK(t)

\* No resource fork has so many extents that some are in the tree: then the program's
\* order of keys is the volume's.
DataForksOnly(t) ==
    \A n \in DOMAIN t.node : \A i \in 1 .. Len(t.node[n].keys) : t.node[n].keys[i].type = DataFork

-----------------------------------------------------------------------------
\* Block p of a fork is block b of the volume.
IsBlock(f, p, b) ==
    \E k \in 1 .. Len(Extents[f]) :
        /\ Base[f][k] <= p /\ p < Base[f][k + 1]
        /\ b = Extents[f][k].start + (p - Base[f][k])

\* The variables have their types.
TypeOK ==
    /\ pc \in {"idle", "skip", "read", "next", "extents", "search", "behind", "first", "null", "torn"}
    /\ call \in [fork : Forks, first : Nat, count : Nat]
    /\ skip \in Nat /\ count \in Nat
    /\ curr_block \in Nat /\ block \in Nat /\ index \in Nat /\ record \in Nat
    /\ extents \in ExtentsTrees /\ tree \in {"none", "made", "torn"} /\ failed \in BOOLEAN
    /\ loop \in {"skip", "read"}
    /\ buf \in Seq(Nat)
    /\ answer \in {"none", "buf", "null"}

\* volume_readfromfork reads the fork's blocks in order from the first one, however
\* they are spread over extents, and over records of the extents tree.
ReadsTheFork ==
    /\ \A i \in 1 .. Len(buf) : IsBlock(call.fork, call.first + i - 1, buf[i])
    /\ pc = "idle" /\ answer = "buf" => Len(buf) = call.count

\* It refuses nothing that the fork has, unless a read fails, on volumes whose extents
\* tree the program has in the order of the volume: the search of the tree finds the
\* record that goes on with the fork, and record_next_extent the one behind it.
FailsForAReason ==
    DataForksOnly(extents) /\ pc = "idle" /\ answer = "null" =>
        failed \/ call.first >= Total(call.fork) \/ call.first + call.count > Total(call.fork)

\* The iterator is inside an extent, and that is where the position is.
PositionTrue ==
    pc \in {"skip", "read", "next"} =>
        /\ index < PerRecord
        /\ Number <= Len(Extents[call.fork]) \/ (pc = "skip" /\ skip = 0 /\ count = 0)
        /\ Number <= Len(Extents[call.fork]) =>
            block < Extent.count /\ curr_block = Base[call.fork][Number] + block

\* While the next record is looked for, the position is where it begins.
Searching == pc \in {"extents", "search", "behind", "first"}
BehindTrue ==
    Searching => /\ index = 0 /\ block = 0 /\ HasRecord(call.fork, record + 1)
                 /\ curr_block = Base[call.fork][(record + 1) * PerRecord + 1]

\* A record is at its place, and the node at hand is where it or its successor is.
Places(n) == {[node |-> n, index |-> i] : i \in 1 .. Len(extents.node[n].keys)}
KeyAt(p) == extents.node[p.node].keys[p.index]
ValueAt(p) == extents.node[p.node].vals[p.index]
PlaceTrue ==
    /\ pc \in {"skip", "read", "next", "extents", "search", "behind", "first"} =>
          \/ record = 0
          \/ /\ place \in UNION {Places(n) : n \in LeavesOf(extents)}
             /\ KeyAt(place) = KeyOf(call.fork, record) /\ ValueAt(place) = record
    /\ pc = "behind" => record # 0 /\ node = place.node
    /\ pc = "first" => /\ record # 0 /\ place.index = Len(extents.node[place.node].keys)
                       /\ node = extents.node[place.node].next /\ node # 0

\* The record searched for is below the node at hand.
SearchTrue ==
    pc = "search" =>
        /\ node \in DOMAIN extents.node /\ record = 0
        /\ DataForksOnly(extents) => \E n \in Under(extents)[node] : \E p \in Places(n) : KeyAt(p) = Wanted

\* What has been skipped and read is where the iterator is.
Loop == IF Searching THEN loop ELSE pc
Progress ==
    /\ Loop = "skip" => curr_block + skip = call.first /\ count = call.count /\ buf = <<>>
    /\ Loop \in {"read", "next"} => Len(buf) + count = call.count /\ skip = 0 /\ count > 0
    /\ Loop = "read" => curr_block = call.first + Len(buf)
    /\ Loop = "next" => curr_block = call.first + Len(buf) - 1

IInv ==
    /\ TypeOK /\ PositionTrue /\ BehindTrue /\ PlaceTrue /\ SearchTrue /\ Progress
    /\ ReadsTheFork /\ FailsForAReason
=============================================================================
