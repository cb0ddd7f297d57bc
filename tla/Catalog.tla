------------------------------ MODULE Catalog ------------------------------
(***************************************************************************)
(* Finding files and listing directories on an HFS+ volume: hfsp_fs.c over *)
(* hfsplus/hfsp_record.c over the node cache.  The catalog is a B-tree of  *)
(* records ordered by (parent folder, name); each step here is one call of *)
(* btree_node_by_index and what is done with the node until the next.      *)
(*                                                                         *)
(* Names are numbers in the order of fast_unicode_compare, 0 the empty     *)
(* name of a thread record.  The pointer to the node at hand is got.       *)
(* A definition marked "mistake" is not used by the specification.         *)
(***************************************************************************)
EXTENDS NodeCache, Sequences

CONSTANTS
    Trees,       \* catalogs: root, leaf_head and the nodes
    Paths,       \* paths looked up, sequences of names
    Half,        \* 2^31: an int holds -Half .. Half - 1; ids are less than that apart
    NodeNumbers, \* 2^16: as many numbers has a UInt16
    Unreliable   \* bound: the catalogs of which reads may fail

RootFolder == 2  \* HFSP_ROOT_CNID

VARIABLES
    tree,      \* the volume's catalog
    pc,        \* "idle", "component", "search", "list", "next",
               \* and where nothing is defined any more: "null", "torn"
    question,  \* the call: op (a file, a listing, the volume's name) and path
    path,      \* components still to look up
    want,      \* the key searched for
    listing,   \* the names given to the callback; None while the path is resolved
    rec,       \* the record at hand: key, data, and its place in the tree
    answer     \* what the last call returned

catVars == <<tree, pc, question, path, want, listing, rec, answer>>
vars == <<cacheVars, catVars>>

Failed == [ok |-> FALSE, value |-> None]
Ok(v)  == [ok |-> TRUE, value |-> v]

RecordOf(t, n, i) == [key |-> t.node[n].keys[i], data |-> t.node[n].vals[i],
                      node |-> n, index |-> i]
Record(n, i) == RecordOf(tree, n, i)
NoKey == [parent |-> 0, name |-> 0]
NoRecord == [key |-> NoKey, data |-> [type |-> "file", id |-> 0], node |-> 0, index |-> 0]

Init ==
    /\ CacheInit
    /\ tree \in Trees
    /\ pc = "idle" /\ question = [op |-> "file", path |-> <<>>]
    /\ path = <<>> /\ want = NoKey /\ listing = None /\ rec = NoRecord /\ answer = None

-----------------------------------------------------------------------------
\* The difference of two UInt32, as an int.
Signed(d) == ((d + Half) % (2 * Half)) - Half

\* record_key_compare: positive if k1 is before k2.
Compare(k1, k2) ==
    LET diff == Signed(k2.parent - k1.parent)
    IN  IF diff # 0 THEN diff ELSE k2.name - k1.name

\* The binary search of record_find_node and record_find_key: where it ended,
\* counted from 1, and how the key there compares.
Probing(keys, key) ==
    LET probe[b \in (0 .. Len(keys)) \X (0 .. Len(keys))] ==
            LET start == b[1]
                end   == b[2]
                mid   == (start + end) \div 2
                comp  == Compare(keys[mid + 1], key)
            IN  IF comp > 0 /\ mid + 1 < end THEN probe[<<mid + 1, end>>]
                ELSE IF comp < 0 /\ start < mid THEN probe[<<start, mid>>]
                ELSE [mid |-> mid + 1, comp |-> comp]
    IN  probe
Probe(keys, key) == Probing(keys, key)[<<0, Len(keys)>>]

ChildAtProbe(keys, key) == Probe(keys, key).mid                  \* mistake

\* Which child the key is in: the last whose first key is not behind it; 0 if
\* there is none.
Child(keys, key) ==
    LET p == Probe(keys, key) IN IF p.comp < 0 THEN p.mid - 1 ELSE p.mid

-----------------------------------------------------------------------------
Return(a) == pc' = "idle" /\ answer' = a

\* A NULL node is read.
Crash == pc' = "null" /\ UNCHANGED answer

\* After a lookup: nothing came back, or a node to go on with.  What is in a
\* torn node is not defined, nor anything from there; nor in one that is not of
\* the tree, or an index node taken for a leaf.
Missed == got' = None
Use(step) == IF buffers'[got'] \in DOMAIN tree.node THEN step ELSE "torn"
UseLeaf(step) == IF Use(step) = step /\ tree.node[buffers'[got']].leaf THEN step ELSE "torn"
MissedElse(missed, step) ==
    \/ Missed /\ missed
    \/ ~Missed /\ pc' = Use(step) /\ UNCHANGED answer

\* The number of a node has 32 bits on the volume, and the parameter index of
\* btree_node_by_index 16.
UInt16(n) == n % NodeNumbers

\* hfsp_resolve_path: record_init_root
Ask ==
    \E op \in {"file", "list"}, p \in Paths :
        /\ pc = "idle"
        /\ NodeByIndex(UInt16(tree.leaf_head))
        /\ question' = [op |-> op, path |-> p]
        /\ path' = p /\ listing' = None
        /\ \/ Missed /\ Return(Failed) /\ UNCHANGED rec
           \/ /\ ~Missed /\ pc' = UseLeaf("component") /\ answer' = None
              /\ rec' = IF pc' = "torn" THEN NoRecord ELSE Record(buffers'[got'], 1)
        /\ UNCHANGED <<tree, want>>

\* hfsp_get_volume_name: record_init_cnid of the root folder, its thread.
AskName ==
    /\ pc = "idle"
    /\ NodeByIndex(UInt16(tree.root))
    /\ question' = [op |-> "name", path |-> <<>>]
    /\ path' = <<>> /\ listing' = None
    /\ want' = [parent |-> RootFolder, name |-> 0]
    /\ \/ Missed /\ Return(Failed)
       \/ ~Missed /\ pc' = Use("search") /\ answer' = None
    /\ UNCHANGED <<tree, rec>>

ParentId == IF rec.data.type = "folder" THEN rec.data.id ELSE rec.key.parent

\* record_init_string_parent for the next component, up to the root node.
LookUpComponent ==
    /\ pc = "component" /\ path # <<>>
    /\ rec.data.type \in {"folder", "folder_thread"}
    /\ NodeByIndex(UInt16(tree.root))
    /\ want' = [parent |-> ParentId, name |-> Head(path)]
    /\ path' = Tail(path)
    /\ MissedElse(Return(Failed), "search")
    /\ UNCHANGED <<tree, question, listing, rec>>

\* A component that is looked up in a file.
NotAFolder ==
    /\ pc = "component" /\ path # <<>>
    /\ rec.data.type \notin {"folder", "folder_thread"}
    /\ Return(Failed)
    /\ UNCHANGED <<cacheVars, tree, question, path, want, listing, rec>>

Node == tree.node[buffers[got]]

\* A search that fails: no file of that name, or a folder without a thread,
\* which hfsp_list_dir takes for an empty one.
NotFound == IF listing = None THEN Return(Failed) ELSE Return(Ok(listing))

\* mistake: the search starts again at the root
DescendFromRoot ==
    /\ pc = "search" /\ ~Node.leaf /\ Child(Node.keys, want) > 0
    /\ NodeByIndex(UInt16(tree.root))
    /\ MissedElse(Crash, "search")
    /\ UNCHANGED <<tree, question, path, want, listing, rec>>

\* record_find_node, one level down.  A child that cannot be read is NULL, and
\* the loop's condition reads its kind.
Descend ==
    /\ pc = "search" /\ ~Node.leaf /\ Child(Node.keys, want) > 0
    /\ NodeByIndex(UInt16(Node.vals[Child(Node.keys, want)]))
    /\ MissedElse(Crash, "search")
    /\ UNCHANGED <<tree, question, path, want, listing, rec>>

BeforeAll ==
    /\ pc = "search" /\ ~Node.leaf /\ Child(Node.keys, want) = 0
    /\ NotFound
    /\ UNCHANGED <<cacheVars, tree, question, path, want, listing, rec>>

\* record_find_key in the leaf.
FindKey ==
    /\ pc = "search" /\ Node.leaf
    /\ LET p == Probe(Node.keys, want)
       IN  IF p.comp = 0
           THEN /\ rec' = Record(buffers[got], p.mid)
                /\ pc' = IF listing = None THEN "component" ELSE "list"
                /\ UNCHANGED answer
           ELSE NotFound /\ UNCHANGED rec
    /\ UNCHANGED <<cacheVars, tree, question, path, want, listing>>

\* The path is resolved: hfsp_read_file and hfsp_get_file_metadata want a file.
FileFound ==
    /\ pc = "component" /\ path = <<>> /\ question.op = "file"
    /\ Return(IF rec.data.type = "file" THEN Ok(rec.data.id) ELSE Failed)
    /\ UNCHANGED <<cacheVars, tree, question, path, want, listing, rec>>

NameFound ==
    /\ pc = "component" /\ question.op = "name"
    /\ Return(IF rec.data.type = "folder_thread" THEN Ok(rec.key.parent) ELSE Failed)
    /\ UNCHANGED <<cacheVars, tree, question, path, want, listing, rec>>

ListFile ==
    /\ pc = "component" /\ path = <<>> /\ question.op = "list" /\ rec.data.type # "folder"
    /\ Return(Failed)
    /\ UNCHANGED <<cacheVars, tree, question, path, want, listing, rec>>

\* hfsp_list_dir wants a folder, and starts at its thread (record_init_parent);
\* a failure is taken for an empty directory.
StartListing ==
    /\ pc = "component" /\ path = <<>> /\ question.op = "list" /\ rec.data.type = "folder"
    /\ NodeByIndex(UInt16(tree.root))
    /\ want' = [parent |-> rec.data.id, name |-> 0]
    /\ listing' = <<>>
    /\ MissedElse(Return(Ok(<<>>)), "search")
    /\ UNCHANGED <<tree, question, path, rec>>

\* mistake: threads are given to the callback too
ListedWithThreads == Append(listing, rec.key.name)

Listed == IF rec.data.type \in {"file", "folder"} THEN Append(listing, rec.key.name) ELSE listing

\* One turn of the loop: the callback, then record_next, which goes back to the
\* record's node.
ListRecord ==
    /\ pc = "list"
    /\ listing' = Listed
    /\ NodeByIndex(rec.node)
    /\ MissedElse(Crash, "next")
    /\ UNCHANGED <<tree, question, path, want, rec>>

\* record_init of the next record; the loop ends at another folder's.
MoveTo(n, i) ==
    /\ rec' = Record(n, i)
    /\ IF rec'.key.parent = rec.key.parent
       THEN pc' = "list" /\ UNCHANGED answer
       ELSE Return(Ok(listing))

NextRecord ==
    /\ pc = "next" /\ rec.index < Len(Node.keys)
    /\ MoveTo(buffers[got], rec.index + 1)
    /\ UNCHANGED <<cacheVars, tree, question, path, want, listing>>

\* prepare_next goes on to the next leaf; if there is none, or it cannot be
\* read, the listing is over.
NextNode ==
    /\ pc = "next" /\ rec.index >= Len(Node.keys) /\ UInt16(Node.next) # 0
    /\ NodeByIndex(UInt16(Node.next))
    /\ \/ Missed /\ Return(Ok(listing)) /\ UNCHANGED rec
       \/ /\ ~Missed
          /\ IF UseLeaf("list") = "torn" THEN pc' = "torn" /\ UNCHANGED <<rec, answer>>
             ELSE MoveTo(buffers'[got'], 1)
    /\ UNCHANGED <<tree, question, path, want, listing>>

LastNode ==
    /\ pc = "next" /\ rec.index >= Len(Node.keys) /\ UInt16(Node.next) = 0
    /\ Return(Ok(listing))
    /\ UNCHANGED <<cacheVars, tree, question, path, want, listing, rec>>

Step == \/ LookUpComponent \/ NotAFolder \/ Descend \/ BeforeAll \/ FindKey
        \/ FileFound \/ NameFound \/ ListFile \/ StartListing
        \/ ListRecord \/ NextRecord \/ NextNode \/ LastNode

Next == (Ask \/ AskName \/ Step) /\ (failed' => tree \in Unreliable)

Spec == Init /\ [][Next]_vars
FairSpec == Spec /\ WF_vars(Step /\ (failed' => tree \in Unreliable))

-----------------------------------------------------------------------------
(***************************************************************************)
(* What a catalog is, as the volume format has it.                         *)
(***************************************************************************)
NodesOf(t) == DOMAIN t.node
LeavesOf(t) == {n \in NodesOf(t) : t.node[n].leaf}
RecordsOf(t) == UNION {{RecordOf(t, n, i) : i \in 1 .. Len(t.node[n].keys)} : n \in LeavesOf(t)}

Before(k1, k2) == k1.parent < k2.parent \/ (k1.parent = k2.parent /\ k1.name < k2.name)

Id   == 0 .. Half - 1
Key  == [parent : Id, name : Nat]
Data == [type : STRING, id : Id]

\* A node has at least one key, its keys ascend, and each has a value: what a
\* leaf's record holds, or the number of a node below.
NodeOK(t, n) ==
    LET node == t.node[n]
    IN  /\ n \in Nat /\ UInt16(n) \in Nodes /\ node.leaf \in BOOLEAN
        /\ node.keys \in Seq(Key) /\ Len(node.keys) > 0
        /\ \A i, j \in 1 .. Len(node.keys) : i < j => Before(node.keys[i], node.keys[j])
        /\ node.vals \in Seq(IF node.leaf THEN Data ELSE NodesOf(t))
        /\ Len(node.vals) = Len(node.keys)
        /\ node.leaf => node.next \in LeavesOf(t) \cup {0}

\* The leaves below a node, itself if it is one.
Under(t) ==
    LET under[n \in NodesOf(t)] ==
            IF t.node[n].leaf THEN {n}
            ELSE UNION {under[t.node[n].vals[i]] : i \in 1 .. Len(t.node[n].keys)}
    IN  under

\* No node is below itself, all leaves are below the root, and the records below
\* a child are those from its key to the next.
TreeOK(t) ==
    /\ t.root \in NodesOf(t)
    /\ \A n \in NodesOf(t) :
          Under(t)[n] = IF t.node[n].leaf THEN {n}
                        ELSE UNION {Under(t)[t.node[n].vals[i]] : i \in 1 .. Len(t.node[n].keys)}
    /\ Under(t)[t.root] = LeavesOf(t)
    /\ \A n \in NodesOf(t) \ LeavesOf(t), r \in RecordsOf(t) :
          \A i \in 1 .. Len(t.node[n].keys) :
             r.node \in Under(t)[t.node[n].vals[i]] =>
                /\ ~Before(r.key, t.node[n].keys[i])
                /\ i < Len(t.node[n].keys) => Before(r.key, t.node[n].keys[i + 1])

\* The leaves hold the records in order: the keys of others are in front of a
\* leaf, or from its successor on.
ChainOK(t) ==
    \A n \in LeavesOf(t) :
        LET node  == t.node[n]
            first(m) == t.node[m].keys[1]
        IN  /\ node.next # 0 => Before(node.keys[Len(node.keys)], first(node.next))
            /\ \A r \in RecordsOf(t) :
                  \/ r.node = n
                  \/ Before(r.key, first(n))
                  \/ node.next # 0 /\ ~Before(r.key, first(node.next))

\* The first record is the root folder's; files and folders have a name, threads
\* have none, and each folder has one.
FoldersOK(t) ==
    /\ t.leaf_head \in LeavesOf(t)
    /\ RecordOf(t, t.leaf_head, 1).data = [type |-> "folder", id |-> RootFolder]
    /\ \A r \in RecordsOf(t) :
          r.data.type \in {"file", "folder"} <=> r.key.name # 0
    /\ \A r \in RecordsOf(t) :
          r.data.type = "folder" =>
             \E s \in RecordsOf(t) : s.key = [parent |-> r.data.id, name |-> 0]
                                     /\ s.data.type = "folder_thread"

ASSUME CatalogAssumption ==
    /\ Half \in Nat /\ Half > RootFolder /\ NodeNumbers \in Nat \ {0}
    /\ \A t \in Trees : /\ \A n \in NodesOf(t) : NodeOK(t, n)
                        /\ TreeOK(t) /\ ChainOK(t) /\ FoldersOK(t)
    /\ Paths \subseteq Seq(Nat \ {0})
    /\ None \notin Data /\ None \notin Seq(Nat)

\* A tree whose nodes a UInt16 can number: one of fewer than 2^16 nodes.
Addressable(t) == \A n \in NodesOf(t) : n < NodeNumbers

-----------------------------------------------------------------------------
\* What the volume holds, whatever the shape of its tree: the folder or file at
\* the end of each part of a path, its record's data, or None.
Records == RecordsOf(tree)
Named(t, parent, name) == {r \in RecordsOf(t) : r.key = [parent |-> parent, name |-> name]}
Entered(t, d, name) ==
    IF d = None \/ d.type # "folder" \/ Named(t, d.id, name) = {} THEN None
    ELSE (CHOOSE r \in Named(t, d.id, name) : TRUE).data
Resolving(t, p) ==
    LET at[k \in 0 .. Len(p)] ==
            IF k = 0 THEN RecordOf(t, t.leaf_head, 1).data ELSE Entered(t, at[k - 1], p[k])
    IN  at
Resolved(t, p) == Resolving(t, p)[Len(p)]

\* The names in a folder, and a sequence that gives the first of them in order.
Members(t, d) == {r.key.name : r \in {s \in RecordsOf(t) : s.key.parent = d.id}} \ {0}
Lists(s, names) ==
    /\ \A i, j \in DOMAIN s : i < j => s[i] < s[j]
    /\ \A i \in DOMAIN s : s[i] \in names
    /\ \A m \in names, i \in DOMAIN s : m < s[i] => \E j \in DOMAIN s : s[j] = m
ListsAll(s, names) == Lists(s, names) /\ \A m \in names : \E j \in DOMAIN s : s[j] = m

\* What a question's answer is: that of a file its id, of a folder its members.
IsAnswer(a) ==
    LET d == Resolved(tree, question.path)
    IN  CASE question.op = "name" -> a = Ok(RootFolder)
          [] question.op = "file" ->
                a = IF d # None /\ d.type = "file" THEN Ok(d.id) ELSE Failed
          [] question.op = "list" ->
                IF d # None /\ d.type = "folder" THEN a.ok /\ ListsAll(a.value, Members(tree, d))
                ELSE a = Failed

\* What may come back if reads fail: nothing, or the truth; a folder's first
\* members for all of them.
IsPart(a) ==
    LET d == Resolved(tree, question.path)
    IN  IF question.op = "list"
        THEN d # None /\ d.type = "folder" /\ Lists(a.value, Members(tree, d))
        ELSE IsAnswer(a)

Answered == pc = "idle" /\ answer # None

\* As long as every read succeeds and no node's number needs more than 16 bits,
\* hfsp_get_file_metadata and hfsp_read_file find the file the path names and
\* nothing else, hfsp_get_volume_name finds the root's thread, and hfsp_list_dir
\* gives the names of all members in order, each once, however the records are
\* spread over leaves, and whatever the cache holds from earlier calls.
AnswersRight == Addressable(tree) /\ Answered /\ ~failed => IsAnswer(answer)

\* On a volume like that reads that fail, now or earlier, lose answers but do not
\* falsify them: a file that is found is the right one, a listing has no name too
\* many, and misses members only at its end.
AnswersSound == Addressable(tree) /\ Answered /\ answer.ok => IsPart(answer)

\* Every call returns on a volume like that: the search reaches a leaf, the
\* listing the end of the folder.
CallsEnd == Addressable(tree) /\ pc # "idle" ~> pc \in {"idle", "null", "torn"}
=============================================================================
