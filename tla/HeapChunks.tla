----------------------------- MODULE HeapChunks -----------------------------
(***************************************************************************)
(* The chunks of the heap (malloc.c, dlmalloc 2.8.3 as wiiMac builds it):  *)
(* their heads and feet in memory, the bins that hold the free ones, and   *)
(* what the debugging code asserts of all of them.                         *)
(*                                                                         *)
(* The heap is one record that each function takes and returns: memory by  *)
(* words of four bytes, and the members of malloc_state.  A bin for small  *)
(* chunks is its list from fd on.  A bin for large ones is a trie: the     *)
(* path of bits (0 left, 1 right) to a node leads to the ring of chunks of *)
(* one size there, from the one in the trie along fd.  Links in a chunk    *)
(* are words that a user of overlapping memory would find changed.         *)
(* A definition marked "mistake" is not used by the specification.         *)
(***************************************************************************)
EXTENDS Integers, SequencesExt, FiniteSetsExt

CONSTANTS
    Base, End,        \* _sbrk_start and _sbrk_end
    SizeBits,         \* width of size_t, 32
    TREEBIN_SHIFT,    \* 8: chunks from 256 bytes on are large
    NTREEBINS,        \* 32
    trim_threshold    \* DEFAULT_TRIM_THRESHOLD

ASSUME HeapAssumption ==
    /\ Base \in Nat \ {0} /\ End \in Nat /\ Base % 8 = 0 /\ End % 8 = 0
    /\ TREEBIN_SHIFT \in Nat /\ TREEBIN_SHIFT >= 5
    /\ NTREEBINS \in Nat \ {0} /\ NTREEBINS % 2 = 0 /\ trim_threshold \in Nat
    /\ SizeBits \in Nat /\ SizeBits >= 8 /\ SizeBits >= TREEBIN_SHIFT + NTREEBINS \div 2

\* Powers of two.
Two[n \in Nat] == IF n = 0 THEN 1 ELSE 2 * Two[n - 1]

\* size_t, which holds every address, and what the code makes of its limits.
Modulus == Two[SizeBits]
ASSUME AddressAssumption == End < Modulus
Wrap(n) == n % Modulus
MAX_SIZE_T == Modulus - 1
HALF_MAX_SIZE_T == MAX_SIZE_T \div 2

\* A chunk's head is behind the foot of the one before, its user's memory behind the
\* head, up to and with the next chunk's foot.
MIN_CHUNK_SIZE == 16
CHUNK_OVERHEAD == 4
TOP_FOOT_SIZE == 40
chunk2mem(p) == p + 8
mem2chunk(mem) == mem - 8
MAX_REQUEST == Wrap(-MIN_CHUNK_SIZE * 4)
pad_request(req) == ((req + CHUNK_OVERHEAD + 7) \div 8) * 8
request2size(req) == IF req < MIN_CHUNK_SIZE - CHUNK_OVERHEAD - 1 THEN MIN_CHUNK_SIZE ELSE pad_request(req)
MIN_LARGE_SIZE == Two[TREEBIN_SHIFT]
MAX_SMALL_REQUEST == MIN_LARGE_SIZE - 1 - 7 - CHUNK_OVERHEAD
is_small(s) == s < MIN_LARGE_SIZE

\* Words, of which only those that hold more than junk are kept.  What a user stored is
\* told by the block it was stored in.
Junk == [k |-> "junk"]
Zeros == [k |-> "zeros"]
Link == [k |-> "link"]
Data(mem) == [k |-> "data", of |-> mem]
Foot(n) == [k |-> "foot", size |-> n]
HeadWord(n, c, p) == [k |-> "head", size |-> n, cinuse |-> c, pinuse |-> p]

Inside(a, n) == {4 * w : w \in (a \div 4) .. ((a + n - 1) \div 4)}
Word(h, a) == IF a \in DOMAIN h.mem THEN h.mem[a] ELSE Junk
Over(new, old) == [a \in DOMAIN new \cup DOMAIN old |-> IF a \in DOMAIN new THEN new[a] ELSE old[a]]
Set(h, a, word) == [h EXCEPT !.mem = Over([b \in {a} |-> word], @)]
Put(h, a, n, word) == [h EXCEPT !.mem = Over([w \in Inside(a, n) |-> word], @)]
IsHead(h, p) == Word(h, p + 4).k = "head"
chunksize(h, p) == h.mem[p + 4].size
cinuse(h, p) == h.mem[p + 4].cinuse
pinuse(h, p) == h.mem[p + 4].pinuse
next_chunk(h, p) == p + chunksize(h, p)
prev_foot(h, p) == h.mem[p].size

SetHead(h, p, s, c, b) == Set(h, p + 4, HeadWord(s, c, b))
\* Of a word that was no head nothing else is known then.
set_pinuse(h, p) ==
    IF IsHead(h, p) THEN SetHead(h, p, chunksize(h, p), cinuse(h, p), TRUE) ELSE SetHead(h, p, 0, FALSE, TRUE)
clear_pinuse(h, p) == SetHead(h, p, chunksize(h, p), cinuse(h, p), FALSE)
set_inuse(h, p, s) ==
    set_pinuse(SetHead(h, p, s, TRUE, IsHead(h, p) /\ pinuse(h, p)), p + s)
set_inuse_and_pinuse(h, p, s) == set_pinuse(SetHead(h, p, s, TRUE, TRUE), p + s)
set_size_and_pinuse_of_inuse_chunk(h, p, s) == SetHead(h, p, s, TRUE, TRUE)
set_size_and_pinuse_of_free_chunk(h, p, s) == Set(SetHead(h, p, s, FALSE, TRUE), p + s, Foot(s))
set_free_with_pinuse(h, p, s, n) == set_size_and_pinuse_of_free_chunk(clear_pinuse(h, n), p, s)

-----------------------------------------------------------------------------
\* Bins for small chunks: the last one freed is the first.
small_index(s) == s \div 8
SmallBins == 0 .. small_index(MIN_LARGE_SIZE) - 1
insert_small_chunk(h, p, s) == [Put(h, p + 8, 8, Link) EXCEPT !.small[small_index(s)] = <<p>> \o @]
Unlinked(list, p) == RemoveAt(list, CHOOSE k \in DOMAIN list : list[k] = p)
unlink_small_chunk(h, p, s) == [h EXCEPT !.small[small_index(s)] = Unlinked(@, p)]
unlink_first_small_chunk(h, i) == [h EXCEPT !.small[i] = Tail(@)]

\* The chunk that small requests are preferably served from is replaced, and binned.
replace_dv(h, p, s) ==
    [(IF h.dvsize # 0 THEN insert_small_chunk(h, h.dv, h.dvsize) ELSE h) EXCEPT !.dv = p, !.dvsize = s]

-----------------------------------------------------------------------------
\* Bins for large chunks: two for each power of two, the last one for all the rest.
TreeBins == 0 .. NTREEBINS - 1
Log2(x) == CHOOSE k \in 0 .. SizeBits : Two[k] <= x /\ x < Two[k + 1]
compute_tree_index(s) ==
    LET x == s \div MIN_LARGE_SIZE
    IN  IF x = 0 THEN 0
        ELSE IF x >= Two[NTREEBINS \div 2] THEN NTREEBINS - 1
        ELSE (2 * Log2(x)) + ((s \div Two[Log2(x) + TREEBIN_SHIFT - 1]) % 2)
minsize_for_tree_index(i) == LET half == Two[(i \div 2) + TREEBIN_SHIFT - 1] IN (2 + (i % 2)) * half

\* The bits of a size that the trie tells apart, and the way they lead.
bit_for_tree_index(i) == IF i = NTREEBINS - 1 THEN SizeBits - 1 ELSE (i \div 2) + TREEBIN_SHIFT - 2
Way(s, i, n) == [d \in 1 .. n |-> (s \div Two[bit_for_tree_index(i) + 1 - d]) % 2]
Depths(i) == 0 .. bit_for_tree_index(i) + 1
RingAt(h, i, path) == h.tree[i][path]
SizeAt(h, i, path) == chunksize(h, Head(RingAt(h, i, path)))

\* A chunk goes behind the first of its size, or becomes a node where the way ends.
Joined(ring, p) == <<Head(ring), p>> \o Tail(ring)
Stop(h, i, s) == Min({n \in Depths(i) : Way(s, i, n) \notin DOMAIN h.tree[i] \/ SizeAt(h, i, Way(s, i, n)) = s})
insert_large_chunk(h, p, s) ==
    LET i == compute_tree_index(s)
        path == Way(s, i, Stop(h, i, s))
        ring == IF path \in DOMAIN h.tree[i] THEN Joined(h.tree[i][path], p) ELSE <<p>>
    IN  [Put(h, p + 8, 24, Link) EXCEPT !.tree[i] = [q \in DOMAIN @ \cup {path} |-> IF q = path THEN ring ELSE @[q]]]

\* The nodes from one on downwards, always to the child that is picked.  A node's leaf
\* prefers the right child.
Children(tree, path) == {b \in {0, 1} : Append(path, b) \in DOMAIN tree}
Along(tree, path, pick(_)) ==
    {q \in DOMAIN tree : /\ IsPrefix(path, q)
                         /\ \A d \in Len(path) + 1 .. Len(q) : q[d] = pick(Children(tree, SubSeq(q, 1, d - 1)))}
Leaf(tree, path) == CHOOSE q \in Along(tree, path, Max) : Children(tree, q) = {}
LeftMost(tree, path) == Along(tree, path, Min)

\* A chunk leaves its ring; the first is followed by the last, the only one by the
\* chunks of a leaf below it.
ReplacedByChild(tree, path) == Append(path, Max(Children(tree, path)))      \* mistake
Replacement(tree, path) == Leaf(tree, path)
Dropped(tree, path) == [q \in DOMAIN tree \ {path} |-> tree[q]]
unlink_large_chunk(h, p, s) ==
    LET i == compute_tree_index(s)
        tree == h.tree[i]
        path == CHOOSE q \in DOMAIN tree : p \in ToSet(tree[q])
        ring == tree[path]
        first == IF p = Head(ring) THEN <<Last(ring)>> \o SubSeq(ring, 2, Len(ring) - 1)
                 ELSE Unlinked(ring, p)
        leaf == Replacement(tree, path)
    IN  IF Len(ring) > 1 THEN [h EXCEPT !.tree[i][path] = first]
        ELSE IF Children(tree, path) = {} THEN [h EXCEPT !.tree[i] = Dropped(tree, path)]
        ELSE [h EXCEPT !.tree[i] = Dropped([tree EXCEPT ![path] = tree[leaf]], leaf)]

insert_chunk(h, p, s) == IF is_small(s) THEN insert_small_chunk(h, p, s) ELSE insert_large_chunk(h, p, s)
unlink_chunk(h, p, s) == IF is_small(s) THEN unlink_small_chunk(h, p, s) ELSE unlink_large_chunk(h, p, s)

-----------------------------------------------------------------------------
\* What the debugging code asserts (do_check_malloc_state).
is_initialized(h) == h.top # 0
Stops(h, p) == p = h.top \/ ~IsHead(h, p) \/ next_chunk(h, p) \notin p + 1 .. End
Walk(h) ==
    LET from[p \in Base .. End] ==
            IF Stops(h, p) THEN [seen |-> {}, sum |-> 0]
            ELSE LET rest == from[next_chunk(h, p)] IN [seen |-> {p} \cup rest.seen, sum |-> chunksize(h, p) + rest.sum]
    IN  from[Base]
Chunks(h) == IF is_initialized(h) THEN Walk(h).seen ELSE {}
Binned(h) == UNION ({ToSet(h.small[i]) : i \in SmallBins} \cup
                    UNION {{ToSet(h.tree[i][q]) : q \in DOMAIN h.tree[i]} : i \in TreeBins})
next_pinuse(h, p) == IsHead(h, next_chunk(h, p)) /\ pinuse(h, next_chunk(h, p))

check_inuse_chunk(h, p) ==
    /\ cinuse(h, p) /\ next_pinuse(h, p)
    /\ pinuse(h, p) \/ (Word(h, p).k = "foot" /\ IsHead(h, p - prev_foot(h, p))
                           /\ next_chunk(h, p - prev_foot(h, p)) = p)
check_free_chunk(h, p) ==
    LET next == next_chunk(h, p)
    IN  /\ ~cinuse(h, p) /\ ~next_pinuse(h, p) /\ pinuse(h, p)
        /\ chunksize(h, p) % 8 = 0 /\ chunksize(h, p) >= MIN_CHUNK_SIZE
        /\ Word(h, next) = Foot(chunksize(h, p))
        /\ next = h.top \/ (IsHead(h, next) /\ cinuse(h, next))
check_top_chunk(h) ==
    /\ IsHead(h, h.top) /\ chunksize(h, h.top) = h.topsize /\ h.topsize > 0
    /\ h.topsize = Base + h.seg_size - h.top - TOP_FOOT_SIZE
    /\ pinuse(h, h.top) /\ ~next_pinuse(h, h.top)
check_tree(h, i) ==
    \A q \in DOMAIN h.tree[i] :
        LET s == SizeAt(h, i, q)
            both == Children(h.tree[i], q) = {0, 1}
        IN  /\ \A p \in ToSet(h.tree[i][q]) : IsHead(h, p) /\ chunksize(h, p) = s /\ check_free_chunk(h, p)
            /\ s >= MIN_LARGE_SIZE /\ compute_tree_index(s) = i
            /\ s >= minsize_for_tree_index(i) /\ (i < NTREEBINS - 1 => s < minsize_for_tree_index(i + 1))
            /\ q = Way(s, i, Len(q)) /\ (q # <<>> => Front(q) \in DOMAIN h.tree[i])
            /\ both => SizeAt(h, i, Append(q, 0)) < SizeAt(h, i, Append(q, 1))
check_smallbin(h, i) ==
    \A p \in ToSet(h.small[i]) : IsHead(h, p) /\ chunksize(h, p) = 8 * i /\ check_free_chunk(h, p)
traverse_and_check(h) ==
    \A p \in Chunks(h) : IF cinuse(h, p) THEN p \notin Binned(h) /\ check_inuse_chunk(h, p)
                         ELSE (p = h.dv \/ p \in Binned(h)) /\ check_free_chunk(h, p)
Total(h) == Walk(h).sum + h.topsize + TOP_FOOT_SIZE
check_malloc_state(h) ==
    is_initialized(h) =>
        /\ \A i \in SmallBins : check_smallbin(h, i)
        /\ \A i \in TreeBins : check_tree(h, i)
        /\ h.dvsize # 0 => /\ h.dv \in Chunks(h) \ Binned(h) /\ h.dvsize = chunksize(h, h.dv)
                           /\ h.dvsize >= MIN_CHUNK_SIZE
        /\ check_top_chunk(h) /\ h.top \notin Binned(h)
        /\ traverse_and_check(h)
        /\ Total(h) <= h.footprint /\ h.footprint <= h.max_footprint
=============================================================================
