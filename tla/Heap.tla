-------------------------------- MODULE Heap --------------------------------
(***************************************************************************)
(* The heap's calls (malloc.c): malloc, free, calloc, realloc, memalign,   *)
(* independent_calloc and independent_comalloc, malloc_trim, and sbrk,     *)
(* which only they call and which never gives memory back.                 *)
(*                                                                         *)
(* The user of a block fills it, and looks at what it holds when a call    *)
(* says what should be there.  The rest of memory holds junk.              *)
(* A heap that sbrk refuses memory takes the refusal, 0, for an address:   *)
(* what it builds there is not followed (see Exhausted).                   *)
(***************************************************************************)
EXTENDS HeapChunks

CONSTANTS
    Requests,      \* sizes that are asked for
    Regrown,       \* sizes realloc is called with
    Alignments,    \* alignments memalign is called with
    Arrays,        \* <<n_elements, elem_size>> of calloc
    Groups,        \* sizes of the elements of independent_comalloc
    Uses,          \* [first, calls]: what a use of the heap begins with, and how many calls follow;
                   \* a first call is [op |-> "malloc", n |-> size], or "free" of a block of that size
    Slack          \* what an allocation may need besides its bytes

VARIABLES
    h,             \* memory and malloc_state
    live,          \* the requested size of each block in use, by its address
    call,          \* the last call, its result, and what the user saw there
    first,         \* the calls that come first
    calls          \* calls that may follow

vars == <<h, live, call, first, calls>>

\* Calls of functions by functions: nothing follows once the heap is lost.
Then(g, next(_)) == IF g.broken THEN g ELSE next(g)
Answer(g, mem) == [g EXCEPT !.ret = mem]
Holds(g, mem, n, word) == \A a \in mem .. mem + n - 1 : a % 4 = 0 => Word(g, a) = word

-----------------------------------------------------------------------------
\* Memory from sbrk.
granularity_align(s) == Wrap(s + 8) - (Wrap(s + 8) % 8)
Room(g, n) == g.brk + n <= End
init_top(g, p, psize) ==
    SetHead(SetHead([g EXCEPT !.top = p, !.topsize = psize, !.trim_check = trim_threshold], p, psize, FALSE, TRUE),
            p + psize, TOP_FOOT_SIZE, FALSE, FALSE)

\* 0 is no failure for sys_alloc: it goes on with a segment there, and answers with the
\* first chunk in it.
Exhausted(g) == [Answer(g, chunk2mem(0)) EXCEPT !.broken = TRUE]

\* The segment grows by what sbrk gave behind it; the first one begins there.
Appended(g, n) ==
    LET f == Wrap(g.footprint + n)
        grown == [g EXCEPT !.brk = @ + n, !.seg_size = @ + n, !.footprint = f, !.max_footprint = Max({@, f})]
    IN  IF is_initialized(g) THEN init_top(grown, g.top, g.topsize + n) ELSE init_top(grown, g.brk, n - TOP_FOOT_SIZE)

SplitTop(g, nb) ==
    Answer(set_size_and_pinuse_of_inuse_chunk(
               SetHead([g EXCEPT !.top = @ + nb, !.topsize = @ - nb], g.top + nb, g.topsize - nb, FALSE, TRUE),
               g.top, nb),
           chunk2mem(g.top))
TopServesAll(g, nb) == nb <= g.topsize + TOP_FOOT_SIZE                      \* mistake
TopServes(g, nb) == nb < g.topsize
FromTop(g, nb) == IF TopServes(g, nb) THEN SplitTop(g, nb) ELSE Answer(g, 0)

Extended(g, nb, asize) == IF Room(g, asize) THEN FromTop(Appended(g, asize), nb) ELSE Exhausted(g)
sys_alloc(g, nb) ==
    LET missing == granularity_align(nb - g.topsize + TOP_FOOT_SIZE + 1)
        whole == granularity_align(nb + TOP_FOOT_SIZE + 1)
    IN  IF g.contiguous /\ missing < HALF_MAX_SIZE_T THEN Extended(g, nb, missing)
        ELSE IF whole < HALF_MAX_SIZE_T THEN Extended([g EXCEPT !.contiguous = FALSE], nb, whole)
        ELSE Answer([g EXCEPT !.contiguous = FALSE], 0)

\* sbrk never shrinks, so that trimming only stops further attempts.
should_trim(g, s) == s > g.trim_check
sys_trim(g, pad) == IF pad < MAX_REQUEST /\ is_initialized(g) THEN [g EXCEPT !.trim_check = MAX_SIZE_T] ELSE g

-----------------------------------------------------------------------------
\* Chunks from a tree.  The remainder is a chunk if it is large enough for one.
Fits(g, i, paths, nb) == {q \in paths : SizeAt(g, i, q) >= nb}
SmallestAt(g, i, paths) ==
    CHOOSE p \in {Head(RingAt(g, i, q)) : q \in paths} : \A q \in paths : chunksize(g, p) <= SizeAt(g, i, q)
LeastTree(g, from) == LET s == {i \in TreeBins : i >= from /\ DOMAIN g.tree[i] # {}} IN IF s = {} THEN -1 ELSE Min(s)

\* The nodes on the way of nb, and the deepest subtree to the right of that way.
OnWay(g, i, nb) == {q \in DOMAIN g.tree[i] : q = Way(nb, i, Len(q))}
NoSubtree(g, i, nb) == {}                                                   \* mistake
Untaken(g, i, nb) ==
    LET right == {q \in DOMAIN g.tree[i] : /\ q # <<>> /\ Last(q) = 1
                                           /\ Front(q) \in OnWay(g, i, nb) /\ q \notin OnWay(g, i, nb)}
    IN  IF right = {} THEN {} ELSE LeftMost(g.tree[i], CHOOSE q \in right : \A r \in right : Len(r) <= Len(q))
tree_fit(g, nb) ==
    LET i == compute_tree_index(nb)
        here == Fits(g, i, OnWay(g, i, nb) \cup Untaken(g, i, nb), nb)
        next == LeastTree(g, i + 1)
    IN  IF here # {} THEN SmallestAt(g, i, here)
        ELSE IF next = -1 THEN 0
        ELSE SmallestAt(g, next, LeftMost(g.tree[next], <<>>))

TakenWhole(g, v, nb) == set_inuse_and_pinuse(g, v, chunksize(g, v))
TakenSplit(g, v, nb, binned(_, _, _)) ==
    binned(set_size_and_pinuse_of_free_chunk(set_size_and_pinuse_of_inuse_chunk(g, v, nb), v + nb, chunksize(g, v) - nb),
           v + nb, chunksize(g, v) - nb)
TreeTake(g, v, nb, binned(_, _, _)) ==
    Answer(Then(unlink_large_chunk(g, v, chunksize(g, v)), LAMBDA u :
               IF chunksize(u, v) - nb < MIN_CHUNK_SIZE THEN TakenWhole(u, v, nb) ELSE TakenSplit(u, v, nb, binned)),
           chunk2mem(v))
tmalloc_small(g, nb) ==
    LET i == LeastTree(g, 0) IN TreeTake(g, SmallestAt(g, i, LeftMost(g.tree[i], <<>>)), nb, replace_dv)

-----------------------------------------------------------------------------
\* malloc.
ExhaustDv(g) == Answer(set_inuse_and_pinuse([g EXCEPT !.dv = 0, !.dvsize = 0], g.dv, g.dvsize), chunk2mem(g.dv))
SplitDv(g, nb) ==
    Answer(set_size_and_pinuse_of_inuse_chunk(
               set_size_and_pinuse_of_free_chunk([g EXCEPT !.dv = @ + nb, !.dvsize = @ - nb], g.dv + nb, g.dvsize - nb),
               g.dv, nb),
           chunk2mem(g.dv))
FromDvOrTop(g, nb) ==
    IF nb <= g.dvsize THEN IF g.dvsize - nb >= MIN_CHUNK_SIZE THEN SplitDv(g, nb) ELSE ExhaustDv(g)
    ELSE IF TopServes(g, nb) THEN SplitTop(g, nb)
    ELSE sys_alloc(g, nb)

SmallFits(g, from) == {i \in SmallBins : i >= from /\ g.small[i] # <<>>}
FromSmallBin(g, i) ==
    Answer(set_inuse_and_pinuse(unlink_first_small_chunk(g, i), Head(g.small[i]), 8 * i), chunk2mem(Head(g.small[i])))
SplitSmallBin(g, i, nb) ==
    Answer(TakenSplit(unlink_first_small_chunk(g, i), Head(g.small[i]), nb, replace_dv), chunk2mem(Head(g.small[i])))
MallocSmall(g, nb) ==
    LET at == small_index(nb)
    IN  IF SmallFits(g, at) \cap {at, at + 1} # {} THEN FromSmallBin(g, Min(SmallFits(g, at)))
        ELSE IF nb <= g.dvsize THEN FromDvOrTop(g, nb)
        ELSE IF SmallFits(g, at) # {} THEN SplitSmallBin(g, Min(SmallFits(g, at)), nb)
        ELSE IF LeastTree(g, 0) # -1 THEN tmalloc_small(g, nb)
        ELSE FromDvOrTop(g, nb)
MallocLarge(g, nb) ==
    Then(g, LAMBDA u :
        \* The wrapped difference is the whole size when dv is too small.
        LET v == tree_fit(u, nb)
        IN  IF v # 0 /\ chunksize(u, v) - nb < Wrap(u.dvsize - nb) THEN TreeTake(u, v, nb, insert_chunk)
            ELSE FromDvOrTop(u, nb))
dlmalloc(g, bytes) ==
    IF bytes <= MAX_SMALL_REQUEST THEN MallocSmall(g, request2size(bytes))
    ELSE IF bytes >= MAX_REQUEST THEN FromDvOrTop(g, MAX_SIZE_T)
    ELSE MallocLarge(g, pad_request(bytes))

-----------------------------------------------------------------------------
\* free: with the chunk before, then with the one behind.
MergedTop(g, p, psize) ==
    LET top == SetHead([g EXCEPT !.topsize = @ + psize, !.top = p], p, g.topsize + psize, FALSE, TRUE)
        off == IF p = g.dv THEN [top EXCEPT !.dv = 0, !.dvsize = 0] ELSE top
    IN  IF should_trim(off, off.topsize) THEN sys_trim(off, 0) ELSE off
MergedDv(g, p, psize) ==
    set_size_and_pinuse_of_free_chunk([g EXCEPT !.dvsize = @ + psize, !.dv = p], p, g.dvsize + psize)
MergedNext(g, p, psize, n) ==
    Then(set_size_and_pinuse_of_free_chunk(unlink_chunk(g, n, chunksize(g, n)), p, psize + chunksize(g, n)), LAMBDA u :
        IF p = u.dv THEN [u EXCEPT !.dvsize = chunksize(u, p)] ELSE insert_chunk(u, p, chunksize(u, p)))
FreeForward(g, p, psize) ==
    IF cinuse(g, p + psize) THEN insert_chunk(set_free_with_pinuse(g, p, psize, p + psize), p, psize)
    ELSE IF p + psize = g.top THEN MergedTop(g, p, psize)
    ELSE IF p + psize = g.dv THEN MergedDv(g, p, psize)
    ELSE MergedNext(g, p, psize, p + psize)
FreeBackward(g, p, psize) ==
    LET prev == p - prev_foot(g, p)
        all == prev_foot(g, p) + psize
    IN  IF prev # g.dv THEN FreeForward(unlink_chunk(g, prev, prev_foot(g, p)), prev, all)
        ELSE IF cinuse(g, p + psize) THEN set_free_with_pinuse([g EXCEPT !.dvsize = all], prev, all, p + psize)
        ELSE FreeForward(g, prev, all)
dlfree(g, mem) ==
    LET p == mem2chunk(mem)
    IN  IF mem = 0 THEN g
        ELSE IF pinuse(g, p) THEN FreeForward(g, p, chunksize(g, p)) ELSE FreeBackward(g, p, chunksize(g, p))

-----------------------------------------------------------------------------
\* calloc.
Wide(n) == n >= Two[SizeBits \div 2]
ProductWrapped(n, s) == Wrap(n * s)                                         \* mistake
Product(n, s) ==
    IF n # 0 /\ (Wide(n) \/ Wide(s)) /\ Wrap(n * s) \div n # s THEN MAX_SIZE_T ELSE Wrap(n * s)
dlcalloc(g, n, s) ==
    Then(dlmalloc(g, Product(n, s)), LAMBDA u : IF u.ret = 0 THEN u ELSE Put(u, u.ret, Product(n, s), Zeros))

\* realloc: in place, into top, or a new block with what fits of the old one's content.
Copied(g, from, to, n) ==
    [g EXCEPT !.mem = Over([a \in Inside(to, n) |-> Word(g, from + a - to)], @)]
Shrunk(g, p, nb, rest) ==
    IF rest < MIN_CHUNK_SIZE THEN g
    ELSE Then(set_inuse(set_inuse(g, p, nb), p + nb, rest), LAMBDA u : dlfree(u, chunk2mem(p + nb)))
IntoTop(g, p, nb, all) ==
    SetHead([set_inuse(g, p, nb) EXCEPT !.top = p + nb, !.topsize = all - nb], p + nb, all - nb, FALSE, TRUE)
Moved(g, p, bytes) ==
    LET usable == chunksize(g, p) - CHUNK_OVERHEAD
    IN  Then(dlmalloc(g, bytes), LAMBDA u :
            IF u.ret = 0 THEN u
            ELSE Answer(dlfree(Copied(u, chunk2mem(p), u.ret, Min({usable, bytes})), chunk2mem(p)), u.ret))
internal_realloc(g, oldmem, bytes) ==
    LET p == mem2chunk(oldmem)
        size == chunksize(g, p)
        nb == request2size(bytes)
    IN  IF bytes >= MAX_REQUEST THEN Answer(g, 0)
        ELSE IF size >= nb THEN Answer(Shrunk(g, p, nb, size - nb), oldmem)
        ELSE IF p + size = g.top /\ size + g.topsize > nb THEN Answer(IntoTop(g, p, nb, size + g.topsize), oldmem)
        ELSE Moved(g, p, bytes)

dlrealloc(g, oldmem, bytes) == IF oldmem = 0 THEN dlmalloc(g, bytes) ELSE internal_realloc(g, oldmem, bytes)

\* memalign: a chunk with room for the alignment, of which the ends are given back.
PowerOfTwo(alignment) == IF alignment <= MIN_CHUNK_SIZE THEN MIN_CHUNK_SIZE ELSE Two[Min({k \in 0 .. SizeBits : Two[k] >= alignment})]
AlignedUp(mem, a) == ((mem + a - 1) \div a) * a
AlignedChunk(p, a) ==
    LET br == mem2chunk(AlignedUp(chunk2mem(p), a))
    IN  IF br = p \/ br - p >= MIN_CHUNK_SIZE THEN br ELSE br + a
Trimmed(g, q, nb, answer(_)) ==
    LET size == chunksize(g, q)
    IN  IF size > nb + MIN_CHUNK_SIZE
        THEN Then(set_inuse(set_inuse(g, q, nb), q + nb, size - nb), LAMBDA u : dlfree(answer(u), chunk2mem(q + nb)))
        ELSE answer(g)
internal_memalign(g, alignment, bytes) ==
    LET a == PowerOfTwo(alignment)
        nb == request2size(bytes)
    IN  IF alignment <= 8 THEN dlmalloc(g, bytes)
        ELSE IF bytes >= MAX_REQUEST - a THEN Answer(g, 0)
        ELSE Then(dlmalloc(g, nb + a + MIN_CHUNK_SIZE - CHUNK_OVERHEAD), LAMBDA u :
            IF u.ret = 0 THEN u
            ELSE LET p == mem2chunk(u.ret)
                     q == AlignedChunk(p, a)
                 IN  Answer(IF q = p THEN Trimmed(u, p, nb, LAMBDA v : v)
                            ELSE Trimmed(set_inuse(set_inuse(u, q, chunksize(u, p) - (q - p)), p, q - p), q, nb,
                                         LAMBDA v : dlfree(v, chunk2mem(p))),
                            chunk2mem(q)))

\* Several blocks out of one chunk, and the array of their addresses behind them unless
\* the caller has one.  The last block takes what is left.
Offset(sizes, i) ==
    LET sum[j \in 1 .. Len(sizes) + 1] == IF j = 1 THEN 0 ELSE sum[j - 1] + request2size(sizes[j - 1]) IN sum[i]
\* What ialloc adds up without a look at the limit.
Sizes == 0 .. MAX_SIZE_T
ASSUME RequestAssumption ==
    /\ Requests \subseteq Sizes /\ Regrown \subseteq Sizes /\ Arrays \subseteq Sizes \X Sizes
    /\ Alignments \subseteq (0 .. HALF_MAX_SIZE_T + 1) \X Sizes
    /\ Groups \subseteq Seq(Sizes)
    /\ \A s \in Groups : Offset(s, Len(s) + 1) + request2size(4 * Len(s)) <= MAX_SIZE_T
    /\ \A u \in Uses : u.first \in Seq([op : {"malloc", "free"}, n : Sizes])
ArraySize(sizes, given) == IF given THEN 0 ELSE request2size(4 * Len(sizes))
Cut(g, p, sizes, total) ==
    LET heads == [a \in {p + Offset(sizes, i) + 4 : i \in DOMAIN sizes} |->
                     LET i == CHOOSE j \in DOMAIN sizes : a = p + Offset(sizes, j) + 4
                     IN  HeadWord(IF i = Len(sizes) THEN total - Offset(sizes, i) ELSE request2size(sizes[i]), TRUE, TRUE)]
    IN  [g EXCEPT !.mem = Over(heads, @)]
Group(g, sizes, given, all) ==
    LET p == mem2chunk(g.ret)
        contents == Offset(sizes, Len(sizes) + 1)
    IN  IF given THEN Cut(g, p, sizes, all)
        ELSE Answer(Cut(set_size_and_pinuse_of_inuse_chunk(g, p + contents, all - contents), p, sizes, contents),
                    chunk2mem(p + contents))
ialloc(g, sizes, clear, given) ==
    IF sizes = <<>> THEN [(IF given THEN Answer(g, 0) ELSE dlmalloc(g, 0)) EXCEPT !.parts = <<>>]
    ELSE Then(dlmalloc(g, Offset(sizes, Len(sizes) + 1) + ArraySize(sizes, given) - CHUNK_OVERHEAD), LAMBDA u :
        IF u.ret = 0 THEN u
        ELSE Then(IF clear THEN Put(u, u.ret, chunksize(u, mem2chunk(u.ret)) - 4 - ArraySize(sizes, given), Zeros) ELSE u,
                  LAMBDA v : [Group(v, sizes, given, chunksize(v, mem2chunk(v.ret))) EXCEPT
                                 !.parts = [i \in DOMAIN sizes |-> v.ret + Offset(sizes, i)]]))

dlmalloc_usable_size(g, mem) ==
    IF mem # 0 /\ cinuse(g, mem2chunk(mem)) THEN chunksize(g, mem2chunk(mem)) - CHUNK_OVERHEAD ELSE 0

-----------------------------------------------------------------------------
\* The users.  What is no block, head, foot or link of a bin holds junk, whatever it was.
Links(g) == UNION {Inside(p + 8, IF is_small(chunksize(g, p)) THEN 8 ELSE 24) : p \in Binned(g)}
Kept(g, l, chunks) ==
    {p + 4 : p \in chunks \cup {g.top, g.top + g.topsize}} \cup {p + chunksize(g, p) : p \in {q \in chunks : ~cinuse(g, q)}}
        \cup Links(g) \cup UNION {Inside(b, l[b]) : b \in DOMAIN l}
Junked(g, kept, fresh, l) ==
    LET data == [a \in UNION {Inside(b, l[b]) : b \in fresh} |-> Data(CHOOSE b \in fresh : a \in Inside(b, l[b]))]
    IN  [g EXCEPT !.mem = Over(data, [a \in {w \in kept : Word(g, w) # Junk} |-> g.mem[a]]), !.ret = 0, !.parts = <<>>]
NewHeap ==
    [mem |-> [a \in {} |-> Junk], small |-> [i \in SmallBins |-> <<>>], tree |-> [i \in TreeBins |-> [q \in {} |-> <<>>]],
     dv |-> 0, dvsize |-> 0, top |-> 0, topsize |-> 0, seg_size |-> 0, footprint |-> 0, max_footprint |-> 0,
     trim_check |-> 0, contiguous |-> TRUE, brk |-> Base, broken |-> FALSE, ret |-> 0, parts |-> <<>>]

Rest(g, l, fresh) ==
    IF g.broken THEN [NewHeap EXCEPT !.broken = TRUE]
    ELSE IF is_initialized(g) THEN Junked(g, Kept(g, l, Chunks(g)), fresh, l)
    ELSE [g EXCEPT !.ret = 0]

Without(l, b) == [c \in DOMAIN l \ {b} |-> l[c]]
Blocks(parts, sizes) == [b \in ToSet(parts) |-> sizes[CHOOSE i \in DOMAIN parts : parts[i] = b]]
Intact(g, l) == \A b \in DOMAIN l : Holds(g, b, l[b], Data(b))

\* A call returned with the blocks of parts, of these sizes; l were in use besides.
Returned(op, arg, g, l, parts, sizes, seen) ==
    /\ live' = IF g.broken THEN l ELSE Over(Blocks(parts, sizes), l)
    /\ h' = Rest(g, live', ToSet(parts))
    /\ calls' = calls - 1
    /\ call' = [op |-> op, arg |-> arg, ret |-> g.ret, parts |-> IF g.broken THEN <<>> ELSE parts,
                seen |-> g.broken \/ (seen /\ Intact(g, l))]
OneOf(g) == IF g.ret = 0 THEN <<>> ELSE <<g.ret>>
Calls == ~h.broken /\ calls > 0

Malloc(n) == Calls /\ \E g \in {dlmalloc(h, n)} : Returned("malloc", n, g, live, OneOf(g), <<n>>, TRUE)
Calloc(n, s) ==
    /\ Calls
    /\ \E g \in {dlcalloc(h, n, s)} :
          Returned("calloc", <<n, s>>, g, live, OneOf(g), <<n * s>>,
                   g.ret = 0 \/ (n * s < MAX_REQUEST /\ Holds(g, g.ret, n * s, Zeros)))
Memalign(a, n) ==
    Calls /\ \E g \in {internal_memalign(h, a, n)} : Returned("memalign", <<a, n>>, g, live, OneOf(g), <<n>>, TRUE)
Independent(sizes, clear) ==
    /\ Calls
    /\ \E g \in {ialloc(h, sizes, clear, FALSE)} :
          Returned("independent", sizes, g, live, IF g.ret = 0 THEN <<>> ELSE g.parts \o <<g.ret>>,
                   sizes \o <<4 * Len(sizes)>>,
                   clear => \A i \in DOMAIN g.parts : Holds(g, g.parts[i], sizes[i], Zeros))
IndependentGiven(sizes) ==
    /\ Calls
    /\ \E g \in {ialloc(h, sizes, FALSE, TRUE)} :
          Returned("given", sizes, g, live, IF g.ret = 0 THEN <<>> ELSE g.parts, sizes, TRUE)
Realloc(b, n) ==
    /\ Calls
    /\ \E g \in {dlrealloc(h, b, n)} :
          IF g.ret = 0 \/ g.broken
          THEN Returned("realloc", <<b, n>>, g, live, <<>>, <<>>, TRUE)
          ELSE Returned("realloc", <<b, n>>, g, Without(live, b), <<g.ret>>, <<n>>,
                        Holds(g, g.ret, Min({n, live[b]}), Data(b)))
Free(b) ==
    Calls /\ \E g \in {dlfree(h, b)} : Returned("free", b, g, Without(live, b), <<>>, <<>>, Intact(g, Without(live, b)))
Trim(pad) == Calls /\ \E g \in {sys_trim(h, pad)} : Returned("trim", pad, g, live, <<>>, <<>>, TRUE)
Usable(b) ==
    /\ Calls /\ UNCHANGED <<h, live, calls>>
    /\ call' = [op |-> "usable", arg |-> b, ret |-> dlmalloc_usable_size(h, b), parts |-> <<>>, seen |-> TRUE]

\* A use of the heap begins with calls that are given; then any may follow.
First ==
    /\ first # <<>> /\ first' = Tail(first)
    /\ \/ Head(first).op = "malloc" /\ Malloc(Head(first).n)
       \/ Head(first).op = "free" /\ \E b \in DOMAIN live : live[b] = Head(first).n /\ Free(b)
Users ==
    \/ \E n \in Requests : Malloc(n)
    \/ \E a \in Arrays : Calloc(a[1], a[2])
    \/ \E a \in Alignments : Memalign(a[1], a[2])
    \/ \E s \in Groups, c \in BOOLEAN : Independent(s, c)
    \/ \E s \in Groups : IndependentGiven(s)
    \/ \E b \in DOMAIN live : Free(b) \/ Usable(b) \/ \E n \in Regrown : Realloc(b, n)
    \/ \E pad \in {0, MAX_REQUEST} : Trim(pad)

Init ==
    /\ h = NewHeap /\ live = [b \in {} |-> 0]
    /\ call = [op |-> "none", arg |-> 0, ret |-> 0, parts |-> <<>>, seen |-> TRUE]
    /\ \E u \in Uses : first = u.first /\ calls = Len(u.first) + u.calls
Next == First \/ (first = <<>> /\ UNCHANGED first /\ Users)
Spec == Init /\ [][Next]_vars

-----------------------------------------------------------------------------
\* Between calls the heap is what do_check_malloc_state of malloc.c asserts: every chunk
\* is either in use or in the one bin of its size, free chunks do not touch, and their
\* sizes add up to what sbrk gave.
HeapConsistent == ~h.broken => check_malloc_state(h)

\* A large request takes the smallest free chunk that is large enough, the one for small
\* requests included (malloc.c, dlmalloc and tmalloc_large).
FreeFits(n) == {chunksize(h, p) : p \in {q \in Chunks(h) : ~cinuse(h, q) /\ chunksize(h, q) >= pad_request(n)}}
BestFit ==
    [][(call'.op = "malloc" /\ call'.arg > MAX_SMALL_REQUEST /\ call'.arg < MAX_REQUEST /\ FreeFits(call'.arg) # {})
            => /\ call'.ret # 0 /\ mem2chunk(call'.ret) \in Chunks(h)
               /\ chunksize(h, mem2chunk(call'.ret)) = Min(FreeFits(call'.arg))]_vars

\* The users see an allocator: blocks apart from each other, aligned, as large as asked
\* for, with their contents kept.
Promised == INSTANCE Allocator WITH out <- h.broken, refused <- ~h.contiguous, Limit <- HALF_MAX_SIZE_T - 64
ImplementsAllocator == Promised!Spec
=============================================================================
