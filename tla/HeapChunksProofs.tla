-------------------------- MODULE HeapChunksProofs --------------------------
(***************************************************************************)
(* The chunks of the heap, for every memory, page size and way that blocks *)
(* are asked for: a heap is sound when chunks tile the segment, heads and  *)
(* feet say which of them are in use, and every free chunk is dv or in the *)
(* bin of its size, the large ones in a trie by the bits of it. What the   *)
(* setters of heads write, and entering and leaving a bin, is shown to     *)
(* lead from one such heap to another.                                     *)
(*                                                                         *)
(* Two, Log2 and the ways down a trie are recursive functions; that they   *)
(* are what their definitions say is shown by induction.                   *)
(***************************************************************************)
EXTENDS HeapChunks, SequenceTheorems, WellFoundedInduction, TLAPS

-----------------------------------------------------------------------------
(* What a sound heap is. *)

Eight(n) == n % 8 = 0

\* Chunks that begin at the members of C, with sizes sz, cover memory from Base to top.
Tiled(C, sz, top) ==
    /\ top \in Nat /\ Eight(top) /\ Base <= top /\ Base \in C \cup {top}
    /\ \A p \in C : /\ p \in Nat /\ Eight(p) /\ Base <= p
                    /\ sz[p] \in Nat /\ Eight(sz[p]) /\ sz[p] >= MIN_CHUNK_SIZE
                    /\ p + sz[p] \in C \cup {top} /\ p + sz[p] <= top
    /\ \A p, q \in C : p < q => p + sz[p] <= q
    /\ \A p \in C \cup {top} : p # Base => \E q \in C : q + sz[q] = p

\* Those of U are in use; no two others touch.  Nothing is said of those of X.
Parted(C, U, sz, X) == U \subseteq C \ X /\ X \subseteq C /\ \A p \in C \ (U \cup X) : p + sz[p] \in U

\* The words of memory say so.
HeadsAre(g, C, U, sz) ==
    \A p \in C : IsHead(g, p) /\ Word(g, p + 4).size = sz[p] /\ (Word(g, p + 4).cinuse <=> p \in U)
NextsAre(g, C, U, sz) ==
    \A p \in C : IsHead(g, p + sz[p]) /\ (Word(g, p + sz[p] + 4).pinuse <=> p \in U)
FeetAre(g, F, sz) == \A p \in F : Word(g, p + sz[p]) = Foot(sz[p])
Stored(g, C, U, sz, X) ==
    /\ HeadsAre(g, C \ X, U, sz) /\ NextsAre(g, C \ X, U, sz) /\ FeetAre(g, C \ (U \cup X), sz)
    /\ IsHead(g, Base) /\ Word(g, Base + 4).pinuse

\* The top chunk, with the record that ends the segment behind it, and what sbrk gave.
Topped(g) ==
    /\ g.topsize \in Nat /\ g.topsize > 0 /\ Eight(g.topsize)
    /\ IsHead(g, g.top) /\ Word(g, g.top + 4).size = g.topsize /\ ~Word(g, g.top + 4).cinuse
    /\ IsHead(g, g.top + g.topsize) /\ ~Word(g, g.top + g.topsize + 4).pinuse
    /\ g.brk = g.top + g.topsize + TOP_FOOT_SIZE /\ g.brk <= End
    /\ g.seg_size = g.brk - Base /\ g.footprint = g.seg_size
    /\ g.max_footprint \in Nat /\ g.footprint <= g.max_footprint

Fields == {"mem", "small", "tree", "dv", "dvsize", "top", "topsize", "seg_size", "footprint", "max_footprint",
           "trim_check", "contiguous", "brk", "broken", "ret", "parts"}

Layout(g, C, U, sz, X) ==
    /\ DOMAIN g = Fields
    /\ Tiled(C, sz, g.top) /\ Parted(C, U, sz, X) /\ Stored(g, C, U, sz, X) /\ Topped(g)

\* A list without repetition of the members of T.
Lists(s, T) == s \in Seq(T) /\ IsInjective(s) /\ T \subseteq ToSet(s)

\* The chunks of T in the trie of bin i.
SizeOf(tree, sz, q) == sz[Head(tree[q])]
RingsOf(tree, T, sz) ==
    /\ \A q \in DOMAIN tree : /\ tree[q] # <<>> /\ tree[q] \in Seq(T) /\ IsInjective(tree[q])
                              /\ \A k \in DOMAIN tree[q] : sz[tree[q][k]] = SizeOf(tree, sz, q)
    /\ \A p \in T : \E q \in DOMAIN tree : p \in ToSet(tree[q])
    /\ \A q, r \in DOMAIN tree : SizeOf(tree, sz, q) = SizeOf(tree, sz, r) => q = r
WaysOf(tree, i, sz) ==
    \A q \in DOMAIN tree : /\ Len(q) \in Depths(i) /\ q = Way(SizeOf(tree, sz, q), i, Len(q))
                           /\ \A n \in 0 .. Len(q) : Way(SizeOf(tree, sz, q), i, n) \in DOMAIN tree
TreeOf(tree, i, T, sz) == RingsOf(tree, T, sz) /\ WaysOf(tree, i, sz)

InSmall(G, sz, i) == {p \in G : sz[p] = 8 * i}
InTree(G, sz, i) == {p \in G : sz[p] >= MIN_LARGE_SIZE /\ compute_tree_index(sz[p]) = i}
BinnedAre(g, G, sz) ==
    /\ DOMAIN g.small = SmallBins /\ DOMAIN g.tree = TreeBins
    /\ \A i \in SmallBins : Lists(g.small[i], InSmall(G, sz, i))
    /\ \A i \in TreeBins : TreeOf(g.tree[i], i, InTree(G, sz, i), sz)

\* The free chunks of F: one may be dv, the others are in their bins.
Shelved(g, F, sz) ==
    /\ IF g.dv = 0 THEN g.dvsize = 0 ELSE g.dv \in F /\ g.dvsize = sz[g.dv]
    /\ BinnedAre(g, F \ {g.dv}, sz)

Sound(g, C, U, sz) == Layout(g, C, U, sz, {}) /\ Shelved(g, C \ U, sz)

-----------------------------------------------------------------------------
(* Words, heads and members of malloc_state. *)

\* What two heaps have in common that differ in memory only.
Bins(g, g2) == g2.small = g.small /\ g2.tree = g.tree /\ g2.dv = g.dv /\ g2.dvsize = g.dvsize
Tops(g, g2) ==
    /\ g2.top = g.top /\ g2.topsize = g.topsize /\ g2.brk = g.brk /\ g2.seg_size = g.seg_size
    /\ g2.footprint = g.footprint /\ g2.max_footprint = g.max_footprint
Status(g, g2) == g2.broken = g.broken /\ g2.ret = g.ret /\ g2.contiguous = g.contiguous
MemoryOnly(g, g2) == DOMAIN g2 = Fields /\ Bins(g, g2) /\ Tops(g, g2) /\ Status(g, g2)

\* Replacing memory leaves the members of malloc_state.
LEMMA MemorySet ==
    ASSUME NEW g, DOMAIN g = Fields, NEW m
    PROVE  MemoryOnly(g, [g EXCEPT !.mem = m]) /\ [g EXCEPT !.mem = m].mem = m
BY DEF MemoryOnly, Bins, Tops, Status, Fields

\* One word is set, and no other.
LEMMA SetWord ==
    ASSUME NEW g, DOMAIN g = Fields, NEW a, NEW w
    PROVE  /\ MemoryOnly(g, Set(g, a, w))
           /\ \A b : Word(Set(g, a, w), b) = IF b = a THEN w ELSE Word(g, b)
<1> DEFINE m == Over([b \in {a} |-> w], g.mem)
<1>1. Set(g, a, w) = [g EXCEPT !.mem = m]
  BY DEF Set
<1>2. \A b : (IF b \in DOMAIN m THEN m[b] ELSE Junk) = IF b = a THEN w ELSE Word(g, b)
  BY DEF Over, Word
<1> HIDE DEF m
<1> QED
  BY <1>1, <1>2, MemorySet DEF Word

\* The words within n bytes are set, and no others.
LEMMA PutWords ==
    ASSUME NEW g, DOMAIN g = Fields, NEW a, NEW n, NEW w
    PROVE  /\ MemoryOnly(g, Put(g, a, n, w))
           /\ \A b : Word(Put(g, a, n, w), b) = IF b \in Inside(a, n) THEN w ELSE Word(g, b)
<1> DEFINE m == Over([b \in Inside(a, n) |-> w], g.mem)
<1>1. Put(g, a, n, w) = [g EXCEPT !.mem = m]
  BY DEF Put
<1>2. \A b : (IF b \in DOMAIN m THEN m[b] ELSE Junk) = IF b \in Inside(a, n) THEN w ELSE Word(g, b)
  BY DEF Over, Word
<1> HIDE DEF m
<1> QED
  BY <1>1, <1>2, MemorySet DEF Word

\* Two writes to memory are one.
LEMMA MemoryTwice ==
    ASSUME NEW f, NEW g, NEW k, MemoryOnly(f, g), MemoryOnly(g, k)
    PROVE  MemoryOnly(f, k)
BY DEF MemoryOnly, Bins, Tops, Status

\* A head is read as the word it is.
LEMMA HeadReads ==
    ASSUME NEW g, NEW p, IsHead(g, p)
    PROVE  /\ g.mem[p + 4] = Word(g, p + 4) /\ chunksize(g, p) = Word(g, p + 4).size
           /\ cinuse(g, p) = Word(g, p + 4).cinuse /\ pinuse(g, p) = Word(g, p + 4).pinuse
           /\ next_chunk(g, p) = p + Word(g, p + 4).size
<1>1. g.mem[p + 4] = Word(g, p + 4)
  BY DEF IsHead, Word, Junk
<1> QED
  BY <1>1 DEF chunksize, cinuse, pinuse, next_chunk

\* The setters of heads.
HeadAt(g, p, s, c, b) == Word(g, p + 4) = HeadWord(s, c, b)
SetsWord(g, f, p, w) == MemoryOnly(g, f) /\ \A a : Word(f, a) = IF a = p + 4 THEN w ELSE Word(g, a)

\* A head is set to what is asked for.
LEMMA SetHeadWord ==
    ASSUME NEW g, DOMAIN g = Fields, NEW p, NEW s, NEW c, NEW b
    PROVE  SetsWord(g, SetHead(g, p, s, c, b), p, HeadWord(s, c, b))
BY SetWord DEF SetHead, SetsWord

\* The heads that the setters write, with their flags.
LEMMA SetHeadFlags ==
    ASSUME NEW g, DOMAIN g = Fields, NEW p, NEW s
    PROVE  /\ SetsWord(g, SetHead(g, p, s, TRUE, TRUE), p, HeadWord(s, TRUE, TRUE))
           /\ SetsWord(g, SetHead(g, p, s, FALSE, TRUE), p, HeadWord(s, FALSE, TRUE))
           /\ SetsWord(g, SetHead(g, p, s, FALSE, FALSE), p, HeadWord(s, FALSE, FALSE))
<1>1. \A c, b \in BOOLEAN : SetsWord(g, SetHead(g, p, s, c, b), p, HeadWord(s, c, b))
  BY SetHeadWord
<1> QED
  BY <1>1

\* Setting pinuse keeps what else a head says.
LEMMA SetPinuse ==
    ASSUME NEW g, DOMAIN g = Fields, NEW p
    PROVE  /\ MemoryOnly(g, set_pinuse(g, p))
           /\ \A a : a # p + 4 => Word(set_pinuse(g, p), a) = Word(g, a)
           /\ IsHead(set_pinuse(g, p), p) /\ Word(set_pinuse(g, p), p + 4).pinuse
           /\ IsHead(g, p) => /\ Word(set_pinuse(g, p), p + 4).size = Word(g, p + 4).size
                              /\ Word(set_pinuse(g, p), p + 4).cinuse = Word(g, p + 4).cinuse
<1>1. CASE IsHead(g, p)
  <2>1. \A b \in BOOLEAN : SetsWord(g, SetHead(g, p, chunksize(g, p), cinuse(g, p), b), p, HeadWord(chunksize(g, p), cinuse(g, p), b))
    BY SetHeadWord
  <2>2. SetsWord(g, set_pinuse(g, p), p, HeadWord(chunksize(g, p), cinuse(g, p), TRUE))
    BY <1>1, <2>1 DEF set_pinuse
  <2> QED
    BY <1>1, <2>2, HeadReads DEF IsHead, HeadWord, SetsWord
<1>2. CASE ~IsHead(g, p)
  <2>1. SetsWord(g, set_pinuse(g, p), p, HeadWord(0, FALSE, TRUE))
    BY <1>2, SetHeadFlags DEF set_pinuse
  <2> QED
    BY <1>2, <2>1 DEF IsHead, HeadWord, SetsWord
<1> QED
  BY <1>1, <1>2

\* Clearing pinuse keeps what else a head says.
LEMMA ClearPinuse ==
    ASSUME NEW g, DOMAIN g = Fields, NEW p, IsHead(g, p)
    PROVE  /\ MemoryOnly(g, clear_pinuse(g, p))
           /\ \A a : a # p + 4 => Word(clear_pinuse(g, p), a) = Word(g, a)
           /\ IsHead(clear_pinuse(g, p), p) /\ ~Word(clear_pinuse(g, p), p + 4).pinuse
           /\ Word(clear_pinuse(g, p), p + 4).size = Word(g, p + 4).size
           /\ Word(clear_pinuse(g, p), p + 4).cinuse = Word(g, p + 4).cinuse
<1>1. \A b \in BOOLEAN : SetsWord(g, SetHead(g, p, chunksize(g, p), cinuse(g, p), b), p, HeadWord(chunksize(g, p), cinuse(g, p), b))
  BY SetHeadWord
<1>2. SetsWord(g, clear_pinuse(g, p), p, HeadWord(chunksize(g, p), cinuse(g, p), FALSE))
  BY <1>1 DEF clear_pinuse
<1> QED
  BY <1>2, HeadReads DEF IsHead, HeadWord, SetsWord

\* A chunk that is free between chunks in use; the word behind it is its foot.
FreeWords(g, f, p, s) ==
    /\ MemoryOnly(g, f)
    /\ \A a : Word(f, a) = IF a = p + s THEN Foot(s) ELSE IF a = p + 4 THEN HeadWord(s, FALSE, TRUE) ELSE Word(g, a)

\* set_size_and_pinuse_of_free_chunk writes those words.
LEMMA SetFree ==
    ASSUME NEW g, DOMAIN g = Fields, NEW p \in Nat, NEW s \in Nat
    PROVE  FreeWords(g, set_size_and_pinuse_of_free_chunk(g, p, s), p, s)
<1> DEFINE e == SetHead(g, p, s, FALSE, TRUE)
           f == Set(e, p + s, Foot(s))
<1>1. set_size_and_pinuse_of_free_chunk(g, p, s) = f
  BY DEF set_size_and_pinuse_of_free_chunk
<1>2. SetsWord(g, e, p, HeadWord(s, FALSE, TRUE))
  BY SetHeadFlags
<1> HIDE DEF e
<1>3. DOMAIN e = Fields
  BY <1>2 DEF SetsWord, MemoryOnly
<1>4. MemoryOnly(e, f) /\ \A a : Word(f, a) = IF a = p + s THEN Foot(s) ELSE Word(e, a)
  BY <1>3, SetWord
<1> HIDE DEF f
<1>5. MemoryOnly(g, f)
  BY <1>2, <1>4, MemoryTwice DEF SetsWord
<1> QED
  BY <1>1, <1>2, <1>4, <1>5 DEF SetsWord, FreeWords

-----------------------------------------------------------------------------
(* Chunks tile memory, and are taken. *)

\* Where chunks can be: a chunk and the next one, or top, are 16 bytes apart or more.
Spaced(C, sz, top) ==
    /\ top \in Nat
    /\ \A p \in C : /\ p \in Nat /\ p < top /\ sz[p] \in Nat /\ sz[p] >= 16
                    /\ p + sz[p] \in C \cup {top} /\ p + sz[p] <= top
    /\ \A p, q \in C \cup {top} : p < q => p + 16 <= q
    /\ \A p, q \in C : p + sz[p] = q + sz[q] => p = q

\* Chunks that tile memory are apart by the smallest chunk.
LEMMA Gaps ==
    ASSUME NEW C, NEW sz, NEW top, Tiled(C, sz, top)
    PROVE  Spaced(C, sz, top)
BY DEF Tiled, Spaced, MIN_CHUNK_SIZE

\* A chunk and the one behind it become used: their heads.
UsedWords(g, f, p, s) ==
    /\ MemoryOnly(g, f)
    /\ \A a : a # p + 4 /\ a # p + s + 4 => Word(f, a) = Word(g, a)
    /\ IsHead(f, p) /\ Word(f, p + 4).size = s /\ Word(f, p + 4).cinuse
    /\ IsHead(f, p + s) /\ Word(f, p + s + 4).pinuse
    /\ IsHead(g, p + s) => /\ Word(f, p + s + 4).size = Word(g, p + s + 4).size
                           /\ Word(f, p + s + 4).cinuse = Word(g, p + s + 4).cinuse

\* set_inuse_and_pinuse writes those words, and that the one before is in use.
LEMMA SetInuseAndPinuse ==
    ASSUME NEW g, DOMAIN g = Fields, NEW p \in Nat, NEW s \in Nat, s > 0
    PROVE  UsedWords(g, set_inuse_and_pinuse(g, p, s), p, s) /\ Word(set_inuse_and_pinuse(g, p, s), p + 4).pinuse
<1> DEFINE e == SetHead(g, p, s, TRUE, TRUE)
           f == set_pinuse(e, p + s)
<1>1. set_inuse_and_pinuse(g, p, s) = f
  BY DEF set_inuse_and_pinuse
<1>2. SetsWord(g, e, p, HeadWord(s, TRUE, TRUE))
  BY SetHeadFlags
<1> HIDE DEF e
<1>3. DOMAIN e = Fields
  BY <1>2 DEF SetsWord, MemoryOnly
<1>4. /\ MemoryOnly(e, f)
      /\ \A a : a # p + s + 4 => Word(f, a) = Word(e, a)
      /\ IsHead(f, p + s) /\ Word(f, p + s + 4).pinuse
      /\ IsHead(e, p + s) => /\ Word(f, p + s + 4).size = Word(e, p + s + 4).size
                             /\ Word(f, p + s + 4).cinuse = Word(e, p + s + 4).cinuse
  BY <1>3, SetPinuse
<1> HIDE DEF f
<1>5. MemoryOnly(g, f)
  BY <1>2, <1>4, MemoryTwice DEF SetsWord
<1>6. p + 4 # p + s + 4 /\ Word(f, p + 4) = HeadWord(s, TRUE, TRUE)
  <2>1. p + 4 # p + s + 4
    OBVIOUS
  <2> QED
    BY <1>2, <1>4, <2>1 DEF SetsWord
<1>7. \A a : a # p + 4 /\ a # p + s + 4 => Word(f, a) = Word(g, a)
  BY <1>2, <1>4 DEF SetsWord
<1>8. Word(e, p + s + 4) = Word(g, p + s + 4)
  BY <1>2, <1>6 DEF SetsWord
<1> QED
  BY <1>1, <1>4, <1>5, <1>6, <1>7, <1>8 DEF UsedWords, IsHead, HeadWord

\* set_inuse writes them and keeps what the head says of the one before.
LEMMA SetInuse ==
    ASSUME NEW g, DOMAIN g = Fields, NEW p \in Nat, NEW s \in Nat, s > 0
    PROVE  /\ UsedWords(g, set_inuse(g, p, s), p, s)
           /\ IsHead(g, p) => (Word(set_inuse(g, p, s), p + 4).pinuse <=> Word(g, p + 4).pinuse)
<1> DEFINE b == IsHead(g, p) /\ pinuse(g, p)
           e == SetHead(g, p, s, TRUE, b)
           f == set_pinuse(e, p + s)
<1>1. set_inuse(g, p, s) = f
  BY DEF set_inuse
<1>2. SetsWord(g, e, p, HeadWord(s, TRUE, b))
  <2>1. \A c, d \in BOOLEAN : SetsWord(g, SetHead(g, p, s, c, d), p, HeadWord(s, c, d))
    BY SetHeadWord
  <2> QED
    BY <2>1
<1>9. IsHead(g, p) => (b <=> Word(g, p + 4).pinuse)
  BY HeadReads
<1> HIDE DEF e, b
<1>3. DOMAIN e = Fields
  BY <1>2 DEF SetsWord, MemoryOnly
<1>4. /\ MemoryOnly(e, f)
      /\ \A a : a # p + s + 4 => Word(f, a) = Word(e, a)
      /\ IsHead(f, p + s) /\ Word(f, p + s + 4).pinuse
      /\ IsHead(e, p + s) => /\ Word(f, p + s + 4).size = Word(e, p + s + 4).size
                             /\ Word(f, p + s + 4).cinuse = Word(e, p + s + 4).cinuse
  BY <1>3, SetPinuse
<1> HIDE DEF f
<1>5. MemoryOnly(g, f)
  BY <1>2, <1>4, MemoryTwice DEF SetsWord
<1>6. p + 4 # p + s + 4 /\ Word(f, p + 4) = HeadWord(s, TRUE, b)
  <2>1. p + 4 # p + s + 4
    OBVIOUS
  <2> QED
    BY <1>2, <1>4, <2>1 DEF SetsWord
<1>7. \A a : a # p + 4 /\ a # p + s + 4 => Word(f, a) = Word(g, a)
  BY <1>2, <1>4 DEF SetsWord
<1>8. Word(e, p + s + 4) = Word(g, p + s + 4)
  BY <1>2, <1>6 DEF SetsWord
<1> QED
  BY <1>1, <1>4, <1>5, <1>6, <1>7, <1>8, <1>9 DEF UsedWords, IsHead, HeadWord

\* A free chunk is taken as it is.
LEMMA LayoutTaken ==
    ASSUME NEW g, NEW C, NEW U, NEW sz, Layout(g, C, U, sz, {}), NEW v \in C \ U
    PROVE  LET f == set_inuse_and_pinuse(g, v, sz[v])
           IN  MemoryOnly(g, f) /\ Layout(f, C, U \cup {v}, sz, {})
<1> DEFINE f == set_inuse_and_pinuse(g, v, sz[v])
           n == v + sz[v]
<1> USE DEF Layout, Spaced
<1>1. Spaced(C, sz, g.top)
  BY Gaps
<1>2. UsedWords(g, f, v, sz[v]) /\ Word(f, v + 4).pinuse /\ sz[v] > 0
  <2>1. v \in Nat /\ sz[v] \in Nat /\ sz[v] > 0 /\ DOMAIN g = Fields
    BY <1>1
  <2> HIDE DEF Layout, Spaced
  <2> QED
    BY <2>1, SetInuseAndPinuse
<1> HIDE DEF f
<1>3. n \in U /\ n \in C /\ n # v /\ Base \in C \cup {g.top} /\ \A p \in C : p + sz[p] = v => p \in U
  BY <1>1 DEF Parted, Tiled
<1>4. MemoryOnly(g, f) /\ DOMAIN f = Fields /\ f.top = g.top /\ f.topsize = g.topsize
  BY <1>2 DEF UsedWords, MemoryOnly, Tops
<1>5. Parted(C, U \cup {v}, sz, {})
  BY DEF Parted
<1>6. HeadsAre(f, C, U \cup {v}, sz)
  <2> SUFFICES ASSUME NEW p \in C
               PROVE  IsHead(f, p) /\ Word(f, p + 4).size = sz[p] /\ (Word(f, p + 4).cinuse <=> p \in U \cup {v})
    BY DEF HeadsAre
  <2>1. IsHead(g, p) /\ Word(g, p + 4).size = sz[p] /\ (Word(g, p + 4).cinuse <=> p \in U)
    BY DEF Stored, HeadsAre
  <2> QED
    BY <1>1, <1>2, <2>1 DEF UsedWords, IsHead
<1>7. NextsAre(f, C, U \cup {v}, sz)
  <2> SUFFICES ASSUME NEW p \in C
               PROVE  IsHead(f, p + sz[p]) /\ (Word(f, p + sz[p] + 4).pinuse <=> p \in U \cup {v})
    BY DEF NextsAre
  <2>1. IsHead(g, p + sz[p]) /\ (Word(g, p + sz[p] + 4).pinuse <=> p \in U)
    BY DEF Stored, NextsAre
  <2> QED
    BY <1>1, <1>2, <1>3, <2>1 DEF UsedWords, IsHead
<1>8. FeetAre(f, C \ (U \cup {v}), sz)
  <2> SUFFICES ASSUME NEW p \in C \ (U \cup {v}) PROVE Word(f, p + sz[p]) = Foot(sz[p])
    BY DEF FeetAre
  <2>1. Word(g, p + sz[p]) = Foot(sz[p]) /\ p + sz[p] # v + 4 /\ p + sz[p] # n + 4
    BY <1>1, <1>3 DEF Stored, FeetAre
  <2> QED
    BY <1>2, <2>1 DEF UsedWords
<1>9. IsHead(f, Base) /\ Word(f, Base + 4).pinuse
  BY <1>1, <1>2, <1>3, HeapAssumption DEF UsedWords, Stored, IsHead
<1>10. Topped(f)
  BY <1>1, <1>2, <1>3, <1>4 DEF UsedWords, Topped, IsHead, MemoryOnly, Tops
<1>11. C \ {} = C /\ (U \cup {v}) \cup {} = U \cup {v}
  OBVIOUS
<1> QED
  BY <1>4, <1>5, <1>6, <1>7, <1>8, <1>9, <1>10, <1>11 DEF Stored, f

-----------------------------------------------------------------------------
(* Chunks are split and joined. *)

\* Sums and differences of multiples of eight are such.
LEMMA Eights ==
    ASSUME NEW m \in Int, NEW n \in Int, Eight(m), Eight(n)
    PROVE  Eight(m + n) /\ Eight(m - n)
BY DEF Eight

\* A chunk in two, and with the next one; top with a chunk, and the chunk before it with top.
Split(sz, C, x, n) == [p \in C \cup {x + n} |-> IF p = x THEN n ELSE IF p = x + n THEN sz[x] - n ELSE sz[p]]
Resized(sz, C, x, n) == [p \in C |-> IF p = x THEN n ELSE sz[p]]

\* A chunk cut in two leaves chunks that tile memory.
LEMMA TiledSplit ==
    ASSUME NEW C, NEW sz, NEW top, Tiled(C, sz, top), NEW x \in C, NEW n \in Nat, Eight(n), n >= 16, sz[x] - n >= 16
    PROVE  /\ x + n \notin C \cup {top} /\ Tiled(C \cup {x + n}, Split(sz, C, x, n), top)
           /\ \A p \in C : p # x => Split(sz, C, x, n)[p] = sz[p]
           /\ Split(sz, C, x, n)[x] = n /\ Split(sz, C, x, n)[x + n] = sz[x] - n
<1> DEFINE y == x + n
           D == C \cup {y}
           s == Split(sz, C, x, n)
<1> USE DEF Spaced
<1>1. Spaced(C, sz, top)
  BY Gaps
<1>2. y \in Nat /\ x < y /\ y < x + sz[x] /\ y + (sz[x] - n) = x + sz[x] /\ sz[x] - n \in Nat
  BY <1>1
<1>3. y \notin C \cup {top}
  BY <1>1, <1>2 DEF Tiled
<1>4. /\ \A p \in C : p # x => s[p] = sz[p]
      /\ s[x] = n /\ s[y] = sz[x] - n
  BY <1>2, <1>3 DEF Split
<1>5. Eight(y) /\ Eight(sz[x] - n)
  <2>1. x \in Int /\ sz[x] \in Int /\ Eight(x) /\ Eight(sz[x])
    BY DEF Tiled
  <2>2. Eight(x + n) /\ Eight(sz[x] - n)
    BY <2>1 DEF Eight
  <2> QED
    BY <2>2
<1> HIDE DEF s, y
<1>6. ASSUME NEW p \in D
      PROVE  /\ p \in Nat /\ Eight(p) /\ Base <= p
             /\ s[p] \in Nat /\ Eight(s[p]) /\ s[p] >= MIN_CHUNK_SIZE
             /\ p + s[p] \in D \cup {top} /\ p + s[p] <= top
  <2>1. CASE p = x
    BY <1>1, <1>2, <1>4, <2>1, HeapAssumption DEF Tiled, MIN_CHUNK_SIZE, y
  <2>2. CASE p = y
    BY <1>1, <1>2, <1>4, <1>5, <2>2, HeapAssumption DEF Tiled, MIN_CHUNK_SIZE
  <2>3. CASE p \in C /\ p # x
    BY <1>4, <2>3 DEF Tiled
  <2> QED
    BY <2>1, <2>2, <2>3
<1>7. \A p, q \in D : p < q => p + s[p] <= q
  <2>1. \A p, q \in C : p < q => p + sz[p] <= q
    BY DEF Tiled
  <2> QED
    BY <1>1, <1>2, <1>4, <2>1 DEF y
<1>8. \A p \in D \cup {top} : p # Base => \E q \in D : q + s[q] = p
  <2>1. ASSUME NEW p \in C \cup {top}, p # Base PROVE \E q \in D : q + s[q] = p
    <3>1. PICK q \in C : q + sz[q] = p
      BY <2>1 DEF Tiled
    <3>2. CASE q = x
      BY <1>2, <1>4, <3>1, <3>2
    <3> QED
      BY <1>4, <3>1, <3>2
  <2>2. x + s[x] = y
    BY <1>4 DEF y
  <2> QED
    BY <2>1, <2>2
<1>9. Tiled(D, s, top)
  BY <1>6, <1>7, <1>8 DEF Tiled
<1> QED
  BY <1>3, <1>4, <1>9 DEF s, y

\* Two neighbours that are joined leave chunks that tile memory.
LEMMA TiledJoin ==
    ASSUME NEW C, NEW sz, NEW top, Tiled(C, sz, top), NEW x \in C, x + sz[x] \in C
    PROVE  LET n == x + sz[x]
               s == Resized(sz, C \ {n}, x, sz[x] + sz[n])
           IN  /\ x # n /\ Tiled(C \ {n}, s, top)
               /\ s[x] = sz[x] + sz[n] /\ \A p \in C \ {n} : p # x => s[p] = sz[p]
<1> DEFINE n == x + sz[x]
           D == C \ {n}
           s == Resized(sz, D, x, sz[x] + sz[n])
<1> USE DEF Spaced
<1>1. Spaced(C, sz, top)
  BY Gaps
<1>2. n \in C /\ n \in Nat /\ x < n /\ x \in D
  BY <1>1
<1>3. s[x] = sz[x] + sz[n] /\ \A p \in D : p # x => s[p] = sz[p]
  BY <1>2 DEF Resized
<1>4. x + s[x] = n + sz[n]
  BY <1>1, <1>3
<1>5. Eight(s[x])
  <2>1. sz[n] \in Int /\ sz[x] \in Int /\ Eight(sz[n]) /\ Eight(sz[x])
    BY <1>2 DEF Tiled
  <2> QED
    BY <1>3, <2>1, Eights
<1>6. \A p \in D : p # x => p + sz[p] # n
  BY <1>1
<1>7. n + sz[n] # n
  BY <1>1, <1>2
<1> HIDE DEF s, n
<1>8. \A p \in D : /\ p \in Nat /\ Eight(p) /\ Base <= p
                   /\ s[p] \in Nat /\ Eight(s[p]) /\ s[p] >= MIN_CHUNK_SIZE
                   /\ p + s[p] \in D \cup {top} /\ p + s[p] <= top
  BY <1>1, <1>2, <1>3, <1>4, <1>5, <1>6, <1>7, HeapAssumption DEF Tiled, MIN_CHUNK_SIZE
<1>9. \A p, q \in D : p < q => p + s[p] <= q
  <2>1. \A p, q \in C : p < q => p + sz[p] <= q
    BY DEF Tiled
  <2>2. \A q \in D : x < q => n < q
    BY <1>1, <1>2, <2>1 DEF n
  <2> QED
    BY <1>1, <1>2, <1>3, <1>4, <2>1, <2>2
<1>10. \A p \in D \cup {top} : p # Base => \E q \in D : q + s[q] = p
  <2> SUFFICES ASSUME NEW p \in D \cup {top}, p # Base PROVE \E q \in D : q + s[q] = p
    OBVIOUS
  <2>1. PICK q \in C : q + sz[q] = p
    BY DEF Tiled
  <2>2. CASE q = n
    BY <1>2, <1>4, <2>1, <2>2
  <2>3. CASE q # n
    <3>1. q # x
      BY <1>1, <2>1, <1>2 DEF n
    <3> QED
      BY <1>3, <2>1, <2>3, <3>1
  <2> QED
    BY <2>2, <2>3
<1>11. top \in Nat /\ Eight(top) /\ Base <= top /\ Base \in D \cup {top}
  <2>1. Base # n
    BY <1>1, <1>2, HeapAssumption DEF Tiled
  <2> QED
    BY <2>1 DEF Tiled
<1>12. Tiled(D, s, top)
  BY <1>8, <1>9, <1>10, <1>11 DEF Tiled
<1> QED
  BY <1>2, <1>3, <1>12 DEF s, n

\* A first part taken off top leaves chunks that tile memory.
LEMMA TiledTopSplit ==
    ASSUME NEW C, NEW sz, NEW top, Tiled(C, sz, top), NEW n \in Nat, Eight(n), n >= 16
    PROVE  LET s == Resized(sz, C \cup {top}, top, n)
           IN  /\ top \notin C /\ Tiled(C \cup {top}, s, top + n)
               /\ s[top] = n /\ \A p \in C : s[p] = sz[p]
<1> DEFINE s == Resized(sz, C \cup {top}, top, n)
<1> USE DEF Spaced
<1>1. Spaced(C, sz, top)
  BY Gaps
<1>2. s[top] = n /\ \A p \in C : s[p] = sz[p]
  BY <1>1 DEF Resized
<1>3. Eight(top + n)
  BY <1>1, Eights DEF Tiled
<1> HIDE DEF s
<1>4. top + n \in Nat /\ Base <= top + n /\ Base \in (C \cup {top}) \cup {top + n}
  BY <1>1, HeapAssumption DEF Tiled
<1>5. \A p \in C \cup {top} : /\ p \in Nat /\ Eight(p) /\ Base <= p
                              /\ s[p] \in Nat /\ Eight(s[p]) /\ s[p] >= MIN_CHUNK_SIZE
                              /\ p + s[p] \in (C \cup {top}) \cup {top + n} /\ p + s[p] <= top + n
  BY <1>1, <1>2, HeapAssumption DEF Tiled, MIN_CHUNK_SIZE
<1>6. \A p, q \in C \cup {top} : p < q => p + s[p] <= q
  BY <1>1, <1>2 DEF Tiled
<1>7. \A p \in (C \cup {top}) \cup {top + n} : p # Base => \E q \in C \cup {top} : q + s[q] = p
  BY <1>1, <1>2 DEF Tiled
<1>8. Tiled(C \cup {top}, s, top + n)
  BY <1>3, <1>4, <1>5, <1>6, <1>7 DEF Tiled
<1> QED
  BY SMTT(30), <1>1, <1>2, <1>8 DEF s

\* A last chunk that becomes a part of top leaves chunks that tile memory.
LEMMA TiledTopJoin ==
    ASSUME NEW C, NEW sz, NEW top, Tiled(C, sz, top), NEW x \in C, x + sz[x] = top
    PROVE  Tiled(C \ {x}, sz, x)
<1> USE DEF Spaced
<1>1. Spaced(C, sz, top)
  BY Gaps
<1>2. \A p \in C \ {x} : p + sz[p] # top /\ p < x /\ p + sz[p] <= x
  BY <1>1 DEF Tiled
<1>3. \A p \in C \ {x} : p + sz[p] \in (C \ {x}) \cup {x}
  BY <1>1, <1>2
<1>4. Base \in C
  BY <1>1, HeapAssumption DEF Tiled
<1>5. \A p \in (C \ {x}) \cup {x} : p # Base => \E q \in C \ {x} : q + sz[q] = p
  BY <1>1 DEF Tiled
<1> QED
  BY <1>1, <1>2, <1>3, <1>4, <1>5 DEF Tiled

-----------------------------------------------------------------------------
(* The heads and feet of chunks that are split. *)

\* Writing anywhere else leaves the layout as it is.
Heads(C, top, fence) == {p + 4 : p \in C \cup {top, fence}}
Feet(F, sz) == {p + sz[p] : p \in F}

\* A layout depends on its heads and feet only.
LEMMA LayoutSame ==
    ASSUME NEW g, NEW C, NEW U, NEW sz, NEW X, Layout(g, C, U, sz, X),
           NEW f, DOMAIN f = Fields, Tops(g, f),
           \A a \in Heads(C, g.top, g.top + g.topsize) \cup Feet(C \ (U \cup X), sz) : Word(f, a) = Word(g, a)
    PROVE  Layout(f, C, U, sz, X)
<1> USE DEF Layout, Spaced
<1>1. Spaced(C, sz, g.top)
  BY Gaps
<1>2. f.top = g.top /\ f.topsize = g.topsize
  BY DEF Tops
<1>3. \A p \in C \cup {g.top, g.top + g.topsize} : Word(f, p + 4) = Word(g, p + 4)
  BY DEF Heads
<1>4. \A p \in C \ (U \cup X) : Word(f, p + sz[p]) = Word(g, p + sz[p])
  BY DEF Feet
<1>5. HeadsAre(f, C \ X, U, sz)
  BY <1>3 DEF Stored, HeadsAre, IsHead
<1>6. NextsAre(f, C \ X, U, sz)
  <2> SUFFICES ASSUME NEW p \in C \ X PROVE IsHead(f, p + sz[p]) /\ (Word(f, p + sz[p] + 4).pinuse <=> p \in U)
    BY DEF NextsAre
  <2>1. IsHead(g, p + sz[p]) /\ (Word(g, p + sz[p] + 4).pinuse <=> p \in U) /\ p + sz[p] \in C \cup {g.top}
    BY <1>1 DEF Stored, NextsAre
  <2> QED
    BY <1>3, <2>1 DEF IsHead
<1>7. FeetAre(f, C \ (U \cup X), sz)
  BY <1>4 DEF Stored, FeetAre
<1>8. IsHead(f, Base) /\ Word(f, Base + 4).pinuse
  BY <1>3 DEF Stored, IsHead, Tiled
<1>9. Topped(f)
  BY <1>2, <1>3 DEF Topped, IsHead, Tops
<1> QED
  BY <1>2, <1>5, <1>6, <1>7, <1>8, <1>9 DEF Stored

\* A free chunk is taken in part, and the rest is free.
PartWords(g, f, v, n, s) ==
    \A a : Word(f, a) = IF a = v + s THEN Foot(s - n) ELSE IF a = v + n + 4 THEN HeadWord(s - n, FALSE, TRUE)
                        ELSE IF a = v + 4 THEN HeadWord(n, TRUE, TRUE) ELSE Word(g, a)

\* set_size_and_pinuse_of_inuse_chunk and set_size_and_pinuse_of_free_chunk write the
\* words of a chunk that is split.
LEMMA PartTaken ==
    ASSUME NEW g, DOMAIN g = Fields, NEW v \in Nat, NEW n \in Nat, NEW s \in Nat, n > 0, s >= n
    PROVE  LET f == set_size_and_pinuse_of_free_chunk(set_size_and_pinuse_of_inuse_chunk(g, v, n), v + n, s - n)
           IN  MemoryOnly(g, f) /\ PartWords(g, f, v, n, s)
<1> DEFINE e == SetHead(g, v, n, TRUE, TRUE)
           y == v + n
           r == s - n
           f == set_size_and_pinuse_of_free_chunk(e, y, r)
<1>1. SetsWord(g, e, v, HeadWord(n, TRUE, TRUE))
  BY SetHeadFlags
<1>2. y \in Nat /\ r \in Nat /\ y + r = v + s
  OBVIOUS
<1> HIDE DEF e, y, r
<1>3. FreeWords(e, f, y, r)
  BY <1>1, <1>2, SetFree DEF SetsWord, MemoryOnly
<1> HIDE DEF f
<1>4. MemoryOnly(g, f)
  BY <1>1, <1>3, MemoryTwice DEF SetsWord, FreeWords
<1>5. \A a : Word(f, a) = IF a = v + s THEN Foot(r) ELSE IF a = y + 4 THEN HeadWord(r, FALSE, TRUE)
                          ELSE IF a = v + 4 THEN HeadWord(n, TRUE, TRUE) ELSE Word(g, a)
  BY <1>1, <1>2, <1>3 DEF SetsWord, FreeWords
<1> QED
  BY <1>4, <1>5 DEF f, e, y, r, PartWords, set_size_and_pinuse_of_inuse_chunk

\* After they split a chunk the first part is in use, the rest is free.
LEMMA LayoutPart ==
    ASSUME NEW g, NEW C, NEW U, NEW sz, Layout(g, C, U, sz, {}), NEW v \in C \ U,
           NEW n \in Nat, Eight(n), n >= 16, sz[v] - n >= 16,
           NEW f, DOMAIN f = Fields, Tops(g, f), PartWords(g, f, v, n, sz[v])
    PROVE  Layout(f, C \cup {v + n}, U \cup {v}, Split(sz, C, v, n), {})
<1> DEFINE y == v + n
           r == sz[v] - n
           z == v + sz[v]
           D == C \cup {y}
           V == U \cup {v}
           s == Split(sz, C, v, n)
<1> USE DEF Layout, Spaced
<1>1. Spaced(C, sz, g.top)
  BY Gaps
<1>2. /\ y \notin C \cup {g.top} /\ Tiled(D, s, g.top)
      /\ \A p \in C : p # v => s[p] = sz[p]
      /\ s[v] = n /\ s[y] = r
  BY TiledSplit
<1>3. Spaced(D, s, g.top)
  BY <1>2, Gaps
<1>5. y \in Nat /\ r \in Nat /\ v \in Nat /\ y + r = z /\ z \in Nat
  BY <1>1
<1> HIDE DEF y, r, z, s
<1>7. f.top = g.top /\ f.topsize = g.topsize
  BY DEF Tops
<1>8. \A a : Word(f, a) = IF a = z THEN Foot(r) ELSE IF a = y + 4 THEN HeadWord(r, FALSE, TRUE)
                          ELSE IF a = v + 4 THEN HeadWord(n, TRUE, TRUE) ELSE Word(g, a)
  BY DEF PartWords, y, r, z
<1>9. z \in U /\ z \in C /\ \A p \in C : p + sz[p] = v => p \in U
  BY DEF Parted, z
<1>10. Parted(D, V, s, {})
  BY <1>2, <1>5, <1>9 DEF Parted, z, y, r
<1>11. \A p \in D \cup {g.top} : p \in Nat /\ p + 4 # z
  BY <1>3, <1>9
<1>12. Word(f, y + 4) = HeadWord(r, FALSE, TRUE) /\ Word(f, v + 4) = HeadWord(n, TRUE, TRUE)
  <2>1. y + 4 # v + 4
    BY <1>2, <1>5
  <2> QED
    BY <1>8, <1>11, <2>1
<1>13. \A p \in C \cup {g.top} : p # v => Word(f, p + 4) = Word(g, p + 4)
  <2> SUFFICES ASSUME NEW p \in C \cup {g.top}, p # v PROVE Word(f, p + 4) = Word(g, p + 4)
    OBVIOUS
  <2>1. p + 4 # v + 4 /\ p + 4 # y + 4 /\ p + 4 # z
    BY <1>2, <1>5, <1>11
  <2> QED
    BY <1>8, <2>1
<1>14. HeadsAre(f, D, V, s)
  <2> SUFFICES ASSUME NEW p \in D
               PROVE  IsHead(f, p) /\ Word(f, p + 4).size = s[p] /\ (Word(f, p + 4).cinuse <=> p \in V)
    BY DEF HeadsAre
  <2>1. CASE p = y
    BY <1>2, <1>9, <1>12, <2>1 DEF IsHead, HeadWord, Parted
  <2>2. CASE p = v
    BY <1>2, <1>12, <2>2 DEF IsHead, HeadWord
  <2>3. CASE p \in C /\ p # v
    BY <1>2, <1>13, <2>3 DEF Stored, HeadsAre, IsHead
  <2> QED
    BY <2>1, <2>2, <2>3
<1>15. NextsAre(f, D, V, s)
  <2> SUFFICES ASSUME NEW p \in D
               PROVE  IsHead(f, p + s[p]) /\ (Word(f, p + s[p] + 4).pinuse <=> p \in V)
    BY DEF NextsAre
  <2>1. CASE p = y
    <3>1. IsHead(g, z) /\ ~Word(g, z + 4).pinuse /\ z # v
      BY <1>1, <1>9 DEF Stored, NextsAre, z
    <3> QED
      BY <1>2, <1>5, <1>9, <1>13, <2>1, <3>1 DEF IsHead, Parted
  <2>2. CASE p = v
    BY <1>2, <1>12, <2>2 DEF IsHead, HeadWord, y
  <2>3. CASE p \in C /\ p # v
    <3>1. IsHead(g, p + sz[p]) /\ (Word(g, p + sz[p] + 4).pinuse <=> p \in U) /\ p + sz[p] \in C \cup {g.top}
      BY <1>1, <2>3 DEF Stored, NextsAre
    <3>2. CASE p + sz[p] = v
      BY <1>2, <1>9, <1>12, <2>3, <3>2 DEF IsHead, HeadWord
    <3>3. CASE p + sz[p] # v
      BY <1>2, <1>13, <2>3, <3>1, <3>3 DEF IsHead
    <3> QED
      BY <3>2, <3>3
  <2> QED
    BY <2>1, <2>2, <2>3
<1>16. FeetAre(f, D \ V, s)
  <2> SUFFICES ASSUME NEW p \in D \ V PROVE Word(f, p + s[p]) = Foot(s[p])
    BY DEF FeetAre
  <2>1. CASE p = y
    BY <1>2, <1>5, <1>8, <2>1
  <2>2. CASE p \in C /\ p # v
    <3>1. Word(g, p + sz[p]) = Foot(sz[p])
      BY <2>2 DEF Stored, FeetAre
    <3>2. p + sz[p] # z /\ p + sz[p] # y + 4 /\ p + sz[p] # v + 4
      BY <1>1, <1>2, <1>3, <1>5, <2>2 DEF z
    <3> QED
      BY <1>2, <1>8, <2>2, <3>1, <3>2
  <2> QED
    BY <2>1, <2>2
<1>17. IsHead(f, Base) /\ Word(f, Base + 4).pinuse
  <2>1. CASE Base = v
    BY <1>12, <2>1 DEF IsHead, HeadWord
  <2>2. CASE Base # v
    BY <1>13, <2>2 DEF Stored, IsHead, Tiled
  <2> QED
    BY <2>1, <2>2
<1>18. Topped(f)
  <2>1. g.top # v /\ f.top = g.top /\ f.topsize = g.topsize
    BY <1>1, <1>7
  <2>2. Word(f, g.top + g.topsize + 4) = Word(g, g.top + g.topsize + 4)
    <3>1. z < g.top /\ y < g.top /\ v < g.top
      BY <1>1, <1>3, <1>9
    <3>2. g.top + g.topsize + 4 # z /\ g.top + g.topsize + 4 # y + 4 /\ g.top + g.topsize + 4 # v + 4
      BY <1>1, <1>5, <3>1 DEF Topped
    <3> QED
      BY <1>8, <3>2
  <2> QED
    BY <1>7, <1>13, <2>1, <2>2 DEF Topped, IsHead, Tops
<1>19. D \ {} = D /\ V \cup {} = V
  OBVIOUS
<1>20. Layout(f, D, V, s, {})
  BY <1>2, <1>7, <1>10, <1>14, <1>15, <1>16, <1>17, <1>18, <1>19 DEF Stored
<1> QED
  BY <1>20 DEF s, y

\* A chunk in use is cut in two.
Halves(g, f, x, n, s) ==
    /\ MemoryOnly(g, f)
    /\ \A a : a # x + 4 /\ a # x + n + 4 /\ a # x + s + 4 => Word(f, a) = Word(g, a)
    /\ IsHead(f, x) /\ Word(f, x + 4).size = n /\ Word(f, x + 4).cinuse
    /\ IsHead(g, x) => (Word(f, x + 4).pinuse <=> Word(g, x + 4).pinuse)
    /\ IsHead(f, x + n) /\ Word(f, x + n + 4).size = s - n /\ Word(f, x + n + 4).cinuse /\ Word(f, x + n + 4).pinuse
    /\ IsHead(f, x + s) /\ Word(f, x + s + 4).pinuse
    /\ IsHead(g, x + s) => /\ Word(f, x + s + 4).size = Word(g, x + s + 4).size
                           /\ Word(f, x + s + 4).cinuse = Word(g, x + s + 4).cinuse

\* realloc and memalign write two heads in use when they cut off a chunk's end.
LEMMA HalvesFront ==
    ASSUME NEW g, DOMAIN g = Fields, NEW x \in Nat, NEW n \in Nat, NEW s \in Nat, n > 0, s > n
    PROVE  Halves(g, set_inuse(set_inuse(g, x, n), x + n, s - n), x, n, s)
<1> DEFINE e == set_inuse(g, x, n)
           y == x + n
           r == s - n
           f == set_inuse(e, y, r)
<1>1. /\ UsedWords(g, e, x, n)
      /\ IsHead(g, x) => (Word(e, x + 4).pinuse <=> Word(g, x + 4).pinuse)
  BY SetInuse
<1>2. y \in Nat /\ r \in Nat /\ r > 0 /\ y + r = x + s
  OBVIOUS
<1> HIDE DEF e, y, r
<1>3. /\ UsedWords(e, f, y, r)
      /\ IsHead(e, y) => (Word(f, y + 4).pinuse <=> Word(e, y + 4).pinuse)
  BY <1>1, <1>2, SetInuse DEF UsedWords, MemoryOnly
<1> HIDE DEF f
<1>4. MemoryOnly(g, f)
  BY <1>1, <1>3, MemoryTwice DEF UsedWords
<1>5. y = x + n /\ x + 4 # y + 4 /\ x + 4 # x + s + 4 /\ y + 4 # x + s + 4
  BY <1>2 DEF y, r
<1>6. Word(f, x + 4) = Word(e, x + 4) /\ Word(e, x + s + 4) = Word(g, x + s + 4)
  BY <1>1, <1>2, <1>3, <1>5 DEF UsedWords
<1>7. \A a : a # x + 4 /\ a # y + 4 /\ a # x + s + 4 => Word(f, a) = Word(g, a)
  BY <1>1, <1>2, <1>3, <1>5 DEF UsedWords
<1>8. IsHead(f, y) /\ Word(f, y + 4).size = r /\ Word(f, y + 4).cinuse /\ Word(f, y + 4).pinuse
  BY <1>1, <1>3, <1>5 DEF UsedWords
<1>9. /\ IsHead(f, x) /\ Word(f, x + 4).size = n /\ Word(f, x + 4).cinuse
      /\ IsHead(g, x) => (Word(f, x + 4).pinuse <=> Word(g, x + 4).pinuse)
  BY <1>1, <1>6 DEF UsedWords, IsHead
<1>10. /\ IsHead(f, x + s) /\ Word(f, x + s + 4).pinuse
       /\ IsHead(g, x + s) => /\ Word(f, x + s + 4).size = Word(g, x + s + 4).size
                              /\ Word(f, x + s + 4).cinuse = Word(g, x + s + 4).cinuse
  BY <1>2, <1>3, <1>6 DEF UsedWords, IsHead
<1>11. Halves(g, f, x, n, s)
  BY <1>4, <1>5, <1>7, <1>8, <1>9, <1>10 DEF Halves, r
<1> QED
  BY <1>11 DEF f, e, y, r

\* memalign writes the same when it cuts off a chunk's beginning.
LEMMA HalvesBack ==
    ASSUME NEW g, DOMAIN g = Fields, NEW x \in Nat, NEW n \in Nat, NEW s \in Nat, n > 0, s > n
    PROVE  Halves(g, set_inuse(set_inuse(g, x + n, s - n), x, n), x, n, s)
<1> DEFINE y == x + n
           r == s - n
           e == set_inuse(g, y, r)
           f == set_inuse(e, x, n)
<1>1. y \in Nat /\ r \in Nat /\ r > 0 /\ y + r = x + s
  OBVIOUS
<1>2. y = x + n /\ x + 4 # y + 4 /\ x + 4 # x + s + 4 /\ y + 4 # x + s + 4
  BY <1>1
<1> HIDE DEF y, r
<1>3. UsedWords(g, e, y, r)
  BY <1>1, SetInuse
<1> HIDE DEF e
<1>4. /\ UsedWords(e, f, x, n)
      /\ IsHead(e, x) => (Word(f, x + 4).pinuse <=> Word(e, x + 4).pinuse)
  BY <1>3, SetInuse DEF UsedWords, MemoryOnly
<1> HIDE DEF f
<1>5. MemoryOnly(g, f)
  BY <1>3, <1>4, MemoryTwice DEF UsedWords
<1>6. Word(e, x + 4) = Word(g, x + 4) /\ Word(f, x + s + 4) = Word(e, x + s + 4)
  BY <1>1, <1>2, <1>3, <1>4 DEF UsedWords
<1>7. \A a : a # x + 4 /\ a # y + 4 /\ a # x + s + 4 => Word(f, a) = Word(g, a)
  BY <1>1, <1>2, <1>3, <1>4 DEF UsedWords
<1>8. IsHead(f, y) /\ Word(f, y + 4).size = r /\ Word(f, y + 4).cinuse /\ Word(f, y + 4).pinuse
  BY <1>2, <1>3, <1>4 DEF UsedWords
<1>9. /\ IsHead(f, x) /\ Word(f, x + 4).size = n /\ Word(f, x + 4).cinuse
      /\ IsHead(g, x) => (Word(f, x + 4).pinuse <=> Word(g, x + 4).pinuse)
  BY <1>4, <1>6 DEF UsedWords, IsHead
<1>10. /\ IsHead(f, x + s) /\ Word(f, x + s + 4).pinuse
       /\ IsHead(g, x + s) => /\ Word(f, x + s + 4).size = Word(g, x + s + 4).size
                              /\ Word(f, x + s + 4).cinuse = Word(g, x + s + 4).cinuse
  BY <1>1, <1>3, <1>6 DEF UsedWords, IsHead
<1>11. Halves(g, f, x, n, s)
  BY <1>2, <1>5, <1>7, <1>8, <1>9, <1>10 DEF Halves, r
<1> QED
  BY <1>11 DEF f, e, y, r

\* After that both parts are in use.
LEMMA LayoutHalves ==
    ASSUME NEW g, NEW C, NEW U, NEW sz, Layout(g, C, U, sz, {}), NEW x \in U,
           NEW n \in Nat, Eight(n), n >= 16, sz[x] - n >= 16,
           NEW f, Halves(g, f, x, n, sz[x])
    PROVE  Layout(f, C \cup {x + n}, U \cup {x + n}, Split(sz, C, x, n), {})
<1> DEFINE y == x + n
           r == sz[x] - n
           z == x + sz[x]
           D == C \cup {y}
           V == U \cup {y}
           s == Split(sz, C, x, n)
<1> USE DEF Layout, Spaced
<1>1. Spaced(C, sz, g.top)
  BY Gaps
<1>2. x \in C /\ U \subseteq C
  BY DEF Parted
<1>3. /\ y \notin C \cup {g.top} /\ Tiled(D, s, g.top)
      /\ \A p \in C : p # x => s[p] = sz[p]
      /\ s[x] = n /\ s[y] = r
  <2>1. x \in C /\ Tiled(C, sz, g.top)
    BY <1>2
  <2> HIDE DEF Layout
  <2> QED
    BY <2>1, TiledSplit
<1>4. Spaced(D, s, g.top)
  BY <1>3, Gaps
<1>5. y \in Nat /\ r \in Nat /\ x \in Nat /\ y + r = z /\ z \in Nat /\ z \in C \cup {g.top} /\ z # x /\ z # y
  BY <1>1, <1>2, <1>3
<1>6. /\ MemoryOnly(g, f)
      /\ \A a : a # x + 4 /\ a # y + 4 /\ a # z + 4 => Word(f, a) = Word(g, a)
      /\ IsHead(f, x) /\ Word(f, x + 4).size = n /\ Word(f, x + 4).cinuse
      /\ IsHead(g, x) => (Word(f, x + 4).pinuse <=> Word(g, x + 4).pinuse)
      /\ IsHead(f, y) /\ Word(f, y + 4).size = r /\ Word(f, y + 4).cinuse /\ Word(f, y + 4).pinuse
      /\ IsHead(f, z) /\ Word(f, z + 4).pinuse
      /\ IsHead(g, z) => /\ Word(f, z + 4).size = Word(g, z + 4).size
                         /\ Word(f, z + 4).cinuse = Word(g, z + 4).cinuse
  BY DEF Halves
<1>7. y = x + n /\ z = x + sz[x]
  OBVIOUS
<1> HIDE DEF y, r, z, s
<1>8. Parted(D, V, s, {})
  BY <1>2, <1>3 DEF Parted
<1>9. \A p \in C \cup {g.top} : p # x /\ p # z => Word(f, p + 4) = Word(g, p + 4)
  <2> SUFFICES ASSUME NEW p \in C \cup {g.top}, p # x, p # z PROVE Word(f, p + 4) = Word(g, p + 4)
    OBVIOUS
  <2>1. p + 4 # x + 4 /\ p + 4 # y + 4 /\ p + 4 # z + 4
    BY <1>1, <1>3, <1>5
  <2> QED
    BY <1>6, <2>1
<1>10. HeadsAre(f, D, V, s)
  <2> SUFFICES ASSUME NEW p \in D
               PROVE  IsHead(f, p) /\ Word(f, p + 4).size = s[p] /\ (Word(f, p + 4).cinuse <=> p \in V)
    BY DEF HeadsAre
  <2>1. CASE p = y \/ p = x
    BY <1>3, <1>6, <2>1
  <2>2. CASE p \in C /\ p # x
    <3>1. IsHead(g, p) /\ Word(g, p + 4).size = sz[p] /\ (Word(g, p + 4).cinuse <=> p \in U) /\ p # y
      BY <1>3, <2>2 DEF Stored, HeadsAre
    <3>2. CASE p = z
      BY <1>3, <1>6, <2>2, <3>1, <3>2
    <3>3. CASE p # z
      BY <1>3, <1>9, <2>2, <3>1, <3>3 DEF IsHead
    <3> QED
      BY <3>2, <3>3
  <2> QED
    BY <2>1, <2>2
<1>11. NextsAre(f, D, V, s)
  <2> SUFFICES ASSUME NEW p \in D
               PROVE  IsHead(f, p + s[p]) /\ (Word(f, p + s[p] + 4).pinuse <=> p \in V)
    BY DEF NextsAre
  <2>1. CASE p = y \/ p = x
    BY <1>3, <1>5, <1>6, <1>7, <2>1
  <2>2. CASE p \in C /\ p # x
    <3>1. /\ IsHead(g, p + sz[p]) /\ (Word(g, p + sz[p] + 4).pinuse <=> p \in U)
          /\ p + sz[p] \in C \cup {g.top} /\ p + sz[p] # z /\ p # y
      BY <1>1, <1>2, <1>3, <1>7, <2>2 DEF Stored, NextsAre
    <3>2. CASE p + sz[p] = x
      BY <1>3, <1>6, <2>2, <3>1, <3>2
    <3>3. CASE p + sz[p] # x
      BY <1>3, <1>9, <2>2, <3>1, <3>3 DEF IsHead
    <3> QED
      BY <3>2, <3>3
  <2> QED
    BY <2>1, <2>2
<1>12. FeetAre(f, D \ V, s)
  <2> SUFFICES ASSUME NEW p \in D \ V PROVE Word(f, p + s[p]) = Foot(s[p])
    BY DEF FeetAre
  <2>1. p \in C \ U /\ p # x
    BY <1>2
  <2>2. Word(g, p + sz[p]) = Foot(sz[p]) /\ s[p] = sz[p]
    BY <1>3, <2>1 DEF Stored, FeetAre
  <2>3. p + sz[p] # x + 4 /\ p + sz[p] # y + 4 /\ p + sz[p] # z + 4
    BY <1>1, <1>2, <1>3, <1>4, <1>5, <2>1
  <2> QED
    BY <1>6, <2>2, <2>3
<1>13. IsHead(f, Base) /\ Word(f, Base + 4).pinuse
  <2>1. Base # z
    BY <1>1, <1>2, <1>7, HeapAssumption DEF Tiled
  <2>2. CASE Base = x
    BY <1>6, <2>2 DEF Stored
  <2>3. CASE Base # x
    BY <1>9, <2>1, <2>3 DEF Stored, IsHead, Tiled
  <2> QED
    BY <2>2, <2>3
<1>14. Topped(f)
  <2>1. g.top # x /\ f.top = g.top /\ f.topsize = g.topsize
    BY <1>1, <1>2, <1>6 DEF MemoryOnly, Tops
  <2>2. Word(f, g.top + g.topsize + 4) = Word(g, g.top + g.topsize + 4)
    <3>1. z <= g.top /\ y < g.top /\ x < g.top
      BY <1>1, <1>2, <1>4, <1>7
    <3>2. g.top + g.topsize + 4 # z + 4 /\ g.top + g.topsize + 4 # y + 4 /\ g.top + g.topsize + 4 # x + 4
      BY <1>1, <1>5, <3>1 DEF Topped
    <3> QED
      BY <1>6, <3>2
  <2>3. IsHead(f, g.top) /\ Word(f, g.top + 4).size = g.topsize /\ ~Word(f, g.top + 4).cinuse
    <3>1. CASE g.top = z
      BY <1>6, <3>1 DEF Topped
    <3>2. CASE g.top # z
      BY <1>9, <2>1, <3>2 DEF Topped, IsHead
    <3> QED
      BY <3>1, <3>2
  <2> QED
    BY <1>6, <2>1, <2>2, <2>3 DEF Topped, IsHead, MemoryOnly, Tops
<1>15. D \ {} = D /\ V \cup {} = V
  OBVIOUS
<1>16. Layout(f, D, V, s, {})
  BY <1>3, <1>6, <1>8, <1>10, <1>11, <1>12, <1>13, <1>14, <1>15 DEF Stored, MemoryOnly, Tops
<1> QED
  BY <1>16 DEF s, y

-----------------------------------------------------------------------------
(* The heads and feet of chunks that are freed. *)

\* What goes with a change of top: how far the segment reaches.
Segment(g, f) ==
    /\ f.brk = g.brk /\ f.seg_size = g.seg_size /\ f.footprint = g.footprint /\ f.max_footprint = g.max_footprint

\* The first part of top is used.
LEMMA LayoutTopSplit ==
    ASSUME NEW g, NEW C, NEW U, NEW sz, Layout(g, C, U, sz, {}),
           NEW n \in Nat, Eight(n), n >= 16, n < g.topsize,
           NEW f, DOMAIN f = Fields, Segment(g, f), f.top = g.top + n, f.topsize = g.topsize - n,
           \A a : Word(f, a) = IF a = g.top + 4 THEN HeadWord(n, TRUE, TRUE)
                               ELSE IF a = g.top + n + 4 THEN HeadWord(g.topsize - n, FALSE, TRUE) ELSE Word(g, a)
    PROVE  Layout(f, C \cup {g.top}, U \cup {g.top}, Resized(sz, C \cup {g.top}, g.top, n), {})
<1> DEFINE t == g.top
           D == C \cup {t}
           V == U \cup {t}
           s == Resized(sz, D, t, n)
<1> USE DEF Layout, Spaced
<1>1. Spaced(C, sz, t)
  BY Gaps
<1>2. /\ t \notin C /\ Tiled(D, s, t + n)
      /\ s[t] = n /\ \A p \in C : s[p] = sz[p]
  <2>1. Tiled(C, sz, t)
    OBVIOUS
  <2> HIDE DEF Layout
  <2>2. t \notin C /\ Tiled(D, s, t + n)
    BY <2>1, TiledTopSplit
  <2> QED
    BY <2>2 DEF Resized
<1> HIDE DEF s
<1>3. Spaced(D, s, t + n)
  <2> HIDE DEF Spaced
  <2> QED
    BY <1>2, Gaps
<1>4. t \in Nat /\ t + n \in Nat /\ t + 4 # t + n + 4
  BY <1>1
<1>5. Word(f, t + 4) = HeadWord(n, TRUE, TRUE) /\ Word(f, t + n + 4) = HeadWord(g.topsize - n, FALSE, TRUE)
  BY <1>4
<1>6. \A p \in C : Word(f, p + 4) = Word(g, p + 4)
  <2> SUFFICES ASSUME NEW p \in C PROVE Word(f, p + 4) = Word(g, p + 4)
    OBVIOUS
  <2>1. p + 4 # t + 4 /\ p + 4 # t + n + 4
    BY <1>1
  <2> QED
    BY <2>1
<1>7. Parted(D, V, s, {})
  BY <1>2 DEF Parted
<1>8. HeadsAre(f, D, V, s)
  <2> SUFFICES ASSUME NEW p \in D
               PROVE  IsHead(f, p) /\ Word(f, p + 4).size = s[p] /\ (Word(f, p + 4).cinuse <=> p \in V)
    BY DEF HeadsAre
  <2>1. CASE p = t
    BY <1>2, <1>5, <2>1 DEF IsHead, HeadWord
  <2>2. CASE p \in C
    BY <1>2, <1>6, <2>2 DEF Stored, HeadsAre, IsHead
  <2> QED
    BY <2>1, <2>2
<1>9. NextsAre(f, D, V, s)
  <2> SUFFICES ASSUME NEW p \in D
               PROVE  IsHead(f, p + s[p]) /\ (Word(f, p + s[p] + 4).pinuse <=> p \in V)
    BY DEF NextsAre
  <2>1. CASE p = t
    BY <1>2, <1>5, <2>1 DEF IsHead, HeadWord
  <2>2. CASE p \in C
    <3>1. IsHead(g, p + sz[p]) /\ (Word(g, p + sz[p] + 4).pinuse <=> p \in U) /\ p + sz[p] \in C \cup {t}
      BY <1>1, <2>2 DEF Stored, NextsAre
    <3>2. CASE p + sz[p] = t
      <4>1. p \in U
        BY <1>2, <2>2, <3>2 DEF Parted
      <4> QED
        BY <1>2, <1>5, <2>2, <3>2, <4>1 DEF IsHead, HeadWord
    <3>3. CASE p + sz[p] \in C
      BY <1>2, <1>6, <2>2, <3>1, <3>3 DEF IsHead
    <3> QED
      BY <3>1, <3>2, <3>3
  <2> QED
    BY <2>1, <2>2
<1>10. FeetAre(f, D \ V, s)
  <2> SUFFICES ASSUME NEW p \in D \ V PROVE Word(f, p + s[p]) = Foot(s[p])
    BY DEF FeetAre
  <2>1. Word(g, p + sz[p]) = Foot(sz[p]) /\ s[p] = sz[p] /\ p + sz[p] <= t
    BY <1>1, <1>2 DEF Stored, FeetAre
  <2>2. p + sz[p] # t + 4 /\ p + sz[p] # t + n + 4
    BY <1>1, <2>1
  <2> QED
    BY <2>1, <2>2
<1>11. IsHead(f, Base) /\ Word(f, Base + 4).pinuse
  <2>1. CASE Base = t
    BY <1>5, <2>1 DEF IsHead, HeadWord
  <2>2. CASE Base \in C
    BY <1>6, <2>2 DEF Stored, IsHead
  <2> QED
    BY <2>1, <2>2 DEF Tiled
<1>12. Topped(f)
  <2>1. Eight(g.topsize - n) /\ g.topsize - n \in Nat /\ g.topsize - n > 0
    BY DEF Topped, Eight
  <2>2. t + n + (g.topsize - n) = t + g.topsize
    BY <1>1 DEF Topped
  <2>3. Word(f, t + g.topsize + 4) = Word(g, t + g.topsize + 4)
    <3>1. t + g.topsize + 4 # t + 4 /\ t + g.topsize + 4 # t + n + 4
      BY <1>1 DEF Topped
    <3> QED
      BY <3>1
  <2> QED
    BY <1>5, <2>1, <2>2, <2>3 DEF Topped, IsHead, HeadWord, Segment
<1>13. D \ {} = D /\ V \cup {} = V
  OBVIOUS
<1>14. Layout(f, D, V, s, {})
  BY <1>2, <1>7, <1>8, <1>9, <1>10, <1>11, <1>12, <1>13 DEF Stored
<1> QED
  BY <1>14 DEF s

\* A chunk is no longer in use: alone, when the one before it is in use;
LEMMA LayoutFreed ==
    ASSUME NEW g, NEW C, NEW U, NEW sz, Layout(g, C, U, sz, {}), NEW x \in U, Word(g, x + 4).pinuse
    PROVE  Layout(g, C, U \ {x}, sz, {x})
<1> USE DEF Layout, Spaced
<1>1. Spaced(C, sz, g.top)
  BY Gaps
<1>2. C \ {} = C /\ U \cup {} = U /\ (U \ {x}) \cup {x} = U
  OBVIOUS
<1>3. \A p \in C : p + sz[p] = x => p \in U
  BY DEF Stored, NextsAre
<1>4. Parted(C, U \ {x}, sz, {x})
  BY <1>3 DEF Parted
<1>5. Stored(g, C, U \ {x}, sz, {x})
  <2>1. HeadsAre(g, C \ {x}, U \ {x}, sz)
    BY DEF Stored, HeadsAre
  <2>2. NextsAre(g, C \ {x}, U \ {x}, sz)
    BY DEF Stored, NextsAre
  <2> QED
    BY <1>2, <2>1, <2>2 DEF Stored
<1> QED
  BY <1>4, <1>5

\* or as a part of the free one before it.
LEMMA PrevFree ==
    ASSUME NEW g, NEW C, NEW U, NEW sz, Layout(g, C, U, sz, {}), NEW x \in U, ~Word(g, x + 4).pinuse
    PROVE  \E q \in C \ U : q + sz[q] = x /\ prev_foot(g, x) = sz[q] /\ x - prev_foot(g, x) = q
<1> USE DEF Layout, Spaced
<1>1. Spaced(C, sz, g.top)
  BY Gaps
<1>2. x # Base /\ x \in C
  BY DEF Stored, Parted
<1>3. PICK q \in C : q + sz[q] = x
  BY <1>2 DEF Tiled
<1>4. q \notin U
  BY <1>3 DEF Stored, NextsAre
<1>5. Word(g, x) = Foot(sz[q])
  BY <1>3, <1>4 DEF Stored, FeetAre
<1>6. prev_foot(g, x) = sz[q]
  BY <1>5 DEF prev_foot, Word, Foot, Junk
<1> QED
  BY <1>1, <1>3, <1>4, <1>6

\* A chunk and the free one before it become one, of which nothing is said yet.
LEMMA LayoutFreedBack ==
    ASSUME NEW g, NEW C, NEW U, NEW sz, Layout(g, C, U, sz, {}), NEW x \in U, NEW q \in C \ U, q + sz[q] = x
    PROVE  Layout(g, C \ {x}, U \ {x}, Resized(sz, C \ {x}, q, sz[q] + sz[x]), {q})
<1> DEFINE D == C \ {x}
           V == U \ {x}
           s == Resized(sz, D, q, sz[q] + sz[x])
<1> USE DEF Layout, Spaced
<1>1. Spaced(C, sz, g.top)
  BY Gaps
<1>2. x \in C /\ U \subseteq C
  BY DEF Parted
<1>3. /\ q # x /\ Tiled(D, s, g.top)
      /\ s[q] = sz[q] + sz[x] /\ \A p \in D : p # q => s[p] = sz[p]
  BY <1>2, TiledJoin
<1> HIDE DEF s
<1>4. \A p \in C : p # q => p + sz[p] # x
  BY <1>1
<1>5. \A p \in C \ U : p + sz[p] # q
  BY DEF Parted
<1>6. Parted(D, V, s, {q})
  BY <1>2, <1>3, <1>4 DEF Parted
<1>7. Stored(g, D, V, s, {q})
  <2>1. HeadsAre(g, D \ {q}, V, s)
    BY <1>3 DEF Stored, HeadsAre
  <2>2. NextsAre(g, D \ {q}, V, s)
    BY <1>3 DEF Stored, NextsAre
  <2>3. FeetAre(g, D \ (V \cup {q}), s)
    BY <1>3 DEF Stored, FeetAre
  <2> QED
    BY <2>1, <2>2, <2>3 DEF Stored
<1> QED
  BY <1>3, <1>6, <1>7 DEF s

\* The words of a chunk that is freed in front of one in use.
FreedWords(g, f, x, s) ==
    /\ MemoryOnly(g, f)
    /\ \A a : a # x + 4 /\ a # x + s /\ a # x + s + 4 => Word(f, a) = Word(g, a)
    /\ Word(f, x + 4) = HeadWord(s, FALSE, TRUE) /\ Word(f, x + s) = Foot(s)
    /\ IsHead(f, x + s) /\ ~Word(f, x + s + 4).pinuse
    /\ Word(f, x + s + 4).size = Word(g, x + s + 4).size /\ Word(f, x + s + 4).cinuse = Word(g, x + s + 4).cinuse

\* set_free_with_pinuse writes those words.
LEMMA SetFreeWithPinuse ==
    ASSUME NEW g, DOMAIN g = Fields, NEW x \in Nat, NEW s \in Nat, s >= 16, IsHead(g, x + s)
    PROVE  FreedWords(g, set_free_with_pinuse(g, x, s, x + s), x, s)
<1> DEFINE z == x + s
           e == clear_pinuse(g, z)
           f == set_size_and_pinuse_of_free_chunk(e, x, s)
<1>1. /\ MemoryOnly(g, e)
      /\ \A a : a # z + 4 => Word(e, a) = Word(g, a)
      /\ IsHead(e, z) /\ ~Word(e, z + 4).pinuse
      /\ Word(e, z + 4).size = Word(g, z + 4).size
      /\ Word(e, z + 4).cinuse = Word(g, z + 4).cinuse
  BY ClearPinuse
<1>2. z = x + s /\ z \in Nat /\ x + 4 # z /\ x + 4 # z + 4 /\ z # z + 4
  OBVIOUS
<1> HIDE DEF e, z
<1>3. FreeWords(e, f, x, s)
  BY <1>1, SetFree DEF MemoryOnly
<1> HIDE DEF f
<1>4. MemoryOnly(g, f)
  BY <1>1, <1>3, MemoryTwice DEF FreeWords
<1>5. /\ \A a : a # x + 4 /\ a # z /\ a # z + 4 => Word(f, a) = Word(g, a)
      /\ Word(f, x + 4) = HeadWord(s, FALSE, TRUE) /\ Word(f, z) = Foot(s) /\ Word(f, z + 4) = Word(e, z + 4)
  BY <1>1, <1>2, <1>3 DEF FreeWords
<1>6. FreedWords(g, f, x, s)
  BY <1>1, <1>2, <1>4, <1>5 DEF FreedWords, IsHead
<1> QED
  BY <1>6 DEF f, e, z, set_free_with_pinuse

\* After that the chunk is free.
LEMMA LayoutFree ==
    ASSUME NEW g, NEW C, NEW U, NEW sz, NEW x, Layout(g, C, U, sz, {x}), x + sz[x] \in U
    PROVE  LET f == set_free_with_pinuse(g, x, sz[x], x + sz[x])
           IN  MemoryOnly(g, f) /\ Layout(f, C, U, sz, {})
<1> DEFINE f == set_free_with_pinuse(g, x, sz[x], x + sz[x])
           z == x + sz[x]
<1> USE DEF Layout, Spaced
<1>1. Spaced(C, sz, g.top)
  BY Gaps
<1>2. x \in C /\ x \notin U /\ U \subseteq C /\ z \in U /\ z \in C
  BY DEF Parted
<1>3. x \in Nat /\ sz[x] \in Nat /\ sz[x] >= 16 /\ z # x /\ z \in Nat
  BY <1>1, <1>2
<1>4. IsHead(g, z) /\ Word(g, z + 4).size = sz[z] /\ Word(g, z + 4).cinuse
  BY <1>2, <1>3 DEF Stored, HeadsAre
<1>5. FreedWords(g, f, x, sz[x])
  BY <1>3, <1>4, SetFreeWithPinuse
<1> HIDE DEF f
<1>6. /\ MemoryOnly(g, f) /\ f.top = g.top /\ f.topsize = g.topsize
      /\ \A a : a # x + 4 /\ a # z /\ a # z + 4 => Word(f, a) = Word(g, a)
      /\ Word(f, x + 4) = HeadWord(sz[x], FALSE, TRUE) /\ Word(f, z) = Foot(sz[x])
      /\ IsHead(f, z) /\ ~Word(f, z + 4).pinuse
      /\ Word(f, z + 4).size = sz[z] /\ Word(f, z + 4).cinuse
  BY <1>4, <1>5 DEF FreedWords, MemoryOnly, Tops
<1>7. z = x + sz[x]
  OBVIOUS
<1> HIDE DEF z
<1>8. \A p \in C \cup {g.top} : p # x /\ p # z => Word(f, p + 4) = Word(g, p + 4)
  <2> SUFFICES ASSUME NEW p \in C \cup {g.top}, p # x, p # z PROVE Word(f, p + 4) = Word(g, p + 4)
    OBVIOUS
  <2>1. p + 4 # x + 4 /\ p + 4 # z /\ p + 4 # z + 4
    BY <1>1, <1>2, <1>3
  <2> QED
    BY <1>6, <2>1
<1>9. HeadsAre(f, C, U, sz)
  <2> SUFFICES ASSUME NEW p \in C
               PROVE  IsHead(f, p) /\ Word(f, p + 4).size = sz[p] /\ (Word(f, p + 4).cinuse <=> p \in U)
    BY DEF HeadsAre
  <2>1. CASE p = x
    BY <1>2, <1>6, <2>1 DEF IsHead, HeadWord
  <2>2. CASE p = z
    BY <1>2, <1>6, <2>2
  <2>3. CASE p # x /\ p # z
    BY <1>8, <2>3 DEF Stored, HeadsAre, IsHead
  <2> QED
    BY <2>1, <2>2, <2>3
<1>10. NextsAre(f, C, U, sz)
  <2> SUFFICES ASSUME NEW p \in C
               PROVE  IsHead(f, p + sz[p]) /\ (Word(f, p + sz[p] + 4).pinuse <=> p \in U)
    BY DEF NextsAre
  <2>1. CASE p = x
    BY <1>2, <1>6, <1>7, <2>1
  <2>2. CASE p # x
    <3>1. /\ IsHead(g, p + sz[p]) /\ (Word(g, p + sz[p] + 4).pinuse <=> p \in U)
          /\ p + sz[p] \in C \cup {g.top} /\ p + sz[p] # z
      BY <1>1, <1>2, <1>7, <2>2 DEF Stored, NextsAre
    <3>2. CASE p + sz[p] = x
      <4>1. p \in U
        BY <1>2, <2>2, <3>2 DEF Parted
      <4> QED
        BY <1>6, <3>2, <4>1 DEF IsHead, HeadWord
    <3>3. CASE p + sz[p] # x
      BY <1>8, <3>1, <3>3 DEF IsHead
    <3> QED
      BY <3>2, <3>3
  <2> QED
    BY <2>1, <2>2
<1>11. FeetAre(f, C \ U, sz)
  <2> SUFFICES ASSUME NEW p \in C \ U PROVE Word(f, p + sz[p]) = Foot(sz[p])
    BY DEF FeetAre
  <2>1. CASE p = x
    BY <1>6, <1>7, <2>1
  <2>2. CASE p # x
    <3>1. Word(g, p + sz[p]) = Foot(sz[p])
      BY <2>2 DEF Stored, FeetAre
    <3>2. p + sz[p] # x + 4 /\ p + sz[p] # z /\ p + sz[p] # z + 4
      BY <1>1, <1>2, <1>3, <1>7, <2>2
    <3> QED
      BY <1>6, <3>1, <3>2
  <2> QED
    BY <2>1, <2>2
<1>12. IsHead(f, Base) /\ Word(f, Base + 4).pinuse
  <2>1. Base # z
    BY <1>1, <1>2, <1>3, <1>7, HeapAssumption DEF Tiled
  <2>2. CASE Base = x
    BY <1>6, <2>2 DEF IsHead, HeadWord
  <2>3. CASE Base # x
    BY <1>8, <2>1, <2>3 DEF Stored, IsHead, Tiled
  <2> QED
    BY <2>2, <2>3
<1>13. Topped(f)
  <2>1. g.top # x /\ g.top # z
    BY <1>1, <1>2
  <2>2. Word(f, g.top + g.topsize + 4) = Word(g, g.top + g.topsize + 4)
    <3>1. z < g.top /\ x < g.top
      BY <1>1, <1>2
    <3>2. g.top + g.topsize + 4 # z + 4 /\ g.top + g.topsize + 4 # z /\ g.top + g.topsize + 4 # x + 4
      BY <1>1, <1>3, <3>1 DEF Topped
    <3> QED
      BY <1>6, <3>2
  <2> QED
    BY <1>6, <1>8, <2>1, <2>2 DEF Topped, IsHead, MemoryOnly, Tops
<1>14. Parted(C, U, sz, {})
  BY <1>2, <1>7 DEF Parted
<1>15. C \ {} = C /\ U \cup {} = U
  OBVIOUS
<1>16. Layout(f, C, U, sz, {})
  BY <1>6, <1>9, <1>10, <1>11, <1>12, <1>13, <1>14, <1>15 DEF Stored, MemoryOnly, Tops
<1> QED
  BY <1>6, <1>16 DEF f

\* A chunk that is freed joins the free one behind it.
LEMMA LayoutJoin ==
    ASSUME NEW g, NEW C, NEW U, NEW sz, NEW x, Layout(g, C, U, sz, {x}), x + sz[x] \in C \ U
    PROVE  LET n == x + sz[x]
               s == sz[x] + sz[n]
               f == set_size_and_pinuse_of_free_chunk(g, x, s)
           IN  MemoryOnly(g, f) /\ Layout(f, C \ {n}, U, Resized(sz, C \ {n}, x, s), {})
<1> DEFINE n == x + sz[x]
           r == sz[x] + sz[n]
           f == set_size_and_pinuse_of_free_chunk(g, x, r)
           D == C \ {n}
           s == Resized(sz, D, x, r)
           z == n + sz[n]
<1> USE DEF Layout, Spaced
<1>1. Spaced(C, sz, g.top)
  BY Gaps
<1>2. x \in C /\ x \notin U /\ U \subseteq C /\ n \in C /\ n \notin U
  BY DEF Parted
<1>3. /\ x # n /\ Tiled(D, s, g.top)
      /\ s[x] = r /\ \A p \in D : p # x => s[p] = sz[p]
  <2>1. Tiled(C, sz, g.top)
    OBVIOUS
  <2> HIDE DEF Layout, Spaced
  <2>2. x # n /\ Tiled(D, s, g.top)
    BY <1>2, <2>1, TiledJoin
  <2> QED
    BY <1>2, <2>2 DEF Resized
<1>4. x \in Nat /\ r \in Nat /\ x + r = z /\ z \in Nat
  BY <1>1, <1>2
<1>5. z \in U /\ z # x /\ z # n
  BY <1>1, <1>2 DEF Parted
<1> HIDE DEF s, r
<1>6. FreeWords(g, f, x, r)
  <2>1. DOMAIN g = Fields
    OBVIOUS
  <2> QED
    BY <1>4, <2>1, SetFree
<1> HIDE DEF f
<1>7. /\ MemoryOnly(g, f) /\ f.top = g.top /\ f.topsize = g.topsize
      /\ \A a : Word(f, a) = IF a = z THEN Foot(r) ELSE IF a = x + 4 THEN HeadWord(r, FALSE, TRUE) ELSE Word(g, a)
  BY <1>4, <1>6 DEF FreeWords, MemoryOnly, Tops
<1>8. n = x + sz[x] /\ z = n + sz[n]
  OBVIOUS
<1> HIDE DEF n, z
<1>9. \A p \in C \cup {g.top} : p + 4 # z
  BY <1>1, <1>2, <1>4, <1>5
<1>10. Word(f, x + 4) = HeadWord(r, FALSE, TRUE)
  BY <1>2, <1>7, <1>9
<1>11. \A p \in C \cup {g.top} : p # x => Word(f, p + 4) = Word(g, p + 4)
  <2> SUFFICES ASSUME NEW p \in C \cup {g.top}, p # x PROVE Word(f, p + 4) = Word(g, p + 4)
    OBVIOUS
  <2>1. p + 4 # x + 4 /\ p + 4 # z
    BY <1>1, <1>2, <1>9
  <2> QED
    BY <1>7, <2>1
<1>12. Parted(D, U, s, {})
  <2>1. \A p \in D \ U : p # x => p + s[p] \in U
    BY <1>2, <1>3 DEF Parted
  <2>2. x + s[x] \in U
    BY <1>3, <1>4, <1>5
  <2> QED
    BY <1>2, <2>1, <2>2 DEF Parted
<1>13. HeadsAre(f, D, U, s)
  <2> SUFFICES ASSUME NEW p \in D
               PROVE  IsHead(f, p) /\ Word(f, p + 4).size = s[p] /\ (Word(f, p + 4).cinuse <=> p \in U)
    BY DEF HeadsAre
  <2>1. CASE p = x
    BY <1>2, <1>3, <1>10, <2>1 DEF IsHead, HeadWord
  <2>2. CASE p # x
    BY <1>3, <1>11, <2>2 DEF Stored, HeadsAre, IsHead
  <2> QED
    BY <2>1, <2>2
<1>14. NextsAre(f, D, U, s)
  <2> SUFFICES ASSUME NEW p \in D
               PROVE  IsHead(f, p + s[p]) /\ (Word(f, p + s[p] + 4).pinuse <=> p \in U)
    BY DEF NextsAre
  <2>1. CASE p = x
    <3>1. IsHead(g, z) /\ ~Word(g, z + 4).pinuse
      BY <1>2, <1>3, <1>8 DEF Stored, NextsAre
    <3> QED
      BY <1>2, <1>3, <1>4, <1>5, <1>11, <2>1, <3>1 DEF IsHead
  <2>2. CASE p # x
    <3>1. /\ IsHead(g, p + sz[p]) /\ (Word(g, p + sz[p] + 4).pinuse <=> p \in U)
          /\ p + sz[p] \in C \cup {g.top}
      BY <1>1, <2>2 DEF Stored, NextsAre
    <3>2. CASE p + sz[p] = x
      <4>1. p \in U
        BY <1>2, <2>2, <3>2 DEF Parted
      <4> QED
        BY <1>3, <1>10, <2>2, <3>2, <4>1 DEF IsHead, HeadWord
    <3>3. CASE p + sz[p] # x
      BY <1>3, <1>11, <2>2, <3>1, <3>3 DEF IsHead
    <3> QED
      BY <3>2, <3>3
  <2> QED
    BY <2>1, <2>2
<1>15. FeetAre(f, D \ U, s)
  <2> SUFFICES ASSUME NEW p \in D \ U PROVE Word(f, p + s[p]) = Foot(s[p])
    BY DEF FeetAre
  <2>1. CASE p = x
    BY <1>3, <1>4, <1>7, <2>1
  <2>2. CASE p # x
    <3>1. Word(g, p + sz[p]) = Foot(sz[p]) /\ s[p] = sz[p]
      BY <1>3, <2>2 DEF Stored, FeetAre
    <3>2. p + sz[p] # x + 4 /\ p + sz[p] # z
      BY <1>1, <1>2, <1>4, <1>8, <2>2
    <3> QED
      BY <1>7, <3>1, <3>2
  <2> QED
    BY <2>1, <2>2
<1>16. IsHead(f, Base) /\ Word(f, Base + 4).pinuse
  <2>1. CASE Base = x
    BY <1>10, <2>1 DEF IsHead, HeadWord
  <2>2. CASE Base # x
    BY <1>11, <2>2 DEF Stored, IsHead, Tiled
  <2> QED
    BY <2>1, <2>2
<1>17. Topped(f)
  <2>1. g.top # x
    BY <1>1, <1>2
  <2>2. Word(f, g.top + g.topsize + 4) = Word(g, g.top + g.topsize + 4)
    <3>1. z <= g.top /\ x < g.top
      BY <1>1, <1>2, <1>8
    <3>2. g.top + g.topsize + 4 # z /\ g.top + g.topsize + 4 # x + 4
      BY <1>1, <1>4, <3>1 DEF Topped
    <3> QED
      BY <1>7, <3>2
  <2> QED
    BY <1>7, <1>11, <2>1, <2>2 DEF Topped, IsHead, MemoryOnly, Tops
<1>18. D \ {} = D /\ U \cup {} = U
  OBVIOUS
<1>19. Layout(f, D, U, s, {})
  BY <1>3, <1>7, <1>12, <1>13, <1>14, <1>15, <1>16, <1>17, <1>18 DEF Stored, MemoryOnly, Tops
<1> QED
  BY <1>7, <1>19 DEF f, s, r, n

-----------------------------------------------------------------------------
(* Chunks next to top. *)

\* A chunk before top becomes a part of it.
LEMMA LayoutTopJoin ==
    ASSUME NEW g, NEW C, NEW U, NEW sz, NEW x, Layout(g, C, U, sz, {x}), x + sz[x] = g.top,
           NEW f, DOMAIN f = Fields, Segment(g, f), f.top = x, f.topsize = g.topsize + sz[x],
           \A a : Word(f, a) = IF a = x + 4 THEN HeadWord(g.topsize + sz[x], FALSE, TRUE) ELSE Word(g, a)
    PROVE  Layout(f, C \ {x}, U, sz, {})
<1> DEFINE D == C \ {x}
<1> USE DEF Layout, Spaced
<1>1. Spaced(C, sz, g.top)
  BY Gaps
<1>2. x \in C /\ x \notin U /\ U \subseteq C /\ x \in Nat
  BY <1>1 DEF Parted
<1>3. Tiled(D, sz, x)
  <2>1. Tiled(C, sz, g.top)
    OBVIOUS
  <2> HIDE DEF Layout, Spaced
  <2> QED
    BY <1>2, <2>1, TiledTopJoin
<1>4. Word(f, x + 4) = HeadWord(g.topsize + sz[x], FALSE, TRUE)
  OBVIOUS
<1>5. \A p \in D : Word(f, p + 4) = Word(g, p + 4)
  <2> SUFFICES ASSUME NEW p \in D PROVE Word(f, p + 4) = Word(g, p + 4)
    OBVIOUS
  <2>1. p + 4 # x + 4
    BY <1>1, <1>2
  <2> QED
    BY <2>1
<1>6. Parted(D, U, sz, {})
  BY <1>2 DEF Parted
<1>7. HeadsAre(f, D, U, sz)
  BY <1>5 DEF Stored, HeadsAre, IsHead
<1>8. NextsAre(f, D, U, sz)
  <2> SUFFICES ASSUME NEW p \in D
               PROVE  IsHead(f, p + sz[p]) /\ (Word(f, p + sz[p] + 4).pinuse <=> p \in U)
    BY DEF NextsAre
  <2>1. IsHead(g, p + sz[p]) /\ (Word(g, p + sz[p] + 4).pinuse <=> p \in U) /\ p + sz[p] \in D \cup {x}
    BY <1>3 DEF Stored, NextsAre, Tiled
  <2>2. CASE p + sz[p] = x
    <3>1. p \in U
      BY <1>2, <2>2 DEF Parted
    <3> QED
      BY <1>4, <2>2, <3>1 DEF IsHead, HeadWord
  <2>3. CASE p + sz[p] \in D
    BY <1>5, <2>1, <2>3 DEF IsHead
  <2> QED
    BY <2>1, <2>2, <2>3
<1>9. FeetAre(f, D \ U, sz)
  <2> SUFFICES ASSUME NEW p \in D \ U PROVE Word(f, p + sz[p]) = Foot(sz[p])
    BY DEF FeetAre
  <2>1. Word(g, p + sz[p]) = Foot(sz[p])
    BY DEF Stored, FeetAre
  <2>2. p + sz[p] # x + 4
    BY <1>1, <1>2, <1>3 DEF Tiled
  <2> QED
    BY <2>1, <2>2
<1>10. IsHead(f, Base) /\ Word(f, Base + 4).pinuse
  <2>1. CASE Base = x
    BY <1>4, <2>1 DEF IsHead, HeadWord
  <2>2. CASE Base \in D
    BY <1>5, <2>2 DEF Stored, IsHead
  <2> QED
    BY <1>3, <2>1, <2>2 DEF Tiled
<1>11. Topped(f)
  <2>1. Eight(sz[x]) /\ sz[x] \in Nat
    BY <1>2 DEF Tiled
  <2>2. Eight(g.topsize + sz[x]) /\ g.topsize + sz[x] \in Nat /\ g.topsize + sz[x] > 0
    BY <2>1 DEF Topped, Eight
  <2>3. x + (g.topsize + sz[x]) = g.top + g.topsize
    BY <1>1, <1>2 DEF Topped
  <2>4. g.top + g.topsize + 4 # x + 4
    BY <1>1, <1>2 DEF Topped
  <2>5. Word(f, g.top + g.topsize + 4) = Word(g, g.top + g.topsize + 4)
    BY <2>4
  <2> QED
    BY <1>4, <2>2, <2>3, <2>5 DEF Topped, IsHead, HeadWord, Segment
<1>12. D \ {} = D /\ U \cup {} = U
  OBVIOUS
<1> QED
  BY <1>3, <1>6, <1>7, <1>8, <1>9, <1>10, <1>11, <1>12 DEF Stored

\* The last chunk grows into top, and chunks still tile memory.
LEMMA TiledIntoTop ==
    ASSUME NEW C, NEW sz, NEW top, Tiled(C, sz, top), NEW x \in C, x + sz[x] = top, NEW n \in Nat, Eight(n), n >= 16
    PROVE  Tiled(C, Resized(sz, C, x, n), x + n)
<1> DEFINE D == C \ {x}
<1>1. Tiled(D, sz, x)
  BY TiledTopJoin
<1>2. D \cup {x} = C
  OBVIOUS
<1> HIDE DEF D
<1>3. Tiled(D \cup {x}, Resized(sz, D \cup {x}, x, n), x + n)
  BY <1>1, TiledTopSplit
<1> QED
  BY <1>2, <1>3

\* A chunk in use before top takes the first part of it.
LEMMA LayoutIntoTop ==
    ASSUME NEW g, NEW C, NEW U, NEW sz, Layout(g, C, U, sz, {}), NEW x \in U, x + sz[x] = g.top,
           NEW n \in Nat, Eight(n), n >= 16, n < g.topsize + sz[x],
           NEW f, DOMAIN f = Fields, Segment(g, f), f.top = x + n, f.topsize = g.topsize + sz[x] - n,
           \A a : a # x + 4 /\ a # x + n + 4 => Word(f, a) = Word(g, a),
           IsHead(f, x), Word(f, x + 4).size = n, Word(f, x + 4).cinuse, Word(f, x + 4).pinuse <=> Word(g, x + 4).pinuse,
           Word(f, x + n + 4) = HeadWord(g.topsize + sz[x] - n, FALSE, TRUE)
    PROVE  Layout(f, C, U, Resized(sz, C, x, n), {})
<1> DEFINE s == Resized(sz, C, x, n)
           y == x + n
<1> USE DEF Layout, Spaced
<1>1. Spaced(C, sz, g.top)
  BY Gaps
<1>2. x \in C /\ U \subseteq C /\ x \in Nat
  BY <1>1 DEF Parted
<1>3. Tiled(C, s, y)
  <2>1. Tiled(C, sz, g.top)
    OBVIOUS
  <2> HIDE DEF Layout, Spaced
  <2> QED
    BY <1>2, <2>1, TiledIntoTop
<1>4. s[x] = n /\ \A p \in C : p # x => s[p] = sz[p]
  BY <1>2 DEF Resized
<1> HIDE DEF s
<1>5. Spaced(C, s, y)
  <2> HIDE DEF Spaced
  <2> QED
    BY <1>3, Gaps
<1>6. \A p \in C : p # x => Word(f, p + 4) = Word(g, p + 4)
  <2> SUFFICES ASSUME NEW p \in C, p # x PROVE Word(f, p + 4) = Word(g, p + 4)
    OBVIOUS
  <2>1. p + 4 # x + 4 /\ p + 4 # x + n + 4
    BY <1>2, <1>5
  <2> QED
    BY <2>1
<1>7. Parted(C, U, s, {})
  BY <1>4 DEF Parted
<1>8. HeadsAre(f, C, U, s)
  <2> SUFFICES ASSUME NEW p \in C
               PROVE  IsHead(f, p) /\ Word(f, p + 4).size = s[p] /\ (Word(f, p + 4).cinuse <=> p \in U)
    BY DEF HeadsAre
  <2>1. CASE p = x
    BY <1>4, <2>1
  <2>2. CASE p # x
    BY <1>4, <1>6, <2>2 DEF Stored, HeadsAre, IsHead
  <2> QED
    BY <2>1, <2>2
<1>9. NextsAre(f, C, U, s)
  <2> SUFFICES ASSUME NEW p \in C
               PROVE  IsHead(f, p + s[p]) /\ (Word(f, p + s[p] + 4).pinuse <=> p \in U)
    BY DEF NextsAre
  <2>1. CASE p = x
    BY <1>4, <2>1 DEF IsHead, HeadWord
  <2>2. CASE p # x
    <3>1. /\ IsHead(g, p + sz[p]) /\ (Word(g, p + sz[p] + 4).pinuse <=> p \in U)
          /\ p + sz[p] \in C
      BY <1>1, <1>2, <2>2 DEF Stored, NextsAre
    <3>2. CASE p + sz[p] = x
      BY <1>4, <2>2, <3>1, <3>2 DEF IsHead
    <3>3. CASE p + sz[p] # x
      BY <1>4, <1>6, <2>2, <3>1, <3>3 DEF IsHead
    <3> QED
      BY <3>2, <3>3
  <2> QED
    BY <2>1, <2>2
<1>10. FeetAre(f, C \ U, s)
  <2> SUFFICES ASSUME NEW p \in C \ U PROVE Word(f, p + s[p]) = Foot(s[p])
    BY DEF FeetAre
  <2>1. Word(g, p + sz[p]) = Foot(sz[p]) /\ s[p] = sz[p] /\ p + sz[p] \in C
    BY <1>1, <1>2, <1>4 DEF Stored, FeetAre
  <2>2. p + sz[p] # x + 4 /\ p + sz[p] # x + n + 4
    BY <1>1, <1>2, <1>5, <2>1
  <2> QED
    BY <2>1, <2>2
<1>11. IsHead(f, Base) /\ Word(f, Base + 4).pinuse
  <2>1. CASE Base = x
    BY <2>1 DEF Stored
  <2>2. CASE Base \in C /\ Base # x
    BY <1>6, <2>2 DEF Stored, IsHead
  <2>3. Base \in C
    BY <1>1, <1>2 DEF Tiled
  <2> QED
    BY <2>1, <2>2, <2>3
<1>12. Topped(f)
  <2>1. Eight(sz[x]) /\ sz[x] \in Nat
    BY <1>2 DEF Tiled
  <2>2. Eight(g.topsize + sz[x] - n) /\ g.topsize + sz[x] - n \in Nat /\ g.topsize + sz[x] - n > 0
    BY <2>1 DEF Topped, Eight
  <2>3. x + n + (g.topsize + sz[x] - n) = g.top + g.topsize
    BY <1>1, <1>2 DEF Topped
  <2>4. g.top + g.topsize + 4 # x + 4 /\ g.top + g.topsize + 4 # x + n + 4
    BY <1>1, <1>2 DEF Topped
  <2>5. Word(f, g.top + g.topsize + 4) = Word(g, g.top + g.topsize + 4)
    BY <2>4
  <2> QED
    BY <2>2, <2>3, <2>5 DEF Topped, IsHead, HeadWord, Segment
<1>13. C \ {} = C /\ U \cup {} = U
  OBVIOUS
<1>14. Layout(f, C, U, s, {})
  BY <1>3, <1>7, <1>8, <1>9, <1>10, <1>11, <1>12, <1>13 DEF Stored
<1> QED
  BY <1>14 DEF s

\* The segment grows, and top with it; the first segment.
LEMMA LayoutGrown ==
    ASSUME NEW g, NEW C, NEW U, NEW sz, Layout(g, C, U, sz, {}),
           NEW n \in Nat, Eight(n), g.brk + n <= End,
           NEW f, DOMAIN f = Fields, f.top = g.top, f.topsize = g.topsize + n,
           f.brk = g.brk + n, f.seg_size = g.seg_size + n, f.footprint = g.footprint + n,
           f.max_footprint \in Nat, f.footprint <= f.max_footprint,
           \A a : Word(f, a) = IF a = g.top + (g.topsize + n) + 4 THEN HeadWord(TOP_FOOT_SIZE, FALSE, FALSE)
                               ELSE IF a = g.top + 4 THEN HeadWord(g.topsize + n, FALSE, TRUE) ELSE Word(g, a)
    PROVE  Layout(f, C, U, sz, {})
<1> DEFINE t == g.top
<1> USE DEF Layout, Spaced
<1>1. Spaced(C, sz, g.top) /\ g.top \in Nat /\ g.topsize \in Nat /\ g.topsize > 0
  BY Gaps DEF Topped
<1>2. Word(f, t + 4) = HeadWord(g.topsize + n, FALSE, TRUE)
  <2>1. t + 4 # g.top + (g.topsize + n) + 4
    BY <1>1
  <2> QED
    BY <2>1
<1>3. \A p \in C : p + sz[p] \in C \cup {t} /\ Word(f, p + 4) = Word(g, p + 4)
  <2> SUFFICES ASSUME NEW p \in C PROVE p + sz[p] \in C \cup {t} /\ Word(f, p + 4) = Word(g, p + 4)
    OBVIOUS
  <2>1. p + 4 # t + 4 /\ p + 4 # g.top + (g.topsize + n) + 4
    BY <1>1
  <2> QED
    BY <1>1, <2>1
<1>4. HeadsAre(f, C, U, sz)
  BY <1>3 DEF Stored, HeadsAre, IsHead
<1>5. \A p \in C \ U : p + sz[p] \in C
  BY DEF Parted
<1>6. NextsAre(f, C, U, sz)
  <2> SUFFICES ASSUME NEW p \in C
               PROVE  IsHead(f, p + sz[p]) /\ (Word(f, p + sz[p] + 4).pinuse <=> p \in U)
    BY DEF NextsAre
  <2>1. IsHead(g, p + sz[p]) /\ (Word(g, p + sz[p] + 4).pinuse <=> p \in U)
    BY DEF Stored, NextsAre
  <2>2. CASE p + sz[p] = t
    <3>1. p \in U
      BY <1>1, <1>5, <2>2
    <3> QED
      BY <1>2, <2>2, <3>1 DEF IsHead, HeadWord
  <2>3. CASE p + sz[p] \in C
    BY <1>3, <2>1, <2>3 DEF IsHead
  <2> QED
    BY <1>3, <2>2, <2>3
<1>7. FeetAre(f, C \ U, sz)
  <2> SUFFICES ASSUME NEW p \in C \ U PROVE Word(f, p + sz[p]) = Foot(sz[p])
    BY DEF FeetAre
  <2>1. Word(g, p + sz[p]) = Foot(sz[p])
    BY DEF Stored, FeetAre
  <2>2. p + sz[p] # t + 4 /\ p + sz[p] # g.top + (g.topsize + n) + 4
    BY <1>1
  <2> QED
    BY <2>1, <2>2
<1>8. IsHead(f, Base) /\ Word(f, Base + 4).pinuse
  <2>1. CASE Base = t
    BY <1>2, <2>1 DEF IsHead, HeadWord
  <2>2. CASE Base \in C
    BY <1>3, <2>2 DEF Stored, IsHead
  <2> QED
    BY <2>1, <2>2 DEF Tiled
<1>9. Topped(f)
  <2>1. Eight(g.topsize + n) /\ g.topsize + n \in Nat /\ g.topsize + n > 0
    BY DEF Topped, Eight
  <2>2. g.brk \in Int /\ g.brk + n = g.top + (g.topsize + n) + TOP_FOOT_SIZE /\ g.seg_size + n = g.brk + n - Base
    BY <1>1, HeapAssumption DEF Topped, TOP_FOOT_SIZE
  <2>3. Word(f, t + (g.topsize + n) + 4) = HeadWord(TOP_FOOT_SIZE, FALSE, FALSE)
    OBVIOUS
  <2>4. IsHead(f, f.top) /\ Word(f, f.top + 4).size = f.topsize /\ ~Word(f, f.top + 4).cinuse
    BY <1>2 DEF IsHead, HeadWord
  <2>5. IsHead(f, f.top + f.topsize) /\ ~Word(f, f.top + f.topsize + 4).pinuse
    BY <2>3 DEF IsHead, HeadWord
  <2>6. g.footprint = g.seg_size /\ g.seg_size = g.brk - Base
    BY DEF Topped
  <2>7. f.seg_size = f.brk - Base /\ f.footprint = f.seg_size /\ f.brk = f.top + f.topsize + TOP_FOOT_SIZE
    <3>1. g.seg_size \in Int /\ g.footprint \in Int /\ TOP_FOOT_SIZE \in Int
      BY <2>2, <2>6, HeapAssumption DEF TOP_FOOT_SIZE
    <3> QED
      BY <1>1, <2>2, <2>6, <3>1, HeapAssumption
  <2> HIDE DEF Layout
  <2> QED
    BY <2>1, <2>4, <2>5, <2>7 DEF Topped
<1>10. C \ {} = C /\ U \cup {} = U
  OBVIOUS
<1> QED
  BY <1>4, <1>6, <1>7, <1>8, <1>9, <1>10 DEF Stored

\* The first segment that sbrk gives is all top.
LEMMA LayoutFirst ==
    ASSUME NEW sz, NEW n \in Nat, Eight(n), n > TOP_FOOT_SIZE, Base + n <= End,
           NEW f, DOMAIN f = Fields, f.top = Base, f.topsize = n - TOP_FOOT_SIZE,
           f.brk = Base + n, f.seg_size = n, f.footprint = n, f.max_footprint \in Nat, f.footprint <= f.max_footprint,
           Word(f, Base + 4) = HeadWord(n - TOP_FOOT_SIZE, FALSE, TRUE),
           Word(f, Base + (n - TOP_FOOT_SIZE) + 4) = HeadWord(TOP_FOOT_SIZE, FALSE, FALSE)
    PROVE  Layout(f, {}, {}, sz, {})
<1>1. Tiled({}, sz, Base)
  BY HeapAssumption DEF Tiled, Eight
<1>2. Parted({}, {}, sz, {}) /\ Stored(f, {}, {}, sz, {})
  BY DEF Parted, Stored, HeadsAre, NextsAre, FeetAre, IsHead, HeadWord
<1>3. Eight(n - 40) /\ n - 40 \in Nat /\ n - 40 > 0 /\ Base + (n - 40) + 40 = Base + n /\ Base + n - Base = n
  BY HeapAssumption DEF TOP_FOOT_SIZE, Eight
<1>4. IsHead(f, f.top) /\ Word(f, f.top + 4).size = f.topsize /\ ~Word(f, f.top + 4).cinuse
  BY DEF IsHead, HeadWord
<1>5. IsHead(f, f.top + f.topsize) /\ ~Word(f, f.top + f.topsize + 4).pinuse
  BY DEF IsHead, HeadWord
<1>6. /\ Eight(f.topsize) /\ f.topsize \in Nat /\ f.topsize > 0
      /\ f.brk = f.top + f.topsize + TOP_FOOT_SIZE /\ f.seg_size = f.brk - Base
  BY <1>3, HeapAssumption DEF TOP_FOOT_SIZE
<1>7. Topped(f)
  BY <1>4, <1>5, <1>6 DEF Topped
<1> QED
  BY <1>1, <1>2, <1>7 DEF Layout

-----------------------------------------------------------------------------
(* Powers of two and quotients. *)

\* Every set of natural numbers that is not empty has a least element.
LEMMA Least ==
    ASSUME NEW S \in SUBSET Nat, S # {}
    PROVE  \E n \in S : \A m \in S : n <= m
<1>1. PICK n \in S : \A m \in S : ~(<<m, n>> \in OpToRel(<, Nat))
  BY WFMin, NatLessThanWellFounded, Zenon
<1>2. \A m \in S : ~(m < n)
  <2> SUFFICES ASSUME NEW m \in S, m < n PROVE FALSE
    OBVIOUS
  <2>1. <<m, n>> \in Nat \X Nat /\ <<m, n>>[1] < <<m, n>>[2]
    OBVIOUS
  <2>2. <<m, n>> \in OpToRel(<, Nat)
    BY <2>1, Zenon DEF OpToRel
  <2> QED
    BY <1>1, <2>2, Zenon
<1> QED
  BY <1>2

\* A set of numbers that holds each one whose predecessors it holds, holds all: how the
\* recursive functions below are shown to be what their definitions say.
LEMMA All ==
    ASSUME NEW S \in SUBSET Nat,
           \A n \in Nat : (\A m \in Nat : m < n => m \in S) => n \in S
    PROVE  S = Nat
  <1> SUFFICES ASSUME Nat \ S # {} PROVE FALSE
    OBVIOUS
  <1>1. PICK n \in Nat \ S : \A m \in Nat \ S : n <= m
    BY Least
  <1>2. \A m \in Nat : m < n => m \in S
    BY <1>1
  <1> QED
    BY <1>1, <1>2

Doubled(f, n) == IF n = 0 THEN 1 ELSE 2 * f[n - 1]

\* Two is what its definition says.
LEMMA TwoUnfolds == \A n \in Nat : Two[n] = Doubled(Two, n)
  <1> DEFINE Upto(f, k) == \A n \in Nat : n <= k => f[n] = Doubled(f, n)
             S == {k \in Nat : \E f : Upto(f, k)}
  <1>1. ASSUME NEW k \in Nat, \A m \in Nat : m < k => m \in S
        PROVE  k \in S
    <2>1. CASE k = 0
      <3> DEFINE g == [n \in Nat |-> 1]
      <3>1. Upto(g, k)
        BY <2>1 DEF Doubled
      <3> QED
        BY <3>1
    <2>2. CASE k # 0
      <3>1. PICK f : Upto(f, k - 1)
        BY <1>1, <2>2
      <3> DEFINE g == [n \in Nat |-> IF n < k THEN f[n] ELSE 2 * f[n - 1]]
      <3>2. \A n \in Nat : n <= k => g[n] = Doubled(g, n)
        BY <2>2, <3>1 DEF Doubled
      <3> QED
        BY <3>2
    <2> QED
      BY <2>1, <2>2
  <1>2. S = Nat
    <2> HIDE DEF S
    <2>1. S \in SUBSET Nat
      BY DEF S
    <2> QED
      BY <1>1, <2>1, All
  <1> DEFINE F(k) == CHOOSE f : Upto(f, k)
  <1>3. \A k \in Nat : Upto(F(k), k)
    <2> HIDE DEF Upto
    <2>1. \A k \in Nat : \E f : Upto(f, k)
      BY <1>2
    <2> QED
      BY <2>1
  <1>4. \A k \in Nat : \A n \in Nat : n <= k => F(k)[n] = F(n)[n]
    <2> HIDE DEF F
    <2> DEFINE T == {n \in Nat : \A k \in Nat : n <= k => F(k)[n] = F(n)[n]}
    <2>1. ASSUME NEW n \in Nat, \A m \in Nat : m < n => m \in T
          PROVE  n \in T
      <3> SUFFICES ASSUME NEW k \in Nat, n <= k PROVE F(k)[n] = F(n)[n]
        OBVIOUS
      <3>1. F(k)[n] = Doubled(F(k), n) /\ F(n)[n] = Doubled(F(n), n)
        BY <1>3
      <3>2. CASE n = 0
        BY <3>1, <3>2 DEF Doubled
      <3>3. CASE n # 0
        <4>1. F(k)[n - 1] = F(n)[n - 1]
          BY <2>1, <3>3
        <4> QED
          BY <3>1, <3>3, <4>1 DEF Doubled
      <3> QED
        BY <3>2, <3>3
    <2>2. T = Nat
      <3> HIDE DEF T
      <3>1. T \in SUBSET Nat
        BY DEF T
      <3> QED
        BY <2>1, <3>1, All
    <2> QED
      BY <2>2
  <1> DEFINE g == [n \in Nat |-> F(n)[n]]
  <1>5. g = [n \in Nat |-> Doubled(g, n)]
    <2> HIDE DEF F
    <2> SUFFICES ASSUME NEW n \in Nat PROVE F(n)[n] = Doubled(g, n)
      OBVIOUS
    <2>1. F(n)[n] = Doubled(F(n), n)
      BY <1>3
    <2>2. CASE n = 0
      BY <2>1, <2>2 DEF Doubled
    <2>3. CASE n # 0
      <3>1. F(n)[n - 1] = g[n - 1]
        BY <1>4, <2>3
      <3> QED
        BY <2>1, <2>3, <3>1 DEF Doubled
    <2> QED
      BY <2>2, <2>3
  <1> HIDE DEF g
  <1>6. Two = CHOOSE h : h = [n \in Nat |-> Doubled(h, n)]
    BY DEF Two, Doubled
  <1> DEFINE h == Two
  <1>7. h = [n \in Nat |-> Doubled(h, n)]
    BY <1>5, <1>6
  <1> HIDE DEF h
  <1>8. \A n \in Nat : h[n] = Doubled(h, n)
    BY <1>7
  <1> QED
    BY <1>8 DEF h

\* What is needed of powers of two.
LEMMA Powers ==
    /\ Two[0] = 1
    /\ \A n \in Nat : /\ Two[n] \in Nat /\ Two[n] > 0
                      /\ Two[n + 1] = 2 * Two[n]
  <1> DEFINE S == {n \in Nat : Two[n] \in Nat /\ Two[n] > 0}
  <1>1. Two[0] = 1
    BY TwoUnfolds DEF Doubled
  <1>2. ASSUME NEW n \in Nat PROVE Two[n + 1] = 2 * Two[n]
    <2>1. Two[n + 1] = Doubled(Two, n + 1)
      BY TwoUnfolds
    <2> QED
      BY <2>1 DEF Doubled
  <1>3. ASSUME NEW n \in Nat, \A m \in Nat : m < n => m \in S
        PROVE  n \in S
    <2>1. CASE n = 0
      BY <1>1, <2>1
    <2>2. CASE n # 0
      <3>1. n - 1 \in Nat /\ n - 1 < n /\ (n - 1) + 1 = n
        BY <2>2
      <3>2. Two[n] = 2 * Two[n - 1] /\ n - 1 \in S
        BY <1>2, <1>3, <3>1
      <3> QED
        BY <3>2
    <2> QED
      BY <2>1, <2>2
  <1>4. S = Nat
    <2> HIDE DEF S
    <2>1. S \in SUBSET Nat
      BY DEF S
    <2> QED
      BY <1>3, <2>1, All
  <1> QED
    BY <1>1, <1>2, <1>4

\* A larger factor makes a larger product.
LEMMA Larger ==
    ASSUME NEW m \in Nat, NEW n \in Nat, m <= n, NEW s \in Nat
    PROVE  m * s <= n * s /\ m * s \in Nat /\ n * s \in Nat
<1>1. PICK d \in Nat : n = m + d
  <2>1. n - m \in Nat
    OBVIOUS
  <2> QED
    BY <2>1
<1>2. d * s \in Nat /\ n * s = m * s + d * s /\ m * s \in Nat
  BY <1>1
<1> QED
  BY <1>2

\* Quotients.
LEMMA Division ==
    ASSUME NEW m \in Nat, m > 0, NEW x \in Nat
    PROVE  \E q \in Nat, r \in 0 .. m - 1 : x = q * m + r
<1> DEFINE S == {k \in Nat : \E q \in Nat, r \in 0 .. m - 1 : k = q * m + r}
<1>1. ASSUME NEW k \in Nat, \A i \in Nat : i < k => i \in S
      PROVE  k \in S
  <2>1. CASE k < m
    <3>1. k = 0 * m + k /\ k \in 0 .. m - 1
      BY <2>1
    <3> QED
      BY <3>1
  <2>2. CASE k >= m
    <3>1. k - m \in Nat /\ k - m < k
      BY <2>2
    <3>2. PICK q \in Nat, r \in 0 .. m - 1 : k - m = q * m + r
      BY <1>1, <3>1
    <3>3. (q + 1) * m = q * m + m /\ q * m \in Nat
      OBVIOUS
    <3>4. k = (q + 1) * m + r /\ q + 1 \in Nat
      BY <3>2, <3>3
    <3> QED
      BY <3>4
  <2> QED
    BY <2>1, <2>2
<1>2. S = Nat
  <2> HIDE DEF S
  <2>1. S \in SUBSET Nat
    BY DEF S
  <2> QED
    BY <1>1, <2>1, All
<1> QED
  BY <1>2

\* A quotient and its remainder make up the number.
LEMMA Quotient ==
    ASSUME NEW x \in Nat, NEW m \in Nat, m > 0
    PROVE  \E q \in Nat, r \in 0 .. m - 1 : x = q * m + r /\ x \div m = q /\ x % m = r
<1>1. PICK q \in Nat, r \in 0 .. m - 1 : x = q * m + r
  BY Division
<1> DEFINE y == q * m + r
<1>2. y \div m = q /\ y % m = r /\ q * m \in Nat
  OBVIOUS
<1>3. y = x
  BY <1>1
<1> HIDE DEF y
<1>4. x \div m = q /\ x % m = r
  BY <1>2, <1>3, Zenon
<1> QED
  BY <1>1, <1>4, Zenon

\* The half of a number, and whether it is odd.
LEMMA Half ==
    ASSUME NEW q \in Nat
    PROVE  \E a \in Nat, b \in {0, 1} : q = 2 * a + b /\ q \div 2 = a /\ q % 2 = b
<1>1. 2 \in Nat /\ 2 > 0
  OBVIOUS
<1>2. PICK a \in Nat, b \in 0 .. 2 - 1 : q = a * 2 + b /\ q \div 2 = a /\ q % 2 = b
  BY <1>1, Quotient, Zenon
<1>3. b \in {0, 1} /\ q = 2 * a + b
  BY <1>2
<1> QED
  BY <1>2, <1>3, Zenon

\* The quotient is told by the multiples around x.
LEMMA QuotientIs ==
    ASSUME NEW x \in Nat, NEW m \in Nat, m > 0, NEW q \in Nat, q * m <= x, x < (q + 1) * m
    PROVE  x \div m = q
<1>1. q * m \in Nat /\ (q + 1) * m = q * m + m
  OBVIOUS
<1>2. PICK r \in 0 .. m - 1 : x = q * m + r
  <2>1. x - q * m \in 0 .. m - 1
    BY <1>1
  <2> QED
    BY <1>1, <2>1
<1>3. (q * m + r) \div m = q
  OBVIOUS
<1> QED
  BY <1>2, <1>3

\* A number is no more than a quotient if its multiple is no more than x.
LEMMA QuotientLe ==
    ASSUME NEW x \in Nat, NEW m \in Nat, m > 0, NEW q \in Nat
    PROVE  q <= x \div m <=> q * m <= x
<1>1. PICK d \in Nat, r \in 0 .. m - 1 : x = d * m + r /\ x \div m = d
  BY Quotient
<1>9. d * m \in Nat
  BY <1>1
<1>2. ASSUME q <= d PROVE q * m <= x
  <2>1. q * m <= d * m /\ q * m \in Nat
    BY <1>1, <1>2, Larger
  <2> QED
    BY <1>1, <2>1
<1>3. ASSUME ~(q <= d) PROVE ~(q * m <= x)
  <2>1. d + 1 <= q
    BY <1>1, <1>3
  <2>2. (d + 1) * m <= q * m /\ q * m \in Nat
    BY <1>1, <2>1, Larger
  <2>3. (d + 1) * m = d * m + m
    BY <1>1
  <2> QED
    BY <1>1, <2>2, <2>3
<1> QED
  BY <1>1, <1>2, <1>3

\* A quotient's quotient, halves.
LEMMA HalfQuotient ==
    ASSUME NEW x \in Nat, NEW m \in Nat, m > 0
    PROVE  \E a \in Nat, b \in {0, 1} :
              x \div m = 2 * a + b /\ (x \div m) % 2 = b /\ x \div (2 * m) = a
<1>1. PICK q \in Nat, r \in 0 .. m - 1 : x = q * m + r /\ x \div m = q
  BY Quotient
<1>2. PICK a \in Nat, b \in {0, 1} : q = 2 * a + b /\ q \div 2 = a /\ q % 2 = b
  BY <1>1, Half
<1>9. q * m <= x /\ x < (q + 1) * m
  <2>1. q * m \in Nat /\ (q + 1) * m = q * m + m
    OBVIOUS
  <2> QED
    BY <1>1, <2>1
<1>3. 2 * a * m <= q * m /\ q * m \in Nat /\ (q + 1) * m <= (2 * a + 2) * m /\ (q + 1) * m \in Nat
  <2>1. 2 * a \in Nat /\ q \in Nat /\ q + 1 \in Nat /\ 2 * a + 2 \in Nat
    BY <1>1, <1>2
  <2> QED
    BY <1>2, <2>1, Larger
<1>4. a * (2 * m) = 2 * a * m /\ (a + 1) * (2 * m) = (2 * a + 2) * m
  BY <1>2
<1>5. a * (2 * m) <= x /\ x < (a + 1) * (2 * m)
  <2>1. 2 * a * m \in Nat /\ (2 * a + 2) * m \in Nat
    BY <1>2
  <2> QED
    BY <1>9, <1>3, <1>4, <2>1
<1>6. 2 * m \in Nat /\ 2 * m > 0
  OBVIOUS
<1>7. x \div (2 * m) = a
  BY <1>2, <1>5, <1>6, QuotientIs
<1>8. x \div m = 2 * a + b /\ (x \div m) % 2 = b
  BY <1>1, <1>2, Zenon
<1> QED
  BY <1>2, <1>7, <1>8, Zenon

\* Powers of two.
LEMMA TwoAdds ==
    ASSUME NEW m \in Nat, NEW n \in Nat
    PROVE  Two[m + n] = Two[m] * Two[n]
<1> DEFINE S == {k \in Nat : Two[m + k] = Two[m] * Two[k]}
<1>1. ASSUME NEW k \in Nat, \A i \in Nat : i < k => i \in S
      PROVE  k \in S
  <2>1. CASE k = 0
    <3>1. Two[m] \in Nat /\ Two[0] = 1 /\ m + 0 = m
      BY Powers
    <3> QED
      BY <2>1, <3>1
  <2>2. CASE k # 0
    <3>1. k - 1 \in Nat /\ k - 1 < k /\ (k - 1) + 1 = k /\ m + (k - 1) \in Nat /\ (m + (k - 1)) + 1 = m + k
      BY <2>2
    <3>2. Two[k] = 2 * Two[k - 1] /\ Two[m + k] = 2 * Two[m + (k - 1)]
      BY <3>1, Powers
    <3>3. Two[m + (k - 1)] = Two[m] * Two[k - 1]
      BY <1>1, <3>1
    <3>4. Two[m] \in Nat /\ Two[k - 1] \in Nat
      BY <3>1, Powers
    <3> QED
      BY <3>2, <3>3, <3>4
  <2> QED
    BY <2>1, <2>2
<1>2. S = Nat
  <2> HIDE DEF S
  <2>1. S \in SUBSET Nat
    BY DEF S
  <2> QED
    BY <1>1, <2>1, All
<1> QED
  BY <1>2

\* A larger exponent makes a larger power of two.
LEMMA TwoGrows ==
    ASSUME NEW m \in Nat, NEW n \in Nat, m <= n
    PROVE  Two[m] <= Two[n]
<1>1. n - m \in Nat /\ m + (n - m) = n
  OBVIOUS
<1>2. Two[m] \in Nat /\ Two[n - m] \in Nat /\ Two[n - m] > 0
  BY <1>1, Powers
<1>3. Two[n] = Two[m] * Two[n - m]
  BY <1>1, TwoAdds
<1>4. 1 * Two[m] <= Two[n - m] * Two[m]
  BY <1>2, Larger
<1> QED
  BY <1>2, <1>3, <1>4

\* Powers of two from eight on are multiples of eight.
LEMMA TwoEight ==
    ASSUME NEW n \in Nat, n >= 3
    PROVE  Eight(Two[n])
<1>1. n - 3 \in Nat /\ (n - 3) + 3 = n
  OBVIOUS
<1>2. Two[n] = Two[n - 3] * Two[3]
  BY <1>1, TwoAdds
<1>3. Two[3] = 8
  <2>1. Two[0 + 1] = 2 * Two[0] /\ Two[1 + 1] = 2 * Two[1] /\ Two[2 + 1] = 2 * Two[2] /\ Two[0] = 1
    BY Powers
  <2> QED
    BY <2>1
<1>4. Two[n - 3] \in Nat
  BY <1>1, Powers
<1> QED
  BY <1>2, <1>3, <1>4 DEF Eight

-----------------------------------------------------------------------------
(* The bins of sizes. *)

\* The smallest size of a bin, and of the next one.
LEMMA Floors ==
    ASSUME NEW i \in Nat, NEW a \in Nat, NEW b \in {0, 1}, i = 2 * a + b
    PROVE  LET half == Two[a + TREEBIN_SHIFT - 1]
           IN  /\ half \in Nat /\ half > 0
               /\ minsize_for_tree_index(i) = (2 + b) * half /\ minsize_for_tree_index(i + 1) = (3 + b) * half
<1> DEFINE half == Two[a + TREEBIN_SHIFT - 1]
<1>1. a + TREEBIN_SHIFT - 1 \in Nat /\ (a + 1) + TREEBIN_SHIFT - 1 = (a + TREEBIN_SHIFT - 1) + 1
  BY HeapAssumption
<1>2. half \in Nat /\ half > 0 /\ Two[(a + 1) + TREEBIN_SHIFT - 1] = 2 * half
  BY <1>1, Powers
<1>3. i \div 2 = a /\ i % 2 = b
  <2>1. PICK c \in Nat, d \in {0, 1} : i = 2 * c + d /\ i \div 2 = c /\ i % 2 = d
    BY Half
  <2>2. c = a /\ d = b
    BY <2>1
  <2> QED
    BY <2>1, <2>2, Zenon
<1>4. minsize_for_tree_index(i) = (2 + b) * half
  BY <1>3, Zenon DEF minsize_for_tree_index
<1>5. PICK c \in Nat, d \in {0, 1} : i + 1 = 2 * c + d /\ (i + 1) \div 2 = c /\ (i + 1) % 2 = d
  <2>1. i + 1 \in Nat
    OBVIOUS
  <2> QED
    BY <2>1, Half, Zenon
<1>6. minsize_for_tree_index(i + 1) = (2 + d) * Two[c + TREEBIN_SHIFT - 1]
  BY <1>5, Zenon DEF minsize_for_tree_index
<1> HIDE DEF half
<1>7. minsize_for_tree_index(i + 1) = (3 + b) * half
  <2>1. CASE b = 0
    <3>1. c = a /\ d = 1
      BY <1>5, <2>1
    <3> QED
      BY <1>2, <1>6, <2>1, <3>1 DEF half
  <2>2. CASE b = 1
    <3>1. c = a + 1 /\ d = 0
      BY <1>5, <2>2
    <3> QED
      BY <1>2, <1>6, <2>2, <3>1
  <2> QED
    BY <2>1, <2>2
<1> QED
  BY <1>2, <1>4, <1>7 DEF half

\* A later bin's smallest size is no smaller.
LEMMA FloorsGrow ==
    ASSUME NEW i \in Nat, NEW j \in Nat, i <= j
    PROVE  /\ minsize_for_tree_index(i) \in Nat
           /\ minsize_for_tree_index(i) <= minsize_for_tree_index(j)
<1>1. \A k \in Nat : /\ minsize_for_tree_index(k) \in Nat /\ minsize_for_tree_index(k + 1) \in Nat
                     /\ minsize_for_tree_index(k) <= minsize_for_tree_index(k + 1)
  <2> SUFFICES ASSUME NEW k \in Nat
               PROVE  /\ minsize_for_tree_index(k) \in Nat /\ minsize_for_tree_index(k + 1) \in Nat
                      /\ minsize_for_tree_index(k) <= minsize_for_tree_index(k + 1)
    OBVIOUS
  <2>1. PICK a \in Nat, b \in {0, 1} : k = 2 * a + b
    BY Half
  <2> DEFINE half == Two[a + TREEBIN_SHIFT - 1]
  <2>2. /\ half \in Nat /\ minsize_for_tree_index(k) = (2 + b) * half
        /\ minsize_for_tree_index(k + 1) = (3 + b) * half
    BY SMTT(30), <2>1, Floors
  <2> HIDE DEF half
  <2>3. CASE b = 0
    BY <2>2, <2>3
  <2>4. CASE b = 1
    BY <2>2, <2>4
  <2> QED
    BY <2>3, <2>4
<1> DEFINE S == {n \in Nat : minsize_for_tree_index(i) <= minsize_for_tree_index(i + n)}
<1>2. ASSUME NEW n \in Nat, \A m \in Nat : m < n => m \in S
      PROVE  n \in S
  <2>1. CASE n = 0
    BY <1>1, <2>1
  <2>2. CASE n # 0
    <3>1. n - 1 \in Nat /\ n - 1 < n /\ i + (n - 1) \in Nat /\ i + (n - 1) + 1 = i + n
      BY <2>2
    <3>2. minsize_for_tree_index(i) <= minsize_for_tree_index(i + (n - 1))
      BY <1>2, <3>1
    <3>3. /\ minsize_for_tree_index(i + (n - 1)) <= minsize_for_tree_index(i + n)
          /\ minsize_for_tree_index(i + (n - 1)) \in Nat /\ minsize_for_tree_index(i + n) \in Nat
      BY <1>1, <3>1
    <3> QED
      BY <1>1, <3>2, <3>3
  <2> QED
    BY <2>1, <2>2
<1>3. S = Nat
  <2> HIDE DEF S
  <2>1. S \in SUBSET Nat
    BY DEF S
  <2> QED
    BY <1>2, <2>1, All
<1>4. j - i \in Nat /\ i + (j - i) = j
  OBVIOUS
<1>5. j - i \in S
  BY <1>3, <1>4
<1> QED
  BY <1>1, <1>4, <1>5

\* Log2 is the exponent of the power of two that x reaches.
LEMMA Log2Is ==
    ASSUME NEW x \in Nat, x > 0, x < Modulus
    PROVE  Log2(x) \in 0 .. SizeBits /\ Two[Log2(x)] <= x /\ x < Two[Log2(x) + 1]
<1> DEFINE S == {n \in Nat : x < Two[n]}
<1>1. SizeBits \in S
  BY HeapAssumption DEF Modulus
<1>2. PICK n \in S : \A m \in S : n <= m
  <2> HIDE DEF S
  <2>1. S \in SUBSET Nat /\ S # {}
    BY <1>1 DEF S
  <2> QED
    BY <2>1, Least
<1>3. n # 0
  BY <1>2, Powers
<1>4. n - 1 \in Nat /\ n - 1 \in 0 .. SizeBits /\ (n - 1) + 1 = n
  BY <1>1, <1>2, <1>3, HeapAssumption
<1>5. ~(x < Two[n - 1])
  BY <1>2, <1>4
<1>6. Two[n - 1] <= x /\ x < Two[(n - 1) + 1]
  BY <1>2, <1>4, <1>5, Powers
<1>7. \E k \in 0 .. SizeBits : Two[k] <= x /\ x < Two[k + 1]
  BY <1>4, <1>6
<1> QED
  BY <1>7 DEF Log2

\* A size is in the bin whose sizes it is one of.
Ranged(s, i) ==
    /\ i \in TreeBins /\ minsize_for_tree_index(i) <= s
    /\ i < NTREEBINS - 1 => s < minsize_for_tree_index(i + 1)

\* The limits of sizes, as numbers.
LEMMA LargeSizes ==
    /\ MIN_LARGE_SIZE \in Nat /\ MIN_LARGE_SIZE >= 32 /\ Eight(MIN_LARGE_SIZE)
    /\ Modulus \in Nat /\ Modulus >= MIN_LARGE_SIZE /\ Modulus >= 256 /\ Eight(Modulus)
<1>1. Two[5] = 32 /\ Two[8] = 256
  <2>1. /\ Two[0 + 1] = 2 * Two[0] /\ Two[1 + 1] = 2 * Two[1] /\ Two[2 + 1] = 2 * Two[2] /\ Two[0] = 1
        /\ Two[3 + 1] = 2 * Two[3] /\ Two[4 + 1] = 2 * Two[4] /\ Two[5 + 1] = 2 * Two[5] /\ Two[6 + 1] = 2 * Two[6]
        /\ Two[7 + 1] = 2 * Two[7]
    BY Powers
  <2> QED
    BY <2>1
<1>2. TREEBIN_SHIFT \in Nat /\ TREEBIN_SHIFT >= 5 /\ SizeBits \in Nat /\ SizeBits >= 8 /\ SizeBits >= TREEBIN_SHIFT
  BY HeapAssumption
<1>3. Two[5] <= Two[TREEBIN_SHIFT] /\ Two[8] <= Two[SizeBits] /\ Two[TREEBIN_SHIFT] <= Two[SizeBits]
  BY <1>2, TwoGrows
<1>4. Eight(Two[TREEBIN_SHIFT]) /\ Eight(Two[SizeBits])
  BY <1>2, TwoEight
<1>5. Two[TREEBIN_SHIFT] \in Nat /\ Two[SizeBits] \in Nat
  BY <1>2, Powers
<1> QED
  BY <1>1, <1>3, <1>4, <1>5 DEF MIN_LARGE_SIZE, Modulus

\* compute_tree_index finds the bin that minsize_for_tree_index gives the size of.
LEMMA TreeIndex ==
    ASSUME NEW s \in Nat, s >= MIN_LARGE_SIZE, s < Modulus
    PROVE  Ranged(s, compute_tree_index(s))
<1> DEFINE M == MIN_LARGE_SIZE
           x == s \div M
           K == NTREEBINS \div 2
           i == compute_tree_index(s)
<1>1. M \in Nat /\ M > 0 /\ M = Two[TREEBIN_SHIFT]
  BY LargeSizes DEF MIN_LARGE_SIZE
<1>2. NTREEBINS = 2 * K /\ K \in Nat /\ K > 0
  <2>1. PICK a \in Nat, b \in {0, 1} : NTREEBINS = 2 * a + b /\ NTREEBINS \div 2 = a /\ NTREEBINS % 2 = b
    BY Half, HeapAssumption
  <2> QED
    BY <2>1, HeapAssumption
<1> HIDE DEF M, x, K, i
<1>3. x \in Nat /\ x >= 1 /\ x <= s
  <2>1. PICK q \in Nat, r \in 0 .. M - 1 : s = q * M + r /\ x = q
    BY <1>1, Quotient DEF x
  <2>2. 1 * M <= s
    <3>1. M <= s
      BY DEF M
    <3> QED
      BY <1>1, <3>1
  <2>3. 1 <= x
    BY <1>1, <2>2, QuotientLe DEF x
  <2>4. 1 * q <= M * q /\ M * q = q * M /\ M * q \in Nat
    BY <1>1, Larger
  <2> QED
    BY <1>1, <2>1, <2>3, <2>4
<1>4. i = IF x >= Two[K] THEN NTREEBINS - 1
          ELSE (2 * Log2(x)) + ((s \div Two[Log2(x) + TREEBIN_SHIFT - 1]) % 2)
  BY <1>3 DEF i, x, K, M, compute_tree_index
<1>5. ASSUME NEW n \in Nat
      PROVE  /\ n + TREEBIN_SHIFT \in Nat /\ Two[n + TREEBIN_SHIFT] \in Nat
             /\ Two[n] <= x <=> Two[n + TREEBIN_SHIFT] <= s
  <2>1. Two[n] \in Nat /\ n + TREEBIN_SHIFT \in Nat /\ Two[n + TREEBIN_SHIFT] \in Nat
    BY HeapAssumption, Powers
  <2>2. Two[n + TREEBIN_SHIFT] = Two[n] * M
    BY <1>1, HeapAssumption, TwoAdds
  <2> QED
    BY <1>1, <2>1, <2>2, QuotientLe DEF x
<1>6. CASE x >= Two[K]
  <2> DEFINE k == K - 1
  <2>1. k \in Nat /\ i = 2 * k + 1 /\ i \in Nat
    BY <1>2, <1>4, <1>6
  <2> DEFINE half == Two[k + TREEBIN_SHIFT - 1]
  <2>2. half \in Nat /\ minsize_for_tree_index(i) = (2 + 1) * half
    BY <2>1, Floors
  <2>3. /\ k + TREEBIN_SHIFT - 1 \in Nat /\ (k + TREEBIN_SHIFT - 1) + 1 \in Nat
        /\ ((k + TREEBIN_SHIFT - 1) + 1) + 1 = K + TREEBIN_SHIFT
    BY <1>2, HeapAssumption
  <2>4. Two[K + TREEBIN_SHIFT] = 4 * half
    BY <2>3, Powers
  <2>5. Two[K] \in Nat
    BY <1>2, Powers
  <2>6. Two[K + TREEBIN_SHIFT] <= s
    BY <1>2, <1>3, <1>5, <1>6, <2>5
  <2> HIDE DEF half
  <2>7. minsize_for_tree_index(i) <= s
    BY <2>2, <2>4, <2>6
  <2> QED
    BY <1>2, <2>1, <2>7 DEF Ranged, TreeBins, i
<1>7. CASE ~(x >= Two[K])
  <2> DEFINE k == Log2(x)
             half == Two[k + TREEBIN_SHIFT - 1]
  <2>1. x < Modulus
    BY <1>3, LargeSizes
  <2>2. k \in Nat /\ Two[k] <= x /\ x < Two[k + 1]
    BY <1>3, <2>1, Log2Is, HeapAssumption
  <2> HIDE DEF k
  <2>3. k < K
    <3>1. ASSUME K <= k PROVE FALSE
      <4>1. Two[K] <= Two[k] /\ Two[K] \in Nat /\ Two[k] \in Nat
        BY <1>2, <2>2, <3>1, TwoGrows, Powers
      <4> QED
        BY <1>3, <1>7, <2>2, <4>1
    <3> QED
      BY <1>2, <2>2, <3>1
  <2>4. /\ k + TREEBIN_SHIFT - 1 \in Nat /\ (k + TREEBIN_SHIFT - 1) + 1 = k + TREEBIN_SHIFT
        /\ (k + TREEBIN_SHIFT) + 1 = (k + 1) + TREEBIN_SHIFT
    BY <2>2, HeapAssumption
  <2>5. half \in Nat /\ half > 0 /\ Two[k + TREEBIN_SHIFT] = 2 * half
    BY <2>4, Powers
  <2>6. Two[(k + 1) + TREEBIN_SHIFT] = 4 * half
    <3>1. k + TREEBIN_SHIFT \in Nat
      BY <2>2, HeapAssumption
    <3>2. Two[(k + TREEBIN_SHIFT) + 1] = 2 * Two[k + TREEBIN_SHIFT]
      BY <3>1, Powers
    <3> QED
      BY <2>4, <2>5, <3>2
  <2>7. 2 * half <= s /\ s < 4 * half
    <3>1. k + 1 \in Nat /\ Two[k + 1] \in Nat
      BY <2>2, Powers
    <3>2. ~(Two[k + 1] <= x)
      BY <1>3, <2>2, <3>1
    <3>3. ~(Two[(k + 1) + TREEBIN_SHIFT] <= s)
      BY <1>5, <3>1, <3>2
    <3> HIDE DEF half
    <3> QED
      BY <1>5, <2>2, <2>5, <2>6, <3>3
  <2> HIDE DEF half
  <2>8. PICK q \in Nat : s \div half = q
    BY <2>5, Quotient
  <2>9. q \in {2, 3} /\ q * half <= s /\ ~((q + 1) * half <= s)
    <3>1. \A n \in Nat : n <= q <=> n * half <= s
      BY <2>5, <2>8, QuotientLe
    <3>2. 2 <= q /\ ~(4 <= q) /\ ~(q + 1 <= q)
      BY <2>5, <2>7, <3>1
    <3>3. q + 1 \in Nat
      OBVIOUS
    <3> QED
      BY <3>1, <3>2, <3>3
  <2>10. PICK a \in Nat, b \in {0, 1} : q = 2 * a + b /\ q % 2 = b
    BY Half
  <2>11. b = q - 2
    BY <2>9, <2>10
  <2>12. i = 2 * k + b
    <3>1. (s \div half) % 2 = b
      BY <2>8, <2>10, Zenon
    <3>2. i = 2 * k + ((s \div half) % 2)
      BY <1>4, <1>7 DEF k, half
    <3> QED
      BY <3>1, <3>2, Zenon
  <2>13. i \in Nat
    BY <2>2, <2>12
  <2>14. minsize_for_tree_index(i) = (2 + b) * half /\ minsize_for_tree_index(i + 1) = (3 + b) * half
    BY SMTT(30), <2>2, <2>12, <2>13, Floors DEF half
  <2>15. minsize_for_tree_index(i) <= s /\ s < minsize_for_tree_index(i + 1)
    <3>1. CASE q = 2
      BY <2>5, <2>9, <2>11, <2>14, <3>1
    <3>2. CASE q = 3
      BY <2>5, <2>9, <2>11, <2>14, <3>2
    <3> QED
      BY <2>9, <3>1, <3>2
  <2>16. i \in TreeBins
    BY <1>2, <2>2, <2>3, <2>12, <2>13 DEF TreeBins
  <2> QED
    BY <2>15, <2>16 DEF Ranged, i
<1> QED
  BY <1>6, <1>7

\* A larger size is in no earlier bin.
LEMMA IndexGrows ==
    ASSUME NEW s \in Nat, NEW t \in Nat, s <= t, s >= MIN_LARGE_SIZE, t < Modulus
    PROVE  compute_tree_index(s) <= compute_tree_index(t)
<1> DEFINE i == compute_tree_index(s)
           j == compute_tree_index(t)
<1>1. MIN_LARGE_SIZE \in Nat /\ Modulus \in Nat
  BY LargeSizes
<1>2. Ranged(s, i) /\ Ranged(t, j)
  BY <1>1, TreeIndex
<1> HIDE DEF i, j
<1>3. NTREEBINS \in Nat /\ i \in Nat /\ j \in Nat /\ i < NTREEBINS /\ j < NTREEBINS
  BY <1>2, HeapAssumption DEF Ranged, TreeBins
<1>4. ASSUME j < i PROVE FALSE
  <2>1. j + 1 <= i /\ j < NTREEBINS - 1 /\ j + 1 \in Nat
    BY <1>3, <1>4
  <2>2. minsize_for_tree_index(j + 1) <= minsize_for_tree_index(i) /\ minsize_for_tree_index(j + 1) \in Nat
    BY <1>3, <2>1, FloorsGrow
  <2>3. minsize_for_tree_index(i) \in Nat
    BY <1>3, FloorsGrow
  <2> QED
    BY <1>2, <2>1, <2>2, <2>3 DEF Ranged
<1> QED
  BY <1>3, <1>4 DEF i, j

-----------------------------------------------------------------------------
(* Bits of sizes, and ways down the tries. *)

\* The bits that the trie tells apart.
LEMMA BitOf ==
    ASSUME NEW i \in TreeBins
    PROVE  bit_for_tree_index(i) \in Nat /\ Depths(i) = 0 .. bit_for_tree_index(i) + 1
<1>1. i \in Nat /\ SizeBits - 1 \in Nat
  BY HeapAssumption DEF TreeBins
<1>2. i \div 2 \in Nat
  <2>1. PICK a \in Nat, b \in {0, 1} : i \div 2 = a
    BY <1>1, Half
  <2> QED
    BY <2>1
<1>3. (i \div 2) + TREEBIN_SHIFT - 2 \in Nat
  BY <1>2, HeapAssumption
<1> QED
  BY <1>1, <1>3 DEF bit_for_tree_index, Depths

\* A way down a trie is the list of a size's bits from its bin's first.
LEMMA WayIs ==
    ASSUME NEW s \in Nat, NEW i \in TreeBins, NEW n \in Depths(i)
    PROVE  /\ n \in Nat /\ Way(s, i, n) \in Seq({0, 1}) /\ Len(Way(s, i, n)) = n
           /\ \A d \in 1 .. n : Way(s, i, n)[d] = (s \div Two[bit_for_tree_index(i) + 1 - d]) % 2
<1>1. n \in Nat /\ n <= bit_for_tree_index(i) + 1 /\ bit_for_tree_index(i) \in Nat
  BY BitOf
<1>2. ASSUME NEW d \in 1 .. n PROVE (s \div Two[bit_for_tree_index(i) + 1 - d]) % 2 \in {0, 1}
  <2> DEFINE m == Two[bit_for_tree_index(i) + 1 - d]
  <2>1. bit_for_tree_index(i) + 1 - d \in Nat
    BY <1>1
  <2>2. m \in Nat /\ m > 0
    BY <2>1, Powers
  <2> HIDE DEF m
  <2>3. PICK a \in Nat, b \in {0, 1} : (s \div m) % 2 = b
    BY <2>2, HalfQuotient
  <2> QED
    BY <2>3 DEF m
<1> QED
  BY <1>1, <1>2 DEF Way

\* A way's beginning, and its next step.
LEMMA WayBegins ==
    ASSUME NEW s \in Nat, NEW i \in TreeBins, NEW n \in Depths(i), NEW m \in 0 .. n
    PROVE  /\ m \in Depths(i) /\ \A d \in 1 .. m : Way(s, i, m)[d] = Way(s, i, n)[d]
<1>1. m \in Depths(i)
  BY BitOf
<1> QED
  BY <1>1, WayIs

\* Sizes whose ways are the same so far agree in the bits above.
LEMMA WayTells ==
    ASSUME NEW s \in Nat, NEW t \in Nat, NEW i \in TreeBins, NEW n \in Depths(i),
           LET all == Two[bit_for_tree_index(i) + 1] IN s \div all = t \div all,
           Way(s, i, n) = Way(t, i, n)
    PROVE  LET m == Two[bit_for_tree_index(i) + 1 - n] IN s \div m = t \div m
<1> DEFINE B == bit_for_tree_index(i)
           P(k) == LET m == Two[B + 1 - k] IN s \div m = t \div m
           S == {k \in Nat : k <= n => P(k)}
<1>1. B \in Nat /\ n \in Nat /\ n <= B + 1
  BY BitOf
<1> HIDE DEF B
<1>2. ASSUME NEW k \in Nat, \A j \in Nat : j < k => j \in S
      PROVE  k \in S
  <2>1. CASE k = 0
    <3>1. B + 1 - 0 = B + 1
      BY <1>1
    <3>2. P(0)
      BY <3>1 DEF B
    <3> QED
      BY <2>1, <3>2
  <2>2. CASE k # 0
    <3> SUFFICES ASSUME k <= n PROVE P(k)
      OBVIOUS
    <3>1. k - 1 \in Nat /\ k - 1 < k /\ k - 1 <= n /\ B + 1 - k \in Nat /\ B + 1 - (k - 1) = (B + 1 - k) + 1
      BY <1>1, <2>2
    <3>2. P(k - 1)
      BY <1>2, <3>1
    <3> DEFINE m == Two[B + 1 - k]
    <3>3. m \in Nat /\ m > 0 /\ Two[B + 1 - (k - 1)] = 2 * m
      BY <3>1, Powers
    <3>4. s \div (2 * m) = t \div (2 * m)
      BY <3>2, <3>3
    <3>5. k \in 1 .. n
      BY <2>2
    <3>6. (s \div m) % 2 = (t \div m) % 2
      <4>1. Way(s, i, n)[k] = (s \div m) % 2 /\ Way(t, i, n)[k] = (t \div m) % 2
        BY <3>5, WayIs DEF B
      <4> QED
        BY <4>1, Zenon
    <3> HIDE DEF m
    <3>7. PICK a \in Nat, b \in {0, 1} : s \div m = 2 * a + b /\ (s \div m) % 2 = b /\ s \div (2 * m) = a
      BY <3>3, HalfQuotient
    <3>8. PICK c \in Nat, d \in {0, 1} : t \div m = 2 * c + d /\ (t \div m) % 2 = d /\ t \div (2 * m) = c
      BY <3>3, HalfQuotient
    <3>9. a = c /\ b = d
      BY <3>4, <3>6, <3>7, <3>8, Zenon
    <3>10. s \div m = t \div m
      BY <3>7, <3>8, <3>9, Zenon
    <3> QED
      BY <3>10 DEF m
  <2> QED
    BY <2>1, <2>2
<1>3. S = Nat
  <2> HIDE DEF S
  <2>1. S \in SUBSET Nat
    BY DEF S
  <2> QED
    BY <1>2, <2>1, All
<1>4. n \in S /\ n <= n
  <2> HIDE DEF S
  <2> QED
    BY <1>1, <1>3
<1>5. P(n)
  BY <1>4
<1> QED
  BY <1>5 DEF B

\* Sizes of one bin agree in all bits above the ones its trie tells apart.
LEMMA SameBin ==
    ASSUME NEW i \in TreeBins, NEW s \in Nat, NEW t \in Nat, Ranged(s, i), Ranged(t, i), s < Modulus, t < Modulus
    PROVE  LET all == Two[bit_for_tree_index(i) + 1] IN s \div all = t \div all
<1> DEFINE all == Two[bit_for_tree_index(i) + 1]
<1>1. i \in Nat /\ SizeBits \in Nat
  BY HeapAssumption DEF TreeBins
<1>2. CASE i = NTREEBINS - 1
  <2>1. all = Modulus
    <3>1. bit_for_tree_index(i) + 1 = SizeBits
      BY <1>1, <1>2 DEF bit_for_tree_index
    <3> QED
      BY <3>1 DEF Modulus
  <2>2. Modulus \in Nat /\ Modulus > 0
    BY LargeSizes
  <2> HIDE DEF all
  <2>3. 0 * all <= s /\ s < (0 + 1) * all /\ 0 * all <= t /\ t < (0 + 1) * all
    BY <2>1, <2>2
  <2>4. s \div all = 0 /\ t \div all = 0
    BY <2>1, <2>2, <2>3, QuotientIs
  <2> QED
    BY <2>4, Zenon DEF all
<1>3. CASE i # NTREEBINS - 1
  <2>1. PICK a \in Nat, b \in {0, 1} : i = 2 * a + b /\ i \div 2 = a
    BY <1>1, Half
  <2>2. bit_for_tree_index(i) + 1 = a + TREEBIN_SHIFT - 1
    <3>1. bit_for_tree_index(i) = a + TREEBIN_SHIFT - 2
      BY <1>3, <2>1, Zenon DEF bit_for_tree_index
    <3> QED
      BY <3>1, HeapAssumption
  <2>3. /\ all \in Nat /\ all > 0 /\ minsize_for_tree_index(i) = (2 + b) * all
        /\ minsize_for_tree_index(i + 1) = (3 + b) * all
    <3> DEFINE half == Two[a + TREEBIN_SHIFT - 1]
    <3>1. /\ half \in Nat /\ half > 0 /\ minsize_for_tree_index(i) = (2 + b) * half
          /\ minsize_for_tree_index(i + 1) = (3 + b) * half
      <4>1. i = 2 * a + b
        BY <2>1
      <4> QED
        BY <1>1, <4>1, Floors
    <3>2. all = half
      BY <2>2, Zenon
    <3> HIDE DEF half, all
    <3> QED
      BY <3>1, <3>2
  <2>4. i < NTREEBINS - 1
    BY <1>3, HeapAssumption DEF TreeBins
  <2> HIDE DEF all
  <2>5. /\ (2 + b) * all <= s /\ s < ((2 + b) + 1) * all /\ (2 + b) * all <= t /\ t < ((2 + b) + 1) * all
        /\ 2 + b \in Nat
    BY <2>3, <2>4 DEF Ranged
  <2>6. s \div all = 2 + b /\ t \div all = 2 + b
    BY <2>3, <2>5, QuotientIs
  <2> QED
    BY <2>6, Zenon DEF all
<1> QED
  BY <1>2, <1>3

\* At the end of the way there is one size.
LEMMA WayEnds ==
    ASSUME NEW i \in TreeBins, NEW s \in Nat, NEW t \in Nat, Ranged(s, i), Ranged(t, i), s < Modulus, t < Modulus,
           LET n == bit_for_tree_index(i) + 1 IN Way(s, i, n) = Way(t, i, n)
    PROVE  s = t
<1> DEFINE B == bit_for_tree_index(i)
<1>1. B \in Nat /\ B + 1 \in Depths(i)
  BY BitOf
<1>2. B + 1 - (B + 1) = 0
  BY <1>1
<1>3. s \div Two[B + 1 - (B + 1)] = t \div Two[B + 1 - (B + 1)]
  <2>1. s \div Two[B + 1] = t \div Two[B + 1]
    BY SameBin
  <2> QED
    BY <1>1, <2>1, WayTells
<1>4. s \div 1 = t \div 1
  BY <1>2, <1>3, Powers
<1>5. 1 * s = s /\ 1 * t = t /\ s \div 1 = s /\ t \div 1 = t
  OBVIOUS
<1> QED
  BY <1>4, <1>5

\* Left is smaller than right.
LEMMA LeftIsSmaller ==
    ASSUME NEW i \in TreeBins, NEW s \in Nat, NEW t \in Nat, Ranged(s, i), Ranged(t, i), s < Modulus, t < Modulus,
           NEW n \in Nat, n + 1 \in Depths(i), \A d \in 1 .. n : Way(s, i, n + 1)[d] = Way(t, i, n + 1)[d],
           Way(s, i, n + 1)[n + 1] = 0, Way(t, i, n + 1)[n + 1] = 1
    PROVE  s < t
<1> DEFINE B == bit_for_tree_index(i)
           m == Two[B + 1 - (n + 1)]
<1>1. B \in Nat /\ n + 1 <= B + 1 /\ n \in Depths(i) /\ n \in 0 .. n + 1
  BY BitOf
<1>2. Way(s, i, n) = Way(t, i, n)
  <2>1. \A d \in 1 .. n : Way(s, i, n)[d] = Way(t, i, n)[d]
    BY <1>1, WayBegins
  <2>2. /\ Way(s, i, n) \in Seq({0, 1}) /\ Len(Way(s, i, n)) = n
        /\ Way(t, i, n) \in Seq({0, 1}) /\ Len(Way(t, i, n)) = n
    BY <1>1, WayIs
  <2> QED
    BY <2>1, <2>2
<1>3. /\ B + 1 - (n + 1) \in Nat /\ B + 1 - n = (B + 1 - (n + 1)) + 1
  BY <1>1
<1>4. m \in Nat /\ m > 0 /\ Two[B + 1 - n] = 2 * m
  BY <1>3, Powers
<1>5. s \div (2 * m) = t \div (2 * m)
  <2>1. s \div Two[B + 1] = t \div Two[B + 1]
    BY SameBin
  <2>2. s \div Two[B + 1 - n] = t \div Two[B + 1 - n]
    BY <1>1, <1>2, <2>1, WayTells
  <2> QED
    BY <1>4, <2>2
<1>6. (s \div m) % 2 = 0 /\ (t \div m) % 2 = 1
  <2>1. n + 1 \in 1 .. n + 1
    OBVIOUS
  <2>2. Way(s, i, n + 1)[n + 1] = (s \div m) % 2 /\ Way(t, i, n + 1)[n + 1] = (t \div m) % 2
    BY <2>1, WayIs
  <2> QED
    BY <2>2, Zenon
<1> HIDE DEF m
<1>7. PICK a \in Nat, b \in {0, 1} : s \div m = 2 * a + b /\ (s \div m) % 2 = b /\ s \div (2 * m) = a
  BY <1>4, HalfQuotient
<1>8. PICK c \in Nat, d \in {0, 1} : t \div m = 2 * c + d /\ (t \div m) % 2 = d /\ t \div (2 * m) = c
  BY <1>4, HalfQuotient
<1>9. a = c /\ b = 0 /\ d = 1
  BY <1>5, <1>6, <1>7, <1>8, Zenon
<1>10. s \div m = 2 * a /\ t \div m = 2 * a + 1
  BY <1>7, <1>8, <1>9
<1>11. PICK q \in Nat, r \in 0 .. m - 1 : s = q * m + r /\ s \div m = q
  BY <1>4, Quotient
<1>12. PICK u \in Nat, v \in 0 .. m - 1 : t = u * m + v /\ t \div m = u
  BY <1>4, Quotient
<1>13. q = 2 * a /\ u = q + 1
  BY <1>10, <1>11, <1>12, Zenon
<1>14. u * m = q * m + m /\ q * m \in Nat
  BY <1>4, <1>13
<1> QED
  BY <1>4, <1>11, <1>12, <1>14

-----------------------------------------------------------------------------
(* Lists without a member, lists with one more. *)

\* What is left of a list without p.
Leaves(new, list, T, p) ==
    new \in Seq(T \ {p}) /\ IsInjective(new) /\ ToSet(new) = ToSet(list) \ {p} /\ Len(new) = Len(list) - 1

\* Unlinking a member leaves the others.
LEMMA UnlinkedLeaves ==
    ASSUME NEW T, NEW list \in Seq(T), IsInjective(list), NEW p \in ToSet(list)
    PROVE  Leaves(Unlinked(list, p), list, T, p)
<1> DEFINE k == CHOOSE j \in DOMAIN list : list[j] = p
           n == Len(list)
           new == Unlinked(list, p)
<1>1. k \in 1 .. n /\ list[k] = p /\ DOMAIN list = 1 .. n /\ n \in Nat
  <2>1. \E j \in DOMAIN list : list[j] = p
    BY DEF ToSet
  <2> QED
    BY <2>1
<1> HIDE DEF k
<1>2. new = SubSeq(list, 1, k - 1) \o SubSeq(list, k + 1, n)
  BY DEF Unlinked, RemoveAt, k
<1>3. /\ SubSeq(list, 1, k - 1) \in Seq(T) /\ Len(SubSeq(list, 1, k - 1)) = k - 1
      /\ \A j \in 1 .. k - 1 : SubSeq(list, 1, k - 1)[j] = list[j]
  BY <1>1
<1>4. /\ SubSeq(list, k + 1, n) \in Seq(T) /\ Len(SubSeq(list, k + 1, n)) = n - k
      /\ \A j \in 1 .. n - k : SubSeq(list, k + 1, n)[j] = list[k + j]
  <2>1. k \in Nat /\ k + 1 \in Nat /\ k + 1 >= 1 /\ k <= n
    BY <1>1
  <2>2. SubSeq(list, k + 1, n) \in Seq(T) /\ Len(SubSeq(list, k + 1, n)) = n - k
    <3>1. k + 1 \in 1 .. n + 1 /\ n \in (k + 1) - 1 .. n /\ n - (k + 1) + 1 = n - k
      BY <1>1, <2>1
    <3> QED
      BY <3>1, SubSeqProperties
  <2>3. ASSUME NEW j \in 1 .. n - k PROVE SubSeq(list, k + 1, n)[j] = list[k + j]
    <3>1. SubSeq(list, k + 1, n)[j] = list[(k + 1) + j - 1] /\ (k + 1) + j - 1 = k + j
      BY <1>1, <2>1
    <3> QED
      BY <3>1
  <2> QED
    BY <2>2, <2>3
<1> HIDE DEF new
<1>5. /\ new \in Seq(T) /\ Len(new) = n - 1
      /\ \A j \in 1 .. n - 1 : new[j] = IF j < k THEN list[j] ELSE list[j + 1]
  <2> DEFINE a == SubSeq(list, 1, k - 1)
             b == SubSeq(list, k + 1, n)
  <2>1. a \in Seq(T) /\ b \in Seq(T) /\ Len(a) = k - 1 /\ Len(b) = n - k
    BY <1>3, <1>4
  <2>2. a \o b \in Seq(T) /\ Len(a \o b) = n - 1
    <3> HIDE DEF a, b
    <3>1. a \o b \in Seq(T) /\ Len(a \o b) = Len(a) + Len(b)
      BY <2>1
    <3> QED
      BY <1>1, <2>1, <3>1
  <2>3. ASSUME NEW j \in 1 .. n - 1 PROVE (a \o b)[j] = IF j < k THEN list[j] ELSE list[j + 1]
    <3>1. CASE j < k
      <4>1. j \in 1 .. k - 1
        BY <1>1, <3>1
      <4>2. a[j] = list[j]
        BY <1>3, <4>1
      <4> HIDE DEF a, b
      <4>3. (a \o b)[j] = a[j]
        BY <1>1, <2>1, <4>1
      <4> QED
        BY <3>1, <4>2, <4>3
    <3>2. CASE ~(j < k)
      <4>1. j - (k - 1) \in 1 .. n - k /\ k + (j - (k - 1)) = j + 1
        BY <1>1, <3>2
      <4>2. b[j - (k - 1)] = list[j + 1]
        BY <1>4, <4>1
      <4> HIDE DEF a, b
      <4>3. (a \o b)[j] = b[j - (k - 1)]
        BY <1>1, <2>1, <3>2
      <4> QED
        BY <3>2, <4>2, <4>3
    <3> QED
      BY <3>1, <3>2
  <2> QED
    BY <1>2, <2>2, <2>3
<1>6. DOMAIN new = 1 .. n - 1
  BY <1>5
<1>7. \A j \in 1 .. n - 1 : new[j] # p /\ new[j] \in ToSet(list)
  <2> SUFFICES ASSUME NEW j \in 1 .. n - 1 PROVE new[j] # p /\ new[j] \in ToSet(list)
    OBVIOUS
  <2>1. j \in 1 .. n /\ j + 1 \in 1 .. n /\ (j < k => j # k) /\ (~(j < k) => j + 1 # k)
    BY <1>1
  <2> QED
    BY <1>1, <1>5, <2>1 DEF IsInjective, ToSet
<1>8. IsInjective(new)
  <2> SUFFICES ASSUME NEW i \in 1 .. n - 1, NEW j \in 1 .. n - 1, new[i] = new[j] PROVE i = j
    BY <1>6 DEF IsInjective
  <2>1. i \in 1 .. n /\ i + 1 \in 1 .. n /\ j \in 1 .. n /\ j + 1 \in 1 .. n
    BY <1>1
  <2>2. \A x, y \in 1 .. n : list[x] = list[y] => x = y
    BY <1>1 DEF IsInjective
  <2>3. /\ new[i] = IF i < k THEN list[i] ELSE list[i + 1]
        /\ new[j] = IF j < k THEN list[j] ELSE list[j + 1]
    BY <1>5
  <2>4. CASE i < k /\ j < k
    BY <2>1, <2>2, <2>3, <2>4
  <2>5. CASE ~(i < k) /\ ~(j < k)
    <3>1. i + 1 = j + 1
      BY <2>1, <2>2, <2>3, <2>5
    <3> QED
      BY <3>1
  <2>6. CASE i < k /\ ~(j < k)
    <3>1. i = j + 1
      BY <2>1, <2>2, <2>3, <2>6
    <3> QED
      BY <1>1, <2>6, <3>1
  <2>7. CASE ~(i < k) /\ j < k
    <3>1. i + 1 = j
      BY <2>1, <2>2, <2>3, <2>7
    <3> QED
      BY <1>1, <2>7, <3>1
  <2> QED
    BY <2>4, <2>5, <2>6, <2>7
<1>9. ASSUME NEW x \in ToSet(list), x # p PROVE x \in ToSet(new)
  <2>1. PICK j \in 1 .. n : list[j] = x
    BY <1>1 DEF ToSet
  <2>2. CASE j < k
    <3>1. j \in 1 .. n - 1
      BY <1>1, <2>2
    <3>2. new[j] = x
      BY <1>5, <2>1, <2>2, <3>1
    <3> QED
      BY <1>6, <3>1, <3>2 DEF ToSet
  <2>3. CASE ~(j < k)
    <3>1. j # k
      BY <1>1, <1>9, <2>1
    <3>2. j - 1 \in 1 .. n - 1 /\ ~(j - 1 < k) /\ (j - 1) + 1 = j
      BY <1>1, <2>3, <3>1
    <3>3. new[j - 1] = x
      BY <1>5, <2>1, <3>2
    <3> QED
      BY <1>6, <3>2, <3>3 DEF ToSet
  <2> QED
    BY <2>2, <2>3
<1>10. ToSet(new) = ToSet(list) \ {p}
  BY <1>6, <1>7, <1>9 DEF ToSet
<1>11. new \in Seq(T \ {p})
  <2>1. \A j \in 1 .. n - 1 : new[j] \in T \ {p}
    BY <1>5, <1>7
  <2> QED
    BY <1>5, <1>6, <2>1
<1> QED
  BY <1>5, <1>8, <1>10, <1>11 DEF Leaves, new

\* Unlinking the first member leaves the others.
LEMMA TailLeaves ==
    ASSUME NEW T, NEW list \in Seq(T), IsInjective(list), list # <<>>
    PROVE  Head(list) \in ToSet(list) /\ Leaves(Tail(list), list, T, Head(list))
<1> DEFINE n == Len(list)
           new == Tail(list)
<1>1. n \in Nat /\ n > 0 /\ DOMAIN list = 1 .. n /\ Head(list) = list[1] /\ 1 \in 1 .. n
  OBVIOUS
<1>2. new \in Seq(T) /\ Len(new) = n - 1 /\ \A j \in 1 .. n - 1 : new[j] = list[j + 1]
  BY <1>1
<1> HIDE DEF new, n
<1>3. DOMAIN new = 1 .. n - 1
  BY <1>2
<1>4. \A j \in 1 .. n - 1 : j + 1 \in 1 .. n /\ new[j] # list[1] /\ new[j] \in ToSet(list)
  <2> SUFFICES ASSUME NEW j \in 1 .. n - 1
               PROVE  j + 1 \in 1 .. n /\ new[j] # list[1] /\ new[j] \in ToSet(list)
    OBVIOUS
  <2>1. j + 1 \in 1 .. n /\ j + 1 # 1 /\ new[j] = list[j + 1]
    BY <1>1, <1>2
  <2>2. new[j] # list[1]
    BY <1>1, <2>1 DEF IsInjective
  <2> QED
    BY <1>1, <2>1, <2>2 DEF ToSet
<1>5. IsInjective(new)
  <2> SUFFICES ASSUME NEW i \in 1 .. n - 1, NEW j \in 1 .. n - 1, new[i] = new[j] PROVE i = j
    BY <1>3 DEF IsInjective
  <2>1. \A x, y \in 1 .. n : list[x] = list[y] => x = y
    BY <1>1 DEF IsInjective
  <2>2. list[i + 1] = list[j + 1] /\ i + 1 \in 1 .. n /\ j + 1 \in 1 .. n
    BY <1>2, <1>4
  <2>3. i + 1 = j + 1
    BY <2>1, <2>2
  <2> QED
    BY <2>3
<1>6. ASSUME NEW x \in ToSet(list), x # list[1] PROVE x \in ToSet(new)
  <2>1. PICK j \in 1 .. n : list[j] = x
    BY <1>1 DEF ToSet
  <2>2. j - 1 \in 1 .. n - 1 /\ (j - 1) + 1 = j
    BY <1>1, <1>6, <2>1
  <2> QED
    BY <1>2, <1>3, <2>1, <2>2 DEF ToSet
<1>7. ToSet(new) = ToSet(list) \ {list[1]}
  BY <1>3, <1>4, <1>6 DEF ToSet
<1>8. new \in Seq(T \ {list[1]})
  <2>1. \A j \in 1 .. n - 1 : new[j] \in T \ {list[1]}
    BY <1>2, <1>3, <1>4
  <2> QED
    BY <1>2, <1>3, <2>1
<1>9. list[1] \in ToSet(list)
  BY <1>1 DEF ToSet
<1> QED
  BY <1>1, <1>2, <1>5, <1>7, <1>8, <1>9 DEF Leaves, new, n

\* The last one instead of the first.
LEMMA LastLeaves ==
    ASSUME NEW T, NEW list \in Seq(T), IsInjective(list), Len(list) > 1
    PROVE  Leaves(<<Last(list)>> \o SubSeq(list, 2, Len(list) - 1), list, T, Head(list))
<1> DEFINE n == Len(list)
           b == SubSeq(list, 2, n - 1)
           new == <<list[n]>> \o b
<1>1. n \in Nat /\ n > 1 /\ DOMAIN list = 1 .. n /\ Head(list) = list[1] /\ Last(list) = list[n] /\ 1 \in 1 .. n /\ n \in 1 .. n
  BY DEF Last
<1>2. b \in Seq(T) /\ Len(b) = n - 2 /\ \A j \in 1 .. n - 2 : b[j] = list[j + 1]
  BY <1>1
<1> HIDE DEF n, b
<1>3. new \in Seq(T) /\ Len(new) = n - 1 /\ \A j \in 1 .. n - 1 : new[j] = IF j = 1 THEN list[n] ELSE list[j]
  <2>1. list[n] \in T
    BY <1>1
  <2>2. <<list[n]>> \in Seq(T) /\ Len(<<list[n]>>) = 1 /\ <<list[n]>>[1] = list[n]
    BY <2>1
  <2>3. new \in Seq(T) /\ Len(new) = n - 1
    BY <1>1, <1>2, <2>2
  <2>4. ASSUME NEW j \in 1 .. n - 1 PROVE new[j] = IF j = 1 THEN list[n] ELSE list[j]
    <3>1. CASE j = 1
      BY <1>1, <1>2, <2>2, <3>1
    <3>2. CASE j # 1
      <4>1. j - 1 \in 1 .. n - 2 /\ (j - 1) + 1 = j
        BY <1>1, <3>2
      <4>2. new[j] = b[j - 1]
        BY <1>1, <1>2, <2>2, <3>2
      <4> QED
        BY <1>2, <3>2, <4>1, <4>2
    <3> QED
      BY <3>1, <3>2
  <2> QED
    BY <2>3, <2>4
<1> HIDE DEF new
<1>4. DOMAIN new = 1 .. n - 1
  BY <1>3
<1>5. \A j \in 1 .. n - 1 : new[j] # list[1] /\ new[j] \in ToSet(list)
  <2> SUFFICES ASSUME NEW j \in 1 .. n - 1 PROVE new[j] # list[1] /\ new[j] \in ToSet(list)
    OBVIOUS
  <2>1. j \in 1 .. n /\ n # 1
    BY <1>1
  <2> QED
    BY <1>1, <1>3, <2>1 DEF IsInjective, ToSet
<1>6. IsInjective(new)
  <2> SUFFICES ASSUME NEW i \in 1 .. n - 1, NEW j \in 1 .. n - 1, new[i] = new[j] PROVE i = j
    BY <1>4 DEF IsInjective
  <2>1. i \in 1 .. n /\ j \in 1 .. n /\ i # n /\ j # n
    BY <1>1
  <2> QED
    BY <1>1, <1>3, <2>1 DEF IsInjective
<1>7. ASSUME NEW x \in ToSet(list), x # list[1] PROVE x \in ToSet(new)
  <2>1. PICK j \in 1 .. n : list[j] = x
    BY <1>1 DEF ToSet
  <2>2. CASE j = n
    <3>1. 1 \in 1 .. n - 1
      BY <1>1
    <3>2. new[1] = x
      BY <1>3, <2>1, <2>2, <3>1
    <3> QED
      BY <1>4, <3>1, <3>2 DEF ToSet
  <2>3. CASE j # n
    <3>1. j \in 1 .. n - 1 /\ j # 1
      BY <1>1, <1>7, <2>1, <2>3
    <3>2. new[j] = x
      BY <1>3, <2>1, <3>1
    <3> QED
      BY <1>4, <3>1, <3>2 DEF ToSet
  <2> QED
    BY <2>2, <2>3
<1>8. ToSet(new) = ToSet(list) \ {list[1]}
  BY <1>4, <1>5, <1>7 DEF ToSet
<1>9. new \in Seq(T \ {list[1]})
  <2>1. \A j \in 1 .. n - 1 : new[j] \in T \ {list[1]}
    BY <1>3, <1>4, <1>5
  <2> QED
    BY <1>3, <1>4, <2>1
<1> QED
  BY <1>1, <1>3, <1>6, <1>8, <1>9 DEF Leaves, new, b, n

\* p is new in the list.
Enters(new, list, T, p) ==
    new \in Seq(T \cup {p}) /\ IsInjective(new) /\ ToSet(new) = ToSet(list) \cup {p} /\ new # <<>>

\* A chunk that becomes the first of a list is in it.
LEMMA FirstEnters ==
    ASSUME NEW T, NEW list \in Seq(T), IsInjective(list), NEW p, p \notin T
    PROVE  Enters(<<p>> \o list, list, T, p)
<1> DEFINE n == Len(list)
           new == <<p>> \o list
<1>1. n \in Nat /\ DOMAIN list = 1 .. n /\ \A j \in 1 .. n : list[j] \in T
  OBVIOUS
<1>2. new \in Seq(T \cup {p}) /\ Len(new) = n + 1 /\ \A j \in 1 .. n + 1 : new[j] = IF j = 1 THEN p ELSE list[j - 1]
  <2>1. list \in Seq(T \cup {p}) /\ <<p>> \in Seq(T \cup {p}) /\ Len(<<p>>) = 1 /\ <<p>>[1] = p
    OBVIOUS
  <2> QED
    BY <1>1, <2>1
<1> HIDE DEF new, n
<1>3. DOMAIN new = 1 .. n + 1 /\ 1 \in 1 .. n + 1
  BY <1>1, <1>2
<1>4. \A j \in 1 .. n + 1 : j # 1 => j - 1 \in 1 .. n
  BY <1>1
<1>5. IsInjective(new)
  <2> SUFFICES ASSUME NEW i \in 1 .. n + 1, NEW j \in 1 .. n + 1, new[i] = new[j] PROVE i = j
    BY <1>3 DEF IsInjective
  <2>1. \A x, y \in 1 .. n : list[x] = list[y] => x = y
    BY <1>1 DEF IsInjective
  <2>2. CASE i = 1 \/ j = 1
    <3>1. \A x \in 1 .. n : list[x] # p
      BY <1>1
    <3> QED
      BY <1>2, <1>4, <2>2, <3>1
  <2>3. CASE i # 1 /\ j # 1
    <3>1. i - 1 \in 1 .. n /\ j - 1 \in 1 .. n /\ list[i - 1] = list[j - 1]
      BY <1>2, <1>4, <2>3
    <3>2. i - 1 = j - 1
      BY <2>1, <3>1
    <3> QED
      BY <3>2
  <2> QED
    BY <2>2, <2>3
<1>6. ASSUME NEW x \in ToSet(list) PROVE x \in ToSet(new)
  <2>1. PICK j \in 1 .. n : list[j] = x
    BY <1>1 DEF ToSet
  <2>2. j + 1 \in 1 .. n + 1 /\ j + 1 # 1 /\ (j + 1) - 1 = j
    BY <1>1
  <2>3. new[j + 1] = x
    BY <1>2, <2>1, <2>2
  <2> QED
    BY <1>3, <2>2, <2>3 DEF ToSet
<1>7. p \in ToSet(new)
  BY <1>2, <1>3 DEF ToSet
<1>8. ToSet(new) = ToSet(list) \cup {p}
  <2>1. \A j \in 1 .. n + 1 : new[j] \in ToSet(list) \cup {p}
    BY <1>1, <1>2, <1>4 DEF ToSet
  <2> QED
    BY <1>3, <1>6, <1>7, <2>1 DEF ToSet
<1>9. new # <<>>
  BY <1>1, <1>2
<1> QED
  BY <1>2, <1>5, <1>8, <1>9 DEF Enters, new

\* A chunk that becomes the second of a list is in it.
LEMMA SecondEnters ==
    ASSUME NEW T, NEW list \in Seq(T), IsInjective(list), list # <<>>, NEW p, p \notin T
    PROVE  Enters(Joined(list, p), list, T, p) /\ Head(Joined(list, p)) = Head(list)
<1> DEFINE n == Len(list)
           new == <<Head(list), p>> \o Tail(list)
<1>1. n \in Nat /\ n > 0 /\ DOMAIN list = 1 .. n /\ (\A j \in 1 .. n : list[j] \in T) /\ Head(list) = list[1]
  OBVIOUS
<1>2. /\ new \in Seq(T \cup {p}) /\ Len(new) = n + 1
      /\ \A j \in 1 .. n + 1 : new[j] = IF j = 1 THEN list[1] ELSE IF j = 2 THEN p ELSE list[j - 1]
  <2> DEFINE a == <<Head(list), p>>
             b == Tail(list)
  <2>1. a \in Seq(T \cup {p}) /\ Len(a) = 2 /\ a[1] = list[1] /\ a[2] = p
    BY <1>1
  <2>2. b \in Seq(T) /\ Len(b) = n - 1 /\ \A j \in 1 .. n - 1 : b[j] = list[j + 1]
    BY <1>1
  <2>3. b \in Seq(T \cup {p})
    BY <2>2
  <2> DEFINE V == T \cup {p}
  <2>6. a \in Seq(V) /\ b \in Seq(V)
    BY <2>1, <2>3
  <2> HIDE DEF a, b, V
  <2>4. a \o b \in Seq(T \cup {p}) /\ Len(a \o b) = n + 1
    <3>1. a \o b \in Seq(V) /\ Len(a \o b) = Len(a) + Len(b)
      BY <2>6
    <3> QED
      BY <1>1, <2>1, <2>2, <3>1 DEF V
  <2>5. ASSUME NEW j \in 1 .. n + 1
        PROVE  (a \o b)[j] = IF j = 1 THEN list[1] ELSE IF j = 2 THEN p ELSE list[j - 1]
    <3>1. CASE j = 1 \/ j = 2
      <4>1. (a \o b)[j] = a[j]
        <5>1. j \in 1 .. Len(a) + Len(b) /\ j <= Len(a)
          BY <1>1, <2>1, <2>2, <3>1
        <5> QED
          BY <2>6, <5>1, ConcatProperties
      <4> QED
        BY <2>1, <3>1, <4>1
    <3>2. CASE j # 1 /\ j # 2
      <4>1. j - 2 \in 1 .. n - 1 /\ (j - 2) + 1 = j - 1
        BY <1>1, <3>2
      <4>2. (a \o b)[j] = b[j - 2]
        <5>1. j > Len(a) /\ j - Len(a) = j - 2 /\ j \in 1 .. Len(a) + Len(b)
          BY <1>1, <2>1, <2>2, <3>2
        <5>2. (a \o b)[j] = b[j - Len(a)]
          BY <2>6, <5>1
        <5> QED
          BY <5>1, <5>2
      <4> QED
        BY <2>2, <3>2, <4>1, <4>2
    <3> QED
      BY <3>1, <3>2
  <2> QED
    BY <2>4, <2>5 DEF a, b
<1> HIDE DEF new, n
<1>3. DOMAIN new = 1 .. n + 1 /\ 1 \in 1 .. n + 1 /\ 2 \in 1 .. n + 1 /\ 1 \in 1 .. n
  BY <1>1, <1>2
<1>4. \A j \in 1 .. n + 1 : j # 1 /\ j # 2 => j - 1 \in 1 .. n /\ j - 1 # 1
  BY <1>1
<1>5. IsInjective(new)
  <2> SUFFICES ASSUME NEW i \in 1 .. n + 1, NEW j \in 1 .. n + 1, new[i] = new[j] PROVE i = j
    BY <1>3 DEF IsInjective
  <2>1. \A x, y \in 1 .. n : list[x] = list[y] => x = y
    BY <1>1 DEF IsInjective
  <2>2. \A x \in 1 .. n : list[x] # p
    BY <1>1
  <2> DEFINE from(x) == IF x = 1 THEN 1 ELSE x - 1
  <2>3. CASE i = 2 \/ j = 2
    BY <1>2, <1>3, <1>4, <2>2, <2>3
  <2>4. CASE i # 2 /\ j # 2
    <3>1. \A x \in 1 .. n + 1 : x # 2 => from(x) \in 1 .. n /\ new[x] = list[from(x)]
      BY <1>2, <1>3, <1>4
    <3>2. from(i) = from(j)
      <4> HIDE DEF from
      <4> QED
        BY <2>1, <2>4, <3>1
    <3> QED
      BY <2>4, <3>2
  <2> QED
    BY <2>3, <2>4
<1>6. ASSUME NEW x \in ToSet(list) PROVE x \in ToSet(new)
  <2>1. PICK j \in 1 .. n : list[j] = x
    BY <1>1 DEF ToSet
  <2>2. CASE j = 1
    BY <1>2, <1>3, <2>1, <2>2 DEF ToSet
  <2>3. CASE j # 1
    <3>1. j + 1 \in 1 .. n + 1 /\ j + 1 # 1 /\ j + 1 # 2 /\ (j + 1) - 1 = j
      BY <1>1, <2>3
    <3>2. new[j + 1] = x
      BY <1>2, <2>1, <3>1
    <3> QED
      BY <1>3, <3>1, <3>2 DEF ToSet
  <2> QED
    BY <2>2, <2>3
<1>7. p \in ToSet(new)
  BY <1>2, <1>3 DEF ToSet
<1>8. ToSet(new) = ToSet(list) \cup {p}
  <2>1. \A j \in 1 .. n + 1 : new[j] \in ToSet(list) \cup {p}
    BY <1>1, <1>2, <1>3, <1>4 DEF ToSet
  <2> QED
    BY <1>3, <1>6, <1>7, <2>1 DEF ToSet
<1>9. new # <<>> /\ Head(new) = list[1]
  BY <1>1, <1>2, <1>3
<1> QED
  BY <1>1, <1>2, <1>5, <1>8, <1>9 DEF Enters, new, Joined

-----------------------------------------------------------------------------
(* Tries. *)

\* The sizes of the chunks of T are those of bin i.
Large(T, i, sz) == \A p \in T : sz[p] \in Nat /\ Ranged(sz[p], i) /\ sz[p] < Modulus

\* Nodes: their sizes, and that a node's way is the beginning of the way of each below it.
NodeOf(t, i, T, sz, q) ==
    /\ t[q] \in Seq(T) /\ t[q] # <<>> /\ IsInjective(t[q]) /\ Head(t[q]) \in T /\ Head(t[q]) \in ToSet(t[q])
    /\ SizeOf(t, sz, q) \in Nat /\ Ranged(SizeOf(t, sz, q), i) /\ SizeOf(t, sz, q) < Modulus
    /\ \A p \in ToSet(t[q]) : p \in T /\ sz[p] = SizeOf(t, sz, q)
    /\ q \in Seq({0, 1}) /\ Len(q) \in Depths(i) /\ q = Way(SizeOf(t, sz, q), i, Len(q))

\* Every node of a tree is of chunks of one large size.
LEMMA NodeSizes ==
    ASSUME NEW t, NEW i \in TreeBins, NEW T, NEW sz, Large(T, i, sz), TreeOf(t, i, T, sz), NEW q \in DOMAIN t
    PROVE  NodeOf(t, i, T, sz, q)
<1>1. t[q] \in Seq(T) /\ t[q] # <<>> /\ IsInjective(t[q])
  BY DEF TreeOf, RingsOf
<1>2. Head(t[q]) \in T /\ 1 \in DOMAIN t[q] /\ Head(t[q]) = t[q][1]
  BY <1>1
<1>3. Head(t[q]) \in ToSet(t[q])
  BY <1>2 DEF ToSet
<1>4. SizeOf(t, sz, q) \in Nat /\ Ranged(SizeOf(t, sz, q), i) /\ SizeOf(t, sz, q) < Modulus
  BY <1>2 DEF SizeOf, Large
<1>5. \A p \in ToSet(t[q]) : p \in T /\ sz[p] = SizeOf(t, sz, q)
  <2>1. \A k \in DOMAIN t[q] : sz[t[q][k]] = SizeOf(t, sz, q) /\ t[q][k] \in T
    BY <1>1 DEF TreeOf, RingsOf
  <2> QED
    BY <2>1 DEF ToSet
<1>6. Len(q) \in Depths(i) /\ q = Way(SizeOf(t, sz, q), i, Len(q))
  BY DEF TreeOf, WaysOf
<1>7. q \in Seq({0, 1})
  BY <1>4, <1>6, WayIs
<1> QED
  BY <1>1, <1>2, <1>3, <1>4, <1>5, <1>6, <1>7 DEF NodeOf

\* Every beginning of a node's path is a node, with a child.
LEMMA NodeAbove ==
    ASSUME NEW t, NEW i \in TreeBins, NEW T, NEW sz, Large(T, i, sz), TreeOf(t, i, T, sz), NEW q \in DOMAIN t,
           NEW n \in 0 .. Len(q)
    PROVE  /\ Way(SizeOf(t, sz, q), i, n) = SubSeq(q, 1, n) /\ Len(SubSeq(q, 1, n)) = n /\ SubSeq(q, 1, n) \in DOMAIN t
           /\ n < Len(q) => Children(t, SubSeq(q, 1, n)) # {}
<1> DEFINE s == SizeOf(t, sz, q)
<1>1. s \in Nat /\ q \in Seq({0, 1}) /\ Len(q) \in Depths(i) /\ q = Way(s, i, Len(q))
  BY NodeSizes DEF NodeOf
<1>2. \A m \in 0 .. Len(q) : Way(s, i, m) \in DOMAIN t
  BY DEF TreeOf, WaysOf
<1> HIDE DEF s
<1>3. ASSUME NEW m \in 0 .. Len(q) PROVE Way(s, i, m) = SubSeq(q, 1, m)
  <2>1. m \in Depths(i) /\ \A d \in 1 .. m : Way(s, i, m)[d] = q[d]
    BY <1>1, WayBegins
  <2>2. Way(s, i, m) \in Seq({0, 1}) /\ Len(Way(s, i, m)) = m
    BY <1>1, <2>1, WayIs
  <2>3. SubSeq(q, 1, m) \in Seq({0, 1}) /\ Len(SubSeq(q, 1, m)) = m /\ \A d \in 1 .. m : SubSeq(q, 1, m)[d] = q[d]
    BY <1>1
  <2> QED
    BY <2>1, <2>2, <2>3
<1>4. Len(SubSeq(q, 1, n)) = n /\ SubSeq(q, 1, n) \in DOMAIN t
  <2>1. SubSeq(q, 1, n) \in DOMAIN t
    BY <1>2, <1>3
  <2>2. Len(SubSeq(q, 1, n)) = n
    BY <1>1
  <2> QED
    BY <2>1, <2>2
<1>5. ASSUME n < Len(q) PROVE Children(t, SubSeq(q, 1, n)) # {}
  <2>1. n + 1 \in 0 .. Len(q) /\ n + 1 \in 1 .. Len(q)
    BY <1>1, <1>5
  <2>2. SubSeq(q, 1, n + 1) \in DOMAIN t
    BY <1>2, <1>3, <2>1
  <2>3. q[n + 1] \in {0, 1}
    BY <1>1, <2>1
  <2>4. SubSeq(q, 1, n + 1) = Append(SubSeq(q, 1, n), q[n + 1])
    BY <1>1, <2>1
  <2> QED
    BY <2>2, <2>3, <2>4 DEF Children
<1> QED
  BY <1>3, <1>4, <1>5 DEF s

\* A chunk goes where it is looked for.
InsertedInto(h, i, T, sz, p) ==
    LET t == h.tree[i]
        path == Way(sz[p], i, Stop(h, i, sz[p]))
        ring == IF path \in DOMAIN t THEN Joined(t[path], p) ELSE <<p>>
    IN  TreeOf([q \in DOMAIN t \cup {path} |-> IF q = path THEN ring ELSE t[q]], i, T \cup {p}, sz)

\* insert_large_chunk leaves a tree of its bin, now with the chunk.
LEMMA TreeInsert ==
    ASSUME NEW h, NEW i \in TreeBins, NEW T, NEW sz, NEW p, p \notin T, Large(T \cup {p}, i, sz),
           TreeOf(h.tree[i], i, T, sz), \A q \in DOMAIN h.tree[i] : SizeAt(h, i, q) = SizeOf(h.tree[i], sz, q)
    PROVE  InsertedInto(h, i, T, sz, p)
<1> DEFINE t == h.tree[i]
           s == sz[p]
           n == Stop(h, i, s)
           path == Way(s, i, n)
           ring == IF path \in DOMAIN t THEN Joined(t[path], p) ELSE <<p>>
           u == [q \in DOMAIN t \cup {path} |-> IF q = path THEN ring ELSE t[q]]
           B == bit_for_tree_index(i)
           D == {m \in Depths(i) : Way(s, i, m) \notin DOMAIN t \/ SizeAt(h, i, Way(s, i, m)) = s}
           Z(q) == SizeOf(t, sz, q)
<1>1. s \in Nat /\ Ranged(s, i) /\ s < Modulus /\ Large(T, i, sz)
  BY DEF Large
<1>0. TreeOf(t, i, T, sz)
  OBVIOUS
<1>2. \A q \in DOMAIN t : SizeAt(h, i, q) = Z(q)
  OBVIOUS
<1>3. B \in Nat /\ Depths(i) = 0 .. B + 1
  BY BitOf
<1>4. B + 1 \in D
  <2> SUFFICES ASSUME Way(s, i, B + 1) \in DOMAIN t PROVE Z(Way(s, i, B + 1)) = s
    BY <1>2, <1>3
  <2> DEFINE q == Way(s, i, B + 1)
  <2>1. B + 1 \in Depths(i) /\ Len(q) = B + 1
    BY <1>1, <1>3, WayIs
  <2>2. Z(q) \in Nat /\ Ranged(Z(q), i) /\ Z(q) < Modulus /\ q = Way(Z(q), i, Len(q))
    <3>1. q \in DOMAIN t
      OBVIOUS
    <3>2. NodeOf(t, i, T, sz, q)
      <4> HIDE DEF t, q, s
      <4> QED
        BY <1>1, <1>0, <3>1, NodeSizes
    <3> HIDE DEF q, t
    <3> QED
      BY <3>2 DEF NodeOf
  <2>3. Way(s, i, B + 1) = Way(Z(q), i, B + 1)
    BY <2>1, <2>2
  <2> HIDE DEF q, t, s, Z
  <2> QED
    BY <1>1, <2>2, <2>3, WayEnds DEF q
<1>5. n \in D /\ \A m \in D : n <= m
  <2>1. D \in SUBSET Nat /\ D # {}
    BY <1>3, <1>4
  <2>2. n = Min(D)
    BY DEF Stop, RingAt
  <2> HIDE DEF D, n
  <2>3. \E m \in D : \A k \in D : m <= k
    BY <2>1, Least
  <2> QED
    BY <2>2, <2>3 DEF Min
<1> HIDE DEF D, n, B
<1>6. n \in Depths(i) /\ n \in Nat /\ (path \in DOMAIN t => Z(path) = s)
  BY <1>2, <1>3, <1>5 DEF D
<1>7. \A m \in Depths(i) : m < n => Way(s, i, m) \in DOMAIN t /\ Z(Way(s, i, m)) # s
  BY <1>2, <1>3, <1>5, <1>6 DEF D
<1>8. Len(path) = n
  BY <1>1, <1>6, WayIs
<1>9. ASSUME NEW q \in DOMAIN t, Z(q) = s PROVE q = path
  <2>1. q = Way(s, i, Len(q)) /\ Len(q) \in Depths(i) /\ \A m \in 0 .. Len(q) : Way(s, i, m) \in DOMAIN t
    BY <1>9 DEF TreeOf, WaysOf
  <2>2. Len(q) \in D /\ Len(q) \in Nat
    BY <1>2, <1>3, <1>9, <2>1 DEF D
  <2>3. n <= Len(q)
    BY <1>5, <2>2
  <2>4. path \in DOMAIN t
    BY <1>6, <2>1, <2>2, <2>3
  <2>5. Z(path) = s
    BY <1>6, <2>4
  <2> HIDE DEF t, path, Z
  <2> QED
    BY <1>9, <2>4, <2>5 DEF TreeOf, RingsOf, Z, t
<1> HIDE DEF path, s
<1>10. \A q \in DOMAIN t : /\ t[q] \in Seq(T) /\ t[q] # <<>> /\ IsInjective(t[q])
                           /\ \A x \in ToSet(t[q]) : x \in T /\ sz[x] = Z(q)
  <2> HIDE DEF t, Z
  <2> SUFFICES ASSUME NEW q \in DOMAIN t
               PROVE  /\ t[q] \in Seq(T) /\ t[q] # <<>> /\ IsInjective(t[q])
                      /\ \A x \in ToSet(t[q]) : x \in T /\ sz[x] = Z(q)
    OBVIOUS
  <2>1. NodeOf(t, i, T, sz, q)
    BY <1>1, <1>0, NodeSizes
  <2> QED
    BY <2>1 DEF NodeOf, Z
<1>11. /\ ring \in Seq(T \cup {p}) /\ IsInjective(ring) /\ ring # <<>> /\ p \in ToSet(ring)
       /\ \A x \in ToSet(ring) : sz[x] = s
       /\ path \in DOMAIN t => ToSet(ring) = ToSet(t[path]) \cup {p} /\ Head(ring) = Head(t[path])
  <2>1. CASE path \in DOMAIN t
    <3>1. Enters(ring, t[path], T, p) /\ Head(ring) = Head(t[path])
      BY <1>10, <2>1, SecondEnters
    <3>2. \A x \in ToSet(t[path]) : sz[x] = s
      BY <1>6, <1>10, <2>1
    <3> HIDE DEF ring, t
    <3> QED
      BY <2>1, <3>1, <3>2 DEF Enters, s
  <2>2. CASE path \notin DOMAIN t
    <3>1. ring = <<p>>
      BY <2>2
    <3>2. ToSet(<<p>>) = {p}
      BY DEF ToSet
    <3> HIDE DEF ring
    <3>3. IsInjective(ring) /\ ring \in Seq(T \cup {p}) /\ ring # <<>>
      BY <3>1 DEF IsInjective
    <3> QED
      BY <2>2, <3>1, <3>2, <3>3 DEF s
  <2> QED
    BY <2>1, <2>2
<1> HIDE DEF ring
<1>12. /\ DOMAIN u = DOMAIN t \cup {path} /\ u[path] = ring
       /\ \A q \in DOMAIN t : q # path => u[q] = t[q]
  OBVIOUS
<1>13. \A q \in DOMAIN u : SizeOf(u, sz, q) = IF q = path THEN s ELSE Z(q)
  <2>1. Head(ring) \in ToSet(ring)
    <3>1. Head(ring) = ring[1] /\ 1 \in DOMAIN ring
      BY <1>11
    <3> QED
      BY <3>1 DEF ToSet
  <2>2. SizeOf(u, sz, path) = s
    BY <1>11, <1>12, <2>1 DEF SizeOf
  <2> QED
    BY <1>12, <2>2 DEF SizeOf
<1> HIDE DEF u
<1>14. \A q \in DOMAIN t : Z(q) = SizeOf(u, sz, q)
  BY <1>6, <1>12, <1>13
<1>15. RingsOf(u, T \cup {p}, sz)
  <2>1. ASSUME NEW q \in DOMAIN u
        PROVE  /\ u[q] # <<>> /\ u[q] \in Seq(T \cup {p}) /\ IsInjective(u[q])
               /\ \A k \in DOMAIN u[q] : sz[u[q][k]] = SizeOf(u, sz, q)
    <3>1. CASE q = path
      BY <1>11, <1>12, <1>13, <3>1 DEF ToSet
    <3>2. CASE q # path
      <4>1. q \in DOMAIN t /\ u[q] = t[q]
        BY <1>12, <3>2
      <4>2. u[q] \in Seq(T \cup {p})
        BY <1>10, <4>1
      <4> QED
        BY <1>10, <1>13, <3>2, <4>1, <4>2 DEF ToSet
    <3> QED
      BY <3>1, <3>2
  <2>2. ASSUME NEW x \in T \cup {p} PROVE \E q \in DOMAIN u : x \in ToSet(u[q])
    <3>1. CASE x = p
      BY <1>11, <1>12, <3>1
    <3>2. CASE x \in T
      <4>1. PICK q \in DOMAIN t : x \in ToSet(t[q])
        BY <3>2 DEF TreeOf, RingsOf
      <4> QED
        BY <1>11, <1>12, <4>1
    <3> QED
      BY <3>1, <3>2
  <2>3. ASSUME NEW q \in DOMAIN u, NEW r \in DOMAIN u, SizeOf(u, sz, q) = SizeOf(u, sz, r) PROVE q = r
    <3>1. \A x, y \in DOMAIN t : Z(x) = Z(y) => x = y
      BY DEF TreeOf, RingsOf
    <3> HIDE DEF Z
    <3> QED
      BY <1>9, <1>12, <1>13, <2>3, <3>1
  <2> QED
    BY <2>1, <2>2, <2>3 DEF RingsOf
<1>16. WaysOf(u, i, sz)
  <2> SUFFICES ASSUME NEW q \in DOMAIN u
               PROVE  /\ Len(q) \in Depths(i) /\ q = Way(SizeOf(u, sz, q), i, Len(q))
                      /\ \A m \in 0 .. Len(q) : Way(SizeOf(u, sz, q), i, m) \in DOMAIN u
    BY DEF WaysOf
  <2>1. CASE q = path
    <3>1. ASSUME NEW m \in 0 .. n PROVE Way(s, i, m) \in DOMAIN u
      <4>1. CASE m = n
        BY <1>12, <4>1 DEF path
      <4>2. CASE m # n
        <5>1. m \in Depths(i) /\ m < n
          BY <1>3, <1>6, <4>2
        <5> QED
          BY <1>7, <1>12, <5>1
      <4> QED
        BY <4>1, <4>2
    <3>2. q = Way(s, i, n)
      BY <2>1 DEF path
    <3> QED
      BY <1>6, <1>8, <1>13, <2>1, <3>1, <3>2
  <2>2. CASE q # path
    <3>1. q \in DOMAIN t
      BY <1>12, <2>2
    <3>2. /\ Len(q) \in Depths(i) /\ q = Way(Z(q), i, Len(q))
          /\ \A m \in 0 .. Len(q) : Way(Z(q), i, m) \in DOMAIN t
      BY <3>1 DEF TreeOf, WaysOf
    <3> QED
      BY <1>12, <1>14, <3>1, <3>2
  <2> QED
    BY <2>1, <2>2
<1>17. TreeOf(u, i, T \cup {p}, sz)
  BY <1>15, <1>16 DEF TreeOf
<1> QED
  BY <1>17 DEF u, ring, path, s, n, InsertedInto

\* The node of a chunk.
LEMMA NodeFound ==
    ASSUME NEW t, NEW i \in TreeBins, NEW T, NEW sz, Large(T, i, sz), TreeOf(t, i, T, sz), NEW p \in T
    PROVE  LET path == CHOOSE q \in DOMAIN t : p \in ToSet(t[q])
           IN  /\ path \in DOMAIN t /\ p \in ToSet(t[path]) /\ SizeOf(t, sz, path) = sz[p]
               /\ \A q \in DOMAIN t : p \in ToSet(t[q]) => q = path
<1> DEFINE path == CHOOSE q \in DOMAIN t : p \in ToSet(t[q])
<1>1. path \in DOMAIN t /\ p \in ToSet(t[path])
  <2>1. \E q \in DOMAIN t : p \in ToSet(t[q])
    BY DEF TreeOf, RingsOf
  <2> QED
    BY <2>1
<1> HIDE DEF path
<1>2. ASSUME NEW q \in DOMAIN t, p \in ToSet(t[q]) PROVE SizeOf(t, sz, q) = sz[p]
  <2>1. NodeOf(t, i, T, sz, q)
    BY NodeSizes
  <2> QED
    BY <1>2, <2>1 DEF NodeOf
<1>3. \A q \in DOMAIN t : p \in ToSet(t[q]) => q = path
  BY <1>1, <1>2 DEF TreeOf, RingsOf
<1> QED
  BY <1>1, <1>2, <1>3 DEF path

\* Below every node there is one without children.
LEMMA LeafBelow ==
    ASSUME NEW t, NEW i \in TreeBins, NEW T, NEW sz, Large(T, i, sz), TreeOf(t, i, T, sz), NEW path \in DOMAIN t
    PROVE  /\ Leaf(t, path) \in DOMAIN t /\ Children(t, Leaf(t, path)) = {} /\ IsPrefix(path, Leaf(t, path))
<1> DEFINE A == Along(t, path, Max)
           B == bit_for_tree_index(i) + 1
           S == {B - Len(q) : q \in A}
<1>1. \A q \in DOMAIN t : q \in Seq({0, 1}) /\ Len(q) \in 0 .. B
  <2> SUFFICES ASSUME NEW q \in DOMAIN t PROVE q \in Seq({0, 1}) /\ Len(q) \in 0 .. B
    OBVIOUS
  <2>1. NodeOf(t, i, T, sz, q)
    BY NodeSizes
  <2> QED
    BY <2>1, BitOf DEF NodeOf
<1>2. B \in Nat
  BY BitOf
<1>3. path \in A
  <2>1. SubSeq(path, 1, Len(path)) = path
    BY <1>1
  <2>2. Len(path) \in Nat
    BY <1>1
  <2> QED
    BY <2>1, <2>2 DEF Along, IsPrefix
<1> HIDE DEF B
<1>4. S \in SUBSET Nat /\ S # {}
  <2>1. A \subseteq DOMAIN t
    BY DEF Along
  <2> HIDE DEF A
  <2>2. \A q \in A : B - Len(q) \in Nat
    BY <1>1, <1>2, <2>1
  <2> QED
    BY <1>3, <2>2
<1>5. PICK q \in A : \A r \in A : B - Len(q) <= B - Len(r)
  <2> HIDE DEF A
  <2>1. PICK n \in S : \A m \in S : n <= m
    <3> HIDE DEF S
    <3> QED
      BY <1>4, Least
  <2> QED
    BY <2>1
<1>6. q \in DOMAIN t /\ IsPrefix(path, q)
  BY <1>5 DEF Along
<1>7. q \in Seq({0, 1}) /\ Len(q) \in Nat /\ path \in Seq({0, 1}) /\ Len(path) \in Nat /\ Len(path) <= Len(q)
  BY <1>1, <1>6 DEF IsPrefix
<1>8. Children(t, q) = {}
  <2> SUFFICES ASSUME Children(t, q) # {} PROVE FALSE
    OBVIOUS
  <2> DEFINE c == Children(t, q)
             b == Max(c)
             r == Append(q, b)
  <2>1. c \subseteq {0, 1} /\ c # {}
    BY DEF Children
  <2>2. b \in c
    <3> HIDE DEF c
    <3>1. \E x \in c : \A y \in c : x >= y
      <4>1. CASE 1 \in c
        <5>1. \A y \in c : 1 >= y
          BY <2>1
        <5> QED
          BY <4>1, <5>1
      <4>2. CASE 1 \notin c
        <5>1. c = {0}
          BY <2>1, <4>2
        <5> QED
          BY <5>1
      <4> QED
        BY <4>1, <4>2
    <3> QED
      BY <3>1 DEF Max
  <2>3. r \in DOMAIN t /\ b \in {0, 1}
    BY <2>2 DEF Children
  <2> HIDE DEF b
  <2>4. r \in Seq({0, 1}) /\ Len(r) = Len(q) + 1 /\ r[Len(q) + 1] = b /\ \A d \in 1 .. Len(q) : r[d] = q[d]
    BY <1>7, <2>3
  <2> HIDE DEF r
  <2>5. ASSUME NEW n \in 0 .. Len(q) PROVE SubSeq(r, 1, n) = SubSeq(q, 1, n)
    <3>1. /\ SubSeq(q, 1, n) \in Seq({0, 1}) /\ Len(SubSeq(q, 1, n)) = n
          /\ \A d \in 1 .. n : SubSeq(q, 1, n)[d] = q[d]
      BY <1>7
    <3>2. /\ SubSeq(r, 1, n) \in Seq({0, 1}) /\ Len(SubSeq(r, 1, n)) = n
          /\ \A d \in 1 .. n : SubSeq(r, 1, n)[d] = r[d]
      BY <1>7, <2>4
    <3> QED
      BY <1>7, <2>4, <3>1, <3>2
  <2>6. IsPrefix(path, r)
    <3>1. SubSeq(r, 1, Len(path)) = SubSeq(q, 1, Len(path))
      BY <1>7, <2>5
    <3> QED
      BY <1>6, <1>7, <2>4, <3>1 DEF IsPrefix
  <2>7. SubSeq(q, 1, Len(q)) = q
    BY <1>7
  <2>8. ASSUME NEW d \in Len(path) + 1 .. Len(r)
        PROVE  r[d] = Max(Children(t, SubSeq(r, 1, d - 1)))
    <3>1. CASE d = Len(q) + 1
      <4>1. SubSeq(r, 1, d - 1) = q
        BY <1>7, <2>5, <2>7, <3>1
      <4> QED
        BY <2>4, <3>1, <4>1 DEF b
    <3>2. CASE d # Len(q) + 1
      <4>1. d \in 1 .. Len(q) /\ d - 1 \in 0 .. Len(q) /\ d \in Len(path) + 1 .. Len(q)
        BY <1>7, <2>4, <3>2
      <4>2. q[d] = Max(Children(t, SubSeq(q, 1, d - 1)))
        BY <1>5, <4>1 DEF Along
      <4> QED
        BY <2>4, <2>5, <4>1, <4>2
    <3> QED
      BY <3>1, <3>2
  <2>9. r \in A
    BY <2>3, <2>6, <2>8 DEF Along
  <2>10. B - Len(q) <= B - Len(r)
    BY <1>5, <2>9
  <2> QED
    BY <1>2, <1>7, <2>4, <2>10
<1>9. \E x \in A : Children(t, x) = {}
  BY <1>5, <1>8
<1> HIDE DEF A
<1>10. Leaf(t, path) \in A /\ Children(t, Leaf(t, path)) = {}
  BY <1>9 DEF Leaf, A
<1> QED
  BY <1>10 DEF A, Along

\* A tree with nodes has a root, where the leftmost way begins.
LEMMA RootIsNode ==
    ASSUME NEW t, NEW i \in TreeBins, NEW T, NEW sz, Large(T, i, sz), TreeOf(t, i, T, sz), DOMAIN t # {}
    PROVE  <<>> \in LeftMost(t, <<>>) /\ <<>> \in DOMAIN t
<1>1. PICK q \in DOMAIN t : TRUE
  OBVIOUS
<1>2. NodeOf(t, i, T, sz, q)
  BY NodeSizes
<1>3. 0 \in 0 .. Len(q) /\ SubSeq(q, 1, 0) = <<>>
  BY <1>2 DEF NodeOf
<1>5. SubSeq(q, 1, 0) \in DOMAIN t
  BY <1>3, NodeAbove
<1>4. <<>> \in DOMAIN t
  BY <1>3, <1>5
<1> QED
  BY <1>4 DEF LeftMost, Along, IsPrefix

\* A chunk leaves a ring of several.
LEMMA RingShrinks ==
    ASSUME NEW t, NEW i \in TreeBins, NEW T, NEW sz, Large(T, i, sz), TreeOf(t, i, T, sz), NEW p \in T,
           NEW path \in DOMAIN t, p \in ToSet(t[path]), NEW ring, Leaves(ring, t[path], T, p), Len(t[path]) > 1
    PROVE  TreeOf([t EXCEPT ![path] = ring], i, T \ {p}, sz)
<1> DEFINE u == [t EXCEPT ![path] = ring]
           Z(q) == SizeOf(t, sz, q)
<1>1. \A q \in DOMAIN t : NodeOf(t, i, T, sz, q)
  BY NodeSizes
<1>2. DOMAIN u = DOMAIN t /\ u[path] = ring /\ \A q \in DOMAIN t : q # path => u[q] = t[q]
  OBVIOUS
<1> HIDE DEF u
<1>3. ASSUME NEW q \in DOMAIN t, q # path PROVE p \notin ToSet(t[q])
  <2>1. SizeOf(t, sz, path) = sz[p]
    BY <1>1 DEF NodeOf
  <2>2. p \in ToSet(t[q]) => SizeOf(t, sz, q) = sz[p]
    BY <1>1 DEF NodeOf
  <2> QED
    BY <1>3, <2>1, <2>2 DEF TreeOf, RingsOf
<1>4. ring # <<>> /\ Head(ring) \in ToSet(ring) /\ ring \in Seq(T \ {p})
  <2>1. ring \in Seq(T \ {p}) /\ Len(ring) = Len(t[path]) - 1 /\ Len(t[path]) \in Nat
    BY <1>1 DEF Leaves, NodeOf
  <2>2. ring # <<>> /\ 1 \in DOMAIN ring /\ Head(ring) = ring[1]
    BY <2>1
  <2> QED
    BY <2>1, <2>2 DEF ToSet
<1>5. \A x \in ToSet(ring) : sz[x] = Z(path)
  BY <1>1 DEF NodeOf, Leaves
<1>6. \A q \in DOMAIN t : SizeOf(u, sz, q) = Z(q)
  <2>1. SizeOf(u, sz, path) = Z(path)
    BY <1>2, <1>4, <1>5 DEF SizeOf
  <2> QED
    BY <1>2, <2>1 DEF SizeOf
<1> HIDE DEF Z
<1>7. RingsOf(u, T \ {p}, sz)
  <2>1. ASSUME NEW q \in DOMAIN u
        PROVE  /\ u[q] # <<>> /\ u[q] \in Seq(T \ {p}) /\ IsInjective(u[q])
               /\ \A k \in DOMAIN u[q] : sz[u[q][k]] = SizeOf(u, sz, q)
    <3>1. CASE q = path
      BY <1>2, <1>4, <1>5, <1>6, <3>1 DEF ToSet, Leaves
    <3>2. CASE q # path
      <4>1. q \in DOMAIN t /\ u[q] = t[q] /\ t[q] # <<>> /\ t[q] \in Seq(T) /\ IsInjective(t[q])
        BY <1>1, <1>2, <3>2 DEF NodeOf
      <4>2. \A k \in DOMAIN t[q] : t[q][k] \in ToSet(t[q]) /\ t[q][k] # p /\ sz[t[q][k]] = Z(q)
        BY <1>1, <1>3, <3>2, <4>1 DEF ToSet, NodeOf, Z
      <4>3. t[q] \in Seq(T \ {p})
        BY <4>1, <4>2
      <4> QED
        BY <1>6, <4>1, <4>2, <4>3
    <3> QED
      BY <3>1, <3>2
  <2>2. ASSUME NEW x \in T \ {p} PROVE \E q \in DOMAIN u : x \in ToSet(u[q])
    <3>1. PICK q \in DOMAIN t : x \in ToSet(t[q])
      BY DEF TreeOf, RingsOf
    <3> QED
      BY <1>2, <3>1 DEF Leaves
  <2>3. \A q, r \in DOMAIN u : SizeOf(u, sz, q) = SizeOf(u, sz, r) => q = r
    BY <1>2, <1>6 DEF TreeOf, RingsOf, Z
  <2> QED
    BY <2>1, <2>2, <2>3 DEF RingsOf
<1>8. WaysOf(u, i, sz)
  BY <1>2, <1>6 DEF WaysOf, TreeOf, Z
<1>9. TreeOf(u, i, T \ {p}, sz)
  BY <1>7, <1>8 DEF TreeOf
<1> QED
  BY <1>9 DEF u

\* A node is gone, the only one of its size, whose place another one without children took.
LEMMA NodeGoes ==
    ASSUME NEW t, NEW i \in TreeBins, NEW T, NEW sz, Large(T, i, sz), TreeOf(t, i, T, sz), NEW p \in T,
           NEW path \in DOMAIN t, t[path] = <<p>>, NEW leaf \in DOMAIN t, Children(t, leaf) = {}, IsPrefix(path, leaf)
    PROVE  TreeOf(Dropped([t EXCEPT ![path] = t[leaf]], leaf), i, T \ {p}, sz)
<1> DEFINE v == [t EXCEPT ![path] = t[leaf]]
           u == Dropped(v, leaf)
           old(q) == IF q = path THEN leaf ELSE q
           Z(q) == SizeOf(t, sz, q)
<1>1. \A q \in DOMAIN t : NodeOf(t, i, T, sz, q)
  BY NodeSizes
<1>2. DOMAIN u = DOMAIN t \ {leaf}
  BY DEF Dropped
<1>3. \A q \in DOMAIN u : u[q] = t[old(q)] /\ old(q) \in DOMAIN t /\ old(q) # path
  BY <1>2 DEF Dropped
<1> HIDE DEF u
<1>4. \A x, y \in DOMAIN t : Z(x) = Z(y) => x = y
  BY DEF TreeOf, RingsOf
<1>5. ToSet(t[path]) = {p} /\ Z(path) = sz[p]
  BY DEF ToSet, SizeOf
<1>6. ASSUME NEW q \in DOMAIN t, q # path PROVE p \notin ToSet(t[q])
  <2>1. p \in ToSet(t[q]) => Z(q) = sz[p]
    BY <1>1 DEF NodeOf
  <2> HIDE DEF Z
  <2> QED
    BY <1>4, <1>5, <1>6, <2>1
<1>7. \A q \in DOMAIN u : SizeOf(u, sz, q) = Z(old(q))
  BY <1>3 DEF SizeOf
<1>8. \A q, r \in DOMAIN u : old(q) = old(r) => q = r
  BY <1>2
<1> HIDE DEF Z
<1>9. RingsOf(u, T \ {p}, sz)
  <2>1. ASSUME NEW q \in DOMAIN u
        PROVE  /\ u[q] # <<>> /\ u[q] \in Seq(T \ {p}) /\ IsInjective(u[q])
               /\ \A k \in DOMAIN u[q] : sz[u[q][k]] = SizeOf(u, sz, q)
    <3> DEFINE r == old(q)
    <3>1. r \in DOMAIN t /\ r # path /\ u[q] = t[r] /\ SizeOf(u, sz, q) = Z(r)
      BY <1>3, <1>7
    <3> HIDE DEF r
    <3>2. t[r] # <<>> /\ t[r] \in Seq(T) /\ IsInjective(t[r])
      BY <1>1, <3>1 DEF NodeOf
    <3>3. \A k \in DOMAIN t[r] : t[r][k] # p /\ sz[t[r][k]] = Z(r)
      BY <1>1, <1>6, <3>1 DEF ToSet, NodeOf, Z
    <3>4. t[r] \in Seq(T \ {p})
      BY <3>2, <3>3
    <3> QED
      BY <3>1, <3>2, <3>3, <3>4
  <2>2. ASSUME NEW x \in T \ {p} PROVE \E q \in DOMAIN u : x \in ToSet(u[q])
    <3>1. PICK q \in DOMAIN t : x \in ToSet(t[q])
      BY DEF TreeOf, RingsOf
    <3>2. q # path
      BY <1>5, <3>1
    <3>3. CASE q = leaf
      BY <1>2, <1>3, <3>1, <3>2, <3>3
    <3>4. CASE q # leaf
      BY <1>2, <1>3, <3>1, <3>2, <3>4
    <3> QED
      BY <3>3, <3>4
  <2>3. ASSUME NEW q \in DOMAIN u, NEW r \in DOMAIN u, SizeOf(u, sz, q) = SizeOf(u, sz, r) PROVE q = r
    <3>1. old(q) = old(r)
      BY <1>3, <1>4, <1>7, <2>3
    <3> QED
      BY <1>8, <3>1
  <2> QED
    BY <2>1, <2>2, <2>3 DEF RingsOf
<1>10. ASSUME NEW q \in DOMAIN t, NEW n \in 0 .. Len(q), q # leaf
       PROVE  Way(Z(q), i, n) = SubSeq(q, 1, n) /\ SubSeq(q, 1, n) \in DOMAIN u
  <2>1. /\ Way(Z(q), i, n) = SubSeq(q, 1, n) /\ SubSeq(q, 1, n) \in DOMAIN t
        /\ n < Len(q) => Children(t, SubSeq(q, 1, n)) # {}
    BY NodeAbove DEF Z
  <2>2. SubSeq(q, 1, n) # leaf
    <3>1. CASE n < Len(q)
      BY <2>1, <3>1
    <3>2. CASE ~(n < Len(q))
      <4>1. q \in Seq({0, 1}) /\ n = Len(q)
        BY <1>1, <3>2 DEF NodeOf
      <4>2. SubSeq(q, 1, n) = q
        BY <4>1
      <4> QED
        BY <1>10, <4>2
    <3> QED
      BY <3>1, <3>2
  <2> QED
    BY <1>2, <2>1, <2>2
<1>11. WaysOf(u, i, sz)
  <2> SUFFICES ASSUME NEW q \in DOMAIN u
               PROVE  /\ Len(q) \in Depths(i) /\ q = Way(SizeOf(u, sz, q), i, Len(q))
                      /\ \A m \in 0 .. Len(q) : Way(SizeOf(u, sz, q), i, m) \in DOMAIN u
    BY DEF WaysOf
  <2>1. q \in DOMAIN t /\ q # leaf /\ Len(q) \in Depths(i) /\ q \in Seq({0, 1})
    BY <1>1, <1>2 DEF NodeOf
  <2>2. CASE q # path
    <3>1. SizeOf(u, sz, q) = Z(q) /\ q = Way(Z(q), i, Len(q))
      BY <1>1, <1>7, <2>1, <2>2 DEF NodeOf, Z
    <3> QED
      BY <1>10, <2>1, <3>1
  <2>3. CASE q = path
    <3>1. SizeOf(u, sz, q) = Z(leaf)
      BY <1>7, <2>3
    <3>2. Len(path) <= Len(leaf) /\ SubSeq(path, 1, Len(path)) = SubSeq(leaf, 1, Len(path))
      BY DEF IsPrefix
    <3>3. SubSeq(path, 1, Len(path)) = path /\ Len(path) \in Nat /\ leaf \in Seq({0, 1})
      BY <1>1, <2>1, <2>3 DEF NodeOf
    <3>4. ASSUME NEW m \in 0 .. Len(path)
          PROVE  Way(Z(leaf), i, m) = SubSeq(leaf, 1, m) /\ SubSeq(leaf, 1, m) \in DOMAIN t /\ Len(SubSeq(leaf, 1, m)) = m
      <4>1. m \in 0 .. Len(leaf)
        BY <3>2, <3>3
      <4> QED
        BY <4>1, NodeAbove DEF Z
    <3>5. path = Way(Z(leaf), i, Len(path))
      <4>1. Len(path) \in 0 .. Len(path)
        BY <3>3
      <4>2. Way(Z(leaf), i, Len(path)) = SubSeq(leaf, 1, Len(path))
        BY <3>4, <4>1
      <4> QED
        BY <3>2, <3>3, <4>2
    <3>6. ASSUME NEW m \in 0 .. Len(path) PROVE Way(Z(leaf), i, m) \in DOMAIN u
      <4>1. SubSeq(leaf, 1, m) # leaf
        <5>1. Len(path) # Len(leaf)
          <6>1. ASSUME Len(path) = Len(leaf) PROVE path = leaf
            <7>1. SubSeq(leaf, 1, Len(leaf)) = leaf
              BY <3>3
            <7> QED
              BY <3>2, <3>3, <6>1, <7>1
          <6> QED
            BY <2>1, <2>3, <6>1
        <5>2. m < Len(leaf)
          BY <3>2, <3>3, <5>1
        <5> QED
          BY <3>4, <5>2
      <4> QED
        BY <1>2, <3>4, <4>1
    <3> QED
      BY <2>1, <2>3, <3>1, <3>5, <3>6
  <2> QED
    BY <2>2, <2>3
<1>12. TreeOf(u, i, T \ {p}, sz)
  BY <1>9, <1>11 DEF TreeOf
<1> QED
  BY <1>12 DEF u

-----------------------------------------------------------------------------
(* A chunk enters its bin. *)

\* Nothing outside a bin has changed but n words of links in the chunk p.
Linked(g, f, p, n) ==
    /\ DOMAIN f = Fields /\ Tops(g, f) /\ Status(g, f) /\ f.dv = g.dv /\ f.dvsize = g.dvsize
    /\ \A a : a \notin Inside(p + 8, n) => Word(f, a) = Word(g, a)

\* The sizes of free chunks: each a multiple of eight that fits in memory.
Sized(G, sz) == \A p \in G : sz[p] \in Nat /\ Eight(sz[p]) /\ sz[p] >= 16 /\ sz[p] < Modulus

\* The bin of a small size.
LEMMA SmallBin ==
    ASSUME NEW s \in Nat, Eight(s), s < MIN_LARGE_SIZE
    PROVE  small_index(s) \in SmallBins /\ 8 * small_index(s) = s
<1>1. PICK q \in Nat, r \in 0 .. 7 : s = q * 8 + r /\ s \div 8 = q /\ s % 8 = r
  BY Quotient
<1>2. PICK m \in Nat, e \in 0 .. 7 : MIN_LARGE_SIZE = m * 8 + e /\ MIN_LARGE_SIZE \div 8 = m /\ MIN_LARGE_SIZE % 8 = e
  BY Quotient, LargeSizes
<1>3. e = 0 /\ r = 0
  BY <1>1, <1>2, LargeSizes DEF Eight
<1> QED
  BY <1>1, <1>2, <1>3 DEF SmallBins, small_index

\* No size of a small bin is large.
LEMMA SmallBinsAreSmall ==
    ASSUME NEW i \in SmallBins
    PROVE  i \in Nat /\ 8 * i < MIN_LARGE_SIZE
<1>2. PICK m \in Nat, e \in 0 .. 7 : MIN_LARGE_SIZE = m * 8 + e /\ MIN_LARGE_SIZE \div 8 = m /\ MIN_LARGE_SIZE % 8 = e
  BY Quotient, LargeSizes
<1>3. e = 0
  BY <1>2, LargeSizes DEF Eight
<1> QED
  BY <1>2, <1>3 DEF SmallBins, small_index

\* A bin depends on the sizes of its own chunks only.
LEMMA TreeSame ==
    ASSUME NEW t, NEW i, NEW T, NEW sz, NEW s, TreeOf(t, i, T, sz), \A p \in T : s[p] = sz[p]
    PROVE  TreeOf(t, i, T, s)
<1>1. \A q \in DOMAIN t : /\ t[q] # <<>> /\ t[q] \in Seq(T) /\ IsInjective(t[q])
                          /\ \A k \in DOMAIN t[q] : sz[t[q][k]] = SizeOf(t, sz, q)
  BY DEF TreeOf, RingsOf
<1>2. \A q \in DOMAIN t : SizeOf(t, s, q) = SizeOf(t, sz, q) /\ \A k \in DOMAIN t[q] : s[t[q][k]] = sz[t[q][k]]
  <2> SUFFICES ASSUME NEW q \in DOMAIN t
               PROVE  SizeOf(t, s, q) = SizeOf(t, sz, q) /\ \A k \in DOMAIN t[q] : s[t[q][k]] = sz[t[q][k]]
    OBVIOUS
  <2>1. Head(t[q]) \in T /\ \A k \in DOMAIN t[q] : t[q][k] \in T
    BY <1>1
  <2> QED
    BY <2>1 DEF SizeOf
<1>3. RingsOf(t, T, s)
  BY <1>1, <1>2 DEF TreeOf, RingsOf
<1>4. WaysOf(t, i, s)
  BY <1>2 DEF TreeOf, WaysOf
<1> QED
  BY <1>3, <1>4 DEF TreeOf

\* The bins depend on their own chunks' sizes only.
LEMMA BinnedSame ==
    ASSUME NEW g, NEW G, NEW sz, BinnedAre(g, G, sz), NEW f, f.small = g.small, f.tree = g.tree,
           NEW s, \A p \in G : s[p] = sz[p]
    PROVE  BinnedAre(f, G, s)
<1>1. \A i : InSmall(G, s, i) = InSmall(G, sz, i) /\ InTree(G, s, i) = InTree(G, sz, i)
  BY DEF InSmall, InTree
<1>2. \A i \in TreeBins : TreeOf(g.tree[i], i, InTree(G, sz, i), s)
  <2> SUFFICES ASSUME NEW i \in TreeBins PROVE TreeOf(g.tree[i], i, InTree(G, sz, i), s)
    OBVIOUS
  <2>1. TreeOf(g.tree[i], i, InTree(G, sz, i), sz)
    BY DEF BinnedAre
  <2>2. \A p \in InTree(G, sz, i) : s[p] = sz[p]
    BY DEF InTree
  <2> QED
    BY <2>1, <2>2, TreeSame
<1> QED
  BY <1>1, <1>2 DEF BinnedAre

\* A small chunk enters its bin.
LEMMA InsertSmall ==
    ASSUME NEW g, DOMAIN g = Fields, NEW G, NEW sz, BinnedAre(g, G, sz), NEW p, p \notin G,
           NEW s, s = sz[p], s \in Nat, Eight(s), s < MIN_LARGE_SIZE
    PROVE  LET f == insert_small_chunk(g, p, s) IN Linked(g, f, p, 8) /\ BinnedAre(f, G \cup {p}, sz)
<1> DEFINE i == small_index(s)
           e == Put(g, p + 8, 8, Link)
           f == [e EXCEPT !.small[i] = <<p>> \o @]
           T == InSmall(G, sz, i)
           new == <<p>> \o g.small[i]
           H == G \cup {p}
<1>1. i \in SmallBins /\ 8 * i = s
  BY SmallBin
<1> HIDE DEF i
<1>2. MemoryOnly(g, e) /\ \A b : Word(e, b) = IF b \in Inside(p + 8, 8) THEN Link ELSE Word(g, b)
  BY PutWords
<1> HIDE DEF e
<1>3. DOMAIN e = Fields /\ e.small = g.small /\ e.tree = g.tree /\ e.dv = g.dv /\ e.dvsize = g.dvsize
      /\ Tops(g, e) /\ Status(g, e)
  BY <1>2 DEF MemoryOnly, Bins
<1>4. /\ f.small = [g.small EXCEPT ![i] = new] /\ f.tree = g.tree /\ f.mem = e.mem /\ DOMAIN f = Fields
      /\ f.dv = e.dv /\ f.dvsize = e.dvsize
      /\ Tops(e, f) /\ Status(e, f)
  BY <1>3 DEF Fields, Tops, Status
<1> HIDE DEF f
<1>5. Linked(g, f, p, 8)
  <2>1. Tops(g, f) /\ Status(g, f) /\ f.dv = g.dv /\ f.dvsize = g.dvsize
    BY <1>3, <1>4 DEF Tops, Status
  <2>2. \A a : Word(f, a) = Word(e, a)
    BY <1>4 DEF Word
  <2> QED
    BY <1>2, <1>4, <2>1, <2>2 DEF Linked
<1>6. DOMAIN g.small = SmallBins /\ g.small[i] \in Seq(T) /\ IsInjective(g.small[i]) /\ T \subseteq ToSet(g.small[i])
  BY <1>1 DEF BinnedAre, Lists
<1>7. p \notin T
  BY DEF InSmall
<1>8. Enters(new, g.small[i], T, p)
  <2> HIDE DEF new, T
  <2>1. Enters(<<p>> \o g.small[i], g.small[i], T, p)
    BY <1>6, <1>7, FirstEnters
  <2> QED
    BY <2>1 DEF new
<1> HIDE DEF new
<1>9. InSmall(H, sz, i) = T \cup {p}
  BY <1>1 DEF InSmall
<1>10. Lists(f.small[i], InSmall(H, sz, i))
  BY <1>1, <1>4, <1>6, <1>8, <1>9 DEF Enters, Lists
<1>11. ASSUME NEW j \in SmallBins, j # i PROVE Lists(f.small[j], InSmall(H, sz, j))
  <2>1. f.small[j] = g.small[j] /\ Lists(g.small[j], InSmall(G, sz, j))
    BY <1>4, <1>6, <1>11 DEF BinnedAre
  <2>2. 8 * j # s
    BY <1>1, <1>11, SmallBinsAreSmall
  <2>3. InSmall(H, sz, j) = InSmall(G, sz, j)
    BY <2>2 DEF InSmall
  <2> QED
    BY <2>1, <2>3
<1>12. \A j : InTree(H, sz, j) = InTree(G, sz, j)
  BY LargeSizes DEF InTree
<1>13. BinnedAre(f, H, sz)
  <2>1. DOMAIN f.small = SmallBins
    BY <1>4, <1>6
  <2>2. \A j \in SmallBins : Lists(f.small[j], InSmall(H, sz, j))
    BY <1>10, <1>11
  <2> QED
    BY <1>4, <1>12, <2>1, <2>2 DEF BinnedAre
<1> QED
  BY <1>5, <1>13 DEF f, e, i, insert_small_chunk

\* A large chunk enters its tree.
LEMMA InsertLarge ==
    ASSUME NEW g, DOMAIN g = Fields, NEW G, NEW sz, Sized(G, sz), BinnedAre(g, G, sz), NEW p, p \notin G,
           \A q \in G : chunksize(g, q) = sz[q],
           NEW s, s = sz[p], s \in Nat, s < Modulus, s >= MIN_LARGE_SIZE
    PROVE  LET f == insert_large_chunk(g, p, s) IN Linked(g, f, p, 24) /\ BinnedAre(f, G \cup {p}, sz)
<1> DEFINE i == compute_tree_index(s)
           e == Put(g, p + 8, 24, Link)
           t == g.tree[i]
           path == Way(s, i, Stop(g, i, s))
           ring == IF path \in DOMAIN t THEN Joined(t[path], p) ELSE <<p>>
           new == [q \in DOMAIN t \cup {path} |-> IF q = path THEN ring ELSE t[q]]
           f == [e EXCEPT !.tree[i] = [q \in DOMAIN @ \cup {path} |-> IF q = path THEN ring ELSE @[q]]]
           T == InTree(G, sz, i)
           H == G \cup {p}
<1>1. i \in TreeBins
  BY TreeIndex DEF Ranged
<1>2. MemoryOnly(g, e) /\ \A b : Word(e, b) = IF b \in Inside(p + 8, 24) THEN Link ELSE Word(g, b)
  BY PutWords
<1>3. insert_large_chunk(g, p, s) = f
  BY DEF insert_large_chunk
<1> HIDE DEF e
<1>4. DOMAIN e = Fields /\ e.small = g.small /\ e.tree = g.tree /\ e.dv = g.dv /\ e.dvsize = g.dvsize
      /\ Tops(g, e) /\ Status(g, e)
  BY <1>2 DEF MemoryOnly, Bins
<1>5. /\ f.tree = [g.tree EXCEPT ![i] = new] /\ f.small = g.small /\ f.mem = e.mem /\ DOMAIN f = Fields
      /\ f.dv = e.dv /\ f.dvsize = e.dvsize
      /\ Tops(e, f) /\ Status(e, f)
  <2> HIDE DEF i, path, ring
  <2> QED
    BY <1>4 DEF Fields, Tops, Status
<1> HIDE DEF f
<1>6. Linked(g, f, p, 24)
  <2>1. Tops(g, f) /\ Status(g, f) /\ f.dv = g.dv /\ f.dvsize = g.dvsize
    BY <1>4, <1>5 DEF Tops, Status
  <2>2. \A a : Word(f, a) = Word(e, a)
    BY <1>5 DEF Word
  <2> QED
    BY <1>2, <1>5, <2>1, <2>2 DEF Linked
<1>7. TreeOf(t, i, T, sz) /\ DOMAIN g.tree = TreeBins
  BY <1>1 DEF BinnedAre
<1>8. p \notin T
  BY DEF InTree
<1>9. Large(T \cup {p}, i, sz)
  <2> SUFFICES ASSUME NEW x \in T \cup {p} PROVE sz[x] \in Nat /\ Ranged(sz[x], i) /\ sz[x] < Modulus
    BY DEF Large
  <2>1. sz[x] \in Nat /\ sz[x] < Modulus /\ sz[x] >= MIN_LARGE_SIZE /\ compute_tree_index(sz[x]) = i
    BY DEF InTree, Sized
  <2>2. Ranged(sz[x], compute_tree_index(sz[x]))
    BY <2>1, TreeIndex
  <2> QED
    BY <2>1, <2>2
<1>10. \A q \in DOMAIN t : SizeAt(g, i, q) = SizeOf(t, sz, q)
  <2> SUFFICES ASSUME NEW q \in DOMAIN t PROVE SizeAt(g, i, q) = SizeOf(t, sz, q)
    OBVIOUS
  <2>1. Large(T, i, sz)
    BY <1>9 DEF Large
  <2>2. NodeOf(t, i, T, sz, q)
    BY <1>1, <1>7, <2>1, NodeSizes
  <2>3. Head(t[q]) \in G
    BY <2>2 DEF NodeOf, InTree
  <2> QED
    BY <2>3 DEF SizeAt, RingAt, SizeOf
<1>11. TreeOf(new, i, T \cup {p}, sz)
  <2> HIDE DEF i, T
  <2>1. InsertedInto(g, i, T, sz, p)
    BY <1>1, <1>7, <1>8, <1>9, <1>10, TreeInsert
  <2> QED
    BY <2>1 DEF InsertedInto
<1> HIDE DEF new, path, ring
<1>12. InTree(H, sz, i) = T \cup {p}
  BY DEF InTree
<1>13. ASSUME NEW j \in TreeBins PROVE TreeOf(f.tree[j], j, InTree(H, sz, j), sz)
  <2>1. CASE j = i
    BY <1>1, <1>5, <1>7, <1>11, <1>12, <2>1
  <2>2. CASE j # i
    <3>1. f.tree[j] = g.tree[j] /\ TreeOf(g.tree[j], j, InTree(G, sz, j), sz)
      BY <1>5, <1>7, <1>13, <2>2 DEF BinnedAre
    <3>2. InTree(H, sz, j) = InTree(G, sz, j)
      BY <2>2 DEF InTree
    <3> QED
      BY <3>1, <3>2
  <2> QED
    BY <2>1, <2>2
<1>14. \A j \in SmallBins : InSmall(H, sz, j) = InSmall(G, sz, j)
  <2> SUFFICES ASSUME NEW j \in SmallBins PROVE InSmall(H, sz, j) = InSmall(G, sz, j)
    OBVIOUS
  <2>1. s # 8 * j
    BY SmallBinsAreSmall, LargeSizes
  <2> QED
    BY <2>1 DEF InSmall
<1>15. BinnedAre(f, H, sz)
  <2>1. DOMAIN f.tree = TreeBins
    BY <1>5, <1>7
  <2>2. DOMAIN f.small = SmallBins /\ \A j \in SmallBins : Lists(f.small[j], InSmall(H, sz, j))
    BY <1>5, <1>14 DEF BinnedAre
  <2> QED
    BY <1>13, <2>1, <2>2 DEF BinnedAre
<1> QED
  BY <1>3, <1>6, <1>15

-----------------------------------------------------------------------------
(* A chunk leaves its bin. *)

\* Nothing outside a bin has changed.
Unlinks(g, f) ==
    DOMAIN f = Fields /\ f.mem = g.mem /\ Tops(g, f) /\ Status(g, f) /\ f.dv = g.dv /\ f.dvsize = g.dvsize

\* A chunk leaves the list of its bin.
LEMMA SmallLeaves ==
    ASSUME NEW g, DOMAIN g = Fields, NEW G, NEW sz, BinnedAre(g, G, sz), NEW i \in SmallBins, NEW p,
           p \in InSmall(G, sz, i), NEW new, Leaves(new, g.small[i], InSmall(G, sz, i), p),
           NEW f, f = [g EXCEPT !.small[i] = new]
    PROVE  Unlinks(g, f) /\ BinnedAre(f, G \ {p}, sz)
<1> DEFINE H == G \ {p}
           T == InSmall(G, sz, i)
<1>1. DOMAIN g.small = SmallBins /\ Lists(g.small[i], T)
  BY DEF BinnedAre
<1>2. /\ f.small = [g.small EXCEPT ![i] = new] /\ f.tree = g.tree /\ Unlinks(g, f)
  BY DEF Fields, Tops, Status, Unlinks
<1>3. InSmall(H, sz, i) = T \ {p}
  BY DEF InSmall
<1>4. Lists(f.small[i], InSmall(H, sz, i))
  BY <1>1, <1>2, <1>3 DEF Leaves, Lists
<1>5. ASSUME NEW j \in SmallBins, j # i PROVE Lists(f.small[j], InSmall(H, sz, j))
  <2>1. f.small[j] = g.small[j] /\ Lists(g.small[j], InSmall(G, sz, j))
    BY <1>1, <1>2, <1>5 DEF BinnedAre
  <2>2. sz[p] = 8 * i /\ i \in Nat /\ j \in Nat
    BY SmallBinsAreSmall DEF InSmall
  <2>3. sz[p] # 8 * j
    BY <1>5, <2>2
  <2>4. InSmall(H, sz, j) = InSmall(G, sz, j)
    BY <2>3 DEF InSmall
  <2> QED
    BY <2>1, <2>4
<1>6. \A j : InTree(H, sz, j) = InTree(G, sz, j)
  <2>1. ~(sz[p] >= MIN_LARGE_SIZE)
    BY SmallBinsAreSmall, LargeSizes DEF InSmall
  <2> QED
    BY <2>1 DEF InTree
<1> QED
  <2>1. DOMAIN f.small = SmallBins
    BY <1>1, <1>2
  <2>2. \A j \in SmallBins : Lists(f.small[j], InSmall(H, sz, j))
    BY <1>4, <1>5
  <2> QED
    BY <1>2, <1>6, <2>1, <2>2 DEF BinnedAre

\* unlink_small_chunk takes the chunk out of its bin.
LEMMA UnlinkSmall ==
    ASSUME NEW g, DOMAIN g = Fields, NEW G, NEW sz, BinnedAre(g, G, sz), NEW p \in G,
           NEW s, s = sz[p], s \in Nat, Eight(s), s < MIN_LARGE_SIZE
    PROVE  LET f == unlink_small_chunk(g, p, s) IN Unlinks(g, f) /\ BinnedAre(f, G \ {p}, sz)
<1> DEFINE i == small_index(s)
           T == InSmall(G, sz, i)
           list == g.small[i]
           f == [g EXCEPT !.small[i] = Unlinked(list, p)]
<1>1. i \in SmallBins /\ 8 * i = s
  BY SmallBin
<1>2. unlink_small_chunk(g, p, s) = f
  BY DEF unlink_small_chunk
<1> HIDE DEF i
<1>3. p \in T /\ list \in Seq(T) /\ IsInjective(list) /\ T \subseteq ToSet(list)
  BY <1>1 DEF BinnedAre, Lists, InSmall
<1>4. Leaves(Unlinked(list, p), list, T, p)
  <2> HIDE DEF T, list
  <2> QED
    BY <1>3, UnlinkedLeaves
<1>5. Unlinks(g, f) /\ BinnedAre(f, G \ {p}, sz)
  BY <1>1, <1>3, <1>4, SmallLeaves
<1> QED
  BY <1>2, <1>5

\* The first chunk leaves its bin.
LEMMA UnlinkFirst ==
    ASSUME NEW g, DOMAIN g = Fields, NEW G, NEW sz, BinnedAre(g, G, sz), NEW i \in SmallBins, g.small[i] # <<>>
    PROVE  LET f == unlink_first_small_chunk(g, i)
               p == Head(g.small[i])
           IN  p \in G /\ sz[p] = 8 * i /\ Unlinks(g, f) /\ BinnedAre(f, G \ {p}, sz)
<1> DEFINE T == InSmall(G, sz, i)
           list == g.small[i]
           p == Head(list)
           f == [g EXCEPT !.small[i] = Tail(list)]
<1>2. unlink_first_small_chunk(g, i) = f
  BY DEF unlink_first_small_chunk
<1>3. list \in Seq(T) /\ IsInjective(list) /\ list # <<>>
  BY DEF BinnedAre, Lists
<1>4. p \in T
  BY <1>3
<1>5. Leaves(Tail(list), list, T, p)
  <2> HIDE DEF T, list
  <2> QED
    BY <1>3, TailLeaves
<1>6. p \in G /\ sz[p] = 8 * i
  BY <1>4 DEF InSmall
<1>7. Unlinks(g, f) /\ BinnedAre(f, G \ {p}, sz)
  BY <1>4, <1>5, SmallLeaves
<1> QED
  BY <1>2, <1>6, <1>7

\* A chunk leaves the trie of its bin.
LEMMA TreeLeaves ==
    ASSUME NEW g, DOMAIN g = Fields, NEW G, NEW sz, BinnedAre(g, G, sz), NEW i \in TreeBins, NEW p,
           p \in InTree(G, sz, i), NEW new, TreeOf(new, i, InTree(G, sz, i) \ {p}, sz),
           NEW f, f = [g EXCEPT !.tree[i] = new]
    PROVE  Unlinks(g, f) /\ BinnedAre(f, G \ {p}, sz)
<1> DEFINE H == G \ {p}
           T == InTree(G, sz, i)
<1>1. DOMAIN g.tree = TreeBins /\ sz[p] >= MIN_LARGE_SIZE /\ compute_tree_index(sz[p]) = i
  BY DEF BinnedAre, InTree
<1>2. /\ f.tree = [g.tree EXCEPT ![i] = new] /\ f.small = g.small /\ Unlinks(g, f)
  BY DEF Fields, Tops, Status, Unlinks
<1>3. InTree(H, sz, i) = T \ {p}
  BY DEF InTree
<1>4. TreeOf(f.tree[i], i, InTree(H, sz, i), sz)
  BY <1>1, <1>2, <1>3
<1>5. ASSUME NEW j \in TreeBins, j # i PROVE TreeOf(f.tree[j], j, InTree(H, sz, j), sz)
  <2>1. f.tree[j] = g.tree[j] /\ TreeOf(g.tree[j], j, InTree(G, sz, j), sz)
    BY <1>1, <1>2, <1>5 DEF BinnedAre
  <2>2. InTree(H, sz, j) = InTree(G, sz, j)
    BY <1>1, <1>5 DEF InTree
  <2> QED
    BY <2>1, <2>2
<1>6. \A j \in SmallBins : InSmall(H, sz, j) = InSmall(G, sz, j)
  <2> SUFFICES ASSUME NEW j \in SmallBins PROVE InSmall(H, sz, j) = InSmall(G, sz, j)
    OBVIOUS
  <2>1. sz[p] # 8 * j
    BY <1>1, SmallBinsAreSmall, LargeSizes
  <2> QED
    BY <2>1 DEF InSmall
<1> QED
  <2>1. DOMAIN f.tree = TreeBins
    BY <1>1, <1>2
  <2>2. \A j \in TreeBins : TreeOf(f.tree[j], j, InTree(H, sz, j), sz)
    BY <1>4, <1>5
  <2>3. DOMAIN f.small = SmallBins /\ \A j \in SmallBins : Lists(f.small[j], InSmall(H, sz, j))
    BY <1>2, <1>6 DEF BinnedAre
  <2> HIDE DEF H
  <2>4. BinnedAre(f, H, sz)
    BY <2>1, <2>2, <2>3 DEF BinnedAre
  <2> QED
    BY <1>2, <2>4 DEF H

\* The chunks of a tree are large.
LEMMA TreeIsLarge ==
    ASSUME NEW G, NEW sz, Sized(G, sz), NEW i
    PROVE  Large(InTree(G, sz, i), i, sz)
<1> SUFFICES ASSUME NEW x \in InTree(G, sz, i) PROVE sz[x] \in Nat /\ Ranged(sz[x], i) /\ sz[x] < Modulus
  BY DEF Large
<1>1. sz[x] \in Nat /\ sz[x] < Modulus /\ sz[x] >= MIN_LARGE_SIZE /\ compute_tree_index(sz[x]) = i
  BY DEF InTree, Sized
<1>2. Ranged(sz[x], compute_tree_index(sz[x]))
  BY <1>1, TreeIndex
<1> QED
  BY <1>1, <1>2

\* unlink_large_chunk takes the chunk out of its tree.
LEMMA UnlinkLarge ==
    ASSUME NEW g, DOMAIN g = Fields, NEW G, NEW sz, Sized(G, sz), BinnedAre(g, G, sz), NEW p \in G,
           NEW s, s = sz[p], s >= MIN_LARGE_SIZE
    PROVE  LET f == unlink_large_chunk(g, p, s) IN Unlinks(g, f) /\ BinnedAre(f, G \ {p}, sz)
<1> DEFINE i == compute_tree_index(s)
           t == g.tree[i]
           path == CHOOSE q \in DOMAIN t : p \in ToSet(t[q])
           ring == t[path]
           less == IF p = Head(ring) THEN <<Last(ring)>> \o SubSeq(ring, 2, Len(ring) - 1) ELSE Unlinked(ring, p)
           leaf == Replacement(t, path)
           new == IF Len(ring) > 1 THEN [t EXCEPT ![path] = less]
                  ELSE IF Children(t, path) = {} THEN Dropped(t, path)
                  ELSE Dropped([t EXCEPT ![path] = t[leaf]], leaf)
           T == InTree(G, sz, i)
<1>1. s \in Nat /\ s < Modulus /\ i \in TreeBins
  BY TreeIndex DEF Sized, Ranged
<1>2. unlink_large_chunk(g, p, s) = [g EXCEPT !.tree[i] = new]
  <2> HIDE DEF i, path, less, leaf
  <2>1. [g EXCEPT !.tree[i][path] = less] = [g EXCEPT !.tree[i] = [t EXCEPT ![path] = less]]
    OBVIOUS
  <2>2. unlink_large_chunk(g, p, s) =
          IF Len(ring) > 1 THEN [g EXCEPT !.tree[i][path] = less]
          ELSE IF Children(t, path) = {} THEN [g EXCEPT !.tree[i] = Dropped(t, path)]
          ELSE [g EXCEPT !.tree[i] = Dropped([t EXCEPT ![path] = t[leaf]], leaf)]
    BY DEF unlink_large_chunk, i, path, less, leaf
  <2> QED
    BY <2>1, <2>2
<1>3. p \in T /\ Large(T, i, sz) /\ TreeOf(t, i, T, sz)
  BY <1>1, TreeIsLarge DEF InTree, BinnedAre
<1> HIDE DEF i, T, t
<1>4. /\ path \in DOMAIN t /\ p \in ToSet(t[path])
  BY <1>1, <1>3, NodeFound
<1> HIDE DEF path
<1>5. NodeOf(t, i, T, sz, path)
  BY <1>1, <1>3, <1>4, NodeSizes
<1>6. ring \in Seq(T) /\ ring # <<>> /\ IsInjective(ring) /\ p \in ToSet(ring)
  BY <1>4, <1>5 DEF NodeOf
<1> HIDE DEF ring
<1>7. TreeOf(new, i, T \ {p}, sz)
  <2>1. CASE Len(ring) > 1
    <3>1. Leaves(less, ring, T, p)
      <4>1. CASE p = Head(ring)
        BY <1>6, <2>1, <4>1, LastLeaves
      <4>2. CASE p # Head(ring)
        BY <1>6, <4>2, UnlinkedLeaves
      <4> QED
        BY <4>1, <4>2
    <3> HIDE DEF less
    <3>2. TreeOf([t EXCEPT ![path] = less], i, T \ {p}, sz)
      BY <1>1, <1>3, <1>4, <2>1, <3>1, RingShrinks DEF ring
    <3> QED
      BY <2>1, <3>2
  <2>2. CASE ~(Len(ring) > 1)
    <3>1. ring = <<p>>
      <4>1. Len(ring) = 1
        <5>1. ring \in Seq(T) /\ ring # <<>>
          BY <1>6
        <5>2. Len(ring) \in Nat /\ Len(ring) # 0
          BY <5>1
        <5>3. \A n \in Nat : ~(n > 1) /\ n # 0 => n = 1
          OBVIOUS
        <5> HIDE DEF less, leaf, new
        <5> QED
          BY <2>2, <5>2, <5>3
      <4>2. PICK k \in DOMAIN ring : ring[k] = p
        BY <1>6 DEF ToSet
      <4> QED
        BY <1>6, <4>1, <4>2
    <3>2. t[path] = <<p>>
      BY <3>1 DEF ring
    <3>3. CASE Children(t, path) = {}
      <4>1. IsPrefix(path, path)
        BY <1>5 DEF IsPrefix, NodeOf
      <4>2. TreeOf(Dropped([t EXCEPT ![path] = t[path]], path), i, T \ {p}, sz)
        BY <1>1, <1>3, <1>4, <3>2, <3>3, <4>1, NodeGoes
      <4>3. Dropped([t EXCEPT ![path] = t[path]], path) = Dropped(t, path)
        BY DEF Dropped
      <4> QED
        BY <2>2, <3>3, <4>2, <4>3
    <3>4. CASE Children(t, path) # {}
      <4>1. leaf \in DOMAIN t /\ Children(t, leaf) = {} /\ IsPrefix(path, leaf)
        BY <1>1, <1>3, <1>4, LeafBelow DEF Replacement
      <4> HIDE DEF leaf
      <4>2. TreeOf(Dropped([t EXCEPT ![path] = t[leaf]], leaf), i, T \ {p}, sz)
        BY <1>1, <1>3, <1>4, <3>2, <4>1, NodeGoes
      <4> QED
        BY <2>2, <3>4, <4>2
    <3> QED
      BY <3>3, <3>4
  <2> QED
    BY <2>1, <2>2
<1> HIDE DEF new
<1>8. LET f == [g EXCEPT !.tree[i] = new] IN Unlinks(g, f) /\ BinnedAre(f, G \ {p}, sz)
  BY <1>1, <1>3, <1>7, TreeLeaves DEF T
<1> QED
  BY <1>2, <1>8

-----------------------------------------------------------------------------
(* What the calls need of a layout. *)

\* What a layout says of one chunk, and of the top.
ChunkAt(g, C, U, sz, p) ==
    /\ p \in Nat /\ p > 0 /\ Base <= p /\ Eight(p) /\ sz[p] \in Nat /\ Eight(sz[p]) /\ sz[p] >= 16 /\ sz[p] < Modulus
    /\ p + sz[p] \in C \cup {g.top} /\ p + sz[p] <= g.top /\ p < g.top /\ p + sz[p] < Modulus
WordsAt(g, C, U, sz, p) ==
    /\ IsHead(g, p) /\ Word(g, p + 4).size = sz[p] /\ (Word(g, p + 4).cinuse <=> p \in U)
    /\ chunksize(g, p) = sz[p] /\ (cinuse(g, p) <=> p \in U) /\ (pinuse(g, p) = Word(g, p + 4).pinuse)
TopAt(g, C) ==
    /\ g.top \in Nat /\ g.top > 0 /\ Eight(g.top) /\ Base <= g.top /\ g.top \notin C
    /\ g.topsize \in Nat /\ g.topsize > 0 /\ Eight(g.topsize) /\ g.brk \in Nat /\ g.brk <= End
    /\ g.top + g.topsize + 40 = g.brk /\ g.brk < Modulus /\ g.top + g.topsize + 40 < Modulus
    /\ IsHead(g, g.top) /\ ~cinuse(g, g.top) /\ chunksize(g, g.top) = g.topsize

\* What a layout says of top.
LEMMA TopFacts ==
    ASSUME NEW g, NEW C, NEW U, NEW sz, NEW X, Layout(g, C, U, sz, X)
    PROVE  TopAt(g, C)
<1>1. Tiled(C, sz, g.top) /\ Topped(g)
  BY DEF Layout
<1>2. Spaced(C, sz, g.top)
  BY <1>1, Gaps
<1>3. /\ g.top \in Nat /\ Eight(g.top) /\ Base <= g.top /\ g.top \notin C /\ g.top > 0
  BY <1>1, <1>2, HeapAssumption DEF Tiled, Spaced
<1>4. /\ g.topsize \in Nat /\ g.topsize > 0 /\ Eight(g.topsize) /\ g.brk = g.top + g.topsize + TOP_FOOT_SIZE
      /\ g.brk <= End /\ IsHead(g, g.top) /\ Word(g, g.top + 4).size = g.topsize /\ ~Word(g, g.top + 4).cinuse
  BY <1>1 DEF Topped
<1>5. TOP_FOOT_SIZE = 40 /\ End \in Nat /\ End < Modulus /\ Modulus \in Nat
  BY HeapAssumption, AddressAssumption, LargeSizes DEF TOP_FOOT_SIZE
<1>6. g.brk \in Nat /\ g.brk < Modulus /\ g.top + g.topsize + 40 = g.brk
  BY <1>3, <1>4, <1>5
<1>7. ~cinuse(g, g.top) /\ chunksize(g, g.top) = g.topsize
  BY <1>4, HeadReads
<1> QED
  BY <1>3, <1>4, <1>6, <1>7 DEF TopAt

\* What a layout says of each chunk.
LEMMA ChunkFacts ==
    ASSUME NEW g, NEW C, NEW U, NEW sz, NEW X, Layout(g, C, U, sz, X), NEW p \in C
    PROVE  ChunkAt(g, C, U, sz, p) /\ (p \notin X => WordsAt(g, C, U, sz, p)) /\ (X \subseteq {p} => IsHead(g, p + sz[p]))
<1>1. Tiled(C, sz, g.top) /\ Stored(g, C, U, sz, X) /\ Topped(g)
  BY DEF Layout
<1>2. /\ p \in Nat /\ Eight(p) /\ Base <= p
      /\ sz[p] \in Nat /\ Eight(sz[p]) /\ sz[p] >= 16
      /\ p + sz[p] \in C \cup {g.top} /\ p + sz[p] <= g.top
  BY <1>1 DEF Tiled, MIN_CHUNK_SIZE
<1>3. Base \in Nat /\ Base > 0 /\ Modulus \in Nat /\ TopAt(g, C)
  BY HeapAssumption, LargeSizes, TopFacts
<1>4. p > 0 /\ sz[p] < Modulus /\ p < g.top /\ p + sz[p] < Modulus
  BY <1>2, <1>3 DEF TopAt
<1>5. p \notin X => IsHead(g, p) /\ Word(g, p + 4).size = sz[p] /\ (Word(g, p + 4).cinuse <=> p \in U)
  BY <1>1 DEF Stored, HeadsAre
<1>6. p \notin X => WordsAt(g, C, U, sz, p)
  BY <1>5, HeadReads DEF WordsAt
<1>7. X \subseteq {p} => IsHead(g, p + sz[p])
  <2> SUFFICES ASSUME X \subseteq {p} PROVE IsHead(g, p + sz[p])
    OBVIOUS
  <2>1. CASE p + sz[p] = g.top
    BY <1>3, <2>1 DEF TopAt
  <2>2. CASE p + sz[p] \in C
    <3>1. p + sz[p] \notin X
      BY <1>2
    <3> QED
      BY <1>1, <2>2, <3>1 DEF Stored, HeadsAre
  <2> QED
    BY <1>2, <2>1, <2>2
<1> QED
  BY <1>2, <1>4, <1>6, <1>7 DEF ChunkAt

\* The words within n bytes.
LEMMA Insides ==
    ASSUME NEW a \in Nat, a > 0, Eight(a), NEW n \in Nat
    PROVE  \A x \in Inside(a, n) : x \in Nat /\ a <= x /\ x < a + n
<1> SUFFICES ASSUME NEW w \in (a \div 4) .. ((a + n - 1) \div 4) PROVE 4 * w \in Nat /\ a <= 4 * w /\ 4 * w < a + n
  BY DEF Inside
<1>1. PICK q \in Nat, r \in 0 .. 7 : a = q * 8 + r /\ a \div 8 = q /\ a % 8 = r
  BY Quotient
<1>2. r = 0
  BY <1>1 DEF Eight
<1>3. PICK c \in Nat, d \in 0 .. 3 : a = c * 4 + d /\ a \div 4 = c /\ a % 4 = d
  BY Quotient
<1>4. d = 0
  BY <1>1, <1>2, <1>3
<1>5. a + n - 1 \in Nat
  OBVIOUS
<1>6. PICK e \in Nat, f \in 0 .. 3 : a + n - 1 = e * 4 + f /\ (a + n - 1) \div 4 = e /\ (a + n - 1) % 4 = f
  BY <1>5, Quotient
<1>7. w \in c .. e
  BY <1>3, <1>6
<1> QED
  BY <1>3, <1>4, <1>6, <1>7

\* What a chunk holds behind its head is nothing to the layout.
LEMMA LayoutInside ==
    ASSUME NEW g, NEW C, NEW U, NEW sz, NEW X, Layout(g, C, U, sz, X), NEW p \in C,
           NEW f, DOMAIN f = Fields, Tops(g, f),
           \A a \in Nat : a < p + 8 \/ a >= p + sz[p] => Word(f, a) = Word(g, a)
    PROVE  Layout(f, C, U, sz, X)
<1>1. Tiled(C, sz, g.top) /\ TopAt(g, C) /\ ChunkAt(g, C, U, sz, p)
  BY TopFacts, ChunkFacts DEF Layout
<1>2. \A q \in C : q \in Nat /\ sz[q] \in Nat /\ sz[q] >= 16 /\ q + sz[q] \in C \cup {g.top} /\ q < g.top
  BY <1>1, Gaps DEF Spaced
<1>3. \A q \in C \cup {g.top, g.top + g.topsize} : q \in Nat /\ (q <= p \/ q >= p + sz[p])
  <2>1. \A q \in C : q < p => q + 16 <= p
    BY <1>1, <1>2, Gaps DEF Spaced
  <2>2. \A q \in C : p < q => p + sz[p] <= q
    BY <1>1 DEF Tiled
  <2>3. p + sz[p] <= g.top /\ g.topsize \in Nat /\ g.top \in Nat /\ p \in Nat /\ sz[p] \in Nat
    BY <1>1 DEF ChunkAt, TopAt
  <2> QED
    BY <1>2, <2>2, <2>3
<1>4. \A a \in Heads(C, g.top, g.top + g.topsize) : Word(f, a) = Word(g, a)
  <2> SUFFICES ASSUME NEW q \in C \cup {g.top, g.top + g.topsize} PROVE Word(f, q + 4) = Word(g, q + 4)
    BY DEF Heads
  <2>1. q \in Nat /\ (q <= p \/ q >= p + sz[p]) /\ p \in Nat /\ sz[p] \in Nat
    BY <1>2, <1>3
  <2>2. q + 4 \in Nat /\ (q + 4 < p + 8 \/ q + 4 >= p + sz[p])
    BY <2>1
  <2> QED
    BY <2>2
<1>5. \A a \in Feet(C \ (U \cup X), sz) : Word(f, a) = Word(g, a)
  <2> SUFFICES ASSUME NEW q \in C PROVE Word(f, q + sz[q]) = Word(g, q + sz[q])
    BY DEF Feet
  <2>1. q + sz[q] \in Nat /\ (q + sz[q] <= p \/ q + sz[q] >= p + sz[p]) /\ p \in Nat
    BY <1>2, <1>3
  <2>2. q + sz[q] < p + 8 \/ q + sz[q] >= p + sz[p]
    BY <2>1
  <2> QED
    BY <2>1, <2>2
<1> QED
  BY <1>4, <1>5, LayoutSame

\* Two heaps that differ in memory and bins.
Apart(g, f) == DOMAIN f = Fields /\ Tops(g, f) /\ Status(g, f) /\ f.dv = g.dv /\ f.dvsize = g.dvsize

\* The chunks of a layout have the sizes of chunks.
LEMMA LayoutSized ==
    ASSUME NEW g, NEW C, NEW U, NEW sz, NEW X, Layout(g, C, U, sz, X), NEW G, G \subseteq C
    PROVE  Sized(G, sz)
<1> SUFFICES ASSUME NEW p \in G PROVE sz[p] \in Nat /\ Eight(sz[p]) /\ sz[p] >= 16 /\ sz[p] < Modulus
  BY DEF Sized
<1> QED
  BY ChunkFacts DEF ChunkAt

\* insert_chunk puts the chunk in its bin and leaves the layout.
LEMMA InsertChunk ==
    ASSUME NEW g, NEW C, NEW U, NEW sz, Layout(g, C, U, sz, {}), NEW G, G \subseteq C, BinnedAre(g, G, sz),
           NEW p \in C, p \notin G
    PROVE  LET f == insert_chunk(g, p, sz[p])
           IN  Apart(g, f) /\ Layout(f, C, U, sz, {}) /\ BinnedAre(f, G \cup {p}, sz)
<1> DEFINE s == sz[p]
           n == IF is_small(s) THEN 8 ELSE 24
           f == insert_chunk(g, p, s)
<1>1. ChunkAt(g, C, U, sz, p) /\ DOMAIN g = Fields /\ Sized(G, sz)
  BY ChunkFacts, LayoutSized DEF Layout
<1>2. s \in Nat /\ Eight(s) /\ s >= 16 /\ s < Modulus /\ p \in Nat /\ Eight(p) /\ p > 0
  BY <1>1 DEF ChunkAt
<1>3. \A q \in G : chunksize(g, q) = sz[q]
  BY ChunkFacts DEF WordsAt
<1>4. Linked(g, f, p, n) /\ BinnedAre(f, G \cup {p}, sz)
  <2>1. CASE s < MIN_LARGE_SIZE
    <3>1. LET e == insert_small_chunk(g, p, s) IN Linked(g, e, p, 8) /\ BinnedAre(e, G \cup {p}, sz)
      BY <1>1, <1>2, <2>1, InsertSmall
    <3>2. f = insert_small_chunk(g, p, s) /\ n = 8
      BY <2>1 DEF insert_chunk, is_small
    <3> QED
      BY <3>1, <3>2
  <2>2. CASE ~(s < MIN_LARGE_SIZE)
    <3>1. s >= MIN_LARGE_SIZE
      BY <1>2, <2>2, LargeSizes
    <3>2. LET e == insert_large_chunk(g, p, s) IN Linked(g, e, p, 24) /\ BinnedAre(e, G \cup {p}, sz)
      BY <1>1, <1>2, <1>3, <3>1, InsertLarge
    <3>3. f = insert_large_chunk(g, p, s) /\ n = 24
      BY <2>2 DEF insert_chunk, is_small
    <3> QED
      BY <3>2, <3>3
  <2> QED
    BY <2>1, <2>2
<1>5. n \in Nat /\ p + 8 + n <= p + s
  <2>1. CASE is_small(s)
    BY <1>2, <2>1
  <2>2. CASE ~is_small(s)
    <3>1. s >= 32
      BY <1>2, <2>2, LargeSizes DEF is_small
    <3> QED
      BY <1>2, <2>2, <3>1
  <2> QED
    BY <2>1, <2>2
<1> HIDE DEF f, n
<1>6. \A a \in Nat : a < p + 8 \/ a >= p + s => Word(f, a) = Word(g, a)
  <2> SUFFICES ASSUME NEW a \in Nat, a < p + 8 \/ a >= p + s PROVE a \notin Inside(p + 8, n)
    BY <1>4 DEF Linked
  <2>1. p + 8 \in Nat /\ p + 8 > 0 /\ Eight(p + 8)
    BY <1>2, Eights DEF Eight
  <2>2. \A x \in Inside(p + 8, n) : p + 8 <= x /\ x < p + 8 + n
    BY <1>5, <2>1, Insides
  <2> QED
    BY <1>2, <1>5, <2>2
<1>7. Apart(g, f)
  BY <1>4 DEF Linked, Apart
<1>8. Layout(f, C, U, sz, {})
  BY <1>6, <1>7, LayoutInside DEF Apart
<1> QED
  BY <1>4, <1>7, <1>8 DEF f, s

\* unlink_chunk takes it out of its bin.
LEMMA UnlinkChunk ==
    ASSUME NEW g, NEW C, NEW U, NEW sz, NEW X, Layout(g, C, U, sz, X), NEW G, G \subseteq C, BinnedAre(g, G, sz), NEW p \in G
    PROVE  LET f == unlink_chunk(g, p, sz[p])
           IN  Unlinks(g, f) /\ BinnedAre(f, G \ {p}, sz)
<1>1. ChunkAt(g, C, U, sz, p) /\ DOMAIN g = Fields /\ Sized(G, sz)
  BY ChunkFacts, LayoutSized DEF Layout
<1>2. sz[p] \in Nat /\ Eight(sz[p])
  BY <1>1 DEF ChunkAt
<1>3. CASE sz[p] < MIN_LARGE_SIZE
  <2>1. LET f == unlink_small_chunk(g, p, sz[p]) IN Unlinks(g, f) /\ BinnedAre(f, G \ {p}, sz)
    BY <1>1, <1>2, <1>3, UnlinkSmall
  <2> QED
    BY <1>3, <2>1 DEF unlink_chunk, is_small
<1>4. CASE ~(sz[p] < MIN_LARGE_SIZE)
  <2>1. sz[p] >= MIN_LARGE_SIZE
    BY <1>2, <1>4, LargeSizes
  <2>2. LET f == unlink_large_chunk(g, p, sz[p]) IN Unlinks(g, f) /\ BinnedAre(f, G \ {p}, sz)
    BY <1>1, <2>1, UnlinkLarge
  <2> QED
    BY <1>4, <2>2 DEF unlink_chunk, is_small
<1> QED
  BY <1>3, <1>4

\* Unlinking leaves every word.
LEMMA LayoutUnlinked ==
    ASSUME NEW g, NEW C, NEW U, NEW sz, NEW X, Layout(g, C, U, sz, X), NEW f, Unlinks(g, f)
    PROVE  Layout(f, C, U, sz, X)
<1>1. \A a : Word(f, a) = Word(g, a)
  BY DEF Unlinks, Word
<1> QED
  BY <1>1, LayoutSame DEF Unlinks
=============================================================================
