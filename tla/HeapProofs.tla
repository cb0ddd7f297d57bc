----------------------------- MODULE HeapProofs -----------------------------
(***************************************************************************)
(* For every memory, page size, set of request sizes and number of calls:  *)
(* between calls the heap is sound, each live block is in a chunk in use   *)
(* that has room for it, and what the debugging code of malloc.c asserts   *)
(* holds. Each call is followed through the ways it has to serve a         *)
(* request: bins, dv, top, more memory from sbrk, in place, moved,         *)
(* aligned, cut in pieces.                                                 *)
(***************************************************************************)
EXTENDS Heap, HeapChunksProofs

-----------------------------------------------------------------------------
(* free. *)

\* While the chunk x is on its way to a bin, it may be the one that is dv.
LimboShelf(g, F, sz, x) ==
    /\ (g.dv = 0 /\ g.dvsize = 0) \/ (g.dv \in F /\ g.dvsize = sz[g.dv]) \/ g.dv = x
    /\ BinnedAre(g, F \ {g.dv}, sz)

\* The heap is sound again, and the chunks of U have kept their sizes.
Freed(g, f, D, U, s, sz) == Sound(f, D, U, s) /\ Status(g, f) /\ \A u \in U : s[u] = sz[u]

\* free of a chunk with one in use behind it bins it.
LEMMA FreeBeforeUsed ==
    ASSUME NEW g, NEW C, NEW U, NEW sz, NEW x, Layout(g, C, U, sz, {x}), LimboShelf(g, C \ (U \cup {x}), sz, x),
           x + sz[x] \in U, g.dv # x
    PROVE  Freed(g, insert_chunk(set_free_with_pinuse(g, x, sz[x], x + sz[x]), x, sz[x]), C, U, sz, sz)
<1> DEFINE F == C \ (U \cup {x})
           e == set_free_with_pinuse(g, x, sz[x], x + sz[x])
           f == insert_chunk(e, x, sz[x])
           G == F \ {g.dv}
<1>1. MemoryOnly(g, e) /\ Layout(e, C, U, sz, {})
  BY LayoutFree
<1> HIDE DEF e
<1>2. e.dv = g.dv /\ e.dvsize = g.dvsize /\ e.small = g.small /\ e.tree = g.tree /\ Status(g, e)
  BY <1>1 DEF MemoryOnly, Bins
<1>3. BinnedAre(e, G, sz)
  <2>1. BinnedAre(g, G, sz)
    BY DEF LimboShelf
  <2> QED
    BY <1>2, <2>1, BinnedSame
<1>4. G \subseteq C /\ x \in C /\ x \notin G
  BY DEF Layout, Parted
<1> HIDE DEF G
<1>5. Apart(e, f) /\ Layout(f, C, U, sz, {}) /\ BinnedAre(f, G \cup {x}, sz)
  BY <1>1, <1>3, <1>4, InsertChunk
<1> HIDE DEF f
<1>6. f.dv = g.dv /\ f.dvsize = g.dvsize /\ Status(g, f)
  BY <1>2, <1>5 DEF Apart, Status
<1>7. G \cup {x} = (C \ U) \ {g.dv}
  BY <1>4 DEF G, Layout, Parted
<1>8. IF g.dv = 0 THEN g.dvsize = 0 ELSE g.dv \in C \ U /\ g.dvsize = sz[g.dv]
  <2>1. \A p \in C : p # 0
    BY ChunkFacts DEF ChunkAt
  <2> QED
    BY <2>1 DEF LimboShelf
<1>9. Shelved(f, C \ U, sz)
  BY <1>5, <1>6, <1>7, <1>8 DEF Shelved
<1> QED
  BY <1>5, <1>6, <1>9 DEF Freed, Sound, f, e

\* free of the chunk before top makes it a part of top.
LEMMA FreeBeforeTop ==
    ASSUME NEW g, NEW C, NEW U, NEW sz, NEW x, Layout(g, C, U, sz, {x}), LimboShelf(g, C \ (U \cup {x}), sz, x),
           x + sz[x] = g.top
    PROVE  Freed(g, MergedTop(g, x, sz[x]), C \ {x}, U, sz, sz)
<1> DEFINE D == C \ {x}
           F == C \ (U \cup {x})
           size == g.topsize + sz[x]
           e == [g EXCEPT !.topsize = @ + sz[x], !.top = x]
           top == SetHead(e, x, size, FALSE, TRUE)
           off == IF x = g.dv THEN [top EXCEPT !.dv = 0, !.dvsize = 0] ELSE top
           f == IF should_trim(off, off.topsize) THEN sys_trim(off, 0) ELSE off
<1>1. DOMAIN g = Fields
  BY DEF Layout
<1>2. /\ DOMAIN e = Fields /\ e.top = x /\ e.topsize = size /\ Segment(g, e) /\ Status(g, e)
      /\ e.small = g.small /\ e.tree = g.tree /\ e.dv = g.dv /\ e.dvsize = g.dvsize /\ e.mem = g.mem
  BY <1>1 DEF Fields, Segment, Status
<1> HIDE DEF e, size
<1>3. SetsWord(e, top, x, HeadWord(size, FALSE, TRUE))
  BY <1>2, SetHeadFlags
<1> HIDE DEF top
<1>4. /\ DOMAIN top = Fields /\ top.top = x /\ top.topsize = size /\ Segment(g, top) /\ Status(g, top)
      /\ top.small = g.small /\ top.tree = g.tree /\ top.dv = g.dv /\ top.dvsize = g.dvsize
  BY <1>2, <1>3 DEF SetsWord, MemoryOnly, Tops, Bins, Status, Segment
<1>5. /\ DOMAIN off = Fields /\ off.top = x /\ off.topsize = size /\ Segment(g, off) /\ Status(g, off)
      /\ off.small = g.small /\ off.tree = g.tree /\ off.mem = top.mem
      /\ IF x = g.dv THEN off.dv = 0 /\ off.dvsize = 0 ELSE off.dv = g.dv /\ off.dvsize = g.dvsize
  BY <1>4 DEF Fields, Segment, Status
<1> HIDE DEF off
<1>6. /\ DOMAIN f = Fields /\ f.top = x /\ f.topsize = size /\ Segment(g, f) /\ Status(g, f)
      /\ f.small = g.small /\ f.tree = g.tree /\ f.mem = top.mem
      /\ IF x = g.dv THEN f.dv = 0 /\ f.dvsize = 0 ELSE f.dv = g.dv /\ f.dvsize = g.dvsize
  BY <1>5 DEF Fields, Segment, Status, sys_trim
<1> HIDE DEF f
<1>7. \A a : Word(f, a) = IF a = x + 4 THEN HeadWord(g.topsize + sz[x], FALSE, TRUE) ELSE Word(g, a)
  <2>1. \A a : Word(f, a) = Word(top, a)
    BY <1>6 DEF Word
  <2>2. \A a : Word(e, a) = Word(g, a)
    BY <1>2 DEF Word
  <2> QED
    BY <1>3, <2>1, <2>2 DEF SetsWord, size
<1>8. Layout(f, D, U, sz, {})
  BY <1>6, <1>7, LayoutTopJoin DEF size
<1>9. x \in C /\ F = D \ U /\ x \notin F /\ \A p \in C : p # 0
  BY ChunkFacts DEF Layout, Parted, ChunkAt
<1>10. IF f.dv = 0 THEN f.dvsize = 0 ELSE f.dv \in D \ U /\ f.dvsize = sz[f.dv]
  BY <1>6, <1>9 DEF LimboShelf
<1>11. F \ {f.dv} = F \ {g.dv}
  BY <1>6, <1>9
<1>12. BinnedAre(f, F \ {f.dv}, sz)
  <2>1. BinnedAre(g, F \ {f.dv}, sz)
    BY <1>11 DEF LimboShelf
  <2> HIDE DEF F
  <2> QED
    BY <1>6, <2>1, BinnedSame
<1>13. Shelved(f, D \ U, sz)
  BY <1>9, <1>10, <1>12 DEF Shelved
<1>14. MergedTop(g, x, sz[x]) = f
  <2>1. top.dv = g.dv /\ e = [g EXCEPT !.topsize = @ + sz[x], !.top = x]
    BY <1>4 DEF e
  <2> QED
    BY <1>4 DEF MergedTop, f, off, top, size, e
<1> HIDE DEF D
<1>15. Freed(g, f, D, U, sz, sz)
  BY <1>6, <1>8, <1>13 DEF Freed, Sound
<1> QED
  BY <1>14, <1>15 DEF D

\* free of the chunk before dv makes it a part of dv.
LEMMA FreeBeforeDv ==
    ASSUME NEW g, NEW C, NEW U, NEW sz, NEW x, Layout(g, C, U, sz, {x}), LimboShelf(g, C \ (U \cup {x}), sz, x),
           x + sz[x] = g.dv, x + sz[x] \in C \ U
    PROVE  LET n == x + sz[x]
           IN  Freed(g, MergedDv(g, x, sz[x]), C \ {n}, U, Resized(sz, C \ {n}, x, sz[x] + sz[n]), sz)
<1> DEFINE n == x + sz[x]
           F == C \ (U \cup {x})
           D == C \ {n}
           t == sz[x] + sz[n]
           s == Resized(sz, D, x, t)
           e == [g EXCEPT !.dvsize = @ + sz[x], !.dv = x]
           f == set_size_and_pinuse_of_free_chunk(e, x, t)
<1>1. DOMAIN g = Fields /\ x \in C /\ x \notin U /\ U \subseteq C
  BY DEF Layout, Parted
<1>2. ChunkAt(g, C, U, sz, x) /\ n \in C /\ ChunkAt(g, C, U, sz, n)
  BY <1>1, ChunkFacts
<1>3. n # x /\ g.dvsize + sz[x] = t /\ sz[x] \in Nat /\ sz[n] \in Nat
  BY <1>2 DEF ChunkAt, LimboShelf
<1>4. /\ DOMAIN e = Fields /\ Tops(g, e) /\ Status(g, e) /\ e.mem = g.mem
      /\ e.small = g.small /\ e.tree = g.tree /\ e.dv = x /\ e.dvsize = t
  BY <1>1, <1>3 DEF Fields, Tops, Status
<1>5. f = MergedDv(g, x, sz[x])
  BY <1>3 DEF MergedDv
<1> HIDE DEF e
<1>6. Layout(e, C, U, sz, {x})
  <2>1. \A a : Word(e, a) = Word(g, a)
    BY <1>4 DEF Word
  <2> QED
    BY <1>4, <2>1, LayoutSame
<1>7. MemoryOnly(e, f) /\ Layout(f, D, U, s, {})
  BY <1>1, <1>2, <1>6, LayoutJoin
<1> HIDE DEF f
<1>8. f.dv = x /\ f.dvsize = t /\ f.small = g.small /\ f.tree = g.tree /\ Status(g, f)
  BY <1>4, <1>7 DEF MemoryOnly, Bins, Status
<1>9. s[x] = t /\ \A p \in D : p # x => s[p] = sz[p]
  <2> HIDE DEF D, t
  <2>1. x \in D
    BY <1>1, <1>3 DEF D
  <2> QED
    BY <2>1 DEF Resized
<1> HIDE DEF s
<1>10. (D \ U) \ {x} = F \ {n} /\ x \in D \ U /\ x # 0 /\ U \subseteq D
  BY <1>1, <1>2, <1>3 DEF ChunkAt
<1>11. BinnedAre(f, (D \ U) \ {x}, s)
  <2> DEFINE G == (D \ U) \ {x}
  <2>1. BinnedAre(g, G, sz)
    BY <1>10 DEF LimboShelf
  <2>2. \A p \in G : s[p] = sz[p]
    BY <1>9
  <2> HIDE DEF G
  <2>3. BinnedAre(f, G, s)
    BY <1>8, <2>1, <2>2, BinnedSame
  <2> QED
    BY <2>3 DEF G
<1> HIDE DEF D
<1>12. Shelved(f, D \ U, s)
  BY <1>8, <1>9, <1>10, <1>11 DEF Shelved
<1>13. \A u \in U : s[u] = sz[u]
  BY <1>1, <1>9, <1>10
<1>14. Freed(g, f, D, U, s, sz)
  BY <1>7, <1>8, <1>12, <1>13 DEF Freed, Sound
<1> QED
  BY <1>5, <1>14 DEF D, s, t, n

\* free of a chunk before another free one joins the two and bins them.
LEMMA FreeBeforeFree ==
    ASSUME NEW g, NEW C, NEW U, NEW sz, NEW x, Layout(g, C, U, sz, {x}), LimboShelf(g, C \ (U \cup {x}), sz, x),
           x + sz[x] \in C \ U, x + sz[x] # g.dv, ~g.broken
    PROVE  LET n == x + sz[x]
           IN  Freed(g, MergedNext(g, x, sz[x], n), C \ {n}, U, Resized(sz, C \ {n}, x, sz[x] + sz[n]), sz)
<1> DEFINE n == x + sz[x]
           F == C \ (U \cup {x})
           G == F \ {g.dv}
           D == C \ {n}
           t == sz[x] + sz[n]
           s == Resized(sz, D, x, t)
           e == unlink_chunk(g, n, sz[n])
           k == set_size_and_pinuse_of_free_chunk(e, x, t)
           f == IF x = k.dv THEN [k EXCEPT !.dvsize = chunksize(k, x)] ELSE insert_chunk(k, x, chunksize(k, x))
<1>1. DOMAIN g = Fields /\ x \in C /\ x \notin U /\ U \subseteq C /\ n \in C
  BY DEF Layout, Parted
<1>2. ChunkAt(g, C, U, sz, x) /\ ChunkAt(g, C, U, sz, n)
  BY <1>1, ChunkFacts
<1>3. n # x /\ sz[x] \in Nat /\ sz[n] \in Nat
  BY <1>2 DEF ChunkAt
<1>4. chunksize(g, n) = sz[n]
  BY <1>1, <1>3, ChunkFacts DEF WordsAt
<1>5. G \subseteq C /\ n \in G /\ BinnedAre(g, G, sz)
  BY <1>1, <1>3 DEF LimboShelf
<1>6. Unlinks(g, e) /\ BinnedAre(e, G \ {n}, sz)
  <2> HIDE DEF G, n
  <2> QED
    BY <1>5, UnlinkChunk
<1> HIDE DEF e
<1>7. Layout(e, C, U, sz, {x})
  BY <1>6, LayoutUnlinked
<1>8. MemoryOnly(e, k) /\ Layout(k, D, U, s, {})
  BY <1>1, <1>7, LayoutJoin
<1> HIDE DEF k
<1>9. k.dv = g.dv /\ k.dvsize = g.dvsize /\ k.small = e.small /\ k.tree = e.tree /\ Status(g, k) /\ DOMAIN k = Fields
  BY <1>6, <1>8 DEF MemoryOnly, Bins, Status, Unlinks
<1>10. s[x] = t /\ x \in D /\ \A p \in D : p # x => s[p] = sz[p]
  <2> HIDE DEF D, t
  <2>1. x \in D
    BY <1>1, <1>3 DEF D
  <2> QED
    BY <2>1 DEF Resized
<1> HIDE DEF s
<1>11. /\ G \ {n} = ((D \ U) \ {x}) \ {g.dv} /\ x \in D \ U /\ x # 0 /\ U \subseteq D
       /\ G \ {n} \subseteq D /\ x \notin G \ {n}
  BY <1>1, <1>2, <1>3 DEF ChunkAt
<1>12. BinnedAre(k, G \ {n}, s)
  <2> DEFINE H == G \ {n}
  <2>1. \A p \in H : s[p] = sz[p]
    BY <1>10
  <2>2. BinnedAre(e, H, sz)
    BY <1>6
  <2> HIDE DEF H
  <2>3. BinnedAre(k, H, s)
    BY <1>9, <2>1, <2>2, BinnedSame
  <2> QED
    BY <2>3 DEF H
<1>13. chunksize(k, x) = t
  <2>1. WordsAt(k, D, U, s, x)
    BY <1>8, <1>10, ChunkFacts
  <2> QED
    BY <1>10, <2>1 DEF WordsAt
<1>14. Layout(f, D, U, s, {}) /\ Shelved(f, D \ U, s) /\ Status(g, f)
  <2>1. CASE x = k.dv
    <3>1. f = [k EXCEPT !.dvsize = t]
      BY <1>13, <2>1
    <3>2. /\ DOMAIN f = Fields /\ Tops(k, f) /\ Status(k, f) /\ f.mem = k.mem
          /\ f.small = k.small /\ f.tree = k.tree /\ f.dv = x /\ f.dvsize = t
      BY <1>9, <2>1, <3>1 DEF Fields, Tops, Status
    <3> HIDE DEF f
    <3>3. Layout(f, D, U, s, {})
      <4>1. \A a : Word(f, a) = Word(k, a)
        BY <3>2 DEF Word
      <4> QED
        BY <1>8, <3>2, <4>1, LayoutSame
    <3>4. BinnedAre(f, G \ {n}, s)
      <4> HIDE DEF G, n
      <4> QED
        BY <1>12, <3>2, BinnedSame
    <3>5. (D \ U) \ {f.dv} = G \ {n}
      BY <1>9, <1>11, <2>1, <3>2
    <3> HIDE DEF D, G
    <3>6. Shelved(f, D \ U, s)
      BY <1>10, <1>11, <3>2, <3>4, <3>5 DEF Shelved
    <3> QED
      BY <1>9, <3>2, <3>3, <3>6 DEF Status
  <2>2. CASE x # k.dv
    <3>1. f = insert_chunk(k, x, s[x])
      BY <1>10, <1>13, <2>2
    <3> HIDE DEF f
    <3>2. Apart(k, f) /\ Layout(f, D, U, s, {}) /\ BinnedAre(f, (G \ {n}) \cup {x}, s)
      <4> DEFINE H == G \ {n}
      <4> HIDE DEF H, D
      <4>1. H \subseteq D /\ x \notin H /\ BinnedAre(k, H, s)
        BY <1>11, <1>12 DEF H
      <4>2. Apart(k, f) /\ Layout(f, D, U, s, {}) /\ BinnedAre(f, H \cup {x}, s)
        BY <1>8, <1>10, <3>1, <4>1, InsertChunk
      <4> QED
        BY <4>2 DEF H
    <3>3. f.dv = g.dv /\ f.dvsize = g.dvsize /\ Status(g, f)
      BY <1>9, <3>2 DEF Apart, Status
    <3>4. (G \ {n}) \cup {x} = (D \ U) \ {g.dv}
      BY <1>9, <1>11, <2>2
    <3>5. IF g.dv = 0 THEN g.dvsize = 0 ELSE g.dv \in D \ U /\ g.dvsize = s[g.dv]
      <4>1. \A p \in C : p # 0
        BY ChunkFacts DEF ChunkAt
      <4>2. g.dv # x /\ g.dv # n
        BY <1>9, <2>2
      <4>3. CASE g.dv = 0
        BY <4>1, <4>2, <4>3 DEF LimboShelf
      <4>4. CASE g.dv # 0
        <5>1. g.dv \in F /\ g.dvsize = sz[g.dv]
          BY <4>2, <4>4 DEF LimboShelf
        <5>2. g.dv \in D \ U
          BY <4>2, <5>1
        <5> QED
          BY <1>10, <4>2, <4>4, <5>1, <5>2
      <4> QED
        BY <4>3, <4>4
    <3> HIDE DEF D, G
    <3>6. Shelved(f, D \ U, s)
      BY <3>2, <3>3, <3>4, <3>5 DEF Shelved
    <3> QED
      BY <3>2, <3>3, <3>6
  <2> QED
    BY <2>1, <2>2
<1> HIDE DEF f
<1>15. f = MergedNext(g, x, sz[x], n)
  <2>1. k = set_size_and_pinuse_of_free_chunk(unlink_chunk(g, n, chunksize(g, n)), x, sz[x] + chunksize(g, n))
    BY <1>4 DEF k, e
  <2>2. ~k.broken
    BY <1>9 DEF Status
  <2> HIDE DEF k
  <2> QED
    BY <2>1, <2>2 DEF f, MergedNext, Then
<1> HIDE DEF D
<1>16. \A u \in U : s[u] = sz[u]
  BY <1>1, <1>10, <1>11
<1>17. Freed(g, f, D, U, s, sz)
  BY <1>14, <1>16 DEF Freed, Sound
<1> QED
  BY <1>15, <1>17 DEF D, s, t, n

IsFreed(g, f, U, sz) == \E D, s : Freed(g, f, D, U, s, sz)

\* Whatever is behind the chunk, free leaves a sound heap.
LEMMA FreeForwardFreed ==
    ASSUME NEW g, NEW C, NEW U, NEW sz, NEW x, Layout(g, C, U, sz, {x}), LimboShelf(g, C \ (U \cup {x}), sz, x),
           ~g.broken, x + sz[x] \in U => g.dv # x
    PROVE  IsFreed(g, FreeForward(g, x, sz[x]), U, sz)
<1> DEFINE n == x + sz[x]
<1>1. x \in C /\ x \notin U /\ U \subseteq C
  BY DEF Layout, Parted
<1>2. ChunkAt(g, C, U, sz, x) /\ TopAt(g, C)
  BY <1>1, ChunkFacts, TopFacts
<1>3. n \in C \cup {g.top} /\ g.top \notin C /\ n # x /\ ~cinuse(g, g.top)
  BY <1>2 DEF ChunkAt, TopAt
<1>4. n \in C => (cinuse(g, n) <=> n \in U)
  BY <1>3, ChunkFacts DEF WordsAt
<1>5. CASE n \in U
  <2>1. FreeForward(g, x, sz[x]) = insert_chunk(set_free_with_pinuse(g, x, sz[x], n), x, sz[x])
    BY <1>1, <1>4, <1>5 DEF FreeForward
  <2>2. Freed(g, insert_chunk(set_free_with_pinuse(g, x, sz[x], n), x, sz[x]), C, U, sz, sz)
    BY <1>5, FreeBeforeUsed
  <2> QED
    BY <2>1, <2>2 DEF IsFreed
<1>6. CASE n = g.top
  <2>1. FreeForward(g, x, sz[x]) = MergedTop(g, x, sz[x])
    BY <1>3, <1>6 DEF FreeForward
  <2>2. Freed(g, MergedTop(g, x, sz[x]), C \ {x}, U, sz, sz)
    BY <1>6, FreeBeforeTop
  <2> QED
    BY <2>1, <2>2 DEF IsFreed
<1>7. CASE n \in C \ U
  <2>1. ~cinuse(g, n) /\ n # g.top
    BY <1>3, <1>4, <1>7
  <2>2. CASE n = g.dv
    <3>1. FreeForward(g, x, sz[x]) = MergedDv(g, x, sz[x])
      BY <2>1, <2>2 DEF FreeForward
    <3>2. Freed(g, MergedDv(g, x, sz[x]), C \ {n}, U, Resized(sz, C \ {n}, x, sz[x] + sz[n]), sz)
      BY <1>7, <2>2, FreeBeforeDv
    <3> QED
      BY <3>1, <3>2 DEF IsFreed
  <2>3. CASE n # g.dv
    <3>1. FreeForward(g, x, sz[x]) = MergedNext(g, x, sz[x], n)
      BY <2>1, <2>3 DEF FreeForward
    <3>2. Freed(g, MergedNext(g, x, sz[x], n), C \ {n}, U, Resized(sz, C \ {n}, x, sz[x] + sz[n]), sz)
      BY <1>7, <2>3, FreeBeforeFree
    <3> QED
      BY <3>1, <3>2 DEF IsFreed
  <2> QED
    BY <2>2, <2>3
<1> QED
  BY <1>3, <1>5, <1>6, <1>7

\* So it does when the chunk before is free and joined first.
LEMMA FreeBackwardFreed ==
    ASSUME NEW g, NEW C, NEW U, NEW sz, Sound(g, C, U, sz), ~g.broken, NEW x \in U, ~Word(g, x + 4).pinuse
    PROVE  IsFreed(g, FreeBackward(g, x, sz[x]), U \ {x}, sz)
<1>1. Layout(g, C, U, sz, {}) /\ Shelved(g, C \ U, sz) /\ U \subseteq C
  BY DEF Sound, Layout, Parted
<1>2. PICK q \in C \ U : q + sz[q] = x /\ prev_foot(g, x) = sz[q] /\ x - prev_foot(g, x) = q
  BY <1>1, PrevFree
<1> DEFINE D == C \ {x}
           V == U \ {x}
           all == sz[q] + sz[x]
           s == Resized(sz, D, q, all)
           G == (C \ U) \ {g.dv}
<1>3. Layout(g, D, V, s, {q})
  BY <1>1, <1>2, LayoutFreedBack
<1>4. ChunkAt(g, C, U, sz, q) /\ ChunkAt(g, C, U, sz, x) /\ TopAt(g, C) /\ x \in C /\ \A p \in C : p # 0
  BY <1>1, ChunkFacts, TopFacts DEF ChunkAt
<1>5. q # x /\ sz[q] \in Nat /\ sz[x] \in Nat /\ q \in Nat /\ sz[x] >= 16 /\ x \in Nat
  BY <1>2, <1>4 DEF ChunkAt
<1>6. s[q] = all /\ \A p \in D : p # q => s[p] = sz[p]
  <2> HIDE DEF all, D
  <2>1. q \in D
    BY <1>5 DEF D
  <2> QED
    BY <2>1 DEF Resized
<1>7. q + all = x + sz[x]
  BY <1>2, <1>5
<1>8. q + s[q] = x + sz[x] /\ x + sz[x] # x
  BY <1>5, <1>6, <1>7
<1> HIDE DEF s, all
<1>9. FreeBackward(g, x, sz[x]) =
        IF q # g.dv THEN FreeForward(unlink_chunk(g, q, sz[q]), q, all)
        ELSE IF cinuse(g, x + sz[x]) THEN set_free_with_pinuse([g EXCEPT !.dvsize = all], q, all, x + sz[x])
        ELSE FreeForward(g, q, all)
  BY <1>2 DEF FreeBackward, all
<1>10. cinuse(g, x + sz[x]) <=> x + sz[x] \in V
  <2>1. x + sz[x] \in C \cup {g.top} /\ g.top \notin C /\ ~cinuse(g, g.top)
    BY <1>4 DEF ChunkAt, TopAt
  <2>2. x + sz[x] \in C => (cinuse(g, x + sz[x]) <=> x + sz[x] \in U)
    BY <1>1, ChunkFacts DEF WordsAt
  <2> QED
    BY <1>1, <1>8, <2>1, <2>2
<1>11. D \ (V \cup {q}) = (C \ U) \ {q} /\ G \subseteq C
  BY <1>1, <1>2
<1>12. V \subseteq D /\ q \notin V /\ q \in D \ V
  BY <1>1, <1>2, <1>5
<1>13. \A f : IsFreed(g, f, V, s) => IsFreed(g, f, V, sz)
  <2>1. \A u \in V : s[u] = sz[u]
    BY <1>6, <1>12
  <2> QED
    BY <2>1 DEF IsFreed, Freed
<1>14. CASE q # g.dv
  <2> DEFINE e == unlink_chunk(g, q, sz[q])
             H == ((C \ U) \ {q}) \ {g.dv}
  <2>1. G \ {q} = H /\ q \in G
    BY <1>2, <1>14
  <2>2. BinnedAre(g, G, sz)
    BY <1>1 DEF Shelved
  <2>3. Unlinks(g, e) /\ BinnedAre(e, H, sz)
    <3> HIDE DEF G, H
    <3> QED
      BY <1>1, <1>11, <2>1, <2>2, UnlinkChunk
  <2> HIDE DEF e
  <2>4. Layout(e, D, V, s, {q}) /\ Status(g, e) /\ e.dv = g.dv /\ e.dvsize = g.dvsize
    BY <1>3, <2>3, LayoutUnlinked DEF Unlinks
  <2>5. \A p \in H : s[p] = sz[p]
    BY <1>1, <1>6
  <2>6. BinnedAre(e, H, s)
    <3> HIDE DEF H
    <3> QED
      BY <2>3, <2>5, BinnedSame
  <2>7. (e.dv = 0 /\ e.dvsize = 0) \/ (e.dv \in (C \ U) \ {q} /\ e.dvsize = s[e.dv])
    <3>1. CASE g.dv = 0
      BY <1>1, <2>4, <3>1 DEF Shelved
    <3>2. CASE g.dv # 0
      <4>1. g.dv \in (C \ U) \ {q} /\ g.dvsize = sz[g.dv]
        BY <1>1, <1>14, <3>2 DEF Shelved
      <4>2. g.dv \in D
        BY <1>1, <4>1
      <4> QED
        BY <1>6, <1>14, <2>4, <4>1, <4>2
    <3> QED
      BY <3>1, <3>2
  <2>8. LimboShelf(e, D \ (V \cup {q}), s, q)
    <3>1. LimboShelf(e, (C \ U) \ {q}, s, q)
      BY <2>4, <2>6, <2>7 DEF LimboShelf
    <3> HIDE DEF D, V
    <3> QED
      BY <1>11, <3>1
  <2>9. ~e.broken /\ e.dv # q
    BY <1>14, <2>4 DEF Status
  <2> HIDE DEF D, V
  <2>10. IsFreed(e, FreeForward(e, q, s[q]), V, s)
    BY <2>4, <2>8, <2>9, FreeForwardFreed
  <2>11. IsFreed(g, FreeForward(e, q, s[q]), V, s)
    BY <2>4, <2>10 DEF IsFreed, Freed, Status
  <2>12. FreeBackward(g, x, sz[x]) = FreeForward(e, q, s[q])
    BY <1>6, <1>9, <1>14 DEF e
  <2> QED
    BY <1>13, <2>11, <2>12 DEF V
<1>15. CASE q = g.dv /\ x + sz[x] \in V
  <2> DEFINE e == [g EXCEPT !.dvsize = all]
             n == x + sz[x]
             f == set_free_with_pinuse(e, q, all, n)
  <2>1. DOMAIN g = Fields
    BY <1>1 DEF Layout
  <2>2. /\ DOMAIN e = Fields /\ Tops(g, e) /\ Status(g, e) /\ e.mem = g.mem
        /\ e.small = g.small /\ e.tree = g.tree /\ e.dv = q /\ e.dvsize = all
    BY <1>15, <2>1 DEF Fields, Tops, Status
  <2> HIDE DEF e
  <2>3. Layout(e, D, V, s, {q})
    <3>1. \A a : Word(e, a) = Word(g, a)
      BY <2>2 DEF Word
    <3> HIDE DEF D, V
    <3> QED
      BY <1>3, <2>2, <3>1, LayoutSame
  <2>4. q + s[q] \in V
    BY <1>8, <1>15
  <2>5. MemoryOnly(e, f) /\ Layout(f, D, V, s, {})
    <3> HIDE DEF D, V
    <3>1. LET k == set_free_with_pinuse(e, q, s[q], q + s[q]) IN MemoryOnly(e, k) /\ Layout(k, D, V, s, {})
      BY <2>3, <2>4, LayoutFree
    <3> QED
      BY <1>6, <1>8, <3>1
  <2> HIDE DEF f
  <2>6. f.dv = q /\ f.dvsize = s[q] /\ f.small = g.small /\ f.tree = g.tree /\ Status(g, f)
    BY <1>6, <2>2, <2>5 DEF MemoryOnly, Bins, Status
  <2>7. (D \ V) \ {q} = (C \ U) \ {g.dv}
    BY <1>1, <1>15
  <2>8. BinnedAre(f, (D \ V) \ {q}, s)
    <3> DEFINE H == (D \ V) \ {q}
    <3>1. BinnedAre(g, H, sz)
      BY <1>1, <2>7 DEF Shelved
    <3>2. \A p \in H : s[p] = sz[p]
      BY <1>6
    <3> HIDE DEF H
    <3>3. BinnedAre(f, H, s)
      BY <2>6, <3>1, <3>2, BinnedSame
    <3> QED
      BY <3>3 DEF H
  <2> HIDE DEF D
  <2>9. Shelved(f, D \ V, s)
    <3> HIDE DEF V
    <3> QED
      BY <1>2, <1>4, <1>12, <2>6, <2>8 DEF Shelved
  <2>10. IsFreed(g, f, V, s)
    BY <2>5, <2>6, <2>9 DEF IsFreed, Freed, Sound
  <2>11. FreeBackward(g, x, sz[x]) = f
    BY <1>9, <1>10, <1>15 DEF f, e
  <2> QED
    BY <1>13, <2>10, <2>11
<1>16. CASE q = g.dv /\ x + sz[x] \notin V
  <2>1. (D \ (V \cup {q})) \ {g.dv} = (C \ U) \ {g.dv}
    BY <1>11, <1>16
  <2>2. LimboShelf(g, D \ (V \cup {q}), s, q)
    <3> DEFINE H == (D \ (V \cup {q})) \ {g.dv}
    <3>1. BinnedAre(g, H, sz)
      BY <1>1, <2>1 DEF Shelved
    <3>2. \A p \in H : s[p] = sz[p]
      BY <1>6, <1>16
    <3> HIDE DEF H
    <3>3. BinnedAre(g, H, s)
      BY <3>1, <3>2, BinnedSame
    <3> QED
      BY <1>16, <3>3 DEF H, LimboShelf
  <2>3. q + s[q] \notin V
    BY <1>8, <1>16
  <2> HIDE DEF D, V
  <2>4. IsFreed(g, FreeForward(g, q, s[q]), V, s)
    BY <1>3, <2>2, <2>3, FreeForwardFreed
  <2>5. FreeBackward(g, x, sz[x]) = FreeForward(g, q, s[q])
    BY <1>6, <1>9, <1>10, <1>16
  <2> QED
    BY <1>13, <2>4, <2>5 DEF V
<1> QED
  BY <1>14, <1>15, <1>16

\* A free leaves a sound heap in which the chunk is no longer in use.
LEMMA FreeFreed ==
    ASSUME NEW g, NEW C, NEW U, NEW sz, Sound(g, C, U, sz), ~g.broken, NEW x \in U
    PROVE  IsFreed(g, dlfree(g, chunk2mem(x)), U \ {x}, sz)
<1>1. Layout(g, C, U, sz, {}) /\ Shelved(g, C \ U, sz) /\ U \subseteq C
  BY DEF Sound, Layout, Parted
<1>2. ChunkAt(g, C, U, sz, x) /\ WordsAt(g, C, U, sz, x)
  BY <1>1, ChunkFacts
<1>3. x \in Nat /\ chunk2mem(x) # 0 /\ mem2chunk(chunk2mem(x)) = x
  BY <1>2 DEF ChunkAt, chunk2mem, mem2chunk
<1>4. /\ dlfree(g, chunk2mem(x)) = IF Word(g, x + 4).pinuse THEN FreeForward(g, x, sz[x]) ELSE FreeBackward(g, x, sz[x])
  BY <1>2, <1>3 DEF dlfree, WordsAt
<1>5. CASE Word(g, x + 4).pinuse
  <2> DEFINE V == U \ {x}
  <2>1. Layout(g, C, V, sz, {x})
    BY <1>1, <1>5, LayoutFreed
  <2>2. C \ (V \cup {x}) = C \ U
    BY <1>1
  <2>3. LimboShelf(g, C \ (V \cup {x}), sz, x)
    <3>1. LimboShelf(g, C \ U, sz, x)
      BY <1>1 DEF LimboShelf, Shelved
    <3> HIDE DEF V
    <3> QED
      BY <2>2, <3>1
  <2>4. g.dv # x
    <3>1. x # 0
      BY <1>2 DEF ChunkAt
    <3> QED
      BY <1>1, <3>1 DEF Shelved
  <2> HIDE DEF V
  <2>5. IsFreed(g, FreeForward(g, x, sz[x]), V, sz)
    BY <2>1, <2>3, <2>4, FreeForwardFreed
  <2> QED
    BY <1>4, <1>5, <2>5 DEF V
<1>6. CASE ~Word(g, x + 4).pinuse
  <2>1. IsFreed(g, FreeBackward(g, x, sz[x]), U \ {x}, sz)
    BY <1>6, FreeBackwardFreed
  <2> QED
    BY <1>4, <1>6, <2>1
<1> QED
  BY <1>5, <1>6

-----------------------------------------------------------------------------
(* Requests and what they are padded to. *)

\* size_t wraps.
LEMMA WrapNat ==
    ASSUME NEW n \in Nat
    PROVE  Wrap(n) \in Nat /\ Wrap(n) < Modulus
<1>1. Modulus \in Nat /\ Modulus > 0
  BY LargeSizes
<1>2. PICK q \in Nat, r \in 0 .. Modulus - 1 : n = q * Modulus + r /\ n \div Modulus = q /\ n % Modulus = r
  BY <1>1, Quotient
<1> QED
  BY <1>1, <1>2 DEF Wrap

\* Numbers that fit are kept, those just above lose the modulus.
LEMMA WrapIs ==
    ASSUME NEW n \in Nat
    PROVE  /\ n < Modulus => Wrap(n) = n
           /\ n >= Modulus /\ n < 2 * Modulus => Wrap(n) = n - Modulus
<1>1. Modulus \in Nat /\ Modulus > 0
  BY LargeSizes
<1>2. PICK q \in Nat, r \in 0 .. Modulus - 1 : n = q * Modulus + r /\ n \div Modulus = q /\ n % Modulus = r
  BY <1>1, Quotient
<1>3. Wrap(n) = r
  BY <1>2 DEF Wrap
<1>4. CASE q = 0
  BY <1>1, <1>2, <1>3, <1>4
<1>5. CASE q = 1
  BY <1>1, <1>2, <1>3, <1>5
<1>6. CASE q >= 2
  <2>1. 2 * Modulus <= q * Modulus /\ q * Modulus \in Nat
    BY <1>1, <1>6, Larger
  <2>2. n >= 2 * Modulus
    BY <1>1, <1>2, <2>1
  <2> QED
    BY <1>1, <2>2
<1> QED
  BY <1>4, <1>5, <1>6

\* What the code makes of the largest size.
LEMMA Limits ==
    /\ MAX_REQUEST \in Nat /\ MAX_REQUEST = Modulus - 64 /\ MAX_SIZE_T \in Nat /\ MAX_SIZE_T = Modulus - 1
    /\ HALF_MAX_SIZE_T \in Nat /\ 2 * HALF_MAX_SIZE_T = Modulus - 2
<1>1. Modulus \in Nat /\ Modulus >= 256 /\ Eight(Modulus)
  BY LargeSizes
<1>2. MAX_REQUEST = Modulus - 64
  <2>1. (-MIN_CHUNK_SIZE * 4) = -64
    BY DEF MIN_CHUNK_SIZE
  <2>2. (-64) % Modulus = Modulus - 64
    <3>1. -64 = (-1) * Modulus + (Modulus - 64) /\ Modulus - 64 \in 0 .. Modulus - 1
      BY <1>1
    <3> DEFINE x == (-1) * Modulus + (Modulus - 64)
    <3>2. x % Modulus = Modulus - 64
      BY <1>1
    <3>3. x = -64
      BY <3>1
    <3> HIDE DEF x
    <3> QED
      BY <3>2, <3>3, Zenon
  <2> QED
    BY <2>1, <2>2 DEF MAX_REQUEST, Wrap
<1>3. PICK a \in Nat, b \in {0, 1} : MAX_SIZE_T = 2 * a + b /\ MAX_SIZE_T \div 2 = a /\ MAX_SIZE_T % 2 = b
  <2>1. MAX_SIZE_T \in Nat
    BY <1>1 DEF MAX_SIZE_T
  <2> QED
    BY <2>1, Half
<1>4. PICK q \in Nat, r \in 0 .. 7 : Modulus = q * 8 + r /\ Modulus \div 8 = q /\ Modulus % 8 = r
  BY <1>1, Quotient
<1>5. r = 0
  BY <1>1, <1>4 DEF Eight
<1>6. 2 * a = Modulus - 2
  BY <1>3, <1>4, <1>5 DEF MAX_SIZE_T
<1> QED
  BY <1>1, <1>2, <1>3, <1>6 DEF MAX_SIZE_T, HALF_MAX_SIZE_T

\* The multiple of eight that is rounded down to.
LEMMA RoundDown ==
    ASSUME NEW n \in Nat
    PROVE  /\ (n \div 8) * 8 \in Nat /\ Eight((n \div 8) * 8) /\ (n \div 8) * 8 <= n /\ n < (n \div 8) * 8 + 8
           /\ n - (n % 8) = (n \div 8) * 8
<1>1. PICK q \in Nat, r \in 0 .. 7 : n = q * 8 + r /\ n \div 8 = q /\ n % 8 = r
  BY Quotient
<1>2. Eight(q * 8)
  BY DEF Eight
<1> QED
  BY <1>1, <1>2

\* No multiple of eight lies between two neighbours.
LEMMA EightSteps ==
    ASSUME NEW m \in Nat, NEW n \in Nat, Eight(m), Eight(n)
    PROVE  m < n => m + 8 <= n
<1>1. PICK q \in Nat, r \in 0 .. 7 : n = q * 8 + r /\ n \div 8 = q /\ n % 8 = r
  BY Quotient
<1>2. PICK a \in Nat, b \in 0 .. 7 : m = a * 8 + b /\ m \div 8 = a /\ m % 8 = b
  BY Quotient
<1> QED
  BY <1>1, <1>2 DEF Eight

\* What a request is padded to.
LEMMA Pads ==
    ASSUME NEW req \in Nat
    PROVE  /\ pad_request(req) \in Nat /\ Eight(pad_request(req)) /\ pad_request(req) >= req + 4 /\ pad_request(req) <= req + 11
           /\ request2size(req) \in Nat /\ Eight(request2size(req)) /\ request2size(req) >= 16
           /\ request2size(req) >= req + 4 /\ request2size(req) <= req + 16
           /\ req <= MAX_SMALL_REQUEST => request2size(req) < MIN_LARGE_SIZE
           /\ req > MAX_SMALL_REQUEST => pad_request(req) >= MIN_LARGE_SIZE
<1> DEFINE p == pad_request(req)
<1>1. p = ((req + 11) \div 8) * 8
  <2>1. req + 4 + 7 = req + 11
    OBVIOUS
  <2> QED
    BY <2>1, Zenon DEF pad_request, CHUNK_OVERHEAD
<1>2. p \in Nat /\ Eight(p) /\ p <= req + 11 /\ req + 11 < p + 8
  <2>1. req + 11 \in Nat
    OBVIOUS
  <2> QED
    BY <1>1, <2>1, RoundDown
<1> HIDE DEF p
<1>3. p >= req + 4
  BY <1>2
<1>4. Eight(16) /\ MIN_LARGE_SIZE \in Nat /\ Eight(MIN_LARGE_SIZE) /\ MIN_LARGE_SIZE >= 32
  BY LargeSizes DEF Eight
<1>5. request2size(req) = IF req < 11 THEN 16 ELSE p
  BY DEF request2size, p, MIN_CHUNK_SIZE, CHUNK_OVERHEAD
<1>6. req >= 11 => p >= 16
  <2>1. req >= 11 => p > 8
    BY <1>2
  <2>2. Eight(8)
    BY DEF Eight
  <2> QED
    BY <1>2, <2>1, <2>2, EightSteps
<1>7. MAX_SMALL_REQUEST = MIN_LARGE_SIZE - 12
  BY <1>4 DEF MAX_SMALL_REQUEST, CHUNK_OVERHEAD
<1>8. req <= MAX_SMALL_REQUEST => request2size(req) < MIN_LARGE_SIZE
  BY <1>2, <1>4, <1>5, <1>7
<1>9. req > MAX_SMALL_REQUEST => p >= MIN_LARGE_SIZE
  <2> SUFFICES ASSUME req > MAX_SMALL_REQUEST, p < MIN_LARGE_SIZE PROVE FALSE
    BY <1>2, <1>4
  <2>1. p + 8 <= MIN_LARGE_SIZE
    BY <1>2, <1>4, EightSteps
  <2> QED
    BY <1>2, <1>4, <1>7, <2>1
<1> QED
  BY <1>2, <1>3, <1>4, <1>5, <1>6, <1>8, <1>9 DEF p

\* What a call needs: a chunk's size with room to spare below the limit, or what no heap has.
Need(nb) ==
    \/ nb = MAX_SIZE_T
    \/ nb \in Nat /\ Eight(nb) /\ nb >= 16 /\ nb + 56 <= Modulus

\* What sbrk is asked for.
LEMMA Granularity ==
    ASSUME NEW n \in Nat
    PROVE  /\ granularity_align(n) \in Nat /\ Eight(granularity_align(n)) /\ granularity_align(n) < Modulus
           /\ n + 8 < Modulus => granularity_align(n) <= n + 8 /\ granularity_align(n) > n
           /\ n + 8 >= Modulus /\ n + 8 < 2 * Modulus =>
                  granularity_align(n) <= n + 8 - Modulus /\ granularity_align(n) > n - Modulus
<1> DEFINE w == Wrap(n + 8)
           a == granularity_align(n)
<1>1. Modulus \in Nat /\ w \in Nat /\ w < Modulus
  BY LargeSizes, WrapNat
<1>2. a = w - (w % 8)
  BY DEF granularity_align
<1>3. /\ n + 8 < Modulus => w = n + 8
      /\ n + 8 >= Modulus /\ n + 8 < 2 * Modulus => w = n + 8 - Modulus
  BY <1>1, WrapIs
<1> HIDE DEF w, a
<1>4. a \in Nat /\ Eight(a) /\ a <= w /\ w < a + 8
  BY <1>1, <1>2, RoundDown
<1> QED
  BY <1>1, <1>3, <1>4 DEF a

\* The larger of two numbers.
LEMMA MaxOfTwo ==
    ASSUME NEW m \in Nat, NEW n \in Nat
    PROVE  Max({m, n}) \in {m, n} /\ Max({m, n}) >= m /\ Max({m, n}) >= n
<1>1. \E x \in {m, n} : \A y \in {m, n} : x >= y
  OBVIOUS
<1> QED
  BY <1>1 DEF Max

-----------------------------------------------------------------------------
(* Top and sbrk. *)

\* A chunk whose neighbour in front is in use.
Behind(U, sz, p) == p = Base \/ \E q \in U : q + sz[q] = p

\* Free chunks and top lie behind a chunk in use, or at the beginning.
LEMMA FreeIsBehind ==
    ASSUME NEW g, NEW C, NEW U, NEW sz, Layout(g, C, U, sz, {}), NEW p \in (C \ U) \cup {g.top}
    PROVE  Behind(U, sz, p)
<1> SUFFICES ASSUME p # Base PROVE \E q \in U : q + sz[q] = p
  BY DEF Behind
<1>1. PICK q \in C : q + sz[q] = p
  BY DEF Layout, Tiled
<1>2. q \in U
  <2> SUFFICES ASSUME q \in C \ U PROVE FALSE
    OBVIOUS
  <2>1. p \in U /\ U \subseteq C
    BY <1>1 DEF Layout, Parted
  <2>2. g.top \notin C
    BY TopFacts DEF TopAt
  <2> QED
    BY <2>1, <2>2
<1> QED
  BY <1>1, <1>2

\* The head of a free chunk and of top says that the one before is in use.
LEMMA BehindPinuse ==
    ASSUME NEW g, NEW C, NEW U, NEW sz, Layout(g, C, U, sz, {}), NEW p \in C, Behind(U, sz, p)
    PROVE  Word(g, p + 4).pinuse /\ pinuse(g, p)
<1>1. WordsAt(g, C, U, sz, p)
  BY ChunkFacts
<1>2. CASE p = Base
  BY <1>1, <1>2 DEF Layout, Stored, WordsAt
<1>3. CASE \E q \in U : q + sz[q] = p
  <2>1. PICK q \in U : q + sz[q] = p
    BY <1>3
  <2>2. q \in C \ {}
    BY DEF Layout, Parted
  <2>3. Word(g, q + sz[q] + 4).pinuse
    BY <2>2 DEF Layout, Stored, NextsAre
  <2> QED
    BY <1>1, <2>1, <2>3 DEF WordsAt
<1> QED
  BY <1>2, <1>3 DEF Behind

\* A heap before its first call, and one that calls can be made of.
Fresh(g) ==
    /\ DOMAIN g = Fields /\ g.top = 0 /\ g.topsize = 0 /\ g.dv = 0 /\ g.dvsize = 0
    /\ g.brk = Base /\ g.seg_size = 0 /\ g.footprint = 0 /\ g.max_footprint = 0
    /\ BinnedAre(g, {}, <<>>)
Ready(g, C, U, sz) == Sound(g, C, U, sz) \/ (Fresh(g) /\ C = {} /\ U = {})
IsReady(g, U, sz) == \E D, s : Ready(g, D, U, s) /\ \A u \in U : s[u] = sz[u]

\* What an allocation of a chunk of nb bytes may come to.
Served(f, U, sz, nb) ==
    \E D, s, r : /\ r \notin U /\ Sound(f, D, U \cup {r}, s) /\ \A u \in U : s[u] = sz[u]
                 /\ s[r] >= nb /\ Behind(U, sz, r) /\ f.ret = r + 8 /\ ~f.broken
Refused(f, U, sz) == f.ret = 0 /\ ~f.broken /\ IsReady(f, U, sz)
Outcome(f, U, sz, nb) == f.broken \/ Refused(f, U, sz) \/ Served(f, U, sz, nb)

\* The answer changes nothing else.
LEMMA AnswerSound ==
    ASSUME NEW g, NEW C, NEW U, NEW sz, Sound(g, C, U, sz), NEW m
    PROVE  Sound(Answer(g, m), C, U, sz) /\ Answer(g, m).ret = m /\ Answer(g, m).broken = g.broken
<1> DEFINE f == Answer(g, m)
<1>1. DOMAIN g = Fields
  BY DEF Sound, Layout
<1>2. /\ DOMAIN f = Fields /\ Tops(g, f) /\ f.mem = g.mem /\ f.small = g.small /\ f.tree = g.tree
      /\ f.dv = g.dv /\ f.dvsize = g.dvsize /\ f.ret = m /\ f.broken = g.broken
  BY <1>1 DEF Answer, Fields, Tops
<1> HIDE DEF f
<1>3. \A a : Word(f, a) = Word(g, a)
  BY <1>2 DEF Word
<1>4. Layout(f, C, U, sz, {})
  BY <1>2, <1>3, LayoutSame DEF Sound
<1>5. BinnedAre(f, (C \ U) \ {g.dv}, sz)
  <2>1. BinnedAre(g, (C \ U) \ {g.dv}, sz)
    BY DEF Sound, Shelved
  <2> DEFINE G == (C \ U) \ {g.dv}
  <2> HIDE DEF G
  <2>2. BinnedAre(f, G, sz)
    BY <1>2, <2>1, BinnedSame DEF G
  <2> QED
    BY <2>2 DEF G
<1>6. Shelved(f, C \ U, sz)
  BY <1>2, <1>5 DEF Sound, Shelved
<1> QED
  BY <1>2, <1>4, <1>6 DEF Sound, f

\* Top serves a request that it is larger than.
LEMMA SplitTopServed ==
    ASSUME NEW g, NEW C, NEW U, NEW sz, Sound(g, C, U, sz), ~g.broken,
           NEW nb \in Nat, Eight(nb), nb >= 16, nb < g.topsize
    PROVE  Served(SplitTop(g, nb), U, sz, nb)
<1> DEFINE t == g.top
           n == g.topsize - nb
           e == [g EXCEPT !.top = @ + nb, !.topsize = @ - nb]
           k == SetHead(e, t + nb, n, FALSE, TRUE)
           f == SetHead(k, t, nb, TRUE, TRUE)
           D == C \cup {t}
           V == U \cup {t}
           s == Resized(sz, D, t, nb)
<1>1. Layout(g, C, U, sz, {}) /\ DOMAIN g = Fields /\ TopAt(g, C)
  BY TopFacts DEF Sound, Layout
<1>2. t \in Nat /\ t > 0 /\ t \notin C /\ U \subseteq C /\ t + 4 # t + nb + 4
  BY <1>1 DEF TopAt, Layout, Parted
<1>3. /\ DOMAIN e = Fields /\ e.top = t + nb /\ e.topsize = n /\ Segment(g, e) /\ Status(g, e) /\ Bins(g, e) /\ e.mem = g.mem
  BY <1>1 DEF Fields, Segment, Status, Bins
<1> HIDE DEF e
<1>4. SetsWord(e, k, t + nb, HeadWord(n, FALSE, TRUE))
  BY <1>3, SetHeadFlags
<1> HIDE DEF k
<1>5. DOMAIN k = Fields
  BY <1>4 DEF SetsWord, MemoryOnly
<1>6. SetsWord(k, f, t, HeadWord(nb, TRUE, TRUE))
  BY <1>5, SetHeadFlags
<1> HIDE DEF f
<1>7. /\ DOMAIN f = Fields /\ f.top = t + nb /\ f.topsize = n /\ Segment(g, f) /\ Status(g, f) /\ Bins(g, f)
  BY <1>3, <1>4, <1>6 DEF SetsWord, MemoryOnly, Tops, Segment, Status, Bins
<1>8. \A a : Word(f, a) = IF a = t + 4 THEN HeadWord(nb, TRUE, TRUE) ELSE IF a = t + nb + 4 THEN HeadWord(n, FALSE, TRUE) ELSE Word(g, a)
  <2>1. \A a : Word(e, a) = Word(g, a)
    BY <1>3 DEF Word
  <2> QED
    BY <1>4, <1>6, <2>1 DEF SetsWord
<1>9. Layout(f, D, V, s, {})
  BY <1>1, <1>7, <1>8, LayoutTopSplit
<1>10. s[t] = nb /\ \A p \in C : s[p] = sz[p]
  <2>1. \A p \in D : s[p] = IF p = t THEN nb ELSE sz[p]
    BY DEF Resized
  <2> QED
    BY <1>2, <2>1
<1> HIDE DEF s
<1>11. Shelved(f, D \ V, s)
  <2>1. D \ V = C \ U
    BY <1>2
  <2> DEFINE G == (C \ U) \ {g.dv}
  <2>2. BinnedAre(g, G, sz) /\ \A p \in G : s[p] = sz[p]
    BY <1>10 DEF Sound, Shelved
  <2> HIDE DEF G, D, V
  <2>3. BinnedAre(f, G, s)
    BY <1>7, <2>2, BinnedSame DEF Bins
  <2>4. IF g.dv = 0 THEN g.dvsize = 0 ELSE g.dv \in C \ U /\ g.dvsize = s[g.dv]
    BY <1>10 DEF Sound, Shelved
  <2> QED
    BY <1>7, <2>1, <2>3, <2>4 DEF Shelved, Bins, G
<1>12. Sound(f, D, V, s)
  BY <1>9, <1>11 DEF Sound
<1>13. Sound(Answer(f, chunk2mem(t)), D, V, s) /\ Answer(f, chunk2mem(t)).ret = t + 8 /\ ~Answer(f, chunk2mem(t)).broken
  <2> HIDE DEF D, V
  <2> QED
    BY <1>7, <1>12, AnswerSound DEF Status, chunk2mem
<1>14. Behind(U, sz, t)
  BY <1>1, FreeIsBehind
<1>15. SplitTop(g, nb) = Answer(f, chunk2mem(t))
  BY DEF SplitTop, f, k, e, set_size_and_pinuse_of_inuse_chunk
<1>16. t \notin U /\ \A u \in U : s[u] = sz[u]
  BY <1>2, <1>10
<1>17. s[t] >= nb
  BY <1>10
<1> HIDE DEF D
<1> QED
  BY <1>13, <1>14, <1>15, <1>16, <1>17 DEF Served, V

\* The segment grows.
GrownTo(g, f, n, m, x, y) ==
    /\ DOMAIN f = Fields /\ f.brk = g.brk + n /\ f.seg_size = g.seg_size + n /\ f.footprint = g.footprint + n
    /\ f.max_footprint = m /\ Status(g, f) /\ Bins(g, f) /\ f.top = x /\ f.topsize = y
    /\ \A a : Word(f, a) = IF a = x + y + 4 THEN HeadWord(TOP_FOOT_SIZE, FALSE, FALSE)
                           ELSE IF a = x + 4 THEN HeadWord(y, FALSE, TRUE) ELSE Word(g, a)

\* More memory from sbrk leaves the heap sound, the first as well.
LEMMA AppendedSound ==
    ASSUME NEW g, NEW C, NEW U, NEW sz, Ready(g, C, U, sz), NEW n \in Nat, Eight(n), Room(g, n), Fresh(g) => n > 40
    PROVE  Sound(Appended(g, n), C, U, sz) /\ Status(g, Appended(g, n))
<1> DEFINE w == Wrap(g.footprint + n)
           m == Max({g.max_footprint, w})
           e == [g EXCEPT !.brk = @ + n, !.seg_size = @ + n, !.footprint = w, !.max_footprint = m]
           t == IF is_initialized(g) THEN g.top ELSE g.brk + n
           z == IF is_initialized(g) THEN g.topsize + n ELSE n - TOP_FOOT_SIZE
<1>1. DOMAIN g = Fields
  BY DEF Ready, Fresh, Sound, Layout
<1>2. /\ Base \in Nat /\ End \in Nat /\ Modulus \in Nat /\ End < Modulus
  BY HeapAssumption, AddressAssumption, LargeSizes
<1>3. /\ g.brk \in Nat /\ g.brk + n <= End /\ g.footprint \in Nat /\ g.footprint = g.brk - Base /\ g.seg_size = g.footprint
      /\ g.max_footprint \in Nat /\ g.footprint <= g.max_footprint
  <2>1. CASE Sound(g, C, U, sz)
    <3>1. TopAt(g, C) /\ Topped(g)
      BY <2>1, TopFacts DEF Sound, Layout
    <3>2. g.brk \in Nat /\ g.brk >= Base
      BY <1>2, <3>1 DEF TopAt
    <3> QED
      BY <1>2, <3>1, <3>2 DEF Topped, Room
  <2>2. CASE Fresh(g)
    BY <1>2, <2>2 DEF Fresh, Room
  <2> QED
    BY <2>1, <2>2 DEF Ready
<1>4. w = g.footprint + n
  BY <1>2, <1>3, WrapIs
<1> HIDE DEF w
<1>5. m \in Nat /\ w <= m
  <2>1. w \in Nat
    BY <1>3, <1>4
  <2> QED
    BY <1>3, <2>1, MaxOfTwo
<1> HIDE DEF m
<1>6. /\ DOMAIN e = Fields /\ e.brk = g.brk + n /\ e.seg_size = g.seg_size + n /\ e.footprint = g.footprint + n
      /\ e.max_footprint = m /\ Status(g, e) /\ Bins(g, e) /\ e.mem = g.mem
  BY <1>1, <1>4 DEF Fields, Status, Bins
<1> HIDE DEF e
<1>7. ASSUME NEW x, NEW y
      PROVE  GrownTo(g, init_top(e, x, y), n, m, x, y)
  <2> DEFINE c == [e EXCEPT !.top = x, !.topsize = y, !.trim_check = trim_threshold]
             k == SetHead(c, x, y, FALSE, TRUE)
             f == SetHead(k, x + y, TOP_FOOT_SIZE, FALSE, FALSE)
  <2>1. /\ DOMAIN c = Fields /\ c.brk = e.brk /\ c.seg_size = e.seg_size /\ c.footprint = e.footprint
        /\ c.max_footprint = e.max_footprint /\ Status(e, c) /\ Bins(e, c) /\ c.mem = e.mem /\ c.top = x /\ c.topsize = y
    BY <1>6 DEF Fields, Status, Bins
  <2> HIDE DEF c
  <2>2. SetsWord(c, k, x, HeadWord(y, FALSE, TRUE))
    BY <2>1, SetHeadFlags
  <2> HIDE DEF k
  <2>3. DOMAIN k = Fields
    BY <2>2 DEF SetsWord, MemoryOnly
  <2>4. SetsWord(k, f, x + y, HeadWord(TOP_FOOT_SIZE, FALSE, FALSE))
    BY <2>3, SetHeadFlags
  <2> HIDE DEF f
  <2>5. /\ DOMAIN f = Fields /\ f.brk = g.brk + n /\ f.seg_size = g.seg_size + n /\ f.footprint = g.footprint + n
        /\ f.max_footprint = m /\ Status(g, f) /\ Bins(g, f) /\ f.top = x /\ f.topsize = y
    BY <1>6, <2>1, <2>2, <2>4 DEF SetsWord, MemoryOnly, Tops, Status, Bins
  <2>6. \A a : Word(c, a) = Word(g, a)
    BY <1>6, <2>1 DEF Word
  <2>7. \A a : Word(f, a) = IF a = x + y + 4 THEN HeadWord(TOP_FOOT_SIZE, FALSE, FALSE)
                            ELSE IF a = x + 4 THEN HeadWord(y, FALSE, TRUE) ELSE Word(g, a)
    BY <2>2, <2>4, <2>6 DEF SetsWord
  <2> QED
    BY <2>5, <2>7 DEF init_top, f, k, c, GrownTo
<1>8. CASE Sound(g, C, U, sz)
  <2>1. Layout(g, C, U, sz, {}) /\ TopAt(g, C)
    BY <1>8, TopFacts DEF Sound
  <2>2. is_initialized(g)
    BY <2>1 DEF TopAt, is_initialized
  <2> DEFINE f == init_top(e, g.top, g.topsize + n)
  <2>3. Appended(g, n) = f
    BY <2>2 DEF Appended, e, w, m
  <2>4. GrownTo(g, f, n, m, g.top, g.topsize + n)
    BY <1>7
  <2> HIDE DEF f
  <2>5. Layout(f, C, U, sz, {})
    <3>1. /\ DOMAIN f = Fields /\ f.brk = g.brk + n /\ f.seg_size = g.seg_size + n /\ f.footprint = g.footprint + n
          /\ f.max_footprint = m /\ f.top = g.top /\ f.topsize = g.topsize + n
          /\ \A a : Word(f, a) = IF a = g.top + (g.topsize + n) + 4 THEN HeadWord(TOP_FOOT_SIZE, FALSE, FALSE)
                                 ELSE IF a = g.top + 4 THEN HeadWord(g.topsize + n, FALSE, TRUE) ELSE Word(g, a)
      BY <2>4 DEF GrownTo
    <3>2. f.max_footprint \in Nat /\ f.footprint <= f.max_footprint /\ g.brk + n <= End
      BY <1>3, <1>4, <1>5, <3>1
    <3> QED
      BY <2>1, <3>1, <3>2, LayoutGrown
  <2>6. Shelved(f, C \ U, sz)
    <3> DEFINE G == (C \ U) \ {g.dv}
    <3>1. BinnedAre(g, G, sz) /\ Bins(g, f)
      BY <1>8, <2>4 DEF Sound, Shelved, GrownTo
    <3> HIDE DEF G
    <3>2. BinnedAre(f, G, sz)
      BY <3>1, BinnedSame DEF Bins
    <3> QED
      BY <1>8, <3>1, <3>2 DEF Sound, Shelved, Bins, G
  <2> QED
    BY <2>3, <2>4, <2>5, <2>6 DEF Sound, GrownTo
<1>9. CASE Fresh(g) /\ C = {} /\ U = {}
  <2>1. ~is_initialized(g) /\ g.brk = Base /\ g.seg_size = 0 /\ g.footprint = 0
    BY <1>9 DEF Fresh, is_initialized
  <2> DEFINE f == init_top(e, g.brk, n - TOP_FOOT_SIZE)
  <2>2. Appended(g, n) = f
    BY <2>1 DEF Appended, e, w, m
  <2>3. GrownTo(g, f, n, m, g.brk, n - TOP_FOOT_SIZE)
    BY <1>7
  <2> HIDE DEF f
  <2>4. Layout(f, {}, {}, sz, {})
    <3>1. /\ DOMAIN f = Fields /\ f.brk = Base + n /\ f.seg_size = n /\ f.footprint = n
          /\ f.max_footprint = m /\ f.top = Base /\ f.topsize = n - TOP_FOOT_SIZE
      BY <2>1, <2>3 DEF GrownTo
    <3>2. \A a : Word(f, a) = IF a = Base + (n - TOP_FOOT_SIZE) + 4 THEN HeadWord(TOP_FOOT_SIZE, FALSE, FALSE)
                              ELSE IF a = Base + 4 THEN HeadWord(n - TOP_FOOT_SIZE, FALSE, TRUE) ELSE Word(g, a)
      BY <2>1, <2>3 DEF GrownTo
    <3>3. f.max_footprint \in Nat /\ f.footprint <= f.max_footprint /\ Base + n <= End
      BY <1>3, <1>4, <1>5, <2>1, <3>1
    <3>4. n > TOP_FOOT_SIZE
      BY <1>9 DEF TOP_FOOT_SIZE
    <3>5. Base + 4 # Base + (n - TOP_FOOT_SIZE) + 4
      BY <1>2, <3>4 DEF TOP_FOOT_SIZE
    <3>6. /\ Word(f, Base + 4) = HeadWord(n - TOP_FOOT_SIZE, FALSE, TRUE)
          /\ Word(f, Base + (n - TOP_FOOT_SIZE) + 4) = HeadWord(TOP_FOOT_SIZE, FALSE, FALSE)
      BY <3>2, <3>5
    <3> QED
      BY <3>1, <3>3, <3>4, <3>6, LayoutFirst
  <2>5. Shelved(f, {}, sz)
    <3>1. BinnedAre(f, {}, sz)
      BY <1>9, <2>3, BinnedSame DEF Fresh, GrownTo, Bins
    <3>2. {} \ {f.dv} = {}
      OBVIOUS
    <3> QED
      BY <1>9, <2>3, <3>1, <3>2 DEF Shelved, Fresh, GrownTo, Bins
  <2>6. C \ U = {}
    BY <1>9
  <2> QED
    BY <1>9, <2>2, <2>3, <2>4, <2>5, <2>6 DEF Sound, GrownTo
<1> QED
  BY <1>8, <1>9 DEF Ready

-----------------------------------------------------------------------------
(* From top, from more memory, from dv. *)

\* Top serves the request or it is refused.
LEMMA FromTopOutcome ==
    ASSUME NEW g, NEW C, NEW U, NEW sz, Sound(g, C, U, sz), ~g.broken, NEW nb, Need(nb)
    PROVE  Outcome(FromTop(g, nb), U, sz, nb)
<1>1. CASE TopServes(g, nb)
  <2>1. TopAt(g, C) /\ Modulus \in Nat
    BY TopFacts, LargeSizes DEF Sound
  <2>2. nb \in Nat /\ Eight(nb) /\ nb >= 16 /\ nb < g.topsize
    BY <1>1, <2>1, Limits DEF TopServes, TopAt, Need
  <2>3. Served(SplitTop(g, nb), U, sz, nb)
    BY <2>2, SplitTopServed
  <2> QED
    BY <1>1, <2>3 DEF FromTop, Outcome
<1>2. CASE ~TopServes(g, nb)
  <2>1. Sound(Answer(g, 0), C, U, sz) /\ Answer(g, 0).ret = 0 /\ ~Answer(g, 0).broken
    BY AnswerSound
  <2> QED
    BY <1>2, <2>1 DEF FromTop, Outcome, Refused, IsReady, Ready
<1> QED
  BY <1>1, <1>2

\* So it is after more memory, unless sbrk has none.
LEMMA ExtendedOutcome ==
    ASSUME NEW g, NEW C, NEW U, NEW sz, Ready(g, C, U, sz), ~g.broken, NEW nb, Need(nb),
           NEW n \in Nat, Eight(n), Fresh(g) => n > 40
    PROVE  Outcome(Extended(g, nb, n), U, sz, nb)
<1>1. CASE Room(g, n)
  <2>1. Sound(Appended(g, n), C, U, sz) /\ ~Appended(g, n).broken
    BY <1>1, AppendedSound DEF Status
  <2> DEFINE f == Appended(g, n)
  <2> HIDE DEF f
  <2>2. Outcome(FromTop(f, nb), U, sz, nb)
    BY <2>1, FromTopOutcome DEF f
  <2> QED
    BY <1>1, <2>2 DEF Extended, f
<1>2. CASE ~Room(g, n)
  <2>1. Extended(g, nb, n) = [Answer(g, chunk2mem(0)) EXCEPT !.broken = TRUE]
    BY <1>2 DEF Extended, Exhausted
  <2>2. DOMAIN g = Fields
    BY DEF Ready, Fresh, Sound, Layout
  <2>3. Extended(g, nb, n).broken
    BY <2>1, <2>2 DEF Fields, Answer
  <2> QED
    BY <2>3 DEF Outcome
<1> QED
  BY <1>1, <1>2

\* Heaps that differ in nothing a layout is about.
LEMMA ReadySame ==
    ASSUME NEW g, NEW C, NEW U, NEW sz, Ready(g, C, U, sz),
           NEW f, DOMAIN f = Fields, Tops(g, f), Bins(g, f), f.mem = g.mem
    PROVE  Ready(f, C, U, sz)
<1>1. CASE Sound(g, C, U, sz)
  <2>1. Layout(f, C, U, sz, {})
    <3>1. \A a : Word(f, a) = Word(g, a)
      BY DEF Word
    <3> QED
      BY <1>1, <3>1, LayoutSame DEF Sound
  <2>2. Shelved(f, C \ U, sz)
    <3> DEFINE G == (C \ U) \ {g.dv}
    <3>1. BinnedAre(g, G, sz)
      BY <1>1 DEF Sound, Shelved
    <3> HIDE DEF G
    <3>2. BinnedAre(f, G, sz)
      BY <3>1, BinnedSame DEF Bins
    <3> QED
      BY <1>1, <3>2 DEF Sound, Shelved, Bins, G
  <2> QED
    BY <2>1, <2>2 DEF Ready, Sound
<1>2. CASE Fresh(g) /\ C = {} /\ U = {}
  <2>1. BinnedAre(f, {}, <<>>)
    BY <1>2, BinnedSame DEF Fresh, Bins
  <2> QED
    BY <1>2, <2>1 DEF Ready, Fresh, Tops, Bins
<1> QED
  BY <1>1, <1>2 DEF Ready

\* sys_alloc serves the request, refuses it or runs into the refusal of sbrk.
LEMMA SysAllocOutcome ==
    ASSUME NEW g, NEW C, NEW U, NEW sz, Ready(g, C, U, sz), ~g.broken, NEW nb, Need(nb), nb >= g.topsize
    PROVE  Outcome(sys_alloc(g, nb), U, sz, nb)
<1> DEFINE x == nb - g.topsize + TOP_FOOT_SIZE + 1
           y == nb + TOP_FOOT_SIZE + 1
           e == [g EXCEPT !.contiguous = FALSE]
<1>1. DOMAIN g = Fields /\ Modulus \in Nat /\ Modulus >= 256 /\ nb \in Nat /\ nb < Modulus
  BY LargeSizes, Limits DEF Need, Ready, Fresh, Sound, Layout
<1>2. /\ DOMAIN e = Fields /\ Tops(g, e) /\ Bins(g, e) /\ e.mem = g.mem /\ e.broken = g.broken /\ e.dv = g.dv
  BY <1>1 DEF Fields, Tops, Bins
<1>3. Ready(e, C, U, sz) /\ (Fresh(e) => Fresh(g))
  <2>1. Ready(e, C, U, sz)
    BY <1>2, ReadySame
  <2>2. Fresh(e) => g.top = 0
    BY <1>2 DEF Fresh, Tops
  <2>3. Sound(g, C, U, sz) => g.top # 0
    BY TopFacts DEF Sound, TopAt
  <2> QED
    BY <2>1, <2>2, <2>3 DEF Ready
<1>4. g.topsize \in Nat /\ (Fresh(g) => g.topsize = 0)
  BY TopFacts DEF Ready, Fresh, Sound, TopAt
<1>5. x \in Nat /\ y \in Nat /\ TOP_FOOT_SIZE = 40
  BY <1>1, <1>4 DEF TOP_FOOT_SIZE
<1>6. /\ granularity_align(x) \in Nat /\ Eight(granularity_align(x)) /\ granularity_align(y) \in Nat /\ Eight(granularity_align(y))
  BY <1>5, Granularity
<1>7. granularity_align(y) > 40
  <2>1. CASE nb = MAX_SIZE_T
    <3>1. y = Modulus + 40
      BY <1>1, <1>5, <2>1, Limits
    <3>2. y + 8 >= Modulus /\ y + 8 < 2 * Modulus
      BY <1>1, <3>1
    <3>3. granularity_align(y) > y - Modulus
      BY <1>5, <3>2, Granularity
    <3> HIDE DEF y
    <3> QED
      BY <1>1, <1>6, <3>1, <3>3
  <2>2. CASE nb + 56 <= Modulus
    <3>1. y + 8 < Modulus /\ y > 40
      BY <1>1, <1>5, <2>2
    <3>2. granularity_align(y) > y
      BY <1>5, <3>1, Granularity
    <3> QED
      BY <1>5, <1>6, <3>1, <3>2
  <2> QED
    BY <2>1, <2>2 DEF Need
<1>8. Fresh(g) => x = y
  BY <1>1, <1>4, <1>5
<1> HIDE DEF x, y
<1>9. Outcome(Extended(g, nb, granularity_align(x)), U, sz, nb)
  BY <1>6, <1>7, <1>8, ExtendedOutcome
<1>10. Outcome(Extended(e, nb, granularity_align(y)), U, sz, nb)
  <2> HIDE DEF e
  <2> QED
    BY <1>2, <1>3, <1>6, <1>7, ExtendedOutcome
<1>11. Outcome(Answer(e, 0), U, sz, nb)
  <2> DEFINE f == Answer(e, 0)
  <2>1. /\ DOMAIN f = Fields /\ Tops(e, f) /\ Bins(e, f) /\ f.mem = e.mem /\ f.broken = e.broken /\ f.ret = 0
    BY <1>2 DEF Fields, Tops, Bins, Answer
  <2> HIDE DEF f, e
  <2>2. Ready(f, C, U, sz)
    BY <1>3, <2>1, ReadySame
  <2>3. Outcome(f, U, sz, nb)
    BY <1>2, <2>1, <2>2 DEF Outcome, Refused, IsReady
  <2> QED
    BY <2>3 DEF f
<1> QED
  BY <1>9, <1>10, <1>11 DEF sys_alloc, x, y

\* What splitting a chunk makes of the sizes.
SplitAt(C, sz, top, x, n) ==
    /\ x + n \notin C \cup {top} /\ \A p \in C : p # x => Split(sz, C, x, n)[p] = sz[p]
    /\ Split(sz, C, x, n)[x] = n /\ Split(sz, C, x, n)[x + n] = sz[x] - n

\* A chunk that is split at a size leaves chunks that tile memory.
LEMMA TiledSplitAt ==
    ASSUME NEW C, NEW sz, NEW top, Tiled(C, sz, top), NEW x \in C, NEW n \in Nat, Eight(n), n >= 16, sz[x] - n >= 16
    PROVE  SplitAt(C, sz, top, x, n)
<1>1. x + n \notin C \cup {top}
  BY TiledSplit
<1> DEFINE y == x + n
<1>2. y \notin C /\ y # x
  BY <1>1
<1> HIDE DEF y
<1>3. /\ \A p \in C : p # x => [p1 \in C \cup {y} |-> IF p1 = x THEN n ELSE IF p1 = y THEN sz[x] - n ELSE sz[p1]][p] = sz[p]
      /\ [p1 \in C \cup {y} |-> IF p1 = x THEN n ELSE IF p1 = y THEN sz[x] - n ELSE sz[p1]][x] = n
      /\ [p1 \in C \cup {y} |-> IF p1 = x THEN n ELSE IF p1 = y THEN sz[x] - n ELSE sz[p1]][y] = sz[x] - n
  BY <1>2
<1> QED
  BY <1>1, <1>3 DEF SplitAt, Split, y

\* A chunk that is in no bin any more is taken whole.
LEMMA TakenServed ==
    ASSUME NEW g, NEW C, NEW U, NEW sz, Layout(g, C, U, sz, {}), NEW v \in C \ U, Shelved(g, C \ (U \cup {v}), sz),
           ~g.broken, NEW nb, sz[v] >= nb
    PROVE  Served(Answer(set_inuse_and_pinuse(g, v, sz[v]), chunk2mem(v)), U, sz, nb)
<1> DEFINE f == set_inuse_and_pinuse(g, v, sz[v])
           V == U \cup {v}
           G == (C \ V) \ {g.dv}
<1>1. MemoryOnly(g, f) /\ Layout(f, C, V, sz, {})
  BY LayoutTaken
<1> HIDE DEF f
<1>2. Shelved(f, C \ V, sz)
  <2>1. BinnedAre(g, G, sz)
    BY DEF Shelved
  <2> HIDE DEF G
  <2>2. BinnedAre(f, G, sz)
    BY <1>1, <2>1, BinnedSame DEF MemoryOnly, Bins
  <2> QED
    BY <1>1, <2>2 DEF Shelved, MemoryOnly, Bins, G
<1> HIDE DEF V
<1>3. Sound(f, C, V, sz) /\ ~f.broken
  BY <1>1, <1>2 DEF Sound, MemoryOnly, Status
<1>4. Sound(Answer(f, chunk2mem(v)), C, V, sz) /\ Answer(f, chunk2mem(v)).ret = v + 8 /\ ~Answer(f, chunk2mem(v)).broken
  BY <1>3, AnswerSound DEF chunk2mem
<1>5. Behind(U, sz, v)
  BY FreeIsBehind
<1> QED
  BY <1>4, <1>5 DEF Served, V, f

\* dv serves a request as a whole when too little would be left.
LEMMA ExhaustDvServed ==
    ASSUME NEW g, NEW C, NEW U, NEW sz, Sound(g, C, U, sz), ~g.broken, NEW nb \in Nat, nb > 0, nb <= g.dvsize
    PROVE  Served(ExhaustDv(g), U, sz, nb)
<1> DEFINE e == [g EXCEPT !.dv = 0, !.dvsize = 0]
           v == g.dv
           G == C \ (U \cup {v})
<1>1. v \in C \ U /\ g.dvsize = sz[v] /\ v # 0 /\ Layout(g, C, U, sz, {}) /\ DOMAIN g = Fields /\ \A p \in C : p # 0
  BY ChunkFacts DEF Sound, Shelved, ChunkAt, Layout
<1>2. DOMAIN e = Fields /\ Tops(g, e) /\ e.small = g.small /\ e.tree = g.tree /\ e.mem = g.mem /\ e.broken = g.broken
      /\ e.dv = 0 /\ e.dvsize = 0
  BY <1>1 DEF Fields, Tops
<1> HIDE DEF e
<1>3. Layout(e, C, U, sz, {})
  <2>1. \A a : Word(e, a) = Word(g, a)
    BY <1>2 DEF Word
  <2> QED
    BY <1>1, <1>2, <2>1, LayoutSame
<1>4. BinnedAre(e, G, sz) /\ 0 \notin G
  <2>1. G = (C \ U) \ {v}
    OBVIOUS
  <2>2. BinnedAre(g, G, sz)
    BY <2>1 DEF Sound, Shelved
  <2>3. 0 \notin G
    BY <1>1
  <2> HIDE DEF G
  <2> QED
    BY <1>2, <2>2, <2>3, BinnedSame
<1>5. Shelved(e, G, sz)
  <2> HIDE DEF G
  <2>1. G \ {e.dv} = G
    BY <1>2, <1>4
  <2> QED
    BY <1>2, <1>4, <2>1 DEF Shelved
<1>6. Served(Answer(set_inuse_and_pinuse(e, v, sz[v]), chunk2mem(v)), U, sz, nb)
  <2> HIDE DEF v
  <2> QED
    BY <1>1, <1>2, <1>3, <1>5, TakenServed
<1> QED
  BY <1>1, <1>6 DEF ExhaustDv, e

\* dv serves a request in part when the rest is a chunk.
LEMMA SplitDvServed ==
    ASSUME NEW g, NEW C, NEW U, NEW sz, Sound(g, C, U, sz), ~g.broken,
           NEW nb \in Nat, Eight(nb), nb >= 16, nb <= g.dvsize, g.dvsize - nb >= 16
    PROVE  Served(SplitDv(g, nb), U, sz, nb)
<1> DEFINE v == g.dv
           r == v + nb
           n == g.dvsize - nb
           D == C \cup {r}
           V == U \cup {v}
           s == Split(sz, C, v, nb)
           e == [g EXCEPT !.dv = @ + nb, !.dvsize = @ - nb]
           k == set_size_and_pinuse_of_free_chunk(e, r, n)
           f == SetHead(k, v, nb, TRUE, TRUE)
<1>1. /\ v \in C \ U /\ g.dvsize = sz[v] /\ v # 0 /\ Layout(g, C, U, sz, {}) /\ DOMAIN g = Fields /\ U \subseteq C
      /\ BinnedAre(g, (C \ U) \ {v}, sz) /\ Tiled(C, sz, g.top)
  BY ChunkFacts DEF Sound, Shelved, ChunkAt, Layout, Parted
<1>2. v \in Nat /\ sz[v] \in Nat
  BY <1>1, ChunkFacts DEF ChunkAt
<1>3. DOMAIN e = Fields /\ Tops(g, e) /\ e.small = g.small /\ e.tree = g.tree /\ e.mem = g.mem /\ e.broken = g.broken
      /\ e.dv = r /\ e.dvsize = n
  BY <1>1 DEF Fields, Tops
<1> HIDE DEF e
<1>4. r \in Nat /\ n \in Nat /\ r + n = v + sz[v]
  BY <1>1, <1>2
<1>5. FreeWords(e, k, r, n)
  <2> HIDE DEF r, n, k
  <2>1. FreeWords(e, set_size_and_pinuse_of_free_chunk(e, r, n), r, n)
    BY <1>3, <1>4, SetFree
  <2> QED
    BY <2>1 DEF k
<1> HIDE DEF k
<1>6. DOMAIN k = Fields
  BY <1>5 DEF FreeWords, MemoryOnly
<1>7. SetsWord(k, f, v, HeadWord(nb, TRUE, TRUE))
  BY <1>6, SetHeadFlags
<1> HIDE DEF f
<1>8. /\ DOMAIN f = Fields /\ Tops(g, f) /\ f.small = g.small /\ f.tree = g.tree /\ f.broken = g.broken /\ f.dv = r /\ f.dvsize = n
  BY <1>3, <1>5, <1>7 DEF FreeWords, SetsWord, MemoryOnly, Tops, Bins, Status
<1>9. PartWords(g, f, v, nb, sz[v])
  <2>1. \A a : Word(e, a) = Word(g, a)
    BY <1>3 DEF Word
  <2>2. v + 4 # r + 4 /\ v + 4 # r + n
    BY <1>2, <1>4
  <2>3. n = sz[v] - nb
    BY <1>1
  <2> HIDE DEF n, v
  <2> QED
    BY <1>4, <1>5, <1>7, <2>1, <2>2, <2>3 DEF FreeWords, SetsWord, PartWords
<1>10. Layout(f, D, V, s, {})
  <2> HIDE DEF v
  <2> QED
    BY <1>1, <1>8, <1>9, LayoutPart
<1>11. r \notin C /\ s[v] = nb /\ s[r] = n /\ \A p \in C : p # v => s[p] = sz[p]
  <2> HIDE DEF v, D
  <2>1. sz[v] - nb >= 16
    BY <1>1
  <2>2. SplitAt(C, sz, g.top, v, nb)
    BY <1>1, <2>1, TiledSplitAt
  <2> QED
    BY <1>1, <2>2 DEF SplitAt
<1> HIDE DEF s
<1>12. Shelved(f, D \ V, s)
  <2> DEFINE G == (C \ U) \ {v}
  <2>1. (D \ V) \ {r} = G /\ r \in D \ V
    BY <1>1, <1>11
  <2>2. BinnedAre(g, G, sz) /\ \A p \in G : s[p] = sz[p]
    BY <1>1, <1>11
  <2> HIDE DEF G, D, V
  <2>3. BinnedAre(f, G, s)
    BY <1>8, <2>2, BinnedSame
  <2>4. r # 0
    BY <1>2
  <2> QED
    BY <1>8, <1>11, <2>1, <2>3, <2>4 DEF Shelved
<1> HIDE DEF D
<1>13. Sound(f, D, V, s)
  BY <1>10, <1>12 DEF Sound
<1>14. Sound(Answer(f, chunk2mem(v)), D, V, s) /\ Answer(f, chunk2mem(v)).ret = v + 8 /\ ~Answer(f, chunk2mem(v)).broken
  <2> HIDE DEF V
  <2> QED
    BY <1>8, <1>13, AnswerSound DEF chunk2mem
<1>15. Behind(U, sz, v)
  BY <1>1, FreeIsBehind
<1>16. SplitDv(g, nb) = Answer(f, chunk2mem(v))
  BY DEF SplitDv, f, k, e, set_size_and_pinuse_of_inuse_chunk
<1>17. v \notin U /\ \A u \in U : s[u] = sz[u]
  BY <1>1, <1>11
<1>18. s[v] >= nb
  BY <1>11
<1> QED
  BY <1>14, <1>15, <1>16, <1>17, <1>18 DEF Served, V

\* When no bin serves the request, dv, top or more memory does.
LEMMA FromDvOrTopOutcome ==
    ASSUME NEW g, NEW C, NEW U, NEW sz, Ready(g, C, U, sz), ~g.broken, NEW nb, Need(nb)
    PROVE  Outcome(FromDvOrTop(g, nb), U, sz, nb)
<1>1. nb \in Nat /\ nb >= 16 /\ g.topsize \in Nat /\ Modulus \in Nat
  BY LargeSizes, Limits, TopFacts DEF Need, Ready, Fresh, Sound, TopAt
<1>2. CASE nb <= g.dvsize
  <2>1. Sound(g, C, U, sz)
    BY <1>1, <1>2 DEF Ready, Fresh
  <2>2. g.dv \in C \ U /\ g.dvsize = sz[g.dv] /\ Layout(g, C, U, sz, {})
    BY <1>1, <1>2, <2>1 DEF Sound, Shelved
  <2>3. ChunkAt(g, C, U, sz, g.dv) /\ TopAt(g, C)
    BY <2>2, ChunkFacts, TopFacts
  <2>4. g.dvsize \in Nat /\ g.dvsize < Modulus - 40
    BY <1>1, <2>2, <2>3 DEF ChunkAt, TopAt
  <2>5. Eight(nb)
    BY <1>1, <1>2, <2>4, Limits DEF Need
  <2>6. CASE g.dvsize - nb >= MIN_CHUNK_SIZE
    <3>1. Served(SplitDv(g, nb), U, sz, nb)
      BY <1>1, <1>2, <2>1, <2>5, <2>6, SplitDvServed DEF MIN_CHUNK_SIZE
    <3> QED
      BY <1>2, <2>6, <3>1 DEF FromDvOrTop, Outcome
  <2>7. CASE ~(g.dvsize - nb >= MIN_CHUNK_SIZE)
    <3>1. Served(ExhaustDv(g), U, sz, nb)
      BY <1>1, <1>2, <2>1, ExhaustDvServed
    <3> QED
      BY <1>2, <2>7, <3>1 DEF FromDvOrTop, Outcome
  <2> QED
    BY <2>6, <2>7
<1>3. CASE ~(nb <= g.dvsize) /\ TopServes(g, nb)
  <2>1. Sound(g, C, U, sz)
    BY <1>1, <1>3 DEF Ready, Fresh, TopServes
  <2>2. Outcome(FromTop(g, nb), U, sz, nb)
    BY <2>1, FromTopOutcome
  <2> QED
    BY <1>3, <2>2 DEF FromDvOrTop, FromTop
<1>4. CASE ~(nb <= g.dvsize) /\ ~TopServes(g, nb)
  <2>1. nb >= g.topsize
    BY <1>1, <1>4 DEF TopServes
  <2>2. Outcome(sys_alloc(g, nb), U, sz, nb)
    BY <2>1, SysAllocOutcome
  <2> QED
    BY <1>4, <2>2 DEF FromDvOrTop
<1> QED
  BY <1>2, <1>3, <1>4

-----------------------------------------------------------------------------
(* From a chunk of a bin. *)

\* A chunk that is in no bin yet is binned, or becomes dv.
LEMMA RestBinned ==
    ASSUME NEW g, NEW C, NEW U, NEW sz, Layout(g, C, U, sz, {}), NEW r \in C \ U, Shelved(g, (C \ U) \ {r}, sz)
    PROVE  LET f == insert_chunk(g, r, sz[r]) IN Sound(f, C, U, sz) /\ Status(g, f)
<1> DEFINE f == insert_chunk(g, r, sz[r])
           G == ((C \ U) \ {r}) \ {g.dv}
<1>1. G \subseteq C /\ r \notin G /\ BinnedAre(g, G, sz)
  BY DEF Shelved
<1>2. r # 0 /\ g.dv # r
  <2>1. r # 0
    BY ChunkFacts DEF ChunkAt
  <2> QED
    BY <2>1 DEF Shelved
<1>3. G \cup {r} = (C \ U) \ {g.dv}
  BY <1>2
<1> HIDE DEF G, f
<1>4. Apart(g, f) /\ Layout(f, C, U, sz, {}) /\ BinnedAre(f, G \cup {r}, sz)
  BY <1>1, InsertChunk DEF f
<1>5. Shelved(f, C \ U, sz)
  BY <1>3, <1>4 DEF Shelved, Apart
<1> QED
  BY <1>4, <1>5 DEF Sound, Apart, f

\* replace_dv bins the old dv and makes the chunk the new one.
LEMMA RestIsDv ==
    ASSUME NEW g, NEW C, NEW U, NEW sz, Layout(g, C, U, sz, {}), NEW r \in C \ U, Shelved(g, (C \ U) \ {r}, sz),
           g.dvsize < MIN_LARGE_SIZE
    PROVE  LET f == replace_dv(g, r, sz[r]) IN Sound(f, C, U, sz) /\ Status(g, f)
<1> DEFINE e == IF g.dvsize # 0 THEN insert_small_chunk(g, g.dv, g.dvsize) ELSE g
           f == [e EXCEPT !.dv = r, !.dvsize = sz[r]]
           H == (C \ U) \ {r}
           G == H \ {g.dv}
<1>1. G \subseteq C /\ g.dv \notin G /\ BinnedAre(g, G, sz) /\ DOMAIN g = Fields
  BY DEF Shelved, Layout
<1>2. \A p \in C : p # 0 /\ sz[p] # 0
  BY ChunkFacts DEF ChunkAt
<1>3. Apart(g, e) /\ Layout(e, C, U, sz, {}) /\ BinnedAre(e, H, sz)
  <2>1. CASE g.dvsize # 0
    <3>1. g.dv \in H /\ g.dvsize = sz[g.dv]
      BY <2>1 DEF Shelved
    <3>2. e = insert_chunk(g, g.dv, sz[g.dv])
      BY <2>1, <3>1 DEF insert_chunk, is_small
    <3>3. G \cup {g.dv} = H /\ g.dv \in C
      BY <3>1
    <3> HIDE DEF G, H, e
    <3>4. Apart(g, e) /\ Layout(e, C, U, sz, {}) /\ BinnedAre(e, G \cup {g.dv}, sz)
      BY <1>1, <3>2, <3>3, InsertChunk
    <3> QED
      BY <3>3, <3>4
  <2>2. CASE g.dvsize = 0
    <3>1. g.dv = 0
      BY <1>2, <2>2 DEF Shelved
    <3>2. G = H
      BY <1>2, <3>1
    <3>3. e = g
      BY <2>2
    <3> HIDE DEF G, H, e
    <3> QED
      BY <1>1, <3>2, <3>3 DEF Apart, Tops, Status
  <2> QED
    BY <2>1, <2>2
<1> HIDE DEF e
<1>4. /\ DOMAIN f = Fields /\ Tops(g, f) /\ Status(g, f) /\ f.mem = e.mem /\ f.small = e.small /\ f.tree = e.tree
      /\ f.dv = r /\ f.dvsize = sz[r]
  BY <1>3 DEF Fields, Tops, Status, Apart
<1>5. f = replace_dv(g, r, sz[r])
  BY DEF replace_dv, e
<1> HIDE DEF f
<1>6. Layout(f, C, U, sz, {})
  <2>1. \A a : Word(f, a) = Word(e, a)
    BY <1>4 DEF Word
  <2>2. Tops(e, f)
    BY <1>3, <1>4 DEF Apart, Tops
  <2> QED
    BY <1>3, <1>4, <2>1, <2>2, LayoutSame
<1>7. Shelved(f, C \ U, sz)
  <2> HIDE DEF H
  <2>1. BinnedAre(f, H, sz)
    BY <1>3, <1>4, BinnedSame
  <2> QED
    BY <1>2, <1>4, <2>1 DEF Shelved, H
<1> QED
  BY <1>4, <1>5, <1>6, <1>7 DEF Sound

\* A chunk that is in no bin any more, of which the first nb bytes are taken.
PartAt(g, v, nb) ==
    set_size_and_pinuse_of_free_chunk(set_size_and_pinuse_of_inuse_chunk(g, v, nb), v + nb, chunksize(g, v) - nb)
PartIs(g, C, U, sz, v, nb) ==
    LET D == C \cup {v + nb}
        V == U \cup {v}
        s == Split(sz, C, v, nb)
        e == PartAt(g, v, nb)
    IN  /\ MemoryOnly(g, e) /\ Layout(e, D, V, s, {}) /\ Shelved(e, (D \ V) \ {v + nb}, s)
        /\ v + nb \in D \ V /\ s[v + nb] = chunksize(g, v) - nb /\ s[v] = nb /\ \A u \in U : s[u] = sz[u]

\* The rest is a free chunk that is in no bin yet.
LEMMA PartLaid ==
    ASSUME NEW g, NEW C, NEW U, NEW sz, Layout(g, C, U, sz, {}), NEW v \in C \ U, Shelved(g, C \ (U \cup {v}), sz),
           NEW nb \in Nat, Eight(nb), nb >= 16, sz[v] - nb >= 16
    PROVE  PartIs(g, C, U, sz, v, nb)
<1> DEFINE r == v + nb
           D == C \cup {r}
           V == U \cup {v}
           s == Split(sz, C, v, nb)
           e == PartAt(g, v, nb)
<1>1. /\ chunksize(g, v) = sz[v] /\ v \in Nat /\ sz[v] \in Nat /\ DOMAIN g = Fields /\ Tiled(C, sz, g.top) /\ U \subseteq C
  BY ChunkFacts DEF ChunkAt, WordsAt, Layout, Parted
<1>2. MemoryOnly(g, e) /\ PartWords(g, e, v, nb, sz[v])
  <2>1. sz[v] >= nb /\ nb > 0
    BY <1>1
  <2>2. LET f == set_size_and_pinuse_of_free_chunk(set_size_and_pinuse_of_inuse_chunk(g, v, nb), v + nb, sz[v] - nb)
        IN  MemoryOnly(g, f) /\ PartWords(g, f, v, nb, sz[v])
    BY <1>1, <2>1, PartTaken
  <2> QED
    BY <1>1, <2>2 DEF PartAt
<1> HIDE DEF e
<1>3. Layout(e, D, V, s, {})
  BY <1>2, LayoutPart DEF MemoryOnly
<1>4. SplitAt(C, sz, g.top, v, nb)
  BY <1>1, TiledSplitAt
<1> HIDE DEF s
<1>5. r \notin C /\ s[v] = nb /\ s[r] = sz[v] - nb /\ \A p \in C : p # v => s[p] = sz[p]
  BY <1>4 DEF SplitAt, s
<1>6. Shelved(e, C \ V, s)
  <2> DEFINE G == (C \ V) \ {g.dv}
  <2>1. BinnedAre(g, G, sz) /\ \A p \in G : s[p] = sz[p]
    BY <1>5 DEF Shelved
  <2> HIDE DEF G
  <2>2. BinnedAre(e, G, s)
    BY <1>2, <2>1, BinnedSame DEF MemoryOnly, Bins
  <2>3. IF g.dv = 0 THEN g.dvsize = 0 ELSE g.dv \in C \ V /\ g.dvsize = s[g.dv]
    BY <1>5 DEF Shelved
  <2> QED
    BY <1>2, <2>2, <2>3 DEF Shelved, MemoryOnly, Bins, G
<1>7. (D \ V) \ {r} = C \ V /\ r \in D \ V
  BY <1>1, <1>5
<1>8. \A u \in U : s[u] = sz[u]
  BY <1>1, <1>5
<1> QED
  BY <1>1, <1>2, <1>3, <1>5, <1>6, <1>7, <1>8 DEF s, e, PartIs

\* Once the rest is put away the request is served.
LEMMA PartServed ==
    ASSUME NEW g, NEW C, NEW U, NEW sz, Layout(g, C, U, sz, {}), NEW v \in C \ U, ~g.broken,
           NEW nb, NEW D, NEW s, NEW f, Sound(f, D, U \cup {v}, s), Status(g, f), s[v] >= nb, \A u \in U : s[u] = sz[u]
    PROVE  Served(Answer(f, chunk2mem(v)), U, sz, nb)
<1> DEFINE V == U \cup {v}
<1> HIDE DEF V
<1>1. Sound(Answer(f, chunk2mem(v)), D, V, s) /\ Answer(f, chunk2mem(v)).ret = v + 8 /\ ~Answer(f, chunk2mem(v)).broken
  BY AnswerSound DEF chunk2mem, Status, V
<1>2. Behind(U, sz, v)
  BY FreeIsBehind
<1> QED
  BY <1>1, <1>2 DEF Served, V

\* A chunk that is split serves a request, whether the rest is binned or becomes dv.
LEMMA SplitServed ==
    ASSUME NEW g, NEW C, NEW U, NEW sz, Layout(g, C, U, sz, {}), NEW v \in C \ U, Shelved(g, C \ (U \cup {v}), sz),
           ~g.broken, NEW nb \in Nat, Eight(nb), nb >= 16, sz[v] - nb >= 16
    PROVE  /\ Served(Answer(TakenSplit(g, v, nb, insert_chunk), chunk2mem(v)), U, sz, nb)
           /\ g.dvsize < MIN_LARGE_SIZE => Served(Answer(TakenSplit(g, v, nb, replace_dv), chunk2mem(v)), U, sz, nb)
<1> DEFINE r == v + nb
           D == C \cup {r}
           V == U \cup {v}
           s == Split(sz, C, v, nb)
           e == PartAt(g, v, nb)
<1>1. /\ MemoryOnly(g, e) /\ Layout(e, D, V, s, {}) /\ Shelved(e, (D \ V) \ {r}, s)
      /\ r \in D \ V /\ s[r] = chunksize(g, v) - nb /\ s[v] = nb /\ \A u \in U : s[u] = sz[u]
  <2>1. PartIs(g, C, U, sz, v, nb)
    BY PartLaid
  <2> QED
    BY <2>1 DEF PartIs
<1> HIDE DEF D, s, r
<1>2. TakenSplit(g, v, nb, insert_chunk) = insert_chunk(e, r, s[r])
  BY <1>1 DEF TakenSplit, PartAt, r
<1>3. TakenSplit(g, v, nb, replace_dv) = replace_dv(e, r, s[r])
  BY <1>1 DEF TakenSplit, PartAt, r
<1> HIDE DEF e
<1>4. Served(Answer(insert_chunk(e, r, s[r]), chunk2mem(v)), U, sz, nb)
  <2> DEFINE f == insert_chunk(e, r, s[r])
  <2>1. Sound(f, D, V, s) /\ Status(e, f)
    <3> HIDE DEF V
    <3> QED
      BY <1>1, RestBinned
  <2> HIDE DEF f
  <2>2. Status(g, f) /\ s[v] >= nb
    BY <1>1, <2>1 DEF MemoryOnly, Status
  <2>3. Served(Answer(f, chunk2mem(v)), U, sz, nb)
    BY <1>1, <2>1, <2>2, PartServed
  <2> QED
    BY <2>3 DEF f
<1>5. ASSUME g.dvsize < MIN_LARGE_SIZE PROVE Served(Answer(replace_dv(e, r, s[r]), chunk2mem(v)), U, sz, nb)
  <2> DEFINE f == replace_dv(e, r, s[r])
  <2>0. e.dvsize < MIN_LARGE_SIZE
    BY <1>1, <1>5 DEF MemoryOnly, Bins
  <2>1. Sound(f, D, V, s) /\ Status(e, f)
    <3> HIDE DEF V
    <3> QED
      BY <1>1, <2>0, RestIsDv
  <2> HIDE DEF f
  <2>2. Status(g, f) /\ s[v] >= nb
    BY <1>1, <2>1 DEF MemoryOnly, Status
  <2>3. Served(Answer(f, chunk2mem(v)), U, sz, nb)
    BY <1>1, <2>1, <2>2, PartServed
  <2> QED
    BY <2>3 DEF f
<1> QED
  BY <1>2, <1>3, <1>4, <1>5

\* A chunk leaves its bin to be taken.
LEMMA Unbinned ==
    ASSUME NEW g, NEW C, NEW U, NEW sz, Sound(g, C, U, sz), NEW v \in (C \ U) \ {g.dv},
           NEW f, Unlinks(g, f), BinnedAre(f, ((C \ U) \ {g.dv}) \ {v}, sz)
    PROVE  Layout(f, C, U, sz, {}) /\ Shelved(f, C \ (U \cup {v}), sz) /\ f.broken = g.broken /\ f.dvsize = g.dvsize
<1>1. Layout(f, C, U, sz, {})
  BY LayoutUnlinked DEF Sound
<1>2. f.dv = g.dv /\ f.dvsize = g.dvsize /\ f.broken = g.broken
  BY DEF Unlinks, Status
<1>3. ((C \ U) \ {g.dv}) \ {v} = (C \ (U \cup {v})) \ {f.dv}
  BY <1>2
<1>4. BinnedAre(f, (C \ (U \cup {v})) \ {f.dv}, sz)
  BY <1>3
<1>5. IF f.dv = 0 THEN f.dvsize = 0 ELSE f.dv \in C \ (U \cup {v}) /\ f.dvsize = sz[f.dv]
  BY <1>2 DEF Sound, Shelved
<1> QED
  BY <1>1, <1>2, <1>4, <1>5 DEF Shelved

\* A chunk of a tree is taken, whole or in part.
LEMMA TreeTakeServed ==
    ASSUME NEW g, NEW C, NEW U, NEW sz, Sound(g, C, U, sz), ~g.broken, NEW v \in (C \ U) \ {g.dv}, sz[v] >= MIN_LARGE_SIZE,
           NEW nb \in Nat, Eight(nb), nb >= 16, nb <= sz[v]
    PROVE  /\ Served(TreeTake(g, v, nb, insert_chunk), U, sz, nb)
           /\ g.dvsize < MIN_LARGE_SIZE => Served(TreeTake(g, v, nb, replace_dv), U, sz, nb)
<1> DEFINE f == unlink_large_chunk(g, v, sz[v])
           G == (C \ U) \ {g.dv}
<1>1. /\ Layout(g, C, U, sz, {}) /\ DOMAIN g = Fields /\ BinnedAre(g, G, sz) /\ G \subseteq C
      /\ chunksize(g, v) = sz[v] /\ sz[v] \in Nat
  BY ChunkFacts DEF Sound, Shelved, Layout, ChunkAt, WordsAt
<1>2. Unlinks(g, f) /\ BinnedAre(f, G \ {v}, sz)
  <2>1. Sized(G, sz)
    BY <1>1, LayoutSized
  <2> HIDE DEF G, f
  <2>2. v \in G
    BY DEF G
  <2> QED
    BY <1>1, <2>1, <2>2, UnlinkLarge DEF f
<1> HIDE DEF f
<1>3. Layout(f, C, U, sz, {}) /\ Shelved(f, C \ (U \cup {v}), sz) /\ ~f.broken /\ f.dvsize = g.dvsize
  BY <1>2, Unbinned
<1>4. chunksize(f, v) = sz[v]
  BY <1>3, ChunkFacts DEF WordsAt
<1>5. CASE sz[v] - nb < 16
  <2>1. Served(Answer(set_inuse_and_pinuse(f, v, sz[v]), chunk2mem(v)), U, sz, nb)
    BY <1>1, <1>3, TakenServed
  <2>2. /\ TreeTake(g, v, nb, insert_chunk) = Answer(set_inuse_and_pinuse(f, v, sz[v]), chunk2mem(v))
        /\ TreeTake(g, v, nb, replace_dv) = Answer(set_inuse_and_pinuse(f, v, sz[v]), chunk2mem(v))
    BY <1>1, <1>3, <1>4, <1>5 DEF TreeTake, Then, TakenWhole, MIN_CHUNK_SIZE, f
  <2> QED
    BY <2>1, <2>2
<1>6. CASE ~(sz[v] - nb < 16)
  <2>1. sz[v] - nb >= 16
    BY <1>1, <1>6
  <2>2. /\ Served(Answer(TakenSplit(f, v, nb, insert_chunk), chunk2mem(v)), U, sz, nb)
        /\ f.dvsize < MIN_LARGE_SIZE => Served(Answer(TakenSplit(f, v, nb, replace_dv), chunk2mem(v)), U, sz, nb)
    BY <1>3, <2>1, SplitServed
  <2>3. /\ TreeTake(g, v, nb, insert_chunk) = Answer(TakenSplit(f, v, nb, insert_chunk), chunk2mem(v))
        /\ TreeTake(g, v, nb, replace_dv) = Answer(TakenSplit(f, v, nb, replace_dv), chunk2mem(v))
    BY <1>1, <1>3, <1>4, <1>6 DEF TreeTake, Then, MIN_CHUNK_SIZE, f
  <2> QED
    BY <1>3, <2>2, <2>3
<1> QED
  BY <1>5, <1>6

-----------------------------------------------------------------------------
(* malloc. *)

\* The first of the smallest nodes is a free chunk of the tree.
InBin(g, C, U, sz, i, v) ==
    /\ v \in (C \ U) \ {g.dv} /\ v # 0 /\ chunksize(g, v) = sz[v] /\ sz[v] \in Nat /\ sz[v] < Modulus
    /\ sz[v] >= MIN_LARGE_SIZE /\ compute_tree_index(sz[v]) = i

\* The first chunk of a node is a free one of the tree's bin.
LEMMA NodeInBin ==
    ASSUME NEW g, NEW C, NEW U, NEW sz, Sound(g, C, U, sz), NEW i \in TreeBins, NEW q \in DOMAIN g.tree[i]
    PROVE  InBin(g, C, U, sz, i, Head(RingAt(g, i, q))) /\ SizeAt(g, i, q) = sz[Head(RingAt(g, i, q))]
<1> DEFINE G == (C \ U) \ {g.dv}
           T == InTree(G, sz, i)
           t == g.tree[i]
           v == Head(t[q])
<1>1. Layout(g, C, U, sz, {}) /\ BinnedAre(g, G, sz)
  BY DEF Sound, Shelved
<1>2. Sized(G, sz) /\ TreeOf(t, i, T, sz)
  BY <1>1, LayoutSized DEF BinnedAre
<1> HIDE DEF G
<1>3. Large(T, i, sz)
  BY <1>2, TreeIsLarge
<1>4. NodeOf(t, i, T, sz, q)
  <2> HIDE DEF T, t
  <2> QED
    BY <1>2, <1>3, NodeSizes DEF t
<1>5. v \in G /\ sz[v] >= MIN_LARGE_SIZE /\ compute_tree_index(sz[v]) = i
  BY <1>4 DEF NodeOf, InTree
<1>6. v \in C
  BY <1>5 DEF G
<1>7. v # 0 /\ chunksize(g, v) = sz[v] /\ sz[v] \in Nat /\ sz[v] < Modulus
  BY <1>1, <1>6, ChunkFacts DEF ChunkAt, WordsAt
<1> QED
  BY <1>5, <1>7 DEF InBin, RingAt, SizeAt, G

\* The smallest of some nodes' chunks is one of theirs.
LEMMA SmallestIn ==
    ASSUME NEW g, NEW C, NEW U, NEW sz, Sound(g, C, U, sz), NEW i \in TreeBins,
           NEW paths, paths \subseteq DOMAIN g.tree[i], paths # {}
    PROVE  /\ InBin(g, C, U, sz, i, SmallestAt(g, i, paths))
           /\ \E q \in paths : sz[SmallestAt(g, i, paths)] = SizeAt(g, i, q)
<1> DEFINE S == {SizeAt(g, i, q) : q \in paths}
           Heads1 == {Head(RingAt(g, i, q)) : q \in paths}
           Is(p) == \A q \in paths : chunksize(g, p) <= SizeAt(g, i, q)
<1>1. \A q \in paths : InBin(g, C, U, sz, i, Head(RingAt(g, i, q))) /\ SizeAt(g, i, q) = sz[Head(RingAt(g, i, q))]
  BY NodeInBin
<1>2. S \in SUBSET Nat /\ S # {}
  BY <1>1 DEF InBin
<1>3. PICK n \in S : \A m \in S : n <= m
  <2> HIDE DEF S
  <2> QED
    BY <1>2, Least
<1>4. PICK q \in paths : SizeAt(g, i, q) = n
  BY <1>3
<1>5. Head(RingAt(g, i, q)) \in Heads1 /\ Is(Head(RingAt(g, i, q)))
  BY <1>1, <1>3, <1>4 DEF InBin
<1>6. \E p \in Heads1 : Is(p)
  BY <1>5
<1>7. SmallestAt(g, i, paths) = CHOOSE p \in Heads1 : Is(p)
  BY DEF SmallestAt
<1>8. SmallestAt(g, i, paths) \in Heads1
  <2> HIDE DEF Heads1, Is
  <2> QED
    BY <1>6, <1>7
<1> QED
  BY <1>1, <1>8

\* The first bin with a tree.
LEMMA LeastTreeIs ==
    ASSUME NEW g, NEW n \in Nat
    PROVE  LeastTree(g, n) # -1 => LeastTree(g, n) \in TreeBins /\ LeastTree(g, n) >= n /\ DOMAIN g.tree[LeastTree(g, n)] # {}
<1> DEFINE s == {i \in TreeBins : i >= n /\ DOMAIN g.tree[i] # {}}
<1>1. LeastTree(g, n) = IF s = {} THEN -1 ELSE Min(s)
  BY DEF LeastTree
<1>2. s \in SUBSET Nat
  BY DEF TreeBins
<1>3. s # {} => Min(s) \in s
  <2> HIDE DEF s
  <2> SUFFICES ASSUME s # {} PROVE Min(s) \in s
    OBVIOUS
  <2>1. \E x \in s : \A y \in s : x <= y
    BY <1>2, Least
  <2> QED
    BY <2>1 DEF Min
<1> QED
  BY <1>1, <1>3

\* The leftmost way down has the root.
LEMMA LeftMostIs ==
    ASSUME NEW g, NEW C, NEW U, NEW sz, Sound(g, C, U, sz), NEW i \in TreeBins, DOMAIN g.tree[i] # {}
    PROVE  LeftMost(g.tree[i], <<>>) # {} /\ LeftMost(g.tree[i], <<>>) \subseteq DOMAIN g.tree[i]
<1> DEFINE G == (C \ U) \ {g.dv}
           T == InTree(G, sz, i)
           t == g.tree[i]
<1>1. Layout(g, C, U, sz, {}) /\ BinnedAre(g, G, sz)
  BY DEF Sound, Shelved
<1>2. Sized(G, sz) /\ TreeOf(t, i, T, sz)
  BY <1>1, LayoutSized DEF BinnedAre
<1> HIDE DEF G
<1>3. Large(T, i, sz)
  BY <1>2, TreeIsLarge
<1>4. <<>> \in LeftMost(t, <<>>)
  <2> HIDE DEF T, t
  <2> QED
    BY <1>2, <1>3, RootIsNode DEF t
<1>5. LeftMost(t, <<>>) \subseteq DOMAIN t
  BY DEF LeftMost, Along
<1> QED
  BY <1>4, <1>5

\* A large request is served by a chunk that is large enough.
LEMMA TreeFitIs ==
    ASSUME NEW g, NEW C, NEW U, NEW sz, Sound(g, C, U, sz),
           NEW nb \in Nat, nb >= MIN_LARGE_SIZE, nb < Modulus, tree_fit(g, nb) # 0
    PROVE  LET v == tree_fit(g, nb) IN (\E i : InBin(g, C, U, sz, i, v)) /\ sz[v] >= nb
<1> DEFINE i == compute_tree_index(nb)
           here == Fits(g, i, OnWay(g, i, nb) \cup Untaken(g, i, nb), nb)
           next == LeastTree(g, i + 1)
           v == tree_fit(g, nb)
<1>1. i \in TreeBins /\ i \in Nat
  BY TreeIndex DEF Ranged, TreeBins
<1>2. v = IF here # {} THEN SmallestAt(g, i, here)
          ELSE IF next = -1 THEN 0
          ELSE SmallestAt(g, next, LeftMost(g.tree[next], <<>>))
  BY DEF tree_fit
<1>3. here \subseteq DOMAIN g.tree[i] /\ \A q \in here : SizeAt(g, i, q) >= nb
  <2>1. \A path : LeftMost(g.tree[i], path) \subseteq DOMAIN g.tree[i]
    BY DEF LeftMost, Along
  <2>2. Untaken(g, i, nb) \subseteq DOMAIN g.tree[i]
    <3> HIDE DEF i
    <3> QED
      BY <2>1 DEF Untaken
  <2> QED
    BY <2>2 DEF Fits, OnWay
<1> HIDE DEF i, here, next, v
<1>4. CASE here # {}
  <2>1. InBin(g, C, U, sz, i, v) /\ \E q \in here : sz[v] = SizeAt(g, i, q)
    BY <1>1, <1>2, <1>3, <1>4, SmallestIn
  <2> QED
    BY <1>3, <2>1 DEF v
<1>5. CASE here = {} /\ next # -1
  <2>1. next \in TreeBins /\ next >= i + 1 /\ DOMAIN g.tree[next] # {}
    BY <1>1, <1>5, LeastTreeIs DEF next
  <2>2. InBin(g, C, U, sz, next, v)
    <3>1. LeftMost(g.tree[next], <<>>) # {} /\ LeftMost(g.tree[next], <<>>) \subseteq DOMAIN g.tree[next]
      BY <2>1, LeftMostIs
    <3> DEFINE paths == LeftMost(g.tree[next], <<>>)
    <3>2. v = SmallestAt(g, next, paths)
      BY <1>2, <1>5
    <3> HIDE DEF paths
    <3> QED
      BY <2>1, <3>1, <3>2, SmallestIn DEF paths
  <2>3. sz[v] \in Nat /\ sz[v] >= MIN_LARGE_SIZE /\ compute_tree_index(sz[v]) = next /\ next \in Nat
    BY <2>1, <2>2 DEF InBin, TreeBins
  <2>4. sz[v] <= nb => compute_tree_index(sz[v]) <= compute_tree_index(nb)
    BY <2>3, IndexGrows
  <2>5. ~(next <= i)
    BY <1>1, <2>1, <2>3
  <2>6. ~(sz[v] <= nb)
    BY <2>3, <2>4, <2>5 DEF i
  <2>7. sz[v] >= nb
    BY <2>3, <2>6
  <2> QED
    BY <2>2, <2>7 DEF v
<1> QED
  BY <1>2, <1>4, <1>5 DEF v

\* Before the first call there is nothing in the bins.
LEMMA FreshBins ==
    ASSUME NEW g, Fresh(g)
    PROVE  /\ \A i \in TreeBins : DOMAIN g.tree[i] = {}
           /\ \A i \in SmallBins : g.small[i] = <<>>
<1>1. BinnedAre(g, {}, <<>>)
  BY DEF Fresh
<1>2. ASSUME NEW i \in TreeBins PROVE DOMAIN g.tree[i] = {}
  <2>1. InTree({}, <<>>, i) = {}
    BY DEF InTree
  <2>2. RingsOf(g.tree[i], {}, <<>>)
    BY <1>1, <2>1 DEF BinnedAre, TreeOf
  <2>3. \A q \in DOMAIN g.tree[i] : g.tree[i][q] \in Seq({}) /\ g.tree[i][q] # <<>>
    BY <2>2 DEF RingsOf
  <2>4. \A s \in Seq({}) : s = <<>>
    OBVIOUS
  <2> QED
    BY <2>3, <2>4
<1>3. ASSUME NEW i \in SmallBins PROVE g.small[i] = <<>>
  <2>1. InSmall({}, <<>>, i) = {}
    BY DEF InSmall
  <2>2. g.small[i] \in Seq({})
    BY <1>1, <2>1 DEF BinnedAre, Lists
  <2>4. \A s \in Seq({}) : s = <<>>
    OBVIOUS
  <2> QED
    BY <2>2, <2>4
<1> QED
  BY <1>2, <1>3

\* The first bin with a chunk is one of the bins.
LEMMA SmallFitsIs ==
    ASSUME NEW g, NEW n \in Nat, SmallFits(g, n) # {}
    PROVE  Min(SmallFits(g, n)) \in SmallFits(g, n) /\ SmallFits(g, n) \subseteq Nat
<1> DEFINE s == SmallFits(g, n)
<1>1. s \in SUBSET Nat
  BY SmallBinsAreSmall DEF SmallFits
<1> HIDE DEF s
<1>2. s # {}
  BY DEF s
<1>3. \E x \in s : \A y \in s : x <= y
  BY <1>1, <1>2, Least
<1>4. Min(s) \in s
  BY <1>3 DEF Min
<1> QED
  BY <1>1, <1>4 DEF s

\* Who serves a request serves a smaller one.
LEMMA ServedLess ==
    ASSUME NEW f, NEW U, NEW sz, NEW m, NEW n, Served(f, U, sz, m), m \in Nat, n \in Nat, n <= m
    PROVE  Served(f, U, sz, n)
<1>1. PICK D, s, r : /\ r \notin U /\ Sound(f, D, U \cup {r}, s) /\ \A u \in U : s[u] = sz[u]
                     /\ s[r] >= m /\ Behind(U, sz, r) /\ f.ret = r + 8 /\ ~f.broken
  BY DEF Served
<1>2. r \in D
  BY <1>1 DEF Sound, Layout, Parted
<1>3. s[r] \in Nat
  BY <1>1, <1>2, ChunkFacts DEF Sound, ChunkAt
<1>4. s[r] >= n
  BY <1>1, <1>3
<1> QED
  BY <1>1, <1>4 DEF Served

\* Requests for small chunks.
LEMMA SmallBinServed ==
    ASSUME NEW g, NEW C, NEW U, NEW sz, Sound(g, C, U, sz), ~g.broken, NEW i \in SmallBins, g.small[i] # <<>>,
           NEW nb \in Nat, Eight(nb), nb >= 16
    PROVE  /\ nb <= 8 * i => Served(FromSmallBin(g, i), U, sz, nb)
           /\ nb + 16 <= 8 * i /\ g.dvsize < MIN_LARGE_SIZE => Served(SplitSmallBin(g, i, nb), U, sz, nb)
<1> DEFINE f == unlink_first_small_chunk(g, i)
           v == Head(g.small[i])
           G == (C \ U) \ {g.dv}
<1>1. Layout(g, C, U, sz, {}) /\ DOMAIN g = Fields /\ BinnedAre(g, G, sz)
  BY DEF Sound, Shelved, Layout
<1>2. v \in G /\ sz[v] = 8 * i /\ Unlinks(g, f) /\ BinnedAre(f, G \ {v}, sz)
  <2> HIDE DEF G
  <2> QED
    BY <1>1, UnlinkFirst
<1> HIDE DEF f, v
<1>3. Layout(f, C, U, sz, {}) /\ Shelved(f, C \ (U \cup {v}), sz) /\ ~f.broken /\ f.dvsize = g.dvsize /\ v \in C \ U
  <2>1. v \in (C \ U) \ {g.dv} /\ BinnedAre(f, ((C \ U) \ {g.dv}) \ {v}, sz)
    BY <1>2
  <2>2. v \in C \ U
    BY <2>1
  <2>3. Unlinks(g, f)
    BY <1>2
  <2>4. Layout(f, C, U, sz, {})
    BY <2>1, <2>3, Unbinned
  <2>5. Shelved(f, C \ (U \cup {v}), sz)
    BY <2>1, <2>3, Unbinned
  <2> QED
    BY <2>2, <2>3, <2>4, <2>5 DEF Unlinks, Status
<1> HIDE DEF G
<1>4. i \in Nat
  BY SmallBinsAreSmall
<1>5. ASSUME nb <= 8 * i PROVE Served(FromSmallBin(g, i), U, sz, nb)
  <2>1. sz[v] >= nb
    BY <1>2, <1>4, <1>5
  <2>2. Served(Answer(set_inuse_and_pinuse(f, v, sz[v]), chunk2mem(v)), U, sz, nb)
    BY <1>3, <2>1, TakenServed
  <2> QED
    BY <1>2, <2>2 DEF FromSmallBin, f, v
<1>6. ASSUME nb + 16 <= 8 * i, g.dvsize < MIN_LARGE_SIZE PROVE Served(SplitSmallBin(g, i, nb), U, sz, nb)
  <2>1. sz[v] - nb >= 16
    BY <1>2, <1>4, <1>6
  <2>2. f.dvsize < MIN_LARGE_SIZE => Served(Answer(TakenSplit(f, v, nb, replace_dv), chunk2mem(v)), U, sz, nb)
    BY <1>3, <2>1, SplitServed
  <2> QED
    BY <1>3, <1>6, <2>2 DEF SplitSmallBin, f, v
<1> QED
  BY <1>5, <1>6

\* malloc serves a request for a small chunk, refuses it or runs into the refusal of sbrk.
LEMMA MallocSmallOutcome ==
    ASSUME NEW g, NEW C, NEW U, NEW sz, Ready(g, C, U, sz), ~g.broken,
           NEW nb \in Nat, Eight(nb), nb >= 16, nb < MIN_LARGE_SIZE, Need(nb)
    PROVE  Outcome(MallocSmall(g, nb), U, sz, nb)
<1> DEFINE at == small_index(nb)
           i == Min(SmallFits(g, at))
<1>1. at \in SmallBins /\ 8 * at = nb /\ at \in Nat
  BY SmallBin, SmallBinsAreSmall
<1> HIDE DEF at
<1>2. ASSUME SmallFits(g, at) # {}
      PROVE  Sound(g, C, U, sz) /\ i \in SmallBins /\ g.small[i] # <<>> /\ i \in Nat /\ i >= at /\ i \in SmallFits(g, at)
  <2>1. i \in SmallFits(g, at) /\ SmallFits(g, at) \subseteq Nat
    BY <1>1, <1>2, SmallFitsIs
  <2> HIDE DEF i
  <2>2. i \in SmallBins /\ g.small[i] # <<>> /\ i \in Nat /\ i >= at
    BY <2>1 DEF SmallFits
  <2>3. ~Fresh(g)
    BY <2>2, FreshBins
  <2> QED
    BY <2>1, <2>2, <2>3 DEF Ready
<1>3. g.dvsize \in Nat
  <2>1. CASE Sound(g, C, U, sz)
    <3>1. \A p \in C : sz[p] \in Nat
      BY <2>1, ChunkFacts DEF Sound, ChunkAt
    <3> QED
      BY <2>1, <3>1 DEF Sound, Shelved
  <2> QED
    BY <2>1 DEF Ready, Fresh
<1>4. Outcome(FromDvOrTop(g, nb), U, sz, nb)
  BY FromDvOrTopOutcome
<1>5. MallocSmall(g, nb) =
        IF SmallFits(g, at) \cap {at, at + 1} # {} THEN FromSmallBin(g, i)
        ELSE IF nb <= g.dvsize THEN FromDvOrTop(g, nb)
        ELSE IF SmallFits(g, at) # {} THEN SplitSmallBin(g, i, nb)
        ELSE IF LeastTree(g, 0) # -1 THEN tmalloc_small(g, nb)
        ELSE FromDvOrTop(g, nb)
  BY DEF MallocSmall, at
<1> HIDE DEF i
<1>6. CASE SmallFits(g, at) \cap {at, at + 1} # {}
  <2>1. Sound(g, C, U, sz) /\ i \in SmallBins /\ g.small[i] # <<>> /\ i \in Nat /\ i >= at
    BY <1>2, <1>6
  <2>2. nb <= 8 * i
    BY <1>1, <2>1
  <2>3. Served(FromSmallBin(g, i), U, sz, nb)
    BY <2>1, <2>2, SmallBinServed
  <2> QED
    BY <1>5, <1>6, <2>3 DEF Outcome
<1>7. CASE SmallFits(g, at) \cap {at, at + 1} = {} /\ nb <= g.dvsize
  BY <1>4, <1>5, <1>7
<1>8. CASE SmallFits(g, at) \cap {at, at + 1} = {} /\ ~(nb <= g.dvsize) /\ SmallFits(g, at) # {}
  <2>1. Sound(g, C, U, sz) /\ i \in SmallBins /\ g.small[i] # <<>> /\ i \in Nat /\ i >= at /\ i # at /\ i # at + 1
    BY <1>2, <1>8
  <2>2. nb + 16 <= 8 * i /\ g.dvsize < MIN_LARGE_SIZE
    BY <1>1, <1>3, <1>8, <2>1, LargeSizes
  <2>3. Served(SplitSmallBin(g, i, nb), U, sz, nb)
    BY <2>1, <2>2, SmallBinServed
  <2> QED
    BY <1>5, <1>8, <2>3 DEF Outcome
<1>9. CASE SmallFits(g, at) = {} /\ ~(nb <= g.dvsize) /\ LeastTree(g, 0) # -1
  <2> DEFINE j == LeastTree(g, 0)
             paths == LeftMost(g.tree[j], <<>>)
             v == SmallestAt(g, j, paths)
  <2>1. j \in TreeBins /\ DOMAIN g.tree[j] # {}
    BY <1>9, LeastTreeIs
  <2> HIDE DEF j
  <2>2. Sound(g, C, U, sz)
    BY <2>1, FreshBins DEF Ready
  <2>3. paths # {} /\ paths \subseteq DOMAIN g.tree[j]
    BY <2>1, <2>2, LeftMostIs
  <2> HIDE DEF paths
  <2>4. InBin(g, C, U, sz, j, v)
    BY <2>1, <2>2, <2>3, SmallestIn
  <2> HIDE DEF v
  <2>5. nb <= sz[v] /\ g.dvsize < MIN_LARGE_SIZE
    BY <1>3, <1>9, <2>4, LargeSizes DEF InBin
  <2>6. g.dvsize < MIN_LARGE_SIZE => Served(TreeTake(g, v, nb, replace_dv), U, sz, nb)
    BY <2>2, <2>4, <2>5, TreeTakeServed DEF InBin
  <2>7. tmalloc_small(g, nb) = TreeTake(g, v, nb, replace_dv)
    BY DEF tmalloc_small, v, paths, j
  <2>8. MallocSmall(g, nb) = tmalloc_small(g, nb)
    BY <1>5, <1>9
  <2> QED
    BY <2>5, <2>6, <2>7, <2>8 DEF Outcome
<1>10. CASE SmallFits(g, at) = {} /\ ~(nb <= g.dvsize) /\ LeastTree(g, 0) = -1
  BY <1>4, <1>5, <1>10
<1> QED
  BY <1>6, <1>7, <1>8, <1>9, <1>10

\* malloc does the same with a request for a large chunk.
LEMMA MallocLargeOutcome ==
    ASSUME NEW g, NEW C, NEW U, NEW sz, Ready(g, C, U, sz), ~g.broken,
           NEW nb \in Nat, Eight(nb), nb >= MIN_LARGE_SIZE, Need(nb)
    PROVE  Outcome(MallocLarge(g, nb), U, sz, nb)
<1> DEFINE v == tree_fit(g, nb)
<1>1. nb < Modulus /\ nb >= 16 /\ Modulus \in Nat
  BY LargeSizes, Limits DEF Need
<1>2. MallocLarge(g, nb) =
        IF v # 0 /\ chunksize(g, v) - nb < Wrap(g.dvsize - nb) THEN TreeTake(g, v, nb, insert_chunk)
        ELSE FromDvOrTop(g, nb)
  BY DEF MallocLarge, Then
<1>3. Outcome(FromDvOrTop(g, nb), U, sz, nb)
  BY FromDvOrTopOutcome
<1>4. ASSUME v # 0 PROVE Outcome(TreeTake(g, v, nb, insert_chunk), U, sz, nb)
  <2>1. Sound(g, C, U, sz)
    <3>1. Fresh(g) => tree_fit(g, nb) = 0
      <4> SUFFICES ASSUME Fresh(g) PROVE tree_fit(g, nb) = 0
        OBVIOUS
      <4> DEFINE i == compute_tree_index(nb)
                 here == Fits(g, i, OnWay(g, i, nb) \cup Untaken(g, i, nb), nb)
                 next == LeastTree(g, i + 1)
      <4>1. \A j \in TreeBins : DOMAIN g.tree[j] = {}
        BY FreshBins
      <4>2. i \in TreeBins
        BY <1>1, TreeIndex DEF Ranged
      <4> HIDE DEF i
      <4>3. i \in Nat /\ DOMAIN g.tree[i] = {}
        BY <4>1, <4>2 DEF TreeBins
      <4>4. OnWay(g, i, nb) = {} /\ Untaken(g, i, nb) = {}
        BY <4>3 DEF OnWay, Untaken
      <4>5. here = {}
        BY <4>4 DEF Fits
      <4>6. next = -1
        BY <4>1, <4>3, LeastTreeIs
      <4> HIDE DEF here, next
      <4> QED
        BY <4>5, <4>6 DEF tree_fit, here, next, i
    <3> QED
      BY <1>4, <3>1 DEF Ready
  <2>2. (\E i : InBin(g, C, U, sz, i, v)) /\ sz[v] >= nb
    BY <1>1, <1>4, <2>1, TreeFitIs
  <2> HIDE DEF v
  <2>3. Served(TreeTake(g, v, nb, insert_chunk), U, sz, nb)
    BY <1>1, <2>1, <2>2, TreeTakeServed DEF InBin
  <2> QED
    BY <2>3 DEF Outcome
<1> QED
  BY <1>2, <1>3, <1>4

\* A request for a small chunk is far from the end of size_t.
LEMMA RoomForLarge == MIN_LARGE_SIZE + 48 <= Modulus
<1>1. TREEBIN_SHIFT \in Nat /\ SizeBits \in Nat /\ NTREEBINS \in Nat /\ NTREEBINS # 0 /\ NTREEBINS % 2 = 0
      /\ SizeBits >= TREEBIN_SHIFT + NTREEBINS \div 2
  BY HeapAssumption
<1>2. PICK a \in Nat, b \in {0, 1} : NTREEBINS = 2 * a + b /\ NTREEBINS \div 2 = a /\ NTREEBINS % 2 = b
  BY <1>1, Half
<1>3. NTREEBINS \div 2 >= 1
  BY <1>1, <1>2
<1>4. TREEBIN_SHIFT + 1 <= SizeBits
  BY <1>1, <1>2, <1>3
<1>5. Two[TREEBIN_SHIFT + 1] <= Two[SizeBits] /\ Two[TREEBIN_SHIFT + 1] = 2 * Two[TREEBIN_SHIFT]
  BY <1>1, <1>4, TwoGrows, Powers
<1>6. 2 * MIN_LARGE_SIZE <= Modulus
  BY <1>5 DEF MIN_LARGE_SIZE, Modulus
<1>7. MIN_LARGE_SIZE \in Nat /\ Modulus \in Nat /\ Modulus >= 256
  BY LargeSizes
<1> QED
  BY <1>6, <1>7

\* malloc, on any heap between two calls, gives a chunk of its own that is large enough,
\* or refuses, or runs into the refusal of sbrk.
LEMMA MallocOutcome ==
    ASSUME NEW g, NEW C, NEW U, NEW sz, Ready(g, C, U, sz), ~g.broken, NEW bytes \in Nat
    PROVE  Outcome(dlmalloc(g, bytes), U, sz, bytes + 4)
<1>1. Modulus \in Nat /\ MAX_REQUEST = Modulus - 64 /\ MAX_SIZE_T = Modulus - 1 /\ Modulus >= 256 /\ Eight(Modulus)
      /\ MIN_LARGE_SIZE \in Nat /\ MIN_LARGE_SIZE <= Modulus
  BY LargeSizes, Limits
<1> DEFINE nb == request2size(bytes)
           pb == pad_request(bytes)
<1>2. /\ pb \in Nat /\ Eight(pb) /\ pb >= bytes + 4 /\ pb <= bytes + 11
      /\ nb \in Nat /\ Eight(nb) /\ nb >= 16 /\ nb >= bytes + 4 /\ nb <= bytes + 16
      /\ bytes <= MAX_SMALL_REQUEST => nb < MIN_LARGE_SIZE
      /\ bytes > MAX_SMALL_REQUEST => pb >= MIN_LARGE_SIZE
  BY Pads
<1>3. MAX_SMALL_REQUEST \in Int
  BY <1>1 DEF MAX_SMALL_REQUEST, CHUNK_OVERHEAD
<1>4. CASE bytes <= MAX_SMALL_REQUEST
  <2>1. Need(nb)
    <3>1. MIN_LARGE_SIZE + 48 <= Modulus
      BY RoomForLarge
    <3>2. nb < MIN_LARGE_SIZE /\ Eight(MIN_LARGE_SIZE)
      BY <1>2, <1>4, LargeSizes
    <3> HIDE DEF nb
    <3>3. nb + 8 <= MIN_LARGE_SIZE
      BY <1>1, <1>2, <3>2, EightSteps
    <3> QED
      BY <1>1, <1>2, <3>1, <3>3 DEF Need
  <2> HIDE DEF nb
  <2>2. Outcome(MallocSmall(g, nb), U, sz, nb)
    BY <1>2, <1>4, <2>1, MallocSmallOutcome
  <2>3. Outcome(MallocSmall(g, nb), U, sz, bytes + 4)
    BY <1>2, <2>2, ServedLess DEF Outcome
  <2> QED
    BY <1>4, <2>3 DEF dlmalloc, nb
<1>5. CASE ~(bytes <= MAX_SMALL_REQUEST) /\ bytes >= MAX_REQUEST
  <2>1. Outcome(FromDvOrTop(g, MAX_SIZE_T), U, sz, MAX_SIZE_T)
    BY FromDvOrTopOutcome DEF Need
  <2>2. ~Served(FromDvOrTop(g, MAX_SIZE_T), U, sz, MAX_SIZE_T)
    <3> DEFINE f == FromDvOrTop(g, MAX_SIZE_T)
    <3> HIDE DEF f
    <3> SUFFICES ASSUME Served(f, U, sz, MAX_SIZE_T) PROVE FALSE
      BY DEF f
    <3>1. PICK D, s, r : Sound(f, D, U \cup {r}, s) /\ s[r] >= MAX_SIZE_T
      BY DEF Served
    <3>2. r \in D /\ Layout(f, D, U \cup {r}, s, {})
      BY <3>1 DEF Sound, Layout, Parted
    <3>3. ChunkAt(f, D, U \cup {r}, s, r)
      BY <3>2, ChunkFacts
    <3> QED
      BY <1>1, <3>1, <3>3 DEF ChunkAt
  <2> QED
    BY <1>5, <2>1, <2>2 DEF dlmalloc, Outcome
<1>6. CASE ~(bytes <= MAX_SMALL_REQUEST) /\ ~(bytes >= MAX_REQUEST)
  <2>1. Need(pb) /\ pb >= MIN_LARGE_SIZE
    <3>1. pb < Modulus - 48 /\ Eight(48) /\ Eight(Modulus - 48) /\ Modulus - 48 \in Nat
      BY <1>1, <1>2, <1>6, Eights DEF Eight
    <3>2. pb + 8 <= Modulus - 48
      <4> DEFINE m == Modulus - 48
      <4> HIDE DEF m, pb
      <4>1. m \in Nat /\ Eight(m) /\ pb < m /\ pb \in Nat /\ Eight(pb)
        BY <1>2, <3>1 DEF m
      <4>2. pb + 8 <= m
        BY <4>1, EightSteps
      <4> QED
        BY <4>2 DEF m
    <3>3. pb >= MIN_LARGE_SIZE /\ pb >= 16
      BY <1>2, <1>3, <1>6, LargeSizes
    <3> QED
      BY <1>1, <1>2, <3>2, <3>3 DEF Need
  <2> HIDE DEF pb
  <2>2. Outcome(MallocLarge(g, pb), U, sz, pb)
    BY <1>2, <2>1, MallocLargeOutcome
  <2>3. Outcome(MallocLarge(g, pb), U, sz, bytes + 4)
    BY <1>2, <2>2, ServedLess DEF Outcome
  <2> QED
    BY <1>6, <2>3 DEF dlmalloc, pb
<1> QED
  BY <1>4, <1>5, <1>6

-----------------------------------------------------------------------------
(* Offsets of elements. *)

\* Where the elements of a group begin.
Summed(f, sizes, j) == IF j = 1 THEN 0 ELSE f[j - 1] + request2size(sizes[j - 1])

\* There is such a function, so that Offset is what its recursion says.
LEMMA OffsetUnfolds ==
    ASSUME NEW sizes, Len(sizes) \in Nat
    PROVE  Offset(sizes, 1) = 0 /\ \A i \in 1 .. Len(sizes) : Offset(sizes, i + 1) = Offset(sizes, i) + request2size(sizes[i])
<1> DEFINE n == Len(sizes) + 1
           Upto(f, k) == \A j \in 1 .. n : j <= k => f[j] = Summed(f, sizes, j)
           S == {k \in Nat : \E f : Upto(f, k)}
           e == CHOOSE f : f = [j \in 1 .. n |-> Summed(f, sizes, j)]
<1>0. n \in Nat /\ n >= 1 /\ n - 1 = Len(sizes)
  OBVIOUS
<1>1. ASSUME NEW k \in Nat, \A m \in Nat : m < k => m \in S
      PROVE  k \in S
  <2> HIDE DEF n
  <2>1. CASE k = 0
    <3>1. Upto(<<>>, k)
      BY <1>0, <2>1
    <3> QED
      BY <3>1
  <2>2. CASE k # 0
    <3>0. k - 1 \in Nat /\ k - 1 < k
      BY <2>2
    <3>7. k - 1 \in S
      BY <1>1, <3>0
    <3>1. PICK f : Upto(f, k - 1)
      BY <3>7
    <3> DEFINE g == [j \in 1 .. n |-> IF j < k THEN f[j] ELSE Summed(f, sizes, j)]
    <3>2. \A j \in 1 .. n : j <= k => g[j] = Summed(g, sizes, j)
      <4> SUFFICES ASSUME NEW j \in 1 .. n, j <= k PROVE g[j] = Summed(g, sizes, j)
        OBVIOUS
      <4>1. g[j] = Summed(f, sizes, j)
        BY <2>2, <3>1, <1>0
      <4>2. j # 1 => j - 1 \in 1 .. n /\ j - 1 < k
        BY <1>0
      <4>3. j # 1 => g[j - 1] = f[j - 1]
        BY <4>2
      <4> HIDE DEF g
      <4> QED
        BY <4>1, <4>3 DEF Summed
    <3> HIDE DEF g
    <3>3. Upto(g, k)
      BY <3>2
    <3> QED
      BY <3>3
  <2> QED
    BY <2>1, <2>2
<1>2. S = Nat
  <2> HIDE DEF S
  <2>1. S \in SUBSET Nat
    BY DEF S
  <2> QED
    BY <1>1, <2>1, All
<1> HIDE DEF n
<1>3. PICK f : Upto(f, n)
  BY <1>0, <1>2
<1> DEFINE g == [j \in 1 .. n |-> f[j]]
<1>4. g = [j \in 1 .. n |-> Summed(g, sizes, j)]
  <2> SUFFICES ASSUME NEW j \in 1 .. n PROVE f[j] = Summed(g, sizes, j)
    OBVIOUS
  <2>1. f[j] = Summed(f, sizes, j)
    BY <1>0, <1>3
  <2>2. j # 1 => g[j - 1] = f[j - 1]
    BY <1>0
  <2> HIDE DEF g
  <2> QED
    BY <2>1, <2>2 DEF Summed
<1> HIDE DEF g
<1>5. e = [j \in 1 .. n |-> Summed(e, sizes, j)]
  BY <1>4
<1>6. \A i : Offset(sizes, i) = e[i]
  BY DEF Offset, Summed, n
<1> HIDE DEF e
<1>7. \A j \in 1 .. n : e[j] = Summed(e, sizes, j)
  BY <1>5
<1>8. Offset(sizes, 1) = 0
  BY <1>0, <1>6, <1>7 DEF Summed
<1>9. ASSUME NEW i \in 1 .. Len(sizes) PROVE Offset(sizes, i + 1) = Offset(sizes, i) + request2size(sizes[i])
  <2>1. i + 1 \in 1 .. n /\ i + 1 # 1 /\ (i + 1) - 1 = i
    BY <1>0
  <2>2. e[i + 1] = Summed(e, sizes, i + 1)
    BY <1>7, <2>1
  <2> QED
    BY <1>6, <2>1, <2>2 DEF Summed
<1> QED
  BY <1>8, <1>9

\* Each element has room for its request, and those behind it lie behind its end.
OffsetsAre(sizes, j) ==
    /\ Offset(sizes, j) \in Nat /\ Eight(Offset(sizes, j))
    /\ \A i \in 1 .. j - 1 : Offset(sizes, i) \in Nat /\ Offset(sizes, i) + request2size(sizes[i]) <= Offset(sizes, j)

\* The offsets of ialloc's elements are the sums of the sizes before them.
LEMMA Offsets ==
    ASSUME NEW sizes \in Seq(Nat)
    PROVE  \A j \in 1 .. Len(sizes) + 1 : OffsetsAre(sizes, j)
<1> DEFINE n == Len(sizes)
           S == {j \in Nat : j \in 1 .. n + 1 => OffsetsAre(sizes, j)}
<1>0. n \in Nat /\ \A i \in 1 .. n : sizes[i] \in Nat
  OBVIOUS
<1>1. Offset(sizes, 1) = 0 /\ \A i \in 1 .. n : Offset(sizes, i + 1) = Offset(sizes, i) + request2size(sizes[i])
  BY <1>0, OffsetUnfolds
<1> HIDE DEF n
<1>2. ASSUME NEW j \in Nat, \A m \in Nat : m < j => m \in S
      PROVE  j \in S
  <2> SUFFICES ASSUME j \in 1 .. n + 1 PROVE OffsetsAre(sizes, j)
    BY DEF n
  <2>1. CASE j = 1
    BY <1>1, <2>1 DEF OffsetsAre, Eight
  <2>2. CASE j # 1
    <3> DEFINE k == j - 1
               r == request2size(sizes[k])
    <3>1. k \in Nat /\ k < j /\ k \in 1 .. n /\ k \in 1 .. n + 1 /\ k + 1 = j
      BY <1>0, <2>2
    <3>2. OffsetsAre(sizes, k)
      BY <1>2, <3>1
    <3>3. r \in Nat /\ Eight(r) /\ Offset(sizes, j) = Offset(sizes, k) + r
      <4>1. sizes[k] \in Nat
        BY <1>0, <3>1
      <4> QED
        BY <1>1, <3>1, <4>1, Pads
    <3>4. Offset(sizes, k) \in Nat /\ Eight(Offset(sizes, k))
      BY <3>2 DEF OffsetsAre
    <3>5. Offset(sizes, j) \in Nat /\ Eight(Offset(sizes, j))
      <4> DEFINE o == Offset(sizes, k)
      <4>1. o \in Nat /\ Eight(o) /\ r \in Nat /\ Eight(r) /\ Offset(sizes, j) = o + r
        BY <3>3, <3>4
      <4> HIDE DEF r, o
      <4>2. o + r \in Nat /\ Eight(o + r)
        BY <4>1, Eights
      <4> QED
        BY <4>1, <4>2
    <3>6. ASSUME NEW i \in 1 .. j - 1
          PROVE  Offset(sizes, i) \in Nat /\ Offset(sizes, i) + request2size(sizes[i]) <= Offset(sizes, j)
      <4>1. CASE i = k
        BY <3>3, <3>4, <4>1
      <4>2. CASE i # k
        <5>1. i \in 1 .. k - 1 /\ i \in 1 .. n
          BY <1>0, <3>1, <4>2
        <5>2. Offset(sizes, i) \in Nat /\ Offset(sizes, i) + request2size(sizes[i]) <= Offset(sizes, k)
          BY <3>2, <5>1 DEF OffsetsAre
        <5>3. request2size(sizes[i]) \in Nat
          BY <1>0, <5>1, Pads
        <5> QED
          BY <3>3, <3>4, <5>2, <5>3
      <4> QED
        BY <4>1, <4>2
    <3> QED
      BY <3>5, <3>6 DEF OffsetsAre
  <2> QED
    BY <2>1, <2>2
<1>3. S = Nat
  <2> HIDE DEF S
  <2>1. S \in SUBSET Nat
    BY DEF S
  <2> QED
    BY <1>2, <2>1, All
<1>4. ASSUME NEW j \in 1 .. n + 1 PROVE OffsetsAre(sizes, j)
  <2>1. j \in S
    BY <1>0, <1>3
  <2> QED
    BY <2>1
<1> QED
  BY <1>4 DEF n

-----------------------------------------------------------------------------
(* A chunk cut in pieces. *)

\* What users store in their chunks leaves the layout as it is: a user's memory is from
\* behind the head up to and with the foot.
LEMMA LayoutUser ==
    ASSUME NEW g, NEW C, NEW U, NEW sz, Layout(g, C, U, sz, {}),
           NEW f, DOMAIN f = Fields, Tops(g, f),
           \A a \in Nat : (\A p \in U : a < p + 8 \/ a >= p + sz[p] + 4) => Word(f, a) = Word(g, a)
    PROVE  Layout(f, C, U, sz, {})
<1>1. Tiled(C, sz, g.top) /\ Spaced(C, sz, g.top) /\ TopAt(g, C) /\ U \subseteq C
  BY TopFacts, Gaps DEF Layout, Parted
<1>2. \A a \in Heads(C, g.top, g.top + g.topsize) : Word(f, a) = Word(g, a)
  <2> SUFFICES ASSUME NEW q \in C \cup {g.top, g.top + g.topsize} PROVE Word(f, q + 4) = Word(g, q + 4)
    BY DEF Heads
  <2>1. q \in Nat /\ q + 4 \in Nat
    BY <1>1 DEF Spaced, TopAt
  <2>2. ASSUME NEW p \in U PROVE q + 4 < p + 8 \/ q + 4 >= p + sz[p] + 4
    <3>1. p \in C /\ p \in Nat /\ sz[p] \in Nat /\ p + sz[p] <= g.top /\ p < g.top
      BY <1>1 DEF Spaced
    <3>2. q <= p \/ q >= p + sz[p]
      <4>1. CASE q \in C
        BY <1>1, <2>1, <3>1, <4>1 DEF Tiled
      <4>2. CASE q \in {g.top, g.top + g.topsize}
        BY <1>1, <3>1, <4>2 DEF TopAt
      <4> QED
        BY <4>1, <4>2
    <3> QED
      BY <2>1, <3>1, <3>2
  <2> QED
    BY <2>1, <2>2
<1>3. \A a \in Feet(C \ (U \cup {}), sz) : Word(f, a) = Word(g, a)
  <2> SUFFICES ASSUME NEW q \in C \ U PROVE Word(f, q + sz[q]) = Word(g, q + sz[q])
    BY DEF Feet
  <2>1. q \in Nat /\ sz[q] \in Nat /\ q + sz[q] \in Nat
    BY <1>1 DEF Spaced
  <2>2. ASSUME NEW p \in U PROVE q + sz[q] < p + 8 \/ q + sz[q] >= p + sz[p] + 4
    <3>1. p \in C /\ p # q /\ p \in Nat /\ sz[p] \in Nat
      BY <1>1 DEF Spaced
    <3>2. CASE q < p
      <4>1. q + sz[q] <= p
        BY <1>1, <3>1, <3>2 DEF Tiled
      <4> QED
        BY <2>1, <3>1, <4>1
    <3>3. CASE p < q
      <4>1. p + sz[p] <= q /\ sz[q] >= 16
        BY <1>1, <3>1, <3>3 DEF Tiled, Spaced
      <4> QED
        BY <2>1, <3>1, <4>1
    <3> QED
      BY <2>1, <3>1, <3>2, <3>3
  <2> QED
    BY <2>1, <2>2
<1> QED
  BY <1>2, <1>3, LayoutSame

\* A chunk in use from x to e is cut where the members of P are, into chunks in use.
Pieces(P, t, x, e) ==
    /\ x \in P
    /\ \A p \in P : /\ p \in Nat /\ Eight(p) /\ x <= p /\ t[p] \in Nat /\ Eight(t[p]) /\ t[p] >= 16
                    /\ p + t[p] \in P \cup {e} /\ p + t[p] <= e
    /\ \A p, q \in P : p < q => p + t[p] <= q
    /\ \A p \in P \cup {e} : p # x => \E q \in P : q + t[q] = p
CutSizes(sz, C, P, t) == [p \in C \cup P |-> IF p \in P THEN t[p] ELSE sz[p]]
CutWords(g, f, P, t) ==
    /\ \A p \in P : Word(f, p + 4) = HeadWord(t[p], TRUE, TRUE)
    /\ \A a : (\A p \in P : a # p + 4) => Word(f, a) = Word(g, a)

\* The pieces tile memory where the chunk did.
LEMMA TiledCut ==
    ASSUME NEW C, NEW sz, NEW top, Tiled(C, sz, top), NEW x \in C, NEW P, NEW t, Pieces(P, t, x, x + sz[x])
    PROVE  /\ Tiled(C \cup P, CutSizes(sz, C, P, t), top)
           /\ \A p \in C : p \in P => p = x
           /\ \A p \in P : p \in Nat /\ x <= p /\ p < x + sz[x]
<1> DEFINE e == x + sz[x]
           D == C \cup P
           s == CutSizes(sz, C, P, t)
<1>1. Spaced(C, sz, top)
  BY Gaps
<1>2. x \in Nat /\ e \in Nat /\ e \in C \cup {top} /\ e <= top /\ sz[x] \in Nat /\ top \in Nat /\ sz[x] >= 16
  BY <1>1 DEF Spaced
<1>3. /\ x \in P
      /\ \A p \in P : /\ p \in Nat /\ Eight(p) /\ x <= p /\ t[p] \in Nat /\ Eight(t[p]) /\ t[p] >= 16
                      /\ p + t[p] \in P \cup {e} /\ p + t[p] <= e
      /\ \A p, q \in P : p < q => p + t[p] <= q
      /\ \A p \in P \cup {e} : p # x => \E q \in P : q + t[q] = p
  BY DEF Pieces
<1>4. /\ top \in Nat /\ Eight(top) /\ Base <= top /\ Base \in C \cup {top}
      /\ \A p \in C : /\ p \in Nat /\ Eight(p) /\ Base <= p
                      /\ sz[p] \in Nat /\ Eight(sz[p]) /\ sz[p] >= 16
                      /\ p + sz[p] \in C \cup {top} /\ p + sz[p] <= top
      /\ \A p, q \in C : p < q => p + sz[p] <= q
      /\ \A p \in C \cup {top} : p # Base => \E q \in C : q + sz[q] = p
  BY DEF Tiled, MIN_CHUNK_SIZE
<1>5. e = x + sz[x] /\ \A q \in C : x < q => e <= q
  BY <1>4
<1> HIDE DEF e
<1>6. \A p \in P : p \in Nat /\ x <= p /\ p < e
  BY <1>2, <1>3
<1>7. \A p \in C : p \in P => p = x
  BY <1>2, <1>4, <1>5, <1>6
<1>8. \A p \in P : s[p] = t[p] /\ p \in D
  BY DEF CutSizes
<1>9. \A p \in C : p # x => s[p] = sz[p] /\ p \in D /\ p \notin P
  BY <1>7 DEF CutSizes
<1> HIDE DEF s
<1>10. Base <= x /\ Base \in D \cup {top} /\ Base \in Nat
  BY <1>4, HeapAssumption
<1>11. ASSUME NEW p \in D
       PROVE  /\ p \in Nat /\ Eight(p) /\ Base <= p /\ s[p] \in Nat /\ Eight(s[p]) /\ s[p] >= 16
              /\ p + s[p] \in D \cup {top} /\ p + s[p] <= top
  <2>1. CASE p \in P
    <3>1. p \in Nat /\ Eight(p) /\ x <= p /\ t[p] \in Nat /\ Eight(t[p]) /\ t[p] >= 16
          /\ p + t[p] \in P \cup {e} /\ p + t[p] <= e /\ s[p] = t[p]
      BY <1>3, <1>8, <2>1
    <3> QED
      BY <1>2, <1>10, <3>1
  <2>2. CASE p \in C /\ p # x
    BY <1>4, <1>9, <2>2
  <2> QED
    BY <1>3, <2>1, <2>2
<1>12. ASSUME NEW p \in D, NEW q \in D, p < q PROVE p + s[p] <= q
  <2>1. CASE p \in P /\ q \in P
    BY <1>3, <1>8, <2>1, <1>12
  <2>2. CASE p \in P /\ q \in C /\ q # x
    <3>1. p \in Nat /\ q \in Nat /\ x <= p /\ t[p] \in Nat /\ p + t[p] <= e /\ s[p] = t[p]
      BY <1>3, <1>4, <1>8, <2>2
    <3>2. x < q
      BY <1>2, <1>12, <3>1
    <3>3. e <= q
      BY <1>5, <2>2, <3>2
    <3> QED
      BY <1>2, <3>1, <3>3
  <2>3. CASE p \in C /\ p # x /\ q \in P
    <3>1. p \in Nat /\ q \in Nat /\ x <= q /\ q < e /\ s[p] = sz[p] /\ sz[p] \in Nat
      BY <1>4, <1>6, <1>9, <2>3
    <3>2. p < x
      <4>1. x < p => e <= p
        BY <1>5, <2>3
      <4> QED
        BY <1>2, <1>12, <2>3, <3>1, <4>1
    <3>3. p + sz[p] <= x
      BY <1>4, <2>3, <3>2
    <3> QED
      BY <1>2, <3>1, <3>3
  <2>4. CASE p \in C /\ p # x /\ q \in C /\ q # x
    BY <1>4, <1>9, <1>12, <2>4
  <2> QED
    BY <1>3, <2>1, <2>2, <2>3, <2>4
<1>13. ASSUME NEW p \in D \cup {top}, p # Base PROVE \E q \in D : q + s[q] = p
  <2>1. CASE p \in P /\ p # x
    BY <1>3, <1>8, <2>1
  <2>2. CASE p \in C \cup {top}
    <3>1. PICK q \in C : q + sz[q] = p
      BY <1>4, <1>13, <2>2
    <3>2. CASE q # x
      BY <1>9, <3>1, <3>2
    <3>3. CASE q = x
      <4>1. p = e /\ e # x
        BY <1>2, <1>5, <3>1, <3>3
      <4>2. PICK r \in P : r + t[r] = e
        BY <1>3, <4>1
      <4> QED
        BY <1>8, <4>1, <4>2
    <3> QED
      BY <3>2, <3>3
  <2> QED
    BY <1>3, <2>1, <2>2
<1>14. Tiled(D, s, top)
  <2> HIDE DEF D
  <2> QED
    BY <1>4, <1>10, <1>11, <1>12, <1>13 DEF Tiled, MIN_CHUNK_SIZE
<1> QED
  BY <1>6, <1>7, <1>14 DEF s, e

\* Writing their heads leaves a layout in which all of them are in use.
LEMMA LayoutCut ==
    ASSUME NEW g, NEW C, NEW U, NEW sz, Layout(g, C, U, sz, {}), NEW x \in U, Word(g, x + 4).pinuse,
           NEW P, NEW t, Pieces(P, t, x, x + sz[x]),
           NEW f, DOMAIN f = Fields, Tops(g, f), CutWords(g, f, P, t)
    PROVE  Layout(f, C \cup P, U \cup P, CutSizes(sz, C, P, t), {})
<1> DEFINE e == x + sz[x]
           D == C \cup P
           V == U \cup P
           s == CutSizes(sz, C, P, t)
           top == g.top
<1>1. Tiled(C, sz, top) /\ Parted(C, U, sz, {}) /\ Stored(g, C, U, sz, {}) /\ Topped(g) /\ TopAt(g, C)
  BY TopFacts DEF Layout
<1>2. Spaced(C, sz, top) /\ x \in C /\ U \subseteq C
  BY <1>1, Gaps DEF Parted
<1>3. /\ Tiled(D, s, top) /\ \A p \in C : p \in P => p = x
      /\ \A p \in P : p \in Nat /\ x <= p /\ p < e
  <2> HIDE DEF top
  <2> QED
    BY <1>1, <1>2, TiledCut
<1>4. Spaced(D, s, top)
  BY <1>3, Gaps
<1>5. /\ x \in P /\ \A p \in P : p + t[p] \in P \cup {e} /\ p + t[p] <= e
      /\ \A p \in P \cup {e} : p # x => \E q \in P : q + t[q] = p
  BY DEF Pieces
<1>6. /\ \A p \in P : Word(f, p + 4) = HeadWord(t[p], TRUE, TRUE)
      /\ \A a : (\A p \in P : a # p + 4) => Word(f, a) = Word(g, a)
  BY DEF CutWords
<1>7. \A p \in P : s[p] = t[p] /\ p \in D
  BY DEF CutSizes
<1>8. \A p \in C : p # x => s[p] = sz[p] /\ p \in D /\ p \notin P
  BY <1>3 DEF CutSizes
<1> HIDE DEF s
<1>9. e \in C \cup {top} /\ e = x + sz[x] /\ e \in Nat /\ x \in Nat /\ x < e /\ e <= top /\ top \in Nat
  BY <1>2 DEF Spaced
<1>10. e \notin P
  BY <1>3, <1>9
<1> HIDE DEF e
<1>11. \A p \in P : /\ IsHead(f, p) /\ Word(f, p + 4).size = t[p]
                     /\ Word(f, p + 4).cinuse /\ Word(f, p + 4).pinuse
  <2> TAKE p \in P
  <2>1. Word(f, p + 4) = HeadWord(t[p], TRUE, TRUE)
    BY <1>6
  <2> QED
    BY <2>1 DEF IsHead, HeadWord
<1>12. ASSUME NEW p \in C \cup {top}, p \notin P
       PROVE  Word(f, p + 4) = Word(g, p + 4) /\ (IsHead(f, p) <=> IsHead(g, p))
  <2>1. p \in Nat
    BY <1>2 DEF Spaced
  <2>2. \A q \in P : p + 4 # q + 4
    BY <1>3, <1>12, <2>1
  <2> QED
    BY <1>6, <2>2 DEF IsHead
<1>13. Parted(D, V, s, {})
  <2>1. ASSUME NEW p \in D \ (V \cup {}) PROVE p + s[p] \in V
    <3>1. p \in C \ (U \cup {}) /\ p # x
      OBVIOUS
    <3> QED
      BY <1>1, <1>8, <3>1 DEF Parted
  <2> QED
    BY <1>2, <2>1 DEF Parted
<1>14. HeadsAre(f, D, V, s)
  <2> SUFFICES ASSUME NEW p \in D
               PROVE  IsHead(f, p) /\ Word(f, p + 4).size = s[p] /\ (Word(f, p + 4).cinuse <=> p \in V)
    BY DEF HeadsAre
  <2>1. CASE p \in P
    BY <1>7, <1>11, <2>1
  <2>2. CASE p \notin P
    <3>1. IsHead(g, p) /\ Word(g, p + 4).size = sz[p] /\ (Word(g, p + 4).cinuse <=> p \in U)
      BY <1>1, <2>2 DEF Stored, HeadsAre
    <3> QED
      BY <1>5, <1>8, <1>12, <2>2, <3>1
  <2> QED
    BY <2>1, <2>2
<1>15. NextsAre(f, D, V, s)
  <2> SUFFICES ASSUME NEW p \in D
               PROVE  IsHead(f, p + s[p]) /\ (Word(f, p + s[p] + 4).pinuse <=> p \in V)
    BY DEF NextsAre
  <2>1. CASE p \in P
    <3>1. CASE p + t[p] \in P
      BY <1>7, <1>11, <2>1, <3>1
    <3>2. CASE p + t[p] = e
      <4>1. IsHead(g, e) /\ (Word(g, e + 4).pinuse <=> x \in U)
        BY <1>1, <1>2, <1>9 DEF Stored, NextsAre
      <4> QED
        BY <1>7, <1>9, <1>10, <1>12, <2>1, <3>2, <4>1
    <3> QED
      BY <1>5, <2>1, <3>1, <3>2
  <2>2. CASE p \notin P
    <3>1. p \in C /\ p # x /\ s[p] = sz[p]
      BY <1>5, <1>8, <2>2
    <3>2. IsHead(g, p + sz[p]) /\ (Word(g, p + sz[p] + 4).pinuse <=> p \in U) /\ p + sz[p] \in C \cup {top}
      BY <1>1, <1>2, <3>1 DEF Stored, NextsAre, Spaced
    <3>3. CASE p + sz[p] \in P
      <4>1. p + sz[p] = x
        BY <1>3, <1>9, <3>2, <3>3
      <4> QED
        BY <1>5, <1>11, <3>1, <3>2, <4>1
    <3>4. CASE p + sz[p] \notin P
      BY <1>12, <2>2, <3>1, <3>2, <3>4
    <3> QED
      BY <3>3, <3>4
  <2> QED
    BY <2>1, <2>2
<1>16. FeetAre(f, D \ (V \cup {}), s)
  <2> SUFFICES ASSUME NEW p \in D \ V PROVE Word(f, p + s[p]) = Foot(s[p])
    BY DEF FeetAre
  <2>1. p \in C \ (U \cup {}) /\ p # x /\ s[p] = sz[p] /\ p + s[p] \in D \cup {top}
    BY <1>4, <1>8 DEF Spaced
  <2>2. Word(g, p + sz[p]) = Foot(sz[p])
    BY <1>1, <2>1 DEF Stored, FeetAre
  <2>3. \A q \in P : p + s[p] # q + 4
    <3> SUFFICES ASSUME NEW q \in P, p + s[p] = q + 4 PROVE FALSE
      OBVIOUS
    <3>1. q \in Nat /\ q \in D \cup {top} /\ q < p + s[p]
      BY <1>3
    <3>2. q + 16 <= p + s[p]
      BY <1>4, <2>1, <3>1 DEF Spaced
    <3> QED
      BY <3>1, <3>2
  <2> QED
    BY <1>6, <2>1, <2>2, <2>3
<1>17. IsHead(f, Base) /\ Word(f, Base + 4).pinuse
  <2>1. IsHead(g, Base) /\ Word(g, Base + 4).pinuse /\ Base \in C \cup {top}
    BY <1>1 DEF Stored, Tiled
  <2>2. CASE Base \in P
    BY <1>11, <2>2
  <2>3. CASE Base \notin P
    BY <1>12, <2>1, <2>3
  <2> QED
    BY <2>2, <2>3
<1>18. Topped(f)
  <2>1. top \notin P /\ Word(f, top + 4) = Word(g, top + 4) /\ (IsHead(f, top) <=> IsHead(g, top))
    <3>1. top \notin P
      BY <1>3, <1>9
    <3> QED
      BY <1>12, <3>1
  <2>2. Word(f, top + g.topsize + 4) = Word(g, top + g.topsize + 4) /\ g.topsize \in Nat
    <3>1. \A q \in P : top + g.topsize + 4 # q + 4
      BY <1>1, <1>3, <1>9 DEF Topped
    <3> QED
      BY <1>1, <1>6, <3>1 DEF Topped
  <2>3. IsHead(f, top + g.topsize) <=> IsHead(g, top + g.topsize)
    BY <2>2 DEF IsHead
  <2> QED
    BY <1>1, <2>1, <2>2, <2>3 DEF Topped, Tops
<1>19. Layout(f, D, V, s, {})
  <2>1. f.top = top /\ D \ {} = D
    BY DEF Tops
  <2>2. Stored(f, D, V, s, {})
    <3> HIDE DEF D, V
    <3> QED
      BY <1>14, <1>15, <1>16, <1>17, <2>1 DEF Stored
  <2> HIDE DEF D, V, top
  <2> QED
    BY <1>3, <1>13, <1>18, <2>1, <2>2 DEF Layout
<1> QED
  BY <1>19 DEF D, V, s

-----------------------------------------------------------------------------
(* What is written into blocks; malloc and calloc return. *)

\* A user writes to a chunk in use.
UserWords(g, U, sz, f) ==
    DOMAIN f = Fields /\ Tops(g, f) /\ Bins(g, f)
    /\ \A a \in Nat : (\A p \in U : a < p + 8 \/ a >= p + sz[p] + 4) => Word(f, a) = Word(g, a)

\* What the user writes into a chunk in use leaves the heap sound.
LEMMA UserSound ==
    ASSUME NEW g, NEW C, NEW U, NEW sz, Sound(g, C, U, sz), NEW f, UserWords(g, U, sz, f)
    PROVE  Sound(f, C, U, sz)
<1>1. Layout(f, C, U, sz, {})
  BY LayoutUser DEF Sound, UserWords
<1> QED
  BY <1>1 DEF Sound, Shelved, BinnedAre, UserWords, Bins

\* So does writing several of its words at once.
LEMMA OverUser ==
    ASSUME NEW g, NEW C, NEW U, NEW sz, Sound(g, C, U, sz), NEW p \in U, NEW n \in Nat, n + 4 <= sz[p],
           NEW new, DOMAIN new = Inside(p + 8, n)
    PROVE  LET f == [g EXCEPT !.mem = Over(new, @)] IN Sound(f, C, U, sz) /\ Status(g, f)
<1> DEFINE f == [g EXCEPT !.mem = Over(new, g.mem)]
<1>1. DOMAIN g = Fields /\ p \in C
  BY DEF Sound, Layout, Parted
<1>2. MemoryOnly(g, f) /\ f.mem = Over(new, g.mem)
  BY <1>1, MemorySet
<1> HIDE DEF f
<1>3. p \in Nat /\ Eight(p) /\ sz[p] \in Nat
  BY <1>1, ChunkFacts DEF Sound, ChunkAt
<1>4. \A a \in Inside(p + 8, n) : a \in Nat /\ p + 8 <= a /\ a < p + 8 + n
  <2> DEFINE m == p + 8
  <2>1. m \in Nat /\ m > 0 /\ Eight(m)
    BY <1>3, Eights DEF Eight
  <2> HIDE DEF m
  <2>2. \A a \in Inside(m, n) : a \in Nat /\ m <= a /\ a < m + n
    BY <2>1, Insides
  <2> QED
    BY <2>2 DEF m
<1>5. \A a \in Nat : (\A q \in U : a < q + 8 \/ a >= q + sz[q] + 4) => Word(f, a) = Word(g, a)
  <2> SUFFICES ASSUME NEW a \in Nat, \A q \in U : a < q + 8 \/ a >= q + sz[q] + 4 PROVE Word(f, a) = Word(g, a)
    OBVIOUS
  <2>1. a \notin DOMAIN new
    BY <1>3, <1>4
  <2> QED
    BY <1>2, <2>1 DEF Word, Over
<1>6. UserWords(g, U, sz, f)
  BY <1>2, <1>5 DEF UserWords, MemoryOnly
<1>7. Sound(f, C, U, sz) /\ Status(g, f)
  BY <1>2, <1>6, UserSound DEF MemoryOnly
<1> QED
  BY <1>7 DEF f

\* calloc writes its zeros where the user's words are.
LEMMA PutUser ==
    ASSUME NEW g, NEW C, NEW U, NEW sz, Sound(g, C, U, sz), NEW p \in U, NEW n \in Nat, n + 4 <= sz[p], NEW w
    PROVE  Sound(Put(g, p + 8, n, w), C, U, sz) /\ Status(g, Put(g, p + 8, n, w))
<1> DEFINE new == [a \in Inside(p + 8, n) |-> w]
<1>1. DOMAIN new = Inside(p + 8, n) /\ Put(g, p + 8, n, w) = [g EXCEPT !.mem = Over(new, @)]
  BY DEF Put
<1> HIDE DEF new
<1> QED
  BY <1>1, OverUser

\* realloc copies to where the user's words are.
LEMMA CopyUser ==
    ASSUME NEW g, NEW C, NEW U, NEW sz, Sound(g, C, U, sz), NEW p \in U, NEW n \in Nat, n + 4 <= sz[p], NEW from
    PROVE  Sound(Copied(g, from, p + 8, n), C, U, sz) /\ Status(g, Copied(g, from, p + 8, n))
<1> DEFINE new == [a \in Inside(p + 8, n) |-> Word(g, from + a - (p + 8))]
<1>1. DOMAIN new = Inside(p + 8, n) /\ Copied(g, from, p + 8, n) = [g EXCEPT !.mem = Over(new, @)]
  BY DEF Copied
<1> HIDE DEF new
<1> QED
  BY <1>1, OverUser

\* What a call leaves: a heap on which the next can be made, with one chunk more.
Got(f, U, sz, n) ==
    \E D, s, r : /\ Sound(f, D, U \cup {r}, s) /\ \A u \in U : s[u] = sz[u]
                 /\ r \in Nat /\ s[r] \in Nat /\ s[r] >= n /\ f.ret = r + 8 /\ ~f.broken
Result(f, U, sz, n) == f.broken \/ Refused(f, U, sz) \/ Got(f, U, sz, n)

\* A request that is served has got a chunk with room for it.
LEMMA ServedGot ==
    ASSUME NEW f, NEW U, NEW sz, NEW n, Served(f, U, sz, n)
    PROVE  Got(f, U, sz, n)
<1>1. PICK D, s, r : /\ r \notin U /\ Sound(f, D, U \cup {r}, s) /\ \A u \in U : s[u] = sz[u]
                     /\ s[r] >= n /\ Behind(U, sz, r) /\ f.ret = r + 8 /\ ~f.broken
  BY DEF Served
<1>2. r \in D
  BY <1>1 DEF Sound, Layout, Parted
<1>3. r \in Nat /\ s[r] \in Nat
  BY <1>1, <1>2, ChunkFacts DEF Sound, ChunkAt
<1> QED
  BY <1>1, <1>3 DEF Got

\* malloc returns NULL, or a block of a chunk in use with room for what was asked for.
LEMMA MallocResult ==
    ASSUME NEW g, NEW C, NEW U, NEW sz, Ready(g, C, U, sz), ~g.broken, NEW bytes \in Nat
    PROVE  Result(dlmalloc(g, bytes), U, sz, bytes + 4)
<1>1. Outcome(dlmalloc(g, bytes), U, sz, bytes + 4)
  BY MallocOutcome
<1> QED
  BY <1>1, ServedGot DEF Outcome, Result

\* The product of calloc is what it says when memory is there for it.
LEMMA ProductIs ==
    ASSUME NEW n \in Nat, NEW s \in Nat
    PROVE  Product(n, s) \in Nat /\ (Product(n, s) = n * s \/ Product(n, s) = MAX_SIZE_T)
<1> DEFINE x == n * s
           m == Two[SizeBits \div 2]
<1>1. x \in Nat /\ Modulus \in Nat /\ Modulus > 0 /\ MAX_SIZE_T \in Nat
  BY LargeSizes, Limits
<1>2. PICK q \in Nat, r \in 0 .. Modulus - 1 : x = q * Modulus + r /\ x \div Modulus = q /\ x % Modulus = r
  BY <1>1, Quotient
<1>3. Wrap(x) \in Nat /\ Wrap(x) <= x
  <2>1. q * Modulus \in Nat
    BY <1>1
  <2> QED
    BY <1>1, <1>2, <2>1 DEF Wrap
<1>4. ASSUME n # 0, Wrap(x) \div n = s PROVE Wrap(x) = x
  <2>1. PICK d \in Nat, k \in 0 .. n - 1 : Wrap(x) = d * n + k /\ Wrap(x) \div n = d
    BY <1>3, <1>4, Quotient
  <2>2. Wrap(x) = s * n + k /\ s * n = x
    BY <1>4, <2>1
  <2> QED
    BY <1>1, <1>3, <2>2
<1>5. ASSUME ~Wide(n), ~Wide(s) PROVE Wrap(x) = x
  <2>1. m \in Nat /\ m > 0 /\ m * m <= Modulus
    <3>1. SizeBits \in Nat
      BY HeapAssumption
    <3>2. PICK a \in Nat, b \in {0, 1} : SizeBits = 2 * a + b /\ SizeBits \div 2 = a
      BY <3>1, Half
    <3>3. Two[a + a] = Two[a] * Two[a] /\ Two[a] \in Nat /\ Two[a] > 0
      BY TwoAdds, Powers
    <3>4. a + a \in Nat /\ a + a <= SizeBits
      BY <3>2
    <3>5. Two[a + a] <= Two[SizeBits]
      BY <3>1, <3>4, TwoGrows
    <3> QED
      BY <3>2, <3>3, <3>5 DEF Modulus
  <2>2. n < m /\ s < m
    BY <1>5, <2>1 DEF Wide
  <2> HIDE DEF m
  <2>3. x < Modulus
    <3>1. n * s <= m * s /\ n * s \in Nat /\ m * s \in Nat
      BY <2>1, <2>2, Larger
    <3>2. s * m <= (m - 1) * m /\ s * m \in Nat
      <4>1. m - 1 \in Nat /\ s <= m - 1
        BY <2>1, <2>2
      <4> DEFINE k == m - 1
      <4> HIDE DEF k
      <4>2. s * m <= k * m /\ s * m \in Nat
        BY <2>1, <4>1, Larger DEF k
      <4> QED
        BY <4>2 DEF k
    <3>3. (m - 1) * m = m * m - m /\ m * s = s * m
      BY <2>1
    <3> QED
      BY <1>1, <2>1, <3>1, <3>2, <3>3
  <2> QED
    BY <1>1, <2>3, WrapIs
<1> HIDE DEF x
<1>6. CASE n = 0
  <2>1. x = 0
    BY <1>6 DEF x
  <2>2. Wrap(x) = x
    BY <1>1, <1>3, <2>1
  <2> QED
    BY <1>1, <1>6, <2>2 DEF Product, x
<1>7. CASE n # 0
  BY <1>1, <1>4, <1>5, <1>7 DEF Product, x
<1> QED
  BY <1>6, <1>7

\* The shelf of the free chunks stays while their sizes do.
LEMMA ShelvedSame ==
    ASSUME NEW g, NEW F, NEW sz, Shelved(g, F, sz), NEW f, Bins(g, f), NEW s, \A p \in F : s[p] = sz[p]
    PROVE  Shelved(f, F, s)
<1> DEFINE G == F \ {g.dv}
<1>1. BinnedAre(g, G, sz) /\ \A p \in G : s[p] = sz[p]
  BY DEF Shelved
<1> HIDE DEF G
<1>2. BinnedAre(f, G, s)
  BY <1>1, BinnedSame DEF Bins
<1> QED
  BY <1>2 DEF Shelved, Bins, G

\* A chunk in use is cut in two.
CutAt(g, f, U, sz, x, n) ==
    \E D, s : /\ Sound(f, D, U \cup {x + n}, s) /\ Status(g, f) /\ x \in U /\ x + n \notin U
              /\ \A u \in U : u # x => s[u] = sz[u]
              /\ s[x] = n /\ s[x + n] = sz[x] - n

\* A cut in two leaves the heap sound.
LEMMA HalvedSound ==
    ASSUME NEW g, NEW C, NEW U, NEW sz, Sound(g, C, U, sz), NEW x \in U,
           NEW n \in Nat, Eight(n), n >= 16, sz[x] - n >= 16, NEW f, Halves(g, f, x, n, sz[x])
    PROVE  CutAt(g, f, U, sz, x, n)
<1> DEFINE y == x + n
           D == C \cup {y}
           V == U \cup {y}
           s == Split(sz, C, x, n)
<1>1. Layout(g, C, U, sz, {}) /\ x \in C /\ U \subseteq C /\ Tiled(C, sz, g.top) /\ Shelved(g, C \ U, sz)
  BY DEF Sound, Layout, Parted
<1>2. Layout(f, D, V, s, {})
  BY <1>1, LayoutHalves
<1>3. SplitAt(C, sz, g.top, x, n)
  BY <1>1, TiledSplitAt
<1> HIDE DEF s
<1>4. y \notin C /\ s[x] = n /\ s[y] = sz[x] - n /\ \A p \in C : p # x => s[p] = sz[p]
  BY <1>3 DEF SplitAt, s
<1>5. Shelved(f, C \ U, s)
  <2> DEFINE F == C \ U
  <2>1. Shelved(g, F, sz) /\ (\A p \in F : s[p] = sz[p]) /\ Bins(g, f)
    BY <1>1, <1>4 DEF Halves, MemoryOnly
  <2> HIDE DEF F
  <2> QED
    BY <2>1, ShelvedSame DEF F
<1>6. D \ V = C \ U
  BY <1>4
<1>7. Sound(f, D, V, s)
  <2> HIDE DEF D, V
  <2> QED
    BY <1>2, <1>5, <1>6 DEF Sound
<1>8. Status(g, f) /\ y \notin U /\ \A u \in U : u # x => s[u] = sz[u]
  BY <1>1, <1>4 DEF Halves, MemoryOnly
<1> HIDE DEF D
<1> QED
  BY <1>4, <1>7, <1>8 DEF CutAt

\* calloc.
LEMMA CallocResult ==
    ASSUME NEW g, NEW C, NEW U, NEW sz, Ready(g, C, U, sz), ~g.broken, NEW n \in Nat, NEW m \in Nat
    PROVE  Result(dlcalloc(g, n, m), U, sz, n * m + 4)
<1> DEFINE size == Product(n, m)
           u == dlmalloc(g, size)
<1>1. size \in Nat /\ (size = n * m \/ size = MAX_SIZE_T)
  BY ProductIs
<1> HIDE DEF size
<1>2. Result(u, U, sz, size + 4)
  BY <1>1, MallocResult
<1> HIDE DEF u
<1>3. dlcalloc(g, n, m) = IF u.broken THEN u ELSE IF u.ret = 0 THEN u ELSE Put(u, u.ret, size, Zeros)
  BY DEF dlcalloc, Then, u, size
<1>4. CASE u.broken
  BY <1>3, <1>4 DEF Result
<1>5. CASE ~u.broken /\ Refused(u, U, sz)
  BY <1>3, <1>5 DEF Result, Refused
<1>6. CASE ~u.broken /\ Got(u, U, sz, size + 4)
  <2>1. PICK D, s, r : /\ Sound(u, D, U \cup {r}, s) /\ \A v \in U : s[v] = sz[v]
                       /\ r \in Nat /\ s[r] \in Nat /\ s[r] >= size + 4 /\ u.ret = r + 8 /\ ~u.broken
    BY <1>6 DEF Got
  <2> DEFINE V == U \cup {r}
             f == Put(u, r + 8, size, Zeros)
  <2>2. r \in V /\ Sound(u, D, V, s)
    BY <2>1
  <2> HIDE DEF V
  <2>3. Sound(f, D, V, s) /\ Status(u, f)
    BY <1>1, <2>1, <2>2, PutUser
  <2>4. size = n * m
    <3>1. r \in D
      BY <2>2 DEF Sound, Layout, Parted
    <3>2. s[r] < Modulus
      BY <2>2, <3>1, ChunkFacts DEF Sound, ChunkAt
    <3> QED
      BY <1>1, <2>1, <3>2, Limits, LargeSizes
  <2>5. dlcalloc(g, n, m) = f
    BY <1>3, <2>1
  <2> HIDE DEF f
  <2>6. f.ret = r + 8 /\ ~f.broken
    BY <2>1, <2>3 DEF Status
  <2>7. Got(f, U, sz, n * m + 4)
    BY <2>1, <2>3, <2>4, <2>6 DEF Got, V
  <2> QED
    BY <2>5, <2>7 DEF Result
<1> QED
  BY <1>2, <1>4, <1>5, <1>6 DEF Result

-----------------------------------------------------------------------------
(* realloc. *)

\* The smaller of two numbers.
LEMMA MinOfTwo ==
    ASSUME NEW m \in Nat, NEW n \in Nat
    PROVE  Min({m, n}) \in {m, n} /\ Min({m, n}) <= m /\ Min({m, n}) <= n
<1>1. \E x \in {m, n} : \A y \in {m, n} : x <= y
  OBVIOUS
<1> QED
  BY <1>1 DEF Min

\* A call answers with a chunk in use.
LEMMA GotAnswer ==
    ASSUME NEW f, NEW D, NEW V, NEW s, Sound(f, D, V, s), ~f.broken, NEW r \in V, NEW W, V = W \cup {r},
           NEW sz, \A u \in W : s[u] = sz[u], NEW n, s[r] >= n
    PROVE  Got(Answer(f, chunk2mem(r)), W, sz, n)
<1> DEFINE e == Answer(f, chunk2mem(r))
<1>1. r \in D
  BY DEF Sound, Layout, Parted
<1>2. r \in Nat /\ s[r] \in Nat
  BY <1>1, ChunkFacts DEF Sound, ChunkAt
<1>3. Sound(e, D, V, s) /\ e.ret = r + 8 /\ ~e.broken
  BY AnswerSound DEF chunk2mem
<1> HIDE DEF e
<1> QED
  BY <1>2, <1>3 DEF Got, e

\* realloc in place: what is too much is given back.
LEMMA ShrunkGot ==
    ASSUME NEW g, NEW C, NEW U, NEW sz, Sound(g, C, U, sz), ~g.broken, NEW p \in U,
           NEW nb \in Nat, Eight(nb), nb >= 16, nb <= sz[p]
    PROVE  Got(Answer(Shrunk(g, p, nb, sz[p] - nb), chunk2mem(p)), U \ {p}, sz, nb)
<1> DEFINE rest == sz[p] - nb
           W == U \ {p}
           f == Shrunk(g, p, nb, rest)
<1>1. DOMAIN g = Fields /\ p \in C /\ U = W \cup {p}
  BY DEF Sound, Layout, Parted
<1>2. p \in Nat /\ sz[p] \in Nat /\ Eight(sz[p]) /\ sz[p] < Modulus
  BY <1>1, ChunkFacts DEF Sound, ChunkAt
<1> HIDE DEF W
<1>3. CASE rest < 16
  <2>1. f = g
    BY <1>3 DEF Shrunk, MIN_CHUNK_SIZE
  <2> HIDE DEF f
  <2>2. \A u \in W : sz[u] = sz[u]
    OBVIOUS
  <2>3. Got(Answer(g, chunk2mem(p)), W, sz, nb)
    BY <1>1, <2>2, GotAnswer
  <2> QED
    BY <2>1, <2>3 DEF f, W
<1>4. CASE ~(rest < 16)
  <2> DEFINE q == p + nb
             e == set_inuse(set_inuse(g, p, nb), q, rest)
  <2>1. rest >= 16 /\ rest \in Nat
    BY <1>2, <1>4
  <2>2. Halves(g, e, p, nb, sz[p])
    BY <1>1, <1>2, <2>1, HalvesFront
  <2> HIDE DEF e
  <2>3. CutAt(g, e, U, sz, p, nb)
    BY <2>1, <2>2, HalvedSound
  <2>4. PICK D, s : /\ Sound(e, D, U \cup {q}, s) /\ Status(g, e) /\ q \notin U
                    /\ \A u \in U : u # p => s[u] = sz[u]
                    /\ s[p] = nb
    BY <2>3 DEF CutAt
  <2> DEFINE k == dlfree(e, chunk2mem(q))
             V == U \cup {q}
  <2>5. ~e.broken /\ q \in V /\ V \ {q} = U
    BY <2>4 DEF Status
  <2> HIDE DEF V, q
  <2>6. IsFreed(e, k, V \ {q}, s)
    BY <2>4, <2>5, FreeFreed DEF V
  <2>7. PICK E, t : Sound(k, E, U, t) /\ Status(e, k) /\ \A u \in U : t[u] = s[u]
    BY <2>5, <2>6 DEF IsFreed, Freed
  <2>8. f = k
    BY <1>4, <2>5 DEF Shrunk, Then, MIN_CHUNK_SIZE, e, k, q
  <2> HIDE DEF f, k
  <2>9. ~k.broken /\ t[p] >= nb /\ \A u \in W : t[u] = sz[u]
    BY <1>2, <2>4, <2>5, <2>7 DEF Status, W
  <2>10. Got(Answer(k, chunk2mem(p)), W, sz, nb)
    BY <1>1, <2>7, <2>9, GotAnswer
  <2> QED
    BY <2>8, <2>10 DEF f, W
<1> QED
  BY <1>3, <1>4

\* realloc into the top chunk.
LEMMA IntoTopGot ==
    ASSUME NEW g, NEW C, NEW U, NEW sz, Sound(g, C, U, sz), ~g.broken, NEW p \in U, p + sz[p] = g.top,
           NEW nb \in Nat, Eight(nb), nb >= 16, sz[p] + g.topsize > nb
    PROVE  Got(Answer(IntoTop(g, p, nb, sz[p] + g.topsize), chunk2mem(p)), U \ {p}, sz, nb)
<1> DEFINE all == sz[p] + g.topsize
           W == U \ {p}
           n == all - nb
           i == set_inuse(g, p, nb)
           e == [i EXCEPT !.top = p + nb, !.topsize = n]
           f == SetHead(e, p + nb, n, FALSE, TRUE)
           s == Resized(sz, C, p, nb)
<1>1. DOMAIN g = Fields /\ p \in C /\ U = W \cup {p} /\ Layout(g, C, U, sz, {}) /\ Shelved(g, C \ U, sz) /\ U \subseteq C
  BY DEF Sound, Layout, Parted
<1>2. p \in Nat /\ sz[p] \in Nat /\ IsHead(g, p) /\ TopAt(g, C) /\ g.topsize \in Nat
  BY <1>1, ChunkFacts, TopFacts DEF ChunkAt, WordsAt, TopAt
<1> HIDE DEF W
<1>3. UsedWords(g, i, p, nb) /\ (Word(i, p + 4).pinuse <=> Word(g, p + 4).pinuse)
  BY <1>1, <1>2, SetInuse
<1> HIDE DEF i
<1>4. /\ DOMAIN e = Fields /\ e.top = p + nb /\ e.topsize = n /\ Segment(i, e) /\ Status(i, e) /\ Bins(i, e) /\ e.mem = i.mem
  BY <1>3 DEF UsedWords, MemoryOnly, Fields, Segment, Status, Bins
<1> HIDE DEF e
<1>5. SetsWord(e, f, p + nb, HeadWord(n, FALSE, TRUE))
  BY <1>4, SetHeadFlags
<1> HIDE DEF f
<1>6. /\ DOMAIN f = Fields /\ f.top = p + nb /\ f.topsize = n /\ Segment(g, f) /\ Status(g, f) /\ Bins(g, f)
  BY <1>3, <1>4, <1>5 DEF UsedWords, SetsWord, MemoryOnly, Tops, Segment, Status, Bins
<1>7. \A a : Word(f, a) = IF a = p + nb + 4 THEN HeadWord(n, FALSE, TRUE) ELSE Word(i, a)
  <2>1. \A a : Word(e, a) = Word(i, a)
    BY <1>4 DEF Word
  <2> QED
    BY <1>5, <2>1 DEF SetsWord
<1>8. \A a : a # p + 4 /\ a # p + nb + 4 => Word(f, a) = Word(g, a)
  BY <1>3, <1>7 DEF UsedWords
<1>9. p + 4 # p + nb + 4 /\ n \in Nat /\ n = g.topsize + sz[p] - nb
  BY <1>2
<1>10. Word(f, p + 4) = Word(i, p + 4)
  BY <1>7, <1>9
<1>11. IsHead(f, p) /\ Word(f, p + 4).size = nb /\ Word(f, p + 4).cinuse /\ (Word(f, p + 4).pinuse <=> Word(g, p + 4).pinuse)
  BY <1>3, <1>10 DEF UsedWords, IsHead
<1>12. Word(f, p + nb + 4) = HeadWord(g.topsize + sz[p] - nb, FALSE, TRUE)
  BY <1>7, <1>9
<1>13. nb < g.topsize + sz[p] /\ f.topsize = g.topsize + sz[p] - nb
  BY <1>2, <1>6, <1>9
<1>14. Layout(f, C, U, s, {})
  BY <1>1, <1>6, <1>8, <1>11, <1>12, <1>13, LayoutIntoTop
<1>15. s[p] = nb /\ \A q \in C : q # p => s[q] = sz[q]
  BY <1>1 DEF Resized
<1> HIDE DEF s
<1>16. Shelved(f, C \ U, s)
  <2> DEFINE F == C \ U
  <2>1. Shelved(g, F, sz) /\ \A q \in F : s[q] = sz[q]
    BY <1>1, <1>15
  <2> HIDE DEF F
  <2> QED
    BY <1>6, <2>1, ShelvedSame DEF F
<1>17. Sound(f, C, U, s) /\ ~f.broken /\ s[p] >= nb /\ \A u \in W : s[u] = sz[u]
  BY <1>1, <1>6, <1>14, <1>15, <1>16 DEF Sound, Status, W
<1>18. Got(Answer(f, chunk2mem(p)), W, sz, nb)
  BY <1>1, <1>17, GotAnswer
<1> QED
  BY <1>18 DEF IntoTop, f, e, i, W

\* realloc to another chunk.
Regot(f, U, sz, p, n) == f.broken \/ Refused(f, U, sz) \/ Got(f, U \ {p}, sz, n)

\* realloc that moves the block gets a new chunk and frees the old one.
LEMMA MovedRegot ==
    ASSUME NEW g, NEW C, NEW U, NEW sz, Sound(g, C, U, sz), ~g.broken, NEW p \in U, NEW bytes \in Nat
    PROVE  Regot(Moved(g, p, bytes), U, sz, p, bytes + 4)
<1> DEFINE m == dlmalloc(g, bytes)
           usable == sz[p] - 4
           n == Min({usable, bytes})
           W == U \ {p}
           c == Copied(m, chunk2mem(p), m.ret, n)
           e == dlfree(c, chunk2mem(p))
           f == Moved(g, p, bytes)
<1>1. Layout(g, C, U, sz, {}) /\ p \in C
  BY DEF Sound, Layout, Parted
<1>2. p \in Nat /\ sz[p] \in Nat /\ sz[p] >= 16 /\ chunksize(g, p) = sz[p]
  BY <1>1, ChunkFacts DEF ChunkAt, WordsAt
<1>3. n \in Nat /\ n <= bytes
  <2>1. usable \in Nat
    BY <1>2
  <2> HIDE DEF usable
  <2> QED
    BY <2>1, MinOfTwo
<1>4. Outcome(m, U, sz, bytes + 4)
  BY MallocOutcome DEF Ready
<1>5. f = IF m.broken THEN m ELSE IF m.ret = 0 THEN m ELSE Answer(e, m.ret)
  BY <1>2 DEF Moved, Then, CHUNK_OVERHEAD
<1> HIDE DEF n, m, f, c, e
<1>6. CASE m.broken
  BY <1>5, <1>6 DEF Regot, f
<1>7. CASE ~m.broken /\ Refused(m, U, sz)
  BY <1>5, <1>7 DEF Regot, Refused, f
<1>8. CASE ~m.broken /\ Served(m, U, sz, bytes + 4)
  <2>1. PICK D, s, r : /\ r \notin U /\ Sound(m, D, U \cup {r}, s) /\ \A u \in U : s[u] = sz[u]
                       /\ s[r] >= bytes + 4 /\ m.ret = r + 8
    BY <1>8 DEF Served
  <2> DEFINE V == U \cup {r}
             X == V \ {p}
  <2>2. Sound(m, D, V, s) /\ r \in V /\ p \in V /\ X = W \cup {r} /\ r \in X
    BY <2>1
  <2> HIDE DEF V
  <2>3. r \in D /\ p \in D
    BY <2>2 DEF Sound, Layout, Parted
  <2>4. r \in Nat /\ s[r] \in Nat /\ n + 4 <= s[r] /\ p \in Nat
    BY <1>2, <1>3, <2>1, <2>2, <2>3, ChunkFacts DEF Sound, ChunkAt
  <2>5. Sound(c, D, V, s) /\ Status(m, c)
    <3>1. c = Copied(m, chunk2mem(p), r + 8, n)
      BY <2>1 DEF c
    <3> QED
      BY <1>3, <2>2, <2>4, <3>1, CopyUser
  <2>6. ~c.broken
    BY <1>8, <2>5 DEF Status
  <2>7. IsFreed(c, e, V \ {p}, s)
    BY <2>2, <2>5, <2>6, FreeFreed DEF e
  <2>8. PICK E, t : Sound(e, E, X, t) /\ Status(c, e) /\ \A u \in X : t[u] = s[u]
    BY <2>7 DEF IsFreed, Freed
  <2> HIDE DEF X, W
  <2>9. ~e.broken /\ t[r] >= bytes + 4 /\ \A u \in W : t[u] = sz[u]
    BY <2>1, <2>2, <2>6, <2>8 DEF Status, W
  <2>10. Got(Answer(e, chunk2mem(r)), W, sz, bytes + 4)
    BY <2>2, <2>8, <2>9, GotAnswer
  <2>11. f = Answer(e, chunk2mem(r))
    BY <1>5, <1>8, <2>1, <2>4 DEF chunk2mem
  <2> QED
    BY <2>10, <2>11 DEF Regot, W, f
<1> QED
  BY <1>4, <1>6, <1>7, <1>8 DEF Outcome, f

\* What is large enough for a request is so for a smaller one.
LEMMA GotLess ==
    ASSUME NEW f, NEW U, NEW sz, NEW m, NEW n, Got(f, U, sz, m), m \in Nat, n \in Nat, n <= m
    PROVE  Got(f, U, sz, n)
<1>1. PICK D, s, r : /\ Sound(f, D, U \cup {r}, s) /\ \A u \in U : s[u] = sz[u]
                     /\ r \in Nat /\ s[r] \in Nat /\ s[r] >= m /\ f.ret = r + 8 /\ ~f.broken
  BY DEF Got
<1>2. s[r] >= n
  BY <1>1
<1> QED
  BY <1>1, <1>2 DEF Got

\* realloc returns NULL and leaves the block, or a block with room, in place, into top or moved.
LEMMA ReallocResult ==
    ASSUME NEW g, NEW C, NEW U, NEW sz, Sound(g, C, U, sz), ~g.broken, NEW p \in U, NEW bytes \in Nat
    PROVE  Regot(dlrealloc(g, p + 8, bytes), U, sz, p, bytes + 4)
<1> DEFINE nb == request2size(bytes)
           size == sz[p]
           f == internal_realloc(g, p + 8, bytes)
<1>1. Layout(g, C, U, sz, {}) /\ p \in C
  BY DEF Sound, Layout, Parted
<1>2. p \in Nat /\ size \in Nat /\ chunksize(g, p) = size /\ g.topsize \in Nat
  BY <1>1, ChunkFacts, TopFacts DEF ChunkAt, WordsAt, TopAt
<1>3. nb \in Nat /\ Eight(nb) /\ nb >= 16 /\ nb >= bytes + 4
  BY Pads
<1>4. mem2chunk(p + 8) = p /\ chunk2mem(p) = p + 8 /\ p + 8 # 0
  BY <1>2 DEF mem2chunk, chunk2mem
<1>5. f = IF bytes >= MAX_REQUEST THEN Answer(g, 0)
          ELSE IF size >= nb THEN Answer(Shrunk(g, p, nb, size - nb), chunk2mem(p))
          ELSE IF p + size = g.top /\ size + g.topsize > nb THEN Answer(IntoTop(g, p, nb, size + g.topsize), chunk2mem(p))
          ELSE Moved(g, p, bytes)
  BY <1>2, <1>4 DEF internal_realloc
<1>6. dlrealloc(g, p + 8, bytes) = f
  BY <1>4 DEF dlrealloc
<1> HIDE DEF nb, f
<1>7. Refused(Answer(g, 0), U, sz)
  <2>1. Sound(Answer(g, 0), C, U, sz) /\ Answer(g, 0).ret = 0 /\ Answer(g, 0).broken = g.broken
    BY AnswerSound
  <2>2. \A u \in U : sz[u] = sz[u]
    OBVIOUS
  <2> QED
    BY <2>1, <2>2 DEF Refused, IsReady, Ready
<1>8. ASSUME nb <= size PROVE Got(Answer(Shrunk(g, p, nb, size - nb), chunk2mem(p)), U \ {p}, sz, bytes + 4)
  <2>1. Got(Answer(Shrunk(g, p, nb, size - nb), chunk2mem(p)), U \ {p}, sz, nb)
    BY <1>3, <1>8, ShrunkGot
  <2> QED
    BY <1>3, <2>1, GotLess
<1>9. ASSUME p + size = g.top, size + g.topsize > nb
      PROVE  Got(Answer(IntoTop(g, p, nb, size + g.topsize), chunk2mem(p)), U \ {p}, sz, bytes + 4)
  <2>1. Got(Answer(IntoTop(g, p, nb, size + g.topsize), chunk2mem(p)), U \ {p}, sz, nb)
    BY <1>3, <1>9, IntoTopGot
  <2> QED
    BY <1>3, <2>1, GotLess
<1>10. Regot(Moved(g, p, bytes), U, sz, p, bytes + 4)
  BY MovedRegot
<1>11. Regot(f, U, sz, p, bytes + 4)
  <2>1. CASE bytes >= MAX_REQUEST
    BY <1>5, <1>7, <2>1 DEF Regot
  <2>2. CASE ~(bytes >= MAX_REQUEST) /\ size >= nb
    <3>1. nb <= size
      BY <1>2, <1>3, <2>2
    <3> QED
      BY <1>5, <1>8, <2>2, <3>1 DEF Regot
  <2>3. CASE ~(bytes >= MAX_REQUEST) /\ ~(size >= nb) /\ p + size = g.top /\ size + g.topsize > nb
    BY <1>5, <1>9, <2>3 DEF Regot
  <2>4. CASE ~(bytes >= MAX_REQUEST) /\ ~(size >= nb) /\ ~(p + size = g.top /\ size + g.topsize > nb)
    BY <1>5, <1>10, <2>4
  <2> QED
    BY <2>1, <2>2, <2>3, <2>4
<1> QED
  BY <1>6, <1>11

-----------------------------------------------------------------------------
(* memalign. *)

\* Multiples of multiples of eight are such.
LEMMA EightTimes ==
    ASSUME NEW a \in Nat, Eight(a), NEW q \in Nat
    PROVE  Eight(q * a) /\ q * a \in Nat
<1>1. 8 \in Nat /\ 8 > 0
  OBVIOUS
<1>2. PICK b \in Nat, r \in 0 .. 8 - 1 : a = b * 8 + r /\ a \div 8 = b /\ a % 8 = r
  BY <1>1, Quotient, Zenon
<1>3. r = 0
  BY <1>2 DEF Eight
<1>4. q * a = 8 * (q * b) /\ q * b \in Nat /\ q * a \in Nat
  BY <1>2, <1>3
<1> DEFINE x == q * b
<1> HIDE DEF x
<1>5. x \in Nat => (8 * x) % 8 = 0
  OBVIOUS
<1> QED
  BY <1>4, <1>5 DEF Eight, x

\* The alignment that memalign goes by, and where the aligned chunk begins.
LEMMA PowerOfTwoIs ==
    ASSUME NEW alignment \in 0 .. HALF_MAX_SIZE_T + 1
    PROVE  LET a == PowerOfTwo(alignment) IN a \in Nat /\ Eight(a) /\ a >= 16 /\ 2 * a <= Modulus
<1> DEFINE S == {k \in 0 .. SizeBits : Two[k] >= alignment}
           top == SizeBits - 1
<1>1. Modulus \in Nat /\ Modulus >= 256 /\ HALF_MAX_SIZE_T \in Nat /\ 2 * HALF_MAX_SIZE_T = Modulus - 2 /\ alignment \in Nat
  BY LargeSizes, Limits
<1>2. top \in Nat /\ top + 1 = SizeBits /\ SizeBits \in Nat
  BY HeapAssumption
<1> HIDE DEF top
<1>3. Two[top] \in Nat /\ 2 * Two[top] = Modulus
  BY <1>2, Powers DEF Modulus
<1>4. alignment <= Two[top]
  BY <1>1, <1>3
<1>5. CASE alignment <= 16
  <2>1. Eight(16)
    BY DEF Eight
  <2> QED
    BY <1>1, <1>5, <2>1 DEF PowerOfTwo, MIN_CHUNK_SIZE
<1>6. CASE ~(alignment <= 16)
  <2> DEFINE k == Min(S)
  <2>1. S \in SUBSET Nat /\ top \in S
    BY <1>2, <1>4
  <2> HIDE DEF S
  <2>2. \E x \in S : \A y \in S : x <= y
    BY <2>1, Least
  <2>3. k \in S /\ \A y \in S : k <= y
    BY <2>2 DEF Min
  <2> HIDE DEF k
  <2>4. k \in Nat /\ k <= top /\ Two[k] >= alignment /\ Two[k] \in Nat
    BY <2>1, <2>3, Powers DEF S
  <2>5. Two[k] <= Two[top]
    BY <1>2, <2>4, TwoGrows
  <2>6. Eight(Two[k])
    <3>1. k >= 3
      <4> SUFFICES ASSUME k < 3 PROVE FALSE
        BY <2>4
      <4>1. Two[k] <= Two[4]
        BY <2>4, TwoGrows
      <4>2. Two[4] = 16
        <5>1. /\ Two[0 + 1] = 2 * Two[0] /\ Two[1 + 1] = 2 * Two[1] /\ Two[2 + 1] = 2 * Two[2] /\ Two[0] = 1
              /\ Two[3 + 1] = 2 * Two[3]
          BY Powers
        <5> QED
          BY <5>1
      <4> QED
        BY <1>1, <1>6, <2>4, <4>1, <4>2
    <3> QED
      BY <2>4, <3>1, TwoEight
  <2>7. PowerOfTwo(alignment) = Two[k]
    BY <1>6 DEF PowerOfTwo, MIN_CHUNK_SIZE, k, S
  <2> QED
    BY <1>1, <1>3, <1>6, <2>4, <2>5, <2>6, <2>7
<1> QED
  BY <1>5, <1>6

AlignedAt(p, a, q) ==
    \/ q = p
    \/ q \in Nat /\ Eight(q) /\ q - p \in Nat /\ Eight(q - p) /\ q - p >= 16 /\ q - p <= a + 8

\* The chunk memalign picks is aligned and leaves room for one before it.
LEMMA AlignedChunkIs ==
    ASSUME NEW p \in Nat, Eight(p), NEW a \in Nat, Eight(a), a >= 16
    PROVE  AlignedAt(p, a, AlignedChunk(p, a))
<1> DEFINE x == p + 8 + a - 1
           up == AlignedUp(chunk2mem(p), a)
           br == up - 8
           d == br - p
<1>1. x \in Nat /\ a > 0
  OBVIOUS
<1>2. PICK q \in Nat, r \in 0 .. a - 1 : x = q * a + r /\ x \div a = q
  <2> HIDE DEF x
  <2> QED
    BY <1>1, Quotient
<1>3. up = q * a
  BY <1>2 DEF AlignedUp, chunk2mem
<1>4. q * a \in Nat /\ Eight(q * a)
  BY EightTimes
<1> HIDE DEF up
<1>5. up \in Nat /\ Eight(up) /\ up <= x /\ x < up + a
  <2> DEFINE y == q * a
  <2>1. y \in Nat /\ x = y + r
    BY <1>2, <1>4
  <2> HIDE DEF y, x
  <2>2. y <= x /\ x < y + a
    BY <2>1
  <2> QED
    BY <1>3, <1>4, <2>2 DEF y
<1>6. up >= p + 8 /\ up < p + 8 + a
  BY <1>5
<1>7. br \in Nat /\ Eight(br) /\ d \in Nat /\ Eight(d) /\ d < a
  <2>1. up \in Int /\ 8 \in Int /\ Eight(8) /\ p \in Int
    BY <1>5 DEF Eight
  <2>2. br \in Nat /\ d \in Nat /\ d < a
    BY <1>5, <1>6
  <2>3. Eight(br)
    BY <1>5, <2>1, Eights
  <2> HIDE DEF br
  <2>4. Eight(d)
    BY <2>1, <2>2, <2>3, Eights
  <2> QED
    BY <2>2, <2>3, <2>4
<1>8. AlignedChunk(p, a) = IF br = p \/ d >= 16 THEN br ELSE br + a
  BY DEF AlignedChunk, mem2chunk, MIN_CHUNK_SIZE, up
<1>9. br = p + d
  BY <1>7, <1>5
<1> HIDE DEF br, d
<1>10. CASE d = 0
  <2>1. br = p
    BY <1>9, <1>10
  <2> QED
    BY <1>8, <2>1 DEF AlignedAt
<1>11. CASE d >= 16
  <2>1. br - p = d /\ d <= a + 8
    BY <1>7, <1>9
  <2> QED
    BY <1>7, <1>8, <1>11, <2>1 DEF AlignedAt
<1>12. CASE d # 0 /\ ~(d >= 16)
  <2>1. d = 8
    <3>1. d \in 0 .. 15 /\ d % 8 = 0
      BY <1>7, <1>12 DEF Eight
    <3> QED
      BY <1>12, <3>1
  <2>2. br # p /\ br + a \in Nat /\ (br + a) - p = a + 8 /\ a + 8 \in Nat /\ a + 8 >= 16
    BY <1>7, <1>9, <2>1
  <2>3. Eight(br + a) /\ Eight(a + 8)
    <3>1. Eight(8)
      BY DEF Eight
    <3> QED
      BY <1>7, <3>1, Eights
  <2> QED
    BY <1>8, <1>12, <2>2, <2>3 DEF AlignedAt
<1> QED
  BY <1>7, <1>10, <1>11, <1>12

\* A chunk keeps what is asked for and gives back what is behind it.
Keeps(g, f, W, sz, q, nb) ==
    \E D, s : Sound(f, D, W, s) /\ Status(g, f) /\ (\A u \in W : u # q => s[u] = sz[u]) /\ s[q] >= nb
TrimmedTail(g, q, nb) == Trimmed(g, q, nb, LAMBDA v : v)
TrimmedEnds(g, p, q, nb) == Trimmed(g, q, nb, LAMBDA v : dlfree(v, chunk2mem(p)))

\* Giving back an end, or both, leaves a sound heap and enough room.
LEMMA TrimmedKeeps ==
    ASSUME NEW g, NEW C, NEW V, NEW sz, Sound(g, C, V, sz), ~g.broken, NEW q \in V, NEW p \in V,
           NEW nb \in Nat, Eight(nb), nb >= 16, nb <= sz[q]
    PROVE  /\ Keeps(g, TrimmedTail(g, q, nb), V, sz, q, nb)
           /\ p # q => Keeps(g, TrimmedEnds(g, p, q, nb), V \ {p}, sz, q, nb)
<1> DEFINE size == chunksize(g, q)
           y == q + nb
           e == set_inuse(set_inuse(g, q, nb), y, size - nb)
           f1 == TrimmedTail(g, q, nb)
           f2 == TrimmedEnds(g, p, q, nb)
           W == V \ {p}
<1>1. DOMAIN g = Fields /\ q \in C /\ Layout(g, C, V, sz, {})
  BY DEF Sound, Layout, Parted
<1>2. q \in Nat /\ sz[q] \in Nat /\ size = sz[q]
  BY <1>1, ChunkFacts DEF ChunkAt, WordsAt
<1>3. f1 = IF size > nb + 16 THEN (IF e.broken THEN e ELSE dlfree(e, chunk2mem(y))) ELSE g
  BY DEF TrimmedTail, TrimmedEnds, Trimmed, Then, MIN_CHUNK_SIZE
<1>4. f2 = IF size > nb + 16 THEN (IF e.broken THEN e ELSE dlfree(dlfree(e, chunk2mem(p)), chunk2mem(y)))
           ELSE dlfree(g, chunk2mem(p))
  BY DEF TrimmedTail, TrimmedEnds, Trimmed, Then, MIN_CHUNK_SIZE
<1> HIDE DEF f1, f2, e, size
<1>5. CASE ~(size > nb + 16)
  <2>1. Keeps(g, f1, V, sz, q, nb)
    <3>1. f1 = g /\ sz[q] >= nb /\ Status(g, g)
      BY <1>2, <1>3, <1>5 DEF Status
    <3>2. \A u \in V : u # q => sz[u] = sz[u]
      OBVIOUS
    <3> QED
      BY <3>1, <3>2 DEF Keeps
  <2>2. ASSUME p # q PROVE Keeps(g, f2, W, sz, q, nb)
    <3> DEFINE k == dlfree(g, chunk2mem(p))
    <3>1. f2 = k
      BY <1>4, <1>5
    <3>2. IsFreed(g, k, W, sz)
      BY FreeFreed
    <3> HIDE DEF k
    <3>3. PICK D, s : Sound(k, D, W, s) /\ Status(g, k) /\ \A u \in W : s[u] = sz[u]
      BY <3>2 DEF IsFreed, Freed
    <3>4. s[q] >= nb /\ \A u \in W : u # q => s[u] = sz[u]
      BY <1>2, <2>2, <3>3
    <3> QED
      BY <3>1, <3>3, <3>4 DEF Keeps
  <2> QED
    BY <2>1, <2>2 DEF f1, f2
<1>6. CASE size > nb + 16
  <2>1. sz[q] - nb >= 16 /\ sz[q] > nb
    BY <1>2, <1>6
  <2>2. Halves(g, e, q, nb, sz[q])
    BY <1>1, <1>2, <2>1, HalvesFront DEF e
  <2>3. CutAt(g, e, V, sz, q, nb)
    BY <2>1, <2>2, HalvedSound
  <2>4. PICK D, s : /\ Sound(e, D, V \cup {y}, s) /\ Status(g, e) /\ y \notin V
                    /\ \A u \in V : u # q => s[u] = sz[u]
                    /\ s[q] = nb
    BY <2>3 DEF CutAt
  <2>5. ~e.broken
    BY <2>4 DEF Status
  <2> HIDE DEF y
  <2>6. Keeps(g, f1, V, sz, q, nb)
    <3> DEFINE k == dlfree(e, chunk2mem(y))
               Y == V \cup {y}
    <3>1. y \in Y /\ Y \ {y} = V
      BY <2>4
    <3> HIDE DEF Y
    <3>2. IsFreed(e, k, Y \ {y}, s)
      BY <2>4, <2>5, <3>1, FreeFreed DEF Y
    <3> HIDE DEF k
    <3>3. PICK E, t : Sound(k, E, V, t) /\ Status(e, k) /\ \A u \in V : t[u] = s[u]
      BY <3>1, <3>2 DEF IsFreed, Freed
    <3>4. f1 = k
      BY <1>3, <1>6, <2>5 DEF k
    <3>5. t[q] >= nb /\ Status(g, k) /\ \A u \in V : u # q => t[u] = sz[u]
      BY <2>4, <3>3 DEF Status
    <3> QED
      BY <3>3, <3>4, <3>5 DEF Keeps
  <2>7. ASSUME p # q PROVE Keeps(g, f2, W, sz, q, nb)
    <3> DEFINE j == dlfree(e, chunk2mem(p))
               k == dlfree(j, chunk2mem(y))
               Y == V \cup {y}
               Z == Y \ {p}
    <3>1. y \in Y /\ p \in Y /\ y \in Z /\ Z \ {y} = W
      BY <2>4
    <3> HIDE DEF Y
    <3>2. IsFreed(e, j, Y \ {p}, s)
      BY <2>4, <2>5, <3>1, FreeFreed DEF Y
    <3>3. PICK E, t : Sound(j, E, Z, t) /\ Status(e, j) /\ \A u \in Z : t[u] = s[u]
      BY <3>2 DEF IsFreed, Freed
    <3> HIDE DEF j, Z
    <3>4. ~j.broken
      BY <2>5, <3>3 DEF Status
    <3>5. IsFreed(j, k, Z \ {y}, t)
      BY <3>1, <3>3, <3>4, FreeFreed
    <3> HIDE DEF k, W
    <3>6. PICK F, r : Sound(k, F, W, r) /\ Status(j, k) /\ \A u \in W : r[u] = t[u]
      BY <3>1, <3>5 DEF IsFreed, Freed
    <3>7. f2 = k
      BY <1>4, <1>6, <2>5 DEF k, j
    <3>8. \A u \in W : u \in Z /\ u \in V
      BY <2>4 DEF W, Z, Y
    <3>9. q \in W
      BY <2>7 DEF W
    <3>10. r[q] >= nb /\ Status(g, k)
      BY <2>4, <3>3, <3>6, <3>8, <3>9 DEF Status
    <3>11. \A u \in W : u # q => r[u] = sz[u]
      BY <2>4, <3>3, <3>6, <3>8
    <3> QED
      BY <3>6, <3>7, <3>10, <3>11 DEF Keeps
  <2> QED
    BY <2>6, <2>7 DEF f1, f2
<1> QED
  BY <1>5, <1>6

\* memalign.
Aligned(g, p, q, nb) ==
    IF q = p THEN Trimmed(g, p, nb, LAMBDA v : v)
    ELSE Trimmed(set_inuse(set_inuse(g, q, chunksize(g, p) - (q - p)), p, q - p), q, nb, LAMBDA v : dlfree(v, chunk2mem(p)))

\* The aligned chunk is got once the ends are given back.
LEMMA AlignedGot ==
    ASSUME NEW g, NEW C, NEW U, NEW sz, NEW V, NEW s, NEW p, Sound(g, C, V, s), V = U \cup {p}, p \notin U,
           \A u \in U : s[u] = sz[u], ~g.broken,
           NEW a \in Nat, Eight(a), a >= 16, NEW nb \in Nat, Eight(nb), nb >= 16, s[p] >= nb + a + 16,
           NEW q, AlignedAt(p, a, q)
    PROVE  Got(Answer(Aligned(g, p, q, nb), chunk2mem(q)), U, sz, nb)
<1>1. p \in V /\ p \in C /\ DOMAIN g = Fields
  BY DEF Sound, Layout, Parted
<1>2. p \in Nat /\ s[p] \in Nat /\ Eight(s[p]) /\ chunksize(g, p) = s[p]
  BY <1>1, ChunkFacts DEF Sound, ChunkAt, WordsAt
<1> DEFINE f == Aligned(g, p, q, nb)
<1>3. CASE q = p
  <2>1. f = TrimmedTail(g, p, nb)
    BY <1>3 DEF Aligned, TrimmedTail
  <2>2. nb <= s[p]
    BY <1>2
  <2>3. Keeps(g, TrimmedTail(g, p, nb), V, s, p, nb)
    BY <1>1, <2>2, TrimmedKeeps
  <2> HIDE DEF f
  <2>4. PICK D, t : Sound(f, D, V, t) /\ Status(g, f) /\ (\A u \in V : u # p => t[u] = s[u]) /\ t[p] >= nb
    BY <2>1, <2>3 DEF Keeps
  <2>5. ~f.broken /\ \A u \in U : t[u] = sz[u]
    BY <2>4 DEF Status
  <2>6. Got(Answer(f, chunk2mem(p)), U, sz, nb)
    BY <1>1, <2>4, <2>5, GotAnswer
  <2> QED
    BY <1>3, <2>6 DEF f
<1>4. CASE q # p
  <2> DEFINE d == q - p
             e == set_inuse(set_inuse(g, q, s[p] - d), p, d)
             X == V \cup {q}
             W == U \cup {q}
  <2>1. q \in Nat /\ d \in Nat /\ Eight(d) /\ d >= 16 /\ d <= a + 8 /\ p + d = q
    BY <1>2, <1>4 DEF AlignedAt
  <2> HIDE DEF d
  <2>2. s[p] - d >= nb /\ s[p] - d >= 16 /\ s[p] > d
    BY <1>2, <2>1
  <2>3. Halves(g, e, p, d, s[p])
    <3>1. Halves(g, set_inuse(set_inuse(g, p + d, s[p] - d), p, d), p, d, s[p])
      BY <1>1, <1>2, <2>1, <2>2, HalvesBack
    <3> QED
      BY <2>1, <3>1
  <2> HIDE DEF e
  <2>4. CutAt(g, e, V, s, p, d)
    BY <1>1, <2>1, <2>2, <2>3, HalvedSound
  <2>5. PICK D, t : /\ Sound(e, D, V \cup {q}, t) /\ Status(g, e) /\ q \notin V
                    /\ \A u \in V : u # p => t[u] = s[u]
                    /\ t[q] = s[p] - d
    BY <2>1, <2>4 DEF CutAt
  <2>6. Sound(e, D, X, t) /\ ~e.broken /\ q \in X /\ p \in X /\ X \ {p} = W /\ nb <= t[q]
    BY <1>1, <2>2, <2>5 DEF Status
  <2> HIDE DEF X
  <2>7. Keeps(e, TrimmedEnds(e, p, q, nb), X \ {p}, t, q, nb)
    <3>1. p # q /\ Sound(e, D, X, t) /\ ~e.broken /\ q \in X /\ p \in X /\ nb <= t[q]
      BY <1>4, <2>6
    <3> QED
      BY <3>1, TrimmedKeeps
  <2>8. f = TrimmedEnds(e, p, q, nb)
    BY <1>2, <1>4 DEF Aligned, TrimmedEnds, e, d
  <2> HIDE DEF f, W
  <2>9. PICK E, r : Sound(f, E, W, r) /\ Status(e, f) /\ (\A u \in W : u # q => r[u] = t[u]) /\ r[q] >= nb
    BY <2>6, <2>7, <2>8 DEF Keeps
  <2>10. ~f.broken /\ q \in W /\ \A u \in U : r[u] = sz[u]
    BY <2>5, <2>6, <2>9 DEF Status, W
  <2>11. Got(Answer(f, chunk2mem(q)), U, sz, nb)
    BY <2>9, <2>10, GotAnswer DEF W
  <2> QED
    BY <2>11 DEF f
<1> QED
  BY <1>3, <1>4

\* memalign returns NULL, or a block that is aligned as was asked for and has room.
LEMMA MemalignResult ==
    ASSUME NEW g, NEW C, NEW U, NEW sz, Ready(g, C, U, sz), ~g.broken,
           NEW alignment \in 0 .. HALF_MAX_SIZE_T + 1, NEW bytes \in Nat
    PROVE  Result(internal_memalign(g, alignment, bytes), U, sz, bytes + 4)
<1> DEFINE a == PowerOfTwo(alignment)
           nb == request2size(bytes)
           req == nb + a + MIN_CHUNK_SIZE - CHUNK_OVERHEAD
           u == dlmalloc(g, req)
           p == mem2chunk(u.ret)
           q == AlignedChunk(p, a)
           f == internal_memalign(g, alignment, bytes)
<1>1. a \in Nat /\ Eight(a) /\ a >= 16
  BY PowerOfTwoIs
<1>2. nb \in Nat /\ Eight(nb) /\ nb >= 16 /\ nb >= bytes + 4
  BY Pads
<1>3. f = IF alignment <= 8 THEN dlmalloc(g, bytes)
          ELSE IF bytes >= MAX_REQUEST - a THEN Answer(g, 0)
          ELSE IF u.broken THEN u ELSE IF u.ret = 0 THEN u
          ELSE Answer(Aligned(u, p, q, nb), chunk2mem(q))
  BY DEF internal_memalign, Then, Aligned
<1> HIDE DEF a, nb
<1>4. req \in Nat /\ req = nb + a + 12
  BY <1>1, <1>2 DEF MIN_CHUNK_SIZE, CHUNK_OVERHEAD
<1> HIDE DEF req
<1>5. CASE alignment <= 8
  <2>1. Result(dlmalloc(g, bytes), U, sz, bytes + 4)
    BY MallocResult
  <2> QED
    BY <1>3, <1>5, <2>1
<1>6. CASE ~(alignment <= 8) /\ bytes >= MAX_REQUEST - a
  <2>1. Refused(Answer(g, 0), U, sz)
    <3> DEFINE e == Answer(g, 0)
    <3>1. e.ret = 0 /\ e.broken = g.broken /\ DOMAIN e = Fields /\ Tops(g, e) /\ Bins(g, e) /\ e.mem = g.mem
      <4>1. DOMAIN g = Fields
        BY DEF Ready, Sound, Layout, Fresh
      <4> QED
        BY <4>1 DEF Answer, Fields, Tops, Bins
    <3> HIDE DEF e
    <3>2. Ready(e, C, U, sz)
      BY <3>1, ReadySame
    <3>3. \A v \in U : sz[v] = sz[v]
      OBVIOUS
    <3> QED
      BY <3>1, <3>2, <3>3 DEF Refused, IsReady, e
  <2> QED
    BY <1>3, <1>6, <2>1 DEF Result
<1>7. CASE ~(alignment <= 8) /\ ~(bytes >= MAX_REQUEST - a)
  <2>1. Outcome(u, U, sz, req + 4)
    BY <1>4, MallocOutcome
  <2>2. f = IF u.broken THEN u ELSE IF u.ret = 0 THEN u ELSE Answer(Aligned(u, p, q, nb), chunk2mem(q))
    BY <1>3, <1>7
  <2> HIDE DEF u, f
  <2>3. CASE u.broken
    BY <2>2, <2>3 DEF Result, f
  <2>4. CASE ~u.broken /\ Refused(u, U, sz)
    BY <2>2, <2>4 DEF Result, Refused, f
  <2>5. CASE ~u.broken /\ Served(u, U, sz, req + 4)
    <3>1. PICK D, s, r : /\ r \notin U /\ Sound(u, D, U \cup {r}, s) /\ \A v \in U : s[v] = sz[v]
                         /\ s[r] >= req + 4 /\ u.ret = r + 8
      BY <2>5 DEF Served
    <3> DEFINE V == U \cup {r}
    <3>2. Sound(u, D, V, s) /\ r \in V
      BY <3>1
    <3> HIDE DEF V
    <3>3. r \in D
      BY <3>2 DEF Sound, Layout, Parted
    <3>4. r \in Nat /\ Eight(r) /\ s[r] \in Nat
      BY <3>2, <3>3, ChunkFacts DEF Sound, ChunkAt
    <3>5. p = r /\ u.ret # 0
      BY <3>1, <3>4 DEF mem2chunk
    <3> HIDE DEF p
    <3>6. AlignedAt(p, a, q)
      BY <1>1, <3>4, <3>5, AlignedChunkIs
    <3> HIDE DEF q
    <3>7. s[p] >= nb + a + 16
      BY <1>1, <1>2, <1>4, <3>1, <3>4, <3>5
    <3>8. Got(Answer(Aligned(u, p, q, nb), chunk2mem(q)), U, sz, nb)
      BY <1>1, <1>2, <2>5, <3>1, <3>2, <3>5, <3>6, <3>7, AlignedGot DEF V
    <3>9. Got(f, U, sz, nb)
      BY <2>2, <2>5, <3>5, <3>8
    <3>10. Got(f, U, sz, bytes + 4)
      BY <1>2, <3>9, GotLess
    <3> QED
      BY <3>10 DEF Result, f
  <2> QED
    BY <2>1, <2>3, <2>4, <2>5 DEF Outcome, f
<1> QED
  BY <1>5, <1>6, <1>7

-----------------------------------------------------------------------------
(* independent_calloc and independent_comalloc. *)

\* Pieces one behind the other: off[i] is where the i-th begins, len[i] its size.
RowOf(m, off, len, all) ==
    /\ m \in Nat /\ m >= 1 /\ off[1] = 0 /\ off[m] + len[m] = all
    /\ \A i \in 1 .. m : off[i] \in Nat /\ Eight(off[i]) /\ len[i] \in Nat /\ Eight(len[i]) /\ len[i] >= 16
    /\ \A i \in 1 .. m - 1 : off[i + 1] = off[i] + len[i]
    /\ \A i, j \in 1 .. m : i < j => off[i] + len[i] <= off[j]
Starts(m, off, x) == {x + off[i] : i \in 1 .. m}
Lengths(m, off, len, x) == [p \in Starts(m, off, x) |-> len[CHOOSE i \in 1 .. m : p = x + off[i]]]

\* Pieces in a row cut a chunk from its beginning to its end.
LEMMA RowPieces ==
    ASSUME NEW m, NEW off, NEW len, NEW all, RowOf(m, off, len, all), NEW x \in Nat, Eight(x)
    PROVE  /\ Pieces(Starts(m, off, x), Lengths(m, off, len, x), x, x + all)
           /\ \A i \in 1 .. m : x + off[i] \in Starts(m, off, x) /\ Lengths(m, off, len, x)[x + off[i]] = len[i]
<1> DEFINE P == Starts(m, off, x)
           t == Lengths(m, off, len, x)
           e == x + all
<1>1. /\ m \in Nat /\ m >= 1 /\ off[1] = 0 /\ off[m] + len[m] = all
      /\ \A i \in 1 .. m : off[i] \in Nat /\ Eight(off[i]) /\ len[i] \in Nat /\ Eight(len[i]) /\ len[i] >= 16
      /\ \A i \in 1 .. m - 1 : off[i + 1] = off[i] + len[i]
      /\ \A i, j \in 1 .. m : i < j => off[i] + len[i] <= off[j]
  BY DEF RowOf
<1>2. \A i, j \in 1 .. m : off[i] = off[j] => i = j
  <2> SUFFICES ASSUME NEW i \in 1 .. m, NEW j \in 1 .. m, off[i] = off[j], i # j PROVE FALSE
    OBVIOUS
  <2>1. off[i] \in Nat /\ off[j] \in Nat /\ len[i] \in Nat /\ len[j] \in Nat /\ len[i] >= 16 /\ len[j] >= 16
    BY <1>1
  <2>2. CASE i < j
    <3>1. off[i] + len[i] <= off[j]
      BY <1>1, <2>2
    <3> QED
      BY <2>1, <3>1
  <2>3. CASE j < i
    <3>1. off[j] + len[j] <= off[i]
      BY <1>1, <2>3
    <3> QED
      BY <2>1, <3>1
  <2> QED
    BY <2>2, <2>3
<1>3. ASSUME NEW i \in 1 .. m PROVE x + off[i] \in P /\ t[x + off[i]] = len[i]
  <2> DEFINE p == x + off[i]
             k == CHOOSE j \in 1 .. m : p = x + off[j]
  <2>1. p \in P
    BY DEF Starts
  <2>2. k \in 1 .. m /\ p = x + off[k]
    BY <1>3
  <2> HIDE DEF k
  <2>3. off[k] = off[i]
    BY <1>1, <2>2
  <2>4. k = i
    BY <1>2, <2>2, <2>3
  <2>5. t[p] = len[k]
    BY <2>1 DEF Lengths, k
  <2> QED
    BY <2>1, <2>4, <2>5
<1>4. \A p \in P : \E i \in 1 .. m : p = x + off[i]
  BY DEF Starts
<1> HIDE DEF P, t, e
<1>5. x \in P
  <2>1. 1 \in 1 .. m /\ x + off[1] = x
    BY <1>1
  <2> QED
    BY <1>3, <2>1
<1>6. ASSUME NEW p \in P
      PROVE  /\ p \in Nat /\ Eight(p) /\ x <= p /\ t[p] \in Nat /\ Eight(t[p]) /\ t[p] >= 16
             /\ p + t[p] \in P \cup {e} /\ p + t[p] <= e
  <2>1. PICK i \in 1 .. m : p = x + off[i]
    BY <1>4
  <2>2. t[p] = len[i] /\ off[i] \in Nat /\ Eight(off[i]) /\ len[i] \in Nat /\ Eight(len[i]) /\ len[i] >= 16
    BY <1>1, <1>3, <2>1
  <2>3. p \in Nat /\ x <= p
    BY <2>1, <2>2
  <2>4. Eight(p)
    <3> DEFINE o == off[i]
    <3>1. o \in Nat /\ Eight(o) /\ p = x + o
      BY <2>1, <2>2
    <3> HIDE DEF o
    <3> QED
      BY <3>1, Eights
  <2>5. CASE i = m
    <3>1. p + t[p] = e
      BY <1>1, <2>1, <2>2, <2>5 DEF e
    <3> QED
      BY <2>2, <2>3, <2>4, <3>1
  <2>6. CASE i # m
    <3>1. i + 1 \in 1 .. m /\ i \in 1 .. m - 1
      BY <1>1, <2>6
    <3>2. off[i + 1] = off[i] + len[i] /\ off[i + 1] \in Nat
      BY <1>1, <3>1
    <3>3. p + t[p] = x + off[i + 1]
      BY <2>1, <2>2, <3>2
    <3>4. p + t[p] \in P
      BY <1>3, <3>1, <3>3
    <3>5. off[i + 1] <= all
      <4>1. off[m] \in Nat /\ len[m] \in Nat /\ all = off[m] + len[m] /\ len[i + 1] \in Nat
        BY <1>1, <3>1
      <4>2. i + 1 = m \/ off[i + 1] + len[i + 1] <= off[m]
        <5>1. i + 1 = m \/ i + 1 < m
          BY <1>1, <3>1
        <5> QED
          BY <1>1, <3>1, <5>1
      <4> QED
        BY <3>2, <4>1, <4>2
    <3>6. all \in Nat
      BY <1>1
    <3> QED
      BY <2>2, <2>3, <2>4, <3>2, <3>3, <3>4, <3>5, <3>6 DEF e
  <2> QED
    BY <2>5, <2>6
<1>7. ASSUME NEW p \in P, NEW q \in P, p < q PROVE p + t[p] <= q
  <2>1. PICK i \in 1 .. m, j \in 1 .. m : p = x + off[i] /\ q = x + off[j]
    BY <1>4
  <2>2. /\ off[i] \in Nat /\ off[j] \in Nat /\ len[i] \in Nat /\ len[j] \in Nat /\ t[p] = len[i]
    BY <1>1, <1>3, <2>1
  <2>3. off[i] < off[j]
    BY <1>7, <2>1, <2>2
  <2>4. i < j
    <3>1. i = j => off[i] = off[j]
      OBVIOUS
    <3>2. j < i => off[j] + len[j] <= off[i]
      BY <1>1
    <3> QED
      BY <2>2, <2>3, <3>1, <3>2
  <2>5. off[i] + len[i] <= off[j]
    BY <1>1, <2>4
  <2> QED
    BY <2>1, <2>2, <2>5
<1>8. ASSUME NEW p \in P \cup {e}, p # x PROVE \E q \in P : q + t[q] = p
  <2>1. CASE p = e
    <3>1. m \in 1 .. m /\ off[m] \in Nat /\ len[m] \in Nat /\ off[m] + len[m] = all
      BY <1>1
    <3>2. x + off[m] \in P /\ t[x + off[m]] = len[m]
      BY <1>3, <3>1
    <3>3. (x + off[m]) + len[m] = e
      BY <3>1 DEF e
    <3> QED
      BY <2>1, <3>2, <3>3
  <2>2. CASE p \in P
    <3>1. PICK i \in 1 .. m : p = x + off[i]
      BY <1>4, <2>2
    <3>2. i # 1
      BY <1>1, <1>8, <3>1
    <3> DEFINE j == i - 1
    <3>3. j \in 1 .. m /\ j \in 1 .. m - 1 /\ j + 1 = i
      BY <1>1, <3>2
    <3> HIDE DEF j
    <3>4. off[i] = off[j] + len[j] /\ off[j] \in Nat /\ len[j] \in Nat
      BY <1>1, <3>3
    <3>5. x + off[j] \in P /\ t[x + off[j]] = len[j]
      BY <1>3, <3>3
    <3>6. (x + off[j]) + len[j] = p
      BY <3>1, <3>4
    <3> QED
      BY <3>5, <3>6
  <2> QED
    BY <2>1, <2>2
<1>9. Pieces(P, t, x, e)
  BY <1>5, <1>6, <1>7, <1>8 DEF Pieces
<1> QED
  BY <1>3, <1>9 DEF P, t, e

\* A chunk in use is cut into chunks in use.
CutInto(f, C, V, sz, x, P, t) ==
    LET s == CutSizes(sz, C, P, t)
    IN  Sound(f, C \cup P, V \cup P, s) /\ (\A p \in P : s[p] = t[p]) /\ \A u \in V : u # x => s[u] = sz[u]

\* The heads of the pieces are all it takes.
LEMMA CutSound ==
    ASSUME NEW g, NEW C, NEW V, NEW sz, Sound(g, C, V, sz), NEW x \in V, Word(g, x + 4).pinuse,
           NEW P, NEW t, Pieces(P, t, x, x + sz[x]),
           NEW f, DOMAIN f = Fields, Tops(g, f), Bins(g, f), CutWords(g, f, P, t)
    PROVE  CutInto(f, C, V, sz, x, P, t)
<1> DEFINE s == CutSizes(sz, C, P, t)
           D == C \cup P
           W == V \cup P
<1>1. Layout(g, C, V, sz, {}) /\ x \in C /\ V \subseteq C /\ Tiled(C, sz, g.top) /\ Shelved(g, C \ V, sz)
  BY DEF Sound, Layout, Parted
<1>2. Layout(f, D, W, s, {})
  BY <1>1, LayoutCut
<1>3. \A p \in C : p \in P => p = x
  BY <1>1, TiledCut
<1>4. (\A p \in P : s[p] = t[p]) /\ \A p \in C : p # x => s[p] = sz[p]
  BY <1>3 DEF CutSizes
<1> HIDE DEF s
<1>5. D \ W = C \ V
  BY <1>1, <1>3
<1>6. Shelved(f, C \ V, s)
  <2> DEFINE F == C \ V
  <2>1. Shelved(g, F, sz) /\ \A p \in F : s[p] = sz[p]
    BY <1>1, <1>4
  <2> HIDE DEF F
  <2> QED
    BY <2>1, ShelvedSame DEF F
<1>7. Sound(f, D, W, s)
  <2> HIDE DEF D, W
  <2> QED
    BY <1>2, <1>5, <1>6 DEF Sound
<1> QED
  BY <1>1, <1>4, <1>7 DEF s, CutInto

\* The elements of a group, and the array behind them when m is one more.
Offs(sizes, m) == [i \in 1 .. m |-> Offset(sizes, i)]
Lens(sizes, m, all) == [i \in 1 .. m |-> IF i = m THEN all - Offset(sizes, m) ELSE request2size(sizes[i])]

\* The elements of a group are in a row behind one another.
LEMMA GroupRow ==
    ASSUME NEW sizes \in Seq(Nat), NEW m \in 1 .. Len(sizes) + 1, NEW all \in Nat, Eight(all), Offset(sizes, m) + 16 <= all
    PROVE  RowOf(m, Offs(sizes, m), Lens(sizes, m, all), all)
<1> DEFINE k == Len(sizes)
           off == Offs(sizes, m)
           len == Lens(sizes, m, all)
<1>1. k \in Nat /\ m \in Nat /\ m >= 1 /\ m <= k + 1 /\ \A i \in 1 .. k : sizes[i] \in Nat
  OBVIOUS
<1>2. Offset(sizes, 1) = 0 /\ \A i \in 1 .. k : Offset(sizes, i + 1) = Offset(sizes, i) + request2size(sizes[i])
  BY <1>1, OffsetUnfolds
<1>3. \A j \in 1 .. k + 1 : OffsetsAre(sizes, j)
  BY Offsets
<1> HIDE DEF k
<1>4. \A i \in 1 .. m : off[i] = Offset(sizes, i) /\ off[i] \in Nat /\ Eight(off[i])
  BY <1>1, <1>3 DEF Offs, OffsetsAre
<1>5. \A i \in 1 .. m : i # m => len[i] = request2size(sizes[i])
  BY DEF Lens
<1>6. m \in 1 .. m /\ len[m] = all - off[m] /\ off[m] + 16 <= all
  BY <1>1, <1>4 DEF Lens
<1> HIDE DEF off, len
<1>7. len[m] \in Nat /\ Eight(len[m]) /\ len[m] >= 16 /\ off[m] + len[m] = all
  <2> DEFINE o == off[m]
  <2>1. o \in Nat /\ Eight(o) /\ len[m] = all - o /\ o + 16 <= all
    BY <1>4, <1>6
  <2> HIDE DEF o
  <2>2. Eight(all - o) /\ all - o \in Nat /\ all - o >= 16 /\ o + (all - o) = all
    BY <2>1, Eights
  <2> QED
    BY <2>1, <2>2 DEF o
<1>8. \A i \in 1 .. m : len[i] \in Nat /\ Eight(len[i]) /\ len[i] >= 16
  <2> SUFFICES ASSUME NEW i \in 1 .. m, i # m PROVE len[i] \in Nat /\ Eight(len[i]) /\ len[i] >= 16
    BY <1>7
  <2>1. i \in 1 .. k
    BY <1>1
  <2>2. sizes[i] \in Nat
    BY <1>1, <2>1
  <2> QED
    BY <1>5, <2>2, Pads
<1>9. \A i \in 1 .. m - 1 : off[i + 1] = off[i] + len[i]
  <2> TAKE i \in 1 .. m - 1
  <2>1. i \in 1 .. k /\ i \in 1 .. m /\ i + 1 \in 1 .. m /\ i # m
    BY <1>1
  <2> QED
    BY <1>2, <1>4, <1>5, <2>1
<1>10. \A i, j \in 1 .. m : i < j => off[i] + len[i] <= off[j]
  <2> SUFFICES ASSUME NEW i \in 1 .. m, NEW j \in 1 .. m, i < j PROVE off[i] + len[i] <= off[j]
    OBVIOUS
  <2>1. i # m /\ i \in 1 .. j - 1 /\ j \in 1 .. k + 1
    BY <1>1
  <2>2. Offset(sizes, i) + request2size(sizes[i]) <= Offset(sizes, j)
    BY <1>3, <2>1 DEF OffsetsAre
  <2> QED
    BY <1>4, <1>5, <2>1, <2>2
<1>11. off[1] = 0
  BY <1>1, <1>2, <1>4
<1> QED
  BY <1>1, <1>7, <1>8, <1>4, <1>9, <1>10, <1>11 DEF RowOf, off, len

\* What Cut writes.
CutLen(sizes, total, i) == IF i = Len(sizes) THEN total - Offset(sizes, i) ELSE request2size(sizes[i])
CutIs(g, f, x, sizes, total) ==
    /\ MemoryOnly(g, f)
    /\ \A i \in 1 .. Len(sizes) : Word(f, x + Offset(sizes, i) + 4) = HeadWord(CutLen(sizes, total, i), TRUE, TRUE)
    /\ \A a : (\A i \in 1 .. Len(sizes) : a # x + Offset(sizes, i) + 4) => Word(f, a) = Word(g, a)

\* Cut writes the heads of the elements and nothing else.
LEMMA CutWrites ==
    ASSUME NEW g, DOMAIN g = Fields, NEW x \in Nat, NEW sizes \in Seq(Nat), NEW total
    PROVE  CutIs(g, Cut(g, x, sizes, total), x, sizes, total)
<1> DEFINE k == Len(sizes)
           A == {x + Offset(sizes, i) + 4 : i \in 1 .. k}
           at(a) == CHOOSE j \in 1 .. k : a = x + Offset(sizes, j) + 4
           new == [a \in A |-> HeadWord(CutLen(sizes, total, at(a)), TRUE, TRUE)]
           f == [g EXCEPT !.mem = Over(new, g.mem)]
<1>1. DOMAIN sizes = 1 .. k /\ k \in Nat
  OBVIOUS
<1>2. Cut(g, x, sizes, total) = f
  BY <1>1 DEF Cut, CutLen
<1>3. MemoryOnly(g, f) /\ f.mem = Over(new, g.mem)
  BY MemorySet
<1> HIDE DEF f
<1>4. DOMAIN new = A
  OBVIOUS
<1>5. \A a : a \notin A => Word(f, a) = Word(g, a)
  <2> HIDE DEF new, A
  <2> QED
    BY <1>3, <1>4 DEF Word, Over
<1>6. \A i, j \in 1 .. k : Offset(sizes, i) = Offset(sizes, j) => i = j
  <2> SUFFICES ASSUME NEW i \in 1 .. k, NEW j \in 1 .. k, i < j PROVE Offset(sizes, i) < Offset(sizes, j)
    <3>1. \A i, j \in 1 .. k : i < j => Offset(sizes, i) < Offset(sizes, j)
      OBVIOUS
    <3>2. \A i \in 1 .. k : Offset(sizes, i) \in Nat
      BY <1>1, Offsets DEF OffsetsAre
    <3> HIDE DEF k
    <3> QED
      BY <1>1, <3>1, <3>2
  <2>1. j \in 1 .. k + 1 /\ i \in 1 .. j - 1 /\ sizes[i] \in Nat
    BY <1>1
  <2>2. Offset(sizes, i) \in Nat /\ Offset(sizes, i) + request2size(sizes[i]) <= Offset(sizes, j) /\ Offset(sizes, j) \in Nat
    BY <2>1, Offsets DEF OffsetsAre
  <2>3. request2size(sizes[i]) \in Nat /\ request2size(sizes[i]) >= 16
    BY <2>1, Pads
  <2> QED
    BY <2>2, <2>3
<1>7. ASSUME NEW i \in 1 .. k PROVE Word(f, x + Offset(sizes, i) + 4) = HeadWord(CutLen(sizes, total, i), TRUE, TRUE)
  <2> DEFINE a == x + Offset(sizes, i) + 4
             j == at(a)
  <2>1. a \in A
    OBVIOUS
  <2>2. j \in 1 .. k /\ a = x + Offset(sizes, j) + 4
    BY <1>7
  <2> HIDE DEF j
  <2>3. Offset(sizes, j) \in Nat /\ Offset(sizes, i) \in Nat
    BY <1>1, <2>2, Offsets DEF OffsetsAre
  <2>4. j = i
    BY <1>6, <2>2, <2>3
  <2>5. new[a] = HeadWord(CutLen(sizes, total, j), TRUE, TRUE)
    BY <2>1 DEF j
  <2>6. Word(f, a) = new[a]
    <3> HIDE DEF new, a, A
    <3> QED
      BY <1>3, <1>4, <2>1 DEF Word, Over
  <2> QED
    BY <2>4, <2>5, <2>6
<1>8. \A a : (\A i \in 1 .. k : a # x + Offset(sizes, i) + 4) => Word(f, a) = Word(g, a)
  BY <1>5
<1> HIDE DEF new, A
<1> QED
  BY <1>2, <1>3, <1>7, <1>8 DEF CutIs

\* A chunk in use becomes the chunks of a group.
GroupCut(v, f, x, sizes, m, all) ==
    /\ MemoryOnly(v, f)
    /\ \A i \in 1 .. m : Word(f, x + Offset(sizes, i) + 4) = HeadWord(Lens(sizes, m, all)[i], TRUE, TRUE)
    /\ \A a : (\A i \in 1 .. m : a # x + Offset(sizes, i) + 4) => Word(f, a) = Word(v, a)
Grouped(f, V, s, r, sizes, m) ==
    \E E, W, t : /\ Sound(f, E, W, t) /\ V \subseteq W /\ \A u \in V : u # r => t[u] = s[u]
                 /\ \A i \in 1 .. m : r + Offset(sizes, i) \in W /\ t[r + Offset(sizes, i)] = Lens(sizes, m, s[r])[i]

\* After the cut every element, and the array behind them, is a chunk in use.
LEMMA GroupSound ==
    ASSUME NEW v, NEW D, NEW V, NEW s, Sound(v, D, V, s), NEW r \in V, Word(v, r + 4).pinuse,
           NEW sizes \in Seq(Nat), NEW m \in 1 .. Len(sizes) + 1, Offset(sizes, m) + 16 <= s[r],
           NEW f, GroupCut(v, f, r, sizes, m, s[r])
    PROVE  Grouped(f, V, s, r, sizes, m)
<1> DEFINE all == s[r]
           off == Offs(sizes, m)
           len == Lens(sizes, m, all)
           P == Starts(m, off, r)
           t == Lengths(m, off, len, r)
<1>1. r \in D
  BY DEF Sound, Layout, Parted
<1>2. r \in Nat /\ Eight(r) /\ all \in Nat /\ Eight(all)
  BY <1>1, ChunkFacts DEF Sound, ChunkAt
<1>3. RowOf(m, off, len, all)
  <2> HIDE DEF all
  <2>1. Offset(sizes, m) + 16 <= all
    BY DEF all
  <2> QED
    BY <1>2, <2>1, GroupRow
<1>4. /\ Pieces(P, t, r, r + all)
      /\ \A i \in 1 .. m : r + off[i] \in P /\ t[r + off[i]] = len[i]
  <2> HIDE DEF off, len, all
  <2> QED
    BY <1>2, <1>3, RowPieces
<1>5. \A i \in 1 .. m : off[i] = Offset(sizes, i)
  BY DEF Offs
<1>6. \A p \in P : \E i \in 1 .. m : p = r + off[i]
  BY DEF Starts
<1>7. /\ MemoryOnly(v, f)
      /\ \A i \in 1 .. m : Word(f, r + Offset(sizes, i) + 4) = HeadWord(len[i], TRUE, TRUE)
      /\ \A a : (\A i \in 1 .. m : a # r + Offset(sizes, i) + 4) => Word(f, a) = Word(v, a)
  BY DEF GroupCut
<1> HIDE DEF off, len, P, t
<1>8. CutWords(v, f, P, t)
  <2>1. \A p \in P : Word(f, p + 4) = HeadWord(t[p], TRUE, TRUE)
    <3> TAKE p \in P
    <3>1. PICK i \in 1 .. m : p = r + off[i]
      BY <1>6
    <3>2. t[p] = len[i] /\ off[i] = Offset(sizes, i)
      BY <1>4, <1>5, <3>1
    <3> QED
      BY <1>7, <3>1, <3>2
  <2>2. \A a : (\A p \in P : a # p + 4) => Word(f, a) = Word(v, a)
    <3> TAKE a
    <3> HAVE \A p \in P : a # p + 4
    <3>1. \A i \in 1 .. m : a # r + Offset(sizes, i) + 4
      BY <1>4, <1>5
    <3> QED
      BY <1>7, <3>1
  <2> QED
    BY <2>1, <2>2 DEF CutWords
<1> DEFINE W == V \cup P
           E == D \cup P
           z == CutSizes(s, D, P, t)
<1>9. Sound(f, E, W, z) /\ (\A p \in P : z[p] = t[p]) /\ \A u \in V : u # r => z[u] = s[u]
  <2>1. DOMAIN f = Fields /\ Tops(v, f) /\ Bins(v, f)
    BY <1>7 DEF MemoryOnly
  <2>2. Pieces(P, t, r, r + s[r])
    BY <1>4
  <2>3. CutInto(f, D, V, s, r, P, t)
    BY <1>8, <2>1, <2>2, CutSound
  <2> QED
    BY <2>3 DEF CutInto
<1>10. V \subseteq W
  OBVIOUS
<1>11. \A i \in 1 .. m : r + Offset(sizes, i) \in W /\ z[r + Offset(sizes, i)] = len[i]
  <2> TAKE i \in 1 .. m
  <2>1. r + off[i] \in P /\ t[r + off[i]] = len[i] /\ off[i] = Offset(sizes, i)
    BY <1>4, <1>5
  <2> HIDE DEF z
  <2> QED
    BY <1>9, <2>1 DEF W
<1> HIDE DEF W, E, z
<1> QED
  BY <1>9, <1>10, <1>11 DEF Grouped, len, all

\* With the caller's array, and with one behind the elements.
LEMMA GivenCut ==
    ASSUME NEW v, DOMAIN v = Fields, NEW r \in Nat, NEW sizes \in Seq(Nat), NEW all
    PROVE  GroupCut(v, Cut(v, r, sizes, all), r, sizes, Len(sizes), all)
<1> DEFINE k == Len(sizes)
           f == Cut(v, r, sizes, all)
<1>1. CutIs(v, f, r, sizes, all)
  BY CutWrites
<1> HIDE DEF f
<1>2. \A i \in 1 .. k : CutLen(sizes, all, i) = Lens(sizes, k, all)[i]
  BY DEF CutLen, Lens
<1> QED
  BY <1>1, <1>2 DEF CutIs, GroupCut, f

\* The head of the array is written before those of the elements.
LEMMA ArrayCut ==
    ASSUME NEW v, DOMAIN v = Fields, NEW r \in Nat, NEW sizes \in Seq(Nat), NEW all
    PROVE  LET contents == Offset(sizes, Len(sizes) + 1)
               e == set_size_and_pinuse_of_inuse_chunk(v, r + contents, all - contents)
           IN  GroupCut(v, Cut(e, r, sizes, contents), r, sizes, Len(sizes) + 1, all)
<1> DEFINE k == Len(sizes)
           contents == Offset(sizes, k + 1)
           e == SetHead(v, r + contents, all - contents, TRUE, TRUE)
           f == Cut(e, r, sizes, contents)
           len == Lens(sizes, k + 1, all)
<1>1. k \in Nat /\ \A i \in 1 .. k : sizes[i] \in Nat
  OBVIOUS
<1>2. SetsWord(v, e, r + contents, HeadWord(all - contents, TRUE, TRUE))
  BY SetHeadFlags
<1>3. \A i \in 1 .. k : Offset(sizes, i + 1) = Offset(sizes, i) + request2size(sizes[i])
  BY <1>1, OffsetUnfolds
<1>4. \A j \in 1 .. k + 1 : OffsetsAre(sizes, j)
  BY Offsets
<1> HIDE DEF k, e
<1>5. CutIs(e, f, r, sizes, contents)
  <2>1. DOMAIN e = Fields
    BY <1>2 DEF SetsWord, MemoryOnly
  <2> HIDE DEF contents
  <2> QED
    BY <2>1, CutWrites
<1> HIDE DEF f
<1>6. ASSUME NEW i \in 1 .. k
      PROVE  /\ CutLen(sizes, contents, i) = len[i] /\ Offset(sizes, i) \in Nat /\ Offset(sizes, i) < contents
  <2>1. i \in 1 .. (k + 1) - 1 /\ k + 1 \in 1 .. k + 1 /\ i \in 1 .. k + 1 /\ i # k + 1
    BY <1>1
  <2>2. /\ Offset(sizes, i) \in Nat /\ Offset(sizes, i) + request2size(sizes[i]) <= contents /\ contents \in Nat
    BY <1>4, <2>1 DEF OffsetsAre
  <2>3. request2size(sizes[i]) \in Nat /\ request2size(sizes[i]) >= 16
    BY <1>1, Pads
  <2>4. len[i] = request2size(sizes[i])
    BY <2>1 DEF Lens
  <2>5. i = k => contents = Offset(sizes, i) + request2size(sizes[i])
    BY <1>3
  <2>6. CutLen(sizes, contents, i) = IF i = k THEN contents - Offset(sizes, i) ELSE request2size(sizes[i])
    BY DEF CutLen, k
  <2> HIDE DEF len, contents
  <2> QED
    BY <2>2, <2>3, <2>4, <2>5, <2>6
<1>7. k + 1 \in 1 .. k + 1 /\ len[k + 1] = all - contents
  BY <1>1 DEF Lens
<1>8. contents \in Nat
  BY <1>4, <1>7 DEF OffsetsAre
<1>9. /\ MemoryOnly(e, f)
      /\ \A i \in 1 .. k : Word(f, r + Offset(sizes, i) + 4) = HeadWord(CutLen(sizes, contents, i), TRUE, TRUE)
      /\ \A a : (\A i \in 1 .. k : a # r + Offset(sizes, i) + 4) => Word(f, a) = Word(e, a)
  BY <1>5 DEF CutIs, k
<1>10. /\ MemoryOnly(v, e) /\ Word(e, r + contents + 4) = HeadWord(all - contents, TRUE, TRUE)
       /\ \A a : a # r + contents + 4 => Word(e, a) = Word(v, a)
  BY <1>2 DEF SetsWord
<1> HIDE DEF len
<1>11. MemoryOnly(v, f)
  BY <1>9, <1>10, MemoryTwice
<1>12. \A i \in 1 .. k + 1 : Word(f, r + Offset(sizes, i) + 4) = HeadWord(len[i], TRUE, TRUE)
  <2> TAKE i \in 1 .. k + 1
  <2>1. CASE i \in 1 .. k
    BY <1>6, <1>9, <2>1
  <2>2. CASE i = k + 1
    <3>1. \A j \in 1 .. k : r + contents + 4 # r + Offset(sizes, j) + 4
      <4> HIDE DEF contents
      <4> QED
        BY <1>6, <1>8
    <3>2. Word(f, r + contents + 4) = Word(e, r + contents + 4)
      BY <1>9, <3>1
    <3> QED
      BY <1>7, <1>10, <2>2, <3>2
  <2>3. i \in 1 .. k \/ i = k + 1
    <3>1. k \in Nat
      BY <1>1
    <3> QED
      BY <3>1
  <2> QED
    BY <2>1, <2>2, <2>3
<1>13. \A a : (\A i \in 1 .. k + 1 : a # r + Offset(sizes, i) + 4) => Word(f, a) = Word(v, a)
  <2> TAKE a
  <2> HAVE \A i \in 1 .. k + 1 : a # r + Offset(sizes, i) + 4
  <2>1. (\A i \in 1 .. k : a # r + Offset(sizes, i) + 4) /\ a # r + contents + 4
    BY <1>1, <1>7
  <2> QED
    BY <1>9, <1>10, <2>1
<1>14. GroupCut(v, f, r, sizes, k + 1, all)
  BY <1>11, <1>12, <1>13 DEF GroupCut, len
<1> QED
  BY <1>14 DEF set_size_and_pinuse_of_inuse_chunk, f, e, contents, k

\* A call leaves a heap on which the next can be made, and hands out blocks with room for
\* what was asked for.
RoomFor(V, s, b, n) == b \in Nat /\ b - 8 \in V /\ n \in Nat /\ n + 4 <= s[b - 8]
Handed(f, U, sz, parts, sizes) ==
    /\ ~f.broken
    /\ \E D, V, s : /\ Ready(f, D, V, s) /\ U \subseteq V /\ \A u \in U : s[u] = sz[u]
                    /\ \A i \in DOMAIN parts : RoomFor(V, s, parts[i], sizes[i])

\* The blocks of ialloc, and the array that holds their addresses.
Members(f, given) == IF given THEN f.parts ELSE f.parts \o <<f.ret>>
MemberSizes(sizes, given) == IF given THEN sizes ELSE sizes \o <<4 * Len(sizes)>>
PartsOf(v, sizes) == [i \in DOMAIN sizes |-> v.ret + Offset(sizes, i)]
GroupOf(v, sizes, given, all) == [Group(v, sizes, given, all) EXCEPT !.parts = PartsOf(v, sizes)]

\* What is known of the elements' sizes.
LEMMA GroupSizes ==
    ASSUME NEW sizes \in Seq(Nat), sizes # <<>>, NEW all \in Nat
    PROVE  LET k == Len(sizes)
               contents == Offset(sizes, k + 1)
           IN  /\ k \in Nat /\ k >= 1 /\ contents \in Nat /\ Offset(sizes, k) \in Nat /\ Offset(sizes, k) + 16 <= contents
               /\ request2size(4 * k) \in Nat /\ request2size(4 * k) >= 4 * k + 4 /\ request2size(4 * k) >= 16
               /\ \A i \in 1 .. k : /\ sizes[i] \in Nat /\ Offset(sizes, i) \in Nat
                                    /\ contents <= all => Lens(sizes, k, all)[i] >= sizes[i] + 4
                                    /\ Lens(sizes, k + 1, all)[i] >= sizes[i] + 4
<1> DEFINE k == Len(sizes)
           contents == Offset(sizes, k + 1)
<1>1. k \in Nat /\ k >= 1 /\ \A i \in 1 .. k : sizes[i] \in Nat
  <2>1. k \in Nat /\ \A i \in 1 .. k : sizes[i] \in Nat
    OBVIOUS
  <2>2. k # 0
    BY EmptySeq
  <2> QED
    BY <2>1, <2>2
<1>2. \A i \in 1 .. k : Offset(sizes, i + 1) = Offset(sizes, i) + request2size(sizes[i])
  BY <1>1, OffsetUnfolds
<1>3. \A j \in 1 .. k + 1 : OffsetsAre(sizes, j)
  BY Offsets
<1> HIDE DEF k
<1>4. \A i \in 1 .. k : request2size(sizes[i]) \in Nat /\ request2size(sizes[i]) >= 16 /\ request2size(sizes[i]) >= sizes[i] + 4
  BY <1>1, Pads
<1>5. k \in 1 .. k /\ k \in 1 .. k + 1 /\ k + 1 \in 1 .. k + 1 /\ \A i \in 1 .. k : i \in 1 .. k + 1 /\ i # k + 1
  BY <1>1
<1>6. contents \in Nat /\ \A i \in 1 .. k : Offset(sizes, i) \in Nat
  BY <1>3, <1>5 DEF OffsetsAre
<1>7. contents = Offset(sizes, k) + request2size(sizes[k])
  BY <1>2, <1>5
<1>8. 4 * k \in Nat
  BY <1>1
<1>9. request2size(4 * k) \in Nat /\ request2size(4 * k) >= 4 * k + 4 /\ request2size(4 * k) >= 16
  BY <1>8, Pads
<1>10. \A i \in 1 .. k : Lens(sizes, k + 1, all)[i] >= sizes[i] + 4
  <2> TAKE i \in 1 .. k
  <2>1. Lens(sizes, k + 1, all)[i] = request2size(sizes[i])
    BY <1>5 DEF Lens
  <2> QED
    BY <1>4, <2>1
<1> HIDE DEF contents
<1>11. \A i \in 1 .. k : contents <= all => Lens(sizes, k, all)[i] >= sizes[i] + 4
  <2> TAKE i \in 1 .. k
  <2> HAVE contents <= all
  <2>1. Lens(sizes, k, all)[i] = IF i = k THEN all - Offset(sizes, k) ELSE request2size(sizes[i])
    BY DEF Lens
  <2>2. CASE i = k
    BY SMTT(30), <1>1, <1>4, <1>5, <1>6, <1>7, <2>1, <2>2
  <2>3. CASE i # k
    BY <1>4, <2>1, <2>3
  <2> QED
    BY <2>2, <2>3
<1>12. Offset(sizes, k) \in Nat /\ Offset(sizes, k) + 16 <= contents
  BY <1>4, <1>5, <1>6, <1>7
<1> QED
  BY <1>1, <1>6, <1>9, <1>10, <1>11, <1>12 DEF k, contents

\* The caller has an array.
LEMMA GivenHanded ==
    ASSUME NEW v, NEW D, NEW V, NEW U, NEW s, NEW sz, NEW r, Sound(v, D, V, s), V = U \cup {r}, r \notin U,
           \A u \in U : s[u] = sz[u], ~v.broken, Word(v, r + 4).pinuse, v.ret = r + 8,
           NEW sizes \in Seq(Nat), sizes # <<>>, Offset(sizes, Len(sizes) + 1) <= s[r]
    PROVE  LET f == GroupOf(v, sizes, TRUE, s[r])
           IN  f.ret # 0 /\ Handed(f, U, sz, Members(f, TRUE), MemberSizes(sizes, TRUE))
<1> DEFINE k == Len(sizes)
           all == s[r]
           e == Cut(v, r, sizes, all)
           f == GroupOf(v, sizes, TRUE, all)
<1>1. r \in V /\ r \in D /\ DOMAIN v = Fields
  BY DEF Sound, Layout, Parted
<1>2. r \in Nat /\ all \in Nat
  BY <1>1, ChunkFacts DEF Sound, ChunkAt
<1>3. mem2chunk(v.ret) = r
  BY <1>2 DEF mem2chunk
<1>4. f = [e EXCEPT !.parts = PartsOf(v, sizes)]
  BY <1>3 DEF GroupOf, Group
<1>5. GroupCut(v, e, r, sizes, k, all)
  <2> HIDE DEF all
  <2> QED
    BY <1>1, <1>2, GivenCut
<1>6. /\ k \in Nat /\ k >= 1 /\ Offset(sizes, k) \in Nat /\ Offset(sizes, k) + 16 <= all
      /\ \A i \in 1 .. k : sizes[i] \in Nat /\ Offset(sizes, i) \in Nat /\ Lens(sizes, k, all)[i] >= sizes[i] + 4
  <2> HIDE DEF all
  <2>1. Offset(sizes, k + 1) <= all
    BY DEF all
  <2> QED
    BY <1>2, <2>1, GroupSizes
<1>7. DOMAIN e = Fields /\ Status(v, e)
  BY <1>5 DEF GroupCut, MemoryOnly
<1> HIDE DEF e
<1>8. Grouped(e, V, s, r, sizes, k)
  <2>1. k \in 1 .. Len(sizes) + 1
    BY <1>6
  <2> HIDE DEF k
  <2> QED
    BY <1>1, <1>5, <1>6, <2>1, GroupSound
<1>9. PICK E, W, t : /\ Sound(e, E, W, t) /\ V \subseteq W /\ \A u \in V : u # r => t[u] = s[u]
                     /\ \A i \in 1 .. k : /\ r + Offset(sizes, i) \in W
                                          /\ t[r + Offset(sizes, i)] = Lens(sizes, k, all)[i]
  BY <1>8 DEF Grouped
<1>10. DOMAIN f = Fields /\ Tops(e, f) /\ Bins(e, f) /\ f.mem = e.mem /\ f.broken = e.broken /\ f.ret = e.ret
  BY <1>4, <1>7 DEF Fields, Tops, Bins
<1>11. f.parts = PartsOf(v, sizes)
  BY <1>4, <1>7 DEF Fields
<1> HIDE DEF f
<1>12. Ready(f, E, W, t)
  BY <1>9, <1>10, ReadySame DEF Ready
<1>13. ~f.broken /\ f.ret = r + 8
  BY <1>7, <1>10 DEF Status
<1>14. U \subseteq W /\ \A u \in U : t[u] = sz[u]
  BY <1>9
<1>15. DOMAIN f.parts = 1 .. k /\ \A i \in 1 .. k : f.parts[i] = r + 8 + Offset(sizes, i)
  BY <1>11 DEF PartsOf
<1>16. \A i \in DOMAIN f.parts : RoomFor(W, t, f.parts[i], sizes[i])
  <2> TAKE i \in DOMAIN f.parts
  <2> DEFINE o == Offset(sizes, i)
             b == f.parts[i]
  <2>1. i \in 1 .. k /\ b = r + 8 + o /\ o \in Nat /\ r + o \in W /\ sizes[i] \in Nat /\ t[r + o] >= sizes[i] + 4
    BY <1>6, <1>9, <1>15
  <2> HIDE DEF o, b
  <2>2. b \in Nat /\ b - 8 = r + o
    BY SMTT(30), <1>2, <2>1
  <2>3. t[r + o] \in Int
    <3>1. r + o \in E
      BY <1>9, <2>1 DEF Sound, Layout, Parted
    <3> QED
      BY <1>9, <3>1, ChunkFacts DEF Sound, ChunkAt
  <2>4. sizes[i] + 4 <= t[b - 8]
    BY <2>1, <2>2, <2>3
  <2> QED
    BY <2>1, <2>2, <2>4 DEF RoomFor, b
<1>17. Handed(f, U, sz, f.parts, sizes)
  BY <1>12, <1>13, <1>14, <1>16 DEF Handed
<1>18. f.ret # 0
  BY <1>2, <1>13
<1> QED
  BY <1>17, <1>18 DEF Members, MemberSizes, f, all

\* The array is behind the elements.
LEMMA ArrayHanded ==
    ASSUME NEW v, NEW D, NEW V, NEW U, NEW s, NEW sz, NEW r, Sound(v, D, V, s), V = U \cup {r}, r \notin U,
           \A u \in U : s[u] = sz[u], ~v.broken, Word(v, r + 4).pinuse, v.ret = r + 8,
           NEW sizes \in Seq(Nat), sizes # <<>>,
           Offset(sizes, Len(sizes) + 1) + request2size(4 * Len(sizes)) <= s[r]
    PROVE  LET f == GroupOf(v, sizes, FALSE, s[r])
           IN  f.ret # 0 /\ Handed(f, U, sz, Members(f, FALSE), MemberSizes(sizes, FALSE))
<1> DEFINE k == Len(sizes)
           m == k + 1
           all == s[r]
           contents == Offset(sizes, k + 1)
           e == Cut(set_size_and_pinuse_of_inuse_chunk(v, r + contents, all - contents), r, sizes, contents)
           f == GroupOf(v, sizes, FALSE, all)
<1>1. r \in V /\ r \in D /\ DOMAIN v = Fields
  BY DEF Sound, Layout, Parted
<1>2. r \in Nat /\ all \in Nat
  BY <1>1, ChunkFacts DEF Sound, ChunkAt
<1>3. mem2chunk(v.ret) = r
  BY <1>2 DEF mem2chunk
<1>4. f = [Answer(e, chunk2mem(r + contents)) EXCEPT !.parts = PartsOf(v, sizes)]
  BY <1>3 DEF GroupOf, Group
<1>5. GroupCut(v, e, r, sizes, m, all)
  <2> HIDE DEF all
  <2> QED
    BY <1>1, <1>2, ArrayCut
<1>6. /\ k \in Nat /\ k >= 1 /\ contents \in Nat
      /\ request2size(4 * k) \in Nat /\ request2size(4 * k) >= 4 * k + 4 /\ request2size(4 * k) >= 16
      /\ \A i \in 1 .. k : sizes[i] \in Nat /\ Offset(sizes, i) \in Nat /\ Lens(sizes, m, all)[i] >= sizes[i] + 4
  <2> HIDE DEF all
  <2> QED
    BY <1>2, GroupSizes
<1>7. DOMAIN e = Fields /\ Status(v, e)
  BY <1>5 DEF GroupCut, MemoryOnly
<1>8. m \in Nat /\ m \in 1 .. Len(sizes) + 1 /\ m \in 1 .. m /\ \A i \in 1 .. m : i \in 1 .. k \/ i = m
  BY <1>6
<1>9. Lens(sizes, m, all)[m] = all - contents
  BY <1>8 DEF Lens
<1>10. contents + 16 <= all /\ all - contents >= 4 * k + 4 /\ contents + request2size(4 * k) <= all
  <2> DEFINE a == request2size(4 * k)
  <2>1. contents + a <= all
    OBVIOUS
  <2> HIDE DEF a, contents, k, all
  <2>2. a \in Nat /\ a >= 4 * k + 4 /\ a >= 16
    BY <1>6 DEF a
  <2> QED
    BY <1>2, <1>6, <2>1, <2>2 DEF a
<1> HIDE DEF e
<1>11. Grouped(e, V, s, r, sizes, m)
  <2>1. Offset(sizes, m) + 16 <= s[r]
    BY <1>10
  <2> HIDE DEF m
  <2> QED
    BY <1>1, <1>5, <1>8, <2>1, GroupSound
<1>12. PICK E, W, t : /\ Sound(e, E, W, t) /\ V \subseteq W /\ \A u \in V : u # r => t[u] = s[u]
                      /\ \A i \in 1 .. m : /\ r + Offset(sizes, i) \in W
                                           /\ t[r + Offset(sizes, i)] = Lens(sizes, m, all)[i]
  BY <1>11 DEF Grouped
<1>13. /\ DOMAIN f = Fields /\ Tops(e, f) /\ Bins(e, f) /\ f.mem = e.mem /\ f.broken = e.broken
       /\ f.ret = chunk2mem(r + contents)
  BY <1>4, <1>7 DEF Answer, Fields, Tops, Bins
<1>14. f.parts = PartsOf(v, sizes)
  BY <1>4, <1>7 DEF Answer, Fields
<1> HIDE DEF f
<1>15. Ready(f, E, W, t)
  BY <1>12, <1>13, ReadySame DEF Ready
<1>16. ~f.broken /\ f.ret = r + contents + 8
  BY <1>7, <1>13 DEF Status, chunk2mem
<1>17. U \subseteq W /\ \A u \in U : t[u] = sz[u]
  BY <1>12
<1>18. f.parts \in Seq(Nat) /\ Len(f.parts) = k /\ \A i \in 1 .. k : f.parts[i] = r + 8 + Offset(sizes, i)
  <2>1. PartsOf(v, sizes) = [i \in 1 .. k |-> r + 8 + Offset(sizes, i)]
    BY DEF PartsOf
  <2> DEFINE o(i) == r + 8 + Offset(sizes, i)
  <2> HIDE DEF k
  <2>2. \A i \in 1 .. k : o(i) \in Nat
    BY SMTT(30), <1>2, <1>6
  <2> HIDE DEF o
  <2>3. /\ [i \in 1 .. k |-> o(i)] \in Seq(Nat) /\ Len([i \in 1 .. k |-> o(i)]) = k
        /\ \A j \in 1 .. k : [i \in 1 .. k |-> o(i)][j] = o(j)
    BY <1>6, <2>2
  <2> QED
    BY <1>14, <2>1, <2>3 DEF o
<1> DEFINE ps == f.parts \o <<f.ret>>
           ns == sizes \o <<4 * k>>
<1>19. DOMAIN ps = 1 .. m /\ (\A i \in 1 .. k : ps[i] = r + 8 + Offset(sizes, i)) /\ ps[m] = r + contents + 8
  <2>1. Len(ps) = k + 1 /\ ps \in Seq(Nat)
    <3>1. f.ret \in Nat
      BY SMTT(30), <1>2, <1>6, <1>16
    <3> QED
      BY <1>18, <3>1
  <2>2. \A i \in 1 .. k : ps[i] = f.parts[i]
    BY <1>18
  <2>3. ps[k + 1] = f.ret
    <3> DEFINE p == f.parts
    <3>1. p \in Seq(Nat) /\ Len(p) = k
      BY <1>18
    <3> HIDE DEF p, k
    <3>2. (p \o <<f.ret>>)[Len(p) + 1] = f.ret
      BY <3>1
    <3> QED
      BY <3>1, <3>2 DEF p
  <2> HIDE DEF ps
  <2> QED
    BY <1>16, <1>18, <2>1, <2>2, <2>3
<1>20. (\A i \in 1 .. k : ns[i] = sizes[i]) /\ ns[m] = 4 * k
  OBVIOUS
<1> HIDE DEF ps, ns
<1>21. ASSUME NEW i \in 1 .. m PROVE RoomFor(W, t, ps[i], ns[i])
  <2> DEFINE o == Offset(sizes, i)
             b == ps[i]
             n == ns[i]
             l == Lens(sizes, m, all)[i]
  <2>1. o \in Nat /\ b = r + 8 + o /\ n \in Nat /\ l >= n + 4
    <3>1. CASE i \in 1 .. k
      BY <1>6, <1>19, <1>20, <3>1
    <3>2. CASE i = m
      <4>1. b = r + contents + 8 /\ n = 4 * k /\ o = contents /\ l = all - contents
        BY <1>9, <1>19, <1>20, <3>2
      <4> HIDE DEF o, b, n, l, contents, k, all
      <4> QED
        BY <1>2, <1>6, <1>10, <4>1
    <3> QED
      BY <1>8, <3>1, <3>2
  <2>2. r + o \in W /\ t[r + o] = l
    BY <1>12
  <2> HIDE DEF o, b, n, l
  <2>3. b \in Nat /\ b - 8 = r + o
    BY <1>2, <2>1
  <2>4. t[r + o] \in Int
    <3>1. r + o \in E
      BY <1>12, <2>2 DEF Sound, Layout, Parted
    <3> QED
      BY <1>12, <3>1, ChunkFacts DEF Sound, ChunkAt
  <2>5. n + 4 <= t[b - 8]
    BY <2>1, <2>2, <2>3, <2>4
  <2> QED
    BY <2>1, <2>2, <2>3, <2>5 DEF RoomFor, b, n
<1>22. Handed(f, U, sz, ps, ns)
  <2>1. \A i \in DOMAIN ps : RoomFor(W, t, ps[i], ns[i])
    BY <1>19, <1>21
  <2> QED
    BY <1>15, <1>16, <1>17, <2>1 DEF Handed
<1>23. f.ret # 0
  <2> HIDE DEF contents
  <2> QED
    BY <1>2, <1>6, <1>16
<1> QED
  BY <1>22, <1>23 DEF Members, MemberSizes, f, all, ps, ns

\* Refused, a call hands out nothing; else one block.
LEMMA RefusedHanded ==
    ASSUME NEW f, NEW U, NEW sz, Refused(f, U, sz), NEW sizes
    PROVE  Handed(f, U, sz, <<>>, sizes)
<1>1. PICK D, s : Ready(f, D, U, s) /\ (\A u \in U : s[u] = sz[u]) /\ ~f.broken
  BY DEF Refused, IsReady
<1>2. U \subseteq U /\ \A i \in DOMAIN <<>> : RoomFor(U, s, <<>>[i], sizes[i])
  OBVIOUS
<1> QED
  BY <1>1, <1>2 DEF Handed

\* What is got is handed out.
LEMMA GotHanded ==
    ASSUME NEW f, NEW U, NEW sz, NEW n \in Nat, Got(f, U, sz, n + 4)
    PROVE  f.ret # 0 /\ Handed(f, U, sz, <<f.ret>>, <<n>>)
<1>1. PICK D, s, r : /\ Sound(f, D, U \cup {r}, s) /\ \A u \in U : s[u] = sz[u]
                     /\ r \in Nat /\ s[r] \in Nat /\ s[r] >= n + 4 /\ f.ret = r + 8 /\ ~f.broken
  BY DEF Got
<1> DEFINE V == U \cup {r}
           b == f.ret
<1>2. Ready(f, D, V, s) /\ U \subseteq V /\ r \in V
  BY <1>1 DEF Ready
<1> HIDE DEF V
<1>3. RoomFor(V, s, b, n) /\ b # 0
  <2>1. b \in Nat /\ b - 8 = r /\ b # 0
    BY <1>1
  <2>2. n + 4 <= s[b - 8]
    BY <1>1, <2>1
  <2> QED
    BY <1>2, <2>1, <2>2 DEF RoomFor
<1> HIDE DEF b
<1>4. \A i \in DOMAIN <<b>> : RoomFor(V, s, <<b>>[i], <<n>>[i])
  BY <1>3
<1>5. Handed(f, U, sz, <<b>>, <<n>>)
  BY <1>1, <1>2, <1>4 DEF Handed
<1> QED
  BY <1>3, <1>5 DEF b

\* So malloc, calloc and memalign hand out one block or none.
LEMMA ResultHanded ==
    ASSUME NEW f, NEW U, NEW sz, NEW n \in Nat, Result(f, U, sz, n + 4), ~f.broken
    PROVE  Handed(f, U, sz, OneOf(f), <<n>>)
<1>1. CASE Refused(f, U, sz)
  <2>1. Handed(f, U, sz, <<>>, <<n>>)
    BY <1>1, RefusedHanded
  <2>2. OneOf(f) = <<>>
    BY <1>1 DEF Refused, OneOf
  <2> QED
    BY <2>1, <2>2
<1>2. CASE Got(f, U, sz, n + 4)
  <2>1. f.ret # 0 /\ Handed(f, U, sz, <<f.ret>>, <<n>>)
    BY <1>2, GotHanded
  <2>2. OneOf(f) = <<f.ret>>
    BY <2>1 DEF OneOf
  <2> QED
    BY <2>1, <2>2
<1> QED
  BY <1>1, <1>2 DEF Result
\* What is handed out goes with memory and the members of malloc_state.
LEMMA HandedSame ==
    ASSUME NEW g, NEW U, NEW sz, NEW parts, NEW sizes, Handed(g, U, sz, parts, sizes),
           NEW f, DOMAIN f = Fields, Tops(g, f), Bins(g, f), f.mem = g.mem, f.broken = g.broken
    PROVE  Handed(f, U, sz, parts, sizes)
<1>1. PICK D, V, s : /\ Ready(g, D, V, s) /\ U \subseteq V /\ \A u \in U : s[u] = sz[u]
                     /\ \A i \in DOMAIN parts : RoomFor(V, s, parts[i], sizes[i])
  BY DEF Handed
<1>2. Ready(f, D, V, s)
  BY <1>1, ReadySame
<1>3. ~f.broken
  BY DEF Handed
<1> QED
  BY <1>1, <1>2, <1>3 DEF Handed

\* independent_calloc and independent_comalloc.
AllOf(f, given) == IF f.ret = 0 THEN <<>> ELSE Members(f, given)
GroupResult(f, U, sz, sizes, given) == f.broken \/ Handed(f, U, sz, AllOf(f, given), MemberSizes(sizes, given))

\* independent_calloc and independent_comalloc of no elements give an empty array or NULL.
LEMMA EmptyResult ==
    ASSUME NEW g, NEW C, NEW U, NEW sz, Ready(g, C, U, sz), ~g.broken, NEW given \in BOOLEAN, NEW clear
    PROVE  GroupResult(ialloc(g, <<>>, clear, given), U, sz, <<>>, given)
<1> DEFINE e == IF given THEN Answer(g, 0) ELSE dlmalloc(g, 0)
           f == [e EXCEPT !.parts = <<>>]
<1>1. ialloc(g, <<>>, clear, given) = f
  BY DEF ialloc
<1>2. DOMAIN g = Fields
  BY DEF Ready, Sound, Layout, Fresh
<1>3. DOMAIN e = Fields =>
          /\ DOMAIN f = Fields /\ Tops(e, f) /\ Bins(e, f) /\ f.mem = e.mem /\ f.broken = e.broken /\ f.ret = e.ret
          /\ f.parts = <<>>
  <2> HIDE DEF e
  <2> QED
    BY DEF Fields, Tops, Bins
<1>4. CASE given
  <2>1. e.ret = 0 /\ e.broken = g.broken /\ DOMAIN e = Fields /\ Tops(g, e) /\ Bins(g, e) /\ e.mem = g.mem
    BY <1>2, <1>4 DEF Answer, Fields, Tops, Bins
  <2> HIDE DEF e
  <2>2. Ready(e, C, U, sz)
    BY <2>1, ReadySame
  <2>3. \A v \in U : sz[v] = sz[v]
    OBVIOUS
  <2>4. Refused(e, U, sz)
    BY <2>1, <2>2, <2>3 DEF Refused, IsReady
  <2>5. Handed(e, U, sz, <<>>, MemberSizes(<<>>, given))
    BY <2>4, RefusedHanded
  <2> HIDE DEF f
  <2>6. Handed(f, U, sz, <<>>, MemberSizes(<<>>, given))
    BY <1>3, <2>1, <2>5, HandedSame
  <2>7. AllOf(f, given) = <<>>
    BY <1>3, <2>1 DEF AllOf
  <2> QED
    BY <1>1, <2>6, <2>7 DEF GroupResult
<1>5. CASE ~given
  <2>1. e = dlmalloc(g, 0)
    BY <1>5
  <2>2. Result(e, U, sz, 0 + 4)
    BY <2>1, MallocResult
  <2> HIDE DEF e
  <2>3. CASE e.broken
    <3>1. f.broken
      BY <2>3
    <3> QED
      BY <1>1, <3>1 DEF GroupResult
  <2>4. CASE ~e.broken
    <3>1. Handed(e, U, sz, OneOf(e), <<0>>)
      BY <2>2, <2>4, ResultHanded
    <3>2. DOMAIN e = Fields
      BY <3>1 DEF Handed, Ready, Sound, Layout, Fresh
    <3> HIDE DEF f
    <3>3. Handed(f, U, sz, OneOf(e), <<0>>)
      BY <1>3, <3>1, <3>2, HandedSame
    <3>4. OneOf(e) = AllOf(f, given)
      <4>1. CASE e.ret = 0
        BY <1>3, <3>2, <4>1 DEF OneOf, AllOf
      <4>2. CASE e.ret # 0
        <5>1. AllOf(f, given) = <<>> \o <<f.ret>>
          BY <1>3, <1>5, <3>2, <4>2 DEF AllOf, Members
        <5>2. <<>> \o <<f.ret>> = <<f.ret>>
          OBVIOUS
        <5> QED
          BY <1>3, <3>2, <4>2, <5>1, <5>2 DEF OneOf
      <4> QED
        BY <4>1, <4>2
    <3>5. MemberSizes(<<>>, given) = <<0>>
      <4>1. MemberSizes(<<>>, given) = <<>> \o <<4 * Len(<<>>)>>
        BY <1>5 DEF MemberSizes
      <4>2. <<>> \o <<0>> = <<0>> /\ 4 * Len(<<>>) = 0
        OBVIOUS
      <4> QED
        BY <4>1, <4>2
    <3> QED
      BY <1>1, <3>3, <3>4, <3>5 DEF GroupResult
  <2> QED
    BY <2>3, <2>4
<1> QED
  BY <1>4, <1>5

\* ialloc hands out the elements and their array, or nothing.
LEMMA IallocResult ==
    ASSUME NEW g, NEW C, NEW U, NEW sz, Ready(g, C, U, sz), ~g.broken,
           NEW sizes \in Seq(Nat), NEW given \in BOOLEAN, NEW clear \in BOOLEAN
    PROVE  GroupResult(ialloc(g, sizes, clear, given), U, sz, sizes, given)
<1> DEFINE k == Len(sizes)
           contents == Offset(sizes, k + 1)
           array == ArraySize(sizes, given)
           req == contents + array - 4
           u == dlmalloc(g, req)
           zero(x) == Put(x, x.ret, chunksize(x, mem2chunk(x.ret)) - 4 - array, Zeros)
           v == IF clear THEN zero(u) ELSE u
           f == GroupOf(v, sizes, given, chunksize(v, mem2chunk(v.ret)))
           a == ialloc(g, sizes, clear, given)
<1>1. CASE sizes = <<>>
  BY <1>1, EmptyResult
<1>2. CASE sizes # <<>>
  <2>1. a = IF u.broken THEN u ELSE IF u.ret = 0 THEN u ELSE IF v.broken THEN v ELSE f
    BY <1>2 DEF ialloc, Then, GroupOf, PartsOf, CHUNK_OVERHEAD
  <2>2. contents \in Nat /\ contents >= 16 /\ request2size(4 * k) \in Nat
    <3>1. 0 \in Nat
      OBVIOUS
    <3>2. contents \in Nat /\ Offset(sizes, k) \in Nat /\ Offset(sizes, k) + 16 <= contents /\ request2size(4 * k) \in Nat
      BY <1>2, <3>1, GroupSizes
    <3> QED
      BY <3>2
  <2>3. array = (IF given THEN 0 ELSE request2size(4 * k)) /\ array \in Nat
    BY <2>2 DEF ArraySize
  <2> HIDE DEF array, contents, k
  <2>4. req \in Nat /\ req + 4 = contents + array
    BY <2>2, <2>3
  <2>5. Outcome(u, U, sz, contents + array)
    BY <2>4, MallocOutcome
  <2> HIDE DEF u, a, f, v
  <2>6. CASE u.broken
    BY <2>1, <2>6 DEF GroupResult, a
  <2>7. CASE ~u.broken /\ Refused(u, U, sz)
    <3>1. Handed(u, U, sz, <<>>, MemberSizes(sizes, given))
      BY <2>7, RefusedHanded
    <3>2. a = u /\ AllOf(u, given) = <<>>
      BY <2>1, <2>7 DEF Refused, AllOf
    <3> QED
      BY <3>1, <3>2 DEF GroupResult, a
  <2>8. CASE ~u.broken /\ Served(u, U, sz, contents + array)
    <3>1. PICK D, s, r : /\ r \notin U /\ Sound(u, D, U \cup {r}, s) /\ \A w \in U : s[w] = sz[w]
                         /\ s[r] >= contents + array /\ Behind(U, sz, r) /\ u.ret = r + 8 /\ ~u.broken
      BY <2>8 DEF Served
    <3> DEFINE V == U \cup {r}
    <3>2. Sound(u, D, V, s) /\ r \in V /\ V = U \cup {r}
      BY <3>1
    <3> HIDE DEF V
    <3>3. r \in D
      BY <3>2 DEF Sound, Layout, Parted
    <3>4. r \in Nat /\ s[r] \in Nat
      BY <3>2, <3>3, ChunkFacts DEF Sound, ChunkAt
    <3>5. mem2chunk(u.ret) = r /\ chunksize(u, r) = s[r]
      <4>1. chunksize(u, r) = s[r]
        BY <3>2, <3>3, ChunkFacts DEF Sound, WordsAt
      <4> QED
        BY <3>1, <3>4, <4>1 DEF mem2chunk
    <3>6. Sound(v, D, V, s) /\ Status(u, v)
      <4>1. CASE clear
        <5> DEFINE n == s[r] - 4 - array
        <5>1. n \in Nat /\ n + 4 <= s[r]
          BY SMTT(30), <2>2, <2>3, <3>1, <3>4
        <5>2. v = Put(u, r + 8, n, Zeros)
          BY <3>1, <3>5, <4>1 DEF v
        <5> HIDE DEF n
        <5>3. Sound(Put(u, r + 8, n, Zeros), D, V, s) /\ Status(u, Put(u, r + 8, n, Zeros))
          BY <3>2, <5>1, PutUser
        <5> QED
          BY <5>2, <5>3
      <4>2. CASE ~clear
        BY <3>2, <4>2 DEF v, Status
      <4> QED
        BY <4>1, <4>2
    <3>7. ~v.broken /\ v.ret = r + 8
      BY <3>1, <3>6 DEF Status
    <3>8. mem2chunk(v.ret) = r /\ chunksize(v, r) = s[r]
      <4>1. chunksize(v, r) = s[r]
        BY <3>3, <3>6, ChunkFacts DEF Sound, WordsAt
      <4> QED
        BY <3>4, <3>7, <4>1 DEF mem2chunk
    <3>9. Word(v, r + 4).pinuse
      <4>1. Behind(V, s, r)
        BY <3>1, <3>2 DEF Behind
      <4> QED
        BY <3>3, <3>6, <4>1, BehindPinuse DEF Sound
    <3>10. f = GroupOf(v, sizes, given, s[r])
      BY <3>8 DEF f
    <3>11. a = f
      BY <2>1, <2>8, <3>1, <3>4, <3>7
    <3>12. f.ret # 0 /\ Handed(f, U, sz, Members(f, given), MemberSizes(sizes, given))
      <4>1. CASE given
        <5>1. contents <= s[r] /\ given = TRUE
          BY <2>2, <2>3, <3>1, <3>4, <4>1
        <5>2. f = GroupOf(v, sizes, TRUE, s[r])
          BY <3>10, <5>1
        <5>3. LET e == GroupOf(v, sizes, TRUE, s[r])
              IN  e.ret # 0 /\ Handed(e, U, sz, Members(e, TRUE), MemberSizes(sizes, TRUE))
          BY <1>2, <3>1, <3>2, <3>6, <3>7, <3>9, <5>1, GivenHanded DEF contents, k
        <5> QED
          BY <5>1, <5>2, <5>3
      <4>2. CASE ~given
        <5>1. contents + request2size(4 * k) <= s[r] /\ given = FALSE
          BY <2>2, <2>3, <3>1, <3>4, <4>2
        <5>2. f = GroupOf(v, sizes, FALSE, s[r])
          BY <3>10, <5>1
        <5>3. LET e == GroupOf(v, sizes, FALSE, s[r])
              IN  e.ret # 0 /\ Handed(e, U, sz, Members(e, FALSE), MemberSizes(sizes, FALSE))
          BY <1>2, <3>1, <3>2, <3>6, <3>7, <3>9, <5>1, ArrayHanded DEF contents, k
        <5> QED
          BY <5>1, <5>2, <5>3
      <4> QED
        BY <4>1, <4>2
    <3>13. AllOf(f, given) = Members(f, given)
      BY <3>12 DEF AllOf
    <3> QED
      BY <3>11, <3>12, <3>13 DEF GroupResult, a
  <2> QED
    BY <2>5, <2>6, <2>7, <2>8 DEF Outcome
<1> QED
  BY <1>1, <1>2

-----------------------------------------------------------------------------
(* The debugging code walks the heap. *)

\* The walk over the chunks, as its recursion says.
Walked(f, g, p) ==
    IF Stops(g, p) THEN [seen |-> {}, sum |-> 0]
    ELSE [seen |-> {p} \cup f[next_chunk(g, p)].seen, sum |-> chunksize(g, p) + f[next_chunk(g, p)].sum]

\* There is such a function, so that Walk is what its recursion says.
LEMMA WalkUnfolds ==
    ASSUME NEW g
    PROVE  \E e : Walk(g) = e[Base] /\ \A p \in Base .. End : e[p] = Walked(e, g, p)
<1> DEFINE Upto(f, k) == \A p \in Base .. End : p > End - k => f[p] = Walked(f, g, p)
           S == {k \in Nat : \E f : Upto(f, k)}
           e == CHOOSE f : f = [p \in Base .. End |-> Walked(f, g, p)]
<1>0. Base \in Nat /\ End \in Nat
  BY HeapAssumption
<1>1. ASSUME NEW k \in Nat, \A m \in Nat : m < k => m \in S
      PROVE  k \in S
  <2>1. CASE k = 0
    <3>1. Upto(<<>>, k)
      BY <1>0, <2>1
    <3> QED
      BY <3>1
  <2>2. CASE k # 0
    <3>1. k - 1 \in Nat /\ k - 1 < k
      BY <2>2
    <3>2. k - 1 \in S
      BY <1>1, <3>1
    <3>3. PICK f : Upto(f, k - 1)
      BY <3>2
    <3> DEFINE d == [p \in Base .. End |-> IF p > End - (k - 1) THEN f[p] ELSE Walked(f, g, p)]
    <3>4. ASSUME NEW p \in Base .. End, p > End - k PROVE d[p] = Walked(d, g, p)
      <4>1. d[p] = Walked(f, g, p)
        BY <3>3
      <4>2. ~Stops(g, p) => next_chunk(g, p) \in Base .. End /\ next_chunk(g, p) > End - (k - 1)
        <5>1. ~Stops(g, p) => next_chunk(g, p) \in p + 1 .. End
          BY DEF Stops
        <5> HIDE DEF d
        <5> QED
          BY <1>0, <3>1, <3>4, <5>1
      <4>3. ~Stops(g, p) => d[next_chunk(g, p)] = f[next_chunk(g, p)]
        BY <4>2
      <4> HIDE DEF d
      <4> QED
        BY <4>1, <4>3 DEF Walked
    <3> HIDE DEF d
    <3>5. Upto(d, k)
      BY <3>4
    <3> QED
      BY <3>5
  <2> QED
    BY <2>1, <2>2
<1>2. S = Nat
  <2> HIDE DEF S
  <2>1. S \in SUBSET Nat
    BY DEF S
  <2> QED
    BY <1>1, <2>1, All
<1>3. CASE Base <= End
  <2> DEFINE n == End - Base + 1
  <2>1. n \in Nat /\ \A p \in Base .. End : p > End - n
    BY <1>0, <1>3
  <2>2. PICK f : Upto(f, n)
    <3> HIDE DEF n
    <3> QED
      BY <1>2, <2>1
  <2> DEFINE d == [p \in Base .. End |-> f[p]]
  <2>3. d = [p \in Base .. End |-> Walked(d, g, p)]
    <3> SUFFICES ASSUME NEW p \in Base .. End PROVE f[p] = Walked(d, g, p)
      OBVIOUS
    <3>1. f[p] = Walked(f, g, p)
      BY <2>1, <2>2
    <3>2. ~Stops(g, p) => next_chunk(g, p) \in Base .. End
      <4>1. ~Stops(g, p) => next_chunk(g, p) \in p + 1 .. End
        BY DEF Stops
      <4> HIDE DEF d
      <4> QED
        BY <1>0, <4>1
    <3>3. ~Stops(g, p) => d[next_chunk(g, p)] = f[next_chunk(g, p)]
      BY <3>2
    <3> HIDE DEF d
    <3> QED
      BY <3>1, <3>3 DEF Walked
  <2> HIDE DEF d
  <2>4. e = [p \in Base .. End |-> Walked(e, g, p)]
    BY <2>3
  <2>5. Walk(g) = e[Base]
    BY DEF Walk, Walked
  <2> HIDE DEF e
  <2>6. \A p \in Base .. End : e[p] = Walked(e, g, p)
    BY <2>4
  <2> QED
    BY <2>5, <2>6
<1>4. CASE ~(Base <= End)
  <2>1. Base .. End = {}
    BY <1>0, <1>4
  <2>2. Walk(g) = e[Base]
    BY DEF Walk, Walked
  <2> QED
    BY <2>1, <2>2
<1> QED
  BY <1>3, <1>4

\* The walk sees the chunks of the layout, and their sizes add up.
LEMMA WalkSees ==
    ASSUME NEW g, NEW C, NEW U, NEW sz, Layout(g, C, U, sz, {})
    PROVE  Chunks(g) = C /\ Walk(g).sum = g.top - Base
<1> DEFINE after(p) == {q \in C : q >= p}
<1>1. PICK e : Walk(g) = e[Base] /\ \A p \in Base .. End : e[p] = Walked(e, g, p)
  BY WalkUnfolds
<1>2. Base \in Nat /\ End \in Nat
  BY HeapAssumption
<1>3. g.top \in Nat /\ g.top > 0 /\ Base <= g.top /\ g.top <= End
  BY TopFacts, <1>2 DEF TopAt
<1>4. \A p \in C : /\ p \in Nat /\ Base <= p /\ p < g.top /\ sz[p] \in Nat /\ sz[p] >= 16
                   /\ p + sz[p] \in C \cup {g.top} /\ p + sz[p] <= g.top
                   /\ IsHead(g, p) /\ chunksize(g, p) = sz[p]
  BY ChunkFacts DEF ChunkAt, WordsAt
<1>5. Base \in C \cup {g.top} /\ \A p, q \in C : p < q => p + sz[p] <= q
  BY DEF Layout, Tiled
<1> DEFINE At(p) == e[p] = [seen |-> after(p), sum |-> g.top - p]
           S == {n \in Nat : \A p \in C \cup {g.top} : g.top - p = n => At(p)}
<1>6. ASSUME NEW n \in Nat, \A m \in Nat : m < n => m \in S
      PROVE  n \in S
  <2> SUFFICES ASSUME NEW p \in C \cup {g.top}, g.top - p = n PROVE At(p)
    OBVIOUS
  <2>1. p \in Nat /\ p \in Base .. End
    BY <1>2, <1>3, <1>4
  <2>2. e[p] = Walked(e, g, p)
    BY <1>1, <2>1
  <2>3. CASE p = g.top
    <3>1. Stops(g, p)
      BY <2>3 DEF Stops
    <3>2. e[p] = [seen |-> {}, sum |-> 0]
      BY <2>2, <3>1 DEF Walked
    <3>3. after(p) = {}
      BY <1>3, <1>4, <2>3
    <3>4. g.top - p = 0
      BY <1>3, <2>3
    <3> QED
      BY <3>2, <3>3, <3>4
  <2>4. CASE p \in C
    <3> DEFINE q == p + sz[p]
    <3>1. next_chunk(g, p) = q /\ chunksize(g, p) = sz[p]
      BY <1>4, <2>4 DEF next_chunk
    <3>2. q \in p + 1 .. End /\ q \in C \cup {g.top} /\ g.top - q \in Nat /\ g.top - q < n /\ sz[p] + (g.top - q) = g.top - p
      BY <1>2, <1>3, <1>4, <2>4, <2>1
    <3>3. ~Stops(g, p)
      BY <1>3, <1>4, <2>4, <3>1, <3>2 DEF Stops
    <3>4. after(p) = {p} \cup after(q)
      <4>1. \A r \in C : r >= p => r = p \/ r >= q
        <5> SUFFICES ASSUME NEW r \in C, r >= p, r # p PROVE r >= q
          OBVIOUS
        <5>1. p < r /\ r \in Nat
          BY <1>4, <2>1
        <5>2. p + sz[p] <= r
          BY <1>5, <2>4, <5>1
        <5> QED
          BY <1>4, <2>1, <2>4, <5>1, <5>2
      <4>2. \A r \in C : r >= q => r >= p
        BY <1>4, <2>4
      <4> HIDE DEF q
      <4>3. p >= p /\ p \in C
        BY <2>1, <2>4
      <4>4. ASSUME NEW r PROVE r \in after(p) <=> r = p \/ r \in after(q)
        BY <4>1, <4>2, <4>3
      <4> HIDE DEF after
      <4> QED
        BY <4>4
    <3> HIDE DEF q
    <3>5. At(q)
      BY <1>6, <3>2
    <3>6. e[p] = [seen |-> {p} \cup e[q].seen, sum |-> sz[p] + e[q].sum]
      BY <2>2, <3>1, <3>3 DEF Walked
    <3>7. e[q].seen = after(q) /\ e[q].sum = g.top - q
      BY <3>5
    <3> QED
      BY <3>2, <3>4, <3>6, <3>7
  <2> QED
    BY <2>3, <2>4
<1>7. S = Nat
  <2> HIDE DEF S
  <2>1. S \in SUBSET Nat
    BY DEF S
  <2> QED
    BY <1>6, <2>1, All
<1>8. At(Base)
  <2>1. g.top - Base \in Nat
    BY <1>2, <1>3
  <2> QED
    BY <1>5, <1>7, <2>1
<1>9. after(Base) = C
  BY <1>2, <1>4
<1>10. Walk(g) = [seen |-> C, sum |-> g.top - Base]
  BY <1>1, <1>8, <1>9
<1>11. Walk(g).seen = C /\ Walk(g).sum = g.top - Base
  BY <1>10
<1>12. Chunks(g) = C
  BY <1>3, <1>11 DEF Chunks, is_initialized
<1> QED
  BY <1>11, <1>12

-----------------------------------------------------------------------------
(* What holds between calls. *)

\* The blocks in use are in chunks that are, with room for what was asked for.
Held(l, V, s) == \A b \in DOMAIN l : RoomFor(V, s, b, l[b])

\* Between two calls no user has touched a head, a foot or a link.
LEMMA JunkedSound ==
    ASSUME NEW g, NEW C, NEW V, NEW s, Sound(g, C, V, s), NEW l, Held(l, V, s), NEW fresh, fresh \subseteq DOMAIN l
    PROVE  LET f == Junked(g, Kept(g, l, Chunks(g)), fresh, l) IN Sound(f, C, V, s) /\ f.broken = g.broken
<1> DEFINE kept == Kept(g, l, Chunks(g))
           data == [a \in UNION {Inside(b, l[b]) : b \in fresh} |-> Data(CHOOSE b \in fresh : a \in Inside(b, l[b]))]
           rest == [a \in {w \in kept : Word(g, w) # Junk} |-> g.mem[a]]
           e == [g EXCEPT !.mem = rest]
           f == [g EXCEPT !.mem = Over(data, rest), !.ret = 0, !.parts = <<>>]
<1>1. Layout(g, C, V, s, {}) /\ Shelved(g, C \ V, s) /\ DOMAIN g = Fields /\ V \subseteq C
  BY DEF Sound, Layout, Parted
<1>2. Chunks(g) = C
  BY <1>1, WalkSees
<1>3. DOMAIN e = Fields /\ Tops(g, e) /\ Bins(g, e) /\ e.mem = rest
  BY <1>1 DEF Fields, Tops, Bins
<1>4. DOMAIN f = Fields /\ Tops(e, f) /\ Bins(e, f) /\ f.mem = Over(data, rest) /\ f.broken = g.broken
  BY <1>1 DEF Fields, Tops, Bins
<1>5. Junked(g, kept, fresh, l) = f
  BY DEF Junked
<1> HIDE DEF e, f
<1>6. \A a \in kept : Word(e, a) = Word(g, a)
  <2> TAKE a \in kept
  <2>1. CASE Word(g, a) = Junk
    <3>1. a \notin DOMAIN rest
      BY <2>1
    <3> QED
      BY <1>3, <2>1, <3>1 DEF Word
  <2>2. CASE Word(g, a) # Junk
    <3>1. a \in DOMAIN rest /\ rest[a] = g.mem[a]
      BY <2>2
    <3>2. a \in DOMAIN g.mem
      BY <2>2 DEF Word
    <3> HIDE DEF rest
    <3> QED
      BY <1>3, <3>1, <3>2 DEF Word
  <2> QED
    BY <2>1, <2>2
<1> HIDE DEF rest
<1>7. Heads(C, g.top, g.top + g.topsize) \cup Feet(C \ V, s) \subseteq kept
  <2>1. Heads(C, g.top, g.top + g.topsize) \subseteq kept
    BY <1>2 DEF Heads, Kept
  <2>2. Feet(C \ V, s) \subseteq kept
    <3> SUFFICES ASSUME NEW p \in C \ V PROVE p + s[p] \in kept
      BY DEF Feet
    <3>1. chunksize(g, p) = s[p] /\ ~cinuse(g, p)
      BY <1>1, ChunkFacts DEF WordsAt
    <3>2. p + chunksize(g, p) \in kept
      BY <1>2, <3>1 DEF Kept
    <3> QED
      BY <3>1, <3>2
  <2> QED
    BY <2>1, <2>2
<1> HIDE DEF kept
<1>8. Layout(e, C, V, s, {})
  <2>1. \A a \in Heads(C, g.top, g.top + g.topsize) \cup Feet(C \ (V \cup {}), s) : Word(e, a) = Word(g, a)
    <3>1. C \ (V \cup {}) = C \ V
      OBVIOUS
    <3> QED
      BY <1>6, <1>7, <3>1
  <2> QED
    BY <1>1, <1>3, <2>1, LayoutSame
<1>9. Shelved(e, C \ V, s)
  <2> DEFINE F == C \ V
  <2>1. \A p \in F : s[p] = s[p]
    OBVIOUS
  <2>2. Shelved(g, F, s)
    BY <1>1
  <2> HIDE DEF F
  <2>3. Shelved(e, F, s)
    BY <1>3, <2>1, <2>2, ShelvedSame
  <2> QED
    BY <2>3 DEF F
<1>10. Sound(e, C, V, s)
  BY <1>8, <1>9 DEF Sound
<1>11. ASSUME NEW a \in Nat, \A p \in V : a < p + 8 \/ a >= p + s[p] + 4
       PROVE  Word(f, a) = Word(e, a)
  <2>1. a \notin DOMAIN data
    <3> SUFFICES ASSUME NEW b \in fresh, a \in Inside(b, l[b]) PROVE FALSE
      OBVIOUS
    <3>1. RoomFor(V, s, b, l[b])
      BY DEF Held
    <3> DEFINE p == b - 8
               n == l[b]
    <3>2. b \in Nat /\ p \in V /\ n \in Nat /\ n + 4 <= s[p] /\ a \in Inside(b, n)
      BY <3>1 DEF RoomFor
    <3>3. p + 8 = b
      BY <3>2
    <3> HIDE DEF n, p
    <3>4. p \in Nat /\ p > 0 /\ Eight(p) /\ s[p] \in Nat
      BY <1>1, <3>2, ChunkFacts DEF ChunkAt
    <3>5. Eight(8) /\ 8 \in Int
      BY DEF Eight
    <3>6. Eight(b) /\ b > 0
      BY <3>3, <3>4, <3>5, Eights
    <3>7. b <= a /\ a < b + n
      BY <3>2, <3>6, Insides
    <3>8. a < p + 8 \/ a >= p + s[p] + 4
      BY <1>11, <3>2
    <3> QED
      BY <3>2, <3>3, <3>4, <3>7, <3>8
  <2> HIDE DEF data
  <2> QED
    BY <1>3, <1>4, <2>1 DEF Word, Over
<1>12. UserWords(e, V, s, f)
  BY <1>4, <1>11 DEF UserWords
<1>13. Sound(f, C, V, s)
  BY <1>10, <1>12, UserSound
<1> QED
  BY <1>4, <1>5, <1>13 DEF kept

\* Before the first call, and after any that returns, the next one can be made.
LEMMA RestReady ==
    ASSUME NEW g, NEW C, NEW V, NEW s, Ready(g, C, V, s), ~g.broken, NEW l, Held(l, V, s), NEW fresh, fresh \subseteq DOMAIN l
    PROVE  Ready(Rest(g, l, fresh), C, V, s)
<1>1. CASE Sound(g, C, V, s)
  <2>1. g.top # 0
    BY <1>1, TopFacts DEF Sound, TopAt
  <2>2. Rest(g, l, fresh) = Junked(g, Kept(g, l, Chunks(g)), fresh, l)
    BY <2>1 DEF Rest, is_initialized
  <2> QED
    BY <1>1, <2>2, JunkedSound DEF Ready
<1>2. CASE Fresh(g)
  <2> DEFINE f == [g EXCEPT !.ret = 0]
  <2>1. DOMAIN f = Fields /\ Tops(g, f) /\ Bins(g, f) /\ f.mem = g.mem
    BY <1>2 DEF Fresh, Fields, Tops, Bins
  <2>2. Rest(g, l, fresh) = f
    BY <1>2 DEF Rest, is_initialized, Fresh
  <2> HIDE DEF f
  <2>3. Ready(f, C, V, s)
    BY <2>1, ReadySame
  <2> QED
    BY <2>2, <2>3
<1> QED
  BY <1>1, <1>2 DEF Ready

\* What holds between two calls.
HeapOk(g, l) == g.broken \/ \E C, U, sz : Ready(g, C, U, sz) /\ Held(l, U, sz)

\* Handed out, blocks are in chunks in use like those there were.
LEMMA BlocksHeld ==
    ASSUME NEW g, NEW U, NEW sz, NEW parts, NEW sizes, Handed(g, U, sz, parts, sizes), NEW l, Held(l, U, sz)
    PROVE  LET now == Over(Blocks(parts, sizes), l) IN HeapOk(Rest(g, now, ToSet(parts)), now)
<1> DEFINE now == Over(Blocks(parts, sizes), l)
           fresh == ToSet(parts)
<1>1. PICK D, V, s : /\ Ready(g, D, V, s) /\ U \subseteq V /\ \A u \in U : s[u] = sz[u]
                     /\ \A i \in DOMAIN parts : RoomFor(V, s, parts[i], sizes[i])
  BY DEF Handed
<1>2. ~g.broken
  BY DEF Handed
<1>3. DOMAIN Blocks(parts, sizes) = fresh /\ fresh = {parts[i] : i \in DOMAIN parts}
  BY DEF Blocks, ToSet
<1>4. DOMAIN now = fresh \cup DOMAIN l
  BY <1>3 DEF Over
<1>5. \A b \in fresh : RoomFor(V, s, b, now[b])
  <2> TAKE b \in fresh
  <2> DEFINE i == CHOOSE j \in DOMAIN parts : parts[j] = b
  <2>1. i \in DOMAIN parts /\ parts[i] = b
    BY <1>3
  <2>2. now[b] = Blocks(parts, sizes)[b]
    BY <1>3 DEF Over
  <2>3. Blocks(parts, sizes)[b] = sizes[i]
    BY DEF Blocks
  <2> HIDE DEF i, now
  <2>4. RoomFor(V, s, parts[i], sizes[i])
    BY <1>1, <2>1
  <2> QED
    BY <2>1, <2>2, <2>3, <2>4
<1>6. \A b \in DOMAIN l : b \notin fresh => RoomFor(V, s, b, now[b])
  <2> TAKE b \in DOMAIN l
  <2> HAVE b \notin fresh
  <2>1. now[b] = l[b]
    BY <1>3 DEF Over
  <2> HIDE DEF now, fresh
  <2>2. RoomFor(U, sz, b, l[b])
    BY DEF Held
  <2> QED
    BY <1>1, <2>1, <2>2 DEF RoomFor
<1> HIDE DEF now, fresh
<1>7. Held(now, V, s)
  BY <1>4, <1>5, <1>6 DEF Held
<1>8. Ready(Rest(g, now, fresh), D, V, s)
  BY <1>1, <1>2, <1>4, <1>7, RestReady
<1>9. HeapOk(Rest(g, now, fresh), now)
  BY <1>7, <1>8 DEF HeapOk
<1> QED
  BY <1>9 DEF now, fresh

\* A call has returned.
LEMMA ReturnedOk ==
    ASSUME NEW op, NEW arg, NEW g, NEW l, NEW parts, NEW sizes, NEW seen,
           Returned(op, arg, g, l, parts, sizes, seen),
           g.broken \/ \E U, sz : Handed(g, U, sz, parts, sizes) /\ Held(l, U, sz)
    PROVE  HeapOk(h', live')
<1>1. live' = (IF g.broken THEN l ELSE Over(Blocks(parts, sizes), l)) /\ h' = Rest(g, live', ToSet(parts))
  BY DEF Returned
<1>2. CASE g.broken
  <2>1. h' = [NewHeap EXCEPT !.broken = TRUE]
    BY <1>1, <1>2 DEF Rest
  <2>2. [NewHeap EXCEPT !.broken = TRUE].broken
    BY DEF NewHeap
  <2> QED
    BY <2>1, <2>2 DEF HeapOk
<1>3. CASE ~g.broken
  <2>1. PICK U, sz : Handed(g, U, sz, parts, sizes) /\ Held(l, U, sz)
    BY <1>3
  <2> DEFINE now == Over(Blocks(parts, sizes), l)
  <2>2. HeapOk(Rest(g, now, ToSet(parts)), now)
    BY <2>1, BlocksHeld
  <2> HIDE DEF now
  <2>3. live' = now
    BY <1>1, <1>3 DEF now
  <2> QED
    BY <1>1, <2>2, <2>3
<1> QED
  BY <1>2, <1>3

-----------------------------------------------------------------------------
(* Each call keeps it. *)

\* malloc keeps the heap and its blocks consistent, or breaks it where sbrk refuses.
LEMMA MallocOk ==
    ASSUME HeapOk(h, live), NEW n \in Nat, Malloc(n)
    PROVE  HeapOk(h', live')
<1>1. PICK C, U, sz : Ready(h, C, U, sz) /\ Held(live, U, sz) /\ ~h.broken
  BY DEF HeapOk, Malloc, Calls
<1> DEFINE g == dlmalloc(h, n)
<1>2. Returned("malloc", n, g, live, OneOf(g), <<n>>, TRUE)
  BY DEF Malloc
<1>3. g.broken \/ Handed(g, U, sz, OneOf(g), <<n>>)
  <2>1. Result(g, U, sz, n + 4)
    BY <1>1, MallocResult
  <2> HIDE DEF g
  <2> QED
    BY <2>1, ResultHanded
<1> HIDE DEF g
<1> QED
  BY <1>1, <1>2, <1>3, ReturnedOk

\* calloc keeps the heap and its blocks consistent, or breaks it where sbrk refuses.
LEMMA CallocOk ==
    ASSUME HeapOk(h, live), NEW n \in Nat, NEW s \in Nat, Calloc(n, s)
    PROVE  HeapOk(h', live')
<1>1. PICK C, U, sz : Ready(h, C, U, sz) /\ Held(live, U, sz) /\ ~h.broken
  BY DEF HeapOk, Calloc, Calls
<1> DEFINE g == dlcalloc(h, n, s)
           seen == g.ret = 0 \/ (n * s < MAX_REQUEST /\ Holds(g, g.ret, n * s, Zeros))
           m == n * s
<1>2. Returned("calloc", <<n, s>>, g, live, OneOf(g), <<m>>, seen)
  BY DEF Calloc
<1>3. g.broken \/ Handed(g, U, sz, OneOf(g), <<m>>)
  <2>1. Result(g, U, sz, m + 4)
    BY <1>1, CallocResult
  <2>2. m \in Nat
    BY Larger
  <2> HIDE DEF g, m
  <2> QED
    BY <2>1, <2>2, ResultHanded
<1> HIDE DEF g, seen, m
<1> QED
  BY <1>1, <1>2, <1>3, ReturnedOk

\* So does memalign.
LEMMA MemalignOk ==
    ASSUME HeapOk(h, live), NEW a \in 0 .. HALF_MAX_SIZE_T + 1, NEW n \in Nat, Memalign(a, n)
    PROVE  HeapOk(h', live')
<1>1. PICK C, U, sz : Ready(h, C, U, sz) /\ Held(live, U, sz) /\ ~h.broken
  BY DEF HeapOk, Memalign, Calls
<1> DEFINE g == internal_memalign(h, a, n)
<1>2. Returned("memalign", <<a, n>>, g, live, OneOf(g), <<n>>, TRUE)
  BY DEF Memalign
<1>3. g.broken \/ Handed(g, U, sz, OneOf(g), <<n>>)
  <2>1. Result(g, U, sz, n + 4)
    BY <1>1, MemalignResult
  <2> HIDE DEF g
  <2> QED
    BY <2>1, ResultHanded
<1> HIDE DEF g
<1> QED
  BY <1>1, <1>2, <1>3, ReturnedOk

\* So do independent_calloc and independent_comalloc that allocate their array.
LEMMA IndependentOk ==
    ASSUME HeapOk(h, live), NEW sizes \in Seq(Nat), NEW clear \in BOOLEAN, Independent(sizes, clear)
    PROVE  HeapOk(h', live')
<1>1. PICK C, U, sz : Ready(h, C, U, sz) /\ Held(live, U, sz) /\ ~h.broken
  BY DEF HeapOk, Independent, Calls
<1> DEFINE g == ialloc(h, sizes, clear, FALSE)
           seen == clear => \A i \in DOMAIN g.parts : Holds(g, g.parts[i], sizes[i], Zeros)
           parts == AllOf(g, FALSE)
           ns == MemberSizes(sizes, FALSE)
<1>2. Returned("independent", sizes, g, live, parts, ns, seen)
  BY DEF Independent, AllOf, Members, MemberSizes
<1>3. g.broken \/ Handed(g, U, sz, parts, ns)
  BY <1>1, IallocResult DEF GroupResult
<1> HIDE DEF g, seen, parts, ns
<1> QED
  BY <1>1, <1>2, <1>3, ReturnedOk

\* So do both with the caller's array.
LEMMA IndependentGivenOk ==
    ASSUME HeapOk(h, live), NEW sizes \in Seq(Nat), IndependentGiven(sizes)
    PROVE  HeapOk(h', live')
<1>1. PICK C, U, sz : Ready(h, C, U, sz) /\ Held(live, U, sz) /\ ~h.broken
  BY DEF HeapOk, IndependentGiven, Calls
<1> DEFINE g == ialloc(h, sizes, FALSE, TRUE)
           parts == AllOf(g, TRUE)
<1>2. Returned("given", sizes, g, live, parts, sizes, TRUE)
  BY DEF IndependentGiven, AllOf, Members
<1>3. g.broken \/ Handed(g, U, sz, parts, sizes)
  BY <1>1, IallocResult DEF GroupResult, MemberSizes
<1> HIDE DEF g, parts
<1> QED
  BY <1>1, <1>2, <1>3, ReturnedOk

\* A block in use is of a chunk in use.
LEMMA BlockIs ==
    ASSUME NEW g, NEW C, NEW U, NEW sz, Ready(g, C, U, sz), NEW l, Held(l, U, sz), NEW b \in DOMAIN l
    PROVE  /\ Sound(g, C, U, sz) /\ b - 8 \in U /\ (b - 8) + 8 = b /\ b # 0
           /\ Held(Without(l, b), U \ {b - 8}, sz)
<1>1. \A c \in DOMAIN l : RoomFor(U, sz, c, l[c])
  BY DEF Held
<1>2. b \in Nat /\ b - 8 \in U
  BY <1>1 DEF RoomFor
<1>3. Sound(g, C, U, sz)
  BY <1>2 DEF Ready
<1>4. b - 8 > 0
  <2>1. b - 8 \in C
    BY <1>2, <1>3 DEF Sound, Layout, Parted
  <2> QED
    BY <1>3, <2>1, ChunkFacts DEF Sound, ChunkAt
<1>5. \A c \in DOMAIN Without(l, b) : RoomFor(U \ {b - 8}, sz, c, Without(l, b)[c])
  <2> TAKE c \in DOMAIN Without(l, b)
  <2>1. c \in DOMAIN l /\ c # b /\ Without(l, b)[c] = l[c]
    BY DEF Without
  <2>2. RoomFor(U, sz, c, l[c])
    BY <1>1, <2>1
  <2>3. c \in Nat /\ c - 8 # b - 8
    BY <1>2, <2>1, <2>2 DEF RoomFor
  <2> QED
    BY <2>1, <2>2, <2>3 DEF RoomFor
<1>6. Held(Without(l, b), U \ {b - 8}, sz)
  BY <1>5 DEF Held
<1>7. (b - 8) + 8 = b /\ b # 0
  BY <1>2, <1>4
<1> QED
  BY <1>2, <1>3, <1>6, <1>7

\* realloc keeps the heap and its blocks consistent.
LEMMA ReallocOk ==
    ASSUME HeapOk(h, live), NEW b \in DOMAIN live, NEW n \in Nat, Realloc(b, n)
    PROVE  HeapOk(h', live')
<1>1. PICK C, U, sz : Ready(h, C, U, sz) /\ Held(live, U, sz) /\ ~h.broken
  BY DEF HeapOk, Realloc, Calls
<1> DEFINE g == dlrealloc(h, b, n)
           p == b - 8
           V == U \ {p}
           l == Without(live, b)
           seen == Holds(g, g.ret, Min({n, live[b]}), Data(b))
<1>2. IF g.ret = 0 \/ g.broken
      THEN Returned("realloc", <<b, n>>, g, live, <<>>, <<>>, TRUE)
      ELSE Returned("realloc", <<b, n>>, g, l, <<g.ret>>, <<n>>, seen)
  BY DEF Realloc
<1>3. Sound(h, C, U, sz) /\ p \in U /\ p + 8 = b /\ Held(l, V, sz)
  BY <1>1, BlockIs
<1> HIDE DEF p
<1>4. Regot(g, U, sz, p, n + 4)
  BY <1>1, <1>3, ReallocResult
<1> HIDE DEF g, l, seen
<1>5. CASE g.broken
  BY <1>2, <1>5, ReturnedOk
<1>6. CASE ~g.broken /\ Refused(g, U, sz)
  <2>1. Handed(g, U, sz, <<>>, <<>>)
    BY <1>6, RefusedHanded
  <2>2. Returned("realloc", <<b, n>>, g, live, <<>>, <<>>, TRUE)
    BY <1>2, <1>6 DEF Refused
  <2> QED
    BY <1>1, <2>1, <2>2, ReturnedOk
<1>7. CASE ~g.broken /\ Got(g, V, sz, n + 4)
  <2> HIDE DEF V
  <2>1. g.ret # 0 /\ Handed(g, V, sz, <<g.ret>>, <<n>>)
    BY <1>7, GotHanded
  <2>2. Returned("realloc", <<b, n>>, g, l, <<g.ret>>, <<n>>, seen)
    BY <1>2, <1>7, <2>1
  <2> QED
    BY <1>3, <2>1, <2>2, ReturnedOk
<1> QED
  BY <1>4, <1>5, <1>6, <1>7 DEF Regot

\* free keeps the heap and its blocks consistent.
LEMMA FreeOk ==
    ASSUME HeapOk(h, live), NEW b \in DOMAIN live, Free(b)
    PROVE  HeapOk(h', live')
<1>1. PICK C, U, sz : Ready(h, C, U, sz) /\ Held(live, U, sz) /\ ~h.broken
  BY DEF HeapOk, Free, Calls
<1> DEFINE g == dlfree(h, b)
           p == b - 8
           V == U \ {p}
           l == Without(live, b)
           seen == Intact(g, l)
<1>2. Returned("free", b, g, l, <<>>, <<>>, seen)
  BY DEF Free
<1>3. Sound(h, C, U, sz) /\ p \in U /\ p + 8 = b /\ Held(l, V, sz)
  BY <1>1, BlockIs
<1> HIDE DEF p
<1>4. IsFreed(h, g, V, sz)
  BY <1>1, <1>3, FreeFreed DEF chunk2mem
<1> HIDE DEF g, V
<1>5. Handed(g, V, sz, <<>>, <<>>)
  <2>1. PICK D, s : Sound(g, D, V, s) /\ Status(h, g) /\ \A u \in V : s[u] = sz[u]
    BY <1>4 DEF IsFreed, Freed
  <2>2. Ready(g, D, V, s) /\ ~g.broken /\ V \subseteq V
    BY <1>1, <2>1 DEF Ready, Status
  <2>3. \A i \in DOMAIN <<>> : RoomFor(V, s, <<>>[i], <<>>[i])
    OBVIOUS
  <2> QED
    BY <2>1, <2>2, <2>3 DEF Handed
<1> HIDE DEF l, seen
<1> QED
  BY <1>2, <1>3, <1>5, ReturnedOk

\* malloc_trim changes nothing, as sbrk takes nothing back.
LEMMA TrimOk ==
    ASSUME HeapOk(h, live), NEW pad, Trim(pad)
    PROVE  HeapOk(h', live')
<1>1. PICK C, U, sz : Ready(h, C, U, sz) /\ Held(live, U, sz) /\ ~h.broken
  BY DEF HeapOk, Trim, Calls
<1> DEFINE g == sys_trim(h, pad)
<1>2. Returned("trim", pad, g, live, <<>>, <<>>, TRUE)
  BY DEF Trim
<1>3. DOMAIN h = Fields
  BY <1>1 DEF Ready, Sound, Layout, Fresh
<1>4. DOMAIN g = Fields /\ Tops(h, g) /\ Bins(h, g) /\ g.mem = h.mem /\ g.broken = h.broken
  BY <1>3 DEF sys_trim, Fields, Tops, Bins
<1> HIDE DEF g
<1>5. Ready(g, C, U, sz)
  BY <1>1, <1>4, ReadySame
<1>6. Handed(g, U, sz, <<>>, <<>>)
  <2>1. U \subseteq U /\ (\A u \in U : sz[u] = sz[u]) /\ \A i \in DOMAIN <<>> : RoomFor(U, sz, <<>>[i], <<>>[i])
    OBVIOUS
  <2> QED
    BY <1>1, <1>4, <1>5, <2>1 DEF Handed
<1> QED
  BY <1>1, <1>2, <1>6, ReturnedOk

-----------------------------------------------------------------------------
(* What the debugging code asserts. *)

\* A free chunk passes do_check_free_chunk.
LEMMA FreeChecked ==
    ASSUME NEW g, NEW C, NEW U, NEW sz, Layout(g, C, U, sz, {}), NEW p \in C \ U
    PROVE  IsHead(g, p) /\ chunksize(g, p) = sz[p] /\ ~cinuse(g, p) /\ check_free_chunk(g, p)
<1> DEFINE q == p + sz[p]
<1>1. /\ p \in C /\ p \notin U /\ U \subseteq C /\ q \in U
  <2>1. C \ (U \cup {}) = C \ U /\ C \ {} = C
    OBVIOUS
  <2> QED
    BY <2>1 DEF Layout, Parted
<1>2. IsHead(g, p) /\ chunksize(g, p) = sz[p] /\ ~cinuse(g, p) /\ pinuse(g, p) = Word(g, p + 4).pinuse
  BY <1>1, ChunkFacts DEF WordsAt
<1>3. sz[p] \in Nat /\ Eight(sz[p]) /\ sz[p] >= 16
  BY <1>1, ChunkFacts DEF ChunkAt
<1>4. pinuse(g, p)
  <2>1. Behind(U, sz, p)
    BY FreeIsBehind
  <2> QED
    BY <1>1, <2>1, BehindPinuse
<1>5. IsHead(g, q) /\ ~Word(g, q + 4).pinuse /\ Word(g, q) = Foot(sz[p])
  <2>1. NextsAre(g, C, U, sz) /\ FeetAre(g, C \ U, sz)
    <3>1. C \ (U \cup {}) = C \ U /\ C \ {} = C
      OBVIOUS
    <3> QED
      BY <3>1 DEF Layout, Stored
  <2> QED
    BY <1>1, <2>1 DEF NextsAre, FeetAre
<1>6. cinuse(g, q)
  <2>1. q \in C
    BY <1>1
  <2> HIDE DEF q
  <2> QED
    BY <1>1, <2>1, ChunkFacts DEF WordsAt
<1>7. next_chunk(g, p) = q
  BY <1>2 DEF next_chunk
<1> HIDE DEF q
<1>8. ~next_pinuse(g, p)
  <2>1. pinuse(g, q) = Word(g, q + 4).pinuse
    BY <1>5, HeadReads
  <2> QED
    BY <1>5, <1>7, <2>1 DEF next_pinuse
<1>9. check_free_chunk(g, p)
  <2>1. chunksize(g, p) % 8 = 0 /\ chunksize(g, p) >= MIN_CHUNK_SIZE
    BY <1>2, <1>3 DEF Eight, MIN_CHUNK_SIZE
  <2>2. Word(g, q) = Foot(chunksize(g, p))
    BY <1>2, <1>5
  <2> QED
    BY <1>2, <1>4, <1>5, <1>6, <1>7, <1>8, <2>1, <2>2 DEF check_free_chunk
<1> QED
  BY <1>2, <1>9

\* A chunk in use passes do_check_inuse_chunk.
LEMMA UsedChecked ==
    ASSUME NEW g, NEW C, NEW U, NEW sz, Layout(g, C, U, sz, {}), NEW p \in U
    PROVE  cinuse(g, p) /\ check_inuse_chunk(g, p)
<1> DEFINE q == p + sz[p]
<1>1. p \in C /\ NextsAre(g, C, U, sz) /\ FeetAre(g, C \ U, sz)
  <2>1. C \ (U \cup {}) = C \ U /\ C \ {} = C
    OBVIOUS
  <2> QED
    BY <2>1 DEF Layout, Parted, Stored
<1>2. IsHead(g, p) /\ chunksize(g, p) = sz[p] /\ cinuse(g, p) /\ pinuse(g, p) = Word(g, p + 4).pinuse
  BY <1>1, ChunkFacts DEF WordsAt
<1>3. IsHead(g, q) /\ Word(g, q + 4).pinuse
  BY <1>1 DEF NextsAre
<1>4. next_chunk(g, p) = q
  BY <1>2 DEF next_chunk
<1> HIDE DEF q
<1>5. next_pinuse(g, p)
  <2>1. pinuse(g, q) = Word(g, q + 4).pinuse
    BY <1>3, HeadReads
  <2> QED
    BY <1>3, <1>4, <2>1 DEF next_pinuse
<1>6. ASSUME ~pinuse(g, p)
      PROVE  Word(g, p).k = "foot" /\ IsHead(g, p - prev_foot(g, p)) /\ next_chunk(g, p - prev_foot(g, p)) = p
  <2>1. PICK r \in C \ U : r + sz[r] = p /\ prev_foot(g, p) = sz[r] /\ p - prev_foot(g, p) = r
    BY <1>2, <1>6, PrevFree
  <2>2. Word(g, r + sz[r]) = Foot(sz[r])
    BY <1>1 DEF FeetAre
  <2>3. Word(g, p).k = "foot"
    BY <2>1, <2>2 DEF Foot
  <2>4. IsHead(g, r) /\ chunksize(g, r) = sz[r]
    BY FreeChecked
  <2>5. next_chunk(g, r) = p
    BY <2>1, <2>4 DEF next_chunk
  <2> QED
    BY <2>1, <2>3, <2>4, <2>5
<1> QED
  BY <1>2, <1>5, <1>6 DEF check_inuse_chunk

\* top passes do_check_top_chunk.
LEMMA TopChecked ==
    ASSUME NEW g, NEW C, NEW U, NEW sz, Layout(g, C, U, sz, {})
    PROVE  /\ check_top_chunk(g)
           /\ Total(g) <= g.footprint /\ g.footprint <= g.max_footprint
<1>1. Topped(g) /\ Stored(g, C, U, sz, {})
  BY DEF Layout
<1>2. /\ g.topsize \in Nat /\ g.topsize > 0 /\ IsHead(g, g.top) /\ chunksize(g, g.top) = g.topsize
      /\ g.top \in Nat /\ g.brk \in Nat
  BY TopFacts DEF TopAt
<1>3. /\ IsHead(g, g.top + g.topsize) /\ ~Word(g, g.top + g.topsize + 4).pinuse
      /\ g.brk = g.top + g.topsize + 40 /\ g.seg_size = g.brk - Base /\ g.footprint = g.seg_size
      /\ g.footprint <= g.max_footprint /\ Base \in Nat
  BY <1>1, HeapAssumption DEF Topped, TOP_FOOT_SIZE
<1>4. pinuse(g, g.top)
  <2>1. Behind(U, sz, g.top)
    BY FreeIsBehind
  <2>2. Word(g, g.top + 4).pinuse
    <3>1. CASE g.top = Base
      BY <1>1, <3>1 DEF Stored
    <3>2. CASE \E q \in U : q + sz[q] = g.top
      <4>1. PICK q \in U : q + sz[q] = g.top
        BY <3>2
      <4>2. q \in C /\ NextsAre(g, C, U, sz)
        <5>1. C \ {} = C
          OBVIOUS
        <5> QED
          BY <5>1 DEF Layout, Parted, Stored
      <4>3. Word(g, q + sz[q] + 4).pinuse
        BY <4>2 DEF NextsAre
      <4> QED
        BY <4>1, <4>3
    <3> QED
      BY <2>1, <3>1, <3>2 DEF Behind
  <2> QED
    BY <1>2, <2>2, HeadReads
<1>5. ~next_pinuse(g, g.top)
  <2> DEFINE q == g.top + g.topsize
  <2>1. next_chunk(g, g.top) = q
    BY <1>2 DEF next_chunk
  <2>2. IsHead(g, q) /\ ~Word(g, q + 4).pinuse
    BY <1>3
  <2> HIDE DEF q
  <2>3. pinuse(g, q) = Word(g, q + 4).pinuse
    BY <2>2, HeadReads
  <2> QED
    BY <2>1, <2>2, <2>3 DEF next_pinuse
<1>6. g.topsize = Base + g.seg_size - g.top - TOP_FOOT_SIZE
  BY <1>2, <1>3 DEF TOP_FOOT_SIZE
<1>7. Total(g) = g.footprint
  <2>1. Walk(g).sum = g.top - Base
    BY WalkSees
  <2> QED
    BY <1>2, <1>3, <2>1 DEF Total, TOP_FOOT_SIZE
<1>8. g.footprint \in Int
  BY <1>2, <1>3
<1>9. check_top_chunk(g)
  BY <1>2, <1>4, <1>5, <1>6 DEF check_top_chunk
<1>10. g.footprint <= g.max_footprint
  BY <1>3
<1>11. Total(g) <= g.footprint
  BY <1>7, <1>8
<1> QED
  BY <1>9, <1>10, <1>11

\* of the bins, which hold the free chunks but dv,
LEMMA BinnedIs ==
    ASSUME NEW g, NEW G, NEW sz, BinnedAre(g, G, sz), Sized(G, sz)
    PROVE  Binned(g) = G
<1>1. /\ \A i \in SmallBins : Lists(g.small[i], InSmall(G, sz, i))
      /\ \A i \in TreeBins : TreeOf(g.tree[i], i, InTree(G, sz, i), sz)
  BY DEF BinnedAre
<1>2. ASSUME NEW p \in Binned(g) PROVE p \in G
  <2>1. \/ \E i \in SmallBins : p \in ToSet(g.small[i])
        \/ \E i \in TreeBins : \E q \in DOMAIN g.tree[i] : p \in ToSet(g.tree[i][q])
    BY DEF Binned
  <2>2. CASE \E i \in SmallBins : p \in ToSet(g.small[i])
    <3>1. PICK i \in SmallBins : p \in ToSet(g.small[i])
      BY <2>2
    <3>2. g.small[i] \in Seq(InSmall(G, sz, i))
      BY <1>1 DEF Lists
    <3>3. p \in InSmall(G, sz, i)
      BY <3>1, <3>2 DEF ToSet
    <3> QED
      BY <3>3 DEF InSmall
  <2>3. CASE \E i \in TreeBins : \E q \in DOMAIN g.tree[i] : p \in ToSet(g.tree[i][q])
    <3>0. PICK i \in TreeBins : \E q \in DOMAIN g.tree[i] : p \in ToSet(g.tree[i][q])
      BY <2>3
    <3>1. PICK q \in DOMAIN g.tree[i] : p \in ToSet(g.tree[i][q])
      BY <3>0
    <3>2. g.tree[i][q] \in Seq(InTree(G, sz, i))
      BY <1>1 DEF TreeOf, RingsOf
    <3>3. p \in InTree(G, sz, i)
      BY <3>1, <3>2 DEF ToSet
    <3> QED
      BY <3>3 DEF InTree
  <2> QED
    BY <2>1, <2>2, <2>3
<1>3. ASSUME NEW p \in G PROVE p \in Binned(g)
  <2>1. sz[p] \in Nat /\ Eight(sz[p]) /\ sz[p] < Modulus
    BY DEF Sized
  <2>2. CASE sz[p] < MIN_LARGE_SIZE
    <3> DEFINE i == small_index(sz[p])
    <3>1. i \in SmallBins /\ 8 * i = sz[p]
      BY <2>1, <2>2, SmallBin
    <3> HIDE DEF i
    <3>2. p \in InSmall(G, sz, i)
      BY <3>1 DEF InSmall
    <3>3. p \in ToSet(g.small[i])
      BY <1>1, <3>1, <3>2 DEF Lists
    <3> QED
      BY <3>1, <3>3 DEF Binned
  <2>3. CASE ~(sz[p] < MIN_LARGE_SIZE)
    <3> DEFINE i == compute_tree_index(sz[p])
    <3>1. sz[p] >= MIN_LARGE_SIZE
      BY <2>1, <2>3, LargeSizes
    <3>2. i \in TreeBins
      BY <2>1, <3>1, TreeIndex DEF Ranged
    <3> HIDE DEF i
    <3>3. p \in InTree(G, sz, i)
      BY <3>1 DEF InTree, i
    <3>4. PICK q \in DOMAIN g.tree[i] : p \in ToSet(g.tree[i][q])
      BY <1>1, <3>2, <3>3 DEF TreeOf, RingsOf
    <3> QED
      BY <3>2, <3>4 DEF Binned
  <2> QED
    BY <2>2, <2>3
<1> QED
  BY <1>2, <1>3

\* The small bins pass do_check_smallbin: their chunks have their size.
LEMMA SmallBinChecked ==
    ASSUME NEW g, NEW C, NEW U, NEW sz, Sound(g, C, U, sz), NEW i \in SmallBins
    PROVE  check_smallbin(g, i)
<1> DEFINE G == (C \ U) \ {g.dv}
<1>1. Layout(g, C, U, sz, {}) /\ BinnedAre(g, G, sz)
  BY DEF Sound, Shelved
<1>2. g.small[i] \in Seq(InSmall(G, sz, i))
  BY <1>1 DEF BinnedAre, Lists
<1>3. ASSUME NEW p \in ToSet(g.small[i]) PROVE IsHead(g, p) /\ chunksize(g, p) = 8 * i /\ check_free_chunk(g, p)
  <2>1. p \in InSmall(G, sz, i)
    <3> HIDE DEF G
    <3> QED
      BY <1>2 DEF ToSet
  <2>2. p \in C \ U /\ sz[p] = 8 * i
    BY <2>1 DEF InSmall
  <2> QED
    BY <1>1, <2>2, FreeChecked
<1> QED
  BY <1>3 DEF check_smallbin

\* The tree bins pass do_check_tree: their chunks are where their bits lead.
LEMMA TreeChecked ==
    ASSUME NEW g, NEW C, NEW U, NEW sz, Sound(g, C, U, sz), NEW i \in TreeBins
    PROVE  check_tree(g, i)
<1> DEFINE G == (C \ U) \ {g.dv}
           T == InTree(G, sz, i)
           t == g.tree[i]
<1>1. Layout(g, C, U, sz, {}) /\ BinnedAre(g, G, sz) /\ G \subseteq C
  BY DEF Sound, Shelved
<1>2. TreeOf(t, i, T, sz)
  BY <1>1 DEF BinnedAre
<1>3. Sized(G, sz)
  <2> HIDE DEF G
  <2> QED
    BY <1>1, LayoutSized
<1>4. Large(T, i, sz)
  <2> HIDE DEF G
  <2> QED
    BY <1>3, TreeIsLarge
<1>5. \A p \in T : p \in C \ U /\ sz[p] >= MIN_LARGE_SIZE /\ compute_tree_index(sz[p]) = i
  BY DEF InTree
<1> HIDE DEF G, T
<1>6. ASSUME NEW q \in DOMAIN t
      PROVE  NodeOf(t, i, T, sz, q) /\ SizeAt(g, i, q) = SizeOf(t, sz, q)
  <2>1. NodeOf(t, i, T, sz, q)
    <3> HIDE DEF t
    <3> QED
      BY <1>2, <1>4, NodeSizes
  <2>2. SizeAt(g, i, q) = sz[Head(RingAt(g, i, q))]
    BY NodeInBin
  <2> QED
    BY <2>1, <2>2 DEF RingAt, SizeOf
<1>7. ASSUME NEW q \in DOMAIN t
      PROVE  LET s == SizeAt(g, i, q)
                 both == Children(g.tree[i], q) = {0, 1}
             IN  /\ \A p \in ToSet(g.tree[i][q]) : IsHead(g, p) /\ chunksize(g, p) = s /\ check_free_chunk(g, p)
                 /\ s >= MIN_LARGE_SIZE /\ compute_tree_index(s) = i
                 /\ s >= minsize_for_tree_index(i) /\ (i < NTREEBINS - 1 => s < minsize_for_tree_index(i + 1))
                 /\ q = Way(s, i, Len(q)) /\ (q # <<>> => Front(q) \in DOMAIN g.tree[i])
                 /\ both => SizeAt(g, i, Append(q, 0)) < SizeAt(g, i, Append(q, 1))
  <2> DEFINE s == SizeAt(g, i, q)
             both == Children(t, q) = {0, 1}
  <2>1. NodeOf(t, i, T, sz, q) /\ s = SizeOf(t, sz, q)
    BY <1>6
  <2>2. /\ s \in Nat /\ Ranged(s, i) /\ Head(t[q]) \in T /\ Head(t[q]) \in ToSet(t[q])
        /\ (\A p \in ToSet(t[q]) : p \in T /\ sz[p] = s)
        /\ q \in Seq({0, 1}) /\ Len(q) \in Depths(i) /\ q = Way(s, i, Len(q))
    <3> HIDE DEF t, s
    <3> QED
      BY <2>1 DEF NodeOf
  <2>3. \A p \in ToSet(t[q]) : IsHead(g, p) /\ chunksize(g, p) = s /\ check_free_chunk(g, p)
    <3> TAKE p \in ToSet(t[q])
    <3>1. p \in T /\ sz[p] = s
      BY <2>2
    <3>2. p \in C \ U
      BY <1>5, <3>1
    <3> HIDE DEF s, t
    <3> QED
      BY <1>1, <3>1, <3>2, FreeChecked
  <2>4. s >= MIN_LARGE_SIZE /\ compute_tree_index(s) = i
    <3>1. Head(t[q]) \in T /\ sz[Head(t[q])] = s
      BY <2>2
    <3> HIDE DEF s, t
    <3> QED
      BY <1>5, <3>1
  <2>5. s >= minsize_for_tree_index(i) /\ (i < NTREEBINS - 1 => s < minsize_for_tree_index(i + 1))
    <3>1. minsize_for_tree_index(i) \in Nat
      <4>1. i \in Nat /\ i <= i
        BY HeapAssumption DEF TreeBins
      <4> QED
        BY <4>1, FloorsGrow
    <3> HIDE DEF s
    <3> QED
      BY <2>2, <3>1 DEF Ranged
  <2>6. ASSUME q # <<>> PROVE Front(q) \in DOMAIN t
    <3> DEFINE n == Len(q) - 1
    <3>1. n \in 0 .. Len(q)
      BY <2>2, <2>6, EmptySeq
    <3>2. Front(q) = SubSeq(q, 1, n)
      BY DEF Front
    <3> HIDE DEF n, t
    <3>3. SubSeq(q, 1, n) \in DOMAIN t
      BY <1>2, <1>4, <3>1, NodeAbove
    <3> QED
      BY <3>2, <3>3
  <2>7. ASSUME both PROVE SizeAt(g, i, Append(q, 0)) < SizeAt(g, i, Append(q, 1))
    <3> DEFINE l == Append(q, 0)
               r == Append(q, 1)
               n == Len(q)
               x == SizeOf(t, sz, l)
               y == SizeOf(t, sz, r)
    <3>1. l \in DOMAIN t /\ r \in DOMAIN t
      <4>1. 0 \in Children(t, q) /\ 1 \in Children(t, q)
        BY <2>7
      <4> HIDE DEF t
      <4> QED
        BY <4>1 DEF Children
    <3>2. NodeOf(t, i, T, sz, l) /\ SizeAt(g, i, l) = x /\ NodeOf(t, i, T, sz, r) /\ SizeAt(g, i, r) = y
      <4> HIDE DEF l, r
      <4> QED
        BY <1>6, <3>1
    <3>3. n \in Nat /\ Len(l) = n + 1 /\ Len(r) = n + 1 /\ l[n + 1] = 0 /\ r[n + 1] = 1
          /\ \A d \in 1 .. n : l[d] = r[d]
      BY <2>2
    <3> HIDE DEF l, r, t, s, both, n
    <3>4. /\ x \in Nat /\ Ranged(x, i) /\ x < Modulus /\ Len(l) \in Depths(i) /\ l = Way(x, i, Len(l))
      BY <3>2 DEF NodeOf
    <3>5. /\ y \in Nat /\ Ranged(y, i) /\ y < Modulus /\ r = Way(y, i, Len(r))
      BY <3>2 DEF NodeOf
    <3> HIDE DEF x, y
    <3>6. /\ n + 1 \in Depths(i) /\ Way(x, i, n + 1) = l /\ Way(y, i, n + 1) = r
      BY <3>3, <3>4, <3>5
    <3>7. x < y
      <4>1. /\ \A d \in 1 .. n : Way(x, i, n + 1)[d] = Way(y, i, n + 1)[d]
            /\ Way(x, i, n + 1)[n + 1] = 0 /\ Way(y, i, n + 1)[n + 1] = 1
        BY <3>3, <3>6
      <4> QED
        BY <3>3, <3>4, <3>5, <3>6, <4>1, LeftIsSmaller
    <3> QED
      BY <3>2, <3>7 DEF l, r
  <2> HIDE DEF s
  <2> QED
    BY <2>2, <2>3, <2>4, <2>5, <2>6, <2>7 DEF s
<1> QED
  BY <1>7 DEF check_tree

\* A sound heap passes do_check_malloc_state.
LEMMA SoundChecked ==
    ASSUME NEW g, NEW C, NEW U, NEW sz, Sound(g, C, U, sz)
    PROVE  check_malloc_state(g)
<1> DEFINE F == C \ U
           G == F \ {g.dv}
<1>1. Layout(g, C, U, sz, {}) /\ Shelved(g, F, sz) /\ U \subseteq C
  BY DEF Sound, Layout, Parted
<1>2. Chunks(g) = C
  BY <1>1, WalkSees
<1>3. Binned(g) = G
  <2>1. BinnedAre(g, G, sz) /\ G \subseteq C
    BY <1>1 DEF Shelved
  <2> HIDE DEF G
  <2>2. Sized(G, sz)
    BY <1>1, <2>1, LayoutSized
  <2> QED
    BY <2>1, <2>2, BinnedIs
<1>4. g.dv = 0 \/ (g.dv \in F /\ g.dvsize = sz[g.dv])
  BY <1>1 DEF Shelved
<1>5. g.dvsize # 0 => /\ g.dv \in Chunks(g) \ Binned(g) /\ g.dvsize = chunksize(g, g.dv)
                      /\ g.dvsize >= MIN_CHUNK_SIZE
  <2> SUFFICES ASSUME g.dvsize # 0
               PROVE  g.dv \in C \ G /\ g.dvsize = chunksize(g, g.dv) /\ g.dvsize >= 16
    BY <1>2, <1>3 DEF MIN_CHUNK_SIZE
  <2> DEFINE p == g.dv
  <2>1. p \in C \ U /\ p \in C /\ g.dvsize = sz[p]
    BY <1>1 DEF Shelved
  <2>2. p \notin G
    OBVIOUS
  <2> HIDE DEF p, G
  <2>3. chunksize(g, p) = sz[p]
    BY <1>1, <2>1, FreeChecked
  <2>4. sz[p] >= 16
    BY <1>1, <2>1, ChunkFacts DEF ChunkAt
  <2> QED
    BY <2>1, <2>2, <2>3, <2>4 DEF p
<1>6. g.top \notin Binned(g)
  <2>1. g.top \notin C
    BY <1>1, TopFacts DEF TopAt
  <2> QED
    BY <1>3, <2>1
<1>7. traverse_and_check(g)
  <2>1. ASSUME NEW p \in C PROVE IF cinuse(g, p) THEN p \notin G /\ check_inuse_chunk(g, p)
                                 ELSE (p = g.dv \/ p \in G) /\ check_free_chunk(g, p)
    <3>1. CASE p \in U
      <4>1. cinuse(g, p) /\ check_inuse_chunk(g, p)
        BY <1>1, <3>1, UsedChecked
      <4> QED
        BY <3>1, <4>1
    <3>2. CASE p \notin U
      <4>1. ~cinuse(g, p) /\ check_free_chunk(g, p)
        BY <1>1, <3>2, FreeChecked
      <4> QED
        BY <3>2, <4>1
    <3> QED
      BY <3>1, <3>2
  <2> HIDE DEF G
  <2> QED
    BY <1>2, <1>3, <2>1 DEF traverse_and_check
<1>8. check_top_chunk(g) /\ Total(g) <= g.footprint /\ g.footprint <= g.max_footprint
  BY <1>1, TopChecked
<1> QED
  BY <1>5, <1>6, <1>7, <1>8, SmallBinChecked, TreeChecked DEF check_malloc_state

-----------------------------------------------------------------------------
(* The theorems. *)

\* The inductive invariant: what is left of the calls that come first are calls, and the heap
\* is sound, with every block in a chunk in use that has room for it.
HeapInv == first \in Seq([op : {"malloc", "free"}, n : Sizes]) /\ HeapOk(h, live)

\* Sizes of requests are natural numbers.
LEMMA SizesAreNat == Sizes \subseteq Nat
  BY Limits DEF Sizes

\* Before the first call the bins are empty.
LEMMA NewHeapFresh == Fresh(NewHeap)
<1>1. DOMAIN NewHeap.small = SmallBins /\ DOMAIN NewHeap.tree = TreeBins
  BY DEF NewHeap
<1>2. ASSUME NEW i \in SmallBins PROVE Lists(NewHeap.small[i], InSmall({}, <<>>, i))
  <2>1. NewHeap.small[i] = <<>> /\ InSmall({}, <<>>, i) = {}
    BY DEF NewHeap, InSmall
  <2>2. <<>> \in Seq({}) /\ {} \subseteq ToSet(<<>>)
    OBVIOUS
  <2>3. \A x, y \in DOMAIN <<>> : (<<>>)[x] = (<<>>)[y] => x = y
    OBVIOUS
  <2> QED
    BY <2>1, <2>2, <2>3 DEF Lists, IsInjective
<1>3. ASSUME NEW i \in TreeBins PROVE TreeOf(NewHeap.tree[i], i, InTree({}, <<>>, i), <<>>)
  <2>1. DOMAIN NewHeap.tree[i] = {} /\ InTree({}, <<>>, i) = {}
    BY DEF NewHeap, InTree
  <2> DEFINE t == NewHeap.tree[i]
  <2> HIDE DEF t
  <2>2. RingsOf(t, {}, <<>>) /\ WaysOf(t, i, <<>>)
    BY <2>1 DEF RingsOf, WaysOf, t
  <2> QED
    BY <2>1, <2>2 DEF TreeOf, t
<1>4. BinnedAre(NewHeap, {}, <<>>)
  BY <1>1, <1>2, <1>3 DEF BinnedAre
<1>5. DOMAIN NewHeap = Fields
  BY DEF NewHeap, Fields
<1>6. /\ NewHeap.top = 0 /\ NewHeap.topsize = 0 /\ NewHeap.dv = 0 /\ NewHeap.dvsize = 0
      /\ NewHeap.brk = Base /\ NewHeap.seg_size = 0 /\ NewHeap.footprint = 0 /\ NewHeap.max_footprint = 0
  BY DEF NewHeap
<1> QED
  BY <1>4, <1>5, <1>6 DEF Fresh

\* The invariant holds at the beginning.
LEMMA HeapInit == Init => HeapInv
<1> SUFFICES ASSUME Init PROVE HeapInv
  OBVIOUS
<1>1. h = NewHeap /\ live = [b \in {} |-> 0]
  BY DEF Init
<1>2. Ready(h, {}, {}, <<>>)
  BY <1>1, NewHeapFresh DEF Ready
<1>3. Held(live, {}, <<>>)
  BY <1>1 DEF Held
<1>4. HeapOk(h, live)
  BY <1>2, <1>3 DEF HeapOk
<1>5. first \in Seq([op : {"malloc", "free"}, n : Sizes])
  BY RequestAssumption DEF Init
<1> QED
  BY <1>4, <1>5 DEF HeapInv

\* Every call keeps the invariant.
LEMMA HeapStep == HeapInv /\ [Next]_vars => HeapInv'
<1> SUFFICES ASSUME HeapInv, [Next]_vars PROVE HeapInv'
  OBVIOUS
<1> DEFINE T == [op : {"malloc", "free"}, n : Sizes]
<1>1. first \in Seq(T) /\ HeapOk(h, live)
  BY DEF HeapInv
<1>2. CASE UNCHANGED vars
  <2>1. h' = h /\ live' = live /\ first' = first
    BY <1>2 DEF vars
  <2> QED
    BY <1>1, <2>1 DEF HeapInv
<1>3. CASE First
  <2>1. first # <<>> /\ first' = Tail(first)
    BY <1>3 DEF First
  <2>2. Head(first) \in T /\ Tail(first) \in Seq(T)
    <3> HIDE DEF T
    <3> QED
      BY <1>1, <2>1
  <2>3. HeapOk(h', live')
    <3>1. CASE Malloc(Head(first).n)
      <4>1. Head(first).n \in Nat
        BY <2>2, SizesAreNat
      <4> QED
        BY <1>1, <3>1, <4>1, MallocOk
    <3>2. CASE \E b \in DOMAIN live : Free(b)
      BY <1>1, <3>2, FreeOk
    <3> QED
      BY <1>3, <3>1, <3>2 DEF First
  <2> QED
    BY <2>1, <2>2, <2>3 DEF HeapInv
<1>4. CASE Users /\ UNCHANGED first
  <2>1. HeapOk(h', live')
    <3>1. ASSUME NEW n \in Requests, Malloc(n) PROVE HeapOk(h', live')
      <4>1. n \in Nat
        BY RequestAssumption, SizesAreNat
      <4> QED
        BY <1>1, <3>1, <4>1, MallocOk
    <3>2. ASSUME NEW a \in Arrays, Calloc(a[1], a[2]) PROVE HeapOk(h', live')
      <4>1. a[1] \in Nat /\ a[2] \in Nat
        BY RequestAssumption, SizesAreNat
      <4> QED
        BY <1>1, <3>2, <4>1, CallocOk
    <3>3. ASSUME NEW a \in Alignments, Memalign(a[1], a[2]) PROVE HeapOk(h', live')
      <4>1. a[1] \in 0 .. HALF_MAX_SIZE_T + 1 /\ a[2] \in Nat
        BY RequestAssumption, SizesAreNat
      <4> QED
        BY <1>1, <3>3, <4>1, MemalignOk
    <3>4. \A s \in Groups : s \in Seq(Nat)
      <4> TAKE s \in Groups
      <4>1. s \in Seq(Sizes)
        BY RequestAssumption
      <4>2. Len(s) \in Nat /\ s \in [1 .. Len(s) -> Sizes]
        BY <4>1
      <4>3. s \in [1 .. Len(s) -> Nat]
        BY <4>2, SizesAreNat
      <4> QED
        BY <4>2, <4>3, SeqDef
    <3>5. ASSUME NEW s \in Groups, NEW c \in BOOLEAN, Independent(s, c) PROVE HeapOk(h', live')
      BY <1>1, <3>4, <3>5, IndependentOk
    <3>6. ASSUME NEW s \in Groups, IndependentGiven(s) PROVE HeapOk(h', live')
      BY <1>1, <3>4, <3>6, IndependentGivenOk
    <3>7. ASSUME NEW b \in DOMAIN live, Free(b) PROVE HeapOk(h', live')
      BY <1>1, <3>7, FreeOk
    <3>8. ASSUME NEW b \in DOMAIN live, Usable(b) PROVE HeapOk(h', live')
      BY <1>1, <3>8 DEF Usable
    <3>9. ASSUME NEW b \in DOMAIN live, NEW n \in Regrown, Realloc(b, n) PROVE HeapOk(h', live')
      <4>1. n \in Nat
        BY RequestAssumption, SizesAreNat
      <4> QED
        BY <1>1, <3>9, <4>1, ReallocOk
    <3>10. ASSUME NEW pad, Trim(pad) PROVE HeapOk(h', live')
      BY <1>1, <3>10, TrimOk
    <3> QED
      BY <1>4, <3>1, <3>2, <3>3, <3>5, <3>6, <3>7, <3>8, <3>9, <3>10 DEF Users
  <2> QED
    BY <1>1, <1>4, <2>1 DEF HeapInv
<1> QED
  BY <1>2, <1>3, <1>4 DEF Next

\* Between calls every chunk is where the debugging code looks for it.
LEMMA HeapInvChecked == HeapInv => HeapConsistent
<1> SUFFICES ASSUME HeapInv, ~h.broken PROVE check_malloc_state(h)
  BY DEF HeapConsistent
<1>1. PICK C, U, sz : Ready(h, C, U, sz)
  BY DEF HeapInv, HeapOk
<1>2. CASE Sound(h, C, U, sz)
  BY <1>2, SoundChecked
<1>3. CASE Fresh(h)
  BY <1>3 DEF Fresh, check_malloc_state, is_initialized
<1> QED
  BY <1>1, <1>2, <1>3 DEF Ready

\* Whatever calls are made, in any order and of any sizes, as long as sbrk has memory the
\* heap is sound between them: chunks tile the segment, heads and feet say which are in use,
\* every free chunk is dv or in the bin of its size, and every live block is in a chunk in
\* use with room for it.
THEOREM HeapInvariant == Spec => []HeapInv
<1>1. Init => HeapInv
  BY HeapInit
<1>2. HeapInv /\ [Next]_vars => HeapInv'
  BY HeapStep
<1> QED
  BY <1>1, <1>2, PTL DEF Spec

\* What do_check_malloc_state asserts (malloc.c:2778) holds between any two calls of any use
\* of the heap, as long as sbrk has memory.
THEOREM HeapIsConsistent == Spec => []HeapConsistent
  BY HeapInvariant, HeapInvChecked, PTL

\* What HeapInv means to the users: their blocks are aligned, inside what sbrk gave, and
\* apart from each other.
BlocksApart ==
    ~h.broken => /\ Promised!Apart(live)
                 /\ \A b \in DOMAIN live : b % 8 = 0 /\ b >= Base /\ b + live[b] <= End

\* malloc.h's first promise: no two blocks in use share memory; each is aligned and in
\* memory that sbrk gave.
THEOREM HeapBlocksApart == Spec => []BlocksApart
<1>1. HeapInv => BlocksApart
  <2> SUFFICES ASSUME HeapInv, ~h.broken
               PROVE  /\ Promised!Apart(live)
                      /\ \A b \in DOMAIN live : b % 8 = 0 /\ b >= Base /\ b + live[b] <= End
    BY DEF BlocksApart
  <2>1. PICK C, U, sz : Ready(h, C, U, sz) /\ Held(live, U, sz)
    BY DEF HeapInv, HeapOk
  <2>2. ASSUME NEW b \in DOMAIN live
        PROVE  /\ Sound(h, C, U, sz) /\ b \in Nat /\ b - 8 \in C /\ live[b] \in Nat /\ live[b] + 4 <= sz[b - 8]
               /\ b - 8 \in Nat /\ Eight(b - 8) /\ Base <= b - 8 /\ sz[b - 8] \in Nat /\ (b - 8) + sz[b - 8] <= h.top
    <3> DEFINE p == b - 8
    <3>1. b \in Nat /\ p \in U /\ live[b] \in Nat /\ live[b] + 4 <= sz[p]
      BY <2>1 DEF Held, RoomFor
    <3>2. Sound(h, C, U, sz)
      BY <2>1, <3>1 DEF Ready
    <3>3. p \in C
      BY <3>1, <3>2 DEF Sound, Layout, Parted
    <3> HIDE DEF p
    <3>4. p \in Nat /\ Eight(p) /\ Base <= p /\ sz[p] \in Nat /\ p + sz[p] <= h.top
      BY <3>2, <3>3, ChunkFacts DEF Sound, ChunkAt
    <3> QED
      BY <3>1, <3>2, <3>3, <3>4 DEF p
  <2>3. \A b, c \in DOMAIN live : b < c => b + live[b] <= c
    <3> SUFFICES ASSUME NEW b \in DOMAIN live, NEW c \in DOMAIN live, b < c PROVE b + live[b] <= c
      OBVIOUS
    <3> DEFINE p == b - 8
               q == c - 8
    <3>1. /\ p \in C /\ q \in C /\ p \in Nat /\ q \in Nat /\ b \in Nat /\ c \in Nat
          /\ live[b] \in Nat /\ sz[p] \in Nat /\ live[b] + 4 <= sz[p] /\ Sound(h, C, U, sz)
      BY <2>2
    <3>2. p < q /\ b = p + 8 /\ c = q + 8
      BY <3>1
    <3> HIDE DEF p, q
    <3>3. p + sz[p] <= q
      BY <3>1, <3>2 DEF Sound, Layout, Tiled
    <3> QED
      BY <3>1, <3>2, <3>3
  <2>4. ASSUME NEW b \in DOMAIN live PROVE b % 8 = 0 /\ b >= Base /\ b + live[b] <= End
    <3> DEFINE p == b - 8
    <3>1. /\ b \in Nat /\ p \in Nat /\ Eight(p) /\ Base <= p /\ sz[p] \in Nat /\ p + sz[p] <= h.top
          /\ live[b] \in Nat /\ live[b] + 4 <= sz[p] /\ Sound(h, C, U, sz)
      BY <2>2
    <3>2. b = p + 8
      BY <3>1
    <3> HIDE DEF p
    <3>3. b % 8 = 0
      <4>1. Eight(8)
        BY DEF Eight
      <4>2. Eight(p + 8)
        BY <3>1, <4>1, Eights
      <4> QED
        BY <3>2, <4>2 DEF Eight
    <3>4. h.top + 40 <= End /\ h.top \in Nat /\ End \in Nat /\ Base \in Nat
      <4>1. Layout(h, C, U, sz, {})
        BY <3>1 DEF Sound
      <4> QED
        BY <4>1, TopFacts, HeapAssumption DEF TopAt
    <3> QED
      BY <3>1, <3>2, <3>3, <3>4
  <2>5. Promised!Apart(live)
    BY <2>3 DEF Promised!Apart
  <2> QED
    BY <2>4, <2>5
<1> QED
  BY <1>1, HeapInvariant, PTL
=============================================================================
