---------------------------- MODULE FatDirectory ----------------------------
(***************************************************************************)
(* Cluster chains and directories of FatFs (ff.c), over the window.        *)
(*                                                                         *)
(* A directory is a sequence of entries: a file's short entry, before it   *)
(* those of its long name, the last part of the name first, each with the  *)
(* short name's checksum.  The functions work on the DIR dj of the volume. *)
(* A name is not spelled: Spelling says what create_name makes of it, the  *)
(* short name, whether the name is lost by it ("lossy", bit 0 of the status  *)
(* byte), whether it is the very same ("plain", bit 1), and how many       *)
(* entries the long name takes.                                            *)
(***************************************************************************)
EXTENDS FatVolume

CONSTANTS
    Spelling,      \* name |-> [fn, lossy, plain, parts]; what is not in it is invalid
    Checksum(_),   \* sum_sfn, of a short name
    MaxNumber,     \* numbers gen_numname is tried with, 99
    None

Names == DOMAIN Spelling

\* Entries.  A short name is an 8.3 name and a number, 0 for none.
Zero == [k |-> "zero"]          \* first byte 0: no entry from here on
Gone == [k |-> "gone"]          \* first byte 0xE5
Dot(c) == [k |-> "dot", clust |-> c]
DotDot(c) == [k |-> "dotdot", clust |-> c]
Entry(fn, attr, c, size) == [k |-> "entry", fn |-> fn, attr |-> attr, clust |-> c, size |-> size]
LongEntry(part, last, sum) == [k |-> "lfn", part |-> part, last |-> last, sum |-> sum]

NoOrder == 255                  \* ord and lfn_idx 0xFF.. : no long name
LongName(name) == [i \in 1 .. Spelling[name].parts |-> <<name, i>>]

RootCluster == IF fs_type = "FAT32" THEN 2 ELSE 0
NewDir == [fs |-> FALSE, id |-> 0, sclust |-> 0, clust |-> 0, sect |-> 0, index |-> 0, slot |-> None, fn |-> <<None, 0>>,
           lossy |-> FALSE, plain |-> FALSE, lfn |-> None, lfn_idx |-> NoOrder]

\* *dj->dir, whatever sector is in the window.
Slot(v) == v.win[v.dj.slot]
SetSlot(v, cell) == SetCell(v, v.dj.slot, cell)

-----------------------------------------------------------------------------
RECURSIVE Unchain(_, _), Free(_, _, _), Follow(_, _, _)

\* remove_chain: cluster by cluster, until the last or an error.
Unchain(v, c) ==
    IF c >= max_clust THEN Ok(v)
    ELSE After(get_cluster(v, c), LAMBDA w :
         CASE w.val = 0 -> Ok(w)
           [] w.val = IntErr -> Fail(w, "INT_ERR")
           [] w.val = DiskErr -> Fail(w, "DISK_ERR")
           [] OTHER -> Then(put_cluster(w, c, 0), LAMBDA u : Unchain(Counted(u, 1), w.val)))
remove_chain(v, c) == IF c \in Clusters THEN Unchain(v, c) ELSE Fail(v, "INT_ERR")

\* The loop of create_chain: the next free cluster after ncl, all around up to scl.
Free(v, ncl, scl) ==
    LET c == IF ncl + 1 >= max_clust THEN 2 ELSE ncl + 1
    IN  IF ncl + 1 >= max_clust /\ c > scl THEN Value(v, 0)
        ELSE After(get_cluster(v, c), LAMBDA w :
                 IF w.val = 0 THEN Value(w, c)
                 ELSE IF w.val \in {IntErr, DiskErr} THEN w
                 ELSE IF c = scl THEN Value(w, 0)
                 ELSE Free(w, c, scl))

\* A free cluster is marked, and linked to the chain it stretches.
LinkedFirst(v, c, ncl) ==                                                   \* mistake
    IF c = 0 THEN put_cluster(v, ncl, EndOfChain) ELSE put_cluster(v, c, ncl)
Linked(v, c, ncl) ==
    Then(put_cluster(v, ncl, EndOfChain), LAMBDA w : IF c = 0 THEN w ELSE put_cluster(w, c, ncl))

Take(v, c, scl) ==
    After(Free(v, scl, scl), LAMBDA f :
        IF f.val \in {0, IntErr, DiskErr} THEN f
        ELSE After(Linked(f, c, f.val), LAMBDA w :
                 IF w.res # "OK" THEN Value(w, DiskErr)
                 ELSE Value(Counted([w EXCEPT !.last_clust = f.val], -1), f.val)))

\* create_chain returns the cluster that follows c, a new one if there is none, or
\* the first of a new chain if c is 0; 0 if there is no free cluster, or an error.
create_chain(v, c) ==
    After(IF c = 0 THEN Value(v, EndOfChain) ELSE get_cluster(v, c), LAMBDA cs :
        IF cs.val < 2 THEN Value(cs, IntErr)
        ELSE IF cs.val < max_clust THEN cs
        ELSE Take(cs, c, IF c # 0 THEN c ELSE IF v.last_clust \in 1 .. max_clust - 1 THEN v.last_clust ELSE 1))

-----------------------------------------------------------------------------
PerCluster == SS * csize

\* dir_seek, the loop over the chain: idx entries from the beginning of cluster c.
Follow(v, c, idx) ==
    IF idx < PerCluster
    THEN Ok([v EXCEPT !.dj.clust = c, !.dj.sect = clust2sect(c) + idx \div SS, !.dj.slot = idx % SS])
    ELSE After(get_cluster(v, c), LAMBDA w :
             IF w.val = DiskErr THEN Fail(w, "DISK_ERR")
             ELSE IF w.val \notin Clusters THEN Fail(w, "INT_ERR")
             ELSE Follow(w, w.val, idx - PerCluster))

dir_seek(v, idx) ==
    LET c == v.dj.sclust
        w == [v EXCEPT !.dj.index = idx]
    IN  IF c = 1 \/ c >= max_clust THEN Fail(w, "INT_ERR")
        ELSE IF c # 0 THEN Follow(w, c, idx)
        ELSE IF idx >= n_rootdir THEN Fail(w, "INT_ERR")
        ELSE Ok([w EXCEPT !.dj.sect = rootbase + idx \div SS, !.dj.slot = idx % SS])

\* dir_next, the clean-up of a new cluster: sector by sector through the window.
Cleared(v, c) ==
    LET first == clust2sect(c)
        Clear(u, s) == Then(u, LAMBDA x : move_window([x EXCEPT !.winsect = s, !.wflag = TRUE], 0))
    IN  Then(FoldLeft(Clear, [v EXCEPT !.win = Fill(Zero)], [i \in 1 .. csize |-> first + i - 1]),
             LAMBDA u : [u EXCEPT !.winsect = first])

Stretched(v) ==
    After(create_chain(v, v.dj.clust), LAMBDA w :
        CASE w.val = 0 -> Fail(w, "DENIED")
          [] w.val = IntErr -> Fail(w, "INT_ERR")
          [] w.val = DiskErr -> Fail(w, "DISK_ERR")
          [] OTHER -> Then(Then(move_window(w, 0), LAMBDA u : Cleared(u, w.val)),
                           LAMBDA u : Value(u, w.val)))

\* ... the cluster after the one at hand, a new one if there is none.
NextCluster(v, stretch) ==
    After(get_cluster(v, v.dj.clust), LAMBDA w :
        IF w.val <= 1 THEN Fail(w, "INT_ERR")
        ELSE IF w.val = DiskErr THEN Fail(w, "DISK_ERR")
        ELSE IF w.val < max_clust THEN Ok(w)
        ELSE IF stretch THEN Stretched(w) ELSE Fail(w, "NO_FILE"))

dir_next(v, stretch) ==
    LET i == v.dj.index + 1
        Arrive(w) == [w EXCEPT !.dj.index = i, !.dj.slot = i % SS]
        onward == [v EXCEPT !.dj.sect = @ + 1]
        Enter(w) == [w EXCEPT !.dj.clust = w.val, !.dj.sect = clust2sect(w.val)]
    IN  IF v.dj.sect = 0 THEN Fail(v, "NO_FILE")
        ELSE IF i % SS # 0 THEN Ok(Arrive(v))
        ELSE IF v.dj.sclust = 0
             THEN IF i >= n_rootdir THEN Fail(onward, "NO_FILE") ELSE Ok(Arrive(onward))
        ELSE IF i % PerCluster # 0 THEN Ok(Arrive(onward))
        ELSE Then(NextCluster(onward, stretch), LAMBDA w : Arrive(Enter(w)))

-----------------------------------------------------------------------------
RECURSIVE Find(_, _, _), ReadOn(_, _, _), Reserve(_, _, _, _), PutParts(_, _, _), Strike(_, _),
          Number(_, _, _)

\* The order a part of a long name leaves: the number of parts still to come, if this
\* one was the awaited, and of the same short name.
Order(e, ord, sum, fits) ==
    IF (e.last \/ e.part[2] = ord) /\ e.sum = sum /\ fits THEN e.part[2] - 1 ELSE NoOrder

\* What an entry tells: the volume, the order and checksum awaited from here on, and
\* whether it is the one looked for.
Look(v, ord, sum, hit) == [v |-> v, ord |-> ord, sum |-> sum, hit |-> hit]
Begun(v) == IF Slot(v).last THEN [v EXCEPT !.dj.lfn_idx = v.dj.index] ELSE v
SumOf(e, sum) == IF e.last THEN e.sum ELSE sum
Named(v, named) == IF named THEN v ELSE [v EXCEPT !.dj.lfn_idx = NoOrder]

\* dir_find: a lossy name is found by its long name, any other by the short one.
Matched(w, ord, sum) ==
    LET e == Slot(w)
        fits == w.dj.lossy => e.part \in ToSet(LongName(w.dj.lfn))
        named == ord = 0 /\ sum = Checksum(e.fn)
    IN  CASE e.k = "lfn" /\ w.dj.lfn # None -> Look(Begun(w), Order(e, ord, SumOf(e, sum), fits), SumOf(e, sum), FALSE)
          [] e.k = "lfn" /\ w.dj.lfn = None -> Look(w, ord, sum, FALSE)
          [] e.k = "entry" -> Look(Named(w, named), IF named THEN 0 ELSE NoOrder, sum,
                                   IF w.dj.lossy THEN named ELSE e.fn = w.dj.fn)
          [] OTHER -> Look(w, NoOrder, sum, FALSE)
Find(v, ord, sum) ==
    Then(move_window(v, v.dj.sect), LAMBDA w :
        IF Slot(w).k = "zero" THEN Fail(w, "NO_FILE")
        ELSE After(Matched(w, ord, sum), LAMBDA m :
                 IF m.hit THEN m.v
                 ELSE Then(dir_next(m.v, FALSE), LAMBDA u : Find(u, m.ord, m.sum))))
dir_find(v) == Find(v, NoOrder, NoOrder)

\* dir_read: to the next file's short entry, its long name into lfnbuf (pick_lfn).
PartAtStart(v, e) == [v EXCEPT !.lfnbuf = <<e.part>>]                       \* mistake
PartKept(v, e) ==
    IF e.last THEN [v EXCEPT !.lfnbuf = [i \in 1 .. e.part[2] |->
                       IF i = e.part[2] THEN e.part ELSE IF i \in DOMAIN @ THEN @[i] ELSE None]]
    ELSE [v EXCEPT !.lfnbuf[e.part[2]] = e.part]
Gathered(w, ord, sum) ==
    LET e == Slot(w)
        o == Order(e, ord, SumOf(e, sum), TRUE)
    IN  CASE e.k = "lfn" -> Look(IF o = NoOrder THEN Begun(w) ELSE PartKept(Begun(w), e), o, SumOf(e, sum), FALSE)
          [] e.k = "entry" -> Look(Named(w, ord = 0 /\ sum = Checksum(e.fn)), ord, sum, TRUE)
          [] OTHER -> Look(w, NoOrder, sum, FALSE)
ReadOn(v, ord, sum) ==
    IF v.dj.sect = 0 THEN Fail(v, "NO_FILE")
    ELSE Then(move_window(v, v.dj.sect), LAMBDA w :
             IF Slot(w).k = "zero" THEN Fail(w, "NO_FILE")
             ELSE After(Gathered(w, ord, sum), LAMBDA g :
                      IF g.hit THEN g.v
                      ELSE Then(dir_next(g.v, FALSE), LAMBDA u : ReadOn(u, g.ord, g.sum))))
dir_read(v) ==
    After(ReadOn(v, NoOrder, NoOrder), LAMBDA w : IF w.res = "OK" THEN w ELSE [w EXCEPT !.dj.sect = 0])

-----------------------------------------------------------------------------
\* dir_register, the loop over gen_numname: the first number whose short name is free.
Number(v, fn, n) ==
    IF n > MaxNumber THEN Fail(v, "DENIED")
    ELSE After(Then(dir_seek([v EXCEPT !.dj.fn = <<fn, n>>], 0), dir_find), LAMBDA w :
             IF w.res = "OK" THEN Number(w, fn, n + 1)
             ELSE IF w.res = "NO_FILE" THEN Ok(w) ELSE w)
Numbered(v) ==
    IF ~v.dj.lossy THEN Ok(v)
    ELSE Then(Number([v EXCEPT !.dj.lossy = FALSE, !.dj.plain = FALSE, !.dj.lfn = None], v.dj.fn[1], 1),
              LAMBDA u : [u EXCEPT !.dj.lossy = TRUE, !.dj.plain = v.dj.plain, !.dj.lfn = v.dj.lfn])

\* ... n blank entries have been counted from index first; count of them are wanted.
Reserve(v, n, first, count) ==
    Then(move_window(v, v.dj.sect), LAMBDA w :
        LET blank == Slot(w).k \in {"zero", "gone"}
            is == IF n = 0 THEN w.dj.index ELSE first
        IN  IF blank /\ n + 1 = count THEN Value(w, is)
            ELSE Then(dir_next(w, TRUE), LAMBDA u :
                     IF blank THEN Reserve(u, n + 1, is, count) ELSE Reserve(u, 0, first, count)))

\* ... the entries of the long name, the last part first (fit_lfn).
PutParts(v, ord, sum) ==
    Then(move_window(v, v.dj.sect), LAMBDA w :
        LET name == v.dj.lfn
        IN  Then(dir_next(SetSlot(w, LongEntry(<<name, ord>>, ord = Spelling[name].parts, sum)), FALSE),
                 LAMBDA u : IF ord = 1 THEN u ELSE PutParts(u, ord - 1, sum)))

Parts(v) == IF v.dj.plain THEN 0 ELSE Spelling[v.dj.lfn].parts
Room(v) == Then(dir_seek(v, 0), LAMBDA w : Reserve(w, 0, 0, Parts(w) + 1))
Long(v) == IF Parts(v) = 0 THEN v
           ELSE Then(dir_seek(v, v.val), LAMBDA w : PutParts(w, Parts(w), Checksum(w.dj.fn)))
Short(v) == Then(move_window(v, v.dj.sect), LAMBDA w : SetSlot(w, Entry(w.dj.fn, {}, 0, 0)))
dir_register(v) == Then(Then(Then(Numbered(v), Room), Long), Short)

\* dir_remove: from the first part of the long name to the short entry, index i.
Strike(v, i) ==
    Then(Then(move_window(v, v.dj.sect), LAMBDA u : SetSlot(u, Gone)), LAMBDA w :
        IF w.dj.index >= i THEN w
        ELSE After(Then(dir_next(w, FALSE), LAMBDA u : Strike(u, i)), LAMBDA n :
                 IF n.res = "NO_FILE" THEN Fail(n, "INT_ERR") ELSE n))

ShortOnly(v) == Then(dir_seek(v, v.dj.index), LAMBDA w : Strike(w, v.dj.index))   \* mistake
dir_remove(v) ==
    Then(dir_seek(v, IF v.dj.lfn_idx = NoOrder THEN v.dj.index ELSE v.dj.lfn_idx),
         LAMBDA w : Strike(w, v.dj.index))

-----------------------------------------------------------------------------
RECURSIVE Walk(_, _)

\* create_name, for one name of a path.
create_name(v, name) ==
    IF name \notin Names THEN Fail(v, "INVALID_NAME")
    ELSE LET s == Spelling[name]
         IN  Ok([v EXCEPT !.dj.fn = s.fn, !.dj.lossy = s.lossy, !.dj.plain = s.plain,
                          !.dj.lfn = name])

\* follow_path, in the directory at hand.
Walk(v, path) ==
    After(Then(Then(dir_seek(v, 0), LAMBDA u : create_name(u, Head(path))), dir_find), LAMBDA w :
        IF Len(path) = 1 THEN w
        ELSE IF w.res = "NO_FILE" THEN Fail(w, "NO_PATH")
        ELSE IF w.res # "OK" THEN w
        ELSE IF "DIR" \notin Slot(w).attr THEN Fail(w, "NO_PATH")
        ELSE Walk([w EXCEPT !.dj.sclust = Slot(w).clust], Tail(path)))

\* follow_path: from the root; dir is NULL for the root itself.
follow_path(v, path) ==
    LET root == [v EXCEPT !.dj.sclust = RootCluster]
        w == dir_seek(root, 0)
    IN  IF path = <<>> THEN [w EXCEPT !.dj.slot = None] ELSE Walk(root, path)
=============================================================================
