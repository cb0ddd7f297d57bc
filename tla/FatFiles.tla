------------------------------ MODULE FatFiles ------------------------------
(***************************************************************************)
(* The functions of FatFs (ff.c) on a file: the FIL fp of the volume.      *)
(* Whole sectors go between the card and the caller; parts of sectors go   *)
(* through buf, which holds sector dsect and is dirty when it has to be    *)
(* written back.  csect counts the sectors of the current cluster that     *)
(* were begun; 255, or csize, sends the next access to the next cluster.   *)
(* A file is shorter than 4 GB.                                            *)
(***************************************************************************)
EXTENDS FatDirectory

NoFile == [fs |-> FALSE, id |-> 0, mode |-> {}, error |-> FALSE, written |-> FALSE, dirty |-> FALSE,
           csect |-> 255, fptr |-> 0, fsize |-> 0, org |-> 0, curr |-> 0, dsect |-> 0,
           buf |-> Fill(Zero), dir_sect |-> 0, dir_slot |-> 0]

\* ABORT: the file can no longer be read or written.
Abort(v, res) == [v EXCEPT !.fp.error = TRUE, !.res = res]
OrAbort(v) == IF v.res = "OK" THEN v ELSE Abort(v, "DISK_ERR")

-----------------------------------------------------------------------------
\* disk_status: without a card the drive passes for initialized.
NeedsInit(v) == v.sd = "new"

\* disk_initialize and sd_mount, which may fail.
disk_initialize(v) ==
    IF v.sd # "new" THEN Ok(v)
    ELSE After(Transfer([v EXCEPT !.sd = "ready"]), LAMBDA m :
             IF m.res = "OK" THEN m ELSE [m EXCEPT !.sd = "new"])

\* check_fs, and the search for the volume in auto_mount: at the partition fat.c was
\* told of, or in sector 0, or where the first entry of a table there says.
check_fs(v, sect) ==
    Then(Transfer(v), LAMBDA w : Value(w, IF sect \in DOMAIN w.card.record THEN w.card.record[sect] ELSE "none"))

Search(v) ==
    After(check_fs(v, v.start), LAMBDA first :
        IF v.start # 0 \/ first.res # "OK" \/ first.val # "other" \/ v.card.entry = 0 THEN first
        ELSE check_fs(first, v.card.entry))

\* auto_mount.  Of the boot record only that it is one is read: the constants are
\* what it says.  There is no write protection.
OldWindow(v) == [v EXCEPT !.free_clust = Unknown, !.mounted = TRUE, !.id = @ + 1, !.res = "OK"]  \* mistake
Mounted(v) ==
    LET info == v.disk[fsi_sector][0]
        fresh == [v EXCEPT !.free_clust = Unknown, !.wflag = FALSE, !.winsect = 0, !.win = Fill(Zero),
                           !.mounted = TRUE, !.id = @ + 1]
    IN  IF fs_type # "FAT32" THEN Ok(fresh)
        ELSE After(Transfer([fresh EXCEPT !.fsi_flag = FALSE]), LAMBDA told :
                 IF told.res # "OK" \/ info = Zero THEN Ok(told)
                 ELSE [told EXCEPT !.last_clust = info.next, !.free_clust = info.free])

Remount(v) ==
    After(disk_initialize([v EXCEPT !.mounted = FALSE]), LAMBDA ready :
        IF ready.res # "OK" THEN Fail(ready, "NOT_READY")
        ELSE Then(Search(ready), LAMBDA found :
                 IF found.val # "fat" THEN Fail(found, "NO_FILESYSTEM") ELSE Mounted(found)))

auto_mount(v) ==
    IF ~v.registered THEN Fail(v, "NOT_ENABLED")
    ELSE IF v.mounted /\ ~NeedsInit(v) THEN Ok(v)
    ELSE Remount(v)

\* validate
validate(v, fs, id) ==
    IF ~fs \/ ~v.mounted \/ v.id # id THEN Fail(v, "INVALID_OBJECT")
    ELSE IF NeedsInit(v) THEN Fail(v, "NOT_READY")
    ELSE Ok(v)

\* f_mount: the old file system object is cleared, and the new one.
f_mount(v, fs) == Ok([v EXCEPT !.mounted = FALSE, !.registered = fs])

\* fat_mount (fat.c)
fat_mount(v, start) ==
    After(disk_initialize(f_mount(v, FALSE)), LAMBDA ready :
        IF v.sd = "none" THEN Fail(ready, "NO_DISK")
        ELSE IF ready.res # "OK" THEN Fail(ready, "NO_INIT")
        ELSE [f_mount(ready, TRUE) EXCEPT !.start = start])
fat_umount(v) == f_mount(v, FALSE)

-----------------------------------------------------------------------------
\* f_open, for an existing file: it becomes empty.
Emptied(v) ==
    LET e == Slot(v)
        zeroed == SetSlot(v, [e EXCEPT !.clust = 0, !.size = 0])
    IN  Then(IF e.clust = 0 THEN Ok(zeroed)
             ELSE Then(remove_chain(zeroed, e.clust), LAMBDA w : [w EXCEPT !.last_clust = e.clust - 1]),
             LAMBDA w : move_window(w, v.winsect))

\* ... the entry of a file to be created, emptied or just opened,
Refused(e, mode) == IF "NEW" \in mode THEN "EXIST"
                    ELSE IF e = None \/ {"RDO", "DIR"} \cap e.attr # {} THEN "DENIED" ELSE "OK"
Create(v, mode) ==
    LET e == IF v.dj.slot = None THEN None ELSE Slot(v)
        reset(w) == SetSlot(w, [Slot(w) EXCEPT !.attr = {}])
    IN  IF v.res = "NO_FILE" THEN Then(dir_register(v), LAMBDA w : Value(reset(w), 1))
        ELSE IF v.res # "OK" THEN v
        ELSE IF Refused(e, mode) # "OK" THEN Fail(v, Refused(e, mode))
        ELSE IF "ALWAYS" \in mode THEN Then(Emptied(v), LAMBDA w : Value(reset(w), 1))
        ELSE Value(v, 0)

Existing(v, mode) ==
    IF v.res # "OK" THEN v
    ELSE IF v.dj.slot = None \/ "DIR" \in Slot(v).attr THEN Fail(v, "NO_FILE")
    ELSE IF "WRITE" \in mode /\ "RDO" \in Slot(v).attr THEN Fail(v, "DENIED")
    ELSE Value(v, 0)

\* f_open
f_open(v, path, mode) ==
    LET Entered(w) == IF mode \cap {"NEW", "ALWAYS", "OPEN_ALWAYS"} # {} THEN Create(w, mode) ELSE Existing(w, mode)
    IN  Then(After(Then(auto_mount([v EXCEPT !.fp = NoFile]), LAMBDA w : follow_path(w, path)), Entered), LAMBDA w :
            [w EXCEPT !.fp = [NoFile EXCEPT !.fs = TRUE, !.id = w.id, !.mode = mode, !.written = w.val = 1,
                              !.org = Slot(w).clust, !.fsize = Slot(w).size,
                              !.dir_sect = w.winsect, !.dir_slot = w.dj.slot]])

-----------------------------------------------------------------------------
Least(a, b) == IF a < b THEN a ELSE b

\* May the file be read, or written?
Access(v, right) ==
    Then(validate(v, v.fp.fs, v.fp.id), LAMBDA w :
        IF w.fp.error THEN Fail(w, "INT_ERR")
        ELSE IF right \notin w.fp.mode THEN Fail(w, "DENIED") ELSE w)

\* The cluster create_chain or get_cluster gave becomes the current one.
Enter(w) ==
    IF w.val <= 1 THEN Abort(w, "INT_ERR")
    ELSE IF w.val = DiskErr THEN Abort(w, "DISK_ERR")
    ELSE Ok([w EXCEPT !.fp.curr = w.val, !.fp.csect = 0])

\* The sector at the file's position, where a cluster was entered.
Sector(v) == clust2sect(v.fp.curr) + v.fp.csect
OnSector(v) == IF clust2sect(v.fp.curr) = 0 THEN Abort(v, "INT_ERR") ELSE Ok(v)

\* The buffer is written back, and read.
Flushed(v) ==
    IF ~v.fp.dirty THEN Ok(v)
    ELSE OrAbort(Then(disk_write(v, v.fp.dsect, v.fp.buf), LAMBDA w : [w EXCEPT !.fp.dirty = FALSE]))
Filled(v, sector) == OrAbort(Then(Transfer(v), LAMBDA w : [w EXCEPT !.fp.buf = w.disk[sector]]))

\* How many whole sectors can be transferred at once: not beyond the cluster.
Run(v, bytes) == Least(bytes \div SS, csize - v.fp.csect)

\* cc sectors from the card to the caller's buffer, or from it to the card.
ReadRun(v, sector, cc) ==
    OrAbort(FoldLeft(LAMBDA w, i : Then(w, LAMBDA u : Then(Transfer(u), LAMBDA x :
                         [x EXCEPT !.out = @ \o [j \in 1 .. SS |-> x.disk[sector + i - 1][j - 1]]])),
                     Ok(v), [i \in 1 .. cc |-> i]))
WriteRun(v, sector, cc, cells) ==
    OrAbort(FoldLeft(LAMBDA w, i : Then(w, LAMBDA u :
                         disk_write(u, sector + i - 1, [j \in Cells |-> cells[(i - 1) * SS + j + 1]])),
                     Ok(v), [i \in 1 .. cc |-> i]))

\* The bytes to the end of the sector, at most so many.
Part(v, bytes) == Least(SS - (v.fp.fptr % SS), bytes)
Advance(v, n) == [v EXCEPT !.fp.fptr = @ + n]
Begin(v, sector) == [v EXCEPT !.fp.dsect = sector, !.fp.csect = @ + 1]

RECURSIVE ReadFrom(_, _), WriteFrom(_, _)

\* f_read, the loop: btr bytes are still to be read.
CopyOut(v, btr) ==
    LET n == Part(v, btr)
        at == v.fp.fptr % SS
    IN  Advance([v EXCEPT !.out = @ \o [j \in 1 .. n |-> v.fp.buf[at + j - 1]]], n)

ClusterEnded(v) == v.fp.csect >= csize
ReadEnter(v) ==
    IF ~ClusterEnded(v) THEN Ok(v)
    ELSE Enter(IF v.fp.fptr = 0 THEN Value(v, v.fp.org) ELSE get_cluster(v, v.fp.curr))

ReadWhole(v, cc) ==
    Then(ReadRun(v, Sector(v), cc), LAMBDA w : Advance([w EXCEPT !.fp.csect = @ + cc], cc * SS))
ReadPart(v, btr) ==
    LET s == Sector(v)
    IN  Then(Then(Flushed(v), LAMBDA w : IF w.fp.dsect = s THEN w ELSE Filled(w, s)),
             LAMBDA w : CopyOut(Begin(w, s), btr))
ReadSector(v, btr) == IF Run(v, btr) > 0 THEN ReadWhole(v, Run(v, btr)) ELSE ReadPart(v, btr)
ReadFrom(v, btr) ==
    IF btr = 0 THEN Ok(v)
    ELSE Then(IF v.fp.fptr % SS # 0 THEN Ok(CopyOut(v, btr))
              ELSE Then(Then(ReadEnter(v), OnSector), LAMBDA w : ReadSector(w, btr)),
              LAMBDA w : ReadFrom(w, btr - (w.fp.fptr - v.fp.fptr)))

\* f_read: what was read is in out.
f_read(v, btr) ==
    Then(Access([v EXCEPT !.out = <<>>], "READ"), LAMBDA w :
        ReadFrom(w, Least(btr, w.fp.fsize - w.fp.fptr)))

-----------------------------------------------------------------------------
\* f_write, the loop: cells are still to be written.
CopyIn(v, cells) ==
    LET n == Part(v, Len(cells))
        at == v.fp.fptr % SS
    IN  Advance([v EXCEPT !.fp.dirty = TRUE,
                          !.fp.buf = [j \in Cells |-> IF j \in at .. at + n - 1 THEN cells[j - at + 1] ELSE @[j]]],
                n)

\* The first cluster, or the next; a chain is begun or stretched where there is none.
WriteCluster(v) ==
    IF v.fp.fptr # 0 THEN create_chain(v, v.fp.curr)
    ELSE IF v.fp.org # 0 THEN Value(v, v.fp.org)
    ELSE After(create_chain(v, 0), LAMBDA w : [w EXCEPT !.fp.org = w.val])

WriteWhole(v, cells, cc) ==
    Then(WriteRun(v, Sector(v), cc, cells), LAMBDA w : Advance([w EXCEPT !.fp.csect = @ + cc], cc * SS))
WritePart(v, cells) ==
    LET s == Sector(v)
    IN  Then(IF v.fp.dsect # s /\ v.fp.fptr < v.fp.fsize THEN Filled(v, s) ELSE v,
             LAMBDA w : CopyIn(Begin(w, s), cells))
WriteSector(v, cells) ==
    IF Run(v, Len(cells)) > 0 THEN WriteWhole(v, cells, Run(v, Len(cells))) ELSE WritePart(v, cells)

\* A volume that is full ends the call.
Full(v) == ClusterEnded(v) /\ v.val = 0
WriteNext(v, chained, cells) ==
    Then(Then(Then(IF ClusterEnded(v) THEN Enter(chained) ELSE Ok(v), Flushed), OnSector),
         LAMBDA w : WriteSector(w, cells))
WriteFrom(v, cells) ==
    LET More(u) == Then(u, LAMBDA w : WriteFrom(w, SubSeq(cells, w.fp.fptr - v.fp.fptr + 1, Len(cells))))
    IN  IF cells = <<>> THEN Ok(v)
        ELSE After(IF ClusterEnded(v) /\ v.fp.fptr % SS = 0 THEN WriteCluster(v) ELSE Value(v, v.fp.curr), LAMBDA w :
                 IF v.fp.fptr % SS = 0 /\ Full(w) THEN Ok(w)
                 ELSE More(IF v.fp.fptr % SS # 0 THEN Ok(CopyIn(v, cells)) ELSE WriteNext(v, w, cells)))

\* f_write: the number of bytes written is in val; fewer if the volume is full.
f_write(v, cells) ==
    Then(Access(v, "WRITE"), LAMBDA w : Then(WriteFrom(w, cells), LAMBDA u :
        Value([u EXCEPT !.fp.written = TRUE, !.fp.fsize = IF @ < u.fp.fptr THEN u.fp.fptr ELSE @],
              u.fp.fptr - v.fp.fptr)))

\* f_sync: the buffer, then the directory entry, then the rest.
SizeKept(w) == SetCell(w, w.fp.dir_slot, [w.win[w.fp.dir_slot] EXCEPT !.clust = w.fp.org])   \* mistake
EntryUpdated(w) ==
    SetCell(w, w.fp.dir_slot, [w.win[w.fp.dir_slot] EXCEPT
        !.attr = @ \cup {"ARC"}, !.size = w.fp.fsize, !.clust = w.fp.org])
f_sync(v) ==
    LET flushed(w) == IF w.fp.dirty
                      THEN Then(disk_write(w, w.fp.dsect, w.fp.buf), LAMBDA u : [u EXCEPT !.fp.dirty = FALSE])
                      ELSE w
    IN  Then(validate(v, v.fp.fs, v.fp.id), LAMBDA w :
            IF ~w.fp.written THEN w
            ELSE Then(Then(flushed(w), LAMBDA u : move_window(u, u.fp.dir_sect)), LAMBDA u :
                     sync([EntryUpdated(u) EXCEPT !.fp.written = FALSE])))

\* f_close
f_close(v) == Then(f_sync(v), LAMBDA w : [w EXCEPT !.fp = NoFile])

-----------------------------------------------------------------------------
RECURSIVE Along(_, _, _)

\* f_lseek, the loop over clusters: ofs bytes from the beginning of cluster c, which is
\* where fptr is.  A file that may be written is stretched, unless the volume is full.
Along(v, c, ofs) ==
    IF ofs <= PerCluster THEN Value(Advance([Ok(v) EXCEPT !.fp.csect = ofs \div SS], ofs), c)
    ELSE After(IF "WRITE" \in v.fp.mode THEN create_chain(v, c) ELSE get_cluster(v, c), LAMBDA w :
             IF "WRITE" \in v.fp.mode /\ w.val = 0
             THEN Value(Advance([Ok(w) EXCEPT !.fp.csect = csize], PerCluster), 0)
             ELSE IF w.val = DiskErr THEN Abort(w, "DISK_ERR")
             ELSE IF w.val \notin Clusters THEN Abort(w, "INT_ERR")
             ELSE Along(Ok([w EXCEPT !.fp.curr = w.val, !.fp.fptr = @ + PerCluster]), w.val, ofs - PerCluster))

\* ... from the current cluster if the position is in it or behind, else from the first.
FromPointer(v, ofs, ifptr) ==                                               \* mistake
    LET back == (ifptr \div (csize * SS)) * csize * SS
    IN  Along([v EXCEPT !.fp.fptr = back], v.fp.curr, ofs - back)
FromHere(v, ofs, ifptr) ==
    LET bcs == csize * SS
        back == ((ifptr - 1) \div bcs) * bcs
    IN  Along([v EXCEPT !.fp.fptr = back], v.fp.curr, ofs - back)
FromFirst(v, ofs) ==
    After(IF v.fp.org = 0 THEN create_chain(v, 0) ELSE Value(Ok(v), v.fp.org), LAMBDA w :
        IF v.fp.org = 0 /\ w.val = IntErr THEN Abort(w, "INT_ERR")
        ELSE IF v.fp.org = 0 /\ w.val = DiskErr THEN Abort(w, "DISK_ERR")
        ELSE After(Ok([w EXCEPT !.fp.org = w.val, !.fp.curr = w.val]), LAMBDA u :
                 IF w.val = 0 THEN u ELSE Along(u, w.val, ofs)))

\* ... the buffer has to be of the sector the position is inside.
InSector(v) ==
    LET sector == clust2sect(v.val) + v.fp.csect
        begun == [v EXCEPT !.fp.csect = @ + 1]
    IN  IF v.fp.fptr % SS = 0 \/ v.val = 0 THEN v
        ELSE IF v.val \notin Clusters THEN Abort(v, "INT_ERR")
        ELSE IF sector = v.fp.dsect THEN begun
        ELSE Then(Flushed(begun), LAMBDA w :
                 Then(Filled(w, sector), LAMBDA u : [u EXCEPT !.fp.dsect = sector]))

\* f_lseek
Ahead(v, ofs, bcs) == v.fp.fptr > 0 /\ (ofs - 1) \div bcs >= (v.fp.fptr - 1) \div bcs

f_lseek(v, to) ==
    LET ofs == IF "WRITE" \in v.fp.mode THEN to ELSE Least(to, v.fp.fsize)
        top == [v EXCEPT !.fp.fptr = 0, !.fp.csect = 255, !.val = 0]
    IN  Then(validate(v, v.fp.fs, v.fp.id), LAMBDA valid :
            IF v.fp.error THEN Fail(v, "INT_ERR")
            ELSE Then(Then(IF ofs = 0 THEN Ok(top)
                           ELSE IF Ahead(v, ofs, PerCluster) THEN FromHere(top, ofs, v.fp.fptr)
                           ELSE FromFirst(top, ofs), InSector), LAMBDA w :
                     IF w.fp.fptr > w.fp.fsize THEN [w EXCEPT !.fp.fsize = w.fp.fptr, !.fp.written = TRUE]
                     ELSE w))

\* f_truncate: the file ends at its position.
TailLinked(v) == Then(get_cluster(v, v.fp.curr), LAMBDA w :                 \* mistake
                     IF w.val >= max_clust THEN Ok(w) ELSE remove_chain(w, w.val))
Cut(v) ==
    After(get_cluster(v, v.fp.curr), LAMBDA w :
        IF w.val = DiskErr THEN Fail(w, "DISK_ERR")
        ELSE IF w.val = IntErr THEN Fail(w, "INT_ERR")
        ELSE IF w.val >= max_clust THEN Ok(w)
        ELSE Then(put_cluster(w, w.fp.curr, EndOfChain), LAMBDA u : remove_chain(u, w.val)))
f_truncate(v) ==
    LET short(w) == [w EXCEPT !.fp.fsize = w.fp.fptr, !.fp.written = TRUE]
        cut(w) == IF w.fp.fptr = 0 THEN [remove_chain(w, w.fp.org) EXCEPT !.fp.org = 0] ELSE Cut(w)
    IN  Then(Access(v, "WRITE"), LAMBDA w :
            After(IF w.fp.fsize > w.fp.fptr THEN cut(short(w)) ELSE w, LAMBDA u :
                IF u.res = "OK" THEN u ELSE Abort(u, u.res)))
=============================================================================
