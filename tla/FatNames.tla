------------------------------ MODULE FatNames ------------------------------
(***************************************************************************)
(* The functions of FatFs (ff.c) that take a path: directories are listed, *)
(* made, and names removed, moved and changed.                             *)
(***************************************************************************)
EXTENDS FatFiles, FiniteSets, Bitwise

CONSTANT HalfWord   \* 65536: an entry holds a cluster number in two halves

\* f_opendir: the DIR stands at the directory's first entry.
f_opendir(v, path) ==
    LET root(w) == w.dj.slot = None
        At(u, c) == Then(dir_seek([u EXCEPT !.dj.sclust = c], 0), LAMBDA x : [x EXCEPT !.dj.fs = TRUE, !.dj.id = x.id])
    IN  After(Then(auto_mount(v), LAMBDA u : follow_path(u, path)), LAMBDA w :
            IF w.res = "NO_FILE" THEN Fail(w, "NO_PATH")
            ELSE IF w.res # "OK" THEN w
            ELSE IF ~root(w) /\ "DIR" \notin Slot(w).attr THEN Fail(w, "NO_PATH")
            ELSE At(w, IF root(w) THEN RootCluster ELSE Slot(w).clust))

\* get_fileinfo: the long name, which is in lfnbuf, or the short one.
get_fileinfo(v, long) ==
    LET e == Slot(v)
    IN  [v EXCEPT !.out = [name |-> IF v.dj.lfn_idx = NoOrder THEN None ELSE long,
                           fn |-> e.fn, attr |-> e.attr, size |-> e.size]]

\* f_readdir; an empty name is returned at the end.
Picked(v) == LET of == {n \in Names : LongName(n) = v.lfnbuf} IN IF of = {} THEN None ELSE CHOOSE n \in of : TRUE
Ended(v) == IF v.res = "NO_FILE" THEN Ok([v EXCEPT !.dj.sect = 0]) ELSE v
f_readdir(v) ==
    LET Told(w) == IF w.dj.sect = 0 THEN [w EXCEPT !.out = None] ELSE get_fileinfo(w, Picked(w))
    IN  Then(validate(v, v.dj.fs, v.dj.id), LAMBDA w :
            Then(After(dir_read(w), Ended), LAMBDA u : After(dir_next(Told(u), FALSE), Ended)))

\* The object a path leads to, for a function that has no use for the root directory.
Found(v, path) ==
    Then(Then(auto_mount(v), LAMBDA w : follow_path(w, path)), LAMBDA w :
        IF w.dj.slot = None THEN Fail(w, "INVALID_NAME") ELSE w)

\* f_stat: the long name in lfnbuf is the one the caller gave.
f_stat(v, path) == Then(Found(v, path), LAMBDA w : get_fileinfo(w, w.dj.lfn))

\* f_chmod and f_utime: the entry is changed, and all is written.
f_chmod(v, path, value, mask) ==
    LET m == mask \ {"DIR"}
    IN  Then(Found(v, path), LAMBDA w :
            sync(SetSlot(w, [Slot(w) EXCEPT !.attr = (@ \ m) \cup (value \cap m)])))
f_utime(v, path) == Then(Found(v, path), LAMBDA w : sync(SetSlot(w, Slot(w))))

\* f_getfree: the count, if it can be one, or the free entries of the table.
f_getfree(v) ==
    LET Scan(w) == FoldLeft(LAMBDA u, s : Then(u, LAMBDA x : move_window(x, s)),
                            w, [i \in 1 .. (max_clust + SS - 1) \div SS |-> fatbase + i - 1])
        free(w) == Cardinality({c \in 0 .. max_clust - 1 : LinkOf(w, c) = 0})
        Count(w) == Value([w EXCEPT !.free_clust = free(w), !.fsi_flag = @ \/ fs_type = "FAT32"], free(w))
    IN  Then(auto_mount(v), LAMBDA w :
            IF w.free_clust <= max_clust - 2 THEN Value(w, w.free_clust) ELSE Then(Scan(w), Count))

-----------------------------------------------------------------------------
\* f_unlink: a directory has to be empty.  What fails once the entry is gone is not told.
NotAsked(v, c) == Ok(v)                                                     \* mistake
EmptyDir(v, c) ==
    LET Answer(res) == IF res = "OK" THEN "DENIED" ELSE IF res = "NO_FILE" THEN "OK" ELSE res
    IN  IF c < 2 THEN Fail(v, "INT_ERR")
        ELSE After(Then(dir_seek([v EXCEPT !.dj.sclust = c], 0), dir_read), LAMBDA w :
                 [w EXCEPT !.dj = v.dj, !.res = Answer(w.res)])

ChainFirst(v, c) ==                                                         \* mistake
    Then(IF c = 0 THEN v ELSE remove_chain(v, c), LAMBDA w : Then(dir_remove(w), sync))
EntryFirst(v, c) ==
    Then(dir_remove(v), LAMBDA w : Then(IF c = 0 THEN w ELSE remove_chain(w, c), sync))

f_unlink(v, path) ==
    Then(Found(v, path), LAMBDA w :
        LET e == Slot(w)
        IN  IF "RDO" \in e.attr THEN Fail(w, "DENIED")
            ELSE Then(IF "DIR" \in e.attr THEN EmptyDir(w, e.clust) ELSE w,
                      LAMBDA u : Ok(EntryFirst(u, e.clust))))

\* f_mkdir: a cluster is prepared, then the directory registered.
Parent(v) == IF fs_type = "FAT32" /\ v.dj.sclust = RootCluster THEN 0 ELSE v.dj.sclust
Dots(c, parent) == [i \in Cells |-> IF i = 0 THEN Dot(c) ELSE IF i = 1 THEN DotDot(parent) ELSE Zero]
Prepared(v, c) ==
    LET first == clust2sect(c)
        Put(u, i) == Then(u, LAMBDA x :
            Then(move_window([x EXCEPT !.winsect = first + i - 1, !.wflag = TRUE], 0),
                 LAMBDA y : [y EXCEPT !.win = Fill(Zero)]))
    IN  FoldLeft(Put, [v EXCEPT !.win = Dots(c, Parent(v))], [i \in 1 .. csize |-> i])

Registered(v, c) ==
    After(dir_register(v), LAMBDA w :
        IF w.res # "OK" THEN Fail(remove_chain(w, c), w.res)
        ELSE sync(SetSlot(w, [Slot(w) EXCEPT !.attr = {"DIR"}, !.clust = c])))

MakeDir(v) ==
    After(create_chain(v, 0), LAMBDA t :
        CASE t.val = 0 -> Fail(t, "DENIED")
          [] t.val = IntErr -> Fail(t, "INT_ERR")
          [] t.val = DiskErr -> Fail(t, "DISK_ERR")
          [] OTHER -> Then(Then(move_window(Ok(t), 0), LAMBDA u : Prepared(u, t.val)),
                           LAMBDA u : Registered(u, t.val)))
f_mkdir(v, path) ==
    After(Then(auto_mount(v), LAMBDA u : follow_path(u, path)), LAMBDA w :
        IF w.res = "OK" THEN Fail(w, "EXIST")
        ELSE IF w.res # "NO_FILE" THEN w ELSE MakeDir(Ok(w)))

\* f_rename: the new entry is registered, a directory told of its new parent, and the
\* old entry removed.  The directory is looked for at a number put together from the
\* two halves of its own without shifting the upper one.
Unshifted(c) == (c \div HalfWord) | (c % HalfWord)
NotTold(v, c) == v                                                          \* mistake
TellParent(v, c) ==
    LET s == clust2sect(Unshifted(c))
    IN  IF s = 0 THEN Fail(v, "INT_ERR")
        ELSE Then(move_window(v, s), LAMBDA w :
                 IF w.win[1].k = "dotdot" THEN SetCell(w, 1, DotDot(Parent(w))) ELSE w)

MoveEntry(v, e, dj) ==
    Then(dir_register(v), LAMBDA w :
        LET copied == SetSlot(w, [e EXCEPT !.fn = Slot(w).fn])
        IN  Then(IF "DIR" \in e.attr THEN TellParent(copied, e.clust) ELSE copied,
                 LAMBDA u : Then(dir_remove([u EXCEPT !.dj = dj]), sync)))
f_rename(v, from, to) ==
    Then(Then(auto_mount(v), LAMBDA u : follow_path(u, from)), LAMBDA w :
        IF w.dj.slot = None THEN Fail(w, "NO_FILE")
        ELSE After(follow_path(w, to), LAMBDA new :
                 IF new.res = "OK" THEN Fail(new, "EXIST")
                 ELSE IF new.res # "NO_FILE" THEN new
                 ELSE MoveEntry(Ok(new), Slot(w), w.dj)))

-----------------------------------------------------------------------------
\* What the boot program calls (fs.c): a file is read, looked up, a directory listed.
fs_fat_read_file(v, path, size) ==
    Then(f_open(v, path, {"READ"}), LAMBDA w : Then(f_read(w, size), LAMBDA u : Ok(f_close(u))))

fs_fat_get_file_metadata(v, path) == f_stat(v, path)

RECURSIVE Listed(_, _, _)
Listed(v, entries, max_entries) ==
    LET entry(out) == [name |-> out.name, fn |-> out.fn, dir |-> "DIR" \in out.attr]
    IN  IF Len(entries) = max_entries THEN [Ok(v) EXCEPT !.out = entries]
        ELSE After(f_readdir(v), LAMBDA w :
                 IF w.res # "OK" \/ w.out = None THEN [Ok(w) EXCEPT !.out = entries]
                 ELSE Listed(w, Append(entries, entry(w.out)), max_entries))
fs_fat_list_dir(v, path, max_entries) ==
    Then(f_opendir(v, path), LAMBDA w : Listed(w, <<>>, max_entries))
=============================================================================
