------------------------------- MODULE FatTree -------------------------------
(***************************************************************************)
(* The names of one volume in use: any calls of FatFs' functions on paths, *)
(* in any order, while a directory is being listed, transfers fail, and    *)
(* the card is pulled out, also in the middle of a call, and put back or   *)
(* replaced by another.                                                    *)
(***************************************************************************)
EXTENDS FatNames

CONSTANTS
    Paths,        \* sequences of names
    Attributes,   \* to give to an object
    Faults,       \* which transfer of a call fails (or, negative, finds no card), 0 for none
    Cards,        \* what is on the cards
    FaultyCalls,  \* bound: which of the calls may fail, the first being 0
    MaxCalls      \* bound

\* On a FAT32 volume with larger cluster numbers f_rename does not find the directory it
\* moves (see Unshifted): nothing is claimed of those.
ASSUME NumbersFitOneHalf == max_clust <= HalfWord

VARIABLES
    vol,     \* the volume, between two calls
    dir,     \* the DIR of a caller that lists a directory
    seen,    \* of this listing (history): the directory's address, the objects in it all
             \* the time, those returned, whether a card was put in since
    call,    \* the last call
    calls,   \* how many there were
    hurt,    \* a transfer has failed since this card is in (history)
    tree     \* what the window and the card say, unless hurt (history)

vars == <<vol, dir, seen, call, calls, hurt, tree>>

-----------------------------------------------------------------------------
\* The cells of a directory, the long name its entry i has, and its bytes.
RECURSIVE ChainOn(_, _, _), TreeAt(_, _, _)

ChainOn(disk, c, met) ==
    IF c \in Clusters \ met THEN <<c>> \o ChainOn(disk, disk[FatSector(c)][c % SS], met \cup {c})
    ELSE IF c = EndOfChain THEN <<>> ELSE <<0>>
Chain(disk, c) == IF c = 0 THEN <<>> ELSE ChainOn(disk, c, {})
ChainCells(disk, chain) ==
    [i \in 1 .. Len(chain) * PerCluster |->
        LET c == chain[((i - 1) \div PerCluster) + 1]
        IN  IF c = 0 THEN Zero ELSE disk[clust2sect(c) + (((i - 1) \div SS) % csize)][(i - 1) % SS]]
DirCells(disk, c) ==
    IF c = 0 THEN [i \in 1 .. n_rootdir |-> disk[rootbase + ((i - 1) \div SS)][(i - 1) % SS]]
    ELSE ChainCells(disk, Chain(disk, c))

LongOf(cells, i) ==
    LET is == {n \in Names : LET parts == Spelling[n].parts IN
                  /\ i > parts
                  /\ \A j \in 1 .. parts : cells[i - j] = LongEntry(<<n, j>>, j = parts, Checksum(cells[i].fn))}
    IN  IF is = {} THEN None ELSE CHOOSE n \in is : TRUE
Used(cells) == {i \in DOMAIN cells : cells[i].k = "entry" /\ \A j \in 1 .. i : cells[j].k # "zero"}
Body(disk, e) == IF "DIR" \in e.attr THEN <<>>
                 ELSE SubSeq(ChainCells(disk, Chain(disk, e.clust)), 1, e.size)

\* The tree below the directory of cluster c, which is at address at: two levels.
TreeAt(disk, c, at) ==
    LET cells == DirCells(disk, c)
        is(i) == Append(at, cells[i].fn)
        own == [a \in {is(i) : i \in Used(cells)} |->
                   LET i == CHOOSE i \in Used(cells) : is(i) = a
                   IN  [name |-> LongOf(cells, i), attr |-> cells[i].attr, body |-> Body(disk, cells[i])]]
        subs == {i \in Used(cells) : "DIR" \in cells[i].attr /\ Len(at) = 0}
    IN  FoldSet(LAMBDA i, t : t @@ TreeAt(disk, cells[i].clust, is(i)), own, subs)
Root == IF fs_type = "FAT32" THEN 2 ELSE 0
TreeOf(disk) == TreeAt(disk, Root, <<>>)

\* The card is looked at through the window, while the volume is mounted.
Seen(v) == IF v.mounted /\ v.sd # "new" THEN View(v) ELSE v.disk
Told(v, bad) == IF bad THEN <<>> ELSE TreeOf(Seen(v))
FreeOn(disk) == {c \in Clusters : disk[FatSector(c)][c % SS] = 0}

\* The clusters of every object, in the order the directories name them.
RECURSIVE ChainsAt(_, _, _)
ChainsAt(disk, c, deep) ==
    LET cells == DirCells(disk, c)
        subs == {i \in Used(cells) : "DIR" \in cells[i].attr /\ deep}
    IN  FoldSet(LAMBDA i, s : s \o Chain(disk, cells[i].clust) \o
                    (IF i \in subs THEN ChainsAt(disk, cells[i].clust, FALSE) ELSE <<>>), <<>>, Used(cells))

Refers(name, short, long) == IF Spelling[name].lossy THEN long = name ELSE short = Spelling[name].fn
Shown(name) == IF Spelling[name].plain THEN None ELSE name
Store == INSTANCE NameTree WITH
    call <- IF hurt THEN [call EXCEPT !.end = "failed"] ELSE call

-----------------------------------------------------------------------------
Fresh(disk) ==
    [disk |-> disk, win |-> Fill(Zero), winsect |-> 0, wflag |-> FALSE, last_clust |-> 0,
     free_clust |-> Unknown, fsi_flag |-> FALSE, registered |-> TRUE, mounted |-> FALSE, id |-> 0,
     start |-> 0, sd |-> "new", card |-> [record |-> (0 :> "fat"), entry |-> 0],
     fault |-> 0, res |-> "OK", val |-> 0, out |-> <<>>, lfnbuf |-> <<>>, dj |-> NewDir, fp |-> NoFile]

Init ==
    /\ vol \in {Fresh(disk) : disk \in Cards}
    /\ dir = NewDir /\ seen = [at |-> None, stay |-> {}, listed |-> {}, gone |-> FALSE]
    /\ call = [op |-> "none", path |-> <<>>, arg |-> 0, end |-> "ok", data |-> <<>>]
    /\ calls = 0 /\ hurt = FALSE /\ tree = Told(vol, FALSE)

\* A call leaves the DIR and FIL, which are on its stack, behind.
Rest(v) == [v EXCEPT !.fault = 0, !.res = "OK", !.val = 0, !.out = <<>>, !.dj = NewDir, !.fp = NoFile,
                     !.lfnbuf = <<>>, !.win = IF v.winsect = 0 THEN Fill(Zero) ELSE @]
Ready(fault) == [vol EXCEPT !.fault = fault]

\* How a call ends.  On a root directory that is full FatFs answers NO_FILE.
Failed == {"DISK_ERR", "NOT_READY", "INVALID_OBJECT", "NO_FILESYSTEM", "NOT_ENABLED"}
NoRoom ==
    \/ Cardinality(FreeOn(Seen(vol))) < 2
    \/ LET cells == DirCells(Seen(vol), 0)
       IN  \A i \in 1 .. n_rootdir - 2 : \E j \in i .. i + 2 : cells[j].k \notin {"zero", "gone"}
End(op, res) == IF res = "OK" THEN "ok" ELSE IF res \in Failed THEN "failed"
                ELSE IF res \in {"DENIED", "NO_FILE"} /\ Store!CanDo(op[1], op[2], op[3]) /\ NoRoom THEN "full"
                ELSE "refused"

\* The transfer that fails.
Transfers == IF calls \in FaultyCalls THEN Faults ELSE {0}

\* A call is made, with a transfer that fails or none, and ends with the volume v.
Call(op, path, arg, fault, v) ==
    /\ calls < MaxCalls /\ calls' = calls + 1
    /\ ~hurt                        \* bound: no more calls on a card after that
    /\ fault # 0 => v.fault = 0
    /\ hurt' = (hurt \/ fault # 0 \/ v.sd = "none")
    /\ vol' = Rest(v) /\ tree' = Told(v, hurt')
    /\ call' = [op |-> op, path |-> path, arg |-> arg, end |-> End(<<op, path, arg>>, v.res), data |-> v.out]

\* ... one that does not list: a directory that is removed or moved is listed no more.
Stays(t) == IF seen.at \in DOMAIN t \cup {<<>>}
            THEN [seen EXCEPT !.stay = @ \cap DOMAIN t]
            ELSE [at |-> None, stay |-> {}, listed |-> {}, gone |-> FALSE]
Made(op, path, arg, fault, v) ==
    /\ Call(op, path, arg, fault, v)
    /\ seen' = IF hurt' THEN seen ELSE Stays(tree')
    /\ dir' = IF seen'.at = None THEN NewDir ELSE dir

Mkdir == \E p \in Paths, fault \in Transfers :
    Made("mkdir", p, 0, fault, f_mkdir(Ready(fault), p))

NewFile == \E p \in Paths, fault \in Transfers :
    LET v == Then(f_open(Ready(fault), p, {"WRITE", "NEW"}), f_close)
    IN  Made("create", p, 0, fault, v)

Unlink == \E p \in Paths, fault \in Transfers :
    Made("unlink", p, 0, fault, f_unlink(Ready(fault), p))

\* The caller's part: a directory is not moved to below itself.
Rename == \E p, q \in Paths, fault \in Transfers :
    /\ ~IsStrictPrefix(p, q)
    /\ Made("rename", p, q, fault, f_rename(Ready(fault), p, q))

Change == \E p \in Paths, attr \in Attributes, fault \in Transfers :
    Made("chmod", p, attr, fault, f_chmod(Ready(fault), p, attr, {"RDO", "ARC", "DIR"}))

Touch == \E p \in Paths, fault \in Transfers :
    Made("utime", p, 0, fault, f_utime(Ready(fault), p))

Stat == \E p \in Paths, fault \in Transfers :
    LET v == fs_fat_get_file_metadata(Ready(fault), p)
    IN  Made("stat", p, 0, fault, IF v.res = "OK" THEN [v EXCEPT !.out = [attr |-> @.attr, size |-> @.size]] ELSE v)

ReadFile == \E p \in Paths, fault \in Transfers :
    Made("load", p, 2, fault, fs_fat_read_file(Ready(fault), p, 2))

List == \E p \in Paths \cup {<<>>}, fault \in Transfers :
    Made("list", p, 2, fault, fs_fat_list_dir(Ready(fault), p, 2))

Count == \E fault \in Transfers :
    Made("count", <<>>, 0, fault, f_getfree(Ready(fault)))

\* A directory is opened, and its objects are asked for one by one.
OpenDir == \E p \in Paths \cup {<<>>} :
    LET v == f_opendir(vol, p)
        at == IF p = <<>> THEN <<>> ELSE CHOOSE a \in Store!Leads(p) : TRUE
    IN  /\ ~hurt /\ vol.sd # "none" /\ ~dir.fs /\ v.res = "OK"
        /\ Call("opendir", p, 0, 0, v) /\ dir' = v.dj
        /\ seen' = [at |-> at, stay |-> Store!Children(at), listed |-> {}, gone |-> FALSE]

ReadDir == \E fault \in Transfers :
    LET v == f_readdir([Ready(fault) EXCEPT !.dj = dir])
    IN  /\ dir.fs /\ Call("readdir", <<>>, 0, fault, v) /\ dir' = v.dj
        /\ seen' = IF v.res = "OK" /\ v.out # None THEN [seen EXCEPT !.listed = @ \cup {Append(seen.at, v.out.fn)}]
                   ELSE seen

-----------------------------------------------------------------------------
\* The card is taken out, and this one or another put in.
CardOut ==
    /\ vol.sd # "none" /\ calls + 1 < MaxCalls     \* bound: no card is changed before the last call
    /\ vol' = [vol EXCEPT !.sd = "none"]
    /\ UNCHANGED <<dir, seen, call, calls, hurt, tree>>

CardIn == \E disk \in Cards \cup {vol.disk} :
    /\ vol.sd = "none" /\ calls + 1 < MaxCalls
    /\ vol' = [vol EXCEPT !.sd = "new", !.disk = disk]
    /\ hurt' = (disk = vol.disk /\ (hurt \/ vol.wflag)) /\ seen' = [seen EXCEPT !.gone = TRUE]
    /\ call' = [call EXCEPT !.op = "insert", !.end = "failed"]
    /\ tree' = Told(vol', hurt') /\ UNCHANGED <<dir, calls>>

\* The boot program mounts the volume anew.  A window that was not written back is
\* dropped, then as when the card is changed: the table's, after a mkdir that was full.
Mount == \E v \in {fat_mount(vol, 0), fat_umount(vol)} :
    /\ calls < MaxCalls /\ calls' = calls + 1 /\ dir.fs = FALSE
    /\ vol' = Rest(v)
    /\ call' = [call EXCEPT !.op = "mount", !.end = "ok"]
    /\ hurt' = (hurt \/ vol.wflag) /\ tree' = Told(vol', hurt') /\ UNCHANGED <<dir, seen>>

Next == \/ Mkdir \/ NewFile \/ Unlink \/ Rename \/ Change \/ Touch \/ Stat \/ ReadFile \/ List \/ Count
        \/ OpenDir \/ ReadDir \/ CardOut \/ CardIn \/ Mount
Spec == Init /\ [][Next]_vars

-----------------------------------------------------------------------------
\* FatFs keeps its promise: names lead to what they should, and a call that may
\* succeed does, unless there is no room; in what the window and the card say.
ImplementsTree == Store!Spec

\* A listing returns what is in the directory, everything that was in it all the time
\* exactly once, and nothing of another card, whatever calls are made meanwhile.
ListingRight ==
    [][(calls' > calls /\ call'.op = "readdir" /\ call'.end = "ok" /\ ~hurt') =>
          LET d == call'.data
              a == Append(seen.at, d.fn)
              t == tree
          IN  /\ ~seen.gone
              /\ d = None => seen.stay \subseteq seen.listed
              /\ d # None => /\ a \in DOMAIN t /\ a \notin seen.stay \cap seen.listed
                             /\ d.name = t[a].name /\ d.attr = t[a].attr /\ d.size = Len(t[a].body)]_vars

\* A call that fails, at whatever transfer, or finds the card gone, has on the card
\* changed nothing but what its path leads to, and left no entry with free clusters.
Touched == LET on == IF call'.op \in {"unlink", "rename", "chmod"} THEN Store!Leads(call'.path) ELSE {}
           IN  on \cup UNION {Store!Below(a) : a \in on}
FailsGently ==
    [][(~hurt /\ hurt') =>
          LET t == TreeOf(vol.disk)
              u == TreeOf(vol'.disk)
          IN  /\ \A a \in DOMAIN t \ Touched : a \in DOMAIN u /\ u[a] = t[a]
              /\ 0 \notin ToSet(ChainsAt(vol'.disk, Root, TRUE))]_vars

\* Between two calls nothing waits to be written: the card may be taken out.
AllOnCard == (~hurt /\ vol.sd = "ready") => TreeOf(vol.disk) = tree

\* No cluster is lost or in two objects, the count of free ones is right, and every
\* directory says which one it is in (if its number fits one half, NumbersFitOneHalf).
SpaceKept ==
    (~hurt /\ vol.sd = "ready") =>
        LET used == ChainsAt(Seen(vol), Root, TRUE) \o Chain(Seen(vol), RootCluster)
        IN  /\ Len(used) = Cardinality(ToSet(used)) /\ 0 \notin ToSet(used)
            /\ Clusters \ FreeOn(Seen(vol)) = ToSet(used)
            /\ \A e \in ToSet(DirCells(Seen(vol), 0)) :
                  e.k = "entry" /\ "DIR" \in e.attr => DirCells(Seen(vol), e.clust)[2] = DotDot(0)
            /\ vol.mounted => vol.free_clust \in {Unknown, Cardinality(FreeOn(Seen(vol)))}
=============================================================================
