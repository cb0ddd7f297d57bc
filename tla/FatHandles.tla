----------------------------- MODULE FatHandles -----------------------------
(***************************************************************************)
(* Files of one volume in use: any calls of FatFs' functions on files, in  *)
(* any order, several files open at a time, transfers failing.             *)
(***************************************************************************)
EXTENDS FatFiles, FiniteSets

CONSTANTS
    Files,        \* names in the root directory
    Modes,        \* sets of FA_ flags to open with
    Lengths,      \* of reads and writes
    Offsets,      \* to seek
    Faults,       \* which transfer of a call fails, 0 for none
    Volumes,      \* what the card holds at first
    MaxCalls      \* bound

VARIABLES
    vol,     \* the volume, between two calls
    handle,  \* [Files -> FIL]
    call,    \* the last call
    calls,   \* how many there were
    hurt,    \* files a call on which met a failing transfer (history)
    content  \* what the others hold, in the buffer, the window or on the card (history)

vars == <<vol, handle, call, calls, hurt, content>>

-----------------------------------------------------------------------------
\* The clusters from c on, as the sectors disk say; a chain that does not end in
\* EndOfChain ends in 0.
RECURSIVE ChainOn(_, _, _)
ChainOn(disk, c, seen) ==
    IF c \in Clusters \ seen THEN <<c>> \o ChainOn(disk, disk[FatSector(c)][c % SS], seen \cup {c})
    ELSE IF c = EndOfChain THEN <<>> ELSE <<0>>
Chain(disk, c) == IF c = 0 THEN <<>> ELSE ChainOn(disk, c, {})

\* The entry of a file in the root directory, and the bytes a chain holds.
RootSectors == IF RootCluster = 0 THEN [i \in 1 .. n_rootdir \div SS |-> rootbase + i - 1]
               ELSE [i \in 1 .. csize |-> clust2sect(2) + i - 1]
RootCells(disk) == {disk[s][i] : s \in ToSet(RootSectors), i \in Cells}
EntryOf(disk, f) ==
    LET found == {e \in RootCells(disk) : e.k = "entry" /\ e.fn = Spelling[f].fn}
    IN  IF found = {} THEN Entry(f, {}, 0, 0) ELSE CHOOSE e \in found : TRUE

Bytes(disk, chain, size) ==
    [i \in 1 .. size |-> LET c == chain[(i - 1) \div PerCluster + 1]
                         IN  disk[clust2sect(c) + (((i - 1) \div SS) % csize)][(i - 1) % SS]]
Sound(chain, size) == 0 \notin ToSet(chain) /\ Len(chain) * PerCluster >= size
Holds(disk, c, size) == IF Sound(Chain(disk, c), size) THEN Bytes(disk, Chain(disk, c), size) ELSE <<0>>

Opened(f) == handle[f].fs

\* What a file of the FIL fp holds: an open one through its FIL and its buffer.
First(v, f, fp) == IF fp.fs THEN fp.org ELSE EntryOf(View(v), f).clust
Size(v, f, fp) == IF fp.fs THEN fp.fsize ELSE EntryOf(View(v), f).size
Behind(v, fp) == IF fp.dirty THEN [View(v) EXCEPT ![fp.dsect] = fp.buf] ELSE View(v)
Content(v, f, fp) == Holds(Behind(v, fp), First(v, f, fp), Size(v, f, fp))
Contents(v, fps, bad) == [f \in Files |-> IF f \in bad THEN <<>> ELSE Content(v, f, fps[f])]
ChainOf(f) == Chain(View(vol), First(vol, f, handle[f]))

\* The caller's part.  FatFs passes its buffer by when it transfers whole sectors, and
\* forgets to drop it with the clusters that are truncated: a caller keeps off.
Whole(f, n) ==
    LET p == handle[f].fptr
        chain == ChainOf(f)
    IN  {clust2sect(chain[(k \div csize) + 1]) + (k % csize) :
            k \in {k \in 0 .. Len(chain) * csize - 1 : k * SS >= p /\ (k + 1) * SS <= p + n}}
ReadsApart(f, n) == handle[f].dirty => handle[f].dsect \notin Whole(f, n)
WritesApart(f, n) == handle[f].dsect \notin Whole(f, n)
TruncatesClean(f) == ~handle[f].dirty

-----------------------------------------------------------------------------
\* FATFS after the first auto_mount of a FAT32 card, around its sectors.
Fresh(disk) ==
    [disk |-> disk, win |-> Fill(Zero), winsect |-> 0, wflag |-> FALSE, last_clust |-> disk[fsi_sector][0].next,
     free_clust |-> disk[fsi_sector][0].free, fsi_flag |-> FALSE, registered |-> TRUE, mounted |-> TRUE, id |-> 1,
     start |-> 0, sd |-> "ready", card |-> [record |-> <<>>, entry |-> 0],
     fault |-> 0, res |-> "OK", val |-> 0, out |-> <<>>, lfnbuf |-> <<>>, dj |-> NewDir, fp |-> NoFile]

Init ==
    /\ vol \in {Fresh(disk) : disk \in Volumes}
    /\ handle = [f \in Files |-> NoFile]
    /\ call = [op |-> "none", file |-> "", arg |-> 0, end |-> "ok", data |-> <<>>]
    /\ calls = 0 /\ hurt = {} /\ content = Contents(vol, handle, {})

\* A call leaves the DIR, which is on its stack, behind, and the caller's buffer.
Rest(v) == [v EXCEPT !.fault = 0, !.res = "OK", !.val = 0, !.out = <<>>, !.dj = NewDir, !.fp = NoFile,
                     !.win = IF v.winsect = 0 THEN Fill(Zero) ELSE @]

With(f, fault) == [vol EXCEPT !.fp = handle[f], !.fault = fault]

\* f's call is made, with a transfer that fails or none, and ends with the volume v.
Call(f, op, arg, fault, v) ==
    /\ calls < MaxCalls /\ calls' = calls + 1
    /\ \/ fault = 0 /\ hurt' = hurt
       \/ fault # 0 /\ hurt = {} /\ v.fault = 0 /\ hurt' = {f}    \* bound: one call fails
    /\ vol' = Rest(v) /\ handle' = [handle EXCEPT ![f] = v.fp]
    /\ content' = Contents(vol', handle', hurt')
    /\ call' = [op |-> op, file |-> f, arg |-> arg, data |-> v.out,
                end |-> IF v.res = "OK" THEN "ok" ELSE "refused"]

\* The bytes of a write: each file's own, odd and even calls told apart.
Byte(f) == [k |-> "byte", b |-> <<f, calls % 2>>]
Data(f, n) == [i \in 1 .. n |-> Byte(f)]

Open == \E f \in Files, mode \in Modes, fault \in Faults :
    LET v == f_open([vol EXCEPT !.fault = fault], <<f>>, mode)
    IN  ~Opened(f) /\ Call(f, "open", mode, fault, v)

Read == \E f \in Files, n \in Lengths, fault \in Faults :
    LET v == f_read(With(f, fault), n)
    IN  Opened(f) /\ ReadsApart(f, n) /\ Call(f, "read", n, fault, v)

Write == \E f \in Files, n \in Lengths, fault \in Faults :
    LET v == f_write(With(f, fault), Data(f, n))
    IN  Opened(f) /\ WritesApart(f, n) /\ Call(f, "write", Data(f, n), fault, v)

Seek == \E f \in Files, n \in Offsets, fault \in Faults :
    LET v == f_lseek(With(f, fault), n)
    IN  Opened(f) /\ Call(f, "seek", n, fault, v)

Truncate == \E f \in Files, fault \in Faults :
    LET v == f_truncate(With(f, fault))
    IN  Opened(f) /\ TruncatesClean(f) /\ Call(f, "truncate", 0, fault, v)

Sync == \E f \in Files, fault \in Faults :
    LET v == f_sync(With(f, fault))
    IN  Opened(f) /\ Call(f, "sync", 0, fault, v)

Close == \E f \in Files, fault \in Faults :
    LET v == f_close(With(f, fault))
    IN  Opened(f) /\ Call(f, "close", 0, fault, v)

Next == Open \/ Read \/ Write \/ Seek \/ Truncate \/ Sync \/ Close
Spec == Init /\ [][Next]_vars

-----------------------------------------------------------------------------
\* Nothing is promised of a file on which a transfer failed.
Sane(f, is, none) == IF f \in hurt THEN none ELSE is
Store == INSTANCE FileStore WITH
    position <- [f \in Files |-> Sane(f, handle[f].fptr, 0)],
    mode <- [f \in Files |-> Sane(f, handle[f].mode \cap {"READ", "WRITE"}, {})],
    call <- [call EXCEPT !.end = IF call.file \in hurt THEN "failed" ELSE @]

-----------------------------------------------------------------------------
\* FatFs keeps its promise: every call does to the files what it should, whatever
\* the window and the buffers hold at the time, and though calls on others fail.
ImplementsStore == Store!Spec

\* What the table says, in the window or on the card, is sound whatever failed: no
\* cluster belongs to two files or is free, no chain is shorter than its file.
ChainsSound ==
    /\ \A f \in Files \ hurt :
        /\ Sound(ChainOf(f), Size(vol, f, handle[f]))
        /\ \A g \in Files \ {f} : ToSet(ChainOf(f)) \cap ToSet(ChainOf(g)) = {}
    /\ vol.disk[0] = Fill(Zero)
    /\ hurt = {} => \A s \in fatbase .. fatbase + sects_fat - 1, n \in 1 .. n_fats - 1 :
          vol.disk[s + n * sects_fat] = vol.disk[s]

\* No cluster is lost, and the count of free ones is right.
NothingLost ==
    hurt = {} =>
        /\ \A c \in Clusters : LinkOf(vol, c) # 0 => c = RootCluster \/ \E f \in Files : c \in ToSet(ChainOf(f))
        /\ vol.free_clust \in {Unknown, Cardinality(FreeClusters(vol))}

\* A file that is closed, or was written no more since it was synchronised, survives the
\* loss of power: the card alone holds it, whatever else is still to be written.
ClosedIsOnCard ==
    \A f \in Files \ hurt : ~handle[f].written =>
        LET e == EntryOf(vol.disk, f) IN Holds(vol.disk, e.clust, e.size) = content[f]

=============================================================================
