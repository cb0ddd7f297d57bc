----------------------------- MODULE FatVolume -----------------------------
(***************************************************************************)
(* The lowest layer of FatFs (ff.c): the window, a buffer for one sector   *)
(* that is written back when it has to make room, the allocation table     *)
(* read and written through it, and clusters.                              *)
(*                                                                         *)
(* The volume is one record that each function of ff.c takes and returns:  *)
(* the card's sectors, the members of FATFS, the FIL and the DIR at hand   *)
(* (fp and dj), res, the FRESULT, and val, what else is returned.          *)
(* Transfers fail without a card (sd, see diskio.c), and fault counts down *)
(* to one that fails, or up to the card being pulled out, if it is not 0.  *)
(* A sector is SS cells: a table's entry, a directory's entry or a piece   *)
(* of a file takes one.  FAT12, whose entries share bytes, is left out.    *)
(***************************************************************************)
EXTENDS Integers, SequencesExt

CONSTANTS
    fs_type,     \* "FAT16" or "FAT32"
    SS,          \* cells in a sector
    csize,       \* sectors in a cluster
    max_clust,   \* number of clusters + 2
    sects_fat,   \* sectors of one copy of the table
    n_fats,      \* its copies
    n_rootdir    \* entries of the root directory; 0 in FAT32

ASSUME FatAssumption ==
    /\ fs_type \in {"FAT16", "FAT32"}
    /\ SS \in Nat \ {0} /\ csize \in Nat \ {0} /\ n_fats \in Nat \ {0}
    /\ max_clust \in Nat \ {0, 1, 2}
    /\ sects_fat \in Nat /\ sects_fat * SS >= max_clust
    /\ n_rootdir \in Nat

\* Where things are.  Sector 0 is the boot record, 1 the FSInfo.
fsi_sector == 1
fatbase == 2
rootbase == fatbase + sects_fat * n_fats
database == rootbase + n_rootdir \div SS
Clusters == 2 .. max_clust - 1
Sectors == 0 .. database + (max_clust - 2) * csize - 1
Cells == 0 .. SS - 1

\* Links that are no clusters: the end of a chain, the value create_chain marks it
\* with, and what get_cluster returns in place of a link.
EndOfChain == 1000
IntErr == 1
DiskErr == 1001

Ok(v) == [v EXCEPT !.res = "OK"]
Fail(v, res) == [v EXCEPT !.res = res]
Value(v, n) == [v EXCEPT !.val = n]

\* The next step, unless this one failed; and the next step in any case.
Then(v, Step(_)) == IF v.res = "OK" THEN Step(v) ELSE v
After(v, Step(_)) == Step(v)

-----------------------------------------------------------------------------
\* disk_read and disk_write of a sector: a transfer may fail.
Transfer(v) ==
    LET sd == IF v.fault = -1 THEN "none" ELSE v.sd
    IN  [v EXCEPT !.fault = IF @ > 0 THEN @ - 1 ELSE IF @ < 0 THEN @ + 1 ELSE 0, !.sd = sd,
                  !.res = IF v.fault = 1 \/ sd # "ready" THEN "DISK_ERR" ELSE "OK"]
disk_write(v, sector, cells) ==
    Then(Transfer(v), LAMBDA w : [w EXCEPT !.disk[sector] = cells])

\* move_window, the first half: a dirty window goes to the card, and if it is of
\* the table to its copies, whether or not those can be written.
CopyBehind(v) == IF v.winsect < fatbase + sects_fat                        \* mistake
                 THEN [n \in 1 .. n_fats - 1 |-> v.winsect + n] ELSE <<>>
Copies(v) == IF v.winsect < fatbase + sects_fat
             THEN [n \in 1 .. n_fats - 1 |-> v.winsect + n * sects_fat] ELSE <<>>
WriteBack(v) ==
    Then(disk_write(v, v.winsect, v.win), LAMBDA w :
        FoldLeft(LAMBDA u, copy : Ok(disk_write(u, copy, u.win)),
                 [w EXCEPT !.wflag = FALSE], Copies(v)))

\* ... and the second: a sector is read into it, no sector for 0.
Load(v, sector) == Then(Transfer(v), LAMBDA w : [w EXCEPT !.win = w.disk[sector], !.winsect = sector])

move_window(v, sector) ==
    IF sector = v.winsect THEN Ok(v)
    ELSE Then(IF v.wflag THEN WriteBack(v) ELSE Ok(v), LAMBDA w :
             IF sector = 0 THEN w ELSE Load(w, sector))

\* A cell of the window is changed.
SetCell(v, i, cell) == [v EXCEPT !.win[i] = cell, !.wflag = TRUE]

Fill(cell) == [i \in Cells |-> cell]

\* What an FSInfo sector says; the cells of it are not told apart.
FsInfo(free, next) == Fill([free |-> free, next |-> next])

\* sync: the window, and the counts of a FAT32 volume.
CountsOnly(v) == Ok(v)                                                      \* mistake
sync(v) ==
    Then(move_window(v, 0), LAMBDA w :
        IF fs_type = "FAT32" /\ w.fsi_flag
        THEN LET info == FsInfo(w.free_clust, w.last_clust)
             IN  Ok([disk_write([w EXCEPT !.winsect = 0, !.win = info], fsi_sector, info)
                        EXCEPT !.fsi_flag = FALSE])
        ELSE w)

-----------------------------------------------------------------------------
FatSector(c) == fatbase + c \div SS

\* get_cluster: what a cluster is linked to.
get_cluster(v, c) ==
    IF c \notin Clusters THEN Value(v, IntErr)
    ELSE After(move_window(v, FatSector(c)), LAMBDA w :
             Value(w, IF w.res = "OK" THEN w.win[c % SS] ELSE DiskErr))

\* put_cluster: the window is dirty even when it could not be moved.
put_cluster(v, c, link) ==
    IF c \notin Clusters THEN Fail(v, "INT_ERR")
    ELSE After(move_window(v, FatSector(c)), LAMBDA w :
             IF w.res = "OK" THEN SetCell(w, c % SS, link) ELSE [w EXCEPT !.wflag = TRUE])

\* clust2sect: a cluster's first sector, 0 for what is no cluster.
clust2sect(c) == IF c \in Clusters THEN (c - 2) * csize + database ELSE 0

\* The number of free clusters, where it is known, and that FSInfo has to be written.
Unknown == 1002
FreedForgotten(v, n) == IF v.free_clust = Unknown \/ n > 0 THEN v          \* mistake
                        ELSE [v EXCEPT !.free_clust = @ + n, !.fsi_flag = TRUE]
Counted(v, n) == IF v.free_clust = Unknown THEN v
                 ELSE [v EXCEPT !.free_clust = @ + n, !.fsi_flag = TRUE]

-----------------------------------------------------------------------------
\* What the card would hold if the window were written back: what the volume says.
View(v) == IF v.wflag THEN [v.disk EXCEPT ![v.winsect] = v.win] ELSE v.disk
LinkOf(v, c) == View(v)[FatSector(c)][c % SS]
FreeClusters(v) == {c \in Clusters : LinkOf(v, c) = 0}
=============================================================================
