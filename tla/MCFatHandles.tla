---------------------------- MODULE MCFatHandles ----------------------------
(* A FAT32 volume of four clusters of two sectors, and two files on it. *)
EXTENDS FatHandles

MCFiles == {"A", "B"}
MCSpelling == [f \in MCFiles |-> [fn |-> <<f, 0>>, lossy |-> FALSE, plain |-> TRUE, parts |-> 1]]
MCChecksum(fn) == fn
MCModes == {{"READ", "WRITE"}, {"WRITE", "ALWAYS"}}
MCLengths == {1, 5}
MCOffsets == {0, 5}
MCFaults == {0, 1, 2, 3}

(* A is empty; B has five bytes, in clusters 4 and 3. *)
LinkAt(c) == CASE c = 2 -> EndOfChain [] c = 4 -> 3 [] c = 3 -> EndOfChain [] OTHER -> 0
OldAt(s, c) == (s - clust2sect(c)) * SS + 1
Old(i) == IF i <= 5 THEN [k |-> "byte", b |-> <<"old", i>>] ELSE Zero
MCCard ==
    [s \in Sectors |-> [i \in Cells |->
        CASE s \in fatbase .. rootbase - 1 -> LinkAt(((s - fatbase) % sects_fat) * SS + i)
          [] s = fsi_sector -> [free |-> max_clust - 5, next |-> 4]
          [] s = clust2sect(2) -> IF i = 0 THEN Entry(<<"A", 0>>, {}, 0, 0) ELSE Entry(<<"B", 0>>, {}, 4, 5)
          [] s \in clust2sect(4) .. clust2sect(4) + csize - 1 -> Old(i + OldAt(s, 4))
          [] s \in clust2sect(3) .. clust2sect(3) + csize - 1 -> Old(i + OldAt(s, 3) + PerCluster)
          [] OTHER -> Zero]]
MCVolumes == {MCCard}

(* The last call is looked at in steps only. *)
MCView == <<vol, handle, calls, hurt, content>>
=============================================================================
