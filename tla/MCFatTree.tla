------------------------------ MODULE MCFatTree ------------------------------
(* A FAT16 volume of four clusters of one sector, and a root directory of six  *)
(* entries.  L and LL are long names, LL of two entries, that have the same    *)
(* 8.3 name but for its number; S is the short name that L or LL is given      *)
(* first; P fits in one.                                                       *)
EXTENDS FatTree

MCNames == {"L", "LL", "S", "P"}
MCSpelling == [n \in MCNames |->
    [fn |-> IF n = "P" THEN <<"P", 0>> ELSE <<"L", IF n = "S" THEN 1 ELSE 0>>,
     lossy |-> n \in {"L", "LL"}, plain |-> n \in {"S", "P"}, parts |-> IF n = "LL" THEN 2 ELSE 1]]
MCChecksum(fn) == fn

MCPaths == {<<"L">>, <<"LL">>, <<"S">>, <<"P">>, <<"P", "L">>, <<"P", "P">>}
MCFaults == {0, 1, 2, 3, 4, -1, -2, -3}
MCAttributes == {{"RDO"}, {"ARC"}}

(* A card with a directory P and a file LL, and one where P is a file. *)
Byte(i) == [k |-> "byte", b |-> i]
CardOf(root, links, data) ==
    [s \in Sectors |-> [i \in Cells |->
        IF s \in fatbase .. rootbase - 1
        THEN LET c == ((s - fatbase) % sects_fat) * SS + i
             IN  IF c < 2 \/ c \in links THEN EndOfChain ELSE 0
        ELSE IF s \in rootbase .. database - 1
        THEN LET n == (s - rootbase) * SS + i + 1 IN IF n \in DOMAIN root THEN root[n] ELSE Zero
        ELSE IF s \in DOMAIN data THEN data[s][i] ELSE Zero]]
First == CardOf(<<LongEntry(<<"LL", 2>>, TRUE, <<"L", 1>>), LongEntry(<<"LL", 1>>, FALSE, <<"L", 1>>),
                  Entry(<<"L", 1>>, {"ARC"}, 3, 2), Entry(<<"P", 0>>, {"DIR"}, 2, 0)>>,
                {2, 3}, (clust2sect(2) :> (0 :> Dot(2) @@ 1 :> DotDot(0))) @@ (clust2sect(3) :> [i \in Cells |-> Byte(i)]))
Second == CardOf(<<Gone, Entry(<<"P", 0>>, {}, 2, 1)>>, {2}, clust2sect(2) :> [i \in Cells |-> Byte(i + 2)])
MCCards == {First, Second}

(* The last call is looked at in steps only. *)
MCView == <<vol, dir, seen, calls, hurt, tree>>
=============================================================================
