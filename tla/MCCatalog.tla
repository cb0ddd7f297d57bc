------------------------------ MODULE MCCatalog ------------------------------
(* A volume with a folder 3 that has a file and a folder 6 of one file, in   *)
(* four trees: leaves of two records under two levels of index nodes, and    *)
(* leaves of three and four under one; and two with a node whose number has  *)
(* more bits than are used of it, a child that leads back to the root, and a *)
(* next leaf that leads past a file.                                         *)
EXTENDS Catalog, TLC

KeyOf(p, n) == [parent |-> p, name |-> n]
DataOf(t, i) == [type |-> t, id |-> i]

Keys == <<KeyOf(1, 9), KeyOf(2, 0), KeyOf(2, 1), KeyOf(2, 2), KeyOf(3, 0), KeyOf(3, 1), KeyOf(3, 2), KeyOf(6, 0), KeyOf(6, 1)>>
Vals == <<DataOf("folder", 2), DataOf("folder_thread", 1), DataOf("folder", 3), DataOf("file", 4),
          DataOf("folder_thread", 2), DataOf("file", 5), DataOf("folder", 6),
          DataOf("folder_thread", 3), DataOf("file", 7)>>

LeafOf(i, j, nx) == [leaf |-> TRUE, keys |-> SubSeq(Keys, i, j), vals |-> SubSeq(Vals, i, j), next |-> nx]
Index(ks, ns) == [leaf |-> FALSE, keys |-> [k \in DOMAIN ks |-> Keys[ks[k]]], vals |-> ns, next |-> 0]

Wide == [root |-> 14, leaf_head |-> 11,
         node |-> 11 :> LeafOf(1, 3, 12) @@ 12 :> LeafOf(4, 7, 13) @@ 13 :> LeafOf(8, 9, 0)
               @@ 14 :> Index(<<1, 4, 8>>, <<11, 12, 13>>)]

Deep == [root |-> 8, leaf_head |-> 1,
         node |-> 1 :> LeafOf(1, 2, 2) @@ 2 :> LeafOf(3, 4, 3) @@ 3 :> LeafOf(5, 5, 4)
               @@ 4 :> LeafOf(6, 7, 5) @@ 5 :> LeafOf(8, 9, 0)
               @@ 6 :> Index(<<1, 3, 5>>, <<1, 2, 3>>) @@ 7 :> Index(<<6, 8>>, <<4, 5>>)
               @@ 8 :> Index(<<1, 6>>, <<6, 7>>)]

Numbers == 32

Circular == [root |-> 14, leaf_head |-> 11,
             node |-> 11 :> LeafOf(1, 3, 12) @@ 12 :> LeafOf(4, 7, Numbers + 14) @@ Numbers + 14 :> LeafOf(8, 9, 0)
                   @@ 14 :> Index(<<1, 4, 8>>, <<11, 12, Numbers + 14>>)]

Astray == [root |-> 14, leaf_head |-> 11,
           node |-> 11 :> LeafOf(1, 4, 12) @@ 12 :> LeafOf(5, 5, Numbers + 13)
                 @@ Numbers + 13 :> LeafOf(6, 6, 13) @@ 13 :> LeafOf(7, 9, 0)
                 @@ 14 :> Index(<<1, 5, 6, 7>>, <<11, 12, Numbers + 13, 13>>)]

All == {Wide, Deep, Circular, Astray}
OnlyWide == {Wide}
NodesOfAll == 1 .. 8 \cup 11 .. 14
HeightOfAll == [n \in NodesOfAll |-> IF n = 8 THEN 3 ELSE IF n \in {6, 7, 14} THEN 2 ELSE 1]

Names == 1 .. 2
AllPaths == UNION {[1 .. k -> Names] : k \in 0 .. 3}
=============================================================================
