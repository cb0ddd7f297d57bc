---------------------------- MODULE MCForkReads ----------------------------
(* Two extents to a record, and forks of none, one, two, three and five    *)
(* extents: inside their own record, filling it, and going on in one and   *)
(* in two records of the extents tree; on volumes of one, two and four     *)
(* sectors to a block, on their own and in wrappers.  Aligned are those    *)
(* that begin at a multiple of their blocks.  The tree is a leaf, or two or     *)
(* three, with and without records of resource forks; on some volumes      *)
(* blocks are larger than a node of the catalog or of the tree.            *)
EXTENDS ForkReads, FiniteSetsExt

E(s, n) == [start |-> s, count |-> n]
Layout == <<
    <<>>,
    <<E(18, 2)>>,
    <<E(15, 1), E(12, 2)>>,
    <<E(4, 2), E(3, 1), E(6, 2)>>,
    <<E(17, 1), E(8, 2), E(16, 1), E(14, 1), E(10, 2)>> >>

AllForks == DOMAIN Layout
BaseOf == [f \in AllForks |-> [k \in 1 .. Len(Layout[f]) + 1 |->
              MapThenSumSet(LAMBDA i : Layout[f][i].count, 1 .. k - 1)]]

DataKey(f, j) == [type |-> DataFork, file |-> f, start |-> BaseOf[f][j * 2 + 1]]
RsrcKey(f, s) == [type |-> ResourceFork, file |-> f, start |-> s]
Leaf(keys, vals, next) == [leaf |-> TRUE, keys |-> keys, vals |-> vals, next |-> next]
Inner(keys, vals) == [leaf |-> FALSE, keys |-> keys, vals |-> vals]
DataOfAnother == [type |-> DataFork, file |-> 0, start |-> 7]
K41 == DataKey(4, 1)
K51 == DataKey(5, 1)
K52 == DataKey(5, 2)

OneLeaf == [root |-> 1, fits |-> TRUE, node |-> <<Leaf(<<K41, K51, K52>>, <<1, 1, 2>>, 0)>>]
\* The search for fork 5's first record ends beside it.
ThreeLeaves == [root |-> 4, fits |-> TRUE, node |->
    <<Leaf(<<DataOfAnother>>, <<0>>, 2), Leaf(<<K41, K51>>, <<1, 1>>, 3), Leaf(<<K52>>, <<2>>, 0),
      Inner(<<DataOfAnother, K41, K52>>, <<1, 2, 3>>)>>]
\* The search for fork 5's first record goes the wrong way at the resource fork's.
Mixed == [root |-> 3, fits |-> TRUE, node |->
    <<Leaf(<<K41, RsrcKey(4, 9), K51>>, <<1, 0, 1>>, 2), Leaf(<<K52>>, <<2>>, 0), Inner(<<K41, K52>>, <<1, 2>>)>>]
\* Above the leaves, everything seems to be behind the first record of fork 4 or 5.
MixedAbove == [root |-> 3, fits |-> TRUE, node |->
    <<Leaf(<<RsrcKey(2, 9), K41, K51>>, <<0, 1, 1>>, 2), Leaf(<<K52>>, <<2>>, 0),
      Inner(<<RsrcKey(2, 9), K52>>, <<1, 2>>)>>]

Wrappers == [first_block : {0, 1}, size : {4}, embeds : {0, 1}, embedl : {20}]
Sizes == {1, 2, 4}

Bare == {v \in [partition : {2, 4}, wrapper : {None}, per_block : Sizes, total : {20}, cat : {2},
                cat_node : {2, 4}, ext_node : {2, 4}, extents : {OneLeaf}] :
            v.cat_node + v.ext_node > 4}
Wrapped == {v \in [partition : {1, 3}, wrapper : Wrappers, per_block : Sizes, total : {20, 40, 80}, cat : {2},
                   cat_node : {4}, ext_node : {4}, extents : {ThreeLeaves, Mixed, MixedAbove}] :
               /\ v.total = (v.wrapper.embedl * v.wrapper.size) \div v.per_block
               /\ v.extents = IF v.wrapper.embeds = 0 THEN ThreeLeaves
                              ELSE IF v.partition = 1 THEN MixedAbove ELSE Mixed}

Before(v) == IF v.wrapper = None THEN 0 ELSE v.wrapper.first_block + v.wrapper.embeds * v.wrapper.size
Aligned == {v \in Bare \cup Wrapped : (v.partition + Before(v)) % v.per_block = 0}
Trees == {ExtentsOf(v) : v \in Aligned}
=============================================================================
