------------------------------- MODULE NandFs -------------------------------
(***************************************************************************)
(* Files in the Wii's NAND memory (nandfs.c), read only.  A superblock has *)
(* a table of clusters, that leads from each cluster of a file to the next *)
(* one, and nodes for files and directories: a directory's first child,    *)
(* every node's next sibling.  A byte of a cluster is its place.  Nothing  *)
(* in the program calls these functions.                                   *)
(***************************************************************************)
EXTENDS Integers, SequencesExt, FiniteSetsExt

CONSTANT ClusterSize   \* 8 pages of 2048 bytes

None16 == 65535
NANDFS_FREE == 65534
ChainEnd == 65531
NameLength == 12
NoMagic == -1
Refused == [error |-> -1]

-----------------------------------------------------------------------------
\* nandfs_initialize: the last page number of a superblock, of those with the highest
\* version the first; 0 if no page has the magic word.
Better(found, i, versions) == found = 0 \/ versions[i] > versions[found]
nandfs_initialize(versions) ==
    FoldLeft(LAMBDA found, i : IF versions[i] # NoMagic /\ Better(found, i, versions) THEN i ELSE found,
             0, [i \in DOMAIN versions |-> i])

\* nandfs_open: the path, part by part, along the siblings of each directory.
RECURSIVE Find(_, _, _)
Found(node, path) ==
    /\ node.name = Head(path)
    /\ IF Len(path) > 1 THEN node.attr = 2 /\ node.first # None16 ELSE node.attr = 1
Find(files, i, path) ==
    IF Len(Head(path)) > NameLength THEN -1
    ELSE IF Found(files[i], path) THEN (IF Len(path) = 1 THEN i ELSE Find(files, files[i].first, Tail(path)))
    ELSE IF files[i].sibling # None16 THEN Find(files, files[i].sibling, path)
    ELSE -1
Fp(node) == [first_cluster |-> node.first, cur_cluster |-> node.first, offset |-> 0, size |-> node.size]
nandfs_open(files, path) ==
    IF files[0].name # "/" THEN Refused
    ELSE LET i == Find(files, files[0].first, path) IN IF i = -1 THEN Refused ELSE Fp(files[i])

\* nandfs_read, a turn of its loop: every piece goes to the beginning of the buffer.
RECURSIVE Pieces(_, _, _, _)
NextAfterEnd(table, fp, end) == IF end > ClusterSize THEN table[fp.cur_cluster] ELSE fp.cur_cluster     \* mistake
NextCluster(table, fp, end) == IF end >= ClusterSize THEN table[fp.cur_cluster] ELSE fp.cur_cluster
Piece(table, fp, total, buffer) ==
    LET copy_offset == fp.offset % ClusterSize
        copy_len == Min({ClusterSize - copy_offset, total})
    IN  Pieces(table,
               [fp EXCEPT !.offset = @ + copy_len, !.cur_cluster = NextCluster(table, fp, copy_offset + copy_len)],
               total - copy_len,
               [i \in 1 .. copy_len |-> <<fp.cur_cluster, copy_offset + i - 1>>] \o SubSeq(buffer, copy_len + 1, Len(buffer)))
Pieces(table, fp, total, buffer) ==
    IF total = 0 THEN [fp |-> fp, buffer |-> buffer] ELSE Piece(table, fp, total, buffer)
nandfs_read(table, fp, size) == Pieces(table, fp, Min({size, fp.size - fp.offset}), <<>>)

\* nandfs_seek: the place, if it is in the file or at its end, and the cluster from the
\* file's first one.
RECURSIVE Along(_, _, _)
Along(table, cluster, skip) ==
    IF skip > ClusterSize THEN Along(table, table[cluster], skip - ClusterSize) ELSE cluster
Target(fp, whence, offset) ==
    CASE whence = "set" -> offset [] whence = "cur" -> fp.offset + offset [] OTHER -> fp.size + offset
nandfs_seek(table, fp, whence, offset) ==
    LET to == Target(fp, whence, offset)
    IN  IF to < 0 \/ to > fp.size THEN Refused
        ELSE [fp EXCEPT !.offset = to, !.cur_cluster = Along(table, fp.first_cluster, to)]

-----------------------------------------------------------------------------
\* A superblock for a directory tree: nodes are sequences of [path, size], -1 for a
\* directory.  A file's clusters follow each other backwards.
Parent(path) == SubSeq(path, 1, Len(path) - 1)
FirstOr(is) == IF is = {} THEN None16 ELSE Min(is)
ChildrenOf(tree, path) == {i \in DOMAIN tree : Parent(tree[i].path) = path}
Clusters(size) == (size + ClusterSize - 1) \div ClusterSize
ClustersTo(tree, i) == FoldLeft(LAMBDA n, f : n + Clusters(f.size), 0, SubSeq(tree, 1, i))
Chain(tree, i) == [k \in 1 .. Clusters(tree[i].size) |-> ClustersTo(tree, i) - k + 1]
Files(tree) ==
    [i \in 0 .. Len(tree) |->
        IF i = 0 THEN [name |-> "/", attr |-> 2, first |-> FirstOr(ChildrenOf(tree, <<>>)), sibling |-> None16, size |-> 0]
        ELSE [name |-> Last(tree[i].path), attr |-> IF tree[i].size = -1 THEN 2 ELSE 1, size |-> tree[i].size,
              sibling |-> FirstOr({j \in ChildrenOf(tree, Parent(tree[i].path)) : j > i}),
              first |-> IF tree[i].size = -1 THEN FirstOr(ChildrenOf(tree, tree[i].path))
                        ELSE IF tree[i].size = 0 THEN ChainEnd ELSE Chain(tree, i)[1]]]
TableOf(tree) ==
    [c \in 0 .. ClustersTo(tree, Len(tree)) + 1 |->
        IF \E i \in DOMAIN tree : c \in {Chain(tree, i)[k] : k \in 1 .. Clusters(tree[i].size) - 1} THEN c - 1
        ELSE IF c \in 1 .. ClustersTo(tree, Len(tree)) THEN ChainEnd ELSE NANDFS_FREE]
ContentOf(tree, i) == [n \in 1 .. tree[i].size |-> <<Chain(tree, i)[((n - 1) \div ClusterSize) + 1], (n - 1) % ClusterSize>>]

\* A file is open under its path and no other: the newest superblock's.
OpensRight(tree, path, versions) ==
    /\ LET fp == nandfs_open(Files(tree), path)
       IN  IF \E i \in DOMAIN tree : tree[i].path = path /\ tree[i].size # -1
           THEN \E i \in DOMAIN tree : tree[i].path = path /\ fp = Fp(Files(tree)[i])
           ELSE fp = Refused
    /\ LET i == nandfs_initialize(versions)
           Magic == {j \in DOMAIN versions : versions[j] # NoMagic}
       IN  IF Magic = {} THEN i = 0 ELSE i \in Magic /\ \A j \in Magic : versions[i] >= versions[j]

\* A seek goes where it is told or nowhere; a read moves on by what is left of the file, and
\* what it gives is what was written there, if it ends in the cluster it began in.  After a
\* seek to the beginning of a cluster, which leaves cur_cluster at the one before (behind),
\* nothing is said of what is read.
Said == [fp |-> Refused, behind |-> FALSE, right |-> TRUE]
AfterSeek(s, op, fp) ==
    IF Target(s.fp, op.whence, op.n) \in 0 .. s.fp.size
    THEN [fp |-> fp, behind |-> fp.offset > 0 /\ fp.offset % ClusterSize = 0,
          right |-> s.right /\ fp.offset = Target(s.fp, op.whence, op.n)]
    ELSE [s EXCEPT !.right = @ /\ fp = Refused]
AfterRead(tree, i, s, op, r) ==
    LET from == s.fp.offset
        to == Min({from + op.n, s.fp.size})
    IN  [fp |-> r.fp, behind |-> s.behind,
         right |-> /\ s.right /\ r.fp.offset = to
                   /\ ~s.behind /\ (from = to \/ from \div ClusterSize = (to - 1) \div ClusterSize)
                        => r.buffer = SubSeq(ContentOf(tree, i), from + 1, to)]
After(tree, i, s, op) ==
    IF op.whence = "read" THEN AfterRead(tree, i, s, op, nandfs_read(TableOf(tree), s.fp, op.n))
    ELSE AfterSeek(s, op, nandfs_seek(TableOf(tree), s.fp, op.whence, op.n))
SessionRight(tree, i, ops) ==
    FoldLeft(LAMBDA s, op : After(tree, i, s, op), [Said EXCEPT !.fp = Fp(Files(tree)[i])], ops).right
=============================================================================
