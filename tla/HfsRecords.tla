----------------------------- MODULE HfsRecords -----------------------------
(***************************************************************************)
(* How the nodes of an HFS+ tree, their records and the volume's header    *)
(* are taken apart (hfsplus/hfsp_record.c, hfsp_btree.c, hfsp_volume.c).   *)
(* Each function reads one field behind the other, so that a width that is *)
(* wrong moves all that follow. Bytes are a function from their offsets; a *)
(* field's value is the sequence of its bytes.                             *)
(*                                                                         *)
(* Before it the names in them (hfsplus/hfsp_unicode.c): sequences of 16   *)
(* bit characters. gLowerCaseTable has a subtable for some upper bytes,    *)
(* that tells what a character folds to, 0 if it is to be ignored; here    *)
(* each subtable is an operator that adds a difference to the characters   *)
(* of some sets.                                                           *)
(***************************************************************************)
EXTENDS Integers, SequencesExt

-----------------------------------------------------------------------------
(* Names. *)

Up(c, cs, n) == IF c \in cs THEN c + n ELSE c
Step2(from, to) == {c \in from .. to : (c - from) % 2 = 0}

Table1(c) == IF c = 0 THEN \hFFFF ELSE Up(c, \h41 .. \h5A \cup {\hC6, \hD0, \hD8, \hDE}, \h20)

Far == (\h181 :> \h253) @@ (\h186 :> \h254) @@ (\h189 :> \h256) @@ (\h18A :> \h257) @@ (\h18E :> \h1DD)
    @@ (\h18F :> \h259) @@ (\h190 :> \h25B) @@ (\h193 :> \h260) @@ (\h194 :> \h263) @@ (\h196 :> \h269)
    @@ (\h197 :> \h268) @@ (\h19C :> \h26F) @@ (\h19D :> \h272) @@ (\h19F :> \h275) @@ (\h1A9 :> \h283)
    @@ (\h1AE :> \h288) @@ (\h1B1 :> \h28A) @@ (\h1B2 :> \h28B) @@ (\h1B7 :> \h292)
Two == {\h1C4, \h1C7, \h1CA, \h1F1}
One == {\h110, \h126, \h132, \h13F, \h141, \h14A, \h152, \h166, \h182, \h184, \h187, \h18B, \h191, \h198,
        \h1A2, \h1A4, \h1A7, \h1AC, \h1B3, \h1B5, \h1B8, \h1BC, \h1C5, \h1C8, \h1CB, \h1E4, \h1F2}
Table2(c) == IF c \in DOMAIN Far THEN Far[c] ELSE Up(c, Two, 2) + Up(c, One, 1) - c

Table3(c) == Up(c, \h391 .. \h3A1 \cup \h3A3 .. \h3A9, \h20) + Up(c, Step2(\h3E2, \h3EE), 1) - c

Table4(c) ==
    Up(c, {\h402, \h40F} \cup \h404 .. \h406 \cup \h408 .. \h40B, \h50)
      + Up(c, \h410 .. \h418 \cup \h41A .. \h42F, \h20)
      + Up(c, Step2(\h460, \h474) \cup Step2(\h478, \h480) \cup Step2(\h490, \h4BE) \cup {\h4C3, \h4C7, \h4CB}, 1) - 2 * c

Table5(c) == Up(c, \h531 .. \h556, \h30)
Table6(c) == Up(c, \h10A0 .. \h10C5, \h30)
Ignored == \h200C .. \h200F \cup \h202A .. \h202E \cup \h206A .. \h206F
Table7(c) == IF c \in Ignored THEN 0 ELSE c
Table8(c) == Up(c, \h2160 .. \h216F, \h10)
Table9(c) == IF c = \hFEFF THEN 0 ELSE c
Table10(c) == Up(c, \hFF21 .. \hFF3A, \h20)

gLowerCaseTable(c) ==
    LET upper == c \div 256
    IN  CASE upper = 0 -> Table1(c) [] upper = 1 -> Table2(c) [] upper = 3 -> Table3(c) [] upper = 4 -> Table4(c)
          [] upper = 5 -> Table5(c) [] upper = \h10 -> Table6(c) [] upper = \h20 -> Table7(c)
          [] upper = \h21 -> Table8(c) [] upper = \hFE -> Table9(c) [] upper = \hFF -> Table10(c) [] OTHER -> c

-----------------------------------------------------------------------------
\* fast_unicode_compare: the next character of a name that counts and what is left of
\* the name, 0 at its end.
RECURSIVE Upcoming(_), Compare(_, _)
UpcomingRaw(name) ==                                                           \* mistake
    IF name = <<>> THEN [c |-> 0, rest |-> <<>>] ELSE [c |-> gLowerCaseTable(Head(name)), rest |-> Tail(name)]
Upcoming(name) ==
    IF name = <<>> THEN [c |-> 0, rest |-> <<>>]
    ELSE IF gLowerCaseTable(Head(name)) = 0 THEN Upcoming(Tail(name))
    ELSE [c |-> gLowerCaseTable(Head(name)), rest |-> Tail(name)]

\* The difference is the second's character less the first's.
Decided(one, two) ==
    IF one.c # two.c THEN two.c - one.c ELSE IF one.c = 0 THEN 0 ELSE Compare(one.rest, two.rest)
Compare(name1, name2) == Decided(Upcoming(name1), Upcoming(name2))
fast_unicode_compare(name1, name2) == Compare(name1, name2)

\* asc2uni and uni2asc, of at most maxlen characters with the one behind the last.
Short(s, maxlen) == IF Len(s) < maxlen THEN s ELSE SubSeq(s, 1, maxlen - 1)
asc2uni(s, maxlen) == IF maxlen <= 0 THEN <<>> ELSE Short(s, maxlen)
Shown(c) == IF c \in \h20 .. \h7E THEN c ELSE \h3F
uni2asc(name, maxlen) ==
    IF maxlen <= 0 THEN <<>>
    ELSE Short([i \in DOMAIN SelectSeq(name, LAMBDA c : c \in 1 .. 255) |->
                   Shown(SelectSeq(name, LAMBDA c : c \in 1 .. 255)[i])], maxlen)
unicode_asc2uni(s) == asc2uni(s, 255)
unicode_uni2asc(name, maxlen) == uni2asc(name, maxlen)

-----------------------------------------------------------------------------
\* What they are for.  The letters of a name that count, as small ones: one and the same
\* for two spellings of a name.  Names are in the order of their letters.
Letters(name) == SelectSeq([i \in DOMAIN name |-> gLowerCaseTable(name[i])], LAMBDA c : c # 0)
Before(a, b) ==
    \E n \in 0 .. Len(a) : /\ n < Len(b) /\ \A i \in 1 .. n : a[i] = b[i]
                           /\ n = Len(a) \/ a[n + 1] < b[n + 1]
ComparesRight(name1, name2) ==
    LET d == fast_unicode_compare(name1, name2)
    IN  /\ d = 0 <=> Letters(name1) = Letters(name2)
        /\ d > 0 <=> Before(Letters(name1), Letters(name2))
        /\ d = -fast_unicode_compare(name2, name1)

\* A name that can be shown is the same after it was converted both ways; of any other
\* nothing is invented.
ConvertsRight(name, maxlen) ==
    LET shown == unicode_uni2asc(name, maxlen)
    IN  /\ Len(shown) < maxlen
        /\ (\A i \in DOMAIN name : name[i] \in \h20 .. \h7E) => shown = Short(name, maxlen)
        /\ unicode_uni2asc(unicode_asc2uni(shown), maxlen) = shown

-----------------------------------------------------------------------------
(* Records. *)

FieldsOf(names, width) == [i \in DOMAIN names |-> [name |-> names[i], width |-> width]]
Under(prefix, fields) == [i \in DOMAIN fields |-> [fields[i] EXCEPT !.name = prefix \o @]]
Skipped(width) == FieldsOf(<<"skipped">>, width)

\* bswabU8_inc to bswabU64_inc, field by field: what was read, and the pointer behind it.
Take(b, p, width) == [i \in 1 .. width |-> b[p + i - 1]]
Inc(b, r, f) == [p |-> r.p + f.width, v |-> (f.name :> Take(b, r.p, f.width)) @@ r.v]
Read(b, p, fields) == FoldLeft(LAMBDA r, f : Inc(b, r, f), [p |-> p, v |-> <<>>], fields)
Failed == [p |-> -1, v |-> <<>>]
Number16(bytes) == 256 * bytes[1] + bytes[2]

\* The fields of each structure, in the order they are read.
hfsp_perm == FieldsOf(<<"owner", "group", "mode", "dev">>, 4)
DInfo == FieldsOf(<<"top", "left", "bottom", "right", "frFlags", "frLocation.v", "frLocation.h", "frView">>, 2)
DXInfo ==
    FieldsOf(<<"frScroll.v", "frScroll.h">>, 2) \o FieldsOf(<<"frOpenChain">>, 4)
      \o FieldsOf(<<"frUnused", "frComment">>, 2) \o FieldsOf(<<"frPutAway">>, 4)
FInfo == FieldsOf(<<"fdType", "fdCreator">>, 4) \o FieldsOf(<<"fdFlags", "fdLocation.v", "fdLocation.h", "fdFldr">>, 2)
FXInfoUnskipped == FieldsOf(<<"fdIconID", "fdComment">>, 2) \o FieldsOf(<<"fdPutAway">>, 4)  \* mistake
FXInfo == FieldsOf(<<"fdIconID">>, 2) \o Skipped(8) \o FieldsOf(<<"fdComment">>, 2) \o FieldsOf(<<"fdPutAway">>, 4)
Dates == FieldsOf(<<"create_date", "content_mod_date", "attribute_mod_date", "access_date", "backup_date">>, 4)
hfsp_cat_folder ==
    FieldsOf(<<"flags">>, 2) \o FieldsOf(<<"valence", "id">>, 4) \o Dates \o hfsp_perm \o DInfo \o DXInfo
      \o FieldsOf(<<"text_encoding", "reserved">>, 4)
hfsp_extent_rec ==
    FlattenSeq([i \in 1 .. 8 |-> Under(<<"1", "2", "3", "4", "5", "6", "7", "8">>[i], FieldsOf(<<"start_block", "block_count">>, 4))])
hfsp_fork_raw == FieldsOf(<<"total_size">>, 8) \o FieldsOf(<<"clump_size", "total_blocks">>, 4) \o hfsp_extent_rec
hfsp_cat_file ==
    FieldsOf(<<"flags">>, 2) \o FieldsOf(<<"reserved1", "id">>, 4) \o Dates \o hfsp_perm \o FInfo \o FXInfo
      \o FieldsOf(<<"text_encoding", "reserved2">>, 4) \o Under("data_fork.", hfsp_fork_raw) \o Under("res_fork.", hfsp_fork_raw)
btree_node_desc == FieldsOf(<<"next", "prev">>, 4) \o FieldsOf(<<"kind", "height">>, 1) \o FieldsOf(<<"num_rec", "reserved">>, 2)
btree_head ==
    FieldsOf(<<"depth">>, 2) \o FieldsOf(<<"root", "leaf_count", "leaf_head", "leaf_tail">>, 4)
      \o FieldsOf(<<"node_size", "max_key_len">>, 2) \o FieldsOf(<<"node_count", "free_nodes">>, 4)
      \o FieldsOf(<<"reserved1">>, 2) \o FieldsOf(<<"clump_size">>, 4) \o FieldsOf(<<"btree_type", "reserved2">>, 1)
      \o FieldsOf(<<"attributes">>, 4) \o Skipped(64)
hfsp_vh ==
    FieldsOf(<<"signature", "version">>, 2)
      \o FieldsOf(<<"attributes", "last_mount_vers", "reserved", "create_date", "modify_date", "backup_date", "checked_date",
                  "file_count", "folder_count", "blocksize", "total_blocks", "free_blocks", "next_alloc", "rsrc_clump_sz",
                  "data_clump_sz", "next_cnid", "write_count">>, 4)
      \o FieldsOf(<<"encodings_bmp">>, 8) \o FieldsOf(<<"finder_info">>, 32)
      \o FlattenSeq([i \in 1 .. 5 |-> Under(<<"alloc_file.", "ext_file.", "cat_file.", "attr_file.", "start_file.">>[i], hfsp_fork_raw)])

\* Names have their length before them: read is how many bytes were.
Name(b, p, field) == Read(b, p + 2, [i \in 1 .. Number16(Take(b, p, 2)) |-> [name |-> field, width |-> 2]])
Characters(b, p) == [i \in 1 .. Number16(Take(b, p, 2)) |-> Number16(Take(b, p + 2 * i, 2))]
record_readkey(b, p) ==
    LET after == Name(b, p + 6, "character").p
    IN  IF Number16(Take(b, p, 2)) # after - (p + 2) THEN Failed
        ELSE [p |-> after, v |-> [parent_cnid |-> Take(b, p + 2, 4), name |-> Characters(b, p + 6)]]
record_extent_readkey(b, p) ==
    IF Number16(Take(b, p, 2)) # 10 THEN Failed
    ELSE Read(b, p, FieldsOf(<<"key_length">>, 2) \o FieldsOf(<<"fork_type", "filler">>, 1) \o FieldsOf(<<"file_id", "start_block">>, 4))
record_readthread(b, p) ==
    IF Number16(Take(b, p + 6, 2)) > 255 THEN Failed
    ELSE [p |-> Name(b, p + 6, "character").p, v |-> [parentID |-> Take(b, p + 2, 4), nodeName |-> Characters(b, p + 6)]]

HFSP_VOLHEAD_SIG == \h482B
volume_readbuf(b) == IF Number16(Take(b, 0, 2)) # HFSP_VOLHEAD_SIG THEN Failed ELSE Read(b, 0, hfsp_vh)

HFSP_FOLDER == 1
HFSP_FILE == 2
Threads == {3, 4}
record_readentry(b, p) ==
    LET type == Number16(Take(b, p, 2))
    IN  CASE type = HFSP_FOLDER -> Read(b, p + 2, hfsp_cat_folder)
          [] type = HFSP_FILE -> Read(b, p + 2, hfsp_cat_file)
          [] type \in Threads -> record_readthread(b, p + 2)
          [] OTHER -> Failed

\* A record of a node, by its index: the offsets are at the end of the node, the first one last.
btree_key_by_index(b, node_size, index) == Number16(Take(b, node_size - 2 * (index + 1), 2))
RecordAt(key, Entry(_)) ==
    IF key = Failed THEN [key |-> Failed, entry |-> Failed]
    ELSE IF Entry(key.p) = Failed THEN [key |-> key, entry |-> Failed]
    ELSE [key |-> key, entry |-> Entry(key.p)]
record_init(b, node_size, index) ==
    RecordAt(record_readkey(b, btree_key_by_index(b, node_size, index)), LAMBDA p : record_readentry(b, p))
record_init_extent(b, node_size, index) ==
    RecordAt(record_extent_readkey(b, btree_key_by_index(b, node_size, index)), LAMBDA p : Read(b, p, hfsp_extent_rec))

-----------------------------------------------------------------------------
\* A leaf as it is on a disk, by Apple's description of the format: a descriptor of 14
\* bytes, records with a key of 6 bytes and a name, and data of a size that depends on the
\* type; free space; offsets, one of them of the free space.  The n-th byte of the data is
\* ByteAt(n), so that a field tells where it was read.
ByteAt(n) == (n * 7 + 3) % 251
TwoBytes(n) == <<n \div 256, n % 256>>
Pattern(from, to) == [i \in 1 .. to - from + 1 |-> ByteAt(from + i - 1)]
NameBytes(name) == TwoBytes(Len(name)) \o FlattenSeq([i \in DOMAIN name |-> TwoBytes(name[i])])
KeyBytes(r) == TwoBytes(6 + 2 * Len(r.name) + r.wrong) \o [i \in 1 .. 4 |-> r.parent] \o NameBytes(r.name)
SizeOfType == (HFSP_FOLDER :> 88) @@ (HFSP_FILE :> 248) @@ (5 :> 10)
DataBytes(r) ==
    TwoBytes(r.type) \o (IF r.type \in Threads THEN Pattern(3, 8) \o NameBytes(r.name) ELSE Pattern(3, SizeOfType[r.type]))
OffsetOf(recs, i) ==
    14 + FoldLeft(LAMBDA n, r : n + Len(KeyBytes(r)) + Len(DataBytes(r)), 0, SubSeq(recs, 1, i - 1))
NodeBytes(recs, size) ==
    LET used == [i \in 1 .. 14 |-> 0] \o FlattenSeq([i \in DOMAIN recs |-> KeyBytes(recs[i]) \o DataBytes(recs[i])])
        offsets == FlattenSeq([i \in 1 .. Len(recs) + 1 |-> TwoBytes(OffsetOf(recs, Len(recs) + 2 - i))])
    IN  used \o [i \in 1 .. size - Len(used) - Len(offsets) |-> 0] \o offsets
Loaded(bytes) == [p \in 0 .. Len(bytes) - 1 |-> bytes[p + 1]]

\* Where the format has the fields the program uses, counted from the data's beginning.
FolderOffsets == "id" :> 8
FileOffsets ==
    ("id" :> 8) @@ ("fdFldr" :> 62) @@ ("fdComment" :> 74) @@ ("data_fork.total_size" :> 88) @@ ("data_fork.total_blocks" :> 100)
      @@ ("data_fork.1start_block" :> 104) @@ ("data_fork.8block_count" :> 164) @@ ("res_fork.total_size" :> 168)
HeaderOffsets ==
    ("blocksize" :> 40) @@ ("total_blocks" :> 44) @@ ("ext_file.1start_block" :> 208) @@ ("cat_file.total_size" :> 272)
ReadFrom(v, offsets) == \A f \in DOMAIN offsets : v[f] = Pattern(offsets[f] + 1, offsets[f] + Len(v[f]))
EntryRight(r, v) ==
    IF r.type \in Threads THEN v.parentID = Pattern(5, 8) /\ v.nodeName = r.name
    ELSE ReadFrom(v, IF r.type = HFSP_FOLDER THEN FolderOffsets ELSE FileOffsets)

\* Each record of a node is found and read as it was written, from its beginning to its end;
\* one with a key of a wrong length, or of an unknown type, is refused.
RecordsRight(recs, size) ==
    \E b \in {Loaded(NodeBytes(recs, size))} : \A i \in DOMAIN recs : \E got \in {record_init(b, size, i - 1)} :
        IF recs[i].wrong = 0 /\ recs[i].type # 5
        THEN /\ got.key.v.name = recs[i].name /\ got.key.v.parent_cnid = [j \in 1 .. 4 |-> recs[i].parent]
             /\ got.entry.p = OffsetOf(recs, i + 1) /\ EntryRight(recs[i], got.entry.v)
        ELSE got.entry = Failed

\* An extent record is read from a node too, if its key has the length it must have; the
\* header of a volume is read to its end, if it begins with the signature.
ExtentNode(length) ==
    Loaded([i \in 1 .. 14 |-> 0] \o TwoBytes(length) \o Pattern(3, 12 + 64) \o TwoBytes(90) \o TwoBytes(14))
ExtentRight(length) ==
    \E got \in {record_init_extent(ExtentNode(length), 14 + 76 + 4, 0)} :
        IF length = 10 THEN ReadFrom(got.key.v, ("file_id" :> 4) @@ ("start_block" :> 8)) /\ ReadFrom(got.entry.v, "8block_count" :> 72)
        ELSE got.entry = Failed
HeaderRight(signature) ==
    \E got \in {volume_readbuf(Loaded(TwoBytes(signature) \o Pattern(3, 512)))} :
        IF signature = HFSP_VOLHEAD_SIG THEN got.p = 512 /\ ReadFrom(got.v, HeaderOffsets) ELSE got = Failed
\* The header of a tree is behind the descriptor of its first node, which gives the nodes' size.
TreeHeadRight ==
    \E b \in {Loaded(Pattern(1, 120))} : \E desc \in {Read(b, 0, btree_node_desc)} : \E head \in {Read(b, desc.p, btree_head)} :
        desc.p = 14 /\ head.p = 120 /\ ReadFrom(desc.v, "num_rec" :> 10) /\ ReadFrom(head.v, ("root" :> 16) @@ ("node_size" :> 32))
HeadersRight == TreeHeadRight /\ (\A n \in {9, 10, 12} : ExtentRight(n)) /\ \A s \in {HFSP_VOLHEAD_SIG, \h4244} : HeaderRight(s)
=============================================================================
