------------------------------- MODULE Volume -------------------------------
(***************************************************************************)
(* Opening an HFS+ volume and reading its blocks: hfsplus/hfsp_volume.c.   *)
(* volume_open begins with sectors of 512 bytes; a volume may be embedded  *)
(* in an HFS volume, its wrapper.  With the header and its backup read,    *)
(* blocks become those the header gives the size of, and the catalog's     *)
(* header node is read.  Everything but the numbers that say where to read *)
(* is left out.  A definition marked "mistake" is not used by the          *)
(* specification.                                                          *)
(***************************************************************************)
EXTENDS Integers

CONSTANTS
    Volumes,      \* partition, wrapper or None, sectors in a block, total_blocks, cat,
                  \* and the sectors in a node of the catalog, cat_node
    ReadErrors,   \* bound: whether reads may fail
    None

VARIABLES
    state,        \* "closed", or what is read next: "header", "embedded", "backup",
                  \* "catalog"; "open"
    disk,         \* the volume that is there
    startblock, maxblocks, shift,   \* of volume; shift is blksize_bits - 9
    sector,       \* where the last read was, 0 if there was none
    last,         \* the block it was for
    lost          \* a read has failed since volume_open (history)

vars == <<state, disk, startblock, maxblocks, shift, sector, last, lost>>

\* Where the volume really is: wrapper holds first_block (drAlBlSt), size (sectors
\* in one of its blocks), embeds and embedl.
Start(v) ==
    IF v.wrapper = None THEN v.partition
    ELSE v.partition + v.wrapper.first_block + v.wrapper.embeds * v.wrapper.size
Sectors(v) == IF v.wrapper = None THEN v.per_block * v.total
              ELSE v.wrapper.embedl * v.wrapper.size

\* A shift to the left by n bits, of 1.
Two[n \in Nat] == IF n = 0 THEN 1 ELSE 2 * Two[n - 1]

\* The sectors that begin with a header's signature, and the catalog's header node.
Headers(v) == {Start(v) + 2, Start(v) + Sectors(v) - 2}
Catalog(v) == Start(v) + v.cat * v.per_block

\* An intact volume, as the format has it: sectors to a block are a power of two, the
\* blocks are all in it, with room for two headers, and the catalog is in one of them.
\* It begins at a multiple of its blocks, without which StartInBlocks goes wrong.
Intact(v) ==
    /\ v.partition \in Nat /\ v.per_block \in Nat /\ v.total \in Nat
    /\ v.cat \in 0 .. v.total - 1 /\ v.cat_node \in Nat \ {0}
    /\ \E n \in 0 .. v.per_block : v.per_block = Two[n]
    /\ v.wrapper = None \/ v.wrapper \in [first_block : Nat, size : Nat, embeds : Nat, embedl : Nat]
    /\ Sectors(v) >= 4 /\ v.total * v.per_block <= Sectors(v)
    /\ \E q \in 0 .. Start(v) : Start(v) = q * v.per_block

Init ==
    /\ state = "closed" /\ disk \in Volumes
    /\ startblock = 0 /\ maxblocks = 0 /\ shift = 0
    /\ sector = 0 /\ last = 0 /\ lost = FALSE

-----------------------------------------------------------------------------
\* volume_readinbuf and os_seek
ReadSector(b) == last' = b /\ sector' = (b + startblock') * Two[shift']

\* volume_open until the first read
Open ==
    /\ state = "closed"
    /\ startblock' = disk.partition /\ maxblocks' = 3 /\ shift' = 0
    /\ sector' = 0 /\ last' = 0 /\ lost' = FALSE
    /\ state' = "header"
    /\ UNCHANGED disk

Fails ==
    /\ state \in {"header", "embedded", "backup", "catalog"} /\ ReadErrors
    /\ state' = "closed" /\ lost' = TRUE
    /\ UNCHANGED <<disk, startblock, maxblocks, shift, sector, last>>

\* mistake: the wrapper's first block is forgotten
EmbeddedFromZero == disk.wrapper.embeds * disk.wrapper.size
Embedded == disk.wrapper.first_block + disk.wrapper.embeds * disk.wrapper.size

\* volume_read_wrapper: a wrapper's header ...
Wrapper ==
    /\ state = "header" /\ disk.wrapper # None
    /\ last' = 2 /\ sector' = 2 + startblock
    /\ maxblocks' = disk.wrapper.embedl * disk.wrapper.size
    /\ startblock' = startblock + Embedded
    /\ state' = "embedded"
    /\ UNCHANGED <<disk, shift, lost>>

\* ... and the volume's in it, or
ReadEmbedded ==
    /\ state = "embedded"
    /\ UNCHANGED <<startblock, shift>> /\ ReadSector(2)
    /\ state' = IF sector' \in Headers(disk) THEN "backup" ELSE "closed"
    /\ UNCHANGED <<disk, maxblocks, lost>>

\* a volume's own.
Native ==
    /\ state = "header" /\ disk.wrapper = None
    /\ UNCHANGED <<startblock, shift>> /\ ReadSector(2)
    /\ maxblocks' = disk.per_block * disk.total
    /\ state' = "backup"
    /\ UNCHANGED <<disk, lost>>

\* mistake: counted from the end of what was read so far
BackupBehind == maxblocks
Backup == maxblocks - 2

ReadBackup ==
    /\ state = "backup"
    /\ UNCHANGED <<startblock, shift>> /\ ReadSector(Backup)
    /\ state' = IF sector' \in Headers(disk) THEN "catalog" ELSE "closed"
    /\ UNCHANGED <<disk, maxblocks, lost>>

\* The loop over sect_per_block: how often it is halved until it is at most 2.
Halvings[n \in Nat] == IF n > 2 THEN Halvings[n \div 2] + 1 ELSE 0
Shift(n) == IF n > 1 THEN Halvings[n] + 1 ELSE 0

\* mistake: startblock stays in sectors
StartKept == startblock
StartInBlocks == startblock \div Two[shift']

\* btree_init: a tree's nodes must be whole blocks ("should never happen ..."),
\* node_size / blksize of them.  The format asks for a power of two only.
NodesFit(n, v) == LET blkpernode == n \div v.per_block
                  IN  blkpernode # 0 /\ blkpernode * v.per_block = n

\* The switch to the volume's blocks, and btree_init_cat.  What another sector
\* than the catalog's first holds is not known.
ReadCatalog ==
    /\ state = "catalog"
    /\ shift' = Shift(disk.per_block)
    /\ startblock' = StartInBlocks
    /\ maxblocks' = disk.total
    /\ ReadSector(disk.cat)
    /\ state' \in IF sector' # Catalog(disk) THEN {"open", "closed"}
                  ELSE IF NodesFit(disk.cat_node, disk) THEN {"open"} ELSE {"closed"}
    /\ UNCHANGED <<disk, lost>>

ReadBlock(b) ==
    /\ state = "open" /\ b < maxblocks
    /\ UNCHANGED <<startblock, shift>>
    /\ ReadSector(b)
    /\ UNCHANGED <<state, disk, maxblocks, lost>>

\* volume_close; another volume may be opened.
Close ==
    /\ state = "open"
    /\ state' = "closed" /\ disk' \in Volumes
    /\ UNCHANGED <<startblock, maxblocks, shift, sector, last, lost>>

Opening == Open \/ Fails \/ Wrapper \/ ReadEmbedded \/ Native \/ ReadBackup \/ ReadCatalog
Next == Opening \/ (\E b \in 0 .. maxblocks - 1 : ReadBlock(b)) \/ Close

Spec == Init /\ [][Next]_vars

-----------------------------------------------------------------------------
\* The variables have their types, and the assertion of volume_readinbuf holds:
\* a block that is read is below maxblocks.
TypeOK ==
    /\ state \in {"closed", "header", "embedded", "backup", "catalog", "open"}
    /\ disk \in Volumes
    /\ startblock \in Nat /\ maxblocks \in Nat /\ shift \in Nat
    /\ sector \in Nat /\ lost \in BOOLEAN
    /\ last \in Nat /\ (last < maxblocks \/ last = 0)

\* "after that a block always means a HFS+ allocation size" (hfsp_volume.c line
\* 278): with the volume open, a block is read from its place in it, and no read
\* leaves the volume.
SectorsRight ==
    state = "open" => /\ sector = Start(disk) + last * disk.per_block
                      /\ sector + disk.per_block <= Start(disk) + Sectors(disk)

\* What is known of the numbers at each point of opening: where a read will go.
PlacesTrue ==
    /\ state = "header" => startblock = disk.partition /\ maxblocks = 3
    /\ state \in {"embedded", "backup", "catalog"} =>
          startblock = Start(disk) /\ maxblocks = Sectors(disk)
    /\ state \in {"header", "embedded", "backup", "catalog"} => shift = 0
    /\ state = "open" => /\ startblock * disk.per_block = Start(disk)
                         /\ Two[shift] = disk.per_block
                         /\ maxblocks = disk.total

\* An intact volume, wrapped or not, whose catalog's nodes are whole blocks is
\* refused only when a read fails.
OpensIntact ==
    [][state' = "closed" =>
          lost' \/ state \in {"closed", "open"} \/ ~NodesFit(disk.cat_node, disk)]_vars
=============================================================================
