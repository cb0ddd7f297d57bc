----------------------------- MODULE ForkReads -----------------------------
(***************************************************************************)
(* A volume is opened, and then the blocks of its forks are read: Volume   *)
(* under BlockIter, as volume_readfromfork calls volume_readinbuf          *)
(* (hfsplus/hfsp_volume.c).                                                *)
(***************************************************************************)
EXTENDS BlockIter

CONSTANTS Volumes, None

VARIABLES
    state, disk, startblock, maxblocks, shift, sector, last, lost,  \* of the volume, see Volume
    sectors                                                   \* read for this call (history)

V == INSTANCE Volume

\* A volume's extents tree, with nodes of ext_node sectors.
ExtentsOf(v) == [v.extents EXCEPT !.fits = V!NodesFit(v.ext_node, v)]
ASSUME VolumesAssumption == \A v \in Volumes : V!Intact(v) /\ ExtentsOf(v) \in ExtentsTrees

volume == <<state, disk, startblock, maxblocks, shift, sector, last, lost>>
allVars == <<vars, volume, sectors>>

ReadsInit == Init /\ V!Init /\ sectors = <<>> /\ extents = ExtentsOf(disk)

OpenVolume == pc = "idle" /\ V!Opening /\ UNCHANGED <<vars, sectors>>
CloseVolume ==
    /\ pc = "idle" /\ V!Close
    /\ extents' = ExtentsOf(disk') /\ tree' = "none" /\ node' = 0 /\ loop' = "skip"
    /\ call' \in [fork : Forks, first : {0}, count : {0}] /\ skip' = 0 /\ count' = 0
    /\ curr_block' = 0 /\ block' = 0 /\ index' = 0 /\ record' = 0 /\ place' = NoPlace
    /\ buf' = <<>> /\ sectors' = <<>> /\ answer' = "none" /\ failed' = FALSE
    /\ UNCHANGED pc

\* The history of reads begins anew with each call, with that of the catalog.
StartCall ==
    /\ state = "open" /\ Call
    /\ sectors' = <<>> /\ last' = disk.cat /\ sector' = V!Catalog(disk)
    /\ UNCHANGED <<state, disk, startblock, maxblocks, shift, lost>>
Iterate == (Skip \/ Skipped \/ ReadFails \/ Advance \/ Search) /\ UNCHANGED <<volume, sectors>>
ReadBlock ==
    /\ Read /\ V!ReadBlock(Extent.start + block)
    /\ sectors' = Append(sectors, sector')

Reading == Iterate \/ ReadBlock
ReadsNext == OpenVolume \/ CloseVolume \/ StartCall \/ Reading
ReadsSpec == ReadsInit /\ [][ReadsNext]_allVars

-----------------------------------------------------------------------------
\* What Volume promises of opening, with the forks' blocks for blocks: see there.
OpensIntact == V!OpensIntact

\* What a file's buffer is filled from is the file, sector by sector: the i-th read of
\* a call is of the fork's i-th block behind the first, at its place in the partition.
ReadsTheFile ==
    \A i \in 1 .. Len(sectors) :
        \E b \in 0 .. disk.total - 1 :
            /\ IsBlock(call.fork, call.first + i - 1, b)
            /\ sectors[i] = V!Start(disk) + b * disk.per_block

\* The sectors are those of the blocks read, and the numbers of the volume are true.
SectorsOfBlocks ==
    /\ sectors \in Seq(Nat) /\ Len(sectors) = Len(buf)
    /\ \A i \in 1 .. Len(buf) :
        /\ buf[i] \in 0 .. disk.total - 1
        /\ sectors[i] = V!Start(disk) + buf[i] * disk.per_block

ReadsInv == IInv /\ V!TypeOK /\ V!PlacesTrue /\ V!SectorsRight /\ SectorsOfBlocks
=============================================================================
