# A TLA+ model of wiiMac

wiiMac is a bootloader that starts Mac OS X on a Nintendo Wii. It runs on the
Wii's PowerPC without an operating system; a second processor, the ARM, runs
MINI and owns the hardware, the SD card among it. This directory holds
specifications of wiiMac's code (`src/src/*.c`, `src/src/hfsplus/`), the
instances TLC checks, and theorems about them that TLAPS checks.

Line numbers below and in `PROJECT.json` ("map") are those of the source files.

## 1. The system

One program, `main`, runs from start to the jump into the kernel, with
interrupts off or ignored. What makes it hard is around it: a second processor
with a cache that is not coherent between the two, a user who pulls cards and
presses buttons at any moment, reads that fail half way, and a heap, tables, a
memory map and two file systems whose state grows over several attempts.

| component | source | state it keeps | operations | talks to |
|---|---|---|---|---|
| IPC mailbox | `ipc.c`, `mini_ipc.c`, `sync.c` | ring positions, tag, last reply, `initialized`; two rings in memory, two registers | initialize, post, exchange, flush, shutdown | MINI: rings, registers, data cache |
| SD and FAT glue | `diskio.c`, `fat.c`, `fs.c` | a bounce buffer, the mounted FAT partition | initialize, read, mount | IPC; FatFs calls it back |
| FAT driver | `ff.c` (FatFs), `ff.h` | a window of one sector, FSInfo, open files with their own buffers, directories | open, read, write, seek, truncate, sync, close; list, make, remove, move, change | diskio.c |
| Partition map | `apm.c` | `apm_found_partitions`, their number | find | disk_read |
| HFS+ volume, forks | `hfsp_volume.c`, `hfsp_blockiter.c` | start, size and block size of the volume, the trees; the iterator's position | open, read block, read from fork, close | disk_read; the extents tree |
| HFS+ node cache, catalog | `hfsp_btree.c`, `hfsp_record.c`, `hfsp_fs.c` | cache entries and buffers; the record at hand | node by index, search, next, resolve path, list | forks |
| HFS+ names | `hfsp_unicode.c` | tables | convert, compare | – |
| Buttons | `input.c` | pad's last state, reset delay | read | GPIO registers |
| Boot loop | `main.c` | what is selected, the countdown, what is loaded | poll, disk change, input, load, boot | everything |
| Configuration | `main.c` 180-272 | boot-args, video mode | parse `config.txt` | FAT |
| Kernel memory | `kernel_allocator.c`, `macho_decoder.c`, `boot_args.c` | `last_kernel_address`, memory map entries, entry point | allocate, decode, set up boot arguments | – |
| Driver loader | `driver_loader.c` | `allocated_drivers` | load one, load a directory | file system callbacks, allocator |
| Device tree | `device_tree.c` | the tree behind the boot arguments | build, read back | drivers, memory map |
| Heap | `malloc.c` (dlmalloc) | chunks, bins, tries, top, segments | malloc, calloc, realloc, memalign, free, trim | sbrk |
| Text | `printf.c`, `string.c` | – | vsnprintf, string functions | – |
| Console | `console.c` | frame buffer, line, video mode | print, clear, change of mode, last picture | vsnprintf |
| USB Gecko | `gecko.c` | `gecko_console_enabled` | probe, send, receive, print | EXI registers |
| NAND file system | `nandfs.c` | superblock, file position | initialize, open, read, seek | IPC; nothing calls it |
| Interrupts, exceptions, start-up | `irq.c`, `exception.c`, `*.S` | registers | | |

The behaviours that are hard, and what makes each component correct:

- **IPC.** Two processors write two rings without locks. Requests must be in
  memory before they are published and stay until taken; replies come in any
  order, with leftovers of the program that ran before and tags that wrap. An
  exchange must return its own answer, and come back at all.
- **Boot loop.** `disk_initialize` acknowledges a new card as a side effect, and
  `fat_mount` calls it too, so that the loop can miss an exchange of cards. What
  is selected must be bootable, the table must be the card's, a countdown that
  was touched must not boot by itself, and what is started must have been read.
- **FAT driver.** One sector of window for table and directories, one sector of
  buffer per file, a number of free clusters kept by counting: three copies of
  what the card says, written back at different times, while any transfer may
  fail and the card may be another one at the next call.
- **Catalog.** A node cache under a search under a listing, each with its own
  idea of failure. Answers must be those of the records on the volume, whatever
  the cache holds; a failing read must not turn into a wrong answer.
- **Forks and volume.** Three units (sectors, the wrapper's blocks, the volume's
  blocks) and three levels (extent, record of eight, tree).
- **Kernel memory.** Two policies in one address space: segments go where they
  say, everything else above the highest address so far. Nothing may overlap.
- **Heap.** Sizes, flags and links of chunks in five structures that have to
  agree after any sequence of calls, and up to the byte where memory ends.
- **Text and devices.** Everything printed is placed by a length that another
  function computed; a Gecko that is polled a limited number of times may or may
  not have taken the byte.

`PROJECT.json` lists the hazards line by line, with the properties that would
catch each going wrong and the reason where no property covers one.

## 2. The modules

| module | models | state and actions |
|---|---|---|
| `Ipc` | `ipc.c` against MINI | One action per store, sync, register write or exit from a spinning loop; the data cache as `in_line` and `out_line`. MINI is external: `ArmTake`, `ArmReply`. |
| `Mailbox` | what `ipc.c` promises | Two bounded FIFO queues and a caller that keeps the reply with its tag. `Ipc` implements it: a queue is the part of a ring between head and tail. |
| `BootLoop` | `main.c`'s loop with `diskio.c`, `fat.c`, `apm.c` and the calls into HFS+ | Cut where the program talks to the card; `Remove` and `Insert` happen between any two steps. |
| `ConfigFile` | `string.c`, `process_config_file` | Functions on strings with what lies behind their NUL; one of the file's bytes and the settings before. |
| `KernelMemory` | `kernel_allocator.c`, `macho_decoder.c`, `driver_loader.c`, `boot_args.c` | One action per load command, kext and directory entry; recursion over plugins is a stack. |
| `DeviceTree` | `device_tree.c` | The words written to memory, with the counts each node declares; the functions that read the tree back. |
| `NodeCache` | `btree_node_by_index` | One action per way through it: current node, other entry, load, failed load. |
| `Catalog` | `hfsp_fs.c` and `hfsp_record.c` over `NodeCache` | EXTENDS `NodeCache`; a step is one look-up of a node and what is done with it. |
| `HfsRecords` | `hfsp_unicode.c`; the fields of nodes, records and headers | Functions on sequences of characters; each function on records reads field by field from bytes at an offset. |
| `BlockIter` | `volume_readfromfork`, `hfsp_blockiter.c`; the extents tree, searched by `hfsp_record.c` | A step is one turn of the skip or the read loop, or one look-up of a node and what is done with it. |
| `Volume` | `volume_open`, `btree_init`, `volume_readinbuf`, `volume_close` | A step is one read; arithmetic on sectors is the code's. |
| `ForkReads` | a volume opened, then its forks read | `BlockIter` with `Volume` under it: each block read is `Volume`'s. |
| `FatVolume`, `FatDirectory`, `FatFiles`, `FatNames` | `ff.c`, from the window up | Each function takes and returns the volume, a record of the card's sectors, FATFS, the FIL and the DIR at hand. |
| `FatHandles` | open files in use | One action per call on a file, in any order, with the transfer that fails chosen. |
| `FatTree` | paths in use | One action per call on a path, a listing under way, the card removed and put in. |
| `FileStore`, `NameTree` | what FatFs promises of files and of names | Byte sequences with a position; a tree of addresses. |
| `HeapChunks`, `Heap` | `malloc.c` | Memory by words, bins as lists and tries; one action per call. |
| `Allocator` | what `malloc.h` promises | Blocks in use, apart, aligned, with contents that only their users change. |
| `Printf` | `printf.c` | Functions on directives. |
| `Console`, `Terminal` | `console.c`; what it should show | The frame buffer by address, one action per call, its lines as `vsnprintf` formats them; lines on a screen. |
| `Gecko` | `gecko.c` against the device | A step is an access to a register; the device finishes an exchange when it likes. |
| `NandFs` | `nandfs.c` | Functions on a superblock's table and nodes; sequences of reads and seeks. |
| `Buttons` | `input.c` against the user | A step is an access to a register; buttons are pressed, held and let go between any two, and one that is held may raise its flag again. |
| `Library` | the calls of the functions above, the two text devices and the buttons | `call` is one call of one of the functions; `part` chooses between calls, console, Gecko and buttons, which share only `vsnprintf`: the instance's lines and its texts for the Gecko are what `Printf` makes of formats. |
| `*Proofs` | theorems of `Ipc`, `BootLoop`, `KernelMemory`, `Catalog` with `NodeCache`, `ForkReads` with `BlockIter`, `Heap` with `HeapChunks`; in `DeviceProofs` of `Console`, `Gecko` and `Buttons` | |
| `MC*` | instances for TLC | |

How they fit together: `BootLoop` treats each call into HFS+ and FAT
(`hfsp_mount`, `hfsp_read_file`, `fat_open`) as one step that succeeds or fails;
`ForkReads`, `Catalog`, `FatHandles` and `FatTree` are the inside of those
steps. `Catalog` and `BlockIter` have each the search of their tree, which are two
uses of the same functions with another comparison of keys. A load of a node by
`Catalog` is a call that `ForkReads` describes, and that succeeds or fails here.
In `BlockIter` the node cache is only a bit: once a node could not be read, any
look-up may find it torn. The order of names and the fields are `HfsRecords`'s.
`BootLoop`'s `loaded_kernel` is the point where
`KernelMemory` has decoded a kernel and starts on the extensions;
`decode_kernel` is a step of the one that succeeds or fails and the beginning of
the other. `KernelMemory` takes the size of the device tree as a number and
`DeviceTree` builds it. What `input_read` may return is `BootLoop`'s input, and
`Buttons` says when it returns what. `disk_initialize` and every read in
`BootLoop` are exchanges of `Ipc` that return.

Two ways of modelling. What runs against something else, a processor, a user, a
card or a device, is cut into steps where the other side can come in between:
`Ipc`, `BootLoop`, `NodeCache`, `Catalog`, `BlockIter`, `Volume`, `Gecko`, `Buttons`. What
runs alone between its call and its return is an operator from state to state,
and an action is a whole call: FatFs, the heap, the console, and the functions of
`Library`. A transfer that fails in the middle of such a call is an argument
(`fault`: how many transfers succeed before it), so that every point of failure
is still a different step.

A definition marked "mistake" is a plausible bug in the code: a forgotten
sync, an off-by-one, a reset left out. No specification uses it. Each names
the definition it stands in for in `PROJECT.json` ("mutants"): with it in
place, the property listed there fails, which shows that the property can tell
right from wrong.

Conventions. A loop that spins on a register is an action with the loop's exit
condition as its guard. Where the code goes on after something undefined (a
NULL node read, torn bytes interpreted), `pc` becomes `"null"` or `"torn"` and
nothing more happens, so that no property says anything about what follows.
A variable marked (history) is written only; no guard reads it, except those
named under "Bounds".

## 3. The runs

| run | shows | distinct states |
|---|---|---|
| `ipc_rings` | every interleaving of caller, data cache and MINI over small rings, with leftovers, answers to posts, shutdown and start again, a bad info header: requests whole, replies one's own, and the rings implement the mailbox | 1 652 246 |
| `ipc_live` | every accepted call comes back and nothing deadlocks, under fairness of both processors, if MINI answers only exchanges | 51 736 |
| `boot` | the loop with damaged and careful worlds: selection, countdown, table; what the screen showed is what boots; each countdown ends | 350 792 |
| `boot_unread` | **violation**: an HFS+ volume without `/mach_kernel` still has "a kernel" decoded | |
| `kernel_boot` | three kernels tried in a row, then extensions, read in whole blocks: memory stays apart and is not written over, the top is above all, the map names every part, the kernel is entered in a segment of its own | 1 989 |
| `kernel_drivers` | **violation**: the limit of drivers holds for directories only | |
| `catalog` | look-ups and listings in any order over a cache smaller than the tree: right answers, sound ones when reads fail, an honest cache, and every call ends; also over trees with node numbers of more than 16 bits | 41 697 |
| `hfs_blocks` | volumes opened and forks read, whole and past their end, with reads that fail: the right sectors in order, no refusal without a reason, through extents trees of up to two levels | 204 074 |
| `fat_files` | calls on open files in any order with a transfer failing: an abstract store of files, no cluster shared or lost, a closed file on the card | 283 443 |
| `fat_names` | calls on paths with failing transfers and exchanged cards: an abstract tree of names, complete listings, no cluster lost, a failing call changes nothing else | 20 386 |
| `heap` | malloc and its kin until memory runs out: consistent chunks, bins and trees, best fit, an abstract allocator | 42 313 |
| `library` | each library function in each of its cases; the console implements a terminal; the Gecko gets the text in order; buttons are returned as they were pressed | 60 211 |

What each run's properties say stands in front of each definition.

### Bounds

- **`Ipc`**: a request ring of 2 slots is full after one request, so that both
  the full ring and the wrap occur after two; a reply ring of 4 has room for
  leftovers, answers to posts and the awaited one together. Two tags make them
  wrap at every other exchange. `Backlog` is what MINI works on at a time: 1 in
  `ipc_rings`, 2 in `ipc_live`, where replies overtake one another.
  `AnswersPosts`, `MayShutDown`, `Headers` open or close an alternative
  of the environment. `ipc_live` sets `AnswersPosts = FALSE`: with answered
  posts both rings can fill and each processor waits for the other; the program
  never posts enough for that.
- **`BootLoop`**: `Threshold = 2` turns instead of 10 seconds, 100 turns: enough to be
  stopped before, at and after; three cards of up to four partitions (with a
  partition map entry, several HFS+ ones and FAT before or behind them);
  `MaxSwaps` is the shortest number of exchanges that leaves a card and comes
  back to it. A run begins in one of two worlds: good cards, exchanged only after
  the screen has shown the slot empty and with no read error, where the table is
  the card's and what starts is what was selected; and bad cards, exchanged at
  any moment, with reads that fail. In the first the table may not lag behind;
  without that restriction it may, which is a fact about polling and not checked
  as a fault. There `failed` (history) stays FALSE because no read fails.
- **`KernelMemory`**: `Page = 4`, sizes below, at and above a page;
  `Block = 5` for the volume's blocks, neither a page nor a part of one, so that
  reads end behind what was allocated, also behind its last page.
  `MaxAttempts = 3`. Kernels with a segment without contents and with an unknown
  load command make attempts fail after they allocated.
- **`NodeCache`, `Catalog`**: two or three buffers and more nodes, so that
  entries are evicted; priorities saturate at `MaxPriority`; `Half` stands for
  2^31 and `NodeNumbers`, 32, for 2^16. Paths of up to three names, existing and
  not, through files too. `Deep` has three levels; `Wide` has two, and any read of
  it may fail. `Circular` and `Astray` have a node whose number is 32 too large to
  be looked up: a child that leads back to the root, and a next leaf that leads
  past a file. The properties are claimed of trees without such numbers
  (`Addressable`); without that condition all three fail.
- **`BlockIter`, `Volume`**: `PerRecord = 2` for 8; the longest fork needs two
  records of the extents tree, the others end exactly at and beside the end of
  one. Four extents trees: a leaf, three leaves under a root, and two leaves with
  a resource fork's record that leads the search astray in a leaf or in the root.
  Blocks of 1, 2 and 4 sectors, nodes of 2 and 4; wrappers that begin at block 0
  and 1. Only volumes whose first sector is a multiple of their block size (see
  section 5). Without `DataForksOnly` `FailsForAReason` fails, without `NodesFit`
  `OpensIntact` does.
- **`FatHandles`**: FAT32 with clusters 2 to 5 of two sectors of two cells each,
  the first of them the root directory's, and two files: enough for chains that
  interleave, for a full volume, and for reads that begin and end inside, at and
  beside a sector and a cluster (`Lengths`, `Offsets`). Six calls, of which one
  meets a failing transfer, its first to third; `VIEW` drops the record
  of the last call, which only steps look at. The calls keep off three cases in
  which FatFs itself goes wrong (section 5): `ReadsApart`, `WritesApart`,
  `TruncatesClean`.
- **`FatTree`**: FAT16, whose root directory of six entries fills up, four
  clusters of one sector, so that one subdirectory fills the rest; a name of one
  long entry, one of two, a short name equal to what the first two collide on,
  and a plain one. `HalfWord` is the code's 65536, more than a FAT16 volume has
  clusters; with 4, and without `NumbersFitOneHalf`, the run ends at a moved
  directory (section 5). Three calls, of which the second may fail at its first to
  third transfer, or find the card pulled out from then on; a second card on
  which a directory is a file.
- **`Heap`**: 540 bytes; a `size_t` of 10 bits, so that sizes near its end wrap;
  small bins below 32 bytes and four tree bins. Up to four calls on a new heap,
  two on one with four large chunks given back in every order, and two on one
  that is nearly full; a chunk in a trie has equals, children on both sides and
  leaves below it there. `Uses` gives what such a use begins with, call by call
  (`first`), so that every state is one that calls lead to.
- **`Library`**: ints of 12 bits, shorts of 8 and chars of 6; directives with
  every set of flags for a few numbers, and every kind of integer for a few
  flags. A screen of 40 by 10 pixels with characters 2 high: three rows of four
  characters; six calls on it. A Gecko that is polled twice per command, so that
  polls run out as often as not. Config files of two lines, all with a `=`.
  Clusters of 4 bytes in the NAND memory, files below, at and above one and two
  of them, and sequences of three reads and seeks. One button of the pad and Reset
  (part `pad`), or Power and Eject (`power`); up to two presses that no read has
  returned (`MaxOwed`), of which one can be on its way and one behind it.
  `ButtonsSpec` alone, with all of them pressed together, has half a million
  states; the theorem is about it.

### Fairness

- `Ipc`, `FairSpec`: the PowerPC runs one program that never yields, and MINI
  serves its queue in a loop of its own: weak fairness of `PpcStep`, `ArmTake`
  and `ArmReply`. Nothing is assumed about when the program makes a call.
- `BootLoop`, `Catalog`: one sequential program that always has a next step: weak
  fairness of the program, none for the user.
- FatFs, the heap and the functions of `Library` return by being operators: that
  their loops end is what lets TLC evaluate them. (A chain of clusters that
  closes on itself would make `ff.c` loop; `ChainsSound` says none comes about.)

`CHECK_DEADLOCK FALSE` stands where the system may really stop: the kernel has
been started, MINI is not there, MINI and the caller wait for each other
(answered posts), undefined behaviour was reached, or a bound on the calls was.
`ipc_live` checks deadlock.

## 4. What is proved

All proofs hold for every value of the constants that satisfies the module's
ASSUMEs.

**`IpcProofs`.** `Invariance` proves `Spec => []IInv`; from it follow `TypeOK`,
`RequestsIntact`, `SlowPingDrains`, `ReplyIsMine` and `ShutdownLeavesNothing`.
The properties are not inductive alone. That the reply is one's own needs
`OneAnswer`: an exchange is in at most one place on its way (ring, MINI's
hands, reply ring, being matched), and any exchange found there is the one
waited for. That an old reply with the same code and tag cannot be taken needs
`RepliesOrdered`: leftovers come before all replies of this program, so that
the first slow ping, whose tag no leftover has, has drained them when it
returns. This is why tags may wrap. `RingsAreMailbox` is the refinement: in
every state of `IInv` the window of a ring is a sequence (`RingIs`), storing at
the tail and moving it appends (`RingAppend`), moving the head takes the first
(`RingTake`), and every other step leaves both queues alone or, like the store of
a slot that is not published yet, touches none of their slots.
Assumption: no leftover answers a slow ping under tag 1 (`Leftover`), and
nobody else writes `in_queue`.

**`BootLoopProofs`.** `Invariance`, `SelectionBootable` and
`OnlyReset`, for all cards, layouts and thresholds, with cards exchanged and
reads failing at any moment; `TableOfCard` and `StartsSelected`, where they are
exchanged with care. Two parts make the first three inductive.
`ForgottenFirst`: while a table is being replaced nothing is selected, named or
counted down, and while it is being gone through a selection is among the named
ones. This is what the assignments at a disk change are for, and why
`autoboot_ms` has to be among them. `CountdownBounded`: the countdown stays
below the threshold at the bottom of the loop, and stands still once a button
was pressed. That Power ends on a bootable partition (`NextBootableIs`) rests on
there being one, the selected one, at the latest after the full turn `main.c`'s
loop allows itself. `TableOfCard` adds `SwapSeen`: the screen shows the slot empty
only after a poll has found it empty, and that poll dropped the table, so that a
card that goes in then finds none, whoever acknowledges it. `StartsSelected`
adds `LoadTrue`, what is known of a load from its first step on; it needs
`TableOfCard`'s invariant, because the kernel, its extensions and the table are
only of one card if no card can come in between. Its assumption is `Careful`
(cards exchanged with the screen in view, reads that succeed, no Reset without a
selection, kernels where they belong): without it the run `boot_unread` shows
what happens.

**`KernelMemoryProofs`.** `Invariance`, `MemoryApart`, `TopIsAbove`,
`MapNamesAll`, `EnteredInside`. Four parts are inductive. `AllBelow`:
everything written is below `last_kernel_address`; with `OnlySegments` (while a
segment is still to come, nothing but segments has been placed) nothing
overlaps, and a read that goes on behind the memory it was given
(`NothingOverwritten`) writes where nothing is yet. `MapAgrees`: every part is written in the same step that makes its
memory map entry, and no driver is placed before a kernel has been decoded.
`EntryComes`: the entry point lies in a segment that is in place or still to
come, which is why a kernel that is given up half way leaves no harm in
`kernel_entry_point`. Assumptions: the symbol table comes behind the segments in
a kernel file (`SegmentsFirst`, as Apple's linker writes it); a kernel whose
commands are all handled names an entry point inside a segment of its own
(`EntersItself`); sums of sizes do not wrap 32 bits; the allocator has refused
nothing (`last <= Limit`).

**`CatalogProofs`, of the cache.** `CacheInvariance`, `ReturnsOwnNode`,
`LastNodeSurvives`, for all trees, cache sizes above 1, and priorities. Inductive: an entry with a
number has that node's bytes or, after a failure, torn ones (`EntriesTrue`),
and the last result is the current entry (`GotCurrent`), which the search never
passes and so never evicts.

**`CatalogProofs`, of the catalog.** `CatalogInvariance`, `SearchesRight`, `SearchesSound`, for
all trees, caches and paths, over the cache's invariant. A
node that is handed out is the tree's, or NULL; everything else is about the
tree. Inductive: `SearchInv`, the node at hand is the one whose range of keys
holds the key that is looked for (`Under`), so that the leaf it ends in holds
the record if the tree does; `ListInv` and `NextInv`, the records listed so far
are those of the folder up to the position, and what is behind them begins in
the leaf at hand or in the next of the chain. The binary search
(`record_find_key`) is proved right once for all sequences of keys in ascending
order: `ProbeFinds`. It is a recursive function on pairs of bounds; that it has
a value at all, and that it ends at the key or beside it, is shown by the least
counterexample (`Least`), as is the walk along a path. Assumption
(`CatalogAssumption`): the tree is what the volume format says: keys ascend, an
index record's key is its child's first, leaves are chained in order, every
folder has its thread record and its members' keys begin with its number, which
is below 2^31. Its node numbers may be as large as those of the format, 32 bits,
but for those that are 0 in 16, which the cache cannot tell from an empty entry.
The invariant and both results are conditions on `Addressable` trees, whose
numbers `btree_node_by_index` does not cut: of others nothing of the kind is true.

**`ForkReadsProofs`.** `Invariance`, `ReadsRight` and `FailsRight` are about
`BlockIter` alone, for all layouts of forks and all extents trees. Inductive:
`PositionTrue` (the iterator is inside the extent its position in the fork belongs
to), `Progress` (what was skipped and read adds up), `PlaceTrue` (the record at hand
is where it was found) and `SearchTrue` (the one that is searched for is below the
node at hand). The last needs the program's order of keys to be the volume's, which
it is as long as the tree holds data forks only (`DataForksOnly`); then the binary
search finds a key that is there, and the child its range is in, as in the catalog.
`ReadsRight` does without: a search that goes astray finds nothing, but never a
wrong record. `ReadsInvariance`, `FilesAreRead`, `CallsAreAnswered`,
`SectorsAreBlocks` and `IntactOpens` are about the volume under it, from `volume_open` to `volume_close`. `PlacesTrue` says at
each point of opening which sector the numbers in `volume` stand for, and
`SectorsOfBlocks` that the sectors read are those of the blocks read. That
`startblock >>= shift` loses nothing is the lemma `Aligned`, and that the loop
over `sect_per_block` finds the power of two which `os_seek` shifts by is
`ShiftIs`; `Two` and `Halvings` are recursive functions, unfolded by induction
(`TwoUnfolds`, `HalvingsUnfolds`). Assumptions: intact forks
(`LayoutAssumption`: no empty extent inside a fork, `total_blocks` is the sum of
the extents' counts), an extents tree as the format has it, with fewer than 2^16
nodes, none of them empty, and each data fork's records in it
(`ExtentsAssumption`), on intact volumes (`VolumesAssumption`: blocks of a power
of two of sectors, all inside the wrapper's embedded area, beginning at a
multiple of their size, the catalog in one of them). `IntactOpens` is about volumes
whose catalog has nodes of whole blocks (`NodesFit`).

**`DeviceProofs`, of the console.** `ConsoleIsTerminal`: `Console`, which draws
words at addresses and whose `Screen` is read back from memory, implements
`Terminal`, whose rows are texts. The invariant (`ConsoleInvariance`) is that
`current_y` is at the beginning of a row and that between the characters and
below them every row is black: `print_str` draws only the characters and what is
behind the last one, so whatever stood in the gaps would stay. It is `init_fb`
that makes them black, which is why the actions wait for it (`fonts > 0`). TLC
checked the invariant on the run `library` first. The steps rest on what a
rectangle does to one word of one line (`FillsWord`, `PrintsWord`, from where
addresses lie, `Apart` and `Places`), then on what it does to a row (`Prints`,
`ScrollsRow`, `ClearsRow`, `FloodsRow`), and on a row being legible (`ReadsText`:
a text can be told from the words alone). Assumptions (`ConsoleAssumption`): a
width that is a number of words, room for a row, and lines that fit one, so that
what `vsnprintf` answers is what is in the buffer. Of a longer line nothing is
promised (section 5). Blanks at a line's end cannot be seen and are not part of
what a row shows.

**`DeviceProofs`, of the Gecko.** `GeckoInvariance` and `TextIsSent`, for all texts and numbers
of polls, in every order of the device's steps and the program's; `Library` has
the same steps. `GeckoSent` says something of a device only when it is idle; what
makes it inductive is where the text is in between. `WireTrue`: a word that was
read before the polls ran out is the device's answer, and only a Gecko answers
the question that enables the console. `TextTrue`: what is left of the text is
what stands behind the bytes tried, all of them taken as long as it is being
sent. `GotTrue`: what the device has are the bytes of some set of tries, each at
its place (`PlaceOfNext`), and while the program has yet to see that a byte was
taken, that byte behind them; a try whose word was read in time is in the set if
and only if the word says so. Assumption: texts are sequences of characters.

**`DeviceProofs`, of the buttons.** `ButtonsInvariance` and `PressesReturned`,
for all buttons of a pad and whatever is pressed, held and let go between two
register accesses. That no press is returned twice is not inductive: a read has
put Power into its answer long before it acknowledges the flag, and while a
button is held its flag may rise again. `PressesCounted` says for each point of
a read how many presses must be behind what is in the answer, in the flags and
under the user's fingers (`Due`): from the moment the button was let go, one
that is down is a second press. This is what `gpio_read` waits for; a read that
does not wait for Eject (`WaitedForPower`) returns one press twice.
`PressKept`: only the read that has a press in its answer acknowledges its flag.
`DelayTrue`: the delay is the reads since Reset was returned. There is no
assumption but that the bound is a number; that Power or Eject is let go at all,
without which `gpio_read` never returns, is not claimed. An Eject that came with
Power waits in its flag until the hardware raises the interrupt again, if it does.

**`HeapProofs`, over `HeapChunksProofs`.** `HeapInvariant`, `HeapIsConsistent`
and `HeapBlocksApart`: for every memory, page size and width of `size_t`, all
sizes that are asked for and every sequence of malloc, calloc, realloc, memalign,
free, independent_calloc, independent_comalloc and malloc_trim, what
`do_check_malloc_state` asserts holds between any two of them, and no two blocks
in use share a byte. What the debugging code asserts is not inductive: it walks
memory by the sizes in heads, and says nothing of a head it does not come to, nor
of where a user's bytes end. The invariant names what it walks over. There are a
set `C` of chunks, those of them in use, `U`, and their sizes `sz`, with which

- the chunks tile the segment from its base to top, all multiples of eight
  (`Tiled`), no two free ones next to each other (`Parted`);
- the words of memory say so: each chunk's head its size and whether it is in
  use, the head behind it whether that is so (`pinuse`), the foot of a free one
  its size (`Stored`), and top and the record behind it end where sbrk ended
  (`Topped`);
- every free chunk but dv is in the list of its size, or in the trie of its range
  of sizes at the node its bits lead to, in a ring with its equals; nothing else
  is there, and each node's way down exists (`Shelved`, `TreeOf`);
- every live block is in a chunk of `U` that has room for it (`Held`).

`HeapChunksProofs` shows what the small steps of the code make of such a heap,
one lemma each: a setter of heads writes two or three words and no others
(`SetInuse`, `PartTaken`, `SetFreeWithPinuse`, ...), which turns one tiling into
another (`LayoutPart`, `LayoutFree`, `LayoutJoin`, `LayoutGrown`, ...); a chunk
enters its bin (`InsertChunk`) or leaves it (`UnlinkChunk`: a node of a trie whose
place a leaf below takes). Of sizes it shows that `compute_tree_index` and
`minsize_for_tree_index` agree (`TreeIndex`), and that the bits of two sizes of
one bin tell them apart (`WayTells`, `WayEnds`). `HeapProofs` follows the calls:
a request is served with a chunk that was free and is large enough, or refused,
or runs into `Exhausted` (`MallocOutcome`); free leaves a sound heap in all the
ways it joins neighbours (`FreeFreed`); realloc, memalign and the independent
calls cut a chunk into several in use (`LayoutHalves`, `LayoutCut`) and free what
is left. `JunkedSound`: users who write within the sizes they asked for touch no
word the invariant is about. `SoundChecked`: such a heap passes every assertion.
`Two`, `Offset` and the walk through memory are recursive functions; that they
are what their definitions say is shown by induction (`All`).

The arithmetic is the code's: sizes wrap at `size_t`, so that the proof is also
that no request that passes the comparisons with `MAX_REQUEST` wraps (`Pads`,
`RoomForLarge`, `ProductIs`). Assumptions: memory is a part of what `size_t` can
address and begins and ends at multiples of eight (`HeapAssumption`,
`AddressAssumption`); alignments are no larger than half of `size_t`, above which
the loop that looks for a power of two does not end, and what ialloc adds up does
not wrap, which it does not look at (`RequestAssumption`; nothing calls it). The
theorems say nothing of what follows once sbrk has no memory (`broken`, section
5). Each lemma also shows that the heads read are there: of memory that holds
none, nothing could be proved.

**Only model-checked.** Liveness (`CallsReturn`, `CountdownEnds`,
`CallsEnd`): beyond the prover. The other refinements (`ImplementsStore`,
`ImplementsTree`, `ImplementsAllocator`), of which `HeapBlocksApart` states what
`Allocator` says of places, not what it says of contents; and `BestFit`.
`ChainsSound`, `NothingLost` and `ClosedIsOnCard` of the FAT driver's files,
`AllOnCard` and `SpaceKept` of its paths and `ResultsRight` of the library
functions: these are written with recursive operators, or reach modules that
are, and are about what a loop computes, which needs induction over data: out of
this prover's reach.

## 5. Where the code and its words part

Two runs end in a violation and are listed under "findings". The models show
more of the kind, without a run of their own; each is kept out of the inputs, or
allowed for, at the place named:

- A child node that cannot be read is NULL and `record_find_node` reads its kind
  (`hfsp_record.c` 354; 503 likewise); a missing extents tree is handed to the
  search (`hfsp_blockiter.c` 70). Both are the steps to `pc = "null"`, in `Catalog`
  and in `BlockIter`.
- Node numbers have 32 bits on the volume; `btree_node_by_index` takes 16
  (`hfsp_btree.c` 160), and so does `prepare_next` (`hfsp_record.c` 508). In a tree
  of more than 65535 nodes a look-up goes on in another node, a search may go round
  for ever, and a listing may leave out or repeat members: `Catalog`'s properties
  are claimed of `Addressable` trees. A number that is 0 in 16 bits is left out
  even there (`NodeOK`).
- `record_extent_key_compare` (`hfsp_record.c` 294) compares the kind of fork
  before the file, where HFS+ orders by file first. With a resource fork of more
  than eight extents on the volume, the binary search can miss a record that is
  there, and the rest of a file is refused: `DataForksOnly` in `FailsForAReason`.
- `btree_init` refuses a tree whose nodes are not whole blocks (`hfsp_btree.c` 235,
  "should never happen"), so that a volume with blocks of 16 KB and nodes of 8 KB
  cannot be opened; an extents tree of that kind is NULL when it is needed:
  `NodesFit` in `OpensIntact` and in `CreateTree`.
- `hfsp_read_file` reads whole blocks (`hfsp_fs.c` 110) into memory of the file's
  size: what is behind it is written over. In `load_kext_from_dir` that is nothing
  yet (`Overwrites` in `RegionsApart`); it goes up to a block less one byte past the
  allocator's end.
- `f_rename` of a directory puts its cluster number together without the shift of
  its upper half (`ff.c` 2494): on FAT32, above cluster 65535, it fails with
  FR_INT_ERR when both entries are there, or leaves `..` as it was. `Unshifted` is
  that number; `FatTree` is about volumes where it is right (`NumbersFitOneHalf`).
- After a failed read the node cache holds torn bytes under the number of the
  node that was there (`hfsp_btree.c` 148): `OwnNodeOrTorn`.
- A folder whose thread cannot be read is listed as empty, with success
  (`hfsp_fs.c` 143): `AnswersSound` allows it.
- `startblock >>= shift` drops the low bits of a volume's first sector
  (`hfsp_volume.c` 293): `ReadsTheFile` fails for volumes that are not `Aligned`.
- `macho_memory_map_entries` is never reset: kernels that fail to decode fill it
  up (`macho_decoder.c` 184).
- FatFs transfers whole sectors past a file's buffer: a read over the sector in
  a dirty buffer returns what the card has, and a write over it is undone when
  the buffer is written back (`ff.c` 1708, 1820); `f_truncate` with a dirty
  buffer leaves the buffer to be written to a cluster it freed (`ff.c` 2163).
  `ReadsApart`, `WritesApart` and `TruncatesClean` in `FatHandles`.
- In a root directory that is full, `ff.c` answers FR_NO_FILE where the comment
  at 909 promises FR_DENIED: `FatTree` takes either for a refusal.
- `sbrk` answers 0 when it has no memory and `sys_alloc` takes that for an
  address (`malloc.c` 458): `malloc` then answers 8 once. `Heap` does not follow
  what is built there (`Exhausted`), and `Allocator` allows for it (`refused`).
- `console_println` places a line by `vsnprintf`'s answer, which counts what did
  not fit: a line of more than a row writes outside the frame (`console.c` 298).
  The run's lines fit.
- A line of `config.txt` without `=` takes the next line for a part of its key
  (`main.c` 250). The run's lines have one.
- `nandfs_seek` to the beginning of a cluster stays at the one before
  (`nandfs.c` 254), and `nandfs_read` does not move on at the end of one:
  `SessionRight` says what is read where neither has happened.
- "%.0d" of 0, a width with %c, and `'` with a precision differ from the C
  standard that the comments of `printf.c` quote: `Settled` leaves them out.
- `README.md` 511 tells the user to select a partition with Reset; Reset starts
  loading at once (`main.c` 429).

## 6. Not modelled

- **Interrupts, exceptions, start-up code, `video_low.c`**: registers; every
  interrupt is masked and stays so, and an exception prints and stops.
- **The bounce buffer and the cache steps around a transfer** (`diskio.c`,
  `mini_ipc.c`): a transfer happens at once and whole. `Ipc` has the cache steps
  of the rings themselves.
- **Of FatFs**: FAT12, `f_mkfs` and `f_forward` (not compiled in), more than one
  volume, code pages (an operator on names).
- **Of dlmalloc**: mspaces, statistics, `mallopt`: nothing uses them.
- **The heap under the other parts**: what is not freed on error paths is listed
  as a hazard; `malloc` does not fail in the models of its callers.
- **Pixels**: fonts, pictures and what the boot loop draws where.
- **Values of properties in the device tree and boot arguments** but for their
  lengths, the nodes' names, and the command line's use.
- **`sha1.c`**, `record_up`, the dump functions, `nandfs_get_usage`,
  `input_wait`, `libhfsp.c`'s error texts: no caller, or text alone.
