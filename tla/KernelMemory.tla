---------------------------- MODULE KernelMemory ----------------------------
(***************************************************************************)
(* The low memory the Mac OS X kernel will find itself in, as wiiMac fills *)
(* it between "a kernel file is in memory" and "the kernel is called":     *)
(* decode_mach_kernel (macho_decoder.c) places segments, symbol table and  *)
(* header, driver_loader.c the kernel extensions, set_up_boot_args         *)
(* (boot_args.c) the arguments with the device tree behind them.           *)
(* kernel_allocator.c hands out everything but the segments, upwards from  *)
(* the highest address seen so far, and never takes anything back.         *)
(*                                                                         *)
(* Addresses and sizes are numbers of some unit.  Contents are left out:   *)
(* what matters is who writes where.  A definition marked "mistake" is a   *)
(* plausible error in the code that the specification does not use.        *)
(***************************************************************************)
EXTENDS Integers, Sequences

CONSTANTS
    Page, Limit,      \* 4 KB; KERNEL_FILE_LOAD_ADDRESS, where the file itself is
    Kernels,          \* kernel files: the sequences of their load commands
    HeaderSize,       \* of a Mach-O header with its load commands
    Kexts,            \* kernel extensions at hand
    PlistSize,        \* kext -> size of its Info.plist, 0 if it has none
    BinSizes,         \* kext -> sizes its binary may turn out to have, 0 for none
    Plugins,          \* kext -> the directories in its Contents/PlugIns
    Direct,           \* the kexts main loads by name, in order
    FatKexts,         \* the directories in /wiiMac of the FAT partition
    Block,            \* allocation block of the HFS+ volume
    DriverInfoSize,   \* sizeof(driver_info_t)
    MaxDrivers,       \* MAX_DRIVERS
    BootArgsSize,     \* BOOT_ARGS_SIZE
    TreeBase, PropertySize,  \* device tree: fixed part, one memory-map property
    MaxAttempts       \* bound: kernels tried

Command == [cmd : {"segment", "symtab", "thread", "other"},
            start : Nat,      \* vmaddr of a segment, srr0 of a thread
            size : Nat \ {0}, \* vmsize of a segment, symtab_size of a symtab
            fsize : Nat]      \* filesize of a segment

\* In a kernel file the symbol table comes behind the segments.
SegmentsFirst(cmds) ==
    \A i, j \in DOMAIN cmds :
        i < j /\ cmds[j].cmd = "segment" => cmds[i].cmd # "symtab"

\* A file whose commands are all handled to the end names an entry point of its own,
\* in a segment of its own.
Decodable(cmds) ==
    \A i \in DOMAIN cmds :
        cmds[i].cmd # "other" /\ (cmds[i].cmd = "segment" => cmds[i].fsize # 0)
Within(a, r) == r.start <= a /\ a < r.start + r.size
EntersItself(cmds) ==
    Decodable(cmds) =>
        /\ \E i \in DOMAIN cmds : cmds[i].cmd = "thread"
        /\ \A i \in DOMAIN cmds : cmds[i].cmd = "thread" =>
              \E j \in DOMAIN cmds : cmds[j].cmd = "segment" /\ Within(cmds[i].start, cmds[j])

ASSUME MemoryAssumption ==
    /\ {Page, Block} \subseteq Nat \ {0} /\ Limit \in Nat
    /\ {HeaderSize, DriverInfoSize, BootArgsSize, TreeBase, PropertySize} \subseteq Nat \ {0}
    /\ MaxDrivers \in Nat /\ MaxAttempts \in Nat

ASSUME KernelAssumption ==
    /\ Kernels \subseteq Seq(Command)
    /\ \A k \in Kernels : SegmentsFirst(k) /\ EntersItself(k)

ASSUME KextAssumption ==
    /\ PlistSize \in [Kexts -> Nat]
    /\ BinSizes \in [Kexts -> SUBSET Nat]
    /\ Plugins \in [Kexts -> Seq(Kexts)]
    /\ Direct \in Seq(Kexts) /\ FatKexts \in Seq(Kexts)

VARIABLES
    pc,           \* "idle", "decode", "kexts", "fat", "ready"
    attempts,     \* kernels tried so far
    cmds,         \* load commands still to be handled
    last,         \* last_kernel_address
    entries,      \* macho_memory_map_entries, longer than the array if it comes to that
    entry_point,  \* kernel_entry_point
    todo,         \* calls of load_kext_from_dir main has still to make
    stack,        \* entries left to each load_kexts_from_dir being executed
    drivers,      \* allocated_drivers
    tree_end,     \* device_tree_end, and topOfKernelData
    regions,      \* what was written where: [owner, start, size]
    overwritten   \* reading a file has written over something that was there

vars == <<pc, attempts, cmds, last, entries, entry_point, todo, stack, drivers,
          tree_end, regions, overwritten>>

Owners == {"segment", "symtab", "header", "driver", "boot"}
Region == [owner : Owners, start : Nat, size : Nat \ {0}]
Area(owner, start, size) == [owner |-> owner, start |-> start, size |-> size]
Span(r) == [start |-> r.start, size |-> r.size]
Apart(r, s) == r.start + r.size <= s.start \/ s.start + s.size <= r.start

Init ==
    /\ pc = "idle" /\ attempts = 0 /\ cmds = <<>>
    /\ last = 0 /\ entries = <<>> /\ entry_point = 0
    /\ todo = <<>> /\ stack = <<>> /\ drivers = <<>>
    /\ tree_end = 0 /\ regions = {} /\ overwritten = FALSE

-----------------------------------------------------------------------------
\* (size + 0xFFF) & ~0xFFF
RoundDown(size) == size - (size % Page)                          \* mistake
Round(size) == size + ((0 - size) % Page)

\* alloc_kernel_memory: last moves on even when the address is a refusal (0).
Top(size)     == last + Round(size)
Address(size) == IF Top(size) > Limit THEN 0 ELSE last

-----------------------------------------------------------------------------
\* decode_kernel zeroes the memory, so nothing of an earlier attempt is left
\* in it.  What the allocator and the memory map know of it is kept.
DecodeKernel ==
    \E k \in Kernels :
        /\ pc = "idle" /\ attempts < MaxAttempts
        /\ attempts' = attempts + 1
        /\ cmds' = k
        /\ regions' = {}
        /\ pc' = "decode"
        /\ UNCHANGED <<last, entries, entry_point, todo, stack, drivers, tree_end,
                   overwritten>>

NextIs(cmd) == pc = "decode" /\ cmds # <<>> /\ Head(cmds).cmd = cmd

\* A segment without contents ends the decoding, when its entry is made.
HandleSegment ==
    /\ NextIs("segment")
    /\ LET c == Head(cmds)
       IN  /\ entries' = Append(entries, Span(c))
           /\ IF c.fsize = 0
              THEN pc' = "idle" /\ UNCHANGED <<last, regions>>
              ELSE /\ regions' = regions \cup {Area("segment", c.start, c.size)}
                   /\ last' = IF c.start + c.size > last
                              THEN Top(c.start + c.size - last) ELSE last
                   /\ UNCHANGED pc
    /\ cmds' = Tail(cmds)
    /\ UNCHANGED <<attempts, entry_point, todo, stack, drivers, tree_end, overwritten>>

HandleSymtab ==
    /\ NextIs("symtab")
    /\ LET new == Area("symtab", Address(Head(cmds).size), Head(cmds).size)
       IN  /\ regions' = regions \cup {new}
           /\ entries' = Append(entries, Span(new))
    /\ last' = Top(Head(cmds).size)
    /\ cmds' = Tail(cmds)
    /\ UNCHANGED <<pc, attempts, entry_point, todo, stack, drivers, tree_end,
                   overwritten>>

HandleThread ==
    /\ NextIs("thread")
    /\ entry_point' = Head(cmds).start
    /\ cmds' = Tail(cmds)
    /\ UNCHANGED <<pc, attempts, last, entries, todo, stack, drivers, tree_end, regions,
                   overwritten>>

\* mistake: an unknown command ends the commands
UnknownEnds ==
    /\ NextIs("other")
    /\ cmds' = <<>>
    /\ UNCHANGED <<pc, attempts, last, entries, entry_point, todo, stack, drivers, tree_end,
                   regions, overwritten>>

Unknown ==
    /\ NextIs("other")
    /\ pc' = "idle"
    /\ cmds' = Tail(cmds)
    /\ UNCHANGED <<attempts, last, entries, entry_point, todo, stack, drivers, tree_end,
                   regions, overwritten>>

\* mistake: the header is put where the allocator stands, and not allocated
HeaderInPlace ==
    /\ pc = "decode" /\ cmds = <<>>
    /\ LET new == Area("header", last, HeaderSize)
       IN  /\ regions' = regions \cup {new}
           /\ entries' = Append(entries, Span(new))
    /\ todo' \in {Direct, <<>>}
    /\ pc' = "kexts"
    /\ UNCHANGED <<attempts, last, cmds, entry_point, stack, drivers, tree_end,
                   overwritten>>

\* The header and its commands come last; main goes on to the kexts of the
\* selected volume, if it can be mounted.
CopyHeader ==
    /\ pc = "decode" /\ cmds = <<>>
    /\ LET new == Area("header", Address(HeaderSize), HeaderSize)
       IN  /\ regions' = regions \cup {new}
           /\ entries' = Append(entries, Span(new))
    /\ last' = Top(HeaderSize)
    /\ todo' \in {Direct, <<>>}
    /\ pc' = "kexts"
    /\ UNCHANGED <<attempts, cmds, entry_point, stack, drivers, tree_end, overwritten>>

-----------------------------------------------------------------------------
\* hfsp_read_file reads whole blocks, whatever lies behind the file's last byte in
\* memory; a file on the FAT partition is read to its last byte.
Landing(file) ==
    IF pc = "fat" THEN file
    ELSE [file EXCEPT !.size = Block * ((file.size + Block - 1) \div Block)]

Plist(k, at)       == [start |-> at + DriverInfoSize, size |-> PlistSize[k]]
Binary(k, bin, at) == [start |-> at + DriverInfoSize + PlistSize[k], size |-> bin]

\* mistake: the binary is read before Info.plist
OverwritesSwapped(k, bin, at) ==
    \/ \E r \in regions : ~Apart(r, Landing(Plist(k, at))) \/ ~Apart(r, Landing(Binary(k, bin, at)))
    \/ bin # 0 /\ ~Apart(Binary(k, bin, at), Landing(Plist(k, at)))

\* Info.plist is read first, then the binary right behind it, both into memory
\* allocated at "at".  A read that fails may have got as far as one that does not.
Overwrites(k, bin, at) ==
    \/ \E r \in regions : ~Apart(r, Landing(Plist(k, at))) \/ ~Apart(r, Landing(Binary(k, bin, at)))
    \/ ~Apart(Plist(k, at), Landing(Binary(k, bin, at)))

\* mistake: the driver is listed before its files are read
LoadKextEarly(k, rest) ==
    IF PlistSize[k] = 0
    THEN stack' = rest /\ UNCHANGED <<last, regions, drivers, overwritten>>
    ELSE \E bin \in BinSizes[k], read \in BOOLEAN :
            LET size == DriverInfoSize + PlistSize[k] + bin
                new  == Area("driver", Address(size), size)
            IN  /\ last' = Top(size)
                /\ overwritten' = (overwritten \/ Overwrites(k, bin, new.start))
                /\ regions' = IF read THEN regions \cup {new} ELSE regions
                /\ drivers' = Append(drivers, Span(new))
                /\ stack' = IF read THEN <<Plugins[k]>> \o rest ELSE rest

\* load_kext_from_dir: without Info.plist nothing happens; with it there is
\* memory for it and for the binary, and when both could be read the driver is
\* listed and its plugins follow.  rest: what the callers have still to do.
LoadKext(k, rest) ==
    IF PlistSize[k] = 0
    THEN stack' = rest /\ UNCHANGED <<last, regions, drivers, overwritten>>
    ELSE \E bin \in BinSizes[k], read \in BOOLEAN :
            LET size == DriverInfoSize + PlistSize[k] + bin
                new  == Area("driver", Address(size), size)
            IN  /\ last' = Top(size)
                /\ overwritten' = (overwritten \/ Overwrites(k, bin, new.start))
                /\ regions' = IF read THEN regions \cup {new} ELSE regions
                /\ drivers' = IF read THEN Append(drivers, Span(new)) ELSE drivers
                /\ stack' = IF read THEN <<Plugins[k]>> \o rest ELSE rest

\* One of the calls main makes by name.
LoadByName ==
    /\ pc = "kexts" /\ stack = <<>> /\ todo # <<>>
    /\ LoadKext(Head(todo), <<>>)
    /\ todo' = Tail(todo)
    /\ UNCHANGED <<pc, attempts, cmds, entries, entry_point, tree_end>>

\* load_kexts_from_dir: the next entry, unless the driver limit is reached.
LoadEntry ==
    /\ pc \in {"kexts", "fat"}
    /\ stack # <<>> /\ Head(stack) # <<>> /\ Len(drivers) < MaxDrivers
    /\ LoadKext(Head(Head(stack)), <<Tail(Head(stack))>> \o Tail(stack))
    /\ UNCHANGED <<pc, attempts, cmds, entries, entry_point, todo, tree_end>>

LeaveDirectory ==
    /\ pc \in {"kexts", "fat"}
    /\ stack # <<>> /\ (Head(stack) = <<>> \/ Len(drivers) >= MaxDrivers)
    /\ stack' = Tail(stack)
    /\ UNCHANGED <<pc, attempts, cmds, last, entries, entry_point, todo, drivers, tree_end,
                   regions, overwritten>>

\* The kexts on the FAT partition, if there is one and it can be mounted.
LoadFromFat ==
    /\ pc = "kexts" /\ stack = <<>> /\ todo = <<>>
    /\ stack' \in {<<FatKexts>>, <<>>}
    /\ pc' = "fat"
    /\ UNCHANGED <<attempts, cmds, last, entries, entry_point, todo, drivers, tree_end,
                   regions, overwritten>>

\* build_device_tree: one property for each entry and each driver.
TreeSize == TreeBase + PropertySize * (Len(entries) + Len(drivers))

\* mistake: the top is what the allocator says it is
SetUpBootArgsAllocated ==
    /\ pc = "fat" /\ stack = <<>>
    /\ regions' = regions \cup
          {Area("boot", Address(BootArgsSize), BootArgsSize + TreeSize)}
    /\ last' = Top(BootArgsSize)
    /\ tree_end' = last'
    /\ pc' = "ready"
    /\ UNCHANGED <<attempts, cmds, entries, entry_point, todo, stack, drivers,
                   overwritten>>

\* set_up_boot_args allocates the boot arguments; the device tree grows behind
\* them, and where it ends is topOfKernelData.
SetUpBootArgs ==
    /\ pc = "fat" /\ stack = <<>>
    /\ LET size == BootArgsSize + TreeSize
       IN  /\ regions' = regions \cup {Area("boot", Address(BootArgsSize), size)}
           /\ tree_end' = Address(BootArgsSize) + size
    /\ last' = Top(BootArgsSize)
    /\ pc' = "ready"
    /\ UNCHANGED <<attempts, cmds, entries, entry_point, todo, stack, drivers,
                   overwritten>>

Next == \/ DecodeKernel \/ HandleSegment \/ HandleSymtab \/ HandleThread \/ Unknown
        \/ CopyHeader \/ LoadByName \/ LoadEntry \/ LeaveDirectory \/ LoadFromFat
        \/ SetUpBootArgs

Spec == Init /\ [][Next]_vars

-----------------------------------------------------------------------------
\* The variables have their types; in particular addresses never go negative.
TypeOK ==
    /\ pc \in {"idle", "decode", "kexts", "fat", "ready"}
    /\ attempts \in Nat
    /\ cmds \in Seq(Command)
    /\ last \in Nat /\ entry_point \in Nat /\ tree_end \in Nat
    /\ entries \in Seq([start : Nat, size : Nat \ {0}])
    /\ drivers \in Seq([start : Nat, size : Nat \ {0}])
    /\ todo \in Seq(Kexts) /\ stack \in Seq(Seq(Kexts))
    /\ regions \subseteq Region /\ overwritten \in BOOLEAN

\* As long as the allocator has refused nothing, what it hands out (symbol
\* table, header, drivers, boot arguments) overlaps nothing else in memory, not
\* the kernel's segments either, whatever was tried and failed before; and no
\* file read in whole blocks, which may go on behind the memory allocated for it,
\* has written over what was loaded before.
RegionsApart ==
    last <= Limit =>
        /\ \A r, s \in regions :
              r = s \/ Apart(r, s) \/ (r.owner = "segment" /\ s.owner = "segment")
        /\ ~overwritten

\* topOfKernelData, above which the kernel takes memory for itself, is above
\* everything that was loaded for it, the device tree included.
TopAboveAll ==
    pc = "ready" /\ last <= Limit => \A r \in regions : r.start + r.size <= tree_end

\* The kernel learns from the device tree's memory map where everything is:
\* each part of the kernel that is called has an entry, and each driver listed
\* was read completely to where its property says.
MapComplete ==
    pc \in {"kexts", "fat", "ready"} =>
        /\ \A r \in regions : r.owner \in {"segment", "symtab", "header"} =>
              \E i \in DOMAIN entries : entries[i] = Span(r)
        /\ \A i \in DOMAIN drivers :
              \E r \in regions : r.owner = "driver" /\ Span(r) = drivers[i]

\* The kernel is entered inside a segment of its own, not where an attempt that
\* failed left kernel_entry_point (every kernel that decodes names its own).
EntryInKernel ==
    pc = "ready" => \E r \in regions : r.owner = "segment" /\ Within(entry_point, r)

\* driver_loader.c line 19: "Driver limit reached (%d), skipping remaining
\* drivers": there are never more than MAX_DRIVERS.
DriversFit == Len(drivers) <= MaxDrivers

-----------------------------------------------------------------------------
\* Why regions stay apart: all of them are below last, and a segment is only
\* ever placed while nothing but segments is there.
AllBelow == last <= Limit => \A r \in regions : r.start + r.size <= last

OnlySegments ==
    pc = "decode" =>
        /\ SegmentsFirst(cmds)
        /\ (\E i \in DOMAIN cmds : cmds[i].cmd = "segment") =>
               \A r \in regions : r.owner = "segment"

\* Why the memory map is complete: an entry is made with each part of a kernel,
\* and there are no drivers before there is a kernel.
MapAgrees ==
    /\ \A r \in regions : r.owner \in {"segment", "symtab", "header"} =>
          \E i \in DOMAIN entries : entries[i] = Span(r)
    /\ \A i \in DOMAIN drivers :
          \E r \in regions : r.owner = "driver" /\ Span(r) = drivers[i]
    /\ pc \in {"idle", "decode"} => drivers = <<>>

\* Why the entry point is right: it is in a segment that was placed or is still to
\* come, unless the command that sets it is still to come.
Held(a) ==
    \/ \E r \in regions : r.owner = "segment" /\ Within(a, r)
    \/ \E j \in DOMAIN cmds : cmds[j].cmd = "segment" /\ Within(a, cmds[j])
EntryComes ==
    /\ pc = "decode" /\ Decodable(cmds) =>
          /\ (\E i \in DOMAIN cmds : cmds[i].cmd = "thread") \/ Held(entry_point)
          /\ \A i \in DOMAIN cmds : cmds[i].cmd = "thread" => Held(cmds[i].start)
    /\ pc \in {"kexts", "fat", "ready"} =>
          \E r \in regions : r.owner = "segment" /\ Within(entry_point, r)

IInv ==
    /\ TypeOK
    /\ OnlySegments
    /\ MapAgrees
    /\ EntryComes
    /\ pc # "ready" => AllBelow
    /\ RegionsApart
    /\ TopAboveAll
=============================================================================
