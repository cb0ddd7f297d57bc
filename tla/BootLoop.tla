----------------------------- MODULE BootLoop ------------------------------
(***************************************************************************)
(* main's polling loop (main.c) with what it calls to reach the SD card:   *)
(* disk_initialize (diskio.c), fat_mount (fat.c), apm_find_partitions      *)
(* (apm.c), hfsp_mount and hfsp_read_file (hfsplus/hfsp_fs.c).             *)
(*                                                                         *)
(* The loop is cut where it talks to the card, because that is where the   *)
(* user's hands come in: a card may be pulled or put in between any two    *)
(* steps.  MINI remembers that a card is new until sd_mount acknowledges   *)
(* it, and until then refuses to read it.                                  *)
(*                                                                         *)
(* A partition is known to the program by its starting sector; here, by    *)
(* its place in the card's layout.  Indices are the code's: -1 is none.    *)
(*                                                                         *)
(* A definition marked "mistake" is a plausible error in the code that the *)
(* specification does not use: it is there to show that a property can     *)
(* tell the difference.                                                    *)
(***************************************************************************)
EXTENDS Integers, Sequences

CONSTANTS
    Cards, NoCard,   \* the SD cards at hand
    Config,          \* card -> boot-args of /wiiMac/config.txt, or NoText
    NoText,
    Threshold,       \* autoboot_ms_threshold, in turns of the loop
    ArgEntries,      \* MAX_BOOT_ARGS_COMMAND_LINE_ENTRIES
    Keys,            \* what input_read may return, as the switch sees it
    Worlds,          \* what the cards hold and what may happen to them, see world
    MaxSwaps         \* bound: cards put in after the start

ASSUME BootAssumption ==
    /\ NoCard \notin Cards
    /\ \A w \in Worlds, c \in Cards : w.layout[c] \in
          Seq([type : {"map", "hfs", "fat"}, kernel : {"good", "junk", "empty", "none"}])
    /\ \A w \in Worlds : {w.resets, w.fast, w.errors} \subseteq BOOLEAN
    /\ Threshold \in Nat \ {0} /\ ArgEntries \in Nat \ {0} /\ MaxSwaps \in Nat
    /\ Keys \subseteq {"none", "power", "reset", "eject"}

NoImage == [card |-> NoCard, part |-> 0, whole |-> FALSE]

VARIABLES
    world,           \* never changes: layout, card -> its partitions; may Reset be pressed
                     \* with no partition selected (resets), a card go in before the screen
                     \* shows the slot empty (fast), and reading a card fail (errors)?
    card, sd,        \* the slot; MINI's SDMMC state: "none", "new", "inserted"
    noticed,         \* the screen has shown the slot empty since the card left
    swaps,           \* cards put in so far
    pc,
    disk_stat,       \* "unset" (-1), "ready" (0), "nodisk", "noinit"
    table,           \* apm_found_partitions[0 .. apm_found_partitions_count - 1]
    probed,          \* how many of them handle_disk_change has looked at
    named,           \* indices with a name in partition_names
    fat,             \* apm_fat_partition_index
    selected,        \* selected_boot_partition_index
    autoboot,        \* autoboot_ms, in turns
    boot_args_index,
    args0,           \* boot_args_command_line_entries[0], set by a config file
    command_line,    \* partition number and boot arguments passed to the kernel
    loading_kernel, kernel_load_failed, loaded_kernel,
    image,           \* what is at KERNEL_FILE_LOAD_ADDRESS
    kexts,           \* the partitions kernel extensions were loaded from
    touched          \* history: Power or Eject pressed since the last disk change

slot  == <<card, sd, noticed, swaps>>
found == <<table, probed, named, fat>>
flags == <<loading_kernel, kernel_load_failed, loaded_kernel>>
text  == <<boot_args_index, args0, command_line>>
vars  == <<world, slot, pc, disk_stat, found, selected, autoboot, text, flags, image, kexts,
           touched>>

Layout == world.layout
ResetAnytime == world.resets
FastSwap == world.fast
ReadErrors == world.errors

-----------------------------------------------------------------------------
Entry(i)     == table[i + 1]
Indices      == 0 .. Len(table) - 1
Bootable(i)  == Entry(i).type = "hfs"                            \* is_bootable
Entries(c)   == [i \in 1 .. Len(Layout[c]) |->
                   [card |-> c, part |-> i, type |-> Layout[c][i].type]]

\* The partition now at the place an entry names, if MINI (in state st) lets
\* the card be read.
Readable(e, st) == st = "inserted" /\ e.part \in 1 .. Len(Layout[card])
Present(e)  == Layout[card][e.part]

\* disk_initialize: the status it returns and the state it leaves MINI in.
DiskInitialize ==
    CASE sd = "none" -> {<<"nodisk", "none">>}
      [] sd = "new"  -> {<<"ready", "inserted">>} \cup
                          (IF ReadErrors THEN {<<"noinit", "new">>} ELSE {})
      [] OTHER       -> {<<"ready", "inserted">>}

Fails == IF ReadErrors THEN BOOLEAN ELSE {FALSE}

-----------------------------------------------------------------------------
Init ==
    /\ world \in Worlds
    /\ card \in Cards \cup {NoCard}
    /\ sd \in IF card = NoCard THEN {"none"} ELSE {"new", "inserted"}
    /\ noticed = FALSE /\ swaps = 0
    /\ pc = "poll" /\ disk_stat = "unset"
    /\ table = <<>> /\ probed = 0 /\ named = {} /\ fat = -1
    /\ selected = -1 /\ autoboot = -1
    /\ boot_args_index = 0 /\ args0 = NoText /\ command_line = <<>>
    /\ loading_kernel = FALSE /\ kernel_load_failed = FALSE /\ loaded_kernel = FALSE
    /\ image = NoImage /\ kexts = {} /\ touched = FALSE

\* The user.
Remove ==
    /\ card # NoCard /\ pc # "started"
    /\ card' = NoCard /\ sd' = "none" /\ noticed' = FALSE
    /\ UNCHANGED <<swaps, pc, disk_stat, found, selected, autoboot, text, flags, image,
                   kexts, touched>>

Insert ==
    \E c \in Cards :
        /\ card = NoCard /\ pc # "started"
        /\ FastSwap \/ noticed
        /\ swaps < MaxSwaps
        /\ card' = c /\ sd' = "new" /\ noticed' = FALSE /\ swaps' = swaps + 1
        /\ UNCHANGED <<pc, disk_stat, found, selected, autoboot, text, flags, image,
                       kexts, touched>>

-----------------------------------------------------------------------------
\* mistake: the countdown survives a disk change
PollKeepsCountdown ==
    \E s \in DiskInitialize :
        /\ pc = "poll"
        /\ disk_stat' = s[1] /\ sd' = s[2]
        /\ IF s[1] # disk_stat
           THEN /\ pc' = "config"
                /\ selected' = -1 /\ fat' = -1 /\ named' = {}
                /\ loading_kernel' = FALSE /\ kernel_load_failed' = FALSE
                /\ touched' = FALSE
           ELSE /\ pc' = "input"
                /\ UNCHANGED <<selected, fat, named, loading_kernel, kernel_load_failed,
                               touched>>
        /\ UNCHANGED <<card, noticed, swaps, table, probed, autoboot, text, loaded_kernel,
                       image, kexts>>

\* The top of the loop: disk_initialize, and when its answer is another one
\* than last time everything known about the card is forgotten.
Poll ==
    \E s \in DiskInitialize :
        /\ pc = "poll"
        /\ disk_stat' = s[1] /\ sd' = s[2]
        /\ IF s[1] # disk_stat
           THEN /\ pc' = "config"
                /\ autoboot' = -1 /\ selected' = -1 /\ fat' = -1 /\ named' = {}
                /\ loading_kernel' = FALSE /\ kernel_load_failed' = FALSE
                /\ touched' = FALSE
           ELSE /\ pc' = "input"
                /\ UNCHANGED <<autoboot, selected, fat, named, loading_kernel,
                               kernel_load_failed, touched>>
        /\ UNCHANGED <<card, noticed, swaps, table, probed, text, loaded_kernel, image,
                       kexts>>

\* handle_disk_change: the config file of the first FAT partition, if any.
ReadConfig ==
    \E s \in DiskInitialize, fail \in Fails :
        /\ pc = "config"
        /\ sd' = s[2]
        /\ args0' = IF s[1] = "ready" /\ ~fail /\ Config[card] # NoText
                    THEN Config[card] ELSE args0
        /\ pc' = "apm"
        /\ UNCHANGED <<card, noticed, swaps, disk_stat, found, selected, autoboot,
                       boot_args_index, command_line, flags, image, kexts, touched>>

\* mistake: apm_found_partitions_count is reset only when a table is found
FindPartitionsOrKeep ==
    \E fail \in Fails :
        /\ pc = "apm"
        /\ LET new == IF sd = "inserted" /\ ~fail THEN Entries(card) ELSE <<>>
           IN  table' = IF new = <<>> THEN table ELSE new
        /\ probed' = 0
        /\ pc' = IF table' = <<>> THEN "input" ELSE "probe"
        /\ UNCHANGED <<slot, disk_stat, named, fat, selected, autoboot, text, flags,
                       image, kexts, touched>>

\* apm_find_partitions: nothing is found unless every entry can be read.
FindPartitions ==
    \E fail \in Fails :
        /\ pc = "apm"
        /\ table' = IF sd = "inserted" /\ ~fail THEN Entries(card) ELSE <<>>
        /\ probed' = 0
        /\ pc' = IF table' = <<>> THEN "input" ELSE "probe"
        /\ UNCHANGED <<slot, disk_stat, named, fat, selected, autoboot, text, flags,
                       image, kexts, touched>>

Mounts(e) == Readable(e, sd) /\ Present(e).type = "hfs"

\* One partition: remember the first FAT one, name those that mount as HFS+,
\* select the first of them that is bootable; after the last, start counting.
Probe ==
    \E fail \in Fails :
        /\ pc = "probe"
        /\ LET i == probed
               mounted == Mounts(Entry(i)) /\ ~fail
           IN  /\ fat' = IF fat = -1 /\ Entry(i).type = "fat" THEN i ELSE fat
               /\ named' = IF mounted THEN named \cup {i} ELSE named
               /\ selected' = IF mounted /\ selected = -1 /\ Bootable(i)
                              THEN i ELSE selected
        /\ probed' = probed + 1
        /\ IF probed + 1 = Len(table)
           THEN /\ autoboot' = IF selected' # -1 THEN 0 ELSE autoboot
                /\ pc' = "input"
           ELSE UNCHANGED <<autoboot, pc>>
        /\ UNCHANGED <<slot, disk_stat, table, text, flags, image, kexts, touched>>

-----------------------------------------------------------------------------
NextPartition == (selected + 1) % Len(table)                      \* mistake

\* Power: the next bootable partition, in table order and around.
NextBootable ==
    LET n == Len(table)
        after(k) == (selected + k) % n
    IN  IF \E k \in 1 .. n : Bootable(after(k))
        THEN after(CHOOSE k \in 1 .. n : /\ Bootable(after(k))
                                         /\ \A j \in 1 .. k - 1 : ~Bootable(after(j)))
        ELSE selected

PressPower ==
    /\ autoboot' = -1
    /\ touched' = TRUE
    /\ IF selected # -1 /\ table # <<>>
       THEN /\ selected' = NextBootable
            /\ loading_kernel' = FALSE /\ kernel_load_failed' = FALSE
       ELSE UNCHANGED <<selected, loading_kernel, kernel_load_failed>>
    /\ UNCHANGED boot_args_index

\* mistake: Eject does not stop the countdown
PressEjectCounting ==
    /\ touched' = TRUE
    /\ boot_args_index' = IF boot_args_index + 1 >= ArgEntries
                          THEN 0 ELSE boot_args_index + 1
    /\ UNCHANGED <<autoboot, selected, loading_kernel, kernel_load_failed>>

\* Eject: the next boot arguments.
PressEject ==
    /\ autoboot' = -1
    /\ touched' = TRUE
    /\ boot_args_index' = IF boot_args_index + 1 >= ArgEntries
                          THEN 0 ELSE boot_args_index + 1
    /\ UNCHANGED <<selected, loading_kernel, kernel_load_failed>>

\* The countdown is over, or Reset: it stops, and the kernel is loaded.
StartsLoading(key) == key = "reset" \/ (autoboot >= Threshold /\ key = "none")

\* mistake: partitions counted from 0
CommandLineFromZero(part, index) ==
    <<part - 1, index, IF index = 0 THEN args0 ELSE NoText>>

CommandLine(part, index) == <<part, index, IF index = 0 THEN args0 ELSE NoText>>

ReadInput ==
    \E key \in Keys :
        /\ pc = "input"
        /\ key = "reset" => ResetAnytime \/ selected # -1
        /\ CASE key = "power" -> PressPower
             [] key = "eject" -> PressEject
             [] OTHER -> /\ autoboot' = IF StartsLoading(key) THEN -1 ELSE autoboot
                         /\ loading_kernel' = (loading_kernel \/ StartsLoading(key))
                         /\ UNCHANGED <<selected, kernel_load_failed, touched,
                                        boot_args_index>>
        /\ command_line' = CommandLine(selected' + 1, boot_args_index')
        /\ pc' = IF StartsLoading(key) THEN "kernel_fat" ELSE "draw"
        /\ UNCHANGED <<slot, disk_stat, found, args0, loaded_kernel, image, kexts>>

-----------------------------------------------------------------------------
Image(e, whole) == [card |-> card, part |-> e.part, whole |-> whole]

\* decode_kernel: a good kernel, read whole, decodes.  The decoder checks no
\* magic number, so whatever else is in memory may decode or not.
Decodes(img) ==
    IF img.whole /\ Layout[img.card][img.part].kernel = "good" THEN {TRUE} ELSE BOOLEAN

\* load_kernel_from_fat: decoded only when the whole file could be read.
FatReads(e, st) ==
    IF ~(Readable(e, st) /\ Present(e).type = "fat") \/ Present(e).kernel = "none"
    THEN {<<image, FALSE>>}
    ELSE {<<IF Present(e).kernel = "empty" THEN image ELSE Image(e, TRUE), TRUE>>}
            \cup (IF ReadErrors THEN {<<image, FALSE>>, <<Image(e, FALSE), FALSE>>} ELSE {})

\* load_kernel_from_hfs: given up only when the volume does not mount or the
\* file is empty: hfsp_read_file answers a failure with -1, not 0.
HfsReads(e) ==
    IF ~Mounts(e) THEN {<<image, FALSE>>}
    ELSE (CASE Present(e).kernel = "none"  -> {<<image, TRUE>>}
            [] Present(e).kernel = "empty" -> {<<image, FALSE>>}
            [] OTHER                       -> {<<Image(e, TRUE), TRUE>>})
         \cup (IF ReadErrors THEN {<<image, FALSE>>, <<image, TRUE>>, <<Image(e, FALSE), TRUE>>}
               ELSE {})

\* With nothing selected the entry is apm_found_partitions[-1], memory in front
\* of the table: any starting sector.
Nowhere == [card : {NoCard}, part : 0 .. 3, type : {"hfs"}]
SelectedEntries == IF selected = -1 THEN Nowhere ELSE {Entry(selected)}

\* /wiiMac/mach_kernel overrides, if there is a FAT partition.
LoadFromFat ==
    \E s \in DiskInitialize :
        /\ pc = "kernel_fat"
        /\ IF fat \in Indices
           THEN /\ sd' = s[2]
                /\ IF s[1] = "ready"
                   THEN \E r \in FatReads(Entry(fat), s[2]) :
                           /\ image' = r[1]
                           /\ loaded_kernel' \in IF r[2] THEN Decodes(r[1]) ELSE {FALSE}
                   ELSE UNCHANGED <<image, loaded_kernel>>
           ELSE UNCHANGED <<sd, image, loaded_kernel>>
        /\ pc' = "kernel_hfs"
        /\ UNCHANGED <<card, noticed, swaps, disk_stat, found, selected, autoboot, text,
                       loading_kernel, kernel_load_failed, kexts, touched>>

\* Otherwise /mach_kernel of the selected partition.
LoadFromHfs ==
    /\ pc = "kernel_hfs"
    /\ IF loaded_kernel
       THEN UNCHANGED <<image, loaded_kernel>>
       ELSE \E e \in SelectedEntries : \E r \in HfsReads(e) :
               /\ image' = r[1]
               /\ loaded_kernel' \in IF r[2] THEN Decodes(r[1]) ELSE {FALSE}
    /\ loading_kernel' = loaded_kernel'
    /\ kernel_load_failed' = (kernel_load_failed \/ ~loaded_kernel')
    /\ pc' = "draw"
    /\ UNCHANGED <<slot, disk_stat, found, selected, autoboot, text, kexts, touched>>

\* mistake: the turns are not counted
DrawOnly ==
    /\ pc = "draw"
    /\ noticed' = (card = NoCard /\ disk_stat = "nodisk")
    /\ pc' = IF loaded_kernel THEN "kexts_hfs" ELSE "poll"
    /\ UNCHANGED <<card, sd, swaps, disk_stat, found, selected, autoboot, text, flags,
                   image, kexts, touched>>

\* The bottom of the loop: the screen, the pause, one more turn counted.
Draw ==
    /\ pc = "draw"
    /\ noticed' = (card = NoCard /\ disk_stat = "nodisk")
    /\ autoboot' = IF autoboot # -1 THEN autoboot + 1 ELSE -1
    /\ pc' = IF loaded_kernel THEN "kexts_hfs" ELSE "poll"
    /\ UNCHANGED <<card, sd, swaps, disk_stat, found, selected, text, flags, image,
                   kexts, touched>>

\* Kernel extensions: from the selected partition, then from the FAT one; a
\* partition that does not mount is passed over.
LoadKextsFromHfs ==
    \E e \in SelectedEntries, fail \in Fails :
        /\ pc = "kexts_hfs"
        /\ kexts' = IF Mounts(e) /\ ~fail THEN kexts \cup {<<card, e.part>>} ELSE kexts
        /\ pc' = "kexts_fat"
        /\ UNCHANGED <<slot, disk_stat, found, selected, autoboot, text, flags, image,
                       touched>>

LoadKextsFromFat ==
    \E s \in DiskInitialize, fail \in Fails :
        /\ pc = "kexts_fat"
        /\ IF fat \in Indices
           THEN /\ sd' = s[2]
                /\ kexts' = IF s[1] = "ready" /\ ~fail /\ Readable(Entry(fat), s[2])
                               /\ Present(Entry(fat)).type = "fat"
                            THEN kexts \cup {<<card, Entry(fat).part>>} ELSE kexts
           ELSE UNCHANGED <<sd, kexts>>
        /\ pc' = "started"
        /\ UNCHANGED <<card, noticed, swaps, disk_stat, found, selected, autoboot, text,
                       flags, image, touched>>

Program == \/ Poll \/ ReadConfig \/ FindPartitions \/ Probe \/ ReadInput
           \/ LoadFromFat \/ LoadFromHfs \/ Draw \/ LoadKextsFromHfs \/ LoadKextsFromFat

Next == (Program \/ Remove \/ Insert) /\ UNCHANGED world

Spec == Init /\ [][Next]_vars

\* The program runs whatever the user does.
FairSpec == Spec /\ WF_vars(Program /\ UNCHANGED world)

-----------------------------------------------------------------------------
\* The variables hold what their declarations say; the indices stay within
\* the table and boot_args_index within its array.
TypeOK ==
    /\ card \in Cards \cup {NoCard} /\ sd \in {"none", "new", "inserted"}
    /\ noticed \in BOOLEAN /\ swaps \in 0 .. MaxSwaps /\ touched \in BOOLEAN
    /\ pc \in {"poll", "config", "apm", "probe", "input", "kernel_fat", "kernel_hfs",
               "draw", "kexts_hfs", "kexts_fat", "started"}
    /\ disk_stat \in {"unset", "ready", "nodisk", "noinit"}
    /\ table \in Seq([card : Cards, part : Nat, type : {"map", "hfs", "fat"}])
    /\ probed \in Nat
    /\ named \subseteq Indices /\ fat \in -1 .. Len(table) - 1
    /\ selected \in -1 .. Len(table) - 1
    /\ autoboot \in -1 .. Threshold
    /\ boot_args_index \in 0 .. ArgEntries - 1
    /\ loading_kernel \in BOOLEAN /\ kernel_load_failed \in BOOLEAN
    /\ loaded_kernel \in BOOLEAN

\* What the screen marks as selected is a partition that can be booted, of the
\* table as it is now: a table is never replaced under a selection.
SelectedBootable == selected # -1 => selected \in Indices /\ Bootable(selected)

\* A countdown names its partition on screen (partition_names[partition_number
\* - 1]), so it only runs with one selected, and one whose volume name is known
\* unless the user chose it.
CountdownHasTarget == autoboot # -1 => selected \in named

\* What draw_screen shows and what the loop would load agree with the table: the
\* selection and the countdown never outlive what they were chosen from.
SelectionTrue == SelectedBootable /\ CountdownHasTarget

\* A kernel is never loaded behind the user's back: after Power or Eject only
\* Reset starts a load, until another disk change.
OnlyResetAfterTouch ==
    [][pc = "input" /\ pc' = "kernel_fat" /\ touched => autoboot = -1]_vars

\* The table in use was read from the card in the slot, as long as cards are
\* put in only after the screen has shown the slot empty (FastSwap = FALSE): a
\* card exchanged between two polls, or acknowledged by a fat_mount in between,
\* would leave disk_stat as it was and the old table in place.
TableIsOfCard ==
    (~FastSwap /\ sd = "inserted" /\ pc \in {"input", "kernel_fat", "kernel_hfs", "draw", "kexts_hfs"})
        => \A i \in Indices : Entry(i).card = card

\* The user waits for the screen, cards can be read, and every HFS+ volume has a kernel.
Careful ==
    /\ ~FastSwap /\ ~ResetAnytime /\ ~ReadErrors
    /\ \A c \in Cards : \A k \in DOMAIN Layout[c] :
          Layout[c][k].kernel = "good" \/ (Layout[c][k].kernel = "none" /\ Layout[c][k].type # "hfs")

\* What is started was read whole, from the FAT partition of the table or from
\* the selected one, and the command line names the selected one; as long as
\* everybody is careful (see KernelWasRead).
BootsWhatWasSelected ==
    Careful /\ pc = "started" =>
        /\ image.whole
        /\ \E i \in {fat, selected} \cap Indices :
              image.card = Entry(i).card /\ image.part = Entry(i).part
        /\ \A k \in kexts : k[1] = image.card
        /\ command_line[1] = selected + 1
        /\ command_line[2] = boot_args_index
        /\ boot_args_index = 0 => command_line[3] = args0

\* Whatever is decoded and started was loaded from a file first: the branch of
\* load_kernel_from_hfs that reports "Failed to load /mach_kernel" returns.
KernelWasRead == loaded_kernel => image.whole

\* A countdown comes to its end: the kernel is tried once, or somebody stops
\* it, or the card is gone; it neither hangs nor tries again by itself.
CountdownEnds == (autoboot # -1) ~> (autoboot = -1)

-----------------------------------------------------------------------------
(* Why the selection and the countdown can be trusted.                      *)

\* A new table is only found when everything said about the old one is
\* forgotten, and there is no countdown until it has been gone through.
ForgottenFirst ==
    /\ pc \in {"config", "apm"} => selected = -1 /\ fat = -1 /\ named = {}
    /\ pc \in {"config", "apm", "probe"} => autoboot = -1 /\ ~touched
    /\ pc = "probe" => probed < Len(table) /\ (selected # -1 => selected \in named)

\* A countdown stops at the threshold, for a load, and for good when touched.
CountdownBounded ==
    /\ pc = "draw" => autoboot < Threshold
    /\ pc \in {"kernel_fat", "kernel_hfs"} => autoboot = -1
    /\ touched => autoboot = -1

Core ==
    /\ TypeOK
    /\ sd = "none" <=> card = NoCard
    /\ SelectedBootable /\ CountdownHasTarget
    /\ ForgottenFirst /\ CountdownBounded

IInv == world \in Worlds /\ Core

\* Where a card goes in only after the screen has shown the slot empty, the program
\* has by then noticed, and dropped the table: a new card finds none.
SwapSeen ==
    ~FastSwap =>
        /\ noticed => card = NoCard /\ disk_stat = "nodisk" /\ pc \notin {"config", "apm", "probe"}
        /\ disk_stat = "nodisk" => IF pc \in {"config", "apm"} THEN card = NoCard ELSE table = <<>>
        /\ card # NoCard => \A i \in Indices : Entry(i).card = card

\* Where everybody is careful, a kernel that is loaded was read whole from the
\* table's card, and nothing is loaded without a selection.
ImageIsOf(i) == image.card = Entry(i).card /\ image.part = Entry(i).part
Loading == {"kernel_fat", "kernel_hfs"}
Starting == {"kexts_hfs", "kexts_fat", "started"}
LoadTrue ==
    Careful =>
        /\ loaded_kernel =>
              /\ pc \in {"kernel_hfs", "draw"} \cup Starting
              /\ image.whole
              /\ \E i \in {fat, selected} \cap Indices : ImageIsOf(i)
              /\ \A k \in kexts : k[1] = image.card
        /\ ~loaded_kernel => kexts = {}
        /\ pc \in Starting => loaded_kernel
        /\ pc \in Loading => selected # -1
        /\ pc \in Loading \cup {"draw"} \cup Starting =>
              command_line = CommandLine(selected + 1, boot_args_index)
=============================================================================
