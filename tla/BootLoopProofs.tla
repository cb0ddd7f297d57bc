-------------------------- MODULE BootLoopProofs ---------------------------
(***************************************************************************)
(* For all cards, layouts and configurations, whatever the user does and   *)
(* whichever reads fail: what is selected can be booted, a countdown has   *)
(* its target, and only Reset loads a kernel once a button was pressed.    *)
(* Where cards are exchanged with care, the table is the present card's,   *)
(* and where reads succeed too, what is started is what was selected.      *)
(***************************************************************************)
EXTENDS BootLoop, WellFoundedInduction, TLAPS

PartitionEntry == [card : Cards, part : Nat, type : {"map", "hfs", "fat"}]

\* The bounds on their own: the layouts stay out of the way.
LEMMA Bounds ==
    /\ Threshold \in Nat \ {0} /\ ArgEntries \in Nat \ {0} /\ MaxSwaps \in Nat
    /\ NoCard \notin Cards
    /\ Keys \subseteq {"none", "power", "reset", "eject"}
BY BootAssumption, Zenon

\* No table is a table.
LEMMA NoTable == <<>> \in Seq(PartitionEntry) /\ Len(<<>>) = 0
OBVIOUS

\* Every set of natural numbers that is not empty has a least element.
LEMMA Least ==
    ASSUME NEW S \in SUBSET Nat, S # {}
    PROVE  \E n \in S : \A m \in S : n <= m
<1>1. PICK n \in S : \A m \in S : ~(<<m, n>> \in OpToRel(<, Nat))
  BY WFMin, NatLessThanWellFounded, Zenon
<1>2. \A m \in S : ~(m < n)
  <2> SUFFICES ASSUME NEW m \in S, m < n PROVE FALSE
    OBVIOUS
  <2>1. <<m, n>> \in Nat \X Nat /\ <<m, n>>[1] < <<m, n>>[2]
    OBVIOUS
  <2>2. <<m, n>> \in OpToRel(<, Nat)
    BY <2>1, Zenon DEF OpToRel
  <2> QED
    BY <1>1, <2>2, Zenon
<1> QED
  BY <1>2

-----------------------------------------------------------------------------
(* The functions main calls. *)

\* disk_initialize leaves no card where there is none, and a card where there is one.
LEMMA DiskInitializeKeepsSlot ==
    ASSUME sd \in {"none", "new", "inserted"}, NEW s \in DiskInitialize
    PROVE  /\ s[1] \in {"ready", "nodisk", "noinit"}
           /\ s[2] \in {"none", "new", "inserted"}
           /\ s[2] = "none" <=> sd = "none"
<1>1. CASE sd = "none"
  BY <1>1 DEF DiskInitialize
<1>2. CASE sd = "new"
  <2>1. s \in {<<"ready", "inserted">>} \cup
                (IF ReadErrors THEN {<<"noinit", "new">>} ELSE {})
    BY <1>2 DEF DiskInitialize
  <2>2. s = <<"ready", "inserted">> \/ s = <<"noinit", "new">>
    BY <2>1
  <2> QED
    BY <1>2, <2>2
<1>3. CASE sd = "inserted"
  BY <1>3 DEF DiskInitialize
<1> QED
  BY <1>1, <1>2, <1>3

\* A card's entries make a table.
LEMMA EntriesType ==
    ASSUME world \in Worlds, NEW c \in Cards
    PROVE  Entries(c) \in Seq(PartitionEntry)
<1> DEFINE P == [type : {"map", "hfs", "fat"}, kernel : {"good", "junk", "empty", "none"}]
           layout == Layout[c]
<1>1. layout \in Seq(P)
  BY BootAssumption, Zenon DEF Layout
<1>2. /\ Len(Layout[c]) \in Nat
      /\ \A i \in 1 .. Len(Layout[c]) : Layout[c][i].type \in {"map", "hfs", "fat"}
  <2> HIDE DEF layout, P
  <2>1. Len(layout) \in Nat /\ \A i \in 1 .. Len(layout) : layout[i] \in P
    BY <1>1
  <2>2. \A p \in P : p.type \in {"map", "hfs", "fat"}
    BY DEF P
  <2> QED
    BY <2>1, <2>2 DEF layout
<1>3. \A i \in 1 .. Len(Layout[c]) :
         [card |-> c, part |-> i, type |-> Layout[c][i].type] \in PartitionEntry
  BY <1>2 DEF PartitionEntry
<1> QED
  BY <1>2, <1>3 DEF Entries

\* Power selects a partition that can be booted, if one was selected before.
LEMMA NextBootableIs ==
    ASSUME table \in Seq(PartitionEntry), selected \in Indices, Bootable(selected)
    PROVE  NextBootable \in Indices /\ Bootable(NextBootable)
<1> DEFINE n == Len(table)
           after(k) == (selected + k) % n
           S == {k \in 1 .. n : Bootable(after(k))}
<1>1. n \in Nat \ {0} /\ selected \in 0 .. n - 1
  BY DEF Indices
<1> HIDE DEF n
<1>2. CASE S = {}
  <2>1. NextBootable = selected
    BY <1>2 DEF NextBootable, n
  <2> QED
    BY <2>1
<1>3. CASE S # {}
  <2>1. S \in SUBSET Nat
    BY <1>1
  <2>2. PICK k \in S : \A m \in S : k <= m
    BY <1>3, <2>1, Least
  <2>3. /\ k \in 1 .. n /\ Bootable(after(k))
        /\ \A j \in 1 .. k - 1 : ~Bootable(after(j))
    <3>1. \A j \in 1 .. k - 1 : j \in 1 .. n /\ ~(k <= j)
      BY <1>1, <2>1, <2>2
    <3> QED
      BY <2>2, <3>1
  <2>4. PICK i \in 1 .. n : NextBootable = after(i) /\ Bootable(after(i))
    BY <2>3 DEF NextBootable, n
  <2>5. after(i) \in 0 .. n - 1
    BY <1>1
  <2> QED
    BY <2>4, <2>5 DEF Indices, n
<1> QED
  BY <1>2, <1>3

-----------------------------------------------------------------------------
(* The invariant. *)

SlotTrue == sd = "none" <=> card = NoCard

\* Steps that leave the table, the selection and the countdown alone.
LEMMA Unconcerned ==
    ASSUME IInv, SlotTrue', TypeOK', table' = table, selected' = selected, named' = named,
           autoboot' = autoboot, touched' = touched, probed' = probed, fat' = fat,
           pc' = pc \/ pc' \notin {"config", "apm", "probe", "draw", "kernel_fat", "kernel_hfs"}
    PROVE  Core'
<1>1. SelectedBootable' /\ CountdownHasTarget'
  BY DEF IInv, Core, SelectedBootable, CountdownHasTarget, Indices, Bootable, Entry
<1>2. ForgottenFirst' /\ CountdownBounded'
  BY DEF IInv, Core, ForgottenFirst, CountdownBounded
<1> QED
  BY <1>1, <1>2 DEF IInv, Core, SlotTrue

LEMMA InitHolds == Init => IInv
<1> SUFFICES ASSUME Init PROVE IInv
  OBVIOUS
<1>1. TypeOK
  <2>1. table \in Seq(PartitionEntry) /\ Len(table) = 0
    BY NoTable DEF Init
  <2>2. 0 \in 0 .. MaxSwaps /\ -1 \in -1 .. Threshold /\ 0 \in 0 .. ArgEntries - 1
    BY Bounds
  <2>3. sd \in {"none", "new", "inserted"}
    BY DEF Init
  <2> QED
    <3>1. card \in Cards \cup {NoCard} /\ probed = 0 /\ named = {} /\ fat = -1 /\ selected = -1
          /\ autoboot = -1 /\ boot_args_index = 0 /\ swaps = 0
      BY DEF Init
    <3>2. /\ noticed = FALSE /\ touched = FALSE /\ loading_kernel = FALSE
          /\ kernel_load_failed = FALSE /\ loaded_kernel = FALSE
          /\ pc = "poll" /\ disk_stat = "unset"
      BY DEF Init
    <3>3. named \subseteq Indices /\ fat \in -1 .. Len(table) - 1 /\ selected \in -1 .. Len(table) - 1
      BY <2>1, <3>1 DEF Indices
    <3>4. autoboot \in -1 .. Threshold /\ boot_args_index \in 0 .. ArgEntries - 1
          /\ swaps \in 0 .. MaxSwaps /\ probed \in Nat
      BY <2>2, <3>1
    <3>5. /\ noticed \in BOOLEAN /\ touched \in BOOLEAN /\ loading_kernel \in BOOLEAN
          /\ kernel_load_failed \in BOOLEAN /\ loaded_kernel \in BOOLEAN
      BY <3>2
    <3>6. disk_stat \in {"unset", "ready", "nodisk", "noinit"}
          /\ pc \in {"poll", "config", "apm", "probe", "input", "kernel_fat", "kernel_hfs",
                     "draw", "kexts_hfs", "kexts_fat", "started"}
      BY <3>2
    <3> QED
      BY <2>1, <2>3, <3>1, <3>3, <3>4, <3>5, <3>6, Zenon DEF TypeOK, PartitionEntry
<1>2. sd = "none" <=> card = NoCard
  BY Bounds DEF Init
<1> QED
  BY <1>1, <1>2 DEF Init, IInv, Core, SelectedBootable, CountdownHasTarget, ForgottenFirst,
                    CountdownBounded

LEMMA UserKeeps == IInv /\ (Remove \/ Insert) => Core'
<1> SUFFICES ASSUME IInv, Remove \/ Insert PROVE Core'
  OBVIOUS
<1>1. TypeOK
  BY DEF IInv, Core
<1>2. TypeOK'
  <2>1. CASE Remove
    BY <1>1, <2>1 DEF Remove, TypeOK, found, flags, text, Indices
  <2>2. CASE Insert
    <3>1. swaps' \in 0 .. MaxSwaps /\ card' \in Cards /\ sd' = "new" /\ noticed' = FALSE
      BY <1>1, <2>2, Bounds DEF Insert, TypeOK
    <3>2. UNCHANGED <<pc, disk_stat, table, probed, named, fat, selected, autoboot,
                      boot_args_index, flags, touched>>
      BY <2>2 DEF Insert, found, text
    <3> QED
      BY <1>1, <3>1, <3>2 DEF TypeOK, flags, Indices
  <2> QED
    BY <2>1, <2>2
<1>3. SlotTrue'
  BY Bounds DEF Remove, Insert, SlotTrue
<1>4. /\ UNCHANGED <<table, selected, named, autoboot, touched, probed, fat>>
      /\ pc' = pc
  BY DEF Remove, Insert, found
<1> QED
  BY <1>2, <1>3, <1>4, Unconcerned

\* After disk_initialize the slot is described as truly as before.
LEMMA DiskInitializeSlot ==
    ASSUME IInv, NEW s \in DiskInitialize, sd' = s[2], card' = card
    PROVE  SlotTrue' /\ sd' \in {"none", "new", "inserted"}
           /\ s[1] \in {"ready", "nodisk", "noinit"}
BY DiskInitializeKeepsSlot DEF IInv, Core, TypeOK, SlotTrue

LEMMA PollKeeps == IInv /\ Poll => Core'
<1> SUFFICES ASSUME IInv, Poll PROVE Core'
  OBVIOUS
<1>1. PICK s \in DiskInitialize : sd' = s[2] /\ disk_stat' = s[1]
  BY DEF Poll
<1>2. SlotTrue' /\ sd' \in {"none", "new", "inserted"}
      /\ disk_stat' \in {"ready", "nodisk", "noinit"}
  BY <1>1, DiskInitializeSlot DEF Poll
<1>3. TypeOK
  BY DEF IInv, Core
<1>4. CASE /\ pc' = "config" /\ autoboot' = -1 /\ selected' = -1 /\ fat' = -1 /\ named' = {}
           /\ loading_kernel' = FALSE /\ kernel_load_failed' = FALSE /\ touched' = FALSE
  <2>1. TypeOK'
    <3>1. -1 \in -1 .. Threshold /\ -1 \in -1 .. Len(table) - 1
      BY <1>3, Bounds DEF TypeOK
    <3>2. UNCHANGED <<card, noticed, swaps, table, probed, boot_args_index, loaded_kernel>>
      BY DEF Poll, text
    <3> QED
      BY <1>2, <1>3, <1>4, <3>1, <3>2 DEF TypeOK, Indices
  <2> QED
    BY <1>2, <1>4, <2>1 DEF IInv, Core, SlotTrue, SelectedBootable, CountdownHasTarget,
                            ForgottenFirst, CountdownBounded
<1>5. CASE /\ pc' = "input"
           /\ UNCHANGED <<autoboot, selected, fat, named, loading_kernel,
                          kernel_load_failed, touched>>
  <2>1. TypeOK'
    BY <1>2, <1>3, <1>5 DEF Poll, TypeOK, text, Indices
  <2> QED
    BY <1>2, <1>5, <2>1, Unconcerned DEF Poll
<1> QED
  BY <1>4, <1>5 DEF Poll

LEMMA ReadConfigKeeps == IInv /\ ReadConfig => Core'
<1> SUFFICES ASSUME IInv, ReadConfig PROVE Core'
  OBVIOUS
<1>1. PICK s \in DiskInitialize : sd' = s[2]
  BY DEF ReadConfig
<1>2. SlotTrue' /\ sd' \in {"none", "new", "inserted"}
  BY <1>1, DiskInitializeSlot DEF ReadConfig
<1>3. TypeOK'
  BY <1>2 DEF ReadConfig, IInv, Core, TypeOK, found, flags, Indices
<1>4. SelectedBootable' /\ CountdownHasTarget' /\ ForgottenFirst' /\ CountdownBounded'
  BY DEF ReadConfig, IInv, Core, SelectedBootable, CountdownHasTarget, ForgottenFirst,
         CountdownBounded, found
<1> QED
  BY <1>2, <1>3, <1>4 DEF IInv, Core, SlotTrue

\* A table is replaced where nothing is selected.
LEMMA FindPartitionsKeeps == IInv /\ FindPartitions => Core'
<1> SUFFICES ASSUME IInv, FindPartitions PROVE Core'
  OBVIOUS
<1>1. /\ selected = -1 /\ fat = -1 /\ named = {} /\ autoboot = -1 /\ ~touched
      /\ UNCHANGED <<selected, fat, named, autoboot, touched, sd, card>>
  BY DEF IInv, Core, ForgottenFirst, FindPartitions, slot
<1>2. table' \in Seq(PartitionEntry)
  <2>1. table' = <<>> \/ (table' = Entries(card) /\ sd = "inserted")
    BY DEF FindPartitions
  <2>2. sd = "inserted" => card \in Cards
    BY Zenon DEF IInv, Core, TypeOK
  <2>3. sd = "inserted" => Entries(card) \in Seq(PartitionEntry)
    BY <2>2, EntriesType, Zenon DEF IInv
  <2> QED
    BY <2>1, <2>3, NoTable, Zenon
<1>3. /\ probed' = 0 /\ pc' \in {"input", "probe"}
      /\ pc' = "probe" => table' # <<>>
  BY DEF FindPartitions
<1>4. Len(table') \in Nat /\ (pc' = "probe" => probed' < Len(table'))
  BY <1>2, <1>3
<1>5. TypeOK'
  BY <1>1, <1>2, <1>3, <1>4, Bounds
     DEF FindPartitions, IInv, Core, TypeOK, slot, text, flags, Indices, PartitionEntry
<1>6. SelectedBootable' /\ CountdownHasTarget' /\ ForgottenFirst' /\ CountdownBounded'
  BY <1>1, <1>3, <1>4 DEF SelectedBootable, CountdownHasTarget, ForgottenFirst, CountdownBounded
<1>7. SlotTrue'
  BY <1>1 DEF IInv, Core, SlotTrue
<1> QED
  BY <1>5, <1>6, <1>7 DEF IInv, Core, SlotTrue

\* One more partition looked at: a selection is a bootable one that has a name.
LEMMA ProbeKeeps == IInv /\ Probe => Core'
<1> SUFFICES ASSUME IInv, Probe PROVE Core'
  OBVIOUS
<1>1. /\ pc = "probe" /\ probed' = probed + 1 /\ autoboot = -1 /\ ~touched
      /\ probed \in 0 .. Len(table) - 1 /\ Len(table) \in Nat
      /\ selected # -1 => selected \in named
  BY DEF Probe, IInv, Core, TypeOK, ForgottenFirst
<1>2. /\ UNCHANGED <<card, sd, noticed, swaps, disk_stat, table, boot_args_index, flags, touched>>
  BY DEF Probe, slot, text
<1>3. /\ fat' \in {fat, probed}
      /\ named \subseteq named' /\ named' \subseteq named \cup {probed}
      /\ \/ selected' = selected
         \/ selected' = probed /\ probed \in named' /\ Bootable(probed)
  BY DEF Probe
<1>4. \/ probed + 1 = Len(table) /\ pc' = "input"
         /\ autoboot' = IF selected' # -1 THEN 0 ELSE -1
      \/ probed + 1 # Len(table) /\ pc' = "probe" /\ autoboot' = -1
  BY <1>1 DEF Probe
<1>5. TypeOK'
  <2>1. autoboot' \in -1 .. Threshold /\ pc' \in {"input", "probe"} /\ probed' \in Nat
    BY <1>1, <1>4, Bounds
  <2>2. /\ fat' \in -1 .. Len(table) - 1 /\ selected' \in -1 .. Len(table) - 1
        /\ named' \subseteq 0 .. Len(table) - 1
    <3>1. /\ fat \in -1 .. Len(table) - 1 /\ selected \in -1 .. Len(table) - 1
          /\ named \subseteq 0 .. Len(table) - 1
      BY DEF IInv, Core, TypeOK, Indices
    <3>2. probed \in -1 .. Len(table) - 1 /\ {probed} \subseteq 0 .. Len(table) - 1
      BY <1>1
    <3>3. named' \subseteq 0 .. Len(table) - 1
      BY <1>3, <3>1, <3>2, Zenon
    <3>4. fat' \in -1 .. Len(table) - 1
      BY <1>3, <3>1, <3>2, Zenon
    <3>5. selected' \in -1 .. Len(table) - 1
      BY <1>3, <3>1, <3>2, Zenon
    <3> QED
      BY <3>3, <3>4, <3>5
  <2> QED
    BY <1>2, <2>1, <2>2 DEF IInv, Core, TypeOK, flags, Indices
<1>6. selected' # -1 => selected' \in named' /\ selected' \in Indices /\ Bootable(selected')
  BY <1>1, <1>3 DEF IInv, Core, SelectedBootable, Indices
<1>7. SelectedBootable' /\ CountdownHasTarget'
  BY <1>2, <1>4, <1>6 DEF SelectedBootable, CountdownHasTarget, Indices, Bootable, Entry
<1>8. ForgottenFirst' /\ CountdownBounded'
  BY <1>1, <1>2, <1>4, <1>6 DEF ForgottenFirst, CountdownBounded
<1> QED
  BY <1>2, <1>5, <1>7, <1>8 DEF IInv, Core

\* Power and Eject stop the countdown; every other turn may start the load,
\* which stops it too, and below the threshold leaves it alone.
LEMMA ReadInputKeeps == IInv /\ ReadInput => Core'
<1> SUFFICES ASSUME IInv, ReadInput PROVE Core'
  OBVIOUS
<1>1. PICK key \in Keys :
        /\ pc = "input"
        /\ CASE key = "power" -> PressPower
             [] key = "eject" -> PressEject
             [] OTHER -> /\ autoboot' = IF StartsLoading(key) THEN -1 ELSE autoboot
                         /\ loading_kernel' = (loading_kernel \/ StartsLoading(key))
                         /\ UNCHANGED <<selected, kernel_load_failed, touched,
                                        boot_args_index>>
        /\ pc' = IF StartsLoading(key) THEN "kernel_fat" ELSE "draw"
  BY DEF ReadInput
<1>2. UNCHANGED <<card, sd, noticed, swaps, disk_stat, table, probed, named, fat, loaded_kernel>>
  BY DEF ReadInput, slot, found
<1>3. /\ key \in {"none", "power", "reset", "eject"}
      /\ table \in Seq(PartitionEntry) /\ Len(table) \in Nat
      /\ selected \in -1 .. Len(table) - 1 /\ autoboot \in -1 .. Threshold
      /\ boot_args_index \in 0 .. ArgEntries - 1
      /\ kernel_load_failed \in BOOLEAN /\ loading_kernel \in BOOLEAN
  <2>1. key \in {"none", "power", "reset", "eject"}
    BY <1>1, Bounds
  <2> QED
    BY <2>1 DEF IInv, Core, TypeOK, PartitionEntry
<1>4. CASE key = "power"
  <2>1. PressPower /\ pc' = "draw"
    BY <1>1, <1>4 DEF StartsLoading
  <2>2. /\ autoboot' = -1 /\ touched' = TRUE /\ boot_args_index' = boot_args_index
        /\ loading_kernel' \in BOOLEAN /\ kernel_load_failed' \in BOOLEAN
    BY <1>3, <2>1 DEF PressPower
  <2>3. \/ selected' = selected
        \/ selected \in Indices /\ Bootable(selected) /\ selected' = NextBootable
    BY <2>1 DEF PressPower, IInv, Core, SelectedBootable
  <2>4. selected' = selected \/ (selected' \in Indices /\ Bootable(selected'))
    BY <1>3, <2>3, NextBootableIs
  <2>5. selected' \in -1 .. Len(table) - 1
    BY <1>3, <2>4 DEF Indices
  <2>6. TypeOK'
    <3>1. -1 \in -1 .. Threshold
      BY Bounds
    <3> QED
      BY <1>2, <1>3, <2>1, <2>2, <2>5, <3>1 DEF IInv, Core, TypeOK, Indices
  <2>7. SelectedBootable' /\ CountdownHasTarget'
    BY <1>2, <2>2, <2>4 DEF IInv, Core, SelectedBootable, CountdownHasTarget, Indices, Bootable, Entry
  <2>8. ForgottenFirst' /\ CountdownBounded'
    BY <2>1, <2>2, Bounds DEF ForgottenFirst, CountdownBounded
  <2> QED
    BY <1>2, <2>6, <2>7, <2>8 DEF IInv, Core
<1>5. CASE key = "eject"
  <2>1. PressEject /\ pc' = "draw"
    BY <1>1, <1>5 DEF StartsLoading
  <2>2. /\ autoboot' = -1 /\ touched' = TRUE
        /\ UNCHANGED <<selected, loading_kernel, kernel_load_failed>>
    BY <2>1 DEF PressEject
  <2>3. boot_args_index' \in 0 .. ArgEntries - 1
    BY <1>3, <2>1, Bounds DEF PressEject
  <2>4. TypeOK'
    <3>1. -1 \in -1 .. Threshold
      BY Bounds
    <3> QED
      BY <1>2, <1>3, <2>1, <2>2, <2>3, <3>1 DEF IInv, Core, TypeOK, Indices
  <2>5. SelectedBootable' /\ CountdownHasTarget'
    BY <1>2, <2>2 DEF IInv, Core, SelectedBootable, CountdownHasTarget, Indices, Bootable, Entry
  <2>6. ForgottenFirst' /\ CountdownBounded'
    BY <2>1, <2>2, Bounds DEF ForgottenFirst, CountdownBounded
  <2> QED
    BY <1>2, <2>4, <2>5, <2>6 DEF IInv, Core
<1>6. CASE key \in {"none", "reset"}
  <2>1. /\ autoboot' = IF StartsLoading(key) THEN -1 ELSE autoboot
        /\ loading_kernel' = (loading_kernel \/ StartsLoading(key))
        /\ UNCHANGED <<selected, kernel_load_failed, touched, boot_args_index>>
        /\ pc' = IF StartsLoading(key) THEN "kernel_fat" ELSE "draw"
    BY <1>1, <1>6
  <2>2. autoboot' \in {-1, autoboot} /\ autoboot' \in -1 .. Threshold
    BY <1>3, <2>1, Bounds
  <2>3. loading_kernel' \in BOOLEAN
    BY <2>1, Zenon
  <2>4. TypeOK'
    BY <1>2, <1>3, <2>1, <2>2, <2>3 DEF IInv, Core, TypeOK, Indices
  <2>5. SelectedBootable' /\ CountdownHasTarget'
    BY <1>2, <2>1, <2>2
       DEF IInv, Core, SelectedBootable, CountdownHasTarget, Indices, Bootable, Entry
  <2>6. ForgottenFirst' /\ CountdownBounded'
    <3>1. ~StartsLoading(key) => autoboot < Threshold
      BY <1>3, <1>6, Bounds DEF StartsLoading
    <3> QED
      BY <2>1, <2>2, <3>1 DEF IInv, Core, ForgottenFirst, CountdownBounded
  <2> QED
    BY <1>2, <2>4, <2>5, <2>6 DEF IInv, Core
<1> QED
  BY <1>3, <1>4, <1>5, <1>6

\* Loading the kernel changes neither the table nor the countdown, which is off.
LEMMA LoadFromFatKeeps == IInv /\ LoadFromFat => Core'
<1> SUFFICES ASSUME IInv, LoadFromFat PROVE Core'
  OBVIOUS
<1>1. /\ pc = "kernel_fat" /\ pc' = "kernel_hfs"
      /\ UNCHANGED <<card, noticed, swaps, disk_stat, table, probed, named, fat, selected,
                     autoboot, boot_args_index, loading_kernel, kernel_load_failed, touched>>
  BY DEF LoadFromFat, found, text
<1>2. \/ sd' = sd
      \/ \E s \in DiskInitialize : sd' = s[2]
  BY DEF LoadFromFat
<1>3. sd' \in {"none", "new", "inserted"} /\ (sd' = "none" <=> card' = NoCard)
  <2>1. CASE sd' = sd
    BY <1>1, <2>1 DEF IInv, Core, TypeOK
  <2>2. ASSUME NEW s \in DiskInitialize, sd' = s[2] PROVE SlotTrue' /\ sd' \in {"none", "new", "inserted"}
    BY <1>1, <2>2, DiskInitializeSlot
  <2> QED
    BY <1>2, <2>1, <2>2 DEF SlotTrue
<1>4. loaded_kernel' \in BOOLEAN
  <2>1. \A img : Decodes(img) \subseteq BOOLEAN
    BY DEF Decodes
  <2>2. loaded_kernel \in BOOLEAN
    BY DEF IInv, Core, TypeOK
  <2>3. \/ loaded_kernel' = loaded_kernel
        \/ \E s \in DiskInitialize : \E r \in FatReads(Entry(fat), s[2]) :
              loaded_kernel' \in IF r[2] THEN Decodes(r[1]) ELSE {FALSE}
    BY DEF LoadFromFat
  <2> QED
    BY <2>1, <2>2, <2>3
<1>5. TypeOK'
  BY <1>1, <1>3, <1>4 DEF IInv, Core, TypeOK, Indices
<1>6. SelectedBootable' /\ CountdownHasTarget'
  BY <1>1 DEF IInv, Core, SelectedBootable, CountdownHasTarget, Indices, Bootable, Entry
<1>7. ForgottenFirst' /\ CountdownBounded'
  BY <1>1 DEF IInv, Core, ForgottenFirst, CountdownBounded
<1> QED
  BY <1>3, <1>5, <1>6, <1>7 DEF IInv, Core

LEMMA LoadFromHfsKeeps == IInv /\ LoadFromHfs => Core'
<1> SUFFICES ASSUME IInv, LoadFromHfs PROVE Core'
  OBVIOUS
<1>1. /\ pc = "kernel_hfs" /\ pc' = "draw"
      /\ UNCHANGED <<card, sd, noticed, swaps, disk_stat, table, probed, named, fat, selected,
                     autoboot, boot_args_index, touched>>
  BY DEF LoadFromHfs, slot, found, text
<1>2. loaded_kernel' \in BOOLEAN
  <2>1. \A img : Decodes(img) \subseteq BOOLEAN
    BY DEF Decodes
  <2>2. loaded_kernel \in BOOLEAN
    BY DEF IInv, Core, TypeOK
  <2>3. \/ loaded_kernel' = loaded_kernel
        \/ \E r : loaded_kernel' \in IF r[2] THEN Decodes(r[1]) ELSE {FALSE}
    BY DEF LoadFromHfs
  <2> QED
    BY <2>1, <2>2, <2>3
<1>3. loading_kernel' \in BOOLEAN /\ kernel_load_failed' \in BOOLEAN
  <2>1. /\ loading_kernel' = loaded_kernel'
        /\ kernel_load_failed' = (kernel_load_failed \/ ~loaded_kernel')
    BY DEF LoadFromHfs
  <2> QED
    BY <1>2, <2>1, Zenon
<1>4. TypeOK'
  BY <1>1, <1>2, <1>3 DEF IInv, Core, TypeOK, Indices
<1>5. SelectedBootable' /\ CountdownHasTarget'
  BY <1>1 DEF IInv, Core, SelectedBootable, CountdownHasTarget, Indices, Bootable, Entry
<1>6. ForgottenFirst' /\ CountdownBounded'
  <2>1. autoboot' = -1
    BY <1>1 DEF IInv, Core, CountdownBounded
  <2> QED
    BY <1>1, <2>1, Bounds DEF ForgottenFirst, CountdownBounded
<1> QED
  BY <1>1, <1>4, <1>5, <1>6 DEF IInv, Core

\* One more turn counted: never past the threshold.
LEMMA DrawKeeps == IInv /\ Draw => Core'
<1> SUFFICES ASSUME IInv, Draw PROVE Core'
  OBVIOUS
<1>1. /\ pc = "draw" /\ pc' \in {"kexts_hfs", "poll"}
      /\ noticed' = (card = NoCard /\ disk_stat = "nodisk")
      /\ UNCHANGED <<card, sd, swaps, disk_stat, table, probed, named, fat, selected,
                     boot_args_index, flags, touched>>
  BY DEF Draw, found, text
<1>2. autoboot' = (IF autoboot # -1 THEN autoboot + 1 ELSE -1) /\ autoboot < Threshold
      /\ autoboot \in -1 .. Threshold
  BY <1>1 DEF Draw, IInv, Core, CountdownBounded, TypeOK
<1>3. noticed' \in BOOLEAN
  BY <1>1, Zenon
<1>4. autoboot' \in -1 .. Threshold /\ (autoboot' = -1 <=> autoboot = -1)
  BY <1>2, Bounds
<1>5. TypeOK'
  BY <1>1, <1>3, <1>4 DEF IInv, Core, TypeOK, Indices, flags
<1>6. SelectedBootable' /\ CountdownHasTarget'
  BY <1>1, <1>4 DEF IInv, Core, SelectedBootable, CountdownHasTarget, Indices, Bootable, Entry
<1>7. ForgottenFirst' /\ CountdownBounded'
  BY <1>1, <1>4 DEF IInv, Core, ForgottenFirst, CountdownBounded
<1> QED
  BY <1>1, <1>5, <1>6, <1>7 DEF IInv, Core

LEMMA LoadKextsKeep == IInv /\ (LoadKextsFromHfs \/ LoadKextsFromFat) => Core'
<1> SUFFICES ASSUME IInv, LoadKextsFromHfs \/ LoadKextsFromFat PROVE Core'
  OBVIOUS
<1>1. /\ pc' \in {"kexts_fat", "started"}
      /\ UNCHANGED <<card, noticed, swaps, disk_stat, table, probed, named, fat, selected,
                     autoboot, boot_args_index, flags, touched>>
  BY DEF LoadKextsFromHfs, LoadKextsFromFat, slot, found, text
<1>2. \/ sd' = sd
      \/ \E s \in DiskInitialize : sd' = s[2]
  BY DEF LoadKextsFromHfs, LoadKextsFromFat, slot
<1>3. SlotTrue' /\ sd' \in {"none", "new", "inserted"}
  <2>1. CASE sd' = sd
    BY <1>1, <2>1 DEF IInv, Core, TypeOK, SlotTrue
  <2>2. ASSUME NEW s \in DiskInitialize, sd' = s[2] PROVE SlotTrue' /\ sd' \in {"none", "new", "inserted"}
    BY <1>1, <2>2, DiskInitializeSlot
  <2> QED
    BY <1>2, <2>1, <2>2
<1>4. TypeOK'
  BY <1>1, <1>3 DEF IInv, Core, TypeOK, Indices, flags
<1> QED
  BY <1>1, <1>3, <1>4, Unconcerned

LEMMA StepKeeps == IInv /\ [Next]_vars => IInv'
<1> SUFFICES ASSUME IInv, [Next]_vars PROVE IInv'
  OBVIOUS
<1>1. CASE UNCHANGED vars
  <2>1. TypeOK' /\ SlotTrue' /\ world' = world
    BY <1>1 DEF vars, slot, found, flags, text, IInv, Core, TypeOK, SlotTrue, Indices
  <2>2. UNCHANGED <<table, selected, named, autoboot, touched, probed, fat, pc>>
    BY <1>1 DEF vars, found
  <2>3. Core'
    BY <2>1, <2>2, Unconcerned
  <2> QED
    BY <2>1, <2>3 DEF IInv
<1>2. CASE Next
  <2>1. Core'
    BY <1>2, UserKeeps, PollKeeps, ReadConfigKeeps, FindPartitionsKeeps, ProbeKeeps,
       ReadInputKeeps, LoadFromFatKeeps, LoadFromHfsKeeps, DrawKeeps, LoadKextsKeep
       DEF Next, Program
  <2> QED
    BY <1>2, <2>1 DEF Next, IInv
<1> QED
  BY <1>1, <1>2

\* In every reachable state, whatever the user does with the card and the
\* buttons and whichever reads fail, the invariant holds.
THEOREM Invariance == Spec => []IInv
BY InitHolds, StepKeeps, PTL DEF Spec

\* What is selected is a bootable partition of the table in use, and a countdown runs only
\* towards a partition whose name the screen can show.
THEOREM SelectionBootable == Spec => []SelectionTrue
<1>1. IInv => SelectionTrue
  BY DEF IInv, Core, SelectionTrue
<1> QED
  BY <1>1, Invariance, PTL

\* Once Power or Eject was pressed, no load starts by itself: main stops the
\* countdown in both cases and only a disk change starts another.
THEOREM OnlyReset == Spec => OnlyResetAfterTouch
<1>1. IInv => [pc = "input" /\ pc' = "kernel_fat" /\ touched => autoboot = -1]_vars
  BY DEF IInv, Core, CountdownBounded
<1> QED
  BY <1>1, Invariance, PTL DEF OnlyResetAfterTouch

-----------------------------------------------------------------------------
(* The table is the card's, and what starts is what was selected. *)

\* disk_initialize finds no card only in an empty slot.
LEMMA DiskInitializeAnswers ==
    ASSUME IInv, NEW s \in DiskInitialize
    PROVE  /\ s[1] = "nodisk" <=> card = NoCard
           /\ s[1] = "ready" => card # NoCard
<1>1. sd = "none" <=> card = NoCard
  BY DEF IInv, Core
<1>2. CASE sd = "none"
  BY <1>1, <1>2 DEF DiskInitialize
<1>3. CASE sd # "none"
  <2>1. s = <<"ready", "inserted">> \/ s = <<"noinit", "new">>
    <3>1. CASE sd = "new"
      <4>1. s \in {<<"ready", "inserted">>} \cup
                    (IF ReadErrors THEN {<<"noinit", "new">>} ELSE {})
        BY <3>1 DEF DiskInitialize
      <4> QED
        BY <4>1
    <3>2. CASE sd # "new"
      BY <1>3, <3>2 DEF DiskInitialize
    <3> QED
      BY <3>1, <3>2
  <2> QED
    BY <1>1, <1>3, <2>1
<1> QED
  BY <1>2, <1>3

\* The entries found on a card are the card's.
LEMMA EntriesOfCard ==
    ASSUME world \in Worlds, NEW c \in Cards, NEW i \in 1 .. Len(Entries(c))
    PROVE  Entries(c)[i].card = c
<1>1. Len(Layout[c]) \in Nat
  <2>1. Layout[c] \in Seq([type : {"map", "hfs", "fat"}, kernel : {"good", "junk", "empty", "none"}])
    BY BootAssumption, Zenon DEF Layout
  <2> QED
    BY <2>1
<1>2. i \in 1 .. Len(Layout[c])
  BY <1>1 DEF Entries
<1> QED
  BY <1>2 DEF Entries

\* What the steps that touch neither slot nor table leave of SwapSeen.
LEMMA SwapUnconcerned ==
    ASSUME SwapSeen, world' = world,
           UNCHANGED <<card, noticed, disk_stat, table>>,
           pc \notin {"config", "apm", "probe"} => pc' \notin {"config", "apm", "probe"},
           pc' \in {"config", "apm"} <=> pc \in {"config", "apm"}
    PROVE  SwapSeen'
BY DEF SwapSeen, FastSwap, Indices, Entry

\* The screen has to show the slot empty before a card goes in.
LEMMA SwapStep == IInv /\ SwapSeen /\ [Next]_vars => SwapSeen'
<1> SUFFICES ASSUME IInv, SwapSeen, [Next]_vars PROVE SwapSeen'
  OBVIOUS
<1>0. world' = world
  BY DEF Next, vars
<1>1. CASE Remove
  BY <1>0, <1>1, Bounds DEF Remove, found, SwapSeen, FastSwap
<1>2. CASE Insert
  <2>1. CASE FastSwap
    BY <1>0, <2>1 DEF SwapSeen, FastSwap
  <2>2. CASE ~FastSwap
    <3>1. /\ disk_stat = "nodisk" /\ table = <<>> /\ pc \notin {"config", "apm", "probe"}
          /\ UNCHANGED <<disk_stat, table, pc>> /\ noticed' = FALSE
      BY <1>2, <2>2 DEF Insert, SwapSeen, found
    <3>2. Indices' = {}
      BY <3>1 DEF Indices
    <3> QED
      BY <3>1, <3>2 DEF SwapSeen
  <2> QED
    BY <2>1, <2>2
<1>3. CASE Poll
  <2>1. PICK s \in DiskInitialize :
          /\ disk_stat' = s[1]
          /\ \/ s[1] # disk_stat /\ pc' = "config"
             \/ s[1] = disk_stat /\ pc' = "input"
    BY <1>3 DEF Poll
  <2>2. pc = "poll" /\ UNCHANGED <<card, noticed, table>>
    BY <1>3 DEF Poll
  <2>3. s[1] = "nodisk" <=> card = NoCard
    BY DiskInitializeAnswers
  <2> QED
    BY <1>0, <2>1, <2>2, <2>3 DEF SwapSeen, FastSwap, Indices, Entry
<1>4. CASE ReadConfig
  BY <1>0, <1>4, SwapUnconcerned DEF ReadConfig, found
<1>5. CASE FindPartitions
  <2>1. /\ pc = "apm" /\ pc' \in {"input", "probe"} /\ (table' # <<>> <=> pc' = "probe")
        /\ UNCHANGED <<card, noticed, disk_stat>>
        /\ table' = <<>> \/ (table' = Entries(card) /\ sd = "inserted")
    BY <1>5 DEF FindPartitions, slot
  <2>2. sd = "inserted" => card \in Cards /\ card # NoCard
    BY DEF IInv, Core, TypeOK
  <2>3. \A i \in Indices' : Entry(i)'.card = card
    <3>1. CASE table' = <<>>
      BY <3>1 DEF Indices
    <3>2. CASE table' = Entries(card) /\ card \in Cards
      <4>1. \A i \in 1 .. Len(Entries(card)) : Entries(card)[i].card = card
        BY <3>2, EntriesOfCard DEF IInv
      <4>2. Len(Entries(card)) \in Nat
        BY <3>2, EntriesType DEF IInv
      <4> QED
        BY <3>2, <4>1, <4>2 DEF Indices, Entry
    <3> QED
      BY <2>1, <2>2, <3>1, <3>2
  <2> QED
    BY <1>0, <2>1, <2>2, <2>3 DEF SwapSeen, FastSwap
<1>6. CASE Probe
  BY <1>0, <1>6, SwapUnconcerned DEF Probe, slot
<1>7. CASE ReadInput
  BY <1>0, <1>7, SwapUnconcerned DEF ReadInput, slot, found
<1>8. CASE LoadFromFat \/ LoadFromHfs \/ LoadKextsFromHfs \/ LoadKextsFromFat
  BY <1>0, <1>8, SwapUnconcerned
     DEF LoadFromFat, LoadFromHfs, LoadKextsFromHfs, LoadKextsFromFat, slot, found
<1>9. CASE Draw
  <2>1. /\ noticed' = (card = NoCard /\ disk_stat = "nodisk") /\ pc = "draw"
        /\ pc' \in {"kexts_hfs", "poll"} /\ UNCHANGED <<card, disk_stat, table>>
    BY <1>9 DEF Draw, found
  <2> QED
    BY <1>0, <2>1 DEF SwapSeen, FastSwap, Indices, Entry
<1>10. CASE UNCHANGED vars
  BY <1>0, <1>10, SwapUnconcerned DEF vars, slot, found
<1> QED
  BY <1>1, <1>2, <1>3, <1>4, <1>5, <1>6, <1>7, <1>8, <1>9, <1>10 DEF Next, Program

\* The first state has no table.
LEMMA InitSwap == Init => SwapSeen
BY DEF Init, SwapSeen, Indices

\* For all cards, layouts and read errors: where cards go in only after the screen
\* has shown the slot empty, the table in use was read from the card in the slot.
THEOREM TableOfCard == Spec => []TableIsOfCard
<1> DEFINE Inv == IInv /\ SwapSeen
<1>1. Init => Inv
  BY InitHolds, InitSwap
<1>2. Inv /\ [Next]_vars => Inv'
  BY StepKeeps, SwapStep
<1>3. Inv => TableIsOfCard
  BY DEF SwapSeen, TableIsOfCard, IInv, Core
<1> QED
  BY <1>1, <1>2, <1>3, PTL DEF Spec

-----------------------------------------------------------------------------
(* What the careful user gets. *)

\* Where everybody is careful, reads succeed and a file named as a kernel is one.
LEMMA CarefulCard ==
    ASSUME IInv, Careful, card # NoCard, NEW e, NEW st, Readable(e, st)
    PROVE  /\ card \in Cards
           /\ Present(e).kernel \in {"good", "none"}
           /\ Present(e).type = "hfs" => Present(e).kernel = "good"
<1>1. card \in Cards
  BY DEF IInv, Core, TypeOK
<1>2. e.part \in DOMAIN Layout[card]
  <2>1. Layout[card] \in Seq([type : {"map", "hfs", "fat"}, kernel : {"good", "junk", "empty", "none"}])
    BY <1>1, BootAssumption, Zenon DEF Layout, IInv
  <2> QED
    BY <2>1 DEF Readable
<1> QED
  BY <1>1, <1>2 DEF Careful, Present

\* A load has read a good kernel, whole, from where it was told to, or nothing.
LEMMA FatReadsWhole ==
    ASSUME IInv, Careful, NEW e, NEW st, NEW r \in FatReads(e, st),
           st = "inserted" => card # NoCard
    PROVE  \/ r = <<image, FALSE>>
           \/ card # NoCard /\ r = <<Image(e, TRUE), TRUE>>
<1>1. CASE ~(Readable(e, st) /\ Present(e).type = "fat") \/ Present(e).kernel = "none"
  BY <1>1 DEF FatReads
<1>2. CASE ~(~(Readable(e, st) /\ Present(e).type = "fat") \/ Present(e).kernel = "none")
  <2>1. card # NoCard
    BY <1>2 DEF Readable
  <2>2. Present(e).kernel = "good" /\ ~ReadErrors
    BY <1>2, <2>1, CarefulCard DEF Careful
  <2>3. r \in {<<Image(e, TRUE), TRUE>>} \cup {}
    BY <1>2, <2>2 DEF FatReads
  <2> QED
    BY <2>1, <2>3
<1> QED
  BY <1>1, <1>2

\* The same of load_kernel_from_hfs.
LEMMA HfsReadsWhole ==
    ASSUME IInv, Careful, NEW e, NEW r \in HfsReads(e)
    PROVE  \/ r = <<image, FALSE>>
           \/ card # NoCard /\ r = <<Image(e, TRUE), TRUE>>
<1>1. CASE ~Mounts(e)
  BY <1>1 DEF HfsReads
<1>2. CASE Mounts(e)
  <2>1. card # NoCard
    BY <1>2 DEF Mounts, Readable, IInv, Core
  <2>2. Present(e).kernel = "good" /\ ~ReadErrors
    BY <1>2, <2>1, CarefulCard DEF Mounts, Careful
  <2>3. r \in {<<Image(e, TRUE), TRUE>>} \cup {}
    BY <1>2, <2>2 DEF HfsReads
  <2> QED
    BY <2>1, <2>3
<1> QED
  BY <1>1, <1>2

\* Steps before a load is under way.
LEMMA LoadNotYet ==
    ASSUME LoadTrue, world' = world, UNCHANGED <<loaded_kernel, kexts>>,
           {pc, pc'} \subseteq {"poll", "config", "apm", "probe", "input"}
    PROVE  LoadTrue'
BY DEF LoadTrue, Careful, FastSwap, ResetAnytime, ReadErrors, Layout, Loading, Starting

\* Steps that are none of the loader's.
LEMMA LoadUnconcerned ==
    ASSUME LoadTrue, world' = world,
           UNCHANGED <<pc, table, fat, selected, image, kexts, loaded_kernel, text>>
    PROVE  LoadTrue'
BY DEF LoadTrue, Careful, FastSwap, ResetAnytime, ReadErrors, Layout, text, Indices, Entry,
       ImageIsOf, CommandLine

\* The command line is put together with the selection; a load starts with one.
LEMMA LoadInput == IInv /\ LoadTrue /\ ReadInput /\ world' = world => LoadTrue'
<1> SUFFICES ASSUME IInv, LoadTrue, ReadInput, world' = world, Careful
             PROVE  LoadTrue'
  BY DEF LoadTrue, Careful, FastSwap, ResetAnytime, ReadErrors, Layout
<1>1. ~loaded_kernel /\ kexts = {} /\ ~ResetAnytime
  BY DEF LoadTrue, ReadInput, Starting, Careful
<1>2. UNCHANGED <<loaded_kernel, kexts, args0>>
  BY DEF ReadInput
<1>3. pc' \in {"kernel_fat", "draw"}
  BY DEF ReadInput
<1>4. command_line' = CommandLine(selected + 1, boot_args_index)'
  BY <1>2 DEF ReadInput, CommandLine
<1>5. pc' = "kernel_fat" => selected' # -1
  <2> SUFFICES ASSUME pc' = "kernel_fat" PROVE selected' # -1
    OBVIOUS
  <2>1. PICK key \in Keys :
          /\ StartsLoading(key) /\ (key = "reset" => selected # -1)
          /\ key \in {"none", "reset"} => selected' = selected
    BY <1>1 DEF ReadInput
  <2>2. key \in {"none", "reset"}
    BY <2>1 DEF StartsLoading
  <2>3. key = "none" => selected \in Indices
    BY <2>1, Bounds DEF StartsLoading, IInv, Core, CountdownHasTarget, TypeOK
  <2> QED
    BY <2>1, <2>2, <2>3 DEF Indices
<1> QED
  BY <1>1, <1>2, <1>3, <1>4, <1>5 DEF LoadTrue, Loading, Starting

\* The card in the slot is the table's where a partition can be read.
LEMMA TableCard ==
    ASSUME IInv, SwapSeen, Careful, card # NoCard, NEW i \in Indices
    PROVE  Entry(i).card = card
BY DEF SwapSeen, Careful

\* /wiiMac/mach_kernel is read whole, or there is none.
LEMMA LoadFat == IInv /\ SwapSeen /\ LoadTrue /\ LoadFromFat /\ world' = world => LoadTrue'
<1> SUFFICES ASSUME IInv, SwapSeen, LoadTrue, LoadFromFat, world' = world, Careful
             PROVE  LoadTrue'
  BY DEF LoadTrue, Careful, FastSwap, ResetAnytime, ReadErrors, Layout
<1>1. ~loaded_kernel /\ kexts = {} /\ selected # -1 /\ ~ReadErrors /\ pc' = "kernel_hfs"
      /\ command_line = CommandLine(selected + 1, boot_args_index)
  BY DEF LoadTrue, LoadFromFat, Starting, Loading, Careful
<1>2. UNCHANGED <<card, table, fat, selected, text, kexts>>
  BY DEF LoadFromFat, found
<1>3. loaded_kernel' =>
        /\ fat \in Indices /\ image'.whole /\ image'.part = Entry(fat).part
        /\ image'.card = Entry(fat).card
  <2> SUFFICES ASSUME loaded_kernel'
               PROVE  /\ fat \in Indices /\ image'.whole /\ image'.part = Entry(fat).part
                      /\ image'.card = Entry(fat).card
    OBVIOUS
  <2>1. PICK s \in DiskInitialize :
          /\ fat \in Indices /\ s[1] = "ready"
          /\ \E r \in FatReads(Entry(fat), s[2]) :
                /\ image' = r[1]
                /\ loaded_kernel' \in IF r[2] THEN Decodes(r[1]) ELSE {FALSE}
    BY <1>1 DEF LoadFromFat
  <2>2. card # NoCard
    BY <2>1, DiskInitializeAnswers
  <2>3. PICK r \in FatReads(Entry(fat), s[2]) :
          image' = r[1] /\ loaded_kernel' \in IF r[2] THEN Decodes(r[1]) ELSE {FALSE}
    BY <2>1
  <2>4. r = <<image, FALSE>> \/ r = <<Image(Entry(fat), TRUE), TRUE>>
    BY <2>2, FatReadsWhole
  <2>5. image' = Image(Entry(fat), TRUE)
    <3>1. CASE r = <<image, FALSE>>
      <4>1. r[2] = FALSE
        BY <3>1
      <4>2. loaded_kernel' \in {FALSE}
        BY <2>3, <4>1
      <4> QED
        BY <4>2
    <3>2. CASE r = <<Image(Entry(fat), TRUE), TRUE>>
      BY <2>3, <3>2
    <3> QED
      BY <2>4, <3>1, <3>2
  <2>6. Entry(fat).card = card
    BY <2>1, <2>2, TableCard
  <2> QED
    BY <2>1, <2>5, <2>6 DEF Image
<1>4. loaded_kernel' => fat' \in Indices' /\ ImageIsOf(fat)'
  BY <1>2, <1>3 DEF Indices, Entry, ImageIsOf
<1> QED
  BY <1>1, <1>2, <1>3, <1>4 DEF LoadTrue, Starting, Loading, text, CommandLine

\* /mach_kernel of the selected partition is read whole, or nothing is loaded.
LEMMA LoadHfs == IInv /\ SwapSeen /\ LoadTrue /\ LoadFromHfs /\ world' = world => LoadTrue'
<1> SUFFICES ASSUME IInv, SwapSeen, LoadTrue, LoadFromHfs, world' = world, Careful
             PROVE  LoadTrue'
  BY DEF LoadTrue, Careful, FastSwap, ResetAnytime, ReadErrors, Layout
<1>1. /\ selected # -1 /\ pc = "kernel_hfs" /\ pc' = "draw" /\ (~loaded_kernel => kexts = {})
      /\ command_line = CommandLine(selected + 1, boot_args_index)
  BY DEF LoadTrue, LoadFromHfs, Loading
<1>2. UNCHANGED <<card, table, fat, selected, text, kexts>>
  BY DEF LoadFromHfs, found, slot
<1>3. CASE loaded_kernel
  <2>1. UNCHANGED <<image, loaded_kernel>>
    BY <1>3 DEF LoadFromHfs
  <2> QED
    BY <1>1, <1>2, <1>3, <2>1
       DEF LoadTrue, Starting, Loading, text, CommandLine, Indices, Entry, ImageIsOf
<1>4. CASE ~loaded_kernel
  <2>1. selected \in Indices
    BY <1>1 DEF IInv, Core, SelectedBootable
  <2>2. PICK r \in HfsReads(Entry(selected)) :
          image' = r[1] /\ loaded_kernel' \in IF r[2] THEN Decodes(r[1]) ELSE {FALSE}
    BY <1>1, <1>4 DEF LoadFromHfs, SelectedEntries
  <2>3. \/ r = <<image, FALSE>>
        \/ card # NoCard /\ r = <<Image(Entry(selected), TRUE), TRUE>>
    BY HfsReadsWhole
  <2>4. loaded_kernel' => card # NoCard /\ image' = Image(Entry(selected), TRUE)
    <3>1. CASE r = <<image, FALSE>>
      <4>1. r[2] = FALSE
        BY <3>1
      <4>2. loaded_kernel' \in {FALSE}
        BY <2>2, <4>1
      <4> QED
        BY <4>2
    <3>2. CASE card # NoCard /\ r = <<Image(Entry(selected), TRUE), TRUE>>
      BY <2>2, <3>2
    <3> QED
      BY <2>3, <3>1, <3>2
  <2>5. card # NoCard => Entry(selected).card = card
    BY <2>1, TableCard
  <2>6. loaded_kernel' => image'.whole /\ selected' \in Indices' /\ ImageIsOf(selected)'
    BY <1>2, <2>1, <2>4, <2>5 DEF Image, Indices, Entry, ImageIsOf
  <2> QED
    BY <1>1, <1>2, <1>4, <2>6 DEF LoadTrue, Starting, Loading, text, CommandLine
<1> QED
  BY <1>3, <1>4

\* What extensions are loaded from is the card the kernel came from.
LEMMA LoadKexts ==
    IInv /\ SwapSeen /\ LoadTrue /\ (LoadKextsFromHfs \/ LoadKextsFromFat) /\ world' = world
        => LoadTrue'
<1> SUFFICES ASSUME IInv, SwapSeen, LoadTrue, LoadKextsFromHfs \/ LoadKextsFromFat,
                    world' = world, Careful
             PROVE  LoadTrue'
  BY DEF LoadTrue, Careful, FastSwap, ResetAnytime, ReadErrors, Layout
<1>1. /\ pc \in {"kexts_hfs", "kexts_fat"} /\ pc' \in {"kexts_fat", "started"}
      /\ UNCHANGED <<card, table, fat, selected, text, loaded_kernel, image>>
  BY DEF LoadKextsFromHfs, LoadKextsFromFat, found, slot, flags
<1>2. /\ loaded_kernel /\ image.whole
      /\ \E i \in {fat, selected} \cap Indices : ImageIsOf(i)
      /\ \A k \in kexts : k[1] = image.card
      /\ command_line = CommandLine(selected + 1, boot_args_index)
  BY <1>1 DEF LoadTrue, Starting
<1>3. \/ kexts' = kexts
      \/ card # NoCard /\ \E p : kexts' = kexts \cup {<<card, p>>}
  <2>1. CASE LoadKextsFromHfs
    BY <2>1 DEF LoadKextsFromHfs, Mounts, Readable, IInv, Core
  <2>2. CASE LoadKextsFromFat
    BY <2>2, DiskInitializeAnswers DEF LoadKextsFromFat
  <2> QED
    BY <2>1, <2>2
<1>4. card # NoCard => image.card = card
  BY <1>2, TableCard DEF ImageIsOf
<1>5. \A k \in kexts' : k[1] = image.card
  BY <1>2, <1>3, <1>4
<1> QED
  BY <1>1, <1>2, <1>5 DEF LoadTrue, Starting, Loading, text, CommandLine, Indices, Entry, ImageIsOf

\* Every step keeps what is known of a load.
LEMMA LoadStep == IInv /\ SwapSeen /\ LoadTrue /\ [Next]_vars => LoadTrue'
<1> SUFFICES ASSUME IInv, SwapSeen, LoadTrue, [Next]_vars PROVE LoadTrue'
  OBVIOUS
<1>0. world' = world
  BY DEF Next, vars
<1>1. CASE Remove \/ Insert \/ UNCHANGED vars
  BY <1>0, <1>1, LoadUnconcerned DEF Remove, Insert, vars, found, flags, text
<1>2. CASE Poll \/ ReadConfig \/ FindPartitions \/ Probe
  BY <1>0, <1>2, LoadNotYet DEF Poll, ReadConfig, FindPartitions, Probe, flags
<1>3. CASE ReadInput
  BY <1>0, <1>3, LoadInput
<1>4. CASE LoadFromFat
  BY <1>0, <1>4, LoadFat
<1>5. CASE LoadFromHfs
  BY <1>0, <1>5, LoadHfs
<1>6. CASE Draw
  <2>1. /\ pc = "draw" /\ pc' = IF loaded_kernel THEN "kexts_hfs" ELSE "poll"
        /\ UNCHANGED <<table, fat, selected, text, loaded_kernel, image, kexts>>
    BY <1>6 DEF Draw, found, flags
  <2> QED
    BY <1>0, <2>1 DEF LoadTrue, Careful, FastSwap, ResetAnytime, ReadErrors, Layout, Starting,
       Loading, text, CommandLine, Indices, Entry, ImageIsOf
<1>7. CASE LoadKextsFromHfs \/ LoadKextsFromFat
  BY <1>0, <1>7, LoadKexts
<1> QED
  BY <1>1, <1>2, <1>3, <1>4, <1>5, <1>6, <1>7 DEF Next, Program

\* The first state has loaded nothing.
LEMMA InitLoad == Init => LoadTrue
BY DEF Init, LoadTrue, Loading, Starting

\* For all cards: where cards can be read and are exchanged when the screen shows
\* the slot empty, the kernel that is started was read whole from a partition of the
\* table, its extensions came from the same card, and its arguments name the
\* selection.
THEOREM StartsSelected == Spec => []BootsWhatWasSelected
<1> DEFINE Inv == IInv /\ SwapSeen /\ LoadTrue
<1>1. Init => Inv
  BY InitHolds, InitSwap, InitLoad
<1>2. Inv /\ [Next]_vars => Inv'
  BY StepKeeps, SwapStep, LoadStep
<1>3. Inv => BootsWhatWasSelected
  <2> SUFFICES ASSUME LoadTrue, Careful, pc = "started" PROVE BootsWhatWasSelected
    BY DEF BootsWhatWasSelected
  <2> QED
    BY DEF LoadTrue, BootsWhatWasSelected, Starting, CommandLine, ImageIsOf
<1> QED
  BY <1>1, <1>2, <1>3, PTL DEF Spec
=============================================================================
