------------------------- MODULE KernelMemoryProofs -------------------------
(***************************************************************************)
(* Theorems about the kernel's memory, for any page size, limit, kernels   *)
(* (symbol table behind the segments) and kernel extensions.               *)
(***************************************************************************)
EXTENDS KernelMemory, TLAPS

\* alloc_kernel_memory rounds up: what it reserves has room for what was asked.
LEMMA RoundsUp == \A n \in Nat : Round(n) \in Nat /\ Round(n) >= n
<1>1. \A n \in Nat : (0 - n) % Page \in 0 .. Page - 1
  BY MemoryAssumption
<1> QED
  BY <1>1 DEF Round

\* Unless it refuses, it hands out what lies between last and the new last.
LEMMA Allocates ==
    ASSUME last \in Nat, NEW n \in Nat
    PROVE  /\ Top(n) \in Nat /\ Top(n) >= last /\ Top(n) >= last + n
           /\ Address(n) \in Nat
           /\ Top(n) <= Limit => Address(n) = last /\ Address(n) + n <= Top(n)
BY RoundsUp, MemoryAssumption DEF Top, Address

\* What is left of a kernel's commands still has its segments in front.
LEMMA TailSegments ==
    ASSUME NEW s \in Seq(Command), s # <<>>, SegmentsFirst(s)
    PROVE  /\ Tail(s) \in Seq(Command) /\ Head(s) \in Command
           /\ SegmentsFirst(Tail(s))
           /\ \A i \in DOMAIN Tail(s) : i + 1 \in DOMAIN s /\ Tail(s)[i] = s[i + 1]
           /\ 1 \in DOMAIN s /\ Head(s) = s[1]
           /\ Head(s).cmd = "symtab" => \A i \in DOMAIN Tail(s) : Tail(s)[i].cmd # "segment"
<1>1. /\ Tail(s) \in Seq(Command) /\ Head(s) \in Command
      /\ \A i \in DOMAIN Tail(s) : i + 1 \in DOMAIN s /\ Tail(s)[i] = s[i + 1]
      /\ 1 \in DOMAIN s /\ Head(s) = s[1]
      /\ DOMAIN s \subseteq Nat /\ \A i \in DOMAIN Tail(s) : i \in Nat /\ i >= 1
  OBVIOUS
<1>2. SegmentsFirst(Tail(s))
  <2> SUFFICES ASSUME NEW i \in DOMAIN Tail(s), NEW j \in DOMAIN Tail(s),
                      i < j, Tail(s)[j].cmd = "segment"
               PROVE  Tail(s)[i].cmd # "symtab"
    BY DEF SegmentsFirst
  <2>1. i + 1 < j + 1 /\ i + 1 \in DOMAIN s /\ j + 1 \in DOMAIN s
    BY <1>1
  <2> QED
    BY <2>1, <1>1 DEF SegmentsFirst
<1>3. Head(s).cmd = "symtab" => \A i \in DOMAIN Tail(s) : Tail(s)[i].cmd # "segment"
  <2> SUFFICES ASSUME s[1].cmd = "symtab", NEW i \in DOMAIN Tail(s)
               PROVE  s[i + 1].cmd # "segment"
    BY <1>1
  <2>1. 1 < i + 1 /\ i + 1 \in DOMAIN s
    BY <1>1
  <2> QED
    BY <2>1, <1>1 DEF SegmentsFirst
<1> QED
  BY <1>1, <1>2, <1>3

\* An allocated area, while the allocator refuses nothing, is above what was
\* below last and below the new last.
LEMMA AreaAbove ==
    ASSUME IInv, pc # "ready", NEW n \in Nat \ {0}, NEW owner \in Owners,
           Top(n) <= Limit
    PROVE  LET new == Area(owner, Address(n), n)
           IN  /\ last <= Limit /\ new.start = last
               /\ \A r \in regions : r.start + r.size <= new.start
               /\ \A r \in regions \cup {new} : r.start + r.size <= Top(n)
               /\ \A r, s \in regions \cup {new} :
                     \/ r = s \/ Apart(r, s)
                     \/ r.owner = "segment" /\ s.owner = "segment"
<1> DEFINE new == Area(owner, Address(n), n)
<1>1. last <= Top(n) /\ Top(n) \in Nat /\ Address(n) = last /\ last + n <= Top(n)
  BY Allocates DEF IInv, TypeOK
<1>2. last <= Limit
  <2>1. last \in Nat /\ Limit \in Nat
    BY MemoryAssumption DEF IInv, TypeOK
  <2> QED
    BY <1>1, <2>1
<1>3. new.start = last /\ new.size = n /\ new.owner = owner
  BY <1>1 DEF Area
<1>4. \A r \in regions : r.start + r.size <= last /\ r.start \in Nat /\ r.size \in Nat
  BY <1>2 DEF IInv, AllBelow, TypeOK, Region
<1>5. \A r \in regions : Apart(r, new) /\ Apart(new, r)
  BY <1>3, <1>4 DEF Apart
<1>6. \A r, s \in regions : r = s \/ Apart(r, s) \/ (r.owner = "segment" /\ s.owner = "segment")
  BY <1>2 DEF IInv, RegionsApart
<1>7. \A r \in regions \cup {new} : r.start + r.size <= Top(n)
  <2>1. last \in Nat
    BY DEF IInv, TypeOK
  <2>2. ASSUME NEW r \in regions PROVE r.start + r.size <= Top(n)
    <3>1. r.start + r.size <= last /\ r.start + r.size \in Nat
      BY <1>4
    <3> QED
      BY <1>1, <2>1, <3>1
  <2>3. new.start + new.size <= Top(n)
    BY <1>1, <1>3
  <2> QED
    BY <2>2, <2>3
<1>8. \A r, s \in regions \cup {new} :
         r = s \/ Apart(r, s) \/ (r.owner = "segment" /\ s.owner = "segment")
  BY <1>5, <1>6
<1> QED
  BY <1>2, <1>3, <1>4, <1>7, <1>8

-----------------------------------------------------------------------------
(* Types. *)

\* An area that is allocated is a region, and its span an entry.
LEMMA AreaType ==
    ASSUME last \in Nat, NEW owner \in Owners, NEW n \in Nat \ {0}
    PROVE  /\ Area(owner, Address(n), n) \in Region
           /\ Span(Area(owner, Address(n), n)) \in [start : Nat, size : Nat \ {0}]
           /\ Top(n) \in Nat
BY Allocates DEF Area, Region, Span

\* The memory of a kext: what load_kext_from_dir needs, never nothing.
LEMMA KextMemory ==
    \A k \in Kexts : \A bin \in BinSizes[k] : DriverInfoSize + PlistSize[k] + bin \in Nat \ {0}
BY MemoryAssumption, KextAssumption

\* load_kext_from_dir keeps the types of everything it changes.
LEMMA LoadKextType ==
    ASSUME TypeOK, NEW k \in Kexts, NEW rest \in Seq(Seq(Kexts)), LoadKext(k, rest)
    PROVE  /\ last' \in Nat /\ regions' \subseteq Region
           /\ drivers' \in Seq([start : Nat, size : Nat \ {0}])
           /\ stack' \in Seq(Seq(Kexts))
           /\ overwritten' \in BOOLEAN
<1>0. overwritten' \in BOOLEAN
  BY DEF LoadKext, TypeOK
<1>1. CASE PlistSize[k] = 0
  BY <1>0, <1>1 DEF LoadKext, TypeOK
<1>2. CASE PlistSize[k] # 0
  <2>1. PICK bin \in BinSizes[k], read \in BOOLEAN :
           LET size == DriverInfoSize + PlistSize[k] + bin
               new  == Area("driver", Address(size), size)
           IN  /\ last' = Top(size)
               /\ regions' = IF read THEN regions \cup {new} ELSE regions
               /\ drivers' = IF read THEN Append(drivers, Span(new)) ELSE drivers
               /\ stack' = IF read THEN <<Plugins[k]>> \o rest ELSE rest
    BY <1>2 DEF LoadKext
  <2> DEFINE size == DriverInfoSize + PlistSize[k] + bin
             new  == Area("driver", Address(size), size)
  <2>2. size \in Nat \ {0}
    BY KextMemory
  <2>3. new \in Region /\ Span(new) \in [start : Nat, size : Nat \ {0}] /\ Top(size) \in Nat
    BY <2>2, AreaType DEF TypeOK, Owners
  <2>4. <<Plugins[k]>> \o rest \in Seq(Seq(Kexts))
    BY KextAssumption
  <2> HIDE DEF size, new
  <2>5. Append(drivers, Span(new)) \in Seq([start : Nat, size : Nat \ {0}])
    BY <2>3 DEF TypeOK
  <2> QED
    BY <1>0, <2>1, <2>3, <2>4, <2>5 DEF TypeOK, size, new
<1> QED
  BY <1>0, <1>1, <1>2

\* Every action keeps the type invariant.
LEMMA TypeStep == TypeOK /\ [Next]_vars => TypeOK'
<1> SUFFICES ASSUME TypeOK, [Next]_vars PROVE TypeOK'
  OBVIOUS
<1>1. CASE DecodeKernel
  BY <1>1, KernelAssumption DEF DecodeKernel, TypeOK
<1>2. CASE HandleSegment
  <2>1. Head(cmds) \in Command /\ Tail(cmds) \in Seq(Command)
    BY <1>2 DEF HandleSegment, NextIs, TypeOK
  <2>2. Span(Head(cmds)) \in [start : Nat, size : Nat \ {0}]
    BY <2>1 DEF Span, Command
  <2>3. Area("segment", Head(cmds).start, Head(cmds).size) \in Region
    BY <2>1 DEF Area, Region, Command, Owners
  <2>4. Head(cmds).start + Head(cmds).size > last
           => Top(Head(cmds).start + Head(cmds).size - last) \in Nat
    <3> SUFFICES ASSUME Head(cmds).start + Head(cmds).size > last
                 PROVE  Top(Head(cmds).start + Head(cmds).size - last) \in Nat
      OBVIOUS
    <3>1. last \in Nat /\ Head(cmds).start \in Nat /\ Head(cmds).size \in Nat
      BY <2>1 DEF Command, TypeOK
    <3>2. Head(cmds).start + Head(cmds).size - last \in Nat
      BY <3>1
    <3> QED
      BY <3>1, <3>2, Allocates
  <2>5. entries' \in Seq([start : Nat, size : Nat \ {0}])
    BY <1>2, <2>2 DEF HandleSegment, TypeOK
  <2>6. last' \in Nat
    BY <1>2, <2>4 DEF HandleSegment, TypeOK
  <2>7. regions' \subseteq Region
    BY <1>2, <2>3 DEF HandleSegment, TypeOK
  <2> QED
    BY <1>2, <2>1, <2>5, <2>6, <2>7 DEF HandleSegment, TypeOK
<1>3. CASE HandleSymtab
  <2>1. Head(cmds) \in Command /\ Tail(cmds) \in Seq(Command) /\ Head(cmds).size \in Nat \ {0}
    <3>1. Head(cmds) \in Command /\ Tail(cmds) \in Seq(Command)
      BY <1>3 DEF HandleSymtab, NextIs, TypeOK
    <3> QED
      BY <3>1 DEF Command
  <2> DEFINE new == Area("symtab", Address(Head(cmds).size), Head(cmds).size)
  <2>2. new \in Region /\ Span(new) \in [start : Nat, size : Nat \ {0}]
           /\ Top(Head(cmds).size) \in Nat
    BY <2>1, AreaType DEF TypeOK, Owners
  <2> HIDE DEF new
  <2>3. Append(entries, Span(new)) \in Seq([start : Nat, size : Nat \ {0}])
    BY <2>2 DEF TypeOK
  <2> QED
    BY <1>3, <2>1, <2>2, <2>3 DEF HandleSymtab, TypeOK, new
<1>4. CASE HandleThread
  <2>1. Head(cmds) \in Command /\ Tail(cmds) \in Seq(Command)
    BY <1>4 DEF HandleThread, NextIs, TypeOK
  <2> QED
    BY <1>4, <2>1 DEF HandleThread, TypeOK, Command
<1>5. CASE Unknown
  <2>1. Tail(cmds) \in Seq(Command)
    BY <1>5 DEF Unknown, NextIs, TypeOK
  <2> QED
    BY <1>5, <2>1 DEF Unknown, TypeOK
<1>6. CASE CopyHeader
  <2> DEFINE new == Area("header", Address(HeaderSize), HeaderSize)
  <2>1. new \in Region /\ Span(new) \in [start : Nat, size : Nat \ {0}]
           /\ Top(HeaderSize) \in Nat
    BY AreaType, MemoryAssumption DEF TypeOK, Owners
  <2> HIDE DEF new
  <2>2. Append(entries, Span(new)) \in Seq([start : Nat, size : Nat \ {0}])
    BY <2>1 DEF TypeOK
  <2>3. regions' = regions \cup {new} /\ entries' = Append(entries, Span(new))
    BY <1>6 DEF CopyHeader, new
  <2>4. todo' \in Seq(Kexts)
    <3>1. Direct \in Seq(Kexts) /\ <<>> \in Seq(Kexts)
      BY KextAssumption
    <3>2. todo' = Direct \/ todo' = <<>>
      BY <1>6 DEF CopyHeader
    <3> QED
      BY <3>1, <3>2
  <2> QED
    BY <1>6, <2>1, <2>2, <2>3, <2>4 DEF CopyHeader, TypeOK
<1>7. CASE LoadByName
  <2>1. Head(todo) \in Kexts /\ Tail(todo) \in Seq(Kexts)
    BY <1>7 DEF LoadByName, TypeOK
  <2> QED
    BY <1>7, <2>1, LoadKextType DEF LoadByName, TypeOK
<1>8. CASE LoadEntry
  <2>1. Head(stack) \in Seq(Kexts) /\ Tail(stack) \in Seq(Seq(Kexts))
    BY <1>8 DEF LoadEntry, TypeOK
  <2>2. Head(Head(stack)) \in Kexts /\ Tail(Head(stack)) \in Seq(Kexts)
    BY <1>8, <2>1 DEF LoadEntry
  <2>3. <<Tail(Head(stack))>> \o Tail(stack) \in Seq(Seq(Kexts))
    BY <2>1, <2>2
  <2> QED
    BY <1>8, <2>2, <2>3, LoadKextType DEF LoadEntry, TypeOK
<1>9. CASE LeaveDirectory
  <2>1. Tail(stack) \in Seq(Seq(Kexts))
    BY <1>9 DEF LeaveDirectory, TypeOK
  <2> QED
    BY <1>9, <2>1 DEF LeaveDirectory, TypeOK
<1>10. CASE LoadFromFat
  <2>1. <<FatKexts>> \in Seq(Seq(Kexts)) /\ <<>> \in Seq(Seq(Kexts))
    BY KextAssumption
  <2>2. stack' \in Seq(Seq(Kexts))
    BY <1>10, <2>1 DEF LoadFromFat
  <2> QED
    BY <1>10, <2>2 DEF LoadFromFat, TypeOK
<1>11. CASE SetUpBootArgs
  <2>1. Len(entries) \in Nat /\ Len(drivers) \in Nat
    BY DEF TypeOK
  <2>2. TreeSize \in Nat
    BY <2>1, MemoryAssumption DEF TreeSize
  <2>3. Address(BootArgsSize) \in Nat /\ Top(BootArgsSize) \in Nat
    BY Allocates, MemoryAssumption DEF TypeOK
  <2>4. Area("boot", Address(BootArgsSize), BootArgsSize + TreeSize) \in Region
    BY <2>2, <2>3, MemoryAssumption DEF Area, Region, Owners
  <2> QED
    BY <1>11, <2>2, <2>3, <2>4, MemoryAssumption DEF SetUpBootArgs, TypeOK
<1>12. CASE UNCHANGED vars
  BY <1>12 DEF vars, TypeOK
<1> QED
  BY <1>1, <1>2, <1>3, <1>4, <1>5, <1>6, <1>7, <1>8, <1>9, <1>10, <1>11, <1>12 DEF Next

-----------------------------------------------------------------------------
(* Places. *)

Placed == AllBelow /\ RegionsApart

\* While segments are still to come, segments are all there is.
LEMMA OrderStep == IInv /\ [Next]_vars => OnlySegments'
<1> SUFFICES ASSUME IInv, [Next]_vars PROVE OnlySegments'
  OBVIOUS
<1> USE DEF IInv
<1>1. CASE DecodeKernel
  BY <1>1, KernelAssumption DEF DecodeKernel, OnlySegments
<1>2. CASE HandleSegment \/ HandleThread
  <2>1. /\ cmds \in Seq(Command) /\ cmds # <<>> /\ SegmentsFirst(cmds)
        /\ cmds' = Tail(cmds) /\ pc = "decode"
    BY <1>2 DEF HandleSegment, HandleThread, NextIs, OnlySegments, TypeOK
  <2>2. \A r \in regions' : r \in regions \/ (r.owner = "segment" /\ Head(cmds).cmd = "segment")
    BY <1>2 DEF HandleSegment, HandleThread, NextIs, Area
  <2>3. (\E i \in DOMAIN Tail(cmds) : Tail(cmds)[i].cmd = "segment")
            => \E i \in DOMAIN cmds : cmds[i].cmd = "segment"
    BY <2>1, TailSegments
  <2> QED
    BY <2>1, <2>2, <2>3, TailSegments DEF OnlySegments
<1>3. CASE HandleSymtab
  <2>1. /\ cmds \in Seq(Command) /\ cmds # <<>> /\ SegmentsFirst(cmds)
        /\ cmds' = Tail(cmds) /\ Head(cmds).cmd = "symtab"
    BY <1>3 DEF HandleSymtab, NextIs, OnlySegments, TypeOK
  <2> QED
    BY <2>1, TailSegments DEF OnlySegments
<1>4. CASE Unknown
  BY <1>4 DEF Unknown, OnlySegments
<1>5. CASE CopyHeader
  BY <1>5 DEF CopyHeader, OnlySegments
<1>6. CASE LoadByName \/ LoadFromFat \/ SetUpBootArgs
  BY <1>6 DEF LoadByName, LoadFromFat, SetUpBootArgs, OnlySegments
<1>7. CASE LoadEntry
  BY <1>7 DEF LoadEntry, OnlySegments
<1>8. CASE LeaveDirectory
  BY <1>8 DEF LeaveDirectory, OnlySegments
<1>9. CASE UNCHANGED vars
  BY <1>9 DEF vars, OnlySegments
<1> QED
  BY <1>1, <1>2, <1>3, <1>4, <1>5, <1>6, <1>7, <1>8, <1>9 DEF Next

\* Files that are read above everything that is there overwrite nothing of it, and the
\* binary, read last, nothing of the Info.plist before it.
LEMMA NothingOverwritten ==
    ASSUME IInv, pc # "ready", last <= Limit, NEW k \in Kexts, NEW bin
    PROVE  ~Overwrites(k, bin, last)
<1>1. PlistSize[k] \in Nat /\ DriverInfoSize \in Nat /\ last \in Nat
  BY MemoryAssumption, KextAssumption DEF IInv, TypeOK
<1>2. \A r \in regions : r.start + r.size \in Nat /\ r.start + r.size <= last
  BY DEF IInv, AllBelow, TypeOK, Region
<1>3. /\ Landing(Plist(k, last)).start = last + DriverInfoSize
      /\ Landing(Binary(k, bin, last)).start = last + DriverInfoSize + PlistSize[k]
  BY DEF Landing, Plist, Binary
<1>4. /\ Plist(k, last).start = last + DriverInfoSize
      /\ Plist(k, last).size = PlistSize[k]
  BY DEF Plist
<1>5. Apart(Plist(k, last), Landing(Binary(k, bin, last)))
  BY <1>1, <1>3, <1>4 DEF Apart
<1>6. ASSUME NEW r \in regions
      PROVE  Apart(r, Landing(Plist(k, last))) /\ Apart(r, Landing(Binary(k, bin, last)))
  <2>1. r.start + r.size <= last + DriverInfoSize
    BY <1>1, <1>2
  <2>2. r.start + r.size <= last + DriverInfoSize + PlistSize[k]
    BY <1>1, <1>2
  <2> QED
    BY <1>3, <2>1, <2>2 DEF Apart
<1> QED
  BY <1>5, <1>6 DEF Overwrites

\* What is allocated for a kext is apart from everything else.
LEMMA LoadKextPlaces ==
    ASSUME IInv, pc # "ready", NEW k \in Kexts, NEW rest, LoadKext(k, rest)
    PROVE  Placed'
<1>1. CASE PlistSize[k] = 0
  BY <1>1 DEF LoadKext, IInv, Placed, AllBelow, RegionsApart
<1>2. CASE PlistSize[k] # 0
  <2>1. PICK bin \in BinSizes[k], read \in BOOLEAN :
           LET size == DriverInfoSize + PlistSize[k] + bin
               new  == Area("driver", Address(size), size)
           IN  /\ last' = Top(size)
               /\ regions' = IF read THEN regions \cup {new} ELSE regions
               /\ overwritten' = (overwritten \/ Overwrites(k, bin, new.start))
    BY <1>2 DEF LoadKext
  <2> DEFINE size == DriverInfoSize + PlistSize[k] + bin
             new  == Area("driver", Address(size), size)
  <2>2. size \in Nat \ {0}
    BY KextMemory
  <2> HIDE DEF size
  <2>3. SUFFICES ASSUME Top(size) <= Limit PROVE Placed'
    BY <2>1 DEF Placed, AllBelow, RegionsApart, size
  <2>4. /\ \A r \in regions \cup {new} : r.start + r.size <= Top(size)
        /\ \A r, s \in regions \cup {new} :
              r = s \/ Apart(r, s) \/ (r.owner = "segment" /\ s.owner = "segment")
    BY <2>2, <2>3, AreaAbove DEF Owners
  <2>5. regions' \subseteq regions \cup {new} /\ last' = Top(size)
           /\ overwritten' = (overwritten \/ Overwrites(k, bin, new.start))
    BY <2>1 DEF size
  <2>6. last <= Limit /\ new.start = last
    BY <2>2, <2>3, AreaAbove DEF Owners
  <2>7. ~overwritten'
    BY <2>5, <2>6, NothingOverwritten DEF IInv, RegionsApart
  <2> HIDE DEF new
  <2> QED
    BY <2>4, <2>5, <2>7 DEF Placed, AllBelow, RegionsApart
<1> QED
  BY <1>1, <1>2

\* Every action but the last keeps what is placed below last and apart.
LEMMA PlaceStep == IInv /\ [Next]_vars /\ pc # "ready" /\ pc' # "ready" => Placed'
<1> SUFFICES ASSUME IInv, [Next]_vars, pc # "ready", pc' # "ready" PROVE Placed'
  OBVIOUS
<1>0. Placed
  BY DEF IInv, Placed
<1>1. CASE DecodeKernel
  BY <1>0, <1>1 DEF DecodeKernel, Placed, AllBelow, RegionsApart
<1>2. CASE HandleSegment
  <2>1. Head(cmds) \in Command /\ Head(cmds).cmd = "segment" /\ 1 \in DOMAIN cmds
           /\ Head(cmds) = cmds[1] /\ pc = "decode"
    BY <1>2 DEF HandleSegment, NextIs, IInv, TypeOK
  <2>2. \A r \in regions : r.owner = "segment"
    BY <2>1 DEF IInv, OnlySegments
  <2>3. CASE Head(cmds).fsize = 0
    BY <1>2, <2>3, <1>0 DEF HandleSegment, Placed, AllBelow, RegionsApart
  <2>4. CASE Head(cmds).fsize # 0
    <3>0. last' = IF Head(cmds).start + Head(cmds).size > last
                  THEN last + Round(Head(cmds).start + Head(cmds).size - last) ELSE last
      BY <1>2, <2>4 DEF HandleSegment, Top
    <3> DEFINE end == Head(cmds).start + Head(cmds).size
               new == Area("segment", Head(cmds).start, Head(cmds).size)
    <3>1. Head(cmds).start \in Nat /\ Head(cmds).size \in Nat /\ end \in Nat /\ last \in Nat
      BY <2>1 DEF Command, IInv, TypeOK
    <3>2. last' \in Nat /\ last' >= last /\ last' >= end
      <4>1. end > last => end - last \in Nat /\ last + (end - last) = end
        BY <3>1
      <4> QED
        BY <3>0, <3>1, <4>1, RoundsUp
    <3>3. regions' = regions \cup {new}
      BY <1>2, <2>4 DEF HandleSegment
    <3>4. new.owner = "segment" /\ new.start + new.size = end
      BY DEF Area
    <3>5. RegionsApart'
      <4>1. last' <= Limit => last <= Limit
        BY <3>1, <3>2, MemoryAssumption
      <4>2. UNCHANGED overwritten
        BY <1>2 DEF HandleSegment
      <4> QED
        BY <1>0, <2>2, <3>3, <3>4, <4>1, <4>2 DEF RegionsApart, Placed
    <3>6. ASSUME last' <= Limit, NEW r \in regions'
          PROVE  r.start + r.size <= last'
      <4>1. CASE r = new
        BY <3>2, <3>4, <4>1
      <4>2. CASE r \in regions
        <5>1. last <= Limit
          BY <3>1, <3>2, <3>6, MemoryAssumption
        <5>2. r.start + r.size <= last /\ r.start + r.size \in Nat
          BY <1>0, <4>2, <5>1 DEF Placed, AllBelow, IInv, TypeOK, Region
        <5> QED
          BY <3>1, <3>2, <5>2
      <4> QED
        BY <3>3, <3>6, <4>1, <4>2
    <3> QED
      BY <3>5, <3>6 DEF Placed, AllBelow
  <2> QED
    BY <2>3, <2>4
<1>3. CASE HandleSymtab
  <2>1. Head(cmds) \in Command
    BY <1>3 DEF HandleSymtab, NextIs, IInv, TypeOK
  <2>2. Head(cmds).size \in Nat \ {0}
    BY <2>1 DEF Command
  <2>3. /\ last' = Top(Head(cmds).size)
        /\ regions' = regions \cup {Area("symtab", Address(Head(cmds).size), Head(cmds).size)}
        /\ UNCHANGED overwritten
    BY <1>3 DEF HandleSymtab
  <2> QED
    BY <1>0, <2>2, <2>3, AreaAbove DEF Placed, AllBelow, RegionsApart, Owners
<1>4. CASE HandleThread \/ Unknown
  BY <1>0, <1>4 DEF HandleThread, Unknown, Placed, AllBelow, RegionsApart
<1>5. CASE CopyHeader
  <2>1. /\ last' = Top(HeaderSize)
        /\ regions' = regions \cup {Area("header", Address(HeaderSize), HeaderSize)}
        /\ UNCHANGED overwritten
    BY <1>5 DEF CopyHeader
  <2> QED
    BY <1>0, <2>1, AreaAbove, MemoryAssumption DEF Placed, AllBelow, RegionsApart, Owners
<1>6. CASE LoadByName
  <2>1. Head(todo) \in Kexts
    BY <1>6 DEF LoadByName, IInv, TypeOK
  <2> QED
    BY <1>6, <2>1, LoadKextPlaces DEF LoadByName
<1>7. CASE LoadEntry
  <2>1. Head(stack) \in Seq(Kexts)
    BY <1>7 DEF LoadEntry, IInv, TypeOK
  <2>2. Head(Head(stack)) \in Kexts
    BY <1>7, <2>1 DEF LoadEntry
  <2> QED
    BY <1>7, <2>2, LoadKextPlaces DEF LoadEntry
<1>8. CASE LeaveDirectory \/ LoadFromFat
  BY <1>0, <1>8 DEF LeaveDirectory, LoadFromFat, Placed, AllBelow, RegionsApart
<1>9. CASE SetUpBootArgs
  BY <1>9 DEF SetUpBootArgs
<1>10. CASE UNCHANGED vars
  BY <1>0, <1>10 DEF vars, Placed, AllBelow, RegionsApart
<1> QED
  BY <1>1, <1>2, <1>3, <1>4, <1>5, <1>6, <1>7, <1>8, <1>9, <1>10 DEF Next

\* The boot arguments go on top, and the device tree behind them.
LEMMA ReadyStep == IInv /\ SetUpBootArgs => RegionsApart' /\ TopAboveAll'
<1> SUFFICES ASSUME IInv, SetUpBootArgs PROVE RegionsApart' /\ TopAboveAll'
  OBVIOUS
<1> DEFINE size == BootArgsSize + TreeSize
           new  == Area("boot", Address(BootArgsSize), size)
<1>1. pc = "fat" /\ last' = Top(BootArgsSize) /\ regions' = regions \cup {new}
         /\ tree_end' = Address(BootArgsSize) + size /\ UNCHANGED overwritten
  BY DEF SetUpBootArgs
<1>2. SUFFICES ASSUME last' <= Limit PROVE RegionsApart' /\ TopAboveAll'
  BY DEF RegionsApart, TopAboveAll
<1>3. Len(entries) \in Nat /\ Len(drivers) \in Nat
  BY DEF IInv, TypeOK
<1>4. size \in Nat /\ last \in Nat /\ Limit \in Nat
  <2>1. TreeSize \in Nat
    BY <1>3, MemoryAssumption DEF TreeSize
  <2>2. BootArgsSize \in Nat
    BY MemoryAssumption
  <2> QED
    BY <2>1, <2>2, MemoryAssumption DEF IInv, TypeOK
<1>5. Address(BootArgsSize) = last /\ last <= Limit
  BY <1>1, <1>2, <1>4, Allocates, MemoryAssumption
<1>6. new.start = last /\ new.size = size /\ tree_end' = last + size
  BY <1>1, <1>5 DEF Area
<1>7. \A r \in regions : r.start + r.size <= last /\ r.start + r.size \in Nat
  BY <1>1, <1>5 DEF IInv, AllBelow, TypeOK, Region
<1>8. \A r \in regions : Apart(r, new) /\ Apart(new, r)
  BY <1>6, <1>7 DEF Apart
<1>9. /\ \A r, s \in regions : r = s \/ Apart(r, s) \/ (r.owner = "segment" /\ s.owner = "segment")
      /\ ~overwritten
  BY <1>5 DEF IInv, RegionsApart
<1> HIDE DEF new, size
<1>10. RegionsApart'
  BY <1>1, <1>8, <1>9 DEF RegionsApart, Apart
<1>11. \A r \in regions \cup {new} : r.start + r.size <= tree_end'
  BY <1>4, <1>6, <1>7
<1> QED
  BY <1>1, <1>10, <1>11 DEF TopAboveAll

-----------------------------------------------------------------------------
(* The memory map. *)

\* A longer sequence still has what the shorter one had.
LEMMA Appended ==
    ASSUME NEW S, NEW s \in Seq(S), NEW x \in S
    PROVE  /\ \A i \in DOMAIN s : i \in DOMAIN Append(s, x) /\ Append(s, x)[i] = s[i]
           /\ \E i \in DOMAIN Append(s, x) : Append(s, x)[i] = x
           /\ \A i \in DOMAIN Append(s, x) :
                 (i \in DOMAIN s /\ Append(s, x)[i] = s[i]) \/ Append(s, x)[i] = x
<1>1. /\ Len(s) \in Nat /\ DOMAIN s = 1 .. Len(s)
      /\ DOMAIN Append(s, x) = 1 .. Len(s) + 1
      /\ \A i \in 1 .. Len(s) : Append(s, x)[i] = s[i]
      /\ Append(s, x)[Len(s) + 1] = x
  OBVIOUS
<1> QED
  BY <1>1

\* A part of the kernel that is placed with an entry of its own.
LEMMA EntryMade ==
    ASSUME IInv, NEW new \in Region, entries' = Append(entries, Span(new)),
           regions' = regions \cup {new} \/ regions' = regions,
           new.owner # "driver", UNCHANGED drivers, pc = "decode"
    PROVE  MapAgrees'
<1>1. Span(new) \in [start : Nat, size : Nat \ {0}] /\ entries \in Seq([start : Nat, size : Nat \ {0}])
  BY DEF IInv, TypeOK, Region, Span
<1>2. /\ \A i \in DOMAIN entries : i \in DOMAIN entries' /\ entries'[i] = entries[i]
      /\ \E i \in DOMAIN entries' : entries'[i] = Span(new)
  <2>1. \A i \in DOMAIN entries : i \in DOMAIN entries' /\ entries'[i] = entries[i]
    BY <1>1, Appended
  <2>2. \E i \in DOMAIN entries' : entries'[i] = Span(new)
    BY <1>1, Appended
  <2> QED
    BY <2>1, <2>2
<1>3. drivers = <<>>
  BY DEF IInv, MapAgrees
<1>4. \A r \in regions' : r.owner \in {"segment", "symtab", "header"} =>
          \E i \in DOMAIN entries' : entries'[i] = Span(r)
  BY <1>2 DEF IInv, MapAgrees
<1> QED
  BY <1>3, <1>4 DEF MapAgrees

\* A driver is listed only where it was read to.
LEMMA LoadKextMap ==
    ASSUME IInv, pc \notin {"idle", "decode"}, NEW k \in Kexts, NEW rest, LoadKext(k, rest),
           UNCHANGED <<pc, entries>>
    PROVE  MapAgrees'
<1>1. CASE PlistSize[k] = 0
  BY <1>1 DEF LoadKext, IInv, MapAgrees
<1>2. CASE PlistSize[k] # 0
  <2>1. PICK bin \in BinSizes[k], read \in BOOLEAN :
           LET size == DriverInfoSize + PlistSize[k] + bin
               new  == Area("driver", Address(size), size)
           IN  /\ regions' = IF read THEN regions \cup {new} ELSE regions
               /\ drivers' = IF read THEN Append(drivers, Span(new)) ELSE drivers
    BY <1>2 DEF LoadKext
  <2> DEFINE size == DriverInfoSize + PlistSize[k] + bin
             new  == Area("driver", Address(size), size)
  <2>2. new \in Region /\ new.owner = "driver" /\ Span(new) \in [start : Nat, size : Nat \ {0}]
    <3>1. size \in Nat \ {0}
      BY KextMemory
    <3> QED
      BY <3>1, AreaType DEF IInv, TypeOK, Owners, Area
  <2>3. /\ regions' = IF read THEN regions \cup {new} ELSE regions
        /\ drivers' = IF read THEN Append(drivers, Span(new)) ELSE drivers
    BY <2>1
  <2> HIDE DEF new, size
  <2>4. CASE ~read
    BY <2>3, <2>4 DEF IInv, MapAgrees
  <2>5. CASE read
    <3>1. drivers \in Seq([start : Nat, size : Nat \ {0}])
      BY DEF IInv, TypeOK
    <3>2. \A i \in DOMAIN drivers' : (i \in DOMAIN drivers /\ drivers'[i] = drivers[i]) \/ drivers'[i] = Span(new)
      BY <2>2, <2>3, <2>5, <3>1, Appended
    <3>3. \A i \in DOMAIN drivers' : \E r \in regions' : r.owner = "driver" /\ Span(r) = drivers'[i]
      BY <2>2, <2>3, <2>5, <3>2 DEF IInv, MapAgrees
    <3>4. \A r \in regions' : r.owner \in {"segment", "symtab", "header"} => r \in regions
      BY <2>2, <2>3, <2>5
    <3> QED
      BY <3>3, <3>4 DEF IInv, MapAgrees
  <2> QED
    BY <2>4, <2>5
<1> QED
  BY <1>1, <1>2

\* Every action keeps the map, the drivers and what they name together.
LEMMA MapStep == IInv /\ [Next]_vars => MapAgrees'
<1> SUFFICES ASSUME IInv, [Next]_vars PROVE MapAgrees'
  OBVIOUS
<1>1. CASE DecodeKernel
  BY <1>1 DEF DecodeKernel, IInv, MapAgrees
<1>2. CASE HandleSegment
  <2> DEFINE c == Head(cmds)
             new == Area("segment", c.start, c.size)
  <2>1. c \in Command
    BY <1>2 DEF HandleSegment, NextIs, IInv, TypeOK
  <2>2. new \in Region /\ new.owner # "driver" /\ Span(new) = Span(c)
    BY <2>1 DEF Area, Region, Command, Owners, Span
  <2>3. /\ entries' = Append(entries, Span(c)) /\ UNCHANGED drivers /\ pc = "decode"
        /\ regions' = regions \cup {new} \/ regions' = regions
    BY <1>2 DEF HandleSegment, NextIs
  <2> HIDE DEF c, new
  <2> QED
    BY <2>2, <2>3, EntryMade
<1>3. CASE HandleSymtab
  <2> DEFINE new == Area("symtab", Address(Head(cmds).size), Head(cmds).size)
  <2>1. Head(cmds).size \in Nat \ {0}
    <3>1. Head(cmds) \in Command
      BY <1>3 DEF HandleSymtab, NextIs, IInv, TypeOK
    <3> QED
      BY <3>1 DEF Command
  <2>2. new \in Region /\ new.owner # "driver"
    BY <2>1, AreaType DEF Area, Owners, IInv, TypeOK
  <2>3. /\ entries' = Append(entries, Span(new)) /\ UNCHANGED drivers /\ pc = "decode"
        /\ regions' = regions \cup {new}
    BY <1>3 DEF HandleSymtab, NextIs
  <2> HIDE DEF new
  <2> QED
    BY <2>2, <2>3, EntryMade
<1>4. CASE HandleThread \/ Unknown
  BY <1>4 DEF HandleThread, Unknown, NextIs, IInv, MapAgrees
<1>5. CASE CopyHeader
  <2> DEFINE new == Area("header", Address(HeaderSize), HeaderSize)
  <2>1. new \in Region /\ new.owner # "driver"
    BY AreaType, MemoryAssumption DEF Area, Owners, IInv, TypeOK
  <2>2. /\ entries' = Append(entries, Span(new)) /\ UNCHANGED drivers /\ pc = "decode"
        /\ regions' = regions \cup {new}
    BY <1>5 DEF CopyHeader
  <2> HIDE DEF new
  <2> QED
    BY <2>1, <2>2, EntryMade
<1>6. CASE LoadByName
  <2>1. Head(todo) \in Kexts
    BY <1>6 DEF LoadByName, IInv, TypeOK
  <2> QED
    BY <1>6, <2>1, LoadKextMap DEF LoadByName
<1>7. CASE LoadEntry
  <2>1. Head(stack) \in Seq(Kexts)
    BY <1>7 DEF LoadEntry, IInv, TypeOK
  <2>2. Head(Head(stack)) \in Kexts
    BY <1>7, <2>1 DEF LoadEntry
  <2> QED
    BY <1>7, <2>2, LoadKextMap DEF LoadEntry
<1>8. CASE LeaveDirectory \/ LoadFromFat
  BY <1>8 DEF LeaveDirectory, LoadFromFat, IInv, MapAgrees
<1>9. CASE SetUpBootArgs
  <2> DEFINE new == Area("boot", Address(BootArgsSize), BootArgsSize + TreeSize)
  <2>1. regions' = regions \cup {new} /\ new.owner = "boot"
    BY <1>9 DEF SetUpBootArgs, Area
  <2>2. UNCHANGED <<entries, drivers>> /\ pc' = "ready"
    BY <1>9 DEF SetUpBootArgs
  <2> HIDE DEF new
  <2> QED
    BY <2>1, <2>2 DEF IInv, MapAgrees
<1>10. CASE UNCHANGED vars
  BY <1>10 DEF vars, IInv, MapAgrees
<1> QED
  BY <1>1, <1>2, <1>3, <1>4, <1>5, <1>6, <1>7, <1>8, <1>9, <1>10 DEF Next

-----------------------------------------------------------------------------
(* The entry point. *)

\* A region stays where it is once the kernel has been decoded.
LEMMA EntryStays ==
    ASSUME IInv, pc \in {"kexts", "fat", "ready"}, pc' \in {"kexts", "fat", "ready"},
           UNCHANGED entry_point, regions \subseteq regions'
    PROVE  EntryComes'
BY DEF IInv, EntryComes, Within

\* A command that is handled and was no segment leaves what is held.
LEMMA HeldWithoutHead ==
    ASSUME cmds \in Seq(Command), cmds # <<>>, cmds' = Tail(cmds), Head(cmds).cmd # "segment",
           regions \subseteq regions'
    PROVE  \A a \in Nat : Held(a) => Held(a)'
<1> SUFFICES ASSUME NEW a \in Nat, Held(a) PROVE Held(a)'
  OBVIOUS
<1>1. CASE \E r \in regions : r.owner = "segment" /\ Within(a, r)
  BY <1>1 DEF Held, Within
<1>2. CASE \E j \in DOMAIN cmds : cmds[j].cmd = "segment" /\ Within(a, cmds[j])
  <2>1. PICK j \in DOMAIN cmds : cmds[j].cmd = "segment" /\ Within(a, cmds[j])
    BY <1>2
  <2>2. j # 1 /\ j \in Nat
    BY <2>1
  <2>3. j - 1 \in DOMAIN Tail(cmds) /\ Tail(cmds)[j - 1] = cmds[j]
    BY <2>2
  <2> QED
    BY <2>1, <2>3 DEF Held, Within
<1> QED
  BY <1>1, <1>2 DEF Held

\* A segment that is handled is held as a region.
LEMMA HeldAsRegion ==
    ASSUME cmds \in Seq(Command), cmds # <<>>, cmds' = Tail(cmds),
           regions' = regions \cup {Area("segment", Head(cmds).start, Head(cmds).size)}
    PROVE  \A a \in Nat : Held(a) => Held(a)'
<1> SUFFICES ASSUME NEW a \in Nat, Held(a) PROVE Held(a)'
  OBVIOUS
<1> DEFINE new == Area("segment", Head(cmds).start, Head(cmds).size)
<1>1. new \in regions' /\ new.owner = "segment" /\ new.start = Head(cmds).start /\ new.size = Head(cmds).size
  BY DEF Area
<1> HIDE DEF new
<1>2. CASE \E r \in regions : r.owner = "segment" /\ Within(a, r)
  BY <1>2 DEF Held, Within
<1>3. CASE \E j \in DOMAIN cmds : cmds[j].cmd = "segment" /\ Within(a, cmds[j])
  <2>1. PICK j \in DOMAIN cmds : cmds[j].cmd = "segment" /\ Within(a, cmds[j])
    BY <1>3
  <2>2. CASE j = 1
    <3>1. cmds[1] = Head(cmds)
      OBVIOUS
    <3> QED
      BY <1>1, <2>1, <2>2, <3>1 DEF Held, Within
  <2>3. CASE j # 1
    <3>1. j - 1 \in DOMAIN Tail(cmds) /\ Tail(cmds)[j - 1] = cmds[j]
      BY <2>3
    <3> QED
      BY <2>1, <3>1 DEF Held, Within
  <2> QED
    BY <2>2, <2>3
<1> QED
  BY <1>2, <1>3 DEF Held

\* A command that lets the decoding go on leaves what the rest of them does.
LEMMA EntryGoesOn ==
    ASSUME IInv, pc = "decode", cmds # <<>>, cmds' = Tail(cmds), pc' = "decode",
           Head(cmds).cmd # "other", Head(cmds).cmd = "segment" => Head(cmds).fsize # 0,
           \A a \in Nat : Held(a) => Held(a)',
           entry_point' = IF Head(cmds).cmd = "thread" THEN Head(cmds).start ELSE entry_point
    PROVE  EntryComes'
<1>1. cmds \in Seq(Command) /\ entry_point \in Nat
  BY DEF IInv, TypeOK
<1>2. /\ 1 \in DOMAIN cmds /\ Head(cmds) = cmds[1]
      /\ \A i \in DOMAIN Tail(cmds) : i + 1 \in DOMAIN cmds /\ Tail(cmds)[i] = cmds[i + 1]
      /\ \A i \in DOMAIN cmds : i # 1 => i - 1 \in DOMAIN Tail(cmds) /\ Tail(cmds)[i - 1] = cmds[i]
  BY <1>1
<1>3. \A i \in DOMAIN cmds : cmds[i].start \in Nat
  <2>1. \A i \in DOMAIN cmds : cmds[i] \in Command
    BY <1>1
  <2> QED
    BY <2>1 DEF Command
<1> SUFFICES ASSUME Decodable(Tail(cmds))
             PROVE  /\ (\E i \in DOMAIN Tail(cmds) : Tail(cmds)[i].cmd = "thread") \/ Held(entry_point)'
                    /\ \A i \in DOMAIN Tail(cmds) : \A a \in Nat :
                          Tail(cmds)[i].cmd = "thread" /\ a = Tail(cmds)[i].start => Held(a)'
  <2>1. \A i \in DOMAIN Tail(cmds) : Tail(cmds)[i].start \in Nat
    BY <1>2, <1>3
  <2> QED
    BY <2>1 DEF EntryComes, Decodable, Held
<1>4. Decodable(cmds)
  <2> SUFFICES ASSUME NEW i \in DOMAIN cmds
               PROVE  cmds[i].cmd # "other" /\ (cmds[i].cmd = "segment" => cmds[i].fsize # 0)
    BY DEF Decodable
  <2>1. CASE i = 1
    BY <1>2, <2>1
  <2>2. CASE i # 1
    BY <1>2, <2>2 DEF Decodable
  <2> QED
    BY <2>1, <2>2
<1>5. /\ (\E i \in DOMAIN cmds : cmds[i].cmd = "thread") \/ Held(entry_point)
      /\ \A i \in DOMAIN cmds : cmds[i].cmd = "thread" => Held(cmds[i].start)
  BY <1>4 DEF IInv, EntryComes
<1>6. ASSUME NEW i \in DOMAIN cmds, NEW a \in Nat, cmds[i].cmd = "thread", a = cmds[i].start
      PROVE  Held(a)'
  <2>1. Held(a)
    BY <1>5, <1>6
  <2> QED
    BY <2>1
<1>7. (\E i \in DOMAIN Tail(cmds) : Tail(cmds)[i].cmd = "thread") \/ Held(entry_point)'
  <2>1. CASE Head(cmds).cmd = "thread"
    <3>1. PICK a \in Nat : a = cmds[1].start
      BY <1>2, <1>3
    <3>2. Held(a)' /\ entry_point' = a
      BY <1>2, <1>6, <2>1, <3>1
    <3> QED
      BY <3>2 DEF Held
  <2>2. CASE Head(cmds).cmd # "thread" /\ Held(entry_point)
    <3>1. PICK a \in Nat : a = entry_point
      BY <1>1
    <3>2. Held(a)
      BY <2>2, <3>1
    <3>3. Held(a)' /\ entry_point' = a
      BY <2>2, <3>1, <3>2
    <3> QED
      BY <3>3 DEF Held
  <2>3. CASE Head(cmds).cmd # "thread" /\ \E i \in DOMAIN cmds : cmds[i].cmd = "thread"
    BY <1>2, <2>3
  <2> QED
    BY <1>5, <2>1, <2>2, <2>3
<1> QED
  BY <1>2, <1>6, <1>7

\* Every action keeps the entry point in a segment, or its command to come.
LEMMA EntryStep == IInv /\ [Next]_vars => EntryComes'
<1> SUFFICES ASSUME IInv, [Next]_vars PROVE EntryComes'
  OBVIOUS
<1>0. cmds \in Seq(Command)
  BY DEF IInv, TypeOK
<1>1. CASE DecodeKernel
  <2>1. cmds' \in Kernels /\ pc' = "decode"
    BY <1>1 DEF DecodeKernel
  <2>2. EntersItself(cmds')
    BY <2>1, KernelAssumption
  <2> QED
    BY <2>1, <2>2 DEF EntersItself, EntryComes, Held, Decodable
<1>2. CASE HandleSegment
  <2>1. NextIs("segment") /\ cmds # <<>> /\ cmds' = Tail(cmds) /\ UNCHANGED entry_point
           /\ Head(cmds).cmd = "segment" /\ pc = "decode"
    BY <1>2 DEF HandleSegment, NextIs
  <2>2. CASE Head(cmds).fsize = 0
    BY <1>2, <2>2 DEF HandleSegment, EntryComes
  <2>3. CASE Head(cmds).fsize # 0
    <3>1. regions' = regions \cup {Area("segment", Head(cmds).start, Head(cmds).size)} /\ pc' = pc
      BY <1>2, <2>3 DEF HandleSegment
    <3>2. \A a \in Nat : Held(a) => Held(a)'
      BY <1>0, <2>1, <3>1, HeldAsRegion
    <3> QED
      BY <2>1, <2>3, <3>1, <3>2, EntryGoesOn
  <2> QED
    BY <2>2, <2>3
<1>3. CASE HandleSymtab
  <2>1. cmds # <<>> /\ cmds' = Tail(cmds) /\ UNCHANGED <<pc, entry_point>> /\ Head(cmds).cmd = "symtab"
           /\ regions \subseteq regions' /\ pc = "decode"
    BY <1>3 DEF HandleSymtab, NextIs
  <2>2. \A a \in Nat : Held(a) => Held(a)'
    BY <1>0, <2>1, HeldWithoutHead
  <2> QED
    BY <2>1, <2>2, EntryGoesOn
<1>4. CASE HandleThread
  <2>1. cmds # <<>> /\ cmds' = Tail(cmds) /\ UNCHANGED <<pc, regions>> /\ Head(cmds).cmd = "thread"
           /\ entry_point' = Head(cmds).start /\ pc = "decode"
    BY <1>4 DEF HandleThread, NextIs
  <2>2. \A a \in Nat : Held(a) => Held(a)'
    BY <1>0, <2>1, HeldWithoutHead
  <2> QED
    BY <2>1, <2>2, EntryGoesOn
<1>5. CASE Unknown
  BY <1>5 DEF Unknown, EntryComes
<1>6. CASE CopyHeader
  <2>1. pc = "decode" /\ cmds = <<>> /\ pc' = "kexts" /\ UNCHANGED entry_point /\ regions \subseteq regions'
    BY <1>6 DEF CopyHeader
  <2>2. DOMAIN cmds = {}
    BY <2>1
  <2>3. \E r \in regions : r.owner = "segment" /\ Within(entry_point, r)
    BY <2>1, <2>2 DEF IInv, EntryComes, Decodable, Held
  <2> QED
    BY <2>1, <2>3 DEF EntryComes, Within
<1>7. CASE LoadByName
  <2>1. regions \subseteq regions'
    BY <1>7 DEF LoadByName, LoadKext
  <2> QED
    BY <1>7, <2>1, EntryStays DEF LoadByName
<1>8. CASE LoadEntry
  <2>1. regions \subseteq regions'
    BY <1>8 DEF LoadEntry, LoadKext
  <2> QED
    BY <1>8, <2>1, EntryStays DEF LoadEntry
<1>9. CASE LeaveDirectory \/ LoadFromFat \/ SetUpBootArgs
  BY <1>9, EntryStays DEF LeaveDirectory, LoadFromFat, SetUpBootArgs
<1>10. CASE UNCHANGED vars
  BY <1>10 DEF vars, IInv, EntryComes, Held, Within, Decodable
<1> QED
  BY <1>1, <1>2, <1>3, <1>4, <1>5, <1>6, <1>7, <1>8, <1>9, <1>10 DEF Next

-----------------------------------------------------------------------------
(* The results. *)

\* The invariant holds in every state of every execution.
THEOREM Invariance == Spec => []IInv
<1>1. Init => IInv
  <2> SUFFICES ASSUME Init PROVE IInv
    OBVIOUS
  <2>0. overwritten \in BOOLEAN
    BY Zenon DEF Init
  <2>1. TypeOK
    BY <2>0 DEF Init, TypeOK
  <2>2. OnlySegments /\ MapAgrees /\ EntryComes /\ AllBelow /\ RegionsApart /\ TopAboveAll
    BY DEF Init, OnlySegments, MapAgrees, EntryComes, AllBelow, RegionsApart, TopAboveAll
  <2> QED
    BY <2>1, <2>2 DEF IInv
<1>2. IInv /\ [Next]_vars => IInv'
  <2> SUFFICES ASSUME IInv, [Next]_vars PROVE IInv'
    OBVIOUS
  <2>1. TypeOK' /\ OnlySegments' /\ MapAgrees' /\ EntryComes'
    BY TypeStep, OrderStep, MapStep, EntryStep DEF IInv
  <2>2. CASE pc = "ready"
    <3>1. UNCHANGED vars
      BY <2>2 DEF Next, DecodeKernel, HandleSegment, HandleSymtab, HandleThread, Unknown,
         NextIs, CopyHeader, LoadByName, LoadEntry, LeaveDirectory, LoadFromFat, SetUpBootArgs
    <3> QED
      BY <2>1, <2>2, <3>1 DEF IInv, vars, RegionsApart, TopAboveAll
  <2>3. CASE pc # "ready" /\ pc' = "ready"
    <3>1. SetUpBootArgs
      BY <2>3 DEF Next, vars, DecodeKernel, HandleSegment, HandleSymtab, HandleThread,
         Unknown, NextIs, CopyHeader, LoadByName, LoadEntry, LeaveDirectory, LoadFromFat
    <3> QED
      BY <2>1, <2>3, <3>1, ReadyStep DEF IInv
  <2>4. CASE pc # "ready" /\ pc' # "ready"
    BY <2>1, <2>4, PlaceStep DEF IInv, Placed, TopAboveAll
  <2> QED
    BY <2>2, <2>3, <2>4
<1> QED
  BY <1>1, <1>2, PTL DEF Spec

\* Whatever kernels were tried and failed before, as long as there is memory
\* nothing the allocator hands out overlaps anything else the kernel needs.
THEOREM MemoryApart == Spec => []RegionsApart
<1>1. IInv => RegionsApart
  BY DEF IInv
<1> QED
  BY Invariance, <1>1, PTL

\* As long as there is memory, topOfKernelData is above all that was loaded.
THEOREM TopIsAbove == Spec => []TopAboveAll
<1>1. IInv => TopAboveAll
  BY DEF IInv
<1> QED
  BY Invariance, <1>1, PTL

\* The memory map names every part of the kernel, and every driver that is listed was
\* read, whatever failed before.
THEOREM MapNamesAll == Spec => []MapComplete
<1>1. IInv => MapComplete
  BY DEF IInv, MapAgrees, MapComplete
<1> QED
  BY Invariance, <1>1, PTL

\* The kernel is entered inside a segment of its own, if its file names one.
THEOREM EnteredInside == Spec => []EntryInKernel
<1>1. IInv => EntryInKernel
  BY DEF IInv, EntryComes, EntryInKernel
<1> QED
  BY Invariance, <1>1, PTL
=============================================================================
