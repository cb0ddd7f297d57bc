----------------------------- MODULE DeviceTree -----------------------------
(***************************************************************************)
(* The flattened device tree (device_tree.c): nodes and properties one     *)
(* behind the other, each node with the numbers of properties and children *)
(* that follow.  Whoever reads the tree has nothing but these numbers to   *)
(* go by; they are written by hand, apart from what they count.            *)
(*                                                                         *)
(* Memory is a function from the addresses of headers to the headers, a    *)
(* property's with its length and, if it is one, its text.                 *)
(***************************************************************************)
EXTENDS Printf

DTNodeSize == 8
DTPropertySize == 36
NameSize == 32

\* Properties: a string with its end, words, halves and bytes, and no value.
Property(name, length, text) == [name |-> name, length |-> length, text |-> text]
Str(name, text) == Property(name, Len(text) + 1, text)
U32s(name, n) == Property(name, 4 * n, "")
U16(name) == Property(name, 2, "")
U8(name) == Property(name, 1, "")
Flag(name) == Property(name, 0, "")

UnpaddedLength(length) == length                                               \* mistake
pad_length(length) == ((length + 3) \div 4) * 4
Named(name) == IF Len(name) < NameSize THEN name ELSE SubSeq(name, 1, NameSize - 1)
create_node(t, nProps, nChildren) ==
    [t EXCEPT !.mem = (t.end :> [k |-> "node", nProperties |-> nProps, nChildren |-> nChildren]) @@ @,
              !.end = @ + DTNodeSize]
add_property(t, p) ==
    [t EXCEPT !.mem = (t.end :> [k |-> "prop", name |-> Named(p.name), length |-> p.length, text |-> p.text]) @@ @,
              !.end = @ + DTPropertySize + pad_length(p.length)]

-----------------------------------------------------------------------------
\* build_device_tree.  A block is a call of create_node and the calls of add_property
\* in its braces; depth tells how deep in braces it is.
Block(depth, nProps, nChildren, props) ==
    [depth |-> depth, nProps |-> nProps, nChildren |-> nChildren, props |-> props]
Cells == <<U32s("#address-cells", 1), U32s("#size-cells", 1)>>
Device(name, compatible) == <<Str("name", name), Str("compatible", compatible), U32s("reg", 2)>>
Interrupt == <<U32s("interrupts", 1), U32s("interrupt-parent", 1)>>
Controller == <<U32s("#interrupt-cells", 1), U32s("AAPL,phandle", 1), Flag("interrupt-controller")>>

RootBlock ==
    Block(0, 5, 6, <<Str("name", "device-tree"), Str("model", "iMac,1"), Property("compatible", 25, "")>> \o Cells)
CpuBlocks ==
    <<Block(1, 3, 1, <<Str("name", "cpus")>> \o Cells),
      Block(2, 14, 0, <<Str("name", "PowerPC,G3"), U32s("reg", 1), Str("device_type", "cpu"),
          U32s("clock-frequency", 1), U32s("timebase-frequency", 1), U32s("bus-frequency", 1), U32s("cpu-version", 1),
          U32s("d-cache-size", 1), U32s("i-cache-size", 1), U32s("d-cache-block-size", 1), U32s("i-cache-block-size", 1),
          U32s("d-cache-sets", 1), U32s("i-cache-sets", 1), U32s("reservation-granularity", 1)>>)>>
MemoryBlock == Block(1, 3, 0, <<Str("name", "memory"), Str("device_type", "memory"), U32s("reg", 4)>>)
HollywoodBlock ==
    Block(1, 6, 9, <<Str("name", "hollywood"), Str("device_type", "hollywood"), Str("compatible", "nintendo,hollywood")>>
                     \o Cells \o <<U32s("ranges", 9)>>)
VideoToExi ==
    <<Block(2, 5, 0, Device("video", "nintendo,hollywood-vi") \o Interrupt),
      Block(2, 6, 0, Device("pic0", "nintendo,flipper-pic") \o Controller),
      Block(2, 3, 0, Device("ipc", "nintendo,hollywood-ipc")),
      Block(2, 5, 0, Device("exi", "nintendo,hollywood-exi") \o Interrupt)>>
UsbToControl ==
    <<Block(2, 5, 0, Device("ehci", "nintendo,hollywood-usb-ehci") \o Interrupt),
      Block(2, 8, 0, Device("ohci", "nintendo,hollywood-usb-ohci") \o Interrupt
                       \o <<U16("device-id"), U16("vendor-id"), U8("revision-id")>>),
      Block(2, 5, 0, Device("sdhc", "nintendo,hollywood-sdhci") \o Interrupt),
      Block(2, 8, 0, Device("pic1", "nintendo,hollywood-pic") \o Controller \o Interrupt),
      Block(2, 3, 0, Device("control", "nintendo,hollywood-control"))>>

\* The regions of memory: of the kernel's file, by name, and of drivers, by address.
DriverName(address) == FoldLeft(LAMBDA s, c : s \o c, "Driver-", convert(address, 16, Lower))
MapBlocks(entries, drivers) ==
    <<Block(1, 1, 1, <<Str("name", "chosen")>>),
      Block(2, 3 + Len(entries) + Len(drivers), 0,
            <<Str("name", "memory-map"), U32s("BootArgs", 2), U32s("framebuffer", 2)>>
              \o [i \in DOMAIN entries |-> U32s(entries[i], 2)]
              \o [i \in DOMAIN drivers |-> U32s(DriverName(drivers[i]), 2)])>>
LastBlocks(commandLine) ==
    <<Block(1, 3, 0, <<Str("name", "options"), Str("boot-args", commandLine), Str("boot-command", "boot")>>),
      Block(1, 1, 0, <<Str("name", "nvram")>>)>>

Blocks(entries, drivers, commandLine) ==
    <<RootBlock>> \o CpuBlocks \o <<MemoryBlock, HollywoodBlock>> \o VideoToExi \o UsbToControl
      \o MapBlocks(entries, drivers) \o LastBlocks(commandLine)
Built(t, block) == FoldLeft(add_property, create_node(t, block.nProps, block.nChildren), block.props)
build_device_tree(start, entries, drivers, commandLine) ==
    FoldLeft(Built, [end |-> start, mem |-> <<>>], Blocks(entries, drivers, commandLine))

-----------------------------------------------------------------------------
\* Reading a tree: the address of the i-th property, of the i-th child, and a node's size.
RECURSIVE PropertyAt(_, _, _), ChildAt(_, _, _), get_node_size(_, _), PrintNode(_, _, _)
BehindProperty(mem, prop) == prop + DTPropertySize + pad_length(mem[prop].length)
PropertyAt(mem, node, i) ==
    IF i = 0 THEN node + DTNodeSize ELSE BehindProperty(mem, PropertyAt(mem, node, i - 1))
BehindNode(mem, node) == node + get_node_size(mem, node)
ChildAt(mem, node, i) ==
    IF i = 0 THEN PropertyAt(mem, node, mem[node].nProperties) ELSE BehindNode(mem, ChildAt(mem, node, i - 1))
get_node_size(mem, node) == ChildAt(mem, node, mem[node].nChildren) - node

Properties(mem, node) == [i \in 1 .. mem[node].nProperties |-> PropertyAt(mem, node, i - 1)]
find_property(mem, node, name) ==
    LET is == SelectSeq(Properties(mem, node), LAMBDA a : mem[a].name = name) IN IF is = <<>> THEN 0 ELSE Head(is)

\* _print_device_tree: what it shows of each node, and how far indented.
NodeLine(mem, node, depth) ==
    [depth |-> depth, name |-> mem[find_property(mem, node, "name")].text,
     props |-> [i \in 1 .. mem[node].nProperties |-> mem[Properties(mem, node)[i]].name]]
PrintNode(mem, node, depth) ==
    <<NodeLine(mem, node, depth)>>
      \o FlattenSeq([i \in 1 .. mem[node].nChildren |-> PrintNode(mem, ChildAt(mem, node, i - 1), depth + 1)])
print_device_tree(mem, node) == PrintNode(mem, node, 0)

-----------------------------------------------------------------------------
\* A reader finds each node with its properties where the source has it, and nothing else
\* up to the end; a driver's name fits in the array it is printed to.
Intended(blocks) ==
    [i \in DOMAIN blocks |-> [depth |-> blocks[i].depth, name |-> blocks[i].props[1].text,
                              props |-> [j \in DOMAIN blocks[i].props |-> blocks[i].props[j].name]]]
DriverNameSize == 15
TreeRight(start, entries, drivers, commandLine) ==
    LET t == build_device_tree(start, entries, drivers, commandLine)
    IN  /\ print_device_tree(t.mem, start) = Intended(Blocks(entries, drivers, commandLine))
        /\ get_node_size(t.mem, start) = t.end - start
        /\ \A a \in DOMAIN t.mem : a % 4 = 0
        /\ \A i \in DOMAIN drivers : Len(DriverName(drivers[i])) < DriverNameSize
=============================================================================
