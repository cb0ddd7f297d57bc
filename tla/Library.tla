------------------------------ MODULE Library -------------------------------
(***************************************************************************)
(* The functions the other parts call, and the two devices text is written *)
(* to.  A function that keeps nothing between its calls is called with any *)
(* of its inputs, and a state is such a call; the console, the USB Gecko   *)
(* and the buttons are machines of their own.  `part' chooses among the    *)
(* four: they share vsnprintf and nothing else.                            *)
(***************************************************************************)
EXTENDS Console, Gecko, Printf, DeviceTree, ConfigFile, HfsRecords, NandFs, Buttons

CONSTANTS
    Numbers, TextDirectives,   \* directives for vsnprintf, of integers and strings
    Widths,                    \* widths as large as an int, and larger
    BufferSizes,
    Strings,                   \* with NUL, and what is behind it
    Code,                      \* characters' order
    Settings, ConfigLines,     \* what config.txt finds, and its lines
    Entries, Drivers, Lines0,  \* of the device tree: regions, drivers' addresses, command lines
    Names, Leaves,             \* of HFS+: names, and nodes as sequences of records
    Trees, Paths, Operations,  \* of the NAND memory: directory trees, paths, reads and seeks
    Versions,                  \* of its superblocks
    Colours

VARIABLES part, call
libraryVars == <<part, call>>

Calls ==
    \/ \E d \in Numbers, size \in BufferSizes :
          Settled(d) /\ call' = [fn |-> "vsnprintf", d |-> d, size |-> size]
    \/ \E d \in TextDirectives, size \in BufferSizes : call' = [fn |-> "vsnprintf", d |-> d, size |-> size]
    \/ \E n \in Widths : call' = [fn |-> "width", n |-> n]
    \/ \E dest, src \in Strings, n \in 1 .. 4 :
          n <= Len(dest) /\ call' = [fn |-> "string", dest |-> dest, src |-> src, n |-> n]
    \/ \E first, rest1 \in ConfigLines, ends \in {<<"\n">>, <<"\r", "\n">>}, s \in Settings :
          call' = [fn |-> "process_config_file", lines |-> <<first, rest1>>, ends |-> ends, s |-> s]
    \/ \E e \in Entries, d \in Drivers, commandLine \in Lines0 :
          call' = [fn |-> "build_device_tree", e |-> e, d |-> d, commandLine |-> commandLine]
    \/ \E a, b \in Names : call' = [fn |-> "name", a |-> a, b |-> b]
    \/ \E recs \in Leaves : call' = [fn |-> "record_init", recs |-> recs]
    \/ \E tree \in Trees, path \in Paths, versions \in Versions :
          call' = [fn |-> "nandfs_open", tree |-> tree, path |-> path, versions |-> versions]
    \/ \E tree \in Trees : \E i \in DOMAIN tree, ops \in Operations :
          tree[i].size # -1 /\ call' = [fn |-> "nandfs_read", tree |-> tree, i |-> i, ops |-> ops]
    \/ \E p, q \in Colours : call' = [fn |-> "make_yuv", p |-> p, q |-> q]

StringsRight(dest, src, n) ==
    /\ CopiesRight(dest, src, n) /\ AppendsRight(dest, src, n)
    /\ ComparesTexts(dest, src, n, Code) /\ SpansRight(dest, src) /\ TrimsRight(dest)

\* The pad and Reset are pressed in one part, Power and Eject in another.
Hands == (part # "pad" => pad = {} /\ ~reset) /\ (part # "power" => down = {} /\ raised = {})

Init ==
    /\ part \in {"calls", "console", "gecko", "pad", "power"} /\ call = [fn |-> "none"]
    /\ ConsoleInit /\ GeckoInit /\ (part = "gecko" \/ device = "none")
    /\ ButtonsInit /\ Hands /\ (part \in {"pad", "power"} \/ ~irq)
Next ==
    \/ part = "calls" /\ call.fn = "none" /\ Calls /\ UNCHANGED <<part, consoleVars, geckoVars, buttonVars>>
    \/ part = "console" /\ ConsoleNext /\ UNCHANGED <<libraryVars, geckoVars, buttonVars>>
    \/ part = "gecko" /\ GeckoNext /\ UNCHANGED <<libraryVars, consoleVars, buttonVars>>
    \/ part \in {"pad", "power"} /\ UNCHANGED <<libraryVars, consoleVars, geckoVars>> /\ ButtonsNext /\ Hands'
Spec == Init /\ [][Next]_<<libraryVars, consoleVars, geckoVars, buttonVars>>

\* Each function answers what its callers take its answer for: see the modules.
ResultsRight ==
    CASE call.fn = "vsnprintf" -> PrintsRight(call.d, SetToSeq(call.d.flags), call.size)
      [] call.fn = "width" -> WidthsRight(call.n)
      [] call.fn = "string" -> StringsRight(call.dest, call.src, call.n)
      [] call.fn = "process_config_file" -> ReadsRight(call.s, call.lines, call.ends)
      [] call.fn = "build_device_tree" -> TreeRight(64, call.e, call.d, call.commandLine)
      [] call.fn = "name" -> ComparesRight(call.a, call.b) /\ ConvertsRight(call.a, 3)
      [] call.fn = "record_init" -> RecordsRight(call.recs, 1024) /\ HeadersRight
      [] call.fn = "nandfs_open" -> OpensRight(call.tree, call.path, call.versions)
      [] call.fn = "nandfs_read" -> SessionRight(call.tree, call.i, call.ops)
      [] call.fn = "make_yuv" -> YuvRight(call.p, call.q)
      [] OTHER -> TRUE
=============================================================================
