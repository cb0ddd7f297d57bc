--------------------------- MODULE MCKernelMemory ---------------------------
(* Small kernels and kernel extensions. *)
EXTENDS KernelMemory, TLC
CONSTANTS system, pci, plugin, broken

Cmd(c, start, size, fsize) == [cmd |-> c, start |-> start, size |-> size, fsize |-> fsize]

\* A kernel as Mac OS X 10.4 has it, one with a load command the decoder does
\* not know, and one with a segment that is not in the file.
Good    == <<Cmd("segment", 1, 3, 3), Cmd("segment", 5, 2, 1), Cmd("symtab", 0, 3, 0),
             Cmd("thread", 2, 1, 0)>>
Newer   == <<Cmd("segment", 2, 6, 5), Cmd("symtab", 0, 2, 0), Cmd("other", 0, 1, 0),
             Cmd("thread", 4, 1, 0)>>
Zeroed  == <<Cmd("thread", 9, 1, 0), Cmd("segment", 1, 2, 2), Cmd("segment", 3, 1, 0)>>
SomeKernels == {Good, Newer, Zeroed}

SomePlists  == (system :> 1) @@ (pci :> 2) @@ (plugin :> 1) @@ (broken :> 0)
\* plugin stands in a directory that is no .kext, so that the name of its
\* binary is whatever the stack held (bin_name): it may or may not be found.
SomeBins    == (system :> {0}) @@ (pci :> {3}) @@ (plugin :> {0, 2}) @@ (broken :> {0})
SomePlugins == (system :> <<plugin, pci>>) @@ (pci :> <<>>) @@ (plugin :> <<broken>>)
               @@ (broken :> <<>>)
ByName      == <<system, broken, pci>>
OnFat       == <<broken, plugin>>
=============================================================================
