---------------------------- MODULE MCBootLoop -----------------------------
(* Small sets of SD cards for the boot loop. *)
EXTENDS BootLoop, TLC
CONSTANTS mac, boot, plain

Part(t, k) == [type |-> t, kernel |-> k]

\* As README.md sets cards up: a system card with its partition map, two HFS+
\* partitions and a FAT one that overrides the kernel; a BootMii card, which
\* has no Apple partition map but a config file; and a card with a FAT
\* partition in front of a single HFS+ one.
GoodLayout ==
    (mac   :> <<Part("map", "none"), Part("hfs", "good"), Part("hfs", "good"),
                Part("fat", "none")>>)
    @@ (boot  :> <<>>)
    @@ (plain :> <<Part("fat", "good"), Part("hfs", "good")>>)

\* The same cards with a kernel missing, a file that is no kernel, and an
\* empty one.
BadLayout ==
    (mac   :> <<Part("map", "none"), Part("hfs", "junk"), Part("hfs", "none"),
                Part("fat", "none")>>)
    @@ (boot  :> <<>>)
    @@ (plain :> <<Part("fat", "empty"), Part("hfs", "empty")>>)

\* A card whose only HFS+ volume has no /mach_kernel.
MissingLayout == [c \in Cards |-> <<Part("hfs", "none")>>]

World(layout, any) == [layout |-> layout, resets |-> any, fast |-> any, errors |-> any]
CarefulOrNot == {World(GoodLayout, FALSE), World(BadLayout, TRUE)}
NoKernel == {World(MissingLayout, FALSE)}

Configs == (mac :> NoText) @@ (boot :> "args") @@ (plain :> NoText)
=============================================================================
