------------------------------- MODULE MCHeap -------------------------------
(* A heap of 540 bytes, of which chunks from 32 bytes on are large, in two bins *)
(* for 32 to 63 bytes, one for 64 to 95, and one for the rest.                 *)
EXTENDS Heap
MCAlignments == {<<16, 20>>, <<32, 20>>}
MCArrays == {<<3, 4>>, <<32, 33>>}
MCGroups == {<<12, 20>>}

(* A new heap; and one with chunks of 88, 72, 80 and 64 bytes that others keep *)
(* apart, given back in any order; and one that is nearly full.                *)
Trie == <<84, 12, 68, 12, 76, 12, 60, 12>>
Orders == {f \in [1 .. 4 -> {84, 68, 76, 60}] : \A i, j \in 1 .. 4 : f[i] = f[j] => i = j}
Firsts(op, sizes) == [i \in DOMAIN sizes |-> [op |-> op, n |-> sizes[i]]]
Begun(sizes, freed, n) == [first |-> Firsts("malloc", sizes) \o Firsts("free", freed), calls |-> n]
MCUses == {Begun(<<>>, <<>>, 4), Begun(<<228, 140, 12>>, <<140>>, 2)} \cup
          {Begun(Trie, f, 2) : f \in Orders \cup {<<84, 68>>, <<60, 76, 84>>}}
MCView == <<h, live, first, calls>>
=============================================================================
