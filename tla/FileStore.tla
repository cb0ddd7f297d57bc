----------------------------- MODULE FileStore -----------------------------
(***************************************************************************)
(* What FatFs promises of its files: each is a sequence of bytes, an open  *)
(* one has a position, a call on one file leaves the others alone, and a   *)
(* call that is refused changes nothing.  After a call that failed nothing *)
(* is promised of its file.                                                *)
(***************************************************************************)
EXTENDS Integers, Sequences

CONSTANT Files

VARIABLES
    content,   \* [Files -> sequences of bytes]
    position,  \* [Files -> Nat], 0 while a file is closed
    mode,      \* [Files -> SUBSET {"READ", "WRITE"}], {} while it is closed
    call       \* the last one: op, file, arg, how it ended, data it returned

store == <<content, position, mode, call>>

Init ==
    /\ position = [f \in Files |-> 0] /\ mode = [f \in Files |-> {}]
    /\ call = [op |-> "none", file |-> "", arg |-> 0, end |-> "ok", data |-> <<>>]

Least(a, b) == IF a < b THEN a ELSE b
Writes(f) == "WRITE" \in mode[f]
Kept(f) == mode'[f] = mode[f]

\* An opened file stands at its beginning, and may have been emptied.
Open(f, how) ==
    /\ mode[f] = {} /\ mode'[f] = how \cap {"READ", "WRITE"} /\ position'[f] = 0
    /\ content'[f] = IF "ALWAYS" \in how THEN <<>> ELSE content[f]

\* A read returns what is there, up to the end.
Read(f, n) ==
    /\ "READ" \in mode[f] /\ Kept(f)
    /\ position'[f] = Least(position[f] + n, Len(content[f])) /\ content'[f] = content[f]
    /\ call'.data = SubSeq(content[f], position[f] + 1, position'[f])

\* A write puts bytes over what is there and behind it, all if there is room.
Write(f, data) ==
    LET p == position'[f]
    IN  /\ Writes(f) /\ Kept(f)
        /\ p - position[f] \in 0 .. Len(data)
        /\ content'[f] = SubSeq(content[f], 1, position[f]) \o SubSeq(data, 1, p - position[f])
                             \o SubSeq(content[f], p + 1, Len(content[f]))

\* A seek stops at the end of a file that may not be written, and moves the end of
\* another if there is room; what is between is not defined.
Seek(f, n) ==
    LET old == Len(content[f])
    IN  /\ mode[f] # {} /\ Kept(f)
        /\ IF Writes(f) /\ n > old THEN position'[f] <= n ELSE position'[f] = Least(n, old)
        /\ Len(content'[f]) = IF position'[f] > old THEN position'[f] ELSE old
        /\ SubSeq(content'[f], 1, old) = content[f]

\* The file ends at its position.
Truncate(f) ==
    /\ Writes(f) /\ Kept(f) /\ position'[f] = position[f]
    /\ content'[f] = SubSeq(content[f], 1, position[f])

Sync(f) == mode[f] # {} /\ Kept(f) /\ position'[f] = position[f] /\ content'[f] = content[f]
Close(f) == mode[f] # {} /\ mode'[f] = {} /\ position'[f] = 0 /\ content'[f] = content[f]

Same(f) == content'[f] = content[f] /\ position'[f] = position[f] /\ Kept(f)

Next == \E f \in Files :
    /\ call'.file = f
    /\ \A g \in Files \ {f} : Same(g)
    /\ \/ call'.end = "failed"
       \/ call'.end = "refused" /\ Same(f)
       \/ call'.end = "ok" /\
          (\/ call'.op = "open" /\ Open(f, call'.arg)
           \/ call'.op = "read" /\ Read(f, call'.arg)
           \/ call'.op = "write" /\ Write(f, call'.arg)
           \/ call'.op = "seek" /\ Seek(f, call'.arg)
           \/ call'.op = "truncate" /\ Truncate(f)
           \/ call'.op = "sync" /\ Sync(f)
           \/ call'.op = "close" /\ Close(f))

Spec == Init /\ [][Next]_store
=============================================================================
