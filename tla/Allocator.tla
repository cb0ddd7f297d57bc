----------------------------- MODULE Allocator -----------------------------
(***************************************************************************)
(* What malloc, calloc, realloc, memalign, independent_comalloc and free   *)
(* promise (malloc.h): blocks that are apart, as large as asked for,       *)
(* aligned, with contents that only their users change.  Requests are only *)
(* refused when they are huge.  Once memory runs out nothing is promised;  *)
(* it only does when no gap between blocks has room for the request and    *)
(* what the allocator keeps beside it (Slack), or for the double of it     *)
(* once a request was refused.                                             *)
(***************************************************************************)
EXTENDS Integers, Sequences, TLC

CONSTANTS Base, End, Limit, Slack

VARIABLES
    live,       \* the blocks in use, with their sizes
    call,       \* the last call and its answer
    refused,    \* a request was refused
    out         \* memory ran out

avars == <<live, call, refused, out>>

Apart(l) == \A b, c \in DOMAIN l : b < c => b + l[b] <= c
Free(l, mem, n) == \A b \in DOMAIN l : b + l[b] <= mem \/ mem + n <= b
Need(n) == (IF refused THEN 2 * n ELSE n) + Slack
Crowded(n) == \A mem \in {a \in Base .. End - Need(n) : a % 8 = 0} : ~Free(live, mem, Need(n))
Minus(l, b) == [c \in DOMAIN l \ {b} |-> l[c]]

\* The answer: new blocks of these sizes besides those of l, nothing, or memory is out.
Granted(l, sizes, align) ==
    LET new == call'.parts
    IN  /\ Len(new) = Len(sizes) /\ UNCHANGED <<refused, out>>
        /\ \A i \in DOMAIN new : new[i] % align = 0 /\ new[i] >= Base /\ new[i] + sizes[i] <= End /\ new[i] \notin DOMAIN l
        /\ \A i, j \in DOMAIN new : new[i] = new[j] => i = j
        /\ live' = [b \in DOMAIN l \cup {new[i] : i \in DOMAIN new} |->
                       IF b \in DOMAIN l THEN l[b] ELSE sizes[CHOOSE i \in DOMAIN new : new[i] = b]]
        /\ Apart(live')
Refused(n) == n >= Limit /\ call'.ret = 0 /\ UNCHANGED <<live, out>> /\ (refused => refused')
RanOut(n) == Crowded(n) /\ out' /\ UNCHANGED live

Served(op, l, sizes, align, n) ==
    /\ ~out /\ call'.op = op /\ call'.seen
    /\ Granted(l, sizes, align) \/ Refused(n) \/ RanOut(n)

Total(sizes) == LET sum[i \in 0 .. Len(sizes)] == IF i = 0 THEN 0 ELSE sum[i - 1] + sizes[i] + 16 IN sum[Len(sizes)]
Malloc == LET n == call'.arg IN Served("malloc", live, <<n>>, 8, n)
Calloc == LET n == call'.arg[1] * call'.arg[2] IN Served("calloc", live, <<n>>, 8, n)
Memalign == LET a == call'.arg[1] n == call'.arg[2] IN Served("memalign", live, <<n>>, a, n + 2 * a)
Realloc ==
    LET b == call'.arg[1] n == call'.arg[2]
    IN  b \in DOMAIN live /\ Served("realloc", Minus(live, b), <<n>>, 8, n)
Independent == LET s == Append(call'.arg, 4 * Len(call'.arg)) IN Served("independent", live, s, 8, Total(s))
Given == Served("given", live, call'.arg, 8, Total(call'.arg))
Release == call'.op = "free" /\ call'.seen /\ live' = Minus(live, call'.arg) /\ UNCHANGED <<refused, out>>
Trim == call'.op = "trim" /\ call'.seen /\ UNCHANGED <<live, refused, out>>
Usable ==
    /\ call'.op = "usable" /\ UNCHANGED <<live, refused, out>>
    /\ call'.ret >= live[call'.arg]
    /\ \A b \in DOMAIN live : b > call'.arg => call'.arg + call'.ret <= b

Init == Apart(live) /\ ~out /\ ~refused /\ call.op = "none"
Next ==
    CASE call'.op = "malloc" -> Malloc
      [] call'.op = "calloc" -> Calloc
      [] call'.op = "memalign" -> Memalign
      [] call'.op = "realloc" -> Realloc
      [] call'.op = "independent" -> Independent
      [] call'.op = "given" -> Given
      [] call'.op = "free" -> Release
      [] call'.op = "trim" -> Trim
      [] call'.op = "usable" -> Usable
Spec == Init /\ [][Next]_avars
=============================================================================
