------------------------------ MODULE Terminal ------------------------------
(***************************************************************************)
(* What the console promises (console.c): rows of text, filled from the    *)
(* top and scrolled when all are full; what is below the last line can be  *)
(* cleared, and the next line is the top one again.                        *)
(***************************************************************************)
EXTENDS Integers, Sequences

CONSTANTS Rows, Columns    \* how many rows there are, and characters in one

VARIABLES
    rows,    \* [0 .. Rows - 1 -> text]
    at,      \* the row below the last line
    asked    \* the last call

vars == <<rows, at, asked>>

Cut(text) == IF Len(text) <= Columns THEN text ELSE SubSeq(text, 1, Columns)
Blank == [r \in 0 .. Rows - 1 |-> <<>>]
Covered == <<"covered">>

Init == at = 0 /\ DOMAIN rows = 0 .. Rows - 1

PrintLine ==
    /\ asked'.op = "print"
    /\ IF at < Rows
       THEN rows' = [rows EXCEPT ![at] = Cut(asked'.text)] /\ at' = at + 1
       ELSE /\ rows' = [r \in 0 .. Rows - 1 |-> IF r = Rows - 1 THEN Cut(asked'.text) ELSE rows[r + 1]]
            /\ at' = at
Clear ==
    /\ asked'.op = "clear"
    /\ rows' = [r \in 0 .. Rows - 1 |-> IF r < at THEN rows[r] ELSE <<>>] /\ at' = 0
Setup == asked'.op = "setup" /\ rows' = Blank /\ at' = at
Picture == asked'.op = "picture" /\ rows' = [r \in 0 .. Rows - 1 |-> Covered] /\ at' = at

Next == PrintLine \/ Clear \/ Setup \/ Picture
Spec == Init /\ [][Next]_vars
=============================================================================
