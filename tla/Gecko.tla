------------------------------- MODULE Gecko --------------------------------
(***************************************************************************)
(* The debug output over a USB Gecko in slot B (gecko.c).  A command is    *)
(* written to the EXI data register and exchanged for the device's answer  *)
(* while the program polls, a limited number of times; then it reads the   *)
(* register, whether the exchange is over or not, and deselects the        *)
(* device, which ends the exchange.  All that the program tells of a word  *)
(* is whether it is the right identifier, or has the bit for a byte that   *)
(* was taken.                                                              *)
(***************************************************************************)
EXTENDS Integers, Sequences, FiniteSets

CONSTANTS
    MaxPolls,    \* polls of a command: 1000
    Texts,       \* what vsprintf makes of what is printed: see Printf
    Bytes        \* characters, in texts and for gecko_putc

ASSUME GeckoAssumption == MaxPolls \in Nat /\ \A t \in Texts : t \in Seq(Bytes)

VARIABLES
    device,     \* what is in the slot: a Gecko, a memory card or nothing
    busy,       \* CR: an exchange is under way
    data,       \* DATA
    task,       \* what the command is for
    pc, polls,  \* where the command is, and polls left
    word,       \* what it read
    enabled,    \* gecko_console_enabled
    text, rest, \* of printf: its text, and what is left of it
    tries,      \* bytes tried for it, each with what the word read said and whether polls
                \* were left when it was read (history)
    late,       \* the command's polls were used up (history)
    got         \* what the device took of the text (history)

geckoVars == <<device, busy, data, task, pc, polls, word, enabled, text, rest, tries, late, got>>

Devices == {"gecko", "card", "none"}
GeckoInit ==
    /\ device \in Devices /\ busy = FALSE /\ data = "zero" /\ task = "none" /\ pc = "off" /\ polls = 0
    /\ word = "zero" /\ enabled = FALSE /\ text = <<>> /\ rest = <<>> /\ tries = <<>> /\ late = FALSE /\ got = <<>>

\* CSR, DATA and CR are written: the device is selected, and the exchange begins.
Begin(what) ==
    /\ busy' = TRUE /\ data' = "shifting" /\ task' = what /\ polls' = MaxPolls /\ pc' = "polling" /\ late' = FALSE

\* The device's side (external): what it may answer.  Nobody drives an empty slot.
Answers ==
    CASE task \in {"getid", "getid again"} ->
            (IF device = "gecko" THEN {"zero"} ELSE IF device = "card" THEN {"card"} ELSE {"zero", "ones"})
      [] task = "isalive" -> IF device = "gecko" THEN {"0470"} ELSE {"zero", "ones"}
      [] OTHER -> IF device = "gecko" THEN {"taken", "refused"} ELSE {"refused"}
Exchange ==
    /\ busy /\ busy' = FALSE
    /\ \E answer \in Answers :
           /\ data' = answer
           /\ got' = IF answer = "taken" THEN Append(got, Head(rest)) ELSE got
    /\ UNCHANGED <<device, task, pc, polls, word, enabled, text, rest, tries, late>>

\* _gecko_getid polls without limit, two exchanges long.
AskedId ==
    /\ pc = "polling" /\ task = "getid" /\ ~busy /\ Begin("getid again")
    /\ UNCHANGED <<device, word, enabled, text, rest, tries, got>>
GotId ==
    /\ pc = "polling" /\ task = "getid again" /\ ~busy /\ pc' = "read"
    /\ UNCHANGED <<device, busy, data, task, polls, word, enabled, text, rest, tries, late, got>>

\* _gecko_command: a poll that finds it busy, and the last one or one that finds it over.
_gecko_poll ==
    /\ pc = "polling" /\ task \notin {"getid", "getid again"} /\ busy /\ polls > 0 /\ polls' = polls - 1
    /\ UNCHANGED <<device, busy, data, task, pc, word, enabled, text, rest, tries, late, got>>
_gecko_polled ==
    /\ pc = "polling" /\ task \notin {"getid", "getid again"} /\ (~busy \/ polls = 0)
    /\ pc' = "read" /\ late' = busy
    /\ UNCHANGED <<device, busy, data, task, polls, word, enabled, text, rest, tries, got>>
\* Read in the middle of an exchange, the bits are anything.
WordsRead == IF data = "shifting" THEN {"taken", "refused"} ELSE {data}
ReadData ==
    /\ pc = "read" /\ word' \in WordsRead /\ pc' = "deselect"
    /\ UNCHANGED <<device, busy, data, task, polls, enabled, text, rest, tries, late, got>>

\* What follows when the device is deselected: gecko_init and gecko_isalive,
Deselected == pc = "deselect" /\ busy' = FALSE
_gecko_getid ==
    /\ Deselected /\ task = "getid again" /\ data' = data
    /\ IF word = "zero"
       THEN task' = "isalive" /\ pc' = "begin"
       ELSE task' = "none" /\ pc' = "idle"
    /\ UNCHANGED <<device, polls, word, enabled, text, rest, tries, late, got>>
_gecko_command ==
    /\ pc = "begin" /\ Begin(task) /\ UNCHANGED <<device, word, enabled, text, rest, tries, got>>
IsAlive(w) == w = "0470"
gecko_isalive ==
    /\ Deselected /\ task = "isalive" /\ enabled' = IsAlive(word) /\ task' = "none" /\ pc' = "idle"
    /\ UNCHANGED <<device, data, polls, word, text, rest, tries, late, got>>

\* gecko_sendbuffer, that stops at a byte that was not taken, and gecko_putc.
GoesOnAnyway(w) == TRUE                                                        \* mistake
GoesOn(w) == w = "taken"
gecko_sendbuffer ==
    /\ Deselected /\ task \in {"send", "putc"} /\ data' = data
    /\ tries' = Append(tries, [byte |-> Head(rest), said |-> word, polls |-> IF late THEN "used up" ELSE "left"])
    /\ IF GoesOn(word) /\ Len(rest) > 1
       THEN pc' = "begin" /\ rest' = Tail(rest) /\ task' = task
       ELSE pc' = "idle" /\ task' = "none" /\ rest' = IF GoesOn(word) THEN <<>> ELSE rest
    /\ UNCHANGED <<device, polls, word, enabled, text, late, got>>

\* The calls.
gecko_init ==
    /\ pc = "off" /\ Begin("getid")
    /\ UNCHANGED <<device, word, enabled, text, rest, tries, got>>
Send(what, t) ==
    /\ text' = t /\ rest' = t /\ tries' = <<>> /\ got' = <<>> /\ late' = FALSE
    /\ IF t = <<>> THEN task' = "none" /\ pc' = pc ELSE task' = what /\ pc' = "begin"
    /\ UNCHANGED <<device, busy, data, polls, word, enabled>>
printf ==
    /\ pc = "idle" /\ enabled
    /\ \E t \in Texts : Send("send", t)
gecko_putc ==
    /\ pc = "idle" /\ \E c \in Bytes : Send("putc", <<IF c = "\r" THEN "\n" ELSE c>>)

GeckoNext ==
    \/ gecko_init \/ printf \/ gecko_putc
    \/ Exchange \/ AskedId \/ GotId \/ _gecko_poll \/ _gecko_polled \/ ReadData
    \/ _gecko_getid \/ _gecko_command \/ gecko_isalive \/ gecko_sendbuffer
GeckoSpec == GeckoInit /\ [][GeckoNext]_geckoVars

-----------------------------------------------------------------------------
\* printf writes to nothing but a Gecko.  What a Gecko took of a text is the beginning of
\* it, all up to a byte it refused, and printf answers how long that is; only where the
\* polls did not suffice nobody knows.
Tried == 1 .. Len(tries)
Taken(i) == tries[i].said = "taken"
Late(i) == tries[i].polls = "used up"
printf_answer == Len(text) - Len(rest)
GeckoSent ==
    /\ enabled => device = "gecko"
    /\ pc = "idle" /\ device = "gecko" =>
         /\ Len(tries) <= Len(text) /\ \A i \in Tried : tries[i].byte = text[i]
         /\ Len(tries) < Len(text) => Len(tries) \in Tried /\ ~Taken(Len(tries))
         /\ \A i \in Tried : i < Len(tries) => Taken(i)
         /\ (\A i \in Tried : ~Late(i)) => got = SubSeq(text, 1, printf_answer)
         /\ \E took \in SUBSET Tried :
               /\ \A i \in Tried : ~Late(i) => (i \in took <=> Taken(i))
               /\ Len(got) = Cardinality(took)
               /\ \A i \in took : got[Cardinality({j \in took : j <= i})] = tries[i].byte

-----------------------------------------------------------------------------
\* What GeckoSent rests on.  The byte at hand is the device's, when it has taken it and
\* the program has yet to see that.
Sending == task \in {"send", "putc"}
Commanded == pc \in {"polling", "read", "deselect"}
Taking == Sending /\ Commanded /\ ~busy /\ data = "taken"

WordsSeen == {"zero", "ones", "card", "0470", "taken", "refused"}
Chars == Bytes \cup {"\n"}
Try == [byte : Chars, said : WordsSeen, polls : {"left", "used up"}]
TextTypeOK ==
    /\ polls \in 0 .. MaxPolls
    /\ text \in Seq(Chars) /\ rest \in Seq(Chars) /\ got \in Seq(Chars) /\ tries \in Seq(Try)
GeckoTypeOK ==
    /\ device \in Devices /\ busy \in BOOLEAN /\ enabled \in BOOLEAN /\ late \in BOOLEAN
    /\ pc \in {"off", "begin", "polling", "read", "deselect", "idle"}
    /\ task \in {"none", "getid", "getid again", "isalive", "send", "putc"}
    /\ data \in WordsSeen \cup {"shifting"} /\ word \in WordsSeen

\* Where an exchange can be under way, and what a word that was read in time is; no
\* answer but a Gecko's enables the console.
WireTrue ==
    /\ busy => Commanded /\ data = "shifting"
    /\ Commanded /\ data = "shifting" => busy
    /\ pc \in {"read", "deselect"} /\ ~late => ~busy
    /\ pc = "deselect" /\ ~late => word = data
    /\ Commanded => task # "none"
    /\ pc = "begin" => task = "isalive" \/ Sending
    /\ pc \in {"off", "idle"} => task = "none"
    /\ data = "0470" \/ word = "0470" \/ enabled => device = "gecko"

\* How far the text has come: what is left of it is behind the bytes tried.
TextTrue ==
    /\ Sending \/ pc = "idle" \/ (text = <<>> /\ rest = <<>> /\ tries = <<>> /\ got = <<>>)
    /\ Len(tries) <= Len(text)
    /\ \A i \in Tried : tries[i].byte = text[i] /\ (i < Len(tries) => Taken(i))
    /\ Sending => /\ Len(rest) > 0 /\ Len(tries) + Len(rest) = Len(text)
                  /\ \A i \in 1 .. Len(rest) : rest[i] = text[Len(tries) + i]
                  /\ \A i \in Tried : Taken(i)
    /\ pc = "idle" =>
          \/ Len(rest) = 0 /\ Len(tries) = Len(text) /\ \A i \in Tried : Taken(i)
          \/ /\ Len(tries) > 0 /\ ~Taken(Len(tries))
             /\ Len(rest) = Len(text) - Len(tries) + 1

\* The device has the bytes tried at the places in took, and the one it is taking.
Place(took, i) == Cardinality({j \in took : j <= i})
Has(took) ==
    /\ \A i \in Tried : ~Late(i) => (i \in took <=> Taken(i))
    /\ \A i \in took : got[Place(took, i)] = tries[i].byte
    /\ Len(got) = Cardinality(took) + (IF Taking THEN 1 ELSE 0)
    /\ Taking => got[Len(got)] = rest[1]
GotTrue == \E took \in SUBSET Tried : Has(took)

GeckoInv == GeckoTypeOK /\ TextTypeOK /\ WireTrue /\ TextTrue /\ GotTrue
=============================================================================
