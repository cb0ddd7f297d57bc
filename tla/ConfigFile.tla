----------------------------- MODULE ConfigFile -----------------------------
(***************************************************************************)
(* config.txt (main.c 186-272): its characters, read into memory with a    *)
(* NUL behind them, are walked from the first to the last; each value that *)
(* has a key is put to use.                                                *)
(*                                                                         *)
(* Before it string.c, which it is read with. Memory is a sequence of      *)
(* characters, a string the ones before its first NUL; a pointer into a    *)
(* string is the rest of it. What a function writes to is given as it is   *)
(* before, and returned as it is after.                                    *)
(***************************************************************************)
EXTENDS Integers, SequencesExt, FiniteSetsExt

CONSTANTS
    MaxFile,      \* of bytes in config.txt: 2048
    MaxArgs,      \* of characters in boot-args: 240
    Words         \* what the program compares with: a key or a mode to its characters

-----------------------------------------------------------------------------
(* string.c *)

EndMark == "NUL"
Text(s) == SubSeq(s, 1, SelectInSeq(s, LAMBDA c : c = EndMark) - 1)
AtMost(s, n) == SubSeq(s, 1, Min({n, Len(s)}))

strlen(s) == Len(Text(s))
strnlen(s, count) == IF EndMark \in ToSet(AtMost(s, count)) THEN strlen(s) ELSE count
memset(b, c, len) == [i \in DOMAIN b |-> IF i <= len THEN c ELSE b[i]]
memcpy(dst, src, len) == [i \in DOMAIN dst |-> IF i <= len THEN src[i] ELSE dst[i]]
bcopy(src, dst, len) == memcpy(dst, src, len)
bzero(dst, len) == memset(dst, EndMark, len)

\* Comparisons stop at the first difference; Code orders characters.
FirstOf(is, otherwise) == IF is = {} THEN otherwise ELSE Min(is)
memcmp(s1, s2, len, Code) ==
    LET i == FirstOf({j \in 1 .. len : s1[j] # s2[j]}, 0) IN IF i = 0 THEN 0 ELSE Code[s1[i]] - Code[s2[i]]
Stops(s1, s2) == {j \in DOMAIN s1 : j \in DOMAIN s2 /\ (s1[j] = EndMark \/ s1[j] # s2[j])}
strcmp(s1, s2, Code) == LET i == Min(Stops(s1, s2)) IN Code[s1[i]] - Code[s2[i]]
strncmp(s1, s2, n, Code) ==
    LET i == FirstOf({j \in Stops(s1, s2) : j <= n}, n + 1)
    IN  IF i = n + 1 THEN 0 ELSE Code[s1[i]] - Code[s2[i]]

\* strlcpy returns the length of what it copied, not that of the source.
Terminated(dest, src, len) == [memcpy(dest, src, len) EXCEPT ![len + 1] = EndMark]
CopiedWhole(needed, maxlen) == IF needed > maxlen THEN maxlen - 1 ELSE needed        \* mistake
CopiedLength(needed, maxlen) == IF needed >= maxlen THEN maxlen - 1 ELSE needed
strlcpy(dest, src, maxlen) ==
    LET needed == strnlen(src, maxlen - 1) + 1
    IN  [dest |-> Terminated(dest, src, CopiedLength(needed, maxlen)), ret |-> needed - 1]
strncpy(s1, s2, n) == memcpy(s1, s2, Min({n, strlen(s2) + 1}))
From(s, i) == SubSeq(s, i + 1, Len(s))
strlcat(dest, src, maxlen) ==
    LET used == strnlen(dest, maxlen - 1)
        r == strlcpy(From(dest, used), src, maxlen - used)
    IN  [dest |-> SubSeq(dest, 1, used) \o r.dest, ret |-> used + r.ret]

\* Positions count from 0; -1 is NULL.
strchr(s, c) == FirstOf({i - 1 : i \in {j \in DOMAIN Text(s) : s[j] = c}}, -1)
strspn(s1, s2) == FirstOf({i - 1 : i \in {j \in DOMAIN Text(s1) : s1[j] \notin ToSet(Text(s2))}}, strlen(s1))
strcspn(s1, s2) == FirstOf({i - 1 : i \in {j \in DOMAIN Text(s1) : s1[j] \in ToSet(Text(s2))}}, strlen(s1))

\* str_trim_spaces returns a pointer behind the leading spaces, and ends the string
\* before the trailing ones.
Leading(s) == FirstOf({i - 1 : i \in {j \in DOMAIN s : s[j] # " "}}, 0)
LastLetter(s) == Max({0} \cup {j \in DOMAIN Text(s) : s[j] # " "})
str_trim_spaces(str) ==
    LET s == From(str, Leading(str)) IN IF strlen(s) = 0 THEN s ELSE [s EXCEPT ![LastLetter(s) + 1] = EndMark]

-----------------------------------------------------------------------------
\* What callers rely on.  A copy is as much of the string as has room with its end, and
\* nothing behind the room is written; appending is copying behind the string.
Room(text, maxlen) == AtMost(text, maxlen - 1)
Keeps(before, after, maxlen) == Len(after) = Len(before) /\ From(after, maxlen) = From(before, maxlen)
CopiesRight(dest, src, maxlen) ==
    LET r == strlcpy(dest, src, maxlen)
    IN  Text(r.dest) = Room(Text(src), maxlen) /\ r.ret = strlen(r.dest) /\ Keeps(dest, r.dest, maxlen)
AppendsRight(dest, src, maxlen) ==
    LET r == strlcat(dest, src, maxlen)
    IN  /\ Text(r.dest) = Room(Text(dest) \o Text(src), maxlen)
        /\ r.ret = strlen(r.dest) /\ Keeps(dest, r.dest, maxlen)

\* Two strings are compared as their texts are, up to n characters.
ComparesTexts(s1, s2, n, Code) ==
    LET a == AtMost(Text(s1), n)
        b == AtMost(Text(s2), n)
        d == strncmp(s1, s2, n, Code)
    IN  /\ d = 0 <=> a = b
        /\ d < 0 <=> \/ IsStrictPrefix(a, b)
                     \/ \E i \in DOMAIN a : i \in DOMAIN b /\ Code[a[i]] < Code[b[i]] /\ AtMost(a, i - 1) = AtMost(b, i - 1)
        /\ n > Max({strlen(s1), strlen(s2)}) => d = strcmp(s1, s2, Code)
SpansRight(s1, s2) ==
    LET n == strcspn(s1, s2)
        m == strspn(s1, s2)
    IN  /\ n = 0 \/ m = 0 \/ s1[1] = EndMark
        /\ \A i \in 1 .. n : strchr(s2, s1[i]) = -1
        /\ \A i \in 1 .. m : strchr(s2, s1[i]) # -1
        /\ n = strlen(s1) \/ strchr(s2, s1[n + 1]) # -1
        /\ m = strlen(s1) \/ strchr(s2, s1[m + 1]) = -1
TrimsRight(s) ==
    LET t == Text(str_trim_spaces(s))
    IN  /\ t # <<>> => Head(t) # " " /\ Last(t) # " "
        /\ \E i, j \in 0 .. strlen(s) : Text(s) = [k \in 1 .. i |-> " "] \o t \o [k \in 1 .. j |-> " "]

-----------------------------------------------------------------------------
(* main.c *)

VideoModes == {"ntscp", "ntsci", "pal60", "pal50"}
Mode(value) ==
    LET is == {m \in VideoModes : Text(value) = Words[m]} IN IF is = {} THEN "ntscp" ELSE CHOOSE m \in is : TRUE

\* process_config_key_value; every change of the mode sets the screen up again.
Configured(s, mode) == IF mode = s.vmode THEN s ELSE [s EXCEPT !.vmode = mode, !.configured = @ + 1]
process_config_key_value(s, key, value) ==
    CASE Text(key) = Words["video-mode"] -> Configured(s, Mode(value))
      [] Text(key) = Words["boot-args"] -> IF strlen(value) < MaxArgs THEN [s EXCEPT !.args = Text(value)] ELSE s
      [] OTHER -> s

Cut(s, len) == strlcpy([i \in 1 .. len + 1 |-> " "], s, len + 1).dest
\* How much of a comment or an end of line there is, of a key, and of a value.
Skip(s, position) == strcspn(From(position, 0), <<"\n", "\r", EndMark>>) + 1
KeyLength(position) == strcspn(position, <<"=", EndMark>>)
ValueToEnd(position) == strcspn(position, <<"\n", "\r", EndMark>>)             \* mistake
ValueLength(position) == strcspn(position, <<"#", "\n", "\r", EndMark>>)
RECURSIVE Lines(_, _)
Line(s, position, key) ==
    LET rest == From(position, key + 1)
    IN  Lines(process_config_key_value(s, str_trim_spaces(Cut(position, key)),
                                       str_trim_spaces(Cut(rest, ValueLength(rest)))),
              From(rest, ValueLength(rest)))
Lines(s, position) ==
    IF strlen(position) = 0 THEN s
    ELSE IF Head(position) \in {"#", "\n", "\r"}
         THEN IF Skip(s, position) > strlen(position) THEN s ELSE Lines(s, From(position, Skip(s, position)))
    ELSE IF KeyLength(position) >= strlen(position) THEN s
    ELSE Line(s, position, KeyLength(position))

\* process_config_file, of a file that was opened: its size, and what is read of it.
process_config_file(s, size, read, contents) ==
    IF size > MaxFile \/ ~read THEN s ELSE Lines(s, Append(contents, EndMark))

-----------------------------------------------------------------------------
\* What a user means by a file of lines, each a record of a key and a value (NoKey for
\* none) with spaces about them and perhaps a comment: the last value of a key counts.
NoKey == <<>>
Blank(n) == [i \in 1 .. n |-> " "]
Spelled(l) ==
    (IF l.key = NoKey THEN <<>> ELSE Blank(l.pad) \o l.key \o Blank(l.pad) \o <<"=">> \o Blank(l.pad) \o l.value \o Blank(l.pad))
      \o (IF l.comment THEN <<"#", "=", "x">> ELSE <<>>)
Contents(lines, ends) == FlattenSeq([i \in DOMAIN lines |-> Spelled(lines[i]) \o (IF i = Len(lines) THEN <<>> ELSE ends)])

Valid(l) == l.key = Words["video-mode"] \/ (l.key = Words["boot-args"] /\ Len(l.value) < MaxArgs)
Given(lines, word) == SelectSeq(lines, LAMBDA l : l.key = Words[word] /\ Valid(l))
ModeMeant(l) == LET is == {m \in VideoModes : Words[m] = l.value} IN IF is = {} THEN "ntscp" ELSE CHOOSE m \in is : TRUE
ReadsRight(s, lines, ends) ==
    LET t == Contents(lines, ends)
        r == process_config_file(s, Len(t), TRUE, t)
        modes == Given(lines, "video-mode")
        args == Given(lines, "boot-args")
    IN  IF Len(t) > MaxFile THEN r = s
        ELSE /\ r.vmode = (IF modes = <<>> THEN s.vmode ELSE ModeMeant(Last(modes)))
             /\ r.vmode # s.vmode => r.configured > s.configured
             /\ r.args = (IF args = <<>> THEN s.args ELSE Last(args).value)
=============================================================================
