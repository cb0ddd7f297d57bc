------------------------------ MODULE Console -------------------------------
(***************************************************************************)
(* The text console (console.c).  The frame buffer is memory, a word for   *)
(* two pixels, and everything is drawn by address: nothing keeps a line    *)
(* that is too long, or a fill that is too high, in its place.  Lines come *)
(* as vsnprintf formats them (see Printf), whose answer is the length of   *)
(* the whole line, not of what has room in the buffer.                     *)
(*                                                                         *)
(* A word of a character tells the character and where in it it is, a      *)
(* black one Black.  Sizes are in pixels, as in the code.                  *)
(***************************************************************************)
EXTENDS Integers, Sequences, FiniteSets

CONSTANTS
    CONSOLE_WIDTH, CONSOLE_HEIGHT, CONSOLE_CHAR_HEIGHT,
    PAL50_Y,        \* lines PAL50 has above and below: 48
    TextLines,      \* lines: vsnprintf's buffer and answer (ret), and the text that is meant
    MaxLines        \* bound: calls

CONSOLE_CHAR_WIDTH == 8
CharStep == 10
CONSOLE_ROW_HEIGHT == CONSOLE_CHAR_HEIGHT + 1
CONSOLE_COLS == CONSOLE_WIDTH \div CONSOLE_CHAR_WIDTH
CONSOLE_LINES == CONSOLE_HEIGHT \div CONSOLE_ROW_HEIGHT
CONSOLE_MAX_Y == (CONSOLE_LINES - 1) * CONSOLE_ROW_HEIGHT
Stride == CONSOLE_WIDTH \div 2
Memory == 0 .. 2 * (CONSOLE_HEIGHT + 2 * PAL50_Y) * Stride - 1

\* Lines fit a row, in words of two pixels; what is meant to be seen ends where blanks begin.
Columns == CONSOLE_WIDTH \div CharStep
Invisible == {" ", "NUL"}
Fits(l) ==
    /\ l.ret \in 0 .. Columns /\ \A i \in 1 .. l.ret : i \in DOMAIN l.buffer
    /\ \E n \in 0 .. l.ret :
           /\ l.text = [i \in 1 .. n |-> l.buffer[i]] /\ \A i \in 1 .. n : l.buffer[i] # "NUL"
           /\ n > 0 => l.buffer[n] \notin Invisible
           /\ \A i \in n + 1 .. l.ret : l.buffer[i] \in Invisible
ASSUME ConsoleAssumption ==
    /\ CONSOLE_WIDTH \in Nat /\ CONSOLE_WIDTH > 1 /\ CONSOLE_WIDTH % 2 = 0
    /\ CONSOLE_CHAR_HEIGHT \in Nat \ {0} /\ CONSOLE_HEIGHT \in Nat /\ CONSOLE_HEIGHT >= CONSOLE_ROW_HEIGHT
    /\ PAL50_Y \in Nat /\ \A l \in TextLines : Fits(l)

VARIABLES
    xfb,         \* [Memory -> words]
    y_add, current_y,
    fonts,       \* how often the characters were drawn, in memory that is never freed
    line,        \* the last call (history)
    printed      \* calls so far, for the bound

consoleVars == <<xfb, y_add, current_y, fonts, line, printed>>

Black == <<" ", 0, 0>>
Gray == <<"gray", 0, 0>>
Old == <<"old", 0, 0>>

\* make_yuv: two pixels' colours in a word, brightness of each and the colour of both.
Bright(p) == (299 * p[1] + 587 * p[2] + 114 * p[3]) \div 1000
Blue(p) == (-16874 * p[1] - 33126 * p[2] + 50000 * p[3] + 12800000) \div 100000
Red(p) == (50000 * p[1] - 41869 * p[2] - 8131 * p[3] + 12800000) \div 100000
make_yuv(p, q) == <<Bright(p), (Blue(p) + Blue(q)) \div 2, Bright(q), (Red(p) + Red(q)) \div 2>>
YuvRight(p, q) ==
    /\ \A i \in 1 .. 4 : make_yuv(p, q)[i] \in 0 .. 255
    /\ p[1] = p[2] /\ p[2] = p[3] /\ p = q => make_yuv(p, q) = <<p[1], 128, p[1], 128>>

\* font_to_yuv: the words of a character.
Glyph(ch, y, x) == IF ch \in Invisible THEN Black ELSE <<ch, y, x>>

\* memset32 and memcpy32, row by row.  A count is unsigned: of a negative width nothing
\* from there on is left.
Count(w) == IF w >= 0 THEN w \div 2 ELSE Cardinality(Memory)
Start(x, y) == (y + y_add) * Stride + x \div 2
Row(a, start) == (a - start) \div Stride
Column(a, start) == (a - start) % Stride
fill_rect(fb, x, y, w, h, word) ==
    [a \in Memory |->
        IF a >= Start(x, y) /\ (\E r \in {Row(a, Start(x, y)), 0} : r < h /\ a - Start(x, y) - r * Stride < Count(w))
        THEN word ELSE fb[a]]
gfx_draw_rect(fb, x, y, w, h, Word(_, _)) ==
    [a \in Memory |->
        IF a >= Start(x, y) /\ Row(a, Start(x, y)) < h /\ Column(a, Start(x, y)) < w \div 2
        THEN Word(Row(a, Start(x, y)), Column(a, Start(x, y))) ELSE fb[a]]

\* scroll: all rows one up, the last one black.  Below the last row it copies what is
\* behind the frame.
Upward(fb) ==
    LET rows == CONSOLE_LINES * CONSOLE_ROW_HEIGHT
        moved == y_add * Stride .. (y_add + rows) * Stride - 1
    IN  [a \in Memory |-> IF a \in moved THEN fb[a + CONSOLE_ROW_HEIGHT * Stride] ELSE fb[a]]
scroll(fb) == fill_rect(Upward(fb), 0, CONSOLE_MAX_Y, CONSOLE_WIDTH, CONSOLE_ROW_HEIGHT, Black)

\* print_str: the characters, a later one over an earlier one, then black to the right edge.
CharAt(buffer, i) == IF i \in DOMAIN buffer THEN buffer[i] ELSE "junk"
CharStart(i, y) == Start((i - 1) * CharStep, y)
Over(a, y, len) ==
    {i \in 1 .. len : /\ a >= CharStart(i, y) /\ Row(a, CharStart(i, y)) < CONSOLE_CHAR_HEIGHT
                      /\ Column(a, CharStart(i, y)) < CONSOLE_CHAR_WIDTH \div 2}
Drawn(fb, y, buffer, len) ==
    [a \in Memory |->
        IF Over(a, y, len) = {} THEN fb[a]
        ELSE LET i == CHOOSE i \in Over(a, y, len) : \A j \in Over(a, y, len) : j <= i
             IN  Glyph(CharAt(buffer, i), Row(a, CharStart(i, y)), Column(a, CharStart(i, y)))]
PrintAt(fb, y, buffer, len) ==
    /\ xfb' = fill_rect(Drawn(fb, y, buffer, len), len * CharStep, y, CONSOLE_WIDTH - len * CharStep,
                        CONSOLE_CHAR_HEIGHT, Black)
    /\ current_y' = y + CONSOLE_ROW_HEIGHT
print_str(buffer, len) ==
    IF current_y > CONSOLE_MAX_Y THEN PrintAt(scroll(xfb), CONSOLE_MAX_Y, buffer, len)
    ELSE PrintAt(xfb, current_y, buffer, len)

Called(op, text) == printed < MaxLines /\ printed' = printed + 1 /\ line' = [op |-> op, text |-> text]
console_println ==
    /\ fonts > 0 /\ line.op # "picture"
    /\ \E l \in TextLines :
           /\ Called("print", l.text)
           /\ print_str(l.buffer, l.ret) /\ UNCHANGED <<y_add, fonts>>

ClearNothing ==                                                                \* mistake
    /\ fonts > 0 /\ line.op # "picture" /\ Called("clear", <<>>)
    /\ current_y' = 0 /\ UNCHANGED <<xfb, y_add, fonts>>
clear_remainder_reset_y ==
    /\ fonts > 0 /\ line.op # "picture" /\ Called("clear", <<>>)
    /\ xfb' = fill_rect(xfb, 0, current_y, CONSOLE_WIDTH, CONSOLE_HEIGHT, Black) /\ current_y' = 0
    /\ UNCHANGED <<y_add, fonts>>

\* init_fb, when a video mode is set, and the last screen: both fill twice the frame.
Whole(add) == 0 .. (CONSOLE_HEIGHT + 2 * add) * 2 * Stride - 1
Flooded(fb, add, word) == [a \in Memory |-> IF a \in Whole(add) THEN word ELSE fb[a]]
init_fb ==
    /\ line.op # "picture" /\ Called("setup", <<>>)
    /\ \E add \in {0, PAL50_Y} : y_add' = add /\ xfb' = Flooded(xfb, add, Black)
    /\ fonts' = fonts + 1 /\ UNCHANGED current_y
draw_screen_for_graphical_boot ==
    /\ fonts > 0 /\ line.op # "picture" /\ Called("picture", <<>>)
    /\ xfb' = gfx_draw_rect(Flooded(xfb, y_add, Gray), (CONSOLE_WIDTH - 8) \div 2, (CONSOLE_HEIGHT - 4) \div 2, 8, 4,
                            LAMBDA r, c : <<"wii", r, c>>)
    /\ UNCHANGED <<y_add, current_y, fonts>>

ConsoleInit ==
    /\ xfb = [a \in Memory |-> Old] /\ y_add = 0 /\ current_y = 0 /\ fonts = 0 /\ printed = 0
    /\ line = [op |-> "none", text |-> <<>>]
ConsoleNext == console_println \/ clear_remainder_reset_y \/ init_fb \/ draw_screen_for_graphical_boot
ConsoleSpec == ConsoleInit /\ [][ConsoleNext]_consoleVars

-----------------------------------------------------------------------------
\* What a row shows: the text whose characters, and nothing else, are in it; rows are
\* apart by a black line.
WordOf(fb, y, x) == fb[y * Stride + x]
RowOf(fb, add, r) ==
    [y \in 0 .. CONSOLE_ROW_HEIGHT - 1 |->
        [x \in 0 .. Stride - 1 |-> WordOf(fb, r * CONSOLE_ROW_HEIGHT + add + y, x)]]
Inked(row) == {i \in 1 .. Columns : row[0][(i - 1) * (CharStep \div 2)] # Black}
TextOf(row) == LET n == IF Inked(row) = {} THEN 0 ELSE CHOOSE n \in Inked(row) : \A m \in Inked(row) : m <= n
                IN  [i \in 1 .. n |-> row[0][(i - 1) * (CharStep \div 2)][1]]
Shows(row, text) ==
    \A y \in 0 .. CONSOLE_ROW_HEIGHT - 1, x \in 0 .. Stride - 1 :
        LET i == x \div (CharStep \div 2) + 1
            c == x % (CharStep \div 2)
        IN  row[y][x] = IF y < CONSOLE_CHAR_HEIGHT /\ c < CONSOLE_CHAR_WIDTH \div 2 /\ i <= Len(text)
                        THEN Glyph(text[i], y, c) ELSE Black
ShownIn(row) == IF Shows(row, TextOf(row)) THEN TextOf(row) ELSE <<"covered">>
Screen == [r \in 0 .. CONSOLE_LINES - 1 |-> ShownIn(RowOf(xfb, y_add, r))]

\* Between the characters and below them a row is black.
Gaps(row) ==
    \A y \in 0 .. CONSOLE_ROW_HEIGHT - 1, x \in 0 .. Stride - 1 :
        y = CONSOLE_CHAR_HEIGHT \/ x % (CharStep \div 2) >= CONSOLE_CHAR_WIDTH \div 2 => row[y][x] = Black
\* Lines go on at the beginning of a row, and characters have room around them.
ConsoleInv ==
    /\ \E n \in 0 .. CONSOLE_LINES : current_y = n * CONSOLE_ROW_HEIGHT
    /\ y_add \in {0, PAL50_Y} /\ fonts \in Nat
    /\ fonts > 0 /\ line.op # "picture" => \A r \in 0 .. CONSOLE_LINES - 1 : Gaps(RowOf(xfb, y_add, r))

Promise == INSTANCE Terminal WITH
    Rows <- CONSOLE_LINES, rows <- Screen, at <- current_y \div CONSOLE_ROW_HEIGHT, asked <- line

\* Each line is shown in a row of its own, whole, and stays until it is scrolled, cleared
\* or printed over; nothing is left of what was in the row before.
LinesShown == Promise!Spec
=============================================================================
