---------------------------- MODULE DeviceProofs ----------------------------
(* The devices of Library.  The console, drawn by address, is a terminal:   *)
(* for every size of the screen and of the characters, and all lines that   *)
(* fit it.  Output over a USB Gecko sends what was written: for all texts   *)
(* and numbers of polls.  The buttons are returned as they were pressed:    *)
(* for all buttons of the pad.                                              *)
EXTENDS Console, Gecko, Buttons, FiniteSetTheorems, TLAPS

-----------------------------------------------------------------------------
(* The console. *)

\* More lines take more words.
LEMMA Monotone ==
    ASSUME NEW m \in Nat, NEW n \in Nat, m <= n, NEW s \in Nat
    PROVE  m * s <= n * s
  <1>1. PICK d \in Nat : n = m + d
    <2>1. n - m \in Nat
      OBVIOUS
    <2> QED
      BY <2>1
  <1>2. d * s \in Nat /\ n * s = m * s + d * s /\ m * s \in Nat
    BY <1>1
  <1> QED
    BY <1>2

\* The line and the column of a number of words.
LEMMA DivMod ==
    ASSUME NEW s \in Nat, s > 0, NEW q \in Nat, NEW m \in 0 .. s - 1
    PROVE  (q * s + m) \div s = q /\ (q * s + m) % s = m
  OBVIOUS

\* The sizes of the screen and of what is on it, in lines and words.
LEMMA Sizes ==
    /\ Stride \in Nat /\ Stride > 0 /\ CONSOLE_WIDTH = 2 * Stride
    /\ CONSOLE_ROW_HEIGHT \in Nat /\ CONSOLE_ROW_HEIGHT = CONSOLE_CHAR_HEIGHT + 1
    /\ CONSOLE_CHAR_HEIGHT \in Nat /\ CONSOLE_CHAR_HEIGHT > 0
    /\ CONSOLE_LINES \in Nat /\ CONSOLE_LINES > 0
    /\ CONSOLE_LINES * CONSOLE_ROW_HEIGHT <= CONSOLE_HEIGHT
    /\ Columns \in Nat /\ 5 * Columns <= Stride
    /\ PAL50_Y \in Nat /\ CONSOLE_HEIGHT \in Nat
  <1>1. /\ CONSOLE_WIDTH \in Nat /\ CONSOLE_WIDTH > 1 /\ CONSOLE_WIDTH % 2 = 0
        /\ CONSOLE_CHAR_HEIGHT \in Nat \ {0} /\ CONSOLE_HEIGHT \in Nat /\ CONSOLE_HEIGHT >= CONSOLE_ROW_HEIGHT
        /\ PAL50_Y \in Nat
    BY ConsoleAssumption
  <1>2. Stride \in Nat /\ Stride > 0 /\ CONSOLE_WIDTH = 2 * Stride
    BY <1>1 DEF Stride
  <1>3. Columns \in Nat /\ 5 * Columns <= Stride
    BY <1>1 DEF Columns, Stride, CharStep
  <1>4. /\ CONSOLE_ROW_HEIGHT \in Nat /\ CONSOLE_ROW_HEIGHT = CONSOLE_CHAR_HEIGHT + 1
        /\ CONSOLE_CHAR_HEIGHT \in Nat /\ CONSOLE_CHAR_HEIGHT > 0
    BY <1>1 DEF CONSOLE_ROW_HEIGHT
  <1>5. CONSOLE_LINES \in Nat /\ CONSOLE_LINES > 0 /\ CONSOLE_LINES * CONSOLE_ROW_HEIGHT <= CONSOLE_HEIGHT
    <2>1. \A h, n \in Nat : n > 0 /\ h >= n => h \div n \in Nat /\ h \div n > 0 /\ (h \div n) * n <= h
      OBVIOUS
    <2> QED
      BY <1>1, <1>4, <2>1 DEF CONSOLE_LINES
  <1> QED
    BY <1>1, <1>2, <1>3, <1>4, <1>5

\* How far an address is behind another: whole lines, and words of one.
LEMMA Apart ==
    ASSUME NEW y \in Nat, NEW x \in 0 .. Stride - 1, NEW y0 \in Nat, NEW c \in 0 .. Stride,
           NEW a \in Nat, a = y * Stride + x, NEW s \in Nat, s = y0 * Stride + c
    PROVE  /\ y > y0 => a >= s
           /\ y = y0 /\ x >= c => a >= s
           /\ y < y0 => a < s
           /\ y = y0 /\ x < c => a < s
           /\ y >= y0 /\ x >= c => Row(a, s) = y - y0 /\ Column(a, s) = x - c
           /\ y > y0 /\ x < c => Row(a, s) = y - y0 - 1 /\ Column(a, s) = Stride + x - c
           /\ a >= s => /\ a - s = Row(a, s) * Stride + Column(a, s)
                        /\ Row(a, s) \in Nat /\ Column(a, s) \in 0 .. Stride - 1
  <1>1. Stride \in Nat /\ Stride > 0
    BY Sizes
  <1>2. a \in Nat /\ s \in Nat /\ y * Stride \in Nat /\ y0 * Stride \in Nat
    BY <1>1
  <1>3. ASSUME y < y0 PROVE a < s
    <2>1. (y + 1) * Stride <= y0 * Stride
      BY <1>1, <1>3, Monotone
    <2>2. (y + 1) * Stride = y * Stride + Stride
      BY <1>1
    <2> QED
      BY <1>1, <1>2, <2>1, <2>2
  <1>4. ASSUME y > y0 PROVE a >= s
    <2>1. (y0 + 1) * Stride <= y * Stride
      BY <1>1, <1>4, Monotone
    <2>2. (y0 + 1) * Stride = y0 * Stride + Stride
      BY <1>1
    <2> QED
      BY <1>1, <1>2, <2>1, <2>2
  <1>5. y = y0 /\ x >= c => a >= s
    BY <1>1, <1>2
  <1>9. y = y0 /\ x < c => a < s
    BY <1>1, <1>2
  <1>6. ASSUME y >= y0, x >= c PROVE Row(a, s) = y - y0 /\ Column(a, s) = x - c
    <2>1. y - y0 \in Nat /\ x - c \in 0 .. Stride - 1
      BY <1>1, <1>6
    <2>2. a - s = (y - y0) * Stride + (x - c)
      BY <1>1
    <2> QED
      BY <1>1, <2>1, <2>2, DivMod DEF Row, Column
  <1>7. ASSUME y > y0, x < c PROVE Row(a, s) = y - y0 - 1 /\ Column(a, s) = Stride + x - c
    <2>1. y - y0 - 1 \in Nat /\ Stride + x - c \in 0 .. Stride - 1
      BY <1>1, <1>7
    <2>2. a - s = (y - y0 - 1) * Stride + (Stride + x - c)
      BY <1>1
    <2> QED
      BY <1>1, <2>1, <2>2, DivMod DEF Row, Column
  <1>8. ASSUME a >= s
        PROVE  /\ a - s = Row(a, s) * Stride + Column(a, s)
               /\ Row(a, s) \in Nat /\ Column(a, s) \in 0 .. Stride - 1
    <2>1. CASE y >= y0 /\ x >= c
      <3>1. a - s = (y - y0) * Stride + (x - c) /\ y - y0 \in Nat /\ x - c \in 0 .. Stride - 1
        BY <1>1, <2>1
      <3> QED
        BY <1>6, <2>1, <3>1
    <2>2. CASE y > y0 /\ x < c
      <3>1. /\ a - s = (y - y0 - 1) * Stride + (Stride + x - c)
            /\ y - y0 - 1 \in Nat /\ Stride + x - c \in 0 .. Stride - 1
        BY <1>1, <2>2
      <3> QED
        BY <1>7, <2>2, <3>1
    <2> QED
      BY <1>1, <1>2, <1>3, <1>8, <1>9, <2>1, <2>2
  <1> QED
    BY <1>2, <1>3, <1>4, <1>5, <1>6, <1>7, <1>8, <1>9

\* The lines of a row, in memory.
LEMMA Places ==
    ASSUME NEW add \in {0, PAL50_Y}, NEW r \in 0 .. CONSOLE_LINES - 1,
           NEW y \in 0 .. CONSOLE_ROW_HEIGHT - 1, NEW x \in 0 .. Stride - 1
    PROVE  LET l == r * CONSOLE_ROW_HEIGHT + add + y
           IN  /\ l \in Nat
               /\ r * CONSOLE_ROW_HEIGHT \in Nat
               /\ l * Stride + x \in Memory
               /\ l * Stride + x \in Whole(add)
  <1> DEFINE l == r * CONSOLE_ROW_HEIGHT + add + y
             top == r * CONSOLE_ROW_HEIGHT
  <1>1. /\ Stride \in Nat /\ CONSOLE_ROW_HEIGHT \in Nat /\ CONSOLE_LINES \in Nat /\ PAL50_Y \in Nat
        /\ CONSOLE_HEIGHT \in Nat /\ CONSOLE_LINES * CONSOLE_ROW_HEIGHT <= CONSOLE_HEIGHT
    BY Sizes
  <1>2. top \in Nat /\ l \in Nat /\ add \in Nat
    BY <1>1
  <1>4. l + 1 <= CONSOLE_HEIGHT + add
    <2>1. (r + 1) * CONSOLE_ROW_HEIGHT <= CONSOLE_LINES * CONSOLE_ROW_HEIGHT
      BY <1>1, Monotone
    <2>2. (r + 1) * CONSOLE_ROW_HEIGHT = top + CONSOLE_ROW_HEIGHT
      BY <1>1
    <2> HIDE DEF top
    <2>3. top + CONSOLE_ROW_HEIGHT <= CONSOLE_HEIGHT
      <3>1. CONSOLE_LINES * CONSOLE_ROW_HEIGHT \in Nat
        BY <1>1
      <3> QED
        BY <1>1, <1>2, <2>1, <2>2, <3>1
    <2>4. l = top + add + y
      BY DEF top
    <2> QED
      BY <1>1, <1>2, <2>3, <2>4
  <1>5. l * Stride + x < (CONSOLE_HEIGHT + add) * Stride
    <2> HIDE DEF l
    <2>1. (l + 1) * Stride <= (CONSOLE_HEIGHT + add) * Stride
      BY <1>1, <1>2, <1>4, Monotone
    <2>2. (l + 1) * Stride = l * Stride + Stride
      BY <1>1, <1>2
    <2> QED
      BY <1>1, <1>2, <2>1, <2>2
  <1>6. l * Stride + x \in Nat
    <2> HIDE DEF l
    <2> QED
      BY <1>1, <1>2
  <1>7. l * Stride + x \in Memory
    <2>1. (CONSOLE_HEIGHT + add) * Stride <= (2 * (CONSOLE_HEIGHT + 2 * PAL50_Y)) * Stride
      BY <1>1, <1>2, Monotone
    <2> HIDE DEF l
    <2> QED
      BY <1>1, <1>2, <1>5, <1>6, <2>1 DEF Memory
  <1>8. l * Stride + x \in Whole(add)
    <2>1. (CONSOLE_HEIGHT + add) * Stride <= ((CONSOLE_HEIGHT + 2 * add) * 2) * Stride
      BY <1>1, <1>2, Monotone
    <2> HIDE DEF l
    <2> QED
      BY <1>1, <1>2, <1>5, <1>6, <2>1 DEF Whole
  <1> QED
    BY <1>2, <1>7, <1>8

\* Lines of different rows are different lines.
LEMMA RowsApart ==
    ASSUME NEW q \in Nat, NEW r \in Nat, NEW y \in 0 .. CONSOLE_ROW_HEIGHT - 1
    PROVE  /\ q < r => q * CONSOLE_ROW_HEIGHT + y < r * CONSOLE_ROW_HEIGHT
           /\ q > r => q * CONSOLE_ROW_HEIGHT + y >= (r + 1) * CONSOLE_ROW_HEIGHT
           /\ (r + 1) * CONSOLE_ROW_HEIGHT = r * CONSOLE_ROW_HEIGHT + CONSOLE_ROW_HEIGHT
           /\ q * CONSOLE_ROW_HEIGHT \in Nat /\ r * CONSOLE_ROW_HEIGHT \in Nat
  <1>1. CONSOLE_ROW_HEIGHT \in Nat
    BY Sizes
  <1>2. q * CONSOLE_ROW_HEIGHT \in Nat /\ r * CONSOLE_ROW_HEIGHT \in Nat
    BY <1>1
  <1>3. /\ (r + 1) * CONSOLE_ROW_HEIGHT = r * CONSOLE_ROW_HEIGHT + CONSOLE_ROW_HEIGHT
        /\ (q + 1) * CONSOLE_ROW_HEIGHT = q * CONSOLE_ROW_HEIGHT + CONSOLE_ROW_HEIGHT
    BY <1>1
  <1>4. q < r => (q + 1) * CONSOLE_ROW_HEIGHT <= r * CONSOLE_ROW_HEIGHT
    BY <1>1, Monotone
  <1>5. q > r => (r + 1) * CONSOLE_ROW_HEIGHT <= q * CONSOLE_ROW_HEIGHT
    BY <1>1, Monotone
  <1>6. q < r => q * CONSOLE_ROW_HEIGHT + y < r * CONSOLE_ROW_HEIGHT
    BY <1>1, <1>2, <1>3, <1>4
  <1>7. q > r => q * CONSOLE_ROW_HEIGHT + y >= (r + 1) * CONSOLE_ROW_HEIGHT
    BY <1>1, <1>2, <1>3, <1>5
  <1> QED
    BY <1>2, <1>3, <1>6, <1>7

-----------------------------------------------------------------------------
\* What fill_rect does, up to the right edge, to the word at x in line y of memory.
LEMMA FillsWord ==
    ASSUME y_add \in Nat, NEW fb, NEW px \in Nat, px % 2 = 0, NEW w \in Nat, px + w = CONSOLE_WIDTH,
           NEW top \in Nat, NEW height \in Nat,
           NEW y \in Nat, NEW x \in 0 .. Stride - 1, y * Stride + x \in Memory
    PROVE  WordOf(fill_rect(fb, px, top, w, height, Black), y, x) =
              IF top + y_add <= y /\ y < top + y_add + height /\ px <= 2 * x THEN Black ELSE WordOf(fb, y, x)
  <1>1. Stride \in Nat /\ Stride > 0 /\ CONSOLE_WIDTH = 2 * Stride
    BY Sizes
  <1>a. PICK a \in Memory : a = y * Stride + x /\ a \in Nat
    BY <1>1
  <1>c. PICK c \in 0 .. Stride : px = 2 * c
    <2>1. PICK c \in Nat : px = 2 * c
      BY <1>1
    <2> QED
      BY <1>1, <2>1
  <1>y. PICK y0 \in Nat : y0 = top + y_add
    OBVIOUS
  <1>n. PICK n \in Nat : n = Stride - c
    BY <1>1, <1>c
  <1>2. c + n <= Stride /\ w \div 2 = n /\ px \div 2 = c
    BY <1>1, <1>n, <1>c
  <1>s. PICK s \in Nat : s = y0 * Stride + c
    BY <1>1
  <1>3. Start(px, top) = s /\ Count(w) = n
    BY <1>2, <1>y, <1>s DEF Start, Count
  <1>4. /\ a \in Nat /\ s \in Nat
        /\ y > y0 => a >= s
        /\ y = y0 /\ x >= c => a >= s
        /\ y < y0 => a < s
        /\ y = y0 /\ x < c => a < s
        /\ y >= y0 /\ x >= c => Row(a, s) = y - y0 /\ Column(a, s) = x - c
        /\ y > y0 /\ x < c => Row(a, s) = y - y0 - 1 /\ Column(a, s) = Stride + x - c
        /\ a >= s => /\ a - s = Row(a, s) * Stride + Column(a, s)
                     /\ Row(a, s) \in Nat /\ Column(a, s) \in 0 .. Stride - 1
    BY <1>a, <1>c, <1>s, Apart
  <1> DEFINE filled == a >= s /\ \E r \in {Row(a, s), 0} : r < height /\ a - s - r * Stride < n
             within == y0 <= y /\ y < y0 + height /\ c <= x
  <1>6. filled <=> a >= s /\ Row(a, s) < height /\ Column(a, s) < n
    <2>1. ASSUME a >= s, Row(a, s) < height, Column(a, s) < n PROVE filled
      <3>1. a - s - Row(a, s) * Stride = Column(a, s)
        BY <1>1, <1>2, <1>n, <1>4, <2>1
      <3> QED
        BY <2>1, <3>1
    <2>2. ASSUME a >= s, NEW r \in {Row(a, s), 0}, r < height, a - s - r * Stride < n
          PROVE  Row(a, s) < height /\ Column(a, s) < n
      <3>1. CASE r = Row(a, s)
        <4>1. a - s - Row(a, s) * Stride = Column(a, s)
          BY <1>1, <1>2, <1>n, <1>4, <2>2
        <4> QED
          BY <2>2, <3>1, <4>1
      <3>2. CASE r = 0
        <4>1. a - s < Stride
          BY <1>1, <1>2, <1>n, <1>4, <2>2, <3>2
        <4>2. Row(a, s) = 0
          <5>1. Row(a, s) > 0 => Row(a, s) * Stride >= 1 * Stride
            BY <1>1, <1>2, <1>n, <1>4, <2>2, Monotone
          <5> QED
            BY <1>1, <1>2, <1>n, <1>4, <2>2, <4>1, <5>1
        <4> QED
          BY <2>2, <3>1, <3>2, <4>2
      <3> QED
        BY <2>2, <3>1, <3>2
    <2> QED
      BY <2>1, <2>2
  <1>7. filled <=> within
    <2> HIDE DEF filled
    <2>1. CASE y >= y0 /\ x >= c
      BY <1>1, <1>2, <1>n, <1>4, <1>6, <2>1
    <2>2. CASE y > y0 /\ x < c
      BY <1>1, <1>2, <1>n, <1>4, <1>6, <2>2
    <2>3. CASE ~(y >= y0 /\ x >= c) /\ ~(y > y0 /\ x < c)
      BY <1>1, <1>2, <1>n, <1>4, <1>6, <2>3
    <2> QED
      BY <2>1, <2>2, <2>3
  <1>8. fill_rect(fb, px, top, w, height, Black)[a] = IF filled THEN Black ELSE fb[a]
    BY <1>3, <1>a DEF fill_rect
  <1> QED
    BY <1>1, <1>7, <1>8, <1>a, <1>c, <1>y DEF WordOf

\* The character that is drawn over a word at x in line y of memory, if one is.
LEMMA CharOver ==
    ASSUME NEW top \in Nat, y_add \in Nat, NEW i \in 1 .. Columns, NEW y \in Nat, NEW x \in 0 .. Stride - 1,
           NEW a \in Nat, a = y * Stride + x
    PROVE  LET covers == /\ a >= CharStart(i, top) /\ Row(a, CharStart(i, top)) < CONSOLE_CHAR_HEIGHT
                         /\ Column(a, CharStart(i, top)) < CONSOLE_CHAR_WIDTH \div 2
           IN  /\ covers => /\ top + y_add <= y /\ y < top + y_add + CONSOLE_CHAR_HEIGHT
                            /\ 5 * (i - 1) <= x /\ x < 5 * (i - 1) + 4
               /\ top + y_add <= y /\ y < top + y_add + CONSOLE_CHAR_HEIGHT /\ 5 * (i - 1) <= x /\ x < 5 * (i - 1) + 4
                    => /\ covers
                       /\ Row(a, CharStart(i, top)) = y - (top + y_add)
                       /\ Column(a, CharStart(i, top)) = x - 5 * (i - 1)
  <1>1. /\ Stride \in Nat /\ Stride > 0 /\ Columns \in Nat /\ 5 * Columns <= Stride
        /\ CONSOLE_CHAR_HEIGHT \in Nat /\ CONSOLE_CHAR_WIDTH \div 2 = 4
    BY Sizes DEF CONSOLE_CHAR_WIDTH
  <1>c. PICK c \in 0 .. Stride : c = 5 * (i - 1)
    BY <1>1
  <1>2. c + 4 <= Stride
    BY <1>1, <1>c
  <1>y. PICK y0 \in Nat : y0 = top + y_add
    OBVIOUS
  <1>s. PICK s \in Nat : s = y0 * Stride + c
    BY <1>1
  <1>3. CharStart(i, top) = s
    <2>1. ((i - 1) * CharStep) \div 2 = c
      BY <1>c DEF CharStep
    <2> QED
      BY <1>y, <1>s, <2>1 DEF CharStart, Start
  <1>4. a \in Nat
    BY <1>1
  <1>5. /\ y > y0 => a >= s
        /\ y = y0 /\ x >= c => a >= s
        /\ y < y0 => a < s
        /\ y = y0 /\ x < c => a < s
        /\ y >= y0 /\ x >= c => Row(a, s) = y - y0 /\ Column(a, s) = x - c
        /\ y > y0 /\ x < c => Row(a, s) = y - y0 - 1 /\ Column(a, s) = Stride + x - c
    BY <1>4, <1>s, Apart
  <1> DEFINE covers == a >= s /\ Row(a, s) < CONSOLE_CHAR_HEIGHT /\ Column(a, s) < 4
             within == y0 <= y /\ y < y0 + CONSOLE_CHAR_HEIGHT /\ c <= x /\ x < c + 4
  <1>6. covers => within
    <2>1. CASE y >= y0 /\ x >= c
      BY <1>1, <1>2, <1>4, <1>5, <2>1
    <2>2. CASE y > y0 /\ x < c
      BY <1>1, <1>2, <1>4, <1>5, <2>2
    <2>3. CASE ~(y >= y0 /\ x >= c) /\ ~(y > y0 /\ x < c)
      BY <1>1, <1>2, <1>4, <1>5, <2>3
    <2> QED
      BY <2>1, <2>2, <2>3
  <1>7. within => covers /\ Row(a, s) = y - y0 /\ Column(a, s) = x - c
    BY <1>1, <1>2, <1>4, <1>5
  <1> QED
    BY <1>1, <1>3, <1>6, <1>7, <1>c, <1>y

\* What printing a line in row n does to a word of row r: characters that are four words
\* wide and one apart, and black behind them, without the line below.
LEMMA PrintsWord ==
    ASSUME y_add \in {0, PAL50_Y}, NEW fb, NEW n \in 0 .. CONSOLE_LINES - 1, NEW l \in TextLines,
           PrintAt(fb, n * CONSOLE_ROW_HEIGHT, l.buffer, l.ret), NEW r \in 0 .. CONSOLE_LINES - 1,
           NEW y \in 0 .. CONSOLE_ROW_HEIGHT - 1, NEW x \in 0 .. Stride - 1
    PROVE  LET m == r * CONSOLE_ROW_HEIGHT + y_add + y
           IN  WordOf(xfb', m, x) = IF r = n /\ y < CONSOLE_CHAR_HEIGHT /\ x >= 5 * l.ret THEN Black
                                    ELSE IF r = n /\ y < CONSOLE_CHAR_HEIGHT /\ x % 5 < 4
                                    THEN Glyph(l.buffer[x \div 5 + 1], y, x % 5) ELSE WordOf(fb, m, x)
  <1>1. /\ Stride \in Nat /\ Stride > 0 /\ Columns \in Nat /\ 5 * Columns <= Stride
        /\ CONSOLE_CHAR_HEIGHT \in Nat /\ CONSOLE_ROW_HEIGHT = CONSOLE_CHAR_HEIGHT + 1 /\ CONSOLE_ROW_HEIGHT \in Nat
        /\ CONSOLE_WIDTH = 2 * Stride /\ PAL50_Y \in Nat
    BY Sizes
  <1>2. /\ l.ret \in 0 .. Columns
        /\ \A i \in 1 .. l.ret : i \in DOMAIN l.buffer
    BY ConsoleAssumption DEF Fits
  <1>len. PICK len \in 0 .. Columns : len = l.ret
    BY <1>2
  <1>top. PICK top \in Nat : top = n * CONSOLE_ROW_HEIGHT
    BY <1>1
  <1>line. PICK m \in Nat : m = r * CONSOLE_ROW_HEIGHT + y_add + y
    BY <1>1, Places
  <1>a. PICK a \in Memory : a = m * Stride + x
    BY <1>line, Places
  <1>3. y_add \in Nat /\ a \in Nat
    BY <1>1, <1>a
  <1>over. ASSUME NEW i \in 1 .. len
           PROVE  /\ i \in Over(a, top, len) => /\ top + y_add <= m /\ m < top + y_add + CONSOLE_CHAR_HEIGHT
                                                /\ 5 * (i - 1) <= x /\ x < 5 * (i - 1) + 4
                  /\ top + y_add <= m /\ m < top + y_add + CONSOLE_CHAR_HEIGHT /\ 5 * (i - 1) <= x /\ x < 5 * (i - 1) + 4
                       => /\ i \in Over(a, top, len)
                          /\ Row(a, CharStart(i, top)) = m - (top + y_add)
                          /\ Column(a, CharStart(i, top)) = x - 5 * (i - 1)
    <2> DEFINE covers == /\ a >= CharStart(i, top) /\ Row(a, CharStart(i, top)) < CONSOLE_CHAR_HEIGHT
                         /\ Column(a, CharStart(i, top)) < CONSOLE_CHAR_WIDTH \div 2
    <2>1. i \in Over(a, top, len) <=> covers
      BY DEF Over
    <2>2. i \in 1 .. Columns /\ a = m * Stride + x
      BY <1>1, <1>a
    <2>3. /\ covers => /\ top + y_add <= m /\ m < top + y_add + CONSOLE_CHAR_HEIGHT
                       /\ 5 * (i - 1) <= x /\ x < 5 * (i - 1) + 4
          /\ top + y_add <= m /\ m < top + y_add + CONSOLE_CHAR_HEIGHT /\ 5 * (i - 1) <= x /\ x < 5 * (i - 1) + 4
               => /\ covers
                  /\ Row(a, CharStart(i, top)) = m - (top + y_add)
                  /\ Column(a, CharStart(i, top)) = x - 5 * (i - 1)
      BY <1>3, <2>2, CharOver
    <2> HIDE DEF covers
    <2> QED
      BY <2>1, <2>3
  <1> DEFINE here == r = n /\ y < CONSOLE_CHAR_HEIGHT
  <1>4. /\ here => top + y_add <= m /\ m < top + y_add + CONSOLE_CHAR_HEIGHT /\ m - (top + y_add) = y
        /\ top + y_add <= m /\ m < top + y_add + CONSOLE_CHAR_HEIGHT => here
    <2>1. PICK first \in Nat : first = r * CONSOLE_ROW_HEIGHT
      BY <1>1
    <2>2. m = first + y_add + y
      BY <1>line, <2>1
    <2>3. /\ r < n => first + y < top
          /\ r > n => first + y >= top + CONSOLE_ROW_HEIGHT
          /\ r = n => first = top
      <3>1. n \in Nat /\ r \in Nat
        BY Sizes
      <3> QED
        BY <1>top, <2>1, <3>1, RowsApart
    <2>4. ASSUME here
          PROVE  top + y_add <= m /\ m < top + y_add + CONSOLE_CHAR_HEIGHT /\ m - (top + y_add) = y
      BY <1>1, <1>3, <2>2, <2>3, <2>4
    <2>5. ASSUME top + y_add <= m, m < top + y_add + CONSOLE_CHAR_HEIGHT PROVE here
      <3>1. ~(r < n) /\ ~(r > n)
        BY <1>1, <1>3, <2>2, <2>3, <2>5
      <3>2. r = n
        BY <3>1, Sizes
      <3> QED
        BY <1>1, <1>3, <2>2, <2>3, <2>5, <3>2
    <2> QED
      BY <2>4, <2>5
  <1>5. xfb'[a] = IF here /\ x >= 5 * len THEN Black ELSE Drawn(fb, top, l.buffer, len)[a]
    <2>p. PICK px \in Nat : px = len * CharStep
      BY <1>1 DEF CharStep
    <2>w. PICK w \in Nat : w = CONSOLE_WIDTH - len * CharStep
      <3>1. CONSOLE_WIDTH - len * CharStep \in Nat
        BY <1>1 DEF CharStep
      <3> QED
        BY <3>1
    <2>o. PICK old : old = Drawn(fb, top, l.buffer, len)
      OBVIOUS
    <2>1. px + w = CONSOLE_WIDTH /\ px = 10 * len /\ px % 2 = 0
      BY <1>1, <2>p, <2>w DEF CharStep
    <2>2. xfb' = fill_rect(old, px, top, w, CONSOLE_CHAR_HEIGHT, Black)
      BY <1>len, <1>top, <2>p, <2>w, <2>o DEF PrintAt
    <2>3. WordOf(fill_rect(old, px, top, w, CONSOLE_CHAR_HEIGHT, Black), m, x) =
             IF top + y_add <= m /\ m < top + y_add + CONSOLE_CHAR_HEIGHT /\ px <= 2 * x
             THEN Black ELSE WordOf(old, m, x)
      <3>1. m * Stride + x \in Memory
        BY <1>a
      <3>2. CONSOLE_CHAR_HEIGHT \in Nat
        BY <1>1
      <3>3. y_add \in Nat
        BY <1>3
      <3> QED
        BY <2>1, <3>1, <3>2, <3>3, FillsWord
    <2>4. px <= 2 * x <=> x >= 5 * len
      BY <1>1, <2>1
    <2> QED
      BY <1>4, <1>a, <2>2, <2>3, <2>4, <2>o DEF WordOf
  <1>6. CASE ~here
    <2>1. \A i \in 1 .. len : i \notin Over(a, top, len)
      BY <1>4, <1>6, <1>over
    <2>2. Over(a, top, len) = {}
      BY <2>1 DEF Over
    <2> QED
      BY <1>5, <1>6, <1>a, <1>line, <2>2 DEF Drawn, WordOf
  <1>7. CASE here /\ x < 5 * len /\ x % 5 = 4
    <2>1. \A i \in 1 .. len : i \notin Over(a, top, len)
      <3>1. \A i \in Nat : ~(5 * (i - 1) <= x /\ x < 5 * (i - 1) + 4)
        BY <1>1, <1>7
      <3> QED
        BY <1>over, <3>1
    <2>2. Over(a, top, len) = {}
      BY <2>1 DEF Over
    <2> QED
      BY <1>1, <1>5, <1>7, <1>a, <1>len, <1>line, <2>2 DEF Drawn, WordOf
  <1>8. CASE here /\ x < 5 * len /\ x % 5 < 4
    <2> DEFINE i == x \div 5 + 1
    <2>1. i \in 1 .. len /\ 5 * (i - 1) <= x /\ x < 5 * (i - 1) + 4 /\ x - 5 * (i - 1) = x % 5
      BY <1>1, <1>8
    <2> HIDE DEF i
    <2>2. /\ i \in Over(a, top, len) /\ Row(a, CharStart(i, top)) = y
          /\ Column(a, CharStart(i, top)) = x % 5
      BY <1>4, <1>8, <1>over, <2>1
    <2>3. \A j \in Over(a, top, len) : j = i
      <3>1. \A j \in 1 .. len : 5 * (j - 1) <= x /\ x < 5 * (j - 1) + 4 => j = i
        BY <1>1, <2>1
      <3> QED
        <4>1. \A j \in Over(a, top, len) : j \in 1 .. len
          BY DEF Over
        <4> QED
          BY <1>over, <3>1, <4>1
    <2>4. (CHOOSE k \in Over(a, top, len) : \A j \in Over(a, top, len) : j <= k) = i
      <3>1. i <= i
        BY <2>1
      <3> QED
        BY <2>2, <2>3, <3>1
    <2>5. Drawn(fb, top, l.buffer, len)[a] = Glyph(CharAt(l.buffer, i), y, x % 5)
      BY <1>a, <2>2, <2>4 DEF Drawn
    <2>6. CharAt(l.buffer, i) = l.buffer[i]
      BY <1>2, <1>len, <2>1 DEF CharAt
    <2> QED
      BY <1>1, <1>5, <1>8, <1>a, <1>len, <1>line, <2>5, <2>6 DEF i, WordOf
  <1>9. CASE here /\ x >= 5 * len
    BY <1>5, <1>9, <1>a, <1>len, <1>line DEF WordOf
  <1>10. x % 5 = 4 \/ x % 5 < 4
    BY <1>1
  <1> QED
    BY <1>1, <1>6, <1>7, <1>8, <1>9, <1>10

-----------------------------------------------------------------------------
\* A row that shows a text reads as it, if the text ends where it can be seen to.
LEMMA ReadsText ==
    ASSUME NEW row, NEW n \in 0 .. Columns, NEW shown, shown = [i \in 1 .. n |-> shown[i]], Len(shown) = n,
           \A i \in 1 .. n : shown[i] # "NUL", n > 0 => shown[n] \notin Invisible, Shows(row, shown)
    PROVE  ShownIn(row) = shown
  <1>1. /\ Stride \in Nat /\ Stride > 0 /\ Columns \in Nat /\ 5 * Columns <= Stride
        /\ CONSOLE_CHAR_HEIGHT \in Nat /\ CONSOLE_CHAR_HEIGHT > 0 /\ CONSOLE_ROW_HEIGHT = CONSOLE_CHAR_HEIGHT + 1
    BY Sizes
  <1>2. CharStep \div 2 = 5 /\ CONSOLE_CHAR_WIDTH \div 2 = 4
    BY DEF CharStep, CONSOLE_CHAR_WIDTH
  <1>3. ASSUME NEW i \in 1 .. Columns
        PROVE  row[0][(i - 1) * 5] = IF i <= n THEN Glyph(shown[i], 0, 0) ELSE Black
    <2> DEFINE x == (i - 1) * 5
    <2>1. x \in 0 .. Stride - 1 /\ x \div 5 + 1 = i /\ x % 5 = 0
      BY <1>1
    <2>2. 0 \in 0 .. CONSOLE_ROW_HEIGHT - 1 /\ 0 < CONSOLE_CHAR_HEIGHT
      BY <1>1
    <2> HIDE DEF x
    <2>3. row[0][x] = IF 0 < CONSOLE_CHAR_HEIGHT /\ x % 5 < 4 /\ x \div 5 + 1 <= Len(shown)
                      THEN Glyph(shown[x \div 5 + 1], 0, x % 5) ELSE Black
      BY <1>2, <2>1, <2>2 DEF Shows
    <2> QED
      BY <2>1, <2>2, <2>3 DEF x
  <1>4. ASSUME NEW i \in 1 .. n
        PROVE  /\ shown[i] \notin Invisible => Glyph(shown[i], 0, 0) = <<shown[i], 0, 0>> /\ Glyph(shown[i], 0, 0) # Black
               /\ shown[i] \in Invisible => Glyph(shown[i], 0, 0) = Black /\ shown[i] = " "
    BY DEF Glyph, Black, Invisible
  <1>5. Inked(row) = {i \in 1 .. n : shown[i] \notin Invisible}
    <2>1. \A i \in 1 .. Columns : row[0][(i - 1) * 5] # Black <=> i <= n /\ shown[i] \notin Invisible
      <3>1. TAKE i \in 1 .. Columns
      <3>2. CASE i <= n
        <4>1. i \in 1 .. n
          BY <3>2
        <4> QED
          BY <1>3, <1>4, <3>2, <4>1
      <3>3. CASE ~(i <= n)
        BY <1>3, <3>3
      <3> QED
        BY <3>2, <3>3
    <2>2. \A i \in 1 .. Columns : i <= n <=> i \in 1 .. n
      BY <1>1
    <2>3. \A i \in 1 .. n : i \in 1 .. Columns
      BY <1>1
    <2> QED
      BY <1>2, <2>1, <2>2, <2>3 DEF Inked
  <1>6. (IF Inked(row) = {} THEN 0 ELSE CHOOSE m \in Inked(row) : \A k \in Inked(row) : k <= m) = n
    <2>1. CASE n = 0
      BY <1>5, <2>1
    <2>2. CASE n > 0
      <3>1. n \in Inked(row) /\ \A k \in Inked(row) : k \in Nat /\ k <= n
        BY <1>5, <2>2
      <3> QED
        BY <3>1
    <2> QED
      BY <2>1, <2>2
  <1>7. TextOf(row) = [i \in 1 .. n |-> row[0][(i - 1) * 5][1]]
    BY <1>2, <1>6 DEF TextOf
  <1>8. ASSUME NEW i \in 1 .. n PROVE row[0][(i - 1) * 5][1] = shown[i]
    <2>1. i \in 1 .. Columns /\ i <= n
      BY <1>1
    <2>2. row[0][(i - 1) * 5] = Glyph(shown[i], 0, 0)
      BY <1>3, <2>1
    <2>3. CASE shown[i] \in Invisible
      <3>1. row[0][(i - 1) * 5] = Black /\ shown[i] = " "
        BY <1>4, <2>2, <2>3
      <3>2. Black[1] = " "
        BY DEF Black
      <3> QED
        BY <3>1, <3>2
    <2>4. CASE shown[i] \notin Invisible
      <3>1. row[0][(i - 1) * 5] = <<shown[i], 0, 0>>
        BY <1>4, <2>2, <2>4
      <3> QED
        BY <3>1
    <2> QED
      BY <2>3, <2>4
  <1>9. TextOf(row) = shown
    <2>1. \A i \in 1 .. n : row[0][(i - 1) * 5][1] = shown[i]
      BY <1>8
    <2> QED
      BY <1>7, <2>1
  <1> QED
    BY <1>9 DEF ShownIn

\* A black row reads as the empty text, and is black where rows have to be.
LEMMA ReadsBlack ==
    ASSUME NEW row, \A y \in 0 .. CONSOLE_ROW_HEIGHT - 1, x \in 0 .. Stride - 1 : row[y][x] = Black
    PROVE  ShownIn(row) = <<>> /\ Gaps(row)
  <1>1. Shows(row, <<>>)
    <2>1. \A x \in 0 .. Stride - 1 : ~(x \div 5 + 1 <= 0)
      BY Sizes
    <2>2. CharStep \div 2 = 5 /\ Len(<<>>) = 0
      BY DEF CharStep
    <2> QED
      BY <2>1, <2>2 DEF Shows
  <1>2. Columns \in Nat
    BY Sizes
  <1>3. <<>> = [i \in 1 .. 0 |-> <<>>[i]] /\ Len(<<>>) = 0
    OBVIOUS
  <1>4. ShownIn(row) = <<>>
    <2>1. 0 \in 0 .. Columns /\ ~(0 > 0) /\ \A i \in 1 .. 0 : FALSE
      BY <1>2
    <2> QED
      BY <1>1, <1>3, <2>1, ReadsText
  <1> QED
    BY <1>4 DEF Gaps

\* A line that is printed in row n is what the row shows, and the only one that changes.
LEMMA Prints ==
    ASSUME y_add \in {0, PAL50_Y}, NEW fb, NEW n \in 0 .. CONSOLE_LINES - 1, NEW l \in TextLines,
           PrintAt(fb, n * CONSOLE_ROW_HEIGHT, l.buffer, l.ret),
           Gaps(RowOf(fb, y_add, n)), NEW r \in 0 .. CONSOLE_LINES - 1
    PROVE  /\ r = n => ShownIn(RowOf(xfb', y_add, r)) = l.text /\ Gaps(RowOf(xfb', y_add, r))
           /\ r # n => RowOf(xfb', y_add, r) = RowOf(fb, y_add, r)
  <1>1. /\ Stride \in Nat /\ Stride > 0 /\ Columns \in Nat /\ 5 * Columns <= Stride
        /\ CONSOLE_CHAR_HEIGHT \in Nat /\ CONSOLE_CHAR_HEIGHT > 0 /\ CONSOLE_ROW_HEIGHT = CONSOLE_CHAR_HEIGHT + 1
    BY Sizes
  <1>2. CharStep \div 2 = 5 /\ CONSOLE_CHAR_WIDTH \div 2 = 4
    BY DEF CharStep, CONSOLE_CHAR_WIDTH
  <1>3. ASSUME NEW y \in 0 .. CONSOLE_ROW_HEIGHT - 1, NEW x \in 0 .. Stride - 1
        PROVE  RowOf(xfb', y_add, r)[y][x] =
                  IF r = n /\ y < CONSOLE_CHAR_HEIGHT /\ x >= 5 * l.ret THEN Black
                  ELSE IF r = n /\ y < CONSOLE_CHAR_HEIGHT /\ x % 5 < 4
                  THEN Glyph(l.buffer[x \div 5 + 1], y, x % 5) ELSE RowOf(fb, y_add, r)[y][x]
    BY PrintsWord DEF RowOf
  <1>4. ASSUME r # n PROVE RowOf(xfb', y_add, r) = RowOf(fb, y_add, r)
    <2>1. \A y \in 0 .. CONSOLE_ROW_HEIGHT - 1, x \in 0 .. Stride - 1 :
              RowOf(xfb', y_add, r)[y][x] = RowOf(fb, y_add, r)[y][x]
      BY <1>3, <1>4
    <2>2. \A y \in 0 .. CONSOLE_ROW_HEIGHT - 1, x \in 0 .. Stride - 1 :
              WordOf(xfb', r * CONSOLE_ROW_HEIGHT + y_add + y, x) = WordOf(fb, r * CONSOLE_ROW_HEIGHT + y_add + y, x)
      BY <2>1 DEF RowOf
    <2> QED
      BY <2>2 DEF RowOf
  <1>5. CASE r = n
    <2>row. PICK row : row = RowOf(xfb', y_add, r)
      OBVIOUS
    <2>1. \A y \in 0 .. CONSOLE_ROW_HEIGHT - 1, x \in 0 .. Stride - 1 :
              y = CONSOLE_CHAR_HEIGHT \/ x % 5 >= 4 => RowOf(fb, y_add, r)[y][x] = Black
      BY <1>2, <1>5 DEF Gaps
    <2>2. ASSUME NEW y \in 0 .. CONSOLE_ROW_HEIGHT - 1, NEW x \in 0 .. Stride - 1
          PROVE  row[y][x] = IF y < CONSOLE_CHAR_HEIGHT /\ x < 5 * l.ret /\ x % 5 < 4
                             THEN Glyph(l.buffer[x \div 5 + 1], y, x % 5) ELSE Black
      <3>1. l.ret \in Nat
        BY <1>1, ConsoleAssumption DEF Fits
      <3>2. y < CONSOLE_CHAR_HEIGHT \/ y = CONSOLE_CHAR_HEIGHT
        BY <1>1
      <3>3. /\ x >= 5 * l.ret \/ x < 5 * l.ret
            /\ ~(x >= 5 * l.ret /\ x < 5 * l.ret)
            /\ x % 5 >= 4 \/ x % 5 < 4
            /\ ~(y = CONSOLE_CHAR_HEIGHT /\ y < CONSOLE_CHAR_HEIGHT)
        BY <1>1, <3>1
      <3>4. row[y][x] = IF y < CONSOLE_CHAR_HEIGHT /\ x >= 5 * l.ret THEN Black
                        ELSE IF y < CONSOLE_CHAR_HEIGHT /\ x % 5 < 4
                        THEN Glyph(l.buffer[x \div 5 + 1], y, x % 5) ELSE RowOf(fb, y_add, r)[y][x]
        BY <1>3, <1>5, <2>row
      <3> QED
        BY <2>1, <3>2, <3>3, <3>4
    <2>3. Gaps(row)
      <3>1. ASSUME NEW y \in 0 .. CONSOLE_ROW_HEIGHT - 1, NEW x \in 0 .. Stride - 1, y = CONSOLE_CHAR_HEIGHT \/ x % 5 >= 4
            PROVE  row[y][x] = Black
        <4>1. ~(y < CONSOLE_CHAR_HEIGHT /\ x % 5 < 4)
          BY <1>1, <3>1
        <4> QED
          BY <2>2, <4>1
      <3> QED
        BY <1>2, <3>1 DEF Gaps
    <2>4. PICK k \in 0 .. l.ret :
             /\ l.text = [i \in 1 .. k |-> l.buffer[i]] /\ \A i \in 1 .. k : l.buffer[i] # "NUL"
             /\ k > 0 => l.buffer[k] \notin Invisible
             /\ \A i \in k + 1 .. l.ret : l.buffer[i] \in Invisible
      BY ConsoleAssumption DEF Fits
    <2>5. l.ret \in 0 .. Columns /\ k \in 0 .. Columns /\ k \in Nat
      BY <1>1, <2>4, ConsoleAssumption DEF Fits
    <2>6. /\ Len(l.text) = k /\ l.text = [i \in 1 .. k |-> l.text[i]]
          /\ \A i \in 1 .. k : l.text[i] = l.buffer[i]
      BY <2>4, <2>5
    <2>7. Shows(row, l.text)
      <3>1. ASSUME NEW y \in 0 .. CONSOLE_ROW_HEIGHT - 1, NEW x \in 0 .. Stride - 1
            PROVE  row[y][x] = IF y < CONSOLE_CHAR_HEIGHT /\ x % 5 < 4 /\ x \div 5 + 1 <= k
                               THEN Glyph(l.text[x \div 5 + 1], y, x % 5) ELSE Black
        <4>1. PICK i \in Nat \ {0} : i = x \div 5 + 1
          BY <1>1
        <4>2. x < 5 * l.ret <=> i <= l.ret
          BY <1>1, <2>5, <4>1
        <4>3. row[y][x] = IF y < CONSOLE_CHAR_HEIGHT /\ i <= l.ret /\ x % 5 < 4
                          THEN Glyph(l.buffer[i], y, x % 5) ELSE Black
          BY <2>2, <4>1, <4>2
        <4>4. CASE i <= k
          <5>1. i <= l.ret /\ l.text[i] = l.buffer[i]
            BY <2>5, <2>6, <4>4
          <5> QED
            BY <4>1, <4>3, <4>4, <5>1
        <4>5. CASE ~(i <= k) /\ i <= l.ret
          <5>1. l.buffer[i] \in Invisible
            BY <2>4, <2>5, <4>5
          <5>2. Glyph(l.buffer[i], y, x % 5) = Black
            BY <5>1 DEF Glyph
          <5> QED
            BY <4>1, <4>3, <4>5, <5>2
        <4>6. CASE ~(i <= k) /\ ~(i <= l.ret)
          BY <4>1, <4>3, <4>6
        <4> QED
          BY <4>4, <4>5, <4>6
      <3> QED
        BY <1>2, <2>6, <3>1 DEF Shows
    <2>8. ShownIn(row) = l.text
      <3>1. /\ \A i \in 1 .. k : l.text[i] # "NUL"
            /\ k > 0 => l.text[k] \notin Invisible
        BY <2>4, <2>5, <2>6
      <3> QED
        BY <2>5, <2>6, <2>7, <3>1, ReadsText
    <2> QED
      BY <1>5, <2>3, <2>8, <2>row
  <1> QED
    BY <1>4, <1>5

\* Scrolling moves each row's words to the row above, and the last row is black.
LEMMA ScrollsRow ==
    ASSUME y_add \in {0, PAL50_Y}, NEW fb, NEW r \in 0 .. CONSOLE_LINES - 1
    PROVE  /\ r < CONSOLE_LINES - 1 => RowOf(scroll(fb), y_add, r) = RowOf(fb, y_add, r + 1)
           /\ r = CONSOLE_LINES - 1 => \A y \in 0 .. CONSOLE_ROW_HEIGHT - 1, x \in 0 .. Stride - 1 :
                                           RowOf(scroll(fb), y_add, r)[y][x] = Black
  <1>1. /\ Stride \in Nat /\ Stride > 0 /\ CONSOLE_LINES \in Nat /\ CONSOLE_LINES > 0
        /\ CONSOLE_ROW_HEIGHT \in Nat /\ CONSOLE_WIDTH = 2 * Stride /\ CONSOLE_WIDTH \in Nat /\ y_add \in Nat
    BY Sizes
  <1>top. PICK top \in Nat : top = r * CONSOLE_ROW_HEIGHT
    BY <1>1
  <1>last. PICK last \in Nat : last = CONSOLE_MAX_Y
    BY <1>1 DEF CONSOLE_MAX_Y
  <1>rows. PICK rows \in Nat : rows = CONSOLE_LINES * CONSOLE_ROW_HEIGHT
    BY <1>1
  <1>2. /\ r < CONSOLE_LINES - 1 => top + CONSOLE_ROW_HEIGHT <= last
        /\ r = CONSOLE_LINES - 1 => top = last
        /\ top + CONSOLE_ROW_HEIGHT <= rows
        /\ (r + 1) * CONSOLE_ROW_HEIGHT = top + CONSOLE_ROW_HEIGHT
    <2>1. (r + 1) * CONSOLE_ROW_HEIGHT = top + CONSOLE_ROW_HEIGHT
      BY <1>1, <1>top
    <2>2. r < CONSOLE_LINES - 1 => (r + 1) * CONSOLE_ROW_HEIGHT <= (CONSOLE_LINES - 1) * CONSOLE_ROW_HEIGHT
      BY <1>1, Monotone
    <2>3. (r + 1) * CONSOLE_ROW_HEIGHT <= CONSOLE_LINES * CONSOLE_ROW_HEIGHT
      BY <1>1, Monotone
    <2> QED
      BY <1>top, <1>last, <1>rows, <2>1, <2>2, <2>3 DEF CONSOLE_MAX_Y
  <1>3. ASSUME NEW y \in 0 .. CONSOLE_ROW_HEIGHT - 1, NEW x \in 0 .. Stride - 1
        PROVE  WordOf(scroll(fb), top + y_add + y, x) =
                  IF r = CONSOLE_LINES - 1 THEN Black ELSE WordOf(fb, top + CONSOLE_ROW_HEIGHT + y_add + y, x)
    <2>m. PICK m \in Nat : m = top + y_add + y
      BY <1>1
    <2>1. m * Stride + x \in Memory
      BY <1>1, <1>top, <2>m, Places
    <2>2. WordOf(scroll(fb), m, x) =
             IF last + y_add <= m /\ m < last + y_add + CONSOLE_ROW_HEIGHT /\ 0 <= 2 * x
             THEN Black ELSE WordOf(Upward(fb), m, x)
      <3>w. PICK px \in Nat, w \in Nat : px = 0 /\ w = CONSOLE_WIDTH
        BY <1>1
      <3>1. scroll(fb) = fill_rect(Upward(fb), px, last, w, CONSOLE_ROW_HEIGHT, Black)
        BY <1>last, <3>w DEF scroll
      <3>2. px + w = CONSOLE_WIDTH /\ px % 2 = 0
        BY <3>w
      <3>3. y_add \in Nat /\ CONSOLE_ROW_HEIGHT \in Nat
        BY <1>1
      <3>4. WordOf(fill_rect(Upward(fb), px, last, w, CONSOLE_ROW_HEIGHT, Black), m, x) =
               IF last + y_add <= m /\ m < last + y_add + CONSOLE_ROW_HEIGHT /\ px <= 2 * x
               THEN Black ELSE WordOf(Upward(fb), m, x)
        BY <2>1, <3>2, <3>3, FillsWord
      <3> QED
        BY <3>1, <3>4, <3>w
    <2>3. WordOf(Upward(fb), m, x) = WordOf(fb, m + CONSOLE_ROW_HEIGHT, x)
      <3>a. PICK a \in Memory : a = m * Stride + x
        BY <2>1
      <3>1. y_add * Stride <= a
        <4>1. y_add * Stride <= m * Stride
          BY <1>1, <2>m, Monotone
        <4>2. y_add * Stride \in Nat /\ m * Stride \in Nat
          BY <1>1
        <4> QED
          BY <1>1, <3>a, <4>1, <4>2
      <3>2. a <= (y_add + rows) * Stride - 1
        <4>1. (m + 1) * Stride <= (y_add + rows) * Stride
          <5>1. m + 1 <= y_add + rows /\ m + 1 \in Nat /\ y_add + rows \in Nat
            BY <1>1, <1>2, <2>m
          <5> QED
            BY <1>1, <5>1, Monotone
        <4>2. (m + 1) * Stride = m * Stride + Stride /\ m * Stride \in Nat /\ (y_add + rows) * Stride \in Nat
          BY <1>1
        <4> QED
          BY <1>1, <3>a, <4>1, <4>2
      <3>3. a \in y_add * Stride .. (y_add + rows) * Stride - 1
        <4>1. a \in Nat /\ y_add * Stride \in Nat /\ (y_add + rows) * Stride \in Nat
          BY <1>1, <3>a
        <4> QED
          BY <3>1, <3>2, <4>1
      <3>4. Upward(fb)[a] = fb[a + CONSOLE_ROW_HEIGHT * Stride]
        BY <1>rows, <3>3 DEF Upward
      <3>5. a + CONSOLE_ROW_HEIGHT * Stride = (m + CONSOLE_ROW_HEIGHT) * Stride + x
        BY <1>1, <3>a
      <3> QED
        BY <3>4, <3>5, <3>a DEF WordOf
    <2>4. (last + y_add <= m /\ m < last + y_add + CONSOLE_ROW_HEIGHT) <=> r = CONSOLE_LINES - 1
      <3>1. r < CONSOLE_LINES - 1 \/ r = CONSOLE_LINES - 1
        BY <1>1
      <3>2. r < CONSOLE_LINES - 1 => ~(last + y_add <= m) /\ r # CONSOLE_LINES - 1
        BY <1>1, <1>2, <2>m
      <3>3. r = CONSOLE_LINES - 1 => last + y_add <= m /\ m < last + y_add + CONSOLE_ROW_HEIGHT
        BY <1>1, <1>2, <2>m
      <3> QED
        BY <3>1, <3>2, <3>3
    <2>5. 0 <= 2 * x /\ m + CONSOLE_ROW_HEIGHT = top + CONSOLE_ROW_HEIGHT + y_add + y
      BY <1>1, <2>m
    <2> QED
      BY <2>2, <2>3, <2>4, <2>5, <2>m
  <1>4. ASSUME r < CONSOLE_LINES - 1 PROVE RowOf(scroll(fb), y_add, r) = RowOf(fb, y_add, r + 1)
    <2>1. r # CONSOLE_LINES - 1
      BY <1>1, <1>4
    <2>2. \A y \in 0 .. CONSOLE_ROW_HEIGHT - 1, x \in 0 .. Stride - 1 :
              WordOf(scroll(fb), r * CONSOLE_ROW_HEIGHT + y_add + y, x)
                 = WordOf(fb, (r + 1) * CONSOLE_ROW_HEIGHT + y_add + y, x)
      BY <1>2, <1>3, <1>top, <2>1
    <2> QED
      BY <2>2 DEF RowOf
  <1>5. ASSUME r = CONSOLE_LINES - 1, NEW y \in 0 .. CONSOLE_ROW_HEIGHT - 1, NEW x \in 0 .. Stride - 1
        PROVE  RowOf(scroll(fb), y_add, r)[y][x] = Black
    <2>1. WordOf(scroll(fb), r * CONSOLE_ROW_HEIGHT + y_add + y, x) = Black
      BY <1>3, <1>5, <1>top
    <2> QED
      BY <2>1 DEF RowOf
  <1> QED
    BY <1>4, <1>5

\* Clearing leaves the rows above alone, and the others black.
LEMMA ClearsRow ==
    ASSUME y_add \in {0, PAL50_Y}, NEW n \in 0 .. CONSOLE_LINES, NEW r \in 0 .. CONSOLE_LINES - 1, NEW fb, NEW cleared,
           cleared = fill_rect(fb, 0, n * CONSOLE_ROW_HEIGHT, CONSOLE_WIDTH, CONSOLE_HEIGHT, Black)
    PROVE  /\ r < n => RowOf(cleared, y_add, r) = RowOf(fb, y_add, r)
           /\ r >= n => \A y \in 0 .. CONSOLE_ROW_HEIGHT - 1, x \in 0 .. Stride - 1 :
                            RowOf(cleared, y_add, r)[y][x] = Black
  <1>1. /\ Stride \in Nat /\ Stride > 0 /\ CONSOLE_LINES \in Nat /\ CONSOLE_ROW_HEIGHT \in Nat /\ CONSOLE_HEIGHT \in Nat
        /\ CONSOLE_LINES * CONSOLE_ROW_HEIGHT <= CONSOLE_HEIGHT /\ CONSOLE_WIDTH \in Nat /\ y_add \in Nat
    BY Sizes
  <1>r. PICK above \in Nat : above = r * CONSOLE_ROW_HEIGHT
    BY <1>1
  <1>n. PICK top \in Nat : top = n * CONSOLE_ROW_HEIGHT
    BY <1>1
  <1>2. /\ r < n => above + CONSOLE_ROW_HEIGHT <= top
        /\ r >= n => above >= top
        /\ above + CONSOLE_ROW_HEIGHT <= CONSOLE_HEIGHT
    <2>1. (r + 1) * CONSOLE_ROW_HEIGHT = above + CONSOLE_ROW_HEIGHT
      BY <1>1, <1>r
    <2>2. r < n => (r + 1) * CONSOLE_ROW_HEIGHT <= n * CONSOLE_ROW_HEIGHT
      BY <1>1, Monotone
    <2>3. r >= n => n * CONSOLE_ROW_HEIGHT <= r * CONSOLE_ROW_HEIGHT
      BY <1>1, Monotone
    <2>4. (r + 1) * CONSOLE_ROW_HEIGHT <= CONSOLE_LINES * CONSOLE_ROW_HEIGHT
      BY <1>1, Monotone
    <2>5. CONSOLE_LINES * CONSOLE_ROW_HEIGHT \in Nat
      BY <1>1
    <2>6. above + CONSOLE_ROW_HEIGHT <= CONSOLE_HEIGHT
      BY <1>1, <2>1, <2>4, <2>5
    <2>7. r < n => above + CONSOLE_ROW_HEIGHT <= top
      BY <1>n, <2>1, <2>2
    <2>8. r >= n => above >= top
      BY <1>n, <1>r, <2>3
    <2> QED
      BY <2>6, <2>7, <2>8
  <1>3. ASSUME NEW y \in 0 .. CONSOLE_ROW_HEIGHT - 1, NEW x \in 0 .. Stride - 1
        PROVE  WordOf(cleared, r * CONSOLE_ROW_HEIGHT + y_add + y, x) =
                  IF r >= n THEN Black ELSE WordOf(fb, r * CONSOLE_ROW_HEIGHT + y_add + y, x)
    <2>m. PICK m \in Nat : m = above + y_add + y
      BY <1>1
    <2>1. m * Stride + x \in Memory
      BY <1>1, <1>r, <2>m, Places
    <2>w. PICK px \in Nat, w \in Nat : px = 0 /\ w = CONSOLE_WIDTH
      BY <1>1
    <2>2. cleared = fill_rect(fb, px, top, w, CONSOLE_HEIGHT, Black)
      BY <1>n, <2>w
    <2>3. px + w = CONSOLE_WIDTH /\ px % 2 = 0
      BY <2>w
    <2>4. y_add \in Nat /\ CONSOLE_HEIGHT \in Nat
      BY <1>1
    <2>5. WordOf(fill_rect(fb, px, top, w, CONSOLE_HEIGHT, Black), m, x) =
             IF top + y_add <= m /\ m < top + y_add + CONSOLE_HEIGHT /\ px <= 2 * x THEN Black ELSE WordOf(fb, m, x)
      BY <2>1, <2>3, <2>4, FillsWord
    <2>6. top + y_add <= m /\ m < top + y_add + CONSOLE_HEIGHT /\ px <= 2 * x <=> r >= n
      <3>1. r < n \/ r >= n
        BY <1>1
      <3>2. r < n => ~(top + y_add <= m) /\ ~(r >= n)
        BY <1>1, <1>2, <2>m
      <3>3. r >= n => top + y_add <= m /\ m < top + y_add + CONSOLE_HEIGHT /\ px <= 2 * x
        BY <1>1, <1>2, <2>m, <2>w
      <3> QED
        BY <3>1, <3>2, <3>3
    <2> QED
      BY <1>r, <2>2, <2>5, <2>6, <2>m
  <1>4. ASSUME r < n PROVE RowOf(cleared, y_add, r) = RowOf(fb, y_add, r)
    <2>1. ~(r >= n)
      BY <1>1, <1>4
    <2>2. \A y \in 0 .. CONSOLE_ROW_HEIGHT - 1, x \in 0 .. Stride - 1 :
              WordOf(cleared, r * CONSOLE_ROW_HEIGHT + y_add + y, x) = WordOf(fb, r * CONSOLE_ROW_HEIGHT + y_add + y, x)
      BY <1>3, <2>1
    <2> QED
      BY <2>2 DEF RowOf
  <1>5. ASSUME r >= n, NEW y \in 0 .. CONSOLE_ROW_HEIGHT - 1, NEW x \in 0 .. Stride - 1
        PROVE  RowOf(cleared, y_add, r)[y][x] = Black
    BY <1>3, <1>5 DEF RowOf
  <1> QED
    BY <1>4, <1>5

\* A new screen is of one colour, rows and what is around them.
LEMMA FloodsRow ==
    ASSUME NEW add \in {0, PAL50_Y}, NEW fb, NEW colour, NEW r \in 0 .. CONSOLE_LINES - 1,
           NEW y \in 0 .. CONSOLE_ROW_HEIGHT - 1, NEW x \in 0 .. Stride - 1
    PROVE  RowOf(Flooded(fb, add, colour), add, r)[y][x] = colour
  <1>1. PICK m \in Nat : m = r * CONSOLE_ROW_HEIGHT + add + y
    BY Places
  <1>2. m * Stride + x \in Memory /\ m * Stride + x \in Whole(add)
    BY <1>1, Places
  <1>3. WordOf(Flooded(fb, add, colour), m, x) = colour
    BY <1>2 DEF Flooded, WordOf
  <1> QED
    BY <1>1, <1>3 DEF RowOf

\* No row of the picture can be read.
LEMMA PictureCovers ==
    ASSUME y_add \in {0, PAL50_Y}, NEW r \in 0 .. CONSOLE_LINES - 1, draw_screen_for_graphical_boot
    PROVE  ShownIn(RowOf(xfb', y_add, r)) = <<"covered">>
  <1>1. /\ Stride \in Nat /\ Stride > 0 /\ CONSOLE_CHAR_HEIGHT \in Nat
        /\ CONSOLE_ROW_HEIGHT = CONSOLE_CHAR_HEIGHT + 1
    BY Sizes
  <1>2. CONSOLE_CHAR_HEIGHT \in 0 .. CONSOLE_ROW_HEIGHT - 1 /\ 0 \in 0 .. Stride - 1
    BY <1>1
  <1>3. PICK m \in Nat : m = r * CONSOLE_ROW_HEIGHT + y_add + CONSOLE_CHAR_HEIGHT
    BY <1>2, Places
  <1>4. m * Stride + 0 \in Memory /\ m * Stride + 0 \in Whole(y_add)
    BY <1>2, <1>3, Places
  <1>5. xfb'[m * Stride + 0] # Black
    BY <1>4 DEF draw_screen_for_graphical_boot, gfx_draw_rect, Flooded, Black, Gray
  <1>6. RowOf(xfb', y_add, r)[CONSOLE_CHAR_HEIGHT][0] # Black
    BY <1>2, <1>3, <1>5 DEF RowOf, WordOf
  <1>7. ~(CONSOLE_CHAR_HEIGHT < CONSOLE_CHAR_HEIGHT)
    BY <1>1
  <1>8. \A shown : ~Shows(RowOf(xfb', y_add, r), shown)
    BY <1>2, <1>6, <1>7 DEF Shows
  <1> QED
    BY <1>8 DEF ShownIn

-----------------------------------------------------------------------------
\* Where a row begins tells which it is.
LEMMA RowNumber ==
    ASSUME NEW n \in Nat
    PROVE  /\ (n * CONSOLE_ROW_HEIGHT) \div CONSOLE_ROW_HEIGHT = n
           /\ n * CONSOLE_ROW_HEIGHT > CONSOLE_MAX_Y <=> n >= CONSOLE_LINES
  <1>1. CONSOLE_ROW_HEIGHT \in Nat /\ CONSOLE_ROW_HEIGHT > 0 /\ CONSOLE_LINES \in Nat /\ CONSOLE_LINES > 0
    BY Sizes
  <1>2. (n * CONSOLE_ROW_HEIGHT) \div CONSOLE_ROW_HEIGHT = n
    BY <1>1, DivMod
  <1>3. CASE n >= CONSOLE_LINES
    <2>1. CONSOLE_LINES * CONSOLE_ROW_HEIGHT <= n * CONSOLE_ROW_HEIGHT
      BY <1>1, <1>3, Monotone
    <2>2. (CONSOLE_LINES - 1) * CONSOLE_ROW_HEIGHT = CONSOLE_LINES * CONSOLE_ROW_HEIGHT - CONSOLE_ROW_HEIGHT
      BY <1>1
    <2> QED
      BY <1>1, <1>2, <1>3, <2>1, <2>2 DEF CONSOLE_MAX_Y
  <1>4. CASE n < CONSOLE_LINES
    <2>1. n * CONSOLE_ROW_HEIGHT <= (CONSOLE_LINES - 1) * CONSOLE_ROW_HEIGHT
      BY <1>1, <1>4, Monotone
    <2> QED
      BY <1>1, <1>2, <1>4, <2>1 DEF CONSOLE_MAX_Y
  <1> QED
    BY <1>1, <1>3, <1>4

\* A call of console_println prints a line of the terminal.
LEMMA PrintStep == ConsoleInv /\ console_println => ConsoleInv' /\ Promise!PrintLine
  <1> SUFFICES ASSUME ConsoleInv, console_println PROVE ConsoleInv' /\ Promise!PrintLine
    OBVIOUS
  <1>1. /\ CONSOLE_LINES \in Nat /\ CONSOLE_LINES > 0 /\ CONSOLE_ROW_HEIGHT \in Nat
        /\ Columns \in Nat
    BY Sizes
  <1>n. PICK n \in 0 .. CONSOLE_LINES : current_y = n * CONSOLE_ROW_HEIGHT
    BY DEF ConsoleInv
  <1>l. PICK l \in TextLines : Called("print", l.text) /\ print_str(l.buffer, l.ret) /\ UNCHANGED <<y_add, fonts>>
    BY DEF console_println
  <1>2. /\ y_add \in {0, PAL50_Y} /\ y_add' = y_add /\ fonts' = fonts /\ fonts \in Nat /\ fonts > 0
        /\ line'.op = "print" /\ line'.text = l.text
        /\ \A r \in 0 .. CONSOLE_LINES - 1 : Gaps(RowOf(xfb, y_add, r))
    BY <1>l DEF ConsoleInv, console_println, Called
  <1>3. Promise!Cut(l.text) = l.text
    <2>1. PICK k \in 0 .. l.ret : l.text = [i \in 1 .. k |-> l.buffer[i]]
      BY ConsoleAssumption DEF Fits
    <2>2. l.ret \in 0 .. Columns
      BY ConsoleAssumption DEF Fits
    <2>3. Len(l.text) = k /\ k <= Columns
      BY <1>1, <2>1, <2>2
    <2> QED
      BY <2>3 DEF Promise!Cut
  <1>4. current_y \div CONSOLE_ROW_HEIGHT = n
    BY <1>1, <1>n, RowNumber
  <1>5. CASE n < CONSOLE_LINES
    <2>1. n \in 0 .. CONSOLE_LINES - 1 /\ n + 1 \in 0 .. CONSOLE_LINES /\ n \in Nat /\ n + 1 \in Nat
      BY <1>1, <1>5
    <2>2. PrintAt(xfb, n * CONSOLE_ROW_HEIGHT, l.buffer, l.ret)
      <3>1. ~(current_y > CONSOLE_MAX_Y)
        <4>1. n * CONSOLE_ROW_HEIGHT > CONSOLE_MAX_Y <=> n >= CONSOLE_LINES
          BY <2>1, RowNumber
        <4>2. ~(n >= CONSOLE_LINES)
          BY <1>1, <1>5
        <4> QED
          BY <1>n, <4>1, <4>2, Zenon
      <3> QED
        BY <1>l, <1>n, <3>1 DEF print_str
    <2>3. current_y' = (n + 1) * CONSOLE_ROW_HEIGHT
      <3>1. current_y' = n * CONSOLE_ROW_HEIGHT + CONSOLE_ROW_HEIGHT
        BY <2>2 DEF PrintAt
      <3> QED
        BY <1>1, <2>1, <3>1
    <2>4. ASSUME NEW r \in 0 .. CONSOLE_LINES - 1
          PROVE  /\ ShownIn(RowOf(xfb', y_add, r)) = IF r = n THEN l.text ELSE ShownIn(RowOf(xfb, y_add, r))
                 /\ Gaps(RowOf(xfb', y_add, r))
      <3>1. Gaps(RowOf(xfb, y_add, n)) /\ Gaps(RowOf(xfb, y_add, r))
        BY <1>2, <2>1
      <3>2. /\ r = n => ShownIn(RowOf(xfb', y_add, r)) = l.text /\ Gaps(RowOf(xfb', y_add, r))
            /\ r # n => RowOf(xfb', y_add, r) = RowOf(xfb, y_add, r)
        BY <1>2, <2>1, <2>2, <3>1, Prints
      <3>3. CASE r = n
        BY <3>2, <3>3
      <3>4. CASE r # n
        BY <3>1, <3>2, <3>4
      <3> QED
        BY <3>3, <3>4
    <2>5. ConsoleInv'
      BY <1>2, <2>1, <2>3, <2>4 DEF ConsoleInv
    <2>6. Screen' = [Screen EXCEPT ![n] = l.text]
      <3>1. Screen' = [r \in 0 .. CONSOLE_LINES - 1 |-> ShownIn(RowOf(xfb', y_add, r))]
        BY <1>2 DEF Screen
      <3>2. Screen = [r \in 0 .. CONSOLE_LINES - 1 |-> ShownIn(RowOf(xfb, y_add, r))]
        BY DEF Screen
      <3> QED
        BY <2>1, <2>4, <3>1, <3>2
    <2>7. current_y' \div CONSOLE_ROW_HEIGHT = n + 1
      BY <2>1, <2>3, RowNumber
    <2> QED
      BY <1>2, <1>3, <1>4, <1>5, <2>5, <2>6, <2>7 DEF Promise!PrintLine
  <1>6. CASE n = CONSOLE_LINES
    <2>b. PICK last \in 0 .. CONSOLE_LINES - 1 : last = CONSOLE_LINES - 1
      BY <1>1
    <2>f. PICK fb : fb = scroll(xfb)
      OBVIOUS
    <2>1. PrintAt(fb, last * CONSOLE_ROW_HEIGHT, l.buffer, l.ret)
      <3>1. current_y > CONSOLE_MAX_Y
        <4>1. n * CONSOLE_ROW_HEIGHT > CONSOLE_MAX_Y <=> n >= CONSOLE_LINES
          BY RowNumber
        <4>2. n >= CONSOLE_LINES
          BY <1>1, <1>6
        <4> QED
          BY <1>n, <4>1, <4>2, Zenon
      <3>2. last * CONSOLE_ROW_HEIGHT = CONSOLE_MAX_Y
        BY <2>b DEF CONSOLE_MAX_Y
      <3> QED
        BY <1>l, <2>f, <3>1, <3>2 DEF print_str
    <2>2. current_y' = CONSOLE_LINES * CONSOLE_ROW_HEIGHT
      <3>1. current_y' = last * CONSOLE_ROW_HEIGHT + CONSOLE_ROW_HEIGHT
        BY <2>1 DEF PrintAt
      <3> QED
        BY <1>1, <2>b, <3>1
    <2>3. Gaps(RowOf(fb, y_add, last))
      <3>1. \A y \in 0 .. CONSOLE_ROW_HEIGHT - 1, x \in 0 .. Stride - 1 : RowOf(fb, y_add, last)[y][x] = Black
        BY <1>2, <2>b, <2>f, ScrollsRow
      <3> QED
        BY <3>1 DEF Gaps
    <2>4. ASSUME NEW r \in 0 .. CONSOLE_LINES - 1
          PROVE  /\ ShownIn(RowOf(xfb', y_add, r)) = IF r = last THEN l.text ELSE ShownIn(RowOf(xfb, y_add, r + 1))
                 /\ Gaps(RowOf(xfb', y_add, r))
      <3>1. /\ r = last => ShownIn(RowOf(xfb', y_add, r)) = l.text /\ Gaps(RowOf(xfb', y_add, r))
            /\ r # last => RowOf(xfb', y_add, r) = RowOf(fb, y_add, r)
        BY <1>2, <2>1, <2>3, Prints
      <3>2. CASE r = last
        BY <3>1, <3>2
      <3>3. CASE r # last
        <4>1. r < CONSOLE_LINES - 1 /\ r + 1 \in 0 .. CONSOLE_LINES - 1
          BY <1>1, <2>b, <3>3
        <4>2. RowOf(fb, y_add, r) = RowOf(xfb, y_add, r + 1)
          BY <1>2, <2>f, <4>1, ScrollsRow
        <4>3. Gaps(RowOf(xfb, y_add, r + 1))
          BY <1>2, <4>1
        <4> QED
          BY <3>1, <3>3, <4>2, <4>3
      <3> QED
        BY <3>2, <3>3
    <2>5. ConsoleInv'
      <3>1. CONSOLE_LINES \in 0 .. CONSOLE_LINES
        BY <1>1
      <3> QED
        BY <1>2, <2>2, <2>4, <3>1 DEF ConsoleInv
    <2>6. Screen' = [r \in 0 .. CONSOLE_LINES - 1 |-> IF r = CONSOLE_LINES - 1 THEN l.text ELSE Screen[r + 1]]
      <3>1. Screen' = [r \in 0 .. CONSOLE_LINES - 1 |-> ShownIn(RowOf(xfb', y_add, r))]
        BY <1>2 DEF Screen
      <3>2. ASSUME NEW r \in 0 .. CONSOLE_LINES - 1, r # last PROVE Screen[r + 1] = ShownIn(RowOf(xfb, y_add, r + 1))
        <4>1. r + 1 \in 0 .. CONSOLE_LINES - 1
          BY <1>1, <2>b, <3>2
        <4> QED
          BY <4>1 DEF Screen
      <3> QED
        BY <2>4, <2>b, <3>1, <3>2
    <2>7. current_y' \div CONSOLE_ROW_HEIGHT = CONSOLE_LINES
      BY <1>1, <2>2, RowNumber
    <2>8. ~(n < CONSOLE_LINES)
      BY <1>1, <1>6
    <2> QED
      BY <1>2, <1>3, <1>4, <1>6, <2>5, <2>6, <2>7, <2>8 DEF Promise!PrintLine
  <1> QED
    BY <1>1, <1>5, <1>6

\* Clearing the rest clears the terminal's rows below the last line.
LEMMA ClearStep == ConsoleInv /\ clear_remainder_reset_y => ConsoleInv' /\ Promise!Clear
  <1> SUFFICES ASSUME ConsoleInv, clear_remainder_reset_y PROVE ConsoleInv' /\ Promise!Clear
    OBVIOUS
  <1>1. CONSOLE_LINES \in Nat /\ CONSOLE_LINES > 0 /\ CONSOLE_ROW_HEIGHT \in Nat
    BY Sizes
  <1>n. PICK n \in 0 .. CONSOLE_LINES : current_y = n * CONSOLE_ROW_HEIGHT
    BY DEF ConsoleInv
  <1>2. /\ y_add \in {0, PAL50_Y} /\ y_add' = y_add /\ fonts' = fonts /\ fonts \in Nat /\ fonts > 0
        /\ line'.op = "clear" /\ current_y' = 0
        /\ xfb' = fill_rect(xfb, 0, n * CONSOLE_ROW_HEIGHT, CONSOLE_WIDTH, CONSOLE_HEIGHT, Black)
        /\ \A r \in 0 .. CONSOLE_LINES - 1 : Gaps(RowOf(xfb, y_add, r))
    BY <1>n DEF ConsoleInv, clear_remainder_reset_y, Called
  <1>3. ASSUME NEW r \in 0 .. CONSOLE_LINES - 1
        PROVE  /\ ShownIn(RowOf(xfb', y_add, r)) = IF r < n THEN ShownIn(RowOf(xfb, y_add, r)) ELSE <<>>
               /\ Gaps(RowOf(xfb', y_add, r))
    <2>1. CASE r < n
      BY <1>2, <2>1, ClearsRow
    <2>2. CASE ~(r < n)
      <3>1. r >= n
        BY <1>1, <2>2
      <3>2. \A y \in 0 .. CONSOLE_ROW_HEIGHT - 1, x \in 0 .. Stride - 1 : RowOf(xfb', y_add, r)[y][x] = Black
        BY <1>2, <3>1, ClearsRow
      <3> QED
        BY <2>2, <3>2, ReadsBlack
    <2> QED
      BY <2>1, <2>2
  <1>4. 0 \in 0 .. CONSOLE_LINES /\ 0 = 0 * CONSOLE_ROW_HEIGHT
    BY <1>1
  <1>5. ConsoleInv'
    BY <1>2, <1>3, <1>4 DEF ConsoleInv
  <1>6. current_y \div CONSOLE_ROW_HEIGHT = n /\ current_y' \div CONSOLE_ROW_HEIGHT = 0
    BY <1>1, <1>2, <1>4, <1>n, RowNumber
  <1>7. Screen' = [r \in 0 .. CONSOLE_LINES - 1 |-> IF r < n THEN Screen[r] ELSE <<>>]
    BY <1>2, <1>3 DEF Screen
  <1> QED
    BY <1>2, <1>5, <1>6, <1>7 DEF Promise!Clear

\* A new video mode begins with a blank terminal, and goes on in the same row.
LEMMA SetupStep == ConsoleInv /\ init_fb => ConsoleInv' /\ Promise!Setup
  <1> SUFFICES ASSUME ConsoleInv, init_fb PROVE ConsoleInv' /\ Promise!Setup
    OBVIOUS
  <1>1. PICK add \in {0, PAL50_Y} : y_add' = add /\ xfb' = Flooded(xfb, add, Black)
    BY DEF init_fb
  <1>2. /\ line'.op = "setup" /\ current_y' = current_y /\ fonts' = fonts + 1 /\ fonts \in Nat
        /\ \E n \in 0 .. CONSOLE_LINES : current_y = n * CONSOLE_ROW_HEIGHT
    BY DEF init_fb, Called, ConsoleInv
  <1>3. ASSUME NEW r \in 0 .. CONSOLE_LINES - 1
        PROVE  ShownIn(RowOf(xfb', y_add', r)) = <<>> /\ Gaps(RowOf(xfb', y_add', r))
    BY <1>1, FloodsRow, ReadsBlack
  <1>4. ConsoleInv'
    BY <1>1, <1>2, <1>3 DEF ConsoleInv
  <1>5. Screen' = [r \in 0 .. CONSOLE_LINES - 1 |-> <<>>]
    BY <1>3 DEF Screen
  <1> QED
    BY <1>2, <1>4, <1>5 DEF Promise!Setup, Promise!Blank

\* The picture covers the terminal.
LEMMA PictureStep == ConsoleInv /\ draw_screen_for_graphical_boot => ConsoleInv' /\ Promise!Picture
  <1> SUFFICES ASSUME ConsoleInv, draw_screen_for_graphical_boot PROVE ConsoleInv' /\ Promise!Picture
    OBVIOUS
  <1>1. /\ line'.op = "picture" /\ current_y' = current_y /\ fonts' = fonts /\ fonts \in Nat
        /\ y_add' = y_add /\ y_add \in {0, PAL50_Y}
        /\ \E n \in 0 .. CONSOLE_LINES : current_y = n * CONSOLE_ROW_HEIGHT
    BY DEF draw_screen_for_graphical_boot, Called, ConsoleInv
  <1>2. ConsoleInv'
    BY <1>1 DEF ConsoleInv
  <1>3. \A r \in 0 .. CONSOLE_LINES - 1 : ShownIn(RowOf(xfb', y_add, r)) = <<"covered">>
    BY <1>1, PictureCovers
  <1>4. Screen' = [r \in 0 .. CONSOLE_LINES - 1 |-> <<"covered">>]
    BY <1>1, <1>3 DEF Screen
  <1> QED
    BY <1>1, <1>2, <1>4 DEF Promise!Picture, Promise!Covered

-----------------------------------------------------------------------------
\* The program starts at the first row, with no characters drawn and nothing to read.
LEMMA ConsoleStarts == ConsoleInit => ConsoleInv /\ Promise!Init
  <1>1. CONSOLE_LINES \in Nat /\ CONSOLE_ROW_HEIGHT \in Nat /\ CONSOLE_ROW_HEIGHT > 0
    BY Sizes
  <1>2. 0 \in 0 .. CONSOLE_LINES /\ 0 * CONSOLE_ROW_HEIGHT = 0 /\ 0 \div CONSOLE_ROW_HEIGHT = 0
    BY <1>1
  <1> QED
    BY <1>2 DEF ConsoleInit, ConsoleInv, Promise!Init, Screen

\* Lines begin at a row and characters keep their room (ConsoleInv), in every run.
THEOREM ConsoleInvariance == ConsoleSpec => []ConsoleInv
  <1>1. ConsoleInit => ConsoleInv
    BY ConsoleStarts
  <1>2. ConsoleInv /\ [ConsoleNext]_consoleVars => ConsoleInv'
    <2>1. ASSUME ConsoleInv, UNCHANGED consoleVars PROVE ConsoleInv'
      BY <2>1 DEF ConsoleInv, consoleVars
    <2> QED
      BY <2>1, PrintStep, ClearStep, SetupStep, PictureStep DEF ConsoleNext
  <1> QED
    BY <1>1, <1>2, PTL DEF ConsoleSpec

\* The console is a terminal: each line is shown in a row of its own, whole, and stays
\* until it is scrolled, cleared or printed over; nothing is left of what was in the row
\* before (console_println, scroll, clear_remainder_reset_y, init_fb).
THEOREM ConsoleIsTerminal == ConsoleSpec => LinesShown
  <1>1. ConsoleInit => Promise!Init
    BY ConsoleStarts
  <1>2. ConsoleInv /\ [ConsoleNext]_consoleVars => [Promise!Next]_(Promise!vars)
    <2>1. ASSUME UNCHANGED consoleVars PROVE UNCHANGED Promise!vars
      BY <2>1 DEF consoleVars, Promise!vars, Screen
    <2> QED
      BY <2>1, PrintStep, ClearStep, SetupStep, PictureStep DEF ConsoleNext, Promise!Next
  <1> QED
    BY <1>1, <1>2, ConsoleInvariance, PTL DEF ConsoleSpec, LinesShown, Promise!Spec

-----------------------------------------------------------------------------
(* The USB Gecko. *)

USE DEF Tried, Taken, Late

\* At the start nothing is tried, sent or told.
LEMMA GeckoStarts == GeckoInit => GeckoInv
  <1> SUFFICES ASSUME GeckoInit PROVE GeckoInv
    OBVIOUS
  <1>1. /\ device \in Devices /\ busy = FALSE /\ data = "zero" /\ task = "none" /\ pc = "off"
        /\ polls = 0 /\ word = "zero" /\ enabled = FALSE /\ late = FALSE
        /\ text = <<>> /\ rest = <<>> /\ tries = <<>> /\ got = <<>>
    BY DEF GeckoInit
  <1>2. GeckoTypeOK /\ TextTypeOK
    <2>1. TextTypeOK
      BY <1>1, GeckoAssumption DEF TextTypeOK
    <2>2. GeckoTypeOK
      BY <1>1 DEF WordsSeen, GeckoTypeOK
    <2> QED
      BY <2>1, <2>2
  <1>3. WireTrue
    BY <1>1 DEF WireTrue, Commanded, Sending
  <1>4. TextTrue
    BY <1>1 DEF TextTrue, Sending
  <1>5. Has({})
    <2>1. Cardinality({}) = 0 /\ Len(got) = 0 /\ Len(tries) = 0
      BY <1>1, FS_EmptySet
    <2> QED
      BY <1>1, <2>1 DEF Has, Taking, Sending
  <1>6. GotTrue
    BY <1>5 DEF GotTrue
  <1> QED
    BY <1>2, <1>3, <1>4, <1>6 DEF GeckoInv

\* What the text is and how far it has come is no affair of the steps on the wire.
LEMMA TextKept ==
    ASSUME TextTrue, UNCHANGED <<text, rest, tries>>, got' = got \/ Sending,
           Sending' <=> Sending,
           pc = "idle" => pc' = "idle", pc' = "idle" => pc = "idle" \/ ~Sending
    PROVE  TextTrue'
  <1>1. Sending' \/ pc' = "idle" \/ (text' = <<>> /\ rest' = <<>> /\ tries' = <<>> /\ got' = <<>>)
    BY DEF TextTrue
  <1>2. /\ Len(tries') <= Len(text')
        /\ \A i \in Tried' :
              tries'[i].byte = text'[i] /\ (i < Len(tries') => Taken(i)')
    BY DEF TextTrue
  <1>3. Sending' =>
           /\ Len(rest') > 0 /\ Len(tries') + Len(rest') = Len(text')
           /\ \A i \in 1 .. Len(rest') : rest'[i] = text'[Len(tries') + i]
           /\ \A i \in Tried' : Taken(i)'
    BY DEF TextTrue
  <1>4. pc' = "idle" =>
           \/ /\ Len(rest') = 0 /\ Len(tries') = Len(text')
              /\ \A i \in Tried' : Taken(i)'
           \/ /\ Len(tries') > 0 /\ ~(tries'[Len(tries')].said = "taken")
              /\ Len(rest') = Len(text') - Len(tries') + 1
    <2>1. CASE pc = "idle"
      BY <2>1 DEF TextTrue
    <2>2. CASE pc # "idle" /\ ~Sending
      BY <2>2 DEF TextTrue
    <2> QED
      BY <2>1, <2>2
  <1> QED
    BY <1>1, <1>2, <1>3, <1>4, Zenon DEF TextTrue

\* What the device has changes when it takes a byte, and when a byte has been tried.
LEMMA GotKept ==
    ASSUME GotTrue, UNCHANGED <<rest, tries, got>>, Taking' <=> Taking
    PROVE  GotTrue'
  <1>1. PICK took \in SUBSET Tried : Has(took)
    BY DEF GotTrue
  <1>2. Has(took)'
    BY <1>1 DEF Has, Place
  <1> QED
    BY <1>1, <1>2 DEF GotTrue

\* The places of the bytes that were taken, in what the device has.
LEMMA PlaceIs ==
    ASSUME NEW n \in Nat, NEW took \in SUBSET (1 .. n)
    PROVE  /\ IsFiniteSet(took) /\ Cardinality(took) \in Nat
           /\ \A i \in took : Place(took, i) \in 1 .. Cardinality(took)
  <1>1. IsFiniteSet(1 .. n)
    BY FS_Interval
  <1>2. IsFiniteSet(took) /\ Cardinality(took) \in Nat
    BY <1>1, FS_Subset, FS_CardinalityType
  <1>3. ASSUME NEW i \in took PROVE Place(took, i) \in 1 .. Cardinality(took)
    <2> DEFINE T == {j \in took : j <= i}
    <2>1. T \in SUBSET took /\ i \in T
      OBVIOUS
    <2>2. IsFiniteSet(T) /\ Cardinality(T) <= Cardinality(took) /\ Cardinality(T) \in Nat
      BY <1>2, <2>1, FS_Subset, FS_CardinalityType
    <2>3. Cardinality(T) # 0
      BY <2>1, <2>2, FS_EmptySet
    <2> QED
      BY <1>2, <2>2, <2>3 DEF Place
  <1> QED
    BY <1>2, <1>3

\* One more byte, behind the others.
LEMMA PlaceOfNext ==
    ASSUME NEW n \in Nat, NEW took \in SUBSET (1 .. n)
    PROVE  /\ Cardinality(took \cup {n + 1}) = Cardinality(took) + 1
           /\ Place(took \cup {n + 1}, n + 1) = Cardinality(took) + 1
           /\ \A i \in took : Place(took \cup {n + 1}, i) = Place(took, i)
  <1>1. IsFiniteSet(took) /\ n + 1 \notin took
    <2>1. n + 1 \notin 1 .. n
      OBVIOUS
    <2> QED
      BY <2>1, PlaceIs
  <1>2. Cardinality(took \cup {n + 1}) = Cardinality(took) + 1
    BY <1>1, FS_AddElement
  <1>3. {j \in took \cup {n + 1} : j <= n + 1} = took \cup {n + 1}
    <2>1. \A j \in took \cup {n + 1} : j <= n + 1
      OBVIOUS
    <2> QED
      BY <2>1
  <1>4. ASSUME NEW i \in took PROVE {j \in took \cup {n + 1} : j <= i} = {j \in took : j <= i}
    OBVIOUS
  <1> QED
    BY <1>2, <1>3, <1>4 DEF Place

-----------------------------------------------------------------------------
\* The device answers, and takes the byte if that is what it says.
LEMMA ExchangeKeeps == GeckoInv /\ Exchange => GeckoInv'
  <1> SUFFICES ASSUME GeckoInv, Exchange PROVE GeckoInv'
    OBVIOUS
  <1>1. GeckoTypeOK /\ TextTypeOK /\ WireTrue /\ TextTrue /\ GotTrue
    BY DEF GeckoInv
  <1>2. /\ busy /\ busy' = FALSE /\ data' \in Answers
        /\ got' = IF data' = "taken" THEN Append(got, Head(rest)) ELSE got
        /\ UNCHANGED <<device, task, pc, polls, word, enabled, text, rest, tries, late>>
    BY DEF Exchange
  <1>3. Commanded /\ data = "shifting" /\ task # "none" /\ ~Taking /\ pc # "idle"
    BY <1>1, <1>2 DEF WireTrue, Taking, Commanded
  <1>4. /\ data' # "shifting"
        /\ data' = "0470" => device = "gecko"
        /\ data' = "taken" => Sending
    BY <1>1, <1>2, <1>3 DEF Answers, GeckoTypeOK, Sending
  <1>5. data' = "taken" => Len(rest) > 0 /\ Head(rest) = rest[1] /\ rest[1] \in Chars
    <2>1. rest \in Seq(Chars)
      BY <1>1 DEF TextTypeOK
    <2>2. data' = "taken" => Len(rest) > 0
      BY <1>1, <1>4 DEF TextTrue
    <2> QED
      BY <2>1, <2>2
  <1>6. GeckoTypeOK' /\ TextTypeOK'
    <2>1. got \in Seq(Chars)
      BY <1>1 DEF TextTypeOK
    <2>2. got' \in Seq(Chars)
      BY <1>2, <1>5, <2>1
    <2>3. TextTypeOK'
      BY <1>1, <1>2, <2>2 DEF TextTypeOK
    <2>4. GeckoTypeOK'
      BY <1>1, <1>2, <1>4 DEF WordsSeen, GeckoTypeOK, Answers
    <2> QED
      BY <2>3, <2>4
  <1>7. WireTrue'
    BY <1>1, <1>2, <1>3, <1>4 DEF WireTrue, Commanded, Sending
  <1>8. TextTrue'
    BY <1>1, <1>2, <1>3, <1>4, TextKept DEF Sending
  <1>9. GotTrue'
    <2>1. PICK took \in SUBSET Tried : Has(took)
      BY <1>1 DEF GotTrue
    <2>2. Taking' <=> data' = "taken"
      BY <1>2, <1>3, <1>4 DEF Taking, Commanded, Sending
    <2>3. CASE data' # "taken"
      BY <1>1, <1>2, <1>3, <2>2, <2>3, GotKept
    <2>4. CASE data' = "taken"
      <3>1. /\ Len(got) = Cardinality(took)
            /\ \A i \in took : got[Place(took, i)] = tries[i].byte
            /\ \A i \in Tried : ~Late(i) => (i \in took <=> Taken(i))
        <4>1. Len(got) = Cardinality(took)
          <5>1. (IF Taking THEN 1 ELSE 0) = 0
            BY <1>3
          <5>2. Len(got) = Cardinality(took) + 0
            BY <2>1, <5>1, Zenon DEF Has
          <5>3. Cardinality(took) \in Nat
            <6>1. Len(tries) \in Nat
              BY <1>1 DEF TextTypeOK
            <6> QED
              BY <6>1, PlaceIs
          <5> QED
            BY <5>2, <5>3
        <4> QED
          BY <2>1, <4>1, Zenon DEF Has
      <3>2. \A i \in took : Place(took, i) \in 1 .. Len(got)
        <4>1. Len(tries) \in Nat
          BY <1>1 DEF TextTypeOK
        <4> QED
          BY <3>1, <4>1, PlaceIs
      <3>3. /\ got \in Seq(Chars) /\ Len(got) \in Nat /\ got' = Append(got, rest[1]) /\ rest[1] \in Chars
        <4>1. got \in Seq(Chars)
          BY <1>1 DEF TextTypeOK
        <4> QED
          BY <1>2, <1>5, <2>4, <4>1
      <3>4. Len(got') = Len(got) + 1 /\ got'[Len(got')] = rest[1]
            /\ \A k \in 1 .. Len(got) : got'[k] = got[k]
        BY <3>3
      <3>5. \A i \in took : got'[Place(took, i)] = tries[i].byte
        BY <3>1, <3>2, <3>4
      <3>6. Has(took)'
        BY <1>2, <2>2, <2>4, <3>1, <3>4, <3>5 DEF Has, Place
      <3> QED
        BY <1>2, <3>6 DEF GotTrue
    <2> QED
      BY <2>3, <2>4
  <1> QED
    BY <1>6, <1>7, <1>8, <1>9 DEF GeckoInv

\* The steps of a command that only look at the wire.
LEMMA WatchKeeps ==
    ASSUME GeckoInv, \/ AskedId \/ GotId \/ _gecko_poll \/ _gecko_polled \/ ReadData \/ _gecko_command
    PROVE  GeckoInv'
  <1>1. GeckoTypeOK /\ TextTypeOK /\ WireTrue /\ TextTrue /\ GotTrue
    BY DEF GeckoInv
  <1>2. UNCHANGED <<device, enabled, text, rest, tries, got>>
    BY DEF AskedId, GotId, _gecko_poll, _gecko_polled, ReadData, _gecko_command
  <1>3. /\ Sending' <=> Sending
        /\ pc # "idle" /\ pc' \in {"polling", "read", "deselect"}
    BY <1>1
       DEF AskedId, GotId, _gecko_poll, _gecko_polled, ReadData, _gecko_command, Begin,
           Sending, GeckoTypeOK
  <1>4. TextTypeOK'
    <2>1. \/ polls' = MaxPolls
          \/ polls' = polls
          \/ polls > 0 /\ polls' = polls - 1
      BY DEF AskedId, GotId, _gecko_poll, _gecko_polled, ReadData, _gecko_command, Begin
    <2>2. polls \in 0 .. MaxPolls /\ MaxPolls \in Nat
      BY <1>1, GeckoAssumption DEF TextTypeOK
    <2>3. polls' \in 0 .. MaxPolls
      BY <2>1, <2>2
    <2> QED
      BY <1>1, <1>2, <2>3 DEF TextTypeOK
  <1>5. GeckoTypeOK' /\ WireTrue' /\ (Taking' <=> Taking)
    <2>1. CASE AskedId \/ _gecko_command
      BY <1>1, <1>2, <2>1 DEF WireTrue, AskedId, _gecko_command, Begin, Commanded, Sending, Taking, GeckoTypeOK
    <2>2. CASE GotId
      <3>1. pc = "polling" /\ pc' = "read" /\ ~busy /\ UNCHANGED <<busy, data, task, word, late>>
        BY <2>2 DEF GotId
      <3> QED
        BY <1>1, <1>2, <3>1 DEF WireTrue, Commanded, Sending, Taking, GeckoTypeOK
    <2>3. CASE _gecko_poll
      <3>1. UNCHANGED <<busy, data, task, pc, word, late>> /\ pc = "polling"
        BY <2>3 DEF _gecko_poll
      <3> QED
        BY <1>1, <1>2, <3>1 DEF WireTrue, Commanded, Sending, Taking, GeckoTypeOK
    <2>4. CASE _gecko_polled
      <3>1. pc = "polling" /\ pc' = "read" /\ late' = busy /\ UNCHANGED <<busy, data, task, word>>
        BY <2>4 DEF _gecko_polled
      <3> QED
        BY <1>1, <1>2, <3>1 DEF WireTrue, Commanded, Sending, Taking, GeckoTypeOK
    <2>5. CASE ReadData
      <3>1. /\ pc = "read" /\ pc' = "deselect" /\ UNCHANGED <<busy, data, task, late>>
            /\ word' \in (IF data = "shifting" THEN {"taken", "refused"} ELSE {data})
        BY <2>5 DEF ReadData, WordsRead
      <3>2. GeckoTypeOK'
        BY <1>1, <1>2, <3>1 DEF WordsSeen, GeckoTypeOK
      <3>3. WireTrue'
        <4>1. ~late => word' = data
          BY <1>1, <3>1 DEF WireTrue, Commanded
        <4>2. word' = "0470" => device = "gecko"
          BY <1>1, <3>1 DEF WireTrue
        <4> QED
          BY <1>1, <1>2, <3>1, <4>1, <4>2 DEF WireTrue, Commanded, Sending
      <3>4. Taking' <=> Taking
        BY <3>1 DEF Taking, Commanded, Sending
      <3> QED
        BY <3>2, <3>3, <3>4
    <2> QED
      BY <2>1, <2>2, <2>3, <2>4, <2>5
  <1>6. TextTrue'
    BY <1>1, <1>2, <1>3, TextKept
  <1>7. GotTrue'
    BY <1>1, <1>2, <1>5, GotKept
  <1> QED
    BY <1>4, <1>5, <1>6, <1>7 DEF GeckoInv

\* gecko_init: nothing is sent before it is known whether a Gecko is there.
LEMMA ProbeKeeps ==
    ASSUME GeckoInv, gecko_init \/ _gecko_getid \/ gecko_isalive
    PROVE  GeckoInv'
  <1>1. GeckoTypeOK /\ TextTypeOK /\ WireTrue /\ TextTrue /\ GotTrue
    BY DEF GeckoInv
  <1>2. UNCHANGED <<device, text, rest, tries, got>> /\ pc # "idle" /\ ~Sending /\ ~Sending'
    BY <1>1 DEF gecko_init, _gecko_getid, gecko_isalive, Deselected, Begin, Sending, WireTrue
  <1>3. GeckoTypeOK' /\ TextTypeOK'
    <2>1. polls' = MaxPolls \/ polls' = polls
      BY DEF gecko_init, _gecko_getid, gecko_isalive, Begin
    <2>2. TextTypeOK'
      <3>1. polls \in 0 .. MaxPolls /\ MaxPolls \in Nat
        BY <1>1, GeckoAssumption DEF TextTypeOK
      <3>2. polls' \in 0 .. MaxPolls
        BY <2>1, <3>1
      <3> QED
        BY <1>1, <1>2, <3>2 DEF TextTypeOK
    <2>3. GeckoTypeOK'
      BY <1>1, <1>2
         DEF GeckoTypeOK, gecko_init, _gecko_getid, gecko_isalive, Deselected, Begin, IsAlive
    <2> QED
      BY <2>2, <2>3
  <1>4. WireTrue'
    <2>1. CASE gecko_init
      BY <1>1, <1>2, <2>1 DEF WireTrue, gecko_init, Begin, Commanded, Sending
    <2>2. CASE _gecko_getid
      BY <1>1, <1>2, <2>2 DEF WireTrue, _gecko_getid, Deselected, Commanded, Sending
    <2>3. CASE gecko_isalive
      BY <1>1, <1>2, <2>3 DEF WireTrue, gecko_isalive, Deselected, IsAlive, Commanded, Sending
    <2> QED
      BY <2>1, <2>2, <2>3
  <1>5. TextTrue'
    BY <1>1, <1>2, TextKept
  <1>6. GotTrue'
    BY <1>1, <1>2, GotKept DEF Taking
  <1> QED
    BY <1>3, <1>4, <1>5, <1>6 DEF GeckoInv

\* A text, from printf or gecko_putc: nothing of it has been tried.
LEMMA SendKeeps ==
    ASSUME GeckoInv, pc = "idle", NEW what \in {"send", "putc"}, NEW t \in Seq(Chars), Send(what, t)
    PROVE  GeckoInv'
  <1>1. GeckoTypeOK /\ TextTypeOK /\ WireTrue /\ TextTrue /\ GotTrue
    BY DEF GeckoInv
  <1>2. /\ text' = t /\ rest' = t /\ tries' = <<>> /\ got' = <<>> /\ late' = FALSE
        /\ UNCHANGED <<device, busy, data, polls, word, enabled>>
        /\ \/ t = <<>> /\ task' = "none" /\ pc' = "idle"
           \/ t # <<>> /\ task' = what /\ pc' = "begin"
    BY DEF Send
  <1>3. GeckoTypeOK' /\ TextTypeOK'
    <2>1. TextTypeOK'
      BY <1>1, <1>2 DEF TextTypeOK
    <2>2. GeckoTypeOK'
      BY <1>1, <1>2 DEF WordsSeen, GeckoTypeOK
    <2> QED
      BY <2>1, <2>2
  <1>4. WireTrue'
    BY <1>1, <1>2 DEF WireTrue, Commanded, Sending
  <1>5. TextTrue'
    <2>1. Len(t) \in Nat /\ (t = <<>> => Len(t) = 0) /\ (t # <<>> => Len(t) > 0) /\ Len(tries') = 0
      BY <1>2
    <2>2. Sending' => t # <<>> /\ pc' # "idle"
      BY <1>2 DEF Sending
    <2>3. pc' = "idle" => t = <<>>
      BY <1>2
    <2>4. Sending' \/ pc' = "idle"
      BY <1>2 DEF Sending
    <2> QED
      BY <1>2, <2>1, <2>2, <2>3, <2>4 DEF TextTrue
  <1>6. Has({})'
    <2>1. Cardinality({}) = 0 /\ Len(got') = 0 /\ Len(tries') = 0
      BY <1>2, FS_EmptySet
    <2>2. ~Taking'
      BY <1>2 DEF Taking, Commanded
    <2> QED
      BY <1>2, <2>1, <2>2 DEF Has
  <1>7. GotTrue'
    BY <1>6 DEF GotTrue
  <1> QED
    BY <1>3, <1>4, <1>5, <1>7 DEF GeckoInv

\* A byte has been tried: if it was taken, it is the next of the text, and the device has
\* it behind the others; if not, nothing follows.
LEMMA TriedKeeps == GeckoInv /\ gecko_sendbuffer => GeckoInv'
  <1> SUFFICES ASSUME GeckoInv, gecko_sendbuffer PROVE GeckoInv'
    OBVIOUS
  <1> DEFINE n == Len(tries)
             sendsOn == word = "taken" /\ Len(rest) > 1
             this == [byte |-> Head(rest), said |-> word, polls |-> IF late THEN "used up" ELSE "left"]
  <1>1. GeckoTypeOK /\ TextTypeOK /\ WireTrue /\ TextTrue /\ GotTrue
    BY DEF GeckoInv
  <1>2. /\ pc = "deselect" /\ busy' = FALSE /\ Sending /\ Commanded /\ data' = data
        /\ tries' = Append(tries, this)
        /\ UNCHANGED <<device, polls, word, enabled, text, late, got>>
    BY DEF gecko_sendbuffer, Deselected, Sending, Commanded
  <1>3. \/ sendsOn /\ pc' = "begin" /\ rest' = Tail(rest) /\ task' = task
        \/ ~sendsOn /\ word = "taken" /\ pc' = "idle" /\ task' = "none" /\ rest' = <<>>
        \/ ~sendsOn /\ word # "taken" /\ pc' = "idle" /\ task' = "none" /\ rest' = rest
    BY DEF gecko_sendbuffer, GoesOn
  <1>4. /\ text \in Seq(Chars) /\ rest \in Seq(Chars) /\ got \in Seq(Chars) /\ tries \in Seq(Try)
        /\ n \in Nat /\ polls \in 0 .. MaxPolls
    BY <1>1 DEF TextTypeOK
  <1>a. n \in Nat /\ Len(text) \in Nat /\ Len(rest) \in Nat
    BY <1>4
  <1>5. /\ Len(rest) \in Nat /\ Len(rest) > 0 /\ n + Len(rest) = Len(text)
        /\ \A i \in 1 .. Len(rest) : rest[i] = text[n + i]
        /\ \A i \in 1 .. n : tries[i].byte = text[i] /\ Taken(i)
    <2>1. /\ Len(rest) > 0 /\ n + Len(rest) = Len(text)
          /\ \A i \in 1 .. Len(rest) : rest[i] = text[n + i]
      BY <1>1, <1>2, Zenon DEF TextTrue
    <2>2. \A i \in 1 .. n : tries[i].byte = text[i]
      BY <1>1, Zenon DEF TextTrue
    <2>3. \A i \in 1 .. n : Taken(i)
      BY <1>1, <1>2, Zenon DEF TextTrue
    <2>4. Len(rest) \in Nat
      BY <1>4
    <2> QED
      BY <2>1, <2>2, <2>3, <2>4
  <1>6. Head(rest) = rest[1] /\ rest[1] = text[n + 1] /\ rest[1] \in Chars
    BY <1>4, <1>5
  <1>7. this \in Try
    BY <1>1, <1>6 DEF Try, GeckoTypeOK
  <1>8. /\ Len(tries') = n + 1 /\ tries'[n + 1] = this
        /\ \A i \in 1 .. n : tries'[i] = tries[i]
        /\ 1 .. n + 1 = (1 .. n) \cup {n + 1}
    <2> HIDE DEF this
    <2>1. /\ Len(tries') = n + 1 /\ tries'[n + 1] = this
          /\ \A i \in 1 .. n : tries'[i] = tries[i]
      BY <1>2, <1>4, <1>7
    <2>2. 1 .. n + 1 = (1 .. n) \cup {n + 1}
      BY <1>4
    <2> QED
      BY <2>1, <2>2
  <1>9. this.byte = text[n + 1] /\ this.said = word /\ (this.polls = "used up" <=> late)
    BY <1>1, <1>6 DEF GeckoTypeOK
  <1>10. TextTypeOK'
    <2>1. rest' \in Seq(Chars)
      <3>1. rest' \in {Tail(rest), <<>>, rest} /\ rest # <<>>
        BY <1>3, <1>5
      <3>2. rest \in Seq(Chars) /\ Tail(rest) \in Seq(Chars) /\ <<>> \in Seq(Chars)
        BY <1>4, <3>1
      <3> QED
        BY <3>1, <3>2
    <2>2. tries' \in Seq(Try)
      <3> HIDE DEF this
      <3> QED
        BY <1>2, <1>4, <1>7
    <2> QED
      BY <1>2, <1>4, <2>1, <2>2 DEF TextTypeOK
  <1>11. GeckoTypeOK'
    <2>1. pc' \in {"begin", "idle"} /\ task' \in {task, "none"}
      BY <1>3
    <2> QED
      BY <1>1, <1>2, <2>1 DEF GeckoTypeOK
  <1>12. WireTrue'
    <2>1. (pc' = "begin" /\ task' = task) \/ (pc' = "idle" /\ task' = "none")
      BY <1>3
    <2> QED
      BY <1>1, <1>2, <2>1 DEF WireTrue, Commanded, Sending
  <1>13. TextTrue'
    <2>0. /\ Len(text) \in Nat /\ Len(rest) \in Nat /\ Len(rest) > 0
          /\ n + Len(rest) = Len(text) /\ Len(tries') = n + 1
      <3>1. Len(rest) > 0 /\ n + Len(rest) = Len(text) /\ Len(tries') = n + 1
        BY <1>5, <1>8
      <3> QED
        BY <1>a, <3>1
    <2>1. Sending' \/ pc' = "idle"
      BY <1>2, <1>3 DEF Sending
    <2>2. Len(tries') <= Len(text)
      BY <1>a, <2>0
    <2>3. \A i \in 1 .. n + 1 : tries'[i].byte = text[i] /\ (i < n + 1 => tries'[i].said = "taken")
      <3>1. \A i \in 1 .. n : tries'[i].byte = text[i] /\ tries'[i].said = "taken"
        BY <1>5, <1>8
      <3>2. tries'[n + 1].byte = text[n + 1]
        BY <1>8, <1>9
      <3> QED
        BY <1>4, <3>1, <3>2
    <2>4. CASE sendsOn
      <3>1. pc' = "begin" /\ rest' = Tail(rest) /\ word = "taken" /\ Len(rest) > 1
        BY <1>3, <2>4
      <3>2. Len(rest') = Len(rest) - 1 /\ \A i \in 1 .. Len(rest') : rest'[i] = rest[i + 1]
        BY <1>4, <1>5, <3>1
      <3>3. Len(rest') > 0 /\ Len(tries') + Len(rest') = Len(text)
        <4>1. Len(rest) > 1 /\ Len(rest') = Len(rest) - 1
          BY <3>1, <3>2
        <4> QED
          BY <1>a, <2>0, <4>1
      <3>4. \A i \in 1 .. Len(rest') : rest'[i] = text[Len(tries') + i]
        <4> SUFFICES ASSUME NEW i \in 1 .. Len(rest') PROVE rest'[i] = text[n + 1 + i]
          BY <1>8
        <4>1. i + 1 \in 1 .. Len(rest) /\ rest'[i] = rest[i + 1]
          BY <1>5, <3>2
        <4>2. n + (i + 1) = n + 1 + i
          BY <1>4
        <4> QED
          BY <1>5, <4>1, <4>2
      <3>5. \A i \in 1 .. n + 1 : tries'[i].said = "taken"
        <4>1. \A i \in 1 .. n : tries'[i].said = "taken"
          BY <1>5, <1>8
        <4>2. tries'[n + 1].said = "taken"
          BY <1>8, <1>9, <3>1
        <4> QED
          BY <1>8, <4>1, <4>2
      <3> QED
        BY <1>2, <1>8, <2>1, <2>2, <2>3, <3>1, <3>3, <3>4, <3>5 DEF TextTrue
    <2>5. CASE word = "taken" /\ ~sendsOn
      <3>1. pc' = "idle" /\ task' = "none" /\ Len(rest') = 0
        BY <1>3, <2>5
      <3>2. Len(tries') = Len(text)
        <4>1. ~(Len(rest) > 1)
          BY <2>5
        <4> QED
          BY <1>4, <2>0, <4>1
      <3>3. \A i \in 1 .. n + 1 : tries'[i].said = "taken"
        <4>1. \A i \in 1 .. n : tries'[i].said = "taken"
          BY <1>5, <1>8
        <4>2. tries'[n + 1].said = "taken"
          BY <1>8, <1>9, <2>5
        <4> QED
          BY <1>8, <4>1, <4>2
      <3>4. ~Sending'
        BY <3>1 DEF Sending
      <3> QED
        BY <1>2, <1>8, <2>2, <2>3, <3>1, <3>2, <3>3, <3>4 DEF TextTrue
    <2>6. CASE word # "taken"
      <3>1. pc' = "idle" /\ task' = "none" /\ rest' = rest
        BY <1>3, <2>6
      <3>2. Len(tries') > 0 /\ Len(rest') = Len(text) - Len(tries') + 1
        BY <1>4, <2>0, <3>1
      <3>3. ~(tries'[Len(tries')].said = "taken")
        BY <1>8, <1>9, <2>6
      <3>4. ~Sending'
        BY <3>1 DEF Sending
      <3> QED
        BY <1>2, <1>8, <2>2, <2>3, <3>1, <3>2, <3>3, <3>4 DEF TextTrue
    <2> QED
      BY <2>4, <2>5, <2>6
  <1>14. GotTrue'
    <2>1. PICK took \in SUBSET Tried : Has(took)
      BY <1>1 DEF GotTrue
    <2>2. /\ \A i \in 1 .. n : ~Late(i) => (i \in took <=> Taken(i))
          /\ \A i \in took : got[Place(took, i)] = tries[i].byte
          /\ Len(got) = Cardinality(took) + (IF Taking THEN 1 ELSE 0)
          /\ Taking => got[Len(got)] = rest[1]
      BY <2>1 DEF Has
    <2>3. took \in SUBSET (1 .. n) /\ n + 1 \notin took
      BY <1>4
    <2>4. Cardinality(took) \in Nat
      BY <1>4, <2>3, PlaceIs
    <2>5. ~late => (Taking <=> word = "taken")
      BY <1>1, <1>2 DEF WireTrue, Taking
    <2>6. ~Taking'
      BY <1>3 DEF Taking, Commanded
    <2>7. CASE Taking
      <3>0. PICK more : more = took \cup {n + 1}
        OBVIOUS
      <3>1. more \in SUBSET (1 .. n + 1)
        BY <1>8, <2>3, <3>0
      <3>2. /\ Cardinality(more) = Cardinality(took) + 1
            /\ Place(more, n + 1) = Cardinality(took) + 1
            /\ \A i \in took : Place(more, i) = Place(took, i)
        BY <1>4, <2>3, <3>0, PlaceOfNext
      <3>3. Len(got) = Cardinality(took) + 1
        BY <2>2, <2>7
      <3>4. \A i \in more : got[Place(more, i)] = tries'[i].byte
        <4>1. \A i \in took : got[Place(more, i)] = tries'[i].byte
          BY <1>8, <2>2, <2>3, <3>2
        <4>2. got[Place(more, n + 1)] = tries'[n + 1].byte
          BY <1>6, <1>8, <1>9, <2>2, <2>7, <3>2, <3>3
        <4> QED
          BY <3>0, <4>1, <4>2
      <3>5. \A i \in 1 .. n + 1 :
               ~(tries'[i].polls = "used up") => (i \in more <=> tries'[i].said = "taken")
        <4>1. \A i \in 1 .. n :
                 ~(tries'[i].polls = "used up") => (i \in more <=> tries'[i].said = "taken")
          <5>1. \A i \in 1 .. n : i # n + 1
            BY <1>a
          <5> SUFFICES ASSUME NEW i \in 1 .. n, ~(tries[i].polls = "used up")
                       PROVE  i \in more <=> tries[i].said = "taken"
            BY <1>8
          <5> QED
            BY <2>2, <3>0, <5>1
        <4>2. ~(tries'[n + 1].polls = "used up") => tries'[n + 1].said = "taken"
          BY <1>8, <1>9, <2>5, <2>7
        <4> QED
          BY <1>8, <3>0, <4>1, <4>2
      <3>6. Len(got') = Cardinality(more) + 0
        <4>1. got' = got
          BY <1>2
        <4>2. Cardinality(more) \in Nat
          BY <2>4, <3>2
        <4> QED
          BY <3>2, <3>3, <4>1, <4>2
      <3>7. Has(more)'
        <4>1. \A i \in Tried' : ~Late(i)' => (i \in more <=> Taken(i)')
          BY <1>8, <3>5, Zenon
        <4>2. \A i \in more : got'[Place(more, i)] = tries'[i].byte
          BY <1>2, <3>4, Zenon
        <4>3. Len(got') = Cardinality(more) + (IF Taking' THEN 1 ELSE 0)
          BY <2>6, <3>6, Zenon
        <4> QED
          BY <2>6, <4>1, <4>2, <4>3, Zenon DEF Has, Place
      <3> QED
        BY <1>8, <3>1, <3>7, Zenon DEF GotTrue
    <2>8. CASE ~Taking
      <3>1. took \in SUBSET (1 .. n + 1)
        BY <1>8, <2>3
      <3>2. Len(got) = Cardinality(took) + 0
        BY <2>2, <2>8
      <3>3. \A i \in took : got[Place(took, i)] = tries'[i].byte
        BY <1>8, <2>2, <2>3
      <3>4. \A i \in 1 .. n + 1 :
               ~(tries'[i].polls = "used up") => (i \in took <=> tries'[i].said = "taken")
        <4>1. \A i \in 1 .. n :
                 ~(tries'[i].polls = "used up") => (i \in took <=> tries'[i].said = "taken")
          BY <1>8, <2>2
        <4>2. ~(tries'[n + 1].polls = "used up") => ~(tries'[n + 1].said = "taken")
          BY <1>8, <1>9, <2>5, <2>8
        <4> QED
          BY <1>8, <2>3, <4>1, <4>2
      <3>5. Has(took)'
        BY <1>2, <1>8, <2>6, <3>1, <3>2, <3>3, <3>4 DEF Has, Place
      <3> QED
        BY <1>8, <3>1, <3>5 DEF GotTrue
    <2> QED
      BY <2>7, <2>8
  <1> QED
    BY <1>10, <1>11, <1>12, <1>13, <1>14 DEF GeckoInv

-----------------------------------------------------------------------------
\* What holds of the console over a USB Gecko in every state: the wire, the text and what
\* the device has of it, for all texts and numbers of polls.
THEOREM GeckoInvariance == GeckoSpec => []GeckoInv
  <1>1. GeckoInv /\ [GeckoNext]_geckoVars => GeckoInv'
    <2> SUFFICES ASSUME GeckoInv, [GeckoNext]_geckoVars PROVE GeckoInv'
      OBVIOUS
    <2>1. CASE printf
      <3>1. PICK t \in Texts : Send("send", t)
        BY <2>1 DEF printf
      <3>2. t \in Seq(Chars)
        BY GeckoAssumption DEF Chars
      <3> QED
        BY <2>1, <3>1, <3>2, SendKeeps DEF printf
    <2>2. CASE gecko_putc
      <3>1. PICK c \in Bytes : Send("putc", <<IF c = "\r" THEN "\n" ELSE c>>)
        BY <2>2 DEF gecko_putc
      <3>2. <<IF c = "\r" THEN "\n" ELSE c>> \in Seq(Chars)
        BY DEF Chars
      <3> QED
        BY <2>2, <3>1, <3>2, SendKeeps DEF gecko_putc
    <2>3. CASE Exchange
      BY <2>3, ExchangeKeeps
    <2>4. CASE AskedId \/ GotId \/ _gecko_poll \/ _gecko_polled \/ ReadData \/ _gecko_command
      BY <2>4, WatchKeeps
    <2>5. CASE gecko_init \/ _gecko_getid \/ gecko_isalive
      BY <2>5, ProbeKeeps
    <2>6. CASE gecko_sendbuffer
      BY <2>6, TriedKeeps
    <2>7. CASE UNCHANGED geckoVars
      <3>1. GeckoTypeOK' /\ TextTypeOK' /\ WireTrue'
        BY <2>7 DEF geckoVars, GeckoInv, GeckoTypeOK, TextTypeOK, WireTrue, Commanded, Sending
      <3>2. TextTrue'
        BY <2>7, TextKept DEF geckoVars, GeckoInv, Sending
      <3>3. GotTrue'
        BY <2>7, GotKept DEF geckoVars, GeckoInv, Taking, Commanded, Sending
      <3> QED
        BY <3>1, <3>2, <3>3 DEF GeckoInv
    <2> QED
      BY <2>1, <2>2, <2>3, <2>4, <2>5, <2>6, <2>7 DEF GeckoNext
  <1> QED
    BY <1>1, GeckoStarts, PTL DEF GeckoSpec

\* Of a text all of whose words were read in time, the device has the bytes that were
\* taken: the place of each is its own.
LEMMA TakenInPlace ==
    ASSUME NEW n \in Nat, NEW m \in Nat, m <= n, NEW i \in 1 .. m
    PROVE  Cardinality({j \in 1 .. m : j <= i}) = i /\ Cardinality(1 .. m) = m
  <1>1. {j \in 1 .. m : j <= i} = 1 .. i
    OBVIOUS
  <1>2. Cardinality(1 .. i) = i /\ Cardinality(1 .. m) = m
    BY FS_Interval
  <1> QED
    BY <1>1, <1>2

\* printf writes to nothing but a Gecko, what the Gecko has of a text is its beginning, up
\* to a byte that was refused, and printf answers how long that is.
THEOREM TextIsSent == GeckoSpec => []GeckoSent
  <1>1. GeckoInv => GeckoSent
    <2> SUFFICES ASSUME GeckoInv PROVE GeckoSent
      OBVIOUS
    <2>1. GeckoTypeOK /\ TextTypeOK /\ WireTrue /\ TextTrue /\ GotTrue
      BY DEF GeckoInv
    <2>2. enabled => device = "gecko"
      BY <2>1 DEF WireTrue
    <2>3. ASSUME pc = "idle"
          PROVE  /\ Len(tries) <= Len(text)
                 /\ \A i \in Tried : tries[i].byte = text[i]
                 /\ Len(tries) < Len(text) => Len(tries) \in Tried /\ ~Taken(Len(tries))
                 /\ \A i \in Tried : i < Len(tries) => Taken(i)
                 /\ (\A i \in Tried : ~Late(i)) => got = SubSeq(text, 1, printf_answer)
                 /\ \E took \in SUBSET Tried :
                       /\ \A i \in Tried : ~Late(i) => (i \in took <=> Taken(i))
                       /\ Len(got) = Cardinality(took)
                       /\ \A i \in took : got[Cardinality({j \in took : j <= i})] = tries[i].byte
      <3>1. /\ Len(tries) <= Len(text)
            /\ \A i \in Tried : tries[i].byte = text[i] /\ (i < Len(tries) => Taken(i))
        BY <2>1 DEF TextTrue
      <3>2. \/ Len(rest) = 0 /\ Len(tries) = Len(text) /\ \A i \in Tried : Taken(i)
            \/ /\ Len(tries) > 0 /\ ~Taken(Len(tries))
               /\ Len(rest) = Len(text) - Len(tries) + 1
        BY <2>1, <2>3 DEF TextTrue
      <3>3. /\ Len(tries) \in Nat /\ Len(text) \in Nat
            /\ text \in Seq(Chars) /\ got \in Seq(Chars)
        BY <2>1 DEF TextTypeOK
      <3>4. PICK took \in SUBSET Tried : Has(took)
        BY <2>1 DEF GotTrue
      <3>5. ~Taking
        BY <2>3 DEF Taking, Commanded
      <3>6. Cardinality(took) \in Nat
        BY <3>3, PlaceIs
      <3>7. /\ \A i \in Tried : ~Late(i) => (i \in took <=> Taken(i))
            /\ Len(got) = Cardinality(took)
            /\ \A i \in took : got[Cardinality({j \in took : j <= i})] = tries[i].byte
        <4>1. Len(got) = Cardinality(took) + 0
          BY <3>4, <3>5 DEF Has
        <4>2. Len(got) = Cardinality(took)
          BY <3>6, <4>1
        <4> QED
          BY <3>4, <4>2, Zenon DEF Has, Place
      <3>8. ASSUME \A i \in Tried : ~Late(i) PROVE got = SubSeq(text, 1, printf_answer)
        <4> DEFINE m == IF Len(rest) = 0 THEN Len(tries) ELSE Len(tries) - 1
        <4>1. /\ m \in Nat /\ m <= Len(tries) /\ m <= Len(text) /\ printf_answer = m
          BY <3>1, <3>2, <3>3 DEF printf_answer
        <4>2. \A i \in Tried : i \in 1 .. m <=> Taken(i)
          BY <3>1, <3>2, <3>3
        <4>3. took = 1 .. m
          <5>1. \A i \in Tried : i \in took <=> i \in 1 .. m
            BY <3>7, <3>8, <4>2, Zenon
          <5>2. \A i \in 1 .. m : i \in Tried
            BY <3>3, <4>1
          <5> QED
            BY <5>1, <5>2
        <4>4. Len(got) = m
          <5> HIDE DEF m
          <5>1. Cardinality(1 .. m) = m
            BY <4>1, FS_Interval
          <5> QED
            BY <3>7, <4>3, <5>1
        <4>5. \A i \in 1 .. m : got[i] = text[i]
          BY <3>1, <3>3, <3>7, <4>1, <4>3, TakenInPlace
        <4>6. SubSeq(text, 1, m) \in Seq(Chars) /\ Len(SubSeq(text, 1, m)) = m
              /\ \A i \in 1 .. m : SubSeq(text, 1, m)[i] = text[i]
          BY <3>3, <4>1
        <4> QED
          BY <3>3, <4>1, <4>4, <4>5, <4>6
      <3>9. Len(tries) < Len(text) => Len(tries) \in Tried /\ ~Taken(Len(tries))
        BY <3>2, <3>3
      <3> QED
        BY <3>1, <3>7, <3>8, <3>9, Zenon
    <2> QED
      BY <2>2, <2>3 DEF GeckoSent
  <1> QED
    BY <1>1, GeckoInvariance, PTL

-----------------------------------------------------------------------------
(* The buttons. *)

\* The buttons start with no read under way.
LEMMA ButtonsStart == ButtonsInit => ButtonsInv
  <1> SUFFICES ASSUME ButtonsInit PROVE ButtonsInv
    OBVIOUS
  <1> USE DEF ButtonsInit
  <1>1. ButtonsTypeOK
    <2>1. (\A b \in PadButtons : Bit(b \in pad) \in Nat) /\ (\A b \in Gpio : Bit(b \in raised \cup down) \in Nat)
      BY DEF Bit
    <2>2. reset_delay \in 0 .. ResetDelay /\ since \in 0 .. ResetDelay
      BY DEF ResetDelay
    <2>3. \A b \in Gpio : press[b] \in {"waiting", "taken", "over"}
      OBVIOUS
    <2> QED
      BY <2>1, <2>2, <2>3 DEF ButtonsTypeOK
  <1>2. ReadingTrue /\ PressKept /\ DelayTrue
    BY DEF ReadingTrue, PressKept, DelayTrue, Looked, ResetDelay
  <1>3. PressesCounted
    BY DEF PressesCounted, Due, Bit
  <1> QED
    BY <1>1, <1>2, <1>3 DEF ButtonsInv

\* A button of the pad is pressed: it may be returned once more.
LEMMA PressPadKeeps ==
    ASSUME ButtonsInv, PressPad, UNCHANGED <<stage, caller, kept, reading>>
    PROVE  ButtonsInv'
  <1> USE DEF ButtonsInv
  <1>1. PICK b \in PadButtons \ pad :
            /\ pad' = pad \cup {b} /\ new' = [new EXCEPT ![b] = @ + 1]
            /\ UNCHANGED <<reset, down, wires, owed, press, seen, since>>
    BY DEF PressPad
  <1>2. ButtonsTypeOK'
    BY <1>1 DEF ButtonsTypeOK, wires, kept, reading
  <1>3. ReadingTrue' /\ PressKept' /\ DelayTrue'
    BY <1>1 DEF ReadingTrue, PressKept, DelayTrue, Looked, wires, kept, reading
  <1>4. PressesCounted'
    <2>1. ASSUME NEW c \in PadButtons PROVE new'[c] >= Bit(c \in btns_down' \cup (pad' \ btns_held'))
      <3>1. new[c] >= Bit(c \in btns_down \cup (pad \ btns_held)) /\ new[c] \in Nat
        BY DEF PressesCounted, ButtonsTypeOK
      <3>2. CASE c = b
        BY <1>1, <3>1, <3>2 DEF Bit, ButtonsTypeOK
      <3>3. CASE c # b
        BY <1>1, <3>1, <3>3 DEF Bit, ButtonsTypeOK, kept, reading
      <3> QED
        BY <3>2, <3>3
    <2>2. \A c \in Gpio : owed'[c] >= Due(c)'
      BY <1>1 DEF PressesCounted, Due, wires, kept, reading
    <2> QED
      BY <2>1, <2>2 DEF PressesCounted
  <1> QED
    BY <1>2, <1>3, <1>4

\* Power or Eject is pressed: it may be returned once more, and has raised its flag.
LEMMA PressKeeps ==
    ASSUME ButtonsInv, Press, UNCHANGED <<stage, caller, kept, reading>>
    PROVE  ButtonsInv'
  <1> USE DEF ButtonsInv
  <1>1. PICK b \in Gpio \ down :
            /\ down' = down \cup {b} /\ raised' = raised \cup {b} /\ irq' = TRUE
            /\ owed' = [owed EXCEPT ![b] = @ + 1] /\ press' = [press EXCEPT ![b] = "waiting"]
            /\ UNCHANGED <<pad, reset, new, seen, since>>
    BY DEF Press
  <1>2. ButtonsTypeOK'
    BY <1>1 DEF ButtonsTypeOK, kept, reading
  <1>3. ReadingTrue' /\ DelayTrue'
    BY <1>1 DEF ReadingTrue, DelayTrue, Looked, kept, reading
  <1>4. PressKept'
    BY <1>1 DEF PressKept, ButtonsTypeOK, kept, reading
  <1>5. PressesCounted'
    <2>1. \A c \in PadButtons : new'[c] >= Bit(c \in btns_down' \cup (pad' \ btns_held'))
      BY <1>1 DEF PressesCounted, kept, reading
    <2>2. ASSUME NEW c \in Gpio PROVE owed'[c] >= Due(c)'
      <3>1. owed[c] >= Due(c) /\ owed[c] \in Nat
        BY DEF PressesCounted, ButtonsTypeOK
      <3>2. CASE c = b
        <4>1. owed'[c] = owed[c] + 1
          BY <1>1, <3>2 DEF ButtonsTypeOK
        <4>2. Due(c)' <= Due(c) + 1
          BY <1>1, <3>2 DEF Due, Bit, kept, reading
        <4>3. Due(c) \in Nat /\ Due(c)' \in Nat
          BY DEF Due, Bit
        <4> QED
          BY <3>1, <4>1, <4>2, <4>3
      <3>3. CASE c # b
        BY <1>1, <3>1, <3>3 DEF Due, Bit, ButtonsTypeOK, kept, reading
      <3> QED
        BY <3>2, <3>3
    <2> QED
      BY <2>1, <2>2 DEF PressesCounted
  <1> QED
    BY <1>2, <1>3, <1>4, <1>5

\* What is let go, or raised again while it is held, takes no press to return.
LEMMA HandsKeep ==
    ASSUME ButtonsInv, Release \/ RaiseAgain, UNCHANGED <<stage, caller, kept, reading>>
    PROVE  ButtonsInv'
  <1> USE DEF ButtonsInv
  <1>1. /\ pad' \subseteq pad /\ down' \subseteq down /\ reset' \in BOOLEAN /\ irq' \in BOOLEAN
        /\ raised \subseteq raised' /\ raised' \cup down' \subseteq raised \cup down
        /\ raised' = raised \/ down' = down
        /\ UNCHANGED told
    BY DEF Release, RaiseAgain, hands, wires, ButtonsTypeOK
  <1>2. ButtonsTypeOK'
    BY <1>1 DEF ButtonsTypeOK, kept, reading, told
  <1>3. ReadingTrue' /\ DelayTrue' /\ PressKept'
    BY <1>1 DEF ReadingTrue, DelayTrue, PressKept, Looked, kept, reading, told
  <1>4. PressesCounted'
    <2>1. ASSUME NEW c \in PadButtons PROVE new'[c] >= Bit(c \in btns_down' \cup (pad' \ btns_held'))
      <3>1. new[c] >= Bit(c \in btns_down \cup (pad \ btns_held)) /\ new[c] \in Nat /\ new' = new
        BY <1>1 DEF PressesCounted, ButtonsTypeOK, told
      <3> QED
        BY <1>1, <3>1 DEF Bit, kept, reading
    <2>2. ASSUME NEW c \in Gpio PROVE owed'[c] >= Due(c)'
      <3>1. owed[c] >= Due(c) /\ owed[c] \in Nat /\ owed' = owed
        BY <1>1 DEF PressesCounted, ButtonsTypeOK, told
      <3> QED
        BY <1>1, <3>1 DEF Due, Bit, kept, reading
    <2> QED
      BY <2>1, <2>2 DEF PressesCounted
  <1> QED
    BY <1>2, <1>3, <1>4

\* pad_read: what it finds pressed is held from now on.
LEMMA PadReadKeeps == ButtonsInv /\ pad_read => ButtonsInv'
  <1> SUFFICES ASSUME ButtonsInv, pad_read PROVE ButtonsInv'
    OBVIOUS
  <1> USE DEF ButtonsInv, pad_read, NewPresses
  <1>1. /\ ButtonsTypeOK' /\ ReadingTrue' /\ PressKept' /\ DelayTrue'
    <2>1. \A b \in PadButtons : Capped(new[b], Bit(b \in pad)) \in Nat
      BY DEF Capped, Bit, ButtonsTypeOK
    <2>2. ButtonsTypeOK'
      BY <2>1 DEF ButtonsTypeOK, hands, wires
    <2> QED
      BY <2>2 DEF ReadingTrue, PressKept, DelayTrue, Looked, hands, wires
  <1>2. PressesCounted'
    <2>1. ASSUME NEW c \in PadButtons PROVE new'[c] >= Bit(c \in btns_down' \cup (pad' \ btns_held'))
      <3>1. new[c] >= Bit(c \in btns_down \cup (pad \ btns_held)) /\ new[c] \in Nat
        BY DEF PressesCounted, ButtonsTypeOK
      <3> QED
        BY <3>1 DEF Bit, Capped, hands
    <2>2. \A c \in Gpio : owed'[c] >= Due(c)'
      BY DEF PressesCounted, Due, hands, wires
    <2> QED
      BY <2>1, <2>2 DEF PressesCounted
  <1> QED
    BY <1>1, <1>2

\* Reset is looked at, and the delay counted.
LEMMA GpioReadKeeps == ButtonsInv /\ gpio_read => ButtonsInv'
  <1> SUFFICES ASSUME ButtonsInv, gpio_read PROVE ButtonsInv'
    OBVIOUS
  <1> USE DEF ButtonsInv, gpio_read
  <1>1. ButtonsTypeOK'
    BY DEF ButtonsTypeOK, Counted, Rearmed, ResetSeen, ResetDelay, hands, wires
  <1>2. ReadingTrue' /\ PressKept'
    BY DEF ReadingTrue, PressKept, Looked, hands, wires
  <1>3. DelayTrue'
    <2>1. reset_delay = ResetDelay - since /\ since \in 0 .. ResetDelay
      BY DEF DelayTrue, Looked, ButtonsTypeOK
    <2>2. ResetSeen <=> reset /\ since = ResetDelay
      BY <2>1 DEF ResetSeen, ResetDelay
    <2> QED
      BY <2>1, <2>2 DEF DelayTrue, Looked, Counted, Rearmed, ResetDelay, ButtonsTypeOK
  <1>4. PressesCounted'
    <2>1. \A c \in Gpio : c \notin res /\ c \notin res'
      BY DEF ReadingTrue, Looked, Gpio, GPIO_POWER, GPIO_EJECT, GPIO_RESET
    <2> QED
      BY <2>1 DEF PressesCounted, Due, hands, wires
  <1> QED
    BY <1>1, <1>2, <1>3, <1>4

\* The interrupt is looked for, and the flags, and a button is waited for.
LEMMA LooksKeep == ButtonsInv /\ (input_init \/ Irq \/ Spin) => ButtonsInv'
  <1> SUFFICES ASSUME ButtonsInv, input_init \/ Irq \/ Spin PROVE ButtonsInv'
    OBVIOUS
  <1> USE DEF ButtonsInv
  <1>1. UNCHANGED <<hands, wires, caller, reset_delay, reading, told>>
    BY DEF input_init, Irq, Spin, kept
  <1>2. /\ ButtonsTypeOK' /\ ReadingTrue' /\ PressKept' /\ DelayTrue'
    <2>1. ButtonsTypeOK'
      BY <1>1 DEF ButtonsTypeOK, input_init, Irq, Spin, hands, wires, kept, reading, told
    <2>2. ReadingTrue'
      BY <1>1 DEF ReadingTrue, Looked, ButtonsTypeOK, input_init, Irq, Spin, hands, wires, kept, reading, told
    <2>3. PressKept'
      BY <1>1 DEF PressKept, input_init, Irq, Spin, hands, wires, kept, reading, told
    <2>4. DelayTrue'
      BY <1>1 DEF DelayTrue, ReadingTrue, Looked, ButtonsTypeOK, input_init, Irq, Spin, hands, wires, kept, reading, told
    <2> QED
      BY <2>1, <2>2, <2>3, <2>4
  <1>3. PressesCounted'
    <2>1. \A c \in PadButtons : new'[c] >= Bit(c \in btns_down' \cup (pad' \ btns_held'))
      BY <1>1 DEF PressesCounted, ReadingTrue, Looked, input_init, Irq, Spin, hands, kept, reading, told
    <2>2. ASSUME NEW c \in Gpio PROVE owed'[c] >= Due(c)'
      <3>1. owed[c] >= Due(c) /\ owed[c] \in Nat /\ owed' = owed
        BY <1>1 DEF PressesCounted, ButtonsTypeOK, told
      <3>2. CASE input_init \/ Irq
        <4>1. c \notin res
          BY <3>2 DEF ReadingTrue, Looked, input_init, Irq, Gpio, GPIO_POWER, GPIO_EJECT, GPIO_RESET
        <4> QED
          BY <1>1, <3>1, <4>1 DEF Due, hands, wires, reading
      <3>3. CASE Spin
        <4>1. c \in res => c = button
          BY <3>3 DEF ReadingTrue, Gpio, GPIO_POWER, GPIO_EJECT, GPIO_RESET
        <4> QED
          BY <1>1, <3>1, <3>3, <4>1 DEF Due, Bit, Spin, hands, wires, reading
      <3> QED
        BY <3>2, <3>3
    <2> QED
      BY <2>1, <2>2 DEF PressesCounted
  <1> QED
    BY <1>2, <1>3

\* The flags are read: what is found raised has been pressed.
LEMMA ReadFlagsKeeps == ButtonsInv /\ ReadFlags => ButtonsInv'
  <1> SUFFICES ASSUME ButtonsInv, ReadFlags PROVE ButtonsInv'
    OBVIOUS
  <1> USE DEF ButtonsInv
  <1>1. UNCHANGED <<hands, wires, caller, kept, btns_down, told>> /\ stage \in {"flags", "eject"}
    BY DEF ReadFlags
  <1>2. \/ stage' = "ack_irq" /\ button' = "none" /\ UNCHANGED res
        \/ stage' = "eject" /\ caller = "init" /\ UNCHANGED <<res, button>>
        \/ /\ button' \in raised /\ res' = IF caller = "read" THEN res \cup {button'} ELSE res
           /\ stage' = "spin" \/ (stage' = "ack" /\ caller # "read")
    BY DEF ReadFlags, Takes, WaitedFor
  <1>3. res \subseteq {GPIO_RESET} /\ (caller # "read" => res = {})
    BY <1>1 DEF ReadingTrue, Looked, ButtonsTypeOK
  <1>4. ButtonsTypeOK'
    BY <1>1, <1>2 DEF ButtonsTypeOK, hands, wires, kept, told
  <1>5. ReadingTrue'
    BY <1>1, <1>2, <1>3 DEF ReadingTrue, Looked, ButtonsTypeOK, kept
  <1>6. PressKept'
    BY <1>1, <1>2 DEF PressKept, wires, told
  <1>7. DelayTrue'
    <2>1. GPIO_RESET \in res' <=> GPIO_RESET \in res
      BY <1>2 DEF ButtonsTypeOK, Gpio, GPIO_POWER, GPIO_EJECT, GPIO_RESET
    <2>2. Looked' <=> Looked
      BY <1>1, <1>2 DEF Looked, ReadingTrue
    <2> QED
      BY <1>1, <2>1, <2>2 DEF DelayTrue, kept, told
  <1>8. PressesCounted'
    <2>1. \A c \in PadButtons : new'[c] >= Bit(c \in btns_down' \cup (pad' \ btns_held'))
      BY <1>1 DEF PressesCounted, hands, kept, told
    <2>2. ASSUME NEW c \in Gpio PROVE owed'[c] >= Due(c)'
      <3>1. owed[c] >= Bit(c \in raised \cup down) /\ owed' = owed /\ c # GPIO_RESET
        BY <1>1, <1>3 DEF PressesCounted, Due, told, Gpio, GPIO_POWER, GPIO_EJECT, GPIO_RESET
      <3>2. c \in res' => c \in raised /\ stage' = "spin"
        BY <1>2, <1>3, <3>1
      <3> QED
        BY <1>1, <3>1, <3>2 DEF Due, Bit, hands, wires
    <2> QED
      BY <2>1, <2>2 DEF PressesCounted
  <1> QED
    BY <1>4, <1>5, <1>6, <1>7, <1>8

\* A flag is acknowledged: by a read, that takes the press it returns, or by input_init.
LEMMA AckKeeps == ButtonsInv /\ Ack => ButtonsInv'
  <1> SUFFICES ASSUME ButtonsInv, Ack PROVE ButtonsInv'
    OBVIOUS
  <1> USE DEF ButtonsInv
  <1>1. /\ UNCHANGED <<hands, irq, caller, kept, reading, new, seen, since>> /\ stage = "ack" /\ stage' = "ack_irq"
        /\ raised' = raised \ {button}
        /\ press' = [b \in Gpio |-> IF b # button THEN press[b]
                                   ELSE IF caller = "read" /\ press[b] = "waiting" THEN "taken" ELSE "over"]
        /\ owed' = [b \in Gpio |-> IF b = button
                                  THEN Capped(owed[b], Bit(b \in down) + Bit(caller = "read")) ELSE owed[b]]
    BY DEF Ack, Acked
  <1>2. button \in Gpio /\ (caller = "read" => button \in res) /\ (caller # "read" => res = {})
    BY <1>1 DEF ReadingTrue, Looked
  <1>3. \A b \in Gpio : owed[b] \in Nat /\ Capped(owed[b], Bit(b \in down) + Bit(caller = "read")) \in Nat
    BY DEF Capped, Bit, ButtonsTypeOK
  <1>4. ButtonsTypeOK'
    BY <1>1, <1>3 DEF ButtonsTypeOK, hands, kept, reading
  <1>5. ReadingTrue' /\ DelayTrue'
    BY <1>1 DEF ReadingTrue, DelayTrue, Looked, kept, reading
  <1>6. PressKept'
    BY <1>1, <1>2 DEF PressKept, reading
  <1>7. PressesCounted'
    <2>1. \A c \in PadButtons : new'[c] >= Bit(c \in btns_down' \cup (pad' \ btns_held'))
      BY <1>1 DEF PressesCounted, hands, kept, reading
    <2>2. ASSUME NEW c \in Gpio PROVE owed'[c] >= Due(c)'
      <3>1. owed[c] >= Due(c)
        BY DEF PressesCounted
      <3>2. CASE c = button
        BY <1>1, <1>2, <1>3, <3>1, <3>2 DEF Due, Bit, Capped, hands, reading
      <3>3. CASE c # button
        <4>1. c \notin res
          BY <3>3 DEF ReadingTrue, Gpio, GPIO_POWER, GPIO_EJECT, GPIO_RESET
        <4> QED
          BY <1>1, <3>1, <3>3, <4>1 DEF Due, hands, reading
      <3> QED
        BY <3>2, <3>3
    <2> QED
      BY <2>1, <2>2 DEF PressesCounted
  <1> QED
    BY <1>4, <1>5, <1>6, <1>7

\* The interrupt is acknowledged: the flags stay.
LEMMA AckIrqKeeps == ButtonsInv /\ AckIrq => ButtonsInv'
  <1> SUFFICES ASSUME ButtonsInv, AckIrq PROVE ButtonsInv'
    OBVIOUS
  <1> USE DEF ButtonsInv
  <1>1. /\ UNCHANGED <<hands, raised, caller, kept, reading, told>> /\ stage = "ack_irq" /\ irq' = FALSE
        /\ stage' = IF caller = "init" THEN "irq" ELSE "return"
    BY DEF AckIrq
  <1>2. caller = "init" => res = {}
    BY DEF ReadingTrue, Looked
  <1>3. ButtonsTypeOK'
    BY <1>1 DEF ButtonsTypeOK, hands, kept, reading, told
  <1>4. ReadingTrue' /\ PressKept' /\ DelayTrue'
    BY <1>1, <1>2 DEF ReadingTrue, PressKept, DelayTrue, Looked, ButtonsTypeOK, kept, reading, told
  <1>5. PressesCounted'
    BY <1>1, <1>2 DEF PressesCounted, Due, hands, kept, reading, told
  <1> QED
    BY <1>3, <1>4, <1>5

\* The read returns: what it returns is paid for.
LEMMA ReturnKeeps == ButtonsInv /\ Return => ButtonsInv'
  <1> SUFFICES ASSUME ButtonsInv, Return PROVE ButtonsInv'
    OBVIOUS
  <1> USE DEF ButtonsInv, Return
  <1>1. ASSUME NEW c \in PadButtons
        PROVE  new[c] - Bit(c \in btns_down) \in Nat /\ new[c] - Bit(c \in btns_down) >= Bit(c \in pad \ btns_held)
    <2>1. new[c] >= Bit(c \in btns_down \cup (pad \ btns_held)) /\ new[c] \in Nat /\ (c \in btns_down => c \in btns_held)
      BY DEF PressesCounted, ReadingTrue, ButtonsTypeOK
    <2> QED
      BY <2>1 DEF Bit
  <1>2. ASSUME NEW c \in Gpio
        PROVE  owed[c] - Bit(c \in res) \in Nat /\ owed[c] - Bit(c \in res) >= Bit(c \in raised \cup down)
    <2>1. owed[c] >= Due(c) /\ owed[c] \in Nat
      BY DEF PressesCounted, ButtonsTypeOK
    <2> QED
      BY <2>1 DEF Due, Bit
  <1>3. ButtonsTypeOK'
    <2>1. since' \in 0 .. ResetDelay
      BY DEF ButtonsTypeOK, ResetDelay
    <2> QED
      BY <1>1, <1>2, <2>1 DEF ButtonsTypeOK, hands, wires, kept
  <1>4. ReadingTrue' /\ PressKept'
    BY DEF ReadingTrue, PressKept, Looked, wires, kept
  <1>5. DelayTrue'
    BY DEF DelayTrue, ReadingTrue, Looked, Counted, ResetDelay, ButtonsTypeOK, kept
  <1>6. PressesCounted'
    BY <1>1, <1>2 DEF PressesCounted, Due, hands, wires, kept
  <1> QED
    BY <1>3, <1>4, <1>5, <1>6

\* What holds of the buttons in every state: what a read has found so far has been pressed,
\* and the delay is the number of reads since Reset was returned.
THEOREM ButtonsInvariance == ButtonsSpec => []ButtonsInv
  <1>1. ButtonsInv /\ [ButtonsNext]_buttonVars => ButtonsInv'
    <2> SUFFICES ASSUME ButtonsInv, [ButtonsNext]_buttonVars PROVE ButtonsInv'
      OBVIOUS
    <2>1. CASE Outside
      BY <2>1, PressPadKeeps, PressKeeps, HandsKeep DEF Outside
    <2>2. CASE input_init \/ Irq \/ Spin
      BY <2>2, LooksKeep
    <2>3. CASE pad_read \/ gpio_read
      BY <2>3, PadReadKeeps, GpioReadKeeps
    <2>4. CASE ReadFlags \/ Ack \/ AckIrq \/ Return
      BY <2>4, ReadFlagsKeeps, AckKeeps, AckIrqKeeps, ReturnKeeps
    <2>5. CASE UNCHANGED buttonVars
      BY <2>5 DEF buttonVars, hands, wires, kept, reading, told, ButtonsInv, ButtonsTypeOK, ReadingTrue, PressesCounted,
                  Due, PressKept, DelayTrue, Looked
    <2> QED
      BY <2>1, <2>2, <2>3, <2>4, <2>5 DEF ButtonsNext
  <1> QED
    BY <1>1, ButtonsStart, PTL DEF ButtonsSpec

\* A button is returned no more often than it was pressed, no press whose flag is
\* acknowledged is lost, and Reset comes in the fifth read or later: for all buttons of the
\* pad, whatever is pressed, held and let go between any two accesses.
THEOREM PressesReturned == ButtonsSpec => []PressesRight
  <1>1. ButtonsInv => PressesRight
    <2> SUFFICES ASSUME ButtonsInv PROVE PressesRight
      OBVIOUS
    <2>1. (\A b \in PadButtons : new[b] >= 0) /\ (\A b \in Gpio : owed[b] >= 0)
      BY DEF ButtonsInv, ButtonsTypeOK
    <2>2. stage = "return" => Looked
      BY DEF ButtonsInv, ReadingTrue, Looked
    <2> QED
      BY <2>1, <2>2 DEF PressesRight, ButtonsInv, PressKept, DelayTrue
  <1> QED
    BY <1>1, ButtonsInvariance, PTL
=============================================================================
