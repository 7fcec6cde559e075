-------------------------------- MODULE Lcd --------------------------------
(***************************************************************************)
(* Drawing on the display (drivers/display.c): where the memory of the LCD *)
(* controller keeps each symbol and character, how a write reaches it, and *)
(* how a number becomes text.  The memory is the set of its lit bits,      *)
(* pairs of a byte and a bit, once for the segments and once for their     *)
(* blinking.  Which buffer a screen is kept in is module Screens.          *)
(***************************************************************************)
EXTENDS LcdSegments, TLC, FiniteSetsExt, SequencesExt

CONSTANTS
  Prints,    \* calls of _printf: [at, len, fmt, n]
  Voltages,  \* of the battery, for _itopct
  Texts,     \* calls of display_chars with a fixed text: [at, len, str, st]
  Symbols,   \* calls of display_symbol: [symbol, st]
  Hours      \* of the day, for the clock

VARIABLES
  lcd,     \* lit bits: [seg, blk]
  half,    \* the half of the day the clock was last asked to show
  last,    \* history: the last text written: [at, len, str, st, n]
  drawn    \* history: the symbols and characters the last call names

vars == <<lcd, half, last, drawn>>

-----------------------------------------------------------------------------
\* Faults: turning bits on keeps the ones that were lit; the mask is the byte.
NeverOff(m, bits, mask, st) ==
  [seg |-> IF "seg_on" \in st THEN m.seg \cup bits ELSE m.seg \ mask,
   blk |-> IF "blink_on" \in st THEN m.blk \cup bits ELSE m.blk]
WholeByte(m, bits, mask, st) ==
  LET byte == {c[1] : c \in mask} \X (0..7)
  IN  [m EXCEPT !.seg = (IF "seg_off" \in st THEN @ \ byte ELSE @)
                        \cup (IF "seg_on" \in st THEN bits ELSE {})]

write_lcd_mem(m, bits, mask, st) ==
  [seg |-> (IF "seg_off" \in st THEN m.seg \ mask ELSE m.seg)
           \cup (IF "seg_on" \in st THEN bits ELSE {}),
   blk |-> (IF "blink_off" \in st THEN m.blk \ mask ELSE m.blk)
           \cup (IF "blink_on" \in st THEN bits ELSE {})]

display_symbol(m, s, st) == write_lcd_mem(m, Own[s], Own[s], st)

SWAP_NIBBLE(bits) == {(b + 4) % 8 : b \in bits}

\* Fault: the second line is wired like the first.
SameWay(m, s, bits, st) == write_lcd_mem(m, Cells(s, bits), Own[s], st)

display_bits(m, s, bits, st) ==
  LET wired == IF s >= LCD_SEG_L2_5 THEN SWAP_NIBBLE(bits) ELSE bits
  IN  write_lcd_mem(m, Cells(s, wired), Own[s], st)

\* SEG_A to SEG_G
SegBit == [A |-> 4, B |-> 5, C |-> 6, D |-> 7, E |-> 2, F |-> 0, G |-> 1]
Lit(segs) == {SegBit[l] : l \in segs}

\* The part of the font that digits and the texts of the modules use.
lcd_font ==
  "0" :> Lit({"A", "B", "C", "D", "E", "F"}) @@ "1" :> Lit({"B", "C"})
  @@ "2" :> Lit({"A", "B", "D", "E", "G"}) @@ "3" :> Lit({"A", "B", "C", "D", "G"})
  @@ "4" :> Lit({"B", "C", "F", "G"}) @@ "5" :> Lit({"A", "C", "D", "F", "G"})
  @@ "6" :> Lit({"A", "C", "D", "E", "F", "G"}) @@ "7" :> Lit({"A", "B", "C"})
  @@ "8" :> Lit({"A", "B", "C", "D", "E", "F", "G"})
  @@ "9" :> Lit({"A", "B", "C", "D", "F", "G"})
  @@ "A" :> Lit({"A", "B", "C", "E", "F", "G"}) @@ "D" :> Lit({"B", "C", "D", "E", "G"})
  @@ "F" :> Lit({"A", "E", "F", "G"}) @@ "L" :> Lit({"D", "E", "F"})
  @@ "P" :> Lit({"A", "B", "E", "F", "G"}) @@ "S" :> Lit({"A", "C", "D", "F", "G"})
  @@ "Y" :> Lit({"B", "C", "D", "F", "G"})

\* The font ends before the lower case letters; blank is what it does not have.
display_char(m, s, chr, st) ==
  LET bits == IF chr \in DOMAIN lcd_font THEN lcd_font[chr]
              ELSE IF chr = "-" THEN {SegBit.G} ELSE {}
  IN  display_bits(m, s, IF s = LCD_SEG_L2_5 /\ chr \in {"1", "L"}
                         THEN SWAP_NIBBLE({7}) ELSE bits, st)

NULL == <<>>
Shown(len, str) == IF str = NULL THEN [i \in 1..len |-> "8"]
                   ELSE SubSeq(str, 1, Min({len, Len(str)}))

\* Fault: the characters are drawn from the right.
FromTheRight(m, at, len, str, st) ==
  LET text == Shown(len, str)
      after[i \in 1..Len(text) + 1] ==
        IF i > Len(text) THEN m ELSE display_char(after[i + 1], at + i - 1, text[i], st)
  IN  after[1]

\* after[i]: the memory once the first i characters are drawn.
display_chars(m, at, len, str, st) ==
  LET text == Shown(len, str)
      after[i \in 0..Len(text)] ==
        IF i = 0 THEN m ELSE display_char(after[i - 1], at + i - 1, text[i], st)
  IN  after[Len(text)]

Off(m, ss) == FoldLeft(LAMBDA w, s : display_symbol(w, s, SEG_OFF), m, ss)

display_clear(m, line) ==
  CASE line = 1 -> Off(display_chars(m, LCD_SEG_L1_3, 4, NULL, SEG_OFF),
                       <<LCD_SEG_L1_DP1, LCD_SEG_L1_DP0, LCD_SEG_L1_COL>>)
    [] line = 2 -> Off(display_chars(m, LCD_SEG_L2_5, 6, NULL, SEG_OFF),
                       <<LCD_SEG_L2_DP, LCD_SEG_L2_COL1, LCD_SEG_L2_COL0>>)
    [] OTHER -> [m EXCEPT !.seg = {}]

-----------------------------------------------------------------------------
Hex == <<"0", "1", "2", "3", "4", "5", "6", "7", "8", "9", "A", "B", "C", "D", "E", "F">>

Digits(n, base) ==
  LET c == CHOOSE k \in 1..5 : n < base^k /\ (k = 1 \/ n >= base^(k - 1))
  IN  [i \in 1..c |-> Hex[1 + ((n \div base^(c - i)) % base)]]

\* Fault: the digits end one place too far to the left.
OneShort(fmt, n) ==
  LET sign == IF fmt.conv = "s" THEN <<IF n < 0 THEN "-" ELSE " ">> ELSE <<>>
      ds   == Digits(IF n < 0 THEN -n ELSE n, IF fmt.conv = "x" THEN 16 ELSE 10)
  IN  fmt.pre \o sign \o Tail(ds) \o [i \in 1..fmt.digits - Len(ds) + 1 |-> fmt.zpad]

\* fmt: [pre, zpad, digits, conv], the text before the one % and what it says.
\* The digits are stored from the right, over what is there when they are too
\* many: the sign, the text before, and then the bytes before the buffer.
_sprintf(fmt, n) ==
  LET sign  == IF fmt.conv = "s" THEN <<IF n < 0 THEN "-" ELSE " ">> ELSE <<>>
      ds    == Digits(IF n < 0 THEN -n ELSE n, IF fmt.conv = "x" THEN 16 ELSE 10)
      head  == fmt.pre \o sign
      end   == Len(head) + fmt.digits
      first == end - Len(ds)
  IN  [i \in 1..end |-> IF i > first THEN ds[i - first]
                        ELSE IF i > Len(head) THEN fmt.zpad ELSE head[i]]

Percent == [pre |-> <<>>, zpad |-> " ", digits |-> 3, conv |-> "u"]

_itopct(low, high, n) ==
  IF n < low THEN <<" ", " ", "0">>
  ELSE IF n > high THEN <<"1", "0", "0">>
  ELSE _sprintf(Percent, (n * 100 - low * 100) \div (high - low))

-----------------------------------------------------------------------------
None == [at |-> 0, len |-> 0, str |-> NULL, st |-> {}, n |-> -1]

Init == /\ lcd = [seg |-> {}, blk |-> {}] /\ half = "none"
        /\ last = None /\ drawn = {}

Wrote(at, len, str, st, n) ==
  /\ lcd' = display_chars(lcd, at, len, str, st)
  /\ last' = [at |-> at, len |-> len, str |-> Shown(len, str), st |-> st, n |-> n]
  /\ drawn' = at..at + Len(Shown(len, str)) - 1
  /\ UNCHANGED half

_printf(p) == Wrote(p.at, p.len, _sprintf(p.fmt, p.n), SEG_SET, p.n)

Write(t) == Wrote(t.at, t.len, t.str, t.st, -1)

BATTERY_EMPTY_THRESHOLD == 220
BATTERY_FULL_THRESHOLD  == 310

display_battery(voltage) ==
  LET low == BATTERY_EMPTY_THRESHOLD
      high == BATTERY_FULL_THRESHOLD
      within == Max({low, Min({high, voltage})})
  IN  Wrote(LCD_SEG_L1_2, 3, _itopct(low, high, voltage), SEG_SET,
            ((within - low) * 100) \div (high - low))

Symbol(c) ==
  /\ lcd' = display_symbol(lcd, c.symbol, c.st)
  /\ drawn' = {c.symbol} /\ last' = None /\ UNCHANGED half

\* Fault: the other half is turned off after this one is turned on.
OffLast(h) ==
  LET on  == IF h = "am" THEN LCD_SYMB_AM ELSE LCD_SYMB_PM
      off == IF h = "am" THEN LCD_SYMB_PM ELSE LCD_SYMB_AM
  IN  display_symbol(display_symbol(lcd, on, SEG_SET), off, SEG_OFF)

\* The clock turns one half of the day off and then the other on.
ShowHalf(h) ==
  LET on  == IF h = "am" THEN LCD_SYMB_AM ELSE LCD_SYMB_PM
      off == IF h = "am" THEN LCD_SYMB_PM ELSE LCD_SYMB_AM
  IN  display_symbol(display_symbol(lcd, off, SEG_OFF), on, SEG_SET)

\* The hour of clock_event, on a display of twelve hours.
clock_event(hour) ==
  LET h    == IF hour >= 12 THEN "pm" ELSE "am"
      n    == IF hour > 12 THEN hour - 12 ELSE IF hour = 0 THEN 12 ELSE hour
      text == _sprintf([pre |-> <<>>, zpad |-> " ", digits |-> 2, conv |-> "u"], n)
  IN  /\ lcd' = display_chars(ShowHalf(h), LCD_SEG_L1_3, 2, text, SEG_SET)
      /\ half' = h
      /\ last' = [at |-> LCD_SEG_L1_3, len |-> 2, str |-> text, st |-> SEG_SET, n |-> n]
      /\ drawn' = {LCD_SYMB_AM, LCD_SYMB_PM, LCD_SEG_L1_3, LCD_SEG_L1_2}

Line1 == 26..32
Line2 == 33..41

clock_deactivated ==
  LET symbols == <<LCD_SEG_L1_COL, LCD_SYMB_AM, LCD_SYMB_PM>>
  IN  /\ lcd' = display_clear(display_clear(Off(lcd, symbols), 1), 2)
      /\ half' = "none"
      /\ drawn' = ToSet(symbols) \cup Line1 \cup Line2 /\ last' = None

Clear(line) ==
  /\ lcd' = display_clear(lcd, line)
  /\ half' = IF line = 0 THEN "none" ELSE half
  /\ drawn' = CASE line = 1 -> Line1 [] line = 2 -> Line2 [] OTHER -> Segment
  /\ last' = None

Next ==
  \/ \E p \in Prints : _printf(p)
  \/ \E v \in Voltages : display_battery(v)
  \/ \E t \in Texts : Write(t)
  \/ \E c \in Symbols : Symbol(c)
  \/ \E hour \in Hours : clock_event(hour)
  \/ clock_deactivated
  \/ \E line \in 0..2 : Clear(line)

Spec == Init /\ [][Next]_vars

-----------------------------------------------------------------------------
\* The memory is twelve bytes of segments and twelve of their blinking, and no
\* write sets a bit that drives no segment.
TypeOK ==
  /\ lcd.seg \cup lcd.blk \subseteq Wired
  /\ half \in {"none", "am", "pm"} /\ drawn \subseteq Segment

\* The segments of a character that are lit, by the letters of the data sheet:
\* the second line is wired in mirror image.
Letters(s) ==
  LET bit == IF s < LCD_SEG_L2_5 THEN SegBit
             ELSE [A |-> 0, B |-> 1, C |-> 2, D |-> 3, E |-> 6, F |-> 4, G |-> 5]
  IN  {l \in DOMAIN bit : <<segments_lcdmem[s + 1], bit[l]>> \in lcd.seg}

Digit ==
  <<{"A", "B", "C", "D", "E", "F"}, {"B", "C"}, {"A", "B", "D", "E", "G"},
    {"A", "B", "C", "D", "G"}, {"B", "C", "F", "G"}, {"A", "C", "D", "F", "G"},
    {"A", "C", "D", "E", "F", "G"}, {"A", "B", "C"},
    {"A", "B", "C", "D", "E", "F", "G"}, {"A", "B", "C", "D", "F", "G"}>>

\* What the wearer reads at s: a digit, or 0 when it is none.  The leftmost
\* character of the second line has one segment, lit for a 1.
DigitAt(s) ==
  IF s = LCD_SEG_L2_5 THEN (IF <<12, 7>> \in lcd.seg THEN 1 ELSE 0)
  ELSE IF \E d \in 0..9 : Digit[d + 1] = Letters(s)
       THEN CHOOSE d \in 0..9 : Digit[d + 1] = Letters(s)
       ELSE 0

NumberAt(at, len) ==
  MapThenSumSet(LAMBDA i : DigitAt(at + i) * 10^(len - 1 - i), 0..len - 1)

\* The number a module prints is the number the wearer can read off the
\* segments, although the text is built from the right in one shared buffer,
\* the two lines are wired differently, and drawing the leftmost character of
\* the second line writes into its neighbour.
ReadsBack ==
  (last.n # -1) => NumberAt(last.at, Len(last.str)) = IF last.n < 0 THEN -last.n ELSE last.n

\* The clock shows one half of the day, whichever it showed before: the two
\* symbols share a segment.
HalfIsShown ==
  lcd.seg \cap Cells(LCD_SYMB_AM, {0, 1}) =
    CASE half = "am" -> Cells(LCD_SYMB_AM, {0, 1})
      [] half = "pm" -> Cells(LCD_SYMB_AM, {0})
      [] OTHER -> {}

\* A call changes the symbols and characters it names and leaves every other
\* one as it is, blinking included, although several share a byte.
OthersKept ==
  [][SymDiff(lcd.seg, lcd'.seg) \cup SymDiff(lcd.blk, lcd'.blk)
       \subseteq UNION {Own[s] : s \in drawn'}]_vars
=============================================================================
