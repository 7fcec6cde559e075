---------------------------- MODULE LcdSegments ----------------------------
(***************************************************************************)
(* The symbols and characters of the display, drivers/display.h, and the   *)
(* bits of the LCD controller's memory each is made of (the LCD_..._MEM    *)
(* and LCD_..._MASK of drivers/display.c).                                 *)
(***************************************************************************)
EXTENDS Integers, Sequences

\* enum display_segstate
SEG_OFF == {"seg_off"}
SEG_ON == {"seg_on"}
BLINK_OFF == {"blink_off"}
BLINK_ON == {"blink_on"}
SEG_SET == SEG_OFF \cup SEG_ON

\* enum display_segment: the ones that are named below.
LCD_SYMB_AM == 0
LCD_SYMB_PM == 1
LCD_SYMB_BATTERY == 8
LCD_SEG_L1_3 == 26
LCD_SEG_L1_2 == 27
LCD_SEG_L1_1 == 28
LCD_SEG_L1_COL == 30
LCD_SEG_L1_DP1 == 31
LCD_SEG_L1_DP0 == 32
LCD_SEG_L2_5 == 33
LCD_SEG_L2_4 == 34
LCD_SEG_L2_3 == 35
LCD_SEG_L2_COL1 == 39
LCD_SEG_L2_COL0 == 40
LCD_SEG_L2_DP == 41
Segment == 0..41

\* The LCD_..._MEM of each segment: the byte of LCD memory.
segments_lcdmem ==
  <<1, 1, 1, 1, 5, 11, 10, 8, 7, 5, 5, 7, 7, 5, 7, 5, 7, 7, 7, 2, 3, 1, 4, 5, 6, 7,
    2, 3, 4, 6, 1, 1, 5, 12, 12, 11, 10, 9, 8, 1, 5, 9>>

\* The LCD_..._MASK of the seven segments of a character, on either line.
Mask1 == {0, 1, 2, 4, 5, 6, 7}
Mask2 == {0, 1, 2, 3, 4, 5, 6}

segments_bitmask ==
  <<{0, 1}, {0}, {2}, {3}, {4}, {7}, {7}, {7}, {7}, {5}, {6}, {1}, {0}, {7}, {2}, {1},
    {4}, {5}, {6}, {3}, {3}, {7}, {3}, {3}, {3}, {3},
    Mask1, Mask1, Mask1, Mask1, {5}, {6}, {2},
    {7}, Mask2, Mask2, Mask2, Mask2, Mask2, {4}, {0}, {7}>>

\* The lit bits that are the named ones of segment s, and all of them.
Cells(s, bits) == {segments_lcdmem[s + 1]} \X bits
Mask(s)        == segments_bitmask[s + 1]
Own            == [s \in Segment |-> Cells(s, Mask(s))]
Wired          == UNION {Own[s] : s \in Segment}
=============================================================================
