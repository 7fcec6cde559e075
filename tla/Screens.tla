------------------------------- MODULE Screens -------------------------------
(***************************************************************************)
(* The virtual screens of drivers/display.c.  A screen is a pair of        *)
(* buffers, segments and blinking, which are allocated, copied and freed   *)
(* together: a Block of the heap, or the memory of the LCD controller.     *)
(* The screen that is shown is the one mapped to the LCD, so showing       *)
(* another one swaps contents between the LCD and the heap.                *)
(*                                                                         *)
(* All of it runs in the main thread.                                      *)
(***************************************************************************)
EXTENDS Integers, FiniteSets

CONSTANTS
  Content, Blank, MaxScreens,
  Block,     \* pairs of buffers malloc can return
  LCD, NULL

ScreensAssumption ==
  /\ Blank \in Content /\ MaxScreens \in Nat \ {0}
  /\ LCD \notin Block
  /\ NULL \notin UNION {[0..nr - 1 -> Block \cup {LCD}] : nr \in 1..MaxScreens}

VARIABLES
  lcd,                \* content of the LCD memory
  mem,                \* content of each block
  live,               \* blocks malloc has handed out
  display_screens,    \* NULL, or where each screen is
  display_activescr,
  untidy              \* history: screens were created over live ones

vars == <<lcd, mem, live, display_screens, display_activescr, untidy>>

Nr    == 1..MaxScreens
Place == Block \cup {LCD}
Up    == display_screens # NULL
Scr   == DOMAIN display_screens   \* when Up

At(p) == IF p = LCD THEN lcd ELSE mem[p]

Init ==
  /\ lcd = Blank /\ mem = [b \in Block |-> Blank] /\ live = {}
  /\ display_screens = NULL /\ display_activescr = 0 /\ untidy = FALSE

-----------------------------------------------------------------------------
\* Fault: the new screens start blank.
BlankBlocks(bs) == [b \in Block |-> IF b \in bs THEN Blank ELSE mem[b]]

\* The new buffers bs are copies of what the LCD shows.
CopiedTo(bs) == [b \in Block |-> IF b \in bs THEN lcd ELSE mem[b]]

\* new: the buffers of screens 1..nr-1.
lcd_screens_create(nr) ==
  /\ \E new \in [1..nr - 1 -> Block \ live] :
       /\ \A i, j \in 1..nr - 1 : new[i] = new[j] => i = j
       /\ display_screens' = [i \in 0..nr - 1 |-> IF i = 0 THEN LCD ELSE new[i]]
       /\ mem' = CopiedTo({new[i] : i \in 1..nr - 1})
       /\ live' = live \cup {new[i] : i \in 1..nr - 1}
  /\ display_activescr' = 0
  /\ untidy' = (untidy \/ Up)
  /\ UNCHANGED lcd

\* Faults: the screen left behind stays mapped; the block swapped in is not
\* freed; it is not copied to the LCD.
SwapForgetsOld(scr, b) ==
  /\ mem' = [mem EXCEPT ![b] = lcd]
  /\ lcd' = At(display_screens[scr])
  /\ live' = (live \cup {b}) \ {display_screens[scr]}
  /\ display_screens' = [display_screens EXCEPT ![scr] = LCD]
  /\ display_activescr' = scr
  /\ UNCHANGED untidy
SwapLeaks(scr, b) ==
  LET mem1 == [mem EXCEPT ![b] = lcd]
      scr1 == [display_screens EXCEPT ![display_activescr] = b]
  IN /\ mem' = mem1 /\ lcd' = mem1[scr1[scr]]
     /\ live' = live \cup {b}
     /\ display_screens' = [scr1 EXCEPT ![scr] = LCD]
     /\ display_activescr' = scr
     /\ UNCHANGED untidy
SwapHalf(scr, b) ==
  LET scr1 == [display_screens EXCEPT ![display_activescr] = b]
  IN /\ mem' = [mem EXCEPT ![b] = lcd] /\ lcd' = lcd
     /\ live' = (live \cup {b}) \ {scr1[scr]}
     /\ display_screens' = [scr1 EXCEPT ![scr] = LCD]
     /\ display_activescr' = scr
     /\ UNCHANGED untidy

\* The body of lcd_screen_activate(scr): b takes what the LCD shows, the LCD
\* takes what scr held, and scr's block is freed.
SwapIn(scr, b) ==
  LET mem1 == [mem EXCEPT ![b] = lcd]
      scr1 == [display_screens EXCEPT ![display_activescr] = b]
  IN /\ mem' = mem1
     /\ lcd' = mem1[scr1[scr]]
     /\ live' = (live \cup {b}) \ {scr1[scr]}
     /\ display_screens' = [scr1 EXCEPT ![scr] = LCD]
     /\ display_activescr' = scr
     /\ UNCHANGED untidy

lcd_screen_activate(scr) ==
  /\ Up /\ scr \in Scr
  /\ \E b \in Block \ live : SwapIn(scr, b)

\* lcd_screen_activate(0xff), with helpers_loop(&display_activescr, ...).
ActivateNext ==
  /\ Up
  /\ lcd_screen_activate(IF display_activescr + 1 \in Scr
                         THEN display_activescr + 1 ELSE 0)

\* Fault: display_activescr is not reset.
DestroyKeepsActive ==
  /\ Up
  /\ LET on0   == display_activescr = 0
         freed == {display_screens[i] : i \in Scr \ {0, display_activescr}}
     IN /\ lcd' = IF on0 THEN lcd ELSE mem[display_screens[0]]
        /\ live' = live \ (freed \cup {display_screens[0]})
  /\ display_screens' = NULL
  /\ UNCHANGED <<mem, display_activescr, untidy>>

\* Screen 0 is shown again, the blocks of the others are freed.
lcd_screens_destroy ==
  /\ Up
  /\ LET on0   == display_activescr = 0
         freed == {display_screens[i] : i \in Scr \ {0, display_activescr}}
     IN /\ lcd' = IF on0 THEN lcd ELSE mem[display_screens[0]]
        /\ \E b \in Block \ live :
             /\ mem' = [mem EXCEPT ![b] = lcd]
             /\ live' = live \ (IF on0 THEN freed
                                ELSE freed \cup {display_screens[0]})
  /\ display_screens' = NULL /\ display_activescr' = 0
  /\ UNCHANGED untidy

\* display_chars, display_symbol, display_bits, display_clear on screen scr.
Draw(scr, c) ==
  LET p == IF Up THEN display_screens[scr] ELSE LCD
  IN /\ Up => scr \in Scr
     /\ lcd' = IF p = LCD THEN c ELSE lcd
     /\ mem' = IF p = LCD THEN mem ELSE [mem EXCEPT ![p] = c]
     /\ UNCHANGED <<live, display_screens, display_activescr, untidy>>

Next ==
  \/ \E nr \in Nr : lcd_screens_create(nr)
  \/ lcd_screens_destroy
  \/ \E scr \in 0..MaxScreens - 1 : lcd_screen_activate(scr)
  \/ ActivateNext
  \/ \E scr \in 0..MaxScreens - 1, c \in Content : Draw(scr, c)

Spec == Init /\ [][Next]_vars

-----------------------------------------------------------------------------
(* Properties.                                                             *)

TypeOK ==
  /\ lcd \in Content /\ mem \in [Block -> Content] /\ live \subseteq Block
  /\ \/ display_screens = NULL
     \/ \E nr \in Nr : display_screens \in [0..nr - 1 -> Place]
  /\ Up => display_activescr \in Scr
  /\ ~Up => display_activescr = 0
  /\ untidy \in BOOLEAN

(***************************************************************************)
(* The active screen and no other is mapped to the LCD; the others have    *)
(* each a block of their own that is allocated.  After any sequence of     *)
(* calls no screen is left on a block lcd_screen_activate has freed.       *)
(***************************************************************************)
ScreensApart ==
  Up => /\ \A i \in Scr : (display_screens[i] = LCD) <=> (i = display_activescr)
        /\ \A i \in Scr \ {display_activescr} : display_screens[i] \in live
        /\ \A i, j \in Scr : display_screens[i] = display_screens[j] => i = j

(***************************************************************************)
(* As long as modules destroy what they create (the thermometer and the    *)
(* altimeter do not), every allocated block belongs to a screen: neither   *)
(* activating nor destroying leaks.                                        *)
(***************************************************************************)
NoLeak ==
  ~untidy => live = IF Up THEN {display_screens[i] : i \in Scr} \ {LCD} ELSE {}

(***************************************************************************)
(* However contents travel between the LCD and the heap, each screen keeps *)
(* what was drawn on it and the LCD shows the active one.                  *)
(***************************************************************************)
Abstract == INSTANCE VirtualScreens WITH
  content <- IF Up THEN [i \in Scr |-> At(display_screens[i])]
             ELSE [i \in {0} |-> lcd],
  active <- display_activescr

ImplementsScreens == Abstract!Spec
=============================================================================
