-------------------------------- MODULE Ports --------------------------------
(***************************************************************************)
(* The button driver, drivers/ports.c: PORT2_ISR measures how long a       *)
(* button is held by flipping the edge that interrupts it (P2IES) and      *)
(* reading the 20 Hz counter of drivers/timer.c, and leaves short and long *)
(* presses in ports_pressed_btns for the main loop.                        *)
(*                                                                         *)
(* The handler takes two steps: its body, and the access to P2IV on which  *)
(* the port drops its highest pending flag.  Edges may come in between.    *)
(***************************************************************************)
EXTENDS Integers, FiniteSets, FiniteSetsExt

CONSTANTS
  Button,     \* pins of the buttons
  SensorPin,  \* pins of the accelerometer and the pressure sensor
  Short, Long,\* CONFIG_BUTTONS_SHORT_PRESS_TIME, CONFIG_BUTTONS_LONG_PRESS_TIME
  Width,      \* timer0_20hz_counter counts modulo Width (2^16 in the watch)
  MaxHold,    \* bound: ticks a button is held at most
  Overlaps    \* may the user press a button while another one is down?

PortsAssumption ==
  /\ Button \subseteq Nat /\ SensorPin \subseteq Nat
  /\ \A b \in Button, p \in SensorPin : b < p
  /\ Short \in Nat \ {0} /\ Long \in Nat /\ Short <= Long
  /\ MaxHold \in Nat /\ Width \in Nat /\ MaxHold < Width
  /\ Overlaps \subseteq BOOLEAN

VARIABLES
  overlap,    \* the choice of a behaviour from Overlaps
  pin,        \* buttons that are physically down
  ies,        \* P2IES: pins that interrupt on the falling edge
  ifg,        \* P2IFG: pending flags
  isr,        \* "idle", or "exit" before the access to P2IV
  counter,    \* timer0_20hz_counter
  last_press,
  pressed,    \* ports_pressed_btns, as pairs of a button and a kind
  age,        \* history: ticks the driver has taken each button for pressed
  held,       \* history, unless overlap: ticks each button has been down
  want        \* history, unless overlap: events the presses deserve

hw   == <<pin, ifg>>
drv  == <<ies, last_press, pressed>>
vars == <<overlap, hw, drv, isr, counter, held, age, want>>

Pin  == Button \cup SensorPin
Kind == {"short", "long"}

Init ==
  /\ overlap \in Overlaps
  /\ pin = {} /\ ies = {} /\ ifg = {} /\ isr = "idle"
  /\ counter = 0 /\ last_press = 0 /\ pressed = {}
  /\ held = [b \in Button |-> 0] /\ age = [b \in Button |-> 0] /\ want = {}

\* The processor is not inside, nor about to enter, the handler.
Quiet == isr = "idle" /\ ifg = {}

\* The kind of press a measured duration is, as a set of at most one kind.
KindOf(ticks) ==
  IF ticks > Long THEN {"long"} ELSE IF ticks >= Short THEN {"short"} ELSE {}

Events(bs, ticks) == bs \X KindOf(ticks)

-----------------------------------------------------------------------------
(* The pins.  Unless overlap, the user works one button at a time and the  *)
(* handler is done before the next edge (its latency is microseconds).     *)

MayMove == overlap \/ Quiet

\* The edge the pin interrupts on sets its flag.
PressPin(b) ==
  /\ b \notin pin /\ MayMove /\ (~overlap => pin = {})
  /\ pin' = pin \cup {b}
  /\ ifg' = IF b \in ies THEN ifg ELSE ifg \cup {b}
  /\ UNCHANGED <<overlap, drv, isr, counter, held, age, want>>

ReleasePin(b) ==
  /\ b \in pin /\ MayMove
  /\ pin' = pin \ {b}
  /\ ifg' = IF b \in ies THEN ifg \cup {b} ELSE ifg
  /\ want' = IF overlap THEN want ELSE want \cup Events({b}, held[b])
  /\ held' = [held EXCEPT ![b] = 0]
  /\ UNCHANGED <<overlap, drv, isr, counter, age>>

SensorEdge(p) ==
  /\ MayMove
  /\ ifg' = ifg \cup {p}
  /\ UNCHANGED <<overlap, pin, drv, isr, counter, held, age, want>>

\* Fault: a counter wider than the differences taken of it.
WideTick ==
  /\ Quiet /\ \A b \in pin : held[b] < MaxHold
  /\ counter' = counter + 1
  /\ held' = [b \in Button |-> IF b \in pin /\ ~overlap THEN held[b] + 1
                                                       ELSE held[b]]
  /\ age' = [b \in Button |-> IF b \in ies /\ age[b] <= Long THEN age[b] + 1
                                                           ELSE age[b]]
  /\ UNCHANGED <<overlap, hw, drv, isr, want>>

\* timer0_A0_ISR; a pending PORT2_ISR never waits for a whole tick.
Tick ==
  /\ Quiet /\ \A b \in pin : held[b] < MaxHold
  /\ counter' = (counter + 1) % Width
  /\ held' = [b \in Button |-> IF b \in pin /\ ~overlap THEN held[b] + 1
                                                       ELSE held[b]]
  /\ age' = [b \in Button |-> IF b \in ies /\ age[b] <= Long THEN age[b] + 1
                                                           ELSE age[b]]
  /\ UNCHANGED <<overlap, hw, drv, isr, want>>

-----------------------------------------------------------------------------
(* PORT2_ISR.                                                              *)

Rising   == ifg \cap (Button \ ies)   \* just pressed
Released == ifg \cap Button \cap ies  \* just released

\* Fault: only the first of several buttons that are down is timed.
FirstPress == IF Rising # {} /\ ies = {} THEN counter ELSE last_press

\* The one last_press serves all the buttons: the latest press sets it.
LastPress == IF Rising # {} THEN counter ELSE last_press

\* Fault: a signed difference.
SignedTicks == counter - LastPress

PressedTicks == (counter - LastPress) % Width

\* Fault: a release is not followed by re-arming.
StaysArmed == ies \cup Rising

\* Pressed buttons interrupt on their release next; a release re-arms all.
NewIes == IF Released = {} THEN ies \cup Rising ELSE {}

\* Writing P2IES can raise the flag of a pin that already has the level the
\* new edge leads to.
Flipped(new) == {b \in Button : \/ b \in new \ ies /\ b \notin pin
                                \/ b \in ies \ new /\ b \in pin}

IsrBody ==
  /\ isr = "idle" /\ ifg # {}
  /\ last_press' = LastPress
  /\ ies' = NewIes
  /\ pressed' = IF Released = {} THEN pressed
                ELSE pressed \cup Events(ies \cup Rising, PressedTicks)
  /\ age' = [b \in Button |-> IF b \in NewIes \ Rising THEN age[b] ELSE 0]
  /\ \E raised \in SUBSET Flipped(NewIes) : ifg' = ifg \cup raised
  /\ isr' = "exit"
  /\ UNCHANGED <<overlap, pin, counter, held, want>>

\* P2IV = 0 drops the pending flag of highest priority, the lowest pin.
IsrExit ==
  /\ isr = "exit" /\ isr' = "idle"
  /\ ifg' = ifg \ {Min(ifg)}
  /\ UNCHANGED <<overlap, pin, drv, counter, held, age, want>>

\* check_buttons reads and clears the word; it runs when no handler is due.
CheckButtons ==
  /\ Quiet /\ pressed # {}
  /\ pressed' = {} /\ want' = {}
  /\ UNCHANGED <<overlap, hw, ies, last_press, isr, counter, held, age>>

Next ==
  \/ \E b \in Button : PressPin(b) \/ ReleasePin(b)
  \/ \E p \in SensorPin : SensorEdge(p)
  \/ Tick \/ IsrBody \/ IsrExit \/ CheckButtons

Spec == Init /\ [][Next]_vars

\* Interrupts are served, time passes; a user lets go of a button some time.
Fairness ==
  /\ WF_vars(IsrBody) /\ WF_vars(IsrExit)
  /\ \A b \in Button : SF_vars(ReleasePin(b))

FairSpec == Spec /\ Fairness

-----------------------------------------------------------------------------
(* Properties.                                                             *)

TypeOK ==
  /\ overlap \in BOOLEAN
  /\ pin \subseteq Button /\ ies \subseteq Button /\ ifg \subseteq Pin
  /\ isr \in {"idle", "exit"}
  /\ counter \in 0..Width - 1 /\ last_press \in 0..Width - 1
  /\ pressed \subseteq Button \X Kind /\ want \subseteq Button \X Kind
  /\ held \in [Button -> 0..MaxHold] /\ age \in [Button -> 0..Long + 1]

(***************************************************************************)
(* One button at a time: once the handler has run, ports_pressed_btns      *)
(* holds exactly the presses the user made since check_buttons last looked,*)
(* each of the right kind, also when the 20 Hz counter wraps during one.   *)
(***************************************************************************)
PressesAreSaved == ~overlap /\ Quiet => pressed = want

(***************************************************************************)
(* However presses of several buttons overlap, a long press is saved only  *)
(* for buttons the driver took for pressed more than Long ticks ago: the   *)
(* shared last_press errs towards short.                                   *)
(***************************************************************************)
LongWasLong ==
  [][\A b \in Button : <<b, "long">> \in pressed' \ pressed => age[b] > Long]_vars

\* One button at a time: a pressed button is re-armed for the next press.
Rearmed == \A b \in Button : ~overlap /\ b \in ies ~> b \notin ies
=============================================================================
