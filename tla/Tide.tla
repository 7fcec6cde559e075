-------------------------------- MODULE Tide --------------------------------
(***************************************************************************)
(* modules/tide.c: the time left until the next low water, counted down by *)
(* the minute and set from a time of day the user enters.                  *)
(***************************************************************************)
EXTENDS Integers

CONSTANTS
  Starts,      \* minutes of the day the watch may be switched on at
  Entered,     \* <<hour, minute>> the user may enter for the next low water
  MaxMinutes   \* bound on the minutes that pass

Day  == 1440
Full == 754       \* fullTideTime
Half == 372       \* halfTideTime
None == -1

TideAssumption ==
  /\ Starts \subseteq 0..Day - 1 /\ Entered \subseteq (0..23) \X (0..59)
  /\ MaxMinutes \in Nat

VARIABLES
  hoursLeft, minutesLeft,  \* tide, both of a byte
  graphOffset,
  moduleActivated, editModeActivated,
  activeDisplay,           \* what buttonDown counts on
  screen,                  \* the virtual screen that is shown
  low, high,               \* the times until low and high water on the
                           \* display, or None
  now, sec,                \* minute of the day and second of rtca_time
  entry,                   \* enteredTimeOfNextLow
  passed,                  \* minutes that passed
  at, odd                  \* history: the minute of the day low water should
                           \* be at; one that was over has been entered

tide    == <<hoursLeft, minutesLeft, graphOffset>>
ui      == <<moduleActivated, editModeActivated, activeDisplay, screen, low, high>>
world   == <<now, sec, passed>>
history == <<at, odd>>
vars    == <<tide, ui, entry, world, history>>

Uint16(n) == n % 65536

timeInMinutes(h, m) == Uint16(m + 60 * h)

\* timeNowInMinutes
Now == Uint16(now + IF sec > 30 THEN 1 ELSE 0)

timeFromMinutes(n) ==
  LET h == (n \div 60) % 256
  IN [hours |-> h, minutes |-> Uint16(n - 60 * h) % 256]

\* The difference is of 32 bits and unsigned; 2^32 = 4 * 5772805 * 186 + 376.
GraphOf(left) ==
  IF left <= Full THEN ((Full - left) \div 186) % 4
                  ELSE ((Full - left + 376) \div 186) % 4

Left == timeInMinutes(hoursLeft, minutesLeft)

\* drawScreen, after the tide has changed to h and m
Draw(h, m, active, editing) ==
  LET left == timeInMinutes(h, m)
  IN IF active /\ ~editing
     THEN low' = left /\ high' = IF left > Half THEN left - Half ELSE left + Half
     ELSE UNCHANGED <<low, high>>

\* Fault: the hour is not taken off.
CountMinutesOnly(h, m) ==
  IF m = 0 THEN [hours |-> h, minutes |-> 59] ELSE [hours |-> h, minutes |-> m - 1]

\* A minute less, h and m not both zero.
CountDown(h, m) ==
  IF m = 0 THEN [hours |-> h - 1, minutes |-> 59] ELSE [hours |-> h, minutes |-> m - 1]

\* The turn of the tide is neither counted down nor drawn.
minuteTick ==
  /\ graphOffset' = GraphOf(Left)
  /\ LET turn == hoursLeft = 0 /\ minutesLeft = 0
         t == IF turn THEN timeFromMinutes(Full + 1) ELSE CountDown(hoursLeft, minutesLeft)
     IN /\ hoursLeft' = t.hours /\ minutesLeft' = t.minutes
        /\ IF turn THEN UNCHANGED <<low, high>>
                   ELSE Draw(t.hours, t.minutes, moduleActivated, editModeActivated)

\* As mod_tide_init leaves it: 90 minutes, and a tick.
Init ==
  /\ hoursLeft = 1 /\ minutesLeft = 29 /\ graphOffset = GraphOf(90)
  /\ moduleActivated = FALSE /\ editModeActivated = FALSE
  /\ activeDisplay = 0 /\ screen = 0 /\ low = None /\ high = None
  /\ now \in Starts /\ sec = 0 /\ entry = <<0, 0>> /\ passed = 0
  /\ at = (now + 89) % Day /\ odd = FALSE

Minute ==
  /\ passed < MaxMinutes /\ passed' = passed + 1
  /\ now' = (now + 1) % Day /\ sec' = 0
  /\ minuteTick
  /\ at' = IF Left = 0 THEN (now + 1 + Full + 1) % Day ELSE at
  /\ UNCHANGED <<moduleActivated, editModeActivated, activeDisplay, screen,
                 entry, odd>>

HalfMinute ==
  /\ sec = 0 /\ sec' = 31
  /\ UNCHANGED <<tide, ui, entry, now, passed, history>>

activate ==
  /\ ~moduleActivated /\ moduleActivated' = TRUE
  /\ activeDisplay' = 0 /\ screen' = 0
  /\ Draw(hoursLeft, minutesLeft, TRUE, editModeActivated)
  /\ UNCHANGED <<tide, editModeActivated, entry, world, history>>

\* The menu leaves no module that is in edit mode.
deactivate ==
  /\ moduleActivated /\ ~editModeActivated /\ moduleActivated' = FALSE
  /\ screen' = 0 /\ low' = None /\ high' = None
  /\ UNCHANGED <<tide, editModeActivated, activeDisplay, entry, world, history>>

\* buttonUp goes on to the next screen and leaves activeDisplay behind.
buttonUp ==
  /\ moduleActivated /\ ~editModeActivated
  /\ screen' = (screen + 1) % 3
  /\ Draw(hoursLeft, minutesLeft, TRUE, FALSE)
  /\ UNCHANGED <<tide, moduleActivated, editModeActivated, activeDisplay,
                 entry, world, history>>

buttonDown ==
  /\ moduleActivated /\ ~editModeActivated
  /\ activeDisplay' = IF activeDisplay <= 0 THEN 2 ELSE (activeDisplay - 1) % 3
  /\ screen' = activeDisplay'
  /\ Draw(hoursLeft, minutesLeft, TRUE, FALSE)
  /\ UNCHANGED <<tide, moduleActivated, editModeActivated, entry, world, history>>

\* longStarButton: edit mode starts at the time the next low water is at.
longStarButton ==
  /\ moduleActivated /\ ~editModeActivated /\ editModeActivated' = TRUE
  /\ screen' = 0 /\ low' = None /\ high' = None
  /\ LET t == timeFromMinutes((Now + Left) % Day) IN entry' = <<t.hours, t.minutes>>
  /\ UNCHANGED <<tide, moduleActivated, activeDisplay, world, history>>

\* editHHSet and editMMSet, many times
Enter(time) ==
  /\ editModeActivated
  /\ entry' = time
  /\ UNCHANGED <<tide, ui, world, history>>

\* Fault: the minute that runs is counted as a whole one.
LeftAndNow(next, time) == Uint16(next - time + 1)

\* The difference is unsigned, and never found negative.
LeftUntil(next, time) == Uint16(next - time)

endEditing ==
  LET next == timeInMinutes(entry[1], entry[2])
      t    == timeFromMinutes(LeftUntil(next, Now))
  IN /\ editModeActivated /\ editModeActivated' = FALSE
     /\ hoursLeft' = t.hours /\ minutesLeft' = t.minutes
     /\ Draw(t.hours, t.minutes, moduleActivated, FALSE)
     /\ at' = next
     /\ odd' = (next < Now)
     /\ UNCHANGED <<graphOffset, moduleActivated, activeDisplay, screen,
                    entry, world>>

Next ==
  \/ Minute \/ HalfMinute \/ activate \/ deactivate \/ buttonUp \/ buttonDown
  \/ longStarButton \/ endEditing \/ \E time \in Entered : Enter(time)

Spec == Init /\ [][Next]_vars

-----------------------------------------------------------------------------
(* Properties.                                                             *)

TypeOK ==
  /\ hoursLeft \in 0..255 /\ minutesLeft \in 0..255 /\ graphOffset \in 0..3
  /\ moduleActivated \in BOOLEAN /\ editModeActivated \in BOOLEAN
  /\ activeDisplay \in 0..2 /\ screen \in 0..2 /\ low \in Nat \cup {None}
  /\ now \in 0..Day - 1

(***************************************************************************)
(* The watch counts down to the low water that was entered, or the one it  *)
(* came up with, to the minute or one less, from tide to tide, shown or    *)
(* not and while the next is entered, unless the time of day that was      *)
(* entered had passed; and what it displays is that, but for the minute    *)
(* the tide turns in.                                                      *)
(***************************************************************************)
CountsToLow ==
  ~odd => /\ (now + Left) % Day \in {at, (at - 1) % Day}
          /\ moduleActivated /\ ~editModeActivated =>
               low = Left \/ (low = 0 /\ Left = Full + 1)
=============================================================================
