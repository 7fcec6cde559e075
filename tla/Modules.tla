------------------------------- MODULE Modules -------------------------------
(***************************************************************************)
(* What the application modules share, the message bus (MessageBus) and    *)
(* the virtual screens (Screens), and four of them: Stopwatch, Tide, DDay  *)
(* and Otp.  They share no state here: a behaviour runs one of them, its   *)
(* part, and the others stand still.                                       *)
(***************************************************************************)
EXTENDS Integers, Sequences, FiniteSets

CONSTANTS
  Callback, Event, Mask, Node, NoNode,                    \* of MessageBus
  Content, BlankScreen, MaxScreens, Block, LCD, NoScreens,\* of Screens
  MAX_LAPS, Cents, Seconds, Minutes, Hours,               \* of Stopwatch
  TideStarts, Entered, MaxMinutes,                        \* of Tide
  DDayStarts, MaxDays, Dday, MaxSteps,                    \* of DDay
  OtpStarts, MaxSeconds, Offsets, SERVICE_COUNT           \* of Otp

VARIABLES
  part,   \* the part a behaviour runs
  messagebus, fn, listens, next, bus_live, heard,
  lcd, mem, screens_live, display_screens, display_activescr, untidy,
  state, laps, lap_act, sSwatch_time, displayed, stopwatch_visible,
  listeners, ran, marks,
  hoursLeft, minutesLeft, graphOffset, moduleActivated, editModeActivated,
  activeDisplay, screen, low, high, now, sec, entry, tide_passed, at, odd,
  today, dday_passed, g_dday, tmp_date, mode, g_view_state, shown, drawn,
  steps,
  otp_offset, rtca_time, otp_passed, begin, otp_visible, g_service,
  g_display_state, service_display_remain, last_time, last_service, display,
  segment

busVars ==
  <<messagebus, fn, listens, next, bus_live, heard>>
screensVars ==
  <<lcd, mem, screens_live, display_screens, display_activescr, untidy>>
stopwatchVars ==
  <<state, laps, lap_act, sSwatch_time, displayed, stopwatch_visible,
    listeners, ran, marks>>
tideVars ==
  <<hoursLeft, minutesLeft, graphOffset, moduleActivated, editModeActivated,
    activeDisplay, screen, low, high, now, sec, entry, tide_passed, at, odd>>
ddayVars ==
  <<today, dday_passed, g_dday, tmp_date, mode, g_view_state, shown, drawn,
    steps>>
otpVars ==
  <<otp_offset, rtca_time, otp_passed, begin, otp_visible, g_service,
    g_display_state, service_display_remain, last_time, last_service,
    display, segment>>

\* A client registers a callback only when it is not listed (Apps).
B == INSTANCE MessageBus WITH NULL <- NoNode, Once <- TRUE, live <- bus_live
S == INSTANCE Screens WITH
  Blank <- BlankScreen, NULL <- NoScreens, live <- screens_live
W == INSTANCE Stopwatch WITH visible <- stopwatch_visible
T == INSTANCE Tide WITH Starts <- TideStarts, passed <- tide_passed
D == INSTANCE DDay WITH Starts <- DDayStarts, passed <- dday_passed
O == INSTANCE Otp WITH
  Starts <- OtpStarts, passed <- otp_passed, visible <- otp_visible

ASSUME ModulesAssumption ==
  /\ B!MessageBusAssumption /\ S!ScreensAssumption /\ W!StopwatchAssumption
  /\ T!TideAssumption /\ D!DDayAssumption /\ O!OtpAssumption

-----------------------------------------------------------------------------
\* The parts that stand still begin in one of their initial states.
Init ==
  /\ part \in {"bus", "screens", "stopwatch", "tide", "dday", "otp"}
  /\ B!Init /\ S!Init /\ W!Init
  /\ T!Init /\ (part # "tide" => now = CHOOSE n \in TideStarts : TRUE)
  /\ D!Init /\ (part # "dday" => today = CHOOSE d \in DDayStarts : TRUE)
  /\ O!Init /\ (part # "otp" => /\ otp_offset = CHOOSE o \in Offsets : TRUE
                               /\ rtca_time = CHOOSE t \in OtpStarts : TRUE)

Others(p) ==
  /\ p # "bus" => UNCHANGED busVars
  /\ p # "screens" => UNCHANGED screensVars
  /\ p # "stopwatch" => UNCHANGED stopwatchVars
  /\ p # "tide" => UNCHANGED tideVars
  /\ p # "dday" => UNCHANGED ddayVars
  /\ p # "otp" => UNCHANGED otpVars

\* A step of part p, which is Step.
Of(p, Step) == part = p /\ Step /\ Others(p) /\ UNCHANGED part

Next ==
  \/ Of("bus", B!Next)
  \/ Of("screens", S!Next)
  \/ Of("stopwatch", W!Next)
  \/ Of("tide", T!Next)
  \/ Of("dday", D!Next)
  \/ Of("otp", O!Next)

vars == <<part, busVars, screensVars, stopwatchVars, tideVars, ddayVars, otpVars>>

Spec == Init /\ [][Next]_vars

-----------------------------------------------------------------------------
(* What each part promises.                                                *)

\* The state of every part has its type.
TypeOK ==
  /\ B!TypeOK /\ S!TypeOK /\ W!TypeOK /\ T!TypeOK /\ D!TypeOK /\ O!TypeOK

(***************************************************************************)
(* The message bus (core/openchronos.c) is what its clients take it for: a *)
(* list of registrations that hands each message to those that asked for   *)
(* its events, in their order, and frees exactly what it allocated.        *)
(***************************************************************************)
BusIsSound == []B!ListIsLive /\ B!ImplementsBus

(***************************************************************************)
(* The virtual screens (drivers/display.c): each keeps what was drawn on   *)
(* it while others are shown, one of them is the LCD's, and no buffer is   *)
(* used after it was freed or lost.                                        *)
(***************************************************************************)
ScreensAreKept == []S!ScreensApart /\ []S!NoLeak /\ S!ImplementsScreens

(***************************************************************************)
(* What the modules show of time is right: the stopwatch its ticks and     *)
(* laps, the tide the time until low water, d_day the days, otp the code   *)
(* of this half minute; each over the wraps and edits it can meet.         *)
(***************************************************************************)
TimesAreRight ==
  W!CountsTicks /\ W!LapsAreKept /\ T!CountsToLow /\ D!ShowsDays /\ O!CodeIsCurrent
=============================================================================
