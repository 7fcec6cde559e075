------------------------------- MODULE MCDevices ----------------------------
(* An instance for TLC of the devices whose data matters: the pressure      *)
(* sensor's bus (PressureSensor), its filter with the altimeter (Altimeter) *)
(* and the display (Lcd).  They share no state: a behaviour runs one of     *)
(* them, its part, and the others stand still.                              *)
EXTENDS LcdSegments, FiniteSets

\* The status, the checksum and upper pressure, the lower, the temperature.
Holds(s, h, l, t) ==
  [r \in {7, 127, 128, 129} |->
     CASE r = 7 -> s [] r = 127 -> h [] r = 128 -> l [] r = 129 -> t]

Contents == {Holds(2, 1, 35500, 500), Holds(1, 1, 3, 0),
             Holds(0, 9, 65535, 16383), Holds(2, 129, 256, 15984)}

\* Formats and values of the modules: the minute, the temperature or
\* the altitude, the seconds and the days until a date.
Format(pre, zpad, digits, conv) ==
  [pre |-> pre, zpad |-> zpad, digits |-> digits, conv |-> conv]

Prints ==
  {[at |-> p[1], len |-> p[2], fmt |-> p[3], n |-> p[4]] : p \in {
     <<LCD_SEG_L1_1, 2, Format(<<>>, "0", 2, "u"), 8>>,
     <<LCD_SEG_L1_1, 2, Format(<<>>, "0", 2, "u"), 59>>,
     <<LCD_SEG_L1_3, 4, Format(<<>>, " ", 3, "s"), -48>>,
     <<LCD_SEG_L1_3, 4, Format(<<>>, " ", 3, "s"), 1234>>,
     <<LCD_SEG_L2_5, 2, Format(<<>>, "0", 2, "u"), 9>>,
     <<LCD_SEG_L2_5, 2, Format(<<>>, "0", 2, "u"), 16>>,
     <<LCD_SEG_L2_5, 6, Format(<<" ", "D", "-">>, " ", 3, "u"), 365>>}}

Texts ==
  {[at |-> LCD_SEG_L1_3, len |-> 2, str |-> <<>>, st |-> st] :
     st \in {BLINK_ON, BLINK_OFF}}
  \cup {[at |-> LCD_SEG_L2_5, len |-> 6, st |-> SEG_ON,
         str |-> <<" ", "R", "F", "B", "S", "L">>]}

Symbols == {[symbol |-> LCD_SYMB_BATTERY, st |-> SEG_ON \cup BLINK_ON]}

VARIABLES
  part,   \* the part a behaviour runs
  call, access, stage, todo, shift, first, press_ok, drdyIE, scl, sdaOut,
  sdaDir, sensor, written, content, refused, missed, answer,
  shown, listens, running, ps_ok, pRef, hLast, pressure, altitude, offset,
  weather, changes, since, measured, blind,
  lcd, half, last, drawn

pressVars ==
  <<call, access, stage, todo, shift, first, press_ok, drdyIE, scl,
    sdaOut, sdaDir, sensor, written, content, refused, missed, answer>>
altVars ==
  <<shown, listens, running, ps_ok, pRef, hLast, pressure, altitude, offset,
    weather, changes, since, measured, blind>>
dispVars ==
  <<lcd, half, last, drawn>>

S == INSTANCE PressureSensor WITH
  Calls <- {"ps_start", "ps_stop", "ps_get_pa", "ps_get_temp"},
  Contents <- Contents, ps_ok <- press_ok
H == INSTANCE Altimeter WITH
  Pressures <- {60000, 75000, 90000, 110000}, MaxChanges <- 2,
  MaxJump <- 20000, MaxOffset <- 10
L == INSTANCE Lcd WITH
  Prints <- Prints, Voltages <- {299, 360}, Texts <- Texts,
  Symbols <- Symbols, Hours <- {0, 12, 13}

-----------------------------------------------------------------------------
\* The parts that stand still begin in one of their initial states.
Init ==
  /\ part \in {"press", "alt", "disp"}
  /\ S!Init /\ (part # "press" => content = Holds(1, 1, 3, 0))
  /\ H!Init /\ (part # "alt" => ps_ok = TRUE /\ weather = 60000)
  /\ L!Init

Others(p) ==
  /\ p # "press" => UNCHANGED pressVars
  /\ p # "alt" => UNCHANGED altVars
  /\ p # "disp" => UNCHANGED dispVars

\* A step of part p, which is Step.
Of(p, Step) == part = p /\ Step /\ Others(p) /\ UNCHANGED part

Next ==
  \/ Of("press", S!Next)
  \/ Of("alt", H!Next)
  \/ Of("disp", L!Next)

vars == <<part, pressVars, altVars, dispVars>>

\* A sensor that runs goes on measuring.
Spec == Init /\ [][Next]_vars /\ WF_vars(Of("alt", H!Measure))

-----------------------------------------------------------------------------
(* What each part promises.                                                *)

\* The state of every device has its type.
TypeOK == S!TypeOK /\ H!TypeOK /\ L!TypeOK

(***************************************************************************)
(* The pressure sensor's bus (drivers/vti_ps.c): whatever the sensor does  *)
(* not acknowledge, it and the driver agree where in an access they are, a *)
(* write that succeeds has landed, and a read, a verdict on the sensor, a  *)
(* pressure or a temperature that no refusal spoiled is the sensor's own.  *)
(***************************************************************************)
AnswersAreReadings ==
  /\ S!InStep /\ S!WriteLands /\ S!ReadIsRegister
  /\ S!PsOkMeansAnswered /\ S!AnswersAreReadings /\ S!FightIsBrief

(***************************************************************************)
(* The altimeter (drivers/vti_ps.c, modules/altitude.c): its filter moves  *)
(* to the altitude of the pressure without passing it and settles there, a *)
(* calibration holds, and the sensor runs while the altitude is shown.     *)
(***************************************************************************)
AltitudeSettles ==
  /\ []H!RunsWhileShown /\ []H!AgreesWithTable
  /\ H!NoOvershoot /\ H!CalibrationHolds
  /\ part = "alt" => H!Settles

(***************************************************************************)
(* The display (drivers/display.c): what was written last reads back from  *)
(* the lit segments, and no call changes the segments of another.          *)
(***************************************************************************)
DrawingReads == L!OthersKept /\ [][L!ReadsBack' /\ L!HalfIsShown']_vars
=============================================================================
