------------------------------ MODULE Altimeter ------------------------------
(***************************************************************************)
(* The altimeter (modules/altitude.c) over the fixed point filter of the   *)
(* pressure driver (drivers/vti_ps.c with CONFIG_FIXEDPOINT_MATH,          *)
(* drivers/dsp.c): an estimate hLast of the altitude is corrected at each  *)
(* measurement by the difference between the pressure that is measured and *)
(* the pressure expected at that altitude.                                 *)
(***************************************************************************)
EXTENDS Integers

CONSTANTS
  Pressures,   \* what the sensor may measure, in Pascal
  MaxChanges,  \* bound on the changes of the pressure and the calibrations
  MaxJump,     \* how far it may change between two measurements
  MaxOffset    \* bound on the offset the user edits

VARIABLES
  shown,       \* "off", "on", or "edit"
  listens,     \* ps_event is registered
  running,     \* the sensor measures
  ps_ok,
  pRef, hLast, \* reference pressure and altitude estimate of vti_ps.c
  pressure, altitude, offset,  \* of struct altitude
  weather,     \* the true pressure
  changes,     \* of the pressure, and calibrations, so far
  since,       \* measurements since the weather changed or the screen was shown
  measured,    \* a pressure has been measured since the screen was shown
  blind        \* the filter was calibrated before one was

screen  == <<shown, listens, running, ps_ok>>
filter  == <<pRef, hLast>>
value   == <<pressure, altitude>>
world   == <<weather, changes>>
history == <<since, measured, blind>>
vars    == <<screen, filter, value, offset, world, history>>

Capped == 6  \* bound of since

Init ==
  /\ shown = "off" /\ listens = FALSE /\ running = FALSE /\ ps_ok \in BOOLEAN
  /\ pRef = 0 /\ hLast = 0 /\ pressure = 0 /\ altitude = 0 /\ offset = 0
  /\ weather \in Pressures /\ changes = 0 /\ since = 0
  /\ measured = FALSE /\ blind = FALSE

-----------------------------------------------------------------------------
(* Arithmetic of int16_t.                                                  *)

Int16(n) == ((n + 32768) % 65536) - 32768

mult_scale16(a, b) == Int16((a * b + 32768) \div 65536)
mult_scale15(a, b) == Int16((a * b + 16384) \div 32768)

\* Fault: the corrections for the middle altitudes are left out.
CoarseFraction(hh) ==
  Int16(hh - mult_scale15(hh, mult_scale16(hh, 26533)))

\* How far below the reference the pressure is at altitude hh, in 1/2^15.
conv_altitude_to_fraction(hh) ==
  LET Next(c, f) == Int16(mult_scale16(hh, c) - mult_scale15(mult_scale16(hh, c), f))
      f4 == Next(7032, mult_scale16(hh, 3132))
      f3 == Next(13533, f4)
      f2 == Next(26533, f3)
  IN Int16(hh - mult_scale15(hh, f2))

\* Pressures are kept in units of 4 Pa.
Scaled(pa) == Int16((pa + 2) \div 4)

Calculated(ref, h) == (ref - mult_scale15(ref, conv_altitude_to_fraction(h))) % 65536

\* Fault: twice the gain.
TwiceTheGain(h, p, calculated) == Int16(h - 2 * (p - calculated))

\* Fault: the sign of the correction is wrong.
WrongSign(h, p, calculated) == Int16(h + (p - calculated))

\* Fault: the estimate is kept in more than 16 bits.
Unwrapped(h, p, calculated) == h - (p - calculated)

\* conv_pa_to_altitude
Improved(h, p, calculated) == Int16(h - (p - calculated))

\* Fault: the reference is the pressure measured, whatever the altitude.
AsMeasured(p, h) == Int16(p)

\* update_pressure_table
Reference(p, h) ==
  LET f == 32768 - conv_altitude_to_fraction(h)
  IN Int16(((p * 65536 + f) \div 2) \div f)

\* Fault: the altitude in feet, whatever the unit.
Feet(h) == mult_scale15(h, 27672)

Meters(h) == mult_scale16(h, 16869)

-----------------------------------------------------------------------------
(* The module.                                                             *)

\* altitude_activate: init_pressure_table, ps_start
Activate ==
  /\ shown = "off" /\ shown' = "on"
  /\ listens' = ps_ok /\ running' = ps_ok
  /\ IF ps_ok THEN pRef' = 101325 \div 4 /\ hLast' = 0 /\ blind' = FALSE
              ELSE UNCHANGED <<filter, blind>>
  /\ since' = 0 /\ measured' = FALSE
  /\ UNCHANGED <<ps_ok, value, offset, world>>

Deactivate ==
  /\ shown = "on" /\ shown' = "off"
  /\ IF ps_ok THEN listens' = FALSE /\ running' = FALSE
              ELSE UNCHANGED <<listens, running>>
  /\ UNCHANGED <<ps_ok, filter, value, offset, world, history>>

\* ps_event, altitude_measurement, conv_pa_to_altitude.  After a blind
\* calibration the estimate goes round and round: the model stops there.
Measure ==
  LET p == Scaled(weather)
  IN /\ listens /\ running /\ (blind => since < Capped)
     /\ pressure' = weather
     /\ hLast' = Improved(hLast, p, Calculated(pRef, hLast))
     /\ altitude' = Meters(hLast')
     /\ since' = IF since < Capped THEN since + 1 ELSE since
     /\ measured' = TRUE
     /\ UNCHANGED <<screen, pRef, offset, world, blind>>

\* altitude_edit
Edit ==
  /\ shown = "on" /\ shown' = "edit"
  /\ UNCHANGED <<listens, running, ps_ok, filter, value, offset, world, history>>

edit_offset_set(step) ==
  /\ shown = "edit"
  /\ offset' = Int16(offset + step * 10) /\ offset' \in -MaxOffset..MaxOffset
  /\ UNCHANGED <<screen, filter, value, world, history>>

\* Fault: the sensor is not started again.
SaveStops ==
  /\ shown = "edit" /\ shown' = "on"
  /\ changes < MaxChanges /\ changes' = changes + 1
  /\ pRef' = Reference(Scaled(pressure), hLast)
  /\ running' = FALSE
  /\ blind' = (blind \/ ~measured)
  /\ UNCHANGED <<listens, ps_ok, hLast, value, offset, weather, since, measured>>

\* edit_save: altitude_reconfigure stops the sensor, calibrates with the
\* last pressure (the altitude it hands over is not used in this build) and
\* starts the sensor.
edit_save ==
  /\ shown = "edit" /\ shown' = "on"
  /\ changes < MaxChanges /\ changes' = changes + 1
  /\ pRef' = Reference(Scaled(pressure), hLast)
  /\ running' = TRUE
  /\ blind' = (blind \/ ~measured)
  /\ UNCHANGED <<listens, ps_ok, hLast, value, offset, weather, since, measured>>

WeatherChanges ==
  /\ changes < MaxChanges /\ changes' = changes + 1
  /\ weather' \in {p \in Pressures \ {weather} : p - weather \in -MaxJump..MaxJump}
  /\ since' = 0
  /\ UNCHANGED <<screen, filter, value, offset, measured, blind>>

Next ==
  \/ Activate \/ Deactivate \/ Measure \/ Edit \/ edit_save \/ WeatherChanges
  \/ \E step \in {-1, 1} : edit_offset_set(step)

\* A sensor that runs goes on measuring.
Spec == Init /\ [][Next]_vars /\ WF_vars(Measure)

-----------------------------------------------------------------------------
(* Properties.                                                             *)

TypeOK ==
  /\ shown \in {"off", "on", "edit"} /\ listens \in BOOLEAN
  /\ running \in BOOLEAN /\ ps_ok \in BOOLEAN
  /\ pRef \in -32768..32767 /\ hLast \in -32768..32767
  /\ altitude \in -8435..8435 /\ offset \in -MaxOffset..MaxOffset
  /\ pressure \in Pressures \cup {0} /\ since \in 0..Capped

Abs(n) == IF n < 0 THEN -n ELSE n

\* How far the pressure is from the one expected at the estimated altitude.
Error == Scaled(weather) - Calculated(pRef, hLast)

(***************************************************************************)
(* A measurement never leaves the estimate worse than it was, and never    *)
(* beyond the altitude it moves to ("To avoid overshoot and instabilities  *)
(* we assume a bigger value", vti_ps.c:706), but for the last digit.       *)
(***************************************************************************)
NoOvershoot ==
  [][Measure /\ ~blind =>
       \/ Abs(Error') <= 2
       \/ Abs(Error') < Abs(Error) /\ (Error' > 0 <=> Error > 0)]_vars

\* While the altimeter is shown its estimate comes to agree with the pressure.
Settles == <>[](listens /\ ~blind) => <>[](Abs(Error) <= 2)

\* The altitudes of the table of the other build, by pressure.
h0 == [p \in {50000, 60000, 75000, 90000, 100000} |->
  CASE p = 50000 -> 5574 [] p = 60000 -> 4206
    [] p = 75000 -> 2466 [] p = 90000 -> 989  [] p = 100000 -> 111]

(***************************************************************************)
(* Uncalibrated, the fixed point build settles on the altitude that the    *)
(* table of the floating point build (h0 and p0, vti_ps.c:71) gives for    *)
(* the pressure, within three metres.                                      *)
(***************************************************************************)
AgreesWithTable ==
  listens /\ changes = 0 /\ since = Capped /\ Abs(Error) <= 2
    /\ weather \in DOMAIN h0 =>
      Abs(altitude - h0[weather]) <= 3

(***************************************************************************)
(* A calibration makes the reference agree with the altitude shown: the    *)
(* next measurement of the same pressure moves it by no more than a digit. *)
(***************************************************************************)
CalibrationHolds ==
  [][edit_save /\ ~blind' =>
       Abs(Scaled(pressure) - Calculated(pRef', hLast')) <= 1]_vars

(***************************************************************************)
(* A sensor that is sound runs while its screen is shown and no longer, a  *)
(* calibration in between or not.  (One that is not is started by saving   *)
(* an edit, and never stopped.)                                            *)
(***************************************************************************)
RunsWhileShown == ps_ok => (running <=> shown # "off")
=============================================================================
