------------------------------- MODULE MCDrivers ----------------------------
(* An instance for TLC of Drivers: two buttons, a counter that wraps during  *)
(* a press, a conversion that may be given up, and a timer of five ticks.     *)
EXTENDS Drivers

MCButton        == {0, 4}
MCSensorPin     == {6}
MCTemperatures  == {2040, 2047}
MCBatteries     == {3270, 4095}
MCBatteryOffset == -10
MCDuration      == {2}
=============================================================================
