------------------------------- MODULE Drivers -------------------------------
(***************************************************************************)
(* The drivers that time and interrupts can get wrong: the buttons (Ports),*)
(* the analog converter with the temperature and the battery (Adc), the    *)
(* timer (Timer0) and the acceleration sensor (AccelSensor).  They share   *)
(* no state: a behaviour runs one of them, its part, and the others stand  *)
(* still.                                                                  *)
(***************************************************************************)
EXTENDS Integers, Sequences, FiniteSets

CONSTANTS
  Button, SensorPin, Short, Long, PortsWidth, MaxHold, Overlaps,  \* of Ports
  MaxLoops, MaxLate, Temperatures, Batteries, BatteryOffset,      \* of Adc
  TimerWidth, T20, TProg, Duration, Latency,                      \* of Timer0
  Timeout                                                         \* of AccelSensor

VARIABLES
  part,   \* the part a behaviour runs
  overlap, pin, ies, port_ifg, isr, counter, last_press, pressed, age, held,
  want,
  adc_pc, asks, converts, adcmem, adc_ie, adc12_result, adc12_data_ready,
  loops, value, window, idx, readings, voltage, adc_late, lates,
  tar, ccr, ie, ifg, late, pc, delay_finished, delay_callback, asked, gone,
  since20, left,
  todo, byte, as_ok, power, csn, intIE, regs, latched, pending, config,
  sampling, mode, timeout, shown, registered, submenu

portsVars ==
  <<overlap, pin, ies, port_ifg, isr, counter, last_press, pressed, age, held,
    want>>
adcVars ==
  <<adc_pc, asks, converts, adcmem, adc_ie, adc12_result, adc12_data_ready,
    loops, value, window, idx, readings, voltage, adc_late, lates>>
timerVars ==
  <<tar, ccr, ie, ifg, late, pc, delay_finished, delay_callback, asked, gone,
    since20, left>>
accVars ==
  <<todo, byte, as_ok, power, csn, intIE, regs, latched, pending, config,
    sampling, mode, timeout, shown, registered, submenu>>

P == INSTANCE Ports WITH Width <- PortsWidth, ifg <- port_ifg
A == INSTANCE Adc WITH pc <- adc_pc, ie <- adc_ie, late <- adc_late
T == INSTANCE Timer0 WITH Width <- TimerWidth
C == INSTANCE AccelSensor

ASSUME DriversAssumption ==
  /\ P!PortsAssumption /\ A!AdcAssumption /\ T!TimerAssumption
  /\ C!AccelAssumption

-----------------------------------------------------------------------------
\* The parts that stand still begin in one of their initial states.
Init ==
  /\ part \in {"ports", "adc", "timer", "acc"}
  /\ P!Init /\ (part # "ports" => overlap = CHOOSE o \in Overlaps : TRUE)
  /\ A!Init
  /\ T!Init
  /\ C!Init

Others(p) ==
  /\ p # "ports" => UNCHANGED portsVars
  /\ p # "adc" => UNCHANGED adcVars
  /\ p # "timer" => UNCHANGED timerVars
  /\ p # "acc" => UNCHANGED accVars

\* A step of part p, which is Step.
Of(p, Step) == part = p /\ Step /\ Others(p) /\ UNCHANGED part

Next ==
  \/ Of("ports", P!Next)
  \/ Of("adc", A!Next)
  \/ Of("timer", T!Next)
  \/ Of("acc", C!Next)

vars == <<part, portsVars, adcVars, timerVars, accVars>>

\* What the parts assume of the processor and the user.
Fairness ==
  /\ WF_vars(Of("ports", P!IsrBody)) /\ WF_vars(Of("ports", P!IsrExit))
  /\ \A b \in Button : SF_vars(Of("ports", P!ReleasePin(b)))
  /\ WF_vars(Of("adc", A!Driver)) /\ WF_vars(Of("adc", A!ADC12ISR))

Spec == Init /\ [][Next]_vars /\ Fairness

-----------------------------------------------------------------------------
(* What each part promises.                                                *)

\* The state of every driver has its type.
TypeOK == P!TypeOK /\ A!TypeOK /\ T!TypeOK /\ C!TypeOK

(***************************************************************************)
(* What is reported happened.  The button driver (drivers/ports.c): one    *)
(* button at a time, the presses saved are those the user made, each of    *)
(* its kind; with several, none is taken for longer than it was.  The      *)
(* converter and those who read it (drivers/adc12.c, temperature.c,        *)
(* battery.c): an answer is its request's own conversion unless that was   *)
(* given up, and what is made of the readings stays between them.          *)
(***************************************************************************)
ReportsAreTrue ==
  /\ []P!PressesAreSaved /\ P!LongWasLong
  /\ []A!FreshUnlessLate /\ []A!TemperatureBetween /\ A!BatteryFollows

(***************************************************************************)
(* The timer (drivers/timer.c): the 20 Hz tick keeps its period, a delay   *)
(* ends at most one tick late and a callback is never early, however the   *)
(* compare registers, which share one counter that wraps, interrupt.       *)
(***************************************************************************)
TimersKeepTime == []T!TickPeriod /\ []T!DelayIsBounded /\ T!CallbackIsDue

(***************************************************************************)
(* The acceleration sensor (drivers/vti_as.c, modules/accelerometer.c) is  *)
(* powered while the module measures, has the mode and the parameters the  *)
(* module believes, and is sent nothing after a transfer timed out.        *)
(***************************************************************************)
SensorIsConfigured ==
  []C!PowerFollowsMode /\ []C!SensorIsConfigured /\ C!SilentAfterTimeout

(***************************************************************************)
(* drivers/timer.h:46: timer0_delay "delays execution for duration         *)
(* milliseconds".                                                          *)
(***************************************************************************)
DelayLasts == T!DelayLasts

(***************************************************************************)
(* Nobody waits for good: a button is armed again after each press, and    *)
(* every request of a conversion is answered.                              *)
(***************************************************************************)
DriversAnswer ==
  /\ part = "ports" => P!Rearmed
  /\ part = "adc" => A!RequestsEnd
=============================================================================
