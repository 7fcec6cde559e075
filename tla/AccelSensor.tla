----------------------------- MODULE AccelSensor -----------------------------
(***************************************************************************)
(* The acceleration sensor: its driver (drivers/vti_as.c, AS_DISCONNECT)   *)
(* and the module that uses it (modules/accelerometer.c).                  *)
(*                                                                         *)
(* A handler of the module is a list of register accesses (todo), an       *)
(* access two bytes on the SPI.  Either byte may time out, and what the    *)
(* sensor then made of it is open.                                         *)
(***************************************************************************)
EXTENDS Integers, Sequences

CONSTANT Timeout   \* ACCEL_MEASUREMENT_TIMEOUT, in minutes

AccelAssumption == Timeout \in Nat \ {0}

VARIABLES
  todo,       \* the accesses left in the handler that runs
  byte,       \* which byte of Head(todo) is on the wire, 0 between accesses
  as_ok, power, csn, intIE,
  regs,       \* the sensor's registers CTRL, MDTHR, MDFFTMR and FFTHR
  latched,    \* the register the sensor was told, or None
  pending,    \* as_last_interrupt
  config,     \* as_config.mode
  sampling,   \* as_config.sampling
  mode,       \* sAccel.mode
  timeout,    \* sAccel.timeout
  shown, registered,
  submenu

wire     == <<todo, byte>>
pins     == <<as_ok, power, csn, intIE>>
sensor   == <<regs, latched>>
settings == <<config, sampling>>
module   == <<mode, timeout, shown, registered, submenu>>
vars     == <<wire, pins, sensor, pending, settings, module>>

None == -1
Ctrl == 2
IntStatus == 5
MDTHR == 9
MDFFTMR == 10
FFTHR == 11
Registers == {Ctrl, MDTHR, MDFFTMR, FFTHR}
Cleared == [a \in Registers |-> 0]

W(address, data) == [write |-> TRUE, address |-> address, data |-> data]
R(address)       == [write |-> FALSE, address |-> address, data |-> 0]

Fall == 0
Measurement == 1
Activity == 2

\* As module initialisation and as_init leave it.
Init ==
  /\ todo = <<>> /\ byte = 0
  /\ as_ok = TRUE /\ power = FALSE /\ csn = 0 /\ intIE = FALSE
  /\ regs = Cleared /\ latched = None
  /\ pending = FALSE /\ config = Fall /\ sampling = 10
  /\ mode = "off" /\ timeout = Timeout
  /\ shown = FALSE /\ registered = FALSE /\ submenu = "mode"

-----------------------------------------------------------------------------
(* as_read_register and as_write_register.                                 *)

\* Refused: a transfer has timed out before.
Refuse ==
  /\ todo # <<>> /\ byte = 0 /\ ~as_ok
  /\ todo' = Tail(todo)
  /\ UNCHANGED <<byte, pins, sensor, pending, settings, module>>

\* Fault: a line that has timed out is tried again.
SelectAnyway ==
  /\ todo # <<>> /\ byte = 0
  /\ csn' = 0 /\ byte' = 1
  /\ UNCHANGED <<todo, as_ok, power, intIE, sensor, pending, settings, module>>

Select ==
  /\ todo # <<>> /\ byte = 0 /\ as_ok
  /\ csn' = 0 /\ byte' = 1
  /\ UNCHANGED <<todo, as_ok, power, intIE, sensor, pending, settings, module>>

Heard == power /\ csn = 0

\* What the sensor makes of byte number byte of the access op.
Takes(op) ==
  IF ~Heard THEN UNCHANGED sensor
  ELSE IF byte = 1
       THEN latched' = op.address /\ UNCHANGED regs
       ELSE /\ latched' = None
            /\ regs' = IF op.write /\ latched \in Registers
                       THEN [regs EXCEPT ![latched] = op.data] ELSE regs

\* Fault: the line stays selected.
StaySelected ==
  /\ todo # <<>> /\ byte # 0
  /\ Takes(Head(todo))
  /\ IF byte = 1 THEN byte' = 2 /\ UNCHANGED todo
                 ELSE byte' = 0 /\ todo' = Tail(todo)
  /\ UNCHANGED <<pins, pending, settings, module>>

Exchange ==
  /\ todo # <<>> /\ byte # 0
  /\ Takes(Head(todo))
  /\ IF byte = 1 THEN byte' = 2 /\ UNCHANGED <<todo, csn>>
                 ELSE byte' = 0 /\ todo' = Tail(todo) /\ csn' = 1
  /\ UNCHANGED <<as_ok, power, intIE, pending, settings, module>>

\* SPI_TIMEOUT polls: the line stays selected, the driver gives up for good.
TimesOut ==
  /\ todo # <<>> /\ byte # 0
  /\ as_ok' = FALSE /\ byte' = 0 /\ todo' = Tail(todo)
  /\ Takes(Head(todo)) \/ UNCHANGED sensor
  /\ UNCHANGED <<power, csn, intIE, pending, settings, module>>

-----------------------------------------------------------------------------
(* change_mode, as_start, as_stop.                                         *)

\* CTRL for a mode with a range of 2 g, the only one the module uses; a
\* rate the mode does not know selects no mode at all.
CtrlOf(m, rate) ==
  128 + CASE m = Fall        -> (CASE rate = 10 -> 10 [] rate = 40 -> 12 [] OTHER -> 0)
          [] m = Measurement -> (CASE rate = 10 -> 2 [] rate = 40 -> 4 [] OTHER -> 0)
          [] m = Activity    -> (IF rate = 1 THEN 8 ELSE 0) + 32

\* write_FFTMR and write_FFTHR, write_MDTMR and write_MDTHR, of the
\* module's settings
Parameters(m) ==
  CASE m = Fall        -> <<W(MDFFTMR, 1), W(FFTHR, 0)>>
    [] m = Activity    -> <<W(MDFFTMR, 16), W(MDTHR, 8)>>
    [] m = Measurement -> <<>>

\* Fault: the mode is left as it was.
ParametersOnly(m, rate) == Parameters(m)

change_mode(m, rate) == Parameters(m) \o <<W(Ctrl, CtrlOf(m, rate))>>

\* The sensor comes up, and is reset by three writes.
as_start(m, rate) ==
  /\ power' = TRUE /\ csn' = 1 /\ intIE' = TRUE /\ pending' = FALSE
  /\ regs' = Cleared /\ latched' = None
  /\ todo' = <<W(4, 2), W(4, 10), W(4, 4)>> \o change_mode(m, rate)

as_stop ==
  /\ power' = FALSE /\ csn' = 0 /\ intIE' = FALSE
  /\ regs' = Cleared /\ latched' = None

-----------------------------------------------------------------------------
(* The module's handlers; each starts when no other runs.                  *)

Idle == todo = <<>> /\ byte = 0

acc_activated ==
  /\ Idle /\ ~shown /\ shown' = TRUE
  /\ registered' = TRUE
  /\ IF as_ok /\ mode # "background"
     THEN /\ config' = Activity /\ sampling' = 1
          /\ timeout' = Timeout /\ mode' = "on" /\ submenu' = "mode"
          /\ as_start(Activity, 1)
     ELSE UNCHANGED <<todo, power, csn, intIE, sensor, pending, settings,
                      timeout, mode, submenu>>
  /\ UNCHANGED <<byte, as_ok>>

\* Fault: the sensor is left powered.
LeavesOn ==
  /\ Idle /\ shown /\ shown' = FALSE
  /\ IF mode = "background" THEN UNCHANGED <<registered, mode>>
     ELSE registered' = FALSE /\ mode' = "off"
  /\ UNCHANGED <<wire, pins, sensor, pending, settings, timeout, submenu>>

acc_deactivated ==
  /\ Idle /\ shown /\ shown' = FALSE
  /\ IF mode = "background"
     THEN UNCHANGED <<registered, mode, power, csn, intIE, sensor>>
     ELSE registered' = FALSE /\ mode' = "off" /\ as_stop
  /\ UNCHANGED <<wire, as_ok, pending, settings, timeout, submenu>>

star_long_pressed ==
  /\ Idle /\ shown /\ mode # "off"
  /\ mode' = IF mode = "on" THEN "background" ELSE "on"
  /\ UNCHANGED <<wire, pins, sensor, pending, settings, timeout, shown,
                 registered, submenu>>

num_pressed ==
  /\ Idle /\ shown
  /\ submenu' = CASE submenu = "mode" -> "params" [] submenu = "params" -> "status"
                  [] submenu = "status" -> "axis" [] submenu = "axis" -> "mode"
  /\ UNCHANGED <<wire, pins, sensor, pending, settings, mode, timeout, shown,
                 registered>>

up_btn ==
  /\ Idle /\ shown
  /\ UNCHANGED sampling
  /\ CASE submenu = "mode" ->
            config' = (config + 1) % 3 /\ todo' = change_mode((config + 1) % 3, sampling)
       [] submenu = "params" -> todo' = <<R(Ctrl)>> /\ UNCHANGED config
       [] OTHER -> UNCHANGED <<todo, config>>
  /\ UNCHANGED <<byte, pins, sensor, pending, module>>

\* as_event for a minute and a second that begin together.
Minute ==
  LET left == IF mode = "on" THEN timeout - 1 ELSE timeout
  IN /\ Idle /\ registered
     /\ timeout' = left
     /\ IF left < 1 THEN as_stop /\ mode' = "off"
                    ELSE UNCHANGED <<power, csn, intIE, sensor, mode>>
     /\ todo' = <<R(IntStatus)>>
     /\ UNCHANGED <<byte, as_ok, pending, settings, shown, registered, submenu>>

\* Refreshes the status shown, whether or not the sensor is on.
Second ==
  /\ Idle /\ registered
  /\ todo' = <<R(IntStatus)>>
  /\ UNCHANGED <<byte, pins, sensor, pending, settings, module>>

\* The status and, on an event, the three axes: only if the power is on.
SensorEvent ==
  /\ Idle /\ pending /\ pending' = FALSE
  /\ IF registered /\ power
     THEN \/ todo' = <<R(IntStatus)>>
          \/ todo' = <<R(IntStatus), R(6), R(7), R(8)>>
     ELSE UNCHANGED todo
  /\ UNCHANGED <<byte, pins, sensor, settings, module>>

\* The sensor measures in a mode and raises its line.
Interrupt ==
  /\ power /\ intIE /\ regs[Ctrl] \notin {0, 128} /\ ~pending
  /\ pending' = TRUE
  /\ UNCHANGED <<wire, pins, sensor, settings, module>>

Next ==
  \/ Refuse \/ Select \/ Exchange \/ TimesOut \/ Interrupt
  \/ acc_activated \/ acc_deactivated \/ star_long_pressed \/ num_pressed
  \/ up_btn \/ Minute \/ Second \/ SensorEvent

Spec == Init /\ [][Next]_vars

-----------------------------------------------------------------------------
(* Properties.                                                             *)

TypeOK ==
  /\ byte \in 0..2 /\ csn \in {0, 1} /\ latched \in -1..127
  /\ as_ok \in BOOLEAN /\ power \in BOOLEAN /\ intIE \in BOOLEAN
  /\ regs \in [Registers -> 0..255] /\ pending \in BOOLEAN
  /\ config \in 0..2 /\ sampling \in {1, 10}
  /\ mode \in {"off", "on", "background"} /\ timeout \in 0..Timeout
  /\ shown \in BOOLEAN /\ registered \in BOOLEAN
  /\ submenu \in {"mode", "params", "status", "axis"}

(***************************************************************************)
(* The sensor is powered, and may interrupt, exactly while the module      *)
(* measures; and while it measures, shown or in the background, its events *)
(* are listened to.                                                        *)
(***************************************************************************)
PowerFollowsMode ==
  /\ power <=> mode # "off"
  /\ intIE <=> power
  /\ power => registered
  /\ mode = "on" => timeout > 0

(***************************************************************************)
(* Between handlers a sensor whose transfers never failed is not selected, *)
(* and is in the mode, and has the parameters, that the module believes.   *)
(***************************************************************************)
SensorIsConfigured ==
  Idle /\ power /\ as_ok =>
    /\ csn = 1 /\ latched = None
    /\ regs[Ctrl] = CtrlOf(config, sampling)
    /\ \A i \in 1..Len(Parameters(config)) :
         LET w == Parameters(config)[i] IN regs[w.address] = w.data

(***************************************************************************)
(* After a transfer has timed out nothing more is sent.                    *)
(***************************************************************************)
SilentAfterTimeout == [][~as_ok => byte' = 0 /\ (power' => UNCHANGED regs)]_vars
=============================================================================
