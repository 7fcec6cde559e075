--------------------------------- MODULE Adc ---------------------------------
(***************************************************************************)
(* Conversions of the ADC (drivers/adc12.c) for the temperature and the    *)
(* battery, and what their drivers make of them.                           *)
(*                                                                         *)
(* A driver asks for a conversion and sleeps in timer0_delay until it is   *)
(* ready or it has waited long enough.  The converter and its interrupt    *)
(* go on meanwhile; a conversion may take longer than the driver waits.    *)
(***************************************************************************)
EXTENDS Integers, FiniteSets

CONSTANTS
  MaxLoops,      \* the waits after the first, 30 in the code
  MaxLate,       \* bound on the conversions that take longer than that
  Temperatures,  \* readings of the temperature diode
  Batteries,     \* readings of half the battery voltage
  BatteryOffset  \* battery_info.offset

\* What the converter can read, of 12 bits.
Samples == 0..4095

AdcAssumption ==
  /\ MaxLoops \in Nat /\ MaxLate \in Nat
  /\ Temperatures \subseteq Samples /\ Batteries \subseteq Samples
  /\ BatteryOffset \in Int

VARIABLES
  pc,        \* where the driver is in adc12_single_conversion
  asks,      \* who asked: "init", "temperature" or "battery"
  converts,  \* the reading the converter is about to give, or None
  adcmem,    \* the reading in ADC12MEM0 with ADC12IFG0 set, and whether it is
             \* of this request, or Nothing: reading it clears the flag
  ie,        \* ADC12IE
  adc12_result, adc12_data_ready,
  loops,
  value,     \* temperature.value
  window, idx, \* adcresult, adcresult_idx
  readings,  \* the conversions window was made from
  voltage,   \* battery_info.voltage
  late,      \* this conversion was given up
  lates      \* conversions given up so far

hw     == <<converts, adcmem, ie>>
result == <<adc12_result, adc12_data_ready, loops>>
diode  == <<value, window, idx, readings>>
given  == <<late, lates>>
vars   == <<pc, asks, hw, result, diode, voltage, given>>

None    == -1
Nothing == [reading |-> None, fresh |-> FALSE]

High  == 360  \* BATTERY_HIGH_THRESHOLD
Full  == 310  \* BATTERY_FULL_THRESHOLD
Slots == 0..3 \* TEMPORAL_FILTER_WINDOW

\* temperature_init's conversion comes first.
Init ==
  /\ pc = "asked" /\ asks = "init"
  /\ converts = None /\ adcmem = Nothing /\ ie = FALSE
  /\ adc12_result = [reading |-> 0, fresh |-> FALSE]
  /\ adc12_data_ready = FALSE /\ loops = 0
  /\ value = 0 /\ window = [i \in Slots |-> 0] /\ idx = 0
  /\ readings = [i \in Slots |-> 0]
  /\ voltage = Full /\ late = FALSE /\ lates = 0

-----------------------------------------------------------------------------
(* The converter.                                                          *)

Converts ==
  /\ converts # None
  /\ adcmem' = [reading |-> converts, fresh |-> TRUE]
  /\ converts' = None
  /\ UNCHANGED <<pc, asks, ie, result, diode, voltage, given>>

ADC12ISR ==
  /\ adcmem # Nothing /\ ie
  /\ adcmem' = Nothing
  /\ adc12_result' = adcmem /\ adc12_data_ready' = TRUE
  /\ UNCHANGED <<pc, asks, converts, ie, loops, diode, voltage, given>>

-----------------------------------------------------------------------------
(* adc12_single_conversion.                                                *)

\* Up to the 66 us the reference needs to settle.  A result of an earlier
\* request is not fresh.
Enable ==
  /\ pc = "asked" /\ pc' = "settle"
  /\ ie' = TRUE
  /\ adcmem' = [adcmem EXCEPT !.fresh = FALSE]
  /\ adc12_result' = [adc12_result EXCEPT !.fresh = FALSE]
  /\ UNCHANGED <<asks, converts, adc12_data_ready, loops, diode, voltage,
                 given>>

\* Fault: the flag of an earlier request is not cleared.
StartReady ==
  /\ pc = "settle" /\ adcmem = Nothing /\ pc' = "wait"
  /\ UNCHANGED adc12_data_ready /\ loops' = 0
  /\ converts' \in IF asks = "battery" THEN Batteries ELSE Temperatures
  /\ UNCHANGED <<asks, adcmem, ie, adc12_result, diode, voltage, given>>

\* The delay is over; a pending interrupt has been served in it.
Start ==
  /\ pc = "settle" /\ adcmem = Nothing /\ pc' = "wait"
  /\ adc12_data_ready' = FALSE /\ loops' = 0
  /\ converts' \in IF asks = "battery" THEN Batteries ELSE Temperatures
  /\ UNCHANGED <<asks, adcmem, ie, adc12_result, diode, voltage, given>>

\* Fault: it waits as long as it takes.
WaitOn ==
  /\ pc = "wait" /\ ~adc12_data_ready
  /\ UNCHANGED <<pc, asks, hw, result, diode, voltage, given>>

Wait ==
  /\ pc = "wait" /\ ~adc12_data_ready /\ loops < MaxLoops
  /\ loops' = loops + 1
  /\ UNCHANGED <<pc, asks, hw, adc12_result, adc12_data_ready, diode, voltage,
                 given>>

\* ADC12ON is cleared: what has not been converted never is.
Stop ==
  /\ pc = "wait" /\ pc' = "return"
  /\ (adc12_data_ready \/ loops = MaxLoops)
  /\ converts' = None /\ ie' = FALSE /\ loops' = 0
  /\ late' = ~adc12_data_ready
  /\ lates' = IF late' THEN lates + 1 ELSE lates
  /\ lates' <= MaxLate
  /\ UNCHANGED <<asks, adcmem, adc12_result, adc12_data_ready, diode, voltage>>

-----------------------------------------------------------------------------
(* The drivers.                                                            *)

Byte(n) == n % 256

\* temperature_init
TemperatureInit ==
  LET r == adc12_result.reading
  IN /\ pc = "return" /\ asks = "init" /\ pc' = "idle"
     /\ value' = r /\ window' = [i \in Slots |-> Byte(r)]
     /\ readings' = [i \in Slots |-> r]
     /\ late' = FALSE
     /\ UNCHANGED <<asks, hw, result, idx, voltage, lates>>

\* Fault: the index runs on.
IdxRunsOn == idx + 1

NextIdx == (idx + 1) % 4

\* Fault: a slot is left out of the sum.
MeanOfThree(w) == (w[1] + w[2] + w[3]) \div 4

MeanOf(w) == (w[0] + w[1] + w[2] + w[3]) \div 4

\* temperature_measurement
TemperatureMeasurement ==
  LET r == adc12_result.reading
  IN /\ pc = "return" /\ asks = "temperature" /\ pc' = "idle"
     /\ window' = [window EXCEPT ![idx] = Byte(r)]
     /\ readings' = [readings EXCEPT ![idx] = r]
     /\ idx' = NextIdx
     /\ value' = (value - Byte(value)) + MeanOf(window')
     /\ late' = FALSE
     /\ UNCHANGED <<asks, hw, result, voltage, lates>>

\* in hundredths of a Volt: uint16_t arithmetic, and a value outside the
\* range is replaced
Measured(raw) ==
  LET v == ((raw * 4) \div 41 + BatteryOffset) % 65536
  IN IF v > High THEN voltage ELSE v

\* Fault: the weights do not add up to ten.
FilterHeavy(v, old) == (v * 2 + old * 9) \div 10

Filtered(v, old) == (v * 2 + old * 8) \div 10

\* battery_measurement
BatteryMeasurement ==
  /\ pc = "return" /\ asks = "battery" /\ pc' = "idle"
  /\ voltage' = Filtered(Measured(adc12_result.reading), voltage)
  /\ late' = FALSE
  /\ UNCHANGED <<asks, hw, result, diode, lates>>

Ask ==
  /\ pc = "idle" /\ pc' = "asked"
  /\ asks' \in {"temperature", "battery"}
  /\ UNCHANGED <<hw, result, diode, voltage, given>>

Driver == Enable \/ Start \/ Wait \/ Stop
Callers == TemperatureInit \/ TemperatureMeasurement \/ BatteryMeasurement \/ Ask

Next == Converts \/ ADC12ISR \/ Driver \/ Callers

\* The program goes on, and an interrupt that is enabled is served.
Fairness == WF_vars(Driver) /\ WF_vars(ADC12ISR)

Spec == Init /\ [][Next]_vars /\ Fairness

-----------------------------------------------------------------------------
(* Properties.                                                             *)

Reading == [reading : Samples \cup {None}, fresh : BOOLEAN]

TypeOK ==
  /\ pc \in {"idle", "asked", "settle", "wait", "return"}
  /\ asks \in {"init", "temperature", "battery"}
  /\ converts \in Samples \cup {None} /\ adcmem \in Reading
  /\ ie \in BOOLEAN
  /\ adc12_result \in Reading /\ adc12_data_ready \in BOOLEAN
  /\ loops \in 0..MaxLoops
  /\ value \in Samples /\ window \in [Slots -> 0..255] /\ idx \in Slots
  /\ readings \in [Slots -> Samples]
  /\ voltage \in 0..High /\ late \in BOOLEAN /\ lates \in 0..MaxLate

(***************************************************************************)
(* What a driver is given was converted for it: unless its conversion was  *)
(* given up, no result of an earlier request, perhaps one that came too    *)
(* late, perhaps of the other channel, is taken for the answer.            *)
(***************************************************************************)
FreshUnlessLate == pc = "return" /\ ~late => adc12_result.fresh

(***************************************************************************)
(* Every request is answered, however long the conversion takes and even   *)
(* if it never ends, while the model lets one take that long (MaxLate).    *)
(***************************************************************************)
RequestsEnd == pc = "asked" ~> (pc = "return" \/ lates = MaxLate)

SamePage(r) == r \div 256 = value \div 256

(***************************************************************************)
(* The temperature lies between the least and the greatest of the four     *)
(* readings it was made from, as long as these agree in all but their      *)
(* lowest byte: the window holds no more of a reading than that.           *)
(***************************************************************************)
TemperatureBetween ==
  pc = "idle" /\ (\A i \in Slots : SamePage(readings[i])) =>
    /\ \E i \in Slots : readings[i] <= value
    /\ \E i \in Slots : readings[i] >= value

(***************************************************************************)
(* The battery's voltage moves toward what is measured and not past it,    *)
(* and stays where it is when it is less than five hundredths below.       *)
(***************************************************************************)
BatteryFollows ==
  [][BatteryMeasurement =>
       LET v == Measured(adc12_result.reading)
       IN \/ voltage <= voltage' /\ voltage' <= v
          \/ v <= voltage' /\ voltage' < voltage
          \/ v = voltage' /\ v = voltage
          \/ v - voltage \in 0..4 /\ voltage' = voltage]_vars
=============================================================================
