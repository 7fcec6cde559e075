---------------------------- MODULE Drivers_proofs ----------------------------
(***************************************************************************)
(* Theorems about Drivers, for any buttons and durations and any width of  *)
(* the counters.  Each part has an inductive invariant of its own; the     *)
(* theorems at the end put them together.                                  *)
(***************************************************************************)
EXTENDS Drivers, TLAPS

-----------------------------------------------------------------------------
(* Ports: modular arithmetic of the 20 Hz counter.                         *)

\* The difference of two counts grows by one or starts again at zero.
LEMMA CountsOn ==
  ASSUME NEW w \in Nat, w > 0, NEW c \in 0..w - 1, NEW l \in 0..w - 1
  PROVE  /\ (c + 1) % w \in 0..w - 1
         /\ (c - l) % w \in 0..w - 1
         /\ ((c - l) % w) + 1 < w => (((c + 1) % w) - l) % w = ((c - l) % w) + 1
         /\ (((c + 1) % w) - l) % w <= ((c - l) % w) + 1
         /\ (c - c) % w = 0
<1>1. (c + 1) % w = IF c + 1 = w THEN 0 ELSE c + 1
  OBVIOUS
<1>2. \A d \in Int : -w < d /\ d < 0 => d % w = d + w
  OBVIOUS
<1>3. \A d \in Int : 0 <= d /\ d < w => d % w = d
  OBVIOUS
<1>4. (c - l) % w = IF c < l THEN c - l + w ELSE c - l
  BY <1>2, <1>3
<1>5. \A e \in 0..w - 1 : (e - l) % w = IF e < l THEN e - l + w ELSE e - l
  BY <1>2, <1>3
<1> QED
  BY <1>1, <1>4, <1>5, <1>3

LEMMA OnlyFlag ==
  ASSUME NEW n \in Nat
  PROVE  P!Min({n}) = n
BY DEF P!Min

\* Ticks since the latest press, as the handler would count them now.
SinceLast == (counter - last_press) % PortsWidth

\* A button the driver takes for pressed has been that for as long.
AgesHold == \A b \in ies : age[b] > Long \/ SinceLast <= age[b]

\* The driver agrees with the pins, and with the time the button is held.
Agrees == ies = pin /\ pressed = want /\ \A b \in pin : held[b] = SinceLast

(* Where a press, a release or an edge of a sensor can stand when the user  *)
(* works one button at a time and the handler is done before the next edge. *)
AtRest == isr = "idle" /\ port_ifg = {} /\ Agrees
JustPressed ==
  /\ isr = "idle" /\ ies = {} /\ pressed = want
  /\ \E b \in Button : pin = {b} /\ port_ifg = {b} /\ held[b] = 0
JustReleased ==
  /\ isr = "idle" /\ pin = {}
  /\ \E b \in Button : /\ ies = {b} /\ port_ifg = {b}
                       /\ want = pressed \cup P!Events({b}, SinceLast)
Sensed == isr = "idle" /\ Agrees /\ \E p \in SensorPin : port_ifg = {p}
Leaving == isr = "exit" /\ Agrees /\ \E p \in P!Pin : port_ifg = {p}

OneAtATime ==
  /\ \A a, b \in pin : a = b
  /\ \A b \in Button \ pin : held[b] = 0
  /\ AtRest \/ JustPressed \/ JustReleased \/ Sensed \/ Leaving

PortsInv == P!TypeOK /\ AgesHold /\ (~overlap => OneAtATime)

\* What the assumption says of the pins and the widths.
LEMMA PortsFacts ==
  /\ Button \subseteq Nat /\ SensorPin \subseteq Nat /\ Button \cap SensorPin = {}
  /\ Short \in Nat /\ Short > 0 /\ Long \in Nat /\ Short <= Long
  /\ MaxHold \in Nat /\ PortsWidth \in Nat /\ MaxHold < PortsWidth
  /\ Overlaps \subseteq BOOLEAN
BY DriversAssumption DEF P!PortsAssumption

LEMMA PortsInit ==
  ASSUME P!Init
  PROVE  PortsInv
<1> USE PortsFacts
<1>1. P!TypeOK
  BY DEF P!Init, P!TypeOK
<1>2. AgesHold
  BY DEF P!Init, AgesHold
<1>3. OneAtATime
  BY DEF P!Init, OneAtATime, AtRest, Agrees
<1> QED
  BY <1>1, <1>2, <1>3 DEF PortsInv

\* Every state of the counter is one of SinceLast.
LEMMA SinceLastType ==
  ASSUME P!TypeOK
  PROVE  SinceLast \in 0..PortsWidth - 1
BY CountsOn, PortsFacts DEF P!TypeOK, SinceLast

LEMMA PressPinInv ==
  ASSUME PortsInv, NEW b \in Button, P!PressPin(b)
  PROVE  PortsInv'
<1> USE PortsFacts DEF PortsInv
<1>1. P!TypeOK'
  BY DEF P!TypeOK, P!PressPin, P!drv, P!Pin
<1>2. AgesHold'
  BY DEF AgesHold, SinceLast, P!PressPin, P!drv
<1>3. ASSUME ~overlap'
      PROVE  OneAtATime'
  <2>1. ~overlap /\ AtRest /\ pin = {} /\ ies = {}
    BY <1>3 DEF P!PressPin, P!MayMove, P!Quiet, OneAtATime, AtRest, JustPressed,
                JustReleased, Sensed, Leaving, Agrees
  <2>2. pin' = {b} /\ port_ifg' = {b} /\ held' = held /\ held[b] = 0
    BY <1>3, <2>1 DEF P!PressPin, OneAtATime, AtRest
  <2>3. JustPressed'
    BY <2>1, <2>2 DEF P!PressPin, P!drv, JustPressed, AtRest, Agrees
  <2> QED
    BY <1>3, <2>1, <2>2, <2>3 DEF OneAtATime
<1> QED
  BY <1>1, <1>2, <1>3

LEMMA ReleasePinInv ==
  ASSUME PortsInv, NEW b \in Button, P!ReleasePin(b)
  PROVE  PortsInv'
<1> USE PortsFacts DEF PortsInv
<1>1. P!TypeOK'
  <2>1. held' \in [Button -> 0..MaxHold]
    BY DEF P!TypeOK, P!ReleasePin
  <2>2. want' \subseteq Button \X P!Kind
    BY DEF P!TypeOK, P!ReleasePin, P!Events, P!KindOf, P!Kind
  <2> QED
    BY <2>1, <2>2 DEF P!TypeOK, P!ReleasePin, P!drv, P!Pin
<1>2. AgesHold'
  BY DEF AgesHold, SinceLast, P!ReleasePin, P!drv
<1>3. ASSUME ~overlap'
      PROVE  OneAtATime'
  <2>1. ~overlap /\ AtRest /\ pin = {b}
    BY <1>3 DEF P!ReleasePin, P!MayMove, P!Quiet, OneAtATime, AtRest, JustPressed,
                JustReleased, Sensed, Leaving, Agrees
  <2>2. ies = {b} /\ pressed = want /\ held[b] = SinceLast /\ isr = "idle" /\ port_ifg = {}
    BY <2>1 DEF AtRest, Agrees
  <2>3. pin' = {} /\ port_ifg' = {b} /\ want' = want \cup P!Events({b}, held[b])
    BY <2>1, <2>2 DEF P!ReleasePin
  <2>4. \A a \in Button \ pin' : held'[a] = 0
    BY <2>1 DEF P!ReleasePin, OneAtATime, P!TypeOK
  <2>5. JustReleased'
    BY <2>2, <2>3 DEF P!ReleasePin, P!drv, JustReleased, SinceLast
  <2> QED
    BY <2>3, <2>4, <2>5 DEF OneAtATime
<1> QED
  BY <1>1, <1>2, <1>3

LEMMA SensorEdgeInv ==
  ASSUME PortsInv, NEW p \in SensorPin, P!SensorEdge(p)
  PROVE  PortsInv'
<1> USE PortsFacts DEF PortsInv
<1>1. P!TypeOK'
  BY DEF P!TypeOK, P!SensorEdge, P!drv, P!Pin
<1>2. AgesHold'
  BY DEF AgesHold, SinceLast, P!SensorEdge, P!drv
<1>3. ASSUME ~overlap'
      PROVE  OneAtATime'
  <2>1. ~overlap /\ AtRest
    BY <1>3 DEF P!SensorEdge, P!MayMove, P!Quiet, OneAtATime, AtRest, JustPressed,
                JustReleased, Sensed, Leaving, Agrees
  <2>2. Sensed'
    BY <2>1 DEF P!SensorEdge, P!drv, AtRest, Sensed, Agrees, SinceLast
  <2> QED
    BY <2>1, <2>2 DEF OneAtATime, P!SensorEdge
<1> QED
  BY <1>1, <1>2, <1>3

LEMMA PortsTickInv ==
  ASSUME PortsInv, P!Tick
  PROVE  PortsInv'
<1> USE PortsFacts DEF PortsInv
<1>1. /\ counter' \in 0..PortsWidth - 1 /\ SinceLast \in Nat /\ SinceLast' \in Nat
      /\ SinceLast' <= SinceLast + 1
      /\ SinceLast + 1 < PortsWidth => SinceLast' = SinceLast + 1
  BY CountsOn DEF P!TypeOK, P!Tick, P!drv, SinceLast
<1>2. \A b \in Button : age[b] \in 0..Long + 1 /\ held[b] \in 0..MaxHold
  BY DEF P!TypeOK
<1>3. \A b \in Button :
        /\ age'[b] = IF b \in ies /\ age[b] <= Long THEN age[b] + 1 ELSE age[b]
        /\ held'[b] = IF b \in pin /\ ~overlap THEN held[b] + 1 ELSE held[b]
  BY DEF P!Tick
<1>4. P!TypeOK'
  <2>1. \A b \in Button : age'[b] \in 0..Long + 1
    BY <1>2, <1>3
  <2>2. \A b \in pin : b \in Button /\ held[b] < MaxHold
    BY DEF P!Tick, P!TypeOK
  <2>3. \A b \in Button : held'[b] \in 0..MaxHold
    BY <1>2, <1>3, <2>2
  <2>4. age' \in [Button -> 0..Long + 1] /\ held' \in [Button -> 0..MaxHold]
    BY <2>1, <2>3 DEF P!Tick
  <2> QED
    BY <1>1, <2>4 DEF P!TypeOK, P!Tick, P!hw, P!drv
<1>5. AgesHold'
  <2> SUFFICES ASSUME NEW b \in ies
               PROVE  age'[b] > Long \/ SinceLast' <= age'[b]
    BY DEF AgesHold, P!Tick, P!drv
  <2>1. b \in Button /\ (age[b] > Long \/ SinceLast <= age[b])
    BY DEF AgesHold, P!TypeOK
  <2> QED
    BY <1>1, <1>2, <1>3, <2>1
<1>6. ASSUME ~overlap'
      PROVE  OneAtATime'
  <2>1. ~overlap /\ AtRest
    BY <1>6 DEF P!Tick, P!Quiet, OneAtATime, AtRest, JustPressed,
                JustReleased, Sensed, Leaving
  <2>2. \A b \in pin : b \in Button /\ held[b] = SinceLast /\ held[b] < MaxHold
    BY <2>1 DEF AtRest, Agrees, P!Tick, P!TypeOK
  <2>3. ASSUME NEW b \in pin
        PROVE  held'[b] = SinceLast'
    <3>1. b \in Button /\ held[b] = SinceLast /\ held[b] < MaxHold
      BY <2>2
    <3>2. held[b] \in Nat
      BY <1>2, <3>1
    <3>3. held'[b] = held[b] + 1
      BY <1>3, <2>1, <3>1
    <3> QED
      BY <1>1, <3>1, <3>2, <3>3
  <2>4. \A b \in Button \ pin : held'[b] = 0
    BY <1>3, <2>1 DEF OneAtATime
  <2> QED
    BY <2>1, <2>3, <2>4 DEF OneAtATime, AtRest, Agrees, P!Tick, P!hw, P!drv
<1> QED
  BY <1>4, <1>5, <1>6

LEMMA IsrBodyInv ==
  ASSUME PortsInv, P!IsrBody
  PROVE  PortsInv'
<1> USE PortsFacts DEF PortsInv
<1>1. /\ counter' = counter /\ last_press' = P!LastPress
      /\ P!LastPress \in 0..PortsWidth - 1
      /\ P!PressedTicks \in 0..PortsWidth - 1
  BY CountsOn DEF P!IsrBody, P!LastPress, P!PressedTicks, P!TypeOK
<1>2. P!Rising \subseteq Button /\ P!NewIes \subseteq Button
  BY DEF P!Rising, P!NewIes, P!TypeOK
<1>3. age' = [b \in Button |-> IF b \in P!NewIes \ P!Rising THEN age[b] ELSE 0]
  BY DEF P!IsrBody
<1>4. P!TypeOK'
  <2>1. age' \in [Button -> 0..Long + 1]
    BY <1>3 DEF P!TypeOK
  <2>2. pressed' \subseteq Button \X P!Kind
    BY <1>2 DEF P!IsrBody, P!Events, P!KindOf, P!Kind, P!TypeOK
  <2>3. port_ifg' \subseteq P!Pin
    BY <1>2 DEF P!IsrBody, P!Flipped, P!Pin, P!TypeOK
  <2> QED
    BY <1>1, <1>2, <2>1, <2>2, <2>3 DEF P!TypeOK, P!IsrBody
<1>5. AgesHold'
  <2> SUFFICES ASSUME NEW b \in P!NewIes
               PROVE  age'[b] > Long \/ SinceLast' <= age'[b]
    BY DEF AgesHold, P!IsrBody
  <2>1. CASE P!Rising # {}
    <3>1. SinceLast' = 0
      BY <1>1, <2>1, CountsOn DEF SinceLast, P!LastPress, P!TypeOK
    <3>2. age'[b] \in Nat
      BY <1>2, <1>3 DEF P!TypeOK
    <3> QED
      BY <3>1, <3>2
  <2>2. CASE P!Rising = {}
    <3>1. SinceLast' = SinceLast /\ age'[b] = age[b] /\ b \in ies
      BY <1>1, <1>2, <1>3, <2>2 DEF SinceLast, P!LastPress, P!NewIes
    <3> QED
      BY <3>1 DEF AgesHold
  <2> QED
    BY <2>1, <2>2
<1>6. ASSUME ~overlap'
      PROVE  OneAtATime'
  <2>1. ~overlap /\ OneAtATime /\ isr = "idle" /\ port_ifg # {}
    BY <1>6 DEF P!IsrBody
  <2>2. JustPressed \/ JustReleased \/ Sensed
    BY <2>1 DEF OneAtATime, AtRest, Leaving
  <2>3. /\ pin' = pin /\ held' = held /\ want' = want /\ isr' = "exit"
        /\ ies' = P!NewIes
    BY DEF P!IsrBody
  <2>4. CASE JustPressed
    <3>1. PICK b \in Button : pin = {b} /\ port_ifg = {b} /\ held[b] = 0
      BY <2>4 DEF JustPressed
    <3>2. P!Rising = {b} /\ P!Released = {}
      BY <2>4, <3>1 DEF JustPressed, P!Rising, P!Released
    <3>3. P!NewIes = {b} /\ P!Flipped({b}) = {}
      BY <2>4, <3>1, <3>2 DEF JustPressed, P!NewIes, P!Flipped
    <3>4. port_ifg' = {b} /\ pressed' = pressed
      BY <3>1, <3>2, <3>3 DEF P!IsrBody
    <3>5. SinceLast' = 0
      BY <1>1, <3>2, CountsOn DEF SinceLast, P!LastPress, P!TypeOK
    <3>6. Agrees'
      BY <2>3, <2>4, <3>1, <3>3, <3>4, <3>5 DEF Agrees, JustPressed
    <3> QED
      BY <2>1, <2>3, <3>4, <3>6 DEF OneAtATime, Leaving, P!Pin
  <2>5. CASE JustReleased
    <3>1. PICK b \in Button : /\ ies = {b} /\ port_ifg = {b}
                              /\ want = pressed \cup P!Events({b}, SinceLast)
      BY <2>5 DEF JustReleased
    <3>2. P!Rising = {} /\ P!Released = {b} /\ pin = {}
      BY <2>5, <3>1 DEF JustReleased, P!Rising, P!Released
    <3>3. P!NewIes = {} /\ P!Flipped({}) = {}
      BY <3>1, <3>2 DEF P!NewIes, P!Flipped
    <3>4. P!PressedTicks = SinceLast
      BY <3>2 DEF P!PressedTicks, P!LastPress, SinceLast
    <3>5. port_ifg' = {b} /\ pressed' = want
      BY <3>1, <3>2, <3>3, <3>4 DEF P!IsrBody
    <3>6. Agrees'
      BY <2>3, <3>2, <3>3, <3>5 DEF Agrees
    <3> QED
      BY <2>1, <2>3, <3>5, <3>6 DEF OneAtATime, Leaving, P!Pin
  <2>6. CASE Sensed
    <3>1. PICK p \in SensorPin : port_ifg = {p}
      BY <2>6 DEF Sensed
    <3>2. P!Rising = {} /\ P!Released = {}
      BY <3>1 DEF P!Rising, P!Released
    <3>3. P!NewIes = ies /\ P!Flipped(ies) = {}
      BY <3>2 DEF P!NewIes, P!Flipped
    <3>4. port_ifg' = {p} /\ pressed' = pressed
      BY <3>1, <3>2, <3>3 DEF P!IsrBody
    <3>5. SinceLast' = SinceLast
      BY <1>1, <3>2 DEF SinceLast, P!LastPress
    <3>6. Agrees'
      BY <2>3, <2>6, <3>3, <3>4, <3>5 DEF Agrees, Sensed
    <3> QED
      BY <2>1, <2>3, <3>4, <3>6 DEF OneAtATime, Leaving, P!Pin
  <2> QED
    BY <2>2, <2>4, <2>5, <2>6
<1> QED
  BY <1>4, <1>5, <1>6

LEMMA IsrExitInv ==
  ASSUME PortsInv, P!IsrExit
  PROVE  PortsInv'
<1> USE PortsFacts DEF PortsInv
<1>1. P!TypeOK'
  BY DEF P!TypeOK, P!IsrExit, P!drv
<1>2. AgesHold'
  BY DEF AgesHold, SinceLast, P!IsrExit, P!drv
<1>3. ASSUME ~overlap'
      PROVE  OneAtATime'
  <2>1. ~overlap /\ OneAtATime /\ Leaving
    BY <1>3 DEF P!IsrExit, OneAtATime, AtRest, JustPressed, JustReleased, Sensed
  <2>2. port_ifg' = {}
    <3>1. PICK p \in P!Pin : port_ifg = {p}
      BY <2>1 DEF Leaving
    <3>2. p \in Nat
      BY DEF P!Pin
    <3> QED
      BY <3>1, <3>2, OnlyFlag DEF P!IsrExit
  <2>3. AtRest'
    BY <2>1, <2>2 DEF AtRest, Leaving, Agrees, SinceLast, P!IsrExit, P!drv
  <2> QED
    BY <2>1, <2>3 DEF OneAtATime, P!IsrExit, P!drv
<1> QED
  BY <1>1, <1>2, <1>3

LEMMA CheckButtonsInv ==
  ASSUME PortsInv, P!CheckButtons
  PROVE  PortsInv'
<1> USE PortsFacts DEF PortsInv
<1>1. P!TypeOK'
  BY DEF P!TypeOK, P!CheckButtons, P!hw
<1>2. AgesHold'
  BY DEF AgesHold, SinceLast, P!CheckButtons
<1>3. ASSUME ~overlap'
      PROVE  OneAtATime'
  <2>1. ~overlap /\ OneAtATime /\ AtRest
    BY <1>3 DEF P!CheckButtons, P!Quiet, OneAtATime, JustPressed, JustReleased,
                Sensed, Leaving
  <2> QED
    BY <2>1 DEF OneAtATime, AtRest, Agrees, SinceLast, P!CheckButtons, P!hw
<1> QED
  BY <1>1, <1>2, <1>3

LEMMA PortsStep ==
  ASSUME PortsInv, [P!Next]_(P!vars)
  PROVE  PortsInv'
<1>1. CASE UNCHANGED P!vars
  BY <1>1 DEF PortsInv, P!TypeOK, AgesHold, OneAtATime, AtRest, JustPressed,
              JustReleased, Sensed, Leaving, Agrees, SinceLast,
              P!vars, P!hw, P!drv
<1> QED
  BY <1>1, PressPinInv, ReleasePinInv, SensorEdgeInv, PortsTickInv, IsrBodyInv,
     IsrExitInv, CheckButtonsInv DEF P!Next

\* Only the body of the handler saves presses; a press that is timed has
\* lasted, by its button's age, since the latest press of any.
LEMMA LongStep ==
  ASSUME PortsInv, [P!Next]_(P!vars), NEW b \in Button,
         <<b, "long">> \in pressed' \ pressed
  PROVE  age[b] > Long
<1>1. P!IsrBody
  BY DEF P!Next, P!PressPin, P!ReleasePin, P!SensorEdge, P!Tick, P!IsrExit,
         P!CheckButtons, P!vars, P!drv
<1>2. /\ <<b, "long">> \in P!Events(ies \cup P!Rising, P!PressedTicks)
  BY <1>1 DEF P!IsrBody
<1>3. b \in ies \cup P!Rising /\ P!PressedTicks > Long
  BY <1>2 DEF P!Events, P!KindOf
<1>4. P!Rising = {}
  <2> SUFFICES ASSUME P!Rising # {}
               PROVE  FALSE
    OBVIOUS
  <2>1. P!PressedTicks = 0
    BY CountsOn, PortsFacts DEF P!PressedTicks, P!LastPress, PortsInv, P!TypeOK
  <2> QED
    BY <1>3, <2>1, PortsFacts
<1>5. P!PressedTicks = SinceLast /\ b \in ies
  BY <1>3, <1>4 DEF P!PressedTicks, P!LastPress, SinceLast
<1>6. age[b] > Long \/ SinceLast <= age[b]
  BY <1>5 DEF PortsInv, AgesHold
<1>7. age[b] \in Nat /\ SinceLast \in Nat
  BY PortsFacts, SinceLastType DEF PortsInv, P!TypeOK
<1> QED
  BY <1>3, <1>5, <1>6, <1>7, PortsFacts

LEMMA PortsSafe ==
  ASSUME PortsInv
  PROVE  P!TypeOK /\ P!PressesAreSaved
BY DEF PortsInv, OneAtATime, JustPressed, JustReleased, Sensed, Leaving, AtRest,
       Agrees, P!PressesAreSaved, P!Quiet

-----------------------------------------------------------------------------
(* Adc: whose conversion an answer is, and what the window knows.          *)

\* What the memory register can hold: nothing, or a reading.
Answers == [reading : A!Samples, fresh : BOOLEAN]
Memory == {A!Nothing} \cup Answers

Bytes256 == 0..255
Volts    == 0..A!High

\* The types, the memory register's without what it cannot hold.
ControlTypes ==
  /\ adc_pc \in {"idle", "asked", "settle", "wait", "return"}
  /\ asks \in {"init", "temperature", "battery"}
  /\ converts \in A!Samples \cup {A!None} /\ adcmem \in Memory
  /\ adc_ie \in BOOLEAN /\ adc12_result \in Answers
  /\ adc12_data_ready \in BOOLEAN /\ loops \in 0..MaxLoops
  /\ adc_late \in BOOLEAN /\ lates \in 0..MaxLate

FilterTypes ==
  /\ value \in A!Samples /\ window \in [A!Slots -> Bytes256] /\ idx \in A!Slots
  /\ readings \in [A!Slots -> A!Samples] /\ voltage \in Volts

\* A request that waits finds only its own conversion: what an earlier one
\* left was marked when it began, and was read before it started.
Fresh ==
  /\ adc_pc # "wait" => converts = A!None
  /\ adc_pc = "settle" => adcmem.fresh = FALSE /\ adc12_result.fresh = FALSE
  /\ adc_pc = "wait" => /\ adcmem = A!Nothing \/ adcmem.fresh
                        /\ adc12_data_ready => adc12_result.fresh
  /\ adc_pc = "return" => ~adc_ie /\ (~adc_late => adc12_result.fresh)

\* The window holds the lowest byte of each reading, and the value their mean.
Filters ==
  /\ \A i \in A!Slots : window[i] = A!Byte(readings[i])
  /\ A!Byte(value) = A!MeanOf(window)

AdcInv ==
  /\ ControlTypes /\ FilterTypes
  /\ Fresh /\ Filters

LEMMA AdcFacts ==
  /\ MaxLoops \in Nat /\ MaxLate \in Nat /\ BatteryOffset \in Int
  /\ Temperatures \subseteq A!Samples /\ Batteries \subseteq A!Samples
BY DriversAssumption DEF A!AdcAssumption

LEMMA NothingIs ==
  /\ A!Nothing.reading = A!None /\ A!Nothing.fresh = FALSE /\ A!None \notin A!Samples
  /\ A!Nothing \in A!Reading
BY DEF A!Nothing, A!None, A!Reading, A!Samples

\* A byte, and the mean of four, which lies between the least and the greatest.
LEMMA Bytes ==
  ASSUME NEW n \in Nat
  PROVE  A!Byte(n) \in Bytes256 /\ n - A!Byte(n) = 256 * (n \div 256)
BY DEF A!Byte, Bytes256

LEMMA Mean ==
  ASSUME NEW w \in [A!Slots -> Bytes256]
  PROVE  /\ A!MeanOf(w) \in Bytes256
         /\ \E i \in A!Slots : w[i] <= A!MeanOf(w)
         /\ \E i \in A!Slots : w[i] >= A!MeanOf(w)
<1> DEFINE m == A!MeanOf(w)
<1>1. /\ w[0] \in Bytes256 /\ w[1] \in Bytes256 /\ w[2] \in Bytes256 /\ w[3] \in Bytes256
      /\ 0 \in A!Slots /\ 1 \in A!Slots /\ 2 \in A!Slots /\ 3 \in A!Slots
  BY DEF A!Slots
<1>2. \A a, b, c, d \in Bytes256 :
        /\ (a + b + c + d) \div 4 \in Bytes256
        /\ \/ a <= (a + b + c + d) \div 4 \/ b <= (a + b + c + d) \div 4
           \/ c <= (a + b + c + d) \div 4 \/ d <= (a + b + c + d) \div 4
        /\ \/ a >= (a + b + c + d) \div 4 \/ b >= (a + b + c + d) \div 4
           \/ c >= (a + b + c + d) \div 4 \/ d >= (a + b + c + d) \div 4
  BY DEF Bytes256
<1>3. /\ m \in Bytes256
      /\ w[0] <= m \/ w[1] <= m \/ w[2] <= m \/ w[3] <= m
      /\ w[0] >= m \/ w[1] >= m \/ w[2] >= m \/ w[3] >= m
  BY <1>1, <1>2, Zenon DEF A!MeanOf
<1> HIDE DEF m
<1>4. (\E i \in A!Slots : w[i] <= m) /\ (\E i \in A!Slots : w[i] >= m)
  BY <1>1, <1>3, Zenon
<1> QED
  BY <1>3, <1>4 DEF m

LEMMA AdcInit ==
  ASSUME A!Init
  PROVE  AdcInv
<1> USE AdcFacts
<1>1. ControlTypes
  <2>1. adc12_result \in Answers /\ adcmem \in Memory
    BY DEF A!Init, A!Samples, Memory, Answers
  <2>2. loops \in 0..MaxLoops /\ lates \in 0..MaxLate
    BY DEF A!Init
  <2> QED
    BY <2>1, <2>2 DEF A!Init, ControlTypes
<1>2. FilterTypes
  BY DEF A!Init, FilterTypes, A!Slots, A!High, A!Full, Bytes256, Volts, A!Samples
<1>3. Fresh
  BY DEF A!Init, Fresh
<1>4. Filters
  BY DEF A!Init, Filters, A!Byte, A!MeanOf, A!Slots
<1> QED
  BY <1>1, <1>2, <1>3, <1>4 DEF AdcInv

LEMMA ConverterInv ==
  ASSUME AdcInv, A!Converts \/ A!ADC12ISR
  PROVE  AdcInv'
<1> USE AdcFacts DEF AdcInv
<1>1. CASE A!Converts
  <2>1. converts \in A!Samples /\ adc_pc = "wait"
    BY <1>1 DEF A!Converts, ControlTypes, Fresh
  <2>2. adcmem' \in Answers /\ adcmem'.fresh
    BY <1>1, <2>1 DEF A!Converts, Answers
  <2>3. ControlTypes'
    BY <1>1, <2>2 DEF ControlTypes, A!Converts, A!result, A!given, Memory
  <2>4. Fresh'
    BY <1>1, <2>1, <2>2 DEF Fresh, A!Converts, A!result, A!given
  <2> QED
    BY <1>1, <2>3, <2>4 DEF Filters, FilterTypes, A!Converts, A!diode
<1>2. CASE A!ADC12ISR
  <2>1. adcmem \in Answers /\ adc_ie
    BY <1>2 DEF A!ADC12ISR, Memory, ControlTypes
  <2>2. adc12_result' = adcmem /\ adcmem' = A!Nothing /\ adc12_data_ready' = TRUE
    BY <1>2 DEF A!ADC12ISR
  <2>3. ControlTypes'
    BY <1>2, <2>1, <2>2 DEF ControlTypes, A!ADC12ISR, A!given, Memory
  <2>4. Fresh'
    BY <1>2, <2>1, <2>2, NothingIs DEF Fresh, A!ADC12ISR, A!given
  <2> QED
    BY <1>2, <2>3, <2>4 DEF Filters, FilterTypes, A!ADC12ISR, A!diode
<1> QED
  BY <1>1, <1>2

LEMMA DriverInv ==
  ASSUME AdcInv, A!Driver
  PROVE  AdcInv'
<1> USE AdcFacts DEF AdcInv
<1>1. CASE A!Enable
  <2>1. adcmem' \in Memory /\ adcmem'.fresh = FALSE
    <3>1. CASE adcmem = A!Nothing
      BY <1>1, <3>1 DEF A!Enable, Memory, A!Nothing
    <3>2. CASE adcmem \in Answers
      BY <1>1, <3>2 DEF A!Enable, Memory, Answers
    <3> QED
      BY <3>1, <3>2 DEF Memory, ControlTypes
  <2>2. adc12_result' \in Answers /\ adc12_result'.fresh = FALSE
    BY <1>1 DEF A!Enable, ControlTypes, Answers
  <2>3. ControlTypes'
    BY <1>1, <2>1, <2>2 DEF ControlTypes, A!Enable, A!given
  <2>4. Fresh'
    BY <1>1, <2>1, <2>2 DEF Fresh, A!Enable, A!given
  <2> QED
    BY <1>1, <2>3, <2>4 DEF Filters, FilterTypes, A!Enable, A!diode
<1>2. CASE A!Start
  <2>1. converts' \in A!Samples
    BY <1>2 DEF A!Start
  <2>2. ControlTypes'
    <3>1. loops' \in 0..MaxLoops
      BY <1>2 DEF A!Start
    <3> QED
      BY <1>2, <2>1, <3>1 DEF ControlTypes, A!Start, A!given
  <2>3. Fresh'
    BY <1>2 DEF Fresh, A!Start, A!given
  <2> QED
    BY <1>2, <2>2, <2>3 DEF A!Start, Filters, FilterTypes, A!diode
<1>3. CASE A!Wait
  <2>1. ControlTypes'
    BY <1>3 DEF ControlTypes, A!Wait, A!hw, A!given
  <2> QED
    BY <1>3, <2>1 DEF Fresh, Filters, FilterTypes, A!Wait, A!hw, A!diode, A!given
<1>4. CASE A!Stop
  <2>1. ControlTypes'
    <3>1. loops' \in 0..MaxLoops /\ lates' \in 0..MaxLate
      BY <1>4 DEF A!Stop, ControlTypes
    <3> QED
      BY <1>4, <3>1 DEF ControlTypes, A!Stop
  <2>2. Fresh'
    BY <1>4 DEF Fresh, A!Stop, ControlTypes
  <2> QED
    BY <1>4, <2>1, <2>2 DEF A!Stop, Filters, FilterTypes, A!diode
<1> QED
  BY <1>1, <1>2, <1>3, <1>4 DEF A!Driver

\* What is measured, and the filtered voltage, which lies between the two.
LEMMA MeasuredVolts ==
  ASSUME NEW n \in Int, voltage \in Volts
  PROVE  A!Measured(n) \in Volts
<1> DEFINE v == ((n * 4) \div 41 + BatteryOffset) % 65536
<1>1. v \in Nat
  BY AdcFacts
<1> HIDE DEF v
<1>2. (IF v > A!High THEN voltage ELSE v) \in Volts
  BY <1>1 DEF Volts, A!High
<1> QED
  BY <1>2 DEF A!Measured, v

LEMMA FilteredVolts ==
  \A v, o \in Volts :
    /\ A!Filtered(v, o) \in Volts
    /\ \/ o <= A!Filtered(v, o) /\ A!Filtered(v, o) <= v
       \/ v <= A!Filtered(v, o) /\ A!Filtered(v, o) < o
       \/ v = A!Filtered(v, o) /\ v = o
       \/ v - o \in 0..4 /\ A!Filtered(v, o) = o
BY DEF Volts, A!High, A!Filtered

\* The bytes of a sample and what is above them.
LEMMA SampleBytes ==
  ASSUME NEW n \in A!Samples, NEW m \in Bytes256
  PROVE  /\ A!Byte(n) \in Bytes256
         /\ (n - A!Byte(n)) + m \in A!Samples
         /\ A!Byte((n - A!Byte(n)) + m) = m
<1> DEFINE q == n \div 256
<1>1. n \in Nat /\ n <= 4095
  BY DEF A!Samples
<1>2. q \in Nat /\ q <= 15
  BY <1>1
<1>3. A!Byte(n) \in Bytes256 /\ n - A!Byte(n) = 256 * q
  BY <1>1, Bytes
<1> HIDE DEF q
<1>4. 256 * q + m \in A!Samples /\ (256 * q + m) % 256 = m
  BY <1>2 DEF A!Samples, Bytes256
<1> QED
  BY <1>3, <1>4, Zenon DEF A!Byte

LEMMA SampleInt ==
  A!Samples \subseteq Int /\ \A n \in A!Samples : A!Byte(n) \in Bytes256
<1>1. \A n \in A!Samples : n \in Int
  BY DEF A!Samples
<1>2. \A n \in A!Samples : n % 256 \in Bytes256
  BY DEF A!Samples, Bytes256
<1> QED
  BY <1>1, <1>2 DEF A!Byte

LEMMA CallersInv ==
  ASSUME AdcInv, A!Callers
  PROVE  AdcInv'
<1> USE AdcFacts DEF AdcInv
<1>1. adc12_result.reading \in A!Samples
  BY DEF ControlTypes, Answers
<1> DEFINE r == adc12_result.reading
<1>2. CASE A!TemperatureInit
  <2>1. ControlTypes' /\ Fresh'
    BY <1>2 DEF A!TemperatureInit, ControlTypes, Fresh, A!hw, A!result
  <2>2. A!Byte(r) \in Bytes256
    BY <1>1, SampleInt
  <2>3. FilterTypes'
    BY <1>1, <1>2, <2>2 DEF A!TemperatureInit, FilterTypes
  <2>4. A!MeanOf([i \in A!Slots |-> A!Byte(r)]) = A!Byte(r)
    BY <2>2 DEF A!MeanOf, A!Slots, Bytes256
  <2>5. Filters'
    BY <1>2, <2>4 DEF A!TemperatureInit, Filters
  <2> QED
    BY <2>1, <2>3, <2>5
<1>3. CASE A!TemperatureMeasurement
  <2>1. ControlTypes' /\ Fresh'
    BY <1>3 DEF A!TemperatureMeasurement, ControlTypes, Fresh, A!hw, A!result
  <2>2. A!Byte(r) \in Bytes256
    BY <1>1, SampleInt
  <2>3. window' \in [A!Slots -> Bytes256] /\ readings' \in [A!Slots -> A!Samples]
    BY <1>1, <1>3, <2>2 DEF A!TemperatureMeasurement, FilterTypes
  <2>4. idx' \in A!Slots
    BY <1>3 DEF A!TemperatureMeasurement, FilterTypes, A!NextIdx, A!Slots
  <2>5. A!MeanOf(window') \in Bytes256
    BY <2>3, Mean
  <2>6. value' \in A!Samples /\ A!Byte(value') = A!MeanOf(window')
    BY <1>3, <2>5, SampleBytes DEF A!TemperatureMeasurement, FilterTypes
  <2>7. \A i \in A!Slots : window'[i] = A!Byte(readings'[i])
    BY <1>3 DEF A!TemperatureMeasurement, FilterTypes, Filters
  <2> QED
    BY <1>3, <2>1, <2>3, <2>4, <2>6, <2>7
    DEF FilterTypes, Filters, A!TemperatureMeasurement
<1>4. CASE A!BatteryMeasurement
  <2>1. ControlTypes' /\ Fresh' /\ Filters'
    BY <1>4 DEF A!BatteryMeasurement, ControlTypes, Fresh, Filters, A!hw,
                A!result, A!diode
  <2>2. r \in Int
    BY <1>1, SampleInt
  <2>3. voltage' \in Volts
    BY <1>4, <2>2, MeasuredVolts, FilteredVolts
    DEF A!BatteryMeasurement, FilterTypes
  <2> QED
    BY <1>4, <2>1, <2>3 DEF FilterTypes, A!BatteryMeasurement, A!diode
<1>5. CASE A!Ask
  BY <1>5 DEF A!Ask, ControlTypes, FilterTypes, Fresh, Filters, A!hw, A!result,
              A!diode, A!given
<1> QED
  BY <1>2, <1>3, <1>4, <1>5 DEF A!Callers

LEMMA AdcStep ==
  ASSUME AdcInv, [A!Next]_(A!vars)
  PROVE  AdcInv'
<1>1. CASE A!Next
  BY <1>1, ConverterInv, DriverInv, CallersInv DEF A!Next
<1>2. CASE UNCHANGED A!vars
  BY <1>2 DEF A!vars, A!hw, A!result, A!diode, A!given, AdcInv, ControlTypes,
              FilterTypes, Fresh, Filters
<1> QED
  BY <1>1, <1>2

LEMMA BatteryStep ==
  ASSUME AdcInv, A!BatteryMeasurement
  PROVE  LET v == A!Measured(adc12_result.reading)
         IN \/ voltage <= voltage' /\ voltage' <= v
            \/ v <= voltage' /\ voltage' < voltage
            \/ v = voltage' /\ v = voltage
            \/ v - voltage \in 0..4 /\ voltage' = voltage
<1> DEFINE v == A!Measured(adc12_result.reading)
<1>1. adc12_result.reading \in Int /\ voltage \in Volts
  BY SampleInt DEF AdcInv, ControlTypes, Answers, FilterTypes
<1>2. v \in Volts
  BY <1>1, MeasuredVolts
<1>3. voltage' = A!Filtered(v, voltage)
  BY DEF A!BatteryMeasurement
<1> HIDE DEF v
<1>4. \/ voltage <= voltage' /\ voltage' <= v
      \/ v <= voltage' /\ voltage' < voltage
      \/ v = voltage' /\ v = voltage
      \/ v - voltage \in 0..4 /\ voltage' = voltage
  BY <1>1, <1>2, <1>3, FilteredVolts
<1> QED
  BY <1>4 DEF v

\* Where the readings agree in all but their lowest byte, so does the value.
LEMMA SamePages ==
  \A m, n \in A!Samples :
    m \div 256 = n \div 256 =>
      /\ A!Byte(m) <= A!Byte(n) => m <= n
      /\ A!Byte(m) >= A!Byte(n) => m >= n
BY DEF A!Samples, A!Byte

LEMMA AdcSafe ==
  ASSUME AdcInv
  PROVE  A!TypeOK /\ A!FreshUnlessLate /\ A!TemperatureBetween
<1>1. A!TypeOK
  BY NothingIs DEF AdcInv, ControlTypes, FilterTypes, A!TypeOK, A!Reading,
     Memory, Answers, Bytes256, Volts
<1>2. A!FreshUnlessLate
  BY DEF AdcInv, Fresh, A!FreshUnlessLate
<1>3. A!TemperatureBetween
  <2> SUFFICES ASSUME \A i \in A!Slots : A!SamePage(readings[i])
               PROVE  /\ \E i \in A!Slots : readings[i] <= value
                      /\ \E i \in A!Slots : readings[i] >= value
    BY DEF A!TemperatureBetween
  <2>1. /\ window \in [A!Slots -> Bytes256]
        /\ A!Byte(value) = A!MeanOf(window)
        /\ \A i \in A!Slots : /\ window[i] = A!Byte(readings[i])
                              /\ readings[i] \in A!Samples
        /\ value \in A!Samples
    BY DEF AdcInv, FilterTypes, Filters
  <2>2. PICK i \in A!Slots : window[i] <= A!Byte(value)
    BY <2>1, Mean
  <2>3. PICK j \in A!Slots : window[j] >= A!Byte(value)
    BY <2>1, Mean
  <2>4. readings[i] <= value /\ readings[j] >= value
    BY <2>1, <2>2, <2>3, SamePages DEF A!SamePage
  <2> QED
    BY <2>4
<1> QED
  BY <1>1, <1>2, <1>3

-----------------------------------------------------------------------------
(* Timer0: one counter that wraps, and a distance to each compare.         *)

Ticks == 0..TimerWidth - 1

\* The 20 Hz compare is enabled, set T20 ticks after its handler last ran, and
\* served within the latency of one handler.
TickOnTime ==
  /\ 0 \in ie
  /\ 0 \notin ifg => since20 < T20 /\ ccr[0] = T!Plus(tar, T20 - since20)
  /\ 0 \in ifg => T20 <= since20 /\ since20 <= T20 + late

\* A delay waits for its compare; once that is over it goes on at the next
\* interrupt that wakes the processor, the 20 Hz tick if no other.
DelayOnTime ==
  /\ pc = "idle" => 4 \notin ie /\ gone = 0
  /\ pc # "idle" /\ 4 \in ie /\ ~delay_finished =>
       /\ 4 \notin ifg => gone < asked /\ ccr[4] = T!Plus(tar, asked - gone)
       /\ 4 \in ifg => gone <= asked + late
  /\ pc # "idle" /\ 4 \in ie /\ delay_finished =>
       /\ pc = "sleep" => gone <= asked + Latency
       /\ pc = "lpm" => gone <= asked + Latency + since20
       /\ pc = "check" => gone <= asked + T20 + 2 * Latency

\* A callback that is set waits for its compare, which has not met the counter
\* before it was armed.
CallbackOnTime ==
  delay_callback =>
    /\ 2 \in ie
    /\ 2 \notin ifg => left > 0 /\ ccr[2] = T!Plus(tar, left)
    /\ 2 \in ifg => left = 0

CounterTypes ==
  /\ tar \in Ticks /\ ccr \in [T!Ccr -> Ticks]
  /\ ie \subseteq T!Ccr /\ ifg \subseteq T!Ccr \cup {T!OF}
  /\ late \in Nat /\ late <= Latency

MainTypes ==
  /\ pc \in {"idle", "sleep", "lpm", "check"}
  /\ delay_finished \in BOOLEAN /\ delay_callback \in BOOLEAN
  /\ asked \in Duration \cup {0}
  /\ gone \in Nat /\ gone <= T!Cap /\ since20 \in Nat /\ since20 <= T!Cap
  /\ left \in Ticks

TimerInv ==
  /\ CounterTypes /\ MainTypes
  /\ TickOnTime /\ DelayOnTime /\ CallbackOnTime

LEMMA TimerFacts ==
  /\ TimerWidth \in Nat /\ T20 \in Nat /\ TProg \in Nat /\ Latency \in Nat
  /\ Duration \subseteq 1..TimerWidth - 1
  /\ 0 < TProg /\ TProg < TimerWidth
  /\ Latency < T20 /\ T20 + Latency < TimerWidth
BY DriversAssumption DEF T!TimerAssumption

\* A compare n ticks ahead is n - 1 ahead at the next tick, and met at none.
LEMMA Ahead ==
  ASSUME NEW t \in Ticks
  PROVE  /\ T!Plus(t, 1) \in Ticks
         /\ \A n \in Ticks : T!Plus(t, n) \in Ticks
         /\ \A n \in Ticks : n > 0 => T!Plus(t, n) = T!Plus(T!Plus(t, 1), n - 1)
         /\ \A n \in Ticks : T!Plus(t, n) = t <=> (n = 0)
<1>1. TimerWidth \in Nat /\ TimerWidth > 1
  BY TimerFacts
<1>2. \A s, n \in Ticks :
        (s + n) % TimerWidth = IF s + n < TimerWidth THEN s + n ELSE s + n - TimerWidth
  <2> SUFFICES ASSUME NEW s \in Ticks, NEW n \in Ticks
               PROVE  (s + n) % TimerWidth =
                        IF s + n < TimerWidth THEN s + n ELSE s + n - TimerWidth
    OBVIOUS
  <2>1. \A d \in Int : 0 <= d /\ d < TimerWidth => d % TimerWidth = d
    BY <1>1
  <2>2. \A d \in Int : TimerWidth <= d /\ d < 2 * TimerWidth =>
          d % TimerWidth = d - TimerWidth
    BY <1>1
  <2> QED
    BY <1>1, <2>1, <2>2 DEF Ticks
<1>3. 1 \in Ticks /\ \A n \in Ticks : n > 0 => n - 1 \in Ticks
  BY <1>1 DEF Ticks
<1>4. \A s, n \in Ticks : T!Plus(s, n) =
        IF s + n < TimerWidth THEN s + n ELSE s + n - TimerWidth
  BY <1>2 DEF T!Plus
<1>5. \A s, n \in Ticks : T!Plus(s, n) \in Ticks
  BY <1>1, <1>4 DEF Ticks
<1>6. \A n \in Ticks : n > 0 => T!Plus(t, n) = T!Plus(T!Plus(t, 1), n - 1)
  <2> SUFFICES ASSUME NEW n \in Ticks, n > 0
               PROVE  T!Plus(t, n) = T!Plus(T!Plus(t, 1), n - 1)
    OBVIOUS
  <2> DEFINE u == T!Plus(t, 1)
  <2>1. u \in Ticks /\ u = IF t + 1 < TimerWidth THEN t + 1 ELSE t + 1 - TimerWidth
    BY <1>3, <1>4, <1>5
  <2>2. T!Plus(u, n - 1) = IF u + (n - 1) < TimerWidth THEN u + (n - 1)
                           ELSE u + (n - 1) - TimerWidth
    BY <1>3, <1>4, <2>1
  <2>3. T!Plus(t, n) = IF t + n < TimerWidth THEN t + n ELSE t + n - TimerWidth
    BY <1>4
  <2> HIDE DEF u
  <2> QED
    BY <1>1, <2>1, <2>2, <2>3 DEF Ticks, u
<1>7. \A n \in Ticks : T!Plus(t, n) = t <=> (n = 0)
  BY <1>1, <1>4 DEF Ticks
<1> QED
  BY <1>3, <1>5, <1>6, <1>7

\* The least of the flags that are up is one of them.
LEMMA MinIsIn ==
  ASSUME NEW S \in SUBSET {0, 2, 3, 4, 5}, S # {}
  PROVE  T!Min(S) \in S
<1>1. \E m \in S : \A n \in S : m <= n
  <2>1. CASE 0 \in S
    BY <2>1
  <2>2. CASE 0 \notin S /\ 2 \in S
    BY <2>2
  <2>3. CASE 0 \notin S /\ 2 \notin S /\ 3 \in S
    BY <2>3
  <2>4. CASE S \subseteq {4, 5} /\ 4 \in S
    BY <2>4
  <2>5. CASE S = {5}
    BY <2>5
  <2> QED
    BY <2>1, <2>2, <2>3, <2>4, <2>5
<1> QED
  BY <1>1 DEF T!Min

LEMMA TimerInit ==
  ASSUME T!Init
  PROVE  TimerInv
<1> USE TimerFacts DEF T!Init
<1>1. CounterTypes
  BY DEF CounterTypes, Ticks, T!Ccr
<1>2. MainTypes
  <2>1. 0 \in Ticks /\ 0 <= T!Cap
    BY DEF Ticks, T!Cap
  <2> QED
    BY <2>1 DEF MainTypes
<1>3. T20 \in Ticks /\ T!Plus(0, T20) = T20
  BY DEF Ticks, T!Plus
<1>4. TickOnTime
  BY <1>3 DEF TickOnTime, T!Ccr
<1> QED
  BY <1>1, <1>2, <1>4 DEF TimerInv, DelayOnTime, CallbackOnTime

LEMMA NoLess ==
  \A a, b \in Nat : a <= a + b
OBVIOUS

LEMMA TickInv ==
  ASSUME TimerInv, T!Tick
  PROVE  TimerInv'
<1> USE TimerFacts DEF TimerInv
<1>1. /\ tar' = T!Plus(tar, 1) /\ tar' \in Ticks
      /\ \A n \in Ticks : n > 0 => T!Plus(tar, n) = T!Plus(tar', n - 1)
      /\ \A n \in Ticks : T!Plus(tar', n) \in Ticks
      /\ \A n \in Ticks : T!Plus(tar', n) = tar' <=> (n = 0)
  BY Ahead DEF T!Tick, CounterTypes
<1>2. /\ ccr' = ccr /\ ie' = ie /\ pc' = pc /\ asked' = asked
      /\ delay_finished' = delay_finished /\ delay_callback' = delay_callback
  BY DEF T!Tick, T!main
<1>3. \A c \in T!Ccr : c \in ifg' <=> (c \in ifg \/ ccr[c] = tar')
  BY DEF T!Tick, T!Ccr, T!OF
<1>4. /\ late' \in Nat /\ late' <= Latency
      /\ \A f \in ifg : f \in ie => late' = late + 1
  BY DEF T!Tick, CounterTypes, T!Pending
<1>5. CounterTypes'
  BY <1>1, <1>2, <1>4 DEF T!Tick, CounterTypes
<1>6. /\ gone' = (IF pc = "idle" THEN 0 ELSE T!UpTo(gone))
      /\ since20' = T!UpTo(since20)
      /\ left' = (IF left = 0 THEN 0 ELSE left - 1)
  BY DEF T!Tick
<1>7. /\ \A n \in Nat : n <= T!Cap =>
           T!UpTo(n) \in Nat /\ T!UpTo(n) <= T!Cap /\ T!UpTo(n) <= n + 1
      /\ \A n \in Nat : n < TimerWidth => T!UpTo(n) = n + 1
  BY DEF T!UpTo, T!Cap
<1>8. MainTypes'
  BY <1>2, <1>6, <1>7 DEF MainTypes, Ticks, T!Cap
<1>9. TickOnTime'
  <2>1. since20 < TimerWidth /\ since20' = since20 + 1
    BY <1>6, <1>7 DEF TickOnTime, MainTypes, CounterTypes
  <2>2. CASE 0 \in ifg
    <3>1. late' = late + 1 /\ 0 \in ifg'
      BY <1>3, <1>4, <2>2 DEF TickOnTime, T!Ccr
    <3>2. T20 <= since20' /\ since20' <= T20 + late'
      BY <2>1, <2>2, <3>1 DEF TickOnTime, MainTypes, CounterTypes
    <3> QED
      BY <1>2, <3>1, <3>2 DEF TickOnTime
  <2>3. CASE 0 \notin ifg
    <3> DEFINE n == T20 - since20
    <3>1. n \in Ticks /\ n > 0 /\ n - 1 \in Ticks /\ n - 1 = T20 - since20'
      BY <2>1, <2>3 DEF TickOnTime, MainTypes, Ticks
    <3>2. ccr'[0] = T!Plus(tar', n - 1) /\ (ccr[0] = tar' <=> (n - 1 = 0))
      BY <1>1, <1>2, <2>3, <3>1 DEF TickOnTime
    <3>3. 0 \in ifg' <=> (n - 1 = 0)
      BY <1>3, <2>3, <3>2 DEF T!Ccr
    <3>4. 0 \in ifg' => since20' = T20
      BY <2>1, <3>1, <3>3 DEF MainTypes
    <3>5. 0 \notin ifg' => since20' < T20
      BY <2>1, <3>1, <3>3 DEF MainTypes
    <3> HIDE DEF n
    <3> QED
      BY <1>2, <1>4, <3>1, <3>2, <3>4, <3>5 DEF TickOnTime
  <2> QED
    BY <2>2, <2>3
<1>10. DelayOnTime'
  <2>0. asked \in Nat /\ late' \in Nat /\ asked <= asked + late'
    <3>1. late' \in Nat
      BY <1>4
    <3>2. asked \in Nat
      BY DEF MainTypes
    <3>3. asked <= asked + late'
      BY <3>1, <3>2, NoLess, Zenon
    <3> QED
      BY <3>1, <3>2, <3>3
  <2>1. gone' \in Nat /\ gone' <= gone + 1
    BY <1>6, <1>7 DEF MainTypes
  <2>2. CASE pc = "idle"
    BY <1>2, <1>6, <2>2 DEF DelayOnTime
  <2>3. CASE pc # "idle" /\ 4 \in ie /\ ~delay_finished /\ 4 \in ifg
    <3>1. late' = late + 1 /\ 4 \in ifg'
      BY <1>3, <1>4, <2>3 DEF T!Ccr
    <3>2. gone' <= asked + late'
      BY <2>0, <2>1, <2>3, <3>1 DEF DelayOnTime, MainTypes, CounterTypes
    <3> QED
      BY <1>2, <2>3, <3>1, <3>2 DEF DelayOnTime
  <2>4. CASE pc # "idle" /\ 4 \in ie /\ ~delay_finished /\ 4 \notin ifg
    <3> DEFINE n == asked - gone
    <3>1. n \in Ticks /\ n > 0 /\ n - 1 \in Ticks /\ gone' = gone + 1 /\ n - 1 = asked - gone'
      BY <1>6, <1>7, <2>4 DEF DelayOnTime, MainTypes, Ticks
    <3>2. ccr'[4] = T!Plus(tar', n - 1) /\ (ccr[4] = tar' <=> (n - 1 = 0))
      BY <1>1, <1>2, <2>4, <3>1 DEF DelayOnTime
    <3>3. 4 \in ifg' <=> (n - 1 = 0)
      BY <1>3, <2>4, <3>2 DEF T!Ccr
    <3>4. 4 \in ifg' => gone' <= asked + late'
      <4>1. 4 \in ifg' => gone' = asked
        BY <2>0, <2>1, <3>1, <3>3 DEF MainTypes
      <4> QED
        BY <2>0, <4>1, Zenon
    <3>5. 4 \notin ifg' => gone' < asked
      BY <2>1, <3>1, <3>3 DEF MainTypes
    <3> HIDE DEF n
    <3> QED
      BY <1>2, <2>4, <3>1, <3>2, <3>4, <3>5 DEF DelayOnTime
  <2>5. CASE pc # "idle" /\ 4 \in ie /\ delay_finished
    <3>1. pc = "lpm"
      BY <2>5 DEF T!Tick
    <3>2. since20' = since20 + 1
      BY <1>6, <1>7 DEF TickOnTime, MainTypes, CounterTypes
    <3>3. gone' <= asked + Latency + since20'
      BY <2>1, <2>5, <3>1, <3>2 DEF DelayOnTime, MainTypes
    <3> QED
      BY <1>2, <2>5, <3>1, <3>3 DEF DelayOnTime
  <2>6. CASE pc # "idle" /\ 4 \notin ie
    BY <1>2, <2>6 DEF DelayOnTime
  <2> QED
    BY <2>2, <2>3, <2>4, <2>5, <2>6
<1>11. CallbackOnTime'
  <2> SUFFICES ASSUME delay_callback
               PROVE  /\ 2 \notin ifg' => left' > 0 /\ ccr'[2] = T!Plus(tar', left')
                      /\ 2 \in ifg' => left' = 0
    BY <1>2 DEF CallbackOnTime
  <2>1. CASE 2 \in ifg
    BY <1>3, <1>6, <2>1 DEF CallbackOnTime, T!Ccr
  <2>2. CASE 2 \notin ifg
    <3>1. left \in Ticks /\ left > 0 /\ left' = left - 1 /\ left' \in Ticks
      BY <1>6, <2>2 DEF CallbackOnTime, MainTypes, Ticks
    <3>2. ccr'[2] = T!Plus(tar', left') /\ (ccr[2] = tar' <=> (left' = 0))
      BY <1>1, <1>2, <2>2, <3>1 DEF CallbackOnTime
    <3>3. 2 \in ifg' <=> (left' = 0)
      BY <1>3, <2>2, <3>2 DEF T!Ccr
    <3>4. left' # 0 => left' > 0
      BY <3>1 DEF Ticks
    <3> QED
      BY <3>2, <3>3, <3>4
  <2> QED
    BY <2>1, <2>2
<1> QED
  BY <1>5, <1>8, <1>9, <1>10, <1>11

\* Serving a flag lowers it alone, and keeps the time the others have waited.
LEMMA ServedFlag ==
  ASSUME TimerInv, NEW f, T!Served(f)
  PROVE  /\ ifg' = ifg \ {f} /\ late' \in Nat /\ late' <= Latency
         /\ \A c \in ifg : c \in ie /\ c # f => late' = late
<1>1. late \in Nat /\ late <= Latency /\ Latency \in Nat
  BY TimerFacts DEF TimerInv, CounterTypes
<1> QED
  BY <1>1 DEF T!Served, T!Pending

LEMMA A0Inv ==
  ASSUME TimerInv, T!timer0_A0_ISR
  PROVE  TimerInv'
<1> USE TimerFacts DEF TimerInv
<1>1. /\ ifg' = ifg \ {0} /\ late' \in Nat /\ late' <= Latency
      /\ \A c \in ifg : c \in ie /\ c # 0 => late' = late
  BY ServedFlag DEF T!timer0_A0_ISR
<1>2. /\ tar' = tar /\ ie' = ie /\ delay_finished' = delay_finished
      /\ delay_callback' = delay_callback /\ asked' = asked /\ gone' = gone
      /\ left' = left /\ since20' = 0 /\ 0 \in ifg
      /\ pc' = (IF pc = "lpm" THEN "check" ELSE pc)
      /\ ccr' = [ccr EXCEPT ![0] = T!Plus(tar, T20)]
  BY DEF T!timer0_A0_ISR, T!Wake
<1>3. T20 \in Ticks /\ T!Plus(tar, T20) \in Ticks
  BY Ahead DEF CounterTypes, Ticks
<1>4. CounterTypes'
  BY <1>1, <1>2, <1>3 DEF CounterTypes
<1>5. MainTypes'
  <2>1. 0 <= T!Cap
    BY DEF T!Cap
  <2> QED
    BY <1>2, <2>1 DEF MainTypes
<1>6. ccr'[0] = T!Plus(tar', T20) /\ ccr'[2] = ccr[2] /\ ccr'[4] = ccr[4]
  BY <1>2 DEF CounterTypes, T!Ccr
<1>7. TickOnTime'
  <2>1. T20 - since20' = T20 /\ since20' < T20
    BY <1>2
  <2> QED
    BY <1>1, <1>2, <1>6, <2>1 DEF TickOnTime
<1>8. DelayOnTime'
  <2>1. since20 <= T20 + Latency
    BY <1>2 DEF TickOnTime, CounterTypes, MainTypes
  <2>2. asked \in Nat /\ gone \in Nat /\ since20 \in Nat
    BY DEF MainTypes
  <2>3. gone <= asked + Latency + since20 => gone <= asked + T20 + 2 * Latency
    BY <2>1, <2>2
  <2>4. pc # "idle" /\ 4 \in ie /\ delay_finished => (pc' = "check" => gone <= asked + T20 + 2 * Latency)
    BY <1>2, <2>3 DEF DelayOnTime, MainTypes
  <2>5. pc' # "lpm" /\ (pc' = "idle" <=> pc = "idle") /\ (pc' = "sleep" <=> pc = "sleep")
    BY <1>2
  <2>6. 4 \in ifg' <=> 4 \in ifg
    BY <1>1
  <2>7. 4 \in ifg /\ 4 \in ie => late' = late
    BY <1>1
  <2> QED
    BY <1>2, <1>6, <2>4, <2>5, <2>6, <2>7 DEF DelayOnTime
<1>9. CallbackOnTime'
  BY <1>1, <1>2, <1>6 DEF CallbackOnTime
<1> QED
  BY <1>4, <1>5, <1>7, <1>8, <1>9

\* Arming a callback, by the main thread or by the callback before it.
LEMMA RearmInv ==
  ASSUME TimerInv, NEW d \in Duration, T!Rearm(d)
  PROVE  /\ d \in Ticks /\ d > 0 /\ T!Plus(tar, d) \in Ticks
         /\ ccr' \in [T!Ccr -> Ticks] /\ ie' \subseteq T!Ccr
         /\ ccr'[0] = ccr[0] /\ ccr'[2] = T!Plus(tar, d) /\ ccr'[4] = ccr[4]
         /\ 0 \in ie' /\ 2 \in ie' /\ 4 \notin ie' /\ delay_callback' = TRUE
         /\ left' = d
<1>0. d \in Ticks /\ d > 0
  BY TimerFacts DEF Ticks
<1>1. T!Plus(tar, d) \in Ticks
  BY <1>0, Ahead DEF TimerInv, CounterTypes
<1> QED
  BY <1>0, <1>1 DEF T!Rearm, TimerInv, CounterTypes, T!Ccr, TickOnTime

LEMMA A1Inv ==
  ASSUME TimerInv, T!timer0_A1_ISR
  PROVE  TimerInv'
<1> USE TimerFacts DEF TimerInv
<1> DEFINE flag == T!Min(T!Pending(ifg, ie))
<1>1. flag \in ifg /\ (flag = T!OF \/ flag \in ie)
  <2>1. T!Pending(ifg, ie) \in SUBSET {0, 2, 3, 4, 5}
    BY DEF T!Pending, CounterTypes, T!Ccr, T!OF
  <2>2. flag \in T!Pending(ifg, ie)
    BY <2>1, MinIsIn DEF T!timer0_A1_ISR
  <2> QED
    BY <2>2 DEF T!Pending
<1>2. /\ T!Served(flag) /\ tar' = tar /\ asked' = asked /\ gone' = gone
      /\ since20' = since20 /\ 0 \notin ifg
      /\ \/ /\ flag = 3 /\ T!Wake
            /\ ccr' = [ccr EXCEPT ![3] = T!Plus(tar, TProg)]
            /\ UNCHANGED <<ie, delay_finished, delay_callback, left>>
         \/ /\ flag = 4 /\ T!Wake
            /\ delay_finished' = TRUE
            /\ UNCHANGED <<ccr, ie, delay_callback, left>>
         \/ /\ flag = 2 /\ pc' = pc /\ UNCHANGED delay_finished
            /\ \/ /\ ie' = ie \ {2} /\ delay_callback' = FALSE
                  /\ UNCHANGED <<ccr, left>>
               \/ delay_callback /\ \E d \in Duration : T!Rearm(d)
         \/ /\ flag = T!OF /\ T!Wake
            /\ UNCHANGED <<ccr, ie, delay_finished, delay_callback, left>>
  BY DEF T!timer0_A1_ISR, TickOnTime
<1> HIDE DEF flag
<1>3. /\ ifg' = ifg \ {flag} /\ late' \in Nat /\ late' <= Latency
      /\ \A c \in ifg : c \in ie /\ c # flag => late' = late
  BY <1>2, ServedFlag
<1>4. since20 <= T20 + Latency /\ asked \in Nat /\ gone \in Nat /\ since20 \in Nat
  BY DEF TickOnTime, CounterTypes, MainTypes
<1>5. /\ gone <= asked + Latency + since20 => gone <= asked + T20 + 2 * Latency
      /\ gone <= asked + late => gone <= asked + Latency
      /\ gone <= asked + Latency => gone <= asked + T20 + 2 * Latency
      /\ gone <= asked + Latency => gone <= asked + Latency + since20
  BY <1>4 DEF CounterTypes
<1>6. CASE flag = 2 /\ \E d \in Duration : T!Rearm(d)
  <2>1. PICK d \in Duration : T!Rearm(d)
    BY <1>6
  <2>2. /\ d \in Ticks /\ d > 0 /\ T!Plus(tar, d) \in Ticks
        /\ ccr' \in [T!Ccr -> Ticks] /\ ie' \subseteq T!Ccr
        /\ ccr'[0] = ccr[0] /\ ccr'[2] = T!Plus(tar, d) /\ ccr'[4] = ccr[4]
        /\ 0 \in ie' /\ 2 \in ie' /\ 4 \notin ie' /\ delay_callback' = TRUE
        /\ left' = d
    BY <2>1, RearmInv
  <2>3. pc' = pc /\ delay_finished' = delay_finished
    BY <1>2, <1>6 DEF T!OF
  <2>4. CounterTypes' /\ MainTypes'
    BY <1>2, <1>3, <2>2, <2>3 DEF CounterTypes, MainTypes
  <2>5. TickOnTime'
    BY <1>2, <1>3, <2>2 DEF TickOnTime
  <2>6. DelayOnTime'
    BY <1>2, <2>2, <2>3 DEF DelayOnTime
  <2>7. CallbackOnTime'
    BY <1>2, <1>3, <1>6, <2>2 DEF CallbackOnTime
  <2> QED
    BY <2>4, <2>5, <2>6, <2>7
<1>7. CASE flag = 2 /\ ie' = ie \ {2} /\ delay_callback' = FALSE /\ UNCHANGED <<ccr, left>>
  <2>1. pc' = pc /\ delay_finished' = delay_finished
    BY <1>2, <1>7 DEF T!OF
  <2>2. CounterTypes' /\ MainTypes'
    BY <1>2, <1>3, <1>7, <2>1 DEF CounterTypes, MainTypes
  <2>3. TickOnTime' /\ CallbackOnTime'
    BY <1>2, <1>3, <1>7 DEF TickOnTime, CallbackOnTime
  <2>4. (4 \in ie' <=> 4 \in ie) /\ (4 \in ifg' <=> 4 \in ifg)
    BY <1>3, <1>7
  <2>5. 4 \in ifg /\ 4 \in ie => late' = late
    BY <1>3, <1>7
  <2>6. DelayOnTime'
    BY <1>2, <1>7, <2>1, <2>4, <2>5 DEF DelayOnTime
  <2> QED
    BY <2>2, <2>3, <2>6
<1>8. CASE flag = 4 /\ T!Wake /\ delay_finished' = TRUE /\ UNCHANGED <<ccr, ie, delay_callback, left>>
  <2>1. /\ pc' = (IF pc = "lpm" THEN "check" ELSE pc)
        /\ pc # "idle" => (pc' # "idle" /\ pc' # "lpm")
    BY <1>8 DEF T!Wake
  <2>2. CounterTypes' /\ MainTypes'
    BY <1>2, <1>3, <1>8, <2>1 DEF CounterTypes, MainTypes
  <2>3. TickOnTime' /\ CallbackOnTime'
    BY <1>2, <1>3, <1>8 DEF TickOnTime, CallbackOnTime
  <2>4. pc # "idle" /\ 4 \in ie /\ 4 \in ifg
    BY <1>1, <1>8 DEF DelayOnTime, T!OF
  <2>5. ~delay_finished => gone <= asked + Latency
    BY <1>5, <2>4 DEF DelayOnTime
  <2>6. (pc' = "sleep" => pc = "sleep") /\ (pc' = "check" => pc \in {"lpm", "check"})
    BY <2>1, <2>4
  <2>7. pc' = "sleep" => gone <= asked + Latency
    BY <2>4, <2>5, <2>6 DEF DelayOnTime
  <2>8. pc' = "check" => gone <= asked + T20 + 2 * Latency
    BY <1>5, <2>4, <2>5, <2>6 DEF DelayOnTime
  <2>9. DelayOnTime'
    BY <1>2, <1>8, <2>1, <2>4, <2>7, <2>8 DEF DelayOnTime
  <2> QED
    BY <2>2, <2>3, <2>9
<1>9. CASE /\ flag \in {3, T!OF} /\ T!Wake
           /\ UNCHANGED <<ie, delay_finished, delay_callback, left>>
           /\ ccr' = ccr \/ ccr' = [ccr EXCEPT ![3] = T!Plus(tar, TProg)]
  <2>1. /\ pc' = (IF pc = "lpm" THEN "check" ELSE pc)
        /\ pc' # "lpm" /\ (pc' = "idle" <=> pc = "idle") /\ (pc' = "sleep" <=> pc = "sleep")
    BY <1>9 DEF T!Wake
  <2>2. T!Plus(tar, TProg) \in Ticks
    BY Ahead DEF CounterTypes, Ticks
  <2>3. /\ ccr' \in [T!Ccr -> Ticks] /\ ccr'[0] = ccr[0] /\ ccr'[2] = ccr[2]
        /\ ccr'[4] = ccr[4]
    BY <1>9, <2>2 DEF CounterTypes, T!Ccr
  <2>4. CounterTypes' /\ MainTypes'
    BY <1>2, <1>3, <1>9, <2>1, <2>3 DEF CounterTypes, MainTypes
  <2>5. \A c \in {0, 2, 4} : c \in ifg' <=> c \in ifg
    BY <1>3, <1>9 DEF T!OF
  <2>6. TickOnTime' /\ CallbackOnTime'
    BY <1>2, <1>9, <2>3, <2>5 DEF TickOnTime, CallbackOnTime
  <2>7. 4 \in ifg /\ 4 \in ie => late' = late
    BY <1>3, <1>9 DEF T!OF
  <2>8. pc # "idle" /\ 4 \in ie /\ delay_finished => (pc' = "check" => gone <= asked + T20 + 2 * Latency)
    BY <1>5, <2>1 DEF DelayOnTime, MainTypes
  <2>9. DelayOnTime'
    BY <1>2, <1>9, <2>1, <2>3, <2>5, <2>7, <2>8 DEF DelayOnTime
  <2> QED
    BY <2>4, <2>6, <2>9
<1> QED
  BY <1>2, <1>6, <1>7, <1>8, <1>9

LEMMA DelayInv ==
  ASSUME TimerInv, NEW d \in Duration, T!timer0_delay(d)
  PROVE  TimerInv'
<1> USE DEF TimerInv
<1>1. d \in Ticks /\ d > 0
  BY TimerFacts DEF Ticks
<1>2. T!Plus(tar, d) \in Ticks
  BY <1>1, Ahead DEF CounterTypes
<1>3. /\ pc' = "sleep" /\ delay_finished' = FALSE /\ asked' = d /\ gone' = 0
      /\ ie' = ie \cup {4} /\ ccr' = [ccr EXCEPT ![4] = T!Plus(tar, d)]
      /\ UNCHANGED <<tar, ifg, late, delay_callback, since20, left>>
  BY DEF T!timer0_delay
<1>4. CounterTypes'
  BY <1>2, <1>3 DEF CounterTypes, T!Ccr
<1>5. MainTypes'
  <2>1. 0 <= T!Cap
    BY TimerFacts DEF T!Cap
  <2> QED
    BY <1>3, <2>1 DEF MainTypes
<1>6. ccr'[0] = ccr[0] /\ ccr'[2] = ccr[2] /\ ccr'[4] = T!Plus(tar, d)
  BY <1>3 DEF CounterTypes, T!Ccr
<1>7. TickOnTime' /\ CallbackOnTime'
  BY <1>3, <1>6 DEF TickOnTime, CallbackOnTime
<1>8. d - 0 = d /\ 0 <= d + late
  BY <1>1 DEF CounterTypes, Ticks
<1>9. DelayOnTime'
  BY <1>1, <1>3, <1>6, <1>8 DEF DelayOnTime
<1> QED
  BY <1>4, <1>5, <1>7, <1>9

LEMMA SleepInv ==
  ASSUME TimerInv, T!DelaySleep \/ T!DelayCheck
  PROVE  TimerInv'
<1> USE DEF TimerInv
<1>1. /\ asked \in Nat /\ gone \in Nat /\ since20 \in Nat
      /\ gone <= asked + Latency => gone <= asked + Latency + since20
  BY TimerFacts DEF MainTypes
<1>2. 0 <= T!Cap
  BY TimerFacts DEF T!Cap
<1>3. CASE T!DelaySleep
  <2>1. CounterTypes' /\ MainTypes' /\ TickOnTime' /\ CallbackOnTime'
    BY <1>3 DEF T!DelaySleep, T!timer, T!hist, CounterTypes, MainTypes, TickOnTime,
                CallbackOnTime
  <2>2. DelayOnTime'
    BY <1>1, <1>3 DEF T!DelaySleep, T!timer, T!hist, DelayOnTime
  <2> QED
    BY <2>1, <2>2
<1>4. CASE T!DelayCheck
  <2>1. CounterTypes' /\ TickOnTime' /\ CallbackOnTime'
    BY <1>4 DEF T!DelayCheck, CounterTypes, TickOnTime, CallbackOnTime
  <2>2. MainTypes'
    BY <1>2, <1>4 DEF T!DelayCheck, MainTypes
  <2>3. DelayOnTime'
    BY <1>1, <1>4 DEF T!DelayCheck, DelayOnTime
  <2> QED
    BY <2>1, <2>2, <2>3
<1> QED
  BY <1>3, <1>4

LEMMA ProgInv ==
  ASSUME TimerInv, T!timer0_create_prog_timer \/ T!timer0_destroy_prog_timer
  PROVE  TimerInv'
<1> USE DEF TimerInv
<1>1. T!Plus(tar, TProg) \in Ticks
  BY TimerFacts, Ahead DEF CounterTypes, Ticks
<1>2. /\ UNCHANGED <<tar, ifg, late, pc, delay_finished, delay_callback, asked,
                     gone, since20, left>>
      /\ ie' = ie \cup {3} \/ ie' = ie \ {3}
      /\ ccr' = ccr \/ ccr' = [ccr EXCEPT ![3] = T!Plus(tar, TProg)]
  BY DEF T!timer0_create_prog_timer, T!timer0_destroy_prog_timer, T!main, T!hist
<1>3. /\ ccr' \in [T!Ccr -> Ticks] /\ ccr'[0] = ccr[0] /\ ccr'[2] = ccr[2]
      /\ ccr'[4] = ccr[4]
  BY <1>1, <1>2 DEF CounterTypes, T!Ccr
<1>4. ie' \subseteq T!Ccr
  BY <1>2 DEF CounterTypes, T!Ccr
<1>5. (0 \in ie' <=> 0 \in ie) /\ (2 \in ie' <=> 2 \in ie) /\ (4 \in ie' <=> 4 \in ie)
  BY <1>2
<1> QED
  BY <1>2, <1>3, <1>4, <1>5
  DEF CounterTypes, MainTypes, TickOnTime, DelayOnTime, CallbackOnTime

LEMMA CallbackInv ==
  ASSUME TimerInv,
         \/ \E d \in Duration : T!timer0_delay_callback(d)
         \/ T!timer0_delay_callback_destroy
  PROVE  TimerInv'
<1> USE DEF TimerInv
<1>1. CASE \E d \in Duration : T!timer0_delay_callback(d)
  <2>1. PICK d \in Duration : T!timer0_delay_callback(d)
    BY <1>1
  <2>2. T!Rearm(d) /\ pc = "idle" /\ ifg' = ifg \ {2}
        /\ UNCHANGED <<tar, late, pc, delay_finished, asked, gone, since20>>
    BY <2>1 DEF T!timer0_delay_callback
  <2>3. /\ d \in Ticks /\ d > 0 /\ T!Plus(tar, d) \in Ticks
        /\ ccr' \in [T!Ccr -> Ticks] /\ ie' \subseteq T!Ccr
        /\ ccr'[0] = ccr[0] /\ ccr'[2] = T!Plus(tar, d) /\ ccr'[4] = ccr[4]
        /\ 0 \in ie' /\ 2 \in ie' /\ 4 \notin ie' /\ delay_callback' = TRUE
        /\ left' = d
    BY <2>2, RearmInv
  <2> QED
    BY <2>2, <2>3 DEF CounterTypes, MainTypes, TickOnTime, DelayOnTime, CallbackOnTime
<1>2. CASE T!timer0_delay_callback_destroy
  BY <1>2 DEF T!timer0_delay_callback_destroy, T!hist, CounterTypes, MainTypes,
              TickOnTime, DelayOnTime, CallbackOnTime
<1> QED
  BY <1>1, <1>2

LEMMA TimerStep ==
  ASSUME TimerInv, [T!Next]_(T!vars)
  PROVE  TimerInv'
<1>1. CASE T!Next
  BY <1>1, TickInv, A0Inv, A1Inv, DelayInv, SleepInv, ProgInv, CallbackInv DEF T!Next
<1>2. CASE UNCHANGED T!vars
  BY <1>2 DEF T!vars, T!timer, T!main, T!hist, TimerInv, CounterTypes, MainTypes,
              TickOnTime, DelayOnTime, CallbackOnTime
<1> QED
  BY <1>1, <1>2

LEMMA TimerSafe ==
  ASSUME TimerInv
  PROVE  /\ T!TypeOK /\ T!TickPeriod /\ T!DelayIsBounded
         /\ delay_callback /\ 2 \in ifg => left = 0
<1> USE TimerFacts DEF TimerInv
<1>1. T!TypeOK
  <2>1. late \in 0..Latency /\ gone \in 0..T!Cap /\ since20 \in 0..T!Cap
    BY DEF CounterTypes, MainTypes, T!Cap
  <2> QED
    BY <2>1 DEF T!TypeOK, CounterTypes, MainTypes, Ticks
<1>2. T!TickPeriod
  BY DEF T!TickPeriod, TickOnTime, CounterTypes, MainTypes
<1>3. T!DelayIsBounded
  <2> SUFFICES ASSUME pc # "idle", 4 \in ie
               PROVE  gone <= asked + T20 + 2 * Latency
    BY DEF T!DelayIsBounded
  <2>1. /\ asked \in Nat /\ gone \in Nat /\ since20 \in Nat
        /\ since20 <= T20 + Latency /\ late \in Nat /\ late <= Latency
    BY <1>2 DEF MainTypes, CounterTypes, T!TickPeriod
  <2>2. \/ gone <= asked + late \/ gone <= asked + Latency
        \/ gone <= asked + Latency + since20 \/ gone <= asked + T20 + 2 * Latency
    <3>1. gone < asked => gone <= asked + late
      BY <2>1
    <3> QED
      BY <3>1 DEF DelayOnTime, MainTypes
  <2> QED
    BY <2>1, <2>2
<1>4. delay_callback /\ 2 \in ifg => left = 0
  BY DEF CallbackOnTime
<1> QED
  BY <1>1, <1>2, <1>3, <1>4

-----------------------------------------------------------------------------
(* AccelSensor: what the accesses still to come leave in the registers.    *)

Addresses == 0..127
Data      == 0..255
Access    == [write : BOOLEAN, address : Addresses, data : Data]

\* The accesses q leave d in register a, which holds r[a] before them.
Ends(q, r, a, d) ==
  /\ \A i \in 1..Len(q) : q[i].write /\ q[i].address = a => q[i].data = d
  /\ (\E i \in 1..Len(q) : q[i].write /\ q[i].address = a) \/ r[a] = d

\* They leave the sensor in mode c with rate s.
Leads(q, r, c, s) ==
  /\ Ends(q, r, C!Ctrl, C!CtrlOf(c, s))
  /\ \A i \in 1..Len(C!Parameters(c)) :
       Ends(q, r, C!Parameters(c)[i].address, C!Parameters(c)[i].data)

AccTypes ==
  /\ todo \in Seq(Access) /\ byte \in 0..2
  /\ csn \in {0, 1} /\ latched \in {C!None} \cup Addresses
  /\ as_ok \in BOOLEAN /\ power \in BOOLEAN /\ intIE \in BOOLEAN
  /\ regs \in [C!Registers -> Data] /\ pending \in BOOLEAN
  /\ config \in 0..2 /\ sampling \in {1, 10}
  /\ mode \in {"off", "on", "background"} /\ timeout \in 0..Timeout
  /\ shown \in BOOLEAN /\ registered \in BOOLEAN
  /\ submenu \in {"mode", "params", "status", "axis"}

\* The power is the mode's, and the time of a mode that measures is not up.
Powered ==
  /\ power <=> (mode # "off")
  /\ intIE <=> power
  /\ power => registered
  /\ mode # "off" => timeout > 0

\* Nothing is on the wire after a timeout; before, the line is selected during
\* an access, and the sensor knows the register in its second byte.
OnTheWire ==
  /\ byte # 0 => as_ok /\ todo # <<>>
  /\ power /\ as_ok =>
       /\ byte = 0 => csn = 1 /\ latched = C!None
       /\ byte # 0 => csn = 0
       /\ byte = 2 => latched = Head(todo).address

AccInv ==
  /\ AccTypes /\ Powered /\ OnTheWire
  /\ power /\ as_ok => Leads(todo, regs, config, sampling)

LEMMA AccFacts == Timeout \in Nat /\ Timeout > 0
BY DriversAssumption DEF C!AccelAssumption

\* Writing the first access of q leaves to the others what q would have left.
LEMMA EndsHead ==
  ASSUME NEW q \in Seq(Access), q # <<>>, NEW r \in [C!Registers -> Data],
         NEW a \in C!Registers, NEW d, Ends(q, r, a, d),
         NEW n, n = IF Head(q).write /\ Head(q).address \in C!Registers
                    THEN [r EXCEPT ![Head(q).address] = Head(q).data] ELSE r
  PROVE  Ends(Tail(q), n, a, d)
<1>1. /\ Len(q) \in Nat /\ Len(q) > 0 /\ Len(Tail(q)) = Len(q) - 1
      /\ Head(q) = q[1] /\ \A i \in 1..Len(Tail(q)) : Tail(q)[i] = q[i + 1]
  OBVIOUS
<1>2. \A i \in 1..Len(Tail(q)) : i + 1 \in 1..Len(q)
  BY <1>1
<1>3. \A i \in 1..Len(Tail(q)) :
        Tail(q)[i].write /\ Tail(q)[i].address = a => Tail(q)[i].data = d
  BY <1>1, <1>2 DEF Ends
<1>4. CASE \E i \in 1..Len(Tail(q)) : Tail(q)[i].write /\ Tail(q)[i].address = a
  BY <1>3, <1>4 DEF Ends
<1>5. CASE ~\E i \in 1..Len(Tail(q)) : Tail(q)[i].write /\ Tail(q)[i].address = a
  <2>1. CASE q[1].write /\ q[1].address = a
    <3>1. q[1].data = d
      BY <1>1, <2>1 DEF Ends
    <3>2. n[a] = d
      BY <1>1, <2>1, <3>1
    <3> QED
      BY <1>3, <3>2 DEF Ends
  <2>2. CASE ~(q[1].write /\ q[1].address = a)
    <3>1. \A i \in 1..Len(q) : i = 1 \/ (i - 1 \in 1..Len(Tail(q)) /\ q[i] = Tail(q)[i - 1])
      BY <1>1
    <3>2. r[a] = d
      BY <1>5, <2>2, <3>1 DEF Ends
    <3>3. n[a] = r[a]
      BY <1>1, <2>2
    <3> QED
      BY <1>3, <3>2, <3>3 DEF Ends
  <2> QED
    BY <2>1, <2>2
<1> QED
  BY <1>4, <1>5

\* Reading changes nothing.
LEMMA EndsReads ==
  ASSUME NEW q, NEW r, NEW a, NEW d, Ends(<<>>, r, a, d),
         \A i \in 1..Len(q) : ~q[i].write
  PROVE  Ends(q, r, a, d)
BY DEF Ends

\* The parameters of a mode, and the registers they go to.
LEMMA Modes ==
  ASSUME NEW c \in 0..2, NEW s \in {1, 10}
  PROVE  /\ C!Parameters(c) \in Seq(Access)
         /\ C!CtrlOf(c, s) \in Data
         /\ Len(C!Parameters(c)) \in {0, 2}
         /\ \A i \in 1..Len(C!Parameters(c)) :
              /\ C!Parameters(c)[i].write
              /\ C!Parameters(c)[i].address \in C!Registers \ {C!Ctrl}
         /\ \A i, j \in 1..Len(C!Parameters(c)) :
              C!Parameters(c)[i].address = C!Parameters(c)[j].address => i = j
<1> USE DEF C!Parameters, C!W, C!Fall, C!Measurement, C!Activity, C!MDFFTMR,
            C!MDTHR, C!FFTHR, C!Ctrl, C!Registers, Access, Addresses, Data
<1>1. C!CtrlOf(c, s) \in Data
  BY DEF C!CtrlOf
<1>2. CASE c = 0
  BY <1>1, <1>2
<1>3. CASE c = 1
  BY <1>1, <1>3
<1>4. CASE c = 2
  BY <1>1, <1>4
<1> QED
  BY <1>2, <1>3, <1>4

\* Changing the mode, after other accesses or not, leads to it.
LEMMA ChangeMode ==
  ASSUME NEW c \in 0..2, NEW s \in {1, 10}, NEW r, NEW p \in Seq(Access),
         \A i \in 1..Len(p) : p[i].address \notin C!Registers
  PROVE  /\ p \o C!change_mode(c, s) \in Seq(Access)
         /\ Leads(p \o C!change_mode(c, s), r, c, s)
<1> DEFINE ps == C!Parameters(c)
           w  == C!W(C!Ctrl, C!CtrlOf(c, s))
           m  == ps \o <<w>>
           q  == p \o m
<1>1. /\ ps \in Seq(Access) /\ Len(ps) \in Nat
      /\ \A i \in 1..Len(ps) : ps[i].write /\ ps[i].address \in C!Registers \ {C!Ctrl}
      /\ \A i, j \in 1..Len(ps) : ps[i].address = ps[j].address => i = j
  BY Modes
<1>2. /\ w \in Access /\ w.write /\ w.address = C!Ctrl /\ w.data = C!CtrlOf(c, s)
      /\ C!Ctrl \in C!Registers
  BY Modes DEF Access, Addresses, C!W, C!Ctrl, C!Registers
<1> HIDE DEF ps, w
<1>3. /\ m \in Seq(Access) /\ Len(m) = Len(ps) + 1 /\ m[Len(ps) + 1] = w
      /\ \A i \in 1..Len(ps) : m[i] = ps[i]
  BY <1>1, <1>2
<1> HIDE DEF m
<1>4. /\ q \in Seq(Access) /\ Len(q) = Len(p) + Len(m) /\ Len(p) \in Nat
      /\ \A i \in 1..Len(p) : q[i] = p[i]
      /\ \A i \in 1..Len(m) : q[Len(p) + i] = m[i]
  BY <1>3
<1> HIDE DEF q
<1>5. \A i \in 1..Len(q) :
        \/ q[i].address \notin C!Registers
        \/ \E j \in 1..Len(ps) : q[i] = ps[j]
        \/ q[i] = w
  <2> SUFFICES ASSUME NEW i \in 1..Len(q), i > Len(p)
               PROVE  (\E j \in 1..Len(ps) : q[i] = ps[j]) \/ q[i] = w
    BY <1>4
  <2>1. i - Len(p) \in 1..Len(m) /\ i = Len(p) + (i - Len(p))
    BY <1>3, <1>4, <1>1
  <2>2. q[i] = m[i - Len(p)]
    BY <1>4, <2>1
  <2>3. i - Len(p) \in 1..Len(ps) \/ i - Len(p) = Len(ps) + 1
    <3>1. \A k \in 1..Len(ps) + 1 : k \in 1..Len(ps) \/ k = Len(ps) + 1
      BY <1>1
    <3> QED
      BY <1>3, <2>1, <3>1
  <2> QED
    BY <1>3, <2>2, <2>3
<1>6. \E i \in 1..Len(q) : q[i] = w
  <2>1. Len(ps) + 1 \in 1..Len(m) /\ Len(p) + (Len(ps) + 1) \in 1..Len(q)
    BY <1>1, <1>3, <1>4
  <2> QED
    BY <1>3, <1>4, <2>1
<1>7. \A j \in 1..Len(ps) : \E i \in 1..Len(q) : q[i] = ps[j]
  <2> SUFFICES ASSUME NEW j \in 1..Len(ps)
               PROVE  \E i \in 1..Len(q) : q[i] = ps[j]
    OBVIOUS
  <2>1. j \in 1..Len(m) /\ Len(p) + j \in 1..Len(q)
    BY <1>1, <1>3, <1>4
  <2> QED
    BY <1>3, <1>4, <2>1
<1>8. Ends(q, r, C!Ctrl, C!CtrlOf(c, s))
  BY <1>1, <1>2, <1>5, <1>6 DEF Ends
<1>9. \A j \in 1..Len(ps) : Ends(q, r, ps[j].address, ps[j].data)
  <2> SUFFICES ASSUME NEW j \in 1..Len(ps)
               PROVE  Ends(q, r, ps[j].address, ps[j].data)
    OBVIOUS
  <2>1. ps[j].write /\ ps[j].address \in C!Registers /\ ps[j].address # w.address
    BY <1>1, <1>2
  <2>2. ASSUME NEW i \in 1..Len(q), q[i].address = ps[j].address
        PROVE  q[i] = ps[j]
    BY <1>1, <1>5, <2>1, <2>2
  <2>3. \E i \in 1..Len(q) : q[i].write /\ q[i].address = ps[j].address
    BY <1>7, <2>1
  <2> QED
    BY <2>2, <2>3 DEF Ends
<1> QED
  BY <1>4, <1>8, <1>9 DEF Leads, C!change_mode, ps, w, m, q

\* An exchange on the line, and what else stays the same in it.
LEMMA LeadsHead ==
  ASSUME NEW q \in Seq(Access), q # <<>>, NEW r \in [C!Registers -> Data],
         NEW c \in 0..2, NEW s \in {1, 10}, Leads(q, r, c, s),
         NEW n, n = IF Head(q).write /\ Head(q).address \in C!Registers
                    THEN [r EXCEPT ![Head(q).address] = Head(q).data] ELSE r
  PROVE  Leads(Tail(q), n, c, s)
<1>1. C!Ctrl \in C!Registers
  BY DEF C!Ctrl, C!Registers
<1>2. \A i \in 1..Len(C!Parameters(c)) : C!Parameters(c)[i].address \in C!Registers
  BY Modes
<1> QED
  BY <1>1, <1>2, EndsHead DEF Leads

\* Reading leads where the registers are.
LEMMA LeadsReads ==
  ASSUME NEW q, NEW r, NEW c, NEW s, Leads(<<>>, r, c, s),
         \A i \in 1..Len(q) : ~q[i].write
  PROVE  Leads(q, r, c, s)
BY EndsReads DEF Leads

LEMMA Reads ==
  /\ <<C!R(C!IntStatus)>> \in Seq(Access) /\ <<C!R(C!Ctrl)>> \in Seq(Access)
  /\ <<C!R(C!IntStatus), C!R(6), C!R(7), C!R(8)>> \in Seq(Access)
  /\ \A i \in 1..Len(<<C!R(C!IntStatus)>>) : ~<<C!R(C!IntStatus)>>[i].write
  /\ \A i \in 1..Len(<<C!R(C!Ctrl)>>) : ~<<C!R(C!Ctrl)>>[i].write
  /\ \A i \in 1..Len(<<C!R(C!IntStatus), C!R(6), C!R(7), C!R(8)>>) :
       ~<<C!R(C!IntStatus), C!R(6), C!R(7), C!R(8)>>[i].write
BY DEF C!R, C!IntStatus, C!Ctrl, Access, Addresses, Data

LEMMA AccInit ==
  ASSUME C!Init
  PROVE  AccInv
<1> USE AccFacts DEF C!Init
<1>1. regs \in [C!Registers -> Data]
  BY DEF C!Cleared, Data
<1>2. timeout \in 0..Timeout /\ timeout > 0
  OBVIOUS
<1>3. AccTypes
  <2>1. config \in 0..2 /\ byte \in 0..2 /\ todo \in Seq(Access)
    BY DEF C!Fall
  <2> QED
    BY <1>1, <1>2, <2>1 DEF AccTypes
<1>4. Powered /\ OnTheWire
  BY <1>2 DEF Powered, OnTheWire
<1> QED
  BY <1>3, <1>4 DEF AccInv

\* One step on the line.
LEMMA WireInv ==
  ASSUME AccInv, C!Refuse \/ C!Select \/ C!Exchange \/ C!TimesOut
  PROVE  AccInv'
<1> USE DEF AccInv
<1>1. todo # <<>> /\ todo \in Seq(Access)
  BY DEF AccTypes, C!Refuse, C!Select, C!Exchange, C!TimesOut
<1>2. Tail(todo) \in Seq(Access) /\ Head(todo) \in Access
  BY <1>1
<1>3. Head(todo).address \in Addresses /\ Head(todo).data \in Data
  BY <1>2 DEF Access
<1>4. CASE C!Refuse
  <2>1. AccTypes' /\ Powered' /\ OnTheWire'
    BY <1>2, <1>4 DEF C!Refuse, AccTypes, Powered, OnTheWire, C!pins, C!sensor,
                      C!settings, C!module
  <2> QED
    BY <1>4, <2>1 DEF C!Refuse, C!pins
<1>5. CASE C!Select
  <2>1. AccTypes' /\ Powered' /\ OnTheWire'
    BY <1>5 DEF C!Select, AccTypes, Powered, OnTheWire, C!sensor, C!settings, C!module
  <2> QED
    BY <1>5, <2>1 DEF C!Select, C!sensor, C!settings
<1>6. ASSUME C!Takes(Head(todo)), power' = power, csn' \in {0, 1}
      PROVE  regs' \in [C!Registers -> Data] /\ latched' \in {C!None} \cup Addresses
  BY <1>3, <1>6 DEF C!Takes, C!sensor, AccTypes
<1>7. CASE C!Exchange
  <2>1. /\ UNCHANGED <<as_ok, power, intIE, pending>> /\ UNCHANGED C!settings
        /\ UNCHANGED C!module /\ C!Takes(Head(todo)) /\ byte \in {1, 2} /\ as_ok
        /\ csn' \in {0, 1}
    BY <1>7 DEF C!Exchange, AccTypes, OnTheWire
  <2>2. regs' \in [C!Registers -> Data] /\ latched' \in {C!None} \cup Addresses
    BY <1>6, <2>1
  <2>3. AccTypes' /\ Powered'
    <3>1. todo' \in Seq(Access) /\ byte' \in 0..2
      BY <1>1, <1>2, <1>7 DEF C!Exchange
    <3> QED
      BY <2>1, <2>2, <3>1 DEF AccTypes, Powered, C!settings, C!module
  <2>4. CASE power /\ byte = 1
    <3>1. latched' = Head(todo).address /\ regs' = regs /\ byte' = 2 /\ todo' = todo /\ csn' = csn
      BY <1>7, <2>1, <2>4 DEF C!Exchange, C!Takes, C!Heard, OnTheWire
    <3>2. OnTheWire'
      BY <1>1, <2>1, <2>4, <3>1 DEF OnTheWire
    <3> QED
      BY <2>1, <2>3, <2>4, <3>1, <3>2 DEF C!settings
  <2>5. CASE power /\ byte = 2
    <3>1. /\ latched' = C!None /\ byte' = 0 /\ todo' = Tail(todo) /\ csn' = 1
          /\ regs' = IF Head(todo).write /\ Head(todo).address \in C!Registers
                     THEN [regs EXCEPT ![Head(todo).address] = Head(todo).data] ELSE regs
      BY <1>7, <2>1, <2>5 DEF C!Exchange, C!Takes, C!Heard, OnTheWire
    <3>2. OnTheWire'
      BY <2>1, <3>1 DEF OnTheWire
    <3>3. Leads(Tail(todo), regs', config, sampling)
      BY <1>1, <2>1, <2>5, <3>1, LeadsHead DEF AccTypes
    <3> QED
      BY <2>1, <2>3, <3>1, <3>2, <3>3 DEF C!settings
  <2>6. CASE ~power
    <3>1. OnTheWire'
      BY <1>1, <1>7, <2>1, <2>6 DEF OnTheWire, C!Exchange
    <3> QED
      BY <2>1, <2>3, <2>6, <3>1
  <2> QED
    BY <2>1, <2>4, <2>5, <2>6 DEF AccTypes
<1>8. CASE C!TimesOut
  <2>1. regs' \in [C!Registers -> Data] /\ latched' \in {C!None} \cup Addresses
    BY <1>6, <1>8 DEF C!TimesOut, AccTypes, C!sensor
  <2>2. AccTypes' /\ Powered' /\ OnTheWire'
    <3>1. todo' \in Seq(Access) /\ byte' = 0 /\ as_ok' = FALSE
      BY <1>2, <1>8 DEF C!TimesOut
    <3>2. AccTypes' /\ Powered'
      <4>1. UNCHANGED <<power, csn, intIE, pending, config, sampling, mode,
                        timeout, shown, registered, submenu>>
        BY <1>8 DEF C!TimesOut, C!settings, C!module
      <4> QED
        BY <2>1, <3>1, <4>1, byte' \in 0..2 DEF AccTypes, Powered
    <3> QED
      BY <3>1, <3>2 DEF OnTheWire
  <2> QED
    BY <1>8, <2>2 DEF C!TimesOut
<1> QED
  BY <1>4, <1>5, <1>7, <1>8

\* A handler that reads, or does nothing with the sensor.
LEMMA QuietInv ==
  ASSUME AccInv,
         \/ C!star_long_pressed \/ C!num_pressed \/ C!Second \/ C!SensorEvent
         \/ C!Interrupt
  PROVE  AccInv'
<1> USE DEF AccInv
<1>1. /\ UNCHANGED <<byte, as_ok, power, csn, intIE, regs, latched, config, sampling,
                     timeout, registered>>
      /\ shown' = shown /\ pending' \in BOOLEAN /\ submenu' \in {"mode", "params", "status", "axis"}
      /\ mode' \in {"off", "on", "background"} /\ (mode' = "off" <=> mode = "off")
  BY DEF C!star_long_pressed, C!num_pressed, C!Second, C!SensorEvent, C!Interrupt,
         C!wire, C!pins, C!sensor, C!settings, C!module, AccTypes
<1>2. \/ todo' = todo
      \/ /\ todo = <<>> /\ byte = 0 /\ todo' \in Seq(Access)
         /\ \A i \in 1..Len(todo') : ~todo'[i].write
  BY Reads DEF C!star_long_pressed, C!num_pressed, C!Second, C!SensorEvent,
               C!Interrupt, C!wire, C!Idle
<1>3. AccTypes' /\ Powered'
  BY <1>1, <1>2 DEF AccTypes, Powered
<1>4. OnTheWire'
  BY <1>1, <1>2 DEF OnTheWire
<1>5. power /\ as_ok => Leads(todo', regs, config, sampling)
  BY <1>2, LeadsReads
<1> QED
  BY <1>1, <1>3, <1>4, <1>5

LEMMA ActivatedInv ==
  ASSUME AccInv, C!acc_activated
  PROVE  AccInv'
<1> USE AccFacts DEF AccInv
<1>1. CASE as_ok /\ mode # "background"
  <2>1. /\ C!as_start(C!Activity, 1) /\ config' = C!Activity /\ sampling' = 1
        /\ timeout' = Timeout /\ mode' = "on" /\ submenu' = "mode"
        /\ shown' = TRUE /\ registered' = TRUE /\ byte' = byte /\ as_ok' = as_ok
        /\ byte = 0
    BY <1>1 DEF C!acc_activated, C!Idle
  <2>2. /\ power' = TRUE /\ csn' = 1 /\ intIE' = TRUE /\ pending' = FALSE
        /\ regs' = C!Cleared /\ latched' = C!None
        /\ todo' = <<C!W(4, 2), C!W(4, 10), C!W(4, 4)>> \o C!change_mode(C!Activity, 1)
    BY <2>1 DEF C!as_start
  <2>3. /\ <<C!W(4, 2), C!W(4, 10), C!W(4, 4)>> \in Seq(Access)
        /\ \A i \in 1..Len(<<C!W(4, 2), C!W(4, 10), C!W(4, 4)>>) :
             <<C!W(4, 2), C!W(4, 10), C!W(4, 4)>>[i].address \notin C!Registers
    BY DEF C!W, Access, Addresses, Data, C!Registers, C!Ctrl, C!MDTHR, C!MDFFTMR,
           C!FFTHR
  <2>4. C!Activity \in 0..2
    BY DEF C!Activity
  <2>5. todo' \in Seq(Access) /\ Leads(todo', regs', config', sampling')
    BY <2>1, <2>2, <2>3, <2>4, ChangeMode
  <2>6. regs' \in [C!Registers -> Data]
    BY <2>2 DEF C!Cleared, Data
  <2>7. timeout' \in 0..Timeout /\ timeout' > 0
    BY <2>1
  <2>8. AccTypes' /\ Powered'
    BY <2>1, <2>2, <2>4, <2>5, <2>6, <2>7 DEF AccTypes, Powered
  <2>9. OnTheWire'
    BY <2>1, <2>2 DEF OnTheWire
  <2> QED
    BY <2>5, <2>8, <2>9
<1>2. CASE ~(as_ok /\ mode # "background")
  <2>1. /\ UNCHANGED <<todo, power, csn, intIE, regs, latched, pending, config,
                       sampling, timeout, mode, submenu, byte, as_ok>>
        /\ shown' = TRUE /\ registered' = TRUE
    BY <1>2 DEF C!acc_activated, C!sensor, C!settings
  <2>2. AccTypes' /\ Powered' /\ OnTheWire'
    BY <2>1 DEF AccTypes, Powered, OnTheWire
  <2> QED
    BY <2>1, <2>2
<1> QED
  BY <1>1, <1>2

LEMMA DeactivatedInv ==
  ASSUME AccInv, C!acc_deactivated
  PROVE  AccInv'
<1> USE DEF AccInv
<1>1. /\ todo = <<>> /\ byte = 0 /\ shown' = FALSE
      /\ UNCHANGED <<todo, byte, as_ok, pending, config, sampling, timeout, submenu>>
  BY DEF C!acc_deactivated, C!Idle, C!wire, C!settings
<1>2. CASE mode = "background"
  <2>1. UNCHANGED <<registered, mode, power, csn, intIE, regs, latched>>
    BY <1>2 DEF C!acc_deactivated, C!sensor
  <2>2. AccTypes' /\ Powered' /\ OnTheWire'
    BY <1>1, <2>1 DEF AccTypes, Powered, OnTheWire
  <2> QED
    BY <1>1, <2>1, <2>2
<1>3. CASE mode # "background"
  <2>1. /\ registered' = FALSE /\ mode' = "off" /\ power' = FALSE /\ csn' = 0
        /\ intIE' = FALSE /\ regs' = C!Cleared /\ latched' = C!None
    BY <1>3 DEF C!acc_deactivated, C!as_stop
  <2>2. regs' \in [C!Registers -> Data]
    BY <2>1 DEF C!Cleared, Data
  <2>3. AccTypes' /\ Powered' /\ OnTheWire'
    BY <1>1, <2>1, <2>2 DEF AccTypes, Powered, OnTheWire
  <2> QED
    BY <2>1, <2>3
<1> QED
  BY <1>2, <1>3

LEMMA UpBtnInv ==
  ASSUME AccInv, C!up_btn
  PROVE  AccInv'
<1> USE DEF AccInv
<1>1. /\ todo = <<>> /\ byte = 0 /\ sampling' = sampling
      /\ UNCHANGED <<byte, as_ok, power, csn, intIE, regs, latched, pending, mode,
                     timeout, shown, registered, submenu>>
  BY DEF C!up_btn, C!Idle, C!pins, C!sensor, C!module
<1>2. config' \in 0..2 /\ todo' \in Seq(Access)
      /\ (power /\ as_ok => Leads(todo', regs, config', sampling))
  <2>1. CASE submenu = "mode"
    <3> DEFINE c == (config + 1) % 3
    <3>1. c \in 0..2
      BY DEF AccTypes
    <3> HIDE DEF c
    <3>2. <<>> \in Seq(Access) /\ \A i \in 1..Len(<<>>) : <<>>[i].address \notin C!Registers
      OBVIOUS
    <3>3. C!change_mode(c, sampling) = <<>> \o C!change_mode(c, sampling)
      <4>1. C!Parameters(c) \in Seq(Access)
        BY <3>1, Modes DEF AccTypes
      <4>2. C!change_mode(c, sampling) \in Seq(Access \cup {C!W(C!Ctrl, C!CtrlOf(c, sampling))})
        BY <4>1 DEF C!change_mode
      <4> QED
        BY <4>2
    <3>4. config' = c /\ todo' = C!change_mode(c, sampling)
      BY <2>1 DEF C!up_btn, c
    <3>5. /\ <<>> \o C!change_mode(c, sampling) \in Seq(Access)
          /\ Leads(<<>> \o C!change_mode(c, sampling), regs, c, sampling)
      BY <3>1, <3>2, ChangeMode DEF AccTypes
    <3> QED
      BY <3>1, <3>3, <3>4, <3>5
  <2>2. CASE submenu = "params"
    <3>1. config' = config /\ todo' = <<C!R(C!Ctrl)>>
      BY <2>2 DEF C!up_btn
    <3> QED
      BY <1>1, <3>1, Reads, LeadsReads DEF AccTypes
  <2>3. CASE submenu \notin {"mode", "params"}
    <3>1. config' = config /\ todo' = todo
      BY <2>3 DEF C!up_btn
    <3> QED
      BY <3>1 DEF AccTypes
  <2> QED
    BY <2>1, <2>2, <2>3
<1>3. AccTypes' /\ Powered' /\ OnTheWire'
  BY <1>1, <1>2 DEF AccTypes, Powered, OnTheWire
<1> QED
  BY <1>1, <1>2, <1>3

LEMMA MinuteInv ==
  ASSUME AccInv, C!Minute
  PROVE  AccInv'
<1> USE AccFacts DEF AccInv
<1>1. /\ todo = <<>> /\ byte = 0 /\ todo' = <<C!R(C!IntStatus)>>
      /\ timeout' = (IF mode = "on" THEN timeout - 1 ELSE timeout)
      /\ UNCHANGED <<byte, as_ok, pending, config, sampling, shown, registered, submenu>>
  BY DEF C!Minute, C!Idle, C!settings
<1>2. timeout' \in 0..Timeout
  BY <1>1 DEF AccTypes, Powered
<1>3. todo' \in Seq(Access) /\ (power /\ as_ok => Leads(todo', regs, config, sampling))
  BY <1>1, Reads, LeadsReads
<1>4. CASE timeout' < 1
  <2>1. /\ mode' = "off" /\ power' = FALSE /\ csn' = 0
        /\ intIE' = FALSE /\ regs' = C!Cleared /\ latched' = C!None
    BY <1>1, <1>4 DEF C!Minute, C!as_stop
  <2>2. regs' \in [C!Registers -> Data]
    BY <2>1 DEF C!Cleared, Data
  <2>3. AccTypes' /\ Powered' /\ OnTheWire'
    BY <1>1, <1>2, <1>3, <2>1, <2>2 DEF AccTypes, Powered, OnTheWire
  <2> QED
    BY <2>1, <2>3
<1>5. CASE ~(timeout' < 1)
  <2>1. UNCHANGED <<power, csn, intIE, regs, latched, mode>> /\ timeout' > 0
    <3>1. timeout' > 0
      BY <1>2, <1>5
    <3> QED
      BY <1>1, <1>5, <3>1 DEF C!Minute, C!sensor
  <2>2. AccTypes' /\ Powered' /\ OnTheWire'
    BY <1>1, <1>2, <1>3, <2>1 DEF AccTypes, Powered, OnTheWire
  <2> QED
    BY <1>1, <1>3, <2>1, <2>2
<1> QED
  BY <1>4, <1>5

LEMMA AccStep ==
  ASSUME AccInv, [C!Next]_(C!vars)
  PROVE  AccInv'
<1>1. CASE C!Next
  BY <1>1, WireInv, QuietInv, ActivatedInv, DeactivatedInv, UpBtnInv, MinuteInv
  DEF C!Next
<1>2. CASE UNCHANGED C!vars
  BY <1>2 DEF C!vars, C!wire, C!pins, C!sensor, C!settings, C!module, AccInv,
              AccTypes, Powered, OnTheWire
<1> QED
  BY <1>1, <1>2

LEMMA AccSafe ==
  ASSUME AccInv
  PROVE  C!TypeOK /\ C!PowerFollowsMode /\ C!SensorIsConfigured
<1> USE DEF AccInv
<1>1. C!TypeOK
  <2>1. latched \in -1..127
    BY DEF AccTypes, Addresses, C!None
  <2>2. regs \in [C!Registers -> 0..255]
    BY DEF AccTypes, Data
  <2> QED
    BY <2>1, <2>2 DEF AccTypes, C!TypeOK
<1>2. C!PowerFollowsMode
  BY DEF Powered, C!PowerFollowsMode
<1>3. C!SensorIsConfigured
  <2> SUFFICES ASSUME C!Idle, power, as_ok
               PROVE  /\ csn = 1 /\ latched = C!None
                      /\ regs[C!Ctrl] = C!CtrlOf(config, sampling)
                      /\ \A i \in 1..Len(C!Parameters(config)) :
                           regs[C!Parameters(config)[i].address] = C!Parameters(config)[i].data
    BY DEF C!SensorIsConfigured
  <2>1. Leads(<<>>, regs, config, sampling)
    BY DEF C!Idle
  <2> QED
    BY <2>1 DEF C!Idle, OnTheWire, Leads, Ends
<1> QED
  BY <1>1, <1>2, <1>3

LEMMA SilentStep ==
  ASSUME AccInv, [C!Next]_(C!vars), ~as_ok
  PROVE  byte' = 0 /\ (power' => UNCHANGED regs)
<1>1. byte = 0
  BY DEF AccInv, AccTypes, OnTheWire
<1> QED
  BY <1>1 DEF C!Next, C!vars, C!Refuse, C!Select, C!Exchange, C!TimesOut, C!Interrupt,
     C!acc_activated, C!acc_deactivated, C!star_long_pressed, C!num_pressed, C!up_btn,
     C!Minute, C!Second, C!SensorEvent, C!as_stop, C!wire, C!pins, C!sensor, C!module

-----------------------------------------------------------------------------
(* The parts together.                                                     *)

DriversInv == PortsInv /\ AdcInv /\ TimerInv /\ AccInv

LEMMA DriversInit ==
  ASSUME Init
  PROVE  DriversInv
BY PortsInit, AdcInit, TimerInit, AccInit DEF Init, DriversInv

\* A step of one part leaves the others' variables as they are.
LEMMA Parts ==
  ASSUME [Next]_vars
  PROVE  [P!Next]_(P!vars) /\ [A!Next]_(A!vars) /\ [T!Next]_(T!vars) /\ [C!Next]_(C!vars)
<1>1. /\ UNCHANGED portsVars => UNCHANGED P!vars
      /\ UNCHANGED adcVars => UNCHANGED A!vars
      /\ UNCHANGED timerVars => UNCHANGED T!vars
      /\ UNCHANGED accVars => UNCHANGED C!vars
  BY DEF portsVars, P!vars, P!hw, P!drv, adcVars, A!vars, A!hw, A!result, A!diode, A!given,
         timerVars, T!vars, T!timer, T!main, T!hist, accVars, C!vars, C!wire, C!pins,
         C!sensor, C!settings, C!module
<1>2. CASE Of("ports", P!Next)
  BY <1>1, <1>2 DEF Of, Others
<1>3. CASE Of("adc", A!Next)
  BY <1>1, <1>3 DEF Of, Others
<1>4. CASE Of("timer", T!Next)
  BY <1>1, <1>4 DEF Of, Others
<1>5. CASE Of("acc", C!Next)
  BY <1>1, <1>5 DEF Of, Others
<1>6. CASE UNCHANGED vars
  BY <1>1, <1>6 DEF vars
<1> QED
  BY <1>2, <1>3, <1>4, <1>5, <1>6 DEF Next

LEMMA DriversStep ==
  ASSUME DriversInv, [Next]_vars
  PROVE  DriversInv'
BY Parts, PortsStep, AdcStep, TimerStep, AccStep DEF DriversInv

LEMMA DriversHold == Spec => []DriversInv
<1>1. Init => DriversInv
  BY DriversInit
<1>2. DriversInv /\ [Next]_vars => DriversInv'
  BY DriversStep
<1> QED
  BY <1>1, <1>2, PTL DEF Spec

(***************************************************************************)
(* The state of every driver keeps its type, for any buttons, durations,   *)
(* latencies and widths of the counters: no index leaves the window of the *)
(* readings, no voltage its range, no compare its register.                *)
(***************************************************************************)
THEOREM TypeCorrect == Spec => []TypeOK
<1>1. DriversInv => TypeOK
  BY PortsSafe, AdcSafe, TimerSafe, AccSafe DEF DriversInv, TypeOK
<1> QED
  BY <1>1, DriversHold, PTL

(***************************************************************************)
(* What the drivers report happened (drivers/ports.c, adc12.c,             *)
(* temperature.c, battery.c): a button used alone has its presses saved,   *)
(* each of its kind, and no press is taken for longer than it was; an      *)
(* answer of the converter is its request's own unless that was given up;  *)
(* the temperature lies between its readings and the battery's voltage     *)
(* moves toward what is measured and not past it.                          *)
(***************************************************************************)
THEOREM ReportsAreTrueCorrect == Spec => ReportsAreTrue
<1>1. DriversInv => P!PressesAreSaved /\ A!FreshUnlessLate /\ A!TemperatureBetween
  BY PortsSafe, AdcSafe DEF DriversInv
<1>2. DriversInv /\ [Next]_vars =>
        [\A b \in Button : <<b, "long">> \in pressed' \ pressed => age[b] > Long]_(P!vars)
  BY Parts, LongStep DEF DriversInv
<1>3. DriversInv /\ [Next]_vars =>
        [A!BatteryMeasurement =>
           LET v == A!Measured(adc12_result.reading)
           IN \/ voltage <= voltage' /\ voltage' <= v
              \/ v <= voltage' /\ voltage' < voltage
              \/ v = voltage' /\ v = voltage
              \/ v - voltage \in 0..4 /\ voltage' = voltage]_(A!vars)
  BY BatteryStep DEF DriversInv
<1>4. Spec => []P!PressesAreSaved /\ []A!FreshUnlessLate /\ []A!TemperatureBetween
  BY <1>1, DriversHold, PTL
<1>5. Spec => P!LongWasLong
  BY <1>2, DriversHold, PTL DEF Spec, P!LongWasLong
<1>6. Spec => A!BatteryFollows
  BY <1>3, DriversHold, PTL DEF Spec, A!BatteryFollows
<1> QED
  BY <1>4, <1>5, <1>6 DEF ReportsAreTrue

(***************************************************************************)
(* The timer keeps time (drivers/timer.c) with any period shorter than the *)
(* counter's width, however the handlers are late: the period of the 20 Hz *)
(* tick, the end of a delay and the start of a callback.                   *)
(***************************************************************************)
THEOREM TimersKeepTimeCorrect == Spec => TimersKeepTime
<1>1. DriversInv => T!TickPeriod /\ T!DelayIsBounded
  BY TimerSafe DEF DriversInv
<1>2. DriversInv /\ [Next]_vars =>
        [delay_callback /\ ifg \ ifg' = {2} /\ pc' = pc /\ ccr' = ccr
         /\ ie \ ie' = {2} => left = 0]_(T!vars)
  <2>1. ifg \ ifg' = {2} => 2 \in ifg
    OBVIOUS
  <2> QED
    BY <2>1, TimerSafe DEF DriversInv
<1>3. Spec => []T!TickPeriod /\ []T!DelayIsBounded
  BY <1>1, DriversHold, PTL
<1>4. Spec => T!CallbackIsDue
  BY <1>2, DriversHold, PTL DEF Spec, T!CallbackIsDue
<1> QED
  BY <1>3, <1>4 DEF TimersKeepTime

(***************************************************************************)
(* The acceleration sensor (drivers/vti_as.c, modules/accelerometer.c) is  *)
(* powered exactly while the module measures, is between handlers in the   *)
(* mode and with the parameters the module believes, whichever accesses a  *)
(* handler made, and hears nothing after a transfer timed out.             *)
(***************************************************************************)
THEOREM SensorIsConfiguredCorrect == Spec => SensorIsConfigured
<1>1. DriversInv => C!PowerFollowsMode /\ C!SensorIsConfigured
  BY AccSafe DEF DriversInv
<1>2. DriversInv /\ [Next]_vars =>
        [~as_ok => byte' = 0 /\ (power' => UNCHANGED regs)]_(C!vars)
  BY Parts, SilentStep DEF DriversInv
<1>3. Spec => []C!PowerFollowsMode /\ []C!SensorIsConfigured
  BY <1>1, DriversHold, PTL
<1>4. Spec => C!SilentAfterTimeout
  BY <1>2, DriversHold, PTL DEF Spec, C!SilentAfterTimeout
<1> QED
  BY <1>3, <1>4 DEF SensorIsConfigured
=============================================================================
