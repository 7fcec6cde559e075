--------------------------- MODULE PressureSensor ---------------------------
(***************************************************************************)
(* The driver of the pressure sensor (drivers/vti_ps.c) and the two wires  *)
(* it bangs, against a sensor that follows the wires.                      *)
(*                                                                         *)
(* A step changes one pin or reads one; the sensor sees the edge in the    *)
(* same step.  It may leave any byte unacknowledged.  A call is a sequence *)
(* of register accesses and an access is a sequence of stages, each a list *)
(* of pin operations (todo) that ends where the code looks at an           *)
(* acknowledge.                                                            *)
(***************************************************************************)
EXTENDS Integers, Sequences, SequencesExt

CONSTANTS
  Calls,     \* the functions the program calls
  Contents   \* what the sensor's registers may hold

VARIABLES
  call,      \* the function that runs, or "none"
  access,    \* the access that runs
  stage,     \* its stage
  todo,      \* the pin operations left in this stage
  shift,     \* the bits read in this stage
  first,     \* what the call's first access returned
  ps_ok, drdyIE,
  scl, sdaOut, sdaDir,  \* PS_TWI_OUT and PS_TWI_DIR
  sensor,    \* the sensor: phase, count, shift, pull, pointer, next byte
  written,   \* the last register the sensor was given
  content,   \* what its registers hold
  refused,   \* a byte of this access was not acknowledged
  missed,    \* an access of this call was refused
  answer     \* what the last call returned, and of which function

pins    == <<scl, sdaOut, sdaDir>>
device  == <<sensor, written>>
flags   == <<ps_ok, drdyIE>>
program == <<call, access, first, missed, answer, content>>
vars    == <<program, stage, todo, shift, pins, device, flags, refused>>

DeviceAddress == 17   \* 0x11
NoAccess == [write |-> TRUE, address |-> 0, data |-> 0, wide |-> FALSE]

-----------------------------------------------------------------------------
(* The pin operations of ps_twi_sda, ps_twi_write and ps_twi_read.         *)

SendStart   == <<"SdaOut", "SclHi", "SdaLo", "SclLo">>
SendRestart == <<"SdaOut", "SclLo", "SdaHi", "SclHi", "SdaLo", "SclLo">>
SendStop    == <<"SdaOut", "SdaLo", "SclLo", "SclHi", "SdaHi">>
CheckAck    == <<"SdaIn", "SclLo", "SclHi", "Sample", "SclLo">>

BitOf(n, i) == (n \div 2^i) % 2

\* Fault: the data changes with the clock high.
WriteLate(data) ==
  <<"SdaOut">>
    \o FlattenSeq([i \in 1..8 |->
         <<"SclHi", IF BitOf(data, 8 - i) = 1 THEN "SdaHi" ELSE "SdaLo", "SclLo">>])
    \o <<"SdaIn">>

ps_twi_write(data) ==
  <<"SdaOut">>
    \o FlattenSeq([i \in 1..8 |->
         <<"SclLo", IF BitOf(data, 8 - i) = 1 THEN "SdaHi" ELSE "SdaLo", "SclHi">>])
    \o <<"SclLo", "SdaIn">>

\* Fault: the master's acknowledge comes before the clock falls.
ReadHasty(ack) ==
  <<"SdaIn">>
    \o FlattenSeq([i \in 1..8 |-> <<"SclLo", "SclHi", "Sample">>])
    \o <<"SdaOut", IF ack THEN "SdaLo" ELSE "SdaHi", "SclLo", "SclHi", "SclLo">>

ps_twi_read(ack) ==
  <<"SdaIn">>
    \o FlattenSeq([i \in 1..8 |-> <<"SclLo", "SclHi", "Sample">>])
    \o <<"SdaOut", "SclLo", IF ack THEN "SdaLo" ELSE "SdaHi", "SclHi", "SclLo">>

-----------------------------------------------------------------------------
(* The stages of ps_write_register and ps_read_register.                   *)

Stage1(a) == SendStart \o ps_twi_write(2 * DeviceAddress) \o CheckAck
Stage2(a) == ps_twi_write(a.address) \o CheckAck

WriteStage3(a) == ps_twi_write(a.data) \o CheckAck \o SendStop
ReadStage3(a)  == SendRestart \o ps_twi_write(2 * DeviceAddress + 1) \o CheckAck
ReadStage4(a)  ==
  (IF a.wide THEN ps_twi_read(TRUE) ELSE <<>>) \o ps_twi_read(FALSE) \o SendStop

StageOf(a, n) ==
  CASE n = 1 -> Stage1(a)
    [] n = 2 -> Stage2(a)
    [] n = 3 -> IF a.write THEN WriteStage3(a) ELSE ReadStage3(a)
    [] n = 4 -> ReadStage4(a)

LastStage(a) == IF a.write THEN 3 ELSE 4

-----------------------------------------------------------------------------
(* The sensor.                                                             *)

\* The pull-up holds the line high; where the pin is driven high against
\* the sensor, the sensor wins.
Line(dir, out) == IF sensor.pull \/ (dir = "out" /\ out = 0) THEN 0 ELSE 1

Listening(s) == s.phase \in {"device", "register", "data"}
WaitStart(s) == [s EXCEPT !.phase = "idle", !.count = 0, !.pull = FALSE]

\* The bytes a register is sent as, the most significant one first.
SentByte(p, n) ==
  IF p \in {128, 129} THEN (IF n = 1 THEN content[p] \div 256 ELSE content[p] % 256)
  ELSE IF p \in DOMAIN content THEN content[p] ELSE 0

\* It acknowledges what is meant for it, if it does at all.
MayAck(s) == s.phase # "device" \/ s.shift \div 2 = DeviceAddress

\* The ninth clock has passed: the byte is over.
ByteOver(s) ==
  LET t == [s EXCEPT !.count = 0, !.shift = 0, !.pull = FALSE]
  IN CASE ~s.acked -> WaitStart(s)
       [] s.acked /\ s.phase = "device" ->
            IF s.shift % 2 = 1 THEN [t EXCEPT !.phase = "send", !.byte = 1,
                                     !.pull = BitOf(SentByte(s.pointer, 1), 7) = 0]
                               ELSE [t EXCEPT !.phase = "register"]
       [] s.acked /\ s.phase = "register" ->
            [t EXCEPT !.phase = "data", !.pointer = s.shift]
       [] s.acked /\ s.phase = "data" -> WaitStart(s)
       [] s.acked /\ s.phase = "send" ->
            [t EXCEPT !.byte = 2, !.pull = BitOf(SentByte(s.pointer, 2), 7) = 0]

\* What the sensor makes of the line going from <<scl, before>> to
\* <<clock, after>>: a start, a stop, a rising or a falling clock.
Sees(clock, before, after) ==
  \/ /\ scl = 1 /\ clock = 1 /\ before = 1 /\ after = 0
     /\ sensor' = [WaitStart(sensor) EXCEPT !.phase = "device", !.shift = 0]
     /\ UNCHANGED <<written, refused>>
  \/ /\ scl = 1 /\ clock = 1 /\ before = 0 /\ after = 1
     /\ sensor' = WaitStart(sensor)
     /\ UNCHANGED <<written, refused>>
  \/ /\ scl = 0 /\ clock = 1 /\ sensor.phase # "idle"
     /\ sensor' =
          IF sensor.count = 8
          THEN [sensor EXCEPT !.count = 9,
                 !.acked = IF Listening(sensor) THEN @ ELSE after = 0]
          ELSE [sensor EXCEPT !.count = @ + 1,
                 !.shift = IF Listening(sensor) THEN 2 * @ + after ELSE @]
     /\ UNCHANGED <<written, refused>>
  \/ /\ scl = 1 /\ clock = 0 /\ sensor.phase # "idle"
     /\ \/ /\ sensor.count = 9
           /\ sensor' = ByteOver(sensor)
           /\ UNCHANGED <<written, refused>>
        \/ /\ sensor.count = 8 /\ Listening(sensor)
           /\ \E acks \in IF MayAck(sensor) THEN BOOLEAN ELSE {FALSE} :
                /\ sensor' = [sensor EXCEPT !.pull = acks, !.acked = acks]
                /\ refused' = (refused \/ ~acks)
           /\ written' = IF sensor.phase = "data"
                         THEN <<sensor.pointer, sensor.shift>> ELSE written
        \/ /\ sensor.count = 8 /\ ~Listening(sensor)
           /\ sensor' = [sensor EXCEPT !.pull = FALSE]
           /\ UNCHANGED <<written, refused>>
        \/ /\ sensor.count < 8
           /\ sensor' = IF Listening(sensor) \/ sensor.count = 0 THEN sensor
                        ELSE [sensor EXCEPT !.pull =
                            BitOf(SentByte(sensor.pointer, sensor.byte), 7 - sensor.count) = 0]
           /\ UNCHANGED <<written, refused>>
  \/ /\ \/ clock = scl /\ (clock = 0 \/ before = after)
        \/ clock # scl /\ sensor.phase = "idle"
     /\ UNCHANGED <<device, refused>>

-----------------------------------------------------------------------------
(* The program.                                                            *)

Write(address, data) ==
  [write |-> TRUE, address |-> address, data |-> data, wide |-> FALSE]
Read(address, wide) ==
  [write |-> FALSE, address |-> address, data |-> 0, wide |-> wide]

Reset    == Write(6, 1)
Status   == Read(7, FALSE)
Checksum == Read(127, FALSE)  \* and the upper bits of the pressure
Lower    == Read(128, TRUE)
TempOut  == Read(129, TRUE)

FirstAccess(c) ==
  CASE c = "ps_init"     -> Reset
    [] c = "ps_start"    -> Write(3, 11)
    [] c = "ps_stop"     -> Write(3, 0)
    [] c = "ps_get_pa"   -> Checksum
    [] c = "ps_get_temp" -> TempOut

\* Fault: a status of zero is accepted, what a refused read returns.
AnyEven(r) == r % 2 = 0

StatusIsGood(r) == r % 2 = 0 /\ r # 0

\* The access after a returned r, or NoAccess.
Follows(a, r) ==
  CASE call = "ps_init" /\ a = Reset -> Status
    [] call = "ps_init" /\ a = Status /\ StatusIsGood(r) -> Checksum
    [] call = "ps_get_pa" /\ a = Checksum -> Lower
    [] OTHER -> NoAccess

Pascal(high, low) == ((high % 8) * 65536 + low) \div 4

\* Fault: the sign is left in.
Unsigned(d) == 2732 + d \div 2

\* 14 bits in twentieths of a degree, the highest of them the sign
Kelvin(d) ==
  IF BitOf(d, 13) = 1 THEN 2732 - (65536 - (d + 49152)) \div 2
                      ELSE d \div 2 + 2732

NoAnswer == [of |-> "none", value |-> 0, missed |-> FALSE]

Idle == [phase |-> "idle", count |-> 0, shift |-> 0, pull |-> FALSE,
         acked |-> FALSE, pointer |-> 0, byte |-> 0]

\* ps_init has set its pins.
Init ==
  /\ call = "ps_init" /\ access = Reset /\ stage = 1 /\ todo = Stage1(Reset)
  /\ shift = 0 /\ first = 0 /\ answer = NoAnswer
  /\ ps_ok = 0 /\ drdyIE = FALSE
  /\ scl = 1 /\ sdaOut = 1 /\ sdaDir = "out"
  /\ sensor = Idle /\ written = <<0, 0>>
  /\ content \in Contents /\ refused = FALSE /\ missed = FALSE

Step ==
  /\ todo # <<>>
  /\ LET op   == Head(todo)
         dir  == CASE op = "SdaIn" -> "in" [] op = "SdaOut" -> "out"
                   [] OTHER -> sdaDir
         out  == CASE op \in {"SdaHi", "SdaIn"} -> 1 [] op = "SdaLo" -> 0
                   [] OTHER -> sdaOut
         line == Line(dir, out)
     IN /\ scl' = CASE op = "SclHi" -> 1 [] op = "SclLo" -> 0 [] OTHER -> scl
        /\ sdaDir' = dir /\ sdaOut' = out
        /\ shift' = IF op = "Sample" THEN 2 * shift + line ELSE shift
        /\ Sees(scl', Line(sdaDir, sdaOut), line)
  /\ todo' = Tail(todo)
  /\ UNCHANGED <<program, stage, flags>>

\* Fault: the acknowledge is not looked at.
GoOn ==
  /\ todo = <<>> /\ call # "none" /\ stage < LastStage(access)
  /\ stage' = stage + 1 /\ todo' = StageOf(access, stage + 1) /\ shift' = 0
  /\ UNCHANGED <<program, pins, device, flags, refused>>

NextStage ==
  /\ todo = <<>> /\ call # "none" /\ stage < LastStage(access) /\ shift = 0
  /\ stage' = stage + 1 /\ todo' = StageOf(access, stage + 1)
  /\ UNCHANGED <<program, shift, pins, device, flags, refused>>

Begin(a) ==
  /\ access' = a /\ stage' = 1 /\ todo' = Stage1(a) /\ shift' = 0
  /\ refused' = FALSE

AccessOver ==
  todo = <<>> /\ call # "none" /\ (stage = LastStage(access) \/ shift = 1)

Result ==
  IF stage < LastStage(access) THEN 0 ELSE IF access.write THEN 1 ELSE shift

EndAccess ==
  /\ AccessOver
  /\ LET after == Follows(access, Result)
         lost  == missed \/ (refused /\ ~access.write)
     IN \/ /\ after # NoAccess
           /\ Begin(after) /\ first' = Result /\ missed' = lost
           /\ UNCHANGED <<call, answer, ps_ok>>
        \/ /\ after = NoAccess
           /\ call' = "none" /\ first' = 0 /\ missed' = FALSE
           /\ access' = NoAccess /\ shift' = 0
           /\ answer' = [of |-> call, missed |-> lost, value |->
                CASE call = "ps_get_pa"   -> Pascal(first, Result)
                  [] call = "ps_get_temp" -> Kelvin(Result)
                  [] OTHER -> 0]
           /\ ps_ok' = IF access = Checksum /\ call = "ps_init"
                         THEN (IF Result = 1 THEN 1 ELSE 0) ELSE ps_ok
           /\ UNCHANGED <<stage, todo, refused>>
  /\ written' = <<0, 0>>
  /\ UNCHANGED <<pins, sensor, drdyIE, content>>

Call(c) ==
  /\ call = "none" /\ call' = c
  /\ Begin(FirstAccess(c))
  /\ answer' = NoAnswer
  /\ drdyIE' = CASE c = "ps_start" -> TRUE [] c = "ps_stop" -> FALSE
                 [] OTHER -> drdyIE
  /\ UNCHANGED <<first, missed, content, pins, device, ps_ok>>

Next == Step \/ NextStage \/ EndAccess \/ \E c \in Calls : Call(c)

Spec == Init /\ [][Next]_vars

-----------------------------------------------------------------------------
(* Properties.                                                             *)

TypeOK ==
  /\ call \in Calls \cup {"ps_init", "none"} /\ stage \in 1..4
  /\ shift \in 0..65535 /\ first \in 0..255
  /\ ps_ok \in {0, 1} /\ drdyIE \in BOOLEAN
  /\ scl \in {0, 1} /\ sdaOut \in {0, 1} /\ sdaDir \in {"in", "out"}
  /\ sensor.phase \in {"idle", "device", "register", "data", "send"}
  /\ sensor.count \in 0..9 /\ sensor.shift \in 0..255
  /\ refused \in BOOLEAN /\ missed \in BOOLEAN

(***************************************************************************)
(* The sensor is where the driver believes it to be, whatever it refused   *)
(* before: the byte after a start is taken for a device address, the one   *)
(* after that for a register, and after a refusal or a stop it waits for   *)
(* the next start.                                                         *)
(***************************************************************************)
InStep ==
  todo = <<>> =>
    /\ call # "none" /\ ~AccessOver =>
         /\ sensor.phase = CASE stage = 1 -> "register" [] stage = 2 -> "data"
                             [] stage = 3 -> "send"
         /\ scl = 0 /\ sensor.count = 0
    /\ call = "none" \/ AccessOver => sensor.phase = "idle" /\ ~sensor.pull

(***************************************************************************)
(* A write that reports success left its data in its register, although    *)
(* the last acknowledge is not looked at.                                  *)
(***************************************************************************)
WriteLands ==
  AccessOver /\ access.write /\ Result = 1 =>
    written = <<access.address, access.data>>

(***************************************************************************)
(* A read returns what the register holds, or nothing at all when a byte   *)
(* of it was refused.                                                      *)
(***************************************************************************)
ReadIsRegister ==
  AccessOver /\ ~access.write =>
    Result = IF refused THEN 0 ELSE content[access.address]

(***************************************************************************)
(* The sensor is declared sound exactly when its status and its checksum   *)
(* were both read and are right: a refused read returns a zero that must   *)
(* not be taken for a status.                                              *)
(***************************************************************************)
PsOkMeansAnswered ==
  answer.of = "ps_init" =>
    (ps_ok = 1 <=> /\ ~answer.missed
                   /\ content[7] # 0 /\ content[7] % 2 = 0 /\ content[127] = 1)

\* The registers' reading: 19 bits in quarters of a Pascal; twentieths of a
\* degree as a 14-bit two's complement, in tenths above absolute zero.
TrueValue(f) ==
  LET t == IF content[129] < 8192 THEN content[129] ELSE content[129] - 16384
  IN IF f = "ps_get_pa"
     THEN (content[127] % 8) * 16384 + content[128] \div 4
     ELSE IF t < 0 THEN 2732 - ((-t) \div 2) ELSE 2732 + t \div 2

\* A pressure or a temperature none of whose reads failed is the sensor's.
AnswersAreReadings ==
  answer.of \in {"ps_get_pa", "ps_get_temp"} /\ ~answer.missed =>
    answer.value = TrueValue(answer.of)

(***************************************************************************)
(* Where the driver drives the line high against the sensor, its next      *)
(* operation ends that: it lets go for the acknowledge, or, with the clock *)
(* still high, after the last bit of a byte it read, lowers the clock.     *)
(***************************************************************************)
FightIsBrief ==
  sensor.pull /\ sdaDir = "out" /\ sdaOut = 1 =>
    /\ todo # <<>>
    /\ IF scl = 0 THEN Head(todo) = "SdaIn"
                  ELSE stage = 4 /\ Head(todo) = "SclLo"
=============================================================================
