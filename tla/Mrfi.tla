-------------------------------- MODULE Mrfi --------------------------------
(***************************************************************************)
(* The radio driver under SimpliciTI (mrfi_radio.c) and the watch's use of *)
(* it (simpliciti_link and simpliciti_main_sync).                          *)
(*                                                                         *)
(* Three parties share the CC1101 core: the program, which calls MRFI one  *)
(* routine after the other; the sync pin interrupt, which reads a frame    *)
(* that has come in and may answer it, and holds the program up meanwhile; *)
(* and the chip, which receives and transmits on its own.  A step of the   *)
(* program or of the interrupt is what lies between two points where the   *)
(* chip or the other can come in between.                                  *)
(***************************************************************************)
EXTENDS Integers, Sequences, FiniteSets

CONSTANTS
  CcaRetries,  \* MRFI_CCA_RETRIES
  DelayUnits,  \* how many units a reply delay is long
  FifoFrames,  \* frames the receive FIFO has room for
  Kinds,       \* what can be wrong with a frame, or "good"
  MaxFrames,   \* bound: frames that begin to come in
  Forwards     \* radio_ISR calls MRFI_RadioIsr: its comment says so, the
               \* call is commented out in drivers/radio.c

ASSUME MrfiAssumption ==
  /\ CcaRetries \in Nat /\ DelayUnits \in Nat \ {0}
  /\ FifoFrames \in Nat \ {0} /\ MaxFrames \in Nat
  /\ Kinds \subseteq {"good", "crc", "length", "near", "foreign"}
  /\ Forwards \in BOOLEAN

VARIABLES
  radioState,  \* mrfiRadioState
  chip,        \* what the core is doing
  fifo,        \* the receive FIFO
  syncInt,     \* RF1AIE: the sync pin interrupt is enabled
  syncFlag,    \* RF1AIFG: it is pending
  isr,         \* where the interrupt is, or "none"
  at,          \* the call the program is in
  step,        \* where in that call it is
  cont,        \* where it goes on when the receiver has been set or stopped
  found,       \* radioState when the call began (NWK_CHECK_FOR_SETRX's s)
  retries,     \* ccaRetries
  sent,        \* MRFI_Transmit returned MRFI_TX_RESULT_SUCCESS
  left,        \* units left of the reply delay
  sKillSem, sReplyDelayContext,
  frames,      \* frames that have begun to come in: a frame's number
  handed,      \* the frames MRFI_RxCompleteISR was called for
  asserted     \* an assertion has failed: everything has stopped

core    == <<chip, fifo>>
irq     == <<syncInt, syncFlag>>
program == <<at, step, cont, found, retries, sent, left>>
delay   == <<sKillSem, sReplyDelayContext>>
seen    == <<frames, handed, asserted>>
vars == <<radioState, core, irq, isr, program, delay, seen>>

Calls == {"start", "linking", "hello", "ready", "reply", "rxon",
          "sleep", "awake"}
Steps == {"call", "disable", "flush", "listen", "strobe", "wait", "clean",
          "sent", "delay", "spin", "resume", "idle", "off", "on", "enable",
          "return"}

Init ==
  /\ radioState = "UNKNOWN" /\ chip = "idle" /\ fifo = <<>>
  /\ syncInt = FALSE /\ syncFlag = FALSE /\ isr = "none"
  /\ at = "start" /\ step = "call" /\ cont = "return" /\ found = "UNKNOWN"
  /\ retries = 0 /\ sent = FALSE /\ left = 0
  /\ sKillSem = FALSE /\ sReplyDelayContext = FALSE
  /\ frames = 0 /\ handed = <<>> /\ asserted = FALSE

-----------------------------------------------------------------------------
(* Numbers.                                                                *)

\* Fault: an even multiplier.
EvenRandom(seed) == (seed * 108 + 67) % 256

MRFI_RandomByte(seed) == (seed * 109 + 67) % 256

\* Division in C truncates towards 0.
CDiv(n, d) == IF n >= 0 THEN n \div d ELSE -((-n) \div d)

\* Fault: the register is read as unsigned.
UnsignedRssi(raw) == CDiv(raw, 2) - 74

Mrfi_CalculateRssi(raw) ==
  LET rssi == IF raw >= 128 THEN CDiv(raw - 256, 2) - 74 ELSE CDiv(raw, 2) - 74
  IN IF rssi < -128 THEN -128 ELSE rssi

-----------------------------------------------------------------------------
(* Addresses: the watch's, and by the kind of a frame the one it is for.   *)

Mine == <<1, 2>>

AddressOf(kind) ==
  CASE kind = "foreign" -> <<2, 2>> [] kind = "near" -> <<1, 3>>
    [] OTHER -> Mine

\* MRFI_SetRxAddrFilter, MRFI_EnableRxAddrFilter: the core is given the first
\* byte of the address.
CoreTakes(addr) == addr[1] = Mine[1]

Mrfi_RxAddrIsFiltered(addr) == addr # Mine

-----------------------------------------------------------------------------
(* The core.  A strobe sent to a sleeping core waits until it is awake.    *)

Strobe(cmd) ==
  chip' = CASE cmd = "SIDLE" -> "idle" [] cmd = "SRX" -> "rx"
            [] cmd = "STX" -> "tx" [] cmd = "SXOFF" -> "off"

Flushed == fifo' = <<>>

Receiving == fifo # <<>> /\ ~fifo[Len(fifo)].whole

\* A frame begins to come in.
FrameStarts(kind) ==
  /\ chip = "rx" /\ ~Receiving /\ Len(fifo) < FifoFrames /\ frames < MaxFrames
  /\ frames' = frames + 1
  /\ fifo' = Append(fifo, [number |-> frames', kind |-> kind, whole |-> FALSE,
                           unheard |-> FALSE])
  /\ UNCHANGED <<radioState, chip, irq, isr, program, delay, handed, asserted>>

\* It ends: the sync pin falls.  The core itself takes a frame for another
\* address out of the FIFO.  "unheard" marks one whose interrupt is off, as
\* the receiver runs only to see whether the channel is clear.
FrameEnds ==
  LET n == Len(fifo)
  IN /\ chip = "rx" /\ Receiving
     /\ fifo' = IF ~CoreTakes(AddressOf(fifo[n].kind))
                THEN SubSeq(fifo, 1, n - 1)
                ELSE [fifo EXCEPT ![n].whole = TRUE,
                                  ![n].unheard = step = "strobe"]
     /\ syncFlag' = TRUE
     /\ UNCHANGED <<radioState, chip, syncInt, isr, program, delay, seen>>

\* A transmission ends, and the core idles (TXOFF_MODE in MCSM1).
TransmitEnds ==
  /\ chip = "tx" /\ chip' = "idle" /\ syncFlag' = TRUE
  /\ UNCHANGED <<radioState, fifo, syncInt, isr, program, delay, seen>>

-----------------------------------------------------------------------------
(* The interrupt.                                                          *)

Running == isr = "none" /\ ~asserted

\* radio_ISR, MRFI_RadioIsr: the flag goes by reading RF1AIV.
SyncInterrupt ==
  /\ Running /\ syncInt /\ syncFlag
  /\ syncFlag' = FALSE
  /\ IF Forwards
     THEN /\ asserted' = (radioState # "RX")
          /\ isr' = "bytes"
     ELSE UNCHANGED <<isr, asserted>>
  /\ UNCHANGED <<radioState, core, syncInt, program, delay, frames, handed>>

\* Fault: a frame that is still coming in is taken for a whole one.
FitsByLength == Len(fifo) = 1 /\ fifo[1].kind # "length"

\* The length byte matches RXBYTES: the FIFO holds one frame and no more.
FrameFits == Len(fifo) = 1 /\ fifo[1].whole /\ fifo[1].kind # "length"

\* Mrfi_SyncPinRxIsr, up to the length
ReadLength ==
  /\ isr = "bytes" /\ ~asserted
  /\ \/ fifo = <<>> /\ isr' = "none" /\ UNCHANGED core
     \/ fifo # <<>> /\ FrameFits /\ isr' = "copy" /\ UNCHANGED core
     \/ fifo # <<>> /\ ~FrameFits /\ isr' = "none" /\ Flushed /\ Strobe("SRX")
  /\ UNCHANGED <<radioState, irq, program, delay, seen>>

\* Fault: it is posted whenever a reply comes.
PostAlways == sKillSem' = TRUE

MRFI_PostKillSem == sKillSem' = (sKillSem \/ sReplyDelayContext)

\* Fault: the core's filter is trusted.
ForUsByCore(f) == f.kind # "crc"

\* The CRC is right, and the whole address.
IsForUs(f) == f.kind # "crc" /\ ~Mrfi_RxAddrIsFiltered(AddressOf(f.kind))

\* ... and from there on.  Of what MRFI_RxCompleteISR does, the driver sees
\* that it may call MRFI_PostKillSem, and may transmit an answer.
ReadFrame ==
  /\ isr = "copy"
  /\ fifo' = Tail(fifo)
  /\ \/ /\ IsForUs(fifo[1])
        /\ handed' = Append(handed, [number |-> fifo[1].number,
                                     kind |-> fifo[1].kind])
        /\ isr' \in {"none", "answer"}
        /\ MRFI_PostKillSem \/ UNCHANGED sKillSem
     \/ ~IsForUs(fifo[1]) /\ isr' = "none" /\ UNCHANGED <<handed, sKillSem>>
  /\ UNCHANGED <<radioState, chip, irq, program, sReplyDelayContext, frames,
                 asserted>>

\* MRFI_Transmit, MRFI_TX_TYPE_FORCED
AnswerStarts ==
  /\ isr = "answer" /\ isr' = "answering"
  /\ syncInt' = FALSE /\ syncFlag' = FALSE /\ Flushed /\ Strobe("STX")
  /\ UNCHANGED <<radioState, program, delay, seen>>

AnswerEnds ==
  /\ isr = "answering" /\ syncFlag
  /\ isr' = "none" /\ syncFlag' = FALSE
  /\ IF radioState = "RX" THEN Strobe("SRX") /\ syncInt' = TRUE
                          ELSE UNCHANGED <<chip, syncInt>>
  /\ UNCHANGED <<radioState, fifo, program, delay, seen>>

Isr == SyncInterrupt \/ ReadLength \/ ReadFrame \/ AnswerStarts \/ AnswerEnds

-----------------------------------------------------------------------------
(* The routines the program calls.                                         *)

Goes(from, to) == Running /\ step = from /\ step' = to

\* Mrfi_RxModeOff, first the interrupt, then the core
RxModeOffDisable ==
  /\ Goes("disable", "flush") /\ syncInt' = FALSE
  /\ UNCHANGED <<radioState, core, syncFlag, isr, at, cont, found, retries,
                 sent, left, delay, seen>>

RxModeOffFlush ==
  /\ Goes("flush", cont) /\ Strobe("SIDLE") /\ Flushed /\ syncFlag' = FALSE
  /\ UNCHANGED <<radioState, syncInt, isr, at, cont, found, retries, sent,
                 left, delay, seen>>

\* Mrfi_RxModeOn, first the core, then the interrupt
RxModeOnListen ==
  /\ Goes("on", "enable") /\ syncFlag' = FALSE /\ Strobe("SRX")
  /\ UNCHANGED <<radioState, fifo, syncInt, isr, at, cont, found, retries,
                 sent, left, delay, seen>>

\* Fault: the flag is cleared when the receiver runs already.
EnableClears ==
  /\ Goes("enable", cont) /\ syncInt' = TRUE /\ syncFlag' = FALSE
  /\ UNCHANGED <<radioState, core, isr, at, cont, found, retries, sent, left,
                 delay, seen>>

RxModeOnEnable ==
  /\ Goes("enable", cont) /\ syncInt' = TRUE
  /\ UNCHANGED <<radioState, core, syncFlag, isr, at, cont, found, retries,
                 sent, left, delay, seen>>

\* The transmit FIFO is filled, and the core listens: without that it would
\* not look whether the channel is clear.
TransmitListen ==
  /\ Goes("listen", "strobe") /\ Strobe("SRX")
  /\ UNCHANGED <<radioState, fifo, irq, isr, at, cont, found, retries, sent,
                 left, delay, seen>>

\* Fault: the retries are not counted.
StrobeForEver ==
  /\ Running /\ step = "strobe"
  /\ \/ ~Receiving /\ Strobe("STX") /\ step' = "wait" /\ sent' = TRUE
        /\ UNCHANGED <<fifo, retries>>
     \/ /\ Strobe("SIDLE") /\ Flushed /\ UNCHANGED <<sent, retries>>
        /\ step' = IF retries # 0 THEN "listen" ELSE "clean"
  /\ UNCHANGED <<radioState, irq, isr, at, cont, found, left, delay, seen>>

\* STX, and the core transmits (PA_PD falls) unless it receives or the
\* channel is in use; then it backs off, and gives up after CcaRetries.
TransmitStrobe ==
  /\ Running /\ step = "strobe"
  /\ \/ ~Receiving /\ Strobe("STX") /\ step' = "wait" /\ sent' = TRUE
        /\ UNCHANGED <<fifo, retries>>
     \/ /\ Strobe("SIDLE") /\ Flushed /\ UNCHANGED sent
        /\ step' = IF retries # 0 THEN "listen" ELSE "clean"
        /\ retries' = IF retries # 0 THEN retries - 1 ELSE 0
  /\ UNCHANGED <<radioState, irq, isr, at, cont, found, left, delay, seen>>

TransmitWait ==
  /\ Goes("wait", "clean") /\ chip # "tx"
  /\ UNCHANGED <<radioState, core, irq, isr, at, cont, found, retries, sent,
                 left, delay, seen>>

\* Fault: the receiver is left off after a failed transmission.
CleanIfSent ==
  /\ Running /\ step = "clean"
  /\ IF radioState = "RX" /\ sent THEN step' = "on" /\ cont' = "sent"
                                  ELSE step' = "sent" /\ UNCHANGED cont
  /\ UNCHANGED <<radioState, core, irq, isr, at, found, retries, sent, left,
                 delay, seen>>

TransmitClean ==
  /\ Running /\ step = "clean"
  /\ IF radioState = "RX" THEN step' = "on" /\ cont' = "sent"
                          ELSE step' = "sent" /\ UNCHANGED cont
  /\ UNCHANGED <<radioState, core, irq, isr, at, found, retries, sent, left,
                 delay, seen>>

\* NWK_CHECK_FOR_SETRX, for a frame that is to be answered
CheckForSetRx ==
  /\ Running /\ step = "sent"
  /\ \/ /\ ~(at = "linking" /\ sent) /\ step' = "return"
        /\ UNCHANGED <<radioState, cont>>
     \/ /\ at = "linking" /\ sent /\ found # "RX"
        /\ radioState' = "RX" /\ step' = "on" /\ cont' = "delay"
     \/ /\ at = "linking" /\ sent /\ found = "RX" /\ step' = "delay"
        /\ UNCHANGED <<radioState, cont>>
  /\ UNCHANGED <<core, irq, isr, at, found, retries, sent, left, delay, seen>>

ReplyDelayBegin ==
  /\ Goes("delay", "spin")
  /\ sReplyDelayContext' = TRUE /\ left' = DelayUnits
  /\ UNCHANGED <<radioState, core, irq, isr, at, cont, found, retries, sent,
                 sKillSem, seen>>

ReplyDelayUnit ==
  /\ Running /\ step = "spin"
  /\ left' = IF sKillSem THEN left ELSE left - 1
  /\ step' = IF sKillSem \/ left' = 0 THEN "resume" ELSE "spin"
  /\ UNCHANGED <<radioState, core, irq, isr, at, cont, found, retries, sent,
                 delay, seen>>

\* Fault: the receiver stays on.
RestoreForgets ==
  /\ Goes("resume", "return") /\ UNCHANGED cont
  /\ sKillSem' = FALSE /\ sReplyDelayContext' = FALSE
  /\ UNCHANGED <<radioState, core, irq, isr, at, found, retries, sent, left,
                 seen>>

\* the end of MRFI_ReplyDelay, NWK_CHECK_FOR_RESTORE_STATE
ReplyDelayEnd ==
  /\ Running /\ step = "resume"
  /\ sKillSem' = FALSE /\ sReplyDelayContext' = FALSE
  /\ IF found = "RX" THEN step' = "return" /\ UNCHANGED cont
                     ELSE step' = "disable" /\ cont' = "idle"
  /\ UNCHANGED <<radioState, core, irq, isr, at, found, retries, sent, left,
                 seen>>

\* MRFI_RxIdle, when the receiver is off
RxIdleDone ==
  /\ Goes("idle", IF at = "sleep" THEN "off" ELSE "return")
  /\ radioState' = "IDLE"
  /\ UNCHANGED <<core, irq, isr, at, cont, found, retries, sent, left, delay,
                 seen>>

\* MRFI_Sleep after MRFI_RxIdle: one critical section
Sleep ==
  /\ Goes("off", "return") /\ Strobe("SXOFF") /\ radioState' = "OFF"
  /\ UNCHANGED <<fifo, irq, isr, at, cont, found, retries, sent, left, delay,
                 seen>>

-----------------------------------------------------------------------------
(* The program.                                                            *)

Calling(a) == Running /\ at = a /\ step = "call"

\* SMPL_Init: MRFI_Init resets the core, listens for a random seed, stops
\* the receiver and switches the core off; MRFI_WakeUp.
CallInit ==
  /\ Calling("start") /\ step' = "return"
  /\ syncInt' = FALSE /\ syncFlag' = FALSE /\ Flushed /\ Strobe("SIDLE")
  /\ radioState' = "IDLE"
  /\ UNCHANGED <<isr, at, cont, found, retries, sent, left, delay, seen>>

\* MRFI_Transmit, MRFI_TX_TYPE_CCA, for a frame of the application, or of a
\* network application that waits for the answer
CallTransmit ==
  /\ Running /\ step = "call" /\ at \in {"linking", "hello", "ready", "reply"}
  /\ asserted' = (radioState = "OFF")
  /\ found' = radioState /\ retries' = CcaRetries /\ sent' = FALSE
  /\ step' = "disable" /\ cont' = "listen"
  /\ UNCHANGED <<radioState, core, irq, isr, at, left, delay, frames, handed>>

\* MRFI_RxOn
CallRxOn ==
  /\ Calling("rxon")
  /\ asserted' = (radioState = "OFF")
  /\ IF radioState = "RX" THEN step' = "return" /\ UNCHANGED <<radioState, cont>>
     ELSE radioState' = "RX" /\ step' = "on" /\ cont' = "return"
  /\ UNCHANGED <<core, irq, isr, at, found, retries, sent, left, delay, frames,
                 handed>>

\* nwk_radioControl, IOCTL_ACT_RADIO_SLEEP
CallSleep ==
  /\ Calling("sleep")
  /\ asserted' = (radioState = "OFF")
  /\ IF radioState = "RX" THEN step' = "disable" /\ cont' = "idle"
                          ELSE step' = "off" /\ UNCHANGED cont
  /\ UNCHANGED <<radioState, core, irq, isr, at, found, retries, sent, left,
                 delay, frames, handed>>

\* MRFI_WakeUp
CallAwake ==
  /\ Calling("awake") /\ step' = "return"
  /\ IF radioState # "OFF" THEN UNCHANGED <<radioState, chip>>
     ELSE radioState' = "IDLE" /\ Strobe("SIDLE")
  /\ UNCHANGED <<fifo, irq, isr, at, cont, found, retries, sent, left, delay,
                 seen>>

\* Fault: the watch is not woken before it sends.
NextForgets(a) ==
  CASE a = "start"   -> {"linking"}
    [] a = "linking" -> {"linking", "start", "awake"}
    [] a = "awake"   -> {"hello", "ready"}
    [] a = "hello"   -> {"sleep"}
    [] a = "ready"   -> {"rxon"}
    [] a \in {"rxon", "reply"} -> {"reply", "sleep"}
    [] a = "sleep"   -> {"ready", "start"}

\* What simpliciti_link and simpliciti_main_sync call after a.
NextCalls(a) ==
  CASE a = "start"   -> {"linking"}
    [] a = "linking" -> {"linking", "start", "awake"}
    [] a = "awake"   -> {"hello", "ready"}
    [] a = "hello"   -> {"sleep"}
    [] a = "ready"   -> {"rxon"}
    [] a \in {"rxon", "reply"} -> {"reply", "sleep"}
    [] a = "sleep"   -> {"awake", "start"}

Return ==
  /\ Goes("return", "call") /\ at' \in NextCalls(at)
  /\ UNCHANGED <<radioState, core, irq, isr, cont, found, retries, sent, left,
                 delay, seen>>

Program ==
  \/ CallInit \/ CallTransmit \/ CallRxOn \/ CallSleep \/ CallAwake \/ Return
  \/ RxModeOffDisable \/ RxModeOffFlush \/ RxModeOnListen \/ RxModeOnEnable
  \/ TransmitListen \/ TransmitStrobe \/ TransmitWait \/ TransmitClean
  \/ CheckForSetRx \/ ReplyDelayBegin \/ ReplyDelayUnit \/ ReplyDelayEnd
  \/ RxIdleDone \/ Sleep

Air == (\E k \in Kinds : FrameStarts(k)) \/ FrameEnds

Next == Air \/ TransmitEnds \/ Isr \/ Program

\* The processor goes on, in the interrupt or in the program, and a
\* transmission that was started ends.
Fairness ==
  WF_vars(TransmitEnds) /\ WF_vars(Isr) /\ WF_vars(Program)

Spec == Init /\ [][Next]_vars /\ Fairness

-----------------------------------------------------------------------------
(* Properties.                                                             *)

TypeOK ==
  /\ radioState \in {"UNKNOWN", "IDLE", "RX", "OFF"}
  /\ chip \in {"idle", "rx", "tx", "off"}
  /\ fifo \in Seq([number : 1..MaxFrames, kind : Kinds, whole : BOOLEAN,
                   unheard : BOOLEAN])
  /\ Len(fifo) <= FifoFrames
  /\ syncInt \in BOOLEAN /\ syncFlag \in BOOLEAN
  /\ isr \in {"none", "bytes", "copy", "answer", "answering"}
  /\ at \in Calls /\ step \in Steps /\ cont \in Steps
  /\ found \in {"UNKNOWN", "IDLE", "RX", "OFF"}
  /\ retries \in 0..CcaRetries /\ sent \in BOOLEAN /\ left \in 0..DelayUnits
  /\ sKillSem \in BOOLEAN /\ sReplyDelayContext \in BOOLEAN
  /\ frames \in 0..MaxFrames /\ handed \in Seq([number : 1..MaxFrames, kind : Kinds])
  /\ asserted \in BOOLEAN

(***************************************************************************)
(* None of the driver's assertions fails: the watch never transmits, turns *)
(* the receiver on or idles it while the core is off, and no interrupt     *)
(* comes while the receiver is not on (mrfi_radio.c:612, 816, 1037, 1087). *)
(***************************************************************************)
AssertionsHold == ~asserted

\* The program is not in the middle of changing the receiver.
Settled == Running /\ step \in {"call", "return", "spin"}

(***************************************************************************)
(* Whatever interrupts and answers came in between, between two calls the  *)
(* core does what mrfiRadioState says, with the interrupt on exactly while *)
(* the receiver is.                                                        *)
(***************************************************************************)
CoreAsRecorded ==
  Settled => /\ syncInt <=> radioState = "RX"
             /\ radioState = "RX" => chip = "rx"
             /\ radioState = "IDLE" => chip = "idle"
             /\ radioState = "OFF" => chip = "off"

(***************************************************************************)
(* The interrupt copies only a frame that is there as a whole, and frames  *)
(* are handed up in the order they came, each once.                        *)
(***************************************************************************)
HandedWhole ==
  /\ isr = "copy" => fifo # <<>> /\ fifo[1].whole
  /\ \A i, j \in 1..Len(handed) : i < j => handed[i].number < handed[j].number

(***************************************************************************)
(* Nothing damaged and nothing for another address goes up, also what the  *)
(* core's filter, which knows one byte of the address, lets through.       *)
(***************************************************************************)
HandedMine == \A i \in 1..Len(handed) : handed[i].kind = "good"

(***************************************************************************)
(* A frame that came in while the receiver was on does not lie in the FIFO *)
(* with nobody to fetch it: its interrupt is pending or running.  (One     *)
(* that came in while a transmission looked for a clear channel does.)     *)
(***************************************************************************)
NotForgotten ==
  Settled /\ radioState = "RX" =>
    ((\E i \in 1..Len(fifo) : fifo[i].whole /\ ~fifo[i].unheard) => syncFlag)

(***************************************************************************)
(* A reply delay is not cut short by the reply to an earlier frame: the    *)
(* semaphore is set only inside a delay and never survives it.             *)
(***************************************************************************)
NoStaleKill ==
  /\ sKillSem => sReplyDelayContext
  /\ sReplyDelayContext => step \in {"spin", "resume"}

(***************************************************************************)
(* A call that sends, waits for an answer and fails or succeeds leaves the *)
(* radio in the state it found it in: the watch's receiver is never left   *)
(* on by an exchange.                                                      *)
(***************************************************************************)
LeftAsFound ==
  [][Return /\ at \in {"linking", "hello", "ready", "reply"}
       => radioState = found]_vars

(***************************************************************************)
(* Every call returns: the retries and the reply delay end, and no wait    *)
(* for the core lasts for ever.                                            *)
(***************************************************************************)
CallsReturn == step = "call" ~> step = "return"

(***************************************************************************)
(* No random byte comes again within sixteen draws, whatever seed the      *)
(* start-up listened for: the loops that draw until a transaction ID is    *)
(* not 0 end (nwk_frame.c:158), and IDs drawn one after the other differ.  *)
(***************************************************************************)
RandomIsFresh ==
  Calling("start") => \A seed \in 0..255 :
    LET Draw[n \in 0..16] ==
          IF n = 0 THEN seed ELSE MRFI_RandomByte(Draw[n - 1])
    IN \A n \in 1..16 : Draw[n] # seed

(***************************************************************************)
(* The strength that goes with a frame, in dBm, fits int8_t and grows with *)
(* the register, which is a signed number of half decibels.                *)
(***************************************************************************)
RssiGrows == isr = "copy" =>
  /\ \A raw \in 0..255 : Mrfi_CalculateRssi(raw) \in -128..127
  /\ \A n \in -128..126 :
       Mrfi_CalculateRssi(n % 256) <= Mrfi_CalculateRssi((n + 1) % 256)

(***************************************************************************)
(* The driver knows its radio: its variables have their types, none of its *)
(* assertions fails, the core is in the state it recorded, and what it     *)
(* computes for a reply delay, a random byte or a strength is in range.    *)
(***************************************************************************)
DriverKnowsRadio ==
  /\ TypeOK /\ AssertionsHold /\ CoreAsRecorded
  /\ NoStaleKill /\ RandomIsFresh /\ RssiGrows

(***************************************************************************)
(* Each whole frame for this watch that came in while it listened is       *)
(* handed up, once and in order, and no other.                             *)
(***************************************************************************)
HandedOver == HandedWhole /\ HandedMine /\ NotForgotten

\* Every call ends, and leaves the radio in the state it began in.
CallsEndAsBegun == LeftAsFound /\ CallsReturn
=============================================================================
