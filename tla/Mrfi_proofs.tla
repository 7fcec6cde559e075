---------------------------- MODULE Mrfi_proofs -----------------------------
(***************************************************************************)
(* Theorems about Mrfi, for every number of retries and of units of delay, *)
(* every size of the receive FIFO and every kind of frame.                 *)
(***************************************************************************)
EXTENDS Mrfi, SequenceTheorems, WellFoundedInduction, TLAPS

-----------------------------------------------------------------------------
(* The inductive invariant.                                                *)

Sending == {"linking", "hello", "ready", "reply"}

\* What mrfiRadioState may be when the program makes call a, and is after it.
Before(a) ==
  CASE a = "start" -> {"UNKNOWN", "IDLE", "RX", "OFF"}
    [] a \in {"linking", "hello", "ready", "rxon"} -> {"IDLE"}
    [] a = "reply" -> {"RX"}
    [] a = "sleep" -> {"IDLE", "RX"}
    [] a = "awake" -> {"IDLE", "OFF"}

After(a) ==
  CASE a \in {"start", "linking", "hello", "ready", "awake"} -> "IDLE"
    [] a \in {"rxon", "reply"} -> "RX"
    [] a = "sleep" -> "OFF"

\* How far the program has come with its call.
CallShape ==
  /\ step = "call" => radioState \in Before(at)
  /\ step = "return" => radioState = After(at)
  /\ step # "call" /\ at \in Sending => found = After(at)
  /\ step \in {"disable", "flush"} =>
       \/ cont = "listen" /\ at \in Sending /\ radioState = found
       \/ cont = "idle" /\ radioState = "RX" /\ at \in {"sleep", "linking"}
  /\ step \in {"on", "enable"} =>
       /\ radioState = "RX"
       /\ \/ cont = "sent" /\ at \in Sending /\ found = "RX"
          \/ cont = "delay" /\ at = "linking"
          \/ cont = "return" /\ at = "rxon"
  /\ step \in {"listen", "strobe", "wait", "clean", "sent"} =>
       at \in Sending /\ radioState = found
  /\ step \in {"delay", "spin", "resume"} => at = "linking" /\ radioState = "RX"
  /\ step = "idle" => at \in {"sleep", "linking"} /\ radioState = "RX"
  /\ step = "off" => at = "sleep" /\ radioState = "IDLE"

\* The steps between which the receiver is not being changed.
Steady == {"call", "return", "disable", "sent", "delay", "spin", "resume"}

Matches ==
  /\ syncInt <=> radioState = "RX"
  /\ radioState = "RX" => chip = "rx"
  /\ radioState \in {"IDLE", "UNKNOWN"} => chip = "idle"
  /\ radioState = "OFF" => chip = "off"

\* Step by step, what the core does.
CoreShape ==
  /\ step \in Steady /\ isr # "answering" => Matches
  /\ step \notin Steady => ~syncInt
  /\ step \in {"strobe", "enable"} => chip = "rx"
  /\ step = "wait" => chip \in {"idle", "tx"}
  /\ step \in {"listen", "clean", "on", "idle", "off"} => chip = "idle"
  /\ step = "flush" => chip = IF radioState = "RX" THEN "rx" ELSE "idle"
  /\ isr # "none" => step \in Steady /\ radioState = "RX"
  /\ isr = "answering" =>
       ~syncInt /\ chip \in {"idle", "tx"} /\ (syncFlag => chip = "idle")

\* The whole frames in the FIFO, and those of them whose interrupt was on.
Heard(i) == fifo[i].whole /\ ~fifo[i].unheard

FifoShape ==
  /\ \A i \in 1..Len(fifo) - 1 : fifo[i].whole
  /\ step \in {"listen", "idle"} \/ isr = "answering" \/ radioState = "UNKNOWN" => fifo = <<>>
  /\ step = "strobe" =>
       \A i \in 1..Len(fifo) : fifo[i].whole => fifo[i].unheard
  /\ step \in {"wait", "clean", "on"}
       \/ (step \in Steady \union {"off"} /\ radioState \in {"IDLE", "OFF"}) =>
         \A i \in 1..Len(fifo) : fifo[i].whole /\ fifo[i].unheard
  /\ isr = "copy" => /\ fifo # <<>> /\ fifo[1].whole /\ fifo[1].kind # "length"
                     /\ \A i \in 2..Len(fifo) : Heard(i) => syncFlag
  /\ Forwards /\ step \in Steady \union {"enable"} /\ radioState = "RX" /\ isr = "none" =>
       \A i \in 1..Len(fifo) : Heard(i) => syncFlag

\* Frames lie in the FIFO and are handed up in the order they came.
NumbersGrow ==
  /\ \A i, j \in 1..Len(fifo) : i < j => fifo[i].number < fifo[j].number
  /\ \A i \in 1..Len(fifo) : fifo[i].number <= frames
  /\ \A i, j \in 1..Len(handed) : i < j => handed[i].number < handed[j].number
  /\ \A i \in 1..Len(handed) : handed[i].number <= frames
  /\ \A i \in 1..Len(fifo), j \in 1..Len(handed) : handed[j].number < fifo[i].number

DelayShape == NoStaleKill /\ (step = "spin" => left > 0)

DriverInv == TypeOK /\ AssertionsHold /\ CallShape /\ CoreShape /\ DelayShape

FifoInv == FifoShape /\ NumbersGrow /\ HandedMine

-----------------------------------------------------------------------------
(* The FIFO and what is handed up are sequences of frames.                 *)

Frame == [number : 1..MaxFrames, kind : Kinds, whole : BOOLEAN, unheard : BOOLEAN]

Handed == [number : 1..MaxFrames, kind : Kinds]

LEMMA Types ==
  TypeOK => /\ fifo \in Seq(Frame) /\ Len(fifo) \in Nat /\ Len(fifo) <= FifoFrames
            /\ handed \in Seq(Handed) /\ Len(handed) \in Nat
            /\ frames \in 0..MaxFrames
            /\ \A i \in 1..Len(fifo) : fifo[i] \in Frame
            /\ \A i \in 1..Len(handed) : handed[i] \in Handed
            /\ (fifo # <<>> <=> Len(fifo) > 0)
<1> SUFFICES ASSUME TypeOK
             PROVE  /\ fifo \in Seq(Frame) /\ Len(fifo) \in Nat /\ Len(fifo) <= FifoFrames
                    /\ handed \in Seq(Handed) /\ Len(handed) \in Nat
                    /\ frames \in 0..MaxFrames
                    /\ \A i \in 1..Len(fifo) : fifo[i] \in Frame
                    /\ \A i \in 1..Len(handed) : handed[i] \in Handed
                    /\ (fifo # <<>> <=> Len(fifo) > 0)
  OBVIOUS
<1>1. /\ fifo \in Seq(Frame) /\ handed \in Seq(Handed)
      /\ Len(fifo) <= FifoFrames /\ frames \in 0..MaxFrames
  BY DEF TypeOK, Frame, Handed
<1>2. /\ Len(fifo) \in Nat /\ \A i \in 1..Len(fifo) : fifo[i] \in Frame
      /\ (fifo # <<>> <=> Len(fifo) > 0)
  BY <1>1, LenProperties, ElementOfSeq, EmptySeq
<1>3. Len(handed) \in Nat /\ \A i \in 1..Len(handed) : handed[i] \in Handed
  BY <1>1, LenProperties, ElementOfSeq
<1>4. QED
  BY <1>1, <1>2, <1>3

LEMMA StartsFacts ==
  ASSUME TypeOK, NEW k \in Kinds, FrameStarts(k)
  PROVE  /\ frames' = frames + 1 /\ frames < MaxFrames
         /\ fifo' \in Seq(Frame) /\ Len(fifo') = Len(fifo) + 1
         /\ Len(fifo') <= FifoFrames
         /\ \A i \in 1..Len(fifo) : fifo'[i] = fifo[i]
         /\ fifo'[Len(fifo')].number = frames'
         /\ ~fifo'[Len(fifo')].whole
         /\ Len(fifo) > 0 => fifo[Len(fifo)].whole
<1> DEFINE f == [number |-> frames', kind |-> k, whole |-> FALSE, unheard |-> FALSE]
<1>1. /\ frames' = frames + 1 /\ frames < MaxFrames /\ Len(fifo) < FifoFrames
      /\ fifo' = Append(fifo, f) /\ ~Receiving
  BY DEF FrameStarts
<1>2. frames' \in 1..MaxFrames
  BY <1>1, Types, MrfiAssumption
<1>3. f \in Frame /\ f.number = frames' /\ ~f.whole
  BY <1>2 DEF Frame
<1> HIDE DEF f
<1>4. /\ fifo' \in Seq(Frame) /\ Len(fifo') = Len(fifo) + 1
      /\ \A i \in 1..Len(fifo) : fifo'[i] = fifo[i]
      /\ fifo'[Len(fifo) + 1] = f
  BY <1>1, <1>3, Types
<1>5. Len(fifo) > 0 => fifo[Len(fifo)].whole
  BY <1>1, Types DEF Receiving, Frame
<1>6. QED
  BY <1>1, <1>3, <1>4, <1>5, Types, MrfiAssumption

LEMMA EndsFacts ==
  ASSUME TypeOK, FrameEnds
  PROVE  /\ chip = "rx" /\ syncFlag' = TRUE
         /\ fifo' \in Seq(Frame) /\ Len(fifo) > 0 /\ ~fifo[Len(fifo)].whole
         /\ Len(fifo') <= Len(fifo) /\ Len(fifo) - 1 <= Len(fifo')
         /\ \A i \in 1..Len(fifo) - 1 : fifo'[i] = fifo[i]
         /\ Len(fifo') = Len(fifo) =>
              /\ fifo'[Len(fifo)].whole
              /\ fifo'[Len(fifo)].unheard <=> step = "strobe"
              /\ fifo'[Len(fifo)].number = fifo[Len(fifo)].number
<1> DEFINE n == Len(fifo)
<1>1. /\ chip = "rx" /\ syncFlag' = TRUE /\ fifo # <<>> /\ ~fifo[n].whole
      /\ fifo' = IF ~CoreTakes(AddressOf(fifo[n].kind)) THEN SubSeq(fifo, 1, n - 1)
                 ELSE [fifo EXCEPT ![n].whole = TRUE, ![n].unheard = step = "strobe"]
  BY DEF FrameEnds, Receiving
<1>2. n \in Nat /\ n > 0 /\ fifo \in Seq(Frame) /\ n \in 1..Len(fifo) /\ fifo[n] \in Frame
  BY <1>1, Types
<1>3. CASE fifo' = SubSeq(fifo, 1, n - 1)
  <2>1. /\ fifo' \in Seq(Frame) /\ Len(fifo') = n - 1
        /\ \A i \in 1..n - 1 : fifo'[i] = fifo[i]
    <3>1. \A i \in 1..n - 1 : fifo[i] \in Frame
      BY <1>2, Types
    <3>2. n - 1 \in Int /\ 1 \in Int
      BY <1>2
    <3> HIDE DEF n
    <3>3. /\ SubSeq(fifo, 1, n - 1) \in Seq(Frame)
          /\ Len(SubSeq(fifo, 1, n - 1)) = IF 1 <= n - 1 THEN (n - 1) - 1 + 1 ELSE 0
          /\ \A i \in 1..(n - 1) - 1 + 1 : SubSeq(fifo, 1, n - 1)[i] = fifo[1 + i - 1]
      BY <3>1, <3>2, SubSeqProperties
    <3>4. QED
      BY <1>2, <1>3, <3>3
  <2>2. QED
    BY <1>1, <1>2, <2>1
<1>4. CASE fifo' = [fifo EXCEPT ![n].whole = TRUE, ![n].unheard = step = "strobe"]
  <2>1. PICK b \in BOOLEAN : b = (step = "strobe")
    OBVIOUS
  <2> DEFINE f == [fifo[n] EXCEPT !.whole = TRUE, !.unheard = b]
  <2>2. /\ f \in Frame /\ f.whole = TRUE /\ f.unheard = b
        /\ f.number = fifo[n].number
    BY <1>2 DEF Frame
  <2>3. fifo' = [fifo EXCEPT ![n] = f]
    BY <1>2, <1>4, <2>1
  <2> HIDE DEF f
  <2>4. /\ fifo' \in Seq(Frame) /\ Len(fifo') = n /\ fifo'[n] = f
        /\ \A i \in 1..n - 1 : fifo'[i] = fifo[i]
    BY <1>2, <2>2, <2>3
  <2>5. /\ fifo'[n].whole /\ (fifo'[n].unheard <=> step = "strobe")
        /\ fifo'[n].number = fifo[n].number
    BY <2>1, <2>2, <2>4
  <2>6. QED
    BY <1>1, <1>2, <2>4, <2>5
<1>5. QED
  BY <1>1, <1>3, <1>4

LEMMA ReadFacts ==
  ASSUME TypeOK, ReadFrame, fifo # <<>>
  PROVE  /\ fifo' \in Seq(Frame) /\ Len(fifo') = Len(fifo) - 1
         /\ \A i \in 1..Len(fifo') : fifo'[i] = fifo[i + 1]
         /\ handed' \in Seq(Handed)
         /\ \/ handed' = handed
            \/ /\ IsForUs(fifo[1]) /\ Len(handed') = Len(handed) + 1
               /\ \A i \in 1..Len(handed) : handed'[i] = handed[i]
               /\ handed'[Len(handed')].number = fifo[1].number
               /\ handed'[Len(handed')].kind = fifo[1].kind
<1>1. fifo \in Seq(Frame) /\ Len(fifo) > 0 /\ fifo[1] \in Frame
  BY Types
<1>2. /\ fifo' \in Seq(Frame) /\ Len(fifo') = Len(fifo) - 1
      /\ \A i \in 1..Len(fifo') : fifo'[i] = fifo[i + 1]
  BY <1>1 DEF ReadFrame
<1>3. CASE handed' = handed
  BY <1>2, <1>3, Types
<1>4. CASE IsForUs(fifo[1])
           /\ handed' = Append(handed, [number |-> fifo[1].number, kind |-> fifo[1].kind])
  <2> DEFINE h == [number |-> fifo[1].number, kind |-> fifo[1].kind]
  <2>1. h \in Handed /\ h.number = fifo[1].number /\ h.kind = fifo[1].kind
    BY <1>1 DEF Frame, Handed
  <2> HIDE DEF h
  <2>2. handed' = Append(handed, h)
    BY <1>4 DEF h
  <2>3. /\ handed' \in Seq(Handed) /\ Len(handed') = Len(handed) + 1
        /\ \A i \in 1..Len(handed) : handed'[i] = handed[i]
        /\ handed'[Len(handed) + 1] = h
    BY <2>1, <2>2, Types
  <2>4. QED
    BY <1>2, <1>4, <2>1, <2>3
<1>5. QED
  BY <1>3, <1>4 DEF ReadFrame

-----------------------------------------------------------------------------
(* Each step keeps the driver's part of the invariant.                     *)

\* Two calls in a row fit: what one leaves the radio in, the next begins with.
LEMMA CallsFit ==
  ASSUME NEW a \in Calls, NEW b \in NextCalls(a)
  PROVE  b \in Calls /\ After(a) \in Before(b)
BY DEF Calls, NextCalls, After, Before

LEMMA NoFrames == <<>> \in Seq(Frame) /\ Len(<<>>) <= FifoFrames
BY EmptySeq, MrfiAssumption

LEMMA ProgramKeepsDriver ==
  ASSUME DriverInv, Program
  PROVE  DriverInv'
<1> USE DEF DriverInv, Goes, Running, Calling, Flushed, core, irq, delay, seen
<1>1. isr = "none" /\ ~asserted /\ isr' = isr
  BY DEF Program, CallInit, CallTransmit, CallRxOn, CallSleep, CallAwake, Return,
     RxModeOffDisable, RxModeOffFlush, RxModeOnListen, RxModeOnEnable,
     TransmitListen, TransmitStrobe, TransmitWait, TransmitClean, CheckForSetRx,
     ReplyDelayBegin, ReplyDelayUnit, ReplyDelayEnd, RxIdleDone, Sleep
<1>2. CASE CallInit
  <2>1. TypeOK'
    <3>1. fifo' \in Seq(Frame) /\ Len(fifo') <= FifoFrames
      BY <1>2, Types, NoFrames DEF CallInit
    <3>2. /\ frames' \in 0..MaxFrames /\ handed' \in Seq(Handed)
          /\ chip' \in {"idle", "rx", "tx", "off"}
      BY <1>2, Types DEF CallInit, Strobe, TypeOK
    <3>3. /\ at' \in Calls /\ step' \in Steps /\ cont' \in Steps
          /\ radioState' \in {"UNKNOWN", "IDLE", "RX", "OFF"}
          /\ found' \in {"UNKNOWN", "IDLE", "RX", "OFF"}
          /\ isr' \in {"none", "bytes", "copy", "answer", "answering"}
      BY <1>2, CallsFit DEF CallInit, TypeOK, Steps, CallShape
    <3>4. /\ syncInt' \in BOOLEAN /\ syncFlag' \in BOOLEAN /\ sent' \in BOOLEAN
          /\ sKillSem' \in BOOLEAN /\ sReplyDelayContext' \in BOOLEAN
          /\ asserted' \in BOOLEAN
      BY <1>2 DEF CallInit, TypeOK
    <3>5. retries' \in 0..CcaRetries /\ left' \in 0..DelayUnits
      BY <1>2, MrfiAssumption DEF CallInit, TypeOK
    <3>6. QED
      BY <3>1, <3>2, <3>3, <3>4, <3>5 DEF TypeOK, Frame, Handed
  <2>2. AssertionsHold' /\ CallShape'
    BY <1>1, <1>2, CallsFit DEF CallInit, TypeOK, Strobe, AssertionsHold, CallShape, Before, After,
       Sending, Calls
  <2>3. CoreShape'
    BY <1>1, <1>2 DEF CallInit, TypeOK, Strobe, CoreShape, CallShape, Matches, Steady, Before, After,
       Sending
  <2>4. DelayShape'
    BY <1>1, <1>2, MrfiAssumption DEF CallInit, TypeOK, DelayShape, NoStaleKill, CallShape
  <2>5. QED
    BY <2>1, <2>2, <2>3, <2>4
<1>3. CASE CallTransmit
  <2>1. TypeOK'
    <3>1. fifo' \in Seq(Frame) /\ Len(fifo') <= FifoFrames
      BY <1>3, Types, NoFrames DEF CallTransmit
    <3>2. /\ frames' \in 0..MaxFrames /\ handed' \in Seq(Handed)
          /\ chip' \in {"idle", "rx", "tx", "off"}
      BY <1>3, Types DEF CallTransmit, Strobe, TypeOK
    <3>3. /\ at' \in Calls /\ step' \in Steps /\ cont' \in Steps
          /\ radioState' \in {"UNKNOWN", "IDLE", "RX", "OFF"}
          /\ found' \in {"UNKNOWN", "IDLE", "RX", "OFF"}
          /\ isr' \in {"none", "bytes", "copy", "answer", "answering"}
      BY <1>3, CallsFit DEF CallTransmit, TypeOK, Steps, CallShape
    <3>4. /\ syncInt' \in BOOLEAN /\ syncFlag' \in BOOLEAN /\ sent' \in BOOLEAN
          /\ sKillSem' \in BOOLEAN /\ sReplyDelayContext' \in BOOLEAN
          /\ asserted' \in BOOLEAN
      BY <1>3 DEF CallTransmit, TypeOK
    <3>5. retries' \in 0..CcaRetries /\ left' \in 0..DelayUnits
      BY <1>3, MrfiAssumption DEF CallTransmit, TypeOK
    <3>6. QED
      BY <3>1, <3>2, <3>3, <3>4, <3>5 DEF TypeOK, Frame, Handed
  <2>2. AssertionsHold' /\ CallShape'
    BY <1>1, <1>3, CallsFit DEF CallTransmit, TypeOK, Strobe, AssertionsHold, CallShape, Before, After,
       Sending, Calls
  <2>3. CoreShape'
    BY <1>1, <1>3 DEF CallTransmit, TypeOK, Strobe, CoreShape, CallShape, Matches, Steady, Before, After,
       Sending
  <2>4. DelayShape'
    BY <1>1, <1>3, MrfiAssumption DEF CallTransmit, TypeOK, DelayShape, NoStaleKill, CallShape
  <2>5. QED
    BY <2>1, <2>2, <2>3, <2>4
<1>4. CASE CallRxOn
  <2>1. TypeOK'
    BY <1>4, MrfiAssumption DEF CallRxOn, TypeOK, Strobe, Calls, Steps, CallShape, DelayShape
  <2>2. AssertionsHold' /\ CallShape'
    BY <1>1, <1>4, CallsFit DEF CallRxOn, TypeOK, Strobe, AssertionsHold, CallShape, Before, After,
       Sending, Calls
  <2>3. CoreShape'
    BY <1>1, <1>4 DEF CallRxOn, TypeOK, Strobe, CoreShape, CallShape, Matches, Steady, Before, After,
       Sending
  <2>4. DelayShape'
    BY <1>1, <1>4, MrfiAssumption DEF CallRxOn, TypeOK, DelayShape, NoStaleKill, CallShape
  <2>5. QED
    BY <2>1, <2>2, <2>3, <2>4
<1>5. CASE CallSleep
  <2>1. TypeOK'
    BY <1>5, MrfiAssumption DEF CallSleep, TypeOK, Strobe, Calls, Steps, CallShape, DelayShape
  <2>2. AssertionsHold' /\ CallShape'
    BY <1>1, <1>5, CallsFit DEF CallSleep, TypeOK, Strobe, AssertionsHold, CallShape, Before, After,
       Sending, Calls
  <2>3. CoreShape'
    BY <1>1, <1>5 DEF CallSleep, TypeOK, Strobe, CoreShape, CallShape, Matches, Steady, Before, After,
       Sending
  <2>4. DelayShape'
    BY <1>1, <1>5, MrfiAssumption DEF CallSleep, TypeOK, DelayShape, NoStaleKill, CallShape
  <2>5. QED
    BY <2>1, <2>2, <2>3, <2>4
<1>6. CASE CallAwake
  <2>1. TypeOK'
    BY <1>6, MrfiAssumption DEF CallAwake, TypeOK, Strobe, Calls, Steps, CallShape, DelayShape
  <2>2. AssertionsHold' /\ CallShape'
    BY <1>1, <1>6, CallsFit DEF CallAwake, TypeOK, Strobe, AssertionsHold, CallShape, Before, After,
       Sending, Calls
  <2>3. CoreShape'
    BY <1>1, <1>6 DEF CallAwake, TypeOK, Strobe, CoreShape, CallShape, Matches, Steady, Before, After,
       Sending
  <2>4. DelayShape'
    BY <1>1, <1>6, MrfiAssumption DEF CallAwake, TypeOK, DelayShape, NoStaleKill, CallShape
  <2>5. QED
    BY <2>1, <2>2, <2>3, <2>4
<1>7. CASE Return
  <2>1. TypeOK'
    <3>1. fifo' \in Seq(Frame) /\ Len(fifo') <= FifoFrames
      BY <1>7, Types, NoFrames DEF Return
    <3>2. /\ frames' \in 0..MaxFrames /\ handed' \in Seq(Handed)
          /\ chip' \in {"idle", "rx", "tx", "off"}
      BY <1>7, Types DEF Return, Strobe, TypeOK
    <3>3. /\ at' \in Calls /\ step' \in Steps /\ cont' \in Steps
          /\ radioState' \in {"UNKNOWN", "IDLE", "RX", "OFF"}
          /\ found' \in {"UNKNOWN", "IDLE", "RX", "OFF"}
          /\ isr' \in {"none", "bytes", "copy", "answer", "answering"}
      BY <1>7, CallsFit DEF Return, TypeOK, Steps, CallShape
    <3>4. /\ syncInt' \in BOOLEAN /\ syncFlag' \in BOOLEAN /\ sent' \in BOOLEAN
          /\ sKillSem' \in BOOLEAN /\ sReplyDelayContext' \in BOOLEAN
          /\ asserted' \in BOOLEAN
      BY <1>7 DEF Return, TypeOK
    <3>5. retries' \in 0..CcaRetries /\ left' \in 0..DelayUnits
      BY <1>7, MrfiAssumption DEF Return, TypeOK
    <3>6. QED
      BY <3>1, <3>2, <3>3, <3>4, <3>5 DEF TypeOK, Frame, Handed
  <2>2. AssertionsHold' /\ CallShape'
    BY <1>1, <1>7, CallsFit DEF Return, TypeOK, Strobe, AssertionsHold, CallShape, Before, After,
       Sending, Calls
  <2>3. CoreShape'
    BY <1>1, <1>7 DEF Return, TypeOK, Strobe, CoreShape, CallShape, Matches, Steady, Before, After,
       Sending
  <2>4. DelayShape'
    BY <1>1, <1>7, MrfiAssumption DEF Return, TypeOK, DelayShape, NoStaleKill, CallShape
  <2>5. QED
    BY <2>1, <2>2, <2>3, <2>4
<1>8. CASE RxModeOffDisable
  <2>1. TypeOK'
    <3>1. fifo' \in Seq(Frame) /\ Len(fifo') <= FifoFrames
      BY <1>8, Types, NoFrames DEF RxModeOffDisable
    <3>2. /\ frames' \in 0..MaxFrames /\ handed' \in Seq(Handed)
          /\ chip' \in {"idle", "rx", "tx", "off"}
      BY <1>8, Types DEF RxModeOffDisable, Strobe, TypeOK
    <3>3. /\ at' \in Calls /\ step' \in Steps /\ cont' \in Steps
          /\ radioState' \in {"UNKNOWN", "IDLE", "RX", "OFF"}
          /\ found' \in {"UNKNOWN", "IDLE", "RX", "OFF"}
          /\ isr' \in {"none", "bytes", "copy", "answer", "answering"}
      BY <1>8, CallsFit DEF RxModeOffDisable, TypeOK, Steps, CallShape
    <3>4. /\ syncInt' \in BOOLEAN /\ syncFlag' \in BOOLEAN /\ sent' \in BOOLEAN
          /\ sKillSem' \in BOOLEAN /\ sReplyDelayContext' \in BOOLEAN
          /\ asserted' \in BOOLEAN
      BY <1>8 DEF RxModeOffDisable, TypeOK
    <3>5. retries' \in 0..CcaRetries /\ left' \in 0..DelayUnits
      BY <1>8, MrfiAssumption DEF RxModeOffDisable, TypeOK
    <3>6. QED
      BY <3>1, <3>2, <3>3, <3>4, <3>5 DEF TypeOK, Frame, Handed
  <2>2. AssertionsHold' /\ CallShape'
    BY <1>1, <1>8, CallsFit DEF RxModeOffDisable, TypeOK, Strobe, AssertionsHold, CallShape, Before, After,
       Sending, Calls
  <2>3. CoreShape'
    BY <1>1, <1>8 DEF RxModeOffDisable, TypeOK, Strobe, CoreShape, CallShape, Matches, Steady, Before, After,
       Sending
  <2>4. DelayShape'
    BY <1>1, <1>8, MrfiAssumption DEF RxModeOffDisable, TypeOK, DelayShape, NoStaleKill, CallShape
  <2>5. QED
    BY <2>1, <2>2, <2>3, <2>4
<1>9. CASE RxModeOffFlush
  <2>1. TypeOK'
    <3>1. fifo' \in Seq(Frame) /\ Len(fifo') <= FifoFrames
      BY <1>9, Types, NoFrames DEF RxModeOffFlush
    <3>2. /\ frames' \in 0..MaxFrames /\ handed' \in Seq(Handed)
          /\ chip' \in {"idle", "rx", "tx", "off"}
      BY <1>9, Types DEF RxModeOffFlush, Strobe, TypeOK
    <3>3. /\ at' \in Calls /\ step' \in Steps /\ cont' \in Steps
          /\ radioState' \in {"UNKNOWN", "IDLE", "RX", "OFF"}
          /\ found' \in {"UNKNOWN", "IDLE", "RX", "OFF"}
          /\ isr' \in {"none", "bytes", "copy", "answer", "answering"}
      BY <1>9, CallsFit DEF RxModeOffFlush, TypeOK, Steps, CallShape
    <3>4. /\ syncInt' \in BOOLEAN /\ syncFlag' \in BOOLEAN /\ sent' \in BOOLEAN
          /\ sKillSem' \in BOOLEAN /\ sReplyDelayContext' \in BOOLEAN
          /\ asserted' \in BOOLEAN
      BY <1>9 DEF RxModeOffFlush, TypeOK
    <3>5. retries' \in 0..CcaRetries /\ left' \in 0..DelayUnits
      BY <1>9, MrfiAssumption DEF RxModeOffFlush, TypeOK
    <3>6. QED
      BY <3>1, <3>2, <3>3, <3>4, <3>5 DEF TypeOK, Frame, Handed
  <2>2. AssertionsHold' /\ CallShape'
    BY <1>1, <1>9, CallsFit DEF RxModeOffFlush, TypeOK, Strobe, AssertionsHold, CallShape, Before, After,
       Sending, Calls
  <2>3. CoreShape'
    BY <1>1, <1>9 DEF RxModeOffFlush, TypeOK, Strobe, CoreShape, CallShape, Matches, Steady, Before, After,
       Sending
  <2>4. DelayShape'
    BY <1>1, <1>9, MrfiAssumption DEF RxModeOffFlush, TypeOK, DelayShape, NoStaleKill, CallShape
  <2>5. QED
    BY <2>1, <2>2, <2>3, <2>4
<1>10. CASE RxModeOnListen
  <2>1. TypeOK'
    BY <1>10, MrfiAssumption DEF RxModeOnListen, TypeOK, Strobe, Calls, Steps, CallShape, DelayShape
  <2>2. AssertionsHold' /\ CallShape'
    BY <1>1, <1>10, CallsFit DEF RxModeOnListen, TypeOK, Strobe, AssertionsHold, CallShape, Before, After,
       Sending, Calls
  <2>3. CoreShape'
    BY <1>1, <1>10 DEF RxModeOnListen, TypeOK, Strobe, CoreShape, CallShape, Matches, Steady, Before, After,
       Sending
  <2>4. DelayShape'
    BY <1>1, <1>10, MrfiAssumption DEF RxModeOnListen, TypeOK, DelayShape, NoStaleKill, CallShape
  <2>5. QED
    BY <2>1, <2>2, <2>3, <2>4
<1>11. CASE RxModeOnEnable
  <2>1. TypeOK'
    BY <1>11, MrfiAssumption DEF RxModeOnEnable, TypeOK, Strobe, Calls, Steps, CallShape, DelayShape
  <2>2. AssertionsHold' /\ CallShape'
    BY <1>1, <1>11, CallsFit DEF RxModeOnEnable, TypeOK, Strobe, AssertionsHold, CallShape, Before, After,
       Sending, Calls
  <2>3. CoreShape'
    BY <1>1, <1>11 DEF RxModeOnEnable, TypeOK, Strobe, CoreShape, CallShape, Matches, Steady, Before, After,
       Sending
  <2>4. DelayShape'
    BY <1>1, <1>11, MrfiAssumption DEF RxModeOnEnable, TypeOK, DelayShape, NoStaleKill, CallShape
  <2>5. QED
    BY <2>1, <2>2, <2>3, <2>4
<1>12. CASE TransmitListen
  <2>1. TypeOK'
    BY <1>12, MrfiAssumption DEF TransmitListen, TypeOK, Strobe, Calls, Steps, CallShape, DelayShape
  <2>2. AssertionsHold' /\ CallShape'
    BY <1>1, <1>12, CallsFit DEF TransmitListen, TypeOK, Strobe, AssertionsHold, CallShape, Before, After,
       Sending, Calls
  <2>3. CoreShape'
    BY <1>1, <1>12 DEF TransmitListen, TypeOK, Strobe, CoreShape, CallShape, Matches, Steady, Before, After,
       Sending
  <2>4. DelayShape'
    BY <1>1, <1>12, MrfiAssumption DEF TransmitListen, TypeOK, DelayShape, NoStaleKill, CallShape
  <2>5. QED
    BY <2>1, <2>2, <2>3, <2>4
<1>13. CASE TransmitStrobe
  <2>1. TypeOK'
    <3>1. fifo' \in Seq(Frame) /\ Len(fifo') <= FifoFrames
      BY <1>13, Types, NoFrames DEF TransmitStrobe
    <3>2. /\ frames' \in 0..MaxFrames /\ handed' \in Seq(Handed)
          /\ chip' \in {"idle", "rx", "tx", "off"}
      BY <1>13, Types DEF TransmitStrobe, Strobe, TypeOK
    <3>3. /\ at' \in Calls /\ step' \in Steps /\ cont' \in Steps
          /\ radioState' \in {"UNKNOWN", "IDLE", "RX", "OFF"}
          /\ found' \in {"UNKNOWN", "IDLE", "RX", "OFF"}
          /\ isr' \in {"none", "bytes", "copy", "answer", "answering"}
      BY <1>13, CallsFit DEF TransmitStrobe, TypeOK, Steps, CallShape
    <3>4. /\ syncInt' \in BOOLEAN /\ syncFlag' \in BOOLEAN /\ sent' \in BOOLEAN
          /\ sKillSem' \in BOOLEAN /\ sReplyDelayContext' \in BOOLEAN
          /\ asserted' \in BOOLEAN
      BY <1>13 DEF TransmitStrobe, TypeOK
    <3>5. retries' \in 0..CcaRetries /\ left' \in 0..DelayUnits
      BY <1>13, MrfiAssumption DEF TransmitStrobe, TypeOK
    <3>6. QED
      BY <3>1, <3>2, <3>3, <3>4, <3>5 DEF TypeOK, Frame, Handed
  <2>2. AssertionsHold' /\ CallShape'
    BY <1>1, <1>13, CallsFit DEF TransmitStrobe, TypeOK, Strobe, AssertionsHold, CallShape, Before, After,
       Sending, Calls
  <2>3. CoreShape'
    BY <1>1, <1>13 DEF TransmitStrobe, TypeOK, Strobe, CoreShape, CallShape, Matches, Steady, Before, After,
       Sending
  <2>4. DelayShape'
    BY <1>1, <1>13, MrfiAssumption DEF TransmitStrobe, TypeOK, DelayShape, NoStaleKill, CallShape
  <2>5. QED
    BY <2>1, <2>2, <2>3, <2>4
<1>14. CASE TransmitWait
  <2>1. TypeOK'
    BY <1>14, MrfiAssumption DEF TransmitWait, TypeOK, Strobe, Calls, Steps, CallShape, DelayShape
  <2>2. AssertionsHold' /\ CallShape'
    BY <1>1, <1>14, CallsFit DEF TransmitWait, TypeOK, Strobe, AssertionsHold, CallShape, Before, After,
       Sending, Calls
  <2>3. CoreShape'
    BY <1>1, <1>14 DEF TransmitWait, TypeOK, Strobe, CoreShape, CallShape, Matches, Steady, Before, After,
       Sending
  <2>4. DelayShape'
    BY <1>1, <1>14, MrfiAssumption DEF TransmitWait, TypeOK, DelayShape, NoStaleKill, CallShape
  <2>5. QED
    BY <2>1, <2>2, <2>3, <2>4
<1>15. CASE TransmitClean
  <2>1. TypeOK'
    BY <1>15, MrfiAssumption DEF TransmitClean, TypeOK, Strobe, Calls, Steps, CallShape, DelayShape
  <2>2. AssertionsHold' /\ CallShape'
    BY <1>1, <1>15, CallsFit DEF TransmitClean, TypeOK, Strobe, AssertionsHold, CallShape, Before, After,
       Sending, Calls
  <2>3. CoreShape'
    BY <1>1, <1>15 DEF TransmitClean, TypeOK, Strobe, CoreShape, CallShape, Matches, Steady, Before, After,
       Sending
  <2>4. DelayShape'
    BY <1>1, <1>15, MrfiAssumption DEF TransmitClean, TypeOK, DelayShape, NoStaleKill, CallShape
  <2>5. QED
    BY <2>1, <2>2, <2>3, <2>4
<1>16. CASE CheckForSetRx
  <2>1. TypeOK'
    BY <1>16, MrfiAssumption DEF CheckForSetRx, TypeOK, Strobe, Calls, Steps, CallShape, DelayShape
  <2>2. AssertionsHold' /\ CallShape'
    BY <1>1, <1>16, CallsFit DEF CheckForSetRx, TypeOK, Strobe, AssertionsHold, CallShape, Before, After,
       Sending, Calls
  <2>3. CoreShape'
    BY <1>1, <1>16 DEF CheckForSetRx, TypeOK, Strobe, CoreShape, CallShape, Matches, Steady, Before, After,
       Sending
  <2>4. DelayShape'
    BY <1>1, <1>16, MrfiAssumption DEF CheckForSetRx, TypeOK, DelayShape, NoStaleKill, CallShape
  <2>5. QED
    BY <2>1, <2>2, <2>3, <2>4
<1>17. CASE ReplyDelayBegin
  <2>1. TypeOK'
    BY <1>17, MrfiAssumption DEF ReplyDelayBegin, TypeOK, Strobe, Calls, Steps, CallShape, DelayShape
  <2>2. AssertionsHold' /\ CallShape'
    BY <1>1, <1>17, CallsFit DEF ReplyDelayBegin, TypeOK, Strobe, AssertionsHold, CallShape, Before, After,
       Sending, Calls
  <2>3. CoreShape'
    BY <1>1, <1>17 DEF ReplyDelayBegin, TypeOK, Strobe, CoreShape, CallShape, Matches, Steady, Before, After,
       Sending
  <2>4. DelayShape'
    BY <1>1, <1>17, MrfiAssumption DEF ReplyDelayBegin, TypeOK, DelayShape, NoStaleKill, CallShape
  <2>5. QED
    BY <2>1, <2>2, <2>3, <2>4
<1>18. CASE ReplyDelayUnit
  <2>1. TypeOK'
    BY <1>18, MrfiAssumption DEF ReplyDelayUnit, TypeOK, Strobe, Calls, Steps, CallShape, DelayShape
  <2>2. AssertionsHold' /\ CallShape'
    BY <1>1, <1>18, CallsFit DEF ReplyDelayUnit, TypeOK, Strobe, AssertionsHold, CallShape, Before, After,
       Sending, Calls
  <2>3. CoreShape'
    BY <1>1, <1>18 DEF ReplyDelayUnit, TypeOK, Strobe, CoreShape, CallShape, Matches, Steady, Before, After,
       Sending
  <2>4. DelayShape'
    BY <1>1, <1>18, MrfiAssumption DEF ReplyDelayUnit, TypeOK, DelayShape, NoStaleKill, CallShape
  <2>5. QED
    BY <2>1, <2>2, <2>3, <2>4
<1>19. CASE ReplyDelayEnd
  <2>1. TypeOK'
    <3>1. fifo' \in Seq(Frame) /\ Len(fifo') <= FifoFrames
      BY <1>19, Types, NoFrames DEF ReplyDelayEnd
    <3>2. /\ frames' \in 0..MaxFrames /\ handed' \in Seq(Handed)
          /\ chip' \in {"idle", "rx", "tx", "off"}
      BY <1>19, Types DEF ReplyDelayEnd, Strobe, TypeOK
    <3>3. /\ at' \in Calls /\ step' \in Steps /\ cont' \in Steps
          /\ radioState' \in {"UNKNOWN", "IDLE", "RX", "OFF"}
          /\ found' \in {"UNKNOWN", "IDLE", "RX", "OFF"}
          /\ isr' \in {"none", "bytes", "copy", "answer", "answering"}
      BY <1>19, CallsFit DEF ReplyDelayEnd, TypeOK, Steps, CallShape
    <3>4. /\ syncInt' \in BOOLEAN /\ syncFlag' \in BOOLEAN /\ sent' \in BOOLEAN
          /\ sKillSem' \in BOOLEAN /\ sReplyDelayContext' \in BOOLEAN
          /\ asserted' \in BOOLEAN
      BY <1>19 DEF ReplyDelayEnd, TypeOK
    <3>5. retries' \in 0..CcaRetries /\ left' \in 0..DelayUnits
      BY <1>19, MrfiAssumption DEF ReplyDelayEnd, TypeOK
    <3>6. QED
      BY <3>1, <3>2, <3>3, <3>4, <3>5 DEF TypeOK, Frame, Handed
  <2>2. AssertionsHold' /\ CallShape'
    BY <1>1, <1>19, CallsFit DEF ReplyDelayEnd, TypeOK, Strobe, AssertionsHold, CallShape, Before, After,
       Sending, Calls
  <2>3. CoreShape'
    BY <1>1, <1>19 DEF ReplyDelayEnd, TypeOK, Strobe, CoreShape, CallShape, Matches, Steady, Before, After,
       Sending
  <2>4. DelayShape'
    BY <1>1, <1>19, MrfiAssumption DEF ReplyDelayEnd, TypeOK, DelayShape, NoStaleKill, CallShape
  <2>5. QED
    BY <2>1, <2>2, <2>3, <2>4
<1>20. CASE RxIdleDone
  <2>1. TypeOK'
    BY <1>20, MrfiAssumption DEF RxIdleDone, TypeOK, Strobe, Calls, Steps, CallShape, DelayShape
  <2>2. AssertionsHold' /\ CallShape'
    BY <1>1, <1>20, CallsFit DEF RxIdleDone, TypeOK, Strobe, AssertionsHold, CallShape, Before, After,
       Sending, Calls
  <2>3. CoreShape'
    BY <1>1, <1>20 DEF RxIdleDone, TypeOK, Strobe, CoreShape, CallShape, Matches, Steady, Before, After,
       Sending
  <2>4. DelayShape'
    BY <1>1, <1>20, MrfiAssumption DEF RxIdleDone, TypeOK, DelayShape, NoStaleKill, CallShape
  <2>5. QED
    BY <2>1, <2>2, <2>3, <2>4
<1>21. CASE Sleep
  <2>1. TypeOK'
    BY <1>21, MrfiAssumption DEF Sleep, TypeOK, Strobe, Calls, Steps, CallShape, DelayShape
  <2>2. AssertionsHold' /\ CallShape'
    BY <1>1, <1>21, CallsFit DEF Sleep, TypeOK, Strobe, AssertionsHold, CallShape, Before, After,
       Sending, Calls
  <2>3. CoreShape'
    BY <1>1, <1>21 DEF Sleep, TypeOK, Strobe, CoreShape, CallShape, Matches, Steady, Before, After,
       Sending
  <2>4. DelayShape'
    BY <1>1, <1>21, MrfiAssumption DEF Sleep, TypeOK, DelayShape, NoStaleKill, CallShape
  <2>5. QED
    BY <2>1, <2>2, <2>3, <2>4
<1>22. QED
  BY <1>2, <1>3, <1>4, <1>5, <1>6, <1>7, <1>8, <1>9, <1>10, <1>11, <1>12, <1>13, <1>14, <1>15, <1>16, <1>17, <1>18, <1>19, <1>20, <1>21 DEF Program

LEMMA ChipKeepsDriver ==
  ASSUME DriverInv, Air \/ TransmitEnds
  PROVE  DriverInv'
<1> USE DEF DriverInv, irq, program, delay
<1>1. /\ UNCHANGED <<radioState, syncInt, isr, program, delay, handed, asserted>>
      /\ syncFlag' \in BOOLEAN
      /\ \/ UNCHANGED <<chip, syncFlag>>
         \/ chip' = chip /\ chip = "rx"
         \/ chip = "tx" /\ chip' = "idle"
  BY DEF Air, FrameStarts, FrameEnds, TransmitEnds, TypeOK, seen
<1>2. /\ fifo' \in Seq(Frame) /\ Len(fifo') <= FifoFrames
      /\ frames' \in 0..MaxFrames
  <2>1. CASE \E k \in Kinds : FrameStarts(k)
    <3>1. PICK k \in Kinds : FrameStarts(k)
      BY <2>1
    <3>2. QED
      BY <3>1, StartsFacts, Types, MrfiAssumption
  <2>2. CASE FrameEnds
    <3>1. fifo' \in Seq(Frame) /\ Len(fifo') <= Len(fifo)
      BY <2>2, EndsFacts
    <3>2. Len(fifo') \in Nat
      BY <3>1, LenProperties
    <3>3. QED
      BY <2>2, <3>1, <3>2, Types, MrfiAssumption DEF FrameEnds, seen
  <2>3. CASE TransmitEnds
    BY <2>3, Types DEF TransmitEnds, seen
  <2>4. QED
    BY <2>1, <2>2, <2>3 DEF Air
<1>3. TypeOK'
  BY <1>1, <1>2 DEF TypeOK, Frame
<1>4. AssertionsHold' /\ CallShape' /\ DelayShape'
  BY <1>1 DEF AssertionsHold, CallShape, DelayShape, NoStaleKill
<1>5. CoreShape'
  BY <1>1 DEF CoreShape, Matches, Steady
<1>6. QED
  BY <1>3, <1>4, <1>5

LEMMA IsrKeepsDriver ==
  ASSUME DriverInv, Isr, isr = "copy" => fifo # <<>>
  PROVE  DriverInv'
<1> USE DEF DriverInv, irq, core, program, delay, seen
<1>1. CASE SyncInterrupt
  <2>1. /\ isr = "none" /\ syncInt /\ syncFlag' = FALSE /\ ~asserted
        /\ UNCHANGED <<radioState, core, syncInt, program, delay, frames, handed>>
        /\ isr' \in {"none", "bytes"} /\ asserted' \in {asserted, radioState # "RX"}
    BY <1>1 DEF SyncInterrupt, Running
  <2>2. step \in Steady /\ radioState = "RX"
    BY <2>1 DEF CoreShape, Matches, TypeOK
  <2>3. asserted' = FALSE
    BY <2>1, <2>2 DEF TypeOK
  <2>4. TypeOK'
    BY <2>1, <2>3 DEF TypeOK
  <2>5. AssertionsHold' /\ CallShape' /\ DelayShape'
    BY <2>1, <2>3 DEF AssertionsHold, CallShape, DelayShape, NoStaleKill
  <2>6. CoreShape'
    BY <2>1, <2>2 DEF CoreShape, Matches, Steady
  <2>7. QED
    BY <2>4, <2>5, <2>6
<1>2. CASE ReadLength
  <2>1. /\ isr = "bytes" /\ isr' \in {"none", "copy"}
        /\ UNCHANGED <<radioState, irq, program, delay, frames, handed, asserted>>
        /\ \/ UNCHANGED core
           \/ fifo' = <<>> /\ chip' = "rx"
    BY <1>2 DEF ReadLength, Flushed, Strobe
  <2>2. step \in Steady /\ radioState = "RX" /\ chip = "rx"
    BY <2>1 DEF CoreShape, Matches
  <2>3. fifo' \in Seq(Frame) /\ Len(fifo') <= FifoFrames
    BY <2>1, Types, NoFrames
  <2>4. TypeOK'
    BY <2>1, <2>3 DEF TypeOK, Frame
  <2>5. AssertionsHold' /\ CallShape' /\ DelayShape'
    BY <2>1 DEF AssertionsHold, CallShape, DelayShape, NoStaleKill
  <2>6. CoreShape'
    BY <2>1, <2>2 DEF CoreShape, Matches, Steady
  <2>7. QED
    BY <2>4, <2>5, <2>6
<1>3. CASE ReadFrame
  <2>1. /\ isr = "copy" /\ isr' \in {"none", "answer"}
        /\ UNCHANGED <<radioState, chip, irq, program, sReplyDelayContext, frames,
                       asserted>>
        /\ sKillSem' \in BOOLEAN
        /\ sKillSem' => sKillSem \/ sReplyDelayContext
    BY <1>3 DEF ReadFrame, MRFI_PostKillSem, TypeOK
  <2>2. step \in Steady /\ radioState = "RX"
    BY <2>1 DEF CoreShape, Matches
  <2>3. fifo' \in Seq(Frame) /\ Len(fifo') <= FifoFrames /\ handed' \in Seq(Handed)
    BY <1>3, <2>1, ReadFacts, Types, MrfiAssumption
  <2>4. TypeOK'
    BY <2>1, <2>3 DEF TypeOK, Frame, Handed
  <2>5. AssertionsHold' /\ CallShape' /\ DelayShape'
    BY <2>1 DEF AssertionsHold, CallShape, DelayShape, NoStaleKill
  <2>6. CoreShape'
    BY <2>1, <2>2 DEF CoreShape, Matches, Steady
  <2>7. QED
    BY <2>4, <2>5, <2>6
<1>4. CASE AnswerStarts
  <2>1. /\ isr = "answer" /\ isr' = "answering" /\ syncInt' = FALSE /\ syncFlag' = FALSE
        /\ fifo' = <<>> /\ chip' = "tx"
        /\ UNCHANGED <<radioState, program, delay, frames, handed, asserted>>
    BY <1>4 DEF AnswerStarts, Flushed, Strobe
  <2>2. step \in Steady /\ radioState = "RX"
    BY <2>1 DEF CoreShape, Matches
  <2>3. fifo' \in Seq(Frame) /\ Len(fifo') <= FifoFrames
    BY <2>1, NoFrames
  <2>4. TypeOK'
    BY <2>1, <2>3 DEF TypeOK, Frame
  <2>5. AssertionsHold' /\ CallShape' /\ DelayShape'
    BY <2>1 DEF AssertionsHold, CallShape, DelayShape, NoStaleKill
  <2>6. CoreShape'
    BY <2>1, <2>2 DEF CoreShape, Matches, Steady
  <2>7. QED
    BY <2>4, <2>5, <2>6
<1>5. CASE AnswerEnds
  <2>1. isr = "answering" /\ step \in Steady /\ radioState = "RX"
    BY <1>5 DEF AnswerEnds, CoreShape
  <2>2. /\ isr' = "none" /\ syncFlag' = FALSE /\ chip' = "rx" /\ syncInt' = TRUE
        /\ UNCHANGED <<radioState, fifo, program, delay, frames, handed, asserted>>
    BY <1>5, <2>1 DEF AnswerEnds, Strobe
  <2>3. TypeOK'
    BY <2>2 DEF TypeOK
  <2>4. AssertionsHold' /\ CallShape' /\ DelayShape'
    BY <2>2 DEF AssertionsHold, CallShape, DelayShape, NoStaleKill
  <2>5. CoreShape'
    BY <2>1, <2>2 DEF CoreShape, Matches, Steady
  <2>6. QED
    BY <2>3, <2>4, <2>5
<1>6. QED
  BY <1>1, <1>2, <1>3, <1>4, <1>5 DEF Isr

-----------------------------------------------------------------------------
(* Each step keeps the frames in order.                                    *)

LEMMA ProgramKeepsFifo ==
  ASSUME DriverInv, FifoInv, Program
  PROVE  FifoInv'
<1> USE DEF DriverInv, FifoInv, Goes, Running, Calling, Flushed, core, irq, delay, seen
<1>1. /\ isr = "none" /\ isr' = isr /\ UNCHANGED <<frames, handed>>
      /\ fifo' = fifo \/ fifo' = <<>>
  BY DEF Program, CallInit, CallTransmit, CallRxOn, CallSleep, CallAwake, Return,
     RxModeOffDisable, RxModeOffFlush, RxModeOnListen, RxModeOnEnable,
     TransmitListen, TransmitStrobe, TransmitWait, TransmitClean, CheckForSetRx,
     ReplyDelayBegin, ReplyDelayUnit, ReplyDelayEnd, RxIdleDone, Sleep
<1>2. NumbersGrow' /\ HandedMine'
  <2>1. CASE fifo' = fifo
    BY <1>1, <2>1 DEF NumbersGrow, HandedMine
  <2>2. CASE fifo' = <<>>
    BY <1>1, <2>2 DEF NumbersGrow, HandedMine
  <2>3. QED
    BY <1>1, <2>1, <2>2
<1>3. ASSUME fifo' = <<>>
      PROVE  FifoShape'
  BY <1>1, <1>3 DEF FifoShape
<1>4. CASE CallInit
  BY <1>2, <1>3, <1>4 DEF CallInit
<1>5. CASE CallTransmit
  <2>1. FifoShape'
    BY <1>1, <1>3, <1>5, Types DEF CallTransmit, FifoShape, Heard, Steady, CallShape, Before, After,
       Sending, TypeOK
  <2>2. QED
    BY <1>2, <2>1
<1>6. CASE CallRxOn
  <2>1. FifoShape'
    BY <1>1, <1>3, <1>6, Types DEF CallRxOn, FifoShape, Heard, Steady, CallShape, Before, After,
       Sending, TypeOK
  <2>2. QED
    BY <1>2, <2>1
<1>7. CASE CallSleep
  <2>1. FifoShape'
    BY <1>1, <1>3, <1>7, Types DEF CallSleep, FifoShape, Heard, Steady, CallShape, Before, After,
       Sending, TypeOK
  <2>2. QED
    BY <1>2, <2>1
<1>8. CASE CallAwake
  <2>1. FifoShape'
    BY <1>1, <1>3, <1>8, Types DEF CallAwake, FifoShape, Heard, Steady, CallShape, Before, After,
       Sending, TypeOK
  <2>2. QED
    BY <1>2, <2>1
<1>9. CASE Return
  <2>1. FifoShape'
    BY <1>1, <1>3, <1>9, Types DEF Return, FifoShape, Heard, Steady, CallShape, Before, After,
       Sending, TypeOK
  <2>2. QED
    BY <1>2, <2>1
<1>10. CASE RxModeOffDisable
  <2>1. FifoShape'
    BY <1>1, <1>3, <1>10, Types DEF RxModeOffDisable, FifoShape, Heard, Steady, CallShape, Before, After,
       Sending, TypeOK
  <2>2. QED
    BY <1>2, <2>1
<1>11. CASE RxModeOffFlush
  BY <1>2, <1>3, <1>11 DEF RxModeOffFlush
<1>12. CASE RxModeOnListen
  <2>1. FifoShape'
    BY <1>1, <1>3, <1>12, Types DEF RxModeOnListen, FifoShape, Heard, Steady, CallShape, Before, After,
       Sending, TypeOK
  <2>2. QED
    BY <1>2, <2>1
<1>13. CASE RxModeOnEnable
  <2>1. FifoShape'
    BY <1>1, <1>3, <1>13, Types DEF RxModeOnEnable, FifoShape, Heard, Steady, CallShape, Before, After,
       Sending, TypeOK
  <2>2. QED
    BY <1>2, <2>1
<1>14. CASE TransmitListen
  <2>1. FifoShape'
    BY <1>1, <1>3, <1>14, Types DEF TransmitListen, FifoShape, Heard, Steady, CallShape, Before, After,
       Sending, TypeOK
  <2>2. QED
    BY <1>2, <2>1
<1>15. CASE TransmitStrobe
  <2>1. CASE fifo' = <<>>
    BY <1>2, <1>3, <2>1
  <2>2. CASE fifo' # <<>>
    <3>1. /\ step = "strobe" /\ step' = "wait" /\ ~Receiving /\ fifo' = fifo
          /\ UNCHANGED radioState /\ fifo # <<>>
      BY <1>15, <2>2 DEF TransmitStrobe
    <3>2. fifo[Len(fifo)].whole /\ Len(fifo) \in Nat
      BY <3>1, Types DEF Receiving
    <3>3. ASSUME NEW i \in 1..Len(fifo) PROVE fifo[i].whole /\ fifo[i].unheard
      <4>1. fifo[i].whole
        BY <3>2 DEF FifoShape
      <4>2. QED
        BY <3>1, <4>1 DEF FifoShape
    <3>4. radioState # "UNKNOWN"
      BY <3>1 DEF FifoShape
    <3>5. FifoShape'
      BY <1>1, <3>1, <3>3, <3>4 DEF FifoShape, Steady
    <3>6. QED
      BY <1>2, <3>5
  <2>3. QED
    BY <2>1, <2>2
<1>16. CASE TransmitWait
  <2>1. FifoShape'
    BY <1>1, <1>3, <1>16, Types DEF TransmitWait, FifoShape, Heard, Steady, CallShape, Before, After,
       Sending, TypeOK
  <2>2. QED
    BY <1>2, <2>1
<1>17. CASE TransmitClean
  <2>1. FifoShape'
    BY <1>1, <1>3, <1>17, Types DEF TransmitClean, FifoShape, Heard, Steady, CallShape, Before, After,
       Sending, TypeOK
  <2>2. QED
    BY <1>2, <2>1
<1>18. CASE CheckForSetRx
  <2>1. FifoShape'
    BY <1>1, <1>3, <1>18, Types DEF CheckForSetRx, FifoShape, Heard, Steady, CallShape, Before, After,
       Sending, TypeOK
  <2>2. QED
    BY <1>2, <2>1
<1>19. CASE ReplyDelayBegin
  <2>1. FifoShape'
    BY <1>1, <1>3, <1>19, Types DEF ReplyDelayBegin, FifoShape, Heard, Steady, CallShape, Before, After,
       Sending, TypeOK
  <2>2. QED
    BY <1>2, <2>1
<1>20. CASE ReplyDelayUnit
  <2>1. FifoShape'
    BY <1>1, <1>3, <1>20, Types DEF ReplyDelayUnit, FifoShape, Heard, Steady, CallShape, Before, After,
       Sending, TypeOK
  <2>2. QED
    BY <1>2, <2>1
<1>21. CASE ReplyDelayEnd
  <2>1. FifoShape'
    BY <1>1, <1>3, <1>21, Types DEF ReplyDelayEnd, FifoShape, Heard, Steady, CallShape, Before, After,
       Sending, TypeOK
  <2>2. QED
    BY <1>2, <2>1
<1>22. CASE RxIdleDone
  <2>1. FifoShape'
    BY <1>1, <1>3, <1>22, Types DEF RxIdleDone, FifoShape, Heard, Steady, CallShape, Before, After,
       Sending, TypeOK
  <2>2. QED
    BY <1>2, <2>1
<1>23. CASE Sleep
  <2>1. FifoShape'
    BY <1>1, <1>3, <1>23, Types DEF Sleep, FifoShape, Heard, Steady, CallShape, Before, After,
       Sending, TypeOK
  <2>2. QED
    BY <1>2, <2>1
<1>24. QED
  BY <1>4, <1>5, <1>6, <1>7, <1>8, <1>9, <1>10, <1>11, <1>12, <1>13, <1>14, <1>15, <1>16, <1>17, <1>18, <1>19, <1>20, <1>21, <1>22, <1>23 DEF Program

\* While the core receives, the program is between two changes of the receiver,
\* in the middle of turning it on or off, or looking for a clear channel.
LEMMA WhenReceiving ==
  ASSUME DriverInv, chip = "rx"
  PROVE  /\ step \notin {"listen", "idle", "wait", "clean", "on", "off"}
         /\ isr # "answering" /\ radioState # "UNKNOWN"
         /\ step \in Steady => radioState = "RX"
BY DEF DriverInv, CoreShape, CallShape, Matches, Steady, TypeOK, Steps, After, Sending

LEMMA ChipKeepsFifo ==
  ASSUME DriverInv, FifoInv, Air \/ TransmitEnds
  PROVE  FifoInv'
<1> USE DEF FifoInv
<1>1. TypeOK /\ UNCHANGED <<radioState, isr, step, handed>>
  BY DEF DriverInv, Air, FrameStarts, FrameEnds, TransmitEnds, program, seen
<1>2. /\ Len(fifo) \in Nat /\ Len(handed) \in Nat /\ frames \in Nat
      /\ (fifo # <<>> <=> Len(fifo) > 0)
      /\ \A i \in 1..Len(fifo) : fifo[i].number \in Nat
      /\ \A i \in 1..Len(handed) : handed[i].number \in Nat
  BY <1>1, Types, MrfiAssumption DEF Frame, Handed
<1>3. HandedMine'
  BY <1>1 DEF HandedMine
<1>4. CASE \E k \in Kinds : FrameStarts(k)
  <2>1. PICK k \in Kinds : FrameStarts(k)
    BY <1>4
  <2>2. /\ frames' = frames + 1 /\ Len(fifo') = Len(fifo) + 1
        /\ \A i \in 1..Len(fifo) : fifo'[i] = fifo[i]
        /\ fifo'[Len(fifo')].number = frames'
        /\ ~fifo'[Len(fifo')].whole
        /\ Len(fifo) > 0 => fifo[Len(fifo)].whole
    BY <1>1, <2>1, StartsFacts
  <2>3. chip = "rx" /\ syncFlag' = syncFlag
    BY <2>1 DEF FrameStarts, irq
  <2>4. NumbersGrow'
    <3>1. /\ \A i \in 1..Len(fifo) : fifo'[i].number = fifo[i].number
          /\ fifo'[Len(fifo) + 1].number = frames + 1
          /\ \A i \in 1..Len(fifo') : i \in 1..Len(fifo) \/ i = Len(fifo) + 1
      BY <1>2, <2>2
    <3>2. ASSUME NEW i \in 1..Len(fifo'), NEW j \in 1..Len(fifo'), i < j
          PROVE  fifo'[i].number < fifo'[j].number
      <4>1. i \in 1..Len(fifo) /\ fifo[i].number <= frames
        BY <1>2, <2>2, <3>2 DEF NumbersGrow
      <4>2. j \in 1..Len(fifo) => fifo[i].number < fifo[j].number
        BY <3>2, <4>1 DEF NumbersGrow
      <4>3. QED
        BY <1>2, <3>1, <4>1, <4>2
    <3>3. \A i \in 1..Len(fifo') : fifo'[i].number <= frames'
      BY <1>2, <2>2, <3>1 DEF NumbersGrow
    <3>4. ASSUME NEW i \in 1..Len(fifo'), NEW j \in 1..Len(handed)
          PROVE  handed[j].number < fifo'[i].number
      BY <1>2, <3>1 DEF NumbersGrow
    <3>5. \A j \in 1..Len(handed) : handed[j].number <= frames'
      BY <1>2, <2>2 DEF NumbersGrow
    <3>6. \A i, j \in 1..Len(handed) : i < j => handed[i].number < handed[j].number
      BY DEF NumbersGrow
    <3>7. QED
      BY <1>1, <3>2, <3>3, <3>4, <3>5, <3>6 DEF NumbersGrow
  <2>5. \A i \in 1..Len(fifo') - 1 : fifo'[i].whole
    BY <1>2, <2>2 DEF FifoShape
  <2>6. isr' = "copy" => /\ fifo' # <<>> /\ fifo'[1].whole /\ fifo'[1].kind # "length"
                         /\ \A i \in 2..Len(fifo') : Heard(i)' => syncFlag'
    <3>1. isr = "copy" => Len(fifo) > 0
      BY <1>2 DEF FifoShape
    <3>2. Len(fifo') > 0 => fifo' # <<>>
      BY EmptySeq
    <3>3. ASSUME isr = "copy" PROVE \A i \in 2..Len(fifo') : Heard(i)' => syncFlag'
      <4>1. ASSUME NEW i \in 2..Len(fifo'), fifo'[i].whole, ~fifo'[i].unheard
            PROVE  syncFlag
        <5>1. i \in 2..Len(fifo) /\ fifo'[i] = fifo[i]
          BY <1>2, <2>2, <4>1
        <5>2. QED
          BY <3>3, <4>1, <5>1 DEF FifoShape, Heard
      <4>2. QED
        BY <2>3, <4>1 DEF Heard
    <3>4. ASSUME isr = "copy"
          PROVE  fifo' # <<>> /\ fifo'[1] = fifo[1] /\ fifo[1].whole /\ fifo[1].kind # "length"
      <4>1. 1 \in 1..Len(fifo) /\ Len(fifo') > 0
        BY <1>2, <2>2, <3>1, <3>4
      <4>2. QED
        BY <2>2, <3>2, <3>4, <4>1 DEF FifoShape
    <3>5. QED
      BY <1>1, <3>3, <3>4
  <2>7. FifoShape'
    BY <1>1, <1>2, <2>2, <2>3, <2>5, <2>6, WhenReceiving DEF FifoShape, Heard
  <2>8. QED
    BY <1>3, <2>4, <2>7
<1>5. CASE FrameEnds
  <2>1. /\ chip = "rx" /\ syncFlag' = TRUE /\ frames' = frames
        /\ fifo' \in Seq(Frame) /\ Len(fifo) > 0 /\ ~fifo[Len(fifo)].whole
        /\ Len(fifo') <= Len(fifo) /\ Len(fifo) - 1 <= Len(fifo')
        /\ \A i \in 1..Len(fifo) - 1 : fifo'[i] = fifo[i]
        /\ Len(fifo') = Len(fifo) =>
             /\ fifo'[Len(fifo)].whole
             /\ fifo'[Len(fifo)].unheard <=> step = "strobe"
             /\ fifo'[Len(fifo)].number = fifo[Len(fifo)].number
    BY <1>1, <1>5, EndsFacts DEF FrameEnds, seen
  <2>2. Len(fifo') \in Nat /\ (fifo' # <<>> <=> Len(fifo') > 0)
    BY <2>1, LenProperties, EmptySeq
  <2>3. \A i \in 1..Len(fifo') : fifo'[i].number = fifo[i].number /\ fifo'[i].whole
    BY <1>2, <2>1, <2>2 DEF FifoShape
  <2>4. NumbersGrow'
    <3>1. 1..Len(fifo') \subseteq 1..Len(fifo)
      BY <1>2, <2>1, <2>2
    <3>2. QED
      BY <1>1, <2>1, <2>3, <3>1 DEF NumbersGrow
  <2>5. isr = "copy" => Len(fifo) > 1
    BY <1>2, <2>1 DEF FifoShape
  <2>6. FifoShape'
    <3>1. step = "strobe" => \A i \in 1..Len(fifo') : fifo'[i].whole => fifo'[i].unheard
      <4>1. ASSUME step = "strobe", NEW i \in 1..Len(fifo') PROVE fifo'[i].unheard
        <5>1. CASE i = Len(fifo)
          BY <1>2, <2>1, <2>2, <4>1, <5>1
        <5>2. CASE i # Len(fifo)
          <6>1. i \in 1..Len(fifo) - 1
            BY <1>2, <2>1, <2>2, <5>2
          <6>2. i \in 1..Len(fifo) /\ fifo[i].whole /\ fifo'[i] = fifo[i]
            BY <1>2, <2>1, <6>1 DEF FifoShape
          <6>3. QED
            BY <4>1, <6>2 DEF FifoShape
        <5>3. QED
          BY <5>1, <5>2
      <4>2. QED
        BY <4>1
    <3>2. isr = "copy" => fifo' # <<>> /\ fifo'[1] = fifo[1]
      BY <1>2, <2>1, <2>2, <2>5
    <3>3. isr = "copy" => fifo'[1].whole /\ fifo'[1].kind # "length"
      BY <3>2 DEF FifoShape
    <3>4. \A i \in 1..Len(fifo') - 1 : fifo'[i].whole
      BY <2>2, <2>3
    <3>5. /\ DriverInv
          /\ step \notin {"listen", "idle", "wait", "clean", "on", "off"}
          /\ isr # "answering" /\ radioState # "UNKNOWN"
          /\ step \in Steady => radioState = "RX"
      BY <2>1, WhenReceiving
    <3>6. QED
      BY <1>1, <2>1, <3>1, <3>2, <3>3, <3>4, <3>5 DEF FifoShape
  <2>7. QED
    BY <1>3, <2>4, <2>6
<1>6. CASE TransmitEnds
  <2>1. UNCHANGED <<fifo, frames>> /\ syncFlag' = TRUE
    BY <1>6 DEF TransmitEnds, seen
  <2>2. NumbersGrow' /\ FifoShape'
    BY <1>1, <2>1 DEF NumbersGrow, FifoShape, Heard
  <2>3. QED
    BY <1>3, <2>2
<1>7. QED
  BY <1>4, <1>5, <1>6 DEF Air

\* Only what is damaged or for another address is not handed up.
LEMMA OnlyMine ==
  ASSUME TypeOK, fifo # <<>>, IsForUs(fifo[1]), fifo[1].kind # "length"
  PROVE  fifo[1].kind = "good"
<1>1. fifo[1] \in Frame
  BY Types
<1>2. fifo[1].kind \in {"good", "crc", "length", "near", "foreign"}
  BY <1>1, MrfiAssumption DEF Frame
<1>3. <<2, 2>> # <<1, 2>> /\ <<1, 3>> # <<1, 2>>
  OBVIOUS
<1>4. QED
  BY <1>2, <1>3 DEF IsForUs, Mrfi_RxAddrIsFiltered, AddressOf, Mine

LEMMA IsrKeepsFifo ==
  ASSUME DriverInv, FifoInv, Isr
  PROVE  FifoInv'
<1> USE DEF FifoInv, core, irq, program, seen
<1>1. /\ TypeOK /\ Len(fifo) \in Nat /\ Len(handed) \in Nat /\ frames \in Nat
      /\ (fifo # <<>> <=> Len(fifo) > 0)
      /\ \A i \in 1..Len(fifo) : fifo[i].number \in Nat
      /\ \A i \in 1..Len(handed) : handed[i].number \in Nat
  BY Types, MrfiAssumption DEF DriverInv, Frame, Handed
<1>2. CASE SyncInterrupt
  <2>1. /\ isr = "none" /\ isr' \in {"none", "bytes"} /\ (Forwards => isr' = "bytes")
        /\ syncInt
        /\ UNCHANGED <<radioState, fifo, step, frames, handed>>
    BY <1>2 DEF SyncInterrupt, Running
  <2>2. step \in Steady /\ radioState = "RX"
    BY <2>1 DEF DriverInv, CoreShape, Matches, TypeOK
  <2>3. FifoShape' /\ NumbersGrow' /\ HandedMine'
    BY <2>1, <2>2 DEF FifoShape, NumbersGrow, HandedMine, Heard, Steady
  <2>4. QED
    BY <2>3
<1>3. ASSUME isr # "none", fifo' = <<>>, UNCHANGED <<radioState, step, frames, handed>>,
             isr' # "copy"
      PROVE  FifoInv'
  BY <1>3 DEF FifoShape, NumbersGrow, HandedMine
<1>4. CASE ReadLength
  <2>1. CASE fifo' = <<>>
    <3>1. isr' # "copy"
      BY <1>4, <2>1 DEF ReadLength, FrameFits
    <3>2. QED
      BY <1>3, <1>4, <2>1, <3>1 DEF ReadLength
  <2>2. CASE fifo' # <<>>
    <3>1. /\ isr = "bytes" /\ isr' = "copy" /\ FrameFits
          /\ UNCHANGED <<radioState, fifo, step, syncFlag, frames, handed>>
      BY <1>4, <2>2 DEF ReadLength, Flushed
    <3>2. step \in Steady /\ radioState = "RX"
      BY <3>1 DEF DriverInv, CoreShape
    <3>3. FifoShape' /\ NumbersGrow' /\ HandedMine'
      <4>1. Len(fifo) = 1 /\ fifo[1].whole /\ fifo[1].kind # "length" /\ fifo # <<>>
        BY <1>1, <3>1 DEF FrameFits
      <4>2. FifoShape'
        BY <3>1, <3>2, <4>1 DEF FifoShape, Steady
      <4>3. QED
        BY <3>1, <4>2 DEF NumbersGrow, HandedMine
    <3>4. QED
      BY <3>3
  <2>3. QED
    BY <2>1, <2>2
<1>5. CASE ReadFrame
  <2>1. /\ isr = "copy" /\ isr' \in {"none", "answer"}
        /\ UNCHANGED <<radioState, step, syncFlag, frames>>
    BY <1>5 DEF ReadFrame
  <2>2. step \in Steady /\ radioState = "RX"
    BY <2>1 DEF DriverInv, CoreShape
  <2>3. /\ fifo # <<>> /\ fifo[1].kind # "length"
        /\ \A i \in 2..Len(fifo) : Heard(i) => syncFlag
    BY <2>1 DEF FifoShape
  <2>4. /\ Len(fifo') = Len(fifo) - 1
        /\ \A i \in 1..Len(fifo') : fifo'[i] = fifo[i + 1]
        /\ \/ handed' = handed
           \/ /\ IsForUs(fifo[1]) /\ Len(handed') = Len(handed) + 1
              /\ \A i \in 1..Len(handed) : handed'[i] = handed[i]
              /\ handed'[Len(handed')].number = fifo[1].number
              /\ handed'[Len(handed')].kind = fifo[1].kind
    BY <1>1, <1>5, <2>3, ReadFacts
  <2>5. NumbersGrow'
    <3>1. \A i \in 1..Len(fifo') : i + 1 \in 1..Len(fifo) /\ fifo'[i].number = fifo[i + 1].number
      BY <1>1, <2>4
    <3>2. 1 \in 1..Len(fifo)
      BY <1>1, <2>3
    <3>3. ASSUME NEW i \in 1..Len(fifo'), NEW j \in 1..Len(fifo'), i < j
          PROVE  fifo'[i].number < fifo'[j].number
      BY <1>1, <3>1, <3>3 DEF NumbersGrow
    <3>4. ASSUME NEW i \in 1..Len(fifo')
          PROVE  fifo'[i].number <= frames /\ fifo[1].number < fifo'[i].number
      <4>1. i + 1 \in 1..Len(fifo) /\ 1 < i + 1
        BY <3>1
      <4>2. QED
        BY <1>1, <3>1, <3>2, <4>1 DEF NumbersGrow
    <3>5. ASSUME NEW j \in 1..Len(handed)
          PROVE  /\ handed[j].number < fifo[1].number
                 /\ \A i \in 1..Len(fifo') : handed[j].number < fifo'[i].number
      BY <1>1, <3>1, <3>2 DEF NumbersGrow
    <3>6. /\ fifo[1].number <= frames
          /\ \A i \in 1..Len(handed) : handed[i].number <= frames
          /\ \A i, j \in 1..Len(handed) : i < j => handed[i].number < handed[j].number
      BY <3>2 DEF NumbersGrow
    <3>7. CASE handed' = handed
      BY <2>1, <3>3, <3>4, <3>5, <3>6, <3>7 DEF NumbersGrow
    <3>8. CASE /\ Len(handed') = Len(handed) + 1
               /\ \A i \in 1..Len(handed) : handed'[i] = handed[i]
               /\ handed'[Len(handed')].number = fifo[1].number
      <4>1. ASSUME NEW j \in 1..Len(handed')
            PROVE  \/ j \in 1..Len(handed) /\ handed'[j].number = handed[j].number
                   \/ j = Len(handed) + 1 /\ handed'[j].number = fifo[1].number
        BY <1>1, <3>8
      <4>2. \A j \in 1..Len(handed') : handed'[j].number <= frames
        BY <3>6, <4>1
      <4>3. ASSUME NEW i \in 1..Len(handed'), NEW j \in 1..Len(handed'), i < j
            PROVE  handed'[i].number < handed'[j].number
        <5>1. i \in 1..Len(handed)
          BY <1>1, <3>8, <4>3
        <5>2. i # Len(handed) + 1
          BY <1>1, <5>1
        <5>3. QED
          BY <3>5, <3>6, <4>1, <4>3, <5>1, <5>2
      <4>4. \A i \in 1..Len(fifo'), j \in 1..Len(handed') : handed'[j].number < fifo'[i].number
        BY <3>4, <3>5, <4>1
      <4>5. QED
        BY <2>1, <3>3, <3>4, <4>2, <4>3, <4>4 DEF NumbersGrow
    <3>9. QED
      BY <2>4, <3>7, <3>8
  <2>6. HandedMine'
    BY <1>1, <2>3, <2>4, OnlyMine DEF HandedMine
  <2>7. \A i \in 1..Len(fifo') : Heard(i)' => syncFlag'
    <3>1. \A i \in 1..Len(fifo') : i + 1 \in 2..Len(fifo) /\ fifo'[i] = fifo[i + 1]
      BY <1>1, <2>4
    <3>2. QED
      BY <2>1, <2>3, <3>1 DEF Heard
  <2>8. \A i \in 1..Len(fifo') - 1 : fifo'[i].whole
    BY <1>1, <2>3, <2>4 DEF FifoShape
  <2>9. FifoShape'
    BY <2>1, <2>2, <2>7, <2>8 DEF FifoShape, Steady
  <2>10. QED
    BY <2>5, <2>6, <2>9
<1>6. CASE AnswerStarts
  BY <1>3, <1>6 DEF AnswerStarts, Flushed
<1>7. CASE AnswerEnds
  <2>1. /\ isr = "answering" /\ isr' = "none" /\ fifo = <<>> /\ fifo' = <<>>
        /\ UNCHANGED <<radioState, step, frames, handed>>
    BY <1>7 DEF AnswerEnds, FifoShape
  <2>2. QED
    BY <1>3, <2>1
<1>8. QED
  BY <1>2, <1>4, <1>5, <1>6, <1>7 DEF Isr

-----------------------------------------------------------------------------
(* Numbers.                                                                *)

LEMMA Remainder ==
  ASSUME NEW x \in Int
  PROVE  \E q \in Int : x % 256 = x - 256 * q
OBVIOUS

\* y follows x, or comes 2, 4, 8 or 16 draws after it.
After1(x, y) == \E q \in Int : y = 109 * x + 67 - 256 * q
After2(x, y) == \E q \in Int : y = 105 * x + 202 - 256 * q
After4(x, y) == \E q \in Int : y = 17 * x + 164 - 256 * q
After8(x, y) == \E q \in Int : y = 33 * x + 136 - 256 * q
After16(x, y) == \E q \in Int : y = 65 * x + 16 - 256 * q

LEMMA Draws2 ==
  ASSUME NEW x \in Int, NEW y \in Int, NEW z \in Int, After1(x, y), After1(y, z)
  PROVE  After2(x, z)
<1>1. PICK p \in Int : y = 109 * x + 67 - 256 * p
  BY DEF After1
<1>2. PICK q \in Int : z = 109 * y + 67 - 256 * q
  BY DEF After1
<1>3. PICK r \in Int : r = 109 * p + q - 46 * x - 28
  OBVIOUS
<1>4. z = 105 * x + 202 - 256 * r
  BY <1>1, <1>2, <1>3
<1>5. QED
  BY <1>4 DEF After2

LEMMA Draws4 ==
  ASSUME NEW x \in Int, NEW y \in Int, NEW z \in Int, After2(x, y), After2(y, z)
  PROVE  After4(x, z)
<1>1. PICK p \in Int : y = 105 * x + 202 - 256 * p
  BY DEF After2
<1>2. PICK q \in Int : z = 105 * y + 202 - 256 * q
  BY DEF After2
<1>3. PICK r \in Int : r = 105 * p + q - 43 * x - 83
  OBVIOUS
<1>4. z = 17 * x + 164 - 256 * r
  BY <1>1, <1>2, <1>3
<1>5. QED
  BY <1>4 DEF After4

LEMMA Draws8 ==
  ASSUME NEW x \in Int, NEW y \in Int, NEW z \in Int, After4(x, y), After4(y, z)
  PROVE  After8(x, z)
<1>1. PICK p \in Int : y = 17 * x + 164 - 256 * p
  BY DEF After4
<1>2. PICK q \in Int : z = 17 * y + 164 - 256 * q
  BY DEF After4
<1>3. PICK r \in Int : r = 17 * p + q - 1 * x - 11
  OBVIOUS
<1>4. z = 33 * x + 136 - 256 * r
  BY <1>1, <1>2, <1>3
<1>5. QED
  BY <1>4 DEF After8

LEMMA Draws16 ==
  ASSUME NEW x \in Int, NEW y \in Int, NEW z \in Int, After8(x, y), After8(y, z)
  PROVE  After16(x, z)
<1>1. PICK p \in Int : y = 33 * x + 136 - 256 * p
  BY DEF After8
<1>2. PICK q \in Int : z = 33 * y + 136 - 256 * q
  BY DEF After8
<1>3. PICK r \in Int : r = 33 * p + q - 4 * x - 18
  OBVIOUS
<1>4. z = 65 * x + 16 - 256 * r
  BY <1>1, <1>2, <1>3
<1>5. QED
  BY <1>4 DEF After16

\* After 1, 2, 4, 8 or 16 draws the last bits have not all come back.
LEMMA BitsDiffer ==
  ASSUME NEW x \in Int, NEW y \in Int
  PROVE  /\ After1(x, y) => \E q \in Int : y = x + 1 + 2 * q
         /\ After2(x, y) => \E q \in Int : y = x + 2 + 4 * q
         /\ After4(x, y) => \E q \in Int : y = x + 4 + 8 * q
         /\ After8(x, y) => \E q \in Int : y = x + 8 + 16 * q
         /\ After16(x, y) => \E q \in Int : y = x + 16 + 32 * q
<1>1. ASSUME NEW q \in Int, y = 109 * x + 67 - 256 * q
      PROVE  \E r \in Int : y = x + 1 + 2 * r
  <2>1. PICK r \in Int : r = 54 * x + 33 - 128 * q
    OBVIOUS
  <2>2. y = x + 1 + 2 * r
    BY <1>1, <2>1
  <2>3. QED
    BY <2>2
<1>2. ASSUME NEW q \in Int, y = 105 * x + 202 - 256 * q
      PROVE  \E r \in Int : y = x + 2 + 4 * r
  <2>1. PICK r \in Int : r = 26 * x + 50 - 64 * q
    OBVIOUS
  <2>2. y = x + 2 + 4 * r
    BY <1>2, <2>1
  <2>3. QED
    BY <2>2
<1>3. ASSUME NEW q \in Int, y = 17 * x + 164 - 256 * q
      PROVE  \E r \in Int : y = x + 4 + 8 * r
  <2>1. PICK r \in Int : r = 2 * x + 20 - 32 * q
    OBVIOUS
  <2>2. y = x + 4 + 8 * r
    BY <1>3, <2>1
  <2>3. QED
    BY <2>2
<1>4. ASSUME NEW q \in Int, y = 33 * x + 136 - 256 * q
      PROVE  \E r \in Int : y = x + 8 + 16 * r
  <2>1. PICK r \in Int : r = 2 * x + 8 - 16 * q
    OBVIOUS
  <2>2. y = x + 8 + 16 * r
    BY <1>4, <2>1
  <2>3. QED
    BY <2>2
<1>5. ASSUME NEW q \in Int, y = 65 * x + 16 - 256 * q
      PROVE  \E r \in Int : y = x + 16 + 32 * r
  <2>1. PICK r \in Int : r = 2 * x + 0 - 8 * q
    OBVIOUS
  <2>2. y = x + 16 + 32 * r
    BY <1>5, <2>1
  <2>3. QED
    BY <2>2
<1>6. QED
  BY <1>1, <1>2, <1>3, <1>4, <1>5 DEF After1, After2, After4, After8, After16

\* Sixteen draws from a seed: the multiplier is 1 modulo 4 and the increment is
\* odd, so that no seed comes back.
LEMMA DrawsDiffer ==
  ASSUME NEW seed \in 0..255, NEW draw, draw[0] = seed,
         \A n \in 1..16 : draw[n] = MRFI_RandomByte(draw[n - 1])
  PROVE  \A n \in 1..16 : draw[n] # seed
<1>1. \A n \in 0..16 : draw[n] \in Int
  <2>1. draw[0] \in Int
    OBVIOUS
  <2>2. \A n \in 1..16 : draw[n] = (draw[n - 1] * 109 + 67) % 256
    BY DEF MRFI_RandomByte
  <2>3. \A n \in 1..16 : draw[n - 1] \in Int => draw[n] \in Int
    BY <2>2
  <2> HIDE DEF MRFI_RandomByte
  <2>4. \A n \in 0..16 : n = 0 \/ n - 1 \in 0..15
    OBVIOUS
  <2>5. QED
    BY <2>1, <2>3
<1>2. \A k, n \in 0..16 : n = k + 1 => After1(draw[k], draw[n])
  <2>1. ASSUME NEW k \in 0..16, NEW n \in 0..16, n = k + 1
        PROVE  After1(draw[k], draw[n])
    <3>1. draw[n] = MRFI_RandomByte(draw[n - 1]) /\ n - 1 = k
      BY <2>1
    <3>2. draw[n] = (draw[k] * 109 + 67) % 256
      BY <3>1 DEF MRFI_RandomByte
    <3>3. PICK x \in Int : x = draw[k] * 109 + 67
      BY <1>1
    <3>4. PICK q \in Int : draw[n] = x - 256 * q
      BY <3>2, <3>3, Remainder
    <3>5. draw[n] = 109 * draw[k] + 67 - 256 * q
      BY <1>1, <3>3, <3>4
    <3>6. QED
      BY <3>5 DEF After1
  <2>2. QED
    BY <2>1
<1>3. \A k, n \in 0..16 : n = k + 2 => After2(draw[k], draw[n])
  <2>1. ASSUME NEW k \in 0..16, NEW n \in 0..16, n = k + 2
        PROVE  After2(draw[k], draw[n])
    <3>1. k + 1 \in 0..16 /\ n = (k + 1) + 1
      BY <2>1
    <3>2. After1(draw[k], draw[k + 1]) /\ After1(draw[k + 1], draw[n])
      BY <1>2, <3>1
    <3>3. QED
      BY <1>1, <3>1, <3>2, Draws2
  <2>2. QED
    BY <2>1
<1>4. \A k, n \in 0..16 : n = k + 4 => After4(draw[k], draw[n])
  <2>1. ASSUME NEW k \in 0..16, NEW n \in 0..16, n = k + 4
        PROVE  After4(draw[k], draw[n])
    <3>1. k + 2 \in 0..16 /\ n = (k + 2) + 2
      BY <2>1
    <3>2. After2(draw[k], draw[k + 2]) /\ After2(draw[k + 2], draw[n])
      BY <1>3, <3>1
    <3>3. QED
      BY <1>1, <3>1, <3>2, Draws4
  <2>2. QED
    BY <2>1
<1>5. \A k, n \in 0..16 : n = k + 8 => After8(draw[k], draw[n])
  <2>1. ASSUME NEW k \in 0..16, NEW n \in 0..16, n = k + 8
        PROVE  After8(draw[k], draw[n])
    <3>1. k + 4 \in 0..16 /\ n = (k + 4) + 4
      BY <2>1
    <3>2. After4(draw[k], draw[k + 4]) /\ After4(draw[k + 4], draw[n])
      BY <1>4, <3>1
    <3>3. QED
      BY <1>1, <3>1, <3>2, Draws8
  <2>2. QED
    BY <2>1
<1>6. \A k, n \in 0..16 : n = k + 16 => After16(draw[k], draw[n])
  <2>1. ASSUME NEW k \in 0..16, NEW n \in 0..16, n = k + 16
        PROVE  After16(draw[k], draw[n])
    <3>1. k + 8 \in 0..16 /\ n = (k + 8) + 8
      BY <2>1
    <3>2. After8(draw[k], draw[k + 8]) /\ After8(draw[k + 8], draw[n])
      BY <1>5, <3>1
    <3>3. QED
      BY <1>1, <3>1, <3>2, Draws16
  <2>2. QED
    BY <2>1
<1>7. \A k, n \in 0..16 : n = k + 1 => \E q \in Int : draw[n] = draw[k] + 1 + 2 * q
  <2>1. ASSUME NEW k \in 0..16, NEW n \in 0..16, n = k + 1
        PROVE  \E q \in Int : draw[n] = draw[k] + 1 + 2 * q
    <3>1. draw[k] \in Int /\ draw[n] \in Int /\ After1(draw[k], draw[n])
      BY <1>1, <1>2, <2>1
    <3>2. QED
      BY <3>1, BitsDiffer
  <2>2. QED
    BY <2>1
<1>8. \A k, n \in 0..16 : n = k + 2 => \E q \in Int : draw[n] = draw[k] + 2 + 4 * q
  <2>1. ASSUME NEW k \in 0..16, NEW n \in 0..16, n = k + 2
        PROVE  \E q \in Int : draw[n] = draw[k] + 2 + 4 * q
    <3>1. draw[k] \in Int /\ draw[n] \in Int /\ After2(draw[k], draw[n])
      BY <1>1, <1>3, <2>1
    <3>2. QED
      BY <3>1, BitsDiffer
  <2>2. QED
    BY <2>1
<1>9. \A k, n \in 0..16 : n = k + 4 => \E q \in Int : draw[n] = draw[k] + 4 + 8 * q
  <2>1. ASSUME NEW k \in 0..16, NEW n \in 0..16, n = k + 4
        PROVE  \E q \in Int : draw[n] = draw[k] + 4 + 8 * q
    <3>1. draw[k] \in Int /\ draw[n] \in Int /\ After4(draw[k], draw[n])
      BY <1>1, <1>4, <2>1
    <3>2. QED
      BY <3>1, BitsDiffer
  <2>2. QED
    BY <2>1
<1>10. \A k, n \in 0..16 : n = k + 8 => \E q \in Int : draw[n] = draw[k] + 8 + 16 * q
  <2>1. ASSUME NEW k \in 0..16, NEW n \in 0..16, n = k + 8
        PROVE  \E q \in Int : draw[n] = draw[k] + 8 + 16 * q
    <3>1. draw[k] \in Int /\ draw[n] \in Int /\ After8(draw[k], draw[n])
      BY <1>1, <1>5, <2>1
    <3>2. QED
      BY <3>1, BitsDiffer
  <2>2. QED
    BY <2>1
<1>11. \A k, n \in 0..16 : n = k + 16 => \E q \in Int : draw[n] = draw[k] + 16 + 32 * q
  <2>1. ASSUME NEW k \in 0..16, NEW n \in 0..16, n = k + 16
        PROVE  \E q \in Int : draw[n] = draw[k] + 16 + 32 * q
    <3>1. draw[k] \in Int /\ draw[n] \in Int /\ After16(draw[k], draw[n])
      BY <1>1, <1>6, <2>1
    <3>2. QED
      BY <3>1, BitsDiffer
  <2>2. QED
    BY <2>1
<1>12. PICK q1 \in Int : draw[1] = draw[0] + 1 + 2 * q1
  BY <1>7
<1>13. PICK q2 \in Int : draw[2] = draw[0] + 2 + 4 * q2
  BY <1>8
<1>14. PICK q3 \in Int : draw[3] = draw[2] + 1 + 2 * q3
  BY <1>7
<1>15. PICK q4 \in Int : draw[4] = draw[0] + 4 + 8 * q4
  BY <1>9
<1>16. PICK q5 \in Int : draw[5] = draw[4] + 1 + 2 * q5
  BY <1>7
<1>17. PICK q6 \in Int : draw[6] = draw[4] + 2 + 4 * q6
  BY <1>8
<1>18. PICK q7 \in Int : draw[7] = draw[6] + 1 + 2 * q7
  BY <1>7
<1>19. PICK q8 \in Int : draw[8] = draw[0] + 8 + 16 * q8
  BY <1>10
<1>20. PICK q9 \in Int : draw[9] = draw[8] + 1 + 2 * q9
  BY <1>7
<1>21. PICK q10 \in Int : draw[10] = draw[8] + 2 + 4 * q10
  BY <1>8
<1>22. PICK q11 \in Int : draw[11] = draw[10] + 1 + 2 * q11
  BY <1>7
<1>23. PICK q12 \in Int : draw[12] = draw[8] + 4 + 8 * q12
  BY <1>9
<1>24. PICK q13 \in Int : draw[13] = draw[12] + 1 + 2 * q13
  BY <1>7
<1>25. PICK q14 \in Int : draw[14] = draw[12] + 2 + 4 * q14
  BY <1>8
<1>26. PICK q15 \in Int : draw[15] = draw[14] + 1 + 2 * q15
  BY <1>7
<1>27. PICK q16 \in Int : draw[16] = draw[0] + 16 + 32 * q16
  BY <1>11
<1>28. draw[1] # seed
  BY <1>12
<1>29. draw[2] # seed
  BY <1>13
<1>30. draw[3] # seed
  BY <1>13, <1>14
<1>31. draw[4] # seed
  BY <1>15
<1>32. draw[5] # seed
  BY <1>15, <1>16
<1>33. draw[6] # seed
  BY <1>15, <1>17
<1>34. draw[7] # seed
  BY <1>15, <1>17, <1>18
<1>35. draw[8] # seed
  BY <1>19
<1>36. draw[9] # seed
  BY <1>19, <1>20
<1>37. draw[10] # seed
  BY <1>19, <1>21
<1>38. draw[11] # seed
  BY <1>19, <1>21, <1>22
<1>39. draw[12] # seed
  BY <1>19, <1>23
<1>40. draw[13] # seed
  BY <1>19, <1>23, <1>24
<1>41. draw[14] # seed
  BY <1>19, <1>23, <1>25
<1>42. draw[15] # seed
  BY <1>19, <1>23, <1>25, <1>26
<1>43. draw[16] # seed
  BY <1>27
<1>44. \A n \in 1..16 : n \in {1, 2, 3, 4, 5, 6, 7, 8, 9, 10, 11, 12, 13, 14, 15, 16}
  OBVIOUS
<1>45. QED
  BY <1>28, <1>29, <1>30, <1>31, <1>32, <1>33, <1>34, <1>35, <1>36, <1>37, <1>38, <1>39, <1>40, <1>41, <1>42, <1>43, <1>44

Less == {ss \in Nat \X Nat : ss[1] < ss[2]}

\* Induction, for a set of numbers.
LEMMA Counting ==
  ASSUME NEW T, 0 \in T, \A n \in Nat : n \in T => n + 1 \in T
  PROVE  Nat \subseteq T
<1> SUFFICES ASSUME Nat \ T # {} PROVE FALSE
  OBVIOUS
<1>1. IsWellFoundedOn(Less, Nat)
  BY NatLessThanWellFounded, Zenon DEF OpToRel, Less
<1>2. PICK x \in Nat \ T : \A y \in Nat \ T : <<y, x>> \notin Less
  BY <1>1, WFMin, Zenon
<1>3. x # 0 /\ x - 1 \in Nat /\ <<x - 1, x>> \in Less
  BY DEF Less
<1>4. x - 1 \in T
  BY <1>2, <1>3
<1>5. QED
  BY <1>3, <1>4

\* The draws from a seed are a function of their number.
LEMMA DrawsExist ==
  ASSUME NEW seed
  PROVE  \E draw : draw = [n \in 0..16 |-> IF n = 0 THEN seed ELSE MRFI_RandomByte(draw[n - 1])]
<1> DEFINE Draws(m, f) == f[0] = seed /\ \A n \in 1..m : f[n] = MRFI_RandomByte(f[n - 1])
           T == {m \in Nat : \E f : Draws(m, f)}
<1> HIDE DEF Draws
<1>1. 0 \in T
  <2>1. Draws(0, [n \in 0..16 |-> seed])
    BY DEF Draws
  <2>2. QED
    BY <2>1
<1>2. ASSUME NEW m \in T PROVE m + 1 \in T
  <2>1. PICK f : Draws(m, f)
    OBVIOUS
  <2> DEFINE g == [n \in 0..m + 1 |-> IF n <= m THEN f[n] ELSE MRFI_RandomByte(f[m])]
  <2>2. m \in Nat
    OBVIOUS
  <2>3. \A n \in 0..m : g[n] = f[n]
    BY <2>2
  <2>4. g[m + 1] = MRFI_RandomByte(f[m])
    BY <2>2
  <2>5. g[0] = f[0]
    BY <2>2, <2>3
  <2> HIDE DEF g
  <2>6. ASSUME NEW n \in 1..m + 1 PROVE g[n] = MRFI_RandomByte(g[n - 1])
    <3>1. CASE n \in 1..m
      <4>1. n \in 0..m /\ n - 1 \in 0..m
        BY <2>2, <3>1
      <4>2. f[n] = MRFI_RandomByte(f[n - 1])
        BY <2>1, <3>1 DEF Draws
      <4>3. QED
        BY <2>3, <4>1, <4>2
    <3>2. CASE n = m + 1
      <4>1. n - 1 = m /\ m \in 0..m
        BY <2>2, <3>2
      <4>2. QED
        BY <2>3, <2>4, <3>2, <4>1
    <3>3. QED
      BY <2>2, <3>1, <3>2
  <2>7. Draws(m + 1, g)
    BY <2>1, <2>5, <2>6 DEF Draws
  <2>8. QED
    BY <2>2, <2>7
<1>3. Nat \subseteq T
  <2>1. T \subseteq Nat
    OBVIOUS
  <2> HIDE DEF T
  <2>2. QED
    BY <1>1, <1>2, <2>1, Counting
<1>4. PICK f : Draws(16, f)
  BY <1>3
<1>5. PICK d : d = [n \in 0..16 |-> f[n]]
  OBVIOUS
<1>6. d = [n \in 0..16 |-> IF n = 0 THEN seed ELSE MRFI_RandomByte(d[n - 1])]
  <2>1. f[0] = seed /\ \A n \in 1..16 : f[n] = MRFI_RandomByte(f[n - 1])
    BY <1>4 DEF Draws
  <2>2. ASSUME NEW n \in 0..16
        PROVE  d[n] = IF n = 0 THEN seed ELSE MRFI_RandomByte(d[n - 1])
    <3>1. d[n] = f[n]
      BY <1>5
    <3>2. n # 0 => n \in 1..16 /\ n - 1 \in 0..16
      OBVIOUS
    <3>3. n # 0 => d[n - 1] = f[n - 1]
      BY <1>5, <3>2
    <3>4. QED
      BY <2>1, <3>1, <3>2, <3>3
  <2>3. QED
    BY <1>5, <2>2
<1>7. QED
  BY <1>6

LEMMA RandomIsAlwaysFresh == RandomIsFresh
<1> SUFFICES ASSUME NEW seed \in 0..255
             PROVE  LET Draw[n \in 0..16] ==
                          IF n = 0 THEN seed ELSE MRFI_RandomByte(Draw[n - 1])
                    IN \A n \in 1..16 : Draw[n] # seed
  BY DEF RandomIsFresh
<1> DEFINE Draw[n \in 0..16] == IF n = 0 THEN seed ELSE MRFI_RandomByte(Draw[n - 1])
<1> HIDE DEF MRFI_RandomByte
<1>1. Draw = [n \in 0..16 |-> IF n = 0 THEN seed ELSE MRFI_RandomByte(Draw[n - 1])]
  BY DrawsExist, Zenon DEF Draw
<1> HIDE DEF Draw
<1>2. Draw[0] = seed
  BY <1>1
<1>3. \A n \in 1..16 : Draw[n] = MRFI_RandomByte(Draw[n - 1])
  BY <1>1
<1>4. \A n \in 1..16 : Draw[n] # seed
  BY <1>2, <1>3, DrawsDiffer
<1>5. QED
  BY <1>4 DEF Draw

LEMMA Halves ==
  ASSUME NEW x \in Int
  PROVE  /\ x \div 2 \in Int
         /\ x = 2 * (x \div 2) \/ x = 2 * (x \div 2) + 1
OBVIOUS

\* The strength is half the register, which is signed, rounded towards 0.
LEMMA RssiOf ==
  ASSUME NEW n \in -128..127
  PROVE  /\ n % 256 \in 0..255
         /\ \E h \in Int :
              /\ n >= 0 => n = 2 * h \/ n = 2 * h + 1
              /\ n < 0 => n = 2 * h \/ n = 2 * h - 1
              /\ Mrfi_CalculateRssi(n % 256) = IF h - 74 < -128 THEN -128 ELSE h - 74
<1>1. CASE n >= 0
  <2>1. n % 256 = n /\ n \in 0..127
    BY <1>1
  <2>2. n \div 2 \in Int /\ (n = 2 * (n \div 2) \/ n = 2 * (n \div 2) + 1)
    BY Halves
  <2>3. Mrfi_CalculateRssi(n) = IF n \div 2 - 74 < -128 THEN -128 ELSE n \div 2 - 74
    BY <1>1, <2>1 DEF Mrfi_CalculateRssi, CDiv
  <2>4. QED
    BY <1>1, <2>1, <2>2, <2>3
<1>2. CASE n < 0
  <2>1. n % 256 = n + 256 /\ n + 256 \in 128..255
    BY <1>2
  <2>2. PICK k \in Int : k = (-n) \div 2 /\ (-n = 2 * k \/ -n = 2 * k + 1)
    BY Halves
  <2>3. PICK r \in 128..255 : r = n + 256 /\ r - 256 = n
    BY <2>1
  <2>4. CDiv(n, 2) = -k
    BY <1>2, <2>2 DEF CDiv
  <2>5. Mrfi_CalculateRssi(r) = IF -k - 74 < -128 THEN -128 ELSE -k - 74
    BY <2>3, <2>4 DEF Mrfi_CalculateRssi
  <2>6. PICK h \in Int : h = -k
    BY <2>2
  <2>7. n = 2 * h \/ n = 2 * h - 1
    BY <2>2, <2>6
  <2>8. QED
    BY <1>2, <2>1, <2>3, <2>5, <2>6, <2>7
<1>3. QED
  BY <1>1, <1>2

LEMMA RssiAlwaysGrows == RssiGrows
<1>1. ASSUME NEW raw \in 0..255 PROVE Mrfi_CalculateRssi(raw) \in -128..127
  <2>1. PICK n \in -128..127 : raw = n % 256
    <3>1. CASE raw < 128
      BY <3>1
    <3>2. CASE raw >= 128
      <4>1. PICK n \in -128..127 : n = raw - 256 /\ n < 0
        BY <3>2
      <4>2. n % 256 = n + 256
        BY <4>1
      <4>3. n + 256 = raw
        BY <4>1
      <4>4. QED
        BY <4>2, <4>3
    <3>3. QED
      BY <3>1, <3>2
  <2>2. PICK h \in Int : /\ n >= 0 => n = 2 * h \/ n = 2 * h + 1
                         /\ n < 0 => n = 2 * h \/ n = 2 * h - 1
                         /\ Mrfi_CalculateRssi(n % 256) = IF h - 74 < -128 THEN -128 ELSE h - 74
    BY RssiOf
  <2>3. h <= 64
    BY <2>2
  <2>4. QED
    BY <2>1, <2>2, <2>3
<1>2. ASSUME NEW n \in -128..126
      PROVE  Mrfi_CalculateRssi(n % 256) <= Mrfi_CalculateRssi((n + 1) % 256)
  <2>1. PICK m \in -128..127 : m = n + 1
    OBVIOUS
  <2>2. PICK h \in Int : /\ n >= 0 => n = 2 * h \/ n = 2 * h + 1
                         /\ n < 0 => n = 2 * h \/ n = 2 * h - 1
                         /\ Mrfi_CalculateRssi(n % 256) = IF h - 74 < -128 THEN -128 ELSE h - 74
    BY RssiOf
  <2>3. PICK g \in Int : /\ m >= 0 => m = 2 * g \/ m = 2 * g + 1
                         /\ m < 0 => m = 2 * g \/ m = 2 * g - 1
                         /\ Mrfi_CalculateRssi(m % 256) = IF g - 74 < -128 THEN -128 ELSE g - 74
    BY RssiOf
  <2>4. h <= g
    BY <2>1, <2>2, <2>3
  <2>5. QED
    BY <2>1, <2>2, <2>3, <2>4
<1>3. QED
  BY <1>1, <1>2 DEF RssiGrows

-----------------------------------------------------------------------------
(* The properties.                                                         *)

Inv == DriverInv /\ FifoInv

LEMMA InitInv == Init => Inv
<1> SUFFICES ASSUME Init PROVE Inv
  OBVIOUS
<1>1. fifo \in Seq(Frame) /\ Len(fifo) <= FifoFrames /\ handed \in Seq(Handed)
  BY NoFrames, EmptySeq DEF Init
<1>2. TypeOK
  <2>1. /\ retries \in 0..CcaRetries /\ left \in 0..DelayUnits /\ frames \in 0..MaxFrames
        /\ at \in Calls /\ step \in Steps /\ cont \in Steps
    BY MrfiAssumption DEF Init, Calls, Steps
  <2>2. QED
    BY <1>1, <2>1 DEF Init, TypeOK, Frame, Handed
<1>3. AssertionsHold /\ CallShape /\ DelayShape
  BY DEF Init, AssertionsHold, CallShape, DelayShape, NoStaleKill, Before
<1>4. CoreShape
  BY DEF Init, CoreShape, Matches, Steady
<1>5. FifoInv
  <2>1. Len(fifo) = 0 /\ Len(handed) = 0
    BY DEF Init
  <2>2. QED
    BY <2>1 DEF Init, FifoInv, FifoShape, NumbersGrow, HandedMine
<1>6. QED
  BY <1>2, <1>3, <1>4, <1>5 DEF Inv, DriverInv

LEMMA NextInv == Inv /\ [Next]_vars => Inv'
<1> SUFFICES ASSUME Inv, [Next]_vars PROVE Inv'
  OBVIOUS
<1> USE DEF Inv
<1>1. CASE Air \/ TransmitEnds
  BY <1>1, ChipKeepsDriver, ChipKeepsFifo
<1>2. CASE Isr
  BY <1>2, IsrKeepsDriver, IsrKeepsFifo DEF FifoInv, FifoShape
<1>3. CASE Program
  BY <1>3, ProgramKeepsDriver, ProgramKeepsFifo
<1>4. CASE UNCHANGED vars
  <2>1. UNCHANGED <<radioState, chip, fifo, syncInt, syncFlag, isr, at, step, cont,
                    found, retries, sent, left, sKillSem, sReplyDelayContext, frames,
                    handed, asserted>>
    BY <1>4 DEF vars, core, irq, program, delay, seen
  <2>2. DriverInv'
    BY <2>1 DEF DriverInv, TypeOK, AssertionsHold, CallShape, CoreShape, Matches,
                DelayShape, NoStaleKill
  <2>3. FifoInv'
    BY <2>1 DEF FifoInv, FifoShape, Heard, NumbersGrow, HandedMine
  <2>4. QED
    BY <2>2, <2>3
<1>5. QED
  BY <1>1, <1>2, <1>3, <1>4 DEF Next

LEMMA InvAlways == Spec => []Inv
BY InitInv, NextInv, PTL DEF Spec

\* The driver knows its radio, whatever interrupts and answers come in between:
\* no assertion of mrfi_radio.c fails, between two calls the core does what
\* mrfiRadioState says with the interrupt on exactly while the receiver is, no
\* reply delay is cut short by an earlier reply, no random byte comes back within
\* sixteen draws, and the strength of a frame fits its type and grows.
THEOREM DriverAlwaysKnowsRadio == Spec => []DriverKnowsRadio
<1>1. Inv => DriverKnowsRadio
  <2> SUFFICES ASSUME Inv PROVE DriverKnowsRadio
    OBVIOUS
  <2>1. CoreAsRecorded
    BY DEF Inv, DriverInv, CoreShape, CoreAsRecorded, Settled, Running, Steady, Matches
  <2>2. QED
    BY <2>1, RandomIsAlwaysFresh, RssiAlwaysGrows
       DEF Inv, DriverInv, DelayShape, DriverKnowsRadio
<1>2. QED
  BY <1>1, InvAlways, PTL

\* When the sync pin's interrupt reaches the driver, as its comment says, each
\* whole frame for this watch that came in while it listened is handed up, once
\* and in order, and no other (Mrfi_SyncPinRxIsr).
THEOREM FramesAlwaysHandedOver ==
  ASSUME Forwards
  PROVE  Spec => []HandedOver
<1>1. Inv => HandedOver
  <2> SUFFICES ASSUME Inv PROVE HandedOver
    OBVIOUS
  <2>1. HandedWhole /\ HandedMine
    BY DEF Inv, FifoInv, FifoShape, NumbersGrow, HandedWhole
  <2>2. NotForgotten
    BY DEF Inv, FifoInv, FifoShape, Heard, NotForgotten, Settled, Running, Steady
  <2>3. QED
    BY <2>1, <2>2 DEF HandedOver
<1>2. QED
  BY <1>1, InvAlways, PTL

\* An exchange leaves the radio in the state it found it in: the watch's receiver
\* is never left on by one (NWK_CHECK_FOR_RESTORE_STATE).
THEOREM AlwaysLeftAsFound == Spec => LeftAsFound
<1>1. Inv => (Return /\ at \in {"linking", "hello", "ready", "reply"}
                => radioState = found)
  BY DEF Inv, DriverInv, CallShape, Return, Goes, Sending, After
<1>2. Inv /\ [Next]_vars =>
        [Return /\ at \in {"linking", "hello", "ready", "reply"}
           => radioState = found]_vars
  BY <1>1
<1>3. QED
  BY <1>2, InvAlways, PTL DEF Spec, LeftAsFound
=============================================================================
