------------------------------ MODULE EventLoop ------------------------------
(***************************************************************************)
(* The main loop of core/openchronos.c against the interrupt handlers of   *)
(* drivers/rtca.c, drivers/timer.c and drivers/ports.c.                    *)
(*                                                                         *)
(* A handler leaves its events in the word of its driver and, most of the  *)
(* time, takes the processor out of LPM3.  The loop wakes, copies and      *)
(* zeroes the words one after the other (check_events), hands the copy to  *)
(* the listeners, serves the buttons (check_buttons) and sleeps again.     *)
(* The MSP430 does not nest interrupts, so a handler is one step; the loop *)
(* runs with interrupts enabled, so each of its memory accesses is one.    *)
(* A listener or a button handler may block in timer0_delay, which sleeps  *)
(* in a loop of its own.                                                   *)
(***************************************************************************)
EXTENDS Integers, FiniteSets

CONSTANTS
  RtcaEvent,    \* bits of rtca_last_event
  RtcaBurst,    \* the sets of bits one run of RTC_A_ISR can append
  Timer0Event,  \* bits of timer0_last_event, the 20 Hz one among them
  Tick20Hz,     \* TIMER0_EVENT_20HZ
  AsInt, PsInt, \* SYS_MSG_AS_INT and SYS_MSG_PS_INT
  Button,       \* bits of ports_pressed_btns
  MaxDelay      \* bound: calls of timer0_delay in one loop pass

Source == 1..4                             \* the order check_events polls them
Bits   == <<RtcaEvent, Timer0Event, {AsInt}, {PsInt}>>
Event  == RtcaEvent \cup Timer0Event \cup {AsInt, PsInt}

ASSUME EventAssumption ==
  /\ RtcaBurst \subseteq SUBSET RtcaEvent
  /\ Tick20Hz \in Timer0Event
  /\ RtcaEvent \cap Timer0Event = {}
  /\ AsInt \notin RtcaEvent \cup Timer0Event
  /\ PsInt \notin RtcaEvent \cup Timer0Event \cup {AsInt}
  /\ MaxDelay \in Nat

VARIABLES
  flag,     \* the event word of each source
  btns,     \* ports_pressed_btns
  pc,       \* where the main thread stands
  src,      \* the source check_events is polling
  msg,      \* its local copy of the events
  armed,    \* CCIE of TA0CCR4: a delay is running
  finished, \* delay_finished
  ret,      \* where timer0_delay returns to
  ndelay,   \* delays made in this pass
  owed,     \* history: events posted and not broadcast since
  due,      \* history: events pending when the loop last woke
  served    \* history: buttons check_buttons has read in this pass

loopVars  == <<pc, src, msg>>
delayVars == <<armed, finished, ret, ndelay>>
history   == <<owed, due, served>>
vars == <<flag, btns, loopVars, delayVars, history>>

PC == {"sleep", "lpm3", "test", "read", "clear", "dispatch", "callbacks",
       "buttons", "handler", "btnclear", "dsleep", "dlpm", "dcheck"}

\* All the events now in the words of the drivers.
Pending == UNION {flag[s] : s \in Source}

Goto(p) == pc' = p

Init ==
  /\ flag = [s \in Source |-> {}]
  /\ btns = {}
  /\ pc = "sleep" /\ src = 1 /\ msg = {}
  /\ armed = FALSE /\ finished = FALSE /\ ret = "callbacks" /\ ndelay = 0
  /\ owed = {} /\ due = {} /\ served = {}

-----------------------------------------------------------------------------
(* Interrupt handlers.                                                     *)

\* Fault: a handler that only wakes a delay.
WakesDelayOnly(news) ==
  /\ pc' = IF pc = "dlpm" THEN "dcheck" ELSE pc
  /\ UNCHANGED <<src, msg, due, ndelay>>

\* _BIC_SR_IRQ(LPM3_bits): a sleeping main thread goes on after its sleep
\* instruction.  Nothing happens to one that is still on its way there.
\* news: the events the handler posted.
Wake(news) ==
  /\ pc' = CASE pc = "lpm3" -> "test"
             [] pc = "dlpm" -> "dcheck"
             [] OTHER       -> pc
  /\ src' = IF pc = "lpm3" THEN 1 ELSE src
  /\ msg' = msg
  /\ due' = IF pc = "lpm3" THEN Pending \cup news ELSE due
  /\ ndelay' = IF pc = "lpm3" THEN 0 ELSE ndelay

Stay == UNCHANGED <<loopVars, due, ndelay>>

Post(s, E) ==
  /\ flag' = [flag EXCEPT ![s] = @ \cup E]
  /\ owed' = owed \cup E

RtcaISR(E) ==
  /\ Post(1, E) /\ Wake(E)
  /\ UNCHANGED <<btns, armed, finished, ret, served>>

\* timer0_A0_ISR (20 Hz) and the event branches of timer0_A1_ISR.
Timer0ISR(e) ==
  /\ Post(2, {e}) /\ Wake({e})
  /\ UNCHANGED <<btns, armed, finished, ret, served>>

\* Fault: the branch wakes the delay and does not set delay_finished.
DelayISRSilent ==
  /\ armed /\ Wake({})
  /\ UNCHANGED <<flag, btns, armed, finished, ret, owed, served>>

\* The TA0CCR4 branch of timer0_A1_ISR.
DelayISR ==
  /\ armed
  /\ finished' = TRUE
  /\ Wake({})
  /\ UNCHANGED <<flag, btns, armed, ret, owed, served>>

\* PORT2_ISR run by a button release that counts as a press.
ButtonISR(b) ==
  /\ btns' = btns \cup {b}
  /\ Wake({})
  /\ UNCHANGED <<flag, armed, finished, ret, owed, served>>

\* PORT2_ISR run by a sensor pin: the flag is set, the processor sleeps on.
SensorISR(s) ==
  /\ Post(s, Bits[s]) /\ Stay
  /\ UNCHANGED <<btns, armed, finished, ret, served>>

-----------------------------------------------------------------------------
(* The main loop.                                                          *)

\* _BIS_SR(LPM3_bits + GIE)
Sleep ==
  /\ pc = "sleep" /\ Goto("lpm3")
  /\ UNCHANGED <<flag, btns, src, msg, delayVars, history>>

\* Faults: the last word is not polled; one is polled beyond it.
SkipsLast == IF src < 3 THEN src' = src + 1 /\ Goto("test")
                        ELSE src' = src /\ Goto("dispatch")
PollsBeyond == IF src <= 4 THEN src' = src + 1 /\ Goto("test")
                           ELSE src' = src /\ Goto("dispatch")

NextSource ==
  IF src < 4 THEN src' = src + 1 /\ Goto("test")
             ELSE src' = src /\ Goto("dispatch")

\* if (word) ...
PollTest ==
  /\ pc = "test"
  /\ IF flag[src] = {} THEN NextSource ELSE Goto("read") /\ src' = src
  /\ UNCHANGED <<flag, btns, msg, delayVars, history>>

\* Faults: msg = word; the word is cleared before it is copied.
ReadOverwrites ==
  /\ pc = "read" /\ Goto("clear")
  /\ msg' = flag[src]
  /\ UNCHANGED <<flag, btns, src, delayVars, history>>
ClearsFirst ==
  /\ pc = "read" /\ Goto("clear")
  /\ flag' = [flag EXCEPT ![src] = {}]
  /\ UNCHANGED <<btns, src, msg, delayVars, history>>

\* msg |= word
PollRead ==
  /\ pc = "read" /\ Goto("clear")
  /\ msg' = msg \cup flag[src]
  /\ UNCHANGED <<flag, btns, src, delayVars, history>>

\* word = 0
PollClear ==
  /\ pc = "clear" /\ NextSource
  /\ flag' = [flag EXCEPT ![src] = {}]
  /\ UNCHANGED <<btns, msg, delayVars, history>>

\* Fault: msg is a static variable and keeps what it held.
KeepsMsg ==
  /\ pc = "dispatch"
  /\ Goto(IF msg = {} THEN "buttons" ELSE "callbacks")
  /\ owed' = (owed \ msg) \cup Pending
  /\ due' = {}
  /\ UNCHANGED <<flag, btns, src, msg, delayVars, served>>

\* Every listener registered for an event of msg is called.  The next pass
\* starts with an empty msg, a local variable of check_events.
Broadcast ==
  /\ pc = "dispatch"
  /\ Goto(IF msg = {} THEN "buttons" ELSE "callbacks")
  /\ owed' = (owed \ msg) \cup Pending
  /\ msg' = {} /\ due' = {}
  /\ UNCHANGED <<flag, btns, src, delayVars, served>>

ListenersReturn ==
  /\ pc = "callbacks" /\ Goto("buttons")
  /\ UNCHANGED <<flag, btns, src, msg, delayVars, history>>

\* check_buttons looks for the bits its mode knows and calls one handler.
ReadButtons ==
  /\ pc = "buttons"
  /\ Goto(IF btns = {} THEN "btnclear" ELSE "handler")
  /\ served' = btns
  /\ UNCHANGED <<flag, btns, src, msg, delayVars, owed, due>>

HandlerReturns ==
  /\ pc = "handler" /\ Goto("btnclear")
  /\ UNCHANGED <<flag, btns, src, msg, delayVars, history>>

\* ports_pressed_btns = 0
ClearButtons ==
  /\ pc = "btnclear" /\ Goto("sleep")
  /\ btns' = {} /\ served' = {}
  /\ UNCHANGED <<flag, src, msg, delayVars, owed, due>>

\* A listener or a handler calls timer0_delay.
StartDelay ==
  /\ pc \in {"callbacks", "handler"} /\ ndelay < MaxDelay
  /\ finished' = FALSE /\ armed' = TRUE
  /\ ret' = pc /\ ndelay' = ndelay + 1
  /\ Goto("dsleep")
  /\ UNCHANGED <<flag, btns, src, msg, history>>

DelaySleep ==
  /\ pc = "dsleep" /\ Goto("dlpm")
  /\ UNCHANGED <<flag, btns, src, msg, delayVars, history>>

\* if (delay_finished == 1) break;
DelayCheck ==
  /\ pc = "dcheck"
  /\ IF finished THEN Goto(ret) /\ armed' = FALSE
                  ELSE Goto("dsleep") /\ armed' = armed
  /\ UNCHANGED <<flag, btns, src, msg, finished, ret, ndelay, history>>

Main ==
  \/ Sleep \/ PollTest \/ PollRead \/ PollClear \/ Broadcast
  \/ ListenersReturn \/ ReadButtons \/ HandlerReturns \/ ClearButtons
  \/ StartDelay \/ DelaySleep \/ DelayCheck

Interrupt ==
  \/ \E E \in RtcaBurst : RtcaISR(E)
  \/ \E e \in Timer0Event : Timer0ISR(e)
  \/ DelayISR
  \/ \E b \in Button : ButtonISR(b)
  \/ \E s \in {3, 4} : SensorISR(s)

Next == Main \/ Interrupt

(***************************************************************************)
(* The processor executes the main thread; timer A runs from the crystal   *)
(* and nothing in the repository disables its 20 Hz compare, so that tick  *)
(* keeps coming; an armed delay compare matches.  The RTC (held while the  *)
(* clock is edited), the sensors and the user owe nothing.                 *)
(***************************************************************************)
Fairness ==
  /\ WF_vars(Main)
  /\ WF_vars(Timer0ISR(Tick20Hz))
  /\ WF_vars(DelayISR)

Spec == Init /\ [][Next]_vars
FairSpec == Spec /\ Fairness

-----------------------------------------------------------------------------
(* Properties.                                                             *)

TypeOK ==
  /\ flag \in [Source -> SUBSET Event]
  /\ \A s \in Source : flag[s] \subseteq Bits[s]
  /\ btns \subseteq Button
  /\ pc \in PC /\ src \in Source /\ msg \subseteq Event
  /\ armed \in BOOLEAN /\ finished \in BOOLEAN
  /\ ret \in {"callbacks", "handler"} /\ ndelay \in 0..MaxDelay
  /\ owed \subseteq Event /\ due \subseteq Event /\ served \subseteq Button

(***************************************************************************)
(* Whatever was pending when the loop woke is broadcast in that very pass, *)
(* however the interrupts interleave with the polling of the four words:   *)
(* no event that woke the watch waits for a second wake-up.                *)
(***************************************************************************)
DueIsBroadcast == pc = "dispatch" => due \subseteq msg

(***************************************************************************)
(* The copy handed to the listeners holds only events posted since they    *)
(* were last broadcast: an event is never broadcast twice for one posting, *)
(* nor kept in msg from one pass to the next.                              *)
(***************************************************************************)
NoReplay == pc = "dispatch" => msg \subseteq owed

\* What is broadcast is what is due: nothing less, and nothing twice.
BroadcastIsDue == DueIsBroadcast /\ NoReplay

(***************************************************************************)
(* A word that carries a single event survives the unprotected copy and    *)
(* clear: an interrupt of a sensor is always in its flag or in the copy    *)
(* that is about to be broadcast.                                          *)
(***************************************************************************)
SensorNotLost == owed \cap {AsInt, PsInt} \subseteq Pending \cup msg

(***************************************************************************)
(* drivers/rtca.c:285 and drivers/timer.h:84: events are appended until    *)
(* the main loop has parsed them.  An event appended between the copy and  *)
(* the clear of its word is gone.                                          *)
(***************************************************************************)
EventNotLost == owed \subseteq Pending \cup msg

\* No word stays set for ever: the 20 Hz tick brings the loop round to it
\* although the sensors do not wake it and although wake-ups can be missed.
FlagIsCleared == \A s \in Source : flag[s] # {} ~> flag[s] = {}

\* Every sensor interrupt reaches the listeners.
SensorIsHeard ==
  \A s \in {3, 4} : flag[s] # {} ~> (pc = "dispatch" /\ Bits[s] \subseteq msg)

\* No word is forgotten, and none of a sensor's is lost on the way.
FlagsAreHeard == FlagIsCleared /\ SensorIsHeard

\* The loop keeps turning, so the watchdog it services never expires: each
\* timer0_delay returns, even if its interrupt comes before the sleep.
LoopTurns == []<>(pc = "test")
=============================================================================
