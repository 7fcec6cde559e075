------------------------------- MODULE Timer0 -------------------------------
(***************************************************************************)
(* drivers/timer.c on the free-running counter of timer A: the 20 Hz tick  *)
(* (CCR0), the delay with a callback (CCR2), the programmable timer (CCR3),*)
(* the blocking delay (CCR4) and the overflow.                             *)
(*                                                                         *)
(* A compare register that meets the counter sets its flag whether its     *)
(* interrupt is enabled or not; the flag of CCR0 falls when its handler    *)
(* starts, those of the others when the handler reads them in TA0IV, which *)
(* shows enabled ones only.                                                *)
(***************************************************************************)
EXTENDS Integers, FiniteSets, FiniteSetsExt

CONSTANTS
  Width,     \* the counter counts modulo Width (2^16 in the watch)
  T20,       \* timer0_20hz_ticks
  TProg,     \* timer0_prog_ticks
  Duration,  \* ticks the delays ask for
  Latency    \* bound: ticks an enabled interrupt waits for its handler

TimerAssumption ==
  /\ Width \in Nat /\ T20 \in Nat /\ TProg \in Nat /\ Latency \in Nat
  /\ Duration \subseteq 1..Width - 1
  /\ 0 < TProg /\ TProg < Width
  /\ Latency < T20 /\ T20 + Latency < Width

Ccr == {0, 2, 3, 4}
OF  == 5                 \* TAIFG, the overflow; it comes last in TA0IV
\* history counters stop here
Cap == 2 * Width

VARIABLES
  tar,             \* TA0R
  ccr,             \* TA0CCR0 .. TA0CCR4
  ie,              \* compare interrupts enabled, CCIE (TAIE always is)
  ifg,             \* flags, CCIFG and TAIFG
  late,            \* ticks the oldest enabled flag has been waiting
  pc,              \* main: "idle", or where it stands in timer0_delay
  delay_finished,
  delay_callback,  \* is one set?
  asked, gone,     \* history: ticks a delay asked for, ticks since it began
  since20,         \* history: ticks since timer0_A0_ISR last ran
  left             \* history: ticks until the callback is due

timer == <<tar, ccr, ie, ifg, late>>
main  == <<pc, delay_finished, delay_callback>>
hist  == <<asked, gone, since20, left>>
vars  == <<timer, main, hist>>

\* Fault: a compare value beyond the width of the register.
WidePlus(a, b) == a + b

Plus(a, b) == (a + b) % Width

\* The flags the handlers are called for.
Pending(flags, enabled) == flags \cap (enabled \cup {OF})

Init ==
  /\ tar = 0 /\ ccr = [c \in Ccr |-> IF c = 0 THEN T20 ELSE 0]
  /\ ie = {0} /\ ifg = {} /\ late = 0
  /\ pc = "idle" /\ delay_finished = FALSE /\ delay_callback = FALSE
  /\ asked = 0 /\ gone = 0 /\ since20 = 0 /\ left = 0

UpTo(n) == IF n < Cap THEN n + 1 ELSE n

\* One tick of the crystal.  The main thread is between two delays or
\* asleep: its own instructions take no time worth a tick.
Tick ==
  /\ pc \in {"idle", "lpm"}
  /\ Pending(ifg, ie) # {} => late < Latency
  /\ tar' = Plus(tar, 1)
  /\ ifg' = ifg \cup {c \in Ccr : ccr[c] = tar'}
                \cup (IF tar' = 0 THEN {OF} ELSE {})
  /\ late' = IF Pending(ifg, ie) = {} THEN 0 ELSE late + 1
  /\ gone' = IF pc = "idle" THEN 0 ELSE UpTo(gone)
  /\ since20' = UpTo(since20)
  /\ left' = IF left = 0 THEN 0 ELSE left - 1
  /\ UNCHANGED <<ccr, ie, main, asked>>

-----------------------------------------------------------------------------
(* The interrupt handlers.                                                 *)

Wake == pc' = IF pc = "lpm" THEN "check" ELSE pc

\* Flag f has been served.
Served(f) ==
  /\ ifg' = ifg \ {f}
  /\ late' = IF Pending(ifg \ {f}, ie) = {} THEN 0 ELSE late

\* Fault: the next 20 Hz compare is not set.
TicksOnce ==
  /\ 0 \in ifg \cap ie /\ Served(0)
  /\ Wake /\ since20' = 0
  /\ UNCHANGED <<tar, ccr, ie, delay_finished, delay_callback, asked, gone, left>>

timer0_A0_ISR ==
  /\ 0 \in ifg \cap ie /\ Served(0)
  /\ ccr' = [ccr EXCEPT ![0] = Plus(tar, T20)]
  /\ Wake /\ since20' = 0
  /\ UNCHANGED <<tar, ie, delay_finished, delay_callback, asked, gone, left>>

\* What a callback does to the timer when it sets itself again: the abort
\* at the head of timer0_delay_callback stops CCR4 along with CCR2.
Rearm(d) ==
  /\ ccr' = [ccr EXCEPT ![2] = Plus(tar, d)]
  /\ ie' = (ie \ {4}) \cup {2}
  /\ delay_callback' = TRUE
  /\ left' = d

timer0_A1_ISR ==
  /\ 0 \notin ifg \cap ie        \* the vector of CCR0 goes first
  /\ Pending(ifg, ie) # {}
  /\ LET flag == Min(Pending(ifg, ie))
     IN /\ Served(flag)
        /\ \/ /\ flag = 3 /\ Wake
              /\ ccr' = [ccr EXCEPT ![3] = Plus(tar, TProg)]
              /\ UNCHANGED <<ie, delay_finished, delay_callback, left>>
           \/ /\ flag = 4 /\ Wake
              /\ delay_finished' = TRUE
              /\ UNCHANGED <<ccr, ie, delay_callback, left>>
           \/ /\ flag = 2 /\ pc' = pc /\ UNCHANGED delay_finished
              /\ \/ /\ ie' = ie \ {2} /\ delay_callback' = FALSE
                    /\ UNCHANGED <<ccr, left>>
                 \/ delay_callback /\ \E d \in Duration : Rearm(d)
           \/ /\ flag = OF /\ Wake
              /\ UNCHANGED <<ccr, ie, delay_finished, delay_callback, left>>
  /\ UNCHANGED <<tar, asked, gone, since20>>

-----------------------------------------------------------------------------
(* The main thread.                                                        *)

\* Fault: the compare value is not taken from the counter.
DelayFromZero(d) ==
  /\ pc = "idle" /\ pc' = "sleep"
  /\ delay_finished' = FALSE
  /\ ccr' = [ccr EXCEPT ![4] = d]
  /\ ie' = ie \cup {4}
  /\ asked' = d /\ gone' = 0
  /\ UNCHANGED <<tar, ifg, late, delay_callback, since20, left>>

timer0_delay(d) ==
  /\ pc = "idle" /\ pc' = "sleep"
  /\ delay_finished' = FALSE
  /\ ccr' = [ccr EXCEPT ![4] = Plus(tar, d)]
  /\ ie' = ie \cup {4}
  /\ asked' = d /\ gone' = 0
  /\ UNCHANGED <<tar, ifg, late, delay_callback, since20, left>>

DelaySleep ==
  /\ pc = "sleep" /\ pc' = "lpm"
  /\ UNCHANGED <<timer, delay_finished, delay_callback, hist>>

DelayCheck ==
  /\ pc = "check"
  /\ \/ /\ delay_finished /\ pc' = "idle" /\ ie' = ie \ {4}
        /\ asked' = 0 /\ gone' = 0
     \/ /\ ~delay_finished /\ pc' = "sleep" /\ UNCHANGED <<ie, asked, gone>>
  /\ UNCHANGED <<tar, ccr, ifg, late, delay_finished, delay_callback,
                 since20, left>>

timer0_create_prog_timer ==
  /\ pc = "idle"
  /\ ccr' = [ccr EXCEPT ![3] = Plus(tar, TProg)] /\ ie' = ie \cup {3}
  /\ UNCHANGED <<tar, ifg, late, main, hist>>

timer0_destroy_prog_timer ==
  /\ pc = "idle" /\ ie' = ie \ {3}
  /\ UNCHANGED <<tar, ccr, ifg, late, main, hist>>

\* Fault: the flag of CCR2 is not lowered.
CallbackKeepsFlag(d) ==
  /\ pc = "idle" /\ Rearm(d)
  /\ UNCHANGED <<tar, ifg, late, pc, delay_finished, asked, gone, since20>>

\* TA0CCTL2 is written as a whole, its flag with it.
timer0_delay_callback(d) ==
  /\ pc = "idle" /\ Rearm(d)
  /\ ifg' = ifg \ {2}
  /\ UNCHANGED <<tar, late, pc, delay_finished, asked, gone, since20>>

timer0_delay_callback_destroy ==
  /\ pc = "idle"
  /\ ie' = ie \ {2, 4} /\ ifg' = ifg \ {2} /\ delay_callback' = FALSE
  /\ UNCHANGED <<tar, ccr, late, pc, delay_finished, hist>>

Next ==
  \/ Tick \/ timer0_A0_ISR \/ timer0_A1_ISR
  \/ \E d \in Duration : timer0_delay(d) \/ timer0_delay_callback(d)
  \/ DelaySleep \/ DelayCheck
  \/ timer0_create_prog_timer \/ timer0_destroy_prog_timer
  \/ timer0_delay_callback_destroy

Spec == Init /\ [][Next]_vars

-----------------------------------------------------------------------------
(* Properties.                                                             *)

TypeOK ==
  /\ tar \in 0..Width - 1 /\ ccr \in [Ccr -> 0..Width - 1]
  /\ ie \subseteq Ccr /\ ifg \subseteq Ccr \cup {OF} /\ late \in 0..Latency
  /\ pc \in {"idle", "sleep", "lpm", "check"}
  /\ delay_finished \in BOOLEAN /\ delay_callback \in BOOLEAN
  /\ asked \in Duration \cup {0} /\ gone \in 0..Cap /\ since20 \in 0..Cap
  /\ left \in 0..Width - 1

(***************************************************************************)
(* The 20 Hz tick never comes early and is never skipped, not even when    *)
(* its handler was late or the counter wrapped: its period is T20 plus the *)
(* latency of one handler.                                                 *)
(***************************************************************************)
TickPeriod ==
  /\ since20 <= T20 + Latency
  /\ 0 \in ifg => since20 >= T20

(***************************************************************************)
(* A blocking delay returns, at most one 20 Hz tick late: that late when   *)
(* its interrupt falls between the test of delay_finished and the sleep.   *)
(* (Unless a callback that sets itself again has disabled CCR4 meanwhile.) *)
(***************************************************************************)
DelayIsBounded ==
  pc # "idle" /\ 4 \in ie => gone <= asked + T20 + 2 * Latency

(***************************************************************************)
(* A callback is never called early, and never after it was aborted: unlike*)
(* CCR4, CCR2 is armed with its flag down.                                 *)
(***************************************************************************)
CallbackIsDue == [][delay_callback /\ ifg \ ifg' = {2} /\ pc' = pc
                    /\ ccr' = ccr /\ ie \ ie' = {2} => left = 0]_vars

(***************************************************************************)
(* drivers/timer.h:46: timer0_delay "delays execution for duration         *)
(* milliseconds".  The flag CCR4 has left over since an earlier match,     *)
(* when its interrupt was disabled, ends it at once.                       *)
(***************************************************************************)
DelayLasts == [][pc = "check" /\ pc' = "idle" => gone >= asked]_vars
=============================================================================
