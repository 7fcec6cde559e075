------------------------------ MODULE Stopwatch ------------------------------
(***************************************************************************)
(* modules/stopwatch.c: a time that the 20 Hz message counts up, laps      *)
(* taken of it, and the menu that may leave it running.                    *)
(***************************************************************************)
EXTENDS Integers, Sequences

CONSTANTS
  MAX_LAPS,      \* 10 in the code
  Cents, Seconds, Minutes, Hours  \* where each field wraps: 100, 60, 60, 20

\* A message is 5 hundredths of a second.
StopwatchAssumption ==
  /\ MAX_LAPS \in Nat \ {0}
  /\ Cents \in Nat \ {0} /\ Cents % 5 = 0
  /\ Seconds \in Nat \ {0} /\ Minutes \in Nat \ {0} /\ Hours \in Nat \ {0}

VARIABLES
  state, laps, lap_act,  \* sSwatch_conf
  sSwatch_time,          \* the laps and, last, the time that counts
  displayed,             \* the time on the display, or Blank
  visible,               \* the menu shows the stopwatch
  listeners,             \* registrations of stopwatch_event
  ran,                   \* history: 20 Hz ticks it was running since cleared
  marks                  \* history: the times laps were taken at

conf    == <<state, laps, lap_act>>
menu    == <<visible, listeners>>
history == <<ran, marks>>
vars    == <<conf, sSwatch_time, displayed, menu, history>>

SW_COUNTING == MAX_LAPS
Zero  == [hours |-> 0, minutes |-> 0, seconds |-> 0, cents |-> 0]
Blank == [Zero EXCEPT !.cents = 1]   \* no time: times are of whole ticks

Init ==
  /\ state = "off" /\ laps = 0 /\ lap_act = SW_COUNTING
  /\ sSwatch_time = [i \in 0..MAX_LAPS |-> Zero]
  /\ displayed = Blank /\ visible = FALSE /\ listeners = 0
  /\ ran = 0 /\ marks = <<>>

\* drawStopWatchScreen, with the values the caller leaves
Draw(st, times, act) ==
  displayed' = IF st = "background" THEN displayed ELSE times[act]

Carry(n, limit) == IF n >= limit THEN 0 ELSE n

\* Fault: the hours are not carried into.
NoHours(t) ==
  LET c == Carry(t.cents + 5, Cents)
      s == IF c = 0 THEN Carry(t.seconds + 1, Seconds) ELSE t.seconds
      m == IF c = 0 /\ s = 0 THEN Carry(t.minutes + 1, Minutes) ELSE t.minutes
  IN [t EXCEPT !.cents = c, !.seconds = s, !.minutes = m]

Later(t) ==
  LET c == Carry(t.cents + 5, Cents)
      s == IF c = 0 THEN Carry(t.seconds + 1, Seconds) ELSE t.seconds
      m == IF c = 0 /\ s = 0 THEN Carry(t.minutes + 1, Minutes) ELSE t.minutes
      h == IF c = 0 /\ s = 0 /\ m = 0 THEN Carry(t.hours + 1, Hours) ELSE t.hours
  IN [hours |-> h, minutes |-> m, seconds |-> s, cents |-> c]

TotalTicks == (Cents \div 5) * Seconds * Minutes * Hours

\* A 20 Hz message: stopwatch_event, once for each registration (there is
\* one at most).
TwentyHz ==
  /\ ran' = IF state = "off" THEN ran ELSE (ran + 1) % TotalTicks
  /\ IF listeners > 0 /\ state # "off"
     THEN /\ sSwatch_time' = [sSwatch_time EXCEPT ![SW_COUNTING] = Later(@)]
          /\ Draw(state, sSwatch_time', lap_act)
     ELSE UNCHANGED <<sSwatch_time, displayed>>
  /\ UNCHANGED <<conf, menu, marks>>

stopwatch_activated ==
  /\ ~visible /\ visible' = TRUE
  /\ IF state = "background"
     THEN state' = "on" /\ UNCHANGED <<displayed, listeners>>
     ELSE /\ listeners' = listeners + 1
          /\ Draw(state, sSwatch_time, lap_act) /\ UNCHANGED state
  /\ UNCHANGED <<laps, lap_act, sSwatch_time, history>>

\* Fault: a running stopwatch is unregistered too.
LeaveUnheard ==
  /\ visible /\ visible' = FALSE
  /\ displayed' = Blank /\ listeners' = 0
  /\ state' = IF state = "on" THEN "background" ELSE state
  /\ UNCHANGED <<laps, lap_act, sSwatch_time, history>>

stopwatch_deactivated ==
  /\ visible /\ visible' = FALSE
  /\ displayed' = Blank
  /\ IF state = "on" THEN state' = "background" /\ UNCHANGED listeners
                     ELSE listeners' = 0 /\ UNCHANGED state
  /\ UNCHANGED <<laps, lap_act, sSwatch_time, history>>

\* Fault: the number of laps may reach the array's last index.
LapPastEnd ==
  /\ sSwatch_time' = [sSwatch_time EXCEPT ![laps] = sSwatch_time[SW_COUNTING]]
  /\ laps' = (laps + 1) % MAX_LAPS
  /\ marks' = IF laps < MAX_LAPS - 1
              THEN Append(marks, sSwatch_time[SW_COUNTING]) ELSE marks

\* The last lap is taken again and again, and never counted.
increment_lap_stopwatch ==
  /\ sSwatch_time' = [sSwatch_time EXCEPT ![laps] = sSwatch_time[SW_COUNTING]]
  /\ IF laps < MAX_LAPS - 1
     THEN laps' = laps + 1 /\ marks' = Append(marks, sSwatch_time[SW_COUNTING])
     ELSE UNCHANGED <<laps, marks>>

\* down_press or up_press while it runs
Lap ==
  /\ visible /\ state = "on"
  /\ increment_lap_stopwatch
  /\ UNCHANGED <<state, lap_act, displayed, menu, ran>>

\* the lap down_press moves to from act
Below(act) == IF act > laps - 1 THEN 0 ELSE IF act > 0 THEN act - 1 ELSE act

\* Fault: one lap too far.
AboveAll(act) == IF act < laps THEN act + 1 ELSE IF act > laps THEN laps ELSE act

\* the lap up_press moves to from act
Above(act) ==
  IF act < laps - 1 THEN act + 1 ELSE IF act > laps - 1 THEN laps - 1 ELSE act

Browse ==
  /\ visible /\ state # "on" /\ laps # 0
  /\ lap_act' \in {Below(lap_act), Above(lap_act)}
  /\ Draw(state, sSwatch_time, lap_act')
  /\ UNCHANGED <<state, laps, sSwatch_time, menu, history>>

num_press ==
  /\ visible
  /\ IF state = "off" THEN state' = "on" /\ lap_act' = SW_COUNTING
                      ELSE state' = "off" /\ UNCHANGED lap_act
  /\ Draw(state', sSwatch_time, lap_act')
  /\ UNCHANGED <<laps, sSwatch_time, menu, history>>

\* num_long_pressed, clear_stopwatch
num_long_pressed ==
  /\ visible /\ state = "off"
  /\ sSwatch_time' = [sSwatch_time EXCEPT ![SW_COUNTING] = Zero]
  /\ laps' = 0 /\ lap_act' = SW_COUNTING
  /\ Draw(state, sSwatch_time', lap_act')
  /\ ran' = 0 /\ marks' = <<>>
  /\ UNCHANGED <<state, menu>>

Next ==
  \/ TwentyHz \/ stopwatch_activated \/ stopwatch_deactivated
  \/ Lap \/ Browse \/ num_press \/ num_long_pressed

Spec == Init /\ [][Next]_vars

-----------------------------------------------------------------------------
(* Properties.                                                             *)

Time == [hours : 0..Hours - 1, minutes : 0..Minutes - 1,
         seconds : 0..Seconds - 1, cents : 0..Cents - 1]

TypeOK ==
  /\ state \in {"off", "on", "background"} /\ laps \in 0..MAX_LAPS - 1
  /\ lap_act \in 0..MAX_LAPS /\ sSwatch_time \in [0..MAX_LAPS -> Time]
  /\ displayed \in Time /\ visible \in BOOLEAN /\ listeners \in 0..1

Ticks(t) ==
  (((t.hours * Minutes + t.minutes) * Seconds + t.seconds) * Cents + t.cents)
    \div 5

(***************************************************************************)
(* The time is the ticks the stopwatch has run for since it was cleared,   *)
(* shown or in the background, and however often the menu left it.         *)
(***************************************************************************)
CountsTicks == Ticks(sSwatch_time[SW_COUNTING]) = ran

(***************************************************************************)
(* The laps that can be looked at are the times they were taken at, and    *)
(* nothing but one of those or the running time is displayed; leaving the  *)
(* menu blanks it until the next draw.                                     *)
(***************************************************************************)
LapsAreKept ==
  /\ laps = Len(marks)
  /\ \A i \in 1..laps : sSwatch_time[i - 1] = marks[i]
  /\ lap_act = SW_COUNTING \/ lap_act < laps
  /\ displayed \in {Blank, sSwatch_time[lap_act]}
=============================================================================
