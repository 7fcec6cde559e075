--------------------------------- MODULE Otp ---------------------------------
(***************************************************************************)
(* modules/otp.c: the one-time password of the service that is chosen, for *)
(* the half minute the real time clock is in.  A password is the pair of a *)
(* service and the count of half minutes it is computed from.              *)
(***************************************************************************)
EXTENDS Calendar, Sequences

CONSTANTS
  Starts,       \* times rtca_time may begin at
  MaxSeconds,   \* bound on the seconds that pass
  Offsets,      \* values of CONFIG_MOD_OTP_OFFSET
  SERVICE_COUNT

\* The second since 1 January 1970.
Epoch(t) == ((DayNumber(t) * 24 + t.hour) * 60 + t.min) * 60 + t.sec

\* The clock is from 2000 on, as simple_mktime is.
OtpAssumption ==
  /\ MaxSeconds \in Nat /\ SERVICE_COUNT \in Nat \ {0}
  /\ Offsets \subseteq -9..9    \* beyond those int overflows
  /\ Starts \subseteq [year : 2000..2050, mon : 1..12, day : 1..31,
                       hour : 0..23, min : 0..59, sec : 0..59]
  /\ \A t \in Starts : IsDate(t) /\ DayNumber(t) + MaxSeconds \div 86400 + 1 < AfterAll

VARIABLES
  otp_offset,   \* the choice of a behaviour from Offsets
  rtca_time,
  passed,       \* seconds since the start
  begin,        \* history: the second of the epoch it started at
  visible,      \* the menu shows the module, its listener is registered
  g_service, g_display_state, service_display_remain,
  last_time, last_service,
  display,      \* a password <<service, time>>, the name <<service>> or <<>>
  segment       \* of the indicator

clock   == <<otp_offset, rtca_time, passed, begin>>
service == <<g_service, g_display_state, service_display_remain>>
last    == <<last_time, last_service>>
screen  == <<display, segment>>
vars    == <<clock, visible, service, last, screen>>

\* int of the processor
Int16(n) == ((n + 32768) % 65536) - 32768

days == <<0, 31, 59, 90, 120, 151, 181, 212, 243, 273, 304, 334>>

\* Fault: the leap day counts from the first of January.
EarlyLeap(t) ==
  ((((Int16((t.year - 1970) * 365 + days[t.mon])
       + (t.year - 1968) \div 4 + t.day - 1) * 24
     + t.hour) * 60) + t.min) * 60 + t.sec

simple_mktime(t) ==
  LET y == IF t.mon <= 2 THEN t.year - 1 ELSE t.year
  IN ((((Int16((t.year - 1970) * 365 + days[t.mon])
          + (y - 1968) \div 4 + t.day - 1) * 24
        + t.hour) * 60) + t.min) * 60 + t.sec

create_otp_time(t, offset) == (simple_mktime(t) - Int16(offset * 3600)) \div 30

-----------------------------------------------------------------------------
(* The clock.                                                              *)

NextSecond(t) ==
  LET sec  == (t.sec + 1) % 60
      min  == IF sec = 0 THEN (t.min + 1) % 60 ELSE t.min
      hour == IF sec = 0 /\ min = 0 THEN (t.hour + 1) % 24 ELSE t.hour
      date == IF sec = 0 /\ min = 0 /\ hour = 0 THEN NextDay(t) ELSE t
  IN [date EXCEPT !.hour = hour, !.min = min, !.sec = sec]

-----------------------------------------------------------------------------
Init ==
  /\ otp_offset \in Offsets /\ rtca_time \in Starts /\ passed = 0
  /\ begin = Epoch(rtca_time)
  /\ visible = FALSE
  /\ g_service = 0 /\ g_display_state = "otp" /\ service_display_remain = 0
  /\ last_time = 0 /\ last_service = 0
  /\ display = <<>> /\ segment = 0

\* Fault: the service alone decides whether there is a new password.
SameServiceIsCurrent(time, service0, last0) == service0 = last_service

\* Nothing is drawn.
IsCurrent(time, service0, last0) == time = last0 /\ service0 = last_service

\* clock_event at time t for service s, last_time being last0.  The name
\* stays up while the count, now decremented, is zero: it never gets there.
clock_event(t, s, state, remain, last0) ==
  LET named == state = "service"
      left  == IF named THEN remain - 1 ELSE remain
      time  == create_otp_time(t, otp_offset)
      old   == IF named THEN 0 ELSE last0
  IN /\ service_display_remain' = left
     /\ IF named /\ left = 0
        THEN g_display_state' = state /\ last_time' = last0
             /\ UNCHANGED <<last_service, display, segment>>
        ELSE /\ g_display_state' = "otp"
             /\ segment' = (t.sec \div 5) % 6
             /\ IF IsCurrent(time, s, old)
                THEN last_time' = old /\ UNCHANGED <<last_service, display>>
                ELSE last_time' = time /\ last_service' = s /\ display' = <<s, time>>

Second ==
  /\ passed < MaxSeconds /\ passed' = passed + 1
  /\ rtca_time' = NextSecond(rtca_time)
  /\ IF visible
     THEN clock_event(rtca_time', g_service, g_display_state,
                      service_display_remain, last_time)
     ELSE UNCHANGED <<service_display_remain, g_display_state, last, screen>>
  /\ UNCHANGED <<otp_offset, begin, visible, g_service>>

\* up_pressed and down_pressed
Choose(step) ==
  /\ visible
  /\ g_display_state' = "otp"
  /\ g_service' = (g_service + step) % SERVICE_COUNT
  /\ display' = <<g_service'>>
  /\ UNCHANGED <<clock, visible, service_display_remain, last, segment>>

num_pressed ==
  /\ visible /\ UNCHANGED <<clock, visible, g_service>>
  /\ IF g_display_state = "otp"
     THEN /\ g_display_state' = "service" /\ service_display_remain' = 5
          /\ display' = <<g_service>> /\ UNCHANGED <<last, segment>>
     ELSE clock_event(rtca_time, g_service, "otp", service_display_remain, 0)

otp_activated ==
  /\ ~visible /\ visible' = TRUE
  /\ g_service' = 0
  /\ clock_event(rtca_time, 0, g_display_state, service_display_remain, 0)
  /\ UNCHANGED clock

otp_deactivated ==
  /\ visible /\ visible' = FALSE
  /\ display' = <<>>
  /\ UNCHANGED <<clock, service, last, segment>>

Next ==
  \/ Second \/ num_pressed \/ otp_activated \/ otp_deactivated
  \/ \E step \in {1, SERVICE_COUNT - 1} : Choose(step)

Spec == Init /\ [][Next]_vars

-----------------------------------------------------------------------------
(* Properties.                                                             *)

TypeOK ==
  /\ g_service \in 0..SERVICE_COUNT - 1 /\ last_service \in 0..SERVICE_COUNT - 1
  /\ g_display_state \in {"otp", "service"} /\ service_display_remain \in 0..5
  /\ visible \in BOOLEAN /\ segment \in 0..5

\* The half minute of UTC it is.
HalfMinute == (begin + passed - otp_offset * 3600) \div 30

(***************************************************************************)
(* A password that is displayed is the one of the service chosen last and  *)
(* of the half minute it is, and the indicator shows how much of that is   *)
(* over, across midnights, leap days and years, whatever was displayed     *)
(* before ("Time-Based One-Time Password Algorithm, RFC-6238",             *)
(* README.md:8).                                                           *)
(***************************************************************************)
CodeIsCurrent ==
  /\ Len(display) = 2 => /\ display = <<g_service, HalfMinute>>
                         /\ segment = ((begin + passed) % 30) \div 5
  /\ display = <<>> <=> ~visible
=============================================================================
