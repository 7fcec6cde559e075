--------------------------------- MODULE Rtc ---------------------------------
(***************************************************************************)
(* The real time clock: the calendar registers of the RTC, the cache of    *)
(* them drivers/rtca.c keeps in rtca_time and refreshes from the minute    *)
(* interrupt, and the daylight saving time of drivers/rtc_dst.c, which     *)
(* moves the hour from that handler.                                       *)
(*                                                                         *)
(* Seconds are left out, and with them the interrupts that only copy them. *)
(***************************************************************************)
EXTENDS Integers, Sequences, FiniteSets

CONSTANTS
  Zones,               \* the values of CONFIG_RTC_DST_ZONE
  Compiled,            \* the moments COMPILE_YEAR .. COMPILE_MIN may be
  FirstYear, LastYear, \* bound: the years the clock runs through
  Hours, Minutes       \* of a day, of an hour (24 and 60 in the watch)

\* A day kept across a change of month can be above its limit.
Time == [year : FirstYear..LastYear, mon : 1..12, day : 1..32, dow : 0..6,
         hour : 0..Hours - 1, min : 0..Minutes - 1]

\* Years as modules/clock.c knows them: the upper of the two bytes is 7.
ASSUME RtcAssumption ==
  /\ FirstYear \in Nat /\ LastYear \in Nat
  /\ 2000 <= FirstYear /\ FirstYear <= LastYear /\ LastYear < 2048
  /\ Hours \in 4..24 /\ Minutes \in 1..60
  /\ Compiled \subseteq Time
  /\ Zones \subseteq {"US", "MEX", "BRZ", "EU", "AUS", "NZ"}

VARIABLES
  zone,        \* the choice of a behaviour from Zones
  rtc,         \* the registers RTCYEAR .. RTCMIN
  hold,        \* RTCHOLD
  ifg,         \* RTCTEVIFG: the minute has changed
  rtca_time,   \* their cache
  rtc_dst_dates, rtc_dst_state,
  rtca_last_event

rtcVars == <<zone, rtc, hold, ifg, rtca_time, rtc_dst_dates, rtc_dst_state,
             rtca_last_event>>

-----------------------------------------------------------------------------
(* Dates.                                                                  *)

IsLeapYear(y) == y % 4 = 0 /\ (y % 100 # 0 \/ y % 400 = 0)

rtca_get_max_days(month, year) ==
  CASE month \in {4, 6, 9, 11} -> 30
    [] month = 2 -> IF IsLeapYear(year) THEN 29 ELSE 28
    [] OTHER -> 31

\* Fault: the leap day counts from the first of January.
NoBackStep(d) ==
  LET y == d.year - 1984
      shift == <<0, 3, 3, 6, 1, 4, 6, 2, 5, 0, 3, 5>>
  IN ((y + y \div 4 + d.day + shift[d.mon]) % 256) % 7

\* The day of the week rtca_set_date computes, in an uint8_t.
DowOf(d) ==
  LET y == d.year - 1984
      shift == <<0, 3, 3, 6, 1, 4, 6, 2, 5, 0, 3, 5>>
      back == IF rtca_get_max_days(2, d.year) = 29 /\ d.mon < 3 THEN 1 ELSE 0
  IN ((y + y \div 4 - back + d.day + shift[d.mon]) % 256) % 7

\* Days of a common year before each month.
DaysBefore == <<0, 31, 59, 90, 120, 151, 181, 212, 243, 273, 304, 334>>

rtc_dst_day_of_week(year, month, day) ==
  LET y == year % 200
      leap == IF month >= 3 /\ year % 4 = 0 THEN 1 ELSE 0
  IN (y * 365 + y \div 4 + DaysBefore[month] + leap + day - 1 + 6) % 7

\* N_SUN_OF_MON and LAST_SUN_OF_MON
NSun(n, mon, year) ==
  [mon |-> mon, day |-> n * 7 - rtc_dst_day_of_week(year, mon, n * 7)]
LastSun(mon, days, year) ==
  [mon |-> mon, day |-> days - rtc_dst_day_of_week(year, mon, days)]

\* When daylight saving time begins and ends.
SwitchDates(z, y) ==
  CASE z = "US"  -> <<NSun(2, 3, y), NSun(1, 11, y)>>
    [] z = "MEX" -> <<NSun(1, 4, y), LastSun(10, 31, y)>>
    [] z = "BRZ" -> <<NSun(3, 10, y), NSun(3, 2, y)>>
    [] z = "EU"  -> <<LastSun(3, 31, y), LastSun(10, 31, y)>>
    [] z = "AUS" -> <<NSun(1, 10, y), NSun(1, 4, y)>>
    [] z = "NZ"  -> <<LastSun(9, 30, y), NSun(1, 4, y)>>

\* DSTNUM, with the hour clipped to a digit
DstNum(mon, day, hour) ==
  mon * 1000 + day * 10 + (IF hour > 9 THEN 9 ELSE hour)

rtc_dst_isDateInDST(dates, t) ==
  LET from == DstNum(dates[1].mon, dates[1].day, 2)
      to   == DstNum(dates[2].mon, dates[2].day, 2)
      now  == DstNum(t.mon, t.day, t.hour)
  IN IF dates[1].mon < dates[2].mon THEN from <= now /\ now < to
                                    ELSE ~(to <= now /\ now < from)

StateAt(dates, t) == IF rtc_dst_isDateInDST(dates, t) THEN "DST" ELSE "ST"

\* Fault: the state is left to the hourly update.
DatesOnly(t) ==
  rtc_dst_dates' = SwitchDates(zone, t.year) /\ rtc_dst_state' = rtc_dst_state

rtc_dst_calculate_dates(t) ==
  LET dates == SwitchDates(zone, t.year)
  IN rtc_dst_dates' = dates /\ rtc_dst_state' = StateAt(dates, t)

-----------------------------------------------------------------------------
RtcInit ==
  /\ zone \in Zones /\ rtc \in Compiled /\ rtca_time = rtc
  /\ hold = FALSE /\ ifg = FALSE /\ rtca_last_event = {}
  /\ rtc_dst_dates = SwitchDates(zone, rtc.year)
  /\ rtc_dst_state = StateAt(rtc_dst_dates, rtc)

\* The RTC carries from the minutes to the years.
NextMinute(t) ==
  LET min  == (t.min + 1) % Minutes
      hour == IF min = 0 THEN (t.hour + 1) % Hours ELSE t.hour
      newday == min = 0 /\ hour = 0
      newmon == newday /\ t.day >= rtca_get_max_days(t.mon, t.year)
      newyear == newmon /\ t.mon = 12
  IN [min |-> min, hour |-> hour,
      dow |-> IF newday THEN (t.dow + 1) % 7 ELSE t.dow,
      day |-> IF newmon THEN 1 ELSE IF newday THEN t.day + 1 ELSE t.day,
      mon |-> IF newyear THEN 1 ELSE IF newmon THEN t.mon + 1 ELSE t.mon,
      year |-> IF newyear THEN t.year + 1 ELSE t.year]

\* The minute passes.  The handler of the one before has run.
Minute ==
  /\ ~hold /\ ~ifg /\ NextMinute(rtc).year <= LastYear
  /\ rtc' = NextMinute(rtc) /\ ifg' = TRUE
  /\ UNCHANGED <<zone, hold, rtca_time, rtc_dst_dates, rtc_dst_state,
                 rtca_last_event>>

OnDate(t, d) == t.mon = d.mon /\ t.day = d.day

\* The hour rtc_dst_hourly_update makes of the hour that has just begun; it
\* looks at the cached date.
SpringsForward(hour) ==
  /\ hour = 2 /\ rtc_dst_state = "ST" /\ OnDate(rtca_time, rtc_dst_dates[1])
FallsBack(hour) ==
  /\ hour = 2 /\ rtc_dst_state = "DST" /\ OnDate(rtca_time, rtc_dst_dates[2])

\* Fault: summer time is still on after the hour was put back.
StaysInDst(hour) ==
  rtc_dst_state' = IF SpringsForward(hour) THEN "DST" ELSE rtc_dst_state

DstStateNext(hour) ==
  rtc_dst_state' = IF SpringsForward(hour) THEN "DST"
                   ELSE IF FallsBack(hour) THEN "ST" ELSE rtc_dst_state

\* rtca_set_time writes the hour to the registers; the minute is 0 already.
SetHour(hour) == rtc' = [rtc EXCEPT !.hour = hour]

HourNext(hour) ==
  IF SpringsForward(hour) THEN hour + 1
  ELSE IF FallsBack(hour) THEN hour - 1 ELSE hour

\* Fault: the day of the week is not refreshed.
CacheWithoutDow(hour, newhour, newday, newmon, newyear) ==
  [rtca_time EXCEPT
     !.min  = rtc.min,
     !.hour = IF newhour THEN hour ELSE @,
     !.day  = IF newday THEN rtc.day ELSE @,
     !.mon  = IF newmon THEN rtc.mon ELSE @,
     !.year = IF newyear THEN rtc.year ELSE @]

\* The registers RTC_A_ISR copies: each only if the one below it came round.
CacheNext(hour, newhour, newday, newmon, newyear) ==
  [rtca_time EXCEPT
     !.min  = rtc.min,
     !.hour = IF newhour THEN hour ELSE @,
     !.day  = IF newday THEN rtc.day ELSE @,
     !.dow  = IF newday THEN rtc.dow ELSE @,
     !.mon  = IF newmon THEN rtc.mon ELSE @,
     !.year = IF newyear THEN rtc.year ELSE @]

RTC_A_ISR ==
  LET newhour == rtc.min = 0
      hour    == HourNext(rtc.hour)
      newday  == newhour /\ hour = 0
      newmon  == newday /\ rtc.day = 1
      newyear == newmon /\ rtc.mon = 1
  IN /\ ifg /\ ifg' = FALSE
     /\ rtca_time' = CacheNext(hour, newhour, newday, newmon, newyear)
     /\ IF newhour THEN SetHour(hour) ELSE rtc' = rtc
     /\ IF newyear THEN rtc_dst_calculate_dates(rtca_time')
        ELSE /\ rtc_dst_dates' = rtc_dst_dates
             /\ IF newhour THEN DstStateNext(rtc.hour)
                           ELSE rtc_dst_state' = rtc_dst_state
     /\ rtca_last_event' = rtca_last_event \cup {"MINUTE"}
          \cup (IF newhour THEN {"HOUR"} ELSE {})
          \cup (IF newday THEN {"DAY"} ELSE {})
          \cup (IF newmon THEN {"MONTH"} ELSE {})
          \cup (IF newyear THEN {"YEAR"} ELSE {})
     /\ UNCHANGED <<zone, hold>>

-----------------------------------------------------------------------------
(* Properties.                                                             *)

RtcTypeOK ==
  /\ zone \in Zones /\ rtc \in Time /\ rtca_time \in Time
  /\ hold \in BOOLEAN /\ ifg \in BOOLEAN
  /\ rtc_dst_dates \in Seq([mon : 1..12, day : 1..31])
  /\ rtc_dst_state \in {"ST", "DST"}
  /\ rtca_last_event \subseteq {"MINUTE", "HOUR", "DAY", "MONTH", "YEAR"}
=============================================================================
