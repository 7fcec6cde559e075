----------------------------- MODULE Clock_proofs -----------------------------
(***************************************************************************)
(* Theorems about Clock, for every zone, any length of the day and any     *)
(* years from 2000 to 2047.                                                *)
(***************************************************************************)
EXTENDS Clock, FiniteSetTheorems, WellFoundedInduction, TLAPS

Dates == Seq([mon : 1..12, day : 1..31])

-----------------------------------------------------------------------------
(* The operators of the calendar.                                          *)

\* core/openchronos.h:145: a value in the interval stays in it.
LEMMA LoopStays ==
  ASSUME NEW lower \in 0..255, NEW upper \in lower..255,
         NEW value \in lower..upper, NEW step \in {1, -1}
  PROVE  helpers_loop(value, lower, upper, step) \in lower..upper
BY DEF helpers_loop

LEMMA MaxDays ==
  ASSUME NEW mon \in 1..12, NEW year \in Nat
  PROVE  rtca_get_max_days(mon, year) \in 28..31
BY DEF rtca_get_max_days

LEMMA DowType ==
  ASSUME NEW t \in Time
  PROVE  DowOf(t) \in 0..6
<1> DEFINE shift == <<0, 3, 3, 6, 1, 4, 6, 2, 5, 0, 3, 5>>
           back == IF rtca_get_max_days(2, t.year) = 29 /\ t.mon < 3 THEN 1 ELSE 0
           y == t.year - 1984
           n == y + y \div 4 - back + t.day + shift[t.mon]
<1>1. t.mon \in 1..12 /\ t.day \in Int /\ y \in Int
  BY RtcAssumption DEF Time
<1>2. shift[t.mon] \in Int
  BY <1>1
<1>3. back \in Int
  OBVIOUS
<1>4. y \div 4 \in Int
  BY <1>1
<1>5. n \in Int
  <2> HIDE DEF shift, back, y
  <2> QED BY <1>1, <1>2, <1>3, <1>4
<1>6. DowOf(t) = (n % 256) % 7
  BY DEF DowOf
<1> HIDE DEF n
<1>7. n % 256 \in Int
  BY <1>5
<1> QED
  BY <1>5, <1>6, <1>7

LEMMA DstDowType ==
  ASSUME NEW year \in Nat, NEW mon \in 1..12, NEW day \in Nat
  PROVE  rtc_dst_day_of_week(year, mon, day) \in 0..6
<1> DEFINE y == year % 200
           leap == IF mon >= 3 /\ year % 4 = 0 THEN 1 ELSE 0
           n == y * 365 + y \div 4 + DaysBefore[mon] + leap + day - 1 + 6
<1>1. y \in Int /\ leap \in Int
  OBVIOUS
<1>2. DaysBefore[mon] \in Int
  BY DEF DaysBefore
<1>3. n \in Int
  <2> HIDE DEF leap, y
  <2> QED BY <1>1, <1>2
<1>4. rtc_dst_day_of_week(year, mon, day) = n % 7
  BY DEF rtc_dst_day_of_week
<1> HIDE DEF n
<1> QED
  BY <1>3, <1>4

\* The dates of a switch lie in the month they are sought in.
LEMMA NSunType ==
  ASSUME NEW n \in 1..3, NEW mon \in 1..12, NEW year \in Nat
  PROVE  NSun(n, mon, year) \in [mon : 1..12, day : 1..31]
<1>1. rtc_dst_day_of_week(year, mon, n * 7) \in 0..6
  BY DstDowType
<1>2. n * 7 - rtc_dst_day_of_week(year, mon, n * 7) \in 1..31
  BY <1>1
<1> QED
  BY <1>2 DEF NSun

LEMMA LastSunType ==
  ASSUME NEW days \in 30..31, NEW mon \in 1..12, NEW year \in Nat
  PROVE  LastSun(mon, days, year) \in [mon : 1..12, day : 1..31]
<1>1. rtc_dst_day_of_week(year, mon, days) \in 0..6
  BY DstDowType
<1>2. days - rtc_dst_day_of_week(year, mon, days) \in 1..31
  BY <1>1
<1> QED
  BY <1>2 DEF LastSun

LEMMA SwitchType ==
  ASSUME NEW z \in Zones, NEW year \in Nat
  PROVE  SwitchDates(z, year) \in Dates
<1>1. \A a, b \in [mon : 1..12, day : 1..31] : <<a, b>> \in Dates
  BY DEF Dates
<1>2. \A n \in 1..3, mon \in 1..12 :
        NSun(n, mon, year) \in [mon : 1..12, day : 1..31]
  BY NSunType
<1>3. \A days \in 30..31, mon \in 1..12 :
        LastSun(mon, days, year) \in [mon : 1..12, day : 1..31]
  BY LastSunType
<1>4. z \in {"US", "MEX", "BRZ", "EU", "AUS", "NZ"}
  BY RtcAssumption
<1>5. CASE z = "US"  BY <1>1, <1>2, <1>5 DEF SwitchDates
<1>6. CASE z = "MEX" BY <1>1, <1>2, <1>3, <1>6 DEF SwitchDates
<1>7. CASE z = "BRZ" BY <1>1, <1>2, <1>7 DEF SwitchDates
<1>8. CASE z = "EU"  BY <1>1, <1>3, <1>8 DEF SwitchDates
<1>9. CASE z = "AUS" BY <1>1, <1>2, <1>9 DEF SwitchDates
<1>10. CASE z = "NZ" BY <1>1, <1>2, <1>3, <1>10 DEF SwitchDates
<1> QED
  BY <1>4, <1>5, <1>6, <1>7, <1>8, <1>9, <1>10

LEMMA StateType == \A dates, t : StateAt(dates, t) \in {"ST", "DST"}
BY DEF StateAt

\* The RTC counts to a time again; hour 0 follows a new day alone.
LEMMA NextMinuteType ==
  ASSUME NEW t \in Time, NextMinute(t).year <= LastYear
  PROVE  NextMinute(t) \in Time
<1> DEFINE min == (t.min + 1) % Minutes
           hour == IF min = 0 THEN (t.hour + 1) % Hours ELSE t.hour
           newday == min = 0 /\ hour = 0
           newmon == newday /\ t.day >= rtca_get_max_days(t.mon, t.year)
           newyear == newmon /\ t.mon = 12
<1>1. rtca_get_max_days(t.mon, t.year) \in 28..31
  BY MaxDays, RtcAssumption DEF Time
<1>2. min \in 0..Minutes - 1 /\ hour \in 0..Hours - 1
  BY RtcAssumption DEF Time
<1>3. (IF newmon THEN 1 ELSE IF newday THEN t.day + 1 ELSE t.day) \in 1..32
  BY <1>1 DEF Time
<1>4. (IF newyear THEN 1 ELSE IF newmon THEN t.mon + 1 ELSE t.mon) \in 1..12
  BY DEF Time
<1>5. (IF newday THEN (t.dow + 1) % 7 ELSE t.dow) \in 0..6
  BY DEF Time
<1>6. (IF newyear THEN t.year + 1 ELSE t.year) \in FirstYear..LastYear
  BY RtcAssumption DEF Time, NextMinute
<1> QED
  BY <1>2, <1>3, <1>4, <1>5, <1>6 DEF NextMinute, Time

-----------------------------------------------------------------------------
(* Types.                                                                  *)

LEMMA InitType == Init => TypeOK
<1> SUFFICES ASSUME Init PROVE TypeOK
  OBVIOUS
<1>1. rtc \in Time /\ rtca_time \in Time
  BY RtcAssumption DEF Init, RtcInit
<1>2. rtc_dst_dates \in Dates
  BY <1>1, SwitchType, RtcAssumption DEF Init, RtcInit, Time
<1>3. rtc_dst_state \in {"ST", "DST"}
  BY StateType DEF Init, RtcInit
<1>4. shown \in [mon : 1..12, day : 1..32, hour : 0..Hours - 1,
                 min : 0..Minutes - 1]
  BY <1>1 DEF Init, Drawn, Time
<1>5. RtcTypeOK
  <2>1. zone \in Zones /\ hold \in BOOLEAN /\ ifg \in BOOLEAN
    BY DEF Init, RtcInit
  <2>2. rtca_last_event \subseteq {"MINUTE", "HOUR", "DAY", "MONTH", "YEAR"}
    BY DEF Init, RtcInit
  <2> QED
    BY <1>1, <1>2, <1>3, <2>1, <2>2 DEF RtcTypeOK, Dates
<1>6. pos \in 0..4
  BY DEF Init
<1>7. editing \in BOOLEAN /\ real \in BOOLEAN
  BY DEF Init
<1> QED
  BY <1>4, <1>5, <1>6, <1>7 DEF TypeOK

LEMMA HourType ==
  ASSUME TypeOK, NEW hour \in 0..Hours - 1
  PROVE  HourNext(hour) \in 0..Hours - 1
BY RtcAssumption DEF HourNext, SpringsForward, FallsBack

\* What the handler takes over is a time, as the registers hold one.
LEMMA CacheType ==
  ASSUME TypeOK, NEW hour \in 0..Hours - 1, NEW newhour, NEW newday,
         NEW newmon, NEW newyear
  PROVE  CacheNext(hour, newhour, newday, newmon, newyear) \in Time
BY DEF TypeOK, RtcTypeOK, CacheNext, Time

LEMMA CalculateType ==
  ASSUME TypeOK, NEW t \in Time, rtc_dst_calculate_dates(t)
  PROVE  rtc_dst_dates' \in Dates /\ rtc_dst_state' \in {"ST", "DST"}
<1>1. t.year \in Nat
  BY RtcAssumption DEF Time
<1> QED
  BY <1>1, SwitchType, StateType DEF TypeOK, RtcTypeOK, rtc_dst_calculate_dates

LEMMA IsrType ==
  ASSUME TypeOK, RTC_A_ISR
  PROVE  RtcTypeOK'
<1> DEFINE newhour == rtc.min = 0
           hour    == HourNext(rtc.hour)
           newday  == newhour /\ hour = 0
           newmon  == newday /\ rtc.day = 1
           newyear == newmon /\ rtc.mon = 1
<1>1. hour \in 0..Hours - 1
  BY HourType DEF TypeOK, RtcTypeOK, Time
<1>2. rtca_time' \in Time
  <2>1. rtca_time' = CacheNext(hour, newhour, newday, newmon, newyear)
    BY DEF RTC_A_ISR
  <2> QED
    BY <1>1, <2>1, CacheType
<1>3. rtc' \in Time
  <2>1. rtc' = rtc \/ rtc' = [rtc EXCEPT !.hour = hour]
    BY DEF RTC_A_ISR, SetHour
  <2> QED
    BY <1>1, <2>1 DEF TypeOK, RtcTypeOK, Time
<1>4. rtc_dst_dates' \in Dates /\ rtc_dst_state' \in {"ST", "DST"}
  <2>1. CASE newyear
    BY <1>2, <2>1, CalculateType DEF RTC_A_ISR
  <2>2. CASE ~newyear
    <3>1. rtc_dst_dates' = rtc_dst_dates
      BY <2>2 DEF RTC_A_ISR
    <3>2. rtc_dst_state' = rtc_dst_state \/ DstStateNext(rtc.hour)
      BY <2>2 DEF RTC_A_ISR
    <3> QED
      BY <3>1, <3>2 DEF TypeOK, RtcTypeOK, Dates, DstStateNext
  <2> QED
    BY <2>1, <2>2
<1>5. ifg' = FALSE /\ zone' = zone /\ hold' = hold
      /\ rtca_last_event' \subseteq {"MINUTE", "HOUR", "DAY", "MONTH", "YEAR"}
  BY DEF RTC_A_ISR, TypeOK, RtcTypeOK
<1> QED
  BY <1>2, <1>3, <1>4, <1>5 DEF TypeOK, RtcTypeOK, Dates

\* A callback of edit mode keeps the cache a time.
LEMMA EditedType ==
  ASSUME TypeOK, NEW t \in Time, NEW step \in {1, -1},
         pos = 2 /\ step > 0 => t.day <= 31
  PROVE  Edited(t, step) \in Time
<1>0. pos \in 0..4
  BY DEF TypeOK
<1>1. CASE pos = 0
  <2>1. /\ FirstYear % 256 = FirstYear - 1792 /\ LastYear % 256 = LastYear - 1792
        /\ t.year % 256 = t.year - 1792
    BY RtcAssumption DEF Time
  <2>2. helpers_loop(t.year % 256, FirstYear % 256, LastYear % 256, step)
          \in FirstYear - 1792..LastYear - 1792
    BY <2>1, RtcAssumption DEF helpers_loop, Time
  <2>3. 7 * 256 + helpers_loop(t.year % 256, FirstYear % 256, LastYear % 256, step)
          \in FirstYear..LastYear
    BY <2>2, RtcAssumption
  <2> QED
    BY <1>1, <2>3 DEF Edited, Time
<1>2. CASE pos = 1
  <2>1. helpers_loop(t.mon, 1, 12, step) \in 1..12
    BY DEF helpers_loop, Time
  <2> QED
    BY <1>2, <2>1 DEF Edited, Time
<1>3. CASE pos = 2
  <2>1. rtca_get_max_days(t.mon, t.year) \in 28..31
    BY MaxDays, RtcAssumption DEF Time
  <2>2. helpers_loop(t.day, 1, rtca_get_max_days(t.mon, t.year), step) \in 1..32
    BY <1>3, <2>1 DEF helpers_loop, Time
  <2> QED
    BY <1>3, <2>2 DEF Edited, Time
<1>4. CASE pos = 3
  <2>1. helpers_loop(t.hour, 0, Hours - 1, step) \in 0..Hours - 1
    BY RtcAssumption DEF helpers_loop, Time
  <2> QED
    BY <1>4, <2>1 DEF Edited, Time
<1>5. CASE pos = 4
  <2>1. helpers_loop(t.min, 0, Minutes - 1, step) \in 0..Minutes - 1
    BY RtcAssumption DEF helpers_loop, Time
  <2> QED
    BY <1>5, <2>1 DEF Edited, Time
<1> QED
  BY <1>0, <1>1, <1>2, <1>3, <1>4, <1>5

LEMMA StepType == TypeOK /\ [Next]_vars => TypeOK'
<1> SUFFICES ASSUME TypeOK, [Next]_vars PROVE TypeOK'
  OBVIOUS
<1> USE DEF TypeOK, RtcTypeOK
<1>1. CASE Minute /\ UNCHANGED clockVars
  <2>1. rtc' \in Time
    BY <1>1, NextMinuteType DEF Minute
  <2> QED
    BY <1>1, <2>1 DEF Minute, clockVars
<1>2. CASE RTC_A_ISR /\ UNCHANGED clockVars
  <2>1. RtcTypeOK'
    BY <1>2, IsrType
  <2> QED
    BY <1>2, <2>1 DEF clockVars
<1>3. CASE ClockEvent
  BY <1>3 DEF ClockEvent, Time
<1>4. CASE StarLong
  BY <1>4 DEF StarLong
<1>5. CASE EditNextItem
  BY <1>5 DEF EditNextItem, rtcVars
<1>6. ASSUME NEW step \in {1, -1}, EditSet(step)
      PROVE  TypeOK'
  <2>1. rtca_time' \in Time
    BY <1>6, EditedType DEF EditSet
  <2>2. shown' \in [mon : 1..12, day : 1..32, hour : 0..Hours - 1,
                   min : 0..Minutes - 1]
    BY <1>6, <2>1 DEF EditSet, Time
  <2> QED
    BY <1>6, <2>1, <2>2 DEF EditSet
<1>7. CASE EditSave
  <2>1. rtca_time' \in Time /\ rtc' \in Time
    BY <1>7, DowType DEF EditSave, SetTimeAndDate, Time
  <2>2. rtc_dst_dates' \in Dates /\ rtc_dst_state' \in {"ST", "DST"}
    BY <1>7, CalculateType DEF EditSave
  <2>3. hold' \in BOOLEAN /\ editing' \in BOOLEAN
    BY <1>7 DEF EditSave
  <2>4. real' \in BOOLEAN
    BY <1>7 DEF EditSave
  <2> QED
    BY <1>7, <2>1, <2>2, <2>3, <2>4 DEF EditSave, Dates
<1>8. CASE UNCHANGED vars
  BY <1>8 DEF vars, rtcVars, clockVars
<1> QED
  BY <1>1, <1>2, <1>3, <1>4, <1>5, <1>6, <1>7, <1>8 DEF Next

\* Every register and the cache of it hold a time the watch can show, the
\* screen too; the day alone can be above the limit of its month.
THEOREM TypeCorrect == Spec => []TypeOK
BY InitType, StepType, PTL DEF Spec

-----------------------------------------------------------------------------
(* The cache and the registers.                                            *)

\* Edit mode is what stops the RTC, so the handler never runs in it; the
\* registers are a minute ahead of the cache until the handler has run.
FreshInv ==
  /\ hold = editing
  /\ ifg => ~editing /\ rtc = NextMinute(rtca_time)
  /\ ~ifg /\ ~editing => rtca_time = rtc

\* The handler finds out from zeroes and ones alone which registers the RTC
\* has carried into, and an hour it moves is not one of them.
LEMMA IsrIsFresh ==
  ASSUME TypeOK, FreshInv, RTC_A_ISR
  PROVE  rtca_time' = rtc'
<1> DEFINE t == rtca_time
           hour == HourNext(rtc.hour)
<1>1. t \in Time /\ rtc = NextMinute(t)
  BY DEF TypeOK, RtcTypeOK, FreshInv, RTC_A_ISR
<1>2. rtca_get_max_days(t.mon, t.year) \in 28..31
  BY <1>1, MaxDays, RtcAssumption DEF Time
<1>3. hour = 0 <=> rtc.hour = 0
  BY <1>1 DEF HourNext, SpringsForward, FallsBack, TypeOK, RtcTypeOK, Time
<1>4. CASE rtc.min # 0
  <2>1. rtc = [t EXCEPT !.min = rtc.min]
    BY <1>1, <1>4 DEF NextMinute, Time
  <2>2. rtc' = rtc /\ rtca_time' = [t EXCEPT !.min = rtc.min]
    BY <1>4 DEF RTC_A_ISR, CacheNext, Time, TypeOK, RtcTypeOK
  <2> QED
    BY <2>1, <2>2
<1>5. CASE rtc.min = 0 /\ rtc.hour # 0
  <2>1. rtc = [t EXCEPT !.min = rtc.min, !.hour = rtc.hour]
    <3>1. /\ rtc.day = t.day /\ rtc.mon = t.mon /\ rtc.year = t.year
          /\ rtc.dow = t.dow
      BY <1>1, <1>5 DEF NextMinute
    <3>2. rtc \in Time
      BY DEF TypeOK, RtcTypeOK
    <3> QED
      BY <1>1, <3>1, <3>2 DEF Time
  <2>2. rtc' = [rtc EXCEPT !.hour = hour]
    BY <1>5 DEF RTC_A_ISR, SetHour
  <2>3. rtca_time' = [t EXCEPT !.min = rtc.min, !.hour = hour]
    BY <1>1, <1>3, <1>5 DEF RTC_A_ISR, CacheNext, Time
  <2> QED
    BY <1>1, <2>1, <2>2, <2>3 DEF Time
<1>6. CASE rtc.min = 0 /\ rtc.hour = 0
  <2>1. /\ rtc.day = 1 <=> t.day >= rtca_get_max_days(t.mon, t.year)
        /\ rtc.day # 1 => rtc.mon = t.mon /\ rtc.year = t.year
        /\ rtc.day = 1 /\ rtc.mon # 1 => rtc.year = t.year
    BY <1>1, <1>2, <1>6 DEF NextMinute, Time
  <2>2. rtc' = [rtc EXCEPT !.hour = hour]
    BY <1>6 DEF RTC_A_ISR, SetHour
  <2>3. rtca_time' = [t EXCEPT !.min = rtc.min, !.hour = hour, !.day = rtc.day,
                               !.dow = rtc.dow,
                               !.mon = IF rtc.day = 1 THEN rtc.mon ELSE @,
                               !.year = IF rtc.day = 1 /\ rtc.mon = 1
                                        THEN rtc.year ELSE @]
    BY <1>1, <1>3, <1>6 DEF RTC_A_ISR, CacheNext, Time
  <2>4. rtc \in Time
    BY DEF TypeOK, RtcTypeOK
  <2> QED
    BY <1>1, <2>1, <2>2, <2>3, <2>4 DEF Time
<1> QED
  BY <1>4, <1>5, <1>6

LEMMA StepFresh == TypeOK /\ FreshInv /\ [Next]_vars => FreshInv'
<1> SUFFICES ASSUME TypeOK, FreshInv, [Next]_vars PROVE FreshInv'
  OBVIOUS
<1> USE DEF FreshInv
<1>1. CASE Minute /\ UNCHANGED clockVars
  BY <1>1 DEF Minute, clockVars
<1>2. CASE RTC_A_ISR /\ UNCHANGED clockVars
  <2>1. rtca_time' = rtc'
    BY <1>2, IsrIsFresh
  <2> QED
    BY <1>2, <2>1 DEF RTC_A_ISR, clockVars
<1>3. CASE ClockEvent
  BY <1>3 DEF ClockEvent
<1>4. CASE StarLong
  BY <1>4 DEF StarLong
<1>5. CASE EditNextItem
  BY <1>5 DEF EditNextItem, rtcVars
<1>6. ASSUME NEW step \in {1, -1}, EditSet(step)
      PROVE  FreshInv'
  BY <1>6 DEF EditSet
<1>7. CASE EditSave
  BY <1>7 DEF EditSave, SetTimeAndDate
<1>8. CASE UNCHANGED vars
  BY <1>8 DEF vars, rtcVars, clockVars
<1> QED
  BY <1>1, <1>2, <1>3, <1>4, <1>5, <1>6, <1>7, <1>8 DEF Next

\* drivers/rtca.h:50-56: the cache is equal to the registers whenever the
\* clock runs and the handler is done, though the handler copies only the
\* registers it finds to have changed and edit mode writes in the cache.
THEOREM CacheIsFreshCorrect == Spec => []CacheIsFresh
<1>1. Init => FreshInv
  BY DEF Init, RtcInit, FreshInv
<1>2. FreshInv => CacheIsFresh
  BY DEF FreshInv, CacheIsFresh, Settled
<1> QED
  BY <1>1, <1>2, StepFresh, TypeCorrect, PTL DEF Spec

-----------------------------------------------------------------------------
(* The screen.                                                             *)

\* A field that is behind the cache has its event pending.
ShownInv ==
  /\ "MINUTE" \notin rtca_last_event => shown.min = rtca_time.min
  /\ "HOUR" \notin rtca_last_event => shown.hour = rtca_time.hour
  /\ "DAY" \notin rtca_last_event => shown.day = rtca_time.day
  /\ "MONTH" \notin rtca_last_event => shown.mon = rtca_time.mon

\* A run of the handler posts the event of every field it copies.
LEMMA IsrShown ==
  ASSUME TypeOK, ShownInv, RTC_A_ISR, shown' = shown
  PROVE  ShownInv'
<1> DEFINE hour == HourNext(rtc.hour)
<1>1. \A e : e \notin rtca_last_event' => e \notin rtca_last_event
  BY DEF RTC_A_ISR
<1>2. "MINUTE" \in rtca_last_event'
  BY DEF RTC_A_ISR
<1>3. "HOUR" \notin rtca_last_event' => rtca_time'.hour = rtca_time.hour
  BY DEF RTC_A_ISR, CacheNext, TypeOK, RtcTypeOK, Time
<1>4. "DAY" \notin rtca_last_event' => rtca_time'.day = rtca_time.day
  BY DEF RTC_A_ISR, CacheNext, TypeOK, RtcTypeOK, Time
<1>5. "MONTH" \notin rtca_last_event' => rtca_time'.mon = rtca_time.mon
  BY DEF RTC_A_ISR, CacheNext, TypeOK, RtcTypeOK, Time
<1> QED
  BY <1>1, <1>2, <1>3, <1>4, <1>5 DEF ShownInv

LEMMA StepShown == TypeOK /\ ShownInv /\ [Next]_vars => ShownInv'
<1> SUFFICES ASSUME TypeOK, ShownInv, [Next]_vars PROVE ShownInv'
  OBVIOUS
<1> USE DEF ShownInv
<1>1. CASE Minute /\ UNCHANGED clockVars
  BY <1>1 DEF Minute, clockVars
<1>2. CASE RTC_A_ISR /\ UNCHANGED clockVars
  BY <1>2, IsrShown DEF clockVars
<1>3. CASE ClockEvent
  BY <1>3 DEF ClockEvent
<1>4. CASE StarLong
  BY <1>4 DEF StarLong
<1>5. CASE EditNextItem
  BY <1>5 DEF EditNextItem, rtcVars
<1>6. ASSUME NEW step \in {1, -1}, EditSet(step)
      PROVE  ShownInv'
  BY <1>6 DEF EditSet, Edited, TypeOK, RtcTypeOK, Time
<1>7. CASE EditSave
  BY <1>7 DEF EditSave, SetTimeAndDate, TypeOK, RtcTypeOK, Time
<1>8. CASE UNCHANGED vars
  BY <1>8 DEF vars, rtcVars, clockVars
<1> QED
  BY <1>1, <1>2, <1>3, <1>4, <1>5, <1>6, <1>7, <1>8 DEF Next

\* Once the events are broadcast the screen shows the time of the cache,
\* although each event redraws one field and edit mode comes in between.
THEOREM ShownIsCurrentCorrect == Spec => []ShownIsCurrent
<1>1. Init => ShownInv
  BY DEF Init, Drawn, ShownInv
<1>2. TypeOK /\ ShownInv => ShownIsCurrent
  BY DEF TypeOK, ShownInv, ShownIsCurrent, Drawn
<1> QED
  BY <1>1, <1>2, StepShown, TypeCorrect, PTL DEF Spec

\* Registers, cache and screen agree whenever the clock runs and its events
\* have been broadcast, for every zone and any years from 2000 to 2047.
THEOREM ScreenFollowsClockCorrect == Spec => []ScreenFollowsClock
<1>1. CacheIsFresh /\ ShownIsCurrent => ScreenFollowsClock
  BY DEF ScreenFollowsClock
<1> QED
  BY <1>1, CacheIsFreshCorrect, ShownIsCurrentCorrect, PTL

-----------------------------------------------------------------------------
(* The repeated hour.                                                      *)

\* The RTC goes back in the hours only into another day.
LEMMA MinuteGoesOn ==
  ASSUME TypeOK, Minute, rtc.day = rtc'.day
  PROVE  ~(rtc'.hour < rtc.hour)
<1>1. rtc \in Time
  BY DEF TypeOK, RtcTypeOK
<1>2. rtca_get_max_days(rtc.mon, rtc.year) \in 28..31
  BY <1>1, MaxDays, RtcAssumption DEF Time
<1>3. rtc'.day = rtc.day => ~(rtc'.min = 0 /\ rtc'.hour = 0)
  BY <1>1, <1>2 DEF Minute, NextMinute, Time
<1>4. \/ rtc'.hour = rtc.hour
      \/ rtc'.min = 0 /\ rtc'.hour = (rtc.hour + 1) % Hours
  BY DEF Minute, NextMinute
<1>5. (rtc.hour + 1) % Hours \in {0, rtc.hour + 1}
  BY <1>1, RtcAssumption DEF Time
<1> QED
  BY <1>1, <1>3, <1>4, <1>5 DEF Time

\* A handler that takes an hour off ends summer time with it.
LEMMA IsrFallsBack ==
  ASSUME TypeOK, RTC_A_ISR, rtc'.hour < rtc.hour
  PROVE  rtc_dst_state = "DST" /\ rtc_dst_state' = "ST"
<1>1. rtc.hour \in 0..Hours - 1 /\ rtc \in Time
  BY DEF TypeOK, RtcTypeOK, Time
<1>2. rtc.min = 0
  BY <1>1 DEF RTC_A_ISR
<1>3. rtc'.hour = HourNext(rtc.hour)
  BY <1>1, <1>2 DEF RTC_A_ISR, SetHour, Time
<1>4. FallsBack(rtc.hour) /\ HourNext(rtc.hour) = 1
  BY <1>1, <1>3 DEF HourNext, SpringsForward, FallsBack
<1>5. DstStateNext(rtc.hour)
  BY <1>2, <1>4 DEF RTC_A_ISR
<1> QED
  BY <1>4, <1>5 DEF DstStateNext, FallsBack, SpringsForward

\* drivers/rtc_dst.c: the hour is put back once, when summer time ends; a
\* clock that is not edited goes back at no other moment.
THEOREM FallsBackOnceCorrect == Spec => FallsBackOnce
<1> DEFINE A == ~editing /\ rtc.day = rtc'.day /\ rtc'.hour < rtc.hour =>
                  rtc_dst_state = "DST" /\ rtc_dst_state' = "ST"
<1>1. TypeOK /\ [Next]_vars => [A]_vars
  <2> SUFFICES ASSUME TypeOK, Next, ~editing, rtc.day = rtc'.day,
                      rtc'.hour < rtc.hour
               PROVE  rtc_dst_state = "DST" /\ rtc_dst_state' = "ST"
    OBVIOUS
  <2>1. CASE Minute
    BY <2>1, MinuteGoesOn
  <2>2. CASE RTC_A_ISR
    BY <2>2, IsrFallsBack
  <2>3. CASE rtc' = rtc
    BY <2>3 DEF TypeOK, RtcTypeOK, Time
  <2> QED
    BY <2>1, <2>2, <2>3
    DEF Next, ClockEvent, StarLong, EditNextItem, EditSet, EditSave, rtcVars
<1> QED
  BY <1>1, TypeCorrect, PTL DEF Spec, FallsBackOnce

-----------------------------------------------------------------------------
(* The day of the week.                                                    *)

Less == {ss \in Nat \X Nat : ss[1] < ss[2]}

\* Induction over the naturals, by a set.
LEMMA Counting ==
  ASSUME NEW T, 0 \in T, \A n \in Nat : n \in T => n + 1 \in T
  PROVE  Nat \subseteq T
<1> SUFFICES ASSUME Nat \ T # {} PROVE FALSE
  OBVIOUS
<1>1. IsWellFoundedOn(Less, Nat)
  BY NatLessThanWellFounded, Zenon DEF OpToRel, Less
<1>2. PICK x \in Nat \ T : \A y \in Nat \ T : <<y, x>> \notin Less
  BY <1>1, WFMin, Zenon
<1>3. x # 0 /\ x - 1 \in Nat /\ <<x - 1, x>> \in Less
  BY DEF Less
<1>4. x - 1 \in T
  BY <1>2, <1>3
<1> QED
  BY <1>3, <1>4

\* From 2000 on every fourth year is a leap year, for a hundred years.
LEMMA FourthYears ==
  ASSUME NEW y \in 2000..2047
  PROVE  IsLeapYear(y) <=> y % 4 = 0
<1>1. y % 100 = 0 => y = 2000
  OBVIOUS
<1>2. 2000 % 400 = 0
  OBVIOUS
<1> QED
  BY <1>1, <1>2 DEF IsLeapYear

LeapsBefore(year) == {y \in 2000..year - 1 : IsLeapYear(y)}

\* The leap years from 2000 to before a year.
LEMMA LeapCount ==
  ASSUME NEW year \in 2000..2047
  PROVE  Cardinality(LeapsBefore(year)) = (year - 1997) \div 4
<1> DEFINE Leaps(n) == {x \in 2000..1999 + n : IsLeapYear(x)}
           T == {n \in Nat : n <= 47 => /\ IsFiniteSet(Leaps(n))
                                        /\ Cardinality(Leaps(n)) = (n + 3) \div 4}
<1>1. 0 \in T
  <2>1. Leaps(0) = {}
    OBVIOUS
  <2>2. (0 + 3) \div 4 = 0
    OBVIOUS
  <2> HIDE DEF Leaps
  <2> QED
    BY <2>1, <2>2, FS_EmptySet
<1>2. ASSUME NEW n \in Nat, n \in T
      PROVE  n + 1 \in T
  <2> SUFFICES ASSUME n + 1 <= 47
               PROVE  /\ IsFiniteSet(Leaps(n + 1))
                      /\ Cardinality(Leaps(n + 1)) = (n + 4) \div 4
    OBVIOUS
  <2>1. IsFiniteSet(Leaps(n)) /\ Cardinality(Leaps(n)) = (n + 3) \div 4
    BY <1>2
  <2>2. IsLeapYear(2000 + n) <=> n % 4 = 0
    BY FourthYears
  <2>3. CASE n % 4 = 0
    <3>1. Leaps(n + 1) = Leaps(n) \cup {2000 + n} /\ 2000 + n \notin Leaps(n)
      BY <2>2, <2>3
    <3>2. (n + 4) \div 4 = (n + 3) \div 4 + 1
      BY <2>3
    <3> HIDE DEF Leaps
    <3> QED
      BY <2>1, <3>1, <3>2, FS_AddElement
  <2>4. CASE n % 4 # 0
    <3>1. Leaps(n + 1) = Leaps(n)
      BY <2>2, <2>4
    <3>2. (n + 4) \div 4 = (n + 3) \div 4
      BY <2>4
    <3> HIDE DEF Leaps
    <3> QED
      BY <2>1, <3>1, <3>2
  <2> QED
    BY <2>3, <2>4
<1>3. year - 2000 \in T
  <2> HIDE DEF T
  <2>1. Nat \subseteq T
    BY <1>1, <1>2, Counting
  <2> QED
    BY <2>1
<1>4. Leaps(year - 2000) = LeapsBefore(year)
  BY DEF LeapsBefore
<1> QED
  BY <1>3, <1>4

\* Of the calendar; by name, as the provers do not match three intervals.
Years  == 2000..2047
Months == 1..12
Days   == 1..32

LeapDay(year, mon) == IF year % 4 = 0 /\ mon > 2 THEN 1 ELSE 0

\* The days since 1 January 2012, without a cardinality.
DaysSince(year, mon, day) ==
  365 * (year - 2012) + (year - 1997) \div 4 - 4 + DaysBefore[mon] + day + LeapDay(year, mon)

LEMMA DaysSinceType ==
  ASSUME NEW year \in Years, NEW mon \in Months, NEW day \in Days
  PROVE  DaysSince(year, mon, day) \in Int
<1>1. (year - 1997) \div 4 \in Int /\ DaysBefore[mon] \in Int /\ LeapDay(year, mon) \in Int
  BY DEF DaysBefore, LeapDay, Years, Months
<1> QED
  BY <1>1 DEF DaysSince, Years, Days

\* The count goes on from the last day of a month, and of a year.
LEMMA DaysGoOn ==
  ASSUME NEW year \in Years, NEW mon \in Months, NEW day \in Days
  PROVE  /\ DaysSince(year, mon, day + 1) = DaysSince(year, mon, day) + 1
         /\ mon < 12 => DaysSince(year, mon + 1, 1)
                           = DaysSince(year, mon, rtca_get_max_days(mon, year)) + 1
         /\ DaysSince(year + 1, 1, 1) = DaysSince(year, 12, 31) + 1
<1> USE DEF Years, Months, Days
<1> DEFINE q == (year - 1997) \div 4
<1>1. q \in Int /\ (year + 1 - 1997) \div 4 = q + (IF year % 4 = 0 THEN 1 ELSE 0)
  OBVIOUS
<1>2. IsLeapYear(year) <=> year % 4 = 0
  BY FourthYears
<1>3. DaysBefore[mon] \in Int /\ DaysBefore[1] = 0 /\ DaysBefore[12] = 334
  BY DEF DaysBefore
<1>4. /\ LeapDay(year, mon) \in Int /\ LeapDay(year + 1, 1) = 0
      /\ LeapDay(year, 12) = (IF year % 4 = 0 THEN 1 ELSE 0)
  BY DEF LeapDay
<1>5. mon < 12 => DaysBefore[mon + 1] + LeapDay(year, mon + 1)
                    = DaysBefore[mon] + LeapDay(year, mon) + rtca_get_max_days(mon, year)
  BY <1>2 DEF DaysBefore, LeapDay, rtca_get_max_days
<1>6. mon < 12 => /\ DaysBefore[mon + 1] \in Int /\ LeapDay(year, mon + 1) \in Int
                  /\ rtca_get_max_days(mon, year) \in Int
  BY MaxDays DEF DaysBefore, LeapDay
<1> HIDE DEF q
<1>7. DaysSince(year, mon, day + 1) = DaysSince(year, mon, day) + 1
  BY <1>1, <1>3, <1>4 DEF DaysSince, q
<1>8. mon < 12 => DaysSince(year, mon + 1, 1)
                    = DaysSince(year, mon, rtca_get_max_days(mon, year)) + 1
  BY <1>1, <1>3, <1>4, <1>5, <1>6 DEF DaysSince, q
<1>9. DaysSince(year + 1, 1, 1) = DaysSince(year, 12, 31) + 1
  BY <1>1, <1>3, <1>4 DEF DaysSince, q
<1> QED
  BY <1>7, <1>8, <1>9

LEMMA WeekdayCounts ==
  ASSUME NEW t, t.year \in 2000..2047, t.mon \in 1..12, t.day \in 1..32
  PROVE  Weekday(t) = DaysSince(t.year, t.mon, t.day) % 7
<1> DEFINE leap == IF t.year % 4 = 0 /\ t.mon > 2 THEN 1 ELSE 0
           epoch == [year |-> 2012, mon |-> 1, day |-> 1]
           quarter == (t.year - 1997) \div 4
<1>1. DayNumber(t) = 365 * (t.year - 2000) + quarter + DaysBefore[t.mon] + t.day + leap
  <2>1. Cardinality(LeapsBefore(t.year)) = quarter
    BY LeapCount
  <2>2. (IF IsLeapYear(t.year) /\ t.mon > 2 THEN 1 ELSE 0) = leap
    BY FourthYears
  <2> HIDE DEF leap, quarter
  <2> QED
    BY <2>1, <2>2 DEF DayNumber, LeapsBefore
<1>2. DayNumber(epoch) = 4384
  <2>1. Cardinality(LeapsBefore(epoch.year)) = 3
    <3>1. (2012 - 1997) \div 4 = 3
      OBVIOUS
    <3> QED
      BY <3>1, LeapCount
  <2>2. (IF IsLeapYear(epoch.year) /\ epoch.mon > 2 THEN 1 ELSE 0) = 0
    OBVIOUS
  <2>3. DaysBefore[epoch.mon] = 0
    BY DEF DaysBefore
  <2> QED
    BY <2>1, <2>2, <2>3 DEF DayNumber, LeapsBefore
<1>3. DaysBefore[t.mon] \in Int /\ leap \in Int /\ quarter \in Int
  BY DEF DaysBefore
<1>4. Weekday(t) = (DayNumber(t) - DayNumber(epoch)) % 7
  BY DEF Weekday
<1> HIDE DEF leap, quarter, epoch
<1>5. DayNumber(t) - DayNumber(epoch)
        = 365 * (t.year - 2012) + quarter - 4 + DaysBefore[t.mon] + t.day + leap
  <2>1. \A year, q, b, d, l \in Int :
          365 * (year - 2000) + q + b + d + l - 4384 = 365 * (year - 2012) + q - 4 + b + d + l
    OBVIOUS
  <2>2. t.year \in Int /\ t.day \in Int
    OBVIOUS
  <2> QED
    BY <1>1, <1>2, <1>3, <2>1, <2>2
<1> QED
  BY <1>4, <1>5 DEF leap, quarter, DaysSince, LeapDay

LEMMA SevenMore ==
  ASSUME NEW n \in Int, NEW k \in Int
  PROVE  (n + 7 * k) % 7 = n % 7
OBVIOUS

\* The table of rtca_set_date, in eight bits, gives the calendar's day.
LEMMA DowIsWeekday ==
  ASSUME NEW t, t.year \in 2000..2047, t.mon \in 1..12, t.day \in 1..32
  PROVE  DowOf(t) = Weekday(t)
<1> DEFINE shift == <<0, 3, 3, 6, 1, 4, 6, 2, 5, 0, 3, 5>>
           weeks == <<0, 4, 8, 12, 17, 21, 25, 30, 34, 39, 43, 47>>
           back == IF t.year % 4 = 0 /\ t.mon < 3 THEN 1 ELSE 0
           leap == IF t.year % 4 = 0 /\ t.mon > 2 THEN 1 ELSE 0
           y == t.year - 1984
           n == y + y \div 4 - back + t.day + shift[t.mon]
           k == 52 * (t.year - 2012) + weeks[t.mon] - 5
<1>1. rtca_get_max_days(2, t.year) = 29 <=> t.year % 4 = 0
  BY FourthYears DEF rtca_get_max_days
<1>2. shift[t.mon] \in 0..6 /\ weeks[t.mon] \in 0..47
  OBVIOUS
<1>3. n \in 0..255
  <2>1. y \in 16..63 /\ y \div 4 \in 4..15 /\ back \in 0..1
    OBVIOUS
  <2> HIDE DEF y, back, shift
  <2> QED
    BY <1>2, <2>1
<1>4. DowOf(t) = n % 7
  <2>1. (IF rtca_get_max_days(2, t.year) = 29 /\ t.mon < 3 THEN 1 ELSE 0) = back
    BY <1>1
  <2>2. DowOf(t) = (n % 256) % 7
    BY <2>1 DEF DowOf
  <2> HIDE DEF n
  <2> QED
    BY <1>3, <2>2
<1>5. DaysBefore[t.mon] = shift[t.mon] + 7 * weeks[t.mon]
  BY DEF DaysBefore
<1>6. (t.year - 1997) \div 4 + leap = y \div 4 - back - 3
  <2>1. \A year \in 2000..2047 :
          (year - 1997) \div 4 = (year - 1984) \div 4 - (IF year % 4 = 0 THEN 4 ELSE 3)
    OBVIOUS
  <2>2. (t.year - 1997) \div 4 = y \div 4 - (IF t.year % 4 = 0 THEN 4 ELSE 3)
    <3>1. PICK year \in 2000..2047 : year = t.year
      OBVIOUS
    <3> QED
      BY <2>1, <3>1
  <2>3. y \div 4 \in Int
    OBVIOUS
  <2> HIDE DEF y
  <2> QED
    BY <2>2, <2>3
<1>7. 365 * (t.year - 2012) + (t.year - 1997) \div 4 - 4 + DaysBefore[t.mon] + t.day + leap
        = n + 7 * k
  <2>1. \A year, q, r, b, l, d, s, w \in Int : q + l = r - b - 3 =>
          365 * (year - 2012) + q - 4 + (s + 7 * w) + d + l
            = year - 1984 + r - b + d + s + 7 * (52 * (year - 2012) + w - 5)
    OBVIOUS
  <2>2. y \div 4 \in Int /\ back \in Int /\ leap \in Int /\ (t.year - 1997) \div 4 \in Int
    OBVIOUS
  <2>3. t.year \in Int /\ t.day \in Int /\ shift[t.mon] \in Int /\ weeks[t.mon] \in Int
    BY <1>2
  <2> DEFINE quarter == (t.year - 1997) \div 4
             fourth == y \div 4
             s == shift[t.mon]
             w == weeks[t.mon]
  <2>4. n = t.year - 1984 + fourth - back + t.day + s
    OBVIOUS
  <2>5. k = 52 * (t.year - 2012) + w - 5
    OBVIOUS
  <2>6. quarter + leap = fourth - back - 3 /\ DaysBefore[t.mon] = s + 7 * w
    BY <1>5, <1>6
  <2> HIDE DEF y, back, leap, shift, weeks, n, k, quarter, fourth, s, w
  <2>7. quarter \in Int /\ fourth \in Int /\ s \in Int /\ w \in Int
    BY <2>2, <2>3 DEF quarter, fourth, s, w
  <2>8. 365 * (t.year - 2012) + quarter - 4 + DaysBefore[t.mon] + t.day + leap = n + 7 * k
    BY <2>1, <2>2, <2>3, <2>4, <2>5, <2>6, <2>7
  <2> QED
    BY <2>8 DEF quarter
<1>8. n \in Int /\ k \in Int
  <2>1. n \in Int
    <3> HIDE DEF n
    <3> QED BY <1>3
  <2>2. k \in Int
    <3> HIDE DEF weeks
    <3> QED BY <1>2
  <2> QED
    BY <2>1, <2>2
<1> HIDE DEF n, k
<1>9. Weekday(t) = (n + 7 * k) % 7
  BY <1>7, WeekdayCounts DEF DaysSince, LeapDay
<1> QED
  BY <1>4, <1>8, <1>9, SevenMore

\* The day after a day of the calendar is the next day of the week.
LEMMA MinuteWeekday ==
  ASSUME NEW t \in Time, Exists(t), t.dow = Weekday(t), NextMinute(t).year <= LastYear
  PROVE  Exists(NextMinute(t)) /\ NextMinute(t).dow = Weekday(NextMinute(t))
<1> DEFINE u == NextMinute(t)
           last == rtca_get_max_days(t.mon, t.year)
           min == (t.min + 1) % Minutes
           hour == IF min = 0 THEN (t.hour + 1) % Hours ELSE t.hour
           newday == min = 0 /\ hour = 0
<1>1. u \in Time
  BY NextMinuteType
<1>2. /\ t.year \in 2000..2047 /\ t.mon \in 1..12 /\ t.day \in 1..32
      /\ u.year \in 2000..2047 /\ u.mon \in 1..12 /\ u.day \in 1..32
      /\ t.year \in Years /\ t.mon \in Months /\ t.day \in Days
  <2> HIDE DEF u
  <2> QED BY <1>1, RtcAssumption DEF Time, Years, Months, Days
<1>3. last \in 28..31 /\ t.day <= last
  BY <1>2, MaxDays DEF Exists
<1>4. IsLeapYear(t.year) <=> t.year % 4 = 0
  BY <1>2, FourthYears
<1>5. CASE ~newday
  <2>1. u.year = t.year /\ u.mon = t.mon /\ u.day = t.day /\ u.dow = t.dow
    BY <1>5 DEF NextMinute
  <2> HIDE DEF u
  <2>2. Weekday(u) = Weekday(t)
    BY <1>2, <2>1, WeekdayCounts
  <2> QED
    BY <2>1, <2>2 DEF Exists, u
<1>6. CASE newday
  <2>1. /\ u.dow = (t.dow + 1) % 7
        /\ t.day < last => u.year = t.year /\ u.mon = t.mon /\ u.day = t.day + 1
        /\ t.day >= last => u.day = 1
        /\ t.day >= last /\ t.mon < 12 => u.year = t.year /\ u.mon = t.mon + 1
        /\ t.day >= last /\ t.mon = 12 => u.year = t.year + 1 /\ u.mon = 1
    BY <1>2, <1>3, <1>6 DEF NextMinute
  <2> HIDE DEF u
  <2>2. Exists(u)
    <3>1. rtca_get_max_days(u.mon, u.year) \in 28..31
      BY <1>2, MaxDays
    <3> QED
      BY <1>2, <1>3, <2>1, <3>1 DEF Exists
  <2>3. /\ DaysSince(t.year, t.mon, t.day + 1) = DaysSince(t.year, t.mon, t.day) + 1
        /\ t.mon < 12 => DaysSince(t.year, t.mon + 1, 1)
                            = DaysSince(t.year, t.mon, last) + 1
        /\ DaysSince(t.year + 1, 1, 1) = DaysSince(t.year, 12, 31) + 1
    BY <1>2, DaysGoOn
  <2>4. DaysSince(u.year, u.mon, u.day) = DaysSince(t.year, t.mon, t.day) + 1
    <3>1. CASE t.day < last
      BY <2>1, <2>3, <3>1
    <3>2. CASE t.day >= last /\ t.mon < 12
      <4>1. t.day = last
        BY <1>2, <1>3, <3>2
      <4> QED
        BY <2>1, <2>3, <3>2, <4>1
    <3>3. CASE t.day >= last /\ t.mon = 12
      <4>1. last = 31
        BY <3>3 DEF rtca_get_max_days
      <4>2. t.day = 31
        BY <1>2, <1>3, <3>3, <4>1
      <4> QED
        BY <2>1, <2>3, <3>3, <4>2
    <3> QED
      BY <1>2, <1>3, <3>1, <3>2, <3>3
  <2> DEFINE n == DaysSince(t.year, t.mon, t.day)
  <2>5. Weekday(t) = n % 7 /\ Weekday(u) = (n + 1) % 7
    BY <1>2, <2>4, WeekdayCounts
  <2>6. n \in Int
    BY <1>2, DaysSinceType
  <2> HIDE DEF n
  <2>7. ((n % 7) + 1) % 7 = (n + 1) % 7
    BY <2>6
  <2>8. u.dow = Weekday(u)
    BY <2>1, <2>5, <2>7
  <2> QED
    BY <2>2, <2>8 DEF u
<1> QED
  BY <1>5, <1>6

\* The registers hold a day of the calendar, and its day of the week.
DowInv == real => Exists(rtc) /\ rtc.dow = Weekday(rtc)

\* Neither depends on the rest of a time.
LEMMA SameDate ==
  ASSUME NEW t \in Time, NEW u \in Time,
         u.year = t.year /\ u.mon = t.mon /\ u.day = t.day
  PROVE  (Exists(u) <=> Exists(t)) /\ Weekday(u) = Weekday(t)
<1>1. /\ t.year \in 2000..2047 /\ t.mon \in 1..12 /\ t.day \in 1..32
      /\ u.year \in 2000..2047 /\ u.mon \in 1..12 /\ u.day \in 1..32
  BY RtcAssumption DEF Time
<1>2. Weekday(u) = Weekday(t)
  BY <1>1, WeekdayCounts
<1> QED
  BY <1>2 DEF Exists

LEMMA StepDow == TypeOK /\ TypeOK' /\ DowInv /\ [Next]_vars => DowInv'
<1> SUFFICES ASSUME TypeOK, TypeOK', DowInv, [Next]_vars, real'
             PROVE  Exists(rtc') /\ rtc'.dow = Weekday(rtc')
  BY DEF DowInv
<1>0. rtc \in Time /\ rtca_time \in Time /\ rtc' \in Time
  BY DEF TypeOK, RtcTypeOK
<1>1. CASE real /\ Minute
  <2>1. rtc' = NextMinute(rtc) /\ NextMinute(rtc).year <= LastYear
    BY <1>1 DEF Minute
  <2> QED
    BY <1>0, <1>1, <2>1, MinuteWeekday DEF DowInv
<1>2. CASE RTC_A_ISR /\ UNCHANGED clockVars
  <2>1. rtc' = rtc \/ rtc' = [rtc EXCEPT !.hour = HourNext(rtc.hour)]
    BY <1>2 DEF RTC_A_ISR, SetHour
  <2>2. rtc'.year = rtc.year /\ rtc'.mon = rtc.mon /\ rtc'.day = rtc.day /\ rtc'.dow = rtc.dow
    BY <1>0, <2>1 DEF Time
  <2>3. real
    BY <1>2 DEF clockVars
  <2> QED
    BY <1>0, <2>2, <2>3, SameDate DEF DowInv
<1>3. CASE rtc' = rtc /\ real' = real
  BY <1>3 DEF DowInv
<1>4. CASE EditSave
  <2>1. rtc' = [rtca_time EXCEPT !.dow = DowOf(rtca_time)]
    BY <1>4 DEF EditSave, SetTimeAndDate
  <2>2. /\ rtc'.year = rtca_time.year /\ rtc'.mon = rtca_time.mon
        /\ rtc'.day = rtca_time.day /\ rtc'.dow = DowOf(rtca_time)
    BY <1>0, <2>1 DEF Time
  <2>3. Exists(rtca_time)
    BY <1>4 DEF EditSave, Exists
  <2>4. DowOf(rtca_time) = Weekday(rtca_time)
    <3>1. rtca_time.year \in 2000..2047 /\ rtca_time.mon \in 1..12 /\ rtca_time.day \in 1..32
      BY <1>0, RtcAssumption DEF Time
    <3> QED
      BY <3>1, DowIsWeekday
  <2> QED
    BY <1>0, <2>2, <2>3, <2>4, SameDate
<1> QED
  BY <1>1, <1>2, <1>3, <1>4
  DEF Next, ClockEvent, StarLong, EditNextItem, EditSet, rtcVars, clockVars, vars

\* The day of the week that rtca_set_date computes, from a table and in eight
\* bits, and the one the RTC counts on are the calendar's, in any year up to
\* 2047 and for any moment the watch was built at and any date it is set to.
THEOREM DowIsRightCorrect == Spec => []DowIsRight
<1>1. Init => DowInv
  BY CompiledAssumption DEF Init, RtcInit, DowInv
<1>2. DowInv => DowIsRight
  BY DEF DowInv, DowIsRight
<1> QED
  BY <1>1, <1>2, StepDow, TypeCorrect, PTL DEF Spec

-----------------------------------------------------------------------------
(* Daylight saving time.                                                   *)

\* A clock that is not edited: the exception is the hour that comes twice.
DstInv ==
  ~editing =>
    /\ rtc_dst_dates = SwitchDates(zone, rtca_time.year)
    /\ \/ rtc_dst_state = StateAt(rtc_dst_dates, rtca_time)
       \/ OnDate(rtca_time, rtc_dst_dates[2]) /\ rtca_time.hour = 1

\* A date in a month that has at least so many days.
MonthDate == {d \in [mon : 1..12, day : 1..31] : d.day <= 28 \/ (d.day <= 30 /\ d.mon # 2)
                                                   \/ d.mon \in {3, 10}}

LEMMA MonthDateExists ==
  ASSUME NEW d \in MonthDate, NEW year \in Nat
  PROVE  d.day <= rtca_get_max_days(d.mon, year)
<1>1. d.mon \in 1..12 /\ d.day \in 1..31
  BY DEF MonthDate
<1>2. rtca_get_max_days(d.mon, year) \in 28..31
  BY <1>1, MaxDays
<1>3. CASE d.day <= 28
  BY <1>1, <1>2, <1>3
<1>4. CASE d.day <= 30 /\ d.mon # 2
  <2>1. rtca_get_max_days(d.mon, year) >= 30
    BY <1>1, <1>4 DEF rtca_get_max_days
  <2> QED
    BY <1>1, <1>2, <1>4, <2>1
<1>5. CASE d.mon \in {3, 10}
  <2>1. rtca_get_max_days(d.mon, year) = 31
    BY <1>5 DEF rtca_get_max_days
  <2> QED
    BY <1>1, <2>1
<1> QED
  BY <1>3, <1>4, <1>5 DEF MonthDate

\* The two switches of a zone lie in two months, each on a day it has.
LEMMA SwitchShape ==
  ASSUME NEW z \in Zones, NEW year \in Nat
  PROVE  /\ SwitchDates(z, year)[1] \in MonthDate /\ SwitchDates(z, year)[2] \in MonthDate
         /\ SwitchDates(z, year)[1].mon # SwitchDates(z, year)[2].mon
<1>1. \A n \in 1..3, mon \in 1..12 :
        NSun(n, mon, year) \in MonthDate /\ NSun(n, mon, year).mon = mon
  <2> SUFFICES ASSUME NEW n \in 1..3, NEW mon \in 1..12
               PROVE  NSun(n, mon, year) \in MonthDate /\ NSun(n, mon, year).mon = mon
    OBVIOUS
  <2>1. rtc_dst_day_of_week(year, mon, n * 7) \in 0..6
    BY DstDowType
  <2>2. n * 7 - rtc_dst_day_of_week(year, mon, n * 7) \in 1..21
    BY <2>1
  <2> QED
    BY <2>2 DEF NSun, MonthDate
<1>2. \A days \in 30..31, mon \in {3, 9, 10} : (days = 31 => mon # 9) =>
        LastSun(mon, days, year) \in MonthDate /\ LastSun(mon, days, year).mon = mon
  <2> SUFFICES ASSUME NEW days \in 30..31, NEW mon \in {3, 9, 10}, days = 31 => mon # 9
               PROVE  LastSun(mon, days, year) \in MonthDate /\ LastSun(mon, days, year).mon = mon
    OBVIOUS
  <2>1. rtc_dst_day_of_week(year, mon, days) \in 0..6
    BY DstDowType
  <2>2. days - rtc_dst_day_of_week(year, mon, days) \in 1..days
    BY <2>1
  <2> QED
    BY <2>2 DEF LastSun, MonthDate
<1>3. z \in {"US", "MEX", "BRZ", "EU", "AUS", "NZ"}
  BY RtcAssumption
<1>4. CASE z = "US"  BY <1>1, <1>4 DEF SwitchDates
<1>5. CASE z = "MEX" BY <1>1, <1>2, <1>5 DEF SwitchDates
<1>6. CASE z = "BRZ" BY <1>1, <1>6 DEF SwitchDates
<1>7. CASE z = "EU"  BY <1>2, <1>7 DEF SwitchDates
<1>8. CASE z = "AUS" BY <1>1, <1>8 DEF SwitchDates
<1>9. CASE z = "NZ"  BY <1>1, <1>2, <1>9 DEF SwitchDates
<1> QED
  BY <1>3, <1>4, <1>5, <1>6, <1>7, <1>8, <1>9

\* Two in the morning of a date has passed at time t.
Passed(d, t) ==
  \/ d.mon < t.mon
  \/ d.mon = t.mon /\ d.day < t.day
  \/ d.mon = t.mon /\ d.day = t.day /\ t.hour >= 2

\* The number of four digits orders times as the calendar does.
LEMMA DstNumOrders ==
  ASSUME NEW d \in MonthDate, NEW t \in Time
  PROVE  /\ (DstNum(d.mon, d.day, 2) <= DstNum(t.mon, t.day, t.hour) <=> Passed(d, t))
         /\ (DstNum(t.mon, t.day, t.hour) < DstNum(d.mon, d.day, 2) <=> ~Passed(d, t))
<1>1. /\ d.mon \in 1..12 /\ d.day \in 1..31
      /\ t.mon \in 1..12 /\ t.day \in 1..32 /\ t.hour \in 0..23
  BY RtcAssumption DEF MonthDate, Time
<1>2. d.mon \in Int /\ d.day \in Int /\ t.mon \in Int /\ t.day \in Int /\ t.hour \in Int
  BY <1>1
<1>3. \A a, b, x, y, h \in Int :
        0 <= b /\ b <= 32 /\ 0 <= y /\ y <= 32 /\ 0 <= h /\ h <= 23 =>
          /\ (DstNum(a, b, 2) <= DstNum(x, y, h)
                <=> (a < x \/ (a = x /\ b < y) \/ (a = x /\ b = y /\ h >= 2)))
          /\ (DstNum(x, y, h) < DstNum(a, b, 2) <=> ~(DstNum(a, b, 2) <= DstNum(x, y, h)))
  BY DEF DstNum
<1>4. 0 <= d.day /\ d.day <= 32 /\ 0 <= t.day /\ t.day <= 32 /\ 0 <= t.hour /\ t.hour <= 23
  BY <1>1
<1>5. /\ (DstNum(d.mon, d.day, 2) <= DstNum(t.mon, t.day, t.hour)
           <=> (d.mon < t.mon \/ (d.mon = t.mon /\ d.day < t.day)
                  \/ (d.mon = t.mon /\ d.day = t.day /\ t.hour >= 2)))
      /\ (DstNum(t.mon, t.day, t.hour) < DstNum(d.mon, d.day, 2)
           <=> ~(DstNum(d.mon, d.day, 2) <= DstNum(t.mon, t.day, t.hour)))
  BY <1>2, <1>3, <1>4, Zenon
<1> QED
  BY <1>5, Zenon DEF Passed

LEMMA StateByDates ==
  ASSUME NEW dates, dates[1] \in MonthDate, dates[2] \in MonthDate, NEW t \in Time
  PROVE  StateAt(dates, t) =
           IF dates[1].mon < dates[2].mon
           THEN IF Passed(dates[1], t) /\ ~Passed(dates[2], t) THEN "DST" ELSE "ST"
           ELSE IF Passed(dates[2], t) /\ ~Passed(dates[1], t) THEN "ST" ELSE "DST"
BY DstNumOrders DEF StateAt, rtc_dst_isDateInDST

\* In the handler, away from the new year, the state follows the dates: two
\* in the morning passes in the hours alone, never at midnight.
LEMMA IsrState ==
  ASSUME TypeOK, FreshInv, DstInv, RTC_A_ISR,
         ~(rtc.min = 0 /\ HourNext(rtc.hour) = 0 /\ rtc.day = 1 /\ rtc.mon = 1)
  PROVE  \/ rtc_dst_state' = StateAt(rtc_dst_dates, rtca_time')
         \/ OnDate(rtca_time', rtc_dst_dates[2]) /\ rtca_time'.hour = 1
<1> DEFINE t == rtca_time
           d1 == rtc_dst_dates[1]
           d2 == rtc_dst_dates[2]
           hour == HourNext(rtc.hour)
<1>1. t \in Time /\ rtca_time' \in Time /\ rtc = NextMinute(t) /\ rtc \in Time /\ ~editing
  <2>1. RtcTypeOK'
    BY IsrType
  <2> QED
    BY <2>1 DEF TypeOK, RtcTypeOK, FreshInv, RTC_A_ISR
<1>2. t.year \in Nat
  BY <1>1, RtcAssumption DEF Time
<1>3. d1 \in MonthDate /\ d2 \in MonthDate /\ d1.mon # d2.mon
  BY <1>1, <1>2, SwitchShape DEF DstInv, TypeOK, RtcTypeOK
<1>4. /\ d1.day <= rtca_get_max_days(d1.mon, t.year) /\ d2.day <= rtca_get_max_days(d2.mon, t.year)
      /\ d1.mon \in 1..12 /\ d1.day \in 1..31 /\ d2.mon \in 1..12 /\ d2.day \in 1..31
  BY <1>2, <1>3, MonthDateExists DEF MonthDate
<1>5. rtc_dst_state = StateAt(rtc_dst_dates, t) \/ (OnDate(t, d2) /\ t.hour = 1)
  BY <1>1 DEF DstInv
<1>6. \A u \in Time : (Passed(d1, u) <=> Passed(d1, t)) /\ (Passed(d2, u) <=> Passed(d2, t))
                        => StateAt(rtc_dst_dates, u) = StateAt(rtc_dst_dates, t)
  BY <1>1, <1>3, StateByDates
<1>7. /\ t.mon \in 1..12 /\ t.day \in 1..32 /\ t.hour \in 0..Hours - 1
      /\ rtc.hour \in 0..Hours - 1 /\ Hours \in 4..24
  BY <1>1, RtcAssumption DEF Time
<1>8. CASE rtc.min # 0
  <2>1. /\ rtca_time'.mon = t.mon /\ rtca_time'.day = t.day /\ rtca_time'.hour = t.hour
        /\ rtc_dst_state' = rtc_dst_state
    BY <1>1, <1>8 DEF RTC_A_ISR, CacheNext, Time
  <2>2. StateAt(rtc_dst_dates, rtca_time') = StateAt(rtc_dst_dates, t)
    BY <1>1, <1>6, <2>1 DEF Passed
  <2> QED
    BY <1>5, <2>1, <2>2 DEF OnDate
<1>9. CASE rtc.min = 0 /\ rtc.hour # 0
  <2>1. rtc.hour = t.hour + 1
    BY <1>1, <1>7, <1>9 DEF NextMinute
  <2>2. hour # 0
    BY <1>7, <1>9 DEF HourNext, SpringsForward, FallsBack
  <2>3. /\ rtca_time'.mon = t.mon /\ rtca_time'.day = t.day /\ rtca_time'.hour = hour
        /\ DstStateNext(rtc.hour)
    BY <1>1, <1>9, <2>2 DEF RTC_A_ISR, CacheNext, Time
  <2>4. CASE rtc.hour # 2
    <3>1. hour = rtc.hour /\ rtc_dst_state' = rtc_dst_state
      BY <2>3, <2>4 DEF HourNext, DstStateNext, SpringsForward, FallsBack
    <3>2. t.hour >= 2 <=> rtca_time'.hour >= 2
      BY <1>7, <2>1, <2>3, <2>4, <3>1
    <3>3. StateAt(rtc_dst_dates, rtca_time') = StateAt(rtc_dst_dates, t)
      BY <1>1, <1>6, <2>3, <3>2 DEF Passed
    <3>4. t.hour # 1
      BY <1>7, <2>1, <2>4
    <3> QED
      BY <1>5, <3>1, <3>3, <3>4
  <2>5. CASE rtc.hour = 2
    <3>1. t.hour = 1
      BY <1>7, <2>1, <2>5
    <3>2. CASE OnDate(t, d1)
      <4>1. ~OnDate(t, d2) /\ ~Passed(d1, t) /\ (Passed(d2, t) <=> d2.mon < d1.mon)
        BY <1>3, <1>4, <1>7, <3>1, <3>2 DEF OnDate, Passed
      <4>2. StateAt(rtc_dst_dates, t) = "ST"
        BY <1>1, <1>3, <1>4, <4>1, StateByDates
      <4>3. SpringsForward(rtc.hour)
        BY <1>5, <2>5, <3>2, <4>1, <4>2 DEF SpringsForward
      <4>4. hour = 3 /\ rtc_dst_state' = "DST"
        BY <2>3, <2>5, <4>3 DEF HourNext, DstStateNext
      <4>5. Passed(d1, rtca_time') /\ (Passed(d2, rtca_time') <=> d2.mon < d1.mon)
        BY <1>3, <1>4, <1>7, <2>3, <3>2, <4>4 DEF OnDate, Passed
      <4>6. StateAt(rtc_dst_dates, rtca_time') = "DST"
        BY <1>1, <1>3, <1>4, <4>5, StateByDates
      <4> QED
        BY <4>4, <4>6
    <3>3. CASE OnDate(t, d2)
      <4>1. ~OnDate(t, d1)
        BY <1>3, <3>3 DEF OnDate
      <4>2. ~SpringsForward(rtc.hour)
        BY <4>1 DEF SpringsForward
      <4>3. CASE rtc_dst_state = "DST"
        <5>1. FallsBack(rtc.hour)
          BY <2>5, <3>3, <4>3 DEF FallsBack
        <5>2. hour = 1
          BY <2>5, <4>2, <5>1 DEF HourNext
        <5> QED
          BY <2>3, <3>3, <5>2 DEF OnDate
      <4>4. CASE rtc_dst_state # "DST"
        <5>1. ~FallsBack(rtc.hour)
          BY <4>4 DEF FallsBack
        <5>2. hour = 2 /\ rtc_dst_state' = "ST"
          BY <2>3, <2>5, <4>2, <4>4, <5>1 DEF HourNext, DstStateNext, TypeOK, RtcTypeOK
        <5>3. Passed(d2, rtca_time') /\ (Passed(d1, rtca_time') <=> d1.mon < d2.mon)
          BY <1>3, <1>4, <1>7, <2>3, <3>3, <5>2 DEF OnDate, Passed
        <5>4. StateAt(rtc_dst_dates, rtca_time') = "ST"
          BY <1>1, <1>3, <1>4, <5>3, StateByDates
        <5> QED
          BY <5>2, <5>4
      <4> QED
        BY <4>3, <4>4
    <3>4. CASE ~OnDate(t, d1) /\ ~OnDate(t, d2)
      <4>1. hour = rtc.hour /\ rtc_dst_state' = rtc_dst_state
        BY <2>3, <3>4 DEF HourNext, DstStateNext, SpringsForward, FallsBack
      <4>2. StateAt(rtc_dst_dates, rtca_time') = StateAt(rtc_dst_dates, t)
        BY <1>1, <1>6, <2>3, <3>4 DEF Passed, OnDate
      <4> QED
        BY <1>5, <3>4, <4>1, <4>2
    <3> QED
      BY <3>2, <3>3, <3>4
  <2> QED
    BY <2>4, <2>5
<1>10. CASE rtc.min = 0 /\ rtc.hour = 0
  <2> DEFINE last == rtca_get_max_days(t.mon, t.year)
  <2>1. hour = 0
    BY <1>10 DEF HourNext, SpringsForward, FallsBack
  <2>2. last \in 28..31
    BY <1>2, <1>7, MaxDays
  <2>3. t.hour >= 2
    BY <1>1, <1>7, <1>10 DEF NextMinute
  <2>4. /\ t.day < last => rtc.mon = t.mon /\ rtc.day = t.day + 1
        /\ t.day >= last => rtc.day = 1 /\ (t.mon < 12 => rtc.mon = t.mon + 1)
                                        /\ (t.mon = 12 => rtc.mon = 1)
    BY <1>1, <1>7, <1>10, <2>2 DEF NextMinute
  <2>5. ~(rtc.day = 1 /\ rtc.mon = 1)
    BY <1>10, <2>1
  <2>6. /\ rtca_time'.day = rtc.day /\ rtca_time'.hour = 0 /\ rtc_dst_state' = rtc_dst_state
        /\ rtca_time'.mon = IF rtc.day = 1 THEN rtc.mon ELSE t.mon
    BY <1>1, <1>10, <2>1, <2>5
    DEF RTC_A_ISR, CacheNext, Time, DstStateNext, SpringsForward, FallsBack
  <2>7. \A d \in MonthDate : d.mon \in 1..12 /\ d.day \in 1..31
                              /\ d.day <= rtca_get_max_days(d.mon, t.year)
          => (Passed(d, rtca_time') <=> Passed(d, t))
    <3> SUFFICES ASSUME NEW d \in MonthDate, d.mon \in 1..12, d.day \in 1..31,
                        d.day <= rtca_get_max_days(d.mon, t.year)
                 PROVE  Passed(d, rtca_time') <=> Passed(d, t)
      OBVIOUS
    <3>1. CASE t.day < last
      BY <1>7, <2>2, <2>3, <2>4, <2>6, <3>1 DEF Passed
    <3>2. CASE t.day >= last
      <4>1. d.mon = t.mon => d.day <= t.day
        BY <1>7, <2>2, <3>2
      <4>2. rtca_time'.mon = t.mon + 1 /\ rtca_time'.day = 1
        BY <1>7, <2>4, <2>5, <2>6, <3>2
      <4> QED
        BY <1>7, <2>3, <2>6, <4>1, <4>2 DEF Passed
    <3> QED
      BY <1>7, <2>2, <3>1, <3>2
  <2>8. StateAt(rtc_dst_dates, rtca_time') = StateAt(rtc_dst_dates, t)
    BY <1>1, <1>3, <1>4, <1>6, <2>7
  <2>9. t.hour # 1
    BY <1>7, <2>3
  <2> QED
    BY <1>5, <2>6, <2>8, <2>9
<1> QED
  BY <1>8, <1>9, <1>10

LEMMA IsrDst ==
  ASSUME TypeOK, FreshInv, DstInv, RTC_A_ISR
  PROVE  /\ rtc_dst_dates' = SwitchDates(zone', rtca_time'.year)
         /\ \/ rtc_dst_state' = StateAt(rtc_dst_dates', rtca_time')
            \/ OnDate(rtca_time', rtc_dst_dates'[2]) /\ rtca_time'.hour = 1
<1> DEFINE newyear == rtc.min = 0 /\ HourNext(rtc.hour) = 0 /\ rtc.day = 1 /\ rtc.mon = 1
<1>1. CASE newyear
  <2>1. rtc_dst_calculate_dates(rtca_time') /\ zone' = zone
    BY <1>1 DEF RTC_A_ISR
  <2> QED
    BY <2>1 DEF rtc_dst_calculate_dates
<1>2. CASE ~newyear
  <2>1. rtc_dst_dates' = rtc_dst_dates /\ zone' = zone /\ rtca_time'.year = rtca_time.year
    BY <1>2 DEF RTC_A_ISR, CacheNext, TypeOK, RtcTypeOK, Time
  <2>2. rtc_dst_dates = SwitchDates(zone, rtca_time.year)
    BY DEF DstInv, FreshInv, RTC_A_ISR
  <2> QED
    BY <1>2, <2>1, <2>2, IsrState
<1> QED
  BY <1>1, <1>2

LEMMA StepDst == TypeOK /\ FreshInv /\ DstInv /\ [Next]_vars => DstInv'
<1> SUFFICES ASSUME TypeOK, FreshInv, DstInv, [Next]_vars, ~editing'
             PROVE  /\ rtc_dst_dates' = SwitchDates(zone', rtca_time'.year)
                    /\ \/ rtc_dst_state' = StateAt(rtc_dst_dates', rtca_time')
                       \/ OnDate(rtca_time', rtc_dst_dates'[2]) /\ rtca_time'.hour = 1
  BY DEF DstInv
<1>1. CASE RTC_A_ISR
  BY <1>1, IsrDst
<1>2. CASE EditSave
  <2>1. rtc_dst_calculate_dates(rtca_time) /\ zone' = zone
    BY <1>2 DEF EditSave
  <2>2. /\ rtca_time'.year = rtca_time.year /\ rtca_time'.mon = rtca_time.mon
        /\ rtca_time'.day = rtca_time.day /\ rtca_time'.hour = rtca_time.hour
    BY <1>2 DEF EditSave, SetTimeAndDate, TypeOK, RtcTypeOK, Time
  <2>3. StateAt(rtc_dst_dates', rtca_time') = StateAt(rtc_dst_dates', rtca_time)
    BY <2>2 DEF StateAt, rtc_dst_isDateInDST
  <2> QED
    BY <2>1, <2>2, <2>3 DEF rtc_dst_calculate_dates
<1>3. CASE UNCHANGED <<zone, rtca_time, rtc_dst_dates, rtc_dst_state, editing>>
  BY <1>3 DEF DstInv
<1> QED
  BY <1>1, <1>2, <1>3
  DEF Next, Minute, ClockEvent, StarLong, EditNextItem, EditSet, rtcVars, clockVars, vars

\* Daylight saving time is on exactly between its dates, in every zone, over
\* any number of years of hourly updates and however the clock is set; the
\* hour that comes twice may be either.
THEOREM DstFollowsDatesCorrect == Spec => []DstFollowsDates
<1>1. Init => FreshInv
  BY DEF Init, RtcInit, FreshInv
<1>2. Init => DstInv
  BY DEF Init, RtcInit, DstInv
<1>3. DstInv => DstFollowsDates
  BY DEF DstInv, DstFollowsDates, Settled
<1> QED
  BY <1>1, <1>2, <1>3, StepFresh, StepDst, TypeCorrect, PTL DEF Spec

\* The day of the week and daylight saving time are those of the date.
THEOREM DatesAreRightCorrect == Spec => []DatesAreRight
<1>1. DowIsRight /\ DstFollowsDates => DatesAreRight
  BY DEF DatesAreRight
<1> QED
  BY <1>1, DowIsRightCorrect, DstFollowsDatesCorrect, PTL
=============================================================================
