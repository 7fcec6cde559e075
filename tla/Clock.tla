-------------------------------- MODULE Clock --------------------------------
(***************************************************************************)
(* modules/clock.c on the real time clock, while it is shown: its listener *)
(* draws what the events of the RTC say has changed, and its edit mode     *)
(* stops the RTC, edits the cache of its registers in place and writes     *)
(* them back.                                                              *)
(***************************************************************************)
EXTENDS Rtc

CONSTANT EditFrom   \* bound: months, days and hours edit mode is entered at

VARIABLES
  editing, pos,     \* menu_editmode
  shown,            \* the fields on the first screen
  real              \* history: every date that was set exists

clockVars == <<editing, pos, shown, real>>
vars == <<rtcVars, clockVars>>

\* What the first screen shows of time t, all of it drawn.
Drawn(t) == [mon |-> t.mon, day |-> t.day, hour |-> t.hour, min |-> t.min]

Init ==
  /\ RtcInit
  /\ editing = FALSE /\ pos = 0 /\ shown = Drawn(rtca_time) /\ real = TRUE

\* Fault: only the greatest unit that changed is drawn.
DrawsOneField ==
  /\ rtca_last_event # {} /\ rtca_last_event' = {}
  /\ shown' = IF "MONTH" \in rtca_last_event
              THEN [shown EXCEPT !.mon = rtca_time.mon]
              ELSE IF "DAY" \in rtca_last_event
              THEN [shown EXCEPT !.day = rtca_time.day]
              ELSE IF "HOUR" \in rtca_last_event
              THEN [shown EXCEPT !.hour = rtca_time.hour]
              ELSE [shown EXCEPT !.min = rtca_time.min]
  /\ UNCHANGED <<zone, rtc, hold, ifg, rtca_time, rtc_dst_dates,
                 rtc_dst_state, editing, pos, real>>

\* The loop broadcasts the events; clock_event.
ClockEvent ==
  /\ rtca_last_event # {} /\ rtca_last_event' = {}
  /\ shown' = [mon  |-> IF "MONTH" \in rtca_last_event THEN rtca_time.mon
                        ELSE shown.mon,
               day  |-> IF "DAY" \in rtca_last_event THEN rtca_time.day
                        ELSE shown.day,
               hour |-> IF "HOUR" \in rtca_last_event THEN rtca_time.hour
                        ELSE shown.hour,
               min  |-> IF "MINUTE" \in rtca_last_event THEN rtca_time.min
                        ELSE shown.min]
  /\ UNCHANGED <<zone, rtc, hold, ifg, rtca_time, rtc_dst_dates,
                 rtc_dst_state, editing, pos, real>>

-----------------------------------------------------------------------------
(* Edit mode.                                                              *)

\* star_long_pressed
StarLong ==
  /\ ~editing /\ ~ifg /\ real
  /\ rtca_time.min = 0
  /\ <<rtca_time.mon, rtca_time.day, rtca_time.hour>> \in EditFrom
  /\ hold' = TRUE /\ editing' = TRUE /\ pos' = 0
  /\ UNCHANGED <<zone, rtc, ifg, rtca_time, rtc_dst_dates, rtc_dst_state,
                 rtca_last_event, shown, real>>

EditNextItem ==
  /\ editing /\ pos' = (pos + 1) % 5
  /\ UNCHANGED <<rtcVars, editing, shown, real>>

\* Fault: the value is compared after the limit was passed.
LoopsLate(value, lower, upper, step) ==
  IF step > 0 THEN IF value = 255 THEN lower
                   ELSE IF value > upper THEN lower ELSE value + 1
  ELSE IF value = 0 THEN upper
       ELSE IF value < lower THEN upper ELSE value - 1

helpers_loop(value, lower, upper, step) ==
  IF step > 0 THEN IF value \in {255, upper} THEN lower ELSE value + 1
              ELSE IF value \in {0, lower} THEN upper ELSE value - 1

\* The set callback of the item at pos.
Edited(t, step) ==
  CASE pos = 0 -> [t EXCEPT !.year = 7 * 256 +
                     helpers_loop(@ % 256, FirstYear % 256, LastYear % 256, step)]
    [] pos = 1 -> [t EXCEPT !.mon = helpers_loop(@, 1, 12, step)]
    [] pos = 2 -> [t EXCEPT !.day = helpers_loop(@, 1,
                     rtca_get_max_days(t.mon, t.year), step)]
    [] pos = 3 -> [t EXCEPT !.hour = helpers_loop(@, 0, Hours - 1, step)]
    [] pos = 4 -> [t EXCEPT !.min = helpers_loop(@, 0, Minutes - 1, step)]

\* Each callback draws the field it sets; the year is on the second screen.
\* Bound: a day beyond the limit of its month is raised to 32 at most.
EditSet(step) ==
  /\ editing
  /\ pos = 2 /\ step > 0 => rtca_time.day <= 31
  /\ rtca_time' = Edited(rtca_time, step)
  /\ shown' = [shown EXCEPT
       !.mon  = IF pos = 1 THEN rtca_time'.mon ELSE @,
       !.day  = IF pos = 2 THEN rtca_time'.day ELSE @,
       !.hour = IF pos = 3 THEN rtca_time'.hour ELSE @,
       !.min  = IF pos = 4 THEN rtca_time'.min ELSE @]
  /\ UNCHANGED <<zone, rtc, hold, ifg, rtc_dst_dates, rtc_dst_state,
                 rtca_last_event, editing, pos, real>>

\* rtca_set_time and rtca_set_date
SetTimeAndDate(t) ==
  /\ rtca_time' = [t EXCEPT !.dow = DowOf(t)]
  /\ rtc' = rtca_time'

\* edit_save
EditSave ==
  /\ editing
  /\ SetTimeAndDate(rtca_time)
  /\ rtc_dst_calculate_dates(rtca_time)
  /\ hold' = FALSE /\ editing' = FALSE
  /\ real' = (rtca_time.day <= rtca_get_max_days(rtca_time.mon, rtca_time.year))
  /\ UNCHANGED <<zone, ifg, rtca_last_event, pos, shown>>

\* What a date that does not exist becomes is left to the device: the model
\* ends there.  Bound: the loop broadcasts a new hour before the next minute.
Next ==
  \/ real /\ "HOUR" \notin rtca_last_event /\ Minute /\ UNCHANGED clockVars
  \/ RTC_A_ISR /\ UNCHANGED clockVars
  \/ ClockEvent \/ StarLong \/ EditNextItem
  \/ \E step \in {1, -1} : EditSet(step)
  \/ EditSave

Spec == Init /\ [][Next]_vars

-----------------------------------------------------------------------------
(* Properties.                                                             *)

TypeOK ==
  /\ RtcTypeOK
  /\ editing \in BOOLEAN /\ pos \in 0..4 /\ real \in BOOLEAN
  /\ shown \in [mon : 1..12, day : 1..32, hour : 0..Hours - 1,
                min : 0..Minutes - 1]

Settled == ~ifg /\ ~editing

(***************************************************************************)
(* drivers/rtca.h:50-56: rtca_time is a "cache of" the registers.  The     *)
(* handler copies a register only when the one below it came round, the    *)
(* hour may have been moved meanwhile, and edit mode writes in the cache:  *)
(* whenever the clock runs and the handler is done, the two are equal.     *)
(***************************************************************************)
CacheIsFresh == Settled => rtca_time = rtc

\* Days since the beginning of 2000, counted.
DayNumber(t) ==
  365 * (t.year - 2000)
  + Cardinality({y \in 2000..t.year - 1 : IsLeapYear(y)})
  + DaysBefore[t.mon] + t.day
  + (IF IsLeapYear(t.year) /\ t.mon > 2 THEN 1 ELSE 0)

\* 1 January 2012 was a Sunday.
Weekday(t) ==
  LET epoch == [year |-> 2012, mon |-> 1, day |-> 1]
  IN (DayNumber(t) - DayNumber(epoch)) % 7

Exists(t) == t.day <= rtca_get_max_days(t.mon, t.year)

\* tools/update_rtca_now.sh:26-31: the watch starts with what `date` printed
\* when it was built.  Not on a Sunday, which that script writes as day 7.
ASSUME CompiledAssumption ==
  \A t \in Compiled : Exists(t) /\ t.dow = Weekday(t)

(***************************************************************************)
(* The day of the week that is computed when a date is set, from a table   *)
(* and in eight bits, and the one the RTC counts on are the same: two days *)
(* lie as far apart in the week as in the calendar.                        *)
(***************************************************************************)
DowIsRight == real => rtc.dow = Weekday(rtc)

(***************************************************************************)
(* Daylight saving time is on exactly between its dates, in the year of    *)
(* the clock: however the clock is set, and over any number of years of    *)
(* hourly updates.  The hour that comes twice may be either.               *)
(***************************************************************************)
DstFollowsDates ==
  Settled /\ real =>
    /\ rtc_dst_dates = SwitchDates(zone, rtca_time.year)
    /\ \/ rtc_dst_state = StateAt(rtc_dst_dates, rtca_time)
       \/ OnDate(rtca_time, rtc_dst_dates[2]) /\ rtca_time.hour = 1

(***************************************************************************)
(* The hour is put back once: a clock that is not edited goes back only    *)
(* when summer time ends in the same step.                                 *)
(***************************************************************************)
FallsBackOnce ==
  [][~editing /\ rtc.day = rtc'.day /\ rtc'.hour < rtc.hour =>
       rtc_dst_state = "DST" /\ rtc_dst_state' = "ST"]_vars

(***************************************************************************)
(* When the events of the RTC have been broadcast, the screen shows the    *)
(* time of the cache, although each event redraws its own field only and   *)
(* daylight saving time, edit mode and late broadcasts come in between.    *)
(***************************************************************************)
ShownIsCurrent == ~ifg /\ rtca_last_event = {} => shown = Drawn(rtca_time)

\* The day of the week and daylight saving time are those of the date.
DatesAreRight == DowIsRight /\ DstFollowsDates

\* What the wearer reads is what the RTC counts: registers, cache and screen
\* agree whenever no event is on its way and the clock is not edited.
ScreenFollowsClock == CacheIsFresh /\ ShownIsCurrent
=============================================================================
