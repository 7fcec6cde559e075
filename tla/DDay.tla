-------------------------------- MODULE DDay --------------------------------
(***************************************************************************)
(* modules/d_day.c: the days left until a date the user enters, or passed  *)
(* since.                                                                  *)
(***************************************************************************)
EXTENDS Calendar

CONSTANTS
  Starts,     \* dates the clock may begin at
  MaxDays,    \* bound on the days that pass
  Dday,       \* CONFIG_MOD_D_DAY_YEAR, _MONTH and _DAY
  MaxSteps    \* bound on the steps of an edit

\* The clock is from 2000 on, as get_nth_day_from_2000 is.
DDayAssumption ==
  /\ MaxDays \in Nat /\ MaxSteps \in Nat
  /\ Starts \subseteq [year : 2000..2050, mon : 1..12, day : 1..31]
  /\ \A d \in Starts : IsDate(d) /\ DayNumber(d) + MaxDays < AfterAll
  /\ Dday \in [year : 2000..2020, mon : 1..12, day : 1..31] /\ IsDate(Dday)

VARIABLES
  today,           \* of rtca_time
  passed,          \* days
  g_dday, tmp_date,
  mode,            \* "off", "on" or "edit"
  g_view_state,
  shown,           \* the days on the display, or None
  drawn,           \* the day they were drawn on
  steps

vars == <<today, passed, g_dday, tmp_date, mode, g_view_state, shown, drawn, steps>>

None == 99999
Int16(n) == ((n + 32768) % 65536) - 32768

\* Fault: no year of a new century is a leap year.
NotThe2000th(y) == y % 4 = 0 /\ y % 100 # 0

is_leap_year(y) == y % 4 = 0 /\ (y % 100 # 0 \/ y % 400 = 0)

get_number_of_days(mon, y) ==
  CASE mon \in {4, 6, 9, 11} -> 30
    [] mon = 2 -> IF is_leap_year(y) THEN 29 ELSE 28
    [] OTHER -> 31

get_number_of_days_in_year(y) == IF is_leap_year(y) THEN 366 ELSE 365

\* The sums over the years before one, and over the months of y before one.
YearsFrom2000[y \in 2000..2050] ==
  IF y = 2000 THEN 0 ELSE YearsFrom2000[y - 1] + get_number_of_days_in_year(y - 1)
MonthsBefore(y) ==
  LET sum[m \in 1..12] == IF m = 1 THEN 0 ELSE sum[m - 1] + get_number_of_days(m - 1, y)
  IN sum

get_nth_day_from_2000(d) ==
  IF d.year < 2000 THEN 0
  ELSE (YearsFrom2000[d.year] + MonthsBefore(d.year)[d.mon] + d.day) % 65536

calc_d_day(target, now) ==
  Int16(Int16(get_nth_day_from_2000(now)) - Int16(get_nth_day_from_2000(target)))

\* helpers_loop and helpers_loop_16, for a word whose largest value is most
Loop(n, lower, upper, step, most) ==
  IF step > 0 THEN (IF n \in {most, upper} THEN lower ELSE n + 1)
              ELSE (IF n \in {0, lower} THEN upper ELSE n - 1)

\* Fault: the target is compared with itself.
DrawStale(target) == shown' = calc_d_day(target, target) /\ drawn' = today

\* display_view
Draw(target) == shown' = calc_d_day(target, today) /\ drawn' = today

Init ==
  /\ today \in Starts /\ passed = 0
  /\ g_dday = Dday /\ tmp_date = Dday
  /\ mode = "off" /\ g_view_state = 0 /\ shown = None /\ drawn = today /\ steps = 0

\* Nothing is drawn.
Midnight ==
  /\ passed < MaxDays /\ passed' = passed + 1
  /\ today' = NextDay(today)
  /\ UNCHANGED <<g_dday, tmp_date, mode, g_view_state, shown, drawn, steps>>

d_day_activate ==
  /\ mode = "off" /\ mode' = "on"
  /\ g_view_state' = 0 /\ Draw(g_dday)
  /\ UNCHANGED <<today, passed, g_dday, tmp_date, steps>>

d_day_deactivate ==
  /\ mode = "on" /\ mode' = "off"
  /\ shown' = None
  /\ UNCHANGED <<today, passed, g_dday, tmp_date, g_view_state, drawn, steps>>

up_btn_pressed ==
  /\ mode = "on"
  /\ g_view_state' = (g_view_state + 1) % 2 /\ Draw(g_dday)
  /\ UNCHANGED <<today, passed, g_dday, tmp_date, mode, steps>>

star_long_pressed ==
  /\ mode = "on" /\ mode' = "edit"
  /\ tmp_date' = g_dday /\ shown' = None
  /\ UNCHANGED <<today, passed, g_dday, g_view_state, drawn, steps>>

\* edit_yy_set, edit_mm_set and edit_dd_set: only the last looks at the month.
EditSet(field, step) ==
  /\ mode = "edit" /\ steps < MaxSteps /\ steps' = steps + 1
  /\ tmp_date' =
       CASE field = "yy" -> [tmp_date EXCEPT !.year = Loop(@, 2000, 2020, step, 65535)]
         [] field = "mm" -> [tmp_date EXCEPT !.mon = Loop(@, 1, 12, step, 255)]
         [] field = "dd" ->
              [tmp_date EXCEPT !.day =
                 Loop(@, 1, get_number_of_days(tmp_date.mon, tmp_date.year), step, 255)]
  /\ UNCHANGED <<today, passed, g_dday, mode, g_view_state, shown, drawn>>

edit_save ==
  /\ mode = "edit" /\ mode' = "on"
  /\ g_dday' = tmp_date /\ Draw(tmp_date)
  /\ UNCHANGED <<today, passed, tmp_date, g_view_state, steps>>

Next ==
  \/ Midnight \/ d_day_activate \/ d_day_deactivate \/ up_btn_pressed
  \/ star_long_pressed \/ edit_save
  \/ \E field \in {"yy", "mm", "dd"}, step \in {-1, 1} : EditSet(field, step)

Spec == Init /\ [][Next]_vars

-----------------------------------------------------------------------------
(* Properties.                                                             *)

TypeOK ==
  /\ mode \in {"off", "on", "edit"} /\ g_view_state \in {0, 1}
  /\ g_dday.year \in 2000..2020 /\ g_dday.mon \in 1..12 /\ g_dday.day \in 1..255
  /\ shown = None \/ shown = Int16(shown)

(***************************************************************************)
(* What is displayed is the number of days since the day, or before it if  *)
(* negative, as of the day it was drawn on (no message draws it again),    *)
(* over leap days and years.  A day edited for one month and kept in a     *)
(* shorter one counts into the next.                                       *)
(***************************************************************************)
ShowsDays == mode = "on" => shown = DayNumber(drawn) - DayNumber(g_dday)
=============================================================================
