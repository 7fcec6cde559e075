------------------------------ MODULE Calendar ------------------------------
(***************************************************************************)
(* The calendar the real time clock follows, and a count of days by it     *)
(* that owes nothing to the code.                                          *)
(***************************************************************************)
EXTENDS Integers, FiniteSets

IsLeap(y) == y % 4 = 0 /\ (y % 100 # 0 \/ y % 400 = 0)

DaysIn(y, mon) ==
  CASE mon \in {4, 6, 9, 11} -> 30
    [] mon = 2 -> IF IsLeap(y) THEN 29 ELSE 28
    [] OTHER -> 31

NextDay(d) ==
  IF d.day < DaysIn(d.year, d.mon) THEN [d EXCEPT !.day = @ + 1]
  ELSE IF d.mon < 12 THEN [d EXCEPT !.day = 1, !.mon = @ + 1]
  ELSE [d EXCEPT !.day = 1, !.mon = 1, !.year = @ + 1]

\* Days since the first of January 1970.
DayNumber(d) ==
  365 * (d.year - 1970) + Cardinality({y \in 1970..d.year - 1 : IsLeap(y)}) + d.day - 1
    + <<0, 31, 59, 90, 120, 151, 181, 212, 243, 273, 304, 334>>[d.mon]
    + IF d.mon > 2 /\ IsLeap(d.year) THEN 1 ELSE 0

\* The dates the models reach, and the day after them.
IsDate(d) ==
  d.year \in 1970..2050 /\ d.mon \in 1..12 /\ d.day \in 1..DaysIn(d.year, d.mon)

AfterAll == DayNumber([year |-> 2051, mon |-> 1, day |-> 1])
=============================================================================
