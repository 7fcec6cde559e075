------------------------------- MODULE MCModules ----------------------------
(* An instance for TLC of Modules: three listeners and nodes, three screens, *)
(* a stopwatch of 40 ticks, and the days and seconds around leap days and    *)
(* the turn of a year.                                                       *)
EXTENDS Modules

MCMask == [clock |-> {"MINUTE"}, otp |-> {"SECOND"}, as |-> {"MINUTE", "SECOND"}]
MCCallback  == DOMAIN MCMask
MCNode      == 1..3
MCNoScreens == <<>>
MCBlock     == 1..5

MCEntered == {<<10, 3>>, <<11, 1>>, <<9, 0>>}

Date(y, m, d) == [year |-> y, mon |-> m, day |-> d]

MCDDayStarts ==
  {Date(2000, 2, 27), Date(2015, 12, 30), Date(2016, 2, 27), Date(2017, 2, 27)}
MCDday == Date(2016, 2, 29)

\* The last minute of a day.
Night(y, m, d, s) ==
  [year |-> y, mon |-> m, day |-> d, hour |-> 23, min |-> 59, sec |-> s]

MCOtpStarts == {Night(2015, 12, 31, 50), Night(2016, 2, 28, 45), Night(2017, 2, 28, 58)}
MCOffsets   == {-5, 9}
=============================================================================
