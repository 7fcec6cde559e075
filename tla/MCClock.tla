------------------------------- MODULE MCClock -------------------------------
(* Instances of Clock for TLC: a leap year and the one before it, a zone   *)
(* north and one south of the equator, and edit mode entered on a leap day *)
(* and at the end of a year: every date can be set from either.            *)
EXTENDS Clock

MCCompiled ==
  {[year |-> 2015, mon |-> 1, day |-> 1, dow |-> 4, hour |-> 0, min |-> 0]}
MCEditFrom == {<<2, 29, 5>>, <<12, 31, 11>>}
=============================================================================
