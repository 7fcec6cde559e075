---------------------------- MODULE MCEventLoop ----------------------------
(* Instances of EventLoop for TLC.  RTC_A_ISR appends the minute alone, or *)
(* the minute and the hour it ends together.                               *)
EXTENDS EventLoop

MCRtcaEvent   == {"MINUTE", "HOUR"}
MCRtcaBurst   == {{"MINUTE"}, {"MINUTE", "HOUR"}}
MCTimer0Event == {"20HZ"}
=============================================================================
