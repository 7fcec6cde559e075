------------------------------- MODULE MCApps -------------------------------
(* Instances of Apps for TLC: the modules of the default configuration and *)
(* one without an activate_fn, in two orders of a directory.               *)
EXTENDS Apps

MCApp == Known \cup {"PASSIVE"}
MCOrders ==
  {<<"ALARM", "ALTITUDE", "BATTERY", "CLOCK", "D_DAY", "PASSIVE", "RFBSL",
     "STOPWATCH", "TEMPERATURE">>,
   <<"CLOCK", "STOPWATCH", "ALTITUDE", "D_DAY", "TEMPERATURE", "RFBSL",
     "BATTERY", "ALARM", "PASSIVE">>}
MCNullActivate == {"PASSIVE"}
MCSwitchable == {"ALTITUDE"}
=============================================================================
