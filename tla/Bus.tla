--------------------------------- MODULE Bus ---------------------------------
(***************************************************************************)
(* What the message bus of core/openchronos.h promises: registrations kept *)
(* in the order they were made, all those of a callback dropped together,  *)
(* and a message handed once to each registration that listens for one of  *)
(* its events.                                                             *)
(***************************************************************************)
EXTENDS Integers, Sequences, FiniteSets

CONSTANTS
  Callback,  \* the listeners' functions
  Event,     \* bits of enum sys_message
  Mask,      \* the events each of them is registered for, always the same
  MaxNodes   \* bound: registrations at a time

VARIABLES
  regs,      \* registrations, oldest first
  heard      \* whom a message was just handed to, by place

vars == <<regs, heard>>

Init == regs = <<>> /\ heard = <<>>

Register(f, events) ==
  /\ Len(regs) < MaxNodes
  /\ regs' = Append(regs, [fn |-> f, listens |-> events])
  /\ heard' = <<>>

\* s without its elements at the places gone, those behind them moved up.
Without(s, gone) ==
  [k \in 1..Len(s) - Cardinality(gone) |->
     s[CHOOSE i \in DOMAIN s \ gone : i = k + Cardinality({j \in gone : j < i})]]

Unregister(f) ==
  /\ regs' = Without(regs, {i \in DOMAIN regs : regs[i].fn = f})
  /\ heard' = <<>>

Dispatch(msg) ==
  /\ heard' = [i \in {i \in DOMAIN regs : regs[i].listens \cap msg # {}} |-> regs[i].fn]
  /\ UNCHANGED regs

Next ==
  \/ \E f \in Callback : Register(f, Mask[f])
  \/ \E f \in Callback : Unregister(f)
  \/ \E msg \in SUBSET Event : Dispatch(msg)

Spec == Init /\ [][Next]_vars
=============================================================================
