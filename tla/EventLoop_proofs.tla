-------------------------- MODULE EventLoop_proofs --------------------------
(***************************************************************************)
(* Theorems about EventLoop, for every set of event bits, buttons and any  *)
(* number of delays.                                                       *)
(***************************************************************************)
EXTENDS EventLoop, TLAPS

\* An event is pending when it is in one of the four words.
LEMMA InPending == \A e : e \in Pending <=> \E s \in Source : e \in flag[s]
BY DEF Pending

LEMMA InPendingNext ==
  \A e : e \in Pending' <=> \E s \in Source : e \in flag'[s]
BY DEF Pending

\* The words are apart: a sensor has one bit, and no other word has it.
LEMMA BitsApart ==
  /\ Bits[1] = RtcaEvent /\ Bits[2] = Timer0Event
  /\ Bits[3] = {AsInt} /\ Bits[4] = {PsInt}
  /\ \A s \in Source : Bits[s] \subseteq Event
  /\ AsInt \notin Bits[1] \cup Bits[2] \cup Bits[4]
  /\ PsInt \notin Bits[1] \cup Bits[2] \cup Bits[3]
BY EventAssumption DEF Bits, Source, Event

-----------------------------------------------------------------------------
(* Types.                                                                  *)

\* What an interrupt handler does to the words keeps their types.
LEMMA PostType ==
  ASSUME TypeOK, NEW s \in Source, NEW E \in SUBSET Bits[s], Post(s, E)
  PROVE  /\ flag' \in [Source -> SUBSET Event]
         /\ \A t \in Source : flag'[t] \subseteq Bits[t]
         /\ owed' \subseteq Event
BY BitsApart DEF TypeOK, Post

LEMMA WakeType ==
  ASSUME TypeOK, NEW news \in SUBSET Event, Wake(news)
  PROVE  /\ pc' \in PC /\ src' \in Source /\ msg' \subseteq Event
         /\ ndelay' \in 0..MaxDelay /\ due' \subseteq Event
<1>1. Pending \subseteq Event
  BY InPending DEF TypeOK
<1>2. pc' \in PC
  BY DEF TypeOK, Wake, PC
<1>3. src' \in Source /\ msg' \subseteq Event /\ ndelay' \in 0..MaxDelay
  BY EventAssumption DEF TypeOK, Wake, Source
<1>4. due' \subseteq Event
  BY <1>1 DEF TypeOK, Wake
<1>5. QED
  BY <1>2, <1>3, <1>4

LEMMA NextSourceType ==
  ASSUME TypeOK, NextSource
  PROVE  pc' \in PC /\ src' \in Source
BY DEF TypeOK, NextSource, Goto, PC, Source

LEMMA InitType == Init => TypeOK
<1> SUFFICES ASSUME Init PROVE TypeOK
  OBVIOUS
<1>1. flag \in [Source -> SUBSET Event] /\ \A s \in Source : flag[s] \subseteq Bits[s]
  BY DEF Init
<1>2. src \in Source /\ pc \in PC
  BY DEF Init, Source, PC
<1>3. ndelay \in 0..MaxDelay
  BY EventAssumption DEF Init
<1>4. /\ btns = {} /\ msg = {} /\ owed = {} /\ due = {} /\ served = {}
      /\ armed \in BOOLEAN /\ finished \in BOOLEAN
      /\ ret \in {"callbacks", "handler"}
  BY DEF Init
<1>5. QED
  BY <1>1, <1>2, <1>3, <1>4 DEF TypeOK

LEMMA InterruptType == TypeOK /\ Interrupt => TypeOK'
<1> SUFFICES ASSUME TypeOK, Interrupt PROVE TypeOK'
  OBVIOUS
<1>1. ASSUME NEW E \in RtcaBurst, RtcaISR(E) PROVE TypeOK'
  <2>1. 1 \in Source /\ E \in SUBSET Bits[1] /\ E \in SUBSET Event
    BY BitsApart, EventAssumption DEF Source, Event
  <2>2. QED
    BY <1>1, <2>1, PostType, WakeType DEF RtcaISR, TypeOK
<1>2. ASSUME NEW e \in Timer0Event, Timer0ISR(e) PROVE TypeOK'
  <2>1. 2 \in Source /\ {e} \in SUBSET Bits[2] /\ {e} \in SUBSET Event
    BY BitsApart DEF Source, Event
  <2>2. QED
    BY <1>2, <2>1, PostType, WakeType DEF Timer0ISR, TypeOK
<1>3. CASE DelayISR
  BY <1>3, WakeType DEF DelayISR, TypeOK
<1>4. ASSUME NEW b \in Button, ButtonISR(b) PROVE TypeOK'
  BY <1>4, WakeType DEF ButtonISR, TypeOK
<1>5. ASSUME NEW s \in {3, 4}, SensorISR(s) PROVE TypeOK'
  <2>1. s \in Source
    BY DEF Source
  <2>2. QED
    BY <1>5, <2>1, PostType DEF SensorISR, Stay, loopVars, TypeOK
<1>6. QED
  BY <1>1, <1>2, <1>3, <1>4, <1>5 DEF Interrupt

LEMMA MainType == TypeOK /\ Main => TypeOK'
<1> SUFFICES ASSUME TypeOK, Main PROVE TypeOK'
  OBVIOUS
<1> USE DEF TypeOK, PC, Goto, delayVars, history
<1>1. CASE Sleep
  BY <1>1 DEF Sleep
<1>2. CASE PollTest
  BY <1>2, NextSourceType DEF PollTest
<1>3. CASE PollRead
  BY <1>3 DEF PollRead
<1>4. CASE PollClear
  BY <1>4, NextSourceType DEF PollClear
<1>5. CASE Broadcast
  <2>1. Pending \subseteq Event
    BY InPending
  <2>2. QED
    BY <1>5, <2>1 DEF Broadcast
<1>6. CASE ListenersReturn
  BY <1>6 DEF ListenersReturn
<1>7. CASE ReadButtons
  BY <1>7 DEF ReadButtons
<1>8. CASE HandlerReturns
  BY <1>8 DEF HandlerReturns
<1>9. CASE ClearButtons
  BY <1>9 DEF ClearButtons
<1>10. CASE StartDelay
  <2>1. ndelay' \in 0..MaxDelay
    BY <1>10, EventAssumption DEF StartDelay
  <2>2. pc' \in PC /\ ret' \in {"callbacks", "handler"}
    BY <1>10 DEF StartDelay
  <2>3. QED
    BY <1>10, <2>1, <2>2 DEF StartDelay
<1>11. CASE DelaySleep
  BY <1>11 DEF DelaySleep
<1>12. CASE DelayCheck
  BY <1>12 DEF DelayCheck
<1>13. QED
  BY <1>1, <1>2, <1>3, <1>4, <1>5, <1>6, <1>7, <1>8, <1>9, <1>10, <1>11,
     <1>12 DEF Main

\* The state of the loop and of the drivers always has its type.
THEOREM TypeCorrect == Spec => []TypeOK
<1>1. TypeOK /\ UNCHANGED vars => TypeOK'
  BY DEF TypeOK, vars, loopVars, delayVars, history
<1>2. TypeOK /\ [Next]_vars => TypeOK'
  BY <1>1, MainType, InterruptType DEF Next
<1>3. QED
  BY InitType, <1>2, PTL DEF Spec

-----------------------------------------------------------------------------
(* What the polling keeps.                                                 *)

\* An event that was due at the wake-up is in the copy or in a word that is
\* still to be read in this pass.
DueInv ==
  /\ pc \in {"test", "read"} =>
       \A e \in due : e \in msg \/ \E s \in Source : s >= src /\ e \in flag[s]
  /\ pc = "clear" =>
       \A e \in due : e \in msg \/ \E s \in Source : s > src /\ e \in flag[s]
  /\ pc = "dispatch" => due \subseteq msg

\* A word that is read is set, so the bit of a sensor is copied before it is
\* cleared.
CopyInv ==
  /\ pc = "read" => flag[src] # {}
  /\ pc = "clear" /\ src \in {3, 4} => Bits[src] \subseteq msg

\* Nothing is pending or copied that is not owed.
OwedInv == msg \subseteq owed /\ Pending \subseteq owed

IInv == DueInv /\ CopyInv /\ OwedInv /\ SensorNotLost

LEMMA InitIInv == Init => IInv
<1> SUFFICES ASSUME Init PROVE IInv
  OBVIOUS
<1>1. Pending = {}
  BY InPending DEF Init
<1>2. QED
  BY <1>1 DEF Init, IInv, DueInv, CopyInv, OwedInv, SensorNotLost

\* A handler that posts E, if anything, and perhaps wakes the loop.
LEMMA HandlerIInv ==
  ASSUME TypeOK, IInv, NEW E,
         \/ E = {} /\ flag' = flag /\ owed' = owed
         \/ \E s \in Source : E \subseteq Bits[s] /\ Post(s, E),
         Wake(E) \/ Stay
  PROVE  IInv'
<1>1. /\ \A s \in Source : flag[s] \subseteq flag'[s]
      /\ owed' = owed \cup E
  BY DEF TypeOK, Post
<1>2. \A e : e \in Pending' <=> e \in Pending \cup E
  <2>1. CASE E = {} /\ flag' = flag /\ owed' = owed
    BY <2>1, InPending, InPendingNext
  <2>2. ASSUME NEW s \in Source, Post(s, E)
        PROVE  \A e : e \in Pending' <=> e \in Pending \cup E
    <3>1. \A t \in Source : flag'[t] = IF t = s THEN flag[t] \cup E ELSE flag[t]
      BY <2>2 DEF Post, TypeOK
    <3>2. QED
      BY <3>1, InPending, InPendingNext
  <2>3. QED
    BY <2>1, <2>2
<1>3. \/ pc = "lpm3" /\ pc' = "test" /\ src' = 1 /\ due' = Pending \cup E
      \/ /\ pc' \in {"dlpm", "dcheck"} /\ pc' # pc
      \/ pc' = pc /\ pc # "lpm3" /\ src' = src /\ due' = due
      \/ pc' = pc /\ pc = "lpm3"
  BY DEF Wake, Stay, loopVars
<1>4. msg' = msg
  BY DEF Wake, Stay, loopVars
<1>5. DueInv'
  <2>1. CASE pc = "lpm3" /\ pc' = "test" /\ src' = 1 /\ due' = Pending \cup E
    <3>1. \A s \in Source : s >= 1
      BY DEF Source
    <3>2. \A e \in due' : \E s \in Source : s >= src' /\ e \in flag'[s]
      BY <2>1, <3>1, <1>2, InPendingNext
    <3>3. QED
      BY <2>1, <3>2 DEF DueInv
  <2>2. CASE pc' = pc /\ pc # "lpm3" /\ src' = src /\ due' = due
    BY <2>2, <1>1, <1>4 DEF IInv, DueInv
  <2>3. QED
    BY <1>3, <2>1, <2>2 DEF DueInv
<1>6. CopyInv'
  BY <1>1, <1>3, <1>4 DEF IInv, CopyInv, TypeOK
<1>7. OwedInv' /\ SensorNotLost'
  BY <1>1, <1>2, <1>4 DEF IInv, OwedInv, SensorNotLost
<1>8. QED
  BY <1>5, <1>6, <1>7 DEF IInv

LEMMA InterruptIInv == TypeOK /\ IInv /\ Interrupt => IInv'
<1> SUFFICES ASSUME TypeOK, IInv, Interrupt PROVE IInv'
  OBVIOUS
<1>1. ASSUME NEW E \in RtcaBurst, RtcaISR(E) PROVE IInv'
  <2>1. 1 \in Source /\ E \subseteq Bits[1]
    BY BitsApart, EventAssumption DEF Source
  <2>2. QED
    BY <1>1, <2>1, HandlerIInv DEF RtcaISR
<1>2. ASSUME NEW e \in Timer0Event, Timer0ISR(e) PROVE IInv'
  <2>1. 2 \in Source /\ {e} \subseteq Bits[2]
    BY BitsApart DEF Source
  <2>2. QED
    BY <1>2, <2>1, HandlerIInv DEF Timer0ISR
<1>3. CASE DelayISR
  BY <1>3, HandlerIInv DEF DelayISR
<1>4. ASSUME NEW b \in Button, ButtonISR(b) PROVE IInv'
  BY <1>4, HandlerIInv DEF ButtonISR
<1>5. ASSUME NEW s \in {3, 4}, SensorISR(s) PROVE IInv'
  <2>1. s \in Source
    BY DEF Source
  <2>2. QED
    BY <1>5, <2>1, HandlerIInv DEF SensorISR
<1>6. QED
  BY <1>1, <1>2, <1>3, <1>4, <1>5 DEF Interrupt

\* A step that leaves the words, the copy and their histories alone.
LEMMA QuietIInv ==
  ASSUME IInv, UNCHANGED <<flag, src, msg, owed, due>>,
         pc' \notin {"test", "read", "clear", "dispatch"}
  PROVE  IInv'
<1>1. Pending' = Pending
  BY DEF Pending
<1>2. QED
  BY <1>1 DEF IInv, DueInv, CopyInv, OwedInv, SensorNotLost

LEMMA PollTestIInv == TypeOK /\ IInv /\ PollTest => IInv'
<1> SUFFICES ASSUME TypeOK, IInv, PollTest PROVE IInv'
  OBVIOUS
<1>1. Pending' = Pending /\ UNCHANGED <<flag, msg, due, owed>>
  BY DEF Pending, PollTest, history
<1>2. DueInv' /\ CopyInv'
  <2>1. CASE flag[src] # {}
    BY <1>1, <2>1 DEF PollTest, Goto, IInv, DueInv, CopyInv
  <2>2. CASE flag[src] = {} /\ src < 4
    <3>1. src' = src + 1 /\ pc' = "test" /\ pc = "test"
      BY <2>2 DEF PollTest, NextSource, Goto
    <3>2. \A s \in Source : s >= src /\ s # src => s >= src'
      BY <3>1 DEF Source, TypeOK
    <3>3. QED
      BY <1>1, <2>2, <3>1, <3>2 DEF IInv, DueInv, CopyInv
  <2>3. CASE flag[src] = {} /\ ~(src < 4)
    <3>1. pc' = "dispatch" /\ pc = "test"
      BY <2>3 DEF PollTest, NextSource, Goto
    <3>2. \A s \in Source : s >= src => s = src
      BY <2>3 DEF Source, TypeOK
    <3>3. QED
      BY <1>1, <2>3, <3>1, <3>2 DEF IInv, DueInv, CopyInv
  <2>4. QED
    BY <2>1, <2>2, <2>3
<1>3. QED
  BY <1>1, <1>2 DEF IInv, OwedInv, SensorNotLost

LEMMA PollReadIInv == TypeOK /\ IInv /\ PollRead => IInv'
<1> SUFFICES ASSUME TypeOK, IInv, PollRead PROVE IInv'
  OBVIOUS
<1>1. /\ Pending' = Pending /\ UNCHANGED <<flag, src, due, owed>>
      /\ pc = "read" /\ pc' = "clear" /\ msg' = msg \cup flag[src]
  BY DEF Pending, PollRead, Goto, history
<1>2. flag[src] \subseteq Pending
  BY InPending DEF TypeOK
<1>3. DueInv'
  <2>1. \A s \in Source : s >= src => s = src \/ s > src
    BY DEF Source, TypeOK
  <2>2. QED
    BY <1>1, <2>1 DEF IInv, DueInv
<1>4. CopyInv'
  <2>1. flag[src] # {} /\ flag[src] \subseteq Bits[src]
    BY <1>1 DEF IInv, CopyInv, TypeOK
  <2>2. src = 3 => Bits[src] \subseteq msg'
    BY <1>1, <2>1 DEF Bits
  <2>3. src = 4 => Bits[src] \subseteq msg'
    BY <1>1, <2>1 DEF Bits
  <2>4. QED
    BY <1>1, <2>2, <2>3 DEF CopyInv
<1>5. QED
  BY <1>1, <1>2, <1>3, <1>4 DEF IInv, OwedInv, SensorNotLost

LEMMA PollClearIInv == TypeOK /\ IInv /\ PollClear => IInv'
<1> SUFFICES ASSUME TypeOK, IInv, PollClear PROVE IInv'
  OBVIOUS
<1>1. /\ pc = "clear" /\ UNCHANGED <<msg, due, owed>>
      /\ \A s \in Source : flag'[s] = IF s = src THEN {} ELSE flag[s]
  BY DEF PollClear, history, TypeOK
<1>2. \A e \in Pending : e \in Pending' \/ e \in flag[src]
  BY <1>1, InPending, InPendingNext
<1>3. \A e \in Pending' : e \in Pending
  BY <1>1, InPending, InPendingNext
<1>4. DueInv' /\ CopyInv'
  <2>1. CASE src < 4
    <3>1. src' = src + 1 /\ pc' = "test"
      BY <2>1 DEF PollClear, NextSource, Goto
    <3>2. \A s \in Source : s > src => s >= src' /\ s # src
      BY <3>1 DEF Source, TypeOK
    <3>3. QED
      BY <1>1, <3>1, <3>2 DEF IInv, DueInv, CopyInv
  <2>2. CASE ~(src < 4)
    <3>1. pc' = "dispatch"
      BY <2>2 DEF PollClear, NextSource, Goto
    <3>2. \A s \in Source : ~(s > src)
      BY <2>2 DEF Source, TypeOK
    <3>3. QED
      BY <1>1, <3>1, <3>2 DEF IInv, DueInv, CopyInv
  <2>3. QED
    BY <2>1, <2>2
<1>5. SensorNotLost'
  <2>1. flag[src] \cap {AsInt, PsInt} \subseteq msg
    <3>1. CASE src \in {3, 4}
      BY <1>1, <3>1 DEF IInv, CopyInv, TypeOK
    <3>2. CASE src \in {1, 2}
      BY <3>2, BitsApart DEF TypeOK
    <3>3. QED
      BY <3>1, <3>2 DEF TypeOK, Source
  <2>2. QED
    BY <1>1, <1>2, <2>1 DEF IInv, SensorNotLost
<1>6. QED
  BY <1>1, <1>3, <1>4, <1>5 DEF IInv, OwedInv

LEMMA BroadcastIInv == TypeOK /\ IInv /\ Broadcast => IInv'
<1> SUFFICES ASSUME TypeOK, IInv, Broadcast PROVE IInv'
  OBVIOUS
<1>1. Pending' = Pending /\ msg' = {} /\ owed' = (owed \ msg) \cup Pending
  BY DEF Pending, Broadcast
<1>2. DueInv' /\ CopyInv'
  BY DEF Broadcast, Goto, DueInv, CopyInv
<1>3. QED
  BY <1>1, <1>2 DEF IInv, OwedInv, SensorNotLost

LEMMA MainIInv == TypeOK /\ IInv /\ Main => IInv'
<1> SUFFICES ASSUME TypeOK, IInv, Main PROVE IInv'
  OBVIOUS
<1> USE QuietIInv DEF Goto, delayVars, history
<1>1. CASE Sleep
  BY <1>1 DEF Sleep
<1>2. CASE ListenersReturn
  BY <1>2 DEF ListenersReturn
<1>3. CASE ReadButtons
  BY <1>3 DEF ReadButtons
<1>4. CASE HandlerReturns
  BY <1>4 DEF HandlerReturns
<1>5. CASE ClearButtons
  BY <1>5 DEF ClearButtons
<1>6. CASE StartDelay
  BY <1>6 DEF StartDelay
<1>7. CASE DelaySleep
  BY <1>7 DEF DelaySleep
<1>8. CASE DelayCheck
  BY <1>8 DEF DelayCheck, TypeOK
<1>9. QED
  BY <1>1, <1>2, <1>3, <1>4, <1>5, <1>6, <1>7, <1>8, PollTestIInv,
     PollReadIInv, PollClearIInv, BroadcastIInv DEF Main

\* The invariant holds of every state of the loop.
THEOREM Inductive == Spec => []IInv
<1>1. IInv /\ UNCHANGED vars => IInv'
  <2> SUFFICES ASSUME IInv, UNCHANGED vars PROVE IInv'
    OBVIOUS
  <2>1. Pending' = Pending
    BY DEF Pending, vars
  <2>2. QED
    BY <2>1 DEF vars, loopVars, history, IInv, DueInv, CopyInv, OwedInv,
       SensorNotLost
<1>2. TypeOK /\ IInv /\ [Next]_vars => IInv'
  BY <1>1, MainIInv, InterruptIInv DEF Next
<1>3. QED
  BY InitIInv, <1>2, TypeCorrect, PTL DEF Spec

\* Whatever is due when the loop wakes is broadcast in that very pass.
THEOREM DueIsBroadcastCorrect == Spec => []DueIsBroadcast
<1>1. IInv => DueIsBroadcast
  BY DEF IInv, DueInv, DueIsBroadcast
<1>2. QED
  BY <1>1, Inductive, PTL

\* No event is broadcast that was not posted since the last broadcast of it.
THEOREM NoReplayCorrect == Spec => []NoReplay
<1>1. IInv => NoReplay
  BY DEF IInv, OwedInv, NoReplay
<1>2. QED
  BY <1>1, Inductive, PTL

\* What each pass broadcasts is what is due, once, for any sets of event bits.
THEOREM BroadcastIsDueCorrect == Spec => []BroadcastIsDue
<1>1. DueIsBroadcast /\ NoReplay => BroadcastIsDue
  BY DEF BroadcastIsDue
<1>2. QED
  BY <1>1, DueIsBroadcastCorrect, NoReplayCorrect, PTL

\* No interrupt of a sensor is lost to the copy and clear of its word.
THEOREM SensorNotLostCorrect == Spec => []SensorNotLost
<1>1. IInv => SensorNotLost
  BY DEF IInv
<1>2. QED
  BY <1>1, Inductive, PTL
=============================================================================
