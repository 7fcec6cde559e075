------------------------------- MODULE Frames -------------------------------
(* The frame queues of a SimpliciTI end device: what the receive interrupt    *)
(* puts in, what the application's thread takes out through links or for the  *)
(* network applications, and the output frame both of them build.  The        *)
(* interrupt may run between any two steps of the thread; it runs to its end. *)
(* The peer's answers may be lost, repeated and delayed without limit.        *)
EXTENDS Integers, Sequences, SequencesExt, FiniteSets, FiniteSetsExt

CONSTANTS InSize,      \* SIZE_INFRAME_Q
          Links,       \* the link IDs in use
          Broadcast,   \* the one of them that is SMPL_LINKID_USER_UUD
          MaxTid,      \* the highest transaction ID: 255
          FirstTid,    \* the transaction ID MRFI_RandomByte happened to give
          MaxArrivals, \* bound: frames received
          MaxSends,    \* bound: frames the application sends
          MaxLinks     \* bound: links made after the peer took one down

ASSUME FramesAssumption ==
  /\ InSize \in Nat \ {0}
  /\ Broadcast \in Links /\ "net" \notin Links
  /\ MaxTid \in Nat \ {0} /\ FirstTid \in 1..MaxTid
  /\ MaxArrivals \in Nat /\ MaxSends \in Nat /\ MaxLinks \in Nat

VARIABLES inq,       \* the input queue: usage, order stamp and frame of each slot
          out,       \* the first slot of the output queue, the only one ever used
          tract,     \* sTRACTID
          ackTID,    \* the acknowledgement each connection waits for, or 0
          linked,    \* the links whose connection is CONNSTATE_CONNECTED
          links,     \* how many links were made
          pc,        \* where the thread is
          ctx,       \* the reader's link or port, or the link sent to
          slot,      \* the slot the reader looks at
          held,      \* the oldest slot it found so far, or 0
          oldest,    \* the stamp it had
          asks,      \* the frame being sent asks for an acknowledgement
          arrived,   \* how many frames arrived: a frame's number is its age
          delivered, \* the numbers of the frames handed over, in order
          sends,     \* how many frames the thread sent: a message's number
          peerGot,   \* the transaction ID and message of what the peer received
          result,    \* what the last send returned
          raced,     \* a frame came in while the reader was giving back a slot
          stuck      \* slots the reader dropped when its connection had gone

queue  == <<inq, arrived, raced>>
reader == <<slot, held, oldest, delivered, stuck>>
sender == <<out, tract, ackTID, asks, sends, peerGot, result>>
table  == <<linked, links>>
vars == <<queue, reader, sender, table, pc, ctx>>

Slots == 1..InSize

Connections == Links \ {Broadcast}

\* who reads: the application through a link, or a network application
Contexts == Links \union {"net"}

NoFrame == [number |-> 0, port |-> "net"]

Available == [usage |-> "available", stamp |-> 0, frame |-> NoFrame]

Busy(q) == {i \in Slots : q[i].usage # "available"}

\* mutant: 0, which means none, is not skipped
TidWraps(t) == IF t = MaxTid THEN 0 ELSE t + 1

NextTid(t) == IF t = MaxTid THEN 1 ELSE t + 1

-----------------------------------------------------------------------------
\* nwk_QMgmt.c

\* the frames newer than the one stamped s become one place older
AdjustOrder(q, s) ==
  [i \in Slots |->
     IF i \in Busy(q) /\ q[i].stamp > s THEN [q[i] EXCEPT !.stamp = @ - 1]
     ELSE q[i]]

\* mutant: the frame the reader copies may be overwritten
EvictsAny(q) == Busy(q)

\* a frame in transition belongs to the reader
Evictable(q) == {i \in Slots : q[i].usage = "until_del"}

Oldest(q) ==
  CHOOSE i \in Evictable(q) :
    \A j \in Evictable(q) :
      \/ q[i].stamp < q[j].stamp
      \/ q[i].stamp = q[j].stamp /\ i <= j

\* the slot a received frame goes to, 0 when the reader holds them all
FindSlot(q) ==
  IF Busy(q) # Slots THEN Max(Slots \ Busy(q))
  ELSE IF Evictable(q) # {} THEN Oldest(q)
  ELSE 0

\* mutant: evicting a frame leaves the others' stamps as they were
PlacedUnordered(q, f, keep) ==
  LET s == FindSlot(q)
      stamp == IF Busy(q) # Slots THEN Cardinality(Busy(q)) + 1 ELSE InSize
  IN  [q EXCEPT ![s] =
         IF keep THEN [usage |-> "until_del", stamp |-> stamp, frame |-> f]
         ELSE Available]

\* the queue with the received frame f in that slot, kept or given back
Placed(q, f, keep) ==
  LET s == FindSlot(q)
      stamp == IF Busy(q) # Slots THEN Cardinality(Busy(q)) + 1 ELSE InSize
      others == IF Busy(q) # Slots THEN q ELSE AdjustOrder(q, q[s].stamp)
  IN  [others EXCEPT ![s] =
         IF keep THEN [usage |-> "until_del", stamp |-> stamp, frame |-> f]
         ELSE Available]

-----------------------------------------------------------------------------
\* nwk_frame.c: the interrupt

\* a frame of this port arrives; the radio's copy is lost when there is no slot
Arrive(port, keep) ==
  /\ arrived < MaxArrivals
  /\ arrived' = arrived + 1
  /\ inq' = IF FindSlot(inq) = 0 THEN inq
            ELSE Placed(inq, [number |-> arrived + 1, port |-> port], keep)
  /\ raced' = (raced \/ pc = "free")

\* data for a link, or a reply a network application waits for
RxKept(port) ==
  /\ port \in linked \union {"net"}
  /\ Arrive(port, TRUE)
  /\ UNCHANGED <<reader, sender, table, pc, ctx>>

\* mutant: any acknowledgement on the connection will do
RxAnyAck(l, t) ==
  /\ Arrive(l, FALSE)
  /\ ackTID' = IF FindSlot(inq) # 0 /\ l \in linked THEN [ackTID EXCEPT ![l] = 0]
               ELSE ackTID
  /\ UNCHANGED <<reader, out, tract, asks, sends, peerGot, result, table, pc, ctx>>

\* an acknowledgement is taken out of the message stream
RxAck(l, t) ==
  /\ Arrive(l, FALSE)
  /\ ackTID' = IF FindSlot(inq) # 0 /\ l \in linked /\ ackTID[l] = t
               THEN [ackTID EXCEPT ![l] = 0]
               ELSE ackTID
  /\ UNCHANGED <<reader, out, tract, asks, sends, peerGot, result, table, pc, ctx>>

\* a request to a network application is answered with a frame built in the
\* output queue and sent at once
RxRequest ==
  /\ Arrive("net", FALSE)
  /\ IF FindSlot(inq) = 0 THEN UNCHANGED <<out, tract, linked>>
     ELSE /\ \/ UNCHANGED linked   \* a ping
             \/ \E l \in linked \ {Broadcast} : linked' = linked \ {l}   \* an unlink
          /\ out' = [port |-> "net", tid |-> tract, ackReq |-> FALSE, msg |-> 0]
          /\ tract' = NextTid(tract)
  /\ UNCHANGED <<reader, ackTID, asks, sends, peerGot, result, links, pc, ctx>>

\* the device's own frames, encrypted ones, and those of no port or connection
RxOther ==
  /\ Arrive("net", FALSE)
  /\ UNCHANGED <<reader, sender, table, pc, ctx>>

Receive ==
  \/ \E port \in Contexts : RxKept(port)
  \/ \E l \in Connections, p \in peerGot : RxAck(l, p.tid)
  \/ RxRequest
  \/ RxOther

-----------------------------------------------------------------------------
\* nwk_retrieveFrame and nwk_QfindOldest: the thread reads

ReadStart(c) ==
  /\ pc = "idle" /\ c \in linked \union {"net"}
  /\ pc' = "claim"
  /\ ctx' = c
  /\ slot' = 1 /\ held' = 0 /\ oldest' = InSize + 1
  /\ UNCHANGED <<queue, sender, table, delivered, stuck>>

\* where the scan goes after the slot it looked at, with h found so far
Onwards(h) ==
  /\ slot' = IF slot < InSize THEN slot + 1 ELSE slot
  /\ pc' = IF slot < InSize THEN "claim"
           ELSE IF h = 0 THEN "idle" ELSE "adjust"

Claim ==
  /\ pc = "claim"
  /\ IF inq[slot].usage = "until_del"
     THEN /\ inq' = [inq EXCEPT ![slot].usage = "transition"]
          /\ pc' = "weigh"
          /\ UNCHANGED slot
     ELSE UNCHANGED inq /\ Onwards(held)
  /\ UNCHANGED <<arrived, raced, held, oldest, delivered, stuck, sender, table, ctx>>

GiveBack(i) == inq' = [inq EXCEPT ![i].usage = "until_del"]

\* mutant: an older frame is found, and the one held before is not given back
WeighForgets ==
  LET better == inq[slot].frame.port = ctx /\ inq[slot].stamp < oldest IN
  /\ pc = "weigh"
  /\ IF better
     THEN UNCHANGED inq /\ held' = slot /\ oldest' = inq[slot].stamp
     ELSE GiveBack(slot) /\ UNCHANGED <<held, oldest>>
  /\ Onwards(IF better THEN slot ELSE held)
  /\ UNCHANGED <<arrived, raced, delivered, stuck, sender, table, ctx>>

\* mutant: a frame on another port is not given back
WeighLeaks ==
  LET better == inq[slot].frame.port = ctx /\ inq[slot].stamp < oldest IN
  /\ pc = "weigh"
  /\ IF better
     THEN /\ IF held # 0 THEN GiveBack(held) ELSE UNCHANGED inq
          /\ held' = slot
          /\ oldest' = inq[slot].stamp
     ELSE UNCHANGED <<inq, held, oldest>>
  /\ Onwards(IF better THEN slot ELSE held)
  /\ UNCHANGED <<arrived, raced, delivered, stuck, sender, table, ctx>>

Weigh ==
  LET better == inq[slot].frame.port = ctx /\ inq[slot].stamp < oldest IN
  /\ pc = "weigh"
  /\ IF better
     THEN /\ IF held # 0 THEN GiveBack(held) ELSE UNCHANGED inq
          /\ held' = slot
          /\ oldest' = inq[slot].stamp
     ELSE GiveBack(slot) /\ UNCHANGED <<held, oldest>>
  /\ Onwards(IF better THEN slot ELSE held)
  /\ UNCHANGED <<arrived, raced, delivered, stuck, sender, table, ctx>>

\* the frame is copied out, and the others take their new places
Adjust ==
  /\ pc = "adjust" /\ ctx \in linked \union {"net"}
  /\ delivered' = Append(delivered, inq[held].frame.number)
  /\ inq' = AdjustOrder(inq, inq[held].stamp)
  /\ pc' = "free"
  /\ UNCHANGED <<arrived, raced, slot, held, oldest, stuck, sender, table, ctx>>

\* the peer took the connection down while the frame was looked for: the reader
\* returns SMPL_BAD_PARAM and leaves the slot in transition
Drop ==
  /\ pc = "adjust" /\ ctx \notin linked \union {"net"}
  /\ pc' = "idle"
  /\ held' = 0
  /\ stuck' = stuck \union {held}
  /\ UNCHANGED <<queue, slot, oldest, delivered, sender, table, ctx>>

\* mutant: the slot goes back to the queue with the frame in it
FreeKeeps ==
  /\ pc = "free"
  /\ inq' = [inq EXCEPT ![held].usage = "until_del"]
  /\ pc' = "idle"
  /\ held' = 0
  /\ UNCHANGED <<arrived, raced, slot, oldest, delivered, stuck, sender, table, ctx>>

Free ==
  /\ pc = "free"
  /\ inq' = [inq EXCEPT ![held] = Available]
  /\ pc' = "idle"
  /\ held' = 0
  /\ UNCHANGED <<arrived, raced, slot, oldest, delivered, stuck, sender, table, ctx>>

-----------------------------------------------------------------------------
\* SMPL_SendOpt, nwk_buildFrame, nwk_buildAckReqFrame and nwk_sendFrame

\* no acknowledgement can be asked for on the broadcast link
SendStart(l, ack) ==
  /\ pc = "idle" /\ sends < MaxSends /\ l \in linked
  /\ ack => l # Broadcast
  /\ pc' = "head"
  /\ ctx' = l /\ asks' = ack /\ sends' = sends + 1 /\ result' = "none"
  /\ UNCHANGED <<queue, reader, table, out, tract, ackTID, peerGot>>

BuildHead ==
  /\ pc = "head"
  /\ out' = [out EXCEPT !.port = ctx, !.tid = tract]
  /\ pc' = "count"
  /\ UNCHANGED <<queue, reader, tract, ackTID, asks, sends, peerGot, result, table, ctx>>

BuildCount ==
  /\ pc = "count"
  /\ tract' = NextTid(tract)
  /\ out' = [out EXCEPT !.ackReq = FALSE]
  /\ pc' = "body"
  /\ UNCHANGED <<queue, reader, ackTID, asks, sends, peerGot, result, table, ctx>>

BuildBody ==
  /\ pc = "body"
  /\ out' = [out EXCEPT !.msg = sends]
  /\ pc' = IF asks THEN "remember" ELSE "transmit"
  /\ UNCHANGED <<queue, reader, tract, ackTID, asks, sends, peerGot, result, table, ctx>>

BuildRemember ==
  /\ pc = "remember"
  /\ ackTID' = [ackTID EXCEPT ![ctx] = out.tid]
  /\ pc' = "ask"
  /\ UNCHANGED <<queue, reader, out, tract, asks, sends, peerGot, result, table, ctx>>

BuildAsk ==
  /\ pc = "ask"
  /\ out' = [out EXCEPT !.ackReq = TRUE]
  /\ pc' = "transmit"
  /\ UNCHANGED <<queue, reader, tract, ackTID, asks, sends, peerGot, result, table, ctx>>

\* the channel may be busy; what is sent may get lost
Transmit ==
  /\ pc = "transmit"
  /\ \/ /\ pc' = "idle" /\ result' = "cca_fail"
        /\ UNCHANGED peerGot
     \/ /\ pc' = IF asks THEN "judge" ELSE "idle"
        /\ result' = IF asks THEN "none" ELSE "sent"
        /\ \/ peerGot' = IF out.port \in Connections /\ out.ackReq
                         THEN peerGot \union {[tid |-> out.tid, msg |-> out.msg]}
                         ELSE peerGot
           \/ UNCHANGED peerGot
  /\ UNCHANGED <<queue, reader, out, tract, ackTID, asks, sends, table, ctx>>

\* after the reply delay
JudgeAck ==
  /\ pc = "judge"
  /\ result' = IF ackTID[ctx] # 0 THEN "no_ack" ELSE "acked"
  /\ ackTID' = [ackTID EXCEPT ![ctx] = 0]
  /\ pc' = "idle"
  /\ UNCHANGED <<queue, reader, out, tract, asks, sends, peerGot, table, ctx>>

\* SMPL_Link connects again (module Link)
Relink(l) ==
  /\ pc = "idle" /\ links < MaxLinks
  /\ l \notin linked
  /\ linked' = linked \union {l}
  /\ links' = links + 1
  /\ UNCHANGED <<queue, reader, sender, pc, ctx>>

Thread ==
  \/ \E l \in Links : Relink(l)
  \/ \E c \in Contexts : ReadStart(c)
  \/ Claim \/ Weigh \/ Adjust \/ Free \/ Drop
  \/ \E l \in Links, ack \in BOOLEAN : SendStart(l, ack)
  \/ BuildHead \/ BuildCount \/ BuildBody \/ BuildRemember \/ BuildAsk
  \/ Transmit \/ JudgeAck

-----------------------------------------------------------------------------
Init ==
  /\ inq = [i \in Slots |-> Available]
  /\ out = [port |-> "net", tid |-> 0, ackReq |-> FALSE, msg |-> 0]
  /\ tract = FirstTid
  /\ ackTID = [l \in Connections |-> 0]
  /\ pc = "idle" /\ ctx = "net"
  /\ slot = 1 /\ held = 0 /\ oldest = InSize + 1
  /\ asks = FALSE
  /\ arrived = 0 /\ delivered = <<>>
  /\ sends = 0 /\ peerGot = {} /\ result = "none"
  /\ raced = FALSE /\ stuck = {}
  /\ linked = Links /\ links = 0

Next == Receive \/ Thread

Spec == Init /\ [][Next]_vars

-----------------------------------------------------------------------------
\* Properties

\* Types.
TypeOK ==
  /\ inq \in [Slots -> [usage : {"available", "until_del", "transition"},
                        stamp : 0..InSize,
                        frame : [number : 0..MaxArrivals, port : Contexts]]]
  /\ out \in [port : Contexts, tid : 0..MaxTid, ackReq : BOOLEAN, msg : 0..MaxSends]
  /\ tract \in 1..MaxTid
  /\ ackTID \in [Connections -> 0..MaxTid]
  /\ pc \in {"idle", "claim", "weigh", "adjust", "free", "head", "count", "body",
             "remember", "ask", "transmit", "judge"}
  /\ ctx \in Contexts
  /\ slot \in Slots /\ held \in 0..InSize /\ oldest \in 1..InSize + 1
  /\ asks \in BOOLEAN /\ raced \in BOOLEAN
  /\ arrived \in 0..MaxArrivals /\ sends \in 0..MaxSends
  /\ delivered \in Seq(1..MaxArrivals)
  /\ peerGot \subseteq [tid : 1..MaxTid, msg : 0..MaxSends]
  /\ stuck \subseteq Slots /\ linked \subseteq Links /\ links \in 0..MaxLinks
  /\ result \in {"none", "sent", "acked", "no_ack", "cca_fail"}

\* A slot in transition is in the reader's hands: the scan of nwk_QfindOldest
\* gives back every slot it claimed and did not choose, whatever came in
\* meanwhile.  The one slot ever lost is that of a frame whose connection the
\* peer took down between its being found and its being copied.
TransitionIsHeld ==
  \A i \in Slots :
    inq[i].usage = "transition" <=>
      \/ i = held /\ pc \in {"claim", "weigh", "adjust", "free"}
      \/ i = slot /\ pc = "weigh"
      \/ i \in stuck

\* Each frame is handed over at most once: none is in the queue for another
\* reader once the reader that copied it has given its slot back.
HandedOnce ==
  /\ IsInjective(delivered)
  /\ \A i \in Slots : inq[i].frame.number \in Range(delivered) =>
                        i = held /\ pc = "free"

\* The stamps of nwk_QMgmt.c say the order of arrival, as long as no frame came
\* in between the reader's nwk_QadjustOrder and its giving back of the slot.
StampsFollowArrival ==
  ~raced /\ pc # "free" =>
    \A i, j \in Busy(inq) :
      inq[i].frame.number < inq[j].frame.number <=> inq[i].stamp < inq[j].stamp

\* The interrupt takes a slot from an unread frame only when every slot is busy,
\* never one the reader is copying from, and then the oldest frame it may take.
EvictsOldest ==
  [][\A i \in Slots :
       inq[i].frame # NoFrame /\ inq'[i].frame # inq[i].frame /\ arrived' # arrived =>
         /\ Busy(inq) = Slots
         /\ inq[i].usage = "until_del"
         /\ ~raced => \A j \in Evictable(inq) :
                        inq[i].frame.number <= inq[j].frame.number]_vars

\* A send that reports an acknowledgement reached the peer with the message it
\* was given, although answers are late, repeated and lost, and the interrupt
\* builds its own frames in the same slot of the output queue.
AckedIsReceived == result = "acked" => \E p \in peerGot : p.msg = sends

\* nwk_QMgmt.c:109: no slot is found for a received frame only while the
\* application is retrieving one.  A dropped slot is gone for good, but never the
\* last one: the request that takes the connection down needs a slot itself.
SlotUnlessReading == pc = "idle" => FindSlot(inq) # 0

\* Every slot is accounted for: free, waiting, or in the reader's hands.
SlotsAccounted == TypeOK /\ TransitionIsHeld /\ SlotUnlessReading

\* A reader gets each frame once, and the stamps it chooses by tell their order.
ReadInOrder == HandedOnce /\ StampsFollowArrival
=============================================================================
