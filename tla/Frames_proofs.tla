---------------------------- MODULE Frames_proofs ----------------------------
(***************************************************************************)
(* Theorems about Frames, for every size of the input queue and any set of *)
(* links.                                                                  *)
(***************************************************************************)
EXTENDS Frames, WellFoundedInduction, FiniteSetTheorems, TLAPS

-----------------------------------------------------------------------------
(* Smallest and largest numbers.                                           *)

Less == {ss \in Nat \X Nat : ss[1] < ss[2]}

\* A set of natural numbers that is not empty has a smallest one.
LEMMA SmallestExists ==
  ASSUME NEW T, T \subseteq Nat, T # {}
  PROVE  \E x \in T : \A y \in T : x <= y
<1>1. IsWellFoundedOn(Less, Nat)
  BY NatLessThanWellFounded, Zenon DEF OpToRel, Less
<1>2. PICK x \in T : \A y \in T : <<y, x>> \notin Less
  BY <1>1, WFMin, Zenon
<1>3. ASSUME NEW y \in T PROVE x <= y
  <2>1. x \in Nat /\ y \in Nat
    OBVIOUS
  <2>2. y < x => <<y, x>> \in Less
    BY <2>1 DEF Less
  <2>3. QED
    BY <1>2, <2>1, <2>2
<1>4. QED
  BY <1>3

\* Max of slots is one of them.
LEMMA MaxOfSlots ==
  ASSUME NEW S \in SUBSET Slots, S # {}
  PROVE  Max(S) \in S
<1> DEFINE T == {InSize - x : x \in S}
<1>1. T \subseteq Nat /\ T # {}
  <2>1. \A x \in S : x \in Nat /\ InSize - x \in Nat
    BY FramesAssumption DEF Slots
  <2>2. QED
    BY <2>1
<1>2. PICK t \in T : \A u \in T : t <= u
  BY <1>1, SmallestExists
<1>3. PICK x \in S : t = InSize - x
  OBVIOUS
<1>4. ASSUME NEW y \in S PROVE x >= y
  <2>1. t <= InSize - y
    BY <1>2
  <2>2. QED
    BY <1>3, <2>1, FramesAssumption DEF Slots
<1>5. QED
  BY <1>3, <1>4 DEF Max

-----------------------------------------------------------------------------
(* The queue.                                                              *)

Queues == [Slots -> [usage : {"available", "until_del", "transition"},
                     stamp : 0..InSize,
                     frame : [number : 0..MaxArrivals, port : Contexts]]]

LEMMA SlotsFinite == IsFiniteSet(Slots) /\ Cardinality(Slots) = InSize
BY FramesAssumption, FS_Interval DEF Slots

LEMMA BusyCount ==
  ASSUME NEW q
  PROVE  /\ IsFiniteSet(Busy(q)) /\ Cardinality(Busy(q)) \in 0..InSize
         /\ Busy(q) # Slots => Cardinality(Busy(q)) < InSize
<1>1. Busy(q) \subseteq Slots
  BY DEF Busy
<1>2. QED
  BY <1>1, SlotsFinite, FS_Subset, FS_CardinalityType, FramesAssumption

\* The slot nwk_QfindSlot evicts has the lowest stamp of those it may take.
LEMMA OldestFacts ==
  ASSUME NEW q \in Queues, Evictable(q) # {}
  PROVE  /\ Oldest(q) \in Evictable(q)
         /\ \A j \in Evictable(q) : q[Oldest(q)].stamp <= q[j].stamp
<1> DEFINE S == {q[i].stamp : i \in Evictable(q)}
<1>1. S \subseteq Nat /\ S # {}
  BY DEF Evictable, Queues
<1>2. PICK s \in S : \A t \in S : s <= t
  BY <1>1, SmallestExists
<1> DEFINE I == {i \in Evictable(q) : q[i].stamp = s}
<1>3. I \subseteq Nat /\ I # {}
  BY DEF Evictable, Slots
<1>4. PICK i \in I : \A j \in I : i <= j
  BY <1>3, SmallestExists
<1>5. ASSUME NEW j \in Evictable(q)
      PROVE  \/ q[i].stamp < q[j].stamp
             \/ q[i].stamp = q[j].stamp /\ i <= j
  <2>1. s <= q[j].stamp /\ s \in Nat /\ q[j].stamp \in Nat
    BY <1>1, <1>2
  <2>2. CASE q[j].stamp = s
    BY <2>2, <1>4
  <2>3. CASE q[j].stamp # s
    BY <2>1, <2>3
  <2>4. QED
    BY <2>2, <2>3
<1>6. /\ Oldest(q) \in Evictable(q)
      /\ \A j \in Evictable(q) :
           \/ q[Oldest(q)].stamp < q[j].stamp
           \/ q[Oldest(q)].stamp = q[j].stamp /\ Oldest(q) <= j
  BY <1>5 DEF Oldest
<1>7. \A j \in Evictable(q) : q[j].stamp \in Nat
  BY DEF Evictable, Queues
<1>8. QED
  BY <1>6, <1>7

\* The slot found for a received frame is none of the reader's.
LEMMA FindSlotFacts ==
  ASSUME NEW q \in Queues
  PROVE  /\ FindSlot(q) \in 0..InSize
         /\ (FindSlot(q) # 0 <=> \E i \in Slots : q[i].usage # "transition")
         /\ FindSlot(q) # 0 =>
              /\ FindSlot(q) \in Slots
              /\ IF Busy(q) = Slots THEN FindSlot(q) = Oldest(q) /\ Evictable(q) # {}
                                    ELSE FindSlot(q) \notin Busy(q)
              /\ q[FindSlot(q)].usage # "transition"
<1>1. CASE Busy(q) # Slots
  <2>1. FindSlot(q) \in Slots \ Busy(q)
    BY <1>1, MaxOfSlots DEF FindSlot, Busy
  <2>2. q[FindSlot(q)].usage = "available"
    BY <2>1 DEF Busy
  <2>3. QED
    BY <1>1, <2>1, <2>2, FramesAssumption DEF Slots
<1>2. CASE Busy(q) = Slots /\ Evictable(q) # {}
  <2>1. FindSlot(q) = Oldest(q) /\ Oldest(q) \in Evictable(q)
    BY <1>2, OldestFacts DEF FindSlot
  <2>2. QED
    BY <1>2, <2>1, FramesAssumption DEF Slots, Evictable
<1>3. CASE Busy(q) = Slots /\ Evictable(q) = {}
  <2>1. FindSlot(q) = 0
    BY <1>3 DEF FindSlot
  <2>2. \A i \in Slots : q[i].usage = "transition"
    BY <1>3 DEF Busy, Evictable, Queues
  <2>3. QED
    BY <2>1, <2>2, FramesAssumption
<1>4. QED
  BY <1>1, <1>2, <1>3

\* Taking the newer frames one place down changes nothing but their stamps.
LEMMA AdjustOrderFacts ==
  ASSUME NEW q \in Queues, NEW s \in 0..InSize
  PROVE  /\ AdjustOrder(q, s) \in Queues
         /\ Busy(AdjustOrder(q, s)) = Busy(q)
         /\ \A i \in Slots :
              /\ AdjustOrder(q, s)[i].usage = q[i].usage
              /\ AdjustOrder(q, s)[i].frame = q[i].frame
              /\ AdjustOrder(q, s)[i].stamp = IF i \in Busy(q) /\ q[i].stamp > s
                                              THEN q[i].stamp - 1 ELSE q[i].stamp
              /\ i \notin Busy(q) => AdjustOrder(q, s)[i] = q[i]
<1>1. ASSUME NEW i \in Slots
      PROVE  /\ AdjustOrder(q, s)[i].usage = q[i].usage
             /\ AdjustOrder(q, s)[i].frame = q[i].frame
             /\ AdjustOrder(q, s)[i].stamp = IF i \in Busy(q) /\ q[i].stamp > s
                                             THEN q[i].stamp - 1 ELSE q[i].stamp
             /\ i \notin Busy(q) => AdjustOrder(q, s)[i] = q[i]
             /\ AdjustOrder(q, s)[i] \in
                  [usage : {"available", "until_del", "transition"},
                   stamp : 0..InSize,
                   frame : [number : 0..MaxArrivals, port : Contexts]]
  BY FramesAssumption DEF Queues, AdjustOrder
<1>2. AdjustOrder(q, s) \in Queues
  BY <1>1 DEF Queues, AdjustOrder
<1>3. Busy(AdjustOrder(q, s)) = Busy(q)
  BY <1>1 DEF Busy
<1>4. QED
  BY <1>1, <1>2, <1>3

\* The frames in B are ranked from 1 up by their stamps, oldest first.
Ranked(q, B) ==
  /\ \A i, j \in B :
       q[i].frame.number < q[j].frame.number <=> q[i].stamp < q[j].stamp
  /\ \A i \in B : q[i].stamp <= Cardinality(B)

\* No two of the frames in B are the same.
Distinct(q, B) ==
  \A i, j \in B : q[i].frame.number = q[j].frame.number => i = j

\* nwk_QadjustOrder closes the gap that the frame in slot k leaves.
LEMMA RanksClose ==
  ASSUME NEW q \in Queues, NEW B, B \subseteq Busy(q), NEW k \in B,
         Ranked(q, B), Distinct(q, B)
  PROVE  Ranked(AdjustOrder(q, q[k].stamp), B \ {k})
<1> DEFINE a == AdjustOrder(q, q[k].stamp)
<1>1. B \subseteq Slots /\ IsFiniteSet(B) /\ k \in Slots
  BY BusyCount, FS_Subset DEF Busy
<1>2. Cardinality(B) \in Nat /\ Cardinality(B \ {k}) = Cardinality(B) - 1
  BY <1>1, FS_CardinalityType, FS_RemoveElement
<1>3. \A i \in B : /\ q[i].stamp \in 0..InSize /\ q[i].frame.number \in Nat
  BY <1>1 DEF Queues
<1>4. \A i \in B : /\ a[i].frame = q[i].frame
                   /\ a[i].stamp = IF q[i].stamp > q[k].stamp
                                   THEN q[i].stamp - 1 ELSE q[i].stamp
  BY <1>1, <1>3, AdjustOrderFacts
<1>5. \A i \in B \ {k} : q[i].stamp # q[k].stamp
  BY <1>3 DEF Ranked, Distinct
<1>6. ASSUME NEW i \in B \ {k}
      PROVE  a[i].stamp <= Cardinality(B \ {k})
  <2>1. q[i].stamp <= Cardinality(B) /\ q[k].stamp <= Cardinality(B)
    BY DEF Ranked
  <2>2. QED
    BY <2>1, <1>2, <1>3, <1>4, <1>5
<1>7. ASSUME NEW i \in B \ {k}, NEW j \in B \ {k}
      PROVE  a[i].frame.number < a[j].frame.number <=> a[i].stamp < a[j].stamp
  <2>1. q[i].frame.number < q[j].frame.number <=> q[i].stamp < q[j].stamp
    BY DEF Ranked
  <2>2. a[i].stamp < a[j].stamp <=> q[i].stamp < q[j].stamp
    BY <1>3, <1>4, <1>5
  <2>3. QED
    BY <2>1, <2>2, <1>4
<1>8. QED
  BY <1>6, <1>7 DEF Ranked

\* What the interrupt does to the queue when it finds slot s.
LEMMA PlacedFacts ==
  ASSUME NEW q \in Queues, NEW keep \in BOOLEAN, NEW s \in Slots,
         s = FindSlot(q),
         NEW f \in [number : 0..MaxArrivals, port : Contexts]
  PROVE  /\ Placed(q, f, keep) \in Queues
         /\ Placed(q, f, keep)[s].frame = IF keep THEN f ELSE NoFrame
         /\ Placed(q, f, keep)[s].usage = IF keep THEN "until_del" ELSE "available"
         /\ ~keep => Placed(q, f, keep)[s] = Available
         /\ Placed(q, f, keep)[s].stamp =
              IF ~keep THEN 0
              ELSE IF Busy(q) # Slots THEN Cardinality(Busy(q)) + 1 ELSE InSize
         /\ \A i \in Slots \ {s} :
              /\ Placed(q, f, keep)[i].usage = q[i].usage
              /\ Placed(q, f, keep)[i].frame = q[i].frame
              /\ i \notin Busy(q) => Placed(q, f, keep)[i] = q[i]
              /\ Placed(q, f, keep)[i].stamp =
                   IF Busy(q) # Slots THEN q[i].stamp
                   ELSE AdjustOrder(q, q[s].stamp)[i].stamp
         /\ Busy(Placed(q, f, keep)) =
              IF keep THEN Busy(q) \cup {s} ELSE Busy(q) \ {s}
<1> DEFINE stamp == IF Busy(q) # Slots THEN Cardinality(Busy(q)) + 1 ELSE InSize
           others == IF Busy(q) # Slots THEN q ELSE AdjustOrder(q, q[s].stamp)
           new == IF keep THEN [usage |-> "until_del", stamp |-> stamp, frame |-> f]
                  ELSE Available
           P == Placed(q, f, keep)
<1>1. stamp \in 0..InSize
  BY BusyCount, FramesAssumption
<1>2. q[s].stamp \in 0..InSize
  BY DEF Queues
<1>3. /\ others \in Queues
      /\ \A i \in Slots : /\ others[i].usage = q[i].usage
                          /\ others[i].frame = q[i].frame
                          /\ i \notin Busy(q) => others[i] = q[i]
                          /\ others[i].stamp =
                               IF Busy(q) # Slots THEN q[i].stamp
                               ELSE AdjustOrder(q, q[s].stamp)[i].stamp
  BY <1>2, AdjustOrderFacts
<1>4. P = [others EXCEPT ![s] = new]
  BY DEF Placed
<1>5. /\ "net" \in Contexts /\ NoFrame \in [number : 0..MaxArrivals, port : Contexts]
      /\ Available \in [usage : {"available", "until_del", "transition"},
                        stamp : 0..InSize,
                        frame : [number : 0..MaxArrivals, port : Contexts]]
  BY FramesAssumption DEF NoFrame, Available, Contexts
<1>6. new \in [usage : {"available", "until_del", "transition"},
               stamp : 0..InSize,
               frame : [number : 0..MaxArrivals, port : Contexts]]
  BY <1>1, <1>5
<1> HIDE DEF others, stamp, P
<1>7. P[s] = new /\ \A i \in Slots \ {s} : P[i] = others[i]
  BY <1>3, <1>4 DEF Queues
<1>8. P \in Queues
  BY <1>3, <1>4, <1>6 DEF Queues
<1>9. /\ P[s].frame = IF keep THEN f ELSE NoFrame
      /\ P[s].usage = IF keep THEN "until_del" ELSE "available"
      /\ P[s].stamp = IF keep THEN stamp ELSE 0
      /\ ~keep => P[s] = Available
  BY <1>7 DEF Available
<1>10. Busy(P) = IF keep THEN Busy(q) \cup {s} ELSE Busy(q) \ {s}
  BY <1>3, <1>7, <1>9 DEF Busy
<1>11. QED
  BY <1>3, <1>7, <1>8, <1>9, <1>10 DEF P, stamp

-----------------------------------------------------------------------------
(* The inductive invariant.                                                *)

Reading == {"claim", "weigh", "adjust", "free"}

Building == {"head", "count", "body", "remember", "ask", "transmit", "judge"}

\* The slot held is behind the one the scan looks at, and neither is lost.
ReaderShape ==
  /\ held # 0 => pc \in Reading
  /\ pc \in {"adjust", "free"} => held # 0
  /\ pc \in {"claim", "weigh"} => held < slot
  /\ held \notin stuck
  /\ pc = "weigh" => slot \notin stuck

\* When the reader's link has gone, the request that took it down has left a
\* slot in which there is nothing for this reader.
RoomIsLeft ==
  /\ stuck # Slots
  /\ pc \in {"claim", "weigh", "adjust"} /\ ctx \notin linked \union {"net"} =>
       \E i \in Slots \ stuck : i # held /\ inq[i].frame.port # ctx

\* What is in the slots was received, each frame in one of them.
FramesReceived ==
  /\ \A i \in Slots \ Busy(inq) : inq[i] = Available
  /\ \A i \in Busy(inq) : inq[i].frame.number \in 1..arrived /\ inq[i].stamp # 0
  /\ Distinct(inq, Busy(inq))
  /\ \A n \in Range(delivered) : n \in 1..arrived

\* The slots of the frames no reader has copied.
Unread == IF pc = "free" THEN Busy(inq) \ {held} ELSE Busy(inq)

StampsAreRanks == ~raced => Ranked(inq, Unread)

QueueInv ==
  /\ TransitionIsHeld /\ ReaderShape /\ RoomIsLeft /\ FramesReceived
  /\ HandedOnce /\ StampsAreRanks

\* What the sender knows at each place, also when the interrupt has built a
\* frame of its own in the output queue.
SenderShape ==
  /\ pc \in Building => ctx \in Links /\ (asks => ctx # Broadcast)
  /\ pc \in {"remember", "ask", "judge"} => asks
  /\ pc \in {"count", "body", "remember", "ask", "transmit"} => out.tid # 0
  /\ pc \in {"remember", "ask", "transmit"} => out.port = "net" \/ out.msg = sends

Base == TypeOK /\ QueueInv /\ SenderShape

-----------------------------------------------------------------------------
(* The receive interrupt.                                                  *)

LEMMA ArriveTypes ==
  ASSUME TypeOK, NEW port \in Contexts, NEW keep \in BOOLEAN, Arrive(port, keep)
  PROVE  /\ inq \in Queues /\ inq' \in Queues
         /\ arrived' = arrived + 1 /\ arrived \in Nat /\ arrived' \in 0..MaxArrivals
         /\ raced' \in BOOLEAN /\ (raced' <=> raced \/ pc = "free")
         /\ [number |-> arrived + 1, port |-> port]
              \in [number : 0..MaxArrivals, port : Contexts]
<1>1. inq \in Queues
  BY DEF TypeOK, Queues
<1>2. /\ arrived' = arrived + 1 /\ arrived \in Nat /\ arrived' \in 0..MaxArrivals
      /\ raced' \in BOOLEAN /\ (raced' <=> raced \/ pc = "free")
  <2>1. arrived' = arrived + 1 /\ arrived \in Nat /\ arrived' \in 0..MaxArrivals
    BY FramesAssumption DEF Arrive, TypeOK
  <2>2. raced' = (raced \/ pc = "free") /\ raced \in BOOLEAN
    BY DEF Arrive, TypeOK
  <2>3. QED
    BY <2>1, <2>2
<1>3. [number |-> arrived + 1, port |-> port]
        \in [number : 0..MaxArrivals, port : Contexts]
  BY <1>2
<1>4. inq' \in Queues
  BY <1>1, <1>3, FindSlotFacts, PlacedFacts DEF Arrive
<1>5. QED
  BY <1>1, <1>2, <1>3, <1>4

\* The interrupt keeps the queue in order; only a frame that finds a slot can
\* take a connection down.
LEMMA ArriveQueue ==
  ASSUME TypeOK, QueueInv, NEW port \in Contexts, NEW keep \in BOOLEAN,
         Arrive(port, keep), UNCHANGED <<reader, pc, ctx>>,
         keep => port \in linked \union {"net"},
         \/ linked' = linked
         \/ /\ ~keep /\ FindSlot(inq) # 0
            /\ \E l \in linked \ {Broadcast} : linked' = linked \ {l}
  PROVE  QueueInv'
<1> DEFINE f == [number |-> arrived + 1, port |-> port]
<1>1. /\ inq \in Queues /\ inq' \in Queues
      /\ arrived' = arrived + 1 /\ arrived \in Nat
      /\ raced' \in BOOLEAN /\ (raced' <=> raced \/ pc = "free")
      /\ f \in [number : 0..MaxArrivals, port : Contexts]
  BY ArriveTypes
<1>2. /\ UNCHANGED <<slot, held, oldest, delivered, stuck, pc, ctx>>
      /\ \A n \in Range(delivered) : n \in 1..arrived
      /\ Range(delivered)' = Range(delivered)
  BY DEF reader, QueueInv, FramesReceived
<1>3. held \in 0..InSize /\ slot \in Slots /\ stuck \subseteq Slots
  BY DEF TypeOK
<1>4. ReaderShape'
  BY <1>2 DEF QueueInv, ReaderShape
<1>5. CASE FindSlot(inq) = 0
  <2>1. inq' = inq /\ linked' = linked
    BY <1>5 DEF Arrive
  <2>2. TransitionIsHeld' /\ HandedOnce'
    BY <1>2, <2>1 DEF QueueInv, TransitionIsHeld, HandedOnce
  <2>3. RoomIsLeft'
    BY <1>2, <2>1 DEF QueueInv, RoomIsLeft
  <2>4. FramesReceived'
    <3>1. Busy(inq)' = Busy(inq)
      BY <2>1 DEF Busy
    <3>2. Distinct(inq, Busy(inq))'
      BY <2>1, <3>1 DEF QueueInv, FramesReceived, Distinct
    <3>3. QED
      BY <1>1, <1>2, <2>1, <3>1, <3>2 DEF QueueInv, FramesReceived
  <2>5. StampsAreRanks'
    <3>1. Unread' = Unread
      BY <1>2, <2>1 DEF Unread, Busy
    <3>2. QED
      BY <1>1, <2>1, <3>1 DEF QueueInv, StampsAreRanks, Ranked
  <2>6. QED
    BY <1>4, <2>2, <2>3, <2>4, <2>5 DEF QueueInv
<1>6. CASE FindSlot(inq) # 0
  <2>1. PICK s : s = FindSlot(inq)
    OBVIOUS
  <2>2. s \in Slots /\ inq[s].usage # "transition" /\ inq' = Placed(inq, f, keep)
    BY <1>1, <1>6, <2>1, FindSlotFacts DEF Arrive
  <2> HIDE DEF f
  <2>3. /\ inq'[s].frame = IF keep THEN f ELSE NoFrame
        /\ inq'[s].usage = IF keep THEN "until_del" ELSE "available"
        /\ ~keep => inq'[s] = Available
        /\ inq'[s].stamp =
             IF ~keep THEN 0
             ELSE IF Busy(inq) # Slots THEN Cardinality(Busy(inq)) + 1 ELSE InSize
        /\ \A i \in Slots \ {s} :
             /\ inq'[i].usage = inq[i].usage
             /\ inq'[i].frame = inq[i].frame
             /\ i \notin Busy(inq) => inq'[i] = inq[i]
             /\ inq'[i].stamp = IF Busy(inq) # Slots THEN inq[i].stamp
                                ELSE AdjustOrder(inq, inq[s].stamp)[i].stamp
        /\ Busy(inq') = IF keep THEN Busy(inq) \union {s} ELSE Busy(inq) \ {s}
    BY <1>1, <2>1, <2>2, PlacedFacts
  <2>4. f.number = arrived + 1 /\ f.port = port
    BY DEF f
  <2>5. /\ s # held \/ pc \notin Reading
        /\ s \notin stuck /\ (s = slot => pc # "weigh")
    BY <2>2 DEF QueueInv, TransitionIsHeld, Reading
  <2>6. s # held
    <3>1. s # 0
      BY <2>2, FramesAssumption DEF Slots
    <3>2. QED
      BY <2>5, <3>1 DEF QueueInv, ReaderShape
  <2>7. TransitionIsHeld'
    <3>1. ASSUME NEW i \in Slots
          PROVE  inq'[i].usage = "transition" <=> inq[i].usage = "transition"
      BY <2>2, <2>3
    <3>2. QED
      BY <1>2, <3>1 DEF QueueInv, TransitionIsHeld
  <2>8. RoomIsLeft'
    <3>1. stuck' # Slots
      BY <1>2 DEF QueueInv, RoomIsLeft
    <3>2. ASSUME pc \in {"claim", "weigh", "adjust"},
                 ctx \notin linked' \union {"net"}
          PROVE  \E i \in Slots \ stuck : i # held /\ inq'[i].frame.port # ctx
      <4>1. inq'[s].frame.port # ctx \/ (keep /\ port = ctx)
        <5>1. NoFrame.port = "net"
          BY DEF NoFrame
        <5>2. CASE keep
          <6>1. inq'[s].frame = f
            BY <2>3, <5>2
          <6>2. inq'[s].frame.port = port
            BY <2>4, <6>1
          <6>3. QED
            BY <5>2, <6>2
        <5>3. CASE ~keep
          <6>1. inq'[s].frame = NoFrame
            BY <2>3, <5>3
          <6>2. ctx # "net"
            BY <3>2
          <6>3. QED
            BY <5>1, <6>1, <6>2
        <5>4. QED
          BY <5>2, <5>3
      <4>2. CASE ctx \in linked
        <5>1. ~keep
          BY <3>2, <4>2
        <5>2. QED
          BY <2>2, <2>5, <2>6, <4>1, <5>1
      <4>3. CASE ctx \notin linked
        <5>1. PICK i \in Slots \ stuck : i # held /\ inq[i].frame.port # ctx
          BY <3>2, <4>3 DEF QueueInv, RoomIsLeft
        <5>2. CASE i = s
          <6>1. ~(keep /\ port = ctx)
            BY <3>2, <4>3
          <6>2. QED
            BY <4>1, <5>1, <5>2, <6>1
        <5>3. CASE i # s
          BY <2>3, <5>1, <5>3
        <5>4. QED
          BY <5>2, <5>3
      <4>4. QED
        BY <4>2, <4>3
    <3>3. QED
      BY <1>2, <3>1, <3>2 DEF RoomIsLeft
  <2>9. FramesReceived'
    <3>1. ASSUME NEW i \in Slots \ Busy(inq') PROVE inq'[i] = Available
      BY <2>2, <2>3, <3>1 DEF QueueInv, FramesReceived
    <3>2. ASSUME NEW i \in Busy(inq'), i # s
          PROVE  i \in Busy(inq) /\ inq'[i].frame = inq[i].frame
      BY <2>3, <3>2 DEF Busy
    <3>3. ASSUME s \in Busy(inq') PROVE inq'[s].frame.number = arrived + 1
      BY <2>3, <2>4, <3>3 DEF Busy
    <3>4. \A i \in Busy(inq) : inq[i].frame.number \in 1..arrived
      BY DEF QueueInv, FramesReceived
    <3>5. \A i \in Busy(inq') : inq'[i].frame.number \in 1..arrived'
      BY <1>1, <3>2, <3>3, <3>4
    <3>6. Distinct(inq', Busy(inq'))
      <4>1. Distinct(inq, Busy(inq))
        BY DEF QueueInv, FramesReceived
      <4>2. QED
        BY <1>1, <3>2, <3>3, <3>4, <4>1 DEF Distinct
    <3>7. \A n \in Range(delivered)' : n \in 1..arrived'
      BY <1>1, <1>2
    <3>8. \A i \in Busy(inq') : inq'[i].stamp # 0
      <4>1. \A i \in Busy(inq) : inq[i].stamp \in Nat /\ inq[i].stamp # 0
        BY <1>1 DEF QueueInv, FramesReceived, Busy, Queues
      <4>2. inq[s].stamp \in 0..InSize
        BY <1>1, <2>2 DEF Queues
      <4>3. ASSUME NEW i \in Busy(inq'), i # s PROVE inq'[i].stamp # 0
        <5>1. i \in Busy(inq) /\ i \in Slots \ {s}
          BY <3>2, <4>3 DEF Busy
        <5>2. CASE Busy(inq) # Slots
          BY <2>3, <4>1, <5>1, <5>2
        <5>3. CASE Busy(inq) = Slots
          <6>1. inq'[i].stamp = IF inq[i].stamp > inq[s].stamp
                                THEN inq[i].stamp - 1 ELSE inq[i].stamp
            BY <1>1, <2>3, <4>2, <5>1, <5>3, AdjustOrderFacts
          <6>2. inq[s].stamp > 0
            BY <2>2, <4>1, <4>2, <5>3
          <6>3. QED
            BY <4>1, <4>2, <5>1, <6>1, <6>2
        <5>4. QED
          BY <5>2, <5>3
      <4>4. s \in Busy(inq') => inq'[s].stamp # 0
        <5>1. keep => inq'[s].stamp # 0
          BY <2>3, BusyCount, FramesAssumption
        <5>2. ~keep => s \notin Busy(inq')
          BY <2>3
        <5>3. QED
          BY <5>1, <5>2
      <4>5. QED
        BY <4>3, <4>4
    <3>9. QED
      BY <3>1, <3>5, <3>6, <3>7, <3>8 DEF FramesReceived
  <2>10. HandedOnce'
    <3>1. arrived + 1 \notin Range(delivered) /\ 0 \notin Range(delivered)
      BY <1>1, <1>2
    <3>2. NoFrame.number = 0
      BY DEF NoFrame
    <3>3. inq'[s].frame.number \notin Range(delivered)
      BY <2>3, <2>4, <3>1, <3>2
    <3>4. QED
      BY <1>2, <2>3, <3>3 DEF QueueInv, HandedOnce
  <2>11. StampsAreRanks'
    <3> SUFFICES ASSUME ~raced' PROVE Ranked(inq, Unread)'
      BY DEF StampsAreRanks
    <3>1. ~raced /\ pc # "free" /\ Ranked(inq, Busy(inq)) /\ Distinct(inq, Busy(inq))
      BY <1>1 DEF QueueInv, StampsAreRanks, Unread, FramesReceived
    <3>2. SUFFICES Ranked(inq', Busy(inq'))
      BY <1>2, <3>1 DEF Unread, Ranked
    <3>3. /\ IsFiniteSet(Busy(inq)) /\ Cardinality(Busy(inq)) \in Nat
          /\ Busy(inq) \subseteq Slots
      BY BusyCount, FS_CardinalityType DEF Busy
    <3>4. \A i \in Busy(inq) : inq[i].frame.number \in 1..arrived /\ inq[i].stamp \in Nat
      BY <1>1, <3>3 DEF QueueInv, FramesReceived, Queues
    <3>5. CASE Busy(inq) # Slots
      <4>1. s \notin Busy(inq)
        BY <1>1, <1>6, <2>1, <3>5, FindSlotFacts
      <4>2. \A i \in Busy(inq) : inq'[i].frame = inq[i].frame /\ inq'[i].stamp = inq[i].stamp
        BY <2>3, <3>3, <3>5, <4>1
      <4>3. CASE ~keep
        <5>1. Busy(inq') = Busy(inq)
          BY <2>3, <4>1, <4>3
        <5>2. QED
          BY <3>1, <4>2, <5>1 DEF Ranked
      <4>4. CASE keep
        <5>1. /\ Busy(inq') = Busy(inq) \union {s}
              /\ Cardinality(Busy(inq')) = Cardinality(Busy(inq)) + 1
          BY <2>3, <3>3, <4>1, <4>4, FS_AddElement
        <5>2. /\ inq'[s].frame.number = arrived + 1
              /\ inq'[s].stamp = Cardinality(Busy(inq)) + 1
          BY <2>3, <2>4, <3>5, <4>4
        <5>3. \A i \in Busy(inq) : /\ inq[i].stamp <= Cardinality(Busy(inq))
                                   /\ inq[i].frame.number <= arrived
          BY <3>1, <3>4 DEF Ranked
        <5>4. QED
          BY <1>1, <3>1, <3>3, <3>4, <4>1, <4>2, <5>1, <5>2, <5>3 DEF Ranked
      <4>5. QED
        BY <4>3, <4>4
    <3>6. CASE Busy(inq) = Slots
      <4> DEFINE a == AdjustOrder(inq, inq[s].stamp)
      <4>0. a \in Queues /\ \A i \in Slots : a[i].frame = inq[i].frame
        <5>1. inq[s].stamp \in 0..InSize
          BY <1>1, <2>2 DEF Queues
        <5>2. QED
          BY <1>1, <5>1, AdjustOrderFacts
      <4>1. Ranked(a, Busy(inq) \ {s})
        BY <1>1, <2>2, <3>1, <3>6, RanksClose
            <4>3. /\ Cardinality(Busy(inq)) = InSize
            /\ Cardinality(Busy(inq) \ {s}) = InSize - 1
        BY <2>2, <3>3, <3>6, SlotsFinite, FS_RemoveElement
      <4>4. \A i \in Busy(inq) \ {s} : /\ inq'[i].frame = a[i].frame
                                       /\ inq'[i].stamp = a[i].stamp
        BY <2>3, <3>3, <3>6, <4>0
      <4> HIDE DEF a
      <4>5. CASE ~keep
        <5>1. Busy(inq') = Busy(inq) \ {s}
          BY <2>3, <4>5
        <5>2. QED
          BY <4>1, <4>4, <5>1 DEF Ranked
      <4>6. CASE keep
        <5>1. Busy(inq') = Busy(inq)
          BY <2>2, <2>3, <3>6, <4>6
        <5>2. /\ inq'[s].frame.number = arrived + 1 /\ inq'[s].stamp = InSize
          BY <2>3, <2>4, <3>6, <4>6
        <5>3. \A i \in Busy(inq) \ {s} : /\ a[i].stamp \in Nat
                                         /\ a[i].stamp <= InSize - 1
                                         /\ a[i].frame.number \in 1..arrived
          <6>1. \A i \in Busy(inq) \ {s} : a[i].stamp \in Nat
            BY <3>3, <4>0 DEF Queues
          <6>2. QED
            BY <3>3, <3>4, <4>0, <4>1, <4>3, <6>1 DEF Ranked
        <5>4. QED
          BY <1>1, <4>1, <4>3, <4>4, <5>1, <5>2, <5>3, FramesAssumption DEF Ranked
      <4>7. QED
        BY <4>5, <4>6
    <3>7. QED
      BY <3>5, <3>6
  <2>12. QED
    BY <1>4, <2>7, <2>8, <2>9, <2>10, <2>11 DEF QueueInv
<1>7. QED
  BY <1>5, <1>6

LEMMA NextTidType ==
  ASSUME NEW t \in 1..MaxTid
  PROVE  NextTid(t) \in 1..MaxTid
BY FramesAssumption DEF NextTid

LEMMA ReceiveBase == Base /\ Receive => Base'
<1> SUFFICES ASSUME Base, Receive PROVE Base'
  OBVIOUS
<1> USE DEF reader, table, Base
<1>1. "net" \in Contexts
  BY DEF Contexts
<1>2. ASSUME NEW port \in Contexts, RxKept(port) PROVE Base'
  <2>1. /\ port \in linked \union {"net"} /\ Arrive(port, TRUE)
        /\ UNCHANGED <<reader, sender, table, pc, ctx>>
    BY <1>2 DEF RxKept
  <2>2. QueueInv'
    BY <2>1, ArriveQueue
  <2>3. TypeOK'
    BY <2>1, ArriveTypes DEF TypeOK, Queues, sender
  <2>4. SenderShape'
    BY <2>1 DEF SenderShape, sender
  <2>5. QED
    BY <2>2, <2>3, <2>4
<1>3. ASSUME NEW l \in Connections, NEW t, RxAck(l, t) PROVE Base'
  <2>1. /\ l \in Contexts /\ Arrive(l, FALSE)
        /\ UNCHANGED <<reader, out, tract, asks, sends, peerGot, result, table,
                       pc, ctx>>
    BY <1>3 DEF RxAck, Connections, Contexts
  <2>2. QueueInv'
    BY <2>1, ArriveQueue
  <2>3. ackTID' \in [Connections -> 0..MaxTid]
    BY <1>3, FramesAssumption DEF RxAck, TypeOK
  <2>4. TypeOK'
    BY <2>1, <2>3, ArriveTypes DEF TypeOK, Queues
  <2>5. SenderShape'
    BY <2>1 DEF SenderShape
  <2>6. QED
    BY <2>2, <2>4, <2>5
<1>4. CASE RxRequest
  <2>1. /\ Arrive("net", FALSE)
        /\ UNCHANGED <<reader, ackTID, asks, sends, peerGot, result, links, pc, ctx>>
    BY <1>4 DEF RxRequest
  <2>2. \/ UNCHANGED <<out, tract, linked>>
        \/ /\ FindSlot(inq) # 0
           /\ linked' = linked \/ \E l \in linked \ {Broadcast} : linked' = linked \ {l}
           /\ out' = [port |-> "net", tid |-> tract, ackReq |-> FALSE, msg |-> 0]
           /\ tract' = NextTid(tract)
    BY <1>4 DEF RxRequest
  <2>3. QueueInv'
    BY <1>1, <2>1, <2>2, ArriveQueue
  <2>4. /\ linked' \subseteq Links /\ tract' \in 1..MaxTid
        /\ out' \in [port : Contexts, tid : 0..MaxTid, ackReq : BOOLEAN, msg : 0..MaxSends]
    <3>1. linked' \subseteq Links /\ tract' \in 1..MaxTid
      BY <2>2, NextTidType DEF TypeOK
    <3>2. \/ out' = out
          \/ out' = [port |-> "net", tid |-> tract, ackReq |-> FALSE, msg |-> 0]
      BY <2>2
    <3>3. /\ tract \in 0..MaxTid /\ 0 \in 0..MaxSends
          /\ out \in [port : Contexts, tid : 0..MaxTid, ackReq : BOOLEAN,
                      msg : 0..MaxSends]
      BY FramesAssumption DEF TypeOK
    <3>4. out' \in [port : Contexts, tid : 0..MaxTid, ackReq : BOOLEAN,
                   msg : 0..MaxSends]
      <4>1. [port |-> "net", tid |-> tract, ackReq |-> FALSE, msg |-> 0]
              \in [port : Contexts, tid : 0..MaxTid, ackReq : BOOLEAN, msg : 0..MaxSends]
        BY <1>1, <3>3
      <4>2. QED
        BY <3>2, <3>3, <4>1, Zenon
    <3>5. QED
      BY <3>1, <3>4
  <2>5. TypeOK'
    BY <1>1, <2>1, <2>4, ArriveTypes DEF TypeOK, Queues
  <2>6. SenderShape'
    BY <2>1, <2>2 DEF SenderShape, TypeOK
  <2>7. QED
    BY <2>3, <2>5, <2>6
<1>5. CASE RxOther
  <2>1. Arrive("net", FALSE) /\ UNCHANGED <<reader, sender, table, pc, ctx>>
    BY <1>5 DEF RxOther
  <2>2. QueueInv'
    BY <1>1, <2>1, ArriveQueue
  <2>3. TypeOK'
    BY <1>1, <2>1, ArriveTypes DEF TypeOK, Queues, sender
  <2>4. SenderShape'
    BY <2>1 DEF SenderShape, sender
  <2>5. QED
    BY <2>2, <2>3, <2>4
<1>6. QED
  BY <1>2, <1>3, <1>4, <1>5 DEF Receive

-----------------------------------------------------------------------------
(* The reader.                                                             *)

\* The scan takes slots and gives them back; what is in them stays.
LEMMA UsageOnly ==
  ASSUME inq \in Queues, QueueInv, pc # "free", pc' # "free",
         \A i \in Slots : /\ inq'[i].frame = inq[i].frame
                          /\ inq'[i].stamp = inq[i].stamp
                          /\ inq[i].usage = "available" => inq'[i] = inq[i]
                          /\ inq[i].usage # "available" => inq'[i].usage # "available",
         UNCHANGED <<arrived, raced, delivered>>
  PROVE  FramesReceived' /\ HandedOnce' /\ StampsAreRanks'
<1>1. Busy(inq') = Busy(inq)
  BY DEF Busy
<1>2. FramesReceived'
  <2>1. Distinct(inq', Busy(inq'))
    BY <1>1 DEF QueueInv, FramesReceived, Distinct, Busy
  <2>2. \A i \in Slots \ Busy(inq') : inq'[i] = Available
    BY <1>1 DEF QueueInv, FramesReceived, Busy
  <2>3. \A i \in Busy(inq') : inq'[i].frame.number \in 1..arrived /\ inq'[i].stamp # 0
    BY <1>1 DEF QueueInv, FramesReceived, Busy
  <2>4. QED
    BY <2>1, <2>2, <2>3 DEF QueueInv, FramesReceived
<1>3. HandedOnce'
  BY DEF QueueInv, HandedOnce
<1>4. StampsAreRanks'
  BY <1>1 DEF QueueInv, StampsAreRanks, Unread, Ranked, Busy
<1>5. QED
  BY <1>2, <1>3, <1>4

LEMMA ReadStartBase ==
  ASSUME Base, NEW c \in Contexts, ReadStart(c)
  PROVE  Base'
<1> USE DEF Base
<1>1. /\ pc = "idle" /\ c \in linked \union {"net"}
      /\ pc' = "claim" /\ ctx' = c
      /\ slot' = 1 /\ held' = 0 /\ oldest' = InSize + 1
      /\ UNCHANGED <<inq, arrived, raced, sender, linked, links, delivered, stuck>>
  BY DEF ReadStart, queue, table
<1>2. TypeOK'
  BY <1>1, FramesAssumption DEF TypeOK, sender, Slots
<1>3. stuck \subseteq Slots
  BY DEF TypeOK
<1>4. ReaderShape'
  BY <1>1, <1>3, FramesAssumption DEF ReaderShape, Reading, Slots
<1>5. TransitionIsHeld'
  BY <1>1, FramesAssumption DEF QueueInv, TransitionIsHeld, Slots
<1>6. RoomIsLeft'
  BY <1>1 DEF QueueInv, RoomIsLeft
<1>7. FramesReceived' /\ HandedOnce' /\ StampsAreRanks'
  BY <1>1, UsageOnly DEF TypeOK, Queues
<1>8. SenderShape'
  BY <1>1 DEF SenderShape, Building
<1>9. QED
  BY <1>2, <1>4, <1>5, <1>6, <1>7, <1>8 DEF QueueInv

LEMMA ClaimBase == Base /\ Claim => Base'
<1> SUFFICES ASSUME Base, Claim PROVE Base'
  OBVIOUS
<1> USE DEF Base
<1>1. /\ pc = "claim" /\ slot \in Slots /\ inq \in Queues /\ held \in 0..InSize
      /\ UNCHANGED <<arrived, raced, held, oldest, delivered, stuck, sender,
                     linked, links, ctx>>
  BY DEF Claim, table, TypeOK, Queues
<1>2. held < slot /\ held \notin stuck
  BY <1>1 DEF QueueInv, ReaderShape
<1>3. CASE inq[slot].usage = "until_del"
  <2>1. /\ inq' = [inq EXCEPT ![slot].usage = "transition"]
        /\ pc' = "weigh" /\ slot' = slot
    BY <1>3 DEF Claim
  <2>2. /\ inq' \in Queues
        /\ inq'[slot].usage = "transition"
        /\ \A i \in Slots : /\ inq'[i].frame = inq[i].frame
                            /\ inq'[i].stamp = inq[i].stamp
                            /\ i # slot => inq'[i] = inq[i]
    BY <1>1, <2>1 DEF Queues
  <2>3. TypeOK'
    BY <1>1, <2>1, <2>2 DEF TypeOK, Queues, sender
  <2>4. TransitionIsHeld'
    BY <1>1, <1>2, <1>3, <2>1, <2>2 DEF QueueInv, TransitionIsHeld
  <2>5. slot \notin stuck
    BY <1>1, <1>3 DEF QueueInv, TransitionIsHeld
  <2>6. ReaderShape'
    BY <1>1, <1>2, <2>1, <2>5 DEF QueueInv, ReaderShape, Reading
  <2>7. RoomIsLeft'
    BY <1>1, <2>1, <2>2 DEF QueueInv, RoomIsLeft
  <2>8. FramesReceived' /\ HandedOnce' /\ StampsAreRanks'
    BY <1>1, <1>3, <2>1, <2>2, UsageOnly
  <2>9. SenderShape'
    BY <2>1 DEF SenderShape, Building
  <2>10. QED
    BY <2>3, <2>4, <2>6, <2>7, <2>8, <2>9 DEF QueueInv
<1>4. CASE inq[slot].usage # "until_del"
  <2>1. inq' = inq /\ Onwards(held)
    BY <1>4 DEF Claim
  <2>2. /\ slot' \in Slots
        /\ \/ pc' = "claim" /\ slot' = slot + 1
           \/ pc' = "idle" /\ held = 0
           \/ pc' = "adjust" /\ held # 0
    BY <1>1, <2>1, FramesAssumption DEF Onwards, Slots
  <2>3. TypeOK'
    BY <1>1, <2>1, <2>2 DEF TypeOK, sender
  <2>4. TransitionIsHeld'
    BY <1>1, <2>1, <2>2, FramesAssumption DEF QueueInv, TransitionIsHeld, Slots
  <2>5. ReaderShape'
    BY <1>1, <1>2, <2>2 DEF ReaderShape, Reading, Slots
  <2>6. RoomIsLeft'
    BY <1>1, <2>1, <2>2 DEF QueueInv, RoomIsLeft
  <2>7. FramesReceived' /\ HandedOnce' /\ StampsAreRanks'
    BY <1>1, <2>1, <2>2, UsageOnly
  <2>8. SenderShape'
    BY <2>2 DEF SenderShape, Building
  <2>9. QED
    BY <2>3, <2>4, <2>5, <2>6, <2>7, <2>8 DEF QueueInv
<1>5. QED
  BY <1>3, <1>4

LEMMA WeighBase == Base /\ Weigh => Base'
<1> SUFFICES ASSUME Base, Weigh PROVE Base'
  OBVIOUS
<1> USE DEF Base
<1> DEFINE better == inq[slot].frame.port = ctx /\ inq[slot].stamp < oldest
           found == IF better THEN slot ELSE held
           back == IF better THEN held ELSE slot
<1>1. /\ pc = "weigh" /\ slot \in Slots /\ inq \in Queues /\ held \in 0..InSize
      /\ UNCHANGED <<arrived, raced, delivered, stuck, sender, linked, links, ctx>>
  BY DEF Weigh, table, TypeOK, Queues
<1>2. held < slot /\ held \notin stuck /\ slot \notin stuck
  BY <1>1 DEF QueueInv, ReaderShape
<1>3. /\ held' = found /\ Onwards(found)
      /\ IF back = 0 THEN inq' = inq
         ELSE inq' = [inq EXCEPT ![back].usage = "until_del"]
  <2>1. slot # 0
    BY <1>1 DEF Slots
  <2>2. CASE better
    BY <2>2, <2>1 DEF Weigh, GiveBack
  <2>3. CASE ~better
    BY <2>3, <2>1 DEF Weigh, GiveBack
  <2>4. QED
    BY <2>2, <2>3
<1>4. oldest' \in 1..InSize + 1
  <2>1. CASE better
    <3>1. oldest' = inq[slot].stamp
      BY <2>1 DEF Weigh
    <3>2. inq[slot].stamp # 0
      BY <1>1 DEF QueueInv, FramesReceived, TransitionIsHeld, Busy
    <3>3. QED
      BY <3>1, <3>2, <1>1, FramesAssumption DEF Queues
  <2>2. CASE ~better
    BY <2>2 DEF Weigh, TypeOK
  <2>3. QED
    BY <2>1, <2>2
<1>5. back \in 0..InSize /\ found \in 0..InSize /\ back # found
  BY <1>1, <1>2, FramesAssumption DEF Slots
<1>6. /\ inq' \in Queues
      /\ \A i \in Slots :
           /\ inq'[i].frame = inq[i].frame /\ inq'[i].stamp = inq[i].stamp
           /\ i = back => inq'[i].usage = "until_del"
           /\ i # back => inq'[i] = inq[i]
  <2>1. CASE back = 0
    BY <1>1, <1>3, <2>1 DEF Slots
  <2>2. CASE back # 0
    <3>1. back \in Slots
      BY <1>5, <2>2 DEF Slots
    <3>2. QED
      BY <1>1, <1>3, <2>2, <3>1 DEF Queues
  <2>3. QED
    BY <2>1, <2>2
<1>7. \A i \in Slots : inq[i].usage = "transition" <=> i = held \/ i = slot \/ i \in stuck
  BY <1>1 DEF QueueInv, TransitionIsHeld
<1>8. {back, found} = {held, slot} /\ found \notin stuck /\ back \notin stuck
  BY <1>2
<1>9. found = slot => inq[slot].frame.port = ctx
  BY <1>1, <1>2 DEF Slots
<1> HIDE DEF better, found, back
<1>10. /\ slot' \in Slots
       /\ \/ pc' = "claim" /\ slot' = slot + 1
          \/ pc' = "idle" /\ found = 0
          \/ pc' = "adjust" /\ found # 0
  BY <1>1, <1>3, FramesAssumption DEF Onwards, Slots
<1>11. TypeOK'
  BY <1>1, <1>3, <1>4, <1>5, <1>6, <1>10 DEF TypeOK, Queues, sender
<1>12. \A i \in Slots : inq'[i].usage = "transition" <=> i = found \/ i \in stuck
  BY <1>5, <1>6, <1>7, <1>8
<1>13. TransitionIsHeld'
  <2>1. 0 \notin Slots
    BY DEF Slots
  <2>2. QED
    BY <1>1, <1>3, <1>10, <1>12, <2>1 DEF TransitionIsHeld
<1>14. ReaderShape'
  <2>1. found <= slot /\ found \in Nat /\ slot \in Nat
    <3>1. found = held \/ found = slot
      BY <1>8
    <3>2. QED
      BY <1>1, <1>2, <3>1, FramesAssumption DEF Slots
  <2>2. QED
    BY <1>1, <1>3, <1>8, <1>10, <2>1 DEF ReaderShape, Reading
<1>15. RoomIsLeft'
  <2>1. ASSUME ctx \notin linked \union {"net"}
        PROVE  \E i \in Slots \ stuck : i # found /\ inq'[i].frame.port # ctx
    <3>1. PICK i \in Slots \ stuck : i # held /\ inq[i].frame.port # ctx
      BY <1>1, <2>1 DEF QueueInv, RoomIsLeft
    <3>2. i # found
      BY <1>8, <1>9, <3>1
    <3>3. QED
      BY <1>6, <3>1, <3>2
  <2>2. QED
    BY <1>1, <1>3, <2>1 DEF QueueInv, RoomIsLeft
<1>16. FramesReceived' /\ HandedOnce' /\ StampsAreRanks'
  <2>1. back \in Slots => inq[back].usage = "transition"
    BY <1>7, <1>8
  <2>2. QED
    BY <1>1, <1>6, <1>10, <2>1, UsageOnly
<1>17. SenderShape'
  BY <1>10 DEF SenderShape, Building
<1>18. QED
  BY <1>11, <1>13, <1>14, <1>15, <1>16, <1>17 DEF QueueInv

LEMMA AdjustBase == Base /\ Adjust => Base'
<1> SUFFICES ASSUME Base, Adjust PROVE Base'
  OBVIOUS
<1> USE DEF Base
<1> DEFINE n == inq[held].frame.number
<1>1. /\ pc = "adjust" /\ pc' = "free" /\ inq \in Queues
      /\ inq' = AdjustOrder(inq, inq[held].stamp)
      /\ delivered' = Append(delivered, n)
      /\ UNCHANGED <<arrived, raced, slot, held, oldest, stuck, sender, linked,
                     links, ctx>>
  BY DEF Adjust, table, TypeOK, Queues
<1>2. held \in Slots /\ held # 0
  BY <1>1, FramesAssumption DEF QueueInv, ReaderShape, TypeOK, Slots
<1>3. inq[held].usage = "transition" /\ held \in Busy(inq)
  BY <1>1, <1>2 DEF QueueInv, TransitionIsHeld, Busy
<1>4. /\ inq[held].stamp \in 0..InSize /\ arrived \in 0..MaxArrivals
      /\ n \in 1..arrived /\ n \in 1..MaxArrivals
  BY <1>1, <1>2, <1>3, FramesAssumption DEF QueueInv, FramesReceived, Queues, TypeOK
<1> DEFINE a == AdjustOrder(inq, inq[held].stamp)
<1>5. /\ a \in Queues /\ Busy(a) = Busy(inq)
      /\ \A i \in Slots : /\ a[i].usage = inq[i].usage /\ a[i].frame = inq[i].frame
                          /\ i \notin Busy(inq) => a[i] = inq[i]
                          /\ a[i].stamp = IF i \in Busy(inq) /\ inq[i].stamp > inq[held].stamp
                                          THEN inq[i].stamp - 1 ELSE inq[i].stamp
  BY <1>1, <1>4, AdjustOrderFacts
<1>6. Ranked(inq, Busy(inq)) /\ Distinct(inq, Busy(inq)) => Ranked(a, Busy(inq) \ {held})
  BY <1>1, <1>3, RanksClose
<1>7. inq' = a
  BY <1>1
<1> HIDE DEF a, n
<1>8. n \notin Range(delivered)
  BY <1>1, <1>2 DEF QueueInv, HandedOnce, n
<1>9. /\ delivered \in Seq(1..MaxArrivals) /\ delivered' \in Seq(1..MaxArrivals)
      /\ Range(delivered') = Range(delivered) \union {n}
  <2>1. delivered \in Seq(1..MaxArrivals)
    BY DEF TypeOK
  <2>2. delivered' \in Seq(1..MaxArrivals)
    BY <1>1, <1>4, <2>1
  <2>3. /\ DOMAIN delivered' = 1..(Len(delivered) + 1)
        /\ delivered'[Len(delivered) + 1] = n
        /\ DOMAIN delivered = 1..Len(delivered) /\ Len(delivered) \in Nat
        /\ \A i \in 1..Len(delivered) : delivered'[i] = delivered[i]
    BY <1>1, <2>1
  <2>4. Range(delivered') = Range(delivered) \union {n}
    BY <2>3 DEF Range
  <2>5. QED
    BY <2>1, <2>2, <2>4
<1>10. IsInjective(delivered')
  <2>1. /\ DOMAIN delivered' = 1..(Len(delivered) + 1)
        /\ delivered'[Len(delivered) + 1] = n
        /\ DOMAIN delivered = 1..Len(delivered) /\ Len(delivered) \in Nat
        /\ \A i \in 1..Len(delivered) : delivered'[i] = delivered[i]
    BY <1>1, <1>9
  <2>2. \A i \in 1..Len(delivered) : delivered[i] # n
    BY <1>8, <2>1 DEF Range
  <2>3. IsInjective(delivered)
    BY DEF QueueInv, HandedOnce
  <2>4. QED
    BY <2>1, <2>2, <2>3 DEF IsInjective
<1>11. HandedOnce'
  <2>1. ASSUME NEW i \in Slots, inq'[i].frame.number \in Range(delivered')
        PROVE  i = held
    <3>1. inq[i].frame.number \in Range(delivered) \union {n}
      BY <1>5, <1>7, <1>9, <2>1
    <3>2. inq[i].frame.number \notin Range(delivered)
      BY <1>1 DEF QueueInv, HandedOnce
    <3>3. inq[i].frame.number = n /\ n # 0
      BY <1>4, <3>1, <3>2
    <3>4. i \in Busy(inq)
      BY <3>3 DEF QueueInv, FramesReceived, Available, NoFrame
    <3>5. QED
      BY <1>3, <3>3, <3>4 DEF QueueInv, FramesReceived, Distinct, n
  <2>2. QED
    BY <1>1, <1>10, <2>1 DEF HandedOnce
<1>12. TransitionIsHeld'
  BY <1>1, <1>5, <1>7 DEF QueueInv, TransitionIsHeld
<1>13. ReaderShape'
  BY <1>1 DEF QueueInv, ReaderShape, Reading
<1>14. RoomIsLeft'
  BY <1>1 DEF QueueInv, RoomIsLeft
<1>15. FramesReceived'
  <2>1. Distinct(inq', Busy(inq'))
    BY <1>5, <1>7 DEF QueueInv, FramesReceived, Distinct, Busy
  <2>2. \A i \in Busy(inq') : inq'[i].frame.number \in 1..arrived /\ inq'[i].stamp # 0
    <3>1. inq[held].stamp # 0
      BY <1>3 DEF QueueInv, FramesReceived
    <3>2. \A i \in Busy(inq) : /\ inq[i].frame.number \in 1..arrived
                               /\ inq[i].stamp # 0 /\ inq[i].stamp \in 0..InSize
                               /\ i \in Slots
      BY <1>1 DEF QueueInv, FramesReceived, Busy, Queues
    <3>3. QED
      BY <1>4, <1>5, <1>7, <3>1, <3>2
  <2>3. \A i \in Slots \ Busy(inq') : inq'[i] = Available
    BY <1>5, <1>7 DEF QueueInv, FramesReceived
  <2>4. \A k \in Range(delivered') : k \in 1..arrived
    BY <1>4, <1>9 DEF QueueInv, FramesReceived
  <2>5. QED
    BY <1>1, <2>1, <2>2, <2>3, <2>4 DEF FramesReceived
<1>16. StampsAreRanks'
  <2> SUFFICES ASSUME ~raced PROVE Ranked(inq, Unread)'
    BY <1>1 DEF StampsAreRanks
  <2>1. Ranked(inq, Busy(inq)) /\ Distinct(inq, Busy(inq))
    BY <1>1 DEF QueueInv, StampsAreRanks, Unread, FramesReceived
  <2>2. Ranked(inq', Busy(inq') \ {held})
    BY <1>5, <1>6, <1>7, <2>1
  <2>3. QED
    BY <1>1, <2>2 DEF Unread, Ranked
<1>17. TypeOK'
  BY <1>1, <1>5, <1>7, <1>9 DEF TypeOK, Queues, sender
<1>18. SenderShape'
  BY <1>1 DEF SenderShape, Building
<1>19. QED
  BY <1>11, <1>12, <1>13, <1>14, <1>15, <1>16, <1>17, <1>18 DEF QueueInv

LEMMA DropBase == Base /\ Drop => Base'
<1> SUFFICES ASSUME Base, Drop PROVE Base'
  OBVIOUS
<1> USE DEF Base
<1>1. /\ pc = "adjust" /\ pc' = "idle" /\ held' = 0
      /\ ctx \notin linked \union {"net"} /\ stuck' = stuck \union {held}
      /\ UNCHANGED <<inq, arrived, raced, slot, oldest, delivered, sender, linked,
                     links, ctx>>
  BY DEF Drop, queue, table
<1>2. held \in Slots /\ 0 \notin Slots /\ stuck \subseteq Slots
  BY <1>1, FramesAssumption DEF QueueInv, ReaderShape, TypeOK, Slots
<1>3. TypeOK'
  BY <1>1, <1>2, FramesAssumption DEF TypeOK, sender
<1>4. TransitionIsHeld'
  BY <1>1, <1>2 DEF QueueInv, TransitionIsHeld
<1>5. ReaderShape'
  BY <1>1, <1>2 DEF QueueInv, ReaderShape
<1>6. RoomIsLeft'
  <2>1. PICK i \in Slots \ stuck : i # held
    BY <1>1 DEF QueueInv, RoomIsLeft
  <2>2. stuck' # Slots
    BY <1>1, <2>1
  <2>3. QED
    BY <1>1, <2>2 DEF RoomIsLeft
<1>7. FramesReceived' /\ HandedOnce' /\ StampsAreRanks'
  BY <1>1, UsageOnly DEF TypeOK, Queues
<1>8. SenderShape'
  BY <1>1 DEF SenderShape, Building
<1>9. QED
  BY <1>3, <1>4, <1>5, <1>6, <1>7, <1>8 DEF QueueInv

LEMMA FreeBase == Base /\ Free => Base'
<1> SUFFICES ASSUME Base, Free PROVE Base'
  OBVIOUS
<1> USE DEF Base
<1>1. /\ pc = "free" /\ pc' = "idle" /\ held' = 0 /\ inq \in Queues
      /\ inq' = [inq EXCEPT ![held] = Available]
      /\ UNCHANGED <<arrived, raced, slot, oldest, delivered, stuck, sender, linked,
                     links, ctx>>
  BY DEF Free, table, TypeOK, Queues
<1>2. held \in Slots /\ 0 \notin Slots /\ stuck \subseteq Slots /\ held \notin stuck
  BY <1>1, FramesAssumption DEF QueueInv, ReaderShape, TypeOK, Slots
<1>3. /\ inq'[held] = Available /\ \A i \in Slots \ {held} : inq'[i] = inq[i]
      /\ inq' \in Queues
  <2>1. Available \in [usage : {"available", "until_del", "transition"},
                       stamp : 0..InSize,
                       frame : [number : 0..MaxArrivals, port : Contexts]]
    BY FramesAssumption DEF Available, NoFrame, Contexts
  <2>2. QED
    BY <1>1, <1>2, <2>1 DEF Queues
<1>4. TypeOK'
  BY <1>1, <1>3, FramesAssumption DEF TypeOK, Queues, sender
<1>5. Available.usage = "available" /\ Available.frame.number = 0
  BY DEF Available, NoFrame
<1>6. TransitionIsHeld'
  BY <1>1, <1>2, <1>3, <1>5 DEF QueueInv, TransitionIsHeld
<1>7. ReaderShape'
  BY <1>1, <1>2 DEF QueueInv, ReaderShape
<1>8. RoomIsLeft'
  BY <1>1 DEF QueueInv, RoomIsLeft
<1>9. Busy(inq') = Busy(inq) \ {held}
  BY <1>2, <1>3, <1>5 DEF Busy
<1>10. FramesReceived'
  <2>1. \A i \in Busy(inq') : i \in Busy(inq) /\ inq'[i] = inq[i]
    BY <1>3, <1>9 DEF Busy
  <2>2. \A i \in Slots \ Busy(inq') : inq'[i] = Available
    BY <1>3, <1>9 DEF QueueInv, FramesReceived
  <2>3. Distinct(inq', Busy(inq'))
    BY <2>1 DEF QueueInv, FramesReceived, Distinct
  <2>4. QED
    BY <1>1, <2>1, <2>2, <2>3 DEF QueueInv, FramesReceived
<1>11. HandedOnce'
  <2>1. 0 \notin Range(delivered)
    BY DEF QueueInv, FramesReceived
  <2>2. QED
    BY <1>1, <1>3, <1>5, <2>1 DEF QueueInv, HandedOnce
<1>12. StampsAreRanks'
  <2> SUFFICES ASSUME ~raced PROVE Ranked(inq, Unread)'
    BY <1>1 DEF StampsAreRanks
  <2>1. Ranked(inq, Busy(inq) \ {held})
    BY <1>1 DEF QueueInv, StampsAreRanks, Unread
  <2>2. \A i \in Busy(inq) \ {held} : inq'[i] = inq[i]
    BY <1>3 DEF Busy
  <2>3. Ranked(inq', Busy(inq'))
    BY <1>9, <2>1, <2>2 DEF Ranked
  <2>4. QED
    BY <1>1, <2>3 DEF Unread, Ranked
<1>13. SenderShape'
  BY <1>1 DEF SenderShape, Building
<1>14. QED
  BY <1>4, <1>6, <1>7, <1>8, <1>10, <1>11, <1>12, <1>13 DEF QueueInv

-----------------------------------------------------------------------------
(* The sender.                                                             *)

\* What the sender does leaves the input queue and the reader alone.
LEMMA SendingKeepsQueue ==
  ASSUME TypeOK, QueueInv, UNCHANGED <<queue, reader>>,
         pc \notin Reading, pc' \notin Reading
  PROVE  QueueInv'
<1>1. /\ UNCHANGED <<inq, arrived, raced, slot, held, oldest, delivered, stuck>>
      /\ inq \in Queues
  BY DEF queue, reader, TypeOK, Queues
<1>2. TransitionIsHeld'
  BY <1>1 DEF QueueInv, TransitionIsHeld, Reading
<1>3. ReaderShape'
  BY <1>1 DEF QueueInv, ReaderShape, Reading
<1>4. RoomIsLeft'
  BY <1>1 DEF QueueInv, RoomIsLeft, Reading
<1>5. FramesReceived' /\ HandedOnce' /\ StampsAreRanks'
  BY <1>1, UsageOnly DEF Reading
<1>6. QED
  BY <1>2, <1>3, <1>4, <1>5 DEF QueueInv

LEMMA RelinkBase ==
  ASSUME Base, NEW l \in Links, Relink(l)
  PROVE  Base'
<1>1. /\ pc = "idle" /\ links < MaxLinks /\ linked' = linked \union {l}
      /\ links' = links + 1 /\ UNCHANGED <<queue, reader, sender, pc, ctx>>
  BY DEF Relink
<1>2. QueueInv'
  BY <1>1, SendingKeepsQueue DEF Base, Reading
<1>3. TypeOK'
  BY <1>1, FramesAssumption DEF Base, TypeOK, queue, reader, sender
<1>4. SenderShape'
  BY <1>1 DEF Base, SenderShape, sender
<1>5. QED
  BY <1>2, <1>3, <1>4 DEF Base

LEMMA SendStartBase ==
  ASSUME Base, NEW l \in Links, NEW ack \in BOOLEAN, SendStart(l, ack)
  PROVE  Base'
<1>1. /\ pc = "idle" /\ sends < MaxSends /\ pc' = "head" /\ (ack => l # Broadcast)
      /\ ctx' = l /\ asks' = ack /\ sends' = sends + 1 /\ result' = "none"
      /\ UNCHANGED <<queue, reader, table, out, tract, ackTID, peerGot>>
  BY DEF SendStart
<1>2. QueueInv'
  BY <1>1, SendingKeepsQueue DEF Base, Reading
<1>3. TypeOK'
  BY <1>1, FramesAssumption DEF Base, TypeOK, queue, reader, table, Contexts
<1>4. SenderShape'
  BY <1>1 DEF SenderShape, Building
<1>5. QED
  BY <1>2, <1>3, <1>4 DEF Base

\* A frame the sender builds keeps its type.
LEMMA BuildType ==
  ASSUME TypeOK
  PROVE  /\ out.tid \in 0..MaxTid /\ tract \in 1..MaxTid
         /\ [out EXCEPT !.msg = sends]
              \in [port : Contexts, tid : 0..MaxTid, ackReq : BOOLEAN, msg : 0..MaxSends]
         /\ \A b \in BOOLEAN : [out EXCEPT !.ackReq = b]
              \in [port : Contexts, tid : 0..MaxTid, ackReq : BOOLEAN, msg : 0..MaxSends]
         /\ [out EXCEPT !.port = ctx, !.tid = tract]
              \in [port : Contexts, tid : 0..MaxTid, ackReq : BOOLEAN, msg : 0..MaxSends]
<1>1. /\ out \in [port : Contexts, tid : 0..MaxTid, ackReq : BOOLEAN, msg : 0..MaxSends]
      /\ tract \in 1..MaxTid /\ ctx \in Contexts /\ sends \in 0..MaxSends
  BY DEF TypeOK
<1>2. out.tid \in 0..MaxTid /\ tract \in 0..MaxTid
  BY <1>1, FramesAssumption
<1>3. QED
  BY <1>1, <1>2

LEMMA BuildBase ==
  ASSUME Base, BuildHead \/ BuildCount \/ BuildBody \/ BuildRemember \/ BuildAsk
  PROVE  Base'
<1>1. TypeOK /\ SenderShape
  BY DEF Base
<1>2. CASE BuildHead
  <2>1. /\ pc = "head" /\ pc' = "count"
        /\ out' = [out EXCEPT !.port = ctx, !.tid = tract]
        /\ UNCHANGED <<queue, reader, tract, ackTID, asks, sends, peerGot, result,
                       table, ctx>>
    BY <1>2 DEF BuildHead
  <2>2. QueueInv'
    BY <1>1, <2>1, SendingKeepsQueue DEF Base, Reading
  <2>3. TypeOK'
    BY <1>1, <2>1, BuildType DEF TypeOK, queue, reader, table
  <2>4. SenderShape'
    <3>1. out'.tid # 0
      BY <1>1, <2>1 DEF TypeOK
    <3>2. QED
      BY <1>1, <2>1, <3>1 DEF SenderShape, Building
  <2>5. QED
    BY <2>2, <2>3, <2>4 DEF Base
<1>3. CASE BuildCount
  <2>1. /\ pc = "count" /\ pc' = "body" /\ tract' = NextTid(tract)
        /\ out' = [out EXCEPT !.ackReq = FALSE]
        /\ UNCHANGED <<queue, reader, ackTID, asks, sends, peerGot, result, table, ctx>>
    BY <1>3 DEF BuildCount
  <2>2. QueueInv'
    BY <1>1, <2>1, SendingKeepsQueue DEF Base, Reading
  <2>3. TypeOK'
    <3>1. tract' \in 1..MaxTid
      BY <1>1, <2>1, BuildType, NextTidType
    <3>2. out' \in [port : Contexts, tid : 0..MaxTid, ackReq : BOOLEAN,
                    msg : 0..MaxSends]
      BY <1>1, <2>1, BuildType
    <3>3. QED
      BY <1>1, <2>1, <3>1, <3>2 DEF TypeOK, queue, reader, table
  <2>4. SenderShape'
    <3>1. out'.tid = out.tid
      BY <1>1, <2>1 DEF TypeOK
    <3>2. QED
      BY <1>1, <2>1, <3>1 DEF SenderShape, Building
  <2>5. QED
    BY <2>2, <2>3, <2>4 DEF Base
<1>4. CASE BuildBody
  <2>1. /\ pc = "body" /\ pc' = IF asks THEN "remember" ELSE "transmit"
        /\ out' = [out EXCEPT !.msg = sends]
        /\ UNCHANGED <<queue, reader, tract, ackTID, asks, sends, peerGot, result,
                       table, ctx>>
    BY <1>4 DEF BuildBody
  <2>2. QueueInv'
    BY <1>1, <2>1, SendingKeepsQueue DEF Base, Reading
  <2>3. TypeOK'
    BY <1>1, <2>1, BuildType DEF TypeOK, queue, reader, table
  <2>4. SenderShape'
    <3>1. out'.tid = out.tid /\ out'.msg = sends
      BY <1>1, <2>1 DEF TypeOK
    <3>2. QED
      BY <1>1, <2>1, <3>1 DEF SenderShape, Building
  <2>5. QED
    BY <2>2, <2>3, <2>4 DEF Base
<1>5. CASE BuildRemember
  <2>1. /\ pc = "remember" /\ pc' = "ask"
        /\ ackTID' = [ackTID EXCEPT ![ctx] = out.tid]
        /\ UNCHANGED <<queue, reader, out, tract, asks, sends, peerGot, result,
                       table, ctx>>
    BY <1>5 DEF BuildRemember
  <2>2. QueueInv'
    BY <1>1, <2>1, SendingKeepsQueue DEF Base, Reading
  <2>3. TypeOK'
    <3>1. ackTID' \in [Connections -> 0..MaxTid]
      BY <1>1, <2>1, BuildType DEF TypeOK
    <3>2. QED
      BY <1>1, <2>1, <3>1 DEF TypeOK, queue, reader, table
  <2>4. SenderShape'
    BY <1>1, <2>1 DEF SenderShape, Building
  <2>5. QED
    BY <2>2, <2>3, <2>4 DEF Base
<1>6. CASE BuildAsk
  <2>1. /\ pc = "ask" /\ pc' = "transmit" /\ out' = [out EXCEPT !.ackReq = TRUE]
        /\ UNCHANGED <<queue, reader, tract, ackTID, asks, sends, peerGot, result,
                       table, ctx>>
    BY <1>6 DEF BuildAsk
  <2>2. QueueInv'
    BY <1>1, <2>1, SendingKeepsQueue DEF Base, Reading
  <2>3. TypeOK'
    BY <1>1, <2>1, BuildType DEF TypeOK, queue, reader, table
  <2>4. SenderShape'
    <3>1. out'.tid = out.tid /\ out'.msg = out.msg /\ out'.port = out.port
      BY <1>1, <2>1 DEF TypeOK
    <3>2. QED
      BY <1>1, <2>1, <3>1 DEF SenderShape, Building
  <2>5. QED
    BY <2>2, <2>3, <2>4 DEF Base
<1>7. QED
  BY <1>2, <1>3, <1>4, <1>5, <1>6

LEMMA TransmitBase == Base /\ Transmit => Base'
<1> SUFFICES ASSUME Base, Transmit PROVE Base'
  OBVIOUS
<1>1. /\ pc = "transmit"
      /\ UNCHANGED <<queue, reader, out, tract, ackTID, asks, sends, table, ctx>>
      /\ pc' = "idle" \/ (pc' = "judge" /\ asks)
      /\ result' \in {"none", "sent", "cca_fail"}
      /\ \/ peerGot' = peerGot
         \/ peerGot' = peerGot \union {[tid |-> out.tid, msg |-> out.msg]}
  BY DEF Transmit
<1>2. TypeOK /\ SenderShape
  BY DEF Base
<1>3. QueueInv'
  BY <1>1, SendingKeepsQueue DEF Base, Reading
<1>4. peerGot' \subseteq [tid : 1..MaxTid, msg : 0..MaxSends]
  <2>1. out.tid \in 1..MaxTid /\ out.msg \in 0..MaxSends
    BY <1>1, <1>2, FramesAssumption DEF TypeOK, SenderShape
  <2>2. QED
    BY <1>1, <1>2, <2>1 DEF TypeOK
<1>5. TypeOK'
  BY <1>1, <1>2, <1>4 DEF TypeOK, queue, reader, table
<1>6. SenderShape'
  BY <1>1, <1>2 DEF SenderShape, Building
<1>7. QED
  BY <1>3, <1>5, <1>6 DEF Base

LEMMA JudgeAckBase == Base /\ JudgeAck => Base'
<1> SUFFICES ASSUME Base, JudgeAck PROVE Base'
  OBVIOUS
<1>1. /\ pc = "judge" /\ pc' = "idle" /\ result' \in {"no_ack", "acked"}
      /\ ackTID' = [ackTID EXCEPT ![ctx] = 0]
      /\ UNCHANGED <<queue, reader, out, tract, asks, sends, peerGot, table, ctx>>
  BY DEF JudgeAck
<1>2. QueueInv'
  BY <1>1, SendingKeepsQueue DEF Base, Reading
<1>3. TypeOK'
  <2>1. ackTID' \in [Connections -> 0..MaxTid]
    <3>1. ackTID \in [Connections -> 0..MaxTid] /\ 0 \in 0..MaxTid
      BY FramesAssumption DEF Base, TypeOK
    <3>2. QED
      BY <1>1, <3>1
  <2>2. QED
    BY <1>1, <2>1 DEF Base, TypeOK, queue, reader, table
<1>4. SenderShape'
  BY <1>1 DEF SenderShape, Building
<1>5. QED
  BY <1>2, <1>3, <1>4 DEF Base

-----------------------------------------------------------------------------
(* The invariant holds in every state.                                     *)

LEMMA InitBase == Init => Base
<1> SUFFICES ASSUME Init PROVE Base
  OBVIOUS
<1>1. \A i \in Slots : inq[i] = Available
  BY DEF Init
<1>2. /\ Available.usage = "available" /\ Available.frame.number = 0
      /\ Available \in [usage : {"available", "until_del", "transition"},
                        stamp : 0..InSize,
                        frame : [number : 0..MaxArrivals, port : Contexts]]
  BY FramesAssumption DEF Available, NoFrame, Contexts
<1>3. Busy(inq) = {} /\ Range(delivered) = {}
  BY <1>1, <1>2 DEF Busy, Init, Range
<1>4. TypeOK
  <2>1. out \in [port : Contexts, tid : 0..MaxTid, ackReq : BOOLEAN, msg : 0..MaxSends]
    BY FramesAssumption DEF Init, Contexts
  <2>2. delivered \in Seq(1..MaxArrivals)
    BY DEF Init
  <2>3. inq \in Queues
    BY <1>1, <1>2 DEF Init, Queues
  <2>4. ackTID \in [Connections -> 0..MaxTid]
    BY FramesAssumption DEF Init
  <2>5. /\ tract \in 1..MaxTid /\ ctx \in Contexts
        /\ slot \in Slots /\ held \in 0..InSize /\ oldest \in 1..InSize + 1
        /\ arrived \in 0..MaxArrivals /\ sends \in 0..MaxSends
        /\ linked \subseteq Links /\ links \in 0..MaxLinks
    BY FramesAssumption DEF Init, Contexts, Slots
  <2>6. QED
    BY <2>1, <2>2, <2>3, <2>4, <2>5 DEF Init, TypeOK, Queues
<1>5. TransitionIsHeld
  BY <1>1, <1>2 DEF Init, TransitionIsHeld
<1>6. ReaderShape /\ RoomIsLeft
  <2>1. 1 \in Slots
    BY FramesAssumption DEF Slots
  <2>2. QED
    BY <2>1 DEF Init, ReaderShape, RoomIsLeft
<1>7. FramesReceived
  BY <1>1, <1>3 DEF FramesReceived, Distinct
<1>8. HandedOnce
  BY <1>3 DEF Init, HandedOnce, IsInjective
<1>9. StampsAreRanks
  BY <1>3 DEF Init, StampsAreRanks, Unread, Ranked
<1>10. SenderShape
  BY DEF Init, SenderShape, Building
<1>11. QED
  BY <1>4, <1>5, <1>6, <1>7, <1>8, <1>9, <1>10 DEF Base, QueueInv

LEMMA NextBase == Base /\ [Next]_vars => Base'
<1> SUFFICES ASSUME Base, [Next]_vars PROVE Base'
  OBVIOUS
<1>1. CASE Receive
  BY <1>1, ReceiveBase
<1>2. CASE Thread
  BY <1>2, RelinkBase, ReadStartBase, ClaimBase, WeighBase, AdjustBase, FreeBase,
     DropBase, SendStartBase, BuildBase, TransmitBase, JudgeAckBase DEF Thread
<1>3. CASE UNCHANGED vars
  <2>1. UNCHANGED <<inq, arrived, raced, slot, held, oldest, delivered, stuck, out,
                    tract, ackTID, asks, sends, peerGot, result, linked, links,
                    pc, ctx>>
    BY <1>3 DEF vars, queue, reader, sender, table
  <2>2. TypeOK' /\ SenderShape'
    BY <2>1 DEF Base, TypeOK, SenderShape
  <2>3. TransitionIsHeld' /\ ReaderShape' /\ RoomIsLeft' /\ HandedOnce'
    BY <2>1 DEF Base, QueueInv, TransitionIsHeld, ReaderShape, RoomIsLeft, HandedOnce
  <2>4. Busy(inq)' = Busy(inq) /\ Unread' = Unread
    BY <2>1 DEF Busy, Unread
  <2>5. FramesReceived' /\ StampsAreRanks'
    BY <2>1, <2>4 DEF Base, QueueInv, FramesReceived, StampsAreRanks, Distinct, Ranked
  <2>6. QED
    BY <2>2, <2>3, <2>5 DEF Base, QueueInv
<1>4. QED
  BY <1>1, <1>2, <1>3 DEF Next

LEMMA BaseAlways == Spec => []Base
BY InitBase, NextBase, PTL DEF Spec

-----------------------------------------------------------------------------
(* The properties.                                                         *)

\* Every slot is free, waiting or in the reader's hands, a received frame finds
\* one whenever the application is not reading, and all types are kept
\* (nwk_QMgmt.c, nwk_QfindOldest and nwk_retrieveFrame).
THEOREM SlotsAlwaysAccounted == Spec => []SlotsAccounted
<1>1. Base => SlotsAccounted
  <2> SUFFICES ASSUME Base PROVE SlotsAccounted
    OBVIOUS
  <2>1. TypeOK /\ TransitionIsHeld /\ inq \in Queues
    BY DEF Base, QueueInv, TypeOK, Queues
  <2>2. ASSUME pc = "idle" PROVE FindSlot(inq) # 0
    <3>1. PICK i \in Slots : i \notin stuck
      BY <2>1 DEF Base, QueueInv, RoomIsLeft, TypeOK
    <3>2. inq[i].usage # "transition"
      BY <2>1, <2>2, <3>1 DEF TransitionIsHeld
    <3>3. QED
      BY <2>1, <3>2, FindSlotFacts
  <2>3. QED
    BY <2>1, <2>2 DEF SlotsAccounted, SlotUnlessReading
<1>2. QED
  BY <1>1, BaseAlways, PTL

\* A reader gets each frame at most once, and as long as no frame came in while
\* one was giving back its slot the stamps tell the order of arrival, so that
\* nwk_QfindOldest chooses the oldest.
THEOREM AlwaysReadInOrder == Spec => []ReadInOrder
<1>1. Base => ReadInOrder
  <2> SUFFICES ASSUME Base PROVE ReadInOrder
    OBVIOUS
  <2>1. StampsFollowArrival
    BY DEF Base, QueueInv, StampsAreRanks, Unread, Ranked, StampsFollowArrival
  <2>2. QED
    BY <2>1 DEF Base, QueueInv, ReadInOrder
<1>2. QED
  BY <1>1, BaseAlways, PTL

\* The interrupt takes an unread frame's slot only when all are busy, never one
\* the reader copies from, and then the oldest it may take (nwk_QfindSlot).
THEOREM AlwaysEvictsOldest == Spec => EvictsOldest
<1> DEFINE Evicts(i) == /\ Busy(inq) = Slots
                        /\ inq[i].usage = "until_del"
                        /\ (~raced => \A j \in Evictable(inq) :
                                       inq[i].frame.number <= inq[j].frame.number)
<1>1. ASSUME Base, [Next]_vars, NEW i \in Slots, inq[i].frame # NoFrame,
             inq'[i].frame # inq[i].frame, arrived' # arrived
      PROVE  Evicts(i)
  <2>1. Receive
    <3>1. UNCHANGED vars => UNCHANGED arrived
      BY DEF vars, queue
    <3>2. Thread => UNCHANGED arrived
      BY DEF Thread, Relink, ReadStart, Claim, Weigh, Adjust, Free, Drop, SendStart,
         BuildHead, BuildCount, BuildBody, BuildRemember, BuildAsk, Transmit,
         JudgeAck, queue
    <3>3. QED
      BY <1>1, <3>1, <3>2 DEF Next
  <2>2. PICK port \in Contexts, keep \in BOOLEAN : Arrive(port, keep)
    BY <2>1 DEF Receive, RxKept, RxAck, RxRequest, RxOther, Connections, Contexts
  <2> DEFINE f == [number |-> arrived + 1, port |-> port]
  <2>3. TypeOK /\ inq \in Queues /\ f \in [number : 0..MaxArrivals, port : Contexts]
    BY <1>1, <2>2, ArriveTypes DEF Base
  <2>4. PICK s \in Slots : s = FindSlot(inq) /\ inq' = Placed(inq, f, keep)
    BY <1>1, <2>2, <2>3, FindSlotFacts DEF Arrive
  <2> HIDE DEF f
  <2>5. i = s
    BY <1>1, <2>3, <2>4, PlacedFacts
  <2>6. i \in Busy(inq)
    BY <1>1 DEF Base, QueueInv, FramesReceived, Available
  <2>7. Busy(inq) = Slots /\ i = Oldest(inq) /\ Evictable(inq) # {}
    <3>1. FindSlot(inq) # 0
      BY <2>4, FramesAssumption DEF Slots
    <3>2. QED
      BY <2>3, <2>4, <2>5, <2>6, <3>1, FindSlotFacts
  <2>8. /\ i \in Evictable(inq)
        /\ \A j \in Evictable(inq) : inq[i].stamp <= inq[j].stamp
    BY <2>3, <2>7, OldestFacts
  <2>9. ASSUME ~raced, NEW j \in Evictable(inq)
        PROVE  inq[i].frame.number <= inq[j].frame.number
    <3>1. Evictable(inq) \subseteq Unread
      BY <1>1 DEF Evictable, Unread, Busy, Base, QueueInv, TransitionIsHeld
    <3>2. /\ inq[j].frame.number < inq[i].frame.number
               <=> inq[j].stamp < inq[i].stamp
          /\ inq[i].stamp <= inq[j].stamp
      BY <1>1, <2>8, <2>9, <3>1 DEF Base, QueueInv, StampsAreRanks, Ranked
    <3>3. /\ inq[i].stamp \in Nat /\ inq[j].stamp \in Nat
          /\ inq[i].frame.number \in Nat /\ inq[j].frame.number \in Nat
      BY <2>3 DEF Queues, Evictable
    <3>4. QED
      BY <3>2, <3>3
  <2>10. QED
    BY <2>7, <2>8, <2>9 DEF Evictable
<1>2. Base /\ [Next]_vars =>
        [\A i \in Slots :
           inq[i].frame # NoFrame /\ inq'[i].frame # inq[i].frame /\ arrived' # arrived =>
             Evicts(i)]_vars
  BY <1>1
<1>3. QED
  BY <1>2, BaseAlways, PTL DEF Spec, EvictsOldest

-----------------------------------------------------------------------------
(* Acknowledgements.                                                       *)

\* How many transaction IDs were used before t is.
Index(t) == IF t >= FirstTid THEN t - FirstTid ELSE t - FirstTid + MaxTid

\* No transaction ID comes back while a frame that had it is under way.  The
\* peer got none that is not behind sTRACTID, nor that of the frame being built.
TidsAreNew ==
  /\ \A p \in peerGot : Index(p.tid) < Index(tract)
  /\ Index(tract) <= arrived + sends - (IF pc \in {"head", "count"} THEN 1 ELSE 0)
  /\ pc = "count" => Index(out.tid) <= Index(tract)
  /\ pc \in {"body", "remember", "ask", "transmit"} => Index(out.tid) < Index(tract)
  /\ pc \in {"count", "body", "remember"} => \A p \in peerGot : p.tid # out.tid

\* The connection waits for the acknowledgement of the message being sent, and
\* has stopped waiting only when the peer got that message.
AckMeansGot ==
  pc \in {"ask", "judge"} \/ (pc = "transmit" /\ asks) =>
    IF ackTID[ctx] = 0 THEN \E p \in peerGot : p.msg = sends
    ELSE \A p \in peerGot : p.tid = ackTID[ctx] => p.msg = sends

AckInv == TidsAreNew /\ AckMeansGot /\ AckedIsReceived

\* More transaction IDs than frames: none is used twice.
NoTidTwice == MaxSends + MaxArrivals < MaxTid

LEMMA IndexFacts ==
  ASSUME NEW t \in 1..MaxTid
  PROVE  /\ Index(t) \in 0..MaxTid - 1
         /\ \A u \in 1..MaxTid : Index(u) = Index(t) => u = t
         /\ Index(t) < MaxTid - 1 => Index(NextTid(t)) = Index(t) + 1
BY FramesAssumption DEF Index, NextTid

\* What the proofs below use of the invariant and of the types.
LEMMA AckTypes ==
  ASSUME NoTidTwice, Base, AckInv
  PROVE  /\ tract \in 1..MaxTid /\ Index(tract) \in Nat
         /\ arrived \in Nat /\ sends \in Nat
         /\ arrived <= MaxArrivals /\ sends <= MaxSends
         /\ \A p \in peerGot : p.tid \in 1..MaxTid /\ Index(p.tid) \in Nat
         /\ Index(tract) <= arrived + sends
         /\ \A p \in peerGot : p.tid # tract
<1>1. /\ tract \in 1..MaxTid /\ \A p \in peerGot : p.tid \in 1..MaxTid
      /\ arrived \in 0..MaxArrivals /\ sends \in 0..MaxSends
  BY DEF Base, TypeOK
<1>2. /\ Index(tract) \in 0..MaxTid - 1
      /\ \A p \in peerGot : Index(p.tid) \in 0..MaxTid - 1
  BY <1>1, IndexFacts
<1>3. Index(tract) <= arrived + sends
  BY <1>1, <1>2, FramesAssumption DEF AckInv, TidsAreNew
<1>4. \A p \in peerGot : p.tid # tract
  BY <1>2 DEF AckInv, TidsAreNew
<1>5. QED
  BY <1>1, <1>2, <1>3, <1>4, FramesAssumption

\* The interrupt clears the wait for an acknowledgement only of what the peer
\* got, and takes a new transaction ID for each frame it builds.
LEMMA ReceiveAck ==
  ASSUME NoTidTwice, Base, AckInv, Receive
  PROVE  AckInv'
<1>1. /\ tract \in 1..MaxTid /\ Index(tract) \in Nat
      /\ arrived \in Nat /\ sends \in Nat
      /\ arrived <= MaxArrivals /\ sends <= MaxSends
      /\ \A p \in peerGot : p.tid \in 1..MaxTid /\ Index(p.tid) \in Nat
      /\ Index(tract) <= arrived + sends
      /\ \A p \in peerGot : p.tid # tract
  BY AckTypes
<1>2. /\ arrived' = arrived + 1 /\ arrived < MaxArrivals
      /\ UNCHANGED <<asks, sends, peerGot, result, pc, ctx>>
  BY DEF Receive, RxKept, RxAck, RxRequest, RxOther, Arrive, sender
<1>3. AckedIsReceived'
  BY <1>2 DEF AckInv, AckedIsReceived
<1>4. ASSUME UNCHANGED <<out, tract>> PROVE TidsAreNew'
  <2>1. Index(tract') = Index(tract) /\ Index(out'.tid) = Index(out.tid)
    BY <1>4
  <2>2. Index(tract') <= arrived' + sends' - (IF pc' \in {"head", "count"} THEN 1 ELSE 0)
    BY <1>1, <1>2, <2>1 DEF AckInv, TidsAreNew
  <2>3. QED
    BY <1>2, <1>4, <2>1, <2>2 DEF AckInv, TidsAreNew
<1>5. CASE UNCHANGED <<out, tract, ackTID>>
  BY <1>2, <1>3, <1>4, <1>5 DEF AckInv, AckMeansGot
<1>6. ASSUME NEW l \in Connections, NEW p \in peerGot, RxAck(l, p.tid)
      PROVE  AckInv'
  <2>1. /\ UNCHANGED <<out, tract>>
        /\ ackTID' = ackTID \/ (ackTID[l] = p.tid /\ ackTID' = [ackTID EXCEPT ![l] = 0])
    BY <1>6 DEF RxAck
  <2>2. p.tid # 0 /\ ackTID \in [Connections -> 0..MaxTid]
    BY <1>1 DEF Base, TypeOK
  <2>3. AckMeansGot'
    <3>1. CASE ackTID'[ctx] = ackTID[ctx]
      BY <1>2, <3>1 DEF AckInv, AckMeansGot
    <3>2. CASE ackTID'[ctx] # ackTID[ctx]
      <4>1. ackTID[l] = p.tid /\ ackTID' = [ackTID EXCEPT ![l] = 0]
        BY <2>1, <3>2
      <4>2. l = ctx
        BY <2>2, <3>2, <4>1
      <4>3. ackTID'[ctx] = 0 /\ ackTID[ctx] = p.tid
        BY <2>2, <4>1, <4>2
      <4>4. QED
        BY <1>2, <2>2, <4>3 DEF AckInv, AckMeansGot
    <3>3. QED
      BY <3>1, <3>2
  <2>4. QED
    BY <1>3, <1>4, <2>1, <2>3 DEF AckInv
<1>7. ASSUME out' = [port |-> "net", tid |-> tract, ackReq |-> FALSE, msg |-> 0],
             tract' = NextTid(tract), ackTID' = ackTID
      PROVE  AckInv'
  <2>1. Index(tract') = Index(tract) + 1 /\ out'.tid = tract
    <3>1. Index(tract) < MaxTid - 1
      BY <1>1, <1>2, FramesAssumption DEF NoTidTwice
    <3>2. QED
      BY <1>1, <1>7, <3>1, IndexFacts
  <2>2. \A p \in peerGot : Index(p.tid) < Index(tract')
    BY <1>1, <2>1 DEF AckInv, TidsAreNew
  <2>3. Index(tract') <= arrived' + sends' - (IF pc' \in {"head", "count"} THEN 1 ELSE 0)
    BY <1>1, <1>2, <2>1 DEF AckInv, TidsAreNew
  <2>4. Index(out'.tid) < Index(tract') /\ \A p \in peerGot : p.tid # out'.tid
    BY <1>1, <2>1
  <2>5. Index(out'.tid) <= Index(tract')
    BY <1>1, <2>1
  <2>6. TidsAreNew'
    BY <1>2, <2>2, <2>3, <2>4, <2>5 DEF TidsAreNew
  <2>7. AckMeansGot'
    BY <1>2, <1>7 DEF AckInv, AckMeansGot
  <2>8. QED
    BY <1>3, <2>6, <2>7 DEF AckInv
<1>8. QED
  BY <1>5, <1>6, <1>7 DEF Receive, RxKept, RxRequest, RxOther, sender

\* The sender takes a new transaction ID for each frame, waits for its
\* acknowledgement and reports whether that came.
LEMMA ThreadAck ==
  ASSUME NoTidTwice, Base, AckInv, Thread
  PROVE  AckInv'
<1>1. /\ tract \in 1..MaxTid /\ Index(tract) \in Nat
      /\ arrived \in Nat /\ sends \in Nat
      /\ arrived <= MaxArrivals /\ sends <= MaxSends
      /\ \A p \in peerGot : p.tid \in 1..MaxTid /\ Index(p.tid) \in Nat
      /\ Index(tract) <= arrived + sends
      /\ \A p \in peerGot : p.tid # tract
  BY AckTypes
<1>2. /\ \A p \in peerGot : Index(p.tid) < Index(tract)
      /\ Index(tract) <= arrived + sends - (IF pc \in {"head", "count"} THEN 1 ELSE 0)
      /\ pc = "count" => Index(out.tid) <= Index(tract)
      /\ pc \in {"body", "remember", "ask", "transmit"} => Index(out.tid) < Index(tract)
      /\ pc \in {"count", "body", "remember"} => \A p \in peerGot : p.tid # out.tid
  BY DEF AckInv, TidsAreNew
<1>3. ackTID \in [Connections -> 0..MaxTid] /\ out.tid \in 0..MaxTid /\ SenderShape
  BY BuildType DEF Base, TypeOK
<1>4. ASSUME UNCHANGED <<arrived, tract, sends, peerGot, result>>,
             pc \notin {"head", "count", "body", "remember", "ask", "transmit", "judge"},
             pc' \notin {"head", "count", "body", "remember", "ask", "transmit", "judge"}
      PROVE  AckInv'
  <2>1. TidsAreNew' /\ AckMeansGot'
    BY <1>2, <1>4 DEF TidsAreNew, AckMeansGot
  <2>2. QED
    BY <1>4, <2>1 DEF AckInv, AckedIsReceived
<1>5. CASE \/ \E l \in Links : Relink(l)
           \/ \E c \in Contexts : ReadStart(c)
           \/ Claim \/ Weigh \/ Adjust \/ Free \/ Drop
  <2>1. /\ UNCHANGED <<arrived, tract, sends, peerGot, result>>
        /\ pc \in {"idle", "claim", "weigh", "adjust", "free"}
        /\ pc' \in {"idle", "claim", "weigh", "adjust", "free"}
    BY <1>5 DEF Relink, ReadStart, Claim, Weigh, Adjust, Free, Drop, Onwards, queue,
                sender
  <2>2. QED
    BY <1>4, <2>1
<1>6. ASSUME NEW l \in Links, NEW ack \in BOOLEAN, SendStart(l, ack)
      PROVE  AckInv'
  <2>1. /\ pc = "idle" /\ pc' = "head" /\ sends' = sends + 1 /\ result' = "none"
        /\ UNCHANGED <<arrived, out, tract, peerGot>>
    BY <1>6 DEF SendStart, queue
  <2>2. TidsAreNew'
    BY <1>1, <1>2, <2>1 DEF TidsAreNew
  <2>3. QED
    BY <2>1, <2>2 DEF AckInv, AckMeansGot, AckedIsReceived
<1>7. CASE BuildHead
  <2>1. /\ pc = "head" /\ pc' = "count" /\ out' = [out EXCEPT !.port = ctx, !.tid = tract]
        /\ UNCHANGED <<arrived, tract, sends, peerGot, result>>
    BY <1>7 DEF BuildHead, queue
  <2>2. out'.tid = tract
    BY <2>1 DEF Base, TypeOK
  <2>3. TidsAreNew'
    BY <1>1, <1>2, <2>1, <2>2 DEF TidsAreNew
  <2>4. QED
    BY <2>1, <2>3 DEF AckInv, AckMeansGot, AckedIsReceived
<1>8. CASE BuildCount
  <2>1. /\ pc = "count" /\ pc' = "body" /\ tract' = NextTid(tract)
        /\ out' = [out EXCEPT !.ackReq = FALSE]
        /\ UNCHANGED <<arrived, sends, peerGot, result>>
    BY <1>8 DEF BuildCount, queue
  <2>2. out'.tid = out.tid
    BY <2>1 DEF Base, TypeOK
  <2>3. Index(tract') = Index(tract) + 1
    BY <1>1, <1>2, <2>1, IndexFacts, FramesAssumption DEF NoTidTwice
  <2>4. Index(out.tid) \in Nat
    <3>1. out.tid \in 1..MaxTid
      BY <1>3, <2>1, FramesAssumption DEF SenderShape
    <3>2. QED
      BY <3>1, IndexFacts, FramesAssumption
  <2>5. TidsAreNew'
    BY <1>1, <1>2, <2>1, <2>2, <2>3, <2>4 DEF TidsAreNew
  <2>6. QED
    BY <2>1, <2>5 DEF AckInv, AckMeansGot, AckedIsReceived
<1>9. CASE BuildBody
  <2>1. /\ pc = "body" /\ pc' = IF asks THEN "remember" ELSE "transmit"
        /\ out' = [out EXCEPT !.msg = sends]
        /\ UNCHANGED <<arrived, tract, asks, sends, peerGot, result>>
    BY <1>9 DEF BuildBody, queue
  <2>2. out'.tid = out.tid
    BY <2>1 DEF Base, TypeOK
  <2>3. TidsAreNew'
    BY <1>1, <1>2, <2>1, <2>2 DEF TidsAreNew
  <2>4. QED
    BY <2>1, <2>3 DEF AckInv, AckMeansGot, AckedIsReceived
<1>10. CASE BuildRemember
  <2>1. /\ pc = "remember" /\ pc' = "ask" /\ ackTID' = [ackTID EXCEPT ![ctx] = out.tid]
        /\ UNCHANGED <<arrived, out, tract, asks, sends, peerGot, result, ctx>>
    BY <1>10 DEF BuildRemember, queue
  <2>2. ctx \in Connections /\ out.tid # 0
    BY <1>3, <2>1 DEF SenderShape, Building, Connections
  <2>3. ackTID'[ctx] = out.tid
    BY <1>3, <2>1, <2>2
  <2>4. AckMeansGot'
    BY <1>2, <2>1, <2>2, <2>3 DEF AckMeansGot
  <2>5. TidsAreNew'
    BY <1>1, <1>2, <2>1 DEF TidsAreNew
  <2>6. QED
    BY <2>1, <2>4, <2>5 DEF AckInv, AckedIsReceived
<1>11. CASE BuildAsk
  <2>1. /\ pc = "ask" /\ pc' = "transmit" /\ out' = [out EXCEPT !.ackReq = TRUE]
        /\ UNCHANGED <<arrived, tract, ackTID, asks, sends, peerGot, result, ctx>>
    BY <1>11 DEF BuildAsk, queue
  <2>2. out'.tid = out.tid
    BY <2>1 DEF Base, TypeOK
  <2>3. TidsAreNew'
    BY <1>1, <1>2, <2>1, <2>2 DEF TidsAreNew
  <2>4. AckMeansGot'
    BY <2>1 DEF AckInv, AckMeansGot
  <2>5. QED
    BY <2>1, <2>3, <2>4 DEF AckInv, AckedIsReceived
<1>12. CASE Transmit
  <2>1. /\ pc = "transmit"
        /\ UNCHANGED <<arrived, out, tract, ackTID, asks, sends, ctx>>
        /\ pc' = "idle" \/ (pc' = "judge" /\ asks)
        /\ result' \in {"none", "sent", "cca_fail"}
        /\ \/ peerGot' = peerGot
           \/ /\ peerGot' = peerGot \union {[tid |-> out.tid, msg |-> out.msg]}
              /\ out.port # "net"
    BY <1>12, FramesAssumption DEF Transmit, queue, Connections
  <2>2. \A p \in peerGot' \ peerGot : p.tid = out.tid /\ p.msg = sends
    BY <1>3, <2>1 DEF SenderShape
  <2>3. peerGot \subseteq peerGot'
    BY <2>1
  <2>4. TidsAreNew'
    BY <1>1, <1>2, <2>1, <2>2 DEF TidsAreNew
  <2>5. AckMeansGot'
    BY <2>1, <2>2, <2>3 DEF AckInv, AckMeansGot
  <2>6. QED
    BY <2>1, <2>4, <2>5 DEF AckInv, AckedIsReceived
<1>13. CASE JudgeAck
  <2>1. /\ pc = "judge" /\ pc' = "idle"
        /\ result' = IF ackTID[ctx] # 0 THEN "no_ack" ELSE "acked"
        /\ UNCHANGED <<arrived, tract, sends, peerGot>>
    BY <1>13 DEF JudgeAck, queue
  <2>2. AckedIsReceived'
    BY <2>1 DEF AckInv, AckMeansGot, AckedIsReceived
  <2>3. TidsAreNew' /\ AckMeansGot'
    BY <1>2, <2>1 DEF TidsAreNew, AckMeansGot
  <2>4. QED
    BY <2>2, <2>3 DEF AckInv
<1>14. QED
  BY <1>5, <1>6, <1>7, <1>8, <1>9, <1>10, <1>11, <1>12, <1>13 DEF Thread

\* A send that reports an acknowledgement reached the peer with the message it
\* was given (SMPL_SendOpt), as long as no transaction ID is used twice.
THEOREM AckedAlwaysReceived ==
  ASSUME NoTidTwice
  PROVE  Spec => []AckedIsReceived
<1>1. Init => AckInv
  <2> SUFFICES ASSUME Init PROVE AckInv
    OBVIOUS
  <2>1. Index(tract) = 0
    BY FramesAssumption DEF Init, Index
  <2>2. QED
    BY <2>1 DEF Init, AckInv, TidsAreNew, AckMeansGot, AckedIsReceived
<1>2. Base /\ AckInv /\ [Next]_vars => AckInv'
  <2>1. Base /\ AckInv /\ Receive => AckInv'
    BY ReceiveAck
  <2>2. Base /\ AckInv /\ Thread => AckInv'
    BY ThreadAck
  <2>3. AckInv /\ UNCHANGED vars => AckInv'
    <3> SUFFICES ASSUME AckInv, UNCHANGED vars PROVE AckInv'
      OBVIOUS
    <3>1. UNCHANGED <<arrived, out, tract, ackTID, asks, sends, peerGot, result, pc, ctx>>
      BY DEF vars, queue, sender
    <3>2. QED
      BY <3>1 DEF AckInv, TidsAreNew, AckMeansGot, AckedIsReceived
  <2>4. QED
    BY <2>1, <2>2, <2>3 DEF Next
<1>3. AckInv => AckedIsReceived
  BY DEF AckInv
<1>4. QED
  BY <1>1, <1>2, <1>3, BaseAlways, PTL DEF Spec
=============================================================================
