---------------------------- MODULE Link_proofs -----------------------------
(***************************************************************************)
(* Theorems about Link, for any watches, sizes of the connection tables    *)
(* and ports, and whatever the air loses, repeats and delays.              *)
(***************************************************************************)
EXTENDS Link, WellFoundedInduction, SequenceTheorems, TLAPS

-----------------------------------------------------------------------------
(* Smallest numbers.                                                       *)

Less == {ss \in Nat \X Nat : ss[1] < ss[2]}

\* Min of natural numbers is the smallest of them.
LEMMA MinFacts ==
  ASSUME NEW T, T \subseteq Nat, T # {}
  PROVE  Min(T) \in T /\ \A y \in T : Min(T) <= y
<1>1. IsWellFoundedOn(Less, Nat)
  BY NatLessThanWellFounded, Zenon DEF OpToRel, Less
<1>2. PICK x \in T : \A y \in T : <<y, x>> \notin Less
  BY <1>1, WFMin, Zenon
<1>3. ASSUME NEW y \in T PROVE x <= y
  <2>1. x \in Nat /\ y \in Nat
    OBVIOUS
  <2>2. y < x => <<y, x>> \in Less
    BY <2>1 DEF Less
  <2>3. QED
    BY <1>2, <2>1, <2>2
<1>4. QED
  BY <1>3, Zenon DEF Min

-----------------------------------------------------------------------------
(* The operators of the model: tables, ports, and the queue of replies.    *)

Conn == [used : BOOLEAN, peer : Devices, rx : 0..PortMax, tx : 0..PortMax,
         lid : 0..MaxLids]

IsTable(c) ==
  /\ c = [d \in Devices |-> c[d]]
  /\ \A d \in Devices : c[d] \in [Index(d) -> Conn]

IsPorts(p) == p \in [Devices -> [nextLink : 0..PortMax, maxReply : 0..PortMax]]

LEMMA Constants ==
  /\ Hub \in Devices /\ Watches \subseteq Devices /\ Hub \notin Watches
  /\ PortBase \in Nat /\ PortMax \in Nat /\ MaxLids \in Nat /\ InSize \in Nat \ {0}
  /\ MaxRetries \in Nat /\ MaxStarts \in Nat /\ MaxUses \in Nat
  /\ \A d \in Devices : /\ NumConn[d] \in Nat \ {0}
                        /\ PortBase + NumConn[d] <= PortMax - NumConn[d]
  /\ Free \in Conn
BY LinkAssumption DEF Devices, Free, Conn

LEMMA NextConnectionFacts ==
  ASSUME NEW d \in Devices
  PROVE  /\ NextConnection(d) = 0 \/ NextConnection(d) \in Index(d) \ Used(d)
         /\ NextConnection(d) = 0 <=> Used(d) = Index(d)
<1>1. CASE Used(d) = Index(d)
  BY <1>1, Constants DEF NextConnection, Index
<1>2. CASE Used(d) # Index(d)
  <2>1. Index(d) \ Used(d) \subseteq Nat /\ Index(d) \ Used(d) # {}
    BY <1>2, Constants DEF Index, Used
  <2>2. Min(Index(d) \ Used(d)) \in Index(d) \ Used(d)
    BY <2>1, MinFacts, Zenon
  <2>3. NextConnection(d) = Min(Index(d) \ Used(d))
    BY <1>2 DEF NextConnection
  <2>4. 0 \notin Index(d)
    BY DEF Index
  <2>5. QED
    BY <1>2, <2>2, <2>3, <2>4
<1>3. QED
  BY <1>1, <1>2

\* A port that is handed out is none of those it must differ from.
LEMMA RxPortFacts ==
  ASSUME NEW d \in Devices, NEW replying \in BOOLEAN, NEW peer
  PROVE  LET rx == RxPort(d, replying, peer) IN
         /\ rx \in 0..PortMax
         /\ rx # 0 => rx \notin TakenPorts(d, replying, peer)
<1> DEFINE nth(i) == IF replying THEN PortBase + i ELSE PortMax - i
           ok == {i \in 0..NumConn[d] - 1 : nth(i) \notin TakenPorts(d, replying, peer)}
           port == IF ok = {} THEN 0 ELSE nth(Min(ok))
<1>1. RxPort(d, replying, peer) \in {0, port}
  BY DEF RxPort
<1>2. CASE ok = {}
  BY <1>1, <1>2, Constants
<1>3. CASE ok # {}
  <2>1. ok \subseteq Nat
    BY Constants
  <2>2. Min(ok) \in ok
    BY <1>3, <2>1, MinFacts, Zenon
  <2>3. nth(Min(ok)) \notin TakenPorts(d, replying, peer) /\ Min(ok) \in 0..NumConn[d] - 1
    BY <2>2
  <2> DEFINE k == Min(ok)
  <2>4. port = nth(k)
    BY <1>3
  <2> HIDE DEF k, ok
  <2>5. nth(k) \in PortBase..PortMax
    BY <2>3, Constants DEF k
  <2>6. QED
    BY <1>1, <2>3, <2>4, <2>5, Constants DEF k
<1>4. QED
  BY <1>2, <1>3

LEMMA BoundedType ==
  ASSUME IsPorts(ports), NEW d \in Devices, NEW replying \in BOOLEAN,
         NEW rx \in 1..PortMax
  PROVE  IsPorts([ports EXCEPT ![d] = Bounded(d, replying, rx)])
<1>1. Bounded(d, replying, rx) \in [nextLink : 0..PortMax, maxReply : 0..PortMax]
  <2>1. ports[d] \in [nextLink : 0..PortMax, maxReply : 0..PortMax]
    BY DEF IsPorts
  <2>2. CASE replying
    BY <2>1, <2>2, Constants DEF Bounded
  <2>3. CASE ~replying
    BY <2>1, <2>3, Constants DEF Bounded
  <2>4. QED
    BY <2>2, <2>3
<1>2. QED
  BY <1>1 DEF IsPorts

\* The three ways a table changes leave all other entries alone.
LEMMA OpenedFacts ==
  ASSUME IsTable(conns), NEW d \in Devices, NEW i \in Index(d), NEW peer \in Devices,
         NEW rx \in 0..PortMax, NEW tx \in 0..PortMax, NEW lid \in 0..MaxLids
  PROVE  LET c == Opened(d, i, peer, rx, tx, lid) IN
         /\ IsTable(c)
         /\ \A e \in Devices \ {d} : c[e] = conns[e]
         /\ \A j \in Index(d) \ {i} : c[d][j] = conns[d][j]
         /\ c[d][i] = [used |-> TRUE, peer |-> peer, rx |-> rx, tx |-> tx, lid |-> lid]
BY Constants DEF IsTable, Opened, Conn

LEMMA ClosedFacts ==
  ASSUME IsTable(conns), NEW d \in Devices, NEW i \in Index(d)
  PROVE  LET c == Closed(d, i) IN
         /\ IsTable(c)
         /\ \A e \in Devices \ {d} : c[e] = conns[e]
         /\ \A j \in Index(d) \ {i} : c[d][j] = conns[d][j]
         /\ c[d][i] = Free
BY Constants DEF IsTable, Closed

LEMMA AnsweredFacts ==
  ASSUME IsTable(conns), NEW d \in Devices, NEW i \in Index(d), NEW peer \in Devices,
         NEW tx \in 0..PortMax
  PROVE  LET c == Answered(d, i, peer, tx) IN
         /\ IsTable(c)
         /\ \A e \in Devices \ {d} : c[e] = conns[e]
         /\ \A j \in Index(d) \ {i} : c[d][j] = conns[d][j]
         /\ c[d][i].used = conns[d][i].used /\ c[d][i].rx = conns[d][i].rx
         /\ c[d][i].peer = peer /\ c[d][i].tx = tx
<1> DEFINE c == Answered(d, i, peer, tx)
           new == [conns[d] EXCEPT ![i].peer = peer, ![i].tx = tx]
<1>1. conns[d] \in [Index(d) -> Conn] /\ conns = [e \in Devices |-> conns[e]]
  BY DEF IsTable
<1>2. /\ new \in [Index(d) -> Conn]
      /\ \A j \in Index(d) \ {i} : new[j] = conns[d][j]
      /\ new[i].used = conns[d][i].used /\ new[i].rx = conns[d][i].rx
      /\ new[i].peer = peer /\ new[i].tx = tx
  BY <1>1 DEF Conn
<1>3. c = [conns EXCEPT ![d] = new]
  BY <1>1 DEF Answered
<1> HIDE DEF new
<1>4. c[d] = new /\ c = [e \in Devices |-> c[e]] /\ \A e \in Devices \ {d} : c[e] = conns[e]
  BY <1>1, <1>3
<1>5. QED
  BY <1>2, <1>4 DEF IsTable

LEMMA RemoveFacts ==
  ASSUME NEW S, NEW s \in Seq(S), NEW i \in 1..Len(s)
  PROVE  RemoveAt(s, i) \in Seq(S) /\ Len(RemoveAt(s, i)) <= Len(s)
<1> DEFINE a == SubSeq(s, 1, i - 1)
           b == SubSeq(s, i + 1, Len(s))
<1>1. Len(s) \in Nat /\ \A j \in 1..Len(s) : s[j] \in S
  BY LenProperties, ElementOfSeq
<1>2. a \in Seq(S) /\ Len(a) = i - 1
  BY <1>1, SubSeqProperties
<1>3. b \in Seq(S) /\ Len(b) = Len(s) - i
  BY <1>1, SubSeqProperties
<1> HIDE DEF a, b
<1>4. a \o b \in Seq(S) /\ Len(a \o b) = Len(a) + Len(b)
  BY <1>2, <1>3, ConcatProperties
<1>5. RemoveAt(s, i) = a \o b
  BY DEF RemoveAt, a, b
<1>6. QED
  BY <1>1, <1>2, <1>3, <1>4, <1>5

LEMMA QueueFacts ==
  ASSUME NEW S, NEW s \in Seq(S), NEW m \in S, Len(s) <= InSize
  PROVE  LET t == Append(IF Len(s) = InSize THEN Tail(s) ELSE s, m)
         IN  t \in Seq(S) /\ Len(t) <= InSize
<1>1. Len(s) \in Nat /\ InSize \in Nat \ {0}
  BY LenProperties, Constants
<1>2. CASE Len(s) = InSize
  <2>1. s # <<>>
    BY <1>1, <1>2, EmptySeq
  <2>2. Tail(s) \in Seq(S) /\ Len(Tail(s)) = Len(s) - 1
    BY <2>1, HeadTailProperties
  <2>3. QED
    BY <1>1, <1>2, <2>2, AppendProperties
<1>3. CASE Len(s) # InSize
  BY <1>1, <1>3, AppendProperties
<1>4. QED
  BY <1>2, <1>3

LEMMA OldestFacts ==
  ASSUME NEW w, NEW app, NEW S, inq[w] \in Seq(S)
  PROVE  Oldest(w, app) # 0 =>
           /\ Oldest(w, app) \in 1..Len(inq[w])
           /\ inq[w][Oldest(w, app)] \in S
           /\ inq[w][Oldest(w, app)].app = app
<1> DEFINE I == {i \in 1..Len(inq[w]) : inq[w][i].app = app}
<1>1. Oldest(w, app) = IF I # {} THEN Min(I) ELSE 0
  BY DEF Oldest, SelectInSeq
<1>2. I \subseteq Nat
  OBVIOUS
<1>3. ASSUME I # {} PROVE Min(I) \in I
  BY <1>2, <1>3, MinFacts, Zenon
<1>4. \A i \in 1..Len(inq[w]) : inq[w][i] \in S
  BY ElementOfSeq
<1>5. QED
  BY <1>1, <1>3, <1>4

LEMMA NextTidType ==
  ASSUME NEW app, NEW t \in Nat
  PROVE  NextTid(app, t) \in Nat
<1>1. Min(Tids) \in Nat
  BY LinkAssumption, MinFacts
<1>2. QED
  BY <1>1 DEF NextTid

-----------------------------------------------------------------------------
(* Types. A frame is a request to the access point or a reply of it, and   *)
(* the replies a watch has yet to read were on the air.                    *)

IsFrame(m) ==
  /\ m \in [app : Apps, req : {"join", "link", "ping", "unlink"}, from : Devices,
            to : Devices, tid : Nat, info : 0..PortMax]
  /\ (m.req \in {"link", "unlink"}) <=> (m.app = "link")
  /\ (m.to = Hub) <=> (m.from \in Watches)

Replies(w) == {m \in air : m.to = w}

TableShape == IsTable(conns) /\ IsPorts(ports) /\ nextLid \in 1..MaxLids + 1

AirShape == \A m \in air : IsFrame(m)

QueueShape ==
  /\ inq = [w \in Watches |-> inq[w]]
  /\ \A w \in Watches : inq[w] \in Seq(Replies(w)) /\ Len(inq[w]) <= InSize

WatchShape ==
  /\ prog \in [Watches -> {"off", "init", "joining", "retry_init", "retry_link",
                           "link", "linking", "linked", "ping", "unlink"}]
  /\ on \in [Watches -> BOOLEAN]
  /\ tid \in [Watches -> [Apps -> Nat]]
  /\ mine \in [Watches -> Nat] /\ \A w \in Watches : mine[w] \in {0} \union Index(w)
  /\ tries \in [Watches -> 0..MaxRetries + 1]
  /\ starts \in [Watches -> 0..MaxStarts] /\ uses \in [Watches -> 0..MaxUses]
  /\ busy \subseteq Watches /\ unlinked \subseteq Watches

HubShape ==
  /\ listening \in BOOLEAN /\ raced \in BOOLEAN
  /\ hub \in {"idle", "poll", "take", "move"}
  /\ service \in [Index(Hub) -> 0..MaxLids] /\ linkers \in 0..NumConn[Hub]
  /\ told \subseteq 0..MaxLids

\* Where a watch's program is tells whether its network runs and whether it has
\* a connection; the other entries of its table are of frames it could not send.
ProgramShape ==
  \A w \in Watches :
    /\ (prog[w] = "off" => ~on[w]) /\ (prog[w] \notin {"off", "init"} => on[w])
    /\ on[w] /\ prog[w] \notin {"linking", "linked", "ping", "unlink"} => mine[w] = 0
    /\ prog[w] \in {"linking", "linked", "ping", "unlink"} => mine[w] \in Used(w)

Shape == TableShape /\ AirShape /\ QueueShape /\ WatchShape /\ HubShape /\ ProgramShape

LEMMA ShapeIsTypeOK == Shape => TypeOK
<1> SUFFICES ASSUME Shape PROVE TypeOK
  OBVIOUS
<1>1. \A w \in Watches : mine[w] \in 0..NumConn[w]
  BY Constants DEF Shape, WatchShape, Index
<1>2. \A d \in Devices : conns[d] \in [Index(d) -> Conn]
  BY DEF Shape, TableShape, IsTable
<1>3. QED
  BY <1>1, <1>2 DEF Shape, TableShape, QueueShape, WatchShape, HubShape, TypeOK, IsPorts, Conn

\* The replies of a watch stay replies when frames are sent.
LEMMA QueueKept ==
  ASSUME QueueShape, air \subseteq air', inq' = inq
  PROVE  QueueShape'
<1>1. ASSUME NEW w \in Watches PROVE inq[w] \in Seq(Replies(w)') /\ Len(inq[w]) <= InSize
  <2>1. Replies(w) \subseteq Replies(w)'
    BY DEF Replies
  <2>2. QED
    BY <2>1, SeqMonotonic DEF QueueShape
<1>2. QED
  BY <1>1 DEF QueueShape

LEMMA QueueChanged ==
  ASSUME QueueShape, air \subseteq air', NEW w \in Watches, NEW t \in Seq(Replies(w)),
         Len(t) <= InSize, inq' = [inq EXCEPT ![w] = t]
  PROVE  QueueShape'
<1>1. ASSUME NEW v \in Watches PROVE inq'[v] \in Seq(Replies(v)') /\ Len(inq'[v]) <= InSize
  <2>1. Replies(v) \subseteq Replies(v)'
    BY DEF Replies
  <2>2. inq'[v] \in Seq(Replies(v)) /\ Len(inq'[v]) <= InSize
    BY DEF QueueShape
  <2>3. QED
    BY <2>1, <2>2, SeqMonotonic
<1>2. QED
  BY <1>1 DEF QueueShape

\* A watch takes the oldest reply of an application.
LEMMA TakeFacts ==
  ASSUME Shape, NEW w \in Watches, NEW app
  PROVE  LET i == Oldest(w, app) IN
         i # 0 => /\ inq[w][i] \in air /\ inq[w][i].to = w /\ inq[w][i].app = app
                  /\ IsFrame(inq[w][i])
                  /\ Take(w, i) /\ air \subseteq air' => QueueShape'
<1> DEFINE i == Oldest(w, app)
<1> SUFFICES ASSUME i # 0
             PROVE  /\ inq[w][i] \in air /\ inq[w][i].to = w /\ inq[w][i].app = app
                    /\ IsFrame(inq[w][i])
                    /\ Take(w, i) /\ air \subseteq air' => QueueShape'
  OBVIOUS
<1>1. inq[w] \in Seq(Replies(w)) /\ Len(inq[w]) <= InSize
  BY DEF Shape, QueueShape
<1>2. i \in 1..Len(inq[w]) /\ inq[w][i] \in Replies(w) /\ inq[w][i].app = app
  BY <1>1, OldestFacts
<1> HIDE DEF i
<1>3. RemoveAt(inq[w], i) \in Seq(Replies(w)) /\ Len(RemoveAt(inq[w], i)) <= Len(inq[w])
  BY <1>1, <1>2, RemoveFacts
<1>4. Len(RemoveAt(inq[w], i)) <= InSize
  <2>1. Len(inq[w]) \in Nat /\ Len(RemoveAt(inq[w], i)) \in Nat /\ InSize \in Nat
    BY <1>1, <1>3, LenProperties, Constants
  <2>2. QED
    BY <1>1, <1>3, <2>1
<1>5. ASSUME Take(w, i), air \subseteq air' PROVE QueueShape'
  BY <1>3, <1>4, <1>5, QueueChanged DEF Take, Shape
<1>6. QED
  BY <1>2, <1>5 DEF Replies, Shape, AirShape

\* What is sent is a frame.
LEMMA SendFacts ==
  ASSUME AirShape, NEW m, IsFrame(m), Send(m)
  PROVE  AirShape' /\ air \subseteq air'
BY DEF AirShape, Send

-----------------------------------------------------------------------------
(* The steps of a watch keep the types.                                    *)

LEMMA StartShape ==
  ASSUME Shape, NEW w \in Watches, Start(w)
  PROVE  Shape'
<1>1. TableShape'
  BY DEF Shape, TableShape, Start, Goto, tables, listen
<1>2. AirShape'
  BY DEF Shape, AirShape, Start, Goto, tables, listen
<1>3. QueueShape'
  BY QueueKept DEF Shape, Start, Goto, tables, listen
<1>4. WatchShape'
  BY Constants DEF Shape, WatchShape, Start, Goto, tables, listen
<1>5. HubShape'
  BY DEF Shape, HubShape, Start, Goto, tables, listen
<1>6. ProgramShape'
  BY DEF Shape, WatchShape, ProgramShape, Used, Index, Start, Goto, tables, listen
<1>7. QED
  BY <1>1, <1>2, <1>3, <1>4, <1>5, <1>6 DEF Shape

LEMMA RetryShape ==
  ASSUME Shape, NEW w \in Watches, Retry(w)
  PROVE  Shape'
<1>1. TableShape'
  BY DEF Shape, TableShape, Retry, Goto, tables, listen
<1>2. AirShape'
  BY DEF Shape, AirShape, Retry, Goto, tables, listen
<1>3. QueueShape'
  BY QueueKept DEF Shape, Retry, Goto, tables, listen
<1>4. WatchShape'
  <2>1. CASE tries[w] > MaxRetries
    BY <2>1, Constants DEF Shape, WatchShape, Retry, Goto, tables, listen
  <2>2. CASE ~(tries[w] > MaxRetries)
    <3>1. tries[w] + 1 \in 0..MaxRetries + 1
      BY <2>2, Constants DEF Shape, WatchShape
    <3>2. QED
      BY <2>2, <3>1, Constants DEF Shape, WatchShape, Retry, Goto, tables, listen
  <2>3. QED
    BY <2>1, <2>2
<1>5. HubShape'
  BY DEF Shape, HubShape, Retry, Goto, tables, listen
<1>6. ProgramShape'
  BY DEF Shape, WatchShape, ProgramShape, Used, Index, Retry, Goto, tables, listen
<1>7. QED
  BY <1>1, <1>2, <1>3, <1>4, <1>5, <1>6 DEF Shape

LEMMA StopShape ==
  ASSUME Shape, NEW w \in Watches, Stop(w)
  PROVE  Shape'
<1>1. TableShape'
  BY DEF Shape, TableShape, Stop, Goto, tables, listen
<1>2. AirShape'
  BY DEF Shape, AirShape, Stop, Goto, tables, listen
<1>3. QueueShape'
  BY QueueKept DEF Shape, Stop, Goto, tables, listen
<1>4. WatchShape'
  BY Constants DEF Shape, WatchShape, Stop, Goto, tables, listen
<1>5. HubShape'
  BY DEF Shape, HubShape, Stop, Goto, tables, listen
<1>6. ProgramShape'
  BY DEF Shape, WatchShape, ProgramShape, Used, Index, Stop, Goto, tables, listen
<1>7. QED
  BY <1>1, <1>2, <1>3, <1>4, <1>5, <1>6 DEF Shape

LEMMA ReadJoinShape ==
  ASSUME Shape, NEW w \in Watches, ReadJoin(w)
  PROVE  Shape'
<1>1. TableShape'
  BY DEF Shape, TableShape, ReadJoin, Goto, tables, listen
<1>2. AirShape'
  BY DEF Shape, AirShape, ReadJoin, Goto, tables, listen
<1>3. QueueShape'
  <2>1. CASE Oldest(w, "join") = 0
    BY <2>1, QueueKept DEF Shape, ReadJoin, tables
  <2>2. CASE Oldest(w, "join") # 0
    BY <2>2, TakeFacts DEF ReadJoin, tables
  <2>3. QED
    BY <2>1, <2>2
<1>4. WatchShape'
  <2>1. CASE Oldest(w, "join") = 0
    BY <2>1, Constants DEF Shape, WatchShape, ReadJoin, Goto, tables, listen
  <2>2. CASE Oldest(w, "join") # 0
    <3>1. tid[w]["join"] \in Nat
      BY DEF Shape, WatchShape, Apps
    <3>2. NextTid("join", tid[w]["join"]) \in Nat
      BY <3>1, NextTidType
    <3>3. tid' \in [Watches -> [Apps -> Nat]]
      BY <2>2, <3>2 DEF Shape, WatchShape, ReadJoin
    <3>4. tries' \in [Watches -> 0..MaxRetries + 1]
      BY <2>2, Constants DEF Shape, WatchShape, ReadJoin
    <3>5. QED
      BY <2>2, <3>3, <3>4 DEF Shape, WatchShape, ReadJoin, Goto, tables, listen
  <2>3. QED
    BY <2>1, <2>2
<1>5. HubShape'
  BY DEF Shape, HubShape, ReadJoin, Goto, tables, listen
<1>6. ProgramShape'
  BY DEF Shape, WatchShape, ProgramShape, Used, Index, ReadJoin, Goto, tables, listen
<1>7. QED
  BY <1>1, <1>2, <1>3, <1>4, <1>5, <1>6 DEF Shape

LEMMA ReadPingShape ==
  ASSUME Shape, NEW w \in Watches, ReadPing(w)
  PROVE  Shape'
<1>1. TableShape'
  BY DEF Shape, TableShape, ReadPing, Goto, tables, listen
<1>2. AirShape'
  BY DEF Shape, AirShape, ReadPing, Goto, tables, listen
<1>3. QueueShape'
  <2>1. CASE Oldest(w, "ping") = 0
    BY <2>1, QueueKept DEF Shape, ReadPing, tables
  <2>2. CASE Oldest(w, "ping") # 0
    BY <2>2, TakeFacts DEF ReadPing, tables
  <2>3. QED
    BY <2>1, <2>2
<1>4. WatchShape'
  BY NextTidType, Constants DEF Shape, WatchShape, ReadPing, Goto, tables, listen, Apps
<1>5. HubShape'
  BY DEF Shape, HubShape, ReadPing, Goto, tables, listen
<1>6. ProgramShape'
  BY DEF Shape, WatchShape, ProgramShape, Used, Index, ReadPing, Goto, tables, listen
<1>7. QED
  BY <1>1, <1>2, <1>3, <1>4, <1>5, <1>6 DEF Shape

LEMMA SkipReplyShape ==
  ASSUME Shape, NEW w \in Watches, SkipReply(w)
  PROVE  Shape'
<1>1. TableShape'
  BY DEF Shape, TableShape, SkipReply, Goto, tables, listen
<1>2. AirShape'
  BY DEF Shape, AirShape, SkipReply, Goto, tables, listen
<1>3. QueueShape'
  BY TakeFacts DEF SkipReply, tables
<1>4. WatchShape'
  BY Constants DEF Shape, WatchShape, SkipReply, Goto, tables, listen
<1>5. HubShape'
  BY DEF Shape, HubShape, SkipReply, Goto, tables, listen
<1>6. ProgramShape'
  BY DEF Shape, WatchShape, ProgramShape, Used, Index, SkipReply, Goto, tables, listen
<1>7. QED
  BY <1>1, <1>2, <1>3, <1>4, <1>5, <1>6 DEF Shape

LEMMA InitAndJoinShape ==
  ASSUME Shape, NEW w \in Watches, InitAndJoin(w)
  PROVE  Shape'
<1>1. TableShape'
  <2>1. Free \in Conn /\ [nextLink |-> PortMax, maxReply |-> PortBase] \in
                         [nextLink : 0..PortMax, maxReply : 0..PortMax]
    <3>1. PortBase \in 0..PortMax
      BY Constants
    <3>2. QED
      BY <3>1, Constants
  <2>2. IsTable(conns')
    BY <2>1, Constants DEF Shape, TableShape, IsTable, InitAndJoin
  <2>3. IsPorts(ports')
    BY <2>1 DEF Shape, TableShape, IsPorts, InitAndJoin
  <2>4. QED
    BY <2>2, <2>3 DEF Shape, TableShape, InitAndJoin
<1>2. AirShape'
  <2>1. IsFrame([app |-> "join", req |-> "join", from |-> w, to |-> Hub,
                 tid |-> tid'[w]["join"], info |-> 0])
    <3>1. tid'[w]["join"] \in Nat
      BY LinkAssumption DEF Shape, WatchShape, InitAndJoin, Apps
    <3>2. QED
      BY <3>1, Constants DEF IsFrame, Apps
  <2>2. QED
    BY <2>1, SendFacts DEF Shape, InitAndJoin
<1>3. QueueShape'
  <2>1. air \subseteq air'
    BY DEF InitAndJoin, Send
  <2>2. <<>> \in Seq(Replies(w)) /\ Len(<<>>) <= InSize
    BY EmptySeq, Constants
  <2>3. QED
    BY <2>1, <2>2, QueueKept, QueueChanged DEF Shape, InitAndJoin
<1>4. WatchShape'
  <2>1. CASE on[w]
    BY <2>1 DEF Shape, WatchShape, InitAndJoin, Goto, listen
  <2>2. CASE ~on[w]
    <3>1. PICK t \in Tids : tid' = [tid EXCEPT ![w] = [a \in Apps |-> t]]
      BY <2>2 DEF InitAndJoin
    <3>2. t \in Nat
      BY LinkAssumption
    <3>3. tid' \in [Watches -> [Apps -> Nat]]
      BY <3>1, <3>2 DEF Shape, WatchShape
    <3>4. mine' = [mine EXCEPT ![w] = 0] /\ on' = [on EXCEPT ![w] = TRUE] /\ busy' = busy \ {w}
      BY <2>2 DEF InitAndJoin
    <3>5. /\ mine' \in [Watches -> Nat] /\ on' \in [Watches -> BOOLEAN] /\ busy' \subseteq Watches
          /\ \A v \in Watches : mine'[v] \in {0} \union Index(v)
      BY <3>4 DEF Shape, WatchShape
    <3>6. QED
      BY <3>3, <3>5 DEF Shape, WatchShape, InitAndJoin, Goto, listen
  <2>3. QED
    BY <2>1, <2>2
<1>5. HubShape'
  BY DEF Shape, HubShape, InitAndJoin, Goto, tables, listen
<1>6. ProgramShape'
  <2>1. CASE on[w]
    BY <2>1 DEF Shape, WatchShape, ProgramShape, Used, InitAndJoin, Goto
  <2>2. CASE ~on[w]
    <3>1. /\ on' = [on EXCEPT ![w] = TRUE] /\ mine' = [mine EXCEPT ![w] = 0]
          /\ prog' = [prog EXCEPT ![w] = "joining"]
      BY <2>2 DEF InitAndJoin, Goto
    <3>2. \A v \in Watches \ {w} : conns'[v] = conns[v]
      BY <2>2, Constants DEF Shape, TableShape, IsTable, InitAndJoin
    <3>3. \A v \in Watches \ {w} : Used(v)' = Used(v)
      BY <3>2 DEF Used
    <3>4. QED
      BY <3>1, <3>3 DEF Shape, WatchShape, ProgramShape
  <2>3. QED
    BY <2>1, <2>2
<1>7. QED
  BY <1>1, <1>2, <1>3, <1>4, <1>5, <1>6 DEF Shape

LEMMA SendLinkShape ==
  ASSUME Shape, NEW w \in Watches, SendLink(w)
  PROVE  Shape'
<1> DEFINE i == NextConnection(w)
           rx == RxPort(w, FALSE, Hub)
<1>a. w \in Devices /\ rx \in 0..PortMax /\ (i # 0 => i \in Index(w) \ Used(w))
  BY Constants, RxPortFacts, NextConnectionFacts
<1> HIDE DEF i, rx
<1>b. IF i = 0 \/ rx = 0 THEN conns' = conns /\ ports' = ports /\ IsTable(conns) /\ IsPorts(ports)
      ELSE /\ i \in Index(w) /\ IsTable(conns') /\ IsPorts(ports')
           /\ conns'[w][i].used
           /\ \A v \in Devices \ {w} : conns'[v] = conns[v]
  <2>1. CASE i = 0 \/ rx = 0
    BY <2>1 DEF SendLink, Shape, TableShape, i, rx
  <2>2. CASE i # 0 /\ rx # 0
    <3>1. conns' = Opened(w, i, Hub, rx, 0, 0) /\ ports' = [ports EXCEPT ![w] = Bounded(w, FALSE, rx)]
      BY <2>2 DEF SendLink, i, rx
    <3>2. i \in Index(w) /\ rx \in 1..PortMax /\ 0 \in 0..PortMax /\ 0 \in 0..MaxLids
      BY <1>a, <2>2, Constants
    <3>3. /\ IsTable(conns')
          /\ conns'[w][i] = [used |-> TRUE, peer |-> Hub, rx |-> rx, tx |-> 0, lid |-> 0]
          /\ \A v \in Devices \ {w} : conns'[v] = conns[v]
      <4>1. IsTable(conns) /\ rx \in 0..PortMax /\ Hub \in Devices
        BY <1>a, Constants DEF Shape, TableShape
      <4>2. QED
        BY <1>a, <3>1, <3>2, <4>1, OpenedFacts
    <3>4. IsPorts(ports')
      BY <1>a, <3>1, <3>2, BoundedType DEF Shape, TableShape
    <3>5. QED
      BY <2>2, <3>2, <3>3, <3>4
  <2>3. QED
    BY <2>1, <2>2
<1>1. TableShape'
  BY <1>b DEF Shape, TableShape, SendLink
<1>2. AirShape'
  <2>1. \A port \in 0..PortMax :
          IsFrame([app |-> "link", req |-> "link", from |-> w, to |-> Hub,
                   tid |-> tid[w]["link"], info |-> port])
    BY Constants DEF Shape, WatchShape, IsFrame, Apps
  <2>2. QED
    <3>1. \/ air' = air
          \/ Send([app |-> "link", req |-> "link", from |-> w, to |-> Hub,
                   tid |-> tid[w]["link"], info |-> rx])
      BY DEF SendLink, i, rx
    <3>2. QED
      BY <1>a, <2>1, <3>1, SendFacts DEF Shape, AirShape
<1>3. QueueShape'
  <2>1. air \subseteq air'
    BY DEF SendLink, Send
  <2>2. QED
    BY <2>1, QueueKept DEF Shape, SendLink
<1>4. WatchShape'
  <2>1. CASE i = 0 \/ rx = 0
    BY <2>1 DEF Shape, WatchShape, SendLink, Goto, i, rx
  <2>2. CASE i # 0 /\ rx # 0
    <3>1. i \in Index(w) /\ i \in Nat
      BY <1>b, <2>2 DEF Index
    <3>2. \/ mine' = [mine EXCEPT ![w] = i] /\ prog' = [prog EXCEPT ![w] = "linking"] /\ busy' = busy
          \/ mine' = mine /\ prog' = [prog EXCEPT ![w] = "retry_link"] /\ busy' = busy \union {w}
      BY <2>2 DEF SendLink, Goto, i, rx
    <3>3. QED
      BY <3>1, <3>2 DEF Shape, WatchShape, SendLink
  <2>3. QED
    BY <2>1, <2>2
<1>5. HubShape'
  BY DEF Shape, HubShape, SendLink, Goto, tables, listen
<1>6. ProgramShape'
  <2>1. CASE i = 0 \/ rx = 0
    <3>1. mine' = mine /\ prog' = [prog EXCEPT ![w] = "retry_link"] /\ conns' = conns
      BY <2>1 DEF SendLink, Goto, i, rx
    <3>2. on' = on /\ prog[w] = "link"
      BY DEF SendLink
    <3>3. QED
      BY <3>1, <3>2 DEF Shape, WatchShape, ProgramShape, Used
  <2>2. CASE i # 0 /\ rx # 0
    <3>1. i \in Used(w)' /\ \A v \in Watches \ {w} : Used(v)' = Used(v)
      BY <1>b, <2>2, Constants DEF Used
    <3>2. \/ mine' = [mine EXCEPT ![w] = i] /\ prog' = [prog EXCEPT ![w] = "linking"]
          \/ mine' = mine /\ prog' = [prog EXCEPT ![w] = "retry_link"]
      BY <2>2 DEF SendLink, Goto, i, rx
    <3>3. on' = on /\ prog[w] = "link"
      BY DEF SendLink
    <3>4. QED
      BY <3>1, <3>2, <3>3 DEF Shape, WatchShape, ProgramShape
  <2>3. QED
    BY <2>1, <2>2
<1>7. QED
  BY <1>1, <1>2, <1>3, <1>4, <1>5, <1>6 DEF Shape

LEMMA ReadLinkShape ==
  ASSUME Shape, NEW w \in Watches, ReadLink(w)
  PROVE  Shape'
<1> DEFINE i == Oldest(w, "link")
<1>a. w \in Devices /\ prog[w] = "linking" /\ on[w] /\ mine[w] \in Index(w) /\ conns[w][mine[w]].used
  BY Constants DEF Shape, ProgramShape, ReadLink, Used
<1>b. /\ IsTable(conns') /\ \A v \in Devices \ {w} : Used(v)' = Used(v)
      /\ \/ prog' = [prog EXCEPT ![w] = "linked"] /\ mine' = mine /\ mine[w] \in Used(w)'
         \/ prog' = [prog EXCEPT ![w] = "retry_link"] /\ mine' = [mine EXCEPT ![w] = 0]
  <2>1. CASE i # 0 /\ inq[w][i].req = "link"
    <3>1. /\ conns' = Answered(w, mine[w], inq[w][i].from, inq[w][i].info) /\ mine' = mine
          /\ prog' = [prog EXCEPT ![w] = "linked"]
      BY <2>1 DEF ReadLink, Goto
    <3>2. inq[w][i].from \in Devices /\ inq[w][i].info \in 0..PortMax
      BY <2>1, TakeFacts DEF IsFrame
    <3>3. /\ IsTable(conns') /\ \A v \in Devices \ {w} : conns'[v] = conns[v]
          /\ conns'[w][mine[w]].used = conns[w][mine[w]].used
      <4>1. IsTable(conns)
        BY DEF Shape, TableShape
      <4>2. PICK from, info : /\ from = inq[w][i].from /\ info = inq[w][i].info
        OBVIOUS
      <4>3. /\ conns' = Answered(w, mine[w], from, info)
            /\ from \in Devices /\ info \in 0..PortMax
        BY <3>1, <3>2, <4>2
      <4>4. QED
        <5>1. PICK k : k = mine[w]
          OBVIOUS
        <5>2. w \in Devices /\ k \in Index(w)
          BY <1>a, <5>1
        <5>3. /\ IsTable(Answered(w, k, from, info))
              /\ \A v \in Devices \ {w} : Answered(w, k, from, info)[v] = conns[v]
              /\ Answered(w, k, from, info)[w][k].used = conns[w][k].used
          BY <4>1, <4>3, <5>2, AnsweredFacts
        <5>4. QED
          BY <4>3, <5>1, <5>3
    <3>4. QED
      BY <1>a, <3>1, <3>3 DEF Used
  <2>2. CASE ~(i # 0 /\ inq[w][i].req = "link")
    <3>1. /\ conns' = Closed(w, mine[w]) /\ mine' = [mine EXCEPT ![w] = 0]
          /\ prog' = [prog EXCEPT ![w] = "retry_link"]
      BY <2>2 DEF ReadLink, Goto
    <3>2. /\ IsTable(conns') /\ \A v \in Devices \ {w} : conns'[v] = conns[v]
      BY <1>a, <3>1, ClosedFacts DEF Shape, TableShape
    <3>3. QED
      BY <3>1, <3>2 DEF Used
  <2>3. QED
    BY <2>1, <2>2
<1>1. TableShape'
  BY <1>b DEF Shape, TableShape, ReadLink
<1>2. AirShape'
  BY DEF Shape, AirShape, ReadLink, Goto, tables, listen
<1>3. QueueShape'
  <2>1. CASE Oldest(w, "link") = 0
    BY <2>1, QueueKept DEF Shape, ReadLink
  <2>2. CASE Oldest(w, "link") # 0
    BY <2>2, TakeFacts DEF ReadLink
  <2>3. QED
    BY <2>1, <2>2
<1>4. WatchShape'
  <2>1. tid' = tid \/ tid' = [tid EXCEPT ![w]["link"] = NextTid("link", @)]
    BY DEF ReadLink
  <2>2. NextTid("link", tid[w]["link"]) \in Nat
    BY NextTidType DEF Shape, WatchShape, Apps
  <2>3. tid' \in [Watches -> [Apps -> Nat]]
    BY <2>1, <2>2 DEF Shape, WatchShape, Apps
  <2>4. UNCHANGED <<on, tries, starts, uses, busy, unlinked>>
    BY DEF ReadLink, listen
  <2>5. QED
    <3>1. /\ mine' \in [Watches -> Nat] /\ \A v \in Watches : mine'[v] \in {0} \union Index(v)
      <4>1. mine' = mine \/ mine' = [mine EXCEPT ![w] = 0]
        BY <1>b
      <4>2. mine \in [Watches -> Nat] /\ \A v \in Watches : mine[v] \in {0} \union Index(v)
        BY DEF Shape, WatchShape
      <4>3. QED
        BY <4>1, <4>2
    <3>2. prog' \in [Watches -> {"off", "init", "joining", "retry_init", "retry_link",
                                 "link", "linking", "linked", "ping", "unlink"}]
      BY <1>b DEF Shape, WatchShape
    <3>3. QED
      BY <2>3, <2>4, <3>1, <3>2 DEF Shape, WatchShape
<1>5. HubShape'
  BY DEF Shape, HubShape, ReadLink, Goto, tables, listen
<1>6. ProgramShape'
  <2>1. on' = on
    BY DEF ReadLink
  <2>2. QED
    BY <1>a, <1>b, <2>1, Constants DEF Shape, WatchShape, ProgramShape
<1>7. QED
  BY <1>1, <1>2, <1>3, <1>4, <1>5, <1>6 DEF Shape

LEMMA ReadUnlinkShape ==
  ASSUME Shape, NEW w \in Watches, ReadUnlink(w)
  PROVE  Shape'
<1>a. w \in Devices /\ prog[w] = "unlink" /\ on[w] /\ mine[w] \in Index(w)
  BY Constants DEF Shape, ProgramShape, ReadUnlink, Used
<1>b. IsTable(conns') /\ \A v \in Devices \ {w} : Used(v)' = Used(v)
  BY <1>a, ClosedFacts DEF Shape, TableShape, ReadUnlink, Used
<1>1. TableShape'
  BY <1>b DEF Shape, TableShape, ReadUnlink
<1>2. AirShape'
  BY DEF Shape, AirShape, ReadUnlink, Goto, tables, listen
<1>3. QueueShape'
  <2>1. CASE Oldest(w, "link") = 0
    BY <2>1, QueueKept DEF Shape, ReadUnlink
  <2>2. CASE Oldest(w, "link") # 0
    BY <2>2, TakeFacts DEF ReadUnlink
  <2>3. QED
    BY <2>1, <2>2
<1>4. WatchShape'
  BY Constants DEF Shape, WatchShape, ReadUnlink, Goto, tables, listen
<1>5. HubShape'
  BY DEF Shape, HubShape, ReadUnlink, Goto, tables, listen
<1>6. ProgramShape'
  <2>1. /\ on' = on /\ mine' = [mine EXCEPT ![w] = 0]
        /\ prog' = [prog EXCEPT ![w] = "retry_link"]
    BY DEF ReadUnlink, Goto
  <2>2. QED
    BY <1>a, <1>b, <2>1, Constants DEF Shape, WatchShape, ProgramShape
<1>7. QED
  BY <1>1, <1>2, <1>3, <1>4, <1>5, <1>6 DEF Shape

LEMMA SendPingShape ==
  ASSUME Shape, NEW w \in Watches, SendPing(w)
  PROVE  Shape'
<1>a. 0 \in 0..PortMax
  BY Constants
<1>1. TableShape'
  BY DEF Shape, TableShape, SendPing, Goto, tables, listen, Use
<1>2. AirShape'
  <2>1. IsFrame([app |-> "ping", req |-> "ping", from |-> w, to |-> Hub,
                 tid |-> tid[w]["ping"], info |-> 0])
    BY <1>a, Constants DEF Shape, WatchShape, IsFrame, Apps
  <2>2. QED
    <3>1. \/ air' = air
          \/ Send([app |-> "ping", req |-> "ping", from |-> w, to |-> Hub,
                   tid |-> tid[w]["ping"], info |-> 0])
      BY DEF SendPing, Use
    <3>2. QED
      BY <2>1, <3>1, SendFacts DEF Shape, AirShape
<1>3. QueueShape'
  <2>1. air \subseteq air'
    BY DEF SendPing, Use, Send
  <2>2. QED
    BY <2>1, QueueKept DEF Shape, SendPing, Use
<1>4. WatchShape'
  <2>1. uses[w] + 1 \in 0..MaxUses
    BY Constants DEF Shape, WatchShape, SendPing, Use
  <2>2. QED
    BY <2>1 DEF Shape, WatchShape, SendPing, Use, Goto
<1>5. HubShape'
  BY DEF Shape, HubShape, SendPing, Goto, tables, listen, Use
<1>6. ProgramShape'
  BY DEF Shape, WatchShape, ProgramShape, Used, Index, SendPing, Goto, tables, listen, Use
<1>7. QED
  BY <1>1, <1>2, <1>3, <1>4, <1>5, <1>6 DEF Shape

LEMMA SendUnlinkShape ==
  ASSUME Shape, NEW w \in Watches, SendUnlink(w)
  PROVE  Shape'
<1>a. conns[w][mine[w]].rx \in 0..PortMax
  <2>1. mine[w] \in Index(w)
    BY DEF Shape, ProgramShape, SendUnlink, Use, Used
  <2>2. conns[w] \in [Index(w) -> Conn]
    BY Constants DEF Shape, TableShape, IsTable
  <2>3. QED
    BY <2>1, <2>2 DEF Conn
<1>1. TableShape'
  BY DEF Shape, TableShape, SendUnlink, Goto, tables, listen, Use
<1>2. AirShape'
  <2>1. IsFrame([app |-> "link", req |-> "unlink", from |-> w, to |-> Hub,
                 tid |-> tid[w]["link"], info |-> conns[w][mine[w]].rx])
    BY <1>a, Constants DEF Shape, WatchShape, IsFrame, Apps
  <2>2. QED
    <3>1. \/ air' = air
          \/ Send([app |-> "link", req |-> "unlink", from |-> w, to |-> Hub,
                   tid |-> tid[w]["link"], info |-> conns[w][mine[w]].rx])
      BY DEF SendUnlink, Use
    <3>2. QED
      BY <2>1, <3>1, SendFacts DEF Shape, AirShape
<1>3. QueueShape'
  <2>1. air \subseteq air'
    BY DEF SendUnlink, Use, Send
  <2>2. QED
    BY <2>1, QueueKept DEF Shape, SendUnlink, Use
<1>4. WatchShape'
  <2>1. uses[w] + 1 \in 0..MaxUses
    BY Constants DEF Shape, WatchShape, SendUnlink, Use
  <2>2. QED
    BY <2>1 DEF Shape, WatchShape, SendUnlink, Use, Goto
<1>5. HubShape'
  BY DEF Shape, HubShape, SendUnlink, Goto, tables, listen, Use
<1>6. ProgramShape'
  BY DEF Shape, WatchShape, ProgramShape, Used, Index, SendUnlink, Goto, tables, listen, Use
<1>7. QED
  BY <1>1, <1>2, <1>3, <1>4, <1>5, <1>6 DEF Shape

LEMMA HearReplyShape ==
  ASSUME Shape, NEW w \in Watches, NEW m, HearReply(w, m)
  PROVE  Shape'
<1>1. TableShape'
  BY DEF Shape, TableShape, HearReply, Goto, tables, listen
<1>2. AirShape'
  BY DEF Shape, AirShape, HearReply, Goto, tables, listen
<1>3. QueueShape'
  <2>1. inq[w] \in Seq(Replies(w)) /\ Len(inq[w]) <= InSize /\ m \in Replies(w)
    BY DEF Shape, QueueShape, HearReply, Replies
  <2> DEFINE t == Append(IF Len(inq[w]) = InSize THEN Tail(inq[w]) ELSE inq[w], m)
  <2>2. t \in Seq(Replies(w)) /\ Len(t) <= InSize
    BY <2>1, QueueFacts
  <2>3. inq' = [inq EXCEPT ![w] = t] /\ air' = air
    BY DEF HearReply
  <2> HIDE DEF t
  <2>4. QED
    BY <2>2, <2>3, QueueChanged DEF Shape
<1>4. WatchShape'
  BY Constants DEF Shape, WatchShape, HearReply, Goto, tables, listen
<1>5. HubShape'
  BY DEF Shape, HubShape, HearReply, Goto, tables, listen
<1>6. ProgramShape'
  BY DEF Shape, WatchShape, ProgramShape, Used, Index, HearReply, Goto, tables, listen
<1>7. QED
  BY <1>1, <1>2, <1>3, <1>4, <1>5, <1>6 DEF Shape

LEMMA WatchKeepsShape ==
  ASSUME Shape, NEW w \in Watches, Watch(w) \/ \E m \in air : HearReply(w, m)
  PROVE  Shape'
BY StartShape, RetryShape, StopShape, ReadJoinShape, ReadPingShape, SkipReplyShape,
   InitAndJoinShape, SendLinkShape, ReadLinkShape, ReadUnlinkShape, SendPingShape,
   SendUnlinkShape, HearReplyShape DEF Watch

-----------------------------------------------------------------------------
(* The steps of the access point keep the types.                           *)

LEMMA ReplyFacts ==
  ASSUME Shape, NEW m \in air, m.to = Hub, NEW info \in 0..PortMax, Reply(m, info)
  PROVE  AirShape' /\ air \subseteq air'
<1> DEFINE r == [m EXCEPT !.from = Hub, !.to = m.from, !.info = info]
<1>1. IsFrame(m)
  BY DEF Shape, AirShape
<1>2. IsFrame(r)
  BY <1>1, Constants DEF IsFrame
<1> HIDE DEF r
<1>3. Send(r)
  BY DEF Reply, r
<1>4. QED
  BY <1>2, <1>3, SendFacts DEF Shape

LEMMA WatchesKept ==
  ASSUME Shape, UNCHANGED <<watch, busy, unlinked>>, air \subseteq air',
         \A w \in Watches : conns'[w] = conns[w]
  PROVE  QueueShape' /\ WatchShape' /\ ProgramShape'
<1>1. QueueShape'
  BY QueueKept DEF Shape, watch
<1>2. WatchShape'
  BY DEF Shape, WatchShape, watch
<1>3. ProgramShape'
  BY DEF Shape, ProgramShape, watch, Used
<1>4. QED
  BY <1>1, <1>2, <1>3

\* The connection found for a link or unlink frame.
LEMMA FoundFacts ==
  ASSUME Shape, NEW peer, NEW port, WithPeer(Hub, peer, port) # {}
  PROVE  LET i == Min(WithPeer(Hub, peer, port)) IN
         /\ i \in WithPeer(Hub, peer, port)
         /\ i \in Index(Hub) /\ conns[Hub][i].rx \in 0..PortMax
<1>1. WithPeer(Hub, peer, port) \subseteq Index(Hub) /\ Index(Hub) \subseteq Nat
  BY DEF WithPeer, Used, Index
<1>2. Min(WithPeer(Hub, peer, port)) \in WithPeer(Hub, peer, port)
  BY <1>1, MinFacts, Zenon
<1>3. \A i \in Index(Hub) : conns[Hub][i].rx \in 0..PortMax
  BY Constants DEF Shape, TableShape, IsTable, Conn
<1>4. QED
  BY <1>1, <1>2, <1>3

LEMMA HearRequestShape ==
  ASSUME Shape, NEW m \in air, HearRequest(m)
  PROVE  Shape'
<1>1. AirShape' /\ air \subseteq air'
  BY ReplyFacts, Constants DEF HearRequest
<1>2. TableShape' /\ HubShape'
  BY DEF Shape, TableShape, HubShape, HearRequest, tables, listen
<1>3. QED
  BY <1>1, <1>2, WatchesKept DEF HearRequest, tables, Shape

LEMMA HearAgainShape ==
  ASSUME Shape, NEW m \in air, HearAgain(m)
  PROVE  Shape'
<1>1. AirShape' /\ air \subseteq air'
  BY ReplyFacts, FoundFacts DEF HearAgain
<1>2. TableShape' /\ HubShape'
  BY DEF Shape, TableShape, HubShape, HearAgain, tables, listen
<1>3. QED
  BY <1>1, <1>2, WatchesKept DEF HearAgain, tables, Shape

LEMMA HearUnlinkShape ==
  ASSUME Shape, NEW m \in air, HearUnlink(m)
  PROVE  Shape'
<1> DEFINE found == WithPeer(Hub, m.from, m.info)
<1>1. AirShape' /\ air \subseteq air'
  BY ReplyFacts, Constants DEF HearUnlink
<1>2. IsTable(conns') /\ \A w \in Watches : conns'[w] = conns[w]
  <2>1. CASE found = {}
    BY <2>1 DEF HearUnlink, Shape, TableShape
  <2>2. CASE found # {}
    <3>1. Min(found) \in Index(Hub)
      BY <2>2, FoundFacts
    <3>2. conns' = Closed(Hub, Min(found))
      BY <2>2 DEF HearUnlink
    <3>3. IsTable(conns)
      BY DEF Shape, TableShape
    <3> HIDE DEF found
    <3>4. QED
      BY <3>1, <3>2, <3>3, ClosedFacts, Constants
  <2>3. QED
    BY <2>1, <2>2
<1>3. TableShape' /\ HubShape'
  BY <1>2 DEF Shape, TableShape, HubShape, HearUnlink, listen
<1>4. QED
  BY <1>1, <1>2, <1>3, WatchesKept DEF HearUnlink, Shape

\* What a link frame of a new connection does.
LEMMA HearLinkFacts ==
  ASSUME Shape, NEW m \in air, HearLink(m)
  PROVE  LET i == NextConnection(Hub)
             rx == RxPort(Hub, TRUE, m.from)
         IN  \/ UNCHANGED <<conns, ports, air, service, linkers, raced>>
             \/ /\ i \in Index(Hub) \ Used(Hub) /\ rx \in 1..PortMax
                /\ rx \notin TakenPorts(Hub, TRUE, m.from)
                /\ m.from \in Devices /\ m.info \in 0..PortMax /\ nextLid \in 0..MaxLids
                /\ conns' = Opened(Hub, i, m.from, rx, m.info, nextLid)
                /\ IsTable(conns')
                /\ \A e \in Devices \ {Hub} : conns'[e] = conns[e]
                /\ \A j \in Index(Hub) \ {i} : conns'[Hub][j] = conns[Hub][j]
                /\ conns'[Hub][i] = [used |-> TRUE, peer |-> m.from, rx |-> rx,
                                     tx |-> m.info, lid |-> nextLid]
                /\ ports' = [ports EXCEPT ![Hub] = Bounded(Hub, TRUE, rx)]
                /\ linkers + 1 \in Index(Hub)
                /\ service' = [service EXCEPT ![linkers + 1] = nextLid]
                /\ linkers' = linkers + 1
                /\ raced' = (raced \/ hub \in {"take", "move"})
                /\ Reply(m, rx)
<1> DEFINE i == NextConnection(Hub)
           rx == RxPort(Hub, TRUE, m.from)
<1>1. CASE rx = 0 \/ linkers = NumConn[Hub]
  BY <1>1 DEF HearLink
<1>2. CASE ~(rx = 0 \/ linkers = NumConn[Hub])
  <2>1. i \in Index(Hub) \ Used(Hub)
    BY NextConnectionFacts, Constants DEF HearLink
  <2>2. rx \in 1..PortMax /\ rx \notin TakenPorts(Hub, TRUE, m.from)
    <3>1. rx \in 0..PortMax /\ (rx # 0 => rx \notin TakenPorts(Hub, TRUE, m.from))
      BY RxPortFacts, Constants
    <3>2. rx # 0 /\ PortMax \in Nat
      BY <1>2, Constants
    <3>3. \A r : r \in 0..PortMax /\ r # 0 /\ PortMax \in Nat => r \in 1..PortMax
      OBVIOUS
    <3>4. QED
      BY <3>1, <3>2, <3>3, Zenon
  <2>3. IsFrame(m)
    BY DEF Shape, AirShape
  <2>4. m.from \in Devices /\ m.info \in 0..PortMax
    BY <2>3 DEF IsFrame
  <2>5. nextLid \in 0..MaxLids
    BY Constants DEF HearLink, Shape, TableShape
  <2>6. linkers + 1 \in Index(Hub)
    <3>1. linkers # NumConn[Hub] /\ linkers \in 0..NumConn[Hub] /\ NumConn[Hub] \in Nat
      BY <1>2, Constants DEF Shape, HubShape
    <3>2. QED
      BY <3>1 DEF Index
  <2>7. /\ conns' = Opened(Hub, i, m.from, rx, m.info, nextLid)
        /\ ports' = [ports EXCEPT ![Hub] = Bounded(Hub, TRUE, rx)]
        /\ service' = [service EXCEPT ![linkers + 1] = nextLid]
        /\ linkers' = linkers + 1
        /\ raced' = (raced \/ hub \in {"take", "move"})
        /\ Reply(m, rx)
    BY <1>2 DEF HearLink
  <2> HIDE DEF i, rx
  <2>8. /\ IsTable(conns')
        /\ \A e \in Devices \ {Hub} : conns'[e] = conns[e]
        /\ \A j \in Index(Hub) \ {i} : conns'[Hub][j] = conns[Hub][j]
        /\ conns'[Hub][i] = [used |-> TRUE, peer |-> m.from, rx |-> rx,
                             tx |-> m.info, lid |-> nextLid]
    <3>1. IsTable(conns) /\ Hub \in Devices /\ i \in Index(Hub) /\ rx \in 0..PortMax
      BY <2>1, <2>2, Constants DEF Shape, TableShape
    <3>2. PICK peer, tx : peer = m.from /\ tx = m.info
      OBVIOUS
    <3>3. conns' = Opened(Hub, i, peer, rx, tx, nextLid) /\ peer \in Devices /\ tx \in 0..PortMax
      BY <2>4, <2>7, <3>2
    <3>4. QED
      BY <2>5, <3>1, <3>2, <3>3, OpenedFacts
  <2>9. QED
    BY <2>1, <2>2, <2>4, <2>5, <2>6, <2>7, <2>8 DEF i, rx
<1>3. QED
  BY <1>1, <1>2

LEMMA HearLinkShape ==
  ASSUME Shape, NEW m \in air, HearLink(m)
  PROVE  Shape'
<1> DEFINE rx == RxPort(Hub, TRUE, m.from)
<1>1. nextLid' \in 1..MaxLids + 1 /\ m.to = Hub
  BY Constants DEF HearLink, Shape, TableShape
<1>2. /\ UNCHANGED <<watch, listening, hub, told, busy, unlinked>>
  BY DEF HearLink
<1>3. CASE UNCHANGED <<conns, ports, air, service, linkers, raced>>
  <2>1. TableShape' /\ AirShape' /\ HubShape'
    BY <1>1, <1>2, <1>3 DEF Shape, TableShape, AirShape, HubShape
  <2>2. QED
    BY <1>2, <1>3, <2>1, WatchesKept DEF Shape
<1>4. CASE ~UNCHANGED <<conns, ports, air, service, linkers, raced>>
  <2>1. /\ rx \in 1..PortMax /\ IsTable(conns') /\ nextLid \in 0..MaxLids
        /\ \A e \in Devices \ {Hub} : conns'[e] = conns[e]
        /\ ports' = [ports EXCEPT ![Hub] = Bounded(Hub, TRUE, rx)]
        /\ linkers + 1 \in Index(Hub) /\ linkers' = linkers + 1
        /\ service' = [service EXCEPT ![linkers + 1] = nextLid]
        /\ raced' = (raced \/ hub \in {"take", "move"})
        /\ Reply(m, rx)
    BY <1>4, HearLinkFacts
  <2> HIDE DEF rx
  <2>2. IsPorts(ports')
    BY <2>1, BoundedType, Constants DEF Shape, TableShape
  <2>3. AirShape' /\ air \subseteq air'
    <3>1. rx \in 0..PortMax
      BY <2>1
    <3>2. QED
      BY <1>1, <2>1, <3>1, ReplyFacts
  <2>4. HubShape'
    BY <1>2, <2>1, Constants DEF Shape, HubShape, Index
  <2>5. \A w \in Watches : conns'[w] = conns[w]
    BY <2>1, Constants
  <2>6. QED
    BY <1>1, <1>2, <2>1, <2>2, <2>3, <2>4, <2>5, WatchesKept DEF Shape, TableShape
<1>5. QED
  BY <1>3, <1>4

\* The steps of SMPL_LinkListen.
LEMMA ListenShape ==
  ASSUME Shape, ListenOn \/ PollLinkers \/ TakeLinkID \/ MoveUp \/ ListenTimeout
  PROVE  Shape'
<1>1. UNCHANGED <<tables, air, watch, busy, unlinked>>
  BY DEF ListenOn, PollLinkers, TakeLinkID, MoveUp, ListenTimeout
<1>2. TableShape' /\ AirShape'
  BY <1>1 DEF Shape, TableShape, AirShape, tables
<1>3. QueueShape' /\ WatchShape' /\ ProgramShape'
  BY <1>1, WatchesKept DEF tables
<1>4. HubShape'
  <2>1. CASE ListenOn \/ ListenTimeout
    BY <2>1 DEF Shape, HubShape, ListenOn, ListenTimeout
  <2>2. CASE PollLinkers
    BY <2>2, Constants DEF Shape, HubShape, PollLinkers
  <2>3. CASE TakeLinkID
    <3>1. service[1] \in 0..MaxLids
      BY Constants DEF Shape, HubShape, Index
    <3>2. QED
      BY <2>3, <3>1 DEF Shape, HubShape, TakeLinkID
  <2>4. CASE MoveUp
    <3>1. PICK stray \in {0, MaxLids} :
            service' = [i \in DOMAIN service |->
                          IF i > linkers THEN service[i]
                          ELSE IF i = NumConn[Hub] THEN stray ELSE service[i + 1]]
      BY <2>4 DEF MoveUp
    <3>2. service \in [Index(Hub) -> 0..MaxLids] /\ stray \in 0..MaxLids
      BY Constants DEF Shape, HubShape
    <3>3. \A i \in Index(Hub) : i # NumConn[Hub] => i + 1 \in Index(Hub)
      BY Constants DEF Index
    <3>4. service' \in [Index(Hub) -> 0..MaxLids]
      BY <3>1, <3>2, <3>3
    <3>5. QED
      BY <2>4, <3>4 DEF Shape, HubShape, MoveUp
  <2>5. QED
    BY <2>1, <2>2, <2>3, <2>4
<1>5. QED
  BY <1>2, <1>3, <1>4 DEF Shape

LEMMA NextShape == Shape /\ [Next]_vars => Shape'
<1> SUFFICES ASSUME Shape, [Next]_vars PROVE Shape'
  OBVIOUS
<1>1. CASE Next
  <2>1. ASSUME NEW w \in Watches, Watch(w) \/ \E m \in air : HearReply(w, m) PROVE Shape'
    BY <2>1, WatchKeepsShape
  <2>2. CASE AccessPoint
    BY <2>2, HearRequestShape, HearAgainShape, HearLinkShape, HearUnlinkShape, ListenShape
       DEF AccessPoint
  <2>3. QED
    BY <1>1, <2>1, <2>2 DEF Next
<1>2. CASE UNCHANGED vars
  BY <1>2 DEF vars, tables, watch, listen, Shape, TableShape, AirShape, QueueShape, Replies,
              WatchShape, HubShape, ProgramShape, Used
<1>3. QED
  BY <1>1, <1>2

LEMMA InitShape == Init => Shape
<1> SUFFICES ASSUME Init PROVE Shape
  OBVIOUS
<1>1. IsTable(conns)
  BY Constants DEF Init, IsTable
<1>2. IsPorts(ports) /\ nextLid \in 1..MaxLids + 1
  <2>1. PortBase \in 0..PortMax /\ PortMax \in 0..PortMax
    BY Constants
  <2>2. QED
    BY <2>1, Constants DEF Init, IsPorts
<1>3. AirShape /\ QueueShape
  <2>1. \A w \in Watches : <<>> \in Seq(Replies(w)) /\ Len(<<>>) <= InSize
    BY EmptySeq, Constants
  <2>2. QED
    BY <2>1 DEF Init, AirShape, QueueShape
<1>4. WatchShape
  BY Constants DEF Init, WatchShape
<1>5. HubShape
  <2>1. 0 \in 0..MaxLids /\ 0 \in 0..NumConn[Hub]
    BY Constants
  <2>2. QED
    BY <2>1 DEF Init, HubShape
<1>6. ProgramShape
  BY DEF Init, ProgramShape
<1>7. QED
  BY <1>1, <1>2, <1>3, <1>4, <1>5, <1>6 DEF Shape, TableShape

LEMMA ShapeAlways == Spec => []Shape
BY InitShape, NextShape, PTL DEF Spec

\* Tables, ports, queues and programs keep their types, and the queue of replies
\* its size, for any number of watches.
THEOREM TypeCorrect == Spec => []TypeOK
BY ShapeAlways, ShapeIsTypeOK, PTL

-----------------------------------------------------------------------------
(* What the access point holds.                                            *)

\* A watch changes nothing of the access point.
LEMMA WatchLeavesHub ==
  ASSUME Shape, NEW w \in Watches, Watch(w) \/ \E m \in air : HearReply(w, m)
  PROVE  UNCHANGED listen /\ conns'[Hub] = conns[Hub]
<1>1. UNCHANGED listen
  BY DEF Watch, Start, InitAndJoin, ReadJoin, SendLink, ReadLink, Retry, Stop, SendPing,
         SendUnlink, Use, ReadPing, SkipReply, ReadUnlink, HearReply
<1>2. CASE UNCHANGED conns
  BY <1>1, <1>2
<1>3. CASE InitAndJoin(w)
  BY <1>1, <1>3, Constants DEF InitAndJoin, Shape, TableShape, IsTable
<1>4. CASE SendLink(w)
  BY <1>1, <1>4, Constants DEF SendLink, Opened, Shape, TableShape, IsTable
<1>5. CASE ReadLink(w)
  BY <1>1, <1>5, Constants DEF ReadLink, Answered, Closed, Shape, TableShape, IsTable
<1>6. CASE ReadUnlink(w)
  BY <1>1, <1>6, Constants DEF ReadUnlink, Closed, Shape, TableShape, IsTable
<1>7. QED
  BY <1>2, <1>3, <1>4, <1>5, <1>6
     DEF Watch, Start, ReadJoin, Retry, Stop, SendPing, SendUnlink, Use, ReadPing, SkipReply,
         HearReply, tables

\* Nor does the access point of a watch.
LEMMA HubLeavesWatches ==
  ASSUME Shape, AccessPoint
  PROVE  UNCHANGED <<watch, busy, unlinked>> /\ \A w \in Watches : conns'[w] = conns[w]
<1>1. UNCHANGED <<watch, busy, unlinked>>
  BY DEF AccessPoint, HearRequest, HearAgain, HearLink, HearUnlink, ListenOn, PollLinkers,
         TakeLinkID, MoveUp, ListenTimeout
<1>2. ASSUME NEW w \in Watches PROVE conns'[w] = conns[w]
  <2>1. CASE UNCHANGED conns
    BY <2>1
  <2>2. ASSUME NEW m \in air, HearLink(m) PROVE conns'[w] = conns[w]
    BY <2>2, HearLinkFacts, Constants
  <2>3. ASSUME NEW m \in air, HearUnlink(m) PROVE conns'[w] = conns[w]
    BY <2>3, Constants DEF HearUnlink, Closed, Shape, TableShape, IsTable
  <2>4. QED
    BY <2>1, <2>2, <2>3
       DEF AccessPoint, HearRequest, HearAgain, ListenOn, PollLinkers, TakeLinkID, MoveUp,
           ListenTimeout, tables
<1>3. QED
  BY <1>1, <1>2

\* Taking a link down leaves the other connections as they are.
LEMMA HearUnlinkFacts ==
  ASSUME Shape, NEW m \in air, HearUnlink(m)
  PROVE  /\ \A j \in Used(Hub)' : j \in Used(Hub) /\ conns'[Hub][j] = conns[Hub][j]
         /\ \A j \in Used(Hub) : conns[Hub][j].peer # m.from =>
              j \in Used(Hub)' /\ conns'[Hub][j] = conns[Hub][j]
<1> DEFINE found == WithPeer(Hub, m.from, m.info)
<1>1. CASE found = {}
  BY <1>1 DEF HearUnlink, Used
<1>2. CASE found # {}
  <2>1. Min(found) \in Index(Hub) /\ Min(found) \in found
    BY <1>2, FoundFacts
  <2>2. conns[Hub][Min(found)].peer = m.from
    BY <2>1 DEF WithPeer
  <2>3. conns' = Closed(Hub, Min(found))
    BY <1>2 DEF HearUnlink
  <2> HIDE DEF found
  <2>4. /\ \A j \in Index(Hub) \ {Min(found)} : conns'[Hub][j] = conns[Hub][j]
        /\ conns'[Hub][Min(found)] = Free
    BY <2>1, <2>3, ClosedFacts, Constants DEF Shape, TableShape
  <2>5. ~Free.used
    BY DEF Free
  <2>6. QED
    BY <2>2, <2>4, <2>5 DEF Used
<1>3. QED
  BY <1>1, <1>2

LEMMA OneEachStep == Shape /\ OneEach /\ [Next]_vars => OneEach'
<1> SUFFICES ASSUME Shape, OneEach, [Next]_vars PROVE OneEach'
  OBVIOUS
<1>1. CASE conns'[Hub] = conns[Hub]
  BY <1>1 DEF OneEach, Used
<1>2. ASSUME NEW m \in air, HearUnlink(m) PROVE OneEach'
  BY <1>2, HearUnlinkFacts DEF OneEach
<1>3. ASSUME NEW m \in air, HearLink(m), conns' # conns PROVE OneEach'
  <2> DEFINE i == NextConnection(Hub)
             rx == RxPort(Hub, TRUE, m.from)
  <2>1. /\ i \in Index(Hub) \ Used(Hub)
        /\ rx \notin TakenPorts(Hub, TRUE, m.from)
        /\ \A j \in Index(Hub) \ {i} : conns'[Hub][j] = conns[Hub][j]
        /\ conns'[Hub][i] = [used |-> TRUE, peer |-> m.from, rx |-> rx,
                             tx |-> m.info, lid |-> nextLid]
    BY <1>3, HearLinkFacts
  <2>2. ASSUME NEW j \in Used(Hub), conns[Hub][j].peer = m.from
        PROVE  conns[Hub][j].rx # rx /\ conns[Hub][j].tx # m.info
    <3>1. conns[Hub][j].rx <= PortMax
      BY Constants DEF Shape, TableShape, IsTable, Conn, Used
    <3>2. conns[Hub][j].rx \in TakenPorts(Hub, TRUE, m.from)
      BY <2>2, <3>1 DEF TakenPorts
    <3>3. j \notin WithPeer(Hub, m.from, m.info)
      BY <1>3 DEF HearLink
    <3>4. QED
      BY <2>1, <2>2, <3>2, <3>3 DEF WithPeer
  <2> HIDE DEF i, rx
  <2>3. /\ \A j \in Used(Hub)' \ {i} : j \in Used(Hub) /\ conns'[Hub][j] = conns[Hub][j]
        /\ conns'[Hub][i].peer = m.from /\ conns'[Hub][i].rx = rx /\ conns'[Hub][i].tx = m.info
    BY <2>1 DEF Used
  <2>4. QED
    BY <2>2, <2>3 DEF OneEach
<1>4. ASSUME NEW w \in Watches, Watch(w) \/ \E m \in air : HearReply(w, m) PROVE OneEach'
  BY <1>1, <1>4, WatchLeavesHub
<1>5. CASE AccessPoint
  BY <1>1, <1>2, <1>3, <1>5
     DEF AccessPoint, HearRequest, HearAgain, ListenOn, PollLinkers, TakeLinkID, MoveUp,
         ListenTimeout, tables
<1>6. CASE UNCHANGED vars
  BY <1>1, <1>6 DEF vars, tables
<1>7. QED
  BY <1>4, <1>5, <1>6 DEF Next

\* However often requests are repeated, the access point has one connection for
\* each port of a watch, on a port of its own.
THEOREM OneEachCorrect == Spec => []OneEach
<1>1. Init => OneEach
  BY Constants DEF Init, OneEach, Used, Free
<1>2. QED
  BY <1>1, OneEachStep, ShapeAlways, PTL DEF Spec

-----------------------------------------------------------------------------
(* What its application is told. The links the application has yet to take *)
(* are the first of the list; while it takes one they are one place up.    *)

Waiting ==
  CASE hub = "take" -> 1..linkers + 1
    [] hub = "move" -> 2..linkers + 1
    [] OTHER -> 1..linkers

TellInv ==
  ~raced =>
    /\ hub \in {"take", "move"} => linkers < NumConn[Hub]
    /\ \A i \in Used(Hub) : conns[Hub][i].lid \in told \union {service[j] : j \in Waiting}

LEMMA TellStep == Shape /\ TellInv /\ [Next]_vars => TellInv'
<1> SUFFICES ASSUME Shape, TellInv, [Next]_vars PROVE TellInv'
  OBVIOUS
<1>1. CASE UNCHANGED listen /\ conns'[Hub] = conns[Hub]
  BY <1>1 DEF TellInv, Waiting, Used, listen
<1>2. ASSUME NEW w \in Watches, Watch(w) \/ \E m \in air : HearReply(w, m) PROVE TellInv'
  BY <1>1, <1>2, WatchLeavesHub
<1>3. ASSUME NEW m \in air, HearUnlink(m) PROVE TellInv'
  <2>1. UNCHANGED listen
    BY <1>3 DEF HearUnlink
  <2>2. QED
    BY <1>3, <2>1, HearUnlinkFacts DEF TellInv, Waiting, listen
<1>4. ASSUME NEW m \in air, HearLink(m) PROVE TellInv'
  <2>1. UNCHANGED <<hub, told>>
    BY <1>4 DEF HearLink
  <2>2. CASE UNCHANGED <<conns, ports, air, service, linkers, raced>>
    BY <2>1, <2>2 DEF TellInv, Waiting, Used
  <2>3. CASE ~UNCHANGED <<conns, ports, air, service, linkers, raced>>
    <3> DEFINE i == NextConnection(Hub)
    <3>1. /\ i \in Index(Hub) \ Used(Hub)
          /\ \A j \in Index(Hub) \ {i} : conns'[Hub][j] = conns[Hub][j]
          /\ conns'[Hub][i] = [used |-> TRUE, peer |-> m.from, rx |-> RxPort(Hub, TRUE, m.from),
                               tx |-> m.info, lid |-> nextLid]
          /\ linkers + 1 \in Index(Hub)
          /\ service' = [service EXCEPT ![linkers + 1] = nextLid]
          /\ linkers' = linkers + 1
          /\ raced' = (raced \/ hub \in {"take", "move"})
      BY <1>4, <2>3, HearLinkFacts
    <3> HIDE DEF i
    <3>2. /\ \A j \in Used(Hub)' \ {i} : j \in Used(Hub) /\ conns'[Hub][j] = conns[Hub][j]
          /\ conns'[Hub][i].lid = nextLid
      BY <3>1 DEF Used
    <3>3. SUFFICES ASSUME ~raced' PROVE TellInv'
      BY DEF TellInv
    <3>4. ~raced /\ hub \in {"idle", "poll"}
      BY <3>1, <3>3 DEF Shape, HubShape
    <3>5. Waiting = 1..linkers /\ Waiting' = 1..linkers + 1
      BY <2>1, <3>1, <3>4 DEF Waiting
    <3>6. /\ linkers \in Nat /\ service \in [Index(Hub) -> 0..MaxLids]
          /\ 1..linkers \subseteq Index(Hub)
      BY <3>1, Constants DEF Shape, HubShape, Index
    <3>7. service'[linkers + 1] = nextLid /\ \A j \in 1..linkers : service'[j] = service[j]
      BY <3>1, <3>6
    <3>8. {service[j] : j \in Waiting} \subseteq {service'[j] : j \in Waiting'}
      BY <3>5, <3>6, <3>7
    <3>9. nextLid \in {service'[j] : j \in Waiting'}
      BY <3>5, <3>6, <3>7
    <3>10. \A j \in Used(Hub)' : conns'[Hub][j].lid \in told' \union {service'[k] : k \in Waiting'}
      BY <2>1, <3>2, <3>4, <3>8, <3>9 DEF TellInv
    <3>11. QED
      BY <2>1, <3>4, <3>10 DEF TellInv
  <2>4. QED
    BY <2>2, <2>3
<1>5. CASE PollLinkers
  <2>1. Waiting' = Waiting /\ linkers' < NumConn[Hub]
    BY <1>5, Constants DEF PollLinkers, Waiting, Shape, HubShape
  <2>2. QED
    BY <1>5, <2>1 DEF PollLinkers, TellInv, Used, tables
<1>6. CASE TakeLinkID
  <2>1. \A j \in Waiting : j = 1 \/ j \in Waiting'
    BY <1>6, Constants DEF TakeLinkID, Waiting, Shape, HubShape
  <2>2. told' = told \union {service[1]} /\ UNCHANGED <<service, linkers, raced, conns>> /\ hub = "take"
    BY <1>6 DEF TakeLinkID, tables
  <2>3. \A x : x \in told \union {service[j] : j \in Waiting}
                 => x \in told' \union {service'[j] : j \in Waiting'}
    BY <2>1, <2>2
  <2>4. QED
    BY <2>2, <2>3 DEF TellInv, Used
<1>7. CASE MoveUp
  <2>1. SUFFICES ASSUME ~raced PROVE TellInv'
    BY <1>7 DEF MoveUp, TellInv
  <2>2. UNCHANGED <<told, linkers, raced, conns>> /\ hub = "move" /\ hub' = "idle"
    BY <1>7 DEF MoveUp, tables
  <2>3. linkers \in Nat /\ linkers < NumConn[Hub] /\ NumConn[Hub] \in Nat
    BY <2>1, <2>2, Constants DEF TellInv, Shape, HubShape
  <2>4. Waiting = 2..linkers + 1 /\ Waiting' = 1..linkers
    BY <2>2 DEF Waiting
  <2>5. DOMAIN service = 1..NumConn[Hub]
    BY DEF Shape, HubShape, Index
  <2>6. \A j \in 1..linkers : service'[j] = service[j + 1]
    BY <1>7, <2>3, <2>5 DEF MoveUp
  <2>7. \A j \in 2..linkers + 1 : j - 1 \in 1..linkers /\ service'[j - 1] = service[j]
    BY <2>3, <2>6
  <2>8. {service[j] : j \in Waiting} \subseteq {service'[j] : j \in Waiting'}
    BY <2>4, <2>7
  <2>9. QED
    BY <2>1, <2>2, <2>8 DEF TellInv, Used
<1>8. CASE ListenOn \/ ListenTimeout
  BY <1>8 DEF ListenOn, ListenTimeout, TellInv, Waiting, Used, tables
<1>9. ASSUME NEW m \in air, HearRequest(m) \/ HearAgain(m) PROVE TellInv'
  BY <1>1, <1>9 DEF HearRequest, HearAgain, tables
<1>10. CASE UNCHANGED vars
  BY <1>1, <1>10 DEF vars, tables
<1>11. QED
  BY <1>2, <1>3, <1>4, <1>5, <1>6, <1>7, <1>8, <1>9, <1>10 DEF Next, AccessPoint

\* Every connection of the access point is known to its application or waits for
\* the next SMPL_LinkListen, unless a link came in while one was being taken.
THEOREM EveryLinkIsAlwaysTold == Spec => []EveryLinkIsTold
<1>1. Init => TellInv
  BY Constants DEF Init, TellInv, Used, Free
<1>2. TellInv => EveryLinkIsTold
  BY DEF TellInv, Waiting, EveryLinkIsTold
<1>3. QED
  BY <1>1, <1>2, TellStep, ShapeAlways, PTL DEF Spec

-----------------------------------------------------------------------------
(* What a watch holds.                                                     *)

\* What the steps of a watch do to its table.
LEMMA SendLinkFacts ==
  ASSUME Shape, NEW w \in Watches, SendLink(w)
  PROVE  LET i == NextConnection(w)
             rx == RxPort(w, FALSE, Hub)
         IN  \/ UNCHANGED <<conns, mine, busy, air>> /\ prog'[w] = "retry_link"
             \/ /\ i \in Index(w) \ Used(w) /\ rx # 0
                /\ \A j \in Index(w) \ {i} : conns'[w][j] = conns[w][j]
                /\ conns'[w][i] = [used |-> TRUE, peer |-> Hub, rx |-> rx, tx |-> 0, lid |-> 0]
                /\ \/ /\ mine' = [mine EXCEPT ![w] = i] /\ busy' = busy
                      /\ Send([app |-> "link", req |-> "link", from |-> w, to |-> Hub,
                               tid |-> tid[w]["link"], info |-> rx])
                   \/ /\ mine' = mine /\ busy' = busy \union {w} /\ air' = air
                      /\ prog'[w] = "retry_link"
<1> DEFINE i == NextConnection(w)
           rx == RxPort(w, FALSE, Hub)
<1>1. CASE i = 0 \/ rx = 0
  BY <1>1 DEF SendLink, Goto, Shape, WatchShape
<1>2. CASE i # 0 /\ rx # 0
  <2>1. i \in Index(w) \ Used(w) /\ w \in Devices /\ rx \in 0..PortMax
    BY <1>2, NextConnectionFacts, RxPortFacts, Constants
  <2>2. /\ conns' = Opened(w, i, Hub, rx, 0, 0)
        /\ \/ /\ mine' = [mine EXCEPT ![w] = i] /\ busy' = busy
              /\ Send([app |-> "link", req |-> "link", from |-> w, to |-> Hub,
                       tid |-> tid[w]["link"], info |-> rx])
           \/ /\ mine' = mine /\ busy' = busy \union {w} /\ air' = air
              /\ prog'[w] = "retry_link"
    BY <1>2 DEF SendLink, Goto, Shape, WatchShape
  <2> HIDE DEF i, rx
  <2>3. /\ \A j \in Index(w) \ {i} : conns'[w][j] = conns[w][j]
        /\ conns'[w][i] = [used |-> TRUE, peer |-> Hub, rx |-> rx, tx |-> 0, lid |-> 0]
    <3>1. IsTable(conns) /\ 0 \in 0..PortMax /\ 0 \in 0..MaxLids /\ Hub \in Devices
      BY Constants DEF Shape, TableShape
    <3>2. QED
      BY <2>1, <2>2, <3>1, OpenedFacts
  <2>4. QED
    BY <1>2, <2>1, <2>2, <2>3 DEF i, rx
<1>3. QED
  BY <1>1, <1>2

LEMMA ReadLinkFacts ==
  ASSUME Shape, NEW w \in Watches, ReadLink(w)
  PROVE  LET i == Oldest(w, "link") IN
         /\ mine[w] \in Used(w) /\ UNCHANGED <<on, busy, unlinked, air>>
         /\ \/ /\ i # 0 /\ inq[w][i].req = "link"
               /\ Used(w)' = Used(w) /\ mine' = mine /\ prog'[w] = "linked"
               /\ \A j \in Index(w) : conns'[w][j].rx = conns[w][j].rx
               /\ conns'[w][mine[w]].tx = inq[w][i].info
            \/ /\ mine' = [mine EXCEPT ![w] = 0] /\ prog'[w] = "retry_link"
               /\ \A j \in Index(w) \ {mine[w]} : conns'[w][j] = conns[w][j]
               /\ conns'[w][mine[w]] = Free
<1> DEFINE i == Oldest(w, "link")
<1>1. mine[w] \in Used(w) /\ mine[w] \in Index(w) /\ w \in Devices
  BY Constants DEF Shape, ProgramShape, ReadLink, Used
<1>2. UNCHANGED <<on, busy, unlinked, air>>
  BY DEF ReadLink
<1>3. CASE i # 0 /\ inq[w][i].req = "link"
  <2>1. PICK from, info, k : from = inq[w][i].from /\ info = inq[w][i].info /\ k = mine[w]
    OBVIOUS
  <2>2. conns' = Answered(w, k, from, info) /\ mine' = mine /\ prog'[w] = "linked"
    BY <1>3, <2>1 DEF ReadLink, Goto, Shape, WatchShape
  <2>3. from \in Devices /\ info \in 0..PortMax
    BY <1>3, <2>1, TakeFacts DEF IsFrame
  <2>4. k \in Index(w) /\ IsTable(conns)
    BY <1>1, <2>1 DEF Shape, TableShape
  <2>5. /\ \A j \in Index(w) \ {k} : conns'[w][j] = conns[w][j]
        /\ conns'[w][k].used = conns[w][k].used /\ conns'[w][k].rx = conns[w][k].rx
        /\ conns'[w][k].tx = info
    BY <1>1, <2>2, <2>3, <2>4, AnsweredFacts
  <2>6. /\ \A j \in Index(w) : conns'[w][j].used = conns[w][j].used
        /\ \A j \in Index(w) : conns'[w][j].rx = conns[w][j].rx
    BY <2>5
  <2>7. QED
    BY <1>1, <1>2, <1>3, <2>1, <2>2, <2>5, <2>6 DEF Used
<1>4. CASE ~(i # 0 /\ inq[w][i].req = "link")
  <2>1. conns' = Closed(w, mine[w]) /\ mine' = [mine EXCEPT ![w] = 0] /\ prog'[w] = "retry_link"
    BY <1>4 DEF ReadLink, Goto, Shape, WatchShape
  <2>2. QED
    BY <1>1, <1>2, <2>1, ClosedFacts DEF Shape, TableShape
<1>5. QED
  BY <1>3, <1>4

LEMMA ReadUnlinkFacts ==
  ASSUME Shape, NEW w \in Watches, ReadUnlink(w)
  PROVE  /\ mine[w] \in Used(w) /\ mine' = [mine EXCEPT ![w] = 0] /\ prog'[w] = "retry_link"
         /\ UNCHANGED <<on, busy, unlinked, air>>
         /\ \A j \in Index(w) \ {mine[w]} : conns'[w][j] = conns[w][j]
         /\ conns'[w][mine[w]] = Free
<1>1. mine[w] \in Used(w) /\ mine[w] \in Index(w) /\ w \in Devices
  BY Constants DEF Shape, ProgramShape, ReadUnlink, Used
<1>2. /\ conns' = Closed(w, mine[w]) /\ mine' = [mine EXCEPT ![w] = 0] /\ prog'[w] = "retry_link"
      /\ UNCHANGED <<on, busy, unlinked, air>>
  BY DEF ReadUnlink, Goto, Shape, WatchShape
<1>3. QED
  BY <1>1, <1>2, ClosedFacts DEF Shape, TableShape

\* A step of a watch leaves every other watch alone.
LEMMA OtherWatches ==
  ASSUME Shape, NEW w \in Watches, Watch(w) \/ \E m \in air : HearReply(w, m),
         NEW v \in Watches, v # w
  PROVE  /\ conns'[v] = conns[v] /\ prog'[v] = prog[v] /\ on'[v] = on[v] /\ mine'[v] = mine[v]
         /\ (v \in busy') <=> (v \in busy)
         /\ (v \in unlinked') <=> (v \in unlinked)
<1>1. conns'[v] = conns[v]
  <2>1. CASE UNCHANGED conns
    BY <2>1
  <2>2. CASE InitAndJoin(w)
    BY <2>2, Constants DEF InitAndJoin, Shape, TableShape, IsTable
  <2>3. CASE SendLink(w)
    BY <2>3, Constants DEF SendLink, Opened, Shape, TableShape, IsTable
  <2>4. CASE ReadLink(w)
    BY <2>4, Constants DEF ReadLink, Answered, Closed, Shape, TableShape, IsTable
  <2>5. CASE ReadUnlink(w)
    BY <2>5, Constants DEF ReadUnlink, Closed, Shape, TableShape, IsTable
  <2>6. QED
    BY <2>1, <2>2, <2>3, <2>4, <2>5
       DEF Watch, Start, ReadJoin, Retry, Stop, SendPing, SendUnlink, Use, ReadPing, SkipReply,
           HearReply, tables
<1>2. prog'[v] = prog[v]
  BY DEF Watch, Start, InitAndJoin, ReadJoin, SendLink, ReadLink, Retry, Stop, SendPing,
         SendUnlink, Use, ReadPing, SkipReply, ReadUnlink, HearReply, Goto, Shape, WatchShape
<1>3. on'[v] = on[v]
  BY DEF Watch, Start, InitAndJoin, ReadJoin, SendLink, ReadLink, Retry, Stop, SendPing,
         SendUnlink, Use, ReadPing, SkipReply, ReadUnlink, HearReply, Shape, WatchShape
<1>4. mine'[v] = mine[v]
  BY DEF Watch, Start, InitAndJoin, ReadJoin, SendLink, ReadLink, Retry, Stop, SendPing,
         SendUnlink, Use, ReadPing, SkipReply, ReadUnlink, HearReply, Shape, WatchShape
<1>5. (v \in busy') <=> (v \in busy)
  BY DEF Watch, Start, InitAndJoin, ReadJoin, SendLink, ReadLink, Retry, Stop, SendPing,
         SendUnlink, Use, ReadPing, SkipReply, ReadUnlink, HearReply
<1>6. (v \in unlinked') <=> (v \in unlinked)
  BY DEF Watch, Start, InitAndJoin, ReadJoin, SendLink, ReadLink, Retry, Stop, SendPing,
         SendUnlink, Use, ReadPing, SkipReply, ReadUnlink, HearReply
<1>7. QED
  BY <1>1, <1>2, <1>3, <1>4, <1>5, <1>6

LEMMA TakenStep == Shape /\ TakenIsMine /\ [Next]_vars => TakenIsMine'
<1> SUFFICES ASSUME Shape, TakenIsMine, [Next]_vars PROVE TakenIsMine'
  OBVIOUS
<1> DEFINE Mine(w) == on[w] /\ w \notin busy => Used(w) = IF mine[w] = 0 THEN {} ELSE {mine[w]}
<1>1. ASSUME NEW w \in Watches, Watch(w) \/ \E m \in air : HearReply(w, m) PROVE TakenIsMine'
  <2>1. SUFFICES Mine(w)'
    <3>1. ASSUME NEW v \in Watches, v # w PROVE Mine(v)'
      BY <1>1, <3>1, OtherWatches DEF TakenIsMine, Used
    <3>2. QED
      BY <3>1 DEF TakenIsMine
  <2>2. Mine(w) /\ mine \in [Watches -> Nat] /\ on \in [Watches -> BOOLEAN] /\ 0 \notin Index(w)
    BY DEF TakenIsMine, Shape, WatchShape, Index
  <2>3. CASE UNCHANGED <<conns, on, mine, busy>>
    BY <2>2, <2>3 DEF Used
  <2>4. CASE Retry(w) \/ Stop(w)
    BY <2>2, <2>4 DEF Retry, Stop, tables, Used
  <2>5. CASE InitAndJoin(w) /\ ~on[w]
    <3>1. conns'[w] = [i \in Index(w) |-> Free] /\ mine'[w] = 0
      BY <2>2, <2>5, Constants DEF InitAndJoin, Shape, TableShape, IsTable
    <3>2. QED
      BY <3>1 DEF Used, Free
  <2>6. CASE SendLink(w)
    <3>1. mine[w] = 0 /\ on'[w] = on[w]
      BY <2>6 DEF SendLink, Shape, ProgramShape
    <3>2. CASE UNCHANGED <<conns, mine, busy, air>>
      BY <2>2, <3>1, <3>2 DEF Used
    <3>3. CASE ~UNCHANGED <<conns, mine, busy, air>>
      <4>1. PICK i \in Index(w) \ Used(w) :
              /\ \A j \in Index(w) \ {i} : conns'[w][j] = conns[w][j]
              /\ conns'[w][i].used
              /\ \/ mine' = [mine EXCEPT ![w] = i] /\ busy' = busy
                 \/ w \in busy'
        <5> DEFINE k == NextConnection(w)
        <5>1. /\ k \in Index(w) \ Used(w)
              /\ \A j \in Index(w) \ {k} : conns'[w][j] = conns[w][j]
              /\ conns'[w][k] = [used |-> TRUE, peer |-> Hub, rx |-> RxPort(w, FALSE, Hub),
                                 tx |-> 0, lid |-> 0]
              /\ \/ mine' = [mine EXCEPT ![w] = k] /\ busy' = busy
                 \/ busy' = busy \union {w}
          BY <2>6, <3>3, SendLinkFacts
        <5> HIDE DEF k
        <5>2. conns'[w][k].used
          BY <5>1
        <5>3. QED
          BY <5>1, <5>2
      <4>2. Used(w)' = Used(w) \union {i} /\ i # 0
        BY <2>2, <4>1 DEF Used
      <4>3. QED
        BY <2>2, <3>1, <4>1, <4>2
    <3>4. QED
      BY <3>2, <3>3
  <2>7. CASE ReadLink(w)
    <3>1. mine[w] \in Used(w) /\ on' = on /\ busy' = busy /\ mine[w] # 0
      BY <2>2, <2>7, ReadLinkFacts DEF Used
    <3>2. CASE Used(w)' = Used(w) /\ mine' = mine
      BY <2>2, <3>1, <3>2
    <3>3. CASE ~(Used(w)' = Used(w) /\ mine' = mine)
      <4>1. /\ mine' = [mine EXCEPT ![w] = 0]
            /\ \A j \in Index(w) \ {mine[w]} : conns'[w][j] = conns[w][j]
            /\ conns'[w][mine[w]] = Free
        BY <2>7, <3>3, ReadLinkFacts
      <4>2. Used(w)' = Used(w) \ {mine[w]}
        BY <3>1, <4>1 DEF Used, Free
      <4>3. QED
        BY <2>2, <3>1, <4>1, <4>2
    <3>4. QED
      BY <3>2, <3>3
  <2>8. CASE ReadUnlink(w)
    <3>1. /\ mine[w] \in Used(w) /\ on' = on /\ busy' = busy /\ mine[w] # 0
          /\ mine' = [mine EXCEPT ![w] = 0]
          /\ \A j \in Index(w) \ {mine[w]} : conns'[w][j] = conns[w][j]
          /\ conns'[w][mine[w]] = Free
      BY <2>2, <2>8, ReadUnlinkFacts DEF Used
    <3>2. Used(w)' = Used(w) \ {mine[w]}
      BY <3>1 DEF Used, Free
    <3>3. QED
      BY <2>2, <3>1, <3>2
  <2>9. QED
    BY <1>1, <2>3, <2>4, <2>5, <2>6, <2>7, <2>8
       DEF Watch, Start, InitAndJoin, ReadJoin, SendPing, SendUnlink, Use, ReadPing, SkipReply,
           HearReply, tables
<1>2. CASE AccessPoint
  BY <1>2, HubLeavesWatches DEF TakenIsMine, Used, watch
<1>3. CASE UNCHANGED vars
  BY <1>3 DEF vars, tables, watch, TakenIsMine, Used
<1>4. QED
  BY <1>1, <1>2, <1>3 DEF Next

\* A watch's table holds the connection it is making or using and no other, unless
\* a link frame could not be sent since its network was started.
THEOREM TakenIsMineCorrect == Spec => []TakenIsMine
<1>1. Init => TakenIsMine
  BY DEF Init, TakenIsMine
<1>2. QED
  BY <1>1, TakenStep, ShapeAlways, PTL DEF Spec

-----------------------------------------------------------------------------
(* What both ends agree on. A watch has room for one connection, as        *)
(* NUM_CONNECTIONS of smpl_config.h says; with two, a late reply about one *)
(* port can be taken for one about the other.                              *)

OneConnection == \A w \in Watches : NumConn[w] = 1

OnePortEach == \A w \in Watches : \A i \in Used(w) : conns[w][i].rx = PortMax

\* Every request names the one port a watch has, and only a watch that takes links
\* down asks for it.
RequestsNameIt ==
  \A m \in air : m.to = Hub =>
    /\ m.req = "link" => m.info = PortMax
    /\ m.req = "unlink" => m.from \in unlinked

\* A reply to a link frame of a watch that takes no link down is about a
\* connection that is still there.
RepliesHold ==
  \A m \in air : m.to # Hub /\ m.req = "link" /\ m.to \notin unlinked =>
    \E i \in WithPeer(Hub, m.to, PortMax) : conns[Hub][i].rx = m.info

SharedInv == OnePortEach /\ RequestsNameIt /\ RepliesHold /\ LinkedIsShared

\* With one connection the port is the highest.
LEMMA OnePort ==
  ASSUME OneConnection, Shape, NEW w \in Watches, NextConnection(w) # 0
  PROVE  RxPort(w, FALSE, Hub) \in {0, PortMax}
<1>1. NumConn[w] = 1 /\ Index(w) = {1} /\ Used(w) = {}
  <2>1. NumConn[w] = 1
    BY DEF OneConnection
  <2>2. NextConnection(w) \in Index(w) \ Used(w)
    BY NextConnectionFacts, Constants
  <2>3. QED
    BY <2>1, <2>2 DEF Index, Used
<1>2. TakenPorts(w, FALSE, Hub) = {}
  BY <1>1 DEF TakenPorts
<1> DEFINE ok == {i \in 0..NumConn[w] - 1 : PortMax - i \notin TakenPorts(w, FALSE, Hub)}
<1>3. ok = {0}
  <2>1. \A i : i \in 0..NumConn[w] - 1 <=> i = 0
    BY <1>1
  <2>2. \A i : PortMax - i \notin TakenPorts(w, FALSE, Hub)
    BY <1>2, Zenon
  <2>3. \A i : i \in ok <=> i = 0
    BY <2>1, <2>2, Zenon
  <2> HIDE DEF ok
  <2>4. QED
    BY <2>3
<1>4. RxPort(w, FALSE, Hub) \in {0, PortMax - Min(ok)}
  BY <1>3 DEF RxPort
<1> HIDE DEF ok
<1>5. ok \subseteq Nat /\ ok # {}
  BY <1>3
<1>6. Min(ok) \in ok
  BY <1>5, MinFacts, Zenon
<1>7. Min(ok) = 0
  BY <1>3, <1>6
<1>8. PortMax - Min(ok) = PortMax
  BY <1>7, Constants
<1>9. QED
  BY <1>4, <1>8, Zenon

\* What a watch sends.
LEMMA WatchSends ==
  ASSUME Shape, NEW w \in Watches, Watch(w) \/ \E m \in air : HearReply(w, m)
  PROVE  /\ unlinked \subseteq unlinked'
         /\ \A m \in air' \ air :
              /\ m.to = Hub
              /\ m.req = "link" => /\ SendLink(w) /\ NextConnection(w) # 0
                                   /\ m.info = RxPort(w, FALSE, Hub) /\ m.info # 0
              /\ m.req = "unlink" => m.from \in unlinked'
<1>1. unlinked \subseteq unlinked'
  BY DEF Watch, Start, InitAndJoin, ReadJoin, SendLink, ReadLink, Retry, Stop, SendPing,
         SendUnlink, Use, ReadPing, SkipReply, ReadUnlink, HearReply
<1> DEFINE Good(m) == /\ m.to = Hub
                      /\ m.req = "link" => /\ SendLink(w) /\ NextConnection(w) # 0
                                           /\ m.info = RxPort(w, FALSE, Hub) /\ m.info # 0
                      /\ m.req = "unlink" => m.from \in unlinked'
<1>2. ASSUME NEW m \in air' \ air, InitAndJoin(w) PROVE Good(m)
  <2>1. m.to = Hub /\ m.req = "join"
    BY <1>2 DEF InitAndJoin, Send
  <2>2. QED
    BY <2>1
<1>3. ASSUME NEW m \in air' \ air, SendLink(w) PROVE Good(m)
  <2>1. /\ NextConnection(w) # 0 /\ RxPort(w, FALSE, Hub) # 0
        /\ m = [app |-> "link", req |-> "link", from |-> w, to |-> Hub,
                tid |-> tid[w]["link"], info |-> RxPort(w, FALSE, Hub)]
    BY <1>3 DEF SendLink, Send
  <2>2. m.to = Hub /\ m.req = "link" /\ m.info = RxPort(w, FALSE, Hub)
    BY <2>1
  <2>3. QED
    BY <1>3, <2>1, <2>2
<1>4. ASSUME NEW m \in air' \ air, SendPing(w) PROVE Good(m)
  <2>1. m.to = Hub /\ m.req = "ping"
    BY <1>4 DEF SendPing, Use, Send
  <2>2. QED
    BY <2>1
<1>5. ASSUME NEW m \in air' \ air, SendUnlink(w) PROVE Good(m)
  <2>1. m.to = Hub /\ m.req = "unlink" /\ m.from = w
    BY <1>5 DEF SendUnlink, Use, Send
  <2>2. w \in unlinked'
    BY <1>5 DEF SendUnlink
  <2>3. QED
    BY <2>1, <2>2
<1>6. ASSUME NEW m \in air' \ air PROVE Good(m)
  <2>1. InitAndJoin(w) \/ SendLink(w) \/ SendPing(w) \/ SendUnlink(w)
    BY <1>6 DEF Watch, Start, ReadJoin, ReadLink, Retry, Stop, ReadPing, SkipReply, ReadUnlink,
                HearReply
  <2>2. QED
    BY <1>2, <1>3, <1>4, <1>5, <1>6, <2>1
<1>7. QED
  BY <1>1, <1>6

LEMMA WatchKeepsPort ==
  ASSUME OneConnection, Shape, OnePortEach,
         NEW w \in Watches, Watch(w) \/ \E m \in air : HearReply(w, m)
  PROVE  OnePortEach'
<1>1. SUFFICES ASSUME NEW i \in Used(w)' PROVE conns'[w][i].rx = PortMax
  BY OtherWatches DEF OnePortEach, Used
<1>2. CASE UNCHANGED conns
  BY <1>1, <1>2 DEF OnePortEach, Used
<1>3. CASE InitAndJoin(w) /\ ~on[w]
  <2>1. conns'[w] = [j \in Index(w) |-> Free]
    BY <1>3, Constants DEF InitAndJoin, Shape, TableShape, IsTable
  <2>2. QED
    BY <1>1, <2>1 DEF Used, Free
<1>4. CASE SendLink(w) /\ ~UNCHANGED conns
  <2> DEFINE k == NextConnection(w)
             rx == RxPort(w, FALSE, Hub)
  <2>1. /\ k \in Index(w) \ Used(w) /\ rx # 0
        /\ \A j \in Index(w) \ {k} : conns'[w][j] = conns[w][j]
        /\ conns'[w][k] = [used |-> TRUE, peer |-> Hub, rx |-> rx, tx |-> 0, lid |-> 0]
    BY <1>4, SendLinkFacts
  <2>2. k # 0
    BY <2>1 DEF Index
  <2>3. rx = PortMax
    BY <2>1, <2>2, OnePort, Zenon
  <2> HIDE DEF k, rx
  <2>4. conns'[w][k].rx = PortMax
    BY <2>1, <2>3
  <2>5. QED
    BY <1>1, <2>1, <2>4 DEF OnePortEach, Used
<1>5. CASE ReadLink(w)
  <2>1. CASE /\ Used(w)' = Used(w)
             /\ \A j \in Index(w) : conns'[w][j].rx = conns[w][j].rx
    BY <1>1, <2>1 DEF OnePortEach, Used
  <2>2. CASE /\ \A j \in Index(w) \ {mine[w]} : conns'[w][j] = conns[w][j]
             /\ conns'[w][mine[w]] = Free
    BY <1>1, <2>2 DEF OnePortEach, Used, Free
  <2>3. QED
    BY <1>5, <2>1, <2>2, ReadLinkFacts
<1>6. CASE ReadUnlink(w)
  <2>1. /\ \A j \in Index(w) \ {mine[w]} : conns'[w][j] = conns[w][j]
        /\ conns'[w][mine[w]] = Free
    BY <1>6, ReadUnlinkFacts
  <2>2. QED
    BY <1>1, <2>1 DEF OnePortEach, Used, Free
<1>7. QED
  BY <1>2, <1>3, <1>4, <1>5, <1>6
     DEF Watch, Start, InitAndJoin, ReadJoin, Retry, Stop, SendPing, SendUnlink, Use, ReadPing,
         SkipReply, HearReply, tables

LEMMA WatchKeepsShared ==
  ASSUME OneConnection, Shape, SharedInv,
         NEW w \in Watches, Watch(w) \/ \E m \in air : HearReply(w, m)
  PROVE  SharedInv'
<1>1. UNCHANGED listen /\ conns'[Hub] = conns[Hub]
  BY WatchLeavesHub
<1>2. \A peer, port : WithPeer(Hub, peer, port)' = WithPeer(Hub, peer, port)
  BY <1>1 DEF WithPeer, Used
<1>3. OnePortEach'
  BY WatchKeepsPort DEF SharedInv
<1>4. RequestsNameIt'
  <2>1. ASSUME NEW m \in air' \ air, m.req = "link" PROVE m.info = PortMax
    <3>1. NextConnection(w) # 0 /\ m.info = RxPort(w, FALSE, Hub) /\ m.info # 0
      BY <2>1, WatchSends
    <3>2. QED
      BY <3>1, OnePort, Zenon
  <2>2. QED
    BY <2>1, WatchSends DEF SharedInv, RequestsNameIt
<1>5. RepliesHold'
  BY <1>1, <1>2, WatchSends DEF SharedInv, RepliesHold
<1>6. LinkedIsShared'
  <2>1. ASSUME NEW v \in Watches, v # w, Linked(v)', v \notin unlinked'
        PROVE  \E i \in WithPeer(Hub, v, conns'[v][mine'[v]].rx) :
                 conns[Hub][i].rx = conns'[v][mine'[v]].tx
    BY <2>1, OtherWatches DEF SharedInv, LinkedIsShared, Linked
  <2>2. ASSUME Linked(w)', w \notin unlinked'
        PROVE  \E i \in WithPeer(Hub, w, conns'[w][mine'[w]].rx) :
                 conns[Hub][i].rx = conns'[w][mine'[w]].tx
    <3>1. w \notin unlinked
      BY <2>2, WatchSends
    <3>2. CASE ReadLink(w)
      <4> DEFINE i == Oldest(w, "link")
      <4>1. /\ i # 0 /\ inq[w][i].req = "link" /\ mine' = mine /\ mine[w] \in Used(w)
            /\ conns'[w][mine[w]].rx = conns[w][mine[w]].rx
            /\ conns'[w][mine[w]].tx = inq[w][i].info
        <5>1. prog'[w] # "retry_link"
          BY <2>2 DEF Linked
        <5>2. mine[w] \in Index(w)
          BY <3>2, ReadLinkFacts DEF Used
        <5>3. QED
          BY <3>2, <5>1, <5>2, ReadLinkFacts
      <4>2. inq[w][i] \in air /\ inq[w][i].to = w
        BY <4>1, TakeFacts
      <4>3. conns[w][mine[w]].rx = PortMax
        BY <4>1 DEF SharedInv, OnePortEach
      <4> HIDE DEF i
      <4>4. \E j \in WithPeer(Hub, w, PortMax) : conns[Hub][j].rx = inq[w][i].info
        BY <3>1, <4>1, <4>2, Constants DEF SharedInv, RepliesHold
      <4>5. QED
        BY <4>1, <4>3, <4>4
    <3>3. CASE ~ReadLink(w)
      <4>1. Linked(w) /\ mine'[w] = mine[w] /\ conns'[w] = conns[w]
        <5>1. ~InitAndJoin(w) /\ ~SendLink(w) /\ ~ReadUnlink(w)
          <6>1. ASSUME InitAndJoin(w) PROVE FALSE
            BY <2>2, <6>1 DEF InitAndJoin, Goto, Linked, Shape, WatchShape
          <6>2. ASSUME SendLink(w) PROVE FALSE
            BY <2>2, <6>2 DEF SendLink, Goto, Linked, Shape, WatchShape
          <6>3. ASSUME ReadUnlink(w) PROVE FALSE
            BY <2>2, <6>3 DEF ReadUnlink, Goto, Linked, Shape, WatchShape
          <6>4. QED
            BY <6>1, <6>2, <6>3
        <5>2. UNCHANGED <<conns, mine>>
          BY <3>3, <5>1
             DEF Watch, Start, ReadJoin, Retry, Stop, SendPing, SendUnlink, Use, ReadPing,
                 SkipReply, HearReply, tables
        <5>3. Linked(w)
          BY <2>2, <3>3, <5>1
             DEF Watch, Start, ReadJoin, Retry, Stop, SendPing, SendUnlink, Use, ReadPing,
                 SkipReply, HearReply, Goto, Linked, Shape, WatchShape
        <5>4. QED
          BY <5>2, <5>3
      <4>2. QED
        BY <3>1, <4>1 DEF SharedInv, LinkedIsShared
    <3>4. QED
      BY <3>2, <3>3
  <2>3. QED
    BY <1>1, <1>2, <2>1, <2>2 DEF LinkedIsShared
<1>7. QED
  BY <1>3, <1>4, <1>5, <1>6 DEF SharedInv

\* The access point keeps the connections of a watch that takes no link down.
LEMMA HubKeepsConns ==
  ASSUME Shape, SharedInv, AccessPoint, NEW peer, peer \notin unlinked, NEW port,
         NEW i \in WithPeer(Hub, peer, port)
  PROVE  i \in WithPeer(Hub, peer, port)' /\ conns'[Hub][i] = conns[Hub][i]
<1>1. i \in Used(Hub) /\ conns[Hub][i].peer = peer /\ conns[Hub][i].tx = port
  BY DEF WithPeer
<1>2. SUFFICES i \in Used(Hub)' /\ conns'[Hub][i] = conns[Hub][i]
  BY <1>1 DEF WithPeer
<1>3. CASE UNCHANGED conns
  BY <1>1, <1>3 DEF Used
<1>4. ASSUME NEW m \in air, HearLink(m), ~UNCHANGED conns
      PROVE  i \in Used(Hub)' /\ conns'[Hub][i] = conns[Hub][i]
  <2> DEFINE k == NextConnection(Hub)
  <2>1. /\ k \in Index(Hub) \ Used(Hub)
        /\ \A j \in Index(Hub) \ {k} : conns'[Hub][j] = conns[Hub][j]
    BY <1>4, HearLinkFacts
  <2> HIDE DEF k
  <2>2. QED
    BY <1>1, <2>1 DEF Used
<1>5. ASSUME NEW m \in air, HearUnlink(m)
      PROVE  i \in Used(Hub)' /\ conns'[Hub][i] = conns[Hub][i]
  <2>1. m.from \in unlinked
    BY <1>5 DEF HearUnlink, SharedInv, RequestsNameIt
  <2>2. QED
    BY <1>1, <1>5, <2>1, HearUnlinkFacts
<1>6. QED
  BY <1>3, <1>4, <1>5
     DEF AccessPoint, HearRequest, HearAgain, ListenOn, PollLinkers, TakeLinkID, MoveUp,
         ListenTimeout, tables

\* What the access point sends goes to a watch, and a reply to a link frame is
\* about a connection it has with the port the watch named.
LEMMA HubSends ==
  ASSUME Shape, SharedInv, AccessPoint, NEW r \in air' \ air
  PROVE  /\ r.to # Hub
         /\ r.req = "link" => \E i \in WithPeer(Hub, r.to, PortMax)' : conns'[Hub][i].rx = r.info
<1>1. ASSUME NEW m \in air, NEW info, m.to = Hub, Reply(m, info)
      PROVE  r.to = m.from /\ r.to # Hub /\ r.req = m.req /\ r.info = info
  <2>1. IsFrame(m)
    BY DEF Shape, AirShape
  <2>2. r = [m EXCEPT !.from = Hub, !.to = m.from, !.info = info]
    BY <1>1 DEF Reply, Send
  <2>3. m.from # Hub
    BY <1>1, <2>1, Constants DEF IsFrame
  <2>4. QED
    BY <2>1, <2>2, <2>3 DEF IsFrame
<1>2. ASSUME NEW m \in air, HearRequest(m) PROVE r.to # Hub /\ r.req # "link"
  <2>1. m.req # "link"
    BY <1>2 DEF HearRequest, Shape, AirShape, IsFrame
  <2>2. QED
    BY <1>1, <1>2, <2>1 DEF HearRequest
<1>3. ASSUME NEW m \in air, HearUnlink(m) PROVE r.to # Hub /\ r.req # "link"
  BY <1>1, <1>3 DEF HearUnlink
<1>4. ASSUME NEW m \in air, HearAgain(m)
      PROVE  r.to # Hub /\ \E i \in WithPeer(Hub, r.to, PortMax)' : conns'[Hub][i].rx = r.info
  <2>1. m.to = Hub /\ m.info = PortMax /\ conns' = conns
    BY <1>4 DEF HearAgain, SharedInv, RequestsNameIt, tables
  <2> DEFINE i == Min(WithPeer(Hub, m.from, m.info))
  <2>2. i \in WithPeer(Hub, m.from, PortMax)
    BY <1>4, <2>1, FoundFacts DEF HearAgain
  <2>3. Reply(m, conns[Hub][i].rx)
    BY <1>4 DEF HearAgain
  <2> HIDE DEF i
  <2>4. r.to = m.from /\ r.to # Hub /\ r.info = conns[Hub][i].rx
    BY <1>1, <2>1, <2>3
  <2>5. QED
    BY <2>1, <2>2, <2>4 DEF WithPeer, Used
<1>5. ASSUME NEW m \in air, HearLink(m)
      PROVE  r.to # Hub /\ \E i \in WithPeer(Hub, r.to, PortMax)' : conns'[Hub][i].rx = r.info
  <2> DEFINE k == NextConnection(Hub)
             rx == RxPort(Hub, TRUE, m.from)
  <2>1. m.to = Hub /\ m.info = PortMax
    BY <1>5 DEF HearLink, SharedInv, RequestsNameIt
  <2>2. /\ k \in Index(Hub)
        /\ conns'[Hub][k] = [used |-> TRUE, peer |-> m.from, rx |-> rx,
                             tx |-> m.info, lid |-> nextLid]
        /\ Reply(m, rx)
    BY <1>5, HearLinkFacts
  <2> HIDE DEF k, rx
  <2>3. r.to = m.from /\ r.to # Hub /\ r.info = rx
    BY <1>1, <2>1, <2>2
  <2>4. k \in WithPeer(Hub, m.from, PortMax)' /\ conns'[Hub][k].rx = rx
    BY <2>1, <2>2 DEF WithPeer, Used
  <2>5. QED
    BY <2>3, <2>4
<1>6. QED
  BY <1>2, <1>3, <1>4, <1>5
     DEF AccessPoint, ListenOn, PollLinkers, TakeLinkID, MoveUp, ListenTimeout

LEMMA HubKeepsShared ==
  ASSUME Shape, SharedInv, AccessPoint
  PROVE  SharedInv'
<1>1. UNCHANGED <<watch, busy, unlinked>> /\ \A w \in Watches : conns'[w] = conns[w]
  BY HubLeavesWatches
<1>2. OnePortEach'
  BY <1>1 DEF SharedInv, OnePortEach, Used
<1>3. RequestsNameIt'
  BY <1>1, HubSends DEF SharedInv, RequestsNameIt
<1>4. RepliesHold'
  <2>1. ASSUME NEW m \in air', m.req = "link", m.to # Hub, m.to \notin unlinked'
        PROVE  \E i \in WithPeer(Hub, m.to, PortMax)' : conns'[Hub][i].rx = m.info
    <3>1. CASE m \notin air
      BY <2>1, <3>1, HubSends
    <3>2. CASE m \in air
      <4>1. PICK i \in WithPeer(Hub, m.to, PortMax) : conns[Hub][i].rx = m.info
        BY <1>1, <2>1, <3>2 DEF SharedInv, RepliesHold
      <4>2. i \in WithPeer(Hub, m.to, PortMax)' /\ conns'[Hub][i] = conns[Hub][i]
        BY <1>1, <2>1, HubKeepsConns
      <4>3. QED
        BY <4>1, <4>2
    <3>3. QED
      BY <3>1, <3>2
  <2>2. QED
    BY <2>1 DEF RepliesHold, WithPeer, Used
<1>5. LinkedIsShared'
  <2>1. ASSUME NEW w \in Watches, Linked(w)', w \notin unlinked'
        PROVE  \E i \in WithPeer(Hub, w, conns[w][mine[w]].rx)' :
                 conns'[Hub][i].rx = conns[w][mine[w]].tx
    <3>1. Linked(w) /\ w \notin unlinked
      BY <1>1, <2>1 DEF Linked, watch
    <3>2. PICK i \in WithPeer(Hub, w, conns[w][mine[w]].rx) :
                 conns[Hub][i].rx = conns[w][mine[w]].tx
      BY <3>1 DEF SharedInv, LinkedIsShared
    <3>3. PICK port : port = conns[w][mine[w]].rx
      OBVIOUS
    <3>4. conns'[w][mine'[w]].rx = port /\ conns'[w][mine'[w]].tx = conns[w][mine[w]].tx
      BY <1>1, <3>3 DEF watch
    <3>5. i \in WithPeer(Hub, w, port)' /\ conns'[Hub][i] = conns[Hub][i]
      BY <3>1, <3>2, <3>3, HubKeepsConns
    <3>6. QED
      BY <3>2, <3>4, <3>5 DEF WithPeer, Used
  <2>2. QED
    BY <1>1, <2>1 DEF LinkedIsShared, WithPeer, Used, watch
<1>6. QED
  BY <1>2, <1>3, <1>4, <1>5 DEF SharedInv

LEMMA SharedStep ==
  ASSUME OneConnection
  PROVE  Shape /\ SharedInv /\ [Next]_vars => SharedInv'
<1> SUFFICES ASSUME Shape, SharedInv, [Next]_vars PROVE SharedInv'
  OBVIOUS
<1>1. CASE UNCHANGED vars
  BY <1>1 DEF vars, tables, watch, SharedInv, OnePortEach, RequestsNameIt, RepliesHold,
              LinkedIsShared, Linked, WithPeer, Used
<1>2. QED
  BY <1>1, WatchKeepsShared, HubKeepsShared DEF Next

\* A linked watch and the access point agree on the ports, the access point has
\* one connection for each port, and neither keeps a connection of no use, for
\* any number of watches with room for one connection each.
THEOREM EndsAlwaysAgree ==
  ASSUME OneConnection
  PROVE  Spec => []EndsAgree
<1>1. Init => SharedInv
  <2>1. SUFFICES ASSUME Init PROVE SharedInv
    OBVIOUS
  <2>2. \A w \in Watches : Used(w) = {}
    BY <2>1, Constants DEF Init, Used, Free
  <2>3. \A w \in Watches : ~Linked(w)
    BY <2>1 DEF Init, Linked
  <2>4. air = {}
    BY <2>1 DEF Init
  <2>5. QED
    BY <2>2, <2>3, <2>4
       DEF SharedInv, OnePortEach, RequestsNameIt, RepliesHold, LinkedIsShared
<1>2. Spec => []LinkedIsShared
  <2>1. SharedInv => LinkedIsShared
    BY DEF SharedInv
  <2>2. QED
    BY <1>1, <2>1, SharedStep, ShapeAlways, PTL DEF Spec
<1>3. LinkedIsShared /\ OneEach /\ TakenIsMine => EndsAgree
  BY DEF EndsAgree
<1>4. QED
  BY <1>2, <1>3, OneEachCorrect, TakenIsMineCorrect, PTL
=============================================================================
