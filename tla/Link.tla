-------------------------------- MODULE Link --------------------------------
(* Watches joining, linking to, pinging and unlinking from an access point    *)
(* over SimpliciTI: the connection tables and ports of nwk.c, the network     *)
(* applications nwk_join, nwk_link and nwk_ping on both sides, the access     *)
(* point's SMPL_LinkListen, and the program main_ED_BM.c of a watch.          *)
(* Whatever was sent may be heard at any later time, any number of times, or  *)
(* never: frames get lost, range extenders repeat them and delay them.        *)
EXTENDS Integers, Sequences, SequencesExt, FiniteSets, FiniteSetsExt

CONSTANTS Watches,     \* the end devices
          Hub,         \* the access point
          NumConn,     \* NUM_CONNECTIONS of each device
          PortBase,    \* PORT_BASE_NUMBER
          PortMax,     \* SMPL_PORT_USER_MAX
          Tids,        \* the transaction IDs MRFI_RandomByte may give
          InSize,      \* SIZE_INFRAME_Q of a watch
          MaxRetries,  \* TIMEOUT of main_ED_BM.c
          MaxStarts,   \* bound: how often each watch starts SimpliciTI
          MaxUses,     \* bound: how often a linked watch pings or unlinks
          MaxLids      \* bound: the link IDs the access point gives

Devices == Watches \union {Hub}

ASSUME LinkAssumption ==
  /\ Hub \notin Watches
  /\ NumConn \in [Devices -> Nat \ {0}]
  /\ PortBase \in Nat /\ PortMax \in Nat
  /\ \A d \in Devices : PortBase + NumConn[d] <= PortMax - NumConn[d]
  /\ Tids \subseteq Nat \ {0} /\ Tids # {}
  /\ InSize \in Nat \ {0}
  /\ MaxRetries \in Nat /\ MaxStarts \in Nat /\ MaxUses \in Nat /\ MaxLids \in Nat

VARIABLES conns,     \* each device's connection table
          ports,     \* curNextLinkPort and curMaxReplyPort of each device
          nextLid,   \* nextLinkID of the access point
          air,       \* every frame that was sent
          \* a watch
          prog,      \* where its program is
          on,        \* sInit_done
          tid,       \* the transaction ID of each network application
          inq,       \* the replies its network applications have yet to read
          mine,      \* the connection it is linking, or linked with; 0 for none
          tries,     \* timeout, the retries of main_ED_BM.c
          starts, uses,
          \* the access point
          listening, \* sListenActive
          service,   \* sServiceLinkID
          linkers,   \* sNumLinkers
          hub,       \* where its SMPL_LinkListen is
          told,      \* the link IDs its application was given
          \* history
          busy,      \* the watches whose link frame could not be sent
          unlinked,  \* the watches that asked to take a link down
          raced      \* a watch linked while the access point took a link ID

tables == <<conns, ports, nextLid>>
watch == <<prog, on, tid, inq, mine, tries, starts, uses>>
listen == <<listening, service, linkers, hub, told, raced>>
vars == <<tables, air, watch, listen, busy, unlinked>>

Apps == {"join", "link", "ping"}

Index(d) == 1..NumConn[d]

Free == [used |-> FALSE, peer |-> Hub, rx |-> 0, tx |-> 0, lid |-> 0]

-----------------------------------------------------------------------------
\* nwk.c

Used(d) == {i \in Index(d) : conns[d][i].used}

\* nwk_getNextConnection: 0 when the table is full
NextConnection(d) == IF Used(d) = Index(d) THEN 0 ELSE Min(Index(d) \ Used(d))

\* the ports nwk_allocateLocalRxPort must not give again: for a link frame those
\* of every connection, for a reply those of the same peer
TakenPorts(d, replying, peer) ==
  {conns[d][i].rx : i \in {j \in Used(d) :
      /\ conns[d][j].rx <= PortMax
      /\ IF replying THEN conns[d][j].peer = peer
         ELSE conns[d][j].rx > ports[d].nextLink}}

\* replies from the bottom upward, link frames from the top downward
RxPort(d, replying, peer) ==
  LET taken == TakenPorts(d, replying, peer)
      nth(i) == IF replying THEN PortBase + i ELSE PortMax - i
      ok == {i \in 0..NumConn[d] - 1 : nth(i) \notin taken}
      port == IF ok = {} THEN 0 ELSE nth(Min(ok))
  IN  IF replying THEN (IF port <= ports[d].nextLink THEN port ELSE 0)
      ELSE (IF port >= ports[d].maxReply THEN port ELSE 0)

\* what handing out that port leaves of the two bounds
Bounded(d, replying, port) ==
  IF replying THEN [ports[d] EXCEPT !.maxReply = IF port > @ THEN port ELSE @]
  ELSE [ports[d] EXCEPT !.nextLink = IF port = @ THEN @ - 1 ELSE @]

\* the connection the access point has with the watch's port: nwk_isLinkDuplicate
\* and nwk_findPeer
WithPeer(d, peer, port) ==
  {i \in Used(d) : conns[d][i].peer = peer /\ conns[d][i].tx = port}

\* the three ways a table entry changes
Opened(d, i, peer, rx, tx, lid) ==
  [conns EXCEPT ![d][i] = [used |-> TRUE, peer |-> peer, rx |-> rx, tx |-> tx,
                           lid |-> lid]]
Closed(d, i) == [conns EXCEPT ![d][i] = Free]
Answered(d, i, peer, tx) == [conns EXCEPT ![d][i].peer = peer, ![d][i].tx = tx]

-----------------------------------------------------------------------------
\* A watch's requests and the replies it reads

NextTid(app, t) == IF app = "link" /\ t = Max(Tids) THEN Min(Tids) ELSE t + 1

Send(m) == air' = air \union {m}

\* the oldest reply of the port in the queue; 0 when there is none
Oldest(w, app) == SelectInSeq(inq[w], LAMBDA r : r.app = app)

Take(w, i) == inq' = [inq EXCEPT ![w] = RemoveAt(@, i)]

Goto(w, p) == prog' = [prog EXCEPT ![w] = p]

\* mutant: the queue has no end
HearUnbounded(w, m) ==
  /\ m \in air /\ m.to = w
  /\ prog[w] \in {"joining", "linking", "linked", "ping", "unlink"}
  /\ m.tid = tid[w][m.app] /\ Len(inq[w]) <= InSize
  /\ inq' = [inq EXCEPT ![w] = Append(@, m)]
  /\ UNCHANGED <<tables, air, prog, on, tid, mine, tries, starts, uses,
                 listen, busy, unlinked>>

\* nwk_isValidReply: the interrupt keeps a reply with the application's current
\* transaction ID while the radio is on; with no slot left it takes the oldest's
HearReply(w, m) ==
  /\ m \in air /\ m.to = w
  /\ prog[w] \in {"joining", "linking", "linked", "ping", "unlink"}
  /\ m.tid = tid[w][m.app]
  /\ inq' = [inq EXCEPT ![w] =
               Append(IF Len(@) = InSize THEN Tail(@) ELSE @, m)]
  /\ UNCHANGED <<tables, air, prog, on, tid, mine, tries, starts, uses,
                 listen, busy, unlinked>>

\* simpliciti_link, from its first line
Start(w) ==
  /\ prog[w] = "off" /\ starts[w] < MaxStarts
  /\ starts' = [starts EXCEPT ![w] = @ + 1]
  /\ tries' = [tries EXCEPT ![w] = 0]
  /\ uses' = [uses EXCEPT ![w] = 0]
  /\ Goto(w, "init")
  /\ UNCHANGED <<tables, air, on, tid, inq, mine, listen, busy, unlinked>>

\* SMPL_Init, which starts the network anew after it was left, and joins
InitAndJoin(w) ==
  /\ prog[w] = "init"
  /\ IF on[w] THEN UNCHANGED <<conns, ports, on, tid, inq, busy, mine>>
     ELSE /\ on' = [on EXCEPT ![w] = TRUE]
          /\ conns' = [conns EXCEPT ![w] = [i \in Index(w) |-> Free]]
          /\ ports' = [ports EXCEPT ![w] = [nextLink |-> PortMax, maxReply |-> PortBase]]
          /\ \E t \in Tids : tid' = [tid EXCEPT ![w] = [a \in Apps |-> t]]
          /\ inq' = [inq EXCEPT ![w] = <<>>]
          /\ busy' = busy \ {w}
          /\ mine' = [mine EXCEPT ![w] = 0]
  /\ Send([app |-> "join", req |-> "join", from |-> w, to |-> Hub,
           tid |-> tid'[w]["join"], info |-> 0])
  /\ Goto(w, "joining")
  /\ UNCHANGED <<nextLid, tries, starts, uses, listen, unlinked>>

\* after the reply delay
ReadJoin(w) ==
  LET i == Oldest(w, "join") IN
  /\ prog[w] = "joining"
  /\ IF i = 0
     THEN Goto(w, "retry_init") /\ UNCHANGED <<tid, inq, tries>>
     ELSE /\ Take(w, i)
          /\ tid' = [tid EXCEPT ![w]["join"] = NextTid("join", @)]
          /\ tries' = [tries EXCEPT ![w] = 0]
          /\ Goto(w, "retry_link")
  /\ UNCHANGED <<tables, air, on, mine, starts, uses, listen, busy, unlinked>>

\* nwk_link: a connection is taken before the request is sent, and stays taken
\* when the channel is busy
SendLink(w) ==
  LET i == NextConnection(w)
      rx == RxPort(w, FALSE, Hub)
  IN
  /\ prog[w] = "link"
  /\ IF i = 0 \/ rx = 0
     THEN Goto(w, "retry_link") /\ UNCHANGED <<conns, ports, air, mine, busy>>
     ELSE /\ conns' = Opened(w, i, Hub, rx, 0, 0)
          /\ ports' = [ports EXCEPT ![w] = Bounded(w, FALSE, rx)]
          /\ \/ /\ Send([app |-> "link", req |-> "link", from |-> w, to |-> Hub,
                         tid |-> tid[w]["link"], info |-> rx])
                /\ mine' = [mine EXCEPT ![w] = i]
                /\ Goto(w, "linking")
                /\ UNCHANGED busy
             \/ /\ busy' = busy \union {w}
                /\ Goto(w, "retry_link")
                /\ UNCHANGED <<air, mine>>
  /\ UNCHANGED <<nextLid, on, tid, inq, tries, starts, uses, listen, unlinked>>

\* mutant: a request that is not answered keeps its connection
ReadLinkKeeps(w) ==
  LET i == Oldest(w, "link") IN
  /\ prog[w] = "linking"
  /\ IF i # 0 /\ inq[w][i].req = "link"
     THEN /\ conns' = Answered(w, mine[w], inq[w][i].from, inq[w][i].info)
          /\ tid' = [tid EXCEPT ![w]["link"] = NextTid("link", @)]
          /\ Goto(w, "linked")
          /\ UNCHANGED mine
     ELSE /\ mine' = [mine EXCEPT ![w] = 0]
          /\ Goto(w, "retry_link")
          /\ UNCHANGED <<conns, tid>>
  /\ IF i = 0 THEN UNCHANGED inq ELSE Take(w, i)
  /\ UNCHANGED <<ports, nextLid, air, on, tries, starts, uses, listen, busy,
                 unlinked>>

ReadLink(w) ==
  LET i == Oldest(w, "link") IN
  /\ prog[w] = "linking"
  /\ IF i # 0 /\ inq[w][i].req = "link"
     THEN /\ conns' = Answered(w, mine[w], inq[w][i].from, inq[w][i].info)
          /\ tid' = [tid EXCEPT ![w]["link"] = NextTid("link", @)]
          /\ Goto(w, "linked")
          /\ UNCHANGED mine
     ELSE /\ conns' = Closed(w, mine[w])
          /\ mine' = [mine EXCEPT ![w] = 0]
          /\ Goto(w, "retry_link")
          /\ UNCHANGED tid
  /\ IF i = 0 THEN UNCHANGED inq ELSE Take(w, i)
  /\ UNCHANGED <<ports, nextLid, air, on, tries, starts, uses, listen, busy,
                 unlinked>>

\* mutant: the retries are not counted
RetryForever(w) ==
  /\ prog[w] \in {"retry_init", "retry_link"}
  /\ Goto(w, IF prog[w] = "retry_init" THEN "init" ELSE "link")
  /\ UNCHANGED <<tables, air, on, tid, inq, mine, tries, starts, uses, listen,
                 busy, unlinked>>

\* a second goes by; the watch gives up after TIMEOUT of them
Retry(w) ==
  /\ prog[w] \in {"retry_init", "retry_link"}
  /\ IF tries[w] > MaxRetries
     THEN /\ Goto(w, "off")
          /\ on' = [on EXCEPT ![w] = FALSE]
          /\ UNCHANGED tries
     ELSE /\ Goto(w, IF prog[w] = "retry_init" THEN "init" ELSE "link")
          /\ tries' = [tries EXCEPT ![w] = @ + 1]
          /\ UNCHANGED on
  /\ UNCHANGED <<tables, air, tid, inq, mine, starts, uses, listen, busy,
                 unlinked>>

\* SIMPLICITI_TRIGGER_STOP: the access point is not told
Stop(w) ==
  /\ prog[w] \in {"retry_init", "retry_link", "linked"}
  /\ Goto(w, "off")
  /\ on' = [on EXCEPT ![w] = FALSE]
  /\ UNCHANGED <<tables, air, tid, inq, mine, tries, starts, uses, listen,
                 busy, unlinked>>

\* SMPL_Ping and SMPL_Unlink send, whether the channel is busy or not
Use(w, app, req, info) ==
  /\ prog[w] = "linked" /\ uses[w] < MaxUses
  /\ uses' = [uses EXCEPT ![w] = @ + 1]
  /\ \/ Send([app |-> app, req |-> req, from |-> w, to |-> Hub,
              tid |-> tid[w][app], info |-> info])
     \/ UNCHANGED air
  /\ Goto(w, req)
  /\ UNCHANGED <<tables, on, tid, inq, mine, tries, starts, listen, busy>>

SendPing(w) ==
  /\ Use(w, "ping", "ping", 0)
  /\ UNCHANGED unlinked
SendUnlink(w) ==
  /\ Use(w, "link", "unlink", conns[w][mine[w]].rx)
  /\ unlinked' = unlinked \union {w}

ReadPing(w) ==
  LET i == Oldest(w, "ping") IN
  /\ prog[w] = "ping"
  /\ IF i = 0 THEN UNCHANGED <<inq, tid>>
     ELSE /\ Take(w, i)
          /\ tid' = [tid EXCEPT ![w]["ping"] = NextTid("ping", @)]
  /\ Goto(w, "linked")
  /\ UNCHANGED <<tables, air, on, mine, tries, starts, uses, listen, busy,
                 unlinked>>

\* a reply to something else is passed over; in the end the connection is freed,
\* whether the peer was heard or not
SkipReply(w) ==
  LET i == Oldest(w, "link") IN
  /\ prog[w] = "unlink"
  /\ i # 0 /\ inq[w][i].req # "unlink"
  /\ Take(w, i)
  /\ UNCHANGED <<tables, air, prog, on, tid, mine, tries, starts, uses,
                 listen, busy, unlinked>>

ReadUnlink(w) ==
  LET i == Oldest(w, "link") IN
  /\ prog[w] = "unlink"
  /\ i # 0 => inq[w][i].req = "unlink"
  /\ IF i = 0 THEN UNCHANGED inq ELSE Take(w, i)
  /\ conns' = Closed(w, mine[w])
  /\ mine' = [mine EXCEPT ![w] = 0]
  /\ Goto(w, "retry_link")
  /\ UNCHANGED <<ports, nextLid, air, on, tid, tries, starts, uses, listen,
                 busy, unlinked>>

Watch(w) ==
  \/ Start(w) \/ InitAndJoin(w) \/ ReadJoin(w) \/ SendLink(w) \/ ReadLink(w)
  \/ Retry(w) \/ Stop(w) \/ SendPing(w) \/ SendUnlink(w) \/ ReadPing(w)
  \/ SkipReply(w) \/ ReadUnlink(w)

-----------------------------------------------------------------------------
\* The access point's interrupt

Reply(m, info) ==
  Send([m EXCEPT !.from = Hub, !.to = m.from, !.info = info])

\* smpl_send_join_reply and smpl_send_ping_reply
HearRequest(m) ==
  /\ m \in air /\ m.to = Hub /\ m.app \in {"join", "ping"}
  /\ Reply(m, 0)
  /\ UNCHANGED <<tables, watch, listen, busy, unlinked>>

\* mutant: the port the watch told comes back instead of the access point's
HearAgainSwapped(m) ==
  /\ m \in air /\ m.to = Hub /\ m.req = "link"
  /\ WithPeer(Hub, m.from, m.info) # {}
  /\ Reply(m, conns[Hub][Min(WithPeer(Hub, m.from, m.info))].tx)
  /\ UNCHANGED <<tables, watch, listen, busy, unlinked>>

\* smpl_send_link_reply: the watch has the token, for it joined
HearAgain(m) ==
  /\ m \in air /\ m.to = Hub /\ m.req = "link"
  /\ WithPeer(Hub, m.from, m.info) # {}
  /\ Reply(m, conns[Hub][Min(WithPeer(Hub, m.from, m.info))].rx)
  /\ UNCHANGED <<tables, watch, listen, busy, unlinked>>

\* mutant: a repeated request is a new one
HearLinkTwice(m) ==
  LET i == NextConnection(Hub)
      rx == RxPort(Hub, TRUE, m.from)
  IN
  /\ m \in air /\ m.to = Hub /\ m.req = "link"
  /\ listening /\ i # 0 /\ nextLid <= MaxLids /\ linkers # NumConn[Hub]
  /\ nextLid' = nextLid + 1
  /\ conns' = Opened(Hub, i, m.from, rx, m.info, nextLid)
  /\ ports' = [ports EXCEPT ![Hub] = Bounded(Hub, TRUE, rx)]
  /\ service' = [service EXCEPT ![linkers + 1] = nextLid]
  /\ linkers' = linkers + 1
  /\ raced' = (raced \/ hub \in {"take", "move"})
  /\ Reply(m, rx)
  /\ UNCHANGED <<watch, listening, hub, told, busy, unlinked>>

HearLink(m) ==
  LET i == NextConnection(Hub)
      rx == RxPort(Hub, TRUE, m.from)
  IN
  /\ m \in air /\ m.to = Hub /\ m.req = "link"
  /\ WithPeer(Hub, m.from, m.info) = {}
  /\ listening /\ i # 0 /\ nextLid <= MaxLids
  /\ nextLid' = nextLid + 1
  /\ IF rx = 0 \/ linkers = NumConn[Hub]
     THEN UNCHANGED <<conns, ports, air, service, linkers, raced>>
     ELSE /\ conns' = Opened(Hub, i, m.from, rx, m.info, nextLid)
          /\ ports' = [ports EXCEPT ![Hub] = Bounded(Hub, TRUE, rx)]
          /\ service' = [service EXCEPT ![linkers + 1] = nextLid]
          /\ linkers' = linkers + 1
          /\ raced' = (raced \/ hub \in {"take", "move"})
          /\ Reply(m, rx)
  /\ UNCHANGED <<watch, listening, hub, told, busy, unlinked>>

\* smpl_send_unlink_reply, with the result whether there was such a connection
HearUnlink(m) ==
  LET found == WithPeer(Hub, m.from, m.info) IN
  /\ m \in air /\ m.to = Hub /\ m.req = "unlink"
  /\ conns' = IF found = {} THEN conns ELSE Closed(Hub, Min(found))
  /\ Reply(m, 0)
  /\ UNCHANGED <<ports, nextLid, watch, listen, busy, unlinked>>

\* SMPL_LinkListen of the access point's thread: the count of new links is taken
\* down with the interrupts off, the link IDs are moved up with them on
ListenOn ==
  /\ hub = "idle"
  /\ listening' = TRUE
  /\ hub' = "poll"
  /\ UNCHANGED <<tables, air, watch, service, linkers, told, raced, busy, unlinked>>

PollLinkers ==
  /\ hub = "poll" /\ linkers > 0
  /\ linkers' = linkers - 1
  /\ hub' = "take"
  /\ UNCHANGED <<tables, air, watch, listening, service, told, raced, busy, unlinked>>

TakeLinkID ==
  /\ hub = "take"
  /\ listening' = FALSE
  /\ told' = told \union {service[1]}
  /\ hub' = "move"
  /\ UNCHANGED <<tables, air, watch, service, linkers, raced, busy, unlinked>>

\* the entry moved to the last place may come from behind the array
MoveUp ==
  /\ hub = "move"
  /\ \E stray \in {0, MaxLids} :
       service' = [i \in DOMAIN service |->
                     IF i > linkers THEN service[i]
                     ELSE IF i = NumConn[Hub] THEN stray ELSE service[i + 1]]
  /\ hub' = "idle"
  /\ UNCHANGED <<tables, air, watch, listening, linkers, told, raced, busy, unlinked>>

\* mutant: the links that wait are forgotten
ListenForgets ==
  /\ hub = "poll"
  /\ listening' = FALSE /\ linkers' = 0
  /\ hub' = "idle"
  /\ UNCHANGED <<tables, air, watch, service, told, raced, busy, unlinked>>

\* the listen ends; a link that came in after the last poll stays for the next
ListenTimeout ==
  /\ hub = "poll"
  /\ listening' = FALSE
  /\ hub' = "idle"
  /\ UNCHANGED <<tables, air, watch, service, linkers, told, raced, busy, unlinked>>

AccessPoint ==
  \/ \E m \in air : HearRequest(m) \/ HearAgain(m) \/ HearLink(m) \/ HearUnlink(m)
  \/ ListenOn \/ PollLinkers \/ TakeLinkID \/ MoveUp \/ ListenTimeout

-----------------------------------------------------------------------------
Init ==
  /\ conns = [d \in Devices |-> [i \in Index(d) |-> Free]]
  /\ ports = [d \in Devices |-> [nextLink |-> PortMax, maxReply |-> PortBase]]
  /\ nextLid = 1
  /\ air = {}
  /\ prog = [w \in Watches |-> "off"]
  /\ on = [w \in Watches |-> FALSE]
  /\ tid = [w \in Watches |-> [a \in Apps |-> 0]]
  /\ inq = [w \in Watches |-> <<>>]
  /\ mine = [w \in Watches |-> 0]
  /\ tries = [w \in Watches |-> 0]
  /\ starts = [w \in Watches |-> 0]
  /\ uses = [w \in Watches |-> 0]
  /\ listening = FALSE /\ hub = "idle"
  /\ service = [i \in Index(Hub) |-> 0]
  /\ linkers = 0
  /\ told = {} /\ busy = {} /\ unlinked = {} /\ raced = FALSE

Next ==
  \/ \E w \in Watches : Watch(w) \/ (\E m \in air : HearReply(w, m))
  \/ AccessPoint

\* the program of a watch goes on
Fairness == \A w \in Watches :
  WF_vars(InitAndJoin(w) \/ ReadJoin(w) \/ SendLink(w) \/ ReadLink(w) \/ Retry(w))

Spec == Init /\ [][Next]_vars /\ Fairness
-----------------------------------------------------------------------------
\* Properties

Linked(w) == prog[w] \in {"linked", "ping", "unlink"}

\* Types.
TypeOK ==
  /\ \A d \in Devices :
       conns[d] \in [Index(d) -> [used : BOOLEAN, peer : Devices, rx : 0..PortMax,
                                 tx : 0..PortMax, lid : 0..MaxLids]]
  /\ ports \in [Devices -> [nextLink : 0..PortMax, maxReply : 0..PortMax]]
  /\ nextLid \in 1..MaxLids + 1
  /\ prog \in [Watches -> {"off", "init", "joining", "retry_init", "retry_link",
                           "link", "linking", "linked", "ping", "unlink"}]
  /\ on \in [Watches -> BOOLEAN]
  /\ \A w \in Watches : mine[w] \in 0..NumConn[w] /\ Len(inq[w]) <= InSize
  /\ tries \in [Watches -> 0..MaxRetries + 1]
  /\ starts \in [Watches -> 0..MaxStarts] /\ uses \in [Watches -> 0..MaxUses]
  /\ listening \in BOOLEAN /\ raced \in BOOLEAN
  /\ hub \in {"idle", "poll", "take", "move"}
  /\ service \in [Index(Hub) -> 0..MaxLids] /\ linkers \in 0..NumConn[Hub]
  /\ told \subseteq 0..MaxLids
  /\ busy \subseteq Watches /\ unlinked \subseteq Watches

\* A watch and the access point agree on the ports of a link, although the
\* replies a watch reads may answer requests it sent before, even before it was
\* started anew; only a watch that takes links down may be linked to nothing.
LinkedIsShared ==
  \A w \in Watches :
    Linked(w) /\ w \notin unlinked =>
      \E i \in WithPeer(Hub, w, conns[w][mine[w]].rx) :
        conns[Hub][i].rx = conns[w][mine[w]].tx

\* The access point holds one connection for each port of a watch, whatever
\* requests are repeated, and tells the connections of a watch apart by its own.
OneEach ==
  \A i, j \in Used(Hub) :
    i # j /\ conns[Hub][i].peer = conns[Hub][j].peer =>
      /\ conns[Hub][i].tx # conns[Hub][j].tx
      /\ conns[Hub][i].rx # conns[Hub][j].rx

\* A watch's table holds the connection it is making or using, and no other,
\* unless a link frame could not be sent: then the entry stays taken until the
\* network is started anew, and the retries of main_ED_BM.c may find none left.
TakenIsMine ==
  \A w \in Watches : on[w] /\ w \notin busy =>
    Used(w) = IF mine[w] = 0 THEN {} ELSE {mine[w]}

\* The two ends of a link agree, and hold nothing else.
EndsAgree == LinkedIsShared /\ OneEach /\ TakenIsMine

\* Every connection of the access point is known to its application, or waits for
\* the next SMPL_LinkListen, unless a link came in while one was being taken.
EveryLinkIsTold ==
  ~raced /\ hub \in {"idle", "poll"} =>
    \A i \in Used(Hub) :
      conns[Hub][i].lid \in told \union {service[j] : j \in 1..linkers}

\* simpliciti_link returns: a watch that started to join and link is linked in
\* the end or has given up, whatever is lost.
LinkEnds == \A w \in Watches : prog[w] = "init" ~> prog[w] \in {"off", "linked"}
=============================================================================
