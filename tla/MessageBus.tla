----------------------------- MODULE MessageBus -----------------------------
(***************************************************************************)
(* The message bus of core/openchronos.c: a singly linked list of nodes on *)
(* the heap, and check_events walking it.  No listener of the repository   *)
(* registers or unregisters while it is called, and no interrupt handler   *)
(* touches the list, so each operation is one step.                        *)
(*                                                                         *)
(* sys_messagebus_unregister reads and writes nodes it has just freed.     *)
(* The allocator of the toolchain keeps its bookkeeping outside the nodes, *)
(* so a freed node holds its words until malloc hands it out again.        *)
(***************************************************************************)
EXTENDS Integers, Sequences, FiniteSets

CONSTANTS
  Callback, Event,
  Mask,      \* the events each of them is registered for, always the same
  Node,      \* the nodes malloc can return
  NULL,
  Once       \* do the clients register a callback only when it is not listed?

MessageBusAssumption ==
  /\ IsFiniteSet(Node) /\ NULL \notin Node /\ Callback # {}
  /\ Once \in BOOLEAN /\ Mask \in [Callback -> SUBSET Event]

VARIABLES
  messagebus,         \* the first node
  fn, listens, next,  \* the words of the nodes
  live,               \* nodes malloc has handed out and free has not got back
  heard               \* whom a message was just handed to, by its place

vars == <<messagebus, fn, listens, next, live, heard>>

Ptr == Node \cup {NULL}

Paths == UNION {[1..k -> Node] : k \in 0..Cardinality(Node)}

\* The nodes s are those a walk from the first node visits.
IsWalk(s) ==
  /\ messagebus = IF s = <<>> THEN NULL ELSE s[1]
  /\ \A i \in DOMAIN s : next[s[i]] = IF i = Len(s) THEN NULL ELSE s[i + 1]

Chain == CHOOSE s \in Paths : IsWalk(s)
List == LET s == Chain IN {s[i] : i \in DOMAIN s}
Listed(f) == \E p \in List : fn[p] = f

Init ==
  /\ messagebus = NULL /\ live = {} /\ heard = <<>>
  /\ fn = [n \in Node |-> CHOOSE f \in Callback : TRUE]
  /\ listens = [n \in Node |-> {}]
  /\ next = [n \in Node |-> NULL]

-----------------------------------------------------------------------------
\* The new node goes to the end of the list.
sys_messagebus_register(f, events) ==
  /\ Once => ~Listed(f)
  /\ \E n \in Node \ live :
       /\ messagebus' = IF messagebus = NULL THEN n ELSE messagebus
       /\ LET s == Chain
          IN next' = [p \in Node |-> IF p = n THEN NULL
                                     ELSE IF s # <<>> /\ p = s[Len(s)] THEN n
                                     ELSE next[p]]
       /\ fn' = [fn EXCEPT ![n] = f]
       /\ listens' = [listens EXCEPT ![n] = events]
       /\ live' = live \cup {n}
  /\ heard' = <<>>

Hit(p, f) == p # NULL /\ fn[p] = f

\* Fault: the head of the list is not moved.
UnregisterKeepsHead(f) ==
  /\ LET list == List
     IN /\ next' = [p \in Node |-> IF p \in list /\ Hit(next[p], f)
                                   THEN next[next[p]] ELSE next[p]]
        /\ live' = live \ {p \in list : fn[p] = f}
  /\ heard' = <<>>
  /\ UNCHANGED <<messagebus, fn, listens>>

\* The walk meets each node of the list once and frees the hits.  pp is the
\* node before it even if that was freed, so a link skips one hit, no more.
sys_messagebus_unregister(f) ==
  /\ messagebus' = IF Hit(messagebus, f) THEN next[messagebus] ELSE messagebus
  /\ LET list == List
     IN /\ next' = [p \in Node |-> IF p \in list /\ Hit(next[p], f)
                                   THEN next[next[p]] ELSE next[p]]
        /\ live' = live \ {p \in list : fn[p] = f}
  /\ heard' = <<>>
  /\ UNCHANGED <<fn, listens>>

Listening(s, msg) == {i \in DOMAIN s : listens[s[i]] \cap msg # {}}

\* Fault: the walk ends with the first listener that is called.
DispatchFirst(msg) ==
  /\ LET s == Chain
         hits == Listening(s, msg)
     IN heard' = [i \in {i \in hits : \A j \in hits : i <= j} |-> fn[s[i]]]
  /\ UNCHANGED <<messagebus, fn, listens, next, live>>

\* The walk of check_events.
Dispatch(msg) ==
  /\ LET s == Chain IN heard' = [i \in Listening(s, msg) |-> fn[s[i]]]
  /\ UNCHANGED <<messagebus, fn, listens, next, live>>

Next ==
  \/ \E f \in Callback : sys_messagebus_register(f, Mask[f])
  \/ \E f \in Callback : sys_messagebus_unregister(f)
  \/ \E msg \in SUBSET Event : Dispatch(msg)

Spec == Init /\ [][Next]_vars

-----------------------------------------------------------------------------
(* Properties.                                                             *)

TypeOK ==
  /\ messagebus \in Ptr /\ live \subseteq Node
  /\ fn \in [Node -> Callback] /\ listens \in [Node -> SUBSET Event]
  /\ next \in [Node -> Ptr] /\ heard \in [DOMAIN heard -> Callback]

(***************************************************************************)
(* Between two calls the list holds the allocated nodes, each one once: it *)
(* leads into no freed node, and unregistering leaks none.                 *)
(***************************************************************************)
ListIsLive == List = live /\ Len(Chain) = Cardinality(live)

(***************************************************************************)
(* The list implements the bus: links and heap are hidden, and what each   *)
(* message is handed to is what the registrations say.                     *)
(***************************************************************************)
Abstract == INSTANCE Bus WITH
  regs <- LET s == Chain
          IN [i \in DOMAIN s |-> [fn |-> fn[s[i]], listens |-> listens[s[i]]]],
  MaxNodes <- Cardinality(Node)

ImplementsBus == Abstract!Spec
=============================================================================
