------------------------------ MODULE MgmtLink ------------------------------
(***************************************************************************)
(* The management link (internal/mgmtlink): provisioning of nodes, the     *)
(* gRPC streams that carry their WireGuard packets, the per-address send   *)
(* queues of serverBind.  The peer events are the steps ApplyPeer          *)
(* (connected) and EmitDisconnected.                                       *)
(*                                                                         *)
(* An address stands for the /64 and the virtual addr:port derived from a  *)
(* node's index.  Provision calls, streams and packets of the WireGuard    *)
(* device run concurrently; each step below is one statement on the        *)
(* database or one critical section.  A call or stream happens once and is *)
(* forgotten when done.  A queue is named after the stream that created    *)
(* it; the packets in it, the keys of the nodes and last_seen are left out.*)
(***************************************************************************)
EXTENDS Naturals, FiniteSets

CONSTANTS
  Nodes,       \* node identities (identityFor)
  NoNode,
  Rpcs,        \* calls of Provision
  Streams,     \* calls of CreateStream
  NoStream,
  Senders,     \* goroutines of the WireGuard device that call Send
  IdxLimit,    \* 65535 in nextIndex
  MaxRestarts  \* bound on the restarts of the server

ASSUME LinkAssumption ==
  /\ IdxLimit \in Nat \ {0}
  /\ MaxRestarts \in Nat
  /\ NoStream \notin Streams

Addrs == 1..IdxLimit
Transports == {"grpc", "udp"}  \* wireguard_over_grpc, or kernel mode

VARIABLES
  idx,          \* mgmtlink_peers.idx of a node, 0 without a row (persistent)
  rpc,          \* Provision calls
  streamTokens, \* addresses of tunnel-mode nodes (provisionService)
  stream,       \* CreateStream calls
  streams,      \* streamService.streams: address -> handle
  cancelled,    \* streams whose context was cancelled with errPeerReplaced
  peers,        \* serverBind.peers: address -> send queue
  closed,       \* send queues that were closed
  sender,       \* calls of serverBind.Send
  restarts

vars == <<idx, rpc, streamTokens, stream, streams, cancelled, peers, closed,
          sender, restarts>>

provVars == <<idx, rpc, streamTokens>>
slotVars == <<stream, streams, cancelled, peers, closed>>

NewRpc == [pc |-> "new", node |-> NoNode, idx |-> 0, transport |-> "udp"]
NewStream == [pc |-> "new", addr |-> 0, queue |-> NoStream]
DoneRpc == [pc |-> "done", node |-> NoNode, idx |-> 0, transport |-> "udp"]
DoneStream == [pc |-> "done", addr |-> 0, queue |-> NoStream]
NoSend == [pc |-> "idle", queue |-> NoStream]

Init ==
  /\ idx = [n \in Nodes |-> 0]
  /\ rpc = [r \in Rpcs |-> NewRpc]
  /\ streamTokens = {}
  /\ stream = [s \in Streams |-> NewStream]
  /\ streams = [a \in Addrs |-> NoStream]
  /\ cancelled = {}
  /\ peers = [a \in Addrs |-> NoStream]
  /\ closed = {}
  /\ sender = [w \in Senders |-> NoSend]
  /\ restarts = 0

-----------------------------------------------------------------------------
(* Provision *)

\* The token was accepted; the row of the identity is read.
FindPeer(r, n, t) ==
  /\ rpc[r].pc = "new"
  /\ rpc' = [rpc EXCEPT ![r] = [pc |-> IF idx[n] # 0 THEN "apply" ELSE "next",
                                node |-> n, idx |-> idx[n], transport |-> t]]
  /\ UNCHANGED <<idx, streamTokens, slotVars, sender, restarts>>

\* m is SELECT MAX(idx), or 0 for no row: index 0 is the server's own.
IsMaxIdx(m) ==
  /\ \A n \in Nodes : idx[n] <= m
  /\ m = 0 \/ \E n \in Nodes : idx[n] = m

Candidate(r, i) ==
  [pc |-> "insert", node |-> rpc[r].node, idx |-> i, transport |-> rpc[r].transport]

NextIndex(r) ==
  /\ rpc[r].pc = "next"
  /\ \E m \in 0..IdxLimit :
       /\ IsMaxIdx(m)
       /\ rpc' = IF m >= IdxLimit THEN [rpc EXCEPT ![r] = DoneRpc]
                  ELSE [rpc EXCEPT ![r] = Candidate(r, m + 1)]
  /\ UNCHANGED <<idx, streamTokens, slotVars, sender, restarts>>

\* ON CONFLICT(identity) without the unique index.
InsertPeerNotUnique(r) ==
  /\ rpc[r].pc = "insert"
  /\ idx' = [idx EXCEPT ![rpc[r].node] = rpc[r].idx]
  /\ rpc' = [rpc EXCEPT ![r].pc = "apply"]
  /\ UNCHANGED <<streamTokens, slotVars, sender, restarts>>

\* INSERT: identity is the primary key and idx is unique.
InsertPeer(r) ==
  LET free == idx[rpc[r].node] = 0 /\ \A n \in Nodes : idx[n] # rpc[r].idx IN
  /\ rpc[r].pc = "insert"
  /\ idx' = IF free THEN [idx EXCEPT ![rpc[r].node] = rpc[r].idx] ELSE idx
  /\ rpc' = [rpc EXCEPT ![r] = IF free THEN [@ EXCEPT !.pc = "apply"] ELSE DoneRpc]
  /\ UNCHANGED <<streamTokens, slotVars, sender, restarts>>

\* ApplyPeer succeeded: PeerConnected goes to the listener.
ApplyPeer(r) ==
  /\ rpc[r].pc = "apply"
  /\ rpc' = [rpc EXCEPT ![r].pc = "respond"]
  /\ UNCHANGED <<idx, streamTokens, slotVars, sender, restarts>>

ApplyPeerFails(r) ==
  /\ rpc[r].pc = "apply"
  /\ rpc' = [rpc EXCEPT ![r] = DoneRpc]
  /\ UNCHANGED <<idx, streamTokens, slotVars, sender, restarts>>

Respond(r) ==
  /\ rpc[r].pc = "respond"
  /\ streamTokens' = streamTokens \union
                       (IF rpc[r].transport = "grpc" THEN {rpc[r].idx} ELSE {})
  /\ rpc' = [rpc EXCEPT ![r] = DoneRpc]
  /\ UNCHANGED <<idx, slotVars, sender, restarts>>

Provision(r) ==
  \/ \E n \in Nodes, t \in Transports : FindPeer(r, n, t)
  \/ NextIndex(r)
  \/ InsertPeer(r)
  \/ ApplyPeer(r)
  \/ ApplyPeerFails(r)
  \/ Respond(r)

-----------------------------------------------------------------------------
(* CreateStream *)

\* A stream of an address that allowStream refuses has no effect.
AllowStream(s, a) ==
  /\ stream[s].pc = "new" /\ a \in streamTokens
  /\ stream' = [stream EXCEPT ![s] = [pc |-> "attach", addr |-> a, queue |-> NoStream]]
  /\ UNCHANGED <<provVars, streams, cancelled, peers, closed, sender, restarts>>

GetSendQueue(s) ==
  LET a == stream[s].addr
      q == IF peers[a] # NoStream THEN peers[a] ELSE s IN
  /\ stream[s].pc = "attach"
  /\ peers' = [peers EXCEPT ![a] = q]
  /\ stream' = [stream EXCEPT ![s] = [pc |-> "register", addr |-> a, queue |-> q]]
  /\ UNCHANGED <<provVars, streams, cancelled, closed, sender, restarts>>

\* The stream it replaces is left running.
RegisterNoCancel(s) ==
  /\ stream[s].pc = "register"
  /\ streams' = [streams EXCEPT ![stream[s].addr] = s]
  /\ stream' = [stream EXCEPT ![s].pc = "running"]
  /\ UNCHANGED <<provVars, cancelled, peers, closed, sender, restarts>>

\* The new stream takes over the slot; the one it replaces is cancelled.
Register(s) ==
  LET a == stream[s].addr IN
  /\ stream[s].pc = "register"
  /\ cancelled' = cancelled \union ({streams[a]} \ {NoStream})
  /\ streams' = [streams EXCEPT ![a] = s]
  /\ stream' = [stream EXCEPT ![s].pc = "running"]
  /\ UNCHANGED <<provVars, peers, closed, sender, restarts>>

\* eg.Wait returns: the transport broke, or the inbound loop, which a
\* cancellation wakes only at a packet of the node, noticed that it was
\* replaced.
EndStream(s) ==
  /\ stream[s].pc = "running"
  /\ stream' = [stream EXCEPT ![s].pc = "closing"]
  /\ UNCHANGED <<provVars, streams, cancelled, peers, closed, sender, restarts>>

\* The deferred function, under the mutex: only the owner frees the slot.
Release(s) ==
  LET a == stream[s].addr
      owns == streams[a] = s IN
  /\ stream[s].pc = "closing"
  /\ streams' = IF owns THEN [streams EXCEPT ![a] = NoStream] ELSE streams
  /\ stream' = [stream EXCEPT ![s] = IF owns THEN [@ EXCEPT !.pc = "drop"] ELSE DoneStream]
  /\ UNCHANGED <<provVars, cancelled, peers, closed, sender, restarts>>

\* After the mutex: whatever queue the address has now is closed.
DropPeer(s) ==
  LET a == stream[s].addr IN
  /\ stream[s].pc = "drop"
  /\ closed' = closed \union ({peers[a]} \ {NoStream})
  /\ peers' = [peers EXCEPT ![a] = NoStream]
  /\ stream' = [stream EXCEPT ![s].pc = "emit"]
  /\ UNCHANGED <<provVars, streams, cancelled, sender, restarts>>

\* PeerDisconnected goes to the listener.
EmitDisconnected(s) ==
  /\ stream[s].pc = "emit"
  /\ stream' = [stream EXCEPT ![s] = DoneStream]
  /\ UNCHANGED <<provVars, streams, cancelled, peers, closed, sender, restarts>>

CreateStream(s) ==
  \/ \E a \in Addrs : AllowStream(s, a)
  \/ GetSendQueue(s)
  \/ Register(s)
  \/ EndStream(s)
  \/ Release(s)
  \/ DropPeer(s)
  \/ EmitDisconnected(s)

-----------------------------------------------------------------------------
(* Everything in memory is lost; NewServer reads the rows back. *)
Lost ==
  /\ rpc' = [r \in Rpcs |-> IF rpc[r].pc = "new" THEN rpc[r] ELSE DoneRpc]
  /\ streamTokens' = {}
  /\ stream' = [s \in Streams |-> IF stream[s].pc = "new" THEN stream[s] ELSE DoneStream]
  /\ streams' = [a \in Addrs |-> NoStream]
  /\ cancelled' = {}
  /\ peers' = [a \in Addrs |-> NoStream]
  /\ closed' = {}
  /\ sender' = [w \in Senders |-> NoSend]
  /\ idx' = idx

Restart ==
  /\ restarts < MaxRestarts
  /\ restarts' = restarts + 1
  /\ Lost

(* serverBind.Send: the queue is looked up under the mutex and used after it. *)
LookupQueue(w, a) ==
  /\ sender[w].pc = "idle" /\ peers[a] # NoStream
  /\ sender' = [sender EXCEPT ![w] = [pc |-> "push", queue |-> peers[a]]]
  /\ UNCHANGED <<provVars, slotVars, restarts>>

Push(w) ==
  /\ sender[w].pc = "push" /\ sender[w].queue \notin closed
  /\ sender' = [sender EXCEPT ![w] = NoSend]
  /\ UNCHANGED <<provVars, slotVars, restarts>>

\* A send on a closed channel panics, in a goroutine nobody recovers.
PushPanics(w) ==
  /\ sender[w].pc = "push" /\ sender[w].queue \in closed
  /\ restarts < MaxRestarts
  /\ restarts' = restarts + 1
  /\ Lost

Next ==
  \/ \E r \in Rpcs : Provision(r)
  \/ \E s \in Streams : CreateStream(s)
  \/ \E w \in Senders : (\E a \in Addrs : LookupQueue(w, a)) \/ Push(w) \/ PushPanics(w)
  \/ Restart

Spec == Init /\ [][Next]_vars

-----------------------------------------------------------------------------
(* Properties *)

RpcPc == {"new", "next", "insert", "apply", "respond", "done"}
StreamPc == {"new", "attach", "register", "running", "closing", "drop", "emit", "done"}

ProvTypeOK ==
  /\ idx \in [Nodes -> 0..IdxLimit]
  /\ rpc \in [Rpcs -> [pc : RpcPc, node : Nodes \union {NoNode}, idx : 0..IdxLimit, transport : Transports]]
  /\ \A r \in Rpcs : rpc[r].pc \notin {"new", "done"} => rpc[r].node \in Nodes
  /\ \A r \in Rpcs : rpc[r].pc \in {"insert", "apply", "respond"} => rpc[r].idx \in Addrs
  /\ streamTokens \subseteq Addrs

SlotTypeOK ==
  /\ stream \in [Streams -> [pc : StreamPc, addr : 0..IdxLimit, queue : Streams \union {NoStream}]]
  /\ \A s \in Streams : stream[s].pc \notin {"new", "done"} => stream[s].addr \in Addrs
  /\ streams \in [Addrs -> Streams \union {NoStream}]
  /\ cancelled \subseteq Streams
  /\ peers \in [Addrs -> Streams \union {NoStream}]
  /\ closed \subseteq Streams

RestTypeOK ==
  /\ sender \in [Senders -> [pc : {"idle", "push"}, queue : Streams \union {NoStream}]]
  /\ restarts \in Nat

\* Every variable of the management link stays in its range, and a stream
\* past allowStream has an address, a call past its token check a node.
TypeOK == ProvTypeOK /\ SlotTypeOK /\ RestTypeOK

\* An address belongs to one node for ever: whatever Provision calls race in
\* findOrAllocate, two calls that got as far as registering the peer hold the
\* same address only for the same node, and every address a stream may use is
\* some node's ("a node's /64 never changes once assigned", store.go).
Granted(r) == rpc[r].pc \in {"apply", "respond"}
AddressInv ==
  /\ \A m, n \in Nodes : idx[m] = idx[n] /\ idx[m] # 0 => m = n
  /\ \A r \in Rpcs : Granted(r) => rpc[r].idx = idx[rpc[r].node]
  /\ \A a \in streamTokens : \E n \in Nodes : idx[n] = a

\* A node keeps its address, across restarts of the server too.
AddressKept == [][\A n \in Nodes : idx[n] # 0 => idx'[n] = idx[n]]_vars

\* A stream that runs and does not own its slot has been told so: never do two
\* streams of a node take packets off the same queue ("instead of stealing its
\* successor's packets from the shared queue", CreateStream).
OneConsumer ==
  \A s, t \in Streams :
    /\ stream[s].pc = "running" /\ s \notin cancelled
    /\ stream[t].pc = "running" /\ t \notin cancelled
    /\ stream[s].addr = stream[t].addr
    => s = t

\* A stream that was replaced does not tear the slot down on its way out.
ReplacedLeavesSlot ==
  \A s \in cancelled : stream[s].pc \in {"running", "closing", "done"}

\* No send queue outlives the streams of its address, and none in the map is
\* closed: a node that comes back when its last stream is gone starts afresh.
NoQueueLeak ==
  \A a \in Addrs : peers[a] # NoStream =>
    /\ peers[a] \notin closed
    /\ \E s \in Streams : stream[s].addr = a
         /\ stream[s].pc \in {"register", "running", "closing", "drop"}

\* What a reconnecting node relies on: one consumer per queue, an old stream
\* that leaves the slot of its replacement alone (CreateStream),
\* and no queue left over (dropPeer).
SlotSafe == OneConsumer /\ ReplacedLeavesSlot /\ NoQueueLeak

\* Of the slots: the map holds the stream that runs and was not replaced.
OwnerInv ==
  /\ \A a \in Addrs : streams[a] # NoStream =>
       stream[streams[a]].pc \in {"running", "closing"} /\ stream[streams[a]].addr = a
  /\ \A s \in Streams : stream[s].pc \in {"running", "closing"} =>
       (s \in cancelled <=> streams[stream[s].addr] # s)
  /\ ReplacedLeavesSlot

\* Of the queues: one in the map is open, belongs to one address and has an
\* owner, or a stream about to become or to cease to be its owner.
QueueInv ==
  /\ \A s \in Streams : stream[s].pc \in {"new", "attach"} =>
       s \notin closed /\ \A a \in Addrs : peers[a] # s
  /\ \A a, b \in Addrs : peers[a] = peers[b] /\ peers[a] # NoStream => a = b
  /\ \A a \in Addrs : peers[a] # NoStream =>
       /\ peers[a] \notin closed
       /\ \/ streams[a] # NoStream
          \/ \E s \in Streams : stream[s].addr = a /\ stream[s].pc \in {"register", "drop"}

\* The inductive invariant of slots and queues: a slot has one owner, and a
\* queue in the map is open and looked after.
SlotInv == OwnerInv /\ QueueInv
=============================================================================
