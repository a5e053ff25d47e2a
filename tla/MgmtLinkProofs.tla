--------------------------- MODULE MgmtLinkProofs ---------------------------
(* Proofs about the management link, for any number of nodes, calls,       *)
(* streams, senders and restarts.                                          *)
EXTENDS MgmtLink, TLAPS

LEMMA InitTypeOK == Init => TypeOK
  BY LinkAssumption DEF LinkAssumption, Init, TypeOK, NewRpc, NewStream, NoSend,
     ProvTypeOK, SlotTypeOK, RestTypeOK, RpcPc, StreamPc, Transports, Addrs

\* Provisioning: the calls, the table of peers and the stream tokens.
LEMMA ProvTypeStep == ASSUME TypeOK, [Next]_vars PROVE ProvTypeOK'
  <1>1. ASSUME NEW r \in Rpcs, Provision(r) PROVE ProvTypeOK'
    <2>1. ASSUME NEW n \in Nodes, NEW t \in Transports, FindPeer(r, n, t) PROVE
       ProvTypeOK'
      BY <2>1, LinkAssumption, TypeOK DEF LinkAssumption, FindPeer, provVars, slotVars,
         TypeOK, ProvTypeOK, RpcPc, Transports, Addrs
    <2>2. CASE NextIndex(r)
      <3>1. PICK m \in 0..IdxLimit : rpc' = IF m >= IdxLimit THEN [rpc EXCEPT ![r] =
         DoneRpc]
                                   ELSE [rpc EXCEPT ![r] = Candidate(r, m + 1)]
        BY <2>2 DEF NextIndex
      <3>2. CASE m >= IdxLimit
        BY <2>2, <3>1, <3>2, LinkAssumption, TypeOK DEF LinkAssumption, NextIndex,
           DoneRpc, TypeOK, ProvTypeOK, RpcPc, Transports, Addrs
      <3>3. CASE m < IdxLimit
        <4>1. m + 1 \in Addrs
          BY <3>3, LinkAssumption DEF LinkAssumption, Addrs
        <4>2. rpc' = [rpc EXCEPT ![r] = Candidate(r, m + 1)]
          BY <3>1, <3>3, LinkAssumption DEF LinkAssumption
        <4> QED BY <2>2, <4>1, <4>2, LinkAssumption, TypeOK DEF NextIndex, Candidate,
           TypeOK, ProvTypeOK, RpcPc, Transports, Addrs
      <3> QED BY <3>2, <3>3, LinkAssumption DEF LinkAssumption
    <2>3. CASE InsertPeer(r)
      BY <2>3, LinkAssumption, TypeOK DEF LinkAssumption, InsertPeer, DoneRpc, NewRpc,
         provVars, slotVars, TypeOK, ProvTypeOK, RpcPc, Transports, Addrs
    <2>4. CASE ApplyPeer(r)
      BY <2>4, LinkAssumption, TypeOK DEF LinkAssumption, ApplyPeer, provVars, slotVars,
         TypeOK, ProvTypeOK, RpcPc, Transports, Addrs
    <2>5. CASE ApplyPeerFails(r)
      BY <2>5, LinkAssumption, TypeOK DEF LinkAssumption, ApplyPeerFails, DoneRpc,
         NewRpc, provVars, slotVars, TypeOK, ProvTypeOK, RpcPc, Transports, Addrs
    <2>6. CASE Respond(r)
      <3>1. streamTokens' \subseteq Addrs
        BY <2>6, TypeOK DEF Respond, TypeOK, ProvTypeOK
      <3>2. rpc' = [rpc EXCEPT ![r] = DoneRpc] /\ idx' = idx
        BY <2>6 DEF Respond
      <3> QED BY <3>1, <3>2, LinkAssumption, TypeOK DEF DoneRpc, TypeOK, ProvTypeOK,
         RpcPc, Transports, Addrs
    <2> QED BY <1>1, <2>1, <2>2, <2>3, <2>4, <2>5, <2>6 DEF Provision
  <1>2. ASSUME NEW s \in Streams, CreateStream(s) PROVE ProvTypeOK'
    <2>1. ASSUME NEW a \in Addrs, AllowStream(s, a) PROVE ProvTypeOK'
      BY <2>1, LinkAssumption, TypeOK DEF LinkAssumption, AllowStream, provVars,
         slotVars, TypeOK, ProvTypeOK, RpcPc, Transports, Addrs
    <2>2. CASE GetSendQueue(s)
      BY <2>2, LinkAssumption, TypeOK DEF LinkAssumption, GetSendQueue, provVars,
         slotVars, TypeOK, ProvTypeOK, RpcPc, Transports, Addrs
    <2>3. CASE Register(s)
      BY <2>3, LinkAssumption, TypeOK DEF LinkAssumption, Register, provVars, slotVars,
         TypeOK, ProvTypeOK, RpcPc, Transports, Addrs
    <2>4. CASE EndStream(s)
      BY <2>4, LinkAssumption, TypeOK DEF LinkAssumption, EndStream, provVars, slotVars,
         TypeOK, ProvTypeOK, RpcPc, Transports, Addrs
    <2>5. CASE Release(s)
      BY <2>5, LinkAssumption, TypeOK DEF LinkAssumption, Release, DoneStream,
         NewStream, provVars, slotVars, TypeOK, ProvTypeOK, RpcPc, Transports, Addrs
    <2>6. CASE DropPeer(s)
      BY <2>6, LinkAssumption, TypeOK DEF LinkAssumption, DropPeer, provVars, slotVars,
         TypeOK, ProvTypeOK, RpcPc, Transports, Addrs
    <2>7. CASE EmitDisconnected(s)
      BY <2>7, LinkAssumption, TypeOK DEF LinkAssumption, EmitDisconnected, DoneStream,
         NewStream, provVars, slotVars, TypeOK, ProvTypeOK, RpcPc, Transports, Addrs
    <2> QED BY <1>2, <2>1, <2>2, <2>3, <2>4, <2>5, <2>6, <2>7 DEF CreateStream
  <1>3. ASSUME NEW w \in Senders, NEW a \in Addrs, LookupQueue(w, a) PROVE ProvTypeOK'
    BY <1>3, LinkAssumption, TypeOK DEF LinkAssumption, LookupQueue, provVars, slotVars,
       TypeOK, ProvTypeOK, RpcPc, Transports, Addrs
  <1>4. ASSUME NEW w \in Senders, Push(w) PROVE ProvTypeOK'
    BY <1>4, LinkAssumption, TypeOK DEF LinkAssumption, Push, NoSend, provVars,
       slotVars, TypeOK, ProvTypeOK, RpcPc, Transports, Addrs
  <1>5. ASSUME Lost, restarts' = restarts + 1 PROVE ProvTypeOK'
    BY <1>5, LinkAssumption, TypeOK DEF LinkAssumption, Lost, DoneRpc, NewRpc,
       DoneStream, NewStream, NoSend, TypeOK, ProvTypeOK, RpcPc, Transports, Addrs
  <1>6. CASE UNCHANGED vars
    BY <1>6, LinkAssumption, TypeOK DEF LinkAssumption, vars, TypeOK, ProvTypeOK, RpcPc,
       Transports, Addrs
  <1> QED BY <1>1, <1>2, <1>3, <1>4, <1>5, <1>6 DEF Next, Restart, PushPanics

\* The slots: streams, their map and the queues.
LEMMA SlotTypeStep == ASSUME TypeOK, [Next]_vars PROVE SlotTypeOK'
  <1>1. ASSUME NEW r \in Rpcs, Provision(r) PROVE SlotTypeOK'
    <2>1. ASSUME NEW n \in Nodes, NEW t \in Transports, FindPeer(r, n, t) PROVE
       SlotTypeOK'
      BY <2>1, LinkAssumption, TypeOK DEF LinkAssumption, FindPeer, provVars, slotVars,
         TypeOK, SlotTypeOK, ProvTypeOK, StreamPc, Addrs
    <2>2. CASE NextIndex(r)
      BY <2>2, LinkAssumption, TypeOK DEF LinkAssumption, NextIndex, Candidate, DoneRpc,
         NewRpc, IsMaxIdx, provVars, slotVars, TypeOK, SlotTypeOK, ProvTypeOK, StreamPc,
         Addrs
    <2>3. CASE InsertPeer(r)
      BY <2>3, LinkAssumption, TypeOK DEF LinkAssumption, InsertPeer, DoneRpc, NewRpc,
         provVars, slotVars, TypeOK, SlotTypeOK, ProvTypeOK, StreamPc, Addrs
    <2>4. CASE ApplyPeer(r)
      BY <2>4, LinkAssumption, TypeOK DEF LinkAssumption, ApplyPeer, provVars, slotVars,
         TypeOK, SlotTypeOK, ProvTypeOK, StreamPc, Addrs
    <2>5. CASE ApplyPeerFails(r)
      BY <2>5, LinkAssumption, TypeOK DEF LinkAssumption, ApplyPeerFails, DoneRpc,
         NewRpc, provVars, slotVars, TypeOK, SlotTypeOK, ProvTypeOK, StreamPc, Addrs
    <2>6. CASE Respond(r)
      BY <2>6, LinkAssumption, TypeOK DEF LinkAssumption, Respond, DoneRpc, NewRpc,
         provVars, slotVars, TypeOK, SlotTypeOK, ProvTypeOK, StreamPc, Addrs
    <2> QED BY <1>1, <2>1, <2>2, <2>3, <2>4, <2>5, <2>6 DEF Provision
  <1>2. ASSUME NEW s \in Streams, CreateStream(s) PROVE SlotTypeOK'
    <2>1. ASSUME NEW a \in Addrs, AllowStream(s, a) PROVE SlotTypeOK'
      BY <2>1, LinkAssumption, TypeOK DEF LinkAssumption, AllowStream, provVars,
         slotVars, TypeOK, SlotTypeOK, ProvTypeOK, StreamPc, Addrs
    <2>2. CASE GetSendQueue(s)
      BY <2>2, LinkAssumption, TypeOK DEF LinkAssumption, GetSendQueue, provVars,
         slotVars, TypeOK, SlotTypeOK, ProvTypeOK, StreamPc, Addrs
    <2>3. CASE Register(s)
      BY <2>3, LinkAssumption, TypeOK, ZenonT(60) DEF LinkAssumption, Register, provVars, slotVars,
         TypeOK, SlotTypeOK, ProvTypeOK, StreamPc, Addrs
    <2>4. CASE EndStream(s)
      BY <2>4, LinkAssumption, TypeOK, ZenonT(60) DEF LinkAssumption, EndStream, provVars, slotVars,
         TypeOK, SlotTypeOK, ProvTypeOK, StreamPc, Addrs
    <2>5. CASE Release(s)
      <3>1. CASE streams[stream[s].addr] = s
        BY <2>5, <3>1, LinkAssumption, TypeOK, ZenonT(60) DEF LinkAssumption, Release, provVars,
           slotVars, TypeOK, SlotTypeOK, ProvTypeOK, StreamPc, Addrs
      <3>2. CASE streams[stream[s].addr] # s
        BY <2>5, <3>2, LinkAssumption, TypeOK DEF LinkAssumption, Release, DoneStream,
           provVars, slotVars, TypeOK, SlotTypeOK, ProvTypeOK, StreamPc, Addrs
      <3> QED BY <3>1, <3>2
    <2>6. CASE DropPeer(s)
      BY <2>6, LinkAssumption, TypeOK, ZenonT(60) DEF LinkAssumption, DropPeer, provVars, slotVars,
         TypeOK, SlotTypeOK, ProvTypeOK, StreamPc, Addrs
    <2>7. CASE EmitDisconnected(s)
      BY <2>7, LinkAssumption, TypeOK DEF LinkAssumption, EmitDisconnected, DoneStream,
         NewStream, provVars, slotVars, TypeOK, SlotTypeOK, ProvTypeOK, StreamPc, Addrs
    <2> QED BY <1>2, <2>1, <2>2, <2>3, <2>4, <2>5, <2>6, <2>7 DEF CreateStream
  <1>3. ASSUME NEW w \in Senders, NEW a \in Addrs, LookupQueue(w, a) PROVE SlotTypeOK'
    BY <1>3, LinkAssumption, TypeOK DEF LinkAssumption, LookupQueue, provVars, slotVars,
       TypeOK, SlotTypeOK, ProvTypeOK, StreamPc, Addrs
  <1>4. ASSUME NEW w \in Senders, Push(w) PROVE SlotTypeOK'
    BY <1>4, LinkAssumption, TypeOK DEF LinkAssumption, Push, NoSend, provVars,
       slotVars, TypeOK, SlotTypeOK, ProvTypeOK, StreamPc, Addrs
  <1>5. ASSUME Lost, restarts' = restarts + 1 PROVE SlotTypeOK'
    BY <1>5, LinkAssumption, TypeOK DEF LinkAssumption, Lost, DoneRpc, NewRpc,
       DoneStream, NewStream, NoSend, TypeOK, SlotTypeOK, ProvTypeOK, StreamPc, Addrs
  <1>6. CASE UNCHANGED vars
    BY <1>6, LinkAssumption, TypeOK DEF LinkAssumption, vars, TypeOK, SlotTypeOK,
       ProvTypeOK, StreamPc, Addrs
  <1> QED BY <1>1, <1>2, <1>3, <1>4, <1>5, <1>6 DEF Next, Restart, PushPanics

LEMMA RestTypeStep == ASSUME TypeOK, [Next]_vars PROVE RestTypeOK'
  <1>1. ASSUME NEW r \in Rpcs, Provision(r) PROVE RestTypeOK'
    <2>1. ASSUME NEW n \in Nodes, NEW t \in Transports, FindPeer(r, n, t) PROVE
       RestTypeOK'
      BY <2>1, TypeOK DEF FindPeer, provVars, slotVars, TypeOK, RestTypeOK, SlotTypeOK
    <2>2. CASE NextIndex(r)
      BY <2>2, TypeOK DEF NextIndex, Candidate, DoneRpc, NewRpc, IsMaxIdx, provVars,
         slotVars, TypeOK, RestTypeOK, SlotTypeOK
    <2>3. CASE InsertPeer(r)
      BY <2>3, TypeOK DEF InsertPeer, DoneRpc, NewRpc, provVars, slotVars, TypeOK,
         RestTypeOK, SlotTypeOK
    <2>4. CASE ApplyPeer(r)
      BY <2>4, TypeOK DEF ApplyPeer, provVars, slotVars, TypeOK, RestTypeOK, SlotTypeOK
    <2>5. CASE ApplyPeerFails(r)
      BY <2>5, TypeOK DEF ApplyPeerFails, DoneRpc, NewRpc, provVars, slotVars, TypeOK,
         RestTypeOK, SlotTypeOK
    <2>6. CASE Respond(r)
      BY <2>6, TypeOK DEF Respond, DoneRpc, NewRpc, provVars, slotVars, TypeOK,
         RestTypeOK, SlotTypeOK
    <2> QED BY <1>1, <2>1, <2>2, <2>3, <2>4, <2>5, <2>6 DEF Provision
  <1>2. ASSUME NEW s \in Streams, CreateStream(s) PROVE RestTypeOK'
    <2>1. ASSUME NEW a \in Addrs, AllowStream(s, a) PROVE RestTypeOK'
      BY <2>1, TypeOK DEF AllowStream, provVars, slotVars, TypeOK, RestTypeOK,
         SlotTypeOK
    <2>2. CASE GetSendQueue(s)
      BY <2>2, TypeOK DEF GetSendQueue, provVars, slotVars, TypeOK, RestTypeOK,
         SlotTypeOK
    <2>3. CASE Register(s)
      BY <2>3, TypeOK DEF Register, provVars, slotVars, TypeOK, RestTypeOK, SlotTypeOK
    <2>4. CASE EndStream(s)
      BY <2>4, TypeOK DEF EndStream, provVars, slotVars, TypeOK, RestTypeOK, SlotTypeOK
    <2>5. CASE Release(s)
      BY <2>5, TypeOK DEF Release, DoneStream, NewStream, provVars, slotVars, TypeOK,
         RestTypeOK, SlotTypeOK
    <2>6. CASE DropPeer(s)
      BY <2>6, TypeOK DEF DropPeer, provVars, slotVars, TypeOK, RestTypeOK, SlotTypeOK
    <2>7. CASE EmitDisconnected(s)
      BY <2>7, TypeOK DEF EmitDisconnected, DoneStream, NewStream, provVars, slotVars,
         TypeOK, RestTypeOK, SlotTypeOK
    <2> QED BY <1>2, <2>1, <2>2, <2>3, <2>4, <2>5, <2>6, <2>7 DEF CreateStream
  <1>3. ASSUME NEW w \in Senders, NEW a \in Addrs, LookupQueue(w, a) PROVE RestTypeOK'
    BY <1>3, TypeOK DEF LookupQueue, provVars, slotVars, TypeOK, RestTypeOK, SlotTypeOK
  <1>4. ASSUME NEW w \in Senders, Push(w) PROVE RestTypeOK'
    BY <1>4, TypeOK DEF Push, NoSend, provVars, slotVars, TypeOK, RestTypeOK, SlotTypeOK
  <1>5. ASSUME Lost, restarts' = restarts + 1 PROVE RestTypeOK'
    BY <1>5, TypeOK DEF Lost, DoneRpc, NewRpc, DoneStream, NewStream, NoSend, TypeOK,
       RestTypeOK, SlotTypeOK
  <1>6. CASE UNCHANGED vars
    BY <1>6, TypeOK DEF vars, TypeOK, RestTypeOK, SlotTypeOK
  <1> QED BY <1>1, <1>2, <1>3, <1>4, <1>5, <1>6 DEF Next, Restart, PushPanics

\* Every variable of the management link stays in its range (TypeOK).
THEOREM TypeCorrect == Spec => []TypeOK
  <1>1. TypeOK /\ [Next]_vars => TypeOK'
    BY ProvTypeStep, SlotTypeStep, RestTypeStep DEF TypeOK
  <1> QED BY <1>1, InitTypeOK, PTL DEF Spec

LEMMA AddressStep == ASSUME TypeOK, AddressInv, [Next]_vars PROVE AddressInv'
  <1>1. ASSUME NEW r \in Rpcs, Provision(r) PROVE AddressInv'
    <2>1. ASSUME NEW n \in Nodes, NEW t \in Transports, FindPeer(r, n, t) PROVE
       AddressInv'
      BY <2>1, LinkAssumption, TypeOK, AddressInv DEF LinkAssumption, FindPeer,
         provVars, slotVars, AddressInv, Granted, TypeOK, ProvTypeOK, RpcPc, Transports,
         Addrs
    <2>2. CASE NextIndex(r)
      BY <2>2, LinkAssumption, TypeOK, AddressInv DEF LinkAssumption, NextIndex,
         Candidate, DoneRpc, NewRpc, IsMaxIdx, provVars, slotVars, AddressInv, Granted,
         TypeOK, ProvTypeOK, RpcPc, Transports, Addrs
    <2>3. CASE InsertPeer(r)
      BY <2>3, LinkAssumption, TypeOK, AddressInv DEF LinkAssumption, InsertPeer,
         DoneRpc, NewRpc, provVars, slotVars, AddressInv, Granted, TypeOK, ProvTypeOK,
         RpcPc, Transports, Addrs
    <2>4. CASE ApplyPeer(r)
      BY <2>4, LinkAssumption, TypeOK, AddressInv DEF LinkAssumption, ApplyPeer,
         provVars, slotVars, AddressInv, Granted, TypeOK, ProvTypeOK, RpcPc, Transports,
         Addrs
    <2>5. CASE ApplyPeerFails(r)
      BY <2>5, LinkAssumption, TypeOK, AddressInv DEF LinkAssumption, ApplyPeerFails,
         DoneRpc, NewRpc, provVars, slotVars, AddressInv, Granted, TypeOK, ProvTypeOK,
         RpcPc, Transports, Addrs
    <2>6. CASE Respond(r)
      BY <2>6, LinkAssumption, TypeOK, AddressInv DEF LinkAssumption, Respond, DoneRpc,
         NewRpc, provVars, slotVars, AddressInv, Granted, TypeOK, ProvTypeOK, RpcPc,
         Transports, Addrs
    <2> QED BY <1>1, <2>1, <2>2, <2>3, <2>4, <2>5, <2>6 DEF Provision
  <1>2. ASSUME NEW s \in Streams, CreateStream(s) PROVE AddressInv'
    <2>1. ASSUME NEW a \in Addrs, AllowStream(s, a) PROVE AddressInv'
      BY <2>1, LinkAssumption, TypeOK, AddressInv DEF LinkAssumption, AllowStream,
         provVars, slotVars, AddressInv, Granted, TypeOK, ProvTypeOK, RpcPc, Transports,
         Addrs
    <2>2. CASE GetSendQueue(s)
      BY <2>2, LinkAssumption, TypeOK, AddressInv DEF LinkAssumption, GetSendQueue,
         provVars, slotVars, AddressInv, Granted, TypeOK, ProvTypeOK, RpcPc, Transports,
         Addrs
    <2>3. CASE Register(s)
      BY <2>3, LinkAssumption, TypeOK, AddressInv DEF LinkAssumption, Register,
         provVars, slotVars, AddressInv, Granted, TypeOK, ProvTypeOK, RpcPc, Transports,
         Addrs
    <2>4. CASE EndStream(s)
      BY <2>4, LinkAssumption, TypeOK, AddressInv DEF LinkAssumption, EndStream,
         provVars, slotVars, AddressInv, Granted, TypeOK, ProvTypeOK, RpcPc, Transports,
         Addrs
    <2>5. CASE Release(s)
      BY <2>5, LinkAssumption, TypeOK, AddressInv DEF LinkAssumption, Release,
         DoneStream, NewStream, provVars, slotVars, AddressInv, Granted, TypeOK,
         ProvTypeOK, RpcPc, Transports, Addrs
    <2>6. CASE DropPeer(s)
      BY <2>6, LinkAssumption, TypeOK, AddressInv DEF LinkAssumption, DropPeer,
         provVars, slotVars, AddressInv, Granted, TypeOK, ProvTypeOK, RpcPc, Transports,
         Addrs
    <2>7. CASE EmitDisconnected(s)
      BY <2>7, LinkAssumption, TypeOK, AddressInv DEF LinkAssumption, EmitDisconnected,
         DoneStream, NewStream, provVars, slotVars, AddressInv, Granted, TypeOK,
         ProvTypeOK, RpcPc, Transports, Addrs
    <2> QED BY <1>2, <2>1, <2>2, <2>3, <2>4, <2>5, <2>6, <2>7 DEF CreateStream
  <1>3. ASSUME NEW w \in Senders, NEW a \in Addrs, LookupQueue(w, a) PROVE AddressInv'
    BY <1>3, LinkAssumption, TypeOK, AddressInv DEF LinkAssumption, LookupQueue,
       provVars, slotVars, AddressInv, Granted, TypeOK, ProvTypeOK, RpcPc, Transports,
       Addrs
  <1>4. ASSUME NEW w \in Senders, Push(w) PROVE AddressInv'
    BY <1>4, LinkAssumption, TypeOK, AddressInv DEF LinkAssumption, Push, NoSend,
       provVars, slotVars, AddressInv, Granted, TypeOK, ProvTypeOK, RpcPc, Transports,
       Addrs
  <1>5. ASSUME Lost, restarts' = restarts + 1 PROVE AddressInv'
    BY <1>5, LinkAssumption, TypeOK, AddressInv DEF LinkAssumption, Lost, DoneRpc,
       NewRpc, DoneStream, NewStream, NoSend, AddressInv, Granted, TypeOK, ProvTypeOK,
       RpcPc, Transports, Addrs
  <1>6. CASE UNCHANGED vars
    BY <1>6, LinkAssumption, TypeOK, AddressInv DEF LinkAssumption, vars, AddressInv,
       Granted, TypeOK, ProvTypeOK, RpcPc, Transports, Addrs
  <1> QED BY <1>1, <1>2, <1>3, <1>4, <1>5, <1>6 DEF Next, Restart, PushPanics

\* Whatever calls of Provision race in findOrAllocate, an address is granted
\* to one node only (AddressInv).
THEOREM AddressInvariant == Spec => []AddressInv
  <1>1. Init => AddressInv
    BY DEF Init, AddressInv, Granted, NewRpc
  <1>2. TypeOK /\ AddressInv /\ [Next]_vars => AddressInv'
    BY AddressStep
  <1> QED BY <1>1, <1>2, TypeCorrect, PTL DEF Spec

LEMMA KeptStep ==
  ASSUME TypeOK, [Next]_vars, NEW n \in Nodes, idx[n] # 0
  PROVE  idx'[n] = idx[n]
  BY DEF TypeOK, ProvTypeOK, Next, vars, Provision, FindPeer, NextIndex, InsertPeer,
         ApplyPeer, ApplyPeerFails, Respond, CreateStream, AllowStream, GetSendQueue,
         Register, EndStream, Release, DropPeer, EmitDisconnected, LookupQueue, Push,
         PushPanics, Restart, Lost, provVars

\* A node's address never changes once it is assigned (AddressKept): no step
\* updates or deletes the index of a row.
THEOREM AddressesKept == Spec => AddressKept
  <1>1. TypeOK /\ [Next]_vars => [\A n \in Nodes : idx[n] # 0 => idx'[n] = idx[n]]_vars
    BY KeptStep
  <1> QED BY <1>1, TypeCorrect, PTL DEF Spec, AddressKept

LEMMA OwnerStep == ASSUME TypeOK, OwnerInv, [Next]_vars PROVE OwnerInv'
  <1>1. ASSUME NEW r \in Rpcs, Provision(r) PROVE OwnerInv'
    <2>1. ASSUME NEW n \in Nodes, NEW t \in Transports, FindPeer(r, n, t) PROVE
       OwnerInv'
      BY <2>1, LinkAssumption, TypeOK, OwnerInv DEF LinkAssumption, FindPeer, provVars,
         slotVars, OwnerInv, ReplacedLeavesSlot, TypeOK, SlotTypeOK
    <2>2. CASE NextIndex(r)
      BY <2>2, LinkAssumption, TypeOK, OwnerInv DEF LinkAssumption, NextIndex,
         Candidate, DoneRpc, NewRpc, IsMaxIdx, provVars, slotVars, OwnerInv,
         ReplacedLeavesSlot, TypeOK, SlotTypeOK
    <2>3. CASE InsertPeer(r)
      BY <2>3, LinkAssumption, TypeOK, OwnerInv DEF LinkAssumption, InsertPeer, DoneRpc,
         NewRpc, provVars, slotVars, OwnerInv, ReplacedLeavesSlot, TypeOK, SlotTypeOK
    <2>4. CASE ApplyPeer(r)
      BY <2>4, LinkAssumption, TypeOK, OwnerInv DEF LinkAssumption, ApplyPeer, provVars,
         slotVars, OwnerInv, ReplacedLeavesSlot, TypeOK, SlotTypeOK
    <2>5. CASE ApplyPeerFails(r)
      BY <2>5, LinkAssumption, TypeOK, OwnerInv DEF LinkAssumption, ApplyPeerFails,
         DoneRpc, NewRpc, provVars, slotVars, OwnerInv, ReplacedLeavesSlot, TypeOK,
         SlotTypeOK
    <2>6. CASE Respond(r)
      BY <2>6, LinkAssumption, TypeOK, OwnerInv DEF LinkAssumption, Respond, DoneRpc,
         NewRpc, provVars, slotVars, OwnerInv, ReplacedLeavesSlot, TypeOK, SlotTypeOK
    <2> QED BY <1>1, <2>1, <2>2, <2>3, <2>4, <2>5, <2>6 DEF Provision
  <1>2. ASSUME NEW s \in Streams, CreateStream(s) PROVE OwnerInv'
    <2>1. ASSUME NEW a \in Addrs, AllowStream(s, a) PROVE OwnerInv'
      BY <2>1, LinkAssumption, TypeOK, OwnerInv DEF LinkAssumption, AllowStream,
         provVars, slotVars, OwnerInv, ReplacedLeavesSlot, TypeOK, SlotTypeOK
    <2>2. CASE GetSendQueue(s)
      BY <2>2, LinkAssumption, TypeOK, OwnerInv DEF LinkAssumption, GetSendQueue,
         provVars, slotVars, OwnerInv, ReplacedLeavesSlot, TypeOK, SlotTypeOK
    <2>3. CASE Register(s)
      BY <2>3, LinkAssumption, TypeOK, OwnerInv DEF LinkAssumption, Register, provVars,
         slotVars, OwnerInv, ReplacedLeavesSlot, TypeOK, SlotTypeOK
    <2>4. CASE EndStream(s)
      BY <2>4, LinkAssumption, TypeOK, OwnerInv DEF LinkAssumption, EndStream, provVars,
         slotVars, OwnerInv, ReplacedLeavesSlot, TypeOK, SlotTypeOK
    <2>5. CASE Release(s)
      BY <2>5, LinkAssumption, TypeOK, OwnerInv DEF LinkAssumption, Release, DoneStream,
         NewStream, provVars, slotVars, OwnerInv, ReplacedLeavesSlot, TypeOK, SlotTypeOK
    <2>6. CASE DropPeer(s)
      BY <2>6, LinkAssumption, TypeOK, OwnerInv DEF LinkAssumption, DropPeer, provVars,
         slotVars, OwnerInv, ReplacedLeavesSlot, TypeOK, SlotTypeOK
    <2>7. CASE EmitDisconnected(s)
      BY <2>7, LinkAssumption, TypeOK, OwnerInv DEF LinkAssumption, EmitDisconnected,
         DoneStream, NewStream, provVars, slotVars, OwnerInv, ReplacedLeavesSlot, TypeOK,
         SlotTypeOK
    <2> QED BY <1>2, <2>1, <2>2, <2>3, <2>4, <2>5, <2>6, <2>7 DEF CreateStream
  <1>3. ASSUME NEW w \in Senders, NEW a \in Addrs, LookupQueue(w, a) PROVE OwnerInv'
    BY <1>3, LinkAssumption, TypeOK, OwnerInv DEF LinkAssumption, LookupQueue, provVars,
       slotVars, OwnerInv, ReplacedLeavesSlot, TypeOK, SlotTypeOK
  <1>4. ASSUME NEW w \in Senders, Push(w) PROVE OwnerInv'
    BY <1>4, LinkAssumption, TypeOK, OwnerInv DEF LinkAssumption, Push, NoSend,
       provVars, slotVars, OwnerInv, ReplacedLeavesSlot, TypeOK, SlotTypeOK
  <1>5. ASSUME Lost, restarts' = restarts + 1 PROVE OwnerInv'
    BY <1>5, LinkAssumption, TypeOK, OwnerInv DEF LinkAssumption, Lost, DoneRpc, NewRpc,
       DoneStream, NewStream, NoSend, OwnerInv, ReplacedLeavesSlot, TypeOK, SlotTypeOK
  <1>6. CASE UNCHANGED vars
    BY <1>6, LinkAssumption, TypeOK, OwnerInv DEF LinkAssumption, vars, OwnerInv,
       ReplacedLeavesSlot, TypeOK, SlotTypeOK
  <1> QED BY <1>1, <1>2, <1>3, <1>4, <1>5, <1>6 DEF Next, Restart, PushPanics

LEMMA QueueStep == ASSUME TypeOK, OwnerInv, QueueInv, [Next]_vars PROVE QueueInv'
  <1>1. ASSUME NEW r \in Rpcs, Provision(r) PROVE QueueInv'
    <2>1. ASSUME NEW n \in Nodes, NEW t \in Transports, FindPeer(r, n, t) PROVE
       QueueInv'
      BY <2>1, LinkAssumption, TypeOK, OwnerInv, QueueInv DEF LinkAssumption, FindPeer,
         provVars, slotVars, OwnerInv, QueueInv, TypeOK, SlotTypeOK
    <2>2. CASE NextIndex(r)
      BY <2>2, LinkAssumption, TypeOK, OwnerInv, QueueInv DEF LinkAssumption, NextIndex,
         Candidate, DoneRpc, NewRpc, IsMaxIdx, provVars, slotVars, OwnerInv, QueueInv,
         TypeOK, SlotTypeOK
    <2>3. CASE InsertPeer(r)
      BY <2>3, LinkAssumption, TypeOK, OwnerInv, QueueInv DEF LinkAssumption,
         InsertPeer, DoneRpc, NewRpc, provVars, slotVars, OwnerInv, QueueInv, TypeOK,
         SlotTypeOK
    <2>4. CASE ApplyPeer(r)
      BY <2>4, LinkAssumption, TypeOK, OwnerInv, QueueInv DEF LinkAssumption, ApplyPeer,
         provVars, slotVars, OwnerInv, QueueInv, TypeOK, SlotTypeOK
    <2>5. CASE ApplyPeerFails(r)
      BY <2>5, LinkAssumption, TypeOK, OwnerInv, QueueInv DEF LinkAssumption,
         ApplyPeerFails, DoneRpc, NewRpc, provVars, slotVars, OwnerInv, QueueInv, TypeOK,
         SlotTypeOK
    <2>6. CASE Respond(r)
      BY <2>6, LinkAssumption, TypeOK, OwnerInv, QueueInv DEF LinkAssumption, Respond,
         DoneRpc, NewRpc, provVars, slotVars, OwnerInv, QueueInv, TypeOK, SlotTypeOK
    <2> QED BY <1>1, <2>1, <2>2, <2>3, <2>4, <2>5, <2>6 DEF Provision
  <1>2. ASSUME NEW s \in Streams, CreateStream(s) PROVE QueueInv'
    <2>1. ASSUME NEW a \in Addrs, AllowStream(s, a) PROVE QueueInv'
      BY <2>1, LinkAssumption, TypeOK, OwnerInv, QueueInv DEF LinkAssumption,
         AllowStream, provVars, slotVars, OwnerInv, QueueInv, TypeOK, SlotTypeOK
    <2>2. CASE GetSendQueue(s)
      BY <2>2, LinkAssumption, TypeOK, OwnerInv, QueueInv DEF LinkAssumption,
         GetSendQueue, provVars, slotVars, OwnerInv, QueueInv, TypeOK, SlotTypeOK
    <2>3. CASE Register(s)
      BY <2>3, LinkAssumption, TypeOK, OwnerInv, QueueInv DEF LinkAssumption, Register,
         provVars, slotVars, OwnerInv, QueueInv, TypeOK, SlotTypeOK
    <2>4. CASE EndStream(s)
      BY <2>4, LinkAssumption, TypeOK, OwnerInv, QueueInv DEF LinkAssumption, EndStream,
         provVars, slotVars, OwnerInv, QueueInv, TypeOK, SlotTypeOK
    <2>5. CASE Release(s)
      BY <2>5, LinkAssumption, TypeOK, OwnerInv, QueueInv DEF LinkAssumption, Release,
         DoneStream, NewStream, provVars, slotVars, OwnerInv, QueueInv, TypeOK, SlotTypeOK
    <2>6. CASE DropPeer(s)
      BY <2>6, LinkAssumption, TypeOK, OwnerInv, QueueInv DEF LinkAssumption, DropPeer,
         provVars, slotVars, OwnerInv, QueueInv, TypeOK, SlotTypeOK
    <2>7. CASE EmitDisconnected(s)
      BY <2>7, LinkAssumption, TypeOK, OwnerInv, QueueInv DEF LinkAssumption,
         EmitDisconnected, DoneStream, NewStream, provVars, slotVars, OwnerInv, QueueInv,
         TypeOK, SlotTypeOK
    <2> QED BY <1>2, <2>1, <2>2, <2>3, <2>4, <2>5, <2>6, <2>7 DEF CreateStream
  <1>3. ASSUME NEW w \in Senders, NEW a \in Addrs, LookupQueue(w, a) PROVE QueueInv'
    BY <1>3, LinkAssumption, TypeOK, OwnerInv, QueueInv DEF LinkAssumption, LookupQueue,
       provVars, slotVars, OwnerInv, QueueInv, TypeOK, SlotTypeOK
  <1>4. ASSUME NEW w \in Senders, Push(w) PROVE QueueInv'
    BY <1>4, LinkAssumption, TypeOK, OwnerInv, QueueInv DEF LinkAssumption, Push,
       NoSend, provVars, slotVars, OwnerInv, QueueInv, TypeOK, SlotTypeOK
  <1>5. ASSUME Lost, restarts' = restarts + 1 PROVE QueueInv'
    BY <1>5, LinkAssumption, TypeOK, OwnerInv, QueueInv DEF LinkAssumption, Lost,
       DoneRpc, NewRpc, DoneStream, NewStream, NoSend, OwnerInv, QueueInv, TypeOK,
       SlotTypeOK
  <1>6. CASE UNCHANGED vars
    BY <1>6, LinkAssumption, TypeOK, OwnerInv, QueueInv DEF LinkAssumption, vars,
       OwnerInv, QueueInv, TypeOK, SlotTypeOK
  <1> QED BY <1>1, <1>2, <1>3, <1>4, <1>5, <1>6 DEF Next, Restart, PushPanics

\* The inductive invariant of slots and queues (SlotInv).
THEOREM SlotInvariant == Spec => []SlotInv
  <1>1. Init => SlotInv
    BY LinkAssumption DEF LinkAssumption, Init, SlotInv, OwnerInv, QueueInv,
       ReplacedLeavesSlot, NewStream
  <1>2. TypeOK /\ SlotInv /\ [Next]_vars => SlotInv'
    BY OwnerStep, QueueStep DEF SlotInv
  <1> QED BY <1>1, <1>2, TypeCorrect, PTL DEF Spec

\* Never do two streams of a node take packets off its queue (OneConsumer).
THEOREM SingleConsumer == Spec => []OneConsumer
  <1>1. TypeOK /\ SlotInv => OneConsumer
    BY DEF TypeOK, SlotTypeOK, SlotInv, OwnerInv, OneConsumer
  <1> QED BY <1>1, TypeCorrect, SlotInvariant, PTL

\* A replaced stream does not tear the slot down (ReplacedLeavesSlot).
THEOREM ReplacedHarmless == Spec => []ReplacedLeavesSlot
  <1>1. SlotInv => ReplacedLeavesSlot
    BY DEF SlotInv, OwnerInv
  <1> QED BY <1>1, SlotInvariant, PTL

\* A queue in the map is open and some stream of its address will drop it or
\* hand it on (NoQueueLeak).
THEOREM QueuesLookedAfter == Spec => []NoQueueLeak
  <1>1. TypeOK /\ SlotInv => NoQueueLeak
    BY DEF TypeOK, SlotTypeOK, SlotInv, OwnerInv, QueueInv, NoQueueLeak
  <1> QED BY <1>1, TypeCorrect, SlotInvariant, PTL

\* Reconnects are safe for the slot and its queue (SlotSafe).
THEOREM SlotsSafe == Spec => []SlotSafe
  <1> QED BY SingleConsumer, ReplacedHarmless, QueuesLookedAfter, PTL DEF SlotSafe
=============================================================================
