------------------------------ MODULE Converge ------------------------------
(***************************************************************************)
(* The converge engine (internal/converge): every provision of a node      *)
(* flags its machine connected and delivers the rendered config to it,     *)
(* every end of a stream clears the flag again.  The management link hands *)
(* each peer event to a goroutine of its own (peerEvents.emit), so events  *)
(* of a node are handled in any order, and at the same time.               *)
(*                                                                         *)
(* A node presents the binding token of its own machine, so a node and its *)
(* machine are one.  Configs are numbered by the edit that produced them;  *)
(* 0 is none.                                                              *)
(***************************************************************************)
EXTENDS Integers, FiniteSets

CONSTANTS Machines,    \* machine records, and the nodes that hold their tokens
          Matching,    \* machines whose managementAddress is the stream address
          PeerHandlers,    \* goroutines started by emit
          MaxChanges,  \* bound on config edits, spec updates and deletions
          MaxPeers     \* bound on the peer events

ASSUME ConvergeAssumption ==
  /\ Machines # {}
  /\ MaxChanges \in Nat /\ MaxPeers \in Nat

VARIABLES link,      \* nodes that are provisioned and have not detached
          desired,   \* the config the renderer produces, per machine
          nodeCfg,   \* the config a node runs; 0 in maintenance mode
          mrow,      \* the machine rows: live, version, connected, current, stage
          addrs,     \* Engine.addrs: machines that have an address
          handler,   \* the goroutines
          changes, peers,
          muddled,   \* history: machines two of whose handlers have overlapped
          refused,   \* history: machines a versioned write of whose flag was refused
          gaveUp,    \* history: machines whose last delivery ran out of budget
          rendered   \* history: config the last connect found when it began

convergeVars == <<link, desired, nodeCfg, mrow, addrs, handler, changes, peers,
                  muddled, refused, gaveUp, rendered>>

IdleHandler == [pc |-> "idle", kind |-> "none", m |-> CHOOSE m \in Machines : TRUE,
                ver |-> 0, cfg |-> 0, stage |-> "none"]

ConvergeInit ==
  /\ link = {}
  /\ desired = [m \in Machines |-> 1]
  /\ nodeCfg = [m \in Machines |-> 0]
  /\ mrow = [m \in Machines |-> [live |-> TRUE, ver |-> 1, connected |-> FALSE,
                                 current |-> FALSE, stage |-> "configuring"]]
  /\ addrs = {}
  /\ handler = [h \in PeerHandlers |-> IdleHandler]
  /\ changes = 0
  /\ peers = 0
  /\ muddled = {}
  /\ refused = {}
  /\ gaveUp = {}
  /\ rendered = [m \in Machines |-> 0]

HandlersOf(m) == {h \in PeerHandlers : handler[h].pc # "idle" /\ handler[h].m = m}

\* emit: a goroutine per event.  Overlap is remembered until the machine is quiet
\* when an event comes.
emit(h, kind, m) ==
  /\ handler[h].pc = "idle"
  /\ peers < MaxPeers
  /\ peers' = peers + 1
  /\ handler' = [handler EXCEPT ![h] = [IdleHandler EXCEPT !.pc = "event", !.kind = kind, !.m = m]]
  /\ muddled' = IF HandlersOf(m) # {} THEN muddled \cup {m} ELSE muddled \ {m}

\* Provision: the token names a record that is not being deleted
\* (SetTokenAcceptor, FindMachineByBindingToken).  A node provisions again
\* whenever it likes.
Provision(h, m) ==
  /\ mrow[m].live
  /\ emit(h, "connected", m)
  /\ link' = link \cup {m}
  /\ rendered' = [rendered EXCEPT ![m] = desired[m]]
  /\ refused' = refused \ {m}
  /\ gaveUp' = gaveUp \ {m}
  /\ UNCHANGED <<desired, nodeCfg, mrow, addrs, changes>>

\* The end of a node's stream; a node without a tunnel stream has no such event.
Detach(h, m) ==
  /\ m \in link
  /\ emit(h, "disconnected", m)
  /\ link' = link \ {m}
  /\ refused' = refused \ {m}
  /\ UNCHANGED <<desired, nodeCfg, mrow, addrs, changes, gaveUp, rendered>>

-----------------------------------------------------------------------------
(* onPeer for a connect: resolve, remember the address, set the flag. *)

resolveMachine(h) ==
  LET m == handler[h].m IN
  /\ handler[h].pc = "event"
  /\ handler[h].kind = "connected"
  /\ IF mrow[m].live
     THEN /\ addrs' = addrs \cup {m}
          /\ handler' = [handler EXCEPT ![h].pc = "flag"]
     ELSE /\ handler' = [handler EXCEPT ![h] = IdleHandler]
          /\ UNCHANGED addrs
  /\ UNCHANGED <<link, desired, nodeCfg, mrow, changes, peers, muddled, refused, gaveUp, rendered>>

FirstConnected(h) ==
  LET found == {m \in Machines : mrow[m].live /\ mrow[m].connected} IN
  /\ handler[h].pc = "event"
  /\ handler[h].kind = "disconnected"
  /\ IF found # {}
     THEN handler' = [handler EXCEPT ![h].pc = "flag", ![h].m = CHOOSE m \in found : TRUE]
     ELSE handler' = [handler EXCEPT ![h] = IdleHandler]
  /\ UNCHANGED <<link, desired, nodeCfg, mrow, addrs, changes, peers, muddled, refused, gaveUp, rendered>>

\* markDisconnected looks the stream address up among the management addresses
\* of the machines that are flagged; nothing else ends.
markDisconnected(h) ==
  LET m == handler[h].m IN
  /\ handler[h].pc = "event"
  /\ handler[h].kind = "disconnected"
  /\ IF m \in Matching /\ mrow[m].live /\ mrow[m].connected
     THEN handler' = [handler EXCEPT ![h].pc = "flag"]
     ELSE handler' = [handler EXCEPT ![h] = IdleHandler]
  /\ UNCHANGED <<link, desired, nodeCfg, mrow, addrs, changes, peers, muddled, refused, gaveUp, rendered>>

\* setConnected reads the row, changes the flag in its copy and writes the copy
\* back at the version it read; a refusal is only logged.
setConnectedRead(h) ==
  /\ handler[h].pc = "flag"
  /\ handler' = [handler EXCEPT ![h].pc = "store", ![h].ver = mrow[handler[h].m].ver]
  /\ UNCHANGED <<link, desired, nodeCfg, mrow, addrs, changes, peers, muddled, refused, gaveUp, rendered>>

setConnected(h) ==
  LET m == handler[h].m IN
  /\ handler[h].pc = "store"
  /\ IF mrow[m].ver = handler[h].ver
     THEN /\ mrow' = [mrow EXCEPT ![m].connected = (handler[h].kind = "connected"), ![m].ver = @ + 1]
          /\ UNCHANGED refused
     ELSE /\ refused' = refused \cup {m}
          /\ UNCHANGED mrow
  /\ handler' = [handler EXCEPT ![h] =
                   IF @.kind = "connected" THEN [@ EXCEPT !.pc = "converge"] ELSE IdleHandler]
  /\ UNCHANGED <<link, desired, nodeCfg, addrs, changes, peers, muddled, gaveUp, rendered>>

-----------------------------------------------------------------------------
(* convergeWithRetry: render, deliver, mark; any failure starts over until   *)
(* the budget is spent.                                                      *)

converge(h) ==
  /\ handler[h].pc = "converge"
  /\ handler' = [handler EXCEPT ![h].pc = "deliver", ![h].cfg = desired[handler[h].m]]
  /\ UNCHANGED <<link, desired, nodeCfg, mrow, addrs, changes, peers, muddled, refused, gaveUp, rendered>>

\* The maintenance API first, then the authenticated one with a certificate
\* made from the tenant's bundle: whichever the node serves accepts the config.
Deliver(h) ==
  /\ handler[h].pc = "deliver"
  /\ handler[h].m \in link
  /\ nodeCfg' = [nodeCfg EXCEPT ![handler[h].m] = handler[h].cfg]
  /\ handler' = [handler EXCEPT ![h].pc = "mark"]
  /\ UNCHANGED <<link, desired, mrow, addrs, changes, peers, muddled, refused, gaveUp, rendered>>

\* A failed attempt, in which the node may have taken the config all the same
\* (a timeout): the loop renders again, or gives up.
convergeWithRetry(h) ==
  /\ handler[h].pc \in {"converge", "deliver"}
  /\ \/ /\ handler' = [handler EXCEPT ![h].pc = "converge"]
        /\ UNCHANGED gaveUp
     \/ /\ handler' = [handler EXCEPT ![h] = IdleHandler]
        /\ gaveUp' = gaveUp \cup {handler[h].m}
  /\ \/ UNCHANGED nodeCfg
     \/ /\ handler[h].pc = "deliver" /\ handler[h].m \in link
        /\ nodeCfg' = [nodeCfg EXCEPT ![handler[h].m] = handler[h].cfg]
  /\ UNCHANGED <<link, desired, mrow, addrs, changes, peers, muddled, refused, rendered>>

MarkFirst(h) ==
  /\ handler[h].pc \in {"deliver", "mark"}
  /\ handler' = [handler EXCEPT ![h].pc = "marking", ![h].stage = mrow[handler[h].m].stage]
  /\ UNCHANGED <<link, desired, nodeCfg, mrow, addrs, changes, peers, muddled, refused, gaveUp, rendered>>

\* markConverged: a status read, changed and written back without a version.
markConvergedRead(h) ==
  /\ handler[h].pc = "mark"
  /\ handler' = [handler EXCEPT ![h].pc = "marking", ![h].stage = mrow[handler[h].m].stage]
  /\ UNCHANGED <<link, desired, nodeCfg, mrow, addrs, changes, peers, muddled, refused, gaveUp, rendered>>

markConverged(h) ==
  LET m == handler[h].m IN
  /\ handler[h].pc = "marking"
  /\ mrow' = [mrow EXCEPT ![m].current = TRUE,
                          ![m].stage = IF handler[h].stage = "configuring" THEN "ready" ELSE handler[h].stage]
  /\ handler' = [handler EXCEPT ![h] = IdleHandler]
  /\ UNCHANGED <<link, desired, nodeCfg, addrs, changes, peers, muddled, refused, gaveUp, rendered>>

-----------------------------------------------------------------------------
(* The rest of the platform. *)

\* A patch, a node group or a tenant changes what the renderer produces.
\* Nobody calls ConvergeMachine, so nothing else happens.
ConfigEdited(m) ==
  /\ changes < MaxChanges
  /\ changes' = changes + 1
  /\ desired' = [desired EXCEPT ![m] = @ + 1]
  /\ UNCHANGED <<link, nodeCfg, mrow, addrs, handler, peers, muddled, refused, gaveUp, rendered>>

\* The store enricher rewrites the spec of a row.
SpecUpdated(m) ==
  /\ changes < MaxChanges
  /\ changes' = changes + 1
  /\ mrow' = [mrow EXCEPT ![m].ver = @ + 1]
  /\ UNCHANGED <<link, desired, nodeCfg, addrs, handler, peers, muddled, refused, gaveUp, rendered>>

\* PUT .../machines/{id}/status replaces the status; agents know no stage ready
\* and nothing of configUpToDate.
UpdateMachineStage(m) ==
  /\ changes < MaxChanges
  /\ changes' = changes + 1
  /\ mrow' = [mrow EXCEPT ![m].stage = "other", ![m].current = FALSE]
  /\ UNCHANGED <<link, desired, nodeCfg, addrs, handler, peers, muddled, refused, gaveUp, rendered>>

\* DELETE of a machine sets its deletion timestamp: the row can still be read
\* by name, but it is in no list any more.
DeleteMachine(m) ==
  /\ changes < MaxChanges
  /\ mrow[m].live
  /\ changes' = changes + 1
  /\ mrow' = [mrow EXCEPT ![m].live = FALSE]
  /\ UNCHANGED <<link, desired, nodeCfg, addrs, handler, peers, muddled, refused, gaveUp, rendered>>

\* What onPeer does before it converges.
onPeer(h) ==
  resolveMachine(h) \/ markDisconnected(h) \/ setConnectedRead(h) \/ setConnected(h)

ConvergeNext ==
  \/ \E h \in PeerHandlers, m \in Machines : Provision(h, m) \/ Detach(h, m)
  \/ \E h \in PeerHandlers :
       \/ onPeer(h)
       \/ converge(h) \/ Deliver(h) \/ convergeWithRetry(h) \/ markConvergedRead(h) \/ markConverged(h)
  \/ \E m \in Machines : ConfigEdited(m) \/ SpecUpdated(m) \/ UpdateMachineStage(m) \/ DeleteMachine(m)

ConvergeSpec == ConvergeInit /\ [][ConvergeNext]_convergeVars

-----------------------------------------------------------------------------

Stages == {"configuring", "ready", "other"}
MachineRow == [live : BOOLEAN, ver : Nat, connected : BOOLEAN, current : BOOLEAN,
               stage : Stages]
HandlerPcs == {"idle", "event", "flag", "store", "converge", "deliver", "mark", "marking"}
HandlerState == [pc : HandlerPcs, kind : {"none", "connected", "disconnected"},
                 m : Machines, ver : Nat, cfg : Nat, stage : Stages \cup {"none"}]

ConvergeTypeOK ==
  /\ link \subseteq Machines
  /\ desired \in [Machines -> Nat \ {0}]
  /\ nodeCfg \in [Machines -> Nat]
  /\ mrow \in [Machines -> MachineRow]
  /\ addrs \subseteq Machines
  /\ handler \in [PeerHandlers -> HandlerState]
  /\ changes \in 0..MaxChanges
  /\ peers \in 0..MaxPeers
  /\ muddled \subseteq Machines
  /\ refused \subseteq Machines
  /\ gaveUp \subseteq Machines
  /\ rendered \in [Machines -> Nat]

(***************************************************************************)
(* The connected flag of a machine is right once its peer events have been *)
(* handled, if they did not overlap, no write of the flag was refused, the *)
(* record is not being deleted, and its management address is the address  *)
(* of its stream.  Without the last a flag once set stays (onPeer,         *)
(* setConnected, markDisconnected).                                        *)
(***************************************************************************)
FlagFollowsLink ==
  \A m \in Machines :
    (HandlersOf(m) = {} /\ m \notin muddled \cup refused /\ mrow[m].live) =>
      /\ m \in Matching => (mrow[m].connected <=> m \in link)
      /\ m \in link => mrow[m].connected

(***************************************************************************)
(* configUpToDate means that a config was delivered, and one rendered no   *)
(* earlier than the node's last connect.  The exceptions: what was edited  *)
(* since is not noticed, a delivery that ran out of its budget leaves the  *)
(* flag of the one before, and an overlapping delivery may bring an older  *)
(* config (converge, markConverged).                                       *)
(***************************************************************************)
CurrentMeansDelivered ==
  \A m \in Machines : mrow[m].current =>
    /\ nodeCfg[m] # 0
    /\ (HandlersOf(m) = {} /\ m \in link /\ mrow[m].live /\ m \notin muddled \cup gaveUp)
         => nodeCfg[m] >= rendered[m]

-----------------------------------------------------------------------------
(***************************************************************************)
(* What makes the two invariants inductive.  A handler goes as far as its  *)
(* kind of event allows, and what it is about to mark has been delivered.  *)
(***************************************************************************)
Converging == {"converge", "deliver", "mark", "marking"}

HandlerInv ==
  \A h \in PeerHandlers :
    /\ handler[h].pc # "idle" => handler[h].kind # "none"
    /\ handler[h].pc \in Converging => handler[h].kind = "connected"
    /\ handler[h].pc = "deliver" => handler[h].cfg # 0
    /\ handler[h].pc \in {"mark", "marking"} => nodeCfg[handler[h].m] # 0
    /\ handler[h].pc = "marking" => handler[h].stage \in Stages

\* A machine whose handlers have not overlapped has at most one, and it
\* handles the event that made the link what it is.
AloneInv ==
  \A h \in PeerHandlers :
    (handler[h].pc # "idle" /\ handler[h].m \notin muddled) =>
      /\ \A g \in HandlersOf(handler[h].m) : g = h
      /\ handler[h].kind = "connected" <=> handler[h].m \in link

\* The flag is set before the config is rendered, and stays set.
FlagInv ==
  /\ \A h \in PeerHandlers :
       (handler[h].pc \in Converging /\ handler[h].m \notin muddled \cup refused)
         => mrow[handler[h].m].connected
  /\ FlagFollowsLink

\* Configs only get newer: what a lone handler delivers was rendered after its
\* connect, and the node still runs it when the handler has ended.
DeliveredInv ==
  /\ \A m \in Machines : rendered[m] <= desired[m]
  /\ \A m \in Machines : mrow[m].current => nodeCfg[m] # 0
  /\ \A h \in PeerHandlers : handler[h].m \notin muddled =>
       /\ handler[h].pc = "deliver" => handler[h].cfg >= rendered[handler[h].m]
       /\ handler[h].pc \in {"mark", "marking"}
            => nodeCfg[handler[h].m] >= rendered[handler[h].m]
  /\ \A m \in Machines :
       (HandlersOf(m) = {} /\ m \in link /\ mrow[m].live /\ m \notin muddled \cup gaveUp)
         => nodeCfg[m] >= rendered[m]

ConvergeInv == ConvergeTypeOK /\ HandlerInv /\ AloneInv /\ FlagInv /\ DeliveredInv
=============================================================================
