------------------------------ MODULE WatchBus ------------------------------
(***************************************************************************)
(* The watch bus: from a mutation of the store to the frames of a          *)
(* streaming response. The store publishes through MultiBus to the watch   *)
(* adapter and to the reconcile queue. The bus is the in-process LocalBus  *)
(* or the embedded NATS server, which main.go uses: there an event is      *)
(* encoded, delivered later by a goroutine of the subscription, and        *)
(* decoded into maps.                                                      *)
(***************************************************************************)
EXTENDS Integers, Sequences, FiniteSets

CONSTANTS Watchers,     \* connections that watch
          Objects,      \* resources: records [type, tenant, name]
          Endpoints,    \* endpoints that are asked for
          BusKinds,     \* subset of {"nats", "local"}
          ChanSize,     \* capacity of a subscription's channel (64)
          MaxPublishes  \* bound on the mutations

ASSUME WatchBusAssumption ==
    /\ ChanSize \in Nat \ {0} /\ MaxPublishes \in Nat
    /\ BusKinds \subseteq {"nats", "local"}
    /\ \A e \in Endpoints :
         e.at \in {"tenants", "machines", "scoped", "machine", "cluster", "stream"}

VARIABLES objects,   \* version of every resource, 0 when it does not exist
          kind,      \* which bus is wired
          watch,     \* every connection: endpoint and phase
          wire,      \* messages on their way to a subscription
          callback,  \* the message a subscription's callback has decoded
          channel,   \* the buffered channel of a subscription
          open,      \* subscriptions whose channel is open
          view,      \* what the client of a connection has been told
          since,     \* resources changed since the connection subscribed
          missed,    \* connections that lost an event to a full channel
          panicked,  \* connections whose callback sent on a closed channel
          enqueued,  \* tenants handed to the apply queue
          published  \* mutations so far

watchBusVars == <<objects, kind, watch, wire, callback, channel, open, view, since,
                  missed, panicked, enqueued, published>>

Types == {o.type : o \in Objects}
Subs == Watchers \X Types
NoEvent == [object |-> [type |-> "", tenant |-> "", name |-> ""],
            version |-> 0, form |-> ""]
NoEndpoint == [at |-> "none", of |-> ""]

(* The resource types an endpoint subscribes to: the tenant list, the      *)
(* machine list, a list under a tenant (node groups, machines, patches),   *)
(* the cluster page (ClusterEvents), a machine page (MachineEvents) and    *)
(* the dashboard (EventsStream).                                           *)
Subscribed(endpoint) ==
    CASE endpoint.at = "tenants" -> {"tenant"} \cap Types
      [] endpoint.at \in {"machines", "scoped", "machine"} -> {"machine"} \cap Types
      [] endpoint.at = "cluster" -> {"tenant", "machine"} \cap Types
      [] endpoint.at = "stream" -> Types

(* The tests on an event's object. TenantFilter and ClusterEvents look for *)
(* a state.Metadata struct, which only LocalBus delivers: without one the  *)
(* filter drops the event and the cluster page keeps it. MachineEvents     *)
(* looks for maps, which only NATS delivers.                               *)
TenantFilter(endpoint, e) == e.form = "struct" /\ e.object.tenant = endpoint.of

ClusterEvents(endpoint, e) ==
    e.form = "struct" =>
        endpoint.of = IF e.object.type = "tenant" THEN e.object.name ELSE e.object.tenant

MachineEvents(endpoint, e) == e.form = "map" /\ e.object.name = endpoint.of

EventsStream(endpoint, e) == TRUE

Keeps(endpoint, e) ==
    CASE endpoint.at = "scoped" -> TenantFilter(endpoint, e)
      [] endpoint.at = "cluster" -> ClusterEvents(endpoint, e)
      [] endpoint.at = "machine" -> MachineEvents(endpoint, e)
      [] OTHER -> EventsStream(endpoint, e)

(* A subscription that is only made once the snapshot has been sent.       *)
ActiveLate(s) == watch[s[1]].phase \in {"live", "cancelling"}
                    /\ s[2] \in Subscribed(watch[s[1]].endpoint)

(* The subscriptions the bus knows: from Subscribe until the goroutine of  *)
(* the cancel function has run.                                            *)
Active(s) == watch[s[1]].phase \in {"subscribed", "listing", "live", "cancelling"}
                /\ s[2] \in Subscribed(watch[s[1]].endpoint)

(* select { case ch <- event: default: }                                   *)
Offer(s, e) ==
    IF Len(channel[s]) < ChanSize THEN Append(channel[s], e) ELSE channel[s]
Full(s) == Len(channel[s]) >= ChanSize

-----------------------------------------------------------------------------
(* Adapter.Publish and LocalBus.Publish or NATSBus.Publish; EnqueueBus     *)
(* hands the tenant to the queue unless only the status changed.           *)
tenantOf(o) == IF o.type = "tenant" THEN o.name ELSE o.tenant

Publish(o) ==
    /\ published < MaxPublishes
    /\ published' = published + 1
    /\ \E v \in {0, published + 1} :
        /\ v # objects[o]
        /\ objects' = [objects EXCEPT ![o] = v]
        /\ LET hit == {s \in Subs : Active(s) /\ s[2] = o.type}
               e == [object |-> o, version |-> v,
                     form |-> IF kind = "nats" THEN "map" ELSE "struct"]
           IN /\ since' = [w \in Watchers |->
                    IF <<w, o.type>> \in hit THEN since[w] \cup {o} ELSE since[w]]
              /\ IF kind = "nats"
                 THEN /\ wire' = [s \in Subs |-> IF s \in hit THEN Append(wire[s], e) ELSE wire[s]]
                      /\ UNCHANGED <<channel, missed>>
                 ELSE /\ channel' = [s \in Subs |-> IF s \in hit THEN Offer(s, e) ELSE channel[s]]
                      /\ missed' = missed \cup {w \in Watchers :
                            <<w, o.type>> \in hit /\ Full(<<w, o.type>>)}
                      /\ UNCHANGED wire
    /\ \E status \in BOOLEAN :
         enqueued' = IF status THEN enqueued ELSE enqueued \cup {tenantOf(o)}
    /\ UNCHANGED <<kind, watch, callback, open, view, panicked>>

(* ServeWatch and the streaming pages subscribe first ...                  *)
Subscribe(w) ==
    /\ watch[w].phase = "off"
    /\ \E e \in Endpoints :
         /\ watch' = [watch EXCEPT ![w] = [endpoint |-> e, phase |-> "subscribed"]]
         /\ open' = open \cup {<<w, t>> : t \in Subscribed(e)}
    /\ UNCHANGED <<objects, kind, wire, callback, channel, view, since, missed, panicked,
                   enqueued, published>>

(* ... then send the snapshot, which only the tenant list has, and only if *)
(* the list succeeds: it is best effort ...                                *)
InitialState(w) ==
    /\ watch[w].phase = "subscribed"
    /\ watch' = [watch EXCEPT ![w].phase = "listing"]
    /\ \/ /\ watch[w].endpoint.at = "tenants"
          /\ view' = [view EXCEPT ![w] = objects]
          /\ UNCHANGED missed
       \/ /\ watch[w].endpoint.at = "tenants"
          /\ missed' = missed \cup {w}
          /\ UNCHANGED view
       \/ watch[w].endpoint.at # "tenants" /\ UNCHANGED <<view, missed>>
    /\ UNCHANGED <<objects, kind, wire, callback, channel, open, since, panicked, enqueued,
                   published>>

(* ... whose frames are written before the first live one ...              *)
GoLive(w) ==
    /\ watch[w].phase = "listing"
    /\ watch' = [watch EXCEPT ![w].phase = "live"]
    /\ UNCHANGED <<objects, kind, wire, callback, channel, open, view, since, missed,
                   panicked, enqueued, published>>

(* ... and stream what arrives.                                            *)
ServeWatch(s) ==
    LET w == s[1]
        e == Head(channel[s]) IN
    /\ watch[w].phase = "live" /\ channel[s] # <<>>
    /\ channel' = [channel EXCEPT ![s] = Tail(@)]
    /\ view' = IF Keeps(watch[w].endpoint, e)
               THEN [view EXCEPT ![w][e.object] = e.version] ELSE view
    /\ UNCHANGED <<objects, kind, watch, wire, callback, open, since, missed, panicked,
                   enqueued, published>>

(* The subscription's goroutine: decode a message, then offer it. Offering *)
(* on a channel that was closed in between panics.                         *)
Deliver(s) ==
    /\ Active(s) /\ wire[s] # <<>> /\ callback[s] = NoEvent
    /\ callback' = [callback EXCEPT ![s] = Head(wire[s])]
    /\ wire' = [wire EXCEPT ![s] = Tail(@)]
    /\ UNCHANGED <<objects, kind, watch, channel, open, view, since, missed, panicked,
                   enqueued, published>>

Send(s) ==
    /\ callback[s] # NoEvent
    /\ callback' = [callback EXCEPT ![s] = NoEvent]
    /\ IF s \in open
       THEN /\ channel' = [channel EXCEPT ![s] = Offer(s, callback[s])]
            /\ missed' = IF Full(s) THEN missed \cup {s[1]} ELSE missed
            /\ UNCHANGED panicked
       ELSE panicked' = panicked \cup {s[1]} /\ UNCHANGED <<channel, missed>>
    /\ UNCHANGED <<objects, kind, watch, wire, open, view, since, enqueued, published>>

(* The client goes away; the goroutine behind cancel unsubscribes (a       *)
(* callback that has begun goes on) and, on NATS only, closes the channel. *)
Disconnect(w) ==
    /\ watch[w].phase = "live"
    /\ watch' = [watch EXCEPT ![w].phase = "cancelling"]
    /\ UNCHANGED <<objects, kind, wire, callback, channel, open, view, since, missed,
                   panicked, enqueued, published>>

Cancel(w) ==
    /\ watch[w].phase = "cancelling"
    /\ watch' = [watch EXCEPT ![w].phase = "gone"]
    /\ wire' = [s \in Subs |-> IF s[1] = w THEN <<>> ELSE wire[s]]
    /\ open' = IF kind = "nats" THEN {s \in open : s[1] # w} ELSE open
    /\ UNCHANGED <<objects, kind, callback, channel, view, since, missed, panicked,
                   enqueued, published>>

WatchBusInit ==
    /\ objects = [o \in Objects |-> 0]
    /\ kind \in BusKinds
    /\ watch = [w \in Watchers |-> [endpoint |-> NoEndpoint, phase |-> "off"]]
    /\ wire = [s \in Subs |-> <<>>]
    /\ callback = [s \in Subs |-> NoEvent]
    /\ channel = [s \in Subs |-> <<>>]
    /\ open = {}
    /\ view = [w \in Watchers |-> [o \in Objects |-> 0]]
    /\ since = [w \in Watchers |-> {}]
    /\ missed = {} /\ panicked = {} /\ enqueued = {} /\ published = 0

WatchBusNext ==
    \/ \E o \in Objects : Publish(o)
    \/ \E w \in Watchers : Subscribe(w) \/ InitialState(w) \/ GoLive(w) \/ Disconnect(w) \/ Cancel(w)
    \/ \E s \in Subs : ServeWatch(s) \/ Deliver(s) \/ Send(s)

WatchBusSpec == WatchBusInit /\ [][WatchBusNext]_watchBusVars

-----------------------------------------------------------------------------
Phases == {"off", "subscribed", "listing", "live", "cancelling", "gone"}
BusEvent == [object : Objects, version : 0..MaxPublishes, form : {"map", "struct"}]

WatchBusTypeOK ==
    /\ objects \in [Objects -> 0..MaxPublishes]
    /\ kind \in BusKinds
    /\ watch \in [Watchers -> [endpoint : Endpoints \cup {NoEndpoint}, phase : Phases]]
    /\ wire \in [Subs -> Seq(BusEvent)] /\ channel \in [Subs -> Seq(BusEvent)]
    /\ \A s \in Subs : Len(channel[s]) <= ChanSize /\ Len(wire[s]) <= published
    /\ callback \in [Subs -> BusEvent \cup {NoEvent}]
    /\ open \subseteq Subs
    /\ view \in [Watchers -> [Objects -> 0..MaxPublishes]]
    /\ since \in [Watchers -> SUBSET Objects]
    /\ missed \subseteq Watchers /\ panicked \subseteq Watchers
    /\ enqueued \subseteq {tenantOf(o) : o \in Objects}
    /\ published \in 0..MaxPublishes

Quiet(w) == \A t \in Types :
    LET s == <<w, t>> IN wire[s] = <<>> /\ callback[s] = NoEvent /\ channel[s] = <<>>
Follows(w) == watch[w].phase = "live" /\ Quiet(w) /\ w \notin missed

(* A client that watches the tenants knows them all, and one that watches  *)
(* machines knows every machine changed since it connected, as soon as     *)
(* nothing is under way to it: subscribing before listing leaves no gap,   *)
(* and a stale snapshot is overtaken by the events behind it. The one      *)
(* exception is an event dropped by a full channel, which nobody repairs.  *)
WatcherCatchesUp ==
    \A w \in Watchers : Follows(w) =>
        /\ watch[w].endpoint.at = "tenants" =>
            \A o \in Objects : o.type = "tenant" => view[w][o] = objects[o]
        /\ watch[w].endpoint.at \in {"machines", "stream"} =>
            \A o \in since[w] : view[w][o] = objects[o]

-----------------------------------------------------------------------------
(***************************************************************************)
(* What makes it inductive. On its way to a client an event is on the      *)
(* wire, in the callback, in the channel, in this order; what counts is    *)
(* the last event about an object, and the view when there is none.        *)
(***************************************************************************)
Mute(q, o) == \A i \in 1..Len(q) : q[i].object # o

LastSays(q, o, v) ==
    \E i \in 1..Len(q) :
        /\ q[i].object = o /\ q[i].version = v
        /\ \A j \in 1..Len(q) : j > i => q[j].object # o

Carries(c, o) == c # NoEvent /\ c.object = o

NothingAbout(s, o) ==
    Mute(wire[s], o) /\ ~Carries(callback[s], o) /\ Mute(channel[s], o)

Tells(w, s, o) ==
    \/ LastSays(wire[s], o, objects[o])
    \/ /\ Mute(wire[s], o)
       /\ Carries(callback[s], o) /\ callback[s].version = objects[o]
    \/ /\ Mute(wire[s], o) /\ ~Carries(callback[s], o)
       /\ LastSays(channel[s], o, objects[o])
    \/ NothingAbout(s, o) /\ view[w][o] = objects[o]

(***************************************************************************)
(* The plumbing: LocalBus uses neither wire nor callback, a subscription   *)
(* carries its type, nothing is under way before it or after it but the    *)
(* callback that has begun, and a connection hears of what it subscribed.  *)
(***************************************************************************)
BusInv ==
    /\ \A s \in Subs : kind = "local" => wire[s] = <<>> /\ callback[s] = NoEvent
    /\ \A s \in Subs :
         /\ \A i \in 1..Len(wire[s]) : wire[s][i].object.type = s[2]
         /\ callback[s] # NoEvent => callback[s].object.type = s[2]
         /\ \A i \in 1..Len(channel[s]) : channel[s][i].object.type = s[2]
    /\ \A w \in Watchers : watch[w].phase # "off" => watch[w].endpoint \in Endpoints
    /\ \A w \in Watchers : watch[w].phase = "off" => Quiet(w) /\ since[w] = {}
    /\ \A w \in Watchers : watch[w].phase # "off" =>
         \A o \in since[w] : o.type \in Subscribed(watch[w].endpoint)
    /\ \A s \in Subs : Active(s) => s \in open

(***************************************************************************)
(* A client that has lost nothing is told the current version of what has  *)
(* changed since it subscribed, and of every tenant once it has the list.  *)
(***************************************************************************)
Listens(w) ==
    /\ watch[w].phase \in {"subscribed", "listing", "live"}
    /\ watch[w].endpoint.at \in {"tenants", "machines", "stream"}
    /\ w \notin missed

Owes(w, o) ==
    \/ o \in since[w]
    \/ watch[w].endpoint.at = "tenants" /\ watch[w].phase # "subscribed"

ToldOK(w, o) ==
    /\ Owes(w, o) => Tells(w, <<w, o.type>>, o)
    /\ watch[w].phase = "subscribed" /\ o \notin since[w] => NothingAbout(<<w, o.type>>, o)

ToldInv ==
    \A w \in Watchers : Listens(w) =>
        \A o \in Objects : o.type \in Subscribed(watch[w].endpoint) => ToldOK(w, o)

WatchBusInv == WatchBusTypeOK /\ BusInv /\ ToldInv
=============================================================================
