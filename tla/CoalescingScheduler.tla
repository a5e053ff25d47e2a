------------------------ MODULE CoalescingScheduler ------------------------
(***************************************************************************)
(* What the apply queue promises to the rest of the management plane,      *)
(* with no goroutines, maps or channels in it: a call adds a request to    *)
(* the backlog of its tenant, requests may be merged as long as one        *)
(* remains, and one reconciliation of a tenant runs at a time, each paid   *)
(* for by a request.  Dropping the last request is a step of its own, so   *)
(* that a specification that implements this one shows where it happens.   *)
(***************************************************************************)
EXTENDS Naturals

CONSTANTS Tenants, Procs, NoTenant

VARIABLES
  asking,   \* asking[p]: the tenant p's current call is about, or NoTenant
  backlog,  \* backlog[t]: requests for t not yet turned into a run
  running   \* the tenants that are being reconciled

schedVars == <<asking, backlog, running>>

Init ==
  /\ asking = [p \in Procs |-> NoTenant]
  /\ backlog = [t \in Tenants |-> 0]
  /\ running = {}

\* p asks for a reconciliation of t.
Request(p, t) ==
  /\ asking[p] = NoTenant
  /\ asking' = [asking EXCEPT ![p] = t]
  /\ backlog' = [backlog EXCEPT ![t] = @ + 1]
  /\ UNCHANGED running

\* One request fewer: merged into another one, or the last one lost.
Merge(t) == backlog[t] > 1 /\ backlog' = [backlog EXCEPT ![t] = @ - 1]
Lose(t)  == backlog[t] = 1 /\ backlog' = [backlog EXCEPT ![t] = 0]

\* p's call returns; its request stands, is merged or is lost.
Return(p) ==
  /\ asking[p] # NoTenant
  /\ asking' = [asking EXCEPT ![p] = NoTenant]
  /\ UNCHANGED backlog \/ Merge(asking[p]) \/ Lose(asking[p])
  /\ UNCHANGED running

\* The scheduler itself drops a request.
Drop(t) ==
  /\ Merge(t) \/ Lose(t)
  /\ UNCHANGED <<asking, running>>

\* A run starts: it uses up one request, and only if none is under way.
Begin(t) ==
  /\ t \notin running
  /\ backlog[t] > 0
  /\ backlog' = [backlog EXCEPT ![t] = @ - 1]
  /\ running' = running \union {t}
  /\ UNCHANGED asking

Finish(t) ==
  /\ t \in running
  /\ running' = running \ {t}
  /\ UNCHANGED <<asking, backlog>>

Next ==
  \/ \E p \in Procs : Return(p) \/ \E t \in Tenants : Request(p, t)
  \/ \E t \in Tenants : Drop(t) \/ Begin(t) \/ Finish(t)

Spec == Init /\ [][Next]_schedVars
=============================================================================
