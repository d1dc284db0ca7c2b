-------------------------- MODULE ServiceReconcile --------------------------
(***************************************************************************)
(* Reconciling one service instance (internal/proxy/                        *)
(* service_reconcile_worker.go, admin_k8s_service_reconcile.go and the      *)
(* lease in internal/store/k8s_services.go).                                *)
(*                                                                          *)
(* The workers of the replicas, and requests of operators, read the row of  *)
(* an instance, take a lease, read the inventory, and write components,     *)
(* health and the whole row back.  A worker has less time for this than the *)
(* lease lasts; a request has no deadline of its own.  The lease and the    *)
(* deadlines are modelled by the time they have left.                       *)
(***************************************************************************)
EXTENDS Naturals, FiniteSets

CONSTANTS
  Workers,      \* the replicas' workers; each keeps its owner id
  Requests,     \* operators' requests; each has an owner id of its own
  Timeout,      \* time a worker has for a reconcile
  Grace,        \* how much longer the lease lasts
  Pace,         \* how long reconciles may take, see Paces
  MaxInventory, \* bound: changes of the inventory
  MaxStops      \* bound: crashes, and releases that fail

(* Workers have a deadline of Timeout.  Requests end within Timeout too     *)
(* ("timely") or may take longer ("slow").                                  *)
Paces == {"timely", "slow"}

Actors == Workers \cup Requests
Nobody == "nobody"

(* What the lease's callers assume of its configuration. *)
ConstantsOK ==
  /\ Workers \cap Requests = {}
  /\ Nobody \notin Actors
  /\ {Timeout, Grace} \subseteq Nat \ {0}
  /\ Pace \in Paces
  /\ {MaxInventory, MaxStops} \subseteq Nat

Ttl == Timeout + Grace

VARIABLES
  inventory, \* how often the inventory changed, which decides the health
  fresh,     \* whether it was observed lately
  components, \* the inventory that the components were written from
  row,       \* the instance: its status, and the inventory its health shows
  lease,     \* k8s_service_reconcile_leases: the owner and the time left
  job,       \* actor -> what it does, with the row it read
  stops      \* bound used up

vars == <<inventory, fresh, components, row, lease, job, stops>>

Versions == 0..MaxInventory
Free == [owner |-> Nobody, left |-> 0]
Row == [status : Versions, seen : Versions]
Idle == [pc |-> "idle", in |-> [status |-> 0, seen |-> 0], seen |-> 0, ok |-> FALSE, left |-> 0]

(* Only workers start over; what a job read is not ahead of the inventory. *)
TypeOK ==
  /\ inventory \in Versions /\ fresh \in BOOLEAN /\ components \in 0..inventory
  /\ row \in Row /\ row.status <= inventory /\ row.seen <= inventory
  /\ lease.owner \in Actors \cup {Nobody, "gone"} /\ lease.left \in 0..Ttl
  /\ \A a \in Actors :
       /\ job[a].pc \in {"idle", "lease", "read", "components", "row", "release", "done"}
       /\ job[a].seen <= inventory /\ job[a].left <= Timeout
       /\ job[a].pc = "done" => a \in Requests
  /\ stops \in 0..MaxStops

Init ==
  /\ inventory = 0 /\ fresh = TRUE /\ components = 0 /\ stops = 0
  /\ row = [status |-> 0, seen |-> 0]
  /\ lease = Free
  /\ job = [a \in Actors |-> Idle]

(* A worker past its deadline gets nothing done any more. *)
CanWork(a) == a \in Workers => job[a].left > 0

Ended(a) == IF a \in Workers THEN Idle ELSE [Idle EXCEPT !.pc = "done"]

-----------------------------------------------------------------------------
(* The inventory is collected and differs, or is not collected for long. *)
Collect ==
  /\ inventory < MaxInventory
  /\ inventory' = inventory + 1 /\ fresh' = TRUE
  /\ UNCHANGED <<components, row, lease, job, stops>>

GoStale ==
  /\ fresh /\ fresh' = FALSE
  /\ UNCHANGED <<inventory, components, row, lease, job, stops>>

Holding(a) == job[a].pc \in {"read", "components", "row"}
Less(n) == IF n = 0 THEN 0 ELSE n - 1

Tick ==
  /\ \A a \in Requests : Holding(a) => Pace = "slow" \/ job[a].left > 0
  /\ \E a \in Actors : job[a].left > 0 \/ lease.left > 0
  /\ lease' = [lease EXCEPT !.left = Less(@)]
  /\ job' = [a \in Actors |-> [job[a] EXCEPT !.left = Less(@)]]
  /\ UNCHANGED <<inventory, fresh, components, row, stops>>

-----------------------------------------------------------------------------
(* The row is read: by a batch for all its instances before the first of    *)
(* them, by a request before it asks for the lease.                         *)
Load(a) ==
  /\ job[a].pc = "idle"
  /\ job' = [job EXCEPT ![a].pc = "lease", ![a].in = row]
  /\ UNCHANGED <<inventory, fresh, components, row, lease, stops>>

\* Mutant: a lease is taken over a grace too early.
AcquireEarly(a) ==
  /\ job[a].pc = "lease"
  /\ IF lease.owner \in {Nobody, a} \/ lease.left <= Grace
     THEN /\ lease' = [owner |-> a, left |-> Ttl]
          /\ job' = [job EXCEPT ![a].pc = "read", ![a].left = Timeout]
     ELSE job' = [job EXCEPT ![a] = Ended(a)] /\ UNCHANGED lease
  /\ UNCHANGED <<inventory, fresh, components, row, stops>>

(* TryAcquireK8sServiceReconcileLease: a free, expired or own lease is      *)
(* taken; otherwise the instance is left to its holder.                     *)
Acquire(a) ==
  /\ job[a].pc = "lease"
  /\ IF lease.owner \in {Nobody, a} \/ lease.left = 0
     THEN /\ lease' = [owner |-> a, left |-> Ttl]
          /\ job' = [job EXCEPT ![a].pc = "read", ![a].left = Timeout]
     ELSE job' = [job EXCEPT ![a] = Ended(a)] /\ UNCHANGED lease
  /\ UNCHANGED <<inventory, fresh, components, row, stops>>

(* reconcileServiceInstance reads the inventory and evaluates the health. *)
ReadInventory(a) ==
  /\ job[a].pc = "read" /\ CanWork(a)
  /\ job' = [job EXCEPT ![a].pc = "components", ![a].seen = inventory, ![a].ok = fresh]
  /\ UNCHANGED <<inventory, fresh, components, row, lease, stops>>

(* The components and endpoints are replaced. *)
WriteComponents(a) ==
  /\ job[a].pc = "components" /\ CanWork(a)
  /\ components' = job[a].seen
  /\ job' = [job EXCEPT ![a].pc = "row"]
  /\ UNCHANGED <<inventory, fresh, row, lease, stops>>

(* The snapshot, then the row as it was read with the new health; its       *)
(* status changes only when the inventory was fresh.                        *)
WriteRow(a) ==
  /\ job[a].pc = "row" /\ CanWork(a)
  /\ row' = [status |-> IF job[a].ok THEN job[a].seen ELSE job[a].in.status, seen |-> job[a].seen]
  /\ job' = [job EXCEPT ![a].pc = "release"]
  /\ UNCHANGED <<inventory, fresh, components, lease, stops>>

(* A statement fails, or the deadline passes. *)
GiveUp(a) ==
  /\ Holding(a)
  /\ \/ a \in Workers /\ job[a].left = 0 /\ UNCHANGED stops
     \/ stops < MaxStops /\ stops' = stops + 1
  /\ job' = [job EXCEPT ![a].pc = "release"]
  /\ UNCHANGED <<inventory, fresh, components, row, lease>>

(* ReleaseK8sServiceReconcileLease removes the actor's own lease; an error  *)
(* is dropped.                                                              *)
Release(a) ==
  /\ job[a].pc = "release"
  /\ \/ lease' = (IF lease.owner = a THEN Free ELSE lease) /\ UNCHANGED stops
     \/ stops < MaxStops /\ stops' = stops + 1 /\ UNCHANGED lease
  /\ job' = [job EXCEPT ![a] = Ended(a)]
  /\ UNCHANGED <<inventory, fresh, components, row>>

(* The process ends and comes back under a new name; its lease stays. *)
Crash(a) ==
  /\ job[a].pc \notin {"idle", "done"} /\ stops < MaxStops
  /\ stops' = stops + 1
  /\ job' = [job EXCEPT ![a] = Ended(a)]
  /\ lease' = IF lease.owner = a THEN [lease EXCEPT !.owner = "gone"] ELSE lease
  /\ UNCHANGED <<inventory, fresh, components, row>>

-----------------------------------------------------------------------------
Work(a) ==
  \/ Load(a) \/ Acquire(a) \/ ReadInventory(a) \/ WriteComponents(a)
  \/ WriteRow(a) \/ GiveUp(a) \/ Release(a)

Next ==
  \/ Collect \/ GoStale \/ Tick
  \/ \E a \in Actors : Work(a) \/ Crash(a)

Spec == Init /\ [][Next]_vars

-----------------------------------------------------------------------------
(* Properties *)

(* k8s_services.go:629: no two actors reconcile the instance at once.       *)
OneReconciler ==
  \A a, b \in Actors :
    Holding(a) /\ CanWork(a) /\ Holding(b) /\ CanWork(b) => a = b

(* service_reconcile_worker.go:92: the health of the row is never ahead of  *)
(* the components, whoever wrote them.                                      *)
HealthHasComponents == row.seen <= components

(* The service's state keeps its type; no two actors reconcile an instance  *)
(* at once (store/k8s_services.go:629); and the health of the row is never  *)
(* ahead of the components it was computed from.                            *)
ServiceInv == TypeOK /\ OneReconciler /\ HealthHasComponents
=============================================================================
