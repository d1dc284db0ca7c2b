------------------------------- MODULE MCClaims -------------------------------
(***************************************************************************)
(* Exec sessions and the reconciling of service instances, two users of a  *)
(* claim that outlives its holder, in one run of TLC.  They share no       *)
(* state; part says which one moves while the others stay in their initial *)
(* state.                                                                  *)
(***************************************************************************)
EXTENDS TerminalSession

CONSTANTS
    Workers,          \* the replicas' workers that reconcile services
    Requests,         \* operators' requests to reconcile
    ServiceTimeout,   \* time a worker has for a reconcile
    ServiceGrace,     \* how much longer its lease lasts
    MaxInventory,     \* bound: changes of the inventory
    MaxStops          \* bound: crashes of reconciles, failing releases

VARIABLES part, inventory, fresh, components, instance, lease, job, stops

\* One instance; requests are as quick as the workers have to be.
Service ==
    INSTANCE ServiceReconcile WITH
        Timeout <- ServiceTimeout, Grace <- ServiceGrace, Pace <- "timely",
        row <- instance

ASSUME ServiceAssumption == Service!ConstantsOK

serviceVars == <<inventory, fresh, components, instance, lease, job, stops>>
all == <<vars, part, serviceVars>>

MCInit == part \in {"session", "service"} /\ Init /\ Service!Init

MCNext ==
    \/ part = "session" /\ Next /\ UNCHANGED <<part, serviceVars>>
    \/ part = "service" /\ Service!Next /\ UNCHANGED <<part, vars>>

(***************************************************************************)
(* The reapers' worker loops go on, requests are served, time passes.      *)
(* Nobody has to ask for, decide on or connect a session.                  *)
(***************************************************************************)
SessionFairness ==
    /\ \A p \in Transports : WF_vars(part = "session" /\ Proceed(p))
    /\ \A k \in Reapers : WF_vars(part = "session" /\ Reap(k))
    /\ WF_vars(part = "session" /\ Tick)

MCSpec == MCInit /\ [][MCNext]_all /\ SessionFairness

-----------------------------------------------------------------------------
(***************************************************************************)
(* The service's state keeps its type; no two actors reconcile an instance *)
(* at once (store/k8s_services.go:629); and the health of the row is never *)
(* ahead of the components it was computed from.                           *)
(***************************************************************************)
ServiceInv == Service!ServiceInv
=============================================================================
