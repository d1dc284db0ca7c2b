-------------------------- MODULE RolloutLifecycle --------------------------
(***************************************************************************)
(* What the rollout subsystem promises, without ledgers, workers, leases   *)
(* or clocks: a rollout is requested, refused or started, judged once, and *)
(* perhaps restored once; its restart is sent at most once; and a target   *)
(* belongs to one rollout at a time until that rollout is over.            *)
(***************************************************************************)
CONSTANTS
    Rollouts,   \* rollouts
    Targets,    \* what they restart
    NoTarget    \* the target of a rollout nobody has requested

VARIABLES
    phase,      \* how far each rollout has come
    target,     \* what each rollout restarts
    sent        \* whether its restart was sent

vars == <<phase, target, sent>>

Holding == {"waiting", "driving", "restoring"}

Init ==
    /\ phase = [r \in Rollouts |-> "none"]
    /\ target = [r \in Rollouts |-> NoTarget]
    /\ sent = [r \in Rollouts |-> FALSE]

Move(r, from, to) == phase[r] = from /\ phase' = [phase EXCEPT ![r] = to]

Request(r, t) ==
    /\ \A q \in Rollouts : target[q] = t => phase[q] \notin Holding
    /\ Move(r, "none", "waiting")
    /\ target' = [target EXCEPT ![r] = t]
    /\ UNCHANGED sent

Advance(r) ==
    /\ \/ Move(r, "waiting", "refused")
       \/ Move(r, "waiting", "driving")
       \/ Move(r, "driving", "over")
       \/ Move(r, "driving", "restoring")
       \/ Move(r, "restoring", "over")
    /\ UNCHANGED <<target, sent>>

\* The patch of a rollout that is given up for late may still be under way.
Send(r) ==
    /\ phase[r] \in {"driving", "restoring", "over"}
    /\ ~sent[r]
    /\ sent' = [sent EXCEPT ![r] = TRUE]
    /\ UNCHANGED <<phase, target>>

Next ==
    \E r \in Rollouts :
        \/ \E t \in Targets : Request(r, t)
        \/ Advance(r)
        \/ Send(r)

Spec == Init /\ [][Next]_vars
=============================================================================
