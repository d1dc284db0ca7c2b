------------------------- MODULE TargetLockMigration -------------------------
(***************************************************************************)
(* The upgrade of the rollout target lock: replicas of this release start  *)
(* and build the unique index that also covers recovery, while replicas of *)
(* either release go on requesting, starting, judging and restoring        *)
(* rollouts.                                                               *)
(*                                                                         *)
(* Before the upgrade the first index frees a target as soon as its        *)
(* rollout is over, though its rollback is not, so one target may have     *)
(* several active rollouts; the migration keeps one of them.               *)
(*                                                                         *)
(* A step is one transaction.  What a process read before it does not      *)
(* matter: a compare-and-swap succeeds only on the row that was read.      *)
(***************************************************************************)
EXTENDS Naturals, RolloutJudge

CONSTANTS
    Rollouts,     \* rollouts, numbered by requested_at, which replicas take
                  \* from their own clocks, and id
    Uids,         \* UIDs of the workloads they restart
    NoUid,        \* the empty resource_uid, which nothing locks
    Replicas,     \* starting replicas of this release
    MaxAttempts,  \* attempts of one start
    MaxFaults     \* bound: failing attempts

ASSUME RolloutsAssumption == Rollouts \subseteq Nat
ASSUME LimitsAssumption == MaxAttempts \in Nat \ {0} /\ MaxFaults \in Nat

VARIABLES
    act,         \* k8s_action_requests.status of the rollout's action
    roll,        \* the k8s_rollout_actions row
    index,       \* idx_k8s_rollout_one_active_target_v2 exists
    mig,         \* each replica's migration
    superseded,  \* rollouts the migration gave up
    faults       \* failing attempts so far

ledger == <<act, roll>>
vars == <<ledger, index, mig, superseded, faults>>

Row == [status : Status, rb : RollbackStatus, auto : BOOLEAN, restorable : {TRUE},
        uid : Uids \cup {NoUid}, tgt : {NoBase}]

NoRow == [status |-> "rejected", rb |-> "", auto |-> FALSE, restorable |-> TRUE,
          uid |-> NoUid, tgt |-> NoBase]

Migration == [pc : {"none", "normalized", "busy", "conflict", "done"},
              attempt : 0 .. MaxAttempts,
              victims : SUBSET Rollouts]

Fresh == [pc |-> "none", attempt |-> 0, victims |-> {}]

Exists(r) == act[r] # "none"

\* The rows the predicate of the first index selects, and those of the second.
LocksV1(r) == Exists(r) /\ roll[r].uid # NoUid /\ roll[r].status \in Waiting \cup Driving
Locks(r) == Exists(r) /\ roll[r].uid # NoUid /\ ActiveTarget(roll[r])

Contend(q, r) == q # r /\ Locks(q) /\ Locks(r) /\ roll[q].uid = roll[r].uid

\* Mutant: the normalization keeps no lock.
WritesAnyway == TRUE

\* LOCK TABLE, or SQLite's writer lock, from the normalization to the commit.
MayWrite == \A m \in Replicas : mig[m].pc # "normalized"

Write(r, a, row) ==
    /\ MayWrite
    /\ act' = [act EXCEPT ![r] = a]
    /\ roll' = [roll EXCEPT ![r] = row]
    /\ UNCHANGED <<index, mig, superseded, faults>>

-----------------------------------------------------------------------------
(***************************************************************************)
(* The replicas at work                                                    *)
(***************************************************************************)
\* Either unique index refuses the insert.
Taken(uid) ==
    \E q \in Rollouts : roll[q].uid = uid /\ (LocksV1(q) \/ (index /\ Locks(q)))

InsertK8sRolloutRequest(r, uid, direct, auto) ==
    LET status == IF direct THEN "approved" ELSE "approval_required"
    IN  /\ ~Exists(r)
        /\ ~Taken(uid)
        /\ Write(r, status, [NoRow EXCEPT !.status = status, !.auto = auto, !.uid = uid])

\* UpdateK8sActionStatus: the Action Center decides.
DecideInActionCenter(r, verdict) ==
    /\ act[r] = "approval_required"
    /\ Write(r, verdict, roll[r])

RejectK8sRolloutWithAction(r) ==
    /\ act[r] = "approval_required"
    /\ Write(r, "rejected", [roll[r] EXCEPT !.status = "rejected"])

StartK8sRolloutExecution(r) ==
    /\ act[r] = "approved" /\ roll[r].status \in Waiting
    /\ Write(r, "running", [roll[r] EXCEPT !.status = "running"])

FinalizeK8sRolloutMutation(r, out) ==
    /\ act[r] = "running" /\ roll[r].status = "running"
    /\ Write(r, FinalAction(out), FinalRow(roll[r], out))

\* What an inventory may show.  Whether the mutation was seen, and the base it
\* left, is only read to close an action, where SyncAction takes either outcome.
Evidence == [found : {TRUE}, touched : {TRUE}, base : {NoBase}, other : BOOLEAN,
             failed : BOOLEAN, healthy : BOOLEAN, restoreFailed : BOOLEAN,
             restored : BOOLEAN]

Judgements ==
    [row \in Row |-> {Judge(row, ev, late, rbLate) :
                         ev \in Evidence, late \in BOOLEAN, rbLate \in BOOLEAN}]

\* reconcileRolloutContext and UpdateK8sRolloutProgressCAS.
ReconcileRollout(r) ==
    /\ Exists(r) /\ rolloutReconcileDue(roll[r])
    /\ \E row \in Judgements[roll[r]] : Write(r, act[r], row)

\* requestAutoRollback claims a rollback, ...
ClaimRollback(r) ==
    /\ Exists(r) /\ roll[r].rb = "requested"
    /\ Write(r, act[r], [roll[r] EXCEPT !.rb = "running"])

\* ... and records how its request ended.
FinishRollback(r, out) ==
    /\ Exists(r) /\ roll[r].rb = "running"
    /\ Write(r, act[r], RollbackRow(roll[r], out))

\* syncRolloutActionRequest
SyncAction(r, mutated) ==
    /\ act[r] = "running" /\ roll[r].status \in Terminal
    /\ Write(r, SyncedAction(roll[r], mutated), roll[r])

-----------------------------------------------------------------------------
(***************************************************************************)
(* The migration                                                           *)
(***************************************************************************)
Recovering(r) == roll[r].rb \in RollbackOpen

\* Mutant: the earliest request is kept, whatever it does.
EarlierFirst(q, r) == q < r

\* ORDER BY an open rollback first, requested_at, id.
Before(q, r) ==
    IF Recovering(q) = Recovering(r) THEN q < r ELSE Recovering(q)

Victims == {r \in Rollouts : \E q \in Rollouts : Contend(q, r) /\ Before(q, r)}

\* The statuses of an action the migration closes.
OpenAction == {"approval_required", "approved", "running"}

\* The two updates of one attempt, which nobody sees before the commit.
Normalize(m) ==
    /\ mig[m].pc = "none"
    /\ MayWrite
    /\ mig' = [mig EXCEPT ![m].pc = "normalized", ![m].victims = Victims]
    /\ UNCHANGED <<ledger, index, superseded, faults>>

Failed(m, reason) ==
    mig' = [mig EXCEPT ![m] =
              [pc |-> IF @.attempt + 1 = MaxAttempts THEN reason ELSE "none",
               attempt |-> @.attempt + 1, victims |-> {}]]

Duplicates(victims) ==
    \E q, r \in Rollouts \ victims : Contend(q, r)

VictimRow(row) == [row EXCEPT !.status = "failed", !.rb = "failed"]

\* CREATE UNIQUE INDEX, which duplicates refuse, and the commit.
CreateIndex(m) ==
    LET victims == mig[m].victims
    IN  /\ mig[m].pc = "normalized"
        /\ IF Duplicates(victims)
           THEN Failed(m, "conflict") /\ UNCHANGED <<ledger, index, superseded>>
           ELSE /\ act' = [r \in Rollouts |->
                             IF r \in victims /\ act[r] \in OpenAction
                             THEN "failed" ELSE act[r]]
                /\ roll' = [r \in Rollouts |->
                              IF r \in victims THEN VictimRow(roll[r]) ELSE roll[r]]
                /\ index' = TRUE
                /\ superseded' = superseded \cup victims
                /\ mig' = [mig EXCEPT ![m].pc = "done", ![m].victims = {}]
        /\ UNCHANGED faults

\* A lock timeout, a deadlock, a crash: the transaction is rolled back.
AttemptFails(m) ==
    /\ mig[m].pc \in {"none", "normalized"}
    /\ faults < MaxFaults
    /\ faults' = faults + 1
    /\ Failed(m, "busy")
    /\ UNCHANGED <<ledger, index, superseded>>

\* A replica that gave up, or that is started anew, migrates again.
StartAgain(m) ==
    /\ mig[m].pc \in {"busy", "conflict", "done"}
    /\ mig' = [mig EXCEPT ![m] = Fresh]
    /\ UNCHANGED <<ledger, index, superseded, faults>>

-----------------------------------------------------------------------------
Init ==
    /\ act = [r \in Rollouts |-> "none"]
    /\ roll = [r \in Rollouts |-> NoRow]
    /\ index = FALSE
    /\ mig = [m \in Replicas |-> Fresh]
    /\ superseded = {}
    /\ faults = 0

Work(r) ==
    \/ \E uid \in Uids, direct, auto \in BOOLEAN :
          InsertK8sRolloutRequest(r, uid, direct, auto)
    \/ \E verdict \in {"approved", "rejected"} : DecideInActionCenter(r, verdict)
    \/ RejectK8sRolloutWithAction(r)
    \/ StartK8sRolloutExecution(r)
    \/ \E out \in Outcome : FinalizeK8sRolloutMutation(r, out) \/ FinishRollback(r, out)
    \/ ReconcileRollout(r)
    \/ ClaimRollback(r)
    \/ \E mutated \in BOOLEAN : SyncAction(r, mutated)

Migrate(m) == Normalize(m) \/ CreateIndex(m) \/ AttemptFails(m) \/ StartAgain(m)

Next == (\E r \in Rollouts : Work(r)) \/ (\E m \in Replicas : Migrate(m))

Spec == Init /\ [][Next]_vars

-----------------------------------------------------------------------------
\* Every variable keeps its type.
TypeOK ==
    /\ act \in [Rollouts -> ActionStatus]
    /\ roll \in [Rollouts -> Row]
    /\ index \in BOOLEAN
    /\ mig \in [Replicas -> Migration]
    /\ superseded \subseteq Rollouts
    /\ faults \in 0 .. MaxFaults

(***************************************************************************)
(* Once the index exists a target has one active rollout, so that no later *)
(* update of a row, which nothing here refuses, would run into the index.  *)
(***************************************************************************)
OneActivePerTarget == index => \A q, r \in Rollouts : ~Contend(q, r)

(***************************************************************************)
(* No writer gets between the normalization and the index, whichever       *)
(* release it is of.                                                       *)
(***************************************************************************)
IndexNeverConflicts == \A m \in Replicas : mig[m].pc # "conflict"

(***************************************************************************)
(* A rollout the migration gave up is closed in both ledgers and stays so: *)
(* nobody executes it, finalizes it or restores it any more.               *)
(***************************************************************************)
SupersededIsClosed ==
    \A r \in superseded : /\ act[r] \in ActionClosed
                          /\ roll[r].status = "failed" /\ roll[r].rb = "failed"

(***************************************************************************)
(* Rollouts and replicas keep their types; with the index a target has one *)
(* active rollout; no writer gets between the normalization and the index; *)
(* and what the migration gave up is closed in both ledgers for good       *)
(* (store/k8s_rollout.go:123).                                             *)
(***************************************************************************)
TargetLockInv ==
    TypeOK /\ OneActivePerTarget /\ IndexNeverConflicts /\ SupersededIsClosed

(***************************************************************************)
(* A target with an open rollback keeps one through every migration, and   *)
(* once the index exists a migration gives up nothing.                     *)
(***************************************************************************)
KeepsOpenRollback ==
    superseded' # superseded => ~index /\
       \A r \in superseded' : Recovering(r) =>
          \E q \in Rollouts \ superseded' :
             roll[q].uid = roll[r].uid /\ Locks(q) /\ Recovering(q)

OpenRollbackKept == [][KeepsOpenRollback]_vars
=============================================================================
