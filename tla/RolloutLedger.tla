---------------------------- MODULE RolloutLedger ----------------------------
(***************************************************************************)
(* Who may write what when: the Action Center ledger                       *)
(* (k8s_action_requests), the rollout ledger (k8s_rollout_actions) and the *)
(* processes that work on them, which are the HTTP requests that create,   *)
(* approve, reject, execute and view rollouts, and the reconciler workers  *)
(* of the hub's replicas.                                                  *)
(*                                                                         *)
(* Every SQL statement or transaction is one step; what a process does     *)
(* between two of them interleaves with every other process.  A process    *)
(* keeps the row it read, and "cur" says whether the row in the table      *)
(* still carries the updated_at it read, which is what the compare-and-    *)
(* swap of UpdateK8sRolloutProgressCAS finds out.                          *)
(*                                                                         *)
(* What the cluster shows is any evidence at any time here; RolloutEvidence *)
(* models where evidence comes from.                                       *)
(***************************************************************************)
EXTENDS Naturals, RolloutJudge

CONSTANTS
    Rollouts,       \* rollout requests, one per idempotency key
    Uids,           \* UIDs of the workloads they restart
    Workers,        \* reconciler workers, one per replica
    Handlers,       \* HTTP requests, each served once
    None,           \* no rollout, no lease owner
    RequestLimit,   \* ticks from a rollback claim to the end of its request
    ClaimGrace,     \* rolloutRollbackClaimGrace, in ticks
    MaxFaults       \* bound: crashes and failing store calls

(***************************************************************************)
(* rolloutRollbackRequestTimeout (90s) and k8sActionFinalizeTimeout (5s)   *)
(* together stay below rolloutRollbackClaimGrace (2 minutes).              *)
(***************************************************************************)
ASSUME LimitsAssumption ==
    /\ RequestLimit \in Nat
    /\ ClaimGrace \in Nat
    /\ RequestLimit < ClaimGrace
    /\ MaxFaults \in Nat

ASSUME NamesAssumption ==
    /\ None \notin Rollouts
    /\ None \notin Workers
    /\ Workers \cap Handlers = {}

VARIABLES
    act,      \* k8s_action_requests.status of the request's action
    roll,     \* the k8s_rollout_actions row
    age,      \* ticks since the row's updated_at, while a rollback is claimed
    late,     \* the rollout's timeout has passed
    rbLate,   \* the rollback's timeout has passed
    lease,    \* k8s_rollout_reconcile_leases: its owner, None, or "gone"
    proc,     \* what each worker and each handler is doing
    sends,    \* how often each rollout's restart patch was sent
    faults    \* crashes and failing store calls so far

ledger == <<act, roll, age, late, rbLate>>
vars   == <<ledger, lease, proc, sends, faults>>

Procs == Workers \cup Handlers

Row == [status : Status, rb : RollbackStatus, auto : BOOLEAN,
        restorable : BOOLEAN, uid : Uids \cup {None}, tgt : {"seen", NoBase}]

NoRow == [status |-> "rejected", rb |-> "", auto |-> FALSE,
          restorable |-> FALSE, uid |-> None, tgt |-> NoBase]

RollbackPc == {"rbrequest", "rbfinal"}
Pc == {"ready", "idle", "done", "insert", "reject", "check", "claim", "drift",
       "send", "await", "final", "lease", "observe", "persist", "reread",
       "rbclaim", "sync"} \cup RollbackPc

Process == [pc : Pc,
            job : Rollouts \cup {None},
            row : Row,         \* the row to insert, or the row as it was read
            cur : BOOLEAN,     \* its updated_at is still the one read
            follow : BOOLEAN,  \* the handler ends with a reconcile
            out : Outcome \cup {"none"},
            busy : 0 .. RequestLimit] \* ticks since the rollback claim

Rest(p) == [pc |-> IF p \in Workers THEN "idle" ELSE "done", job |-> None,
            row |-> NoRow, cur |-> FALSE, follow |-> FALSE, out |-> "none",
            busy |-> 0]

Evidence ==
    {ev \in [found : BOOLEAN, other : BOOLEAN, touched : BOOLEAN,
             failed : BOOLEAN, healthy : BOOLEAN, restoreFailed : BOOLEAN,
             restored : BOOLEAN, base : {"seen"}] :
        /\ ~ev.found => ~ev.other /\ ~ev.touched /\ ~ev.restoreFailed
                                  /\ ~ev.restored
        /\ ev.healthy => ev.touched
        /\ ev.failed => ev.other \/ ev.touched}

Exists(r) == act[r] # "none"
Started(r) == Exists(r) /\ roll[r].status \notin Waiting \cup {"rejected"}

(***************************************************************************)
(* Process bookkeeping                                                     *)
(***************************************************************************)
Step(p, new) == proc' = [proc EXCEPT ![p] = new]

Goto(p, label) == Step(p, [proc[p] EXCEPT !.pc = label])

\* On with the same rollout and nothing else kept.
Forget(p, label) == [Rest(p) EXCEPT !.pc = label, !.job = proc[p].job]

\* A worker deletes the lease row if it still owns it.
Release(p) ==
    lease' = [r \in Rollouts |-> IF lease[r] = p THEN None ELSE lease[r]]

Leave(p) == Step(p, Rest(p)) /\ Release(p)

(***************************************************************************)
(* Process p writes row r, and becomes new: the row's updated_at moves, so *)
(* every other snapshot of it is out of date.                              *)
(***************************************************************************)
WriteRow(p, r, row, new) ==
    /\ roll' = [roll EXCEPT ![r] = row]
    /\ age' = [age EXCEPT ![r] = 0]
    /\ proc' = [q \in Procs |->
                  IF q = p THEN new
                  ELSE IF proc[q].job = r
                       THEN [proc[q] EXCEPT !.cur = FALSE]
                       ELSE proc[q]]

-----------------------------------------------------------------------------
(***************************************************************************)
(* HTTP: requesting, deciding, viewing                                     *)
(***************************************************************************)
\* The unique indexes on the idempotency key and on the active target.
Conflict(r, row) ==
    \/ Exists(r)
    \/ \E q \in Rollouts : /\ Exists(q)
                           /\ roll[q].uid = row.uid
                           /\ ActiveTarget(roll[q])

\* handleWorkloadRollout up to the insert: precheck and the early refusals.
RequestRollout(h, r, uid, direct, auto, restorable) ==
    LET row == [status |-> IF direct THEN "approved" ELSE "approval_required",
                rb |-> "", auto |-> auto, restorable |-> restorable,
                uid |-> uid, tgt |-> NoBase]
    IN  /\ proc[h].pc = "ready"
        /\ IF Conflict(r, row)
           THEN Step(h, Rest(h))
           ELSE Step(h, [Rest(h) EXCEPT !.pc = "insert", !.job = r,
                                        !.row = row, !.follow = TRUE])
        /\ UNCHANGED <<ledger, lease, sends, faults>>

InsertK8sRolloutRequest(h) ==
    LET r == proc[h].job  row == proc[h].row
    IN  /\ proc[h].pc = "insert"
        /\ IF Conflict(r, row)
           THEN Step(h, Rest(h)) /\ UNCHANGED ledger
           ELSE /\ act' = [act EXCEPT ![r] = row.status]
                /\ WriteRow(h, r, row,
                            IF row.status = "approved"
                            THEN [proc[h] EXCEPT !.pc = "check", !.row = NoRow]
                            ELSE Rest(h))
                /\ UNCHANGED <<late, rbLate>>
        /\ UNCHANGED <<lease, sends, faults>>

\* The statuses UpdateK8sActionStatus approves or rejects from.
Undecided(r) == act[r] = "approval_required"

\* POST /api/v1/rollouts/{id}/approve, up to the execution.  The reconcile that
\* ends it is given the row from before the approval, which is never due.
ApproveRollout(h, r) ==
    /\ proc[h].pc = "ready"
    /\ Exists(r) /\ roll[r].status = "approval_required"
    /\ Undecided(r)
    /\ act' = [act EXCEPT ![r] = "approved"]
    /\ Step(h, [Rest(h) EXCEPT !.pc = "check", !.job = r])
    /\ UNCHANGED <<roll, age, late, rbLate, lease, sends, faults>>

\* POST /api/v1/rollouts/{id}/reject reads the row ...
ReadForReject(h, r) ==
    /\ proc[h].pc = "ready"
    /\ Exists(r)
    /\ Step(h, [Rest(h) EXCEPT !.pc = "reject", !.job = r, !.cur = TRUE,
                               !.row = roll[r]])
    /\ UNCHANGED <<ledger, lease, sends, faults>>

\* ... and then moves both ledgers, or neither.
RejectK8sRolloutWithAction(h) ==
    LET r == proc[h].job
    IN  /\ proc[h].pc = "reject"
        /\ IF Undecided(r) /\ proc[h].cur
           THEN /\ act' = [act EXCEPT ![r] = "rejected"]
                /\ WriteRow(h, r, [roll[r] EXCEPT !.status = "rejected"],
                            Rest(h))
                /\ UNCHANGED <<late, rbLate>>
           ELSE Step(h, Rest(h)) /\ UNCHANGED ledger
        /\ UNCHANGED <<lease, sends, faults>>

\* POST /admin/k8s/actions/{id}/approve and /reject: the action's row only.
DecideInActionCenter(h, r, verdict) ==
    /\ proc[h].pc = "ready"
    /\ Undecided(r)
    /\ act' = [act EXCEPT ![r] = verdict]
    /\ Step(h, Rest(h))
    /\ UNCHANGED <<roll, age, late, rbLate, lease, sends, faults>>

\* POST /admin/k8s/actions/{id}/execute
ExecuteInActionCenter(h, r) ==
    /\ proc[h].pc = "ready"
    /\ act[r] = "approved"
    /\ Step(h, [Rest(h) EXCEPT !.pc = "check", !.job = r])
    /\ UNCHANGED <<ledger, lease, sends, faults>>

\* GET /api/v1/rollouts/{id}, and one round of its event stream.
ViewRollout(h, r) ==
    /\ proc[h].pc = "ready"
    /\ Exists(r)
    /\ Step(h, [Rest(h) EXCEPT !.pc = "observe", !.job = r])
    /\ UNCHANGED <<ledger, lease, sends, faults>>

-----------------------------------------------------------------------------
(***************************************************************************)
(* runApprovedK8sAction, for whoever calls it                              *)
(***************************************************************************)
\* validateRolloutExecutionTarget: the target is as it was, or it drifted.
CheckTarget(p) ==
    LET r == proc[p].job
    IN  /\ proc[p].pc = "check"
        /\ \/ act[r] # "approved" /\ Leave(p)
           \/ /\ act[r] = "approved"
              /\ \E label \in {"claim", "drift"} : Goto(p, label)
              /\ UNCHANGED lease
        /\ UNCHANGED <<ledger, sends, faults>>

\* Mutant: starting what is already running counts as a retry.
MayStartAgain(r) == act[r] \in {"approved", "running"}

\* Both ledgers still wait; the transaction checks it as it writes.
MayStart(r) == act[r] = "approved" /\ roll[r].status \in Waiting

StartK8sRolloutExecution(p) ==
    LET r == proc[p].job
    IN  /\ proc[p].pc \in {"claim", "drift"}
        /\ IF MayStart(r)
           THEN /\ act' = [act EXCEPT ![r] = "running"]
                /\ WriteRow(p, r, [roll[r] EXCEPT !.status = "running"],
                            IF proc[p].pc = "claim"
                            THEN [proc[p] EXCEPT !.pc = "send"]
                            ELSE [proc[p] EXCEPT !.pc = "final",
                                                 !.out = "blocked"])
                /\ UNCHANGED <<late, rbLate, lease>>
           ELSE Leave(p) /\ UNCHANGED ledger
        /\ UNCHANGED <<sends, faults>>

SendRestart(p) ==
    /\ proc[p].pc = "send"
    /\ Goto(p, "await")
    /\ sends' = [sends EXCEPT ![proc[p].job] = @ + 1]
    /\ UNCHANGED <<ledger, lease, faults>>

\* Accepted, refused, or no answer within the deadline.
AwaitRestart(p) ==
    /\ proc[p].pc = "await"
    /\ \E o \in {"ok", "error", "unknown"} :
          Step(p, [proc[p] EXCEPT !.pc = "final", !.out = o])
    /\ UNCHANGED <<ledger, lease, sends, faults>>

\* Mutant: the outcome is written whatever became of the rollout meanwhile.
ActionStillRuns(r) == act[r] = "running"

\* Neither ledger was closed while the patch was under way.
BothStillRun(r) == act[r] = "running" /\ roll[r].status = "running"

\* The request that created the rollout reconciles once what it has started.
FinalizeK8sRolloutMutation(p) ==
    LET r == proc[p].job
        out == proc[p].out
        row == FinalRow(roll[r], out)
    IN  /\ proc[p].pc = "final"
        /\ IF BothStillRun(r)
           THEN /\ act' = [act EXCEPT ![r] = FinalAction(out)]
                /\ IF proc[p].follow /\ ~Refused(out)
                   THEN /\ WriteRow(p, r, row, Forget(p, "observe"))
                        /\ UNCHANGED lease
                   ELSE WriteRow(p, r, row, Rest(p)) /\ Release(p)
                /\ UNCHANGED <<late, rbLate>>
           ELSE Leave(p) /\ UNCHANGED ledger
        /\ UNCHANGED <<sends, faults>>

-----------------------------------------------------------------------------
(***************************************************************************)
(* Reconciling: the workers, and the handlers that end with a reconcile    *)
(***************************************************************************)
\* reconcileBatch: a worker lists what is due, ...
ListK8sRolloutActionsDue(w, r) ==
    /\ proc[w].pc = "idle"
    /\ Exists(r) /\ Due(act[r], roll[r])
    /\ Step(w, [Rest(w) EXCEPT !.pc = "lease", !.job = r])
    /\ UNCHANGED <<ledger, lease, sends, faults>>

\* ... and takes up each rollout under its lease, as it finds it by then.
ReconcileOne(w) ==
    LET r == proc[w].job
    IN  /\ proc[w].pc = "lease"
        /\ IF lease[r] \in {None, w}
           THEN /\ lease' = [lease EXCEPT ![r] = w]
                /\ Goto(w, IF roll[r].status \in Waiting /\ act[r] = "approved"
                           THEN "check" ELSE "observe")
           ELSE Step(w, Rest(w)) /\ UNCHANGED lease
        /\ UNCHANGED <<ledger, sends, faults>>

\* After a reconcile a worker goes on to the action; a handler answers.
Conclude(p) ==
    IF p \in Workers THEN Step(p, Forget(p, "sync")) /\ UNCHANGED lease
    ELSE Leave(p)

\* Mutant: a claim is never left alone.
ClaimIgnored(r) == FALSE

\* A claimed rollback is left alone until the grace period is over.
ClaimInGrace(r) == roll[r].rb = "running" /\ age[r] < ClaimGrace

ObserveRollout(p) ==
    LET r == proc[p].job  row == roll[r]
    IN  /\ proc[p].pc = "observe"
        /\ IF ~rolloutReconcileDue(row) \/ ClaimInGrace(r)
           THEN Conclude(p)
           ELSE /\ Step(p, [proc[p] EXCEPT !.pc = "persist", !.cur = TRUE,
                                           !.row = row])
                /\ UNCHANGED lease
        /\ UNCHANGED <<ledger, sends, faults>>

\* Mutant: the update does not compare updated_at.
SwapsAnyway(p, row) ==
    LET status == roll[proc[p].job].status
    IN  status \in Terminal => row.status = status

\* UpdateK8sRolloutProgressCAS finds the row that p read.
Swaps(p, row) ==
    LET status == roll[proc[p].job].status
    IN  /\ proc[p].cur
        /\ status \in Terminal => row.status = status

\* The rows a reconcile may store after reading row, by what it observes.
Judgements(r, row) ==
    {Judge(row, ev, late[r], rbLate[r]) : ev \in Evidence}

PersistRollout(p) ==
    LET r == proc[p].job
    IN  /\ proc[p].pc = "persist"
        /\ \E row \in Judgements(r, proc[p].row) :
              IF Swaps(p, row)
              THEN /\ WriteRow(p, r, row, IF p \in Workers
                                          THEN Forget(p, "reread")
                                          ELSE Rest(p))
                   /\ UNCHANGED <<act, late, rbLate, lease>>
              ELSE Conclude(p) /\ UNCHANGED ledger
        /\ UNCHANGED <<sends, faults>>

\* Only a worker initiates the rollback patch.
RereadRollout(w) ==
    LET row == roll[proc[w].job]
    IN  /\ proc[w].pc = "reread"
        /\ IF row.rb = "requested"
           THEN Step(w, [proc[w] EXCEPT !.pc = "rbclaim", !.cur = TRUE,
                                        !.row = row])
           ELSE Goto(w, "sync")
        /\ UNCHANGED <<ledger, lease, sends, faults>>

\* requestAutoRollback: the claim, ...
ClaimRollback(w) ==
    LET r == proc[w].job  row == [proc[w].row EXCEPT !.rb = "running"]
    IN  /\ proc[w].pc = "rbclaim"
        /\ IF Swaps(w, row)
           THEN /\ WriteRow(w, r, row, [proc[w] EXCEPT !.pc = "rbrequest",
                                                       !.row = row, !.busy = 0])
                /\ UNCHANGED <<act, late, rbLate>>
           ELSE Step(w, Forget(w, "sync")) /\ UNCHANGED ledger
        /\ UNCHANGED <<lease, sends, faults>>

\* ... the check of the live UID and the patch, ...
RequestRollback(w) ==
    /\ proc[w].pc = "rbrequest"
    /\ \E o \in {"ok", "error", "unknown"} :
          Step(w, [proc[w] EXCEPT !.pc = "rbfinal", !.out = o])
    /\ UNCHANGED <<ledger, lease, sends, faults>>

\* ... and its result, if the claim is still this worker's.
FinalizeRollback(w) ==
    LET row == RollbackRow(proc[w].row, proc[w].out)
    IN  /\ proc[w].pc = "rbfinal"
        /\ IF Swaps(w, row)
           THEN /\ WriteRow(w, proc[w].job, row, Forget(w, "sync"))
                /\ UNCHANGED <<act, late, rbLate>>
           ELSE Step(w, Forget(w, "sync")) /\ UNCHANGED ledger
        /\ UNCHANGED <<lease, sends, faults>>

syncRolloutActionRequest(w) ==
    LET r == proc[w].job
    IN  /\ proc[w].pc = "sync"
        /\ IF roll[r].status \in Terminal /\ act[r] = "running"
           THEN \E mutated \in BOOLEAN :
                   act' = [act EXCEPT ![r] = SyncedAction(roll[r], mutated)]
           ELSE UNCHANGED act
        /\ Leave(w)
        /\ UNCHANGED <<roll, age, late, rbLate, sends, faults>>

-----------------------------------------------------------------------------
(***************************************************************************)
(* Time and failures                                                       *)
(***************************************************************************)
InRollback(p) == proc[p].pc \in RollbackPc

\* Mutant: the rollback request has no deadline.
NoDeadline == TRUE

\* A rollback request ends within its deadline: time waits for it.
RequestsInTime == \A p \in Procs : InRollback(p) => proc[p].busy < RequestLimit

Tick ==
    /\ RequestsInTime
    /\ \E r \in Rollouts : roll[r].rb = "running" /\ age[r] < ClaimGrace
    /\ age' = [r \in Rollouts |->
                 IF roll[r].rb = "running" /\ age[r] < ClaimGrace
                 THEN age[r] + 1 ELSE age[r]]
    /\ proc' = [p \in Procs |->
                  IF InRollback(p) THEN [proc[p] EXCEPT !.busy = @ + 1]
                  ELSE proc[p]]
    /\ UNCHANGED <<act, roll, late, rbLate, lease, sends, faults>>

\* timeout_seconds has no lower bound: it may pass while the patch is sent.
TimeoutPasses(r) ==
    /\ Exists(r) /\ roll[r].status \in Driving /\ ~late[r]
    /\ late' = [late EXCEPT ![r] = TRUE]
    /\ UNCHANGED <<act, roll, age, rbLate, lease, proc, sends, faults>>

RollbackTimeoutPasses(r) ==
    /\ roll[r].rb \in RollbackOpen /\ ~rbLate[r]
    /\ rbLate' = [rbLate EXCEPT ![r] = TRUE]
    /\ UNCHANGED <<act, roll, age, late, lease, proc, sends, faults>>

\* The lease (one minute) may end before the work it covers (two minutes).
LeaseExpires(r) ==
    /\ lease[r] # None
    /\ lease' = [lease EXCEPT ![r] = None]
    /\ UNCHANGED <<ledger, proc, sends, faults>>

Asleep(p) == proc[p].pc \in {"idle", "ready", "done"}

(***************************************************************************)
(* The process dies and its lease row outlives it.  The replica comes back *)
(* under the same owner id, or under another (host name and pid) and then  *)
(* has to wait for the expiry of its own old lease.                        *)
(***************************************************************************)
Crash(p) ==
    /\ ~Asleep(p) /\ faults < MaxFaults
    /\ faults' = faults + 1
    /\ Step(p, Rest(p))
    /\ \E owner \in {p, "gone"} :
          lease' = [r \in Rollouts |->
                      IF lease[r] = p THEN owner ELSE lease[r]]
    /\ UNCHANGED <<ledger, sends>>

\* A store call or a client lookup fails and the process returns the error.
StoreFails(p) ==
    /\ ~Asleep(p) /\ proc[p].pc \notin {"send", "await"}
    /\ faults < MaxFaults
    /\ faults' = faults + 1
    /\ Leave(p)
    /\ UNCHANGED <<ledger, sends>>

-----------------------------------------------------------------------------
Init ==
    /\ act = [r \in Rollouts |-> "none"]
    /\ roll = [r \in Rollouts |-> NoRow]
    /\ age = [r \in Rollouts |-> 0]
    /\ late = [r \in Rollouts |-> FALSE]
    /\ rbLate = [r \in Rollouts |-> FALSE]
    /\ lease = [r \in Rollouts |-> None]
    /\ proc = [p \in Procs |->
                 IF p \in Workers THEN Rest(p)
                 ELSE [Rest(p) EXCEPT !.pc = "ready"]]
    /\ sends = [r \in Rollouts |-> 0]
    /\ faults = 0

Handle(h) ==
    \/ \E r \in Rollouts :
          \/ \E uid \in Uids, direct, auto, restorable \in BOOLEAN :
                /\ restorable => auto   \* it matters to a rollback only
                /\ RequestRollout(h, r, uid, direct, auto, restorable)
          \/ ApproveRollout(h, r)
          \/ ReadForReject(h, r)
          \/ \E verdict \in {"approved", "rejected"} :
                DecideInActionCenter(h, r, verdict)
          \/ ExecuteInActionCenter(h, r)
          \/ ViewRollout(h, r)

\* A request that was read goes on without its user.
Answer(h) ==
    \/ InsertK8sRolloutRequest(h)
    \/ RejectK8sRolloutWithAction(h)

Run(p) ==
    \/ CheckTarget(p)
    \/ StartK8sRolloutExecution(p)
    \/ SendRestart(p)
    \/ AwaitRestart(p)
    \/ FinalizeK8sRolloutMutation(p)
    \/ ObserveRollout(p)
    \/ PersistRollout(p)

Reconcile(w) ==
    \/ \E r \in Rollouts : ListK8sRolloutActionsDue(w, r)
    \/ ReconcileOne(w)
    \/ RereadRollout(w)
    \/ ClaimRollback(w)
    \/ RequestRollback(w)
    \/ FinalizeRollback(w)
    \/ syncRolloutActionRequest(w)

DeadlinePasses(r) == TimeoutPasses(r) \/ RollbackTimeoutPasses(r)

Next ==
    \/ \E h \in Handlers : Handle(h) \/ Answer(h)
    \/ \E p \in Procs : Run(p) \/ Crash(p) \/ StoreFails(p)
    \/ \E w \in Workers : Reconcile(w)
    \/ \E r \in Rollouts : DeadlinePasses(r) \/ LeaseExpires(r)
    \/ Tick

Spec == Init /\ [][Next]_vars

(***************************************************************************)
(* Fairness: every replica's worker keeps its ticker, a handler that runs  *)
(* is scheduled, requests end at their deadlines and time passes.  Nothing *)
(* is assumed of users or of what the cluster shows.                       *)
(***************************************************************************)
Fairness ==
    /\ \A h \in Handlers : WF_vars(Answer(h) \/ Run(h))
    /\ \A w \in Workers : WF_vars(Run(w) \/ Reconcile(w))
    /\ \A r \in Rollouts : WF_vars(DeadlinePasses(r)) /\ WF_vars(LeaseExpires(r))
    /\ WF_vars(Tick)

FairSpec == Spec /\ Fairness

-----------------------------------------------------------------------------
(***************************************************************************)
(* Safety                                                                  *)
(***************************************************************************)
\* Every variable keeps its shape.
TypeOK ==
    /\ act \in [Rollouts -> ActionStatus]
    /\ roll \in [Rollouts -> Row]
    /\ age \in [Rollouts -> 0 .. ClaimGrace]
    /\ late \in [Rollouts -> BOOLEAN]
    /\ rbLate \in [Rollouts -> BOOLEAN]
    /\ lease \in [Rollouts -> Workers \cup {None, "gone"}]
    /\ proc \in [Procs -> Process]
    /\ sends \in [Rollouts -> Nat]
    /\ faults \in Nat

(***************************************************************************)
(* The two ledgers tell the same story whoever wrote them last: a rollout  *)
(* has started exactly when its action is running or closed, an action     *)
(* closed as executed or failed never belongs to a rollout whose mutation  *)
(* is still open, and a rejected rollout has a rejected action             *)
(* (StartK8sRolloutExecution, FinalizeK8sRolloutMutation,                  *)
(* RejectK8sRolloutWithAction, syncRolloutActionRequest).                  *)
(***************************************************************************)
LedgersAgree ==
    \A r \in Rollouts : Exists(r) =>
        /\ Started(r) <=> act[r] \in {"running", "executed", "failed"}
        /\ act[r] = "executed" => roll[r].status # "running"
        /\ act[r] = "failed" => roll[r].status \in Terminal
        /\ roll[r].status = "rejected" => act[r] = "rejected"

(***************************************************************************)
(* However approvals, Action Center executions, workers, crashes and       *)
(* retries interleave, a rollout's restart patch is sent at most once, and *)
(* only after both ledgers record the execution                            *)
(* (StartK8sRolloutExecution).                                             *)
(***************************************************************************)
RestartSentOnce ==
    \A r \in Rollouts :
        /\ sends[r] <= 1
        /\ sends[r] = 1 => Started(r)

(***************************************************************************)
(* Two rollouts of the same object never both have a patch still to send:  *)
(* from the request until the rollback is settled the target is locked,    *)
(* also between a failure and the rollback it owes                         *)
(* (k8sRolloutActiveTargetPredicate).                                      *)
(***************************************************************************)
MayStillPatch(row) ==
    \/ row.status \in Waiting \cup {"running"}
    \/ row.rb \in {"requested", "running"}
    \/ NeedsRollback(row)

OneRolloutPerTarget ==
    \A q, r \in Rollouts :
        q # r /\ Exists(q) /\ Exists(r) /\ roll[q].uid = roll[r].uid
        => ~(MayStillPatch(roll[q]) /\ MayStillPatch(roll[r]))

(***************************************************************************)
(* The rollback patch is sent under the claim: while a worker is between   *)
(* its claim and its result the row says so, whatever leases have expired, *)
(* so no two workers roll the same rollout back at once                    *)
(* (requestAutoRollback, rolloutRollbackClaimGrace).                       *)
(***************************************************************************)
RollbackUnderClaim ==
    \A v, w \in Workers : InRollback(w) =>
        /\ roll[proc[w].job].rb = "running"
        /\ InRollback(v) /\ proc[v].job = proc[w].job => v = w

(***************************************************************************)
(* A rollback is only ever open for a rollout that failed or timed out,    *)
(* asked for it and has a template to restore: never for one that          *)
(* succeeded, was rejected or is still driven (reconcileRolloutContext).   *)
(***************************************************************************)
RollbackOnlyAfterFailure ==
    \A r \in Rollouts :
        Exists(r) /\ roll[r].rb \in RollbackOpen \cup {"succeeded"} =>
            /\ roll[r].status \in Broken
            /\ roll[r].auto /\ roll[r].restorable

(***************************************************************************)
(* What is closed stays closed: a terminal rollout status, a settled       *)
(* rollback and a closed action are never overwritten by a process that    *)
(* read an older row (UpdateK8sRolloutProgressCAS, UpdateK8sActionStatus). *)
(***************************************************************************)
VerdictsKept ==
    \A r \in Rollouts : Exists(r) =>
        /\ roll[r].status \in Terminal => roll'[r].status = roll[r].status
        /\ roll[r].rb \in {"failed", "succeeded"} => roll'[r].rb = roll[r].rb
        /\ act[r] \in ActionClosed => act'[r] = act[r]

VerdictsAreFinal == [][VerdictsKept]_vars

(***************************************************************************)
(* The whole of it implements the life of a rollout: nobody skips a phase, *)
(* goes back, sends twice or takes a target that is held.                  *)
(***************************************************************************)
Phase(r) ==
    IF ~Exists(r) THEN "none"
    ELSE IF roll[r].status \in Waiting THEN "waiting"
    ELSE IF roll[r].status = "rejected" THEN "refused"
    ELSE IF roll[r].status \in Driving THEN "driving"
    ELSE IF ActiveTarget(roll[r]) THEN "restoring"
    ELSE "over"

Lifecycle == INSTANCE RolloutLifecycle WITH
    Targets  <- Uids,
    NoTarget <- None,
    phase    <- [r \in Rollouts |-> Phase(r)],
    target   <- [r \in Rollouts |-> roll[r].uid],
    sent     <- [r \in Rollouts |-> sends[r] > 0]

ImplementsLifecycle == Lifecycle!Spec

(***************************************************************************)
(* Liveness                                                                *)
(***************************************************************************)
Settled(r) ==
    /\ roll[r].status \in Terminal
    /\ ~ActiveTarget(roll[r])
    /\ act[r] \in {"executed", "failed"}

(***************************************************************************)
(* Whatever is lost on the way, a started rollout ends: it gets a terminal *)
(* status, its rollback is settled and its action closed, so the target is *)
(* free again (K8sRolloutReconciler).                                      *)
(***************************************************************************)
StartedRolloutsSettle ==
    \A r \in Rollouts : Started(r) ~> Settled(r)

(***************************************************************************)
(* An approved action is executed even when the request that approved it   *)
(* died: the reconciler picks it up (ListK8sRolloutActionsDue).            *)
(***************************************************************************)
ApprovedActionsRun ==
    \A r \in Rollouts : act[r] = "approved" ~> Started(r)

(***************************************************************************)
(* What RejectK8sRolloutWithAction is documented to guarantee: a rejected  *)
(* action has a rejected rollout.                                          *)
(***************************************************************************)
RejectionReachesBothLedgers ==
    \A r \in Rollouts : act[r] = "rejected" => roll[r].status = "rejected"
==============================================================================
