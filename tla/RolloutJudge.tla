---------------------------- MODULE RolloutJudge ----------------------------
(***************************************************************************)
(* The rollout row and what the hub makes of it: the predicates its        *)
(* queries and handlers share, the judgement of one reconcile, and the     *)
(* outcome each mutation writes back.  No state is kept here; RolloutLedger *)
(* and RolloutEvidence both use these operators.                           *)
(*                                                                         *)
(* A row is a record with the fields                                       *)
(*   status      k8s_rollout_actions.status                                *)
(*   rb          rollback_status                                           *)
(*   auto        auto_rollback                                             *)
(*   restorable  a Deployment whose previous template was saved            *)
(*   tgt         target_spec_hash and target_revision, NoBase when empty   *)
(* started_at is set exactly in the statuses outside Waiting and           *)
(* "rejected".  The statuses "requested", "pending", "rollback_running"    *)
(* and "cancelled" are read by some queries and written by none.           *)
(***************************************************************************)

CONSTANT NoBase     \* the empty target_spec_hash

Waiting      == {"approval_required", "approved"}
Driving      == {"running", "monitoring"}
Broken       == {"failed", "timed_out"}
Terminal     == Broken \cup {"succeeded", "rejected"}
RollbackOpen == {"requested", "running", "monitoring"}

Status         == Waiting \cup Driving \cup Terminal
RollbackStatus == RollbackOpen \cup {"", "failed", "succeeded"}
ActionStatus   == {"none", "approval_required", "approved", "running",
                   "executed", "failed", "rejected"}
ActionClosed   == {"executed", "failed", "rejected"}

\* How an external mutation ended for its client; "blocked" was never sent.
Outcome == {"ok", "error", "unknown", "blocked"}

NeedsRollback(row) == row.status \in Broken /\ row.auto /\ row.rb = ""

\* Mutant: a target is free again as soon as its rollout failed.
ActiveUntilFailure(row) == row.status \in Waiting \cup Driving

\* k8sRolloutActiveTargetPredicate; rolloutNeedsReconcile is the same test.
ActiveTarget(row) ==
    \/ row.status \in Waiting \cup Driving
    \/ row.rb \in RollbackOpen
    \/ NeedsRollback(row)

rolloutReconcileDue(row) ==
    \/ row.rb \in RollbackOpen
    \/ NeedsRollback(row)
    \/ row.status \in Driving

\* Mutant: only a request executes an approved action.
DueWithoutApproved(a, row) ==
    \/ rolloutReconcileDue(row)
    \/ row.status \in Terminal \ {"rejected"} /\ a = "running"

\* Mutant: a rollout that is over is no work, whatever its action says.
DueWithoutUnfinished(a, row) ==
    \/ rolloutReconcileDue(row)
    \/ row.status \in Waiting /\ a = "approved"

\* ListK8sRolloutActionsDue, for a row whose action has status a.
Due(a, row) ==
    \/ rolloutReconcileDue(row)
    \/ row.status \in Waiting /\ a = "approved"
    \/ row.status \in Terminal \ {"rejected"} /\ a = "running"

(***************************************************************************)
(* Evidence is what observeRollout and its caller read off the inventory:  *)
(*   found       the inventory has the workload                            *)
(*   other       it has another UID than the rollout's                     *)
(*   touched     MutationObserved or ControllerObserved                    *)
(*   failed      a fresh UID change, or an observed execution that failed  *)
(*   healthy     an observed execution with every replica healthy          *)
(*   restoreFailed, restored  the same for the rollback                    *)
(*   base        the spec and the revision it shows                        *)
(***************************************************************************)

\* Failure evidence comes before the timeout, the timeout before health.
JudgedStatus(row, ev, late) ==
    IF row.status \notin Driving THEN row.status
    ELSE IF ev.failed THEN "failed"
    ELSE IF late THEN "timed_out"
    ELSE IF ev.healthy THEN "succeeded"
    ELSE row.status

\* Mutant: the kind and the saved template are not checked.
RequestedBlindly(row, ev) == IF ev.other THEN "failed" ELSE "requested"

\* A rollback that has become due is asked for, or refused at once.
RequestedRollback(row, ev) ==
    IF ev.other \/ ~row.restorable THEN "failed" ELSE "requested"

\* A claim that outlived the grace period is taken back.
JudgedRollback(row, ev, rbLate) ==
    CASE row.rb = "running"    -> "requested"
      [] row.rb = "monitoring" -> IF ev.restoreFailed THEN "failed"
                                  ELSE IF ev.restored THEN "succeeded"
                                  ELSE IF rbLate THEN "failed"
                                  ELSE "monitoring"
      [] OTHER                 -> row.rb

(***************************************************************************)
(* reconcileRolloutContext from the row it read to the row it stores.  The *)
(* target is noted when the mutation is seen, and again when a rollback is *)
(* due: what failed becomes the baseline the rollback is judged against.   *)
(***************************************************************************)
Judge(row, ev, late, rbLate) ==
    LET status == JudgedStatus(row, ev, late)
        owed   == status \in Broken /\ row.auto /\ row.rb = ""
        noted  == (ev.touched /\ row.rb = "") \/ (owed /\ ev.found)
    IN  [row EXCEPT !.status = status,
                    !.tgt = IF noted THEN ev.base ELSE row.tgt,
                    !.rb = IF owed THEN RequestedRollback(row, ev)
                           ELSE JudgedRollback(row, ev, rbLate)]

(***************************************************************************)
(* What FinalizeK8sRolloutMutation writes: an unknown outcome leaves the   *)
(* action running and the rollout to the reconciler.                       *)
(***************************************************************************)
Refused(out) == out \in {"error", "blocked"}

\* Mutant: no answer counts as a refusal.
FailUnlessOk(out) == IF out = "ok" THEN "executed" ELSE "failed"

FinalAction(out) ==
    IF Refused(out) THEN "failed" ELSE IF out = "ok" THEN "executed" ELSE "running"

FinalRow(row, out) ==
    [row EXCEPT !.status = IF Refused(out) THEN "failed" ELSE "monitoring",
                !.rb = IF Refused(out) /\ row.auto THEN "failed" ELSE ""]

\* requestAutoRollback after its request.
RollbackRow(row, out) ==
    [row EXCEPT !.rb = IF Refused(out) THEN "failed" ELSE "monitoring"]

(***************************************************************************)
(* syncRolloutActionRequest: the evidence that closes an action which was  *)
(* left running.  mutated: the inventory shows the mutation now.           *)
(***************************************************************************)
SyncedAction(row, mutated) ==
    IF row.status = "succeeded" \/ row.tgt # NoBase \/ mutated
    THEN "executed" ELSE "failed"
=============================================================================
