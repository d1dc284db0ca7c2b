-------------------------- MODULE MigrationProofs --------------------------
(***************************************************************************)
(* Proofs about the two migrations that add a unique index: about          *)
(* TargetLockMigration for any number of rollouts, targets, starting       *)
(* replicas, attempts and failures, and about IncidentLedger, through its  *)
(* instance in MCMigrations, for any keys, scans, limits and bounds.       *)
(***************************************************************************)
EXTENDS MCMigrations, SequenceTheorems, WellFoundedInduction, TLAPS

(***************************************************************************)
(* The inductive invariant adds what a replica between its normalization   *)
(* and its commit relies on: it is the only one there, and the victims it  *)
(* chose are the victims still, because nobody writes.                     *)
(***************************************************************************)
AttemptsLeft ==
    \A m \in Replicas : mig[m].pc \in {"none", "normalized"}
                        => mig[m].attempt < MaxAttempts

Locked ==
    \A m, n \in Replicas :
        mig[m].pc = "normalized" /\ mig[n].pc = "normalized" => m = n

VictimsCurrent ==
    \A m \in Replicas : mig[m].pc = "normalized" => mig[m].victims = Victims

LockInv ==
    /\ TypeOK
    /\ AttemptsLeft
    /\ Locked
    /\ VictimsCurrent
    /\ OneActivePerTarget
    /\ IndexNeverConflicts
    /\ SupersededIsClosed

-----------------------------------------------------------------------------
(***************************************************************************)
(* The order in which the migration keeps rollouts                         *)
(***************************************************************************)
\* Any two rollouts are ordered, so that of two contenders one is a victim.
LEMMA BeforeTotal ==
    ASSUME NEW q \in Rollouts, NEW r \in Rollouts, q # r
    PROVE  Before(q, r) \/ Before(r, q)
<1>1. q < r \/ r < q
  BY RolloutsAssumption
<1>2. Recovering(q) \in BOOLEAN /\ Recovering(r) \in BOOLEAN
  BY DEF Recovering
<1>. QED BY <1>1, <1>2, Zenon DEF Before

\* A set of numbers that is not empty has a least one.
LEMMA LeastElement ==
    ASSUME NEW T \in SUBSET Nat, T # {}
    PROVE  \E x \in T : \A y \in T : x <= y
<1>. DEFINE R == {ss \in Nat \X Nat : ss[1] < ss[2]}
<1>1. IsWellFoundedOn(R, Nat)
  BY NatLessThanWellFounded DEF OpToRel
<1>. HIDE DEF R
<1>2. PICK x \in T : \A y \in T : ~(<<y, x>> \in R)
  BY <1>1, WFMin
<1>3. \A y \in T : ~(y < x)
  BY <1>2 DEF R
<1>. QED BY <1>3

\* What is left after the normalization holds every lock alone.
LEMMA VictimsSuffice == ~Duplicates(Victims)
<1>. SUFFICES ASSUME NEW q \in Rollouts \ Victims, NEW r \in Rollouts \ Victims,
                     Contend(q, r)
              PROVE  FALSE
  BY DEF Duplicates
<1>1. Contend(r, q)
  BY DEF Contend
<1>2. ~Before(q, r) /\ ~Before(r, q)
  BY <1>1 DEF Victims
<1>. QED BY <1>2, BeforeTotal DEF Contend

\* With the index nothing is given up.
LEMMA NoVictimsUnderIndex ==
    ASSUME OneActivePerTarget, index
    PROVE  Victims = {}
BY DEF OneActivePerTarget, Victims

\* Of the contenders with an open rollback the earliest is kept.
LEMMA OneRollbackSurvives ==
    ASSUME NEW r \in Victims, Recovering(r)
    PROVE  \E q \in Rollouts \ Victims :
              roll[q].uid = roll[r].uid /\ Locks(q) /\ Recovering(q)
<1>1. r \in Rollouts /\ Locks(r)
  BY DEF Victims, Contend
<1>. DEFINE T == {q \in Rollouts : /\ roll[q].uid = roll[r].uid
                                   /\ Locks(q) /\ Recovering(q)}
<1>2. T \in SUBSET Nat /\ T # {}
  BY <1>1, RolloutsAssumption
<1>. HIDE DEF T
<1>3. PICK q \in T : \A x \in T : q <= x
  BY <1>2, LeastElement
<1>4. q \in Rollouts /\ roll[q].uid = roll[r].uid /\ Locks(q) /\ Recovering(q)
  BY <1>3 DEF T
<1>5. q \notin Victims
  <2>. SUFFICES ASSUME NEW x \in Rollouts, Contend(x, q), Before(x, q)
                PROVE  FALSE
    BY <1>4 DEF Victims
  <2>1. Recovering(x) /\ x < q
    BY <1>4, RolloutsAssumption DEF Before
  <2>2. x \in T
    BY <1>4, <2>1 DEF T, Contend
  <2>. QED BY <1>2, <1>3, <2>1, <2>2
<1>. QED BY <1>4, <1>5

-----------------------------------------------------------------------------
(***************************************************************************)
(* The rows                                                                *)
(***************************************************************************)
\* A judgement keeps a row a row of the same target.
LEMMA JudgedRow ==
    ASSUME NEW row \in Row, NEW new \in Judgements[row]
    PROVE  new \in Row /\ new.uid = row.uid
<1>1. PICK ev \in Evidence, l \in BOOLEAN, m \in BOOLEAN : new = Judge(row, ev, l, m)
  BY DEF Judgements
<1>. DEFINE status == JudgedStatus(row, ev, l)
           owed   == status \in Broken /\ row.auto /\ row.rb = ""
           tgt    == IF (ev.touched /\ row.rb = "") \/ (owed /\ ev.found)
                     THEN ev.base ELSE row.tgt
           rb     == IF owed THEN RequestedRollback(row, ev)
                     ELSE JudgedRollback(row, ev, m)
<1>2. new = [row EXCEPT !.status = status, !.tgt = tgt, !.rb = rb]
  BY <1>1 DEF Judge
<1>3. status \in Status
  BY DEF JudgedStatus, Row, Status, Waiting, Driving, Terminal, Broken
<1>4. tgt \in {NoBase}
  BY DEF Row, Evidence
<1>5. rb \in RollbackStatus
  BY DEF RequestedRollback, JudgedRollback, Row, RollbackStatus, RollbackOpen
<1>. HIDE DEF status, tgt, rb
<1>. QED BY <1>2, <1>3, <1>4, <1>5 DEF Row

\* A rollout that was given up is in no state in which anybody works on it.
LEMMA SupersededIsIdle ==
    ASSUME SupersededIsClosed, NEW r \in superseded
    PROVE  /\ act[r] \in {"executed", "failed", "rejected"}
           /\ roll[r].status = "failed"
           /\ roll[r].rb = "failed"
           /\ ~rolloutReconcileDue(roll[r])
BY DEF SupersededIsClosed, ActionClosed, rolloutReconcileDue, NeedsRollback,
       RollbackOpen, Driving

-----------------------------------------------------------------------------
(***************************************************************************)
(* The replicas at work                                                    *)
(***************************************************************************)
(***************************************************************************)
(* A write to the rows of one rollout: it is not one that was given up,    *)
(* and it takes no lock, or a free one.                                    *)
(***************************************************************************)
LEMMA WriteOK ==
    ASSUME LockInv, NEW r \in Rollouts, NEW a \in ActionStatus \ {"none"},
           NEW row \in Row, Write(r, a, row), r \notin superseded,
           IF Exists(r)
           THEN row.uid = roll[r].uid /\ (ActiveTarget(row) => ActiveTarget(roll[r]))
           ELSE ~Taken(row.uid)
    PROVE  LockInv'
<1>1. act \in [Rollouts -> ActionStatus] /\ roll \in [Rollouts -> Row]
  BY DEF LockInv, TypeOK
<1>2. UNCHANGED <<index, mig, superseded, faults>> /\ MayWrite
  BY DEF Write
<1>3. /\ act' \in [Rollouts -> ActionStatus] /\ act'[r] = a
      /\ \A q \in Rollouts \ {r} : act'[q] = act[q]
      /\ roll' \in [Rollouts -> Row] /\ roll'[r] = row
      /\ \A q \in Rollouts \ {r} : roll'[q] = roll[q]
  BY <1>1 DEF Write
<1>4. TypeOK' /\ AttemptsLeft' /\ Locked' /\ IndexNeverConflicts'
  BY <1>2, <1>3 DEF LockInv, TypeOK, AttemptsLeft, Locked, IndexNeverConflicts
<1>5. VictimsCurrent'
  BY <1>2 DEF VictimsCurrent, MayWrite
<1>6. SupersededIsClosed'
  BY <1>2, <1>3 DEF LockInv, TypeOK, SupersededIsClosed
<1>7. OneActivePerTarget'
  <2>. SUFFICES ASSUME index, NEW p \in Rollouts, NEW q \in Rollouts,
                       Contend(p, q)'
                PROVE  FALSE
    BY <1>2 DEF OneActivePerTarget
  <2>1. \A x \in Rollouts \ {r} : Locks(x)' = Locks(x)
    BY <1>3 DEF Locks, Exists
  <2>2. CASE Exists(r)
    <3>1. Locks(r)' => Locks(r)
      BY <1>3, <2>2 DEF Locks, Exists
    <3>2. roll'[p].uid = roll[p].uid /\ roll'[q].uid = roll[q].uid
      BY <1>3, <2>2
    <3>3. Contend(p, q)
      BY <2>1, <3>1, <3>2 DEF Contend
    <3>. QED BY <3>3 DEF LockInv, OneActivePerTarget
  <2>3. CASE ~Exists(r)
    <3>1. \A x \in Rollouts \ {r} : Locks(x) => roll[x].uid # row.uid
      BY <2>3 DEF Taken
    <3>2. CASE p # r /\ q # r
      BY <1>3, <2>1, <3>2 DEF Contend, LockInv, OneActivePerTarget
    <3>3. CASE p = r \/ q = r
      BY <1>3, <2>1, <3>1, <3>3 DEF Contend
    <3>. QED BY <3>2, <3>3
  <2>. QED BY <2>2, <2>3
<1>. QED BY <1>4, <1>5, <1>6, <1>7 DEF LockInv

\* A new rollout finds its target free in the index that exists.
LEMMA InsertOK ==
    ASSUME LockInv, NEW r \in Rollouts, NEW uid \in Uids, NEW direct \in BOOLEAN,
           NEW auto \in BOOLEAN, InsertK8sRolloutRequest(r, uid, direct, auto)
    PROVE  LockInv'
<1>. DEFINE status == IF direct THEN "approved" ELSE "approval_required"
           row == [NoRow EXCEPT !.status = status, !.auto = auto, !.uid = uid]
<1>1. ~Exists(r) /\ ~Taken(uid) /\ Write(r, status, row)
  BY DEF InsertK8sRolloutRequest
<1>2. status \in ActionStatus \ {"none"}
  BY DEF ActionStatus
<1>3. row \in Row /\ row.uid = uid
  BY DEF NoRow, Row, Status, Waiting, RollbackStatus
<1>4. r \notin superseded
  BY <1>1, SupersededIsIdle DEF LockInv, Exists
<1>. HIDE DEF status, row
<1>. QED BY <1>1, <1>2, <1>3, <1>4, WriteOK

\* The Action Center and the rejection write to what waits for a decision.
LEMMA DecisionOK ==
    ASSUME LockInv, NEW r \in Rollouts,
           \/ \E verdict \in {"approved", "rejected"} : DecideInActionCenter(r, verdict)
           \/ RejectK8sRolloutWithAction(r)
    PROVE  LockInv'
<1>1. act[r] = "approval_required" /\ Exists(r) /\ roll[r] \in Row
  BY DEF DecideInActionCenter, RejectK8sRolloutWithAction, Exists, LockInv, TypeOK
<1>2. r \notin superseded
  BY <1>1, SupersededIsIdle DEF LockInv
<1>3. CASE \E verdict \in {"approved", "rejected"} : DecideInActionCenter(r, verdict)
  <2>1. PICK verdict \in ActionStatus \ {"none"} : Write(r, verdict, roll[r])
    BY <1>3 DEF DecideInActionCenter, ActionStatus
  <2>. QED BY <1>1, <1>2, <2>1, WriteOK
<1>4. CASE RejectK8sRolloutWithAction(r)
  <2>. DEFINE row == [roll[r] EXCEPT !.status = "rejected"]
  <2>1. Write(r, "rejected", row) /\ "rejected" \in ActionStatus \ {"none"}
    BY <1>4 DEF RejectK8sRolloutWithAction, ActionStatus
  <2>2. /\ row \in Row /\ row.uid = roll[r].uid
        /\ ActiveTarget(row) => ActiveTarget(roll[r])
    BY <1>1 DEF Row, Status, Terminal, ActiveTarget, Waiting, Driving,
       NeedsRollback, Broken
  <2>. HIDE DEF row
  <2>. QED BY <1>1, <1>2, <2>1, <2>2, WriteOK
<1>. QED BY <1>3, <1>4

\* The start and the outcome write to a rollout that holds its target anyway.
LEMMA ExecutionOK ==
    ASSUME LockInv, NEW r \in Rollouts,
           \/ StartK8sRolloutExecution(r)
           \/ \E out \in Outcome : FinalizeK8sRolloutMutation(r, out)
    PROVE  LockInv'
<1>1. roll[r] \in Row
  BY DEF LockInv, TypeOK
<1>2. CASE StartK8sRolloutExecution(r)
  <2>. DEFINE row == [roll[r] EXCEPT !.status = "running"]
  <2>1. /\ Write(r, "running", row) /\ "running" \in ActionStatus \ {"none"}
        /\ Exists(r) /\ ActiveTarget(roll[r]) /\ r \notin superseded
    BY <1>2, SupersededIsIdle
       DEF StartK8sRolloutExecution, ActionStatus, Exists, ActiveTarget, LockInv
  <2>2. row \in Row /\ row.uid = roll[r].uid
    BY <1>1 DEF Row, Status, Driving
  <2>. HIDE DEF row
  <2>. QED BY <2>1, <2>2, WriteOK
<1>3. ASSUME NEW out \in Outcome, FinalizeK8sRolloutMutation(r, out)
      PROVE  LockInv'
  <2>. DEFINE row == FinalRow(roll[r], out)
  <2>1. /\ Write(r, FinalAction(out), row) /\ FinalAction(out) \in ActionStatus \ {"none"}
        /\ Exists(r) /\ ActiveTarget(roll[r]) /\ r \notin superseded
    BY <1>3, SupersededIsIdle
       DEF FinalizeK8sRolloutMutation, FinalAction, ActionStatus, Exists,
           ActiveTarget, Driving, LockInv
  <2>2. row \in Row /\ row.uid = roll[r].uid
    BY <1>1 DEF FinalRow, Row, Status, Driving, Terminal, Broken, RollbackStatus
  <2>. HIDE DEF row
  <2>. QED BY <2>1, <2>2, WriteOK
<1>. QED BY <1>2, <1>3

\* A reconcile and a rollback write to a rollout that is due, so it holds on.
LEMMA ReconcileOK ==
    ASSUME LockInv, NEW r \in Rollouts,
           \/ ReconcileRollout(r)
           \/ ClaimRollback(r)
           \/ \E out \in Outcome : FinishRollback(r, out)
    PROVE  LockInv'
<1>1. /\ roll[r] \in Row /\ Exists(r) /\ act[r] \in ActionStatus \ {"none"}
      /\ rolloutReconcileDue(roll[r])
  BY DEF ReconcileRollout, ClaimRollback, FinishRollback, rolloutReconcileDue,
         RollbackOpen, Exists, LockInv, TypeOK
<1>2. r \notin superseded /\ ActiveTarget(roll[r])
  BY <1>1, SupersededIsIdle DEF LockInv, rolloutReconcileDue, ActiveTarget
<1>3. PICK row : Write(r, act[r], row) /\ row \in Row /\ row.uid = roll[r].uid
  <2>1. CASE ReconcileRollout(r)
    BY <1>1, <2>1, JudgedRow DEF ReconcileRollout
  <2>2. CASE ClaimRollback(r)
    <3>1. /\ [roll[r] EXCEPT !.rb = "running"] \in Row
          /\ [roll[r] EXCEPT !.rb = "running"].uid = roll[r].uid
      BY <1>1 DEF Row, RollbackStatus, RollbackOpen
    <3>. QED BY <2>2, <3>1 DEF ClaimRollback
  <2>3. ASSUME NEW out \in Outcome, FinishRollback(r, out)
        PROVE  \E row : Write(r, act[r], row) /\ row \in Row /\ row.uid = roll[r].uid
    <3>1. RollbackRow(roll[r], out) \in Row /\ RollbackRow(roll[r], out).uid = roll[r].uid
      BY <1>1 DEF RollbackRow, Row, RollbackStatus, RollbackOpen
    <3>. QED BY <2>3, <3>1 DEF FinishRollback
  <2>. QED BY <2>1, <2>2, <2>3
<1>. QED BY <1>1, <1>2, <1>3, WriteOK

\* Closing the action leaves the rollout's row.
LEMMA SyncOK ==
    ASSUME LockInv, NEW r \in Rollouts, NEW mutated \in BOOLEAN,
           SyncAction(r, mutated)
    PROVE  LockInv'
<1>. DEFINE a == SyncedAction(roll[r], mutated)
<1>1. a \in ActionStatus \ {"none"}
  BY DEF SyncedAction, ActionStatus
<1>2. Write(r, a, roll[r]) /\ Exists(r) /\ roll[r] \in Row /\ r \notin superseded
  BY SupersededIsIdle DEF SyncAction, Exists, LockInv, TypeOK
<1>. HIDE DEF a
<1>. QED BY <1>1, <1>2, WriteOK

-----------------------------------------------------------------------------
(***************************************************************************)
(* The migration                                                           *)
(***************************************************************************)
\* What contends, and who loses, is a matter of the two tables.
LEMMA SameRows ==
    ASSUME UNCHANGED ledger
    PROVE  /\ Victims' = Victims
           /\ \A q, r \in Rollouts : Contend(q, r)' = Contend(q, r)
BY DEF ledger, Victims, Contend, Locks, Exists, Before, Recovering

\* A replica moves on and the tables stay as they are.
LEMMA ReplicaStep ==
    ASSUME LockInv, NEW m \in Replicas, NEW new \in Migration,
           mig' = [mig EXCEPT ![m] = new],
           UNCHANGED <<ledger, index, superseded>>, faults' \in 0 .. MaxFaults,
           new.pc # "conflict",
           new.pc \in {"none", "normalized"} => new.attempt < MaxAttempts,
           new.pc = "normalized" => MayWrite /\ new.victims = Victims
    PROVE  LockInv'
<1>1. /\ mig' \in [Replicas -> Migration] /\ mig'[m] = new
      /\ \A n \in Replicas \ {m} : mig'[n] = mig[n]
  BY DEF LockInv, TypeOK
<1>2. TypeOK'
  BY <1>1 DEF LockInv, TypeOK, ledger
<1>3. AttemptsLeft' /\ IndexNeverConflicts'
  BY <1>1 DEF LockInv, AttemptsLeft, IndexNeverConflicts
<1>4. Locked'
  BY <1>1 DEF LockInv, Locked, MayWrite
<1>5. VictimsCurrent'
  BY <1>1, SameRows DEF LockInv, VictimsCurrent
<1>6. OneActivePerTarget'
  BY SameRows DEF LockInv, OneActivePerTarget
<1>7. SupersededIsClosed'
  BY DEF LockInv, SupersededIsClosed, ledger
<1>. QED BY <1>2, <1>3, <1>4, <1>5, <1>6, <1>7 DEF LockInv

\* An attempt that is rolled back is counted.
LEMMA FailedRecord ==
    ASSUME LockInv, NEW m \in Replicas, mig[m].pc \in {"none", "normalized"},
           Failed(m, "busy")
    PROVE  \E new \in Migration :
              /\ mig' = [mig EXCEPT ![m] = new]
              /\ new.pc \in {"none", "busy"}
              /\ new.pc = "none" => new.attempt < MaxAttempts
<1>. DEFINE new == [pc |-> IF mig[m].attempt + 1 = MaxAttempts THEN "busy" ELSE "none",
                    attempt |-> mig[m].attempt + 1, victims |-> {}]
<1>1. mig[m].attempt \in Nat /\ mig[m].attempt < MaxAttempts
  BY LimitsAssumption DEF LockInv, TypeOK, AttemptsLeft, Migration
<1>2. mig[m].attempt + 1 \in 0 .. MaxAttempts
  BY <1>1, LimitsAssumption
<1>3. new \in Migration
  BY <1>2 DEF Migration
<1>4. new.pc \in {"none", "busy"} /\ (new.pc = "none" => new.attempt < MaxAttempts)
  BY <1>1, LimitsAssumption
<1>5. mig' = [mig EXCEPT ![m] = new]
  BY DEF Failed
<1>. HIDE DEF new
<1>. QED BY <1>3, <1>4, <1>5

\* The normalization takes the lock, and reads the victims under it.
LEMMA NormalizeOK ==
    ASSUME LockInv, NEW m \in Replicas, Normalize(m)
    PROVE  LockInv'
<1>. DEFINE new == [mig[m] EXCEPT !.pc = "normalized", !.victims = Victims]
<1>1. mig[m] \in Migration /\ mig \in [Replicas -> Migration]
  BY DEF LockInv, TypeOK
<1>2. Victims \in SUBSET Rollouts
  BY DEF Victims
<1>3. new \in Migration /\ new.pc = "normalized" /\ new.victims = Victims
      /\ new.attempt = mig[m].attempt
  BY <1>1, <1>2 DEF Migration
<1>4. mig' = [mig EXCEPT ![m] = new]
  BY <1>1 DEF Normalize
<1>5. MayWrite /\ UNCHANGED <<ledger, index, superseded>> /\ faults' \in 0 .. MaxFaults
      /\ mig[m].attempt < MaxAttempts
  BY DEF Normalize, LockInv, TypeOK, AttemptsLeft
<1>. HIDE DEF new
<1>. QED BY <1>3, <1>4, <1>5, ReplicaStep

\* A start that fails, and one that begins again, touch no table.
LEMMA RestartOK ==
    ASSUME LockInv, NEW m \in Replicas, AttemptFails(m) \/ StartAgain(m)
    PROVE  LockInv'
<1>1. UNCHANGED <<ledger, index, superseded>>
  BY DEF AttemptFails, StartAgain
<1>2. CASE AttemptFails(m)
  <2>1. faults' \in 0 .. MaxFaults
    BY <1>2, LimitsAssumption DEF AttemptFails, LockInv, TypeOK
  <2>2. PICK new \in Migration : /\ mig' = [mig EXCEPT ![m] = new]
                                 /\ new.pc \in {"none", "busy"}
                                 /\ new.pc = "none" => new.attempt < MaxAttempts
    BY <1>2, FailedRecord DEF AttemptFails
  <2>. QED BY <1>1, <2>1, <2>2, ReplicaStep
<1>3. CASE StartAgain(m)
  <2>1. faults' \in 0 .. MaxFaults /\ mig' = [mig EXCEPT ![m] = Fresh]
    BY <1>3 DEF StartAgain, LockInv, TypeOK
  <2>2. Fresh \in Migration /\ Fresh.pc = "none" /\ Fresh.attempt < MaxAttempts
    BY LimitsAssumption DEF Fresh, Migration
  <2>. QED BY <1>1, <2>1, <2>2, ReplicaStep
<1>. QED BY <1>2, <1>3

(***************************************************************************)
(* The commit: the victims are closed in both tables, and what is left     *)
(* holds every lock alone, so the unique index can be built.               *)
(***************************************************************************)
LEMMA CreateIndexOK ==
    ASSUME LockInv, NEW m \in Replicas, CreateIndex(m)
    PROVE  LockInv'
<1>1. /\ mig \in [Replicas -> Migration] /\ mig[m].pc = "normalized"
      /\ mig[m].victims = Victims /\ Victims \subseteq Rollouts
  BY DEF CreateIndex, LockInv, TypeOK, VictimsCurrent, Victims
<1>2. /\ act' = [r \in Rollouts |-> IF r \in Victims /\ act[r] \in OpenAction
                                    THEN "failed" ELSE act[r]]
      /\ roll' = [r \in Rollouts |-> IF r \in Victims THEN VictimRow(roll[r])
                                     ELSE roll[r]]
      /\ index' = TRUE
      /\ superseded' = superseded \cup Victims
      /\ mig' = [mig EXCEPT ![m].pc = "done", ![m].victims = {}]
      /\ faults' = faults
  BY <1>1, VictimsSuffice DEF CreateIndex
<1>3. /\ mig' \in [Replicas -> Migration] /\ mig'[m].pc = "done"
      /\ \A n \in Replicas \ {m} : mig'[n] = mig[n]
  BY <1>1, <1>2 DEF Migration
<1>4. \A r \in Rollouts : roll[r] \in Row /\ act[r] \in ActionStatus
  BY DEF LockInv, TypeOK
<1>5. \A r \in Rollouts : /\ VictimRow(roll[r]) \in Row
                          /\ VictimRow(roll[r]).status = "failed"
                          /\ VictimRow(roll[r]).rb = "failed"
                          /\ VictimRow(roll[r]).uid = roll[r].uid
  BY <1>4 DEF VictimRow, Row, Status, Terminal, Broken, RollbackStatus
<1>6. TypeOK'
  <2>1. act' \in [Rollouts -> ActionStatus]
    BY <1>2, <1>4 DEF ActionStatus
  <2>2. roll' \in [Rollouts -> Row]
    BY <1>2, <1>4, <1>5
  <2>. QED BY <1>1, <1>2, <1>3, <2>1, <2>2 DEF LockInv, TypeOK
<1>7. AttemptsLeft' /\ Locked' /\ IndexNeverConflicts' /\ VictimsCurrent'
  <2>1. \A n \in Replicas : mig'[n].pc # "normalized"
    BY <1>1, <1>3 DEF LockInv, Locked
  <2>. QED BY <1>3, <2>1
       DEF LockInv, AttemptsLeft, Locked, IndexNeverConflicts, VictimsCurrent
<1>8. OneActivePerTarget'
  <2>. SUFFICES ASSUME NEW p \in Rollouts, NEW q \in Rollouts, Contend(p, q)'
                PROVE  FALSE
    BY DEF OneActivePerTarget
  <2>1. p \notin Victims /\ q \notin Victims
    <3>1. \A r \in Victims : ~Locks(r)'
      BY <1>1, <1>2, <1>5
         DEF Locks, ActiveTarget, Waiting, Driving, RollbackOpen, NeedsRollback
    <3>. QED BY <3>1 DEF Contend
  <2>2. Contend(p, q)
    BY <1>2, <2>1 DEF Contend, Locks, Exists
  <2>. QED BY <2>1, <2>2, VictimsSuffice DEF Duplicates
<1>9. SupersededIsClosed'
  <2>. SUFFICES ASSUME NEW r \in superseded'
                PROVE  /\ act'[r] \in ActionClosed
                       /\ roll'[r].status = "failed" /\ roll'[r].rb = "failed"
    BY DEF SupersededIsClosed
  <2>1. r \in Rollouts
    BY <1>1, <1>2 DEF LockInv, TypeOK
  <2>2. CASE r \in Victims
    <3>1. act[r] # "none"
      BY <2>2 DEF Victims, Contend, Locks, Exists
    <3>. QED BY <1>2, <1>4, <1>5, <2>1, <2>2, <3>1
             DEF ActionStatus, ActionClosed, OpenAction
  <2>3. CASE r \notin Victims
    BY <1>2, <2>1, <2>3 DEF LockInv, SupersededIsClosed, ActionClosed, OpenAction
  <2>. QED BY <2>2, <2>3
<1>. QED BY <1>6, <1>7, <1>8, <1>9 DEF LockInv

-----------------------------------------------------------------------------
(***************************************************************************)
(* The invariant                                                           *)
(***************************************************************************)
\* Nothing was requested and nobody migrates.
LEMMA InitOK == Init => LockInv
<1>. SUFFICES ASSUME Init PROVE LockInv
  OBVIOUS
<1>1. NoRow \in Row
  BY DEF NoRow, Row, Status, Terminal, RollbackStatus
<1>2. Fresh \in Migration
  BY LimitsAssumption DEF Fresh, Migration
<1>3. TypeOK
  <2>1. act \in [Rollouts -> ActionStatus]
    BY DEF Init, ActionStatus
  <2>2. roll \in [Rollouts -> Row] /\ mig \in [Replicas -> Migration]
    BY <1>1, <1>2 DEF Init
  <2>3. index \in BOOLEAN /\ superseded \subseteq Rollouts /\ faults \in 0 .. MaxFaults
    <3>1. index = FALSE /\ superseded = {} /\ faults = 0
      BY DEF Init
    <3>2. 0 \in 0 .. MaxFaults
      BY LimitsAssumption
    <3>. QED BY <3>1, <3>2
  <2>. QED BY <2>1, <2>2, <2>3 DEF TypeOK
<1>4. /\ AttemptsLeft /\ Locked /\ VictimsCurrent /\ IndexNeverConflicts
      /\ OneActivePerTarget /\ SupersededIsClosed
  BY LimitsAssumption
     DEF Init, Fresh, AttemptsLeft, Locked, VictimsCurrent, IndexNeverConflicts,
         OneActivePerTarget, SupersededIsClosed
<1>. QED BY <1>3, <1>4 DEF LockInv

\* Every transaction of a replica of either release preserves it.
LEMMA NextOK ==
    ASSUME LockInv, [Next]_vars
    PROVE  LockInv'
<1>1. CASE UNCHANGED vars
  <2>1. UNCHANGED <<act, roll, index, mig, superseded, faults>>
    BY <1>1 DEF vars, ledger
  <2>2. Victims' = Victims
    BY <2>1, SameRows DEF ledger
  <2>3. OneActivePerTarget'
    BY <2>1, SameRows DEF ledger, LockInv, OneActivePerTarget
  <2>. QED BY <2>1, <2>2, <2>3
       DEF LockInv, TypeOK, AttemptsLeft, Locked, VictimsCurrent,
           IndexNeverConflicts, SupersededIsClosed
<1>2. ASSUME NEW r \in Rollouts, Work(r)
      PROVE  LockInv'
  BY <1>2, InsertOK, DecisionOK, ExecutionOK, ReconcileOK, SyncOK DEF Work
<1>3. ASSUME NEW m \in Replicas, Migrate(m)
      PROVE  LockInv'
  BY <1>3, NormalizeOK, CreateIndexOK, RestartOK DEF Migrate
<1>. QED BY <1>1, <1>2, <1>3 DEF Next

\* Every reachable state of the upgrade satisfies the invariant.
THEOREM LockInvariance == Spec => []LockInv
<1>1. LockInv /\ [Next]_vars => LockInv'
  BY NextOK
<1>. QED BY InitOK, <1>1, PTL DEF Spec

(***************************************************************************)
(* However many replicas migrate, fail and write at once: with the index a *)
(* target has one active rollout, the index is never refused, and what the *)
(* migration gave up stays closed.                                         *)
(***************************************************************************)
THEOREM TargetLockHolds == Spec => []TargetLockInv
<1>1. LockInv => TargetLockInv
  BY DEF LockInv, TargetLockInv
<1>. QED BY <1>1, LockInvariance, PTL

(***************************************************************************)
(* A migration gives up rollouts only before the index exists, and never   *)
(* the last open rollback of a target.                                     *)
(***************************************************************************)
THEOREM OpenRollbackSurvives == Spec => OpenRollbackKept
<1>1. LockInv /\ [Next]_vars => KeepsOpenRollback
  <2>. SUFFICES ASSUME LockInv, Next, superseded' # superseded
                PROVE  ~index /\ \A r \in superseded' : Recovering(r) =>
                          \E q \in Rollouts \ superseded' :
                             roll[q].uid = roll[r].uid /\ Locks(q) /\ Recovering(q)
    BY DEF KeepsOpenRollback, vars
  <2>1. PICK m \in Replicas : CreateIndex(m)
    BY DEF Next, Work, Migrate, InsertK8sRolloutRequest, DecideInActionCenter,
           RejectK8sRolloutWithAction, StartK8sRolloutExecution,
           FinalizeK8sRolloutMutation, FinishRollback, ReconcileRollout,
           ClaimRollback, SyncAction, Write, Normalize, AttemptFails, StartAgain
  <2>2. superseded' = superseded \cup Victims
    BY <2>1 DEF CreateIndex, LockInv, VictimsCurrent
  <2>3. ~index
    BY <2>2, NoVictimsUnderIndex DEF LockInv
  <2>4. \A r \in superseded : ~Recovering(r) /\ ~Locks(r)
    BY SupersededIsIdle
       DEF LockInv, Recovering, RollbackOpen, Locks, ActiveTarget, Waiting,
           Driving, NeedsRollback
  <2>5. ASSUME NEW r \in superseded', Recovering(r)
        PROVE  \E q \in Rollouts \ superseded' :
                  roll[q].uid = roll[r].uid /\ Locks(q) /\ Recovering(q)
    BY <2>2, <2>4, <2>5, OneRollbackSurvives
  <2>. QED BY <2>3, <2>5
<1>. QED BY <1>1, LockInvariance, PTL DEF Spec, OpenRollbackKept

-----------------------------------------------------------------------------
(***************************************************************************)
(* The incidents                                                           *)
(***************************************************************************)
(***************************************************************************)
(* The order of the incidents is a permutation of them.                    *)
(***************************************************************************)
Permutes(s, n) == s \in [1..n -> 1..n] /\ \A v \in 1..n : \E q \in 1..n : s[q] = v

\* In the words of the type invariant.
LEMMA PermutesType ==
  ASSUME NEW n \in Nat, NEW s
  PROVE  Permutes(s, n) <=> s \in Seq(1..n) /\ Len(s) = n /\ Incidents!ToSet(s) = 1..n
<1>1. ASSUME Permutes(s, n)
      PROVE  s \in Seq(1..n) /\ Len(s) = n /\ Incidents!ToSet(s) = 1..n
  BY <1>1 DEF Permutes, Incidents!ToSet
<1>2. ASSUME s \in Seq(1..n), Len(s) = n, Incidents!ToSet(s) = 1..n
      PROVE  Permutes(s, n)
  <2>1. s \in [1..n -> 1..n]
    BY <1>2
  <2>. QED BY <1>2, <2>1 DEF Permutes, Incidents!ToSet
<1>. QED BY <1>1, <1>2

\* It stays one when one of them is moved to the end.
LEMMA TouchPermutes ==
  ASSUME NEW n \in Nat, NEW s, Permutes(s, n), NEW p \in 1..n
  PROVE  Permutes(Append(Incidents!RemoveAt(s, p), s[p]), n)
<1>. DEFINE a == SubSeq(s, 1, p - 1)
            b == SubSeq(s, p + 1, n)
            c == a \o b
            t == Append(c, s[p])
<1>0. s \in Seq(1..n) /\ Len(s) = n
  BY PermutesType
<1>1. a \in Seq(1..n) /\ Len(a) = p - 1 /\ \A q \in 1..(p - 1) : a[q] = s[q]
  BY <1>0
<1>2. b \in Seq(1..n) /\ Len(b) = n - p /\ \A q \in 1..(n - p) : b[q] = s[p + q]
  BY <1>0
<1>3. Incidents!RemoveAt(s, p) = c
  BY <1>0 DEF Incidents!RemoveAt
<1>. HIDE DEF a, b
<1>4. c \in Seq(1..n) /\ Len(c) = n - 1
  <2>1. a \in Seq(1..n) /\ b \in Seq(1..n)
    BY <1>1, <1>2
  <2>2. a \o b \in Seq(1..n) /\ Len(a \o b) = Len(a) + Len(b)
    BY <2>1, ConcatProperties
  <2>. QED BY <1>1, <1>2, <2>2
<1>5. ASSUME NEW q \in 1..(n - 1)
      PROVE  c[q] = IF q < p THEN s[q] ELSE s[q + 1]
  <2>1. CASE q < p
    <3>1. c[q] = a[q]
      BY <1>1, <1>2, <2>1, ConcatProperties
    <3>. QED BY <1>1, <2>1, <3>1
  <2>2. CASE ~(q < p)
    <3>1. c[q] = b[q - (p - 1)]
      BY <1>1, <1>2, <2>2, ConcatProperties
    <3>2. q - (p - 1) \in 1..(n - p) /\ p + (q - (p - 1)) = q + 1
      BY <2>2
    <3>. QED BY <1>2, <2>2, <3>1, <3>2
  <2>. QED BY <2>1, <2>2
<1>. HIDE DEF c
<1>6. s[p] \in 1..n
  BY DEF Permutes
<1>7. t \in Seq(1..n) /\ Len(t) = n /\ t[n] = s[p] /\ \A q \in 1..(n - 1) : t[q] = c[q]
  BY <1>4, <1>6, AppendProperties
<1>. HIDE DEF t
<1>8. t \in [1..n -> 1..n]
  BY <1>7
<1>9. ASSUME NEW v \in 1..n
      PROVE  \E q \in 1..n : t[q] = v
  <2>1. PICK q \in 1..n : s[q] = v
    BY DEF Permutes
  <2>2. CASE q < p
    <3>1. q \in 1..(n - 1)
      BY <2>2
    <3>. QED BY <1>5, <1>7, <2>1, <2>2, <3>1
  <2>3. CASE q = p
    BY <1>7, <2>1, <2>3
  <2>4. CASE q > p
    <3>1. q - 1 \in 1..(n - 1) /\ ~(q - 1 < p) /\ (q - 1) + 1 = q
      BY <2>4
    <3>2. t[q - 1] = v
      BY <1>5, <1>7, <2>1, <3>1
    <3>. QED BY <3>1, <3>2
  <2>. QED BY <2>2, <2>3, <2>4
<1>10. Permutes(t, n)
  BY <1>8, <1>9 DEF Permutes
<1>. QED BY <1>3, <1>10 DEF t

\* A new incident is the last one.
LEMMA AppendPermutes ==
  ASSUME NEW n \in Nat, NEW s, Permutes(s, n)
  PROVE  Permutes(Append(s, n + 1), n + 1)
<1>. DEFINE t == Append(s, n + 1)
<1>1. s \in Seq(Nat) /\ Len(s) = n /\ s \in Seq(1..n)
  BY PermutesType
<1>2. Len(t) = n + 1 /\ t[n + 1] = n + 1 /\ \A q \in 1..n : t[q] = s[q]
  BY <1>1, AppendProperties
<1>3. t \in Seq(Nat)
  BY <1>1, AppendProperties
<1>. HIDE DEF t
<1>4. t \in [1..(n + 1) -> 1..(n + 1)]
  <2>1. ASSUME NEW q \in 1..(n + 1)
        PROVE  t[q] \in 1..(n + 1)
    <3>1. CASE q = n + 1
      BY <1>2, <3>1
    <3>2. CASE q \in 1..n
      <4>1. s[q] \in 1..n
        BY <3>2 DEF Permutes
      <4>. QED BY <1>2, <3>2, <4>1
    <3>. QED BY <3>1, <3>2
  <2>. QED BY <1>2, <1>3, <2>1
<1>5. ASSUME NEW v \in 1..(n + 1)
      PROVE  \E q \in 1..(n + 1) : t[q] = v
  <2>1. CASE v = n + 1
    BY <1>2, <2>1
  <2>2. CASE v \in 1..n
    <3>1. PICK q \in 1..n : s[q] = v
      BY <2>2 DEF Permutes
    <3>. QED BY <1>2, <3>1
  <2>. QED BY <2>1, <2>2
<1>. QED BY <1>4, <1>5 DEF Permutes, t

\* A set of numbers with a bound has a greatest one.
LEMMA GreatestElement ==
    ASSUME NEW n \in Nat, NEW T \in SUBSET (1..n), T # {}
    PROVE  \E x \in T : \A y \in T : y <= x
<1>. DEFINE D == {n - x : x \in T}
<1>1. D \in SUBSET Nat /\ D # {}
  <2>1. \A x \in T : n - x \in Nat
    OBVIOUS
  <2>. QED BY <2>1
<1>2. PICK d \in D : \A e \in D : d <= e
  BY <1>1, LeastElement
<1>3. PICK x \in T : d = n - x
  BY <1>2
<1>4. ASSUME NEW y \in T
      PROVE  y <= x
  <2>1. n - y \in D
    OBVIOUS
  <2>2. d <= n - y
    BY <1>2, <2>1
  <2>. QED BY <1>3, <2>2
<1>. QED BY <1>4

-----------------------------------------------------------------------------
(***************************************************************************)
(* The invariant                                                           *)
(***************************************************************************)
Upgrade == [pc : {"none", "normalized", "busy", "conflict", "done"},
            attempt : 0..MaxAttempts, victims : SUBSET Incidents!Ids]

\* The rows, and what is known of them.
IncidentTypes ==
  /\ signal \subseteq Keys
  /\ incident \in Seq(Incidents!Incident) /\ Len(incident) <= MaxIncidents
  /\ Permutes(order, Len(incident))
  /\ scan \in [Scanners -> Incidents!Scan]
  /\ unique \in BOOLEAN
  /\ upgrade \in Upgrade
  /\ changes \in 0..MaxChanges
  /\ lost \in 0..MaxLost

(***************************************************************************)
(* A scan resolves what was listed without a live signal, and what it      *)
(* takes for gone was gone during it, unless its metrics were unreadable.  *)
(***************************************************************************)
ScanOK(k) ==
  LET s == scan[k]
  IN /\ s.todo \subseteq 1..Len(incident)
     /\ s.pc = "resolve" =>
          \A i \in s.todo : incident[i].key \in Predictive \ s.active
     /\ lost = 0 /\ s.pc # "idle" => Predictive \ s.active \subseteq s.missing

(***************************************************************************)
(* The migration's victims are the duplicates of the rows as they are: its *)
(* lock keeps the writers away.                                            *)
(***************************************************************************)
UpgradeOK ==
  /\ upgrade.pc # "conflict"
  /\ upgrade.pc \in {"none", "normalized"} => upgrade.attempt < MaxAttempts
  /\ upgrade.pc = "normalized" => upgrade.victims = Incidents!Victims

ScansInv ==
  /\ IncidentTypes
  /\ \A k \in Scanners : ScanOK(k)
  /\ UpgradeOK
  /\ Incidents!OneOpenPerKey

USE IncidentAssumption

\* A row is a record; the listing and the open rows are rows.
LEMMA RowsInRange ==
  ASSUME IncidentTypes
  PROVE  /\ Len(incident) \in Nat
         /\ DOMAIN incident = 1..Len(incident)
         /\ DOMAIN order = 1..Len(incident)
         /\ \A i \in 1..Len(incident) : incident[i] \in Incidents!Incident
         /\ 1..Len(incident) \subseteq Incidents!Ids
         /\ Incidents!Open \subseteq 1..Len(incident)
         /\ Incidents!Listed \subseteq Incidents!Open
<1>1. Len(incident) \in Nat /\ DOMAIN incident = 1..Len(incident)
  BY DEF IncidentTypes
<1>2. DOMAIN order = 1..Len(incident)
  BY DEF IncidentTypes, Permutes
<1>3. \A i \in 1..Len(incident) : incident[i] \in Incidents!Incident
  BY DEF IncidentTypes
<1>4. 1..Len(incident) \subseteq Incidents!Ids
  BY <1>1 DEF IncidentTypes, Incidents!Ids, Incidents!ConstantsOK
<1>5. Incidents!Open \subseteq 1..Len(incident)
  BY DEF Incidents!Open
<1>6. Incidents!Listed \subseteq Incidents!Open
  BY DEF Incidents!Listed
<1>. QED BY <1>1, <1>2, <1>3, <1>4, <1>5, <1>6

\* The incident an upsert refreshes is a row.
LEMMA LatestIsOpen ==
  ASSUME IncidentTypes, NEW key, Incidents!OpenOf(key) # {}
  PROVE  Incidents!Latest(Incidents!OpenOf(key)) \in Incidents!OpenOf(key)
<1>1. Incidents!OpenOf(key) \in SUBSET (1..Len(incident))
  BY RowsInRange DEF Incidents!OpenOf
<1>2. \E i \in Incidents!OpenOf(key) : \A j \in Incidents!OpenOf(key) : j <= i
  BY <1>1, GreatestElement, RowsInRange
<1>. QED BY <1>2 DEF Incidents!Latest

\* The victims leave every key one row.
LEMMA VictimsLeaveOne ==
  ASSUME IncidentTypes, NEW i \in Incidents!Open
  PROVE  \E j \in Incidents!Open \ Incidents!Victims : incident[j].key = incident[i].key
<1>. DEFINE T == Incidents!OpenOf(incident[i].key)
<1>1. T \in SUBSET Nat /\ T # {}
  BY RowsInRange DEF Incidents!OpenOf
<1>2. PICK j \in T : \A x \in T : j <= x
  BY <1>1, LeastElement
<1>3. j \in Incidents!Open /\ incident[j].key = incident[i].key
  BY <1>2 DEF Incidents!OpenOf
<1>4. j \notin Incidents!Victims
  BY <1>1, <1>2, <1>3 DEF Incidents!Victims
<1>. QED BY <1>3, <1>4

\* And no key two.
LEMMA VictimsLeaveNoTwo ==
  ASSUME IncidentTypes,
         NEW i \in Incidents!Open \ Incidents!Victims,
         NEW j \in Incidents!Open \ Incidents!Victims,
         incident[i].key = incident[j].key
  PROVE  i = j
<1>1. i \in Nat /\ j \in Nat
  BY RowsInRange
<1>2. ~(i < j) /\ ~(j < i)
  BY DEF Incidents!Victims, Incidents!OpenOf
<1>. QED BY <1>1, <1>2

\* So the index is never refused.
LEMMA NoDuplicateLeft ==
  ASSUME IncidentTypes, UpgradeOK, upgrade.pc = "normalized"
  PROVE  ~Incidents!Duplicates
BY VictimsLeaveNoTwo DEF UpgradeOK, Incidents!Duplicates

-----------------------------------------------------------------------------
(***************************************************************************)
(* Steps of a scan                                                         *)
(***************************************************************************)
\* The parts of the invariant that a scan's own record does not enter.
Rest ==
  /\ signal \subseteq Keys
  /\ incident \in Seq(Incidents!Incident) /\ Len(incident) <= MaxIncidents
  /\ Permutes(order, Len(incident))
  /\ unique \in BOOLEAN
  /\ upgrade \in Upgrade
  /\ changes \in 0..MaxChanges
  /\ lost \in 0..MaxLost
  /\ UpgradeOK
  /\ Incidents!OneOpenPerKey

\* The rows go on: no row is lost and none changes its key.
RowsGoOn ==
  /\ Len(incident) <= Len(incident')
  /\ \A i \in 1..Len(incident) : incident'[i].key = incident[i].key

\* What is known of a scan stays known while its record does not change.
LEMMA ScanUndisturbed ==
  ASSUME IncidentTypes, Len(incident)' \in Nat, RowsGoOn,
         lost \in Nat, lost' \in Nat, lost <= lost',
         NEW k \in Scanners, ScanOK(k), scan'[k] = scan[k]
  PROVE  ScanOK(k)'
<1>1. scan[k].todo \subseteq 1..Len(incident)
  BY DEF ScanOK
<1>2. 1..Len(incident) \subseteq 1..Len(incident')
  BY RowsInRange DEF RowsGoOn
<1>3. lost' = 0 => lost = 0
  OBVIOUS
<1>. QED BY <1>1, <1>2, <1>3 DEF ScanOK, RowsGoOn

\* A scan's step keeps the invariant when it keeps the rest of it and
\* leaves the scan's record in order.
LEMMA ScanStep ==
  ASSUME ScansInv, Rest', RowsGoOn, lost <= lost',
         NEW k \in Scanners, NEW new \in Incidents!Scan, Incidents!Goto(k, new),
         new.todo \subseteq 1..Len(incident'),
         new.pc = "resolve" =>
            \A i \in new.todo : incident'[i].key \in Predictive \ new.active,
         lost' = 0 /\ new.pc # "idle" => Predictive \ new.active \subseteq new.missing
  PROVE  ScansInv'
<1>1. /\ scan' \in [Scanners -> Incidents!Scan]
      /\ scan'[k] = new
      /\ \A j \in Scanners : j # k => scan'[j] = scan[j]
  BY DEF ScansInv, IncidentTypes, Incidents!Goto
<1>2. IncidentTypes'
  BY <1>1 DEF Rest, IncidentTypes
<1>3. ScanOK(k)'
  BY <1>1 DEF ScanOK
<1>4. ASSUME NEW j \in Scanners, j # k
      PROVE  ScanOK(j)'
  <2>1. scan'[j] = scan[j]
    BY <1>1, <1>4
  <2>2. Len(incident)' \in Nat /\ lost \in Nat /\ lost' \in Nat
    BY DEF ScansInv, Rest, IncidentTypes, Incidents!ConstantsOK
  <2>. QED BY <2>1, <2>2, ScanUndisturbed DEF ScansInv
<1>. QED BY <1>2, <1>3, <1>4 DEF Rest, ScansInv

\* A step that leaves the tables alone keeps the rest.
LEMMA RowsUnchanged ==
  ASSUME ScansInv, UNCHANGED <<incident, order, unique, upgrade>>,
         signal' \subseteq Keys, changes' \in 0..MaxChanges, lost' \in 0..MaxLost,
         lost <= lost'
  PROVE  Rest' /\ RowsGoOn
<1>1. UNCHANGED <<incident, order, unique, upgrade>>
  OBVIOUS
<1>2. UpgradeOK'
  BY <1>1 DEF ScansInv, UpgradeOK, Incidents!Victims, Incidents!Open, Incidents!OpenOf
<1>3. Incidents!OneOpenPerKey'
  BY <1>1 DEF ScansInv, Incidents!OneOpenPerKey, Incidents!Open
<1>4. RowsGoOn
  BY <1>1 DEF ScansInv, IncidentTypes, RowsGoOn
<1>5. Permutes(order, Len(incident))'
  BY <1>1 DEF ScansInv, IncidentTypes
<1>. QED BY <1>1, <1>2, <1>3, <1>4, <1>5 DEF ScansInv, IncidentTypes, Rest

\* A touched row moves to the end of the order.
LEMMA TouchOrders ==
  ASSUME IncidentTypes, NEW i, Incidents!Touch(i)
  PROVE  Permutes(order', Len(incident))
<1>1. PICK p \in 1..Len(incident) :
         order[p] = i /\ order' = Append(Incidents!RemoveAt(order, p), order[p])
  BY RowsInRange DEF Incidents!Touch
<1>2. Permutes(Append(Incidents!RemoveAt(order, p), order[p]), Len(incident))
  BY RowsInRange, TouchPermutes DEF IncidentTypes
<1>. QED BY <1>1, <1>2

\* Without the migration's lock its victims need not be what they were.
LEMMA UpgradeFree ==
  ASSUME ScansInv, Incidents!MayWrite, UNCHANGED upgrade
  PROVE  UpgradeOK'
BY DEF ScansInv, UpgradeOK, Incidents!MayWrite

\* A resolved row stays a row of its key, and no row opens.
LEMMA ResolvedRows ==
  ASSUME ScansInv, NEW i \in 1..Len(incident), Incidents!Resolved(i),
         Incidents!MayWrite, UNCHANGED <<signal, unique, upgrade, lost>>,
         changes' \in 0..MaxChanges
  PROVE  Rest' /\ RowsGoOn /\ lost <= lost'
<1>. IncidentTypes
  BY DEF ScansInv
<1>0. lost <= lost'
  BY DEF IncidentTypes
<1>1. CASE i \notin Incidents!Open
  <2>1. UNCHANGED <<incident, order>>
    BY <1>1 DEF Incidents!Resolved
  <2>. QED BY <1>0, <2>1, RowsUnchanged DEF IncidentTypes
<1>2. CASE i \in Incidents!Open
  <2>1. /\ incident' = [incident EXCEPT ![i].status = "resolved"]
        /\ Incidents!Touch(i)
    BY <1>2 DEF Incidents!Resolved
  <2>2. /\ incident' \in Seq(Incidents!Incident)
        /\ Len(incident') = Len(incident)
        /\ \A j \in 1..Len(incident) : j # i => incident'[j] = incident[j]
        /\ incident'[i] = [incident[i] EXCEPT !.status = "resolved"]
    BY <2>1, RowsInRange DEF IncidentTypes, Incidents!Incident
  <2>3. /\ incident'[i].key = incident[i].key
        /\ incident'[i].status = "resolved"
    BY <2>2, RowsInRange DEF Incidents!Incident
  <2>4. RowsGoOn
    <3>1. \A j \in 1..Len(incident) : incident'[j].key = incident[j].key
      BY <2>2, <2>3
    <3>. QED BY <2>2, <3>1, RowsInRange DEF RowsGoOn
  <2>5. Incidents!Open' \subseteq Incidents!Open
    BY <2>2, <2>3 DEF Incidents!Open
  <2>6. Incidents!OneOpenPerKey'
    BY <2>4, <2>5, RowsInRange DEF ScansInv, Incidents!OneOpenPerKey, RowsGoOn
  <2>7. Permutes(order, Len(incident))'
    BY <2>1, <2>2, TouchOrders
  <2>8. UpgradeOK'
    BY UpgradeFree
  <2>. QED BY <1>0, <2>2, <2>4, <2>6, <2>7, <2>8 DEF Rest, IncidentTypes
<1>. QED BY <1>1, <1>2

\* The scan begins: what it does not report has no signal.
LEMMA BeginsOK ==
  ASSUME ScansInv, NEW k \in Scanners, NEW drafts \in SUBSET Keys,
         NEW active \in SUBSET Keys, Incidents!Begins(k, drafts, active),
         lost' \in 0..MaxLost, lost <= lost',
         lost' = 0 => active = signal \cap Predictive
  PROVE  ScansInv'
<1>. DEFINE new == [Incidents!Idle EXCEPT
                      !.pc = "draft", !.active = active, !.missing = Keys \ signal,
                      !.drafts = drafts \cup IF k \in Old THEN Batch ELSE {}]
<1>1. /\ Incidents!Goto(k, new)
      /\ UNCHANGED <<signal, incident, order, unique, upgrade, changes>>
  BY Zenon DEF Incidents!Begins
<1>2. Rest' /\ RowsGoOn
  BY <1>1, RowsUnchanged DEF ScansInv, IncidentTypes
<1>3. Incidents!AnyKey \in Keys
  BY DEF Incidents!AnyKey, Incidents!ConstantsOK
<1>4. /\ new \in Incidents!Scan /\ new.todo = {} /\ new.pc = "draft"
      /\ new.active = active /\ new.missing = Keys \ signal
  BY <1>3 DEF Incidents!Idle, Incidents!Scan, Incidents!ConstantsOK
<1>5. lost' = 0 => Predictive \ new.active \subseteq new.missing
  BY <1>4 DEF Incidents!ConstantsOK
<1>. HIDE DEF new
<1>. QED BY <1>1, <1>2, <1>4, <1>5, ScanStep

\* The draft's open incident is looked up.
LEMMA UpsertSelectOK ==
  ASSUME ScansInv, NEW k \in Scanners, NEW key \in Keys, Incidents!UpsertSelect(k, key)
  PROVE  ScansInv'
<1>. IncidentTypes
  BY DEF ScansInv
<1>. DEFINE id == IF Incidents!OpenOf(key) = {} THEN 0
                  ELSE Incidents!Latest(Incidents!OpenOf(key))
            pc == IF Incidents!OpenOf(key) = {} THEN "insert" ELSE "update"
            new == [scan[k] EXCEPT !.drafts = @ \ {key}, !.key = key, !.id = id, !.pc = pc]
<1>1. /\ scan[k].pc = "draft"
      /\ Incidents!Goto(k, new)
      /\ UNCHANGED <<signal, incident, order, unique, upgrade, changes, lost>>
  BY Zenon DEF Incidents!UpsertSelect
<1>2. Rest' /\ RowsGoOn /\ lost <= lost'
  BY <1>1, RowsUnchanged DEF IncidentTypes, Incidents!ConstantsOK
<1>3. id \in {0} \cup Incidents!Ids
  BY RowsInRange, LatestIsOpen DEF Incidents!OpenOf
<1>. HIDE DEF id
<1>4. scan[k] \in Incidents!Scan
  BY DEF IncidentTypes
<1>5. /\ new \in Incidents!Scan /\ new.todo = scan[k].todo
      /\ new.pc \in {"insert", "update"}
      /\ new.active = scan[k].active /\ new.missing = scan[k].missing
  BY <1>3, <1>4 DEF Incidents!Scan
<1>. HIDE DEF new
<1>6. new.todo \subseteq 1..Len(incident')
  BY <1>1, <1>5 DEF ScansInv, ScanOK
<1>7. lost' = 0 => Predictive \ new.active \subseteq new.missing
  BY <1>1, <1>5 DEF ScansInv, ScanOK
<1>. QED BY <1>1, <1>2, <1>5, <1>6, <1>7, ScanStep

\* Going on with the next draft.
LEMMA NextDraftOK ==
  ASSUME ScansInv, Rest', RowsGoOn, UNCHANGED lost, NEW k \in Scanners,
         scan[k].pc # "idle", Incidents!NextDraft(k)
  PROVE  ScansInv'
<1>. IncidentTypes
  BY DEF ScansInv
<1>. DEFINE new == [scan[k] EXCEPT !.pc = "draft", !.key = Incidents!AnyKey, !.id = 0]
<1>1. Incidents!Goto(k, new)
  BY DEF Incidents!NextDraft
<1>2. scan[k] \in Incidents!Scan /\ Incidents!AnyKey \in Keys
  BY DEF IncidentTypes, Incidents!AnyKey, Incidents!ConstantsOK
<1>3. /\ new \in Incidents!Scan /\ new.todo = scan[k].todo /\ new.pc = "draft"
      /\ new.active = scan[k].active /\ new.missing = scan[k].missing
  BY <1>2 DEF Incidents!Scan
<1>. HIDE DEF new
<1>4. new.todo \subseteq 1..Len(incident')
  BY <1>3, RowsInRange DEF ScansInv, ScanOK, RowsGoOn, Rest
<1>5. lost' = 0 => Predictive \ new.active \subseteq new.missing
  BY <1>3 DEF ScansInv, ScanOK
<1>6. lost <= lost'
  BY DEF IncidentTypes, Incidents!ConstantsOK
<1>. QED BY <1>1, <1>3, <1>4, <1>5, <1>6, ScanStep

\* The incident is refreshed by its id, open or not.
LEMMA UpsertUpdateOK ==
  ASSUME ScansInv, NEW k \in Scanners, Incidents!UpsertUpdate(k)
  PROVE  ScansInv'
<1>1. /\ scan[k].pc = "update" /\ Incidents!MayWrite
      /\ Incidents!Touch(scan[k].id) /\ Incidents!NextDraft(k)
      /\ UNCHANGED <<signal, incident, unique, upgrade, changes, lost>>
  BY Zenon DEF Incidents!UpsertUpdate
<1>2. Permutes(order', Len(incident))
  BY <1>1, TouchOrders DEF ScansInv
<1>3. RowsGoOn
  BY <1>1 DEF ScansInv, IncidentTypes, RowsGoOn
<1>4. UpgradeOK'
  BY <1>1, UpgradeFree
<1>5. Incidents!OneOpenPerKey'
  BY <1>1 DEF ScansInv, Incidents!OneOpenPerKey, Incidents!Open
<1>6. Permutes(order, Len(incident))'
  BY <1>1, <1>2
<1>7. Rest'
  BY <1>1, <1>4, <1>5, <1>6 DEF ScansInv, IncidentTypes, Rest
<1>. QED BY <1>1, <1>3, <1>7, NextDraftOK

\* The index lets a key have a new row only when none of its rows is open.
LEMMA InsertedRow ==
  ASSUME ScansInv, NEW k \in Scanners, scan[k] \in Incidents!Scan, ~Incidents!Conflict(k),
         Incidents!MayWrite, Len(incident) < MaxIncidents,
         incident' = Append(incident, [key |-> scan[k].key, status |-> "open"]),
         order' = Append(order, Len(incident) + 1),
         UNCHANGED <<signal, unique, upgrade, changes, lost>>
  PROVE  Rest' /\ RowsGoOn
<1>. IncidentTypes
  BY DEF ScansInv
<1>. DEFINE n == Len(incident)
            row == [key |-> scan[k].key, status |-> "open"]
<1>1. row \in Incidents!Incident /\ row.key = scan[k].key
  BY DEF Incidents!Scan, Incidents!Incident
<1>. HIDE DEF row
<1>2. /\ incident' \in Seq(Incidents!Incident) /\ Len(incident') = n + 1
      /\ incident'[n + 1] = row
      /\ \A j \in 1..n : incident'[j] = incident[j]
  BY <1>1, AppendProperties DEF IncidentTypes, row
<1>3. n \in Nat /\ MaxIncidents \in Nat
  BY RowsInRange DEF Incidents!ConstantsOK
<1>4. Len(incident') <= MaxIncidents
  BY <1>2, <1>3
<1>5. Permutes(order, Len(incident))'
  BY <1>2, <1>3, AppendPermutes DEF IncidentTypes
<1>6. RowsGoOn
  BY <1>2, <1>3 DEF RowsGoOn
<1>7. UpgradeOK'
  BY UpgradeFree
<1>8. Incidents!Open' \subseteq Incidents!Open \cup {n + 1}
  BY <1>2, <1>3 DEF Incidents!Open
<1>9. ASSUME unique, NEW i \in Incidents!Open
      PROVE  incident[i].key # scan[k].key
  BY <1>9 DEF Incidents!Conflict, Incidents!OpenOf
<1>10. Incidents!OneOpenPerKey'
  <2>. SUFFICES ASSUME unique, NEW i \in Incidents!Open', NEW j \in Incidents!Open',
                       incident'[i].key = incident'[j].key
                PROVE  i = j
    BY DEF Incidents!OneOpenPerKey
  <2>1. CASE i \in Incidents!Open /\ j \in Incidents!Open
    BY <1>2, <2>1, RowsInRange DEF ScansInv, Incidents!OneOpenPerKey
  <2>2. CASE i = n + 1 /\ j \in Incidents!Open
    BY <1>1, <1>2, <1>9, <2>2, RowsInRange
  <2>3. CASE j = n + 1 /\ i \in Incidents!Open
    BY <1>1, <1>2, <1>9, <2>3, RowsInRange
  <2>. QED BY <1>8, <2>1, <2>2, <2>3
<1>. QED BY <1>2, <1>4, <1>5, <1>6, <1>7, <1>10 DEF IncidentTypes, Rest

\* The insert, or the conflict with somebody faster.
LEMMA UpsertInsertOK ==
  ASSUME ScansInv, NEW k \in Scanners, Incidents!UpsertInsert(k)
  PROVE  ScansInv'
<1>. IncidentTypes
  BY DEF ScansInv
<1>1. /\ scan[k].pc = "insert" /\ Incidents!MayWrite
      /\ UNCHANGED <<signal, unique, upgrade, changes, lost>>
  BY Zenon DEF Incidents!UpsertInsert
<1>2. scan[k] \in Incidents!Scan
  BY DEF IncidentTypes
<1>3. CASE ~Incidents!Conflict(k)
  <2>1. /\ Len(incident) < MaxIncidents
        /\ incident' = Append(incident, [key |-> scan[k].key, status |-> "open"])
        /\ order' = Append(order, Len(incident) + 1)
        /\ Incidents!NextDraft(k)
    BY <1>3, Zenon DEF Incidents!UpsertInsert
  <2>2. Rest' /\ RowsGoOn
    BY <1>1, <1>2, <1>3, <2>1, InsertedRow
  <2>. QED BY <1>1, <2>1, <2>2, NextDraftOK
<1>4. CASE Incidents!Conflict(k)
  <2>1. /\ UNCHANGED <<incident, order>>
        /\ \/ Incidents!NextDraft(k)
           \/ Incidents!Goto(k, [scan[k] EXCEPT !.pc = "reselect"])
    BY <1>4 DEF Incidents!UpsertInsert
  <2>2. Rest' /\ RowsGoOn /\ lost <= lost'
    BY <1>1, <2>1, RowsUnchanged DEF IncidentTypes, Incidents!ConstantsOK
  <2>3. CASE Incidents!NextDraft(k)
    BY <1>1, <2>2, <2>3, NextDraftOK
  <2>4. CASE Incidents!Goto(k, [scan[k] EXCEPT !.pc = "reselect"])
    <3>. DEFINE new == [scan[k] EXCEPT !.pc = "reselect"]
    <3>1. /\ new \in Incidents!Scan /\ new.todo = scan[k].todo /\ new.pc = "reselect"
          /\ new.active = scan[k].active /\ new.missing = scan[k].missing
      BY <1>2 DEF Incidents!Scan
    <3>2. Incidents!Goto(k, new)
      BY <2>4
    <3>. HIDE DEF new
    <3>3. new.todo \subseteq 1..Len(incident')
      BY <2>1, <3>1 DEF ScansInv, ScanOK
    <3>4. lost' = 0 => Predictive \ new.active \subseteq new.missing
      BY <1>1, <3>1 DEF ScansInv, ScanOK
    <3>. QED BY <2>2, <3>1, <3>2, <3>3, <3>4, ScanStep
  <2>. QED BY <2>1, <2>3, <2>4
<1>. QED BY <1>3, <1>4

\* A step that changes the scan's record alone.
LEMMA RecordStep ==
  ASSUME ScansInv, NEW k \in Scanners, NEW new \in Incidents!Scan,
         Incidents!Goto(k, new),
         UNCHANGED <<signal, incident, order, unique, upgrade, changes, lost>>,
         scan[k].pc # "idle",
         new.active = scan[k].active, new.missing = scan[k].missing,
         new.todo \subseteq 1..Len(incident),
         new.pc = "resolve" =>
            \A i \in new.todo : incident[i].key \in Predictive \ new.active
  PROVE  ScansInv'
<1>1. Rest' /\ RowsGoOn /\ lost <= lost'
  BY RowsUnchanged DEF ScansInv, IncidentTypes, Incidents!ConstantsOK
<1>2. lost' = 0 => Predictive \ new.active \subseteq new.missing
  BY DEF ScansInv, ScanOK
<1>. QED BY <1>1, <1>2, ScanStep

\* The winner's incident is looked up, or the draft left out.
LEMMA UpsertReselectOK ==
  ASSUME ScansInv, NEW k \in Scanners, Incidents!UpsertReselect(k)
  PROVE  ScansInv'
<1>. IncidentTypes
  BY DEF ScansInv
<1>1. /\ scan[k].pc = "reselect"
      /\ UNCHANGED <<signal, incident, order, unique, upgrade, changes, lost>>
  BY Zenon DEF Incidents!UpsertReselect
<1>2. scan[k] \in Incidents!Scan /\ scan[k].todo \subseteq 1..Len(incident)
  BY DEF IncidentTypes, ScansInv, ScanOK
<1>. DEFINE open == Incidents!OpenOf(scan[k].key)
<1>3. CASE open = {}
  <2>1. Incidents!NextDraft(k)
    BY <1>3, Zenon DEF Incidents!UpsertReselect
  <2>2. Rest' /\ RowsGoOn
    BY <1>1, RowsUnchanged DEF IncidentTypes, Incidents!ConstantsOK
  <2>. QED BY <1>1, <2>1, <2>2, NextDraftOK
<1>4. CASE open # {}
  <2>. DEFINE id == Incidents!Latest(open)
              new == [scan[k] EXCEPT !.pc = "update", !.id = id]
  <2>1. Incidents!Goto(k, new)
    BY <1>4, Zenon DEF Incidents!UpsertReselect
  <2>2. id \in Incidents!Ids
    BY <1>4, LatestIsOpen, RowsInRange DEF Incidents!OpenOf
  <2>. HIDE DEF id, open
  <2>3. /\ new \in Incidents!Scan /\ new.todo = scan[k].todo /\ new.pc = "update"
        /\ new.active = scan[k].active /\ new.missing = scan[k].missing
    BY <1>2, <2>2 DEF Incidents!Scan
  <2>. HIDE DEF new
  <2>. QED BY <1>1, <1>2, <2>1, <2>3, RecordStep
<1>. QED BY <1>3, <1>4

\* What is listed for resolution has no live signal.
LEMMA ListPredictiveOK ==
  ASSUME ScansInv, NEW k \in Scanners, Incidents!ListPredictive(k)
  PROVE  ScansInv'
<1>. IncidentTypes
  BY DEF ScansInv
<1>. DEFINE todo == {i \in Incidents!Listed :
                       incident[i].key \in Predictive \ scan[k].active}
            new == [scan[k] EXCEPT !.pc = "resolve", !.todo = todo]
<1>1. /\ scan[k].pc = "draft"
      /\ Incidents!Goto(k, new)
      /\ UNCHANGED <<signal, incident, order, unique, upgrade, changes, lost>>
  BY Zenon DEF Incidents!ListPredictive
<1>2. /\ todo \subseteq 1..Len(incident) /\ todo \subseteq Incidents!Ids
      /\ \A i \in todo : incident[i].key \in Predictive \ scan[k].active
  BY RowsInRange
<1>. HIDE DEF todo
<1>3. scan[k] \in Incidents!Scan
  BY DEF IncidentTypes
<1>4. /\ new \in Incidents!Scan /\ new.todo = todo
      /\ new.active = scan[k].active /\ new.missing = scan[k].missing
  BY <1>2, <1>3 DEF Incidents!Scan
<1>. HIDE DEF new
<1>. QED BY <1>1, <1>2, <1>4, RecordStep

\* Then the restart storms of Jobs.
LEMMA ListSuppressedOK ==
  ASSUME ScansInv, NEW k \in Scanners, Incidents!ListSuppressed(k)
  PROVE  ScansInv'
<1>. IncidentTypes
  BY DEF ScansInv
<1>. DEFINE todo == IF k \in Old THEN {}
                    ELSE {i \in Incidents!Listed : incident[i].key \in Batch}
            new == [scan[k] EXCEPT !.pc = "suppress", !.todo = todo]
<1>1. /\ scan[k].pc = "resolve"
      /\ Incidents!Goto(k, new)
      /\ UNCHANGED <<signal, incident, order, unique, upgrade, changes, lost>>
  BY Zenon DEF Incidents!ListSuppressed
<1>2. todo \subseteq 1..Len(incident) /\ todo \subseteq Incidents!Ids
  BY RowsInRange
<1>. HIDE DEF todo
<1>3. scan[k] \in Incidents!Scan
  BY DEF IncidentTypes
<1>4. /\ new \in Incidents!Scan /\ new.todo = todo /\ new.pc = "suppress"
      /\ new.active = scan[k].active /\ new.missing = scan[k].missing
  BY <1>2, <1>3 DEF Incidents!Scan
<1>. HIDE DEF new
<1>. QED BY <1>1, <1>2, <1>4, RecordStep

\* A listed incident is resolved unless somebody has done so.
LEMMA ScanResolveOK ==
  ASSUME ScansInv, NEW k \in Scanners, NEW i \in Incidents!Ids, Incidents!ScanResolve(k, i)
  PROVE  ScansInv'
<1>. IncidentTypes
  BY DEF ScansInv
<1>. DEFINE new == [scan[k] EXCEPT !.todo = @ \ {i}]
<1>1. /\ scan[k].pc \in {"resolve", "suppress"} /\ i \in scan[k].todo
      /\ Incidents!MayWrite /\ Incidents!Resolved(i)
      /\ Incidents!Goto(k, new)
      /\ UNCHANGED <<signal, unique, upgrade, changes, lost>>
  BY Zenon DEF Incidents!ScanResolve
<1>2. /\ scan[k].todo \subseteq 1..Len(incident)
      /\ scan[k].pc = "resolve" =>
            \A j \in scan[k].todo : incident[j].key \in Predictive \ scan[k].active
      /\ lost = 0 => Predictive \ scan[k].active \subseteq scan[k].missing
  BY <1>1 DEF ScansInv, ScanOK
<1>3. Rest' /\ RowsGoOn /\ lost <= lost'
  BY <1>1, <1>2, ResolvedRows DEF IncidentTypes
<1>4. scan[k] \in Incidents!Scan
  BY DEF IncidentTypes
<1>5. /\ new \in Incidents!Scan /\ new.todo \subseteq scan[k].todo /\ new.pc = scan[k].pc
      /\ new.active = scan[k].active /\ new.missing = scan[k].missing
  BY <1>4 DEF Incidents!Scan
<1>. HIDE DEF new
<1>6. new.todo \subseteq 1..Len(incident')
  BY <1>2, <1>3, <1>5, RowsInRange DEF RowsGoOn, Rest
<1>7. new.pc = "resolve" =>
         \A j \in new.todo : incident'[j].key \in Predictive \ new.active
  BY <1>2, <1>3, <1>5 DEF RowsGoOn
<1>8. lost' = 0 => Predictive \ new.active \subseteq new.missing
  BY <1>1, <1>2, <1>5
<1>. QED BY <1>1, <1>3, <1>5, <1>6, <1>7, <1>8, ScanStep

\* A scan ends, or is cancelled.
LEMMA EndsOK ==
  ASSUME ScansInv, NEW k \in Scanners, Incidents!EndScan(k) \/ Incidents!CancelScan(k)
  PROVE  ScansInv'
<1>1. /\ Incidents!Goto(k, Incidents!Idle)
      /\ UNCHANGED <<signal, incident, order, unique, upgrade, changes>>
      /\ UNCHANGED lost \/ Incidents!Fault
  BY Zenon DEF Incidents!EndScan, Incidents!CancelScan
<1>2. lost' \in 0..MaxLost /\ lost <= lost'
  BY <1>1 DEF ScansInv, IncidentTypes, Incidents!Fault, Incidents!ConstantsOK
<1>3. Rest' /\ RowsGoOn
  BY <1>1, <1>2, RowsUnchanged DEF ScansInv, IncidentTypes
<1>4. Incidents!AnyKey \in Keys
  BY DEF Incidents!AnyKey, Incidents!ConstantsOK
<1>5. /\ Incidents!Idle \in Incidents!Scan
      /\ Incidents!Idle.pc = "idle" /\ Incidents!Idle.todo = {}
  BY <1>4 DEF Incidents!Idle, Incidents!Scan
<1>. QED BY <1>1, <1>2, <1>3, <1>5, ScanStep

-----------------------------------------------------------------------------
(***************************************************************************)
(* The cluster, the administrators and the migration                       *)
(***************************************************************************)
\* A signal that comes or goes is noted by every scan under way.
LEMMA ChangeOK ==
  ASSUME ScansInv, NEW key \in Keys, Incidents!Change(key)
  PROVE  ScansInv'
<1>. IncidentTypes
  BY DEF ScansInv
<1>. DEFINE new(k) == IF scan[k].pc = "idle" THEN Incidents!Idle
                      ELSE [scan[k] EXCEPT !.missing = @ \cup (Keys \ signal')]
<1>1. /\ changes < MaxChanges /\ changes' = changes + 1
      /\ signal' = (signal \ {key}) \cup ({key} \ signal)
      /\ scan' = [k \in Scanners |-> new(k)]
      /\ UNCHANGED <<incident, order, unique, upgrade, lost>>
  BY Zenon DEF Incidents!Change, Incidents!Changes
<1>2. changes' \in 0..MaxChanges /\ lost <= lost' /\ lost' \in 0..MaxLost
  BY <1>1 DEF IncidentTypes, Incidents!ConstantsOK
<1>3. signal' \subseteq Keys
  BY <1>1 DEF IncidentTypes
<1>4. Rest' /\ RowsGoOn
  BY <1>1, <1>2, <1>3, RowsUnchanged
<1>5. Incidents!AnyKey \in Keys
  BY DEF Incidents!AnyKey, Incidents!ConstantsOK
<1>6. /\ Incidents!Idle \in Incidents!Scan
      /\ Incidents!Idle.pc = "idle" /\ Incidents!Idle.todo = {}
  BY <1>5 DEF Incidents!Idle, Incidents!Scan
<1>7. ASSUME NEW k \in Scanners
      PROVE  scan'[k] \in Incidents!Scan /\ ScanOK(k)'
  <2>1. scan'[k] = new(k) /\ scan[k] \in Incidents!Scan
    BY <1>1 DEF IncidentTypes
  <2>2. CASE scan[k].pc = "idle"
    <3>1. scan'[k] = Incidents!Idle
      BY <2>1, <2>2
    <3>. QED BY <1>6, <3>1 DEF ScanOK
  <2>3. CASE scan[k].pc # "idle"
    <3>1. scan'[k] = [scan[k] EXCEPT !.missing = @ \cup (Keys \ signal')]
      BY <2>1, <2>3
    <3>2. /\ scan'[k] \in Incidents!Scan
          /\ scan'[k].pc = scan[k].pc /\ scan'[k].todo = scan[k].todo
          /\ scan'[k].active = scan[k].active
          /\ scan[k].missing \subseteq scan'[k].missing
      BY <2>1, <3>1 DEF Incidents!Scan
    <3>3. ScanOK(k)
      BY DEF ScansInv
    <3>4. /\ scan'[k].todo \subseteq 1..Len(incident')
          /\ scan'[k].pc = "resolve" =>
                \A i \in scan'[k].todo : incident'[i].key \in Predictive \ scan'[k].active
          /\ lost' = 0 => Predictive \ scan'[k].active \subseteq scan'[k].missing
      BY <1>1, <2>3, <3>2, <3>3 DEF ScanOK
    <3>. QED BY <3>2, <3>4 DEF ScanOK
  <2>. QED BY <2>2, <2>3
<1>8. scan' \in [Scanners -> Incidents!Scan]
  <2>. HIDE DEF new
  <2>. QED BY <1>1, <1>7
<1>9. IncidentTypes'
  BY <1>4, <1>8 DEF Rest, IncidentTypes
<1>. QED BY <1>4, <1>7, <1>9 DEF Rest, ScansInv

\* What is known of the scans when none of them takes a step.
LEMMA ScansUndisturbed ==
  ASSUME ScansInv, Rest', RowsGoOn, UNCHANGED scan, lost <= lost'
  PROVE  ScansInv'
<1>1. IncidentTypes'
  BY DEF ScansInv, Rest, IncidentTypes
<1>2. Len(incident)' \in Nat /\ lost \in Nat /\ lost' \in Nat
  BY DEF ScansInv, Rest, IncidentTypes, Incidents!ConstantsOK
<1>3. \A k \in Scanners : ScanOK(k)'
  BY <1>2, ScanUndisturbed DEF ScansInv
<1>. QED BY <1>1, <1>3 DEF Rest, ScansInv

\* An administrator resolves an open incident.
LEMMA AdminResolveOK ==
  ASSUME ScansInv, NEW i \in Incidents!Ids, Incidents!AdminResolve(i)
  PROVE  ScansInv'
<1>1. /\ i \in Incidents!Open /\ Incidents!MayWrite /\ Incidents!Resolved(i)
      /\ changes < MaxChanges /\ changes' = changes + 1
      /\ UNCHANGED <<signal, scan, unique, upgrade, lost>>
  BY Zenon DEF Incidents!AdminResolve, Incidents!Changes
<1>2. i \in 1..Len(incident)
  BY <1>1, RowsInRange DEF ScansInv
<1>3. changes' \in 0..MaxChanges
  BY <1>1 DEF ScansInv, IncidentTypes, Incidents!ConstantsOK
<1>4. Rest' /\ RowsGoOn /\ lost <= lost'
  BY <1>1, <1>2, <1>3, ResolvedRows
<1>. QED BY <1>1, <1>4, ScansUndisturbed

\* A step of the migration that leaves the tables alone.
LEMMA UpgradeStep ==
  ASSUME ScansInv, UNCHANGED <<signal, incident, order, scan, unique, changes>>,
         lost' \in 0..MaxLost, lost <= lost', upgrade' \in Upgrade, UpgradeOK'
  PROVE  ScansInv'
<1>1. UNCHANGED <<signal, incident, order, scan, unique, changes>>
  OBVIOUS
<1>2. Incidents!OneOpenPerKey'
  BY <1>1 DEF ScansInv, Incidents!OneOpenPerKey, Incidents!Open
<1>3. RowsGoOn
  BY <1>1 DEF ScansInv, IncidentTypes, RowsGoOn
<1>4. Permutes(order, Len(incident))'
  BY <1>1 DEF ScansInv, IncidentTypes
<1>5. Rest'
  BY <1>1, <1>2, <1>4 DEF ScansInv, IncidentTypes, Rest
<1>. QED BY <1>1, <1>3, <1>5, ScansUndisturbed

\* The migration takes its lock and chooses the victims.
LEMMA MigrateNormalizeOK ==
  ASSUME ScansInv, Incidents!MigrateNormalize
  PROVE  ScansInv'
<1>1. /\ upgrade.pc = "none"
      /\ upgrade' = [upgrade EXCEPT !.pc = "normalized", !.victims = Incidents!Victims]
      /\ UNCHANGED <<signal, incident, order, scan, unique, changes, lost>>
  BY Zenon DEF Incidents!MigrateNormalize
<1>2. Incidents!Victims \subseteq Incidents!Ids
  BY RowsInRange DEF ScansInv, Incidents!Victims
<1>3. Incidents!Victims' = Incidents!Victims
  BY <1>1 DEF Incidents!Victims, Incidents!Open, Incidents!OpenOf
<1>4. upgrade \in Upgrade /\ upgrade.attempt < MaxAttempts
  BY <1>1 DEF ScansInv, IncidentTypes, UpgradeOK
<1>5. /\ upgrade' \in Upgrade /\ upgrade'.pc = "normalized"
      /\ upgrade'.victims = Incidents!Victims /\ upgrade'.attempt = upgrade.attempt
  BY <1>1, <1>2, <1>4 DEF Upgrade
<1>6. UpgradeOK'
  BY <1>3, <1>4, <1>5 DEF UpgradeOK
<1>7. lost' \in 0..MaxLost /\ lost <= lost'
  BY <1>1 DEF ScansInv, IncidentTypes, Incidents!ConstantsOK
<1>. QED BY <1>1, <1>5, <1>6, <1>7, UpgradeStep

\* The migration loses its lock and tries again, or gives up.
LEMMA MigrateBusyOK ==
  ASSUME ScansInv, Incidents!MigrateBusy
  PROVE  ScansInv'
<1>1. /\ upgrade.pc \in {"none", "normalized"}
      /\ lost < MaxLost /\ lost' = lost + 1
      /\ Incidents!Retry("busy")
      /\ UNCHANGED <<signal, incident, order, scan, unique, changes>>
  BY Zenon DEF Incidents!MigrateBusy, Incidents!Fault
<1>2. /\ upgrade' = [pc |-> IF upgrade.attempt + 1 = MaxAttempts THEN "busy" ELSE "none",
                     attempt |-> upgrade.attempt + 1, victims |-> {}]
  BY <1>1 DEF Incidents!Retry
<1>3. upgrade.attempt \in Nat /\ upgrade.attempt < MaxAttempts /\ MaxAttempts \in Nat
  BY <1>1 DEF ScansInv, IncidentTypes, Upgrade, UpgradeOK, Incidents!ConstantsOK
<1>4. upgrade' \in Upgrade
  BY <1>2, <1>3 DEF Upgrade
<1>5. UpgradeOK'
  BY <1>2, <1>3 DEF UpgradeOK
<1>6. lost' \in 0..MaxLost /\ lost <= lost'
  BY <1>1 DEF ScansInv, IncidentTypes, Incidents!ConstantsOK
<1>. QED BY <1>1, <1>4, <1>5, <1>6, UpgradeStep

\* A replica that did not start is started again.
LEMMA MigrateAgainOK ==
  ASSUME ScansInv, Incidents!MigrateAgain
  PROVE  ScansInv'
<1>1. /\ upgrade' = [pc |-> "none", attempt |-> 0, victims |-> {}]
      /\ UNCHANGED <<signal, incident, order, scan, unique, changes, lost>>
  BY Zenon DEF Incidents!MigrateAgain
<1>2. upgrade' \in Upgrade /\ UpgradeOK'
  BY <1>1 DEF Upgrade, UpgradeOK, Incidents!ConstantsOK
<1>3. lost' \in 0..MaxLost /\ lost <= lost'
  BY <1>1 DEF ScansInv, IncidentTypes, Incidents!ConstantsOK
<1>. QED BY <1>1, <1>2, <1>3, UpgradeStep

\* The index: the victims are resolved, each key keeps one open incident.
LEMMA IndexedRows ==
  ASSUME ScansInv, Incidents!MigrateIndex
  PROVE  /\ Rest' /\ RowsGoOn /\ UNCHANGED lost /\ UNCHANGED scan
         /\ Incidents!Open' = Incidents!Open \ Incidents!Victims
<1>. IncidentTypes
  BY DEF ScansInv
<1>. DEFINE n == Len(incident)
<1>1. /\ upgrade.pc = "normalized" /\ UNCHANGED <<signal, scan, changes, lost>>
      /\ ~Incidents!Duplicates
  BY NoDuplicateLeft DEF Incidents!MigrateIndex, ScansInv
<1>2. upgrade.victims = Incidents!Victims /\ Incidents!Victims \subseteq Incidents!Open
  BY <1>1 DEF ScansInv, UpgradeOK, Incidents!Victims
<1>3. /\ incident' = [i \in DOMAIN incident |->
                        IF i \in Incidents!Victims
                        THEN [incident[i] EXCEPT !.status = "resolved"]
                        ELSE incident[i]]
      /\ order' \in {o \in [DOMAIN order -> Incidents!ToSet(order)] :
                      Incidents!Reordered(o)}
      /\ unique' = TRUE
      /\ upgrade' = [upgrade EXCEPT !.pc = "done", !.victims = {}]
  BY <1>1, <1>2 DEF Incidents!MigrateIndex
<1>4. n \in Nat /\ DOMAIN incident = 1..n
  BY RowsInRange
<1>5. ASSUME NEW i \in 1..n
      PROVE  /\ incident'[i] \in Incidents!Incident
             /\ incident'[i].key = incident[i].key
             /\ i \in Incidents!Victims => incident'[i].status = "resolved"
             /\ i \notin Incidents!Victims => incident'[i].status = incident[i].status
  BY <1>3, <1>4, RowsInRange DEF Incidents!Incident
<1>6. incident' \in Seq(Incidents!Incident) /\ Len(incident') = n
  <2>1. DOMAIN incident' = 1..n /\ incident' \in [1..n -> Incidents!Incident]
    BY <1>3, <1>4, <1>5
  <2>. QED BY <1>4, <2>1
<1>7. RowsGoOn
  BY <1>4, <1>5, <1>6 DEF RowsGoOn
<1>8. Incidents!Open' = Incidents!Open \ Incidents!Victims
  BY <1>5, <1>6 DEF Incidents!Open
<1>9. Incidents!OneOpenPerKey'
  BY <1>5, <1>8, RowsInRange, VictimsLeaveNoTwo DEF Incidents!OneOpenPerKey
<1>10. Permutes(order', n)
  <2>1. order \in [1..n -> 1..n] /\ Incidents!ToSet(order) = 1..n /\ DOMAIN order = 1..n
    BY <1>4, PermutesType DEF IncidentTypes, Permutes
  <2>2. order' \in [1..n -> 1..n] /\ Incidents!ToSet(order') = 1..n
    BY <1>3, <2>1 DEF Incidents!Reordered
  <2>. QED BY <2>2 DEF Permutes, Incidents!ToSet
<1>11. Permutes(order, Len(incident))'
  BY <1>6, <1>10
<1>12. upgrade' \in Upgrade /\ UpgradeOK'
  BY <1>3 DEF IncidentTypes, Upgrade, UpgradeOK
<1>. QED BY <1>1, <1>3, <1>6, <1>7, <1>8, <1>9, <1>11, <1>12 DEF IncidentTypes, Rest

\* The index is built over what the victims left.
LEMMA MigrateIndexOK ==
  ASSUME ScansInv, Incidents!MigrateIndex
  PROVE  ScansInv'
<1>1. lost <= lost'
  BY IndexedRows DEF ScansInv, IncidentTypes, Incidents!ConstantsOK
<1>. QED BY <1>1, IndexedRows, ScansUndisturbed

\* No step breaks what is known of the ledger.
LEMMA IncidentStepOK ==
  ASSUME ScansInv, Incidents!Next
  PROVE  ScansInv'
<1>1. ASSUME NEW k \in Scanners, Incidents!BeginScan(k)
      PROVE  ScansInv'
  <2>1. Incidents!Begins(k, signal, signal \cap Predictive) /\ UNCHANGED lost
    BY <1>1 DEF Incidents!BeginScan
  <2>2. signal \in SUBSET Keys /\ lost' \in 0..MaxLost /\ lost <= lost'
    BY <2>1 DEF ScansInv, IncidentTypes, Incidents!ConstantsOK
  <2>. QED BY <2>1, <2>2, BeginsOK
<1>2. ASSUME NEW k \in Scanners, Incidents!BeginScanWithoutMetrics(k)
      PROVE  ScansInv'
  <2>1. Incidents!Begins(k, signal \ Predictive, {}) /\ lost < MaxLost /\ lost' = lost + 1
    BY <1>2 DEF Incidents!BeginScanWithoutMetrics, Incidents!Fault
  <2>2. /\ signal \ Predictive \in SUBSET Keys /\ lost' \in 0..MaxLost /\ lost <= lost'
        /\ lost' # 0
    BY <2>1 DEF ScansInv, IncidentTypes, Incidents!ConstantsOK
  <2>. QED BY <2>1, <2>2, BeginsOK
<1>3. ASSUME NEW k \in Scanners, Incidents!Proceed(k)
      PROVE  ScansInv'
  BY <1>1, <1>3, UpsertUpdateOK, UpsertInsertOK, UpsertReselectOK, ListPredictiveOK,
     ListSuppressedOK, EndsOK, UpsertSelectOK, ScanResolveOK DEF Incidents!Proceed
<1>4. ASSUME Incidents!Migrate
      PROVE  ScansInv'
  BY <1>4, MigrateNormalizeOK, MigrateIndexOK, MigrateAgainOK DEF Incidents!Migrate
<1>. QED BY <1>2, <1>3, <1>4, EndsOK, ChangeOK, AdminResolveOK, MigrateBusyOK
         DEF Incidents!Next

\* A step that leaves the variables of the incidents alone.
LEMMA IncidentsStutter ==
  ASSUME ScansInv, UNCHANGED incidentVars
  PROVE  ScansInv'
<1>1. UNCHANGED <<signal, incident, order, scan, unique, upgrade, changes, lost>>
  BY DEF incidentVars
<1>2. lost' \in 0..MaxLost /\ lost <= lost' /\ upgrade' \in Upgrade
  BY <1>1 DEF ScansInv, IncidentTypes, Incidents!ConstantsOK
<1>3. UpgradeOK'
  BY <1>1 DEF ScansInv, UpgradeOK, Incidents!Victims, Incidents!Open, Incidents!OpenOf
<1>. QED BY <1>1, <1>2, <1>3, UpgradeStep

\* An empty ledger without the index.
LEMMA IncidentInitOK ==
  ASSUME Incidents!Init
  PROVE  ScansInv
<1>1. /\ signal = {} /\ incident = <<>> /\ order = <<>>
      /\ scan = [k \in Scanners |-> Incidents!Idle] /\ unique = FALSE
      /\ upgrade = [pc |-> "none", attempt |-> 0, victims |-> {}]
      /\ changes = 0 /\ lost = 0
  BY DEF Incidents!Init
<1>2. Incidents!AnyKey \in Keys
  BY DEF Incidents!AnyKey, Incidents!ConstantsOK
<1>3. /\ Incidents!Idle \in Incidents!Scan
      /\ Incidents!Idle.pc = "idle" /\ Incidents!Idle.todo = {}
  BY <1>2 DEF Incidents!Idle, Incidents!Scan
<1>4. Permutes(order, Len(incident))
  BY <1>1 DEF Permutes
<1>5. IncidentTypes
  <2>1. incident \in Seq(Incidents!Incident) /\ Len(incident) = 0
    BY <1>1
  <2>2. upgrade \in Upgrade
    BY <1>1 DEF Upgrade, Incidents!ConstantsOK
  <2>3. scan \in [Scanners -> Incidents!Scan]
    BY <1>1, <1>3
  <2>4. changes \in 0..MaxChanges /\ lost \in 0..MaxLost /\ MaxIncidents \in Nat
    BY <1>1 DEF Incidents!ConstantsOK
  <2>5. signal \subseteq Keys /\ unique \in BOOLEAN
    BY <1>1
  <2>6. Len(incident) <= MaxIncidents
    BY <2>1, <2>4
  <2>. QED BY <1>4, <2>1, <2>2, <2>3, <2>4, <2>5, <2>6, Zenon DEF IncidentTypes
<1>6. \A k \in Scanners : ScanOK(k)
  BY <1>1, <1>3 DEF ScanOK
<1>7. UpgradeOK /\ Incidents!OneOpenPerKey
  BY <1>1 DEF UpgradeOK, Incidents!OneOpenPerKey, Incidents!ConstantsOK
<1>. QED BY <1>5, <1>6, <1>7 DEF ScansInv

-----------------------------------------------------------------------------
(***************************************************************************)
(* The theorems                                                            *)
(***************************************************************************)
\* While the ledger is upgraded no read fails and no lock is lost.
UndisturbedUpgrade == part = "upgrade" => lost = 0

LedgerOfScans == ScansInv /\ UndisturbedUpgrade

\* The run starts so.
LEMMA LedgerInit ==
  ASSUME MCInit
  PROVE  LedgerOfScans
<1>1. Incidents!Init
  BY DEF MCInit
<1>2. lost = 0
  BY <1>1 DEF Incidents!Init
<1>. QED BY <1>1, <1>2, IncidentInitOK DEF LedgerOfScans, UndisturbedUpgrade

\* Every step of the run keeps it, whatever part moves.
LEMMA LedgerStep ==
  ASSUME LedgerOfScans, [MCNext]_all
  PROVE  LedgerOfScans'
<1>1. CASE UNCHANGED incidentVars /\ part' = part
  <2>1. lost' = lost
    BY <1>1 DEF incidentVars
  <2>. QED BY <1>1, <2>1, IncidentsStutter DEF LedgerOfScans, UndisturbedUpgrade
<1>2. CASE part = "upgrade" /\ Upgraded /\ part' = part
  BY <1>2, IncidentStepOK DEF Upgraded, LedgerOfScans, UndisturbedUpgrade
<1>3. CASE part = "scans" /\ Scanned /\ part' = part
  BY <1>3, IncidentStepOK DEF Scanned, LedgerOfScans, UndisturbedUpgrade
<1>. QED BY <1>1, <1>2, <1>3 DEF MCNext, all

\* What the run checks of the incidents.
LEMMA LedgerSuffices ==
  ASSUME LedgerOfScans
  PROVE  IncidentInv
<1>. ScansInv /\ IncidentTypes
  BY DEF LedgerOfScans, ScansInv
<1>1. order \in Seq(1..Len(incident)) /\ Len(order) = Len(incident)
      /\ Incidents!ToSet(order) = 1..Len(incident)
  BY RowsInRange, PermutesType DEF IncidentTypes
<1>2. order \in Seq(Incidents!Ids)
  BY <1>1, RowsInRange
<1>3. Incidents!TypeOK
  BY <1>1, <1>2 DEF IncidentTypes, Upgrade, Incidents!TypeOK
<1>4. Incidents!IndexNeverConflicts
  BY NoDuplicateLeft DEF ScansInv, UpgradeOK, Incidents!IndexNeverConflicts
<1>. QED BY <1>3, <1>4 DEF ScansInv, IncidentInv

\* A step resolves incidents for a cause.
LEMMA CauseStep ==
  ASSUME LedgerOfScans, [MCNext]_all
  PROVE  part = "upgrade" => Incidents!ResolvedWhenGone /\ Incidents!MigrationKeepsKeys
<1>. SUFFICES ASSUME part = "upgrade"
              PROVE  Incidents!ResolvedWhenGone /\ Incidents!MigrationKeepsKeys
  OBVIOUS
<1>. ScansInv /\ lost = 0
  BY DEF LedgerOfScans, UndisturbedUpgrade
<1>1. Incidents!ResolvedWhenGone
  <2>. SUFFICES ASSUME NEW k \in Scanners, NEW i \in Incidents!Open,
                       Incidents!ScanResolve(k, i), scan[k].pc = "resolve"
                PROVE  incident[i].key \in scan[k].missing
    BY DEF Incidents!ResolvedWhenGone
  <2>1. i \in scan[k].todo
    BY DEF Incidents!ScanResolve
  <2>. QED BY <2>1 DEF ScansInv, ScanOK
<1>2. Incidents!MigrationKeepsKeys
  <2>. SUFFICES ASSUME unique' # unique
                PROVE  {incident[i].key : i \in Incidents!Open}
                          = {incident'[i].key : i \in Incidents!Open'}
    BY DEF Incidents!MigrationKeepsKeys
  <2>1. Incidents!Next
    BY DEF MCNext, all, incidentVars, Upgraded
  <2>2. Incidents!MigrateIndex
    BY <2>1 DEF Incidents!Next, Incidents!Proceed, Incidents!Migrate,
          Incidents!BeginScan, Incidents!Begins, Incidents!UpsertUpdate,
          Incidents!UpsertInsert, Incidents!UpsertReselect, Incidents!ListPredictive,
          Incidents!ListSuppressed, Incidents!EndScan, Incidents!UpsertSelect,
          Incidents!ScanResolve, Incidents!BeginScanWithoutMetrics,
          Incidents!CancelScan, Incidents!Change, Incidents!AdminResolve,
          Incidents!MigrateNormalize, Incidents!MigrateAgain, Incidents!MigrateBusy
  <2>3. /\ RowsGoOn
        /\ Incidents!Open' = Incidents!Open \ Incidents!Victims
    BY <2>2, IndexedRows
  <2>4. \A i \in Incidents!Open : incident'[i].key = incident[i].key
    BY <2>3, RowsInRange DEF RowsGoOn, ScansInv
  <2>5. \A i \in Incidents!Open :
           \E j \in Incidents!Open \ Incidents!Victims : incident[j].key = incident[i].key
    BY VictimsLeaveOne DEF ScansInv
  <2>. QED BY <2>3, <2>4, <2>5
<1>. QED BY <1>1, <1>2

\* The same for a step that leaves the incidents alone.
LEMMA CauseAction ==
  LedgerOfScans /\ [MCNext]_all =>
    [part = "upgrade" => /\ Incidents!ResolvedWhenGone
                         /\ Incidents!MigrationKeepsKeys]_incidentVars
BY CauseStep

\* What the theorems below rest on.
LEMMA LedgerFacts ==
  /\ MCInit => LedgerOfScans
  /\ LedgerOfScans /\ [MCNext]_all => LedgerOfScans'
  /\ LedgerOfScans => IncidentInv
BY LedgerInit, LedgerStep, LedgerSuffices

(***************************************************************************)
(* The invariant of the incident ledger.                                   *)
(***************************************************************************)
THEOREM IncidentInvariance == MCSpec => []LedgerOfScans
BY LedgerFacts, PTL DEF MCSpec

(***************************************************************************)
(* Whatever the scans, the replicas and the faults: racing scans keep one  *)
(* open incident of a key once the index is there, and the index is never  *)
(* refused.                                                                *)
(***************************************************************************)
THEOREM IncidentsHold == MCSpec => []IncidentInv
BY IncidentInvariance, LedgerFacts, PTL

(***************************************************************************)
(* A scan resolves what was gone during it, and the migration keeps an     *)
(* open incident of every key that had one.                                *)
(***************************************************************************)
THEOREM ResolutionsHaveCause == MCSpec => ResolvedForCause
BY IncidentInvariance, CauseAction, PTL DEF MCSpec, ResolvedForCause
=============================================================================
