--------------------------- MODULE RolloutEvidence ---------------------------
(***************************************************************************)
(* Where the evidence comes from: one workload as its cluster has it, the  *)
(* inventory the collectors copy it into, the patches on the wire, and the *)
(* rollouts that are judged by that inventory.                             *)
(*                                                                         *)
(* A patch whose client has given up may still be applied, later or never. *)
(* Collections overlap, each writes what it read under the time it began,  *)
(* and UpsertK8sInventory lets an older one overwrite a newer one.  Other  *)
(* people edit, delete and recreate the workload.                          *)
(*                                                                         *)
(* A rollout has one executor and one roller here and every judgement is   *)
(* atomic; what several of them do to one row is RolloutLedger's subject.  *)
(***************************************************************************)
EXTENDS Naturals, RolloutJudge

CONSTANTS
    Rollouts,     \* rollout requests for the workload
    Collectors,   \* collections that may overlap
    Templates,    \* pod templates without the hub's annotations
    Original,     \* the template the workload starts with
    Absent,       \* no such object
    None,         \* a template the hub never annotated
    MaxEdits,     \* bound: changes by others
    MaxCrashes,   \* bound: processes that die at work
    MaxTroubles   \* bound: the two together

ASSUME NamesAssumption == None \notin {"restart", "rollback"} \X Rollouts

ASSUME BoundsAssumption ==
    /\ MaxEdits \in Nat
    /\ MaxCrashes \in Nat
    /\ MaxTroubles \in Nat
    /\ Original \in Templates

VARIABLES
    live,       \* the workload in its cluster
    wire,       \* patches sent and neither applied nor lost
    inv,        \* the inventory item
    col,        \* what each collector is doing
    act, roll,  \* the two ledgers, as in RolloutLedger
    prev,       \* uid, spec and generation the precheck saved
    exec,       \* where runApprovedK8sAction is
    roller,     \* where requestAutoRollback is
    applied,    \* history: patches that were applied
    readied,    \* history: generations whose pods all became ready
    edits,      \* changes by others so far
    crashes     \* processes that died so far

ledger  == <<act, roll, prev, exec, roller>>
cluster == <<live, wire, applied, readied, edits, crashes>>
vars    == <<ledger, cluster, inv, col>>

Patches == {"restart", "rollback"} \X Rollouts

(***************************************************************************)
(* tpl is what normalizeRolloutTemplate leaves of the template, by the     *)
(* clustara.io/actionId annotation; together they are what is hashed.  A   *)
(* restart carries the action's id, a rollback the rollout's.              *)
(***************************************************************************)
Spec0 == [tpl |-> Original, by |-> None]
Specs == [tpl : Templates, by : Patches \cup {None}]

Workload(uid) == [uid |-> uid, spec |-> Spec0, gen |-> 1, seen |-> 0,
                  pods |-> "rolling"]

\* One generation of one object, and what it says.
Generation(obj) == [uid |-> obj.uid, gen |-> obj.gen, spec |-> obj.spec]

NoItem == [obj |-> Absent, since |-> {}, rbSince |-> {}]

NewRow(auto, restorable) ==
    [status |-> "approved", rb |-> "", auto |-> auto,
     restorable |-> restorable, tgt |-> NoBase]

Started(r)         == roll[r].status \in (Driving \cup Terminal) \ {"rejected"}
RollbackStarted(r) == roll[r].rb # ""

-----------------------------------------------------------------------------
(***************************************************************************)
(* The cluster (external)                                                  *)
(***************************************************************************)
\* The API server stores a changed spec under the next generation.
Change(spec) == live' = [live EXCEPT !.spec = spec, !.gen = @ + 1]

ApplyPatch(q) ==
    /\ q \in wire /\ live # Absent
    /\ Change([tpl |-> IF q[1] = "rollback" THEN prev[q[2]].spec.tpl
                       ELSE live.spec.tpl,
               by  |-> q])
    /\ wire' = wire \ {q}
    /\ applied' = applied \cup {q}
    /\ UNCHANGED <<ledger, readied, edits, crashes, inv, col>>

LosePatch(q) ==
    /\ q \in wire
    /\ wire' = wire \ {q}
    /\ UNCHANGED <<ledger, live, applied, readied, edits, crashes, inv, col>>

\* The controller takes up the current generation, and reports on its pods.
ControllerActs ==
    /\ live # Absent /\ live.seen # live.gen
    /\ live' = [live EXCEPT !.seen = live.gen, !.pods = "rolling"]
    /\ UNCHANGED <<ledger, wire, applied, readied, edits, crashes, inv, col>>

PodsSettle ==
    /\ live # Absent /\ live.seen = live.gen /\ live.pods = "rolling"
    /\ \/ /\ live' = [live EXCEPT !.pods = "ready"]
          /\ readied' = readied \cup {Generation(live)}
       \/ live' = [live EXCEPT !.pods = "failing"] /\ UNCHANGED readied
    /\ UNCHANGED <<ledger, wire, applied, edits, crashes, inv, col>>

\* Somebody else edits, deletes or recreates the workload.
Disturb ==
    /\ edits < MaxEdits /\ edits + crashes < MaxTroubles
    /\ edits' = edits + 1
    /\ \/ /\ live # Absent
          /\ \E t \in Templates \ {live.spec.tpl} :
                Change([live.spec EXCEPT !.tpl = t])
       \/ live # Absent /\ live' = Absent
       \/ live # Absent /\ live' = Workload(live.uid + 1)
    /\ UNCHANGED <<ledger, wire, applied, readied, crashes, inv, col>>

-----------------------------------------------------------------------------
(***************************************************************************)
(* runClusterCollect: observed_at is taken, the cluster is listed, and the *)
(* result is written whatever was written meanwhile.                       *)
(***************************************************************************)
BeginCollect(c) ==
    /\ col[c].pc = "idle"
    /\ col' = [col EXCEPT ![c] =
                 [pc |-> "list",
                  item |-> [obj |-> Absent,
                            since |-> {r \in Rollouts : Started(r)},
                            rbSince |-> {r \in Rollouts : RollbackStarted(r)}]]]
    /\ UNCHANGED <<ledger, cluster, inv>>

Collect(c) ==
    /\ col[c].pc = "list"
    /\ col' = [col EXCEPT ![c] = [pc |-> "upsert",
                                   item |-> [col[c].item EXCEPT !.obj = live]]]
    /\ UNCHANGED <<ledger, cluster, inv>>

UpsertK8sInventory(c) ==
    /\ col[c].pc = "upsert"
    /\ inv' = col[c].item
    /\ col' = [col EXCEPT ![c] = [pc |-> "idle", item |-> NoItem]]
    /\ UNCHANGED <<ledger, cluster>>

-----------------------------------------------------------------------------
(***************************************************************************)
(* observeRollout                                                          *)
(***************************************************************************)
\* Mutant: any inventory from after the start counts.
MutationAssumed(r) == inv.obj # Absent /\ r \in inv.since

MutationObserved(r) ==
    /\ inv.obj # Absent
    /\ r \in inv.since
    /\ \/ inv.obj.spec.by \in {<<"restart", r>>, <<"rollback", r>>}
       \/ inv.obj.spec # prev[r].spec

\* Mutant: any observed generation counts.
MovedAnyway(noted) == inv.obj.seen # 0

\* The revision, or the observed generation, is another than the one noted.
Moved(noted) == inv.obj.seen # 0 /\ inv.obj.seen # noted

\* Mutant: the controller's revision is not compared.
ControllerAssumed(r) == inv.obj # Absent /\ r \in inv.since

ControllerObserved(r) ==
    /\ inv.obj # Absent
    /\ r \in inv.since
    /\ Moved(prev[r].seen)

\* Mutant: inventory from before the rollback counts.
RestoreSeenEarly(r) ==
    /\ inv.obj # Absent
    /\ inv.obj.spec.by = <<"rollback", r>> \/ inv.obj.spec.tpl = prev[r].spec.tpl
    /\ roll[r].tgt # NoBase
    /\ inv.obj.spec # roll[r].tgt.spec
    /\ Moved(roll[r].tgt.seen)

RollbackObserved(r) ==
    /\ inv.obj # Absent
    /\ r \in inv.rbSince
    /\ \/ inv.obj.spec.by = <<"rollback", r>>
       \/ inv.obj.spec.tpl = prev[r].spec.tpl
    /\ roll[r].tgt # NoBase
    /\ inv.obj.spec # roll[r].tgt.spec
    /\ Moved(roll[r].tgt.seen)

Evidence(r) ==
    LET found    == inv.obj # Absent
        other    == found /\ inv.obj.uid # prev[r].uid
        executed == MutationObserved(r) /\ ControllerObserved(r)
        failing  == found /\ inv.obj.pods = "failing"
        healthy  == found /\ inv.obj.pods = "ready"
    IN  [found         |-> found,
         other         |-> other,
         touched       |-> MutationObserved(r) \/ ControllerObserved(r),
         failed        |-> (other /\ r \in inv.since) \/ (executed /\ failing),
         healthy       |-> executed /\ healthy,
         restoreFailed |-> RollbackObserved(r) /\ failing,
         restored      |-> RollbackObserved(r) /\ healthy,
         base          |-> IF found THEN [spec |-> inv.obj.spec,
                                          seen |-> inv.obj.seen]
                           ELSE NoBase]

-----------------------------------------------------------------------------
(***************************************************************************)
(* A rollout's life                                                        *)
(***************************************************************************)
\* rolloutPrecheck refuses a workload the inventory shows unhealthy.
RequestRollout(r, auto, restorable) ==
    /\ act[r] = "none"
    /\ inv.obj # Absent /\ inv.obj.pods = "ready"
    /\ \A q \in Rollouts : act[q] # "none" /\ prev[q].uid = inv.obj.uid
                           => ~ActiveTarget(roll[q])
    /\ act' = [act EXCEPT ![r] = "approved"]
    /\ roll' = [roll EXCEPT ![r] = NewRow(auto, restorable)]
    /\ prev' = [prev EXCEPT ![r] = [uid |-> inv.obj.uid,
                                    spec |-> inv.obj.spec,
                                    seen |-> inv.obj.seen]]
    /\ exec' = [exec EXCEPT ![r] = "check"]
    /\ UNCHANGED <<roller, cluster, inv, col>>

Drifted(r) ==
    \/ inv.obj = Absent
    \/ inv.obj.uid # prev[r].uid
    \/ inv.obj.spec # prev[r].spec

\* A budget or a rollout in flight may block what has not drifted, too.
StartK8sRolloutExecution(r) ==
    /\ exec[r] = "check"
    /\ act' = [act EXCEPT ![r] = "running"]
    /\ roll' = [roll EXCEPT ![r].status = "running"]
    /\ \/ exec' = [exec EXCEPT ![r] = "blocked"]
       \/ ~Drifted(r) /\ exec' = [exec EXCEPT ![r] = "send"]
    /\ UNCHANGED <<prev, roller, cluster, inv, col>>

SendRestart(r) ==
    /\ exec[r] = "send"
    /\ exec' = [exec EXCEPT ![r] = "await"]
    /\ wire' = wire \cup {<<"restart", r>>}
    /\ UNCHANGED <<act, roll, prev, roller, live, applied, readied, edits,
                   crashes, inv, col>>

(***************************************************************************)
(* Only an accepted patch is answered with success.  A broken connection   *)
(* is an error and a deadline an unknown outcome, wherever the patch is.   *)
(***************************************************************************)
Answer(q) == IF q \in applied THEN {"ok", "error", "unknown"}
             ELSE {"error", "unknown"}

FinalizeK8sRolloutMutation(r) ==
    \E out \in IF exec[r] = "blocked" THEN {"blocked"}
               ELSE Answer(<<"restart", r>>) :
        /\ exec[r] \in {"blocked", "await"}
        /\ exec' = [exec EXCEPT ![r] = "done"]
        /\ IF act[r] = "running" /\ roll[r].status = "running"
           THEN /\ act' = [act EXCEPT ![r] = FinalAction(out)]
                /\ roll' = [roll EXCEPT ![r] = FinalRow(roll[r], out)]
           ELSE UNCHANGED <<act, roll>>
        /\ UNCHANGED <<prev, roller, cluster, inv, col>>

\* Timeouts may pass at any time; a claim is taken back from a dead roller.
ReconcileRollout(r) ==
    /\ act[r] # "none" /\ rolloutReconcileDue(roll[r])
    /\ roll[r].rb = "running" => roller[r] = "idle"
    /\ \E late, rbLate \in BOOLEAN :
          roll' = [roll EXCEPT ![r] = Judge(roll[r], Evidence(r), late, rbLate)]
    /\ UNCHANGED <<act, prev, exec, roller, cluster, inv, col>>

\* requestAutoRollback: the claim, the live UID, the patch, the result.
ClaimRollback(r) ==
    /\ roll[r].rb = "requested" /\ roller[r] = "idle"
    /\ roll' = [roll EXCEPT ![r].rb = "running"]
    /\ roller' = [roller EXCEPT ![r] = "verify"]
    /\ UNCHANGED <<act, prev, exec, cluster, inv, col>>

VerifyLiveTarget(r) ==
    /\ roller[r] = "verify"
    /\ IF live # Absent /\ live.uid = prev[r].uid
       THEN roller' = [roller EXCEPT ![r] = "send"] /\ UNCHANGED roll
       ELSE /\ roller' = [roller EXCEPT ![r] = "idle"]
            /\ roll' = [roll EXCEPT ![r] = RollbackRow(roll[r], "error")]
    /\ UNCHANGED <<act, prev, exec, cluster, inv, col>>

SendRollback(r) ==
    /\ roller[r] = "send"
    /\ roller' = [roller EXCEPT ![r] = "await"]
    /\ wire' = wire \cup {<<"rollback", r>>}
    /\ UNCHANGED <<act, roll, prev, exec, live, applied, readied, edits,
                   crashes, inv, col>>

FinalizeRollback(r) ==
    /\ roller[r] = "await"
    /\ \E out \in Answer(<<"rollback", r>>) :
          roll' = [roll EXCEPT ![r] = RollbackRow(roll[r], out)]
    /\ roller' = [roller EXCEPT ![r] = "idle"]
    /\ UNCHANGED <<act, prev, exec, cluster, inv, col>>

syncRolloutActionRequest(r) ==
    /\ roll[r].status \in Terminal /\ act[r] = "running"
    /\ act' = [act EXCEPT ![r] = SyncedAction(roll[r], MutationObserved(r))]
    /\ UNCHANGED <<roll, prev, exec, roller, cluster, inv, col>>

\* A process dies with the ledgers as they are; an approved action is redone.
Crash(r) ==
    /\ crashes < MaxCrashes /\ edits + crashes < MaxTroubles
    /\ crashes' = crashes + 1
    /\ \/ /\ exec[r] \in {"send", "await", "blocked"}
          /\ exec' = [exec EXCEPT ![r] = "done"]
          /\ UNCHANGED roller
       \/ /\ roller[r] # "idle"
          /\ roller' = [roller EXCEPT ![r] = "idle"]
          /\ UNCHANGED exec
    /\ UNCHANGED <<act, roll, prev, live, wire, applied, readied, edits,
                   inv, col>>

-----------------------------------------------------------------------------
\* The workload at first, with its pods up.
Settled == [Workload(1) EXCEPT !.seen = 1, !.pods = "ready"]

Init ==
    /\ live = Settled
    /\ wire = {}
    /\ inv = [NoItem EXCEPT !.obj = live]
    /\ col = [c \in Collectors |-> [pc |-> "idle", item |-> NoItem]]
    /\ act = [r \in Rollouts |-> "none"]
    /\ roll = [r \in Rollouts |->
                 [NewRow(FALSE, FALSE) EXCEPT !.status = "rejected"]]
    /\ prev = [r \in Rollouts |-> [uid |-> 0, spec |-> Spec0, seen |-> 0]]
    /\ exec = [r \in Rollouts |-> "new"]
    /\ roller = [r \in Rollouts |-> "idle"]
    /\ applied = {}
    /\ readied = {Generation(Settled)}
    /\ edits = 0
    /\ crashes = 0

Cluster ==
    \/ \E q \in Patches : ApplyPatch(q) \/ LosePatch(q)
    \/ ControllerActs
    \/ PodsSettle
    \/ Disturb

Inventory ==
    \E c \in Collectors : BeginCollect(c) \/ Collect(c) \/ UpsertK8sInventory(c)

Drive(r) ==
    \/ \E auto, restorable \in BOOLEAN :
          (restorable => auto) /\ RequestRollout(r, auto, restorable)
    \/ StartK8sRolloutExecution(r)
    \/ SendRestart(r)
    \/ FinalizeK8sRolloutMutation(r)
    \/ ReconcileRollout(r)
    \/ ClaimRollback(r)
    \/ VerifyLiveTarget(r)
    \/ SendRollback(r)
    \/ FinalizeRollback(r)
    \/ syncRolloutActionRequest(r)
    \/ Crash(r)

Next == Cluster \/ Inventory \/ \E r \in Rollouts : Drive(r)

Spec == Init /\ [][Next]_vars

-----------------------------------------------------------------------------
Object == [uid : Nat, spec : Specs, gen : Nat, seen : Nat,
           pods : {"rolling", "ready", "failing"}]

Item == [obj : {Absent} \cup Object,
         since : SUBSET Rollouts, rbSince : SUBSET Rollouts]

RolloutRow == [status : Status, rb : RollbackStatus,
               auto : BOOLEAN, restorable : BOOLEAN,
               tgt : {NoBase} \cup [spec : Specs, seen : Nat]]

\* Every variable keeps its shape.
TypeOK ==
    /\ live \in {Absent} \cup Object
    /\ inv \in Item
    /\ col \in [Collectors -> [pc : {"idle", "list", "upsert"}, item : Item]]
    /\ wire \subseteq Patches
    /\ applied \subseteq Patches
    /\ readied \subseteq [uid : Nat, gen : Nat, spec : Specs]
    /\ act \in [Rollouts -> ActionStatus]
    /\ roll \in [Rollouts -> RolloutRow]
    /\ prev \in [Rollouts -> [uid : Nat, spec : Specs, seen : Nat]]
    /\ exec \in [Rollouts -> {"new", "check", "blocked", "send", "await", "done"}]
    /\ roller \in [Rollouts -> {"idle", "verify", "send", "await"}]
    /\ edits \in 0 .. MaxEdits
    /\ crashes \in 0 .. MaxCrashes

\* Somebody else changed the workload: what is observed may be their doing.
Disturbed(r) == edits > 0 \/ \E q \in applied : q[2] # r

(***************************************************************************)
(* A rollout is reported as succeeded only when all pods of another        *)
(* generation than the one it started from became ready, and the change    *)
(* was its own restart unless somebody else changed the workload: old      *)
(* status under a new spec, inventory from before the start and late       *)
(* collections never count (observeRollout).                               *)
(***************************************************************************)
RealSuccess(r) ==
    roll[r].status = "succeeded" =>
        \E s \in readied : /\ s.uid = prev[r].uid /\ s.gen # prev[r].seen
                           /\ s.spec.by = <<"restart", r>> \/ Disturbed(r)

SuccessIsReal == \A r \in Rollouts : RealSuccess(r)

(***************************************************************************)
(* A rollback is reported as succeeded only when all pods of the saved     *)
(* template became ready after a patch of the rollout's own, unless        *)
(* somebody else changed the workload: inventory from before the rollback  *)
(* and the status of the old generation never count (observeRollout).      *)
(***************************************************************************)
RealRestore(r) ==
    roll[r].rb = "succeeded" =>
        \/ \E s \in readied : /\ s.spec.tpl = prev[r].spec.tpl
                              /\ s.spec.by \in {<<"restart", r>>, <<"rollback", r>>}
        \/ Disturbed(r)

RestoredTemplateRuns == \A r \in Rollouts : RealRestore(r)

\* The action's own patch was applied, or there is somebody else to blame.
Executed(r) == <<"restart", r>> \in applied \/ Disturbed(r)

(***************************************************************************)
(* Without a rollback in the game an action is closed as executed only     *)
(* when its patch was applied, however its outcome was lost                *)
(* (syncRolloutActionRequest).                                             *)
(***************************************************************************)
RealExecution(r) == act[r] = "executed" /\ ~roll[r].auto => Executed(r)

ExecutedWithoutRollback == \A r \in Rollouts : RealExecution(r)

(***************************************************************************)
(* What holds also while somebody else edits, deletes or recreates the     *)
(* workload: every variable keeps its shape, and a success is real.        *)
(***************************************************************************)
EvidenceInv == TypeOK /\ SuccessIsReal
=============================================================================
