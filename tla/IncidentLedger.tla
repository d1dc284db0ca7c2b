--------------------------- MODULE IncidentLedger ---------------------------
(***************************************************************************)
(* Kubernetes incidents: the k8s_incidents table, the scans that open,     *)
(* refresh and resolve incidents, the administrators who resolve them, and *)
(* the migration that makes the open incident of a dedup key unique while  *)
(* replicas of the previous release still scan.                            *)
(*                                                                         *)
(* A step is one SQL statement or transaction.                             *)
(***************************************************************************)
EXTENDS Naturals, FiniteSets, Sequences, SequencesExt

CONSTANTS
    Keys,          \* dedup keys
    Predictive,    \* the keys with the prefix "predictive:"
    Batch,         \* restart storms of Jobs, which only the old release reports
    Scanners,      \* scans that run beside each other, on any replica
    Old,           \* those of the previous release
    MetricsMayFail,  \* the metric samples may be unreadable
    ListLimit,     \* ListK8sIncidents returns this many
    MaxAttempts,   \* attempts of the migration
    MaxIncidents,  \* bound: incidents ever opened
    MaxChanges,    \* bound: changes of the signals, resolutions by hand
    MaxFaults      \* bound: failing reads, cancelled scans, lost locks

\* What the ledger assumes of its configuration.
ConstantsOK ==
    /\ Keys # {} /\ Predictive \cup Batch \subseteq Keys
    /\ Old \subseteq Scanners
    /\ MetricsMayFail \in BOOLEAN
    /\ {ListLimit, MaxAttempts} \subseteq Nat \ {0}
    /\ {MaxIncidents, MaxChanges, MaxFaults} \subseteq Nat

VARIABLES
    signal,     \* keys whose condition holds in the cluster
    incident,   \* k8s_incidents, in the order of opened_at
    order,      \* incidents by updated_at, the oldest first
    scan,       \* the scans
    index,      \* the unique index over open dedup keys exists
    mig,        \* the migration's step, attempt and victims
    changes,    \* changes and resolutions by hand so far
    faults      \* failing reads, cancelled scans and lost locks so far

vars == <<signal, incident, order, scan, index, mig, changes, faults>>

Ids == 1 .. MaxIncidents

Incident == [key : Keys, status : {"open", "resolved"}]

Scan == [pc : {"idle", "draft", "insert", "reselect", "update", "resolve",
               "suppress"},
         drafts : SUBSET Keys,    \* keys still to be upserted
         active : SUBSET Keys,    \* activePredictive
         key : Keys,              \* the key that is being upserted
         id : {0} \cup Ids,       \* existingID
         todo : SUBSET Ids,       \* listed incidents to be resolved
         missing : SUBSET Keys]   \* keys without a signal during it (history)

AnyKey == CHOOSE k \in Keys : TRUE

Idle == [pc |-> "idle", drafts |-> {}, active |-> {}, key |-> AnyKey, id |-> 0,
         todo |-> {}, missing |-> {}]

Open == {i \in 1 .. Len(incident) : incident[i].status = "open"}
OpenOf(key) == {i \in Open : incident[i].key = key}

Latest(ids) == CHOOSE i \in ids : \A j \in ids : j <= i

\* The incident's updated_at is now the latest.
Touch(i) == \E p \in DOMAIN order : order[p] = i /\ order' = Append(RemoveAt(order, p), i)

Changes == changes < MaxChanges /\ changes' = changes + 1
Fault == faults < MaxFaults /\ faults' = faults + 1

Goto(k, new) == scan' = [scan EXCEPT ![k] = new]

(***************************************************************************)
(* The migration's lock: LOCK TABLE, or SQLite's writer lock.              *)
(***************************************************************************)
MayWrite == mig.pc # "normalized"

-----------------------------------------------------------------------------
\* External: the cluster.
Change(key) ==
    /\ Changes
    /\ key \notin Batch
    /\ signal' = (signal \ {key}) \cup ({key} \ signal)
    /\ scan' = [k \in Scanners |->
                  IF scan[k].pc = "idle" THEN Idle
                  ELSE [scan[k] EXCEPT !.missing = @ \cup (Keys \ signal')]]
    /\ UNCHANGED <<incident, order, index, mig, faults>>

(***************************************************************************)
(* A scan                                                                  *)
(***************************************************************************)
\* A replica of this release scans after its own migration.
Begins(k, drafts, active) ==
    /\ scan[k].pc = "idle"
    /\ k \in Old \/ index
    /\ Goto(k, [Idle EXCEPT !.pc = "draft", !.active = active, !.missing = Keys \ signal,
                            !.drafts = drafts \cup IF k \in Old THEN Batch ELSE {}])
    /\ UNCHANGED <<signal, incident, order, index, mig, changes>>

BeginScan(k) == Begins(k, signal, signal \cap Predictive) /\ UNCHANGED faults

\* The metric samples cannot be read; the scan goes on without them.
BeginScanWithoutMetrics(k) ==
    /\ MetricsMayFail
    /\ Fault
    /\ Begins(k, signal \ Predictive, {})

\* Mutant: the incident is looked up whatever its status.
UpsertSelectAny(k, key) ==
    LET known == {i \in 1 .. Len(incident) : incident[i].key = key}
    IN /\ scan[k].pc = "draft"
       /\ key \in scan[k].drafts
       /\ Goto(k, [scan[k] EXCEPT
                     !.drafts = @ \ {key},
                     !.key = key,
                     !.id = IF known = {} THEN 0 ELSE Latest(known),
                     !.pc = IF known = {} THEN "insert" ELSE "update"])
       /\ UNCHANGED <<signal, incident, order, index, mig, changes, faults>>

UpsertSelect(k, key) ==
    /\ scan[k].pc = "draft"
    /\ key \in scan[k].drafts
    /\ Goto(k, [scan[k] EXCEPT
                  !.drafts = @ \ {key},
                  !.key = key,
                  !.id = IF OpenOf(key) = {} THEN 0 ELSE Latest(OpenOf(key)),
                  !.pc = IF OpenOf(key) = {} THEN "insert" ELSE "update"])
    /\ UNCHANGED <<signal, incident, order, index, mig, changes, faults>>

NextDraft(k) == Goto(k, [scan[k] EXCEPT !.pc = "draft", !.key = AnyKey, !.id = 0])

\* The update goes by id alone.
UpsertUpdate(k) ==
    /\ scan[k].pc = "update"
    /\ MayWrite
    /\ Touch(scan[k].id)
    /\ NextDraft(k)
    /\ UNCHANGED <<signal, incident, index, mig, changes, faults>>

\* Mutant: the insert names no conflict target.
ConflictIgnored(k) == FALSE

\* ON CONFLICT(dedup_key) WHERE status = 'open': somebody was faster.
Conflict(k) == index /\ OpenOf(scan[k].key) # {}

\* The loser refreshes the winner's row; the old release just fails.
UpsertInsert(k) ==
    /\ scan[k].pc = "insert"
    /\ MayWrite
    /\ IF Conflict(k)
       THEN /\ IF k \in Old THEN NextDraft(k)
               ELSE Goto(k, [scan[k] EXCEPT !.pc = "reselect"])
            /\ UNCHANGED <<incident, order>>
       ELSE /\ Len(incident) < MaxIncidents
            /\ incident' = Append(incident, [key |-> scan[k].key, status |-> "open"])
            /\ order' = Append(order, Len(incident) + 1)
            /\ NextDraft(k)
    /\ UNCHANGED <<signal, index, mig, changes, faults>>

\* The winner's incident may be resolved by now: the draft is left out.
UpsertReselect(k) ==
    /\ scan[k].pc = "reselect"
    /\ IF OpenOf(scan[k].key) = {}
       THEN NextDraft(k)
       ELSE Goto(k, [scan[k] EXCEPT !.pc = "update", !.id = Latest(OpenOf(scan[k].key))])
    /\ UNCHANGED <<signal, incident, order, index, mig, changes, faults>>

\* The open incidents with the latest updated_at, as many as the limit allows.
Listed ==
    LET open == {p \in DOMAIN order : order[p] \in Open}
        later(p) == {q \in open : p < q}
    IN {order[p] : p \in {p \in open : Cardinality(later(p)) < ListLimit}}

\* Mutant: the live signals are not consulted.
ListPredictiveAll(k) ==
    /\ scan[k].pc = "draft"
    /\ scan[k].drafts = {}
    /\ Goto(k, [scan[k] EXCEPT
                  !.pc = "resolve",
                  !.todo = {i \in Listed : incident[i].key \in Predictive}])
    /\ UNCHANGED <<signal, incident, order, index, mig, changes, faults>>

ListPredictive(k) ==
    /\ scan[k].pc = "draft"
    /\ scan[k].drafts = {}
    /\ Goto(k, [scan[k] EXCEPT
                  !.pc = "resolve",
                  !.todo = {i \in Listed : incident[i].key \in Predictive \ scan[k].active}])
    /\ UNCHANGED <<signal, incident, order, index, mig, changes, faults>>

\* Restart storms of Jobs are resolved; the old release does not know them.
ListSuppressed(k) ==
    /\ scan[k].pc = "resolve"
    /\ scan[k].todo = {}
    /\ Goto(k, [scan[k] EXCEPT
                  !.pc = "suppress",
                  !.todo = IF k \in Old THEN {}
                           ELSE {i \in Listed : incident[i].key \in Batch}])
    /\ UNCHANGED <<signal, incident, order, index, mig, changes, faults>>

Resolved(i) ==
    IF i \in Open
    THEN incident' = [incident EXCEPT ![i].status = "resolved"] /\ Touch(i)
    ELSE UNCHANGED <<incident, order>>

ScanResolve(k, i) ==
    /\ scan[k].pc \in {"resolve", "suppress"}
    /\ i \in scan[k].todo
    /\ MayWrite
    /\ Resolved(i)
    /\ Goto(k, [scan[k] EXCEPT !.todo = @ \ {i}])
    /\ UNCHANGED <<signal, index, mig, changes, faults>>

EndScan(k) ==
    /\ scan[k].pc = "suppress"
    /\ scan[k].todo = {}
    /\ Goto(k, Idle)
    /\ UNCHANGED <<signal, incident, order, index, mig, changes, faults>>

\* The agent's request is cancelled, or its process dies.
CancelScan(k) ==
    /\ scan[k].pc # "idle"
    /\ Fault
    /\ Goto(k, Idle)
    /\ UNCHANGED <<signal, incident, order, index, mig, changes>>

\* An administrator resolves an open incident.
AdminResolve(i) ==
    /\ i \in Open
    /\ MayWrite
    /\ Changes
    /\ Resolved(i)
    /\ UNCHANGED <<signal, scan, index, mig, faults>>

(***************************************************************************)
(* The migration, at the start of a replica of this release                *)
(***************************************************************************)
\* All but the earliest open incident of a key.
Victims == {i \in Open : \E j \in OpenOf(incident[i].key) : j < i}

MigrateNormalize ==
    /\ mig.pc = "none"
    /\ mig' = [mig EXCEPT !.pc = "normalized", !.victims = Victims]
    /\ UNCHANGED <<signal, incident, order, scan, index, changes, faults>>

Duplicates == \E i, j \in Open \ mig.victims : i # j /\ incident[i].key = incident[j].key

Retry(reason) ==
    mig' = [pc |-> IF mig.attempt + 1 = MaxAttempts THEN reason ELSE "none",
            attempt |-> mig.attempt + 1, victims |-> {}]

\* The victims of a migration get a later updated_at than all others.
Reordered(o) ==
    /\ ToSet(o) = ToSet(order)
    /\ \A p, q \in DOMAIN o : p < q =>
          \/ o[q] \in mig.victims
          \/ /\ o[p] \notin mig.victims
             /\ \E a, b \in DOMAIN order : a < b /\ order[a] = o[p] /\ order[b] = o[q]

\* The unique index, and the commit; duplicates would refuse it.
MigrateIndex ==
    /\ mig.pc = "normalized"
    /\ IF Duplicates
       THEN Retry("conflict") /\ UNCHANGED <<incident, order, index>>
       ELSE /\ incident' = [i \in DOMAIN incident |->
                             IF i \in mig.victims
                             THEN [incident[i] EXCEPT !.status = "resolved"]
                             ELSE incident[i]]
            /\ order' \in {o \in [DOMAIN order -> ToSet(order)] : Reordered(o)}
            /\ index' = TRUE
            /\ mig' = [mig EXCEPT !.pc = "done", !.victims = {}]
    /\ UNCHANGED <<signal, scan, changes, faults>>

\* The database is locked, or the deadlock detector chose the migration.
MigrateBusy ==
    /\ mig.pc \in {"none", "normalized"}
    /\ Fault
    /\ Retry("busy")
    /\ UNCHANGED <<signal, incident, order, scan, index, changes>>

\* The replica did not start and is started again.
MigrateAgain ==
    /\ mig.pc \in {"busy", "conflict"}
    /\ mig' = [pc |-> "none", attempt |-> 0, victims |-> {}]
    /\ UNCHANGED <<signal, incident, order, scan, index, changes, faults>>

-----------------------------------------------------------------------------
Init ==
    /\ signal = {}
    /\ incident = <<>>
    /\ order = <<>>
    /\ scan = [k \in Scanners |-> Idle]
    /\ index = FALSE
    /\ mig = [pc |-> "none", attempt |-> 0, victims |-> {}]
    /\ changes = 0
    /\ faults = 0

Proceed(k) ==
    \/ BeginScan(k) \/ UpsertUpdate(k) \/ UpsertInsert(k) \/ UpsertReselect(k)
    \/ ListPredictive(k) \/ ListSuppressed(k) \/ EndScan(k)
    \/ \E key \in Keys : UpsertSelect(k, key)
    \/ \E i \in Ids : ScanResolve(k, i)

Migrate == MigrateNormalize \/ MigrateIndex \/ MigrateAgain

Next ==
    \/ \E k \in Scanners : Proceed(k) \/ BeginScanWithoutMetrics(k) \/ CancelScan(k)
    \/ \E key \in Keys : Change(key)
    \/ \E i \in Ids : AdminResolve(i)
    \/ Migrate \/ MigrateBusy

Spec == Init /\ [][Next]_vars

-----------------------------------------------------------------------------
\* Every variable keeps its type.
TypeOK ==
    /\ signal \subseteq Keys
    /\ incident \in Seq(Incident) /\ Len(incident) <= MaxIncidents
    /\ order \in Seq(Ids)
    /\ ToSet(order) = 1 .. Len(incident) /\ Len(order) = Len(incident)
    /\ scan \in [Scanners -> Scan]
    /\ index \in BOOLEAN
    /\ mig.pc \in {"none", "normalized", "busy", "conflict", "done"}
    /\ mig.attempt \in 0 .. MaxAttempts
    /\ mig.victims \subseteq Ids
    /\ changes \in 0 .. MaxChanges
    /\ faults \in 0 .. MaxFaults

(***************************************************************************)
(* Once the migration is done, racing scans of either release keep at most *)
(* one incident of a key open.                                             *)
(***************************************************************************)
OneOpenPerKey == index => \A i, j \in Open : incident[i].key = incident[j].key => i = j

\* Old writers cannot get between the normalization and the index.
IndexNeverConflicts == mig.pc # "conflict" /\ ~(mig.pc = "normalized" /\ Duplicates)

(***************************************************************************)
(* The migration resolves duplicates, never the last open incident of a    *)
(* key.                                                                    *)
(***************************************************************************)
MigrationKeepsKeys ==
    index' # index =>
        {incident[i].key : i \in Open} = {incident'[i].key : i \in Open'}

(***************************************************************************)
(* A scan resolves a preventive incident only when its signal was gone at  *)
(* some time during that scan.                                             *)
(***************************************************************************)
ResolvedWhenGone ==
    \A k \in Scanners, i \in Open :
        ScanResolve(k, i) /\ scan[k].pc = "resolve" => incident[i].key \in scan[k].missing

\* A signal that stays is reported by an open incident, for good or again.
SignalsAreReported ==
    \A key \in Keys : <>[](key \in signal) => []<>(OpenOf(key) # {})

\* The preventive incident of a signal that stays away is resolved.
GoneSignalsAreResolved ==
    \A key \in Predictive : <>[](key \notin signal) => <>[](OpenOf(key) = {})
=============================================================================
