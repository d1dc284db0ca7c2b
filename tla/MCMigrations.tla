----------------------------- MODULE MCMigrations -----------------------------
(***************************************************************************)
(* The two unique indexes that a release adds while replicas of the        *)
(* previous one go on writing, over rollout targets and over open          *)
(* incidents, in one run of TLC.  They share no state; part says which     *)
(* ledger moves while the others stay in their initial state.              *)
(***************************************************************************)
EXTENDS TargetLockMigration, Sequences

CONSTANTS
    Keys, Predictive, Batch,      \* dedup keys
    Scanners, Old,                \* scans, and those of the previous release
    ListLimit,                    \* how many incidents a listing returns
    MaxIncidents, MaxChanges, MaxLost  \* bounds

VARIABLES part, signal, incident, order, scan, unique, upgrade, changes, lost

Incidents ==
    INSTANCE IncidentLedger WITH
        MetricsMayFail <- TRUE, MaxFaults <- MaxLost,
        index <- unique, mig <- upgrade, faults <- lost

ASSUME IncidentAssumption == Incidents!ConstantsOK

incidentVars == <<signal, incident, order, scan, unique, upgrade, changes, lost>>
all == <<act, roll, index, mig, superseded, faults, part, incidentVars>>

\* One replica of this release beside those of the previous one, no fault; only
\* preventive signals come and go, no more than two incidents are opened.
New == CHOOSE k \in Scanners : k \notin Old

Upgraded ==
    /\ Incidents!Next
    /\ \A k \in Scanners \ (Old \cup {New}) : scan'[k] = Incidents!Idle
    /\ signal' \subseteq Predictive /\ Len(incident') <= 2 /\ lost' = 0

\* Scans of this release, and every fault.
Scanned ==
    /\ Incidents!Next
    /\ \A k \in Old : scan'[k] = Incidents!Idle

MCInit == part \in {"rollouts", "upgrade", "scans"} /\ Init /\ Incidents!Init

MCNext ==
    \/ part = "rollouts" /\ Next /\ UNCHANGED <<part, incidentVars>>
    \/ part = "upgrade" /\ Upgraded /\ UNCHANGED <<part, vars>>
    \/ part = "scans" /\ Scanned /\ UNCHANGED <<part, vars>>

(***************************************************************************)
(* Agents post and collections run as long as the cluster is registered,   *)
(* so scans go on, and a replica that did not start is started again;      *)
(* nobody has to resolve anything, nothing has to change.                  *)
(***************************************************************************)
MCSpec ==
    /\ MCInit /\ [][MCNext]_all
    /\ \A k \in Scanners \ Old : WF_incidentVars(part = "scans" /\ Incidents!Proceed(k))
    /\ WF_incidentVars(part = "scans" /\ Incidents!Migrate)

-----------------------------------------------------------------------------
(***************************************************************************)
(* The incidents keep their type; with the index racing scans of either    *)
(* release keep one incident of a key open; and old writers do not get     *)
(* between the normalization and the index (store/k8s_incident.go:231).    *)
(***************************************************************************)
IncidentInv ==
    Incidents!TypeOK /\ Incidents!OneOpenPerKey /\ Incidents!IndexNeverConflicts

(***************************************************************************)
(* A scan resolves a preventive incident only when its signal was gone at  *)
(* some time during that scan, and the migration resolves duplicates,      *)
(* never the last open incident of a key.                                  *)
(***************************************************************************)
ResolvedForCause ==
    [][part = "upgrade" => /\ Incidents!ResolvedWhenGone
                           /\ Incidents!MigrationKeepsKeys]_incidentVars

(***************************************************************************)
(* A signal that stays is reported by an open incident, for good or again, *)
(* and the preventive incident of a signal that stays away is resolved.    *)
(***************************************************************************)
IncidentsFollowSignals ==
    part = "scans" => Incidents!SignalsAreReported /\ Incidents!GoneSignalsAreResolved
=============================================================================
