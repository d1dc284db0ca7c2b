------------------------------ MODULE MCChanges ------------------------------
(***************************************************************************)
(* The three ledgers through which operators change things, in one run of  *)
(* TLC: manifest changes, runtime settings and change sets.  They share no *)
(* state; part says which one moves, in which instance, while the others   *)
(* stay in an initial state.                                               *)
(***************************************************************************)
EXTENDS ManifestChange

CONSTANTS
  Back,         \* the rollback of another change
  Pods,         \* the pods of the deployment
  Writers,      \* those that administrators send their changes of settings to
  NumKeys,      \* runtime settings
  Values,       \* the values an administrator can give them
  MaxWrites, MaxReverts, MaxRestarts, MaxReadFaults,  \* bounds of the settings
  SetHandlers,  \* requests about a change set that are handled at the same time
  NumItems,     \* the settings of the set
  SetValues,    \* the values they accept
  Bad, Env, None,  \* a value refused, the environment's, none
  Blank,        \* settings whose environment value is refused
  MaxSetFaults  \* bound: failures of a change set

VARIABLES part,
          table, snap, applied, last, base, run, used,  \* of the settings
          value, set, handler, original, faults         \* of a change set

\* A change and its rollback, with failing reads and dying handlers.
Reversed ==
  INSTANCE ManifestChange WITH
    Docs <- Docs \ SecretDocs, SecretDocs <- {}, MaxEdits <- 0, MaxPolicies <- 0

\* One change, no failures.
Single == Next /\ row'[Back] = NoRow /\ spent'.faults = 0

\* One request at a time.
First == CHOOSE h \in Handlers : TRUE

Serial == Reversed!Next /\ \A h \in Handlers \ {First} : hs'[h] = Idle

\* The clocks of the pods agree.
Settings ==
  INSTANCE SettingsReload WITH MaxFaults <- MaxReadFaults, Skew <- 0, spent <- used

\* Overrides are added or changed, one time less than the bound.
Plain ==
  /\ Settings!Next
  /\ used'.writes < MaxWrites /\ used'.reverts = 0 /\ used'.restarts = 0 /\ used'.faults = 0

\* Deletions, restarts and failing reads; only the pods that administrators use move.
Disturbed == Settings!Next /\ \A p \in Pods \ Writers : run'[p] = run[p]

\* One set, several requests at a time, every failure.
Sets ==
  INSTANCE ChangeSet WITH
    Handlers <- SetHandlers, Values <- SetValues, Faulty <- {"read", "write", "handler"},
    MaxFaults <- MaxSetFaults, table <- value, row <- set

\* One request at a time.
Sole == CHOOSE h \in SetHandlers : TRUE

Alone == Sets!Next /\ \A h \in SetHandlers \ {Sole} : handler'[h] = Sets!Free

ASSUME SettingsAssumption == Settings!ConstantsOK
ASSUME SetsAssumption == Sets!ConstantsOK

settingsVars == <<table, snap, applied, last, base, run, used>>
setVars == <<value, set, handler, original, faults>>
all == <<vars, part, settingsVars, setVars>>

Still == [i \in 1..NumItems |-> Env]

MCInit ==
  \/ /\ part = "manifest" /\ Init /\ live.doc \notin SecretDocs
     /\ Settings!Init /\ Sets!Init /\ value = Still
  \/ part = "rollback" /\ Reversed!Init /\ Settings!Init /\ Sets!Init /\ value = Still
  \/ /\ Init /\ live = Absent
     /\ Settings!Init /\ Sets!Init
     /\ \/ part \in {"settings", "restarts"} /\ value = Still
        \/ part \in {"sets", "alone"}

MCNext ==
  \/ part = "manifest" /\ Single /\ UNCHANGED <<part, settingsVars, setVars>>
  \/ part = "rollback" /\ Serial /\ UNCHANGED <<part, settingsVars, setVars>>
  \/ part = "settings" /\ Plain /\ UNCHANGED <<part, vars, setVars>>
  \/ part = "restarts" /\ Disturbed /\ UNCHANGED <<part, vars, setVars>>
  \/ part = "sets" /\ Sets!Next /\ UNCHANGED <<part, vars, settingsVars>>
  \/ part = "alone" /\ Alone /\ UNCHANGED <<part, vars, settingsVars>>

(* The reload loops keep ticking and rebuilds go on to their end. *)
MCSpec ==
  /\ MCInit /\ [][MCNext]_all
  /\ \A p \in Pods :
       /\ WF_settingsVars(part = "settings" /\ Settings!Polls(p))
       /\ \A w \in {"loop", "request"} :
            WF_settingsVars(part = "settings" /\ Settings!Rebuilds(p, w))

-----------------------------------------------------------------------------
(***************************************************************************)
(* Stored settings have a version, a time and a value; the token tells two *)
(* contents of the table apart (store/admin_settings.go:49); and a pod     *)
(* whose loop has nothing to do serves what the table says.                *)
(***************************************************************************)
SettingsInv ==
  Settings!TypeOK /\ Settings!TokenIdentifiesTable /\ Settings!SettledPodIsCurrent

(* A change of the settings is applied on every pod. *)
EveryPodConverges == part = "settings" => Settings!EveryPodConverges

(***************************************************************************)
(* No setting ever holds a value that validation refuses.  However         *)
(* requests overlap, an applied or rolled back set was approved and holds  *)
(* a prior value of each item; with one request at a time a set is         *)
(* recorded as applied only when every setting has its value, and a        *)
(* rollback restores the settings unless a read or a write failed          *)
(* (proxy/admin_change_sets.go:256).                                       *)
(***************************************************************************)
SetInv ==
  /\ Sets!TypeOK /\ Sets!AppliedNamesReviewer /\ Sets!AppliedHasPrior
  /\ part = "alone" => Sets!AppliedIsComplete /\ Sets!RollbackRestores
=============================================================================
