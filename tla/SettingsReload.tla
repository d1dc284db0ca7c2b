--------------------------- MODULE SettingsReload ---------------------------
(***************************************************************************)
(* Runtime settings of a deployment with several pods.                      *)
(*                                                                          *)
(* Administrators override settings in the table admin_settings through any *)
(* pod (internal/store/admin_settings.go, internal/proxy/admin_settings.go).*)
(* The pod that took the request rebuilds its runtime snapshot at once; the *)
(* others poll a token computed from the table and rebuild theirs when it   *)
(* differs from the one they saw last.  A rebuild reads the table, then     *)
(* stores one atomic pointer per group of settings, then notes the token:   *)
(* rebuilds of the poll loop and of administrators' requests on one pod     *)
(* interleave between these steps.                                          *)
(***************************************************************************)
EXTENDS Naturals, FiniteSets, FiniteSetsExt

CONSTANTS
  Pods,
  Writers,     \* the pods that administrators send their changes to
  NumKeys,     \* settings, each in a snapshot of its own
  Values,      \* values an administrator can give a setting
  Env,         \* the value of a setting from the environment: no override
  MaxWrites,   \* bound: changes of the table
  MaxReverts,  \* bound: deletions of an override among them
  MaxRestarts, \* bound: restarts of pods
  MaxFaults,   \* bound: failing reads of the table, failing batches
  Skew         \* how far a pod's clock may be behind

(* What the pods' configuration looks like. *)
ConstantsOK ==
  /\ Writers \subseteq Pods
  /\ NumKeys \in Nat \ {0}
  /\ Env \notin Values
  /\ {MaxWrites, MaxReverts, MaxRestarts, MaxFaults, Skew} \subseteq Nat

Keys == 1..NumKeys

VARIABLES
  table,   \* admin_settings: key -> its row
  snap,    \* pod -> the runtime snapshot its requests are served with
  applied, \* pod -> lastReloadTok, the token it reports as applied
  last,    \* pod -> the token its poll loop compares with
  base,    \* pod -> the table that token was computed from
  run,     \* pod -> its poll loop and the administrator's request it handles
  spent    \* the bounds used up

vars == <<table, snap, applied, last, base, run, spent>>

-----------------------------------------------------------------------------
(* The table and its token *)

NoRow == [val |-> Env, ver |-> 0, at |-> 0]
Stored == {k \in Keys : table[k].ver > 0}

(* AdminSettingsChangeToken: COUNT, SUM(version) and MAX(updated_at). *)
Token ==
  [count |-> Cardinality(Stored), versions |-> MapThenSumSet(LAMBDA k : table[k].ver, Stored),
   newest |-> Max({0} \cup {table[k].at : k \in Stored})]

NoToken == [count |-> 0, versions |-> 0, newest |-> MaxWrites + 1]

(* What a pod should serve: the environment, overlaid by the table. *)
Overlay == [k \in Keys |-> table[k].val]
FromEnv == [k \in Keys |-> Env]

Clock == spent.writes + 1
Write == /\ spent.writes < MaxWrites
         /\ spent' = [spent EXCEPT !.writes = @ + 1]
Revert == /\ spent.writes < MaxWrites /\ spent.reverts < MaxReverts
          /\ spent' = [spent EXCEPT !.writes = @ + 1, !.reverts = @ + 1]
Fault == /\ spent.faults < MaxFaults
         /\ spent' = [spent EXCEPT !.faults = @ + 1]

(* What runs on a pod: the poll loop, and a request of an administrator. *)
Tasks == {"loop", "request"}

Resting == [pc |-> "rest", booting |-> FALSE, copy |-> FromEnv, next |-> 1,
            tok |-> NoToken, tab |-> [k \in Keys |-> NoRow]]

(* Stored rows have a version, a time and a value; the rest is well formed. *)
TypeOK ==
  /\ \A k \in Keys :
       \/ table[k] = NoRow
       \/ table[k].val \in Values /\ table[k].ver \in 1..MaxWrites /\ table[k].at \in 0..MaxWrites
  /\ snap \in [Pods -> [Keys -> Values \cup {Env}]]
  /\ \A p \in Pods, w \in Tasks :
       /\ run[p][w].pc \in {"rest", "list", "store", "note", "seed"}
       /\ run[p][w].copy \in [Keys -> Values \cup {Env}]
       /\ run[p][w].next \in 1..(NumKeys + 1)
  /\ spent \in [writes : 0..MaxWrites, reverts : 0..MaxReverts, restarts : 0..MaxRestarts, faults : 0..MaxFaults]

Init ==
  /\ table = [k \in Keys |-> NoRow]
  /\ snap = [p \in Pods |-> FromEnv]
  /\ applied = [p \in Pods |-> Token]
  /\ last = [p \in Pods |-> Token]
  /\ base = [p \in Pods |-> table]
  /\ run = [p \in Pods |-> [w \in Tasks |-> Resting]]
  /\ spent = [writes |-> 0, reverts |-> 0, restarts |-> 0, faults |-> 0]

-----------------------------------------------------------------------------
(* Administrators *)

(* A pod takes requests once it has built its first snapshot. *)
Serving(p) == p \in Writers /\ ~run[p]["loop"].booting

Reload(p) == run' = [run EXCEPT ![p]["request"] = [Resting EXCEPT !.pc = "list"]]

(* UpsertAdminSetting, for one setting or as part of a batch: the version   *)
(* counts up, the time is the pod's.                                        *)
Upsert(p, k, v) ==
  /\ Serving(p) /\ run[p]["request"].pc \in {"rest", "list"}
  /\ \E behind \in 0..Skew :
       table' = [table EXCEPT ![k] =
                   [val |-> v, ver |-> @.ver + 1, at |-> IF behind < Clock THEN Clock - behind ELSE 0]]
  /\ Write /\ Reload(p)
  /\ UNCHANGED <<snap, applied, last, base>>

(* DeleteAdminSetting: the setting goes back to the environment's value. *)
Delete(p, k) ==
  /\ Serving(p) /\ run[p]["request"].pc = "rest"
  /\ k \in Stored
  /\ table' = [table EXCEPT ![k] = NoRow]
  /\ Revert /\ Reload(p)
  /\ UNCHANGED <<snap, applied, last, base>>

(* A batch that fails after its first writes returns without a rebuild. *)
BatchFails(p) ==
  /\ run[p]["request"].pc = "list"
  /\ Fault
  /\ run' = [run EXCEPT ![p]["request"] = Resting]
  /\ UNCHANGED <<table, snap, applied, last, base>>

-----------------------------------------------------------------------------
(* reloadRuntimeConfig, run by task w of pod p *)

(* ListAdminSettings is read once.  An error is dropped: the snapshot is    *)
(* then built from the environment alone.                                   *)
List(p, w) ==
  /\ run[p][w].pc = "list"
  /\ \/ /\ run' = [run EXCEPT ![p][w].pc = "store", ![p][w].copy = Overlay]
        /\ UNCHANGED spent
     \/ /\ Fault
        /\ run' = [run EXCEPT ![p][w].pc = "store", ![p][w].copy = FromEnv]
  /\ UNCHANGED <<table, snap, applied, last, base>>

(* The snapshots of the groups are stored one after the other. *)
Store(p, w) ==
  LET r == run[p][w] IN
  /\ r.pc = "store"
  /\ snap' = [snap EXCEPT ![p][r.next] = r.copy[r.next]]
  /\ run' = [run EXCEPT ![p][w].next = @ + 1,
               ![p][w].pc = IF r.next = NumKeys THEN "note" ELSE "store"]
  /\ UNCHANGED <<table, applied, last, base, spent>>

(* The last read of a rebuild: a token that cannot be read is not noted. *)
NoteApplied(p) ==
  \/ applied' = [applied EXCEPT ![p] = Token] /\ UNCHANGED spent
  \/ Fault /\ UNCHANGED applied

\* Mutant: the loop compares with the token it reads after the rebuild.
NoteLate(p, w) ==
  LET r == run[p][w] IN
  /\ r.pc = "note"
  /\ NoteApplied(p)
  /\ IF w = "loop" /\ ~r.booting
     THEN last' = [last EXCEPT ![p] = Token] /\ base' = [base EXCEPT ![p] = table]
     ELSE UNCHANGED <<last, base>>
  /\ run' = [run EXCEPT ![p][w] = IF r.booting THEN [Resting EXCEPT !.pc = "seed"] ELSE Resting]
  /\ UNCHANGED <<table, snap>>

(* The current token is noted as the applied one.  The poll loop goes on    *)
(* comparing with the token that made it rebuild; a pod that just started   *)
(* has yet to read the one it will compare with.                            *)
Note(p, w) ==
  LET r == run[p][w] IN
  /\ r.pc = "note"
  /\ NoteApplied(p)
  /\ IF w = "loop" /\ ~r.booting
     THEN last' = [last EXCEPT ![p] = r.tok] /\ base' = [base EXCEPT ![p] = r.tab]
     ELSE UNCHANGED <<last, base>>
  /\ run' = [run EXCEPT ![p][w] = IF r.booting THEN [Resting EXCEPT !.pc = "seed"] ELSE Resting]
  /\ UNCHANGED <<table, snap>>

-----------------------------------------------------------------------------
(* runtimeReloadLoop *)

(* The loop's goroutine reads its first token some time after the pod built *)
(* its first snapshot.  After an error it starts from an empty token.       *)
Seed(p) ==
  /\ run[p]["loop"].pc = "seed"
  /\ \/ /\ last' = [last EXCEPT ![p] = Token]
        /\ UNCHANGED spent
     \/ /\ Fault
        /\ last' = [last EXCEPT ![p] = NoToken]
  /\ base' = [base EXCEPT ![p] = table]
  /\ run' = [run EXCEPT ![p]["loop"] = Resting]
  /\ UNCHANGED <<table, snap, applied>>

\* Mutant: the loop compares with the token the pod reports as applied.
TickApplied(p) ==
  /\ run[p]["loop"].pc = "rest"
  /\ Token # applied[p]
  /\ run' = [run EXCEPT ![p]["loop"] =
               [Resting EXCEPT !.pc = "list", !.tok = Token, !.tab = table]]
  /\ UNCHANGED <<table, snap, applied, last, base, spent>>

(* A tick that finds another token starts a rebuild; a tick that finds the  *)
(* same one, or cannot read it, changes nothing.                            *)
Tick(p) ==
  /\ run[p]["loop"].pc = "rest"
  /\ Token # last[p]
  /\ run' = [run EXCEPT ![p]["loop"] =
               [Resting EXCEPT !.pc = "list", !.tok = Token, !.tab = table]]
  /\ UNCHANGED <<table, snap, applied, last, base, spent>>

(* A pod restarts: it builds its snapshot before it serves and polls. *)
Restart(p) ==
  /\ spent.restarts < MaxRestarts
  /\ spent' = [spent EXCEPT !.restarts = @ + 1]
  /\ snap' = [snap EXCEPT ![p] = FromEnv]
  /\ applied' = [applied EXCEPT ![p] = NoToken]
  /\ last' = [last EXCEPT ![p] = NoToken]
  /\ run' = [run EXCEPT ![p] = [w \in Tasks |->
               IF w = "loop" THEN [Resting EXCEPT !.pc = "list", !.booting = TRUE] ELSE Resting]]
  /\ UNCHANGED <<table, base>>

-----------------------------------------------------------------------------
Next ==
  \E p \in Pods :
    \/ \E k \in Keys : Delete(p, k) \/ \E v \in Values : Upsert(p, k, v)
    \/ BatchFails(p) \/ Restart(p) \/ Seed(p) \/ Tick(p)
    \/ \E w \in Tasks : List(p, w) \/ Store(p, w) \/ Note(p, w)

Spec == Init /\ [][Next]_vars

Polls(p) == Seed(p) \/ Tick(p)
Rebuilds(p, w) == List(p, w) \/ Store(p, w) \/ Note(p, w)

-----------------------------------------------------------------------------
(* Properties *)

(* store/admin_settings.go:49: the token tells two contents of the table    *)
(* apart, so a loop that sees its token again has missed no change.         *)
TokenIdentifiesTable == \A p \in Pods : last[p] = Token => base[p] = table

(* Overrides were only added or changed, no pod restarted, no read failed.  *)
Undisturbed == spent.reverts = 0 /\ spent.restarts = 0 /\ spent.faults = 0

(* A pod whose loop has nothing to do and that runs no rebuild serves what  *)
(* the table says: nothing it missed is left unnoticed until the next       *)
(* change of another setting.                                               *)
SettledPodIsCurrent ==
  Undisturbed =>
    \A p \in Pods :
      last[p] = Token /\ (\A w \in Tasks : run[p][w].pc = "rest") => snap[p] = Overlay

(* proxy/server.go:177: a change made on a pod is applied on every pod.     *)
EveryPodConverges == <>[](Undisturbed => \A p \in DOMAIN snap : snap[p] = Overlay)
=============================================================================
