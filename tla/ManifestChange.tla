--------------------------- MODULE ManifestChange ---------------------------
(***************************************************************************)
(* The Manifest Change Studio: the ledger of requests to change or create  *)
(* one Kubernetes resource (internal/store/k8s_manifest_change.go) and the  *)
(* HTTP handlers that move a request through it                             *)
(* (internal/proxy/admin_k8s_manifest_change.go).                           *)
(*                                                                          *)
(* All requests are about the same resource, the case in which they         *)
(* interfere.  A handler is one HTTP request: it reads the row, works       *)
(* outside any transaction (policy check, drift guard, API call) and then   *)
(* writes the row under a WHERE on its status.  Validations, applications   *)
(* and verifications of several handlers interleave; decisions and rollback *)
(* requests are one transaction each.                                       *)
(***************************************************************************)
EXTENDS Naturals, FiniteSets

CONSTANTS
  Changes,     \* identities of change requests
  Handlers,    \* HTTP requests that can be in progress together
  Docs,        \* manifests of the resource
  SecretDocs,  \* those that carry a Secret payload (masked in the ledger)
  NoDoc,       \* the empty manifest: BeforeYAML of a creation
  NoChange,    \* no request
  MaxEdits,    \* bound: edits of the resource by others
  MaxPolicies, \* bound: changes of the policy set
  MaxFaults    \* bound: database reads that fail, handlers that die

ASSUME ManifestAssumption ==
  /\ SecretDocs \subseteq Docs
  /\ NoDoc \notin Docs /\ NoChange \notin Changes
  /\ IsFiniteSet(Changes)
  /\ {MaxEdits, MaxPolicies, MaxFaults} \subseteq Nat

VARIABLES
  row,     \* the ledger: change -> its row
  live,    \* the resource on the API server
  inv,     \* the resource as inventory collection last stored it
  policy,  \* what the stored policies say of the manifest
  hs,      \* the handlers
  net,     \* change -> the SSA request sent for it
  sends,   \* change -> how many SSA requests were sent for it
  hit,     \* change -> what its SSA request found on the API server
  saw,     \* change -> the inventory its drift guard compared with (history)
  spent    \* the bounds used up

vars == <<row, live, inv, policy, hs, net, sends, hit, saw, spent>>

-----------------------------------------------------------------------------
(* State *)

Absent == [uid |-> 0, doc |-> NoDoc]
Policies == {"allow", "approval", "deny"}
Statuses == {"none", "draft", "validated", "approval_required", "approved",
             "rejected", "running", "applied", "failed", "verified",
             "verify_failed", "rollback_requested"}

NoRow == [st |-> "none", ra |-> FALSE, approved |-> FALSE, op |-> "update",
          before |-> NoDoc, after |-> NoDoc, uid |-> 0, src |-> NoChange,
          validation |-> ""]

Idle == [pc |-> "idle", id |-> NoChange, ra |-> FALSE, force |-> FALSE,
         out |-> "", note |-> "", saw |-> Absent]

Resources == [uid : Nat, doc : Docs \cup {NoDoc}]

Rows == [st : Statuses, ra : BOOLEAN, approved : BOOLEAN,
         op : {"create", "update"}, before : Docs \cup {NoDoc},
         after : Docs \cup {NoDoc}, uid : Nat, src : Changes \cup {NoChange},
         validation : {"", "passed", "blocked", "unavailable"}]

Requests == [pc : {"idle", "read", "verdict", "guard", "claim", "send", "wait",
                   "finish", "verify"},
             id : Changes \cup {NoChange}, ra : BOOLEAN, force : BOOLEAN,
             out : Statuses \cup {""}, note : {"", "passed", "blocked", "unavailable"},
             saw : Resources]

(* Every variable holds what its column or field can hold. *)
TypeOK ==
  /\ row \in [Changes -> Rows]
  /\ live \in Resources /\ inv \in Resources
  /\ policy \in Policies
  /\ hs \in [Handlers -> Requests]
  /\ net \in [Changes -> {"none", "pending", "forced", "ok", "err"}]
  /\ sends \in [Changes -> Nat]
  /\ hit \in [Changes -> {"none", "baseline", "overridden", "raced", "silent"}]
  /\ saw \in [Changes -> Resources]
  /\ spent \in [edits : 0..MaxEdits, policies : 0..MaxPolicies, faults : 0..MaxFaults]

Init ==
  /\ row = [c \in Changes |-> NoRow]
  /\ live \in {Absent} \cup [uid : {1}, doc : Docs]
  /\ inv = live
  /\ policy = "allow"
  /\ hs = [h \in Handlers |-> Idle]
  /\ net = [c \in Changes |-> "none"]
  /\ sends = [c \in Changes |-> 0]
  /\ hit = [c \in Changes |-> "none"]
  /\ saw = [c \in Changes |-> Absent]
  /\ spent = [edits |-> 0, policies |-> 0, faults |-> 0]

-----------------------------------------------------------------------------
(* The world around the ledger *)

(* kubectl, GitOps or a controller edits, deletes or re-creates the resource. *)
ExternalEdit ==
  /\ spent.edits < MaxEdits
  /\ \/ \E d \in Docs :
          live' = [uid |-> IF live = Absent THEN spent.edits + 2 ELSE live.uid, doc |-> d]
     \/ live' = Absent
  /\ live' # live
  /\ spent' = [spent EXCEPT !.edits = @ + 1]
  /\ UNCHANGED <<row, inv, policy, hs, net, sends, hit, saw>>

(* Inventory collection stores what the API server has. *)
Collect ==
  /\ inv # live
  /\ inv' = live
  /\ UNCHANGED <<row, live, policy, hs, net, sends, hit, saw, spent>>

(* An administrator edits the policy set. *)
EditPolicies ==
  /\ spent.policies < MaxPolicies
  /\ policy' \in Policies \ {policy}
  /\ spent' = [spent EXCEPT !.policies = @ + 1]
  /\ UNCHANGED <<row, live, inv, hs, net, sends, hit, saw>>

(* A database read or the handler's process fails once more. *)
Fault ==
  /\ spent.faults < MaxFaults
  /\ spent' = [spent EXCEPT !.faults = @ + 1]

-----------------------------------------------------------------------------
(* Creating a request *)

(* An update starts from the inventory's manifest and UID, a creation needs *)
(* the inventory to know no such resource.  Policies and the kind of the    *)
(* changed fields decide whether approval is needed; a Secret payload       *)
(* always needs it.                                                         *)
Create(c, op, d, ra) ==
  /\ row[c].st = "none"
  /\ (op = "create") = (inv = Absent)
  /\ policy = "approval" \/ d \in SecretDocs => ra
  /\ row' = [row EXCEPT ![c] =
               [NoRow EXCEPT !.st = "draft", !.ra = ra, !.op = op,
                  !.before = inv.doc, !.after = d, !.uid = inv.uid]]
  /\ UNCHANGED <<live, inv, policy, hs, net, sends, hit, saw, spent>>

-----------------------------------------------------------------------------
(* Validation *)

(* The handler reads the row; a row without a manifest (the rollback of a   *)
(* creation) is answered 400 and never gets here.                           *)
ValidateRead(h, c) ==
  /\ hs[h] = Idle
  /\ row[c].st # "none"
  /\ row[c].after # NoDoc
  /\ hs' = [hs EXCEPT ![h] = [Idle EXCEPT !.pc = "read", !.id = c, !.ra = row[c].ra]]
  /\ UNCHANGED <<row, live, inv, policy, net, sends, hit, saw, spent>>

(* Policies are loaded and the manifest is sent as a dry run, which may     *)
(* pass, fail or be skipped because the cluster cannot be reached.          *)
ValidateCheck(h) ==
  /\ hs[h].pc = "read"
  /\ \E dryRun \in {"passed", "failed", "skipped"} :
       LET c == hs[h].id
           secret == row[c].after \in SecretDocs
           ra == hs[h].ra \/ policy = "approval" \/ secret
           bad == secret \/ policy = "deny" \/ dryRun = "failed"
           out == CASE bad -> "failed"
                    [] ~bad /\ ra -> "approval_required"
                    [] OTHER -> "validated"
       IN hs' = [hs EXCEPT ![h].pc = "verdict", ![h].ra = ra, ![h].out = out,
                           ![h].note = IF bad THEN "blocked" ELSE "passed"]
  /\ UNCHANGED <<row, live, inv, policy, net, sends, hit, saw, spent>>

(* The policies could not be loaded: the change is to be failed, blocked    *)
(* and in need of approval.                                                 *)
ValidatePolicyUnavailable(h) ==
  /\ hs[h].pc = "read"
  /\ Fault
  /\ hs' = [hs EXCEPT ![h].pc = "verdict", ![h].ra = TRUE, ![h].out = "failed",
                      ![h].note = "unavailable"]
  /\ UNCHANGED <<row, live, inv, policy, net, sends, hit, saw>>

(* UpdateK8sManifestChangeAnalysis: the statuses a verdict may replace. *)
\* Mutant: a failed change can be validated again.
ReopeningAnalysisFrom(out) ==
  IF out = "validated" THEN {"draft", "validated", "failed"}
  ELSE {"draft", "validated", "approval_required", "failed"}

AnalysisFrom(out) ==
  IF out = "validated" THEN {"draft", "validated"}
  ELSE {"draft", "validated", "approval_required"}

(* The verdict is written if the row still has such a status. *)
ValidateWrite(h) ==
  /\ hs[h].pc = "verdict"
  /\ LET c == hs[h].id IN
       row' = IF row[c].st \in AnalysisFrom(hs[h].out)
              THEN [row EXCEPT ![c].st = hs[h].out, ![c].ra = hs[h].ra,
                               ![c].validation = hs[h].note]
              ELSE row
  /\ hs' = [hs EXCEPT ![h] = Idle]
  /\ UNCHANGED <<live, inv, policy, net, sends, hit, saw, spent>>

-----------------------------------------------------------------------------
(* Decisions *)

(* ApproveK8sManifestChangeWithAudit, called by the approve command and by  *)
(* the MCP gateway before a super_admin's apply.                            *)
Approve(c) ==
  /\ row[c].st \in {"validated", "approval_required"}
  /\ row' = [row EXCEPT ![c].st = "approved", ![c].approved = TRUE]
  /\ UNCHANGED <<live, inv, policy, hs, net, sends, hit, saw, spent>>

(* The reject command, and the withdrawal of a change whose owner could not *)
(* be linked to it.                                                         *)
Reject(c) ==
  /\ row[c].st \in {"draft", "validated", "approval_required"}
  /\ row' = [row EXCEPT ![c].st = "rejected"]
  /\ UNCHANGED <<live, inv, policy, hs, net, sends, hit, saw, spent>>

-----------------------------------------------------------------------------
(* Application *)

(* The row is read and the approval gate is checked on what was read. *)
ApplyRead(h, c, force) ==
  /\ hs[h] = Idle
  /\ IF row[c].ra THEN row[c].st = "approved" ELSE row[c].st \in {"validated", "approved"}
  /\ hs' = [hs EXCEPT ![h] = [Idle EXCEPT !.pc = "guard", !.id = c, !.force = force]]
  /\ UNCHANGED <<row, live, inv, policy, net, sends, hit, saw, spent>>

(* manifestChangeDriftGuard compares the request's baseline with inventory. *)
DriftGuard(r) ==
  IF r.op = "create" THEN IF inv = Absent THEN "passed" ELSE "blocked"
  ELSE CASE inv = Absent -> "blocked"
         [] inv # Absent /\ r.uid # 0 /\ r.uid # inv.uid -> "blocked"
         [] inv # Absent /\ (r.uid = 0 \/ r.uid = inv.uid) /\ r.before # inv.doc -> "drift"
         [] OTHER -> "passed"

(* manifestChangeDriftBlocks: force overrides drift and an unread inventory. *)
DriftBlocks(guard, force) ==
  guard = "blocked" \/ (guard \in {"drift", "unknown"} /\ ~force)

ApplyGuard(h) ==
  /\ hs[h].pc = "guard"
  /\ \/ /\ hs' = [hs EXCEPT ![h] = IF DriftBlocks(DriftGuard(row[@.id]), @.force)
                                   THEN Idle ELSE [@ EXCEPT !.pc = "claim", !.saw = inv]]
        /\ UNCHANGED spent
     \/ /\ Fault
        /\ hs' = [hs EXCEPT ![h] = IF DriftBlocks("unknown", @.force)
                                   THEN Idle ELSE [@ EXCEPT !.pc = "claim"]]
  /\ UNCHANGED <<row, live, inv, policy, net, sends, hit, saw>>

(* UpdateK8sManifestChangeStatus(running): the statuses it may replace. *)
\* Mutant: a change that still waits for its approval can be run.
UnapprovedRunFrom == {"validated", "approval_required", "approved"}

RunFrom == {"validated", "approved"}

ApplyClaim(h) ==
  /\ hs[h].pc = "claim"
  /\ IF row[hs[h].id].st \in RunFrom
     THEN /\ row' = [row EXCEPT ![hs[h].id].st = "running"]
          /\ hs' = [hs EXCEPT ![h].pc = "send"]
     ELSE /\ hs' = [hs EXCEPT ![h] = Idle]
          /\ UNCHANGED row
  /\ UNCHANGED <<live, inv, policy, net, sends, hit, saw, spent>>

(* The cluster or its client is not available: failed before anything is sent. *)
ApplyUnprepared(h) ==
  /\ hs[h].pc = "send"
  /\ hs' = [hs EXCEPT ![h].pc = "finish", ![h].out = "failed"]
  /\ UNCHANGED <<row, live, inv, policy, net, sends, hit, saw, spent>>

ApplySend(h) ==
  /\ hs[h].pc = "send"
  /\ hs' = [hs EXCEPT ![h].pc = "wait"]
  /\ net' = [net EXCEPT ![hs[h].id] = IF hs[h].force THEN "forced" ELSE "pending"]
  /\ sends' = [sends EXCEPT ![hs[h].id] = @ + 1]
  /\ saw' = [saw EXCEPT ![hs[h].id] = hs[h].saw]
  /\ UNCHANGED <<row, live, inv, policy, hit, spent>>

(* Server-Side Apply with force and without a precondition: the manifest    *)
(* replaces whatever is there and creates what is not.                      *)
ApiAccept(c) ==
  /\ net[c] \in {"pending", "forced"}
  /\ LET r == row[c]
         baseline == IF r.op = "create" THEN live = Absent
                     ELSE live # Absent /\ r.uid \in {0, live.uid} /\ live.doc = r.before
     IN hit' = [hit EXCEPT ![c] = CASE baseline -> "baseline"
                                    [] ~baseline /\ net[c] = "forced" -> "overridden"
                                    [] ~baseline /\ net[c] # "forced" /\ live # saw[c] -> "raced"
                                    [] OTHER -> "silent"]
  /\ live' = [uid |-> IF live = Absent THEN MaxEdits + 1 + Cardinality({x \in Changes : hit[x] # "none"})
                      ELSE live.uid,
              doc |-> row[c].after]
  /\ net' = [net EXCEPT ![c] = "ok"]
  /\ UNCHANGED <<row, inv, policy, hs, sends, saw, spent>>

ApiReject(c) ==
  /\ net[c] \in {"pending", "forced"}
  /\ net' = [net EXCEPT ![c] = "err"]
  /\ UNCHANGED <<row, live, inv, policy, hs, sends, hit, saw, spent>>

(* The answer arrives. *)
ApplyReply(h) ==
  /\ hs[h].pc = "wait"
  /\ net[hs[h].id] \in {"ok", "err"}
  /\ hs' = [hs EXCEPT ![h].pc = "finish",
              ![h].out = IF net[hs[h].id] = "ok" THEN "applied" ELSE "failed"]
  /\ UNCHANGED <<row, live, inv, policy, net, sends, hit, saw, spent>>

(* The request is cancelled, times out or loses its connection; the API     *)
(* server may have accepted it or still accept it.                          *)
ApplyGiveUp(h) ==
  /\ hs[h].pc = "wait"
  /\ hs' = [hs EXCEPT ![h].pc = "finish", ![h].out = "failed"]
  /\ UNCHANGED <<row, live, inv, policy, net, sends, hit, saw, spent>>

(* The outcome is written under a context of its own, so that the cancelled *)
(* request does not prevent it.                                             *)
ApplyFinish(h) ==
  /\ hs[h].pc = "finish"
  /\ row' = [row EXCEPT ![hs[h].id].st = IF @ = "running" THEN hs[h].out ELSE @]
  /\ hs' = [hs EXCEPT ![h] = Idle]
  /\ UNCHANGED <<live, inv, policy, net, sends, hit, saw, spent>>

(* The process dies, or the handler's last write fails. *)
HandlerDies(h) ==
  /\ hs[h] # Idle
  /\ Fault
  /\ hs' = [hs EXCEPT ![h] = Idle]
  /\ UNCHANGED <<row, live, inv, policy, net, sends, hit, saw>>

-----------------------------------------------------------------------------
(* Verification and rollback *)

Verifiable == {"applied", "verify_failed"}

(* The handler reads the row and looks at the resource, its events and its  *)
(* incidents; what it saw decides the outcome.                              *)
VerifyRead(h, c, out) ==
  /\ hs[h] = Idle
  /\ row[c].st \in Verifiable
  /\ out \in {"verified", "verify_failed"}
  /\ hs' = [hs EXCEPT ![h] = [Idle EXCEPT !.pc = "verify", !.id = c, !.out = out]]
  /\ UNCHANGED <<row, live, inv, policy, net, sends, hit, saw, spent>>

VerifyWrite(h) ==
  /\ hs[h].pc = "verify"
  /\ row' = [row EXCEPT ![hs[h].id].st = IF @ \in Verifiable THEN hs[h].out ELSE @]
  /\ hs' = [hs EXCEPT ![h] = Idle]
  /\ UNCHANGED <<live, inv, policy, net, sends, hit, saw, spent>>

(* CreateK8sManifestRollbackRequest: the source is marked and the request   *)
(* that swaps its manifests is inserted in one transaction.                 *)
Rollback(c, new) ==
  /\ row[c].st \in {"applied", "verified", "verify_failed"}
  /\ row[new].st = "none"
  /\ row' = [row EXCEPT ![c].st = "rollback_requested",
               ![new] = [NoRow EXCEPT !.st = "draft", !.ra = TRUE, !.before = row[c].after,
                           !.after = row[c].before, !.uid = row[c].uid, !.src = c]]
  /\ UNCHANGED <<live, inv, policy, hs, net, sends, hit, saw, spent>>

-----------------------------------------------------------------------------
Next ==
  \/ ExternalEdit \/ Collect \/ EditPolicies
  \/ \E c \in Changes :
       \/ \E op \in {"create", "update"}, d \in Docs, ra \in BOOLEAN : Create(c, op, d, ra)
       \/ Approve(c) \/ Reject(c) \/ ApiAccept(c) \/ ApiReject(c)
       \/ \E new \in Changes : Rollback(c, new)
  \/ \E h \in Handlers :
       \/ \E c \in Changes :
            \/ ValidateRead(h, c)
            \/ \E force \in BOOLEAN : ApplyRead(h, c, force)
            \/ \E out \in {"verified", "verify_failed"} : VerifyRead(h, c, out)
       \/ ValidateCheck(h) \/ ValidatePolicyUnavailable(h) \/ ValidateWrite(h)
       \/ ApplyGuard(h) \/ ApplyClaim(h) \/ ApplyUnprepared(h) \/ ApplySend(h)
       \/ ApplyReply(h) \/ ApplyGiveUp(h) \/ ApplyFinish(h)
       \/ HandlerDies(h) \/ VerifyWrite(h)

Spec == Init /\ [][Next]_vars

-----------------------------------------------------------------------------
(* Properties *)

(* A change that runs or ran was approved whenever its row says that it     *)
(* needs approval, also when a validation raised that requirement after the *)
(* apply handler had checked the gate (admin_k8s_manifest_change.go:668).   *)
ApprovalHonoured ==
  \A c \in Changes : (sends[c] > 0 \/ row[c].st = "running") /\ row[c].ra => row[c].approved

(* Handlers that apply the same change together send it to the API server   *)
(* at most once, whatever they read before they claimed it.                 *)
AppliedOnce == \A c \in Changes : sends[c] <= 1

(* Whatever is sent to the API server passed a validation whose policy check*)
(* ran, and never carries a masked Secret payload.                          *)
OnlyVettedIsSent ==
  \A c \in Changes : sends[c] > 0 =>
    /\ row[c].validation = "passed"
    /\ row[c].after \notin SecretDocs

(* A change the ledger calls applied, or anything that follows applied, was *)
(* accepted by the API server, whatever became of the request that sent it. *)
AppliedIsReal ==
  \A c \in Changes :
    row[c].st \in {"applied", "verified", "verify_failed", "rollback_requested"}
      => hit[c] # "none"

(* docs/ADMIN_GUIDE.md: without force_drift nothing is applied over a       *)
(* resource that is no longer the one the request started from, unless it   *)
(* changed after the inventory that the guard compared with.                *)
NoSilentOverwrite == \A c \in Changes : hit[c] # "silent"

(* A source has one rollback request at most, and has one exactly when its  *)
(* row says so (CreateK8sManifestRollbackRequest).                          *)
OneRollbackPerSource ==
  \A c \in Changes :
    Cardinality({x \in Changes : row[x].src = c})
      = IF row[c].st = "rollback_requested" THEN 1 ELSE 0

(* Rows, handlers and requests keep their types.  What is sent to the API   *)
(* server was validated, approved where that is required, and is sent once  *)
(* (admin_k8s_manifest_change.go:668); what the ledger calls applied was    *)
(* accepted; no edit the guard could see is overwritten without force; and  *)
(* a source has one rollback request exactly when its row says so.          *)
ManifestInv ==
  /\ TypeOK
  /\ ApprovalHonoured /\ AppliedOnce /\ OnlyVettedIsSent
  /\ AppliedIsReal
  /\ NoSilentOverwrite
  /\ OneRollbackPerSource

(* A rejected or failed change stays so: no late verdict, approval or apply *)
(* result of a handler that read an earlier status brings it back.          *)
FinalStaysFinal ==
  [][\A c \in Changes : row[c].st \in {"rejected", "failed"} => row'[c].st = row[c].st]_vars
=============================================================================
