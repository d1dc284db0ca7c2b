---------------------------- MODULE ChangeProofs ----------------------------
(***************************************************************************)
(* Proofs about three ledgers of changes: manifest changes, for any number *)
(* of changes of one resource and of requests that work on them together,  *)
(* change sets, for any number of settings and requests, and runtime       *)
(* settings, for any number of pods, settings and values.                  *)
(*                                                                         *)
(* Between its steps a request relies on what it read.  The argument for   *)
(* manifest changes is that a row passes the claim once, that only the     *)
(* request that made the claim sends and finishes, and that everything a   *)
(* request remembers of a change (its manifests, its baseline) stays as it *)
(* is once the row exists.                                                 *)
(***************************************************************************)
EXTENDS MCChanges, FiniteSetTheorems, WellFoundedInduction, TLAPS

-----------------------------------------------------------------------------
(***************************************************************************)
(* The inductive invariant                                                 *)
(***************************************************************************)
\* The statuses before the claim.
Unclaimed == {"none", "draft", "validated", "approval_required", "approved"}

\* The steps of the request that made the claim.
Claimed == {"send", "wait", "finish"}

Cleared(r) == r.validation = "passed" /\ r.after \notin SecretDocs

\* The resource x is the one that r started from.
Baseline(r, x) ==
  IF r.op = "create" THEN x = Absent
  ELSE x # Absent /\ r.uid \in {0, x.uid} /\ x.doc = r.before

\* A row, and what was sent for it.
RowOK(c) ==
  /\ row[c].st = "none" => row[c] = NoRow
  /\ row[c].st \in Unclaimed => sends[c] = 0 /\ net[c] = "none"
  /\ row[c].st \in {"validated", "approval_required", "approved", "running"}
       => Cleared(row[c])
  /\ row[c].st = "validated" => ~row[c].ra
  /\ row[c].st \in {"approved", "running"} /\ row[c].ra => row[c].approved
  /\ sends[c] > 0 => sends[c] = 1 /\ Cleared(row[c]) /\ (row[c].ra => row[c].approved)
  /\ row[c].st \in {"applied", "verified", "verify_failed", "rollback_requested"}
       => hit[c] # "none"
  /\ net[c] = "ok" => hit[c] # "none"
  /\ net[c] = "pending" => Baseline(row[c], saw[c])
  /\ hit[c] # "silent"

\* What a request x relies on.
Fits(x) ==
  x.pc # "idle" =>
    /\ x.id \in Changes /\ row[x.id].st # "none"
    /\ x.pc = "verdict" =>
         /\ x.out \in {"failed", "validated", "approval_required"}
         /\ x.out # "failed" => x.note = "passed" /\ row[x.id].after \notin SecretDocs
         /\ x.out = "validated" => ~x.ra
    /\ x.pc \in {"claim", "send"} /\ ~x.force => Baseline(row[x.id], x.saw)
    /\ x.pc \in Claimed => row[x.id].st = "running"
    /\ x.pc = "send" => sends[x.id] = 0 /\ net[x.id] = "none"
    /\ x.pc = "finish" => /\ x.out \in {"applied", "failed"}
                          /\ x.out = "applied" => hit[x.id] # "none"
    /\ x.pc = "verify" => x.out \in {"verified", "verify_failed"}

OneClaim ==
  \A h, k \in Handlers :
    hs[h].pc \in Claimed /\ hs[k].pc \in Claimed /\ hs[h].id = hs[k].id => h = k

Sources ==
  \A c \in Changes :
    IF row[c].st = "rollback_requested"
    THEN \E x \in Changes : row[x].src = c /\ \A y \in Changes : row[y].src = c => y = x
    ELSE \A x \in Changes : row[x].src # c

ChangeInv ==
  /\ TypeOK
  /\ \A c \in Changes : RowOK(c)
  /\ \A h \in Handlers : Fits(hs[h])
  /\ OneClaim
  /\ Sources

-----------------------------------------------------------------------------
(***************************************************************************)
(* The kinds of step                                                       *)
(***************************************************************************)
ledger == <<row, net, sends, hit, saw>>

\* The resource, the inventory or the policies move.
LEMMA WorldStep ==
  ASSUME ChangeInv, TypeOK', UNCHANGED <<ledger, hs>>
  PROVE  ChangeInv'
BY DEF ChangeInv, ledger, RowOK, Fits, OneClaim, Sources, Cleared, Baseline

\* A request goes on without writing: it may not claim anything.
LEMMA RequestStep ==
  ASSUME ChangeInv, NEW h \in Handlers, NEW x \in Requests,
         hs' = [hs EXCEPT ![h] = x], UNCHANGED <<ledger, live, inv, policy>>,
         spent' \in [edits : 0..MaxEdits, policies : 0..MaxPolicies, faults : 0..MaxFaults],
         Fits(x),
         x.pc \in Claimed => hs[h].pc \in Claimed /\ x.id = hs[h].id
  PROVE  ChangeInv'
<1>1. TypeOK'
  BY DEF ChangeInv, TypeOK, ledger
<1>2. \A k \in Handlers : hs'[k] = IF k = h THEN x ELSE hs[k]
  BY DEF ChangeInv, TypeOK
<1>3. \A c \in Changes : RowOK(c)'
  BY DEF ChangeInv, ledger, RowOK, Cleared, Baseline
<1>4. \A k \in Handlers : Fits(hs[k])'
  BY <1>2 DEF ChangeInv, ledger, Fits, Baseline
<1>5. OneClaim'
  BY <1>2 DEF ChangeInv, OneClaim
<1>6. Sources'
  BY DEF ChangeInv, ledger, Sources
<1>. QED BY <1>1, <1>3, <1>4, <1>5, <1>6 DEF ChangeInv

\* What a request relies on in a row.
Stays(r, s) ==
  /\ r.op = s.op /\ r.before = s.before /\ r.after = s.after /\ r.uid = s.uid
  /\ r.src = s.src

(***************************************************************************)
(* The row of an existing change is written, and a request may be over     *)
(* with it.  What is running is written only by the request that runs it.  *)
(***************************************************************************)
LEMMA RowStep ==
  ASSUME ChangeInv, NEW c \in Changes, NEW r \in Rows,
         row' = [row EXCEPT ![c] = r], Stays(r, row[c]),
         row[c].st # "none", r.st # "none",
         r.st = "rollback_requested" <=> row[c].st = "rollback_requested",
         UNCHANGED <<live, inv, policy, net, sends, hit, saw, spent>>,
         hs' \in [Handlers -> Requests],
         \A h \in Handlers : hs'[h] = hs[h] \/ hs'[h] = Idle,
         \A h \in Handlers : hs'[h].pc \in Claimed /\ hs'[h].id = c => r.st = "running",
         RowOK(c)'
  PROVE  ChangeInv'
<1>1. TypeOK'
  BY DEF ChangeInv, TypeOK
<1>2. \A d \in Changes : row'[d] = IF d = c THEN r ELSE row[d]
  BY DEF ChangeInv, TypeOK
<1>3. \A d \in Changes : RowOK(d)'
  BY <1>2 DEF ChangeInv, RowOK, Cleared, Baseline
<1>4. ASSUME NEW h \in Handlers
      PROVE  Fits(hs[h])'
  <2>1. CASE hs'[h] = Idle
    <3>1. Idle.pc = "idle"
      BY DEF Idle
    <3>2. hs'[h].pc = "idle"
      BY <2>1, <3>1
    <3>. QED BY <3>2 DEF Fits
  <2>2. CASE hs'[h] = hs[h] /\ hs[h].id # c
    BY <1>2, <2>2 DEF ChangeInv, Fits, Baseline
  <2>3. CASE hs'[h] = hs[h] /\ hs[h].id = c
    BY <1>2, <2>3 DEF ChangeInv, Fits, Baseline, Stays
  <2>. QED BY <2>1, <2>2, <2>3
<1>5. OneClaim'
  <2>1. Idle.pc \notin Claimed
    BY DEF Idle, Claimed
  <2>2. \A h \in Handlers : hs'[h].pc \in Claimed => hs'[h] = hs[h]
    BY <2>1
  <2>. QED BY <2>2 DEF ChangeInv, OneClaim
<1>6. Sources'
  BY <1>2 DEF ChangeInv, Sources, Stays
<1>. QED BY <1>1, <1>3, <1>4, <1>5, <1>6 DEF ChangeInv

-----------------------------------------------------------------------------
(***************************************************************************)
(* The world around the ledger                                             *)
(***************************************************************************)
\* Others edit the resource, the inventory is collected, policies change.
LEMMA WorldOK ==
  ASSUME ChangeInv, ExternalEdit \/ Collect \/ EditPolicies
  PROVE  ChangeInv'
<1>1. CASE ExternalEdit
  <2>1. live' \in Resources
    BY <1>1 DEF ExternalEdit, Resources, Absent, ChangeInv, TypeOK
  <2>2. spent' \in [edits : 0..MaxEdits, policies : 0..MaxPolicies, faults : 0..MaxFaults]
    BY <1>1, ManifestAssumption DEF ExternalEdit, ChangeInv, TypeOK
  <2>. QED BY <1>1, <2>1, <2>2, WorldStep DEF ExternalEdit, ChangeInv, TypeOK, ledger
<1>2. CASE Collect
  BY <1>2, WorldStep DEF Collect, ChangeInv, TypeOK, ledger
<1>3. CASE EditPolicies
  <2>1. spent' \in [edits : 0..MaxEdits, policies : 0..MaxPolicies, faults : 0..MaxFaults]
    BY <1>3, ManifestAssumption DEF EditPolicies, ChangeInv, TypeOK
  <2>. QED BY <1>3, <2>1, WorldStep DEF EditPolicies, ChangeInv, TypeOK, ledger
<1>. QED BY <1>1, <1>2, <1>3

-----------------------------------------------------------------------------
(***************************************************************************)
(* Requests that do not write yet                                          *)
(***************************************************************************)
\* The bounds stay in their ranges when something fails.
LEMMA FaultOK ==
  ASSUME TypeOK, Fault
  PROVE  spent' \in [edits : 0..MaxEdits, policies : 0..MaxPolicies, faults : 0..MaxFaults]
BY ManifestAssumption DEF TypeOK, Fault

\* A request reads its change and remembers it.
LEMMA BeginOK ==
  ASSUME ChangeInv, NEW h \in Handlers, NEW c \in Changes,
         \/ ValidateRead(h, c)
         \/ \E force \in BOOLEAN : ApplyRead(h, c, force)
         \/ \E out \in {"verified", "verify_failed"} : VerifyRead(h, c, out)
  PROVE  ChangeInv'
<1>1. row[c] \in Rows /\ RowOK(c)
  BY DEF ChangeInv, TypeOK
<1>2. CASE ValidateRead(h, c)
  <2>. DEFINE x == [Idle EXCEPT !.pc = "read", !.id = c, !.ra = row[c].ra]
  <2>1. x \in Requests /\ x.pc = "read" /\ x.id = c
    BY <1>1 DEF Idle, Requests, Rows, Absent, Resources
  <2>2. Fits(x)
    BY <1>2, <2>1 DEF Fits, ValidateRead, Claimed
  <2>. HIDE DEF x
  <2>3. hs' = [hs EXCEPT ![h] = x] /\ UNCHANGED <<ledger, live, inv, policy, spent>>
    BY <1>2 DEF ValidateRead, x, ledger
  <2>. QED BY <2>1, <2>2, <2>3, RequestStep DEF ChangeInv, TypeOK, Claimed
<1>3. ASSUME NEW force \in BOOLEAN, ApplyRead(h, c, force)
      PROVE  ChangeInv'
  <2>. DEFINE x == [Idle EXCEPT !.pc = "guard", !.id = c, !.force = force]
  <2>1. x \in Requests /\ x.pc = "guard" /\ x.id = c
    BY DEF Idle, Requests, Absent, Resources
  <2>2. Fits(x)
    BY <1>3, <2>1 DEF Fits, ApplyRead, Claimed
  <2>. HIDE DEF x
  <2>3. hs' = [hs EXCEPT ![h] = x] /\ UNCHANGED <<ledger, live, inv, policy, spent>>
    BY <1>3 DEF ApplyRead, x, ledger
  <2>. QED BY <2>1, <2>2, <2>3, RequestStep DEF ChangeInv, TypeOK, Claimed
<1>4. ASSUME NEW out \in {"verified", "verify_failed"}, VerifyRead(h, c, out)
      PROVE  ChangeInv'
  <2>. DEFINE x == [Idle EXCEPT !.pc = "verify", !.id = c, !.out = out]
  <2>1. x \in Requests /\ x.pc = "verify" /\ x.id = c /\ x.out = out
    BY DEF Idle, Requests, Absent, Resources, Statuses
  <2>2. Fits(x)
    BY <1>4, <2>1 DEF Fits, VerifyRead, Claimed, Verifiable
  <2>. HIDE DEF x
  <2>3. hs' = [hs EXCEPT ![h] = x] /\ UNCHANGED <<ledger, live, inv, policy, spent>>
    BY <1>4 DEF VerifyRead, x, ledger
  <2>. QED BY <2>1, <2>2, <2>3, RequestStep DEF ChangeInv, TypeOK, Claimed
<1>. QED BY <1>2, <1>3, <1>4

\* A request reaches its verdict.
LEMMA VerdictOK ==
  ASSUME ChangeInv, NEW h \in Handlers,
         ValidateCheck(h) \/ ValidatePolicyUnavailable(h)
  PROVE  ChangeInv'
<1>1. hs[h] \in Requests /\ Fits(hs[h])
  BY DEF ChangeInv, TypeOK
<1>2. hs[h].pc = "read"
  BY DEF ValidateCheck, ValidatePolicyUnavailable
<1>3. hs[h].id \in Changes /\ row[hs[h].id].st # "none"
  BY <1>1, <1>2 DEF Fits
<1>4. ASSUME NEW ra \in BOOLEAN, NEW out \in {"failed", "validated", "approval_required"},
             NEW note \in {"passed", "blocked", "unavailable"},
             out # "failed" => note = "passed" /\ row[hs[h].id].after \notin SecretDocs,
             out = "validated" => ~ra,
             hs' = [hs EXCEPT ![h].pc = "verdict", ![h].ra = ra, ![h].out = out,
                              ![h].note = note],
             UNCHANGED <<ledger, live, inv, policy>>,
             spent' \in [edits : 0..MaxEdits, policies : 0..MaxPolicies,
                     faults : 0..MaxFaults]
      PROVE  ChangeInv'
  <2>. DEFINE x == [hs[h] EXCEPT !.pc = "verdict", !.ra = ra, !.out = out, !.note = note]
  <2>1. /\ x \in Requests /\ x.pc = "verdict" /\ x.id = hs[h].id /\ x.ra = ra
        /\ x.out = out /\ x.note = note
    BY <1>1, ZenonT(60) DEF Requests, Statuses
  <2>2. hs' = [hs EXCEPT ![h] = x]
    BY <1>4 DEF ChangeInv, TypeOK
  <2>. HIDE DEF x
  <2>3. Fits(x)
    BY <1>3, <1>4, <2>1 DEF Fits, Claimed
  <2>. QED BY <1>4, <2>1, <2>2, <2>3, RequestStep DEF Claimed
<1>5. CASE ValidateCheck(h)
  <2>1. PICK dryRun \in {"passed", "failed", "skipped"} :
          LET c == hs[h].id
              secret == row[c].after \in SecretDocs
              ra == hs[h].ra \/ policy = "approval" \/ secret
              bad == secret \/ policy = "deny" \/ dryRun = "failed"
              out == CASE bad -> "failed"
                       [] ~bad /\ ra -> "approval_required"
                       [] OTHER -> "validated"
          IN hs' = [hs EXCEPT ![h].pc = "verdict", ![h].ra = ra, ![h].out = out,
                              ![h].note = IF bad THEN "blocked" ELSE "passed"]
    BY <1>5 DEF ValidateCheck
  <2>. DEFINE secret == row[hs[h].id].after \in SecretDocs
              ra == hs[h].ra \/ policy = "approval" \/ secret
              bad == secret \/ policy = "deny" \/ dryRun = "failed"
              out == CASE bad -> "failed"
                       [] ~bad /\ ra -> "approval_required"
                       [] OTHER -> "validated"
              note == IF bad THEN "blocked" ELSE "passed"
  <2>2. ra \in BOOLEAN /\ note \in {"passed", "blocked", "unavailable"}
    BY <1>1 DEF Requests
  <2>3. /\ out \in {"failed", "validated", "approval_required"}
        /\ out # "failed" => note = "passed" /\ row[hs[h].id].after \notin SecretDocs
        /\ out = "validated" => ~ra
    OBVIOUS
  <2>4. hs' = [hs EXCEPT ![h].pc = "verdict", ![h].ra = ra, ![h].out = out,
                         ![h].note = note]
    BY <2>1
  <2>5. UNCHANGED <<ledger, live, inv, policy, spent>>
    BY <1>5 DEF ValidateCheck, ledger
  <2>. HIDE DEF ra, out, note
  <2>. QED BY <1>4, <2>2, <2>3, <2>4, <2>5 DEF ChangeInv, TypeOK
<1>6. CASE ValidatePolicyUnavailable(h)
  BY <1>4, <1>6, FaultOK DEF ValidatePolicyUnavailable, ChangeInv, ledger
<1>. QED BY <1>5, <1>6

\* A request is over, as idle as it began.
LEMMA OverOK ==
  ASSUME ChangeInv, NEW h \in Handlers, hs' = [hs EXCEPT ![h] = Idle],
         UNCHANGED <<ledger, live, inv, policy>>,
         spent' \in [edits : 0..MaxEdits, policies : 0..MaxPolicies, faults : 0..MaxFaults]
  PROVE  ChangeInv'
<1>1. Idle \in Requests /\ Idle.pc = "idle"
  BY DEF Idle, Requests, Absent, Resources
<1>2. Fits(Idle)
  BY <1>1 DEF Fits
<1>. QED BY <1>1, <1>2, RequestStep DEF Claimed

\* What lets a change through without force is its baseline.
LEMMA GuardPasses ==
  ASSUME NEW r \in Rows, NEW force \in BOOLEAN, TypeOK,
         ~DriftBlocks(DriftGuard(r), force), ~force
  PROVE  Baseline(r, inv)
<1>1. DriftGuard(r) \in {"passed", "blocked", "drift"}
  BY DEF DriftGuard
<1>2. DriftGuard(r) = "passed"
  BY <1>1 DEF DriftBlocks
<1>3. inv \in Resources /\ r.uid \in Nat
  BY DEF TypeOK, Rows
<1>4. CASE r.op = "create"
  BY <1>2, <1>4 DEF DriftGuard, Baseline
<1>5. CASE r.op # "create" /\ inv = Absent
  BY <1>2, <1>5 DEF DriftGuard
<1>6. CASE r.op # "create" /\ inv # Absent
  <2>1. r.uid = 0 \/ r.uid = inv.uid
    BY <1>2, <1>6 DEF DriftGuard
  <2>2. r.before = inv.doc
    BY <1>2, <1>6, <2>1 DEF DriftGuard
  <2>. QED BY <1>6, <2>1, <2>2 DEF Baseline
<1>. QED BY <1>4, <1>5, <1>6

\* The drift guard is checked, or passed over because inventory is unknown.
LEMMA GuardOK ==
  ASSUME ChangeInv, NEW h \in Handlers, ApplyGuard(h)
  PROVE  ChangeInv'
<1>1. hs[h] \in Requests /\ Fits(hs[h]) /\ hs[h].pc = "guard"
  BY DEF ChangeInv, TypeOK, ApplyGuard
<1>2. hs[h].id \in Changes /\ row[hs[h].id].st # "none" /\ row[hs[h].id] \in Rows
  BY <1>1 DEF Fits, ChangeInv, TypeOK
<1>3. UNCHANGED <<ledger, live, inv, policy>>
  BY DEF ApplyGuard, ledger
<1>4. spent' \in [edits : 0..MaxEdits, policies : 0..MaxPolicies, faults : 0..MaxFaults]
  BY FaultOK DEF ApplyGuard, ChangeInv, TypeOK
<1>5. ASSUME NEW y \in Resources, hs' = [hs EXCEPT ![h] = [@
        EXCEPT !.pc = "claim", !.saw = y]],
             ~hs[h].force => Baseline(row[hs[h].id], y)
      PROVE  ChangeInv'
  <2>. DEFINE x == [hs[h] EXCEPT !.pc = "claim", !.saw = y]
  <2>1. /\ x \in Requests /\ x.pc = "claim" /\ x.id = hs[h].id /\ x.saw = y
        /\ x.force = hs[h].force
    BY <1>1 DEF Requests
  <2>2. hs' = [hs EXCEPT ![h] = x]
    BY <1>5 DEF ChangeInv, TypeOK
  <2>. HIDE DEF x
  <2>3. Fits(x)
    BY <1>2, <1>5, <2>1 DEF Fits, Claimed
  <2>. QED BY <1>3, <1>4, <2>1, <2>2, <2>3, RequestStep DEF Claimed
<1>6. CASE hs' = [hs EXCEPT ![h] = IF DriftBlocks(DriftGuard(row[@.id]), @.force)
                                   THEN Idle ELSE [@ EXCEPT !.pc = "claim", !.saw = inv]]
  <2>1. CASE DriftBlocks(DriftGuard(row[hs[h].id]), hs[h].force)
    <3>1. hs' = [hs EXCEPT ![h] = Idle]
      BY <1>6, <2>1 DEF ChangeInv, TypeOK
    <3>. QED BY <1>3, <1>4, <3>1, OverOK
  <2>2. CASE ~DriftBlocks(DriftGuard(row[hs[h].id]), hs[h].force)
    <3>1. hs' = [hs EXCEPT ![h] = [@ EXCEPT !.pc = "claim", !.saw = inv]]
      BY <1>6, <2>2 DEF ChangeInv, TypeOK
    <3>2. inv \in Resources /\ hs[h].force \in BOOLEAN
      BY <1>1 DEF ChangeInv, TypeOK, Requests
    <3>3. ~hs[h].force => Baseline(row[hs[h].id], inv)
      BY <1>2, <2>2, <3>2, GuardPasses DEF ChangeInv
    <3>. QED BY <1>5, <3>1, <3>2, <3>3
  <2>. QED BY <2>1, <2>2
<1>7. CASE hs' = [hs EXCEPT ![h] = IF DriftBlocks("unknown", @.force)
                                   THEN Idle ELSE [@ EXCEPT !.pc = "claim"]]
  <2>1. CASE DriftBlocks("unknown", hs[h].force)
    <3>1. hs' = [hs EXCEPT ![h] = Idle]
      BY <1>7, <2>1 DEF ChangeInv, TypeOK
    <3>. QED BY <1>3, <1>4, <3>1, OverOK
  <2>2. CASE ~DriftBlocks("unknown", hs[h].force)
    <3>1. hs[h].force
      BY <2>2 DEF DriftBlocks
    <3>. DEFINE x == [hs[h] EXCEPT !.pc = "claim"]
    <3>2. x \in Requests /\ x.pc = "claim" /\ x.id = hs[h].id /\ x.force = hs[h].force
      BY <1>1 DEF Requests
    <3>3. hs' = [hs EXCEPT ![h] = x]
      BY <1>7, <2>2 DEF ChangeInv, TypeOK
    <3>. HIDE DEF x
    <3>4. Fits(x)
      BY <1>2, <3>1, <3>2 DEF Fits, Claimed
    <3>. QED BY <1>3, <1>4, <3>2, <3>3, <3>4, RequestStep DEF Claimed
  <2>. QED BY <2>1, <2>2
<1>. QED BY <1>6, <1>7 DEF ApplyGuard

\* The request that made the claim learns or decides the outcome.
LEMMA OutcomeOK ==
  ASSUME ChangeInv, NEW h \in Handlers,
         ApplyUnprepared(h) \/ ApplyReply(h) \/ ApplyGiveUp(h)
  PROVE  ChangeInv'
<1>1. hs[h] \in Requests /\ Fits(hs[h]) /\ hs[h].pc \in {"send", "wait"}
  BY DEF ChangeInv, TypeOK, ApplyUnprepared, ApplyReply, ApplyGiveUp
<1>2. hs[h].id \in Changes /\ row[hs[h].id].st = "running" /\ RowOK(hs[h].id)
  BY <1>1 DEF Fits, ChangeInv, Claimed
<1>3. PICK out \in {"applied", "failed"} :
        /\ hs' = [hs EXCEPT ![h].pc = "finish", ![h].out = out]
        /\ out = "applied" => net[hs[h].id] = "ok"
  BY DEF ApplyUnprepared, ApplyReply, ApplyGiveUp
<1>4. UNCHANGED <<ledger, live, inv, policy, spent>>
  BY DEF ApplyUnprepared, ApplyReply, ApplyGiveUp, ledger
<1>. DEFINE x == [hs[h] EXCEPT !.pc = "finish", !.out = out]
<1>5. x \in Requests /\ x.pc = "finish" /\ x.id = hs[h].id /\ x.out = out
  BY <1>1 DEF Requests, Statuses
<1>6. hs' = [hs EXCEPT ![h] = x]
  BY <1>3 DEF ChangeInv, TypeOK
<1>. HIDE DEF x
<1>7. Fits(x)
  BY <1>2, <1>3, <1>5 DEF Fits, Claimed, RowOK
<1>. QED BY <1>1, <1>4, <1>5, <1>6, <1>7, RequestStep DEF Claimed, ChangeInv, TypeOK

\* The process dies, or the request's last write fails.
LEMMA DeathOK ==
  ASSUME ChangeInv, NEW h \in Handlers, HandlerDies(h)
  PROVE  ChangeInv'
BY FaultOK, OverOK DEF HandlerDies, ledger, ChangeInv

-----------------------------------------------------------------------------
(***************************************************************************)
(* Writes of a change's row                                                *)
(***************************************************************************)
\* Nobody approves or rejects what is running or was sent.
LEMMA DecisionOK ==
  ASSUME ChangeInv, NEW c \in Changes, Approve(c) \/ Reject(c)
  PROVE  ChangeInv'
<1>1. row[c] \in Rows /\ RowOK(c)
  BY DEF ChangeInv, TypeOK
<1>2. UNCHANGED <<live, inv, policy, hs, net, sends, hit, saw, spent>>
  BY DEF Approve, Reject
<1>3. row[c].st \in {"draft", "validated", "approval_required"}
  BY DEF Approve, Reject
<1>4. \A h \in Handlers : ~(hs[h].pc \in Claimed /\ hs[h].id = c)
  BY <1>3 DEF ChangeInv, Fits, Claimed
<1>5. CASE Approve(c)
  <2>. DEFINE r == [row[c] EXCEPT !.st = "approved", !.approved = TRUE]
  <2>1. /\ r \in Rows /\ r.st = "approved" /\ r.approved /\ r.ra = row[c].ra
        /\ r.validation = row[c].validation /\ r.after = row[c].after /\ Stays(r, row[c])
    BY <1>1 DEF Rows, Stays, Statuses
  <2>2. row' = [row EXCEPT ![c] = r] /\ row'[c] = r
    BY <1>5 DEF Approve, ChangeInv, TypeOK
  <2>. HIDE DEF r
  <2>3. RowOK(c)'
    BY <1>1, <1>2, <1>5, <2>1, <2>2 DEF RowOK, Unclaimed, Cleared, Approve, Baseline
  <2>. QED BY <1>2, <1>3, <1>4, <2>1, <2>2, <2>3, RowStep DEF ChangeInv, TypeOK
<1>6. CASE Reject(c)
  <2>. DEFINE r == [row[c] EXCEPT !.st = "rejected"]
  <2>1. /\ r \in Rows /\ r.st = "rejected" /\ r.ra = row[c].ra
           /\ r.approved = row[c].approved
        /\ r.validation = row[c].validation /\ r.after = row[c].after /\ Stays(r, row[c])
    BY <1>1 DEF Rows, Stays, Statuses
  <2>2. row' = [row EXCEPT ![c] = r] /\ row'[c] = r
    BY <1>6 DEF Reject, ChangeInv, TypeOK
  <2>. HIDE DEF r
  <2>3. RowOK(c)'
    BY <1>1, <1>2, <1>3, <2>1, <2>2 DEF RowOK, Unclaimed, Cleared, Baseline, Stays
  <2>. QED BY <1>2, <1>3, <1>4, <2>1, <2>2, <2>3, RowStep DEF ChangeInv, TypeOK
<1>. QED BY <1>5, <1>6

\* A request whose write finds another status just ends.
LEMMA MissOK ==
  ASSUME ChangeInv, NEW h \in Handlers, hs' = [hs EXCEPT ![h] = Idle],
         UNCHANGED <<row, live, inv, policy, net, sends, hit, saw, spent>>
  PROVE  ChangeInv'
BY OverOK DEF ledger, ChangeInv, TypeOK

\* A request writes a row and is over; nobody else runs the change.
LEMMA WriteStep ==
  ASSUME ChangeInv, NEW h \in Handlers, NEW c \in Changes, NEW r \in Rows,
         row' = [row EXCEPT ![c] = r], hs' = [hs EXCEPT ![h] = Idle],
         UNCHANGED <<live, inv, policy, net, sends, hit, saw, spent>>,
         Stays(r, row[c]),
         row[c].st \notin {"none", "rollback_requested"},
         r.st \notin {"none", "rollback_requested"},
         \A k \in Handlers \ {h} : ~(hs[k].pc \in Claimed /\ hs[k].id = c),
         RowOK(c)'
  PROVE  ChangeInv'
<1>1. Idle \in Requests /\ Idle.pc \notin Claimed
  BY DEF Idle, Requests, Absent, Resources, Claimed
<1>2. \A k \in Handlers : hs'[k] = IF k = h THEN Idle ELSE hs[k]
  BY DEF ChangeInv, TypeOK
<1>3. hs' \in [Handlers -> Requests]
  BY <1>1 DEF ChangeInv, TypeOK
<1>4. \A k \in Handlers : ~(hs'[k].pc \in Claimed /\ hs'[k].id = c)
  BY <1>1, <1>2
<1>. QED BY <1>2, <1>3, <1>4, RowStep

\* A verdict replaces only an earlier verdict.
LEMMA ValidateWriteOK ==
  ASSUME ChangeInv, NEW h \in Handlers, ValidateWrite(h)
  PROVE  ChangeInv'
<1>1. hs[h] \in Requests /\ Fits(hs[h]) /\ hs[h].pc = "verdict"
  BY DEF ChangeInv, TypeOK, ValidateWrite
<1>2. PICK c \in Changes : c = hs[h].id
  BY <1>1 DEF Fits
<1>3. PICK out \in {"failed", "validated", "approval_required"} : out = hs[h].out
  BY <1>1 DEF Fits
<1>4. PICK ra \in BOOLEAN : ra = hs[h].ra
  BY <1>1 DEF Requests
<1>5. PICK note : note \in {"", "passed", "blocked", "unavailable"} /\ note = hs[h].note
  BY <1>1 DEF Requests
<1>6. /\ out # "failed" => note = "passed" /\ row[c].after \notin SecretDocs
      /\ out = "validated" => ~ra
  BY <1>1, <1>2, <1>3, <1>4, <1>5 DEF Fits
<1>7. row[c] \in Rows /\ RowOK(c)
  BY DEF ChangeInv, TypeOK
<1>8. /\ hs' = [hs EXCEPT ![h] = Idle]
      /\ UNCHANGED <<live, inv, policy, net, sends, hit, saw, spent>>
  BY DEF ValidateWrite
<1>9. CASE row[c].st \in AnalysisFrom(out)
  <2>. DEFINE r == [row[c] EXCEPT !.st = out, !.ra = ra, !.validation = note]
  <2>1. /\ r \in Rows /\ r.st = out /\ r.ra = ra /\ r.validation = note
        /\ r.after = row[c].after /\ Stays(r, row[c])
    BY <1>5, <1>7, ZenonT(60) DEF Rows, Stays, Statuses
  <2>2. row' = [row EXCEPT ![c] = r] /\ row'[c] = r
    BY <1>2, <1>3, <1>4, <1>5, <1>9, ZenonT(60) DEF ValidateWrite, ChangeInv, TypeOK
  <2>3. row[c].st \in {"draft", "validated", "approval_required"}
    BY <1>9 DEF AnalysisFrom
  <2>. HIDE DEF r
  <2>4. RowOK(c)'
    BY <1>6, <1>7, <1>8, <2>1, <2>2, <2>3 DEF RowOK, Unclaimed, Cleared, Baseline
  <2>5. \A k \in Handlers : ~(hs[k].pc \in Claimed /\ hs[k].id = c)
    BY <2>3 DEF ChangeInv, Fits, Claimed
  <2>. QED BY <1>8, <2>1, <2>2, <2>3, <2>4, <2>5, WriteStep
<1>10. CASE row[c].st \notin AnalysisFrom(out)
  BY <1>2, <1>3, <1>8, <1>10, MissOK DEF ValidateWrite
<1>. QED BY <1>9, <1>10

\* The outcome is written by the request that made the claim.
LEMMA FinishOK ==
  ASSUME ChangeInv, NEW h \in Handlers, ApplyFinish(h)
  PROVE  ChangeInv'
<1>1. hs[h] \in Requests /\ Fits(hs[h]) /\ hs[h].pc = "finish"
  BY DEF ChangeInv, TypeOK, ApplyFinish
<1>2. PICK c \in Changes : c = hs[h].id
  BY <1>1 DEF Fits
<1>3. PICK out \in {"applied", "failed"} : out = hs[h].out
  BY <1>1 DEF Fits
<1>4. row[c].st = "running" /\ (out = "applied" => hit[c] # "none")
  BY <1>1, <1>2, <1>3 DEF Fits, Claimed
<1>5. row[c] \in Rows /\ RowOK(c)
  BY DEF ChangeInv, TypeOK
<1>6. /\ hs' = [hs EXCEPT ![h] = Idle]
      /\ UNCHANGED <<live, inv, policy, net, sends, hit, saw, spent>>
  BY DEF ApplyFinish
<1>. DEFINE r == [row[c] EXCEPT !.st = out]
<1>7. /\ r \in Rows /\ r.st = out /\ r.ra = row[c].ra /\ r.validation = row[c].validation
      /\ r.after = row[c].after /\ r.approved = row[c].approved /\ Stays(r, row[c])
  BY <1>5 DEF Rows, Stays, Statuses
<1>8. row' = [row EXCEPT ![c] = r] /\ row'[c] = r
  BY <1>2, <1>3, <1>4 DEF ApplyFinish, ChangeInv, TypeOK
<1>. HIDE DEF r
<1>9. RowOK(c)'
  BY <1>4, <1>5, <1>6, <1>7, <1>8 DEF RowOK, Unclaimed, Cleared, Baseline, Stays
<1>10. \A k \in Handlers \ {h} : ~(hs[k].pc \in Claimed /\ hs[k].id = c)
  BY <1>1, <1>2 DEF ChangeInv, OneClaim, Claimed
<1>. QED BY <1>4, <1>6, <1>7, <1>8, <1>9, <1>10, WriteStep

\* A verification's outcome replaces applied or an earlier outcome.
LEMMA VerifyWriteOK ==
  ASSUME ChangeInv, NEW h \in Handlers, VerifyWrite(h)
  PROVE  ChangeInv'
<1>1. hs[h] \in Requests /\ Fits(hs[h]) /\ hs[h].pc = "verify"
  BY DEF ChangeInv, TypeOK, VerifyWrite
<1>2. PICK c \in Changes : c = hs[h].id
  BY <1>1 DEF Fits
<1>3. PICK out \in {"verified", "verify_failed"} : out = hs[h].out
  BY <1>1 DEF Fits
<1>4. row[c] \in Rows /\ RowOK(c)
  BY DEF ChangeInv, TypeOK
<1>5. /\ hs' = [hs EXCEPT ![h] = Idle]
      /\ UNCHANGED <<live, inv, policy, net, sends, hit, saw, spent>>
  BY DEF VerifyWrite
<1>6. CASE row[c].st \in Verifiable
  <2>. DEFINE r == [row[c] EXCEPT !.st = out]
  <2>1. /\ r \in Rows /\ r.st = out /\ r.ra = row[c].ra /\ r.validation = row[c].validation
        /\ r.after = row[c].after /\ r.approved = row[c].approved /\ Stays(r, row[c])
    BY <1>4 DEF Rows, Stays, Statuses
  <2>2. row' = [row EXCEPT ![c] = r] /\ row'[c] = r
    BY <1>2, <1>3, <1>6 DEF VerifyWrite, ChangeInv, TypeOK
  <2>. HIDE DEF r
  <2>3. RowOK(c)'
    BY <1>4, <1>5, <1>6, <2>1, <2>2
       DEF RowOK, Unclaimed, Cleared, Baseline, Stays, Verifiable
  <2>4. \A k \in Handlers : ~(hs[k].pc \in Claimed /\ hs[k].id = c)
    BY <1>6 DEF ChangeInv, Fits, Claimed, Verifiable
  <2>. QED BY <1>5, <1>6, <2>1, <2>2, <2>3, <2>4, WriteStep DEF Verifiable
<1>7. CASE row[c].st \notin Verifiable
  <2>1. row' = row
    <3>1. row' = [row EXCEPT ![c].st = row[c].st]
      BY <1>2, <1>7 DEF VerifyWrite
    <3>2. row \in [Changes -> Rows] /\ [row[c] EXCEPT !.st = row[c].st] = row[c]
      BY <1>4 DEF ChangeInv, TypeOK, Rows
    <3>. QED BY <3>1, <3>2
  <2>. QED BY <1>5, <2>1, MissOK
<1>. QED BY <1>6, <1>7

-----------------------------------------------------------------------------
(***************************************************************************)
(* New rows                                                                *)
(***************************************************************************)
\* Nothing is known of a change that does not exist.
LEMMA Fresh ==
  ASSUME ChangeInv, NEW c \in Changes, row[c].st = "none"
  PROVE  /\ row[c] = NoRow /\ row[c].src = NoChange
         /\ sends[c] = 0 /\ net[c] = "none" /\ hit[c] # "silent"
         /\ \A h \in Handlers : hs[h].pc # "idle" => hs[h].id # c
<1>1. row[c] = NoRow /\ sends[c] = 0 /\ net[c] = "none" /\ hit[c] # "silent"
  BY DEF ChangeInv, RowOK, Unclaimed
<1>2. row[c].src = NoChange
  <2>1. NoRow.src = NoChange
    BY DEF NoRow
  <2>. QED BY <1>1, <2>1
<1>3. \A h \in Handlers : hs[h].pc # "idle" => hs[h].id # c
  BY DEF ChangeInv, Fits
<1>. QED BY <1>1, <1>2, <1>3

\* A draft of which nothing was sent is in order.
LEMMA DraftOK ==
  ASSUME ChangeInv, NEW c \in Changes, row[c].st = "none", row'[c].st = "draft",
         UNCHANGED <<net, sends, hit, saw>>
  PROVE  RowOK(c)'
<1>1. sends[c] = 0 /\ net[c] = "none" /\ hit[c] # "silent" /\ sends[c] \in Nat
  BY Fresh DEF ChangeInv, TypeOK
<1>. QED BY <1>1 DEF RowOK

\* A request is recorded.
LEMMA CreateOK ==
  ASSUME ChangeInv, NEW c \in Changes, NEW op \in {"create", "update"}, NEW d \in Docs,
         NEW ra \in BOOLEAN, Create(c, op, d, ra)
  PROVE  ChangeInv'
<1>. DEFINE r == [NoRow EXCEPT !.st = "draft", !.ra = ra, !.op = op,
                    !.before = inv.doc, !.after = d, !.uid = inv.uid]
<1>1. row[c].st = "none" /\ UNCHANGED <<live, inv, policy, hs, net, sends, hit, saw, spent>>
  BY DEF Create
<1>2. row' = [row EXCEPT ![c] = r] /\ row'[c] = r
  BY DEF Create, ChangeInv, TypeOK
<1>3. r \in Rows /\ r.st = "draft" /\ r.src = NoChange
  <2>1. inv.doc \in Docs \cup {NoDoc} /\ inv.uid \in Nat
    BY DEF ChangeInv, TypeOK, Resources
  <2>. QED BY <2>1 DEF Rows, NoRow, Statuses
<1>. HIDE DEF r
<1>4. TypeOK'
  BY <1>1, <1>2, <1>3 DEF ChangeInv, TypeOK
<1>5. \A x \in Changes : row'[x] = IF x = c THEN r ELSE row[x]
  BY <1>2 DEF ChangeInv, TypeOK
<1>6. \A x \in Changes : RowOK(x)'
  <2>1. RowOK(c)'
    BY <1>1, <1>2, <1>3, DraftOK
  <2>2. \A x \in Changes \ {c} : RowOK(x)'
    BY <1>1, <1>5 DEF ChangeInv, RowOK, Cleared, Baseline
  <2>. QED BY <2>1, <2>2
<1>7. \A h \in Handlers : Fits(hs[h])'
  BY <1>1, <1>5, Fresh DEF ChangeInv, Fits, Baseline
<1>8. OneClaim'
  BY <1>1 DEF ChangeInv, OneClaim
<1>9. Sources'
  BY <1>1, <1>3, <1>5, Fresh, ManifestAssumption DEF ChangeInv, Sources
<1>. QED BY <1>4, <1>6, <1>7, <1>8, <1>9 DEF ChangeInv

\* The source is marked and gets its one rollback request.
LEMMA RollbackOK ==
  ASSUME ChangeInv, NEW c \in Changes, NEW new \in Changes, Rollback(c, new)
  PROVE  ChangeInv'
<1>. DEFINE q == [row[c] EXCEPT !.st = "rollback_requested"]
            r == [NoRow EXCEPT !.st = "draft", !.ra = TRUE, !.before = row[c].after,
                    !.after = row[c].before, !.uid = row[c].uid, !.src = c]
<1>1. /\ row[c].st \in {"applied", "verified", "verify_failed"} /\ row[new].st = "none"
      /\ UNCHANGED <<live, inv, policy, hs, net, sends, hit, saw, spent>>
  BY DEF Rollback
<1>2. c # new /\ row[c] \in Rows /\ RowOK(c)
  BY <1>1 DEF ChangeInv, TypeOK
<1>3. row' = [row EXCEPT ![c].st = "rollback_requested", ![new] = r]
  BY DEF Rollback
<1>4. \A x \in Changes : row'[x] = IF x = new THEN r ELSE IF x = c THEN q ELSE row[x]
  BY <1>2, <1>3 DEF ChangeInv, TypeOK
<1>5. r \in Rows /\ r.st = "draft" /\ r.src = c
  BY <1>2, ZenonT(60) DEF Rows, NoRow, Statuses
<1>6. /\ q \in Rows /\ q.st = "rollback_requested" /\ Stays(q, row[c])
      /\ q.ra = row[c].ra /\ q.approved = row[c].approved
         /\ q.validation = row[c].validation
  BY <1>2 DEF Rows, Stays, Statuses
<1>7. row' \in [Changes -> Rows]
  <2>1. DOMAIN row' = Changes /\ row' = [x \in Changes |-> row'[x]]
    BY <1>3 DEF ChangeInv, TypeOK
  <2>2. \A x \in Changes : row'[x] \in Rows
    <3>. HIDE DEF q, r
    <3>. QED BY <1>4, <1>5, <1>6 DEF ChangeInv, TypeOK
  <2>. QED BY <2>1, <2>2
<1>. HIDE DEF q, r
<1>8. TypeOK'
  BY <1>1, <1>7 DEF ChangeInv, TypeOK
<1>9. \A x \in Changes : RowOK(x)'
  <2>1. RowOK(new)'
    BY <1>1, <1>4, <1>5, DraftOK
  <2>2. RowOK(c)'
    <3>1. row'[c] = q
      BY <1>2, <1>4
    <3>. QED BY <1>1, <1>2, <1>6, <3>1 DEF RowOK, Unclaimed, Cleared, Baseline, Stays
  <2>3. \A x \in Changes \ {c, new} : RowOK(x)'
    BY <1>1, <1>4 DEF ChangeInv, RowOK, Cleared, Baseline
  <2>. QED BY <2>1, <2>2, <2>3
<1>10. ASSUME NEW h \in Handlers
       PROVE  Fits(hs[h])'
  <2>1. CASE hs[h].pc = "idle"
    BY <1>1, <2>1 DEF Fits
  <2>2. CASE hs[h].pc # "idle" /\ hs[h].id = c
    BY <1>1, <1>2, <1>4, <1>6, <2>2 DEF ChangeInv, Fits, Baseline, Stays
  <2>3. CASE hs[h].pc # "idle" /\ hs[h].id # c
    <3>1. hs[h].id # new
      BY <1>1, <2>3, Fresh
    <3>. QED BY <1>1, <1>4, <2>3, <3>1 DEF ChangeInv, Fits, Baseline
  <2>. QED BY <2>1, <2>2, <2>3
<1>11. OneClaim'
  BY <1>1 DEF ChangeInv, OneClaim
<1>12. Sources'
  <2>1. row[new].src = NoChange /\ \A x \in Changes : row[x].src # c
    BY <1>1, Fresh DEF ChangeInv, Sources
  <2>2. \A x \in Changes : row'[x].src = IF x = new THEN c ELSE row[x].src
    BY <1>2, <1>4, <1>5, <1>6 DEF Stays
  <2>3. \A x \in Changes :
          row'[x].st = "rollback_requested" <=> x = c \/ row[x].st = "rollback_requested"
    BY <1>1, <1>2, <1>4, <1>5, <1>6
  <2>4. \A x \in Changes \ {c} : \A y \in Changes : row'[y].src = x <=> row[y].src = x
    BY <2>1, <2>2, ManifestAssumption
  <2>5. ASSUME NEW x \in Changes \ {c}
        PROVE  IF row'[x].st = "rollback_requested"
               THEN \E y \in Changes : row'[y].src = x
                       /\ \A z \in Changes : row'[z].src = x => z = y
               ELSE \A y \in Changes : row'[y].src # x
    BY <2>3, <2>4 DEF ChangeInv, Sources
  <2>6. row'[c].st = "rollback_requested" /\ row'[new].src = c
        /\ \A z \in Changes : row'[z].src = c => z = new
    BY <2>1, <2>2, <2>3
  <2>. QED BY <2>5, <2>6 DEF Sources
<1>. QED BY <1>8, <1>9, <1>10, <1>11, <1>12 DEF ChangeInv

-----------------------------------------------------------------------------
(***************************************************************************)
(* The claim, the request to the API server and its answer                 *)
(***************************************************************************)
\* One request claims a change, and nobody else runs it.
LEMMA ClaimOK ==
  ASSUME ChangeInv, NEW h \in Handlers, ApplyClaim(h)
  PROVE  ChangeInv'
<1>1. hs[h] \in Requests /\ Fits(hs[h]) /\ hs[h].pc = "claim"
  BY DEF ChangeInv, TypeOK, ApplyClaim
<1>2. PICK c \in Changes : c = hs[h].id
  BY <1>1 DEF Fits
<1>3. row[c] \in Rows /\ RowOK(c)
  BY DEF ChangeInv, TypeOK
<1>4. UNCHANGED <<live, inv, policy, net, sends, hit, saw, spent>>
  BY DEF ApplyClaim
<1>5. CASE row[c].st \in RunFrom
  <2>. DEFINE r == [row[c] EXCEPT !.st = "running"]
              x == [hs[h] EXCEPT !.pc = "send"]
  <2>1. /\ r \in Rows /\ r.st = "running" /\ r.ra = row[c].ra
           /\ r.validation = row[c].validation
        /\ r.after = row[c].after /\ r.approved = row[c].approved /\ Stays(r, row[c])
    BY <1>3 DEF Rows, Stays, Statuses
  <2>2. /\ x \in Requests /\ x.pc = "send" /\ x.id = c /\ x.force = hs[h].force
        /\ x.saw = hs[h].saw
    BY <1>1, <1>2 DEF Requests
  <2>3. row' = [row EXCEPT ![c] = r] /\ hs' = [hs EXCEPT ![h] = x]
    BY <1>2, <1>5 DEF ApplyClaim, ChangeInv, TypeOK
  <2>. HIDE DEF r, x
  <2>4. \A d \in Changes : row'[d] = IF d = c THEN r ELSE row[d]
    BY <2>3 DEF ChangeInv, TypeOK
  <2>5. \A k \in Handlers : hs'[k] = IF k = h THEN x ELSE hs[k]
    BY <2>3 DEF ChangeInv, TypeOK
  <2>6. TypeOK'
    BY <1>4, <2>1, <2>2, <2>3 DEF ChangeInv, TypeOK
  <2>7. row[c].st \in {"validated", "approved"} /\ sends[c] = 0 /\ net[c] = "none"
    BY <1>3, <1>5 DEF RunFrom, RowOK, Unclaimed
  <2>8. \A d \in Changes : RowOK(d)'
    <3>1. RowOK(c)'
      BY <1>3, <1>4, <2>1, <2>4, <2>7 DEF RowOK, Unclaimed, Cleared, Baseline, Stays
    <3>2. \A d \in Changes \ {c} : RowOK(d)'
      BY <1>4, <2>4 DEF ChangeInv, RowOK, Cleared, Baseline
    <3>. QED BY <3>1, <3>2
  <2>9. \A k \in Handlers : ~(hs[k].pc \in Claimed /\ hs[k].id = c)
    BY <2>7 DEF ChangeInv, Fits, Claimed
  <2>10. ASSUME NEW k \in Handlers
         PROVE  Fits(hs[k])'
    <3>1. CASE k = h
      BY <1>1, <1>2, <1>4, <2>1, <2>2, <2>4, <2>5, <2>7, <3>1
         DEF Fits, Baseline, Stays, Claimed
    <3>2. CASE k # h /\ hs[k].id # c
      BY <1>4, <2>4, <2>5, <3>2 DEF ChangeInv, Fits, Baseline
    <3>3. CASE k # h /\ hs[k].id = c
      BY <1>4, <2>1, <2>4, <2>5, <2>9, <3>3 DEF ChangeInv, Fits, Baseline, Stays
    <3>. QED BY <3>1, <3>2, <3>3
  <2>11. OneClaim'
    BY <2>2, <2>5, <2>9 DEF ChangeInv, OneClaim
  <2>12. Sources'
    BY <2>1, <2>4, <2>7 DEF ChangeInv, Sources, Stays
  <2>. QED BY <2>6, <2>8, <2>10, <2>11, <2>12 DEF ChangeInv
<1>6. CASE row[c].st \notin RunFrom
  BY <1>2, <1>4, <1>6, MissOK DEF ApplyClaim
<1>. QED BY <1>5, <1>6

\* The request that made the claim sends, once and for what it compared.
LEMMA SendOK ==
  ASSUME ChangeInv, NEW h \in Handlers, ApplySend(h)
  PROVE  ChangeInv'
<1>1. hs[h] \in Requests /\ Fits(hs[h]) /\ hs[h].pc = "send"
  BY DEF ChangeInv, TypeOK, ApplySend
<1>2. PICK c \in Changes : c = hs[h].id
  BY <1>1 DEF Fits
<1>3. row[c] \in Rows /\ RowOK(c)
  BY DEF ChangeInv, TypeOK
<1>4. /\ row[c].st = "running" /\ sends[c] = 0 /\ net[c] = "none"
      /\ ~hs[h].force => Baseline(row[c], hs[h].saw)
  BY <1>1, <1>2 DEF Fits, Claimed
<1>5. UNCHANGED <<row, live, inv, policy, hit, spent>>
  BY DEF ApplySend
<1>. DEFINE x == [hs[h] EXCEPT !.pc = "wait"]
            n == IF hs[h].force THEN "forced" ELSE "pending"
            y == hs[h].saw
<1>6. x \in Requests /\ x.pc = "wait" /\ x.id = c /\ y \in Resources
  BY <1>1, <1>2 DEF Requests
<1>7. hs' = [hs EXCEPT ![h] = x]
  BY DEF ApplySend, ChangeInv, TypeOK
<1>8. net' = [net EXCEPT ![c] = n] /\ saw' = [saw EXCEPT ![c] = y]
  BY <1>2 DEF ApplySend
<1>9. sends' = [sends EXCEPT ![c] = 1]
  BY <1>2, <1>4 DEF ApplySend, ChangeInv, TypeOK
<1>10. n \in {"forced", "pending"} /\ (n = "pending" => Baseline(row[c], y))
  BY <1>4
<1>. HIDE DEF x, n, y
<1>11. TypeOK'
  BY <1>5, <1>6, <1>7, <1>8, <1>9, <1>10 DEF ChangeInv, TypeOK
<1>12. \A k \in Handlers : hs'[k] = IF k = h THEN x ELSE hs[k]
  BY <1>7 DEF ChangeInv, TypeOK
<1>13. /\ \A d \in Changes \ {c} : net'[d] = net[d] /\ saw'[d] = saw[d]
          /\ sends'[d] = sends[d]
       /\ net'[c] = n /\ saw'[c] = y /\ sends'[c] = 1
  <2>1. \A d \in Changes \ {c} : net'[d] = net[d]
    BY <1>8 DEF ChangeInv, TypeOK
  <2>2. \A d \in Changes \ {c} : saw'[d] = saw[d]
    BY <1>8 DEF ChangeInv, TypeOK
  <2>3. \A d \in Changes \ {c} : sends'[d] = sends[d]
    BY <1>9 DEF ChangeInv, TypeOK
  <2>4. net'[c] = n /\ saw'[c] = y
    BY <1>8 DEF ChangeInv, TypeOK
  <2>5. sends'[c] = 1
    BY <1>9 DEF ChangeInv, TypeOK
  <2>. QED BY <2>1, <2>2, <2>3, <2>4, <2>5
<1>14. \A d \in Changes : RowOK(d)'
  <2>1. RowOK(c)'
    <3>1. Cleared(row[c]) /\ (row[c].ra => row[c].approved) /\ hit[c] # "silent"
      BY <1>3, <1>4 DEF RowOK
    <3>. QED BY <1>4, <1>5, <1>10, <1>13, <3>1 DEF RowOK, Unclaimed, Cleared, Baseline
  <2>2. ASSUME NEW d \in Changes \ {c}
        PROVE  RowOK(d)'
    <3>1. RowOK(d)
      BY DEF ChangeInv
    <3>2. row'[d] = row[d] /\ hit'[d] = hit[d]
      BY <1>5
    <3>3. net'[d] = net[d] /\ saw'[d] = saw[d] /\ sends'[d] = sends[d]
      BY <1>13
    <3>. QED BY <3>1, <3>2, <3>3 DEF RowOK, Cleared, Baseline
  <2>. QED BY <2>1, <2>2
<1>15. ASSUME NEW k \in Handlers
       PROVE  Fits(hs[k])'
  <2>1. CASE k = h
    BY <1>4, <1>5, <1>6, <1>12, <2>1 DEF Fits, Claimed
  <2>2. CASE k # h
    <3>1. ~(hs[k].pc \in Claimed /\ hs[k].id = c)
      BY <1>1, <1>2, <2>2 DEF ChangeInv, OneClaim, Claimed
    <3>2. hs'[k] = hs[k] /\ Fits(hs[k])
      BY <1>12, <2>2 DEF ChangeInv
    <3>. QED BY <1>5, <1>13, <3>1, <3>2 DEF Fits, Baseline, Claimed
  <2>. QED BY <2>1, <2>2
<1>16. OneClaim'
  BY <1>1, <1>2, <1>6, <1>12 DEF ChangeInv, OneClaim, Claimed
<1>17. Sources'
  BY <1>5 DEF ChangeInv, Sources
<1>. QED BY <1>11, <1>14, <1>15, <1>16, <1>17 DEF ChangeInv

\* Without force, what the guard could have seen is not overwritten.
LEMMA AcceptOK ==
  ASSUME ChangeInv, NEW c \in Changes, ApiAccept(c)
  PROVE  ChangeInv'
<1>1. row[c] \in Rows /\ RowOK(c) /\ net[c] \in {"pending", "forced"}
  BY DEF ChangeInv, TypeOK, ApiAccept
<1>2. UNCHANGED <<row, inv, policy, hs, sends, saw, spent>>
        /\ net' = [net EXCEPT ![c] = "ok"]
  BY DEF ApiAccept
<1>3. PICK how \in {"baseline", "overridden", "raced"} : hit' = [hit EXCEPT ![c] = how]
  <2>. DEFINE baseline == IF row[c].op = "create" THEN live = Absent
                          ELSE live # Absent /\ row[c].uid \in {0, live.uid}
                               /\ live.doc = row[c].before
              how == CASE baseline -> "baseline"
                       [] ~baseline /\ net[c] = "forced" -> "overridden"
                       [] ~baseline /\ net[c] # "forced" /\ live # saw[c] -> "raced"
                       [] OTHER -> "silent"
  <2>1. hit' = [hit EXCEPT ![c] = how]
    BY DEF ApiAccept
  <2>2. net[c] = "pending" /\ live = saw[c] => baseline
    BY <1>1 DEF RowOK, Baseline
  <2>3. how \in {"baseline", "overridden", "raced"}
    <3>. HIDE DEF baseline
    <3>. QED BY <1>1, <2>2
  <2>. QED BY <2>1, <2>3
<1>4. live' \in Resources
  <2>. DEFINE seen == {x \in Changes : hit[x] # "none"}
  <2>1. Cardinality(seen) \in Nat
    BY FS_Subset, FS_CardinalityType, ManifestAssumption
  <2>2. MaxEdits + 1 + Cardinality(seen) \in Nat
    <3>. HIDE DEF seen
    <3>. QED BY <2>1, ManifestAssumption
  <2>3. row[c].after \in Docs \cup {NoDoc} /\ live.uid \in Nat
    BY <1>1 DEF Rows, ChangeInv, TypeOK, Resources
  <2>4. live' = [uid |-> IF live = Absent THEN MaxEdits + 1 + Cardinality(seen) ELSE live.uid,
                 doc |-> row[c].after]
    BY DEF ApiAccept
  <2>. HIDE DEF seen
  <2>. QED BY <2>2, <2>3, <2>4 DEF Resources
<1>5. TypeOK'
  BY <1>2, <1>3, <1>4 DEF ChangeInv, TypeOK
<1>6. /\ \A d \in Changes \ {c} : net'[d] = net[d] /\ hit'[d] = hit[d]
      /\ net'[c] = "ok" /\ hit'[c] = how
  <2>1. (\A d \in Changes \ {c} : net'[d] = net[d]) /\ net'[c] = "ok"
    BY <1>2 DEF ChangeInv, TypeOK
  <2>2. (\A d \in Changes \ {c} : hit'[d] = hit[d]) /\ hit'[c] = how
    BY <1>3 DEF ChangeInv, TypeOK
  <2>. QED BY <2>1, <2>2
<1>7. \A d \in Changes : RowOK(d)'
  <2>1. RowOK(c)'
    BY <1>1, <1>2, <1>6 DEF RowOK, Cleared, Baseline
  <2>2. ASSUME NEW d \in Changes \ {c}
        PROVE  RowOK(d)'
    <3>1. RowOK(d)
      BY DEF ChangeInv
    <3>. QED BY <1>2, <1>6, <3>1 DEF RowOK, Cleared, Baseline
  <2>. QED BY <2>1, <2>2
<1>8. ASSUME NEW k \in Handlers
      PROVE  Fits(hs[k])'
  <2>1. Fits(hs[k]) /\ hs'[k] = hs[k]
    BY <1>2 DEF ChangeInv
  <2>2. hs[k].pc = "send" => hs[k].id # c
    BY <1>1, <2>1 DEF Fits
  <2>. QED BY <1>2, <1>6, <2>1, <2>2 DEF Fits, Baseline, Claimed
<1>9. OneClaim' /\ Sources'
  BY <1>2 DEF ChangeInv, OneClaim, Sources
<1>. QED BY <1>5, <1>7, <1>8, <1>9 DEF ChangeInv

\* A refused request leaves the resource as it is.
LEMMA RefuseOK ==
  ASSUME ChangeInv, NEW c \in Changes, ApiReject(c)
  PROVE  ChangeInv'
<1>1. row[c] \in Rows /\ RowOK(c) /\ net[c] \in {"pending", "forced"}
  BY DEF ChangeInv, TypeOK, ApiReject
<1>2. /\ UNCHANGED <<row, live, inv, policy, hs, sends, hit, saw, spent>>
      /\ net' = [net EXCEPT ![c] = "err"]
  BY DEF ApiReject
<1>3. TypeOK'
  BY <1>2 DEF ChangeInv, TypeOK
<1>4. (\A d \in Changes \ {c} : net'[d] = net[d]) /\ net'[c] = "err"
  BY <1>2 DEF ChangeInv, TypeOK
<1>5. \A d \in Changes : RowOK(d)'
  <2>1. RowOK(c)'
    BY <1>1, <1>2, <1>4 DEF RowOK, Cleared, Baseline
  <2>2. ASSUME NEW d \in Changes \ {c}
        PROVE  RowOK(d)'
    <3>1. RowOK(d)
      BY DEF ChangeInv
    <3>. QED BY <1>2, <1>4, <3>1 DEF RowOK, Cleared, Baseline
  <2>. QED BY <2>1, <2>2
<1>6. ASSUME NEW k \in Handlers
      PROVE  Fits(hs[k])'
  <2>1. Fits(hs[k]) /\ hs'[k] = hs[k]
    BY <1>2 DEF ChangeInv
  <2>2. hs[k].pc = "send" => hs[k].id # c
    BY <1>1, <2>1 DEF Fits
  <2>. QED BY <1>2, <1>4, <2>1, <2>2 DEF Fits, Baseline, Claimed
<1>7. OneClaim' /\ Sources'
  BY <1>2 DEF ChangeInv, OneClaim, Sources
<1>. QED BY <1>3, <1>5, <1>6, <1>7 DEF ChangeInv

-----------------------------------------------------------------------------
(***************************************************************************)
(* The invariant holds                                                     *)
(***************************************************************************)
\* No change exists and no request is in progress.
LEMMA InitOK == Init => ChangeInv
<1>. SUFFICES ASSUME Init PROVE ChangeInv
  OBVIOUS
<1>1. NoRow \in Rows /\ NoRow.st = "none" /\ NoRow.src = NoChange
  BY DEF NoRow, Rows, Statuses
<1>2. Idle \in Requests /\ Idle.pc = "idle"
  BY DEF Idle, Requests, Absent, Resources
<1>3. Absent \in Resources /\ live \in Resources
  BY DEF Absent, Resources, Init
<1>4. TypeOK
  BY <1>1, <1>2, <1>3, ManifestAssumption DEF Init, TypeOK, Policies
<1>5. \A c \in Changes : RowOK(c)
  BY <1>1 DEF Init, RowOK
<1>6. \A h \in Handlers : Fits(hs[h])
  BY <1>2 DEF Init, Fits
<1>7. OneClaim
  BY <1>2 DEF Init, OneClaim, Claimed
<1>8. Sources
  BY <1>1, ManifestAssumption DEF Init, Sources
<1>. QED BY <1>4, <1>5, <1>6, <1>7, <1>8 DEF ChangeInv

\* Every step keeps it.
LEMMA NextOK == ChangeInv /\ [Next]_vars => ChangeInv'
<1>. SUFFICES ASSUME ChangeInv, [Next]_vars PROVE ChangeInv'
  OBVIOUS
<1>1. CASE ExternalEdit \/ Collect \/ EditPolicies
  BY <1>1, WorldOK
<1>2. ASSUME NEW c \in Changes, NEW op \in {"create", "update"}, NEW d \in Docs,
             NEW ra \in BOOLEAN, Create(c, op, d, ra)
      PROVE  ChangeInv'
  BY <1>2, CreateOK
<1>3. ASSUME NEW c \in Changes, \/ Approve(c) \/ Reject(c) \/ ApiAccept(c) \/ ApiReject(c)
                                \/ \E new \in Changes : Rollback(c, new)
      PROVE  ChangeInv'
  BY <1>3, DecisionOK, AcceptOK, RefuseOK, RollbackOK
<1>4. ASSUME NEW h \in Handlers, NEW c \in Changes,
             \/ ValidateRead(h, c)
             \/ \E force \in BOOLEAN : ApplyRead(h, c, force)
             \/ \E out \in {"verified", "verify_failed"} : VerifyRead(h, c, out)
      PROVE  ChangeInv'
  BY <1>4, BeginOK
<1>5. ASSUME NEW h \in Handlers,
             \/ ValidateCheck(h) \/ ValidatePolicyUnavailable(h) \/ ValidateWrite(h)
             \/ ApplyGuard(h) \/ ApplyClaim(h) \/ ApplyUnprepared(h) \/ ApplySend(h)
             \/ ApplyReply(h) \/ ApplyGiveUp(h) \/ ApplyFinish(h)
             \/ HandlerDies(h) \/ VerifyWrite(h)
      PROVE  ChangeInv'
  BY <1>5, VerdictOK, ValidateWriteOK, GuardOK, ClaimOK, OutcomeOK, SendOK, FinishOK,
     DeathOK, VerifyWriteOK
<1>6. CASE UNCHANGED vars
  <2>1. TypeOK'
    BY <1>6 DEF vars, ChangeInv, TypeOK
  <2>. QED BY <1>6, <2>1, WorldStep DEF vars, ledger
<1>. QED BY <1>1, <1>2, <1>3, <1>4, <1>5, <1>6 DEF Next

\* The invariant gives what the runs check of the ledger.
LEMMA ChangeInvSuffices == ChangeInv => ManifestInv
<1>. SUFFICES ASSUME ChangeInv PROVE ManifestInv
  OBVIOUS
<1>1. \A c \in Changes : RowOK(c) /\ sends[c] \in Nat
  BY DEF ChangeInv, TypeOK
<1>2. ApprovalHonoured /\ AppliedIsReal /\ NoSilentOverwrite
  BY <1>1 DEF RowOK, ApprovalHonoured, AppliedIsReal, NoSilentOverwrite
<1>3. AppliedOnce
  <2>. SUFFICES ASSUME NEW c \in Changes PROVE sends[c] <= 1
    BY DEF AppliedOnce
  <2>1. sends[c] \in Nat /\ (sends[c] > 0 => sends[c] = 1)
    BY <1>1 DEF RowOK
  <2>. QED BY <2>1
<1>4. OnlyVettedIsSent
  BY <1>1 DEF RowOK, OnlyVettedIsSent, Cleared
<1>5. OneRollbackPerSource
  <2>. SUFFICES ASSUME NEW c \in Changes
                PROVE  Cardinality({x \in Changes : row[x].src = c})
                         = IF row[c].st = "rollback_requested" THEN 1 ELSE 0
    BY DEF OneRollbackPerSource
  <2>1. CASE row[c].st = "rollback_requested"
    <3>1. PICK x \in Changes : row[x].src = c /\ \A y \in Changes : row[y].src = c => y = x
      BY <2>1 DEF ChangeInv, Sources
    <3>2. {y \in Changes : row[y].src = c} = {x}
      BY <3>1
    <3>. QED BY <2>1, <3>2, FS_Singleton
  <2>2. CASE row[c].st # "rollback_requested"
    <3>1. {y \in Changes : row[y].src = c} = {}
      BY <2>2 DEF ChangeInv, Sources
    <3>. QED BY <2>2, <3>1, FS_EmptySet
  <2>. QED BY <2>1, <2>2
<1>. QED BY <1>2, <1>3, <1>4, <1>5 DEF ManifestInv, ChangeInv

(***************************************************************************)
(* A row passes the claim once, one request runs it, and what the requests *)
(* remember of a change stays so, in every reachable state.                *)
(***************************************************************************)
THEOREM ChangeInvariance == Spec => []ChangeInv
BY InitOK, NextOK, PTL DEF Spec

(***************************************************************************)
(* However many requests validate, decide, apply and verify changes of one *)
(* resource together, and however they fail: what is sent passed a         *)
(* validation and, where required, an approval, and is sent once; what the *)
(* ledger calls applied was accepted; nothing the drift guard could see is *)
(* overwritten without force; a source has one rollback request            *)
(* (proxy/admin_k8s_manifest_change.go:668).                               *)
(***************************************************************************)
THEOREM ManifestHolds == Spec => []ManifestInv
BY ChangeInvariance, ChangeInvSuffices, PTL

-----------------------------------------------------------------------------
(***************************************************************************)
(* Final statuses                                                          *)
(***************************************************************************)
\* A step of the ledger leaves a rejected or failed row its status.
LEMMA FinalStep ==
  ASSUME ChangeInv, Next, NEW c \in Changes, row[c].st \in {"rejected", "failed"}
  PROVE  row'[c].st = row[c].st
<1>1. row \in [Changes -> Rows]
  BY DEF ChangeInv, TypeOK
<1>2. CASE ExternalEdit \/ Collect \/ EditPolicies
  BY <1>2 DEF ExternalEdit, Collect, EditPolicies
<1>3. ASSUME NEW x \in Changes, NEW op \in {"create", "update"}, NEW d \in Docs,
             NEW ra \in BOOLEAN, Create(x, op, d, ra)
      PROVE  row'[c].st = row[c].st
  <2>1. x # c
    BY <1>3 DEF Create
  <2>. QED BY <1>1, <1>3, <2>1 DEF Create
<1>4. ASSUME NEW x \in Changes, Approve(x) \/ Reject(x)
      PROVE  row'[c].st = row[c].st
  <2>1. x # c
    BY <1>4 DEF Approve, Reject
  <2>. QED BY <1>1, <1>4, <2>1 DEF Approve, Reject
<1>5. ASSUME NEW x \in Changes, ApiAccept(x) \/ ApiReject(x)
      PROVE  row'[c].st = row[c].st
  BY <1>5 DEF ApiAccept, ApiReject
<1>6. ASSUME NEW x \in Changes, NEW new \in Changes, Rollback(x, new)
      PROVE  row'[c].st = row[c].st
  <2>1. x # c /\ new # c
    BY <1>6 DEF Rollback
  <2>. QED BY <1>1, <1>6, <2>1 DEF Rollback
<1>7. ASSUME NEW h \in Handlers, NEW x \in Changes,
             \/ ValidateRead(h, x)
             \/ \E force \in BOOLEAN : ApplyRead(h, x, force)
             \/ \E out \in {"verified", "verify_failed"} : VerifyRead(h, x, out)
      PROVE  row'[c].st = row[c].st
  BY <1>7 DEF ValidateRead, ApplyRead, VerifyRead
<1>8. ASSUME NEW h \in Handlers,
             \/ ValidateCheck(h) \/ ValidatePolicyUnavailable(h)
             \/ ApplyGuard(h) \/ ApplyUnprepared(h) \/ ApplySend(h)
             \/ ApplyReply(h) \/ ApplyGiveUp(h) \/ HandlerDies(h)
      PROVE  row'[c].st = row[c].st
  BY <1>8 DEF ValidateCheck, ValidatePolicyUnavailable, ApplyGuard, ApplyUnprepared,
     ApplySend, ApplyReply, ApplyGiveUp, HandlerDies
<1>9. ASSUME NEW h \in Handlers, ValidateWrite(h)
      PROVE  row'[c].st = row[c].st
  <2>1. CASE row[hs[h].id].st \in AnalysisFrom(hs[h].out)
    <3>1. hs[h].id # c
      BY <2>1 DEF AnalysisFrom
    <3>. QED BY <1>1, <1>9, <2>1, <3>1 DEF ValidateWrite
  <2>2. CASE row[hs[h].id].st \notin AnalysisFrom(hs[h].out)
    BY <1>9, <2>2 DEF ValidateWrite
  <2>. QED BY <2>1, <2>2
<1>10. ASSUME NEW h \in Handlers, ApplyClaim(h)
       PROVE  row'[c].st = row[c].st
  <2>1. CASE row[hs[h].id].st \in RunFrom
    <3>1. hs[h].id # c
      BY <2>1 DEF RunFrom
    <3>. QED BY <1>1, <1>10, <2>1, <3>1 DEF ApplyClaim
  <2>2. CASE row[hs[h].id].st \notin RunFrom
    BY <1>10, <2>2 DEF ApplyClaim
  <2>. QED BY <2>1, <2>2
<1>11. ASSUME NEW h \in Handlers, ApplyFinish(h)
       PROVE  row'[c].st = row[c].st
  <2>1. row' = [row EXCEPT ![hs[h].id].st = IF @ = "running" THEN hs[h].out ELSE @]
    BY <1>11 DEF ApplyFinish
  <2>2. row[c] \in Rows
    BY <1>1
  <2>. QED BY <1>1, <2>1, <2>2 DEF Rows
<1>12. ASSUME NEW h \in Handlers, VerifyWrite(h)
       PROVE  row'[c].st = row[c].st
  <2>1. row' = [row EXCEPT ![hs[h].id].st = IF @ \in Verifiable THEN hs[h].out ELSE @]
    BY <1>12 DEF VerifyWrite
  <2>2. row[c] \in Rows
    BY <1>1
  <2>. QED BY <1>1, <2>1, <2>2 DEF Rows, Verifiable
<1>. QED BY <1>2, <1>3, <1>4, <1>5, <1>6, <1>7, <1>8, <1>9, <1>10, <1>11, <1>12 DEF Next

(***************************************************************************)
(* No late verdict, approval or result brings a rejected or failed change  *)
(* back (UpdateK8sManifestChangeAnalysis and UpdateK8sManifestChangeStatus *)
(* name the statuses they may replace).                                    *)
(***************************************************************************)
THEOREM FinalStays == Spec => FinalStaysFinal
<1>1. ChangeInv /\ [Next]_vars
        => [\A c \in Changes : row[c].st \in {"rejected", "failed"}
                => row'[c].st = row[c].st]_vars
  BY FinalStep
<1>. QED BY <1>1, ChangeInvariance, PTL DEF Spec, FinalStaysFinal

-----------------------------------------------------------------------------
(***************************************************************************)
(* Change sets.  Requests write back the row they read, so what a status   *)
(* implies is required of the rows that requests remember as well.         *)
(***************************************************************************)
Prior == [Sets!Items -> SetValues \cup {Env, None}]
Overrides == [Sets!Items -> SetValues \cup {Env}]
Contents == [Sets!Items -> SetValues \cup {Bad, None}]

SetRow == [status : Sets!Status, items : Contents, reviewed : BOOLEAN, prior : Prior]

SetHandler == [pc : {"free", "list", "write", "commit"}, op : Sets!Operations \cup {"none"},
               row : SetRow, prior : Prior, next : 1..(NumItems + 1)]

Full(p) == \A i \in Sets!Items : p[i] # None

\* What a status implies.
Backed(r) ==
  /\ r.status \in {"approved", "applied", "rolled_back"} => r.reviewed
  /\ r.status \in {"applied", "rolled_back"} => Full(r.prior)

\* A request that handles operation x.op.
Underway(x) ==
  /\ x.pc # "free" => /\ x.op \in Sets!Operations
                      /\ x.row.status = Sets!From[x.op] /\ Backed(x.row)
  /\ x.pc = "list" => x.op = "apply" /\ x.next = 1
  /\ x.pc = "write" => /\ x.op \in {"apply", "rollback"} /\ x.next \in Sets!Items
                       /\ x.op = "apply"
                          => \A i \in Sets!Items : x.row.items[i] \in SetValues
  /\ x.pc \in {"write", "commit"} /\ x.op \in {"apply", "rollback"} => Full(x.prior)

SetsInv ==
  /\ value \in Overrides /\ original \in Prior /\ faults \in 0..MaxSetFaults
  /\ set \in SetRow /\ Backed(set)
  /\ handler \in [SetHandlers -> SetHandler]
  /\ \A h \in SetHandlers : Underway(handler[h])

\* The constants, and the statuses of the operations.
LEMMA SetNames ==
  /\ NumItems \in Nat /\ NumItems > 0 /\ Sets!Items = 1..NumItems /\ MaxSetFaults \in Nat
  /\ Env # None /\ Env # Bad /\ Bad # None
  /\ Env \notin SetValues /\ Bad \notin SetValues /\ None \notin SetValues
BY SetsAssumption DEF Sets!ConstantsOK, Sets!Items

\* The four operations.
LEMMA SetOperations ==
  /\ Sets!Operations = {"submit", "approve", "apply", "rollback"}
  /\ \A op \in Sets!Operations :
       /\ Sets!From[op] \in {"draft", "pending", "approved", "applied"}
       /\ Sets!To[op] \in {"pending", "approved", "applied", "rolled_back"}
       /\ Sets!FirstStep[op] \in {"list", "write", "commit"}
  /\ Sets!From["submit"] = "draft" /\ Sets!To["submit"] = "pending"
  /\ Sets!From["approve"] = "pending" /\ Sets!To["approve"] = "approved"
  /\ Sets!From["apply"] = "approved" /\ Sets!To["apply"] = "applied"
  /\ Sets!From["rollback"] = "applied" /\ Sets!To["rollback"] = "rolled_back"
  /\ Sets!FirstStep["submit"] = "commit" /\ Sets!FirstStep["approve"] = "commit"
  /\ Sets!FirstStep["apply"] = "list" /\ Sets!FirstStep["rollback"] = "write"
  /\ Sets!Status = {"none", "draft", "deleted", "pending", "approved", "applied",
     "rolled_back"}
BY DEF Sets!Operations, Sets!From, Sets!To, Sets!FirstStep, Sets!Status

\* The values that are there before anything is.
LEMMA SetDefaults ==
  /\ Sets!NoPrior \in Prior /\ Sets!NoRow \in SetRow /\ Sets!Free \in SetHandler
  /\ Sets!NoRow.status = "none" /\ Backed(Sets!NoRow)
  /\ Sets!Free.pc = "free" /\ Underway(Sets!Free)
<1>1. Sets!NoPrior \in Prior /\ Sets!NoPrior \in Contents
  BY DEF Sets!NoPrior, Prior, Contents
<1>2. Sets!NoRow \in SetRow /\ Sets!NoRow.status = "none"
  BY <1>1, SetOperations DEF Sets!NoRow, SetRow
<1>3. Sets!Free \in SetHandler /\ Sets!Free.pc = "free"
  BY <1>1, <1>2, SetNames DEF Sets!Free, SetHandler
<1>. QED BY <1>1, <1>2, <1>3 DEF Backed, Underway

\* What the invariant says of one request.
LEMMA SetFacts ==
  ASSUME SetsInv, NEW h \in SetHandlers
  PROVE  /\ handler[h] \in SetHandler /\ Underway(handler[h])
         /\ value \in Overrides /\ original \in Prior /\ value \in Prior
         /\ set \in SetRow /\ Backed(set) /\ faults \in Nat /\ faults \in 0..MaxSetFaults
  BY SetNames DEF SetsInv, Overrides, Prior

\* A step of one request.
LEMMA SetStep ==
  ASSUME SetsInv, NEW h \in SetHandlers, NEW x \in SetHandler, Underway(x),
         handler' = [handler EXCEPT ![h] = x],
         value' \in Overrides, original' \in Prior, faults' \in 0..MaxSetFaults,
         set' \in SetRow, Backed(set)'
  PROVE  SetsInv'
<1>1. \A g \in SetHandlers : handler'[g] = IF g = h THEN x ELSE handler[g]
  BY DEF SetsInv
<1>2. handler' \in [SetHandlers -> SetHandler]
  BY DEF SetsInv
<1>3. \A g \in SetHandlers : Underway(handler'[g])
  BY <1>1 DEF SetsInv
<1>. QED BY <1>2, <1>3 DEF SetsInv

\* Creation and deletion.
LEMMA SetRowOK ==
  ASSUME SetsInv, Sets!Create \/ Sets!Delete
  PROVE  SetsInv'
<1>1. CASE Sets!Create
  <2>1. PICK items \in [Sets!Items -> SetValues \cup {Bad}] :
          set' = [Sets!NoRow EXCEPT !.status = "draft", !.items = items]
    BY <1>1 DEF Sets!Create
  <2>2. items \in Contents
    BY <2>1 DEF Contents
  <2>3. set' \in SetRow /\ set'.status = "draft"
    BY <2>1, <2>2, SetDefaults, SetOperations DEF SetRow
  <2>4. Backed(set)'
    BY <2>3 DEF Backed
  <2>. QED BY <1>1, <2>3, <2>4 DEF SetsInv, Sets!Create
<1>2. CASE Sets!Delete
  <2>1. set' \in SetRow /\ set'.status = "deleted"
    BY <1>2, SetDefaults, SetOperations DEF SetRow, Sets!Delete
  <2>2. Backed(set)'
    BY <2>1 DEF Backed
  <2>. QED BY <1>2, <2>1, <2>2 DEF SetsInv, Sets!Delete
<1>. QED BY <1>1, <1>2

\* The request of an operation that begins.
Begun(op) ==
  [Sets!Free EXCEPT !.pc = Sets!FirstStep[op], !.op = op, !.row = set, !.prior = set.prior]

\* Its fields.
LEMMA BegunFields ==
  ASSUME SetsInv, NEW op \in Sets!Operations
  PROVE  /\ Begun(op) \in SetHandler /\ Begun(op).pc = Sets!FirstStep[op]
            /\ Begun(op).op = op
         /\ Begun(op).row = set /\ Begun(op).prior = set.prior /\ Begun(op).next = 1
<1>1. Sets!FirstStep[op] \in {"free", "list", "write", "commit"}
  BY SetOperations
<1>2. set \in SetRow /\ set.prior \in Prior
  BY DEF SetsInv, SetRow
<1>3. Sets!Free \in SetHandler /\ Sets!Free.next = 1
  BY SetDefaults DEF Sets!Free
<1>. QED BY <1>1, <1>2, <1>3 DEF Begun, SetHandler

\* A request that begins remembers a row that backs its status.
LEMMA SetBeginOK ==
  ASSUME SetsInv, NEW h \in SetHandlers, NEW op \in Sets!Operations, Sets!Begin(h, op)
  PROVE  SetsInv' /\ handler' = [handler EXCEPT ![h] = Begun(op)]
<1>1. set.status = Sets!From[op] /\ UNCHANGED <<value, set, original, faults>>
      /\ handler' = [handler EXCEPT ![h] = Begun(op)]
  BY DEF Sets!Begin, Begun
<1>2. /\ Begun(op) \in SetHandler /\ Begun(op).pc = Sets!FirstStep[op] /\ Begun(op).op = op
      /\ Begun(op).row = set /\ Begun(op).prior = set.prior /\ Begun(op).next = 1
  BY BegunFields
<1>3. Underway(Begun(op))
  <2>1. op = "rollback" => Full(set.prior)
    BY <1>1, SetOperations DEF SetsInv, Backed
  <2>2. Sets!FirstStep[op] = "list" => op = "apply"
    BY SetOperations
  <2>3. Sets!FirstStep[op] = "write" => op = "rollback"
    BY SetOperations
  <2>4. Sets!FirstStep[op] = "commit" => op \in {"submit", "approve"}
    BY SetOperations
  <2>5. 1 \in Sets!Items
    BY SetNames
  <2>. QED BY <1>1, <1>2, <2>1, <2>2, <2>3, <2>4, <2>5 DEF SetsInv, Underway
<1>. QED BY <1>1, <1>2, <1>3, SetFacts, SetStep DEF Backed

\* What an application captures is the effective values, or the environment's.
LEMMA CaptureOK ==
  ASSUME SetsInv, NEW h \in SetHandlers, Sets!Capture(h)
  PROVE  SetsInv'
<1>. DEFINE x == handler[h]
<1>1. /\ UNCHANGED <<value, set, original>> /\ x.pc = "list"
      /\ faults' \in 0..MaxSetFaults
  BY SetFacts, SetNames DEF Sets!Capture, Sets!Fault
<1>2. x \in SetHandler /\ Underway(x) /\ x.op = "apply"
  BY <1>1, SetFacts DEF Underway
<1>3. CASE ~ \A i \in Sets!Items : Sets!Valid(x.row.items[i])
  <2>1. handler' = [handler EXCEPT ![h] = Sets!Free]
    BY <1>3 DEF Sets!Capture
  <2>. QED BY <1>1, <2>1, SetDefaults, SetFacts, SetStep
<1>4. CASE \A i \in Sets!Items : Sets!Valid(x.row.items[i])
  <2>1. PICK p \in {value, [i \in Sets!Items |-> Env]} :
          handler' = [handler EXCEPT ![h].pc = "write", ![h].prior = p]
    BY <1>4 DEF Sets!Capture
  <2>2. p \in Prior /\ Full(p)
    BY SetFacts, SetNames DEF Prior, Full, Overrides
  <2>. DEFINE y == [x EXCEPT !.pc = "write", !.prior = p]
  <2>3. handler' = [handler EXCEPT ![h] = y]
    BY <2>1 DEF SetsInv
  <2>4. y \in SetHandler /\ y.pc = "write" /\ y.op = "apply" /\ y.next = x.next
        /\ y.prior = p /\ y.row = x.row
    BY <1>2, <2>2 DEF SetHandler
  <2>. HIDE DEF y
  <2>5. y.next \in Sets!Items
    BY <1>1, <1>2, <2>4, SetNames DEF Underway
  <2>6. Underway(y)
    BY <1>1, <1>2, <1>4, <2>2, <2>4, <2>5 DEF Underway, Sets!Valid
  <2>. QED BY <1>1, <2>3, <2>4, <2>6, SetFacts, SetStep
<1>. QED BY <1>3, <1>4

\* A request goes on to its next setting, or to the row.
LEMMA GoOnOK ==
  ASSUME SetsInv, NEW h \in SetHandlers, handler[h].pc = "write", Sets!GoOn(h)
  PROVE  \E y \in SetHandler :
           /\ handler' = [handler EXCEPT ![h] = y] /\ Underway(y)
           /\ y.op = handler[h].op /\ y.row = handler[h].row /\ y.prior = handler[h].prior
           /\ y.next = handler[h].next + 1
           /\ y.pc = IF handler[h].next = NumItems THEN "commit" ELSE "write"
<1>. DEFINE x == handler[h]
            y == [x EXCEPT !.next = x.next + 1,
                           !.pc = IF x.next = NumItems THEN "commit" ELSE "write"]
<1>1. x \in SetHandler /\ Underway(x) /\ handler \in [SetHandlers -> SetHandler]
  BY SetFacts DEF SetsInv
<1>2. handler' = [handler EXCEPT ![h] = y]
  BY <1>1 DEF Sets!GoOn
<1>3. x.next \in 1..NumItems /\ NumItems \in Nat
  BY <1>1, SetNames DEF Underway
<1>4. x.next + 1 \in 1..(NumItems + 1) /\ (x.next # NumItems => x.next + 1 \in 1..NumItems)
  BY <1>3
<1>5. /\ y \in SetHandler
      /\ y.op = x.op /\ y.row = x.row /\ y.prior = x.prior /\ y.next = x.next + 1
      /\ y.pc = IF x.next = NumItems THEN "commit" ELSE "write"
  BY <1>1, <1>4 DEF SetHandler
<1>. HIDE DEF y
<1>6. Underway(y)
  BY <1>1, <1>4, <1>5, SetNames DEF Underway
<1>. QED BY <1>2, <1>5, <1>6

\* A setting gets a value that was validated, or one it had.
LEMMA WriteItemOK ==
  ASSUME SetsInv, NEW h \in SetHandlers, Sets!WriteItem(h)
  PROVE  /\ SetsInv'
         /\ handler[h].next \in Sets!Items
         /\ value' = [value EXCEPT ![handler[h].next] = Sets!Proposed(h)]
         /\ Sets!Proposed(h) = IF handler[h].op = "apply"
                               THEN handler[h].row.items[handler[h].next]
                               ELSE handler[h].prior[handler[h].next]
<1>. DEFINE x == handler[h]
<1>1. /\ x.pc = "write" /\ Sets!GoOn(h) /\ UNCHANGED <<set, faults>>
      /\ value' = [value EXCEPT ![x.next] = Sets!Proposed(h)]
      /\ original' \in {value, original}
  BY DEF Sets!WriteItem
<1>2. /\ x \in SetHandler /\ Underway(x) /\ value \in Overrides /\ value \in Prior
      /\ original \in Prior /\ set \in SetRow /\ Backed(set) /\ faults \in 0..MaxSetFaults
  BY SetFacts
<1>3. x.next \in Sets!Items /\ x.op \in {"apply", "rollback"} /\ Full(x.prior)
  BY <1>1, <1>2 DEF Underway
<1>4. Sets!Proposed(h) = IF x.op = "apply" THEN x.row.items[x.next] ELSE x.prior[x.next]
  BY DEF Sets!Proposed
<1>5. Sets!Proposed(h) \in SetValues \cup {Env}
  <2>1. x.op = "apply" => x.row.items[x.next] \in SetValues
    BY <1>1, <1>2, <1>3 DEF Underway
  <2>2. x.prior[x.next] \in SetValues \cup {Env}
    BY <1>2, <1>3 DEF SetHandler, Prior, Full
  <2>. QED BY <1>4, <2>1, <2>2
<1>6. value' \in Overrides
  BY <1>1, <1>2, <1>5 DEF Overrides
<1>7. original' \in Prior /\ set' \in SetRow /\ Backed(set)' /\ faults' \in 0..MaxSetFaults
  BY <1>1, <1>2 DEF Backed
<1>8. PICK y \in SetHandler : handler' = [handler EXCEPT ![h] = y] /\ Underway(y)
  BY <1>1, GoOnOK
<1>9. SetsInv'
  BY <1>6, <1>7, <1>8, SetStep
<1>. QED BY <1>1, <1>3, <1>4, <1>9

\* A write that fails changes no setting.
LEMMA WriteFailsOK ==
  ASSUME SetsInv, NEW h \in SetHandlers, Sets!WriteFails(h)
  PROVE  SetsInv'
<1>1. /\ UNCHANGED <<value, set, original>> /\ faults' \in 0..MaxSetFaults
      /\ handler[h].pc = "write"
      /\ handler' = [handler EXCEPT ![h] = Sets!Free] \/ Sets!GoOn(h)
  BY SetFacts, SetNames DEF Sets!WriteFails, Sets!Fault
<1>2. \E y \in SetHandler : handler' = [handler EXCEPT ![h] = y] /\ Underway(y)
  BY <1>1, GoOnOK, SetDefaults
<1>. QED BY <1>1, <1>2, SetFacts, SetStep

\* The row that a request writes back, with its changes.
Written(x) ==
  [x.row EXCEPT !.status = Sets!To[x.op], !.reviewed = @ \/ x.op = "approve",
                !.prior = x.prior]

\* A row that is written back backs its new status.
LEMMA WrittenOK ==
  ASSUME NEW x \in SetHandler, Underway(x), x.pc = "commit"
  PROVE  /\ Written(x) \in SetRow /\ Backed(Written(x))
         /\ Written(x).status = Sets!To[x.op] /\ Written(x).prior = x.prior
<1>1. x.op \in Sets!Operations /\ x.row.status = Sets!From[x.op] /\ Backed(x.row)
  BY DEF Underway
<1>2. x.row \in SetRow /\ x.prior \in Prior
  BY DEF SetHandler
<1>3. Sets!To[x.op] \in Sets!Status
  BY <1>1, SetOperations
<1>4. (x.row.reviewed \/ x.op = "approve") \in BOOLEAN
  OBVIOUS
<1>5. /\ Written(x) \in SetRow /\ Written(x).status = Sets!To[x.op]
      /\ Written(x).prior = x.prior
      /\ Written(x).reviewed = (x.row.reviewed \/ x.op = "approve")
  BY <1>2, <1>3, <1>4 DEF Written, SetRow
<1>6. Written(x).status \in {"applied", "rolled_back"} => Full(x.prior)
  BY <1>1, <1>5, SetOperations DEF Underway
<1>7. Written(x).status \in {"approved", "applied", "rolled_back"} => Written(x).reviewed
  BY <1>1, <1>5, SetOperations DEF Backed
<1>. QED BY <1>5, <1>6, <1>7 DEF Backed

\* The row is written over, or stays deleted.
LEMMA SetCommitOK ==
  ASSUME SetsInv, NEW h \in SetHandlers, Sets!Commit(h)
  PROVE  /\ SetsInv' /\ handler[h].pc = "commit" /\ UNCHANGED <<value, original, faults>>
         /\ set' = IF set.status = "deleted" THEN set ELSE Written(handler[h])
         /\ handler' = [handler EXCEPT ![h] = Sets!Free]
<1>1. /\ handler[h].pc = "commit" /\ UNCHANGED <<value, original, faults>>
      /\ set' = IF set.status = "deleted" THEN set ELSE Written(handler[h])
      /\ handler' = [handler EXCEPT ![h] = Sets!Free]
  BY DEF Sets!Commit, Written
<1>2. set' \in SetRow /\ Backed(set')
  BY <1>1, SetFacts, WrittenOK
<1>3. SetsInv'
  BY <1>1, <1>2, SetFacts, SetDefaults, SetStep
<1>. QED BY <1>1, <1>3

\* A request that ends early leaves what it wrote.
LEMMA SetDeathOK ==
  ASSUME SetsInv, NEW h \in SetHandlers, Sets!HandlerDies(h)
  PROVE  SetsInv'
<1>1. /\ UNCHANGED <<value, set, original>> /\ faults' \in 0..MaxSetFaults
      /\ handler' = [handler EXCEPT ![h] = Sets!Free]
  BY SetFacts, SetNames DEF Sets!HandlerDies, Sets!Fault
<1>. QED BY <1>1, SetFacts, SetDefaults, SetStep

\* A set that nobody has created.
LEMMA SetsInit == Sets!Init => SetsInv
<1>. SUFFICES ASSUME Sets!Init PROVE SetsInv
  OBVIOUS
<1>1. value \in Overrides /\ faults \in 0..MaxSetFaults
  BY SetNames DEF Sets!Init, Overrides
<1>2. original \in Prior /\ set \in SetRow /\ Backed(set)
  BY SetDefaults DEF Sets!Init
<1>3. handler \in [SetHandlers -> SetHandler] /\ \A h \in SetHandlers : Underway(handler[h])
  BY SetDefaults DEF Sets!Init
<1>. QED BY <1>1, <1>2, <1>3 DEF SetsInv

\* Every step of a change set keeps it.
LEMMA SetsNext == SetsInv /\ [Sets!Next]_Sets!vars => SetsInv'
<1>. SUFFICES ASSUME SetsInv, [Sets!Next]_Sets!vars PROVE SetsInv'
  OBVIOUS
<1>1. CASE UNCHANGED Sets!vars
  BY <1>1 DEF Sets!vars, SetsInv, Backed, Full
<1>2. ASSUME NEW h \in SetHandlers,
             \/ \E op \in Sets!Operations : Sets!Begin(h, op)
             \/ Sets!Capture(h) \/ Sets!WriteItem(h) \/ Sets!WriteFails(h)
             \/ Sets!Commit(h) \/ Sets!HandlerDies(h)
      PROVE  SetsInv'
  BY <1>2, SetBeginOK, CaptureOK, WriteItemOK, WriteFailsOK, SetCommitOK, SetDeathOK
<1>. QED BY <1>1, <1>2, SetRowOK DEF Sets!Next

(***************************************************************************)
(* One request at a time: nobody changes the row or the settings while it  *)
(* works, except for a deletion of the row.                                *)
(***************************************************************************)
Undisturbed ==
  /\ \A h \in SetHandlers \ {Sole} : handler[h] = Sets!Free
  /\ handler[Sole].pc # "free" => set.status = "deleted" \/ set = handler[Sole].row

\* How far request x has come with its settings.
Progress(x) ==
  /\ x.pc = "commit" /\ x.op \in {"apply", "rollback"} => x.next = NumItems + 1
  /\ x.pc \in {"write", "commit"} /\ x.op = "apply" =>
       \A i \in Sets!Items : i < x.next => value[i] = x.row.items[i]

\* Nothing was written for the set yet.
Untouched(x) ==
  \/ set.status \in {"none", "draft", "pending"} \/ x.pc = "list"
  \/ set.status = "approved" /\ x.pc = "free"

\* What the prior values have to do with the original ones.
History(x) ==
  /\ Untouched(x) => original = Sets!NoPrior
  /\ x.pc \in {"write", "commit"} /\ x.op = "apply" =>
       IF x.next = 1 THEN original = Sets!NoPrior /\ x.prior = value ELSE x.prior = original
  /\ x.pc \in {"write", "commit"} /\ x.op = "rollback" =>
       /\ x.prior = original
       /\ Sets!Restorable => \A i \in Sets!Items : i < x.next => value[i] = original[i]
  /\ set.status = "applied" => set.prior = original
  /\ set.status = "rolled_back" /\ Sets!Restorable => value = original

SoleInv ==
  /\ SetsInv /\ Undisturbed /\ Progress(handler[Sole])
  /\ faults = 0 => History(handler[Sole])

\* The one request.
LEMMA SoleIsHandler == Sole \in SetHandlers
BY SetsAssumption DEF Sets!ConstantsOK, Sole

\* What a full list of prior values is not.
LEMMA FullIsCaptured ==
  ASSUME NEW p, Full(p)
  PROVE  p # Sets!NoPrior
BY SetNames DEF Full, Sets!NoPrior

\* A row that is created or deleted.
LEMMA SoleRow ==
  ASSUME SoleInv, Sole \in SetHandlers, Sets!Create \/ Sets!Delete
  PROVE  SoleInv'
<1>. DEFINE x == handler[Sole]
<1>1. SetsInv' /\ UNCHANGED <<value, handler, original, faults>>
  BY SetRowOK DEF SoleInv, Sets!Create, Sets!Delete
<1>2. \/ set.status = "none" /\ set'.status = "draft"
      \/ set'.status = "deleted"
  <2>1. CASE Sets!Create
    BY <2>1, SetDefaults DEF Sets!Create, SetRow
  <2>2. CASE Sets!Delete
    BY <2>2, SetDefaults DEF Sets!Delete, SetRow
  <2>. QED BY <2>1, <2>2
<1>3. set.status = "none" => x.pc = "free"
  <2>1. x.pc # "free" => x.row.status = Sets!From[x.op] /\ x.op \in Sets!Operations
    BY DEF SoleInv, SetsInv, Underway
  <2>. QED BY <2>1, SetOperations DEF SoleInv, Undisturbed
<1>4. Undisturbed'
  BY <1>1, <1>2, <1>3 DEF SoleInv, Undisturbed
<1>5. Progress(x)'
  BY <1>1 DEF SoleInv, Progress
<1>6. faults' = 0 => History(x)'
  <2>1. Untouched(x)' => Untouched(x)
    BY <1>1, <1>2 DEF Untouched
  <2>. QED BY <1>1, <1>2, <2>1 DEF SoleInv, History, Sets!Restorable
<1>. QED BY <1>1, <1>4, <1>5, <1>6 DEF SoleInv

\* The only request's next state is y.
LEMMA SoleStep ==
  ASSUME SoleInv, Sole \in SetHandlers, SetsInv', NEW y,
         handler' = [handler EXCEPT ![Sole] = y],
         y.pc # "free" => set'.status = "deleted" \/ set' = y.row,
         Progress(y)', faults' = 0 => History(y)'
  PROVE  SoleInv'
<1>1. handler'[Sole] = y /\ \A h \in SetHandlers \ {Sole} : handler'[h] = handler[h]
  BY DEF SoleInv, SetsInv
<1>2. Undisturbed'
  BY <1>1 DEF SoleInv, Undisturbed
<1>3. Progress(handler[Sole])' /\ (faults' = 0 => History(handler[Sole])')
  BY <1>1
<1>. QED BY <1>2, <1>3 DEF SoleInv

\* What the one request remembers.
LEMMA SoleFacts ==
  ASSUME SoleInv, Sole \in SetHandlers
  PROVE  /\ handler[Sole] \in SetHandler /\ Underway(handler[Sole])
            /\ Progress(handler[Sole])
         /\ faults \in Nat /\ (faults = 0 => History(handler[Sole]))
         /\ handler[Sole].pc # "free" => set.status = "deleted" \/ set = handler[Sole].row
BY SetFacts DEF SoleInv, Undisturbed

\* It begins with what the row says.
LEMMA SoleBegins ==
  ASSUME SoleInv, Sole \in SetHandlers, NEW op \in Sets!Operations, Sets!Begin(Sole, op)
  PROVE  SoleInv'
<1>. PICK y \in SetHandler : y = Begun(op)
  BY BegunFields DEF SoleInv
<1>1. /\ SetsInv' /\ handler' = [handler EXCEPT ![Sole] = y] /\ handler[Sole].pc = "free"
      /\ set.status = Sets!From[op] /\ UNCHANGED <<value, set, original, faults>>
  BY SetBeginOK DEF SoleInv, Sets!Begin
<1>2. /\ y.pc = Sets!FirstStep[op] /\ y.op = op /\ y.row = set
      /\ y.prior = set.prior /\ y.next = 1
  BY BegunFields DEF SoleInv
<1>3. set.prior = set'.prior /\ set'.status = Sets!From[op]
  BY <1>1
<1>4. Progress(y)
  <2>1. y.pc = "commit" => y.op \in {"submit", "approve"}
    BY <1>2, SetOperations
  <2>2. \A i \in Sets!Items : ~(i < 1)
    BY SetNames
  <2>. QED BY <1>2, <2>1, <2>2 DEF Progress
<1>5. ASSUME faults = 0
      PROVE  History(y)
  <2>1. History(handler[Sole])
    BY <1>5, SoleFacts
  <2>2. op = "apply" => original = Sets!NoPrior
    BY <1>1, <2>1, SetOperations DEF History, Untouched
  <2>3. op \in {"submit", "approve"} => original = Sets!NoPrior
    BY <1>1, <2>1, SetOperations DEF History, Untouched
  <2>4. op = "rollback" => set.status = "applied" /\ set.prior = original
    BY <1>1, <2>1, SetOperations DEF History
  <2>5. y.pc \in {"write", "commit"} => y.op # "apply"
    BY <1>2, SetOperations
  <2>6. \A i \in Sets!Items : ~(i < 1)
    BY SetNames
  <2>7. Untouched(y) => original = Sets!NoPrior
    BY <1>1, <1>2, <2>2, <2>3, SetOperations DEF Untouched
  <2>8. set.status # "rolled_back"
    BY <1>1, SetOperations
  <2>9. set.status = "applied" => set.prior = original
    BY <2>1 DEF History
  <2>. QED BY <1>2, <2>4, <2>5, <2>6, <2>7, <2>8, <2>9 DEF History
<1>6. Progress(y)' /\ (faults' = 0 => History(y)')
  BY <1>1, <1>4, <1>5 DEF Progress, History, Untouched, Sets!Restorable
<1>7. y.pc # "free" => set' = y.row
  BY <1>1, <1>2
<1>. QED BY <1>1, <1>6, <1>7, SoleStep

\* It captures the settings before it writes the first of them.
LEMMA SoleCaptures ==
  ASSUME SoleInv, Sole \in SetHandlers, Sets!Capture(Sole)
  PROVE  SoleInv'
<1>. DEFINE x == handler[Sole]
<1>1. SetsInv' /\ x.pc = "list" /\ UNCHANGED <<value, set, original>>
  BY CaptureOK DEF SoleInv, Sets!Capture
<1>2. x \in SetHandler /\ x.op = "apply" /\ x.next = 1 /\ x.row.status = "approved"
      /\ (set.status = "deleted" \/ set = x.row)
  BY <1>1, SoleFacts, SetOperations DEF Underway
<1>3. faults = 0 => original = Sets!NoPrior
        /\ (set.status = "applied" => set.prior = original)
  BY <1>1, SoleFacts DEF History, Untouched
<1>4. CASE ~ \A i \in Sets!Items : Sets!Valid(x.row.items[i])
  <2>1. handler' = [handler EXCEPT ![Sole] = Sets!Free] /\ UNCHANGED faults
    BY <1>4 DEF Sets!Capture
  <2>2. Progress(Sets!Free)'
    BY SetDefaults DEF Progress
  <2>3. faults' = 0 => History(Sets!Free)'
    BY <1>1, <1>2, <1>3, <2>1, SetDefaults DEF History
  <2>. QED BY <1>1, <2>1, <2>2, <2>3, SetDefaults, SoleStep
<1>5. CASE \A i \in Sets!Items : Sets!Valid(x.row.items[i])
  <2>1. PICK p \in {value, [i \in Sets!Items |-> Env]} :
          /\ handler' = [handler EXCEPT ![Sole].pc = "write", ![Sole].prior = p]
          /\ (faults' = faults /\ p = value) \/ faults' = faults + 1
    BY <1>5 DEF Sets!Capture, Sets!Fault
  <2>. PICK y : y = [x EXCEPT !.pc = "write", !.prior = p]
    OBVIOUS
  <2>2. handler' = [handler EXCEPT ![Sole] = y]
    BY <2>1 DEF SoleInv, SetsInv
  <2>3. y.pc = "write" /\ y.op = "apply" /\ y.next = 1 /\ y.prior = p /\ y.row = x.row
    BY <1>2 DEF SetHandler
  <2>4. \A i \in Sets!Items : ~(i < 1)
    BY SetNames
  <2>5. Progress(y)'
    BY <2>3, <2>4 DEF Progress
  <2>6. faults' = 0 => faults = 0 /\ p = value
    BY <2>1, SoleFacts
  <2>7. faults' = 0 => History(y)'
    BY <1>1, <1>2, <1>3, <2>3, <2>6 DEF History
  <2>. QED BY <1>1, <1>2, <2>2, <2>3, <2>5, <2>7, SoleStep
<1>. QED BY <1>4, <1>5

\* An application keeps what it replaces first, a rollback puts it back.
LEMMA SoleWrites ==
  ASSUME SoleInv, Sole \in SetHandlers, Sets!WriteItem(Sole)
  PROVE  SoleInv'
<1>. DEFINE x == handler[Sole]
            n == x.next
<1>1. /\ SetsInv' /\ n \in Sets!Items /\ value' = [value EXCEPT ![n] = Sets!Proposed(Sole)]
      /\ Sets!Proposed(Sole) = IF x.op = "apply" THEN x.row.items[n] ELSE x.prior[n]
  BY WriteItemOK DEF SoleInv
<1>2. /\ x.pc = "write" /\ Sets!GoOn(Sole) /\ UNCHANGED <<set, faults>>
      /\ original' = IF original = Sets!NoPrior THEN value ELSE original
  BY DEF Sets!WriteItem
<1>3. /\ x \in SetHandler /\ Underway(x) /\ Progress(x) /\ (faults = 0 => History(x))
      /\ set.status = "deleted" \/ set = x.row
      /\ value \in Overrides /\ original \in Prior
  BY <1>2, SoleFacts DEF SoleInv, SetsInv
<1>4. PICK y \in SetHandler :
        /\ handler' = [handler EXCEPT ![Sole] = y] /\ y.op = x.op /\ y.row = x.row
        /\ y.prior = x.prior /\ y.next = n + 1
        /\ y.pc = IF n = NumItems THEN "commit" ELSE "write"
  BY <1>2, GoOnOK DEF SoleInv
<1>5. x.op \in {"apply", "rollback"} /\ Full(x.prior) /\ x.row.status = Sets!From[x.op]
  BY <1>2, <1>3 DEF Underway
<1>6. n \in Nat /\ n >= 1 /\ \A i \in Sets!Items : i \in Nat
        /\ (i < n + 1 <=> i < n \/ i = n)
  BY <1>1, SetNames
<1>7. \A i \in Sets!Items : value'[i] = IF i = n THEN Sets!Proposed(Sole) ELSE value[i]
  BY <1>1, <1>3 DEF Overrides
<1>8. Progress(y)'
  <2>1. y.pc = "commit" => y.next = NumItems + 1
    BY <1>4
  <2>2. x.op = "apply" => \A i \in Sets!Items : i < n + 1 => value'[i] = x.row.items[i]
    BY <1>1, <1>2, <1>3, <1>6, <1>7 DEF Progress
  <2>. QED BY <1>4, <2>1, <2>2 DEF Progress
<1>9. ASSUME faults' = 0
      PROVE  History(y)'
  <2>1. History(x)
    BY <1>2, <1>3, <1>9
  <2>2. set.status \in {"deleted", "approved", "applied"}
    BY <1>3, <1>5, SetOperations
  <2>3. set.status = "applied" => x.op = "rollback"
    BY <1>3, <1>5, SetOperations
  <2>4. x.op = "apply" => x.prior = original'
    BY <1>2, <1>5, <2>1, FullIsCaptured DEF History
  <2>5. x.op = "rollback" => x.prior = original /\ original' = original
    BY <1>2, <1>5, <2>1, FullIsCaptured DEF History
  <2>6. ASSUME x.op = "rollback", Sets!Restorable'
        PROVE  \A i \in Sets!Items : i < n + 1 => value'[i] = original'[i]
    <3>1. Sets!Restorable
      BY <2>5, <2>6 DEF Sets!Restorable
    <3>2. \A i \in Sets!Items : i < n => value[i] = original[i]
      BY <1>2, <2>1, <2>6, <3>1 DEF History
    <3>. QED BY <1>1, <1>6, <1>7, <2>5, <2>6, <3>2
  <2>7. y.next # 1 /\ y.pc # "list" /\ y.pc # "free"
    BY <1>4, <1>6
  <2>8. ~Untouched(y)'
    BY <1>2, <2>2, <2>7 DEF Untouched
  <2>9. set'.status = "applied" => set'.prior = original'
    BY <1>2, <2>1, <2>3, <2>5 DEF History
  <2>10. set'.status # "rolled_back"
    BY <1>2, <2>2
  <2>. QED BY <1>4, <2>4, <2>5, <2>6, <2>7, <2>8, <2>9, <2>10 DEF History
<1>. QED BY <1>1, <1>2, <1>3, <1>4, <1>8, <1>9, SoleStep

\* A rollback passes over what it cannot restore, or a fault is counted.
LEMMA SoleFails ==
  ASSUME SoleInv, Sole \in SetHandlers, Sets!WriteFails(Sole)
  PROVE  SoleInv'
<1>. DEFINE x == handler[Sole]
            n == x.next
<1>1. /\ SetsInv' /\ x.pc = "write" /\ UNCHANGED <<value, set, original>>
      /\ x.op = "apply" => handler' = [handler EXCEPT ![Sole] = Sets!Free]
      /\ x.op # "apply" => Sets!GoOn(Sole)
      /\ \/ faults' = faults + 1
         \/ faults' = faults /\ Sets!Proposed(Sole) = Env /\ n \in Blank
  BY WriteFailsOK DEF SoleInv, Sets!WriteFails, Sets!Fault, Sets!Accepted
<1>2. /\ x \in SetHandler /\ Underway(x) /\ Progress(x) /\ (faults = 0 => History(x))
      /\ set.status = "deleted" \/ set = x.row
      /\ value \in Overrides /\ original \in Prior /\ faults \in Nat
  BY <1>1, SoleFacts DEF SoleInv, SetsInv
<1>3. x.op \in {"apply", "rollback"} /\ n \in Sets!Items /\ x.row.status = Sets!From[x.op]
  BY <1>1, <1>2 DEF Underway
<1>4. CASE x.op = "apply"
  <2>1. Sets!Proposed(Sole) \in SetValues
    BY <1>1, <1>2, <1>3, <1>4 DEF Underway, Sets!Proposed
  <2>2. faults' # 0
    BY <1>1, <1>2, <2>1, SetNames
  <2>3. Progress(Sets!Free)'
    BY SetDefaults DEF Progress
  <2>. QED BY <1>1, <1>4, <2>2, <2>3, SetDefaults, SoleStep
<1>5. CASE x.op = "rollback"
  <2>1. PICK y \in SetHandler :
          /\ handler' = [handler EXCEPT ![Sole] = y] /\ y.op = x.op /\ y.row = x.row
          /\ y.prior = x.prior /\ y.next = n + 1
          /\ y.pc = IF n = NumItems THEN "commit" ELSE "write"
    BY <1>1, <1>5, GoOnOK DEF SoleInv
  <2>2. Progress(y)'
    BY <1>5, <2>1 DEF Progress
  <2>3. ASSUME faults' = 0
        PROVE  History(y)'
    <3>1. faults = 0 /\ Sets!Proposed(Sole) = Env /\ n \in Blank
      BY <1>1, <1>2, <2>3
    <3>2. History(x)
      BY <1>2, <3>1
    <3>3. x.prior = original
      BY <1>1, <1>5, <3>2 DEF History
    <3>4. original[n] = Env
      BY <1>5, <3>1, <3>3 DEF Sets!Proposed
    <3>5. ~Sets!Restorable /\ ~Sets!Restorable'
      BY <1>1, <3>1, <3>4 DEF Sets!Restorable
    <3>6. set.status \in {"deleted", "applied"}
      BY <1>2, <1>3, <1>5, SetOperations
    <3>7. ~Untouched(y)'
      BY <1>1, <2>1, <3>6 DEF Untouched
    <3>. QED BY <1>1, <1>5, <2>1, <3>2, <3>3, <3>5, <3>6, <3>7 DEF History
  <2>. QED BY <1>1, <1>2, <2>1, <2>2, <2>3, SoleStep
<1>. QED BY <1>3, <1>4, <1>5

\* An application is recorded with the original values, a rollback after them.
LEMMA SoleCommits ==
  ASSUME SoleInv, Sole \in SetHandlers, Sets!Commit(Sole)
  PROVE  SoleInv'
<1>. DEFINE x == handler[Sole]
<1>1. /\ SetsInv' /\ x.pc = "commit" /\ UNCHANGED <<value, original, faults>>
      /\ set' = IF set.status = "deleted" THEN set ELSE Written(x)
      /\ handler' = [handler EXCEPT ![Sole] = Sets!Free]
  BY SetCommitOK DEF SoleInv
<1>2. /\ x \in SetHandler /\ Underway(x) /\ Progress(x) /\ (faults = 0 => History(x))
      /\ set.status = "deleted" \/ set = x.row
      /\ value \in Overrides /\ original \in Prior
  BY <1>1, SoleFacts DEF SoleInv, SetsInv
<1>3. x.op \in Sets!Operations /\ x.row.status = Sets!From[x.op]
  BY <1>1, <1>2 DEF Underway
<1>4. Written(x).status = Sets!To[x.op] /\ Written(x).prior = x.prior
  BY <1>1, <1>2, WrittenOK
<1>5. Progress(Sets!Free)'
  BY SetDefaults DEF Progress
<1>6. ASSUME faults' = 0
      PROVE  History(Sets!Free)'
  <2>1. History(x)
    BY <1>1, <1>2, <1>6
  <2>2. CASE set.status = "deleted"
    BY <1>1, <2>2, SetDefaults DEF History, Untouched
  <2>3. CASE set.status # "deleted"
    <3>1. set = x.row /\ set'.status = Sets!To[x.op] /\ set'.prior = x.prior
      BY <1>1, <1>2, <1>4, <2>3
    <3>2. CASE x.op \in {"submit", "approve"}
      <4>1. original = Sets!NoPrior
        BY <1>3, <2>1, <3>1, <3>2, SetOperations DEF History, Untouched
      <4>2. set'.status \in {"pending", "approved"}
        BY <3>1, <3>2, SetOperations
      <4>. QED BY <1>1, <4>1, <4>2, SetDefaults DEF History
    <3>3. CASE x.op = "apply"
      <4>1. x.next # 1
        BY <1>1, <1>2, <3>3, SetNames DEF Progress
      <4>2. x.prior = original
        BY <1>1, <2>1, <3>3, <4>1 DEF History
      <4>3. set'.status = "applied"
        BY <3>1, <3>3, SetOperations
      <4>. QED BY <1>1, <3>1, <4>2, <4>3, SetDefaults DEF History, Untouched
    <3>4. CASE x.op = "rollback"
      <4>1. set'.status = "rolled_back"
        BY <3>1, <3>4, SetOperations
      <4>2. x.next = NumItems + 1 /\ \A i \in Sets!Items : i < NumItems + 1
        BY <1>1, <1>2, <3>4, SetNames DEF Progress
      <4>3. ASSUME Sets!Restorable
            PROVE  value = original
        <5>1. \A i \in Sets!Items : value[i] = original[i]
          BY <1>1, <2>1, <3>4, <4>2, <4>3 DEF History
        <5>. QED BY <1>2, <5>1 DEF Overrides, Prior
      <4>4. Sets!Restorable' = Sets!Restorable
        BY <1>1 DEF Sets!Restorable
      <4>. QED BY <1>1, <4>1, <4>3, <4>4, SetDefaults DEF History, Untouched
    <3>. QED BY <1>3, <3>2, <3>3, <3>4, SetOperations
  <2>. QED BY <2>2, <2>3
<1>. QED BY <1>1, <1>5, <1>6, SetDefaults, SoleStep

\* It dies, and that is a fault.
LEMMA SoleDies ==
  ASSUME SoleInv, Sole \in SetHandlers, Sets!HandlerDies(Sole)
  PROVE  SoleInv'
<1>1. SetsInv' /\ handler' = [handler EXCEPT ![Sole] = Sets!Free] /\ faults' = faults + 1
  BY SetDeathOK DEF SoleInv, Sets!HandlerDies, Sets!Fault
<1>2. faults' # 0
  BY <1>1, SoleFacts
<1>3. Progress(Sets!Free)'
  BY SetDefaults DEF Progress
<1>. QED BY <1>1, <1>2, <1>3, SetDefaults, SoleStep

\* While the others rest, every step is a step of the one request.
LEMMA SoleActs ==
  ASSUME SoleInv, Alone
  PROVE  SoleInv'
<1>1. CASE Sets!Create \/ Sets!Delete
  BY <1>1, SoleRow, SoleIsHandler
<1>2. ASSUME NEW h \in SetHandlers,
             \/ \E op \in Sets!Operations : Sets!Begin(h, op)
             \/ Sets!Capture(h) \/ Sets!WriteItem(h) \/ Sets!WriteFails(h)
             \/ Sets!Commit(h) \/ Sets!HandlerDies(h)
      PROVE  SoleInv'
  <2>1. Sole \in SetHandlers
    BY SoleIsHandler
  <2>2. h = Sole
    <3>. SUFFICES ASSUME h # Sole PROVE FALSE
      OBVIOUS
    <3>1. handler[h] = Sets!Free /\ handler'[h] = Sets!Free
      BY DEF SoleInv, Undisturbed, Alone
    <3>2. PICK op \in Sets!Operations : Sets!Begin(h, op)
      BY <1>2, <3>1, SetDefaults
         DEF Sets!Capture, Sets!WriteItem, Sets!WriteFails, Sets!Commit,
                                     Sets!HandlerDies
    <3>3. handler'[h] = Begun(op)
      BY <3>2, SetBeginOK DEF SoleInv, SetsInv
    <3>. QED BY <3>1, <3>3, BegunFields, SetDefaults, SetOperations DEF SoleInv
  <2>. QED BY <1>2, <2>1, <2>2, SoleBegins, SoleCaptures, SoleWrites, SoleFails,
     SoleCommits,
              SoleDies
<1>. QED BY <1>1, <1>2 DEF Alone, Sets!Next

(***************************************************************************)
(* MCChanges moves the change set in two of its parts.                     *)
(***************************************************************************)
\* In the one, any requests overlap; in the other, one works at a time.
ChangeSetInv == SetsInv /\ (part = "alone" => SoleInv)

\* What the properties say follows.
LEMMA SetInvSuffices == ChangeSetInv => SetInv
<1>. SUFFICES ASSUME ChangeSetInv PROVE SetInv
  OBVIOUS
<1>1. SetsInv
  BY DEF ChangeSetInv
<1>2. Sets!TypeOK
  <2>1. value \in [Sets!Items -> SetValues \cup {Env}] /\ faults \in 0..MaxSetFaults
    BY <1>1 DEF SetsInv, Overrides
  <2>2. /\ set.status \in Sets!Status /\ set.reviewed \in BOOLEAN
        /\ set.prior \in [Sets!Items -> SetValues \cup {Env, None}]
    BY <1>1 DEF SetsInv, SetRow, Prior
  <2>3. \A h \in SetHandlers : /\ handler[h].pc \in {"free", "list", "write", "commit"}
                               /\ handler[h].next \in 1..(NumItems + 1)
    BY <1>1 DEF SetsInv, SetHandler
  <2>. QED BY <2>1, <2>2, <2>3 DEF Sets!TypeOK
<1>3. Sets!AppliedNamesReviewer /\ Sets!AppliedHasPrior
  BY <1>1 DEF SetsInv, Backed, Full, Sets!AppliedNamesReviewer, Sets!AppliedHasPrior
<1>4. ASSUME part = "alone"
      PROVE  Sets!AppliedIsComplete /\ Sets!RollbackRestores
  <2>1. SoleInv /\ Sole \in SetHandlers
    BY <1>4, SoleIsHandler DEF ChangeSetInv
  <2>2. Sets!RollbackRestores
    BY <2>1, SoleFacts DEF Sets!RollbackRestores, History
  <2>3. ASSUME NEW h \in SetHandlers, handler[h].pc = "commit", handler[h].op = "apply"
        PROVE  value = handler[h].row.items
    <3>1. h = Sole
      BY <2>1, <2>3, SetDefaults DEF SoleInv, Undisturbed
    <3>2. Progress(handler[h]) /\ handler[h] \in SetHandler
      BY <2>1, <3>1, SoleFacts
    <3>3. \A i \in Sets!Items : value[i] = handler[h].row.items[i]
      BY <2>3, <3>2, SetNames DEF Progress
    <3>4. value \in Overrides /\ handler[h].row.items \in Contents
      BY <1>1, <3>2 DEF SetsInv, SetHandler, SetRow
    <3>. QED BY <3>3, <3>4 DEF Overrides, Contents
  <2>. QED BY <2>2, <2>3 DEF Sets!AppliedIsComplete
<1>. QED BY <1>2, <1>3, <1>4 DEF SetInv

(***************************************************************************)
(* ChangeSetInv is an invariant of a change set, with overlapping requests *)
(* and with one request at a time.                                         *)
(***************************************************************************)
THEOREM SetInvariance == MCSpec => []ChangeSetInv
<1>1. MCInit => ChangeSetInv
  <2>. SUFFICES ASSUME MCInit PROVE ChangeSetInv
    OBVIOUS
  <2>1. Sets!Init
    BY DEF MCInit
  <2>2. SetsInv
    BY <2>1, SetsInit
  <2>3. Undisturbed /\ handler[Sole] = Sets!Free
    BY <2>1, SetDefaults, SoleIsHandler DEF Undisturbed, Sets!Init
  <2>4. Progress(Sets!Free)
    BY SetDefaults DEF Progress
  <2>5. History(Sets!Free)
    BY <2>1, SetDefaults DEF History, Sets!Init
  <2>. QED BY <2>2, <2>3, <2>4, <2>5 DEF ChangeSetInv, SoleInv
<1>2. ChangeSetInv /\ [MCNext]_all => ChangeSetInv'
  <2>. SUFFICES ASSUME ChangeSetInv, [MCNext]_all PROVE ChangeSetInv'
    OBVIOUS
  <2>1. CASE UNCHANGED <<part, setVars>>
    BY <2>1
       DEF setVars, ChangeSetInv, SoleInv, SetsInv, Backed, Full, Undisturbed, Progress,
                History, Untouched, Sets!Restorable
  <2>2. CASE part = "sets" /\ Sets!Next /\ UNCHANGED part
    BY <2>2, SetsNext DEF ChangeSetInv
  <2>3. CASE part = "alone" /\ Alone /\ UNCHANGED part
    BY <2>3, SetsNext, SoleActs DEF ChangeSetInv, Alone
  <2>. QED BY <2>1, <2>2, <2>3 DEF MCNext, all
<1>. QED BY <1>1, <1>2, PTL DEF MCSpec

(***************************************************************************)
(* What is applied was reviewed and can be rolled back; with one request   *)
(* at a time it is complete, and a rollback restores the settings          *)
(* (changeSetApply and changeSetRollback).                                 *)
(***************************************************************************)
THEOREM SetsHold == MCSpec => []SetInv
BY SetInvariance, SetInvSuffices, PTL

-----------------------------------------------------------------------------
(***************************************************************************)
(* Runtime settings.  Every write of the table has a later time than those *)
(* before it, so a table is known from a later one by its newest time and  *)
(* the number of its rows: what is not newer was there before.             *)
(***************************************************************************)
StoredRow == [val : Values, ver : 1..MaxWrites, at : 1..MaxWrites]

Tables == [Settings!Keys -> StoredRow \cup {Settings!NoRow}]

RowsOf(t) == {k \in Settings!Keys : t[k].ver > 0}

NewestOf(t) == Settings!Max({0} \cup {t[k].at : k \in RowsOf(t)})

CountOf(t) == Settings!Cardinality(RowsOf(t))

\* The bounds.
LEMMA SettingsNames ==
  /\ NumKeys \in Nat /\ Settings!Keys = 1..NumKeys /\ Writers \subseteq Pods
  /\ {MaxWrites, MaxReverts, MaxRestarts, MaxReadFaults} \subseteq Nat
  /\ Env \notin Values
  /\ Settings!NoRow = [val |-> Env, ver |-> 0, at |-> 0]
BY SettingsAssumption DEF Settings!ConstantsOK, Settings!Keys, Settings!NoRow

\* A bounded set of numbers has a greatest element.
LEMMA GreatestExists ==
  ASSUME NEW n \in Nat, NEW S \in SUBSET (0..n), S # {}
  PROVE  /\ Settings!Max(S) \in S
         /\ \A y \in S : y <= Settings!Max(S)
<1>. DEFINE T == {n - x : x \in S}
<1>. DEFINE R == {ss \in Nat \X Nat : ss[1] < ss[2]}
<1>1. IsWellFoundedOn(R, Nat)
  BY NatLessThanWellFounded DEF OpToRel
<1>2. T \subseteq Nat /\ T # {}
  <2>1. \A x \in S : n - x \in Nat
    OBVIOUS
  <2>. QED BY <2>1
<1>. HIDE DEF R, T
<1>3. PICK m \in T : \A y \in T : ~(<<y, m>> \in R)
  BY <1>1, <1>2, WFMin
<1>4. \A y \in T : ~(y < m)
  BY <1>2, <1>3 DEF R
<1>5. PICK x \in S : m = n - x
  BY DEF T
<1>6. \A y \in S : y <= x
  <2>. SUFFICES ASSUME NEW y \in S PROVE y <= x
    OBVIOUS
  <2>1. n - y \in T
    BY DEF T
  <2>. QED BY <1>4, <1>5, <2>1
<1>7. \E z \in S : \A y \in S : z >= y
  BY <1>6
<1>8. Settings!Max(S) = CHOOSE z \in S : \A y \in S : z >= y
  BY DEF Settings!Max
<1>9. Settings!Max(S) \in S /\ \A y \in S : Settings!Max(S) >= y
  BY <1>7, <1>8
<1>. QED BY <1>9

\* The newest row of a table.
LEMMA NewestBounds ==
  ASSUME NEW t \in Tables
  PROVE  /\ NewestOf(t) \in 0..MaxWrites
         /\ \A k \in Settings!Keys : t[k].at <= NewestOf(t)
         /\ \A n \in Nat : (\A k \in Settings!Keys : t[k].at <= n) => NewestOf(t) <= n
<1>. DEFINE S == {0} \cup {t[k].at : k \in RowsOf(t)}
<1>1. \A k \in Settings!Keys : /\ t[k] = Settings!NoRow \/ t[k] \in StoredRow
                               /\ t[k].at \in 0..MaxWrites /\ t[k].ver \in Nat
                               /\ t[k].ver = 0 => t[k].at = 0
  BY SettingsNames DEF Tables, StoredRow
<1>2. S \in SUBSET (0..MaxWrites) /\ S # {} /\ MaxWrites \in Nat
  BY <1>1, SettingsNames DEF RowsOf
<1>3. NewestOf(t) = Settings!Max(S)
  BY DEF NewestOf
<1>4. 0 \in S /\ \A k \in Settings!Keys : t[k].at \in S
  BY <1>1 DEF RowsOf
<1>5. \A n \in Nat : (\A k \in Settings!Keys : t[k].at <= n) => \A x \in S : x <= n
  BY DEF RowsOf
<1>. HIDE DEF S
<1>6. Settings!Max(S) \in S /\ \A y \in S : y <= Settings!Max(S)
  BY <1>2, GreatestExists
<1>. QED BY <1>2, <1>3, <1>4, <1>5, <1>6

\* The instance counts as the library does.
LEMMA SettingsCount == ASSUME NEW S PROVE Settings!Cardinality(S) = Cardinality(S)
BY DEF Settings!Cardinality, Cardinality

\* Fewer rows are a smaller number of rows.
LEMMA SameCount ==
  ASSUME NEW t \in Tables, NEW u \in Tables, RowsOf(t) \subseteq RowsOf(u), CountOf(t) = CountOf(u)
  PROVE  RowsOf(t) = RowsOf(u)
<1>1. IsFiniteSet(RowsOf(u))
  <2>1. IsFiniteSet(Settings!Keys)
    BY SettingsNames, FS_Interval
  <2>2. RowsOf(u) \subseteq Settings!Keys
    BY DEF RowsOf
  <2>. QED BY <2>1, <2>2, FS_Subset
<1>2. Cardinality(RowsOf(t)) = Cardinality(RowsOf(u))
  BY SettingsCount DEF CountOf
<1>. QED BY <1>1, <1>2, FS_Subset
-----------------------------------------------------------------------------
SumOf(t) == Settings!MapThenSumSet(LAMBDA k : t[k].ver, RowsOf(t))

TokenOf(t) == [count |-> CountOf(t), versions |-> SumOf(t), newest |-> NewestOf(t)]

\* What a loop may compare with, and a task's rebuild.
Tokens == {Settings!NoToken} \cup {TokenOf(t) : t \in Tables}

Task == [pc : {"rest", "list", "store", "note", "seed"}, booting : BOOLEAN,
         copy : [Settings!Keys -> Values \cup {Env}], next : 1..(NumKeys + 1),
         tok : Tokens, tab : Tables]

Spending == [writes : 0..MaxWrites, reverts : 0..MaxReverts,
             restarts : 0..MaxRestarts, faults : 0..MaxReadFaults]

SettingsTypes ==
  /\ table \in Tables
  /\ snap \in [Pods -> [Settings!Keys -> Values \cup {Env}]]
  /\ last \in [Pods -> Tokens] /\ base \in [Pods -> Tables]
  /\ run \in [Pods -> [Settings!Tasks -> Task]]
  /\ used \in Spending

\* A rebuild stores the snapshots from the first to the last.
RunsOK ==
  \A p \in Pods, w \in Settings!Tasks :
    /\ run[p][w].pc = "list" => run[p][w].next = 1
    /\ run[p][w].pc = "store" => run[p][w].next <= NumKeys

\* The table follows t: what is not newer than t was in it.
Follows(t) ==
  \A k \in Settings!Keys : table[k] \in {t[k], Settings!NoRow} \/ table[k].at > NewestOf(t)

Past(t) == \A k \in Settings!Keys : t[k].at <= used.writes

\* A token is the one of a table that was there.
Told(tok, t) == tok \in {Settings!NoToken, TokenOf(t)} /\ Past(t) /\ Follows(t)

TableInv ==
  /\ Past(table) /\ \A k \in Settings!Keys : table[k].ver <= used.writes
  /\ \A p \in Pods : Told(last[p], base[p])
  /\ \A p \in Pods, w \in Settings!Tasks : Told(run[p][w].tok, run[p][w].tab)

ReloadInv == SettingsTypes /\ RunsOK /\ TableInv

\* The token of the table.
LEMMA TokenOfTable == Settings!Token = TokenOf(table)
<1>1. Settings!Stored = RowsOf(table)
  BY DEF Settings!Stored, RowsOf
<1>2. Settings!MapThenSumSet(LAMBDA k : table[k].ver, RowsOf(table)) = SumOf(table)
  BY DEF SumOf
<1>3. Settings!Max({0} \cup {table[k].at : k \in RowsOf(table)}) = NewestOf(table)
  BY DEF NewestOf
<1>. QED BY <1>1, <1>2, <1>3 DEF Settings!Token, TokenOf, CountOf

\* No table has the empty token.
LEMMA NoTokenIsNone == ASSUME NEW t \in Tables PROVE TokenOf(t) # Settings!NoToken
BY NewestBounds, SettingsNames DEF TokenOf, Settings!NoToken

\* A table with the token of an earlier one is that table.
LEMMA TokenTells ==
  ASSUME SettingsTypes, NEW t \in Tables, Follows(t), TokenOf(t) = TokenOf(table)
  PROVE  t = table
<1>1. NewestOf(table) = NewestOf(t) /\ CountOf(table) = CountOf(t)
  BY DEF TokenOf
<1>2. \A k \in Settings!Keys : table[k].at <= NewestOf(t) /\ NewestOf(t) \in Nat /\ table[k].at \in Nat
  BY <1>1, NewestBounds, SettingsNames DEF SettingsTypes, Tables, StoredRow
<1>3. \A k \in Settings!Keys : table[k] \in {t[k], Settings!NoRow}
  BY <1>2 DEF Follows
<1>4. RowsOf(table) \subseteq RowsOf(t)
  BY <1>3, SettingsNames DEF RowsOf
<1>5. RowsOf(table) = RowsOf(t)
  BY <1>1, <1>4, SameCount DEF SettingsTypes
<1>6. ASSUME NEW k \in Settings!Keys
      PROVE  table[k] = t[k]
  <2>1. CASE k \in RowsOf(table)
    BY <1>3, <2>1, SettingsNames DEF RowsOf
  <2>2. CASE k \notin RowsOf(table)
    <3>1. k \notin RowsOf(t)
      BY <2>2, <1>5
    <3>2. t[k] = Settings!NoRow
      BY <3>1, SettingsNames DEF RowsOf, Tables, StoredRow
    <3>. QED BY <1>3, <3>2
  <2>. QED BY <2>1, <2>2
<1>7. table \in [Settings!Keys -> StoredRow \cup {Settings!NoRow}]
  BY DEF SettingsTypes, Tables
<1>. QED BY <1>6, <1>7 DEF Tables
-----------------------------------------------------------------------------
\* The names of the tasks, and a task at rest.
LEMMA TasksType ==
  /\ Settings!Tasks = {"loop", "request"}
  /\ Settings!Resting \in Task
  /\ Settings!Resting.pc = "rest" /\ Settings!Resting.next = 1
  /\ ~Settings!Resting.booting /\ Settings!Resting.tok = Settings!NoToken
  /\ \A k \in Settings!Keys : Settings!Resting.tab[k] = Settings!NoRow
<1>1. [k \in Settings!Keys |-> Settings!NoRow] \in Tables
  BY DEF Tables
<1>2. Settings!FromEnv \in [Settings!Keys -> Values \cup {Env}]
  BY DEF Settings!FromEnv
<1>3. Settings!NoToken \in Tokens /\ 1 \in 1..(NumKeys + 1)
  BY SettingsNames DEF Tokens
<1>. QED BY <1>1, <1>2, <1>3 DEF Settings!Tasks, Settings!Resting, Task

\* A loop at rest has told nothing.
LEMMA RestTold == ReloadInv => Told(Settings!Resting.tok, Settings!Resting.tab)
<1>. SUFFICES ASSUME ReloadInv PROVE Told(Settings!Resting.tok, Settings!Resting.tab)
  OBVIOUS
<1>. DEFINE t == Settings!Resting.tab
<1>1. t \in Tables /\ \A k \in Settings!Keys : t[k] = Settings!NoRow
  BY TasksType DEF Task
<1>2. NewestOf(t) = 0
  <2>1. NewestOf(t) \in Nat
    BY <1>1, NewestBounds, SettingsNames
  <2>2. \A k \in Settings!Keys : t[k].at <= 0
    BY <1>1, SettingsNames
  <2>. HIDE DEF t
  <2>3. NewestOf(t) <= 0
    BY <1>1, <2>2, NewestBounds
  <2>. QED BY <2>1, <2>3
<1>3. \A k \in Settings!Keys : table[k] = Settings!NoRow \/ table[k].at > 0
  BY SettingsNames DEF ReloadInv, SettingsTypes, Tables, StoredRow
<1>4. Follows(t)
  BY <1>2, <1>3 DEF Follows
<1>5. Past(t)
  BY <1>1, SettingsNames DEF Past, ReloadInv, SettingsTypes, Spending
<1>. QED BY <1>4, <1>5, TasksType DEF Told

\* The token of the table tells the table.
LEMMA TableTold == ReloadInv => Told(Settings!Token, table) /\ Told(Settings!NoToken, table)
BY TokenOfTable DEF ReloadInv, TableInv, Told, Follows

\* A pod starts with the environment's settings.
LEMMA ReloadStarts == Settings!Init => ReloadInv
<1>. SUFFICES ASSUME Settings!Init PROVE ReloadInv
  OBVIOUS
<1>1. table \in Tables /\ \A k \in Settings!Keys : table[k] = Settings!NoRow
  BY DEF Settings!Init, Tables
<1>2. Settings!FromEnv \in [Settings!Keys -> Values \cup {Env}]
  BY DEF Settings!FromEnv
<1>3. \A p \in Pods, w \in Settings!Tasks : run[p][w] = Settings!Resting
  BY DEF Settings!Init
<1>4. Settings!Token \in Tokens
  BY <1>1, TokenOfTable DEF Tokens
<1>5. used.writes = 0 /\ used \in Spending
  BY SettingsNames DEF Settings!Init, Spending
<1>6. SettingsTypes
  BY <1>1, <1>2, <1>3, <1>4, <1>5, TasksType DEF Settings!Init, SettingsTypes
<1>7. RunsOK
  BY <1>3, TasksType DEF RunsOK
<1>8. Past(table) /\ \A k \in Settings!Keys : table[k].ver <= used.writes
  BY <1>1, <1>5, SettingsNames DEF Past
<1>9. Follows(table)
  BY DEF Follows
<1>10. \A t \in Tables : (\A k \in Settings!Keys : t[k] = Settings!NoRow) => Past(t) /\ Follows(t)
  BY <1>1, <1>5, SettingsNames DEF Past, Follows
<1>11. \A p \in Pods : last[p] = TokenOf(table) /\ base[p] = table
  BY TokenOfTable DEF Settings!Init
<1>12. TableInv
  BY <1>1, <1>3, <1>8, <1>10, <1>11, TasksType DEF TableInv, Told, Task
<1>. QED BY <1>6, <1>7, <1>12 DEF ReloadInv

\* The table after a write: a row is new, gone, or as before.
Overwritten ==
  /\ table' \in Tables /\ used' \in Spending /\ used'.writes >= used.writes
  /\ \A k \in Settings!Keys :
       /\ table'[k] \in {table[k], Settings!NoRow} \/ table'[k].at > used.writes
       /\ table'[k].at <= used'.writes /\ table'[k].ver <= used'.writes

\* What was told stays true.
LEMMA StaysTold ==
  ASSUME ReloadInv, Overwritten, NEW tok, NEW t \in Tables, Told(tok, t)
  PROVE  Told(tok, t)'
<1>1. used.writes \in Nat /\ used'.writes \in Nat /\ used'.writes >= used.writes
  BY SettingsNames DEF ReloadInv, SettingsTypes, Spending, Overwritten
<1>2. NewestOf(t) <= used.writes /\ NewestOf(t) \in Nat
  BY <1>1, NewestBounds, SettingsNames DEF Told, Past
<1>3. \A k \in Settings!Keys : t[k].at \in Nat /\ table'[k].at \in Nat
  BY SettingsNames DEF Overwritten, Tables, StoredRow
<1>4. Past(t)'
  BY <1>1, <1>3 DEF Told, Past
<1>5. Follows(t)'
  <2>. SUFFICES ASSUME NEW k \in Settings!Keys
                PROVE  table'[k] \in {t[k], Settings!NoRow} \/ table'[k].at > NewestOf(t)
    BY DEF Follows
  <2>1. CASE table'[k].at > used.writes
    BY <1>1, <1>2, <1>3, <2>1
  <2>2. CASE table'[k] \in {table[k], Settings!NoRow}
    BY <2>2 DEF Told, Follows
  <2>. QED BY <2>1, <2>2 DEF Overwritten
<1>. QED BY <1>4, <1>5 DEF Told
\* A step of one task of pod p, or of both.
LEMMA RunStep ==
  ASSUME ReloadInv, Overwritten, NEW p \in Pods, NEW y \in [Settings!Tasks -> Task],
         run' = [run EXCEPT ![p] = y],
         \A w \in Settings!Tasks :
           /\ y[w].pc = "list" => y[w].next = 1
           /\ y[w].pc = "store" => y[w].next <= NumKeys
           /\ Told(y[w].tok, y[w].tab),
         snap' \in [Pods -> [Settings!Keys -> Values \cup {Env}]],
         last' \in [Pods -> Tokens], base' \in [Pods -> Tables],
         \A q \in Pods : Told(last'[q], base'[q])
  PROVE  ReloadInv'
<1>1. run' \in [Pods -> [Settings!Tasks -> Task]]
  BY DEF ReloadInv, SettingsTypes
<1>2. SettingsTypes'
  BY <1>1 DEF Overwritten, SettingsTypes, Tables, StoredRow, Spending, Tokens
<1>3. \A q \in Pods, w \in Settings!Tasks : run'[q][w] = run[q][w] \/ (q = p /\ run'[q][w] = y[w])
  BY DEF ReloadInv, SettingsTypes
<1>4. RunsOK'
  BY <1>3 DEF ReloadInv, RunsOK
<1>5. \A q \in Pods, w \in Settings!Tasks :
        Told(run'[q][w].tok, run'[q][w].tab) /\ run'[q][w].tab \in Tables
  BY <1>1, <1>3 DEF ReloadInv, TableInv, Task
<1>6. \A q \in Pods : base'[q] \in Tables
  OBVIOUS
<1>7. TableInv'
  <2>1. Past(table)' /\ \A k \in Settings!Keys : table'[k].ver <= used'.writes
    BY DEF Overwritten, Past
  <2>2. ASSUME NEW q \in Pods
        PROVE  Told(last[q], base[q])'
    <3>1. Told(last'[q], base'[q]) /\ base'[q] \in Tables
      BY <1>6
    <3>. QED BY <3>1, StaysTold DEF Told, Past, Follows
  <2>3. ASSUME NEW q \in Pods, NEW w \in Settings!Tasks
        PROVE  Told(run[q][w].tok, run[q][w].tab)'
    <3>1. Told(run'[q][w].tok, run'[q][w].tab) /\ run'[q][w].tab \in Tables
      BY <1>5
    <3>. QED BY <3>1, StaysTold DEF Told, Past, Follows
  <2>. QED BY <2>1, <2>2, <2>3 DEF TableInv
<1>. QED BY <1>2, <1>4, <1>7 DEF ReloadInv
\* The numbers of what was spent.
LEMMA SpendingType ==
  ASSUME ReloadInv
  PROVE  /\ used.writes \in Nat /\ used.reverts \in Nat /\ used.restarts \in Nat
         /\ used.faults \in Nat /\ used \in Spending
         /\ used.writes <= MaxWrites
         /\ Settings!Fault =>
              used' \in Spending /\ used'.writes = used.writes /\ used'.faults = used.faults + 1
BY SettingsNames DEF ReloadInv, SettingsTypes, Spending, Settings!Fault

\* A step that leaves the table alone.
LEMMA NotOverwritten ==
  ASSUME ReloadInv, UNCHANGED table, used' \in Spending, used'.writes = used.writes
  PROVE  Overwritten
<1>1. \A k \in Settings!Keys : table[k].at <= used.writes /\ table[k].ver <= used.writes
  BY DEF ReloadInv, TableInv, Past
<1>. QED BY <1>1, SpendingType DEF Overwritten, ReloadInv, SettingsTypes

\* A step of task w of pod p, which leaves what the loop compares with.
LEMMA TaskStep ==
  ASSUME ReloadInv, Overwritten, NEW p \in Pods, NEW w \in Settings!Tasks, NEW y \in Task,
         run' = [run EXCEPT ![p][w] = y],
         y.pc = "list" => y.next = 1, y.pc = "store" => y.next <= NumKeys,
         Told(y.tok, y.tab),
         snap' \in [Pods -> [Settings!Keys -> Values \cup {Env}]],
         last' \in [Pods -> Tokens], base' \in [Pods -> Tables],
         \A q \in Pods : Told(last'[q], base'[q])
  PROVE  ReloadInv'
<1>. DEFINE z == [run[p] EXCEPT ![w] = y]
<1>1. run[p] \in [Settings!Tasks -> Task]
  BY DEF ReloadInv, SettingsTypes
<1>2. z \in [Settings!Tasks -> Task]
  BY <1>1
<1>3. run' = [run EXCEPT ![p] = z]
  OBVIOUS
<1>4. \A v \in Settings!Tasks : z[v] = y \/ z[v] = run[p][v]
  BY <1>1
<1>5. \A v \in Settings!Tasks :
        /\ z[v].pc = "list" => z[v].next = 1
        /\ z[v].pc = "store" => z[v].next <= NumKeys
        /\ Told(z[v].tok, z[v].tab)
  BY <1>4 DEF ReloadInv, RunsOK, TableInv
<1>. HIDE DEF z
<1>. QED BY <1>2, <1>3, <1>5, RunStep

\* What the loops compare with is told.
LEMMA ComparedTold ==
  ASSUME ReloadInv, UNCHANGED <<last, base>>
  PROVE  /\ last' \in [Pods -> Tokens] /\ base' \in [Pods -> Tables]
         /\ \A q \in Pods : Told(last'[q], base'[q])
BY DEF ReloadInv, SettingsTypes, TableInv

\* Writes of administrators.
LEMMA SettingStep ==
  ASSUME ReloadInv, NEW p \in Pods, NEW k \in Settings!Keys,
         Settings!Delete(p, k) \/ \E v \in Values : Settings!Upsert(p, k, v)
  PROVE  ReloadInv' /\ Overwritten /\ used'.writes = used.writes + 1
<1>1. \A j \in Settings!Keys :
        /\ table[j] \in StoredRow \cup {Settings!NoRow}
        /\ table[j].at <= used.writes /\ table[j].ver <= used.writes /\ table[j].ver \in Nat
        /\ table[j].at \in Nat
  BY SettingsNames DEF ReloadInv, SettingsTypes, Tables, StoredRow, TableInv, Past
<1>2. table \in [Settings!Keys -> StoredRow \cup {Settings!NoRow}]
  BY DEF ReloadInv, SettingsTypes, Tables
<1>3. /\ used' \in Spending /\ used'.writes = used.writes + 1
      /\ used.writes < MaxWrites
      /\ run' = [run EXCEPT ![p]["request"] = [Settings!Resting EXCEPT !.pc = "list"]]
      /\ UNCHANGED <<snap, last, base>>
  <2>1. Settings!Write \/ Settings!Revert
    BY DEF Settings!Delete, Settings!Upsert
  <2>2. used' \in Spending /\ used'.writes = used.writes + 1 /\ used.writes < MaxWrites
    <3>1. /\ used.writes \in 0..MaxWrites /\ used.reverts \in 0..MaxReverts
          /\ MaxWrites \in Nat /\ MaxReverts \in Nat /\ used \in Spending
      BY SpendingType, SettingsNames DEF Spending
    <3>2. CASE Settings!Write
      <4>1. used.writes < MaxWrites /\ used' = [used EXCEPT !.writes = used.writes + 1]
        BY <3>2 DEF Settings!Write
      <4>2. used.writes + 1 \in 0..MaxWrites
        BY <3>1, <4>1
      <4>. QED BY <3>1, <4>1, <4>2 DEF Spending
    <3>3. CASE Settings!Revert
      <4>1. /\ used.writes < MaxWrites /\ used.reverts < MaxReverts
            /\ used' = [used EXCEPT !.writes = used.writes + 1, !.reverts = used.reverts + 1]
        BY <3>3 DEF Settings!Revert
      <4>2. used.writes + 1 \in 0..MaxWrites /\ used.reverts + 1 \in 0..MaxReverts
        BY <3>1, <4>1
      <4>. QED BY <3>1, <4>1, <4>2 DEF Spending
    <3>. QED BY <2>1, <3>2, <3>3
  <2>. QED BY <2>2 DEF Settings!Delete, Settings!Upsert, Settings!Reload
<1>4. used.writes \in Nat /\ MaxWrites \in Nat
  BY SpendingType, SettingsNames
<1>5. \E r \in StoredRow \cup {Settings!NoRow} :
        /\ table' = [table EXCEPT ![k] = r]
        /\ r = Settings!NoRow \/ r.at = used.writes + 1
        /\ r.ver <= used.writes + 1
  <2>1. CASE Settings!Delete(p, k)
    <3>1. table' = [table EXCEPT ![k] = Settings!NoRow]
      BY <2>1 DEF Settings!Delete
    <3>2. Settings!NoRow.ver <= used.writes + 1
      BY <1>4, SettingsNames
    <3>. QED BY <3>1, <3>2
  <2>2. ASSUME NEW v \in Values, Settings!Upsert(p, k, v)
        PROVE  \E r \in StoredRow \cup {Settings!NoRow} :
                 /\ table' = [table EXCEPT ![k] = r]
                 /\ r = Settings!NoRow \/ r.at = used.writes + 1
                 /\ r.ver <= used.writes + 1
    <3>. DEFINE r == [val |-> v, ver |-> table[k].ver + 1, at |-> used.writes + 1]
    <3>1. PICK behind \in 0..0 :
            table' = [table EXCEPT ![k] =
                        [val |-> v, ver |-> table[k].ver + 1,
                         at |-> IF behind < Settings!Clock THEN Settings!Clock - behind ELSE 0]]
      BY <2>2 DEF Settings!Upsert
    <3>2. behind = 0 /\ Settings!Clock = used.writes + 1
      BY DEF Settings!Clock
    <3>3. (IF behind < Settings!Clock THEN Settings!Clock - behind ELSE 0) = used.writes + 1
      BY <1>4, <3>2
    <3>4. table' = [table EXCEPT ![k] = r]
      BY <3>1, <3>3
    <3>5. r \in StoredRow
      BY <1>1, <1>3, <1>4 DEF StoredRow
    <3>6. r.at = used.writes + 1 /\ r.ver <= used.writes + 1
      BY <1>1, <1>4
    <3>. HIDE DEF r
    <3>. QED BY <3>4, <3>5, <3>6
  <2>. QED BY <2>1, <2>2
<1>6. Overwritten
  <2>1. PICK r \in StoredRow \cup {Settings!NoRow} :
          /\ table' = [table EXCEPT ![k] = r]
          /\ r = Settings!NoRow \/ r.at = used.writes + 1
          /\ r.ver <= used.writes + 1
    BY <1>5
  <2>2. table' \in Tables
    BY <1>2, <2>1 DEF Tables
  <2>3. \A j \in Settings!Keys : table'[j] = table[j] \/ table'[j] = r
    BY <1>2, <2>1
  <2>4. r.at <= used.writes + 1
    BY <1>4, <2>1, SettingsNames
  <2>5. r = Settings!NoRow \/ r.at > used.writes
    BY <1>4, <2>1
  <2>. QED BY <1>1, <1>3, <1>4, <2>1, <2>2, <2>3, <2>4, <2>5 DEF Overwritten
<1>7. [Settings!Resting EXCEPT !.pc = "list"] \in Task
  BY TasksType DEF Task
<1>8. Told(Settings!Resting.tok, Settings!Resting.tab)
  BY RestTold
<1>9. "request" \in Settings!Tasks
  BY TasksType
<1>10. PICK y \in Task : y = [Settings!Resting EXCEPT !.pc = "list"]
  BY <1>7
<1>11. y.pc = "list" /\ y.next = 1 /\ y.tok = Settings!Resting.tok /\ y.tab = Settings!Resting.tab
  BY <1>10, TasksType DEF Task
<1>12. snap' \in [Pods -> [Settings!Keys -> Values \cup {Env}]]
  BY <1>3 DEF ReloadInv, SettingsTypes
<1>13. ReloadInv'
  BY <1>3, <1>6, <1>8, <1>9, <1>10, <1>11, <1>12, ComparedTold, TaskStep
<1>. QED BY <1>3, <1>6, <1>13
\* Steps of a rebuild.
LEMMA RebuildStep ==
  ASSUME ReloadInv, NEW p \in Pods, NEW w \in Settings!Tasks, Settings!Rebuilds(p, w)
  PROVE  ReloadInv' /\ Overwritten /\ UNCHANGED table
<1>. DEFINE r == run[p][w]
<1>1. r \in Task /\ Told(r.tok, r.tab) /\ NumKeys \in Nat
      /\ r.next \in 1..(NumKeys + 1) /\ r.copy \in [Settings!Keys -> Values \cup {Env}]
      /\ r.tok \in Tokens /\ r.tab \in Tables
  BY SettingsNames DEF ReloadInv, SettingsTypes, TableInv, Task
<1>2. UNCHANGED table /\ used' \in Spending /\ used'.writes = used.writes
  BY SpendingType DEF Settings!Rebuilds, Settings!List, Settings!Store, Settings!Note, Settings!NoteApplied
<1>3. Overwritten
  BY <1>2, NotOverwritten
<1>4. run \in [Pods -> [Settings!Tasks -> Task]]
  BY DEF ReloadInv, SettingsTypes
<1>5. CASE Settings!List(p, w)
  <2>1. PICK c \in [Settings!Keys -> Values \cup {Env}] :
          run' = [run EXCEPT ![p][w].pc = "store", ![p][w].copy = c]
    <3>1. /\ Settings!Overlay \in [Settings!Keys -> Values \cup {Env}]
          /\ Settings!FromEnv \in [Settings!Keys -> Values \cup {Env}]
      BY SettingsNames DEF Settings!Overlay, Settings!FromEnv, ReloadInv, SettingsTypes, Tables, StoredRow
    <3>. QED BY <1>5, <3>1 DEF Settings!List
  <2>2. r.next = 1 /\ 1 <= NumKeys
    BY <1>5, SettingsAssumption, <1>1 DEF Settings!List, ReloadInv, RunsOK, Settings!ConstantsOK
  <2>. PICK y \in Task : y = [r EXCEPT !.pc = "store", !.copy = c]
    BY <1>1 DEF Task
  <2>3. /\ y.pc = "store" /\ y.next = r.next /\ y.tok = r.tok /\ y.tab = r.tab
    BY <1>1 DEF Task
  <2>4. run' = [run EXCEPT ![p][w] = y]
    BY <1>4, <2>1
  <2>5. snap' \in [Pods -> [Settings!Keys -> Values \cup {Env}]] /\ UNCHANGED <<last, base>>
    BY <1>5 DEF Settings!List, ReloadInv, SettingsTypes
  <2>. QED BY <1>1, <1>2, <1>3, <2>2, <2>3, <2>4, <2>5, ComparedTold, TaskStep
<1>6. CASE Settings!Store(p, w)
  <2>1. r.pc = "store" /\ r.next <= NumKeys
    BY <1>6 DEF Settings!Store, ReloadInv, RunsOK
  <2>2. r.next \in Settings!Keys /\ r.next + 1 \in 1..(NumKeys + 1)
    BY <1>1, <2>1, SettingsNames
  <2>. PICK y \in Task : y = [r EXCEPT !.next = r.next + 1,
                                !.pc = IF r.next = NumKeys THEN "note" ELSE "store"]
    BY <1>1, <2>2 DEF Task
  <2>3. /\ y.next = r.next + 1 /\ y.tok = r.tok /\ y.tab = r.tab
        /\ y.pc = IF r.next = NumKeys THEN "note" ELSE "store"
    BY <1>1 DEF Task
  <2>4. run' = [run EXCEPT ![p][w] = y]
    BY <1>4, <1>6 DEF Settings!Store
  <2>5. /\ snap' = [snap EXCEPT ![p][r.next] = r.copy[r.next]] /\ UNCHANGED <<last, base>>
    BY <1>6 DEF Settings!Store
  <2>6. snap' \in [Pods -> [Settings!Keys -> Values \cup {Env}]]
    BY <1>1, <2>2, <2>5 DEF ReloadInv, SettingsTypes
  <2>7. y.pc = "store" => y.next <= NumKeys
    BY <1>1, <2>1, <2>3
  <2>8. Told(y.tok, y.tab) /\ y.pc # "list"
    BY <1>1, <2>3
  <2>9. /\ last' \in [Pods -> Tokens] /\ base' \in [Pods -> Tables]
        /\ \A q \in Pods : Told(last'[q], base'[q])
    BY <2>5, ComparedTold
  <2>. QED BY <1>2, <1>3, <2>4, <2>6, <2>7, <2>8, <2>9, TaskStep
<1>7. CASE Settings!Note(p, w)
  <2>. PICK y \in Task : y = IF r.booting THEN [Settings!Resting EXCEPT !.pc = "seed"]
                             ELSE Settings!Resting
    BY TasksType DEF Task
  <2>1. /\ y.pc \in {"rest", "seed"} /\ y.tok = Settings!Resting.tok /\ y.tab = Settings!Resting.tab
    BY TasksType DEF Task
  <2>2. run' = [run EXCEPT ![p][w] = y] /\ UNCHANGED snap
    BY <1>7 DEF Settings!Note
  <2>3. /\ last' \in [Pods -> Tokens] /\ base' \in [Pods -> Tables]
        /\ \A q \in Pods : Told(last'[q], base'[q])
    <3>1. \/ UNCHANGED <<last, base>>
          \/ last' = [last EXCEPT ![p] = r.tok] /\ base' = [base EXCEPT ![p] = r.tab]
      BY <1>7 DEF Settings!Note
    <3>2. last \in [Pods -> Tokens] /\ base \in [Pods -> Tables]
          /\ \A q \in Pods : Told(last[q], base[q])
      BY DEF ReloadInv, SettingsTypes, TableInv
    <3>. HIDE DEF r
    <3>. QED BY <1>1, <3>1, <3>2
  <2>4. Told(y.tok, y.tab)
    BY <2>1, RestTold
  <2>5. snap' \in [Pods -> [Settings!Keys -> Values \cup {Env}]]
    BY <2>2 DEF ReloadInv, SettingsTypes
  <2>. QED BY <1>2, <1>3, <2>1, <2>2, <2>3, <2>4, <2>5, TaskStep
<1>. QED BY <1>2, <1>3, <1>5, <1>6, <1>7 DEF Settings!Rebuilds
\* The loop's reads of the token, a restart, and a batch that fails.
LEMMA LoopStep ==
  ASSUME ReloadInv, NEW p \in Pods,
         Settings!BatchFails(p) \/ Settings!Restart(p) \/ Settings!Seed(p) \/ Settings!Tick(p)
  PROVE  ReloadInv' /\ Overwritten /\ UNCHANGED table
<1>1. UNCHANGED table /\ used' \in Spending /\ used'.writes = used.writes
  <2>1. CASE UNCHANGED <<table, used>>
    BY <2>1, SpendingType
  <2>2. CASE Settings!Fault /\ UNCHANGED table
    BY <2>2, SpendingType
  <2>3. CASE Settings!Restart(p)
    <3>1. /\ used.restarts < MaxRestarts /\ UNCHANGED table
          /\ used' = [used EXCEPT !.restarts = used.restarts + 1]
      BY <2>3 DEF Settings!Restart
    <3>2. used.restarts + 1 \in 0..MaxRestarts
      BY <3>1, SpendingType, SettingsNames
    <3>. QED BY <3>1, <3>2, SpendingType DEF Spending
  <2>. QED BY <2>1, <2>2, <2>3 DEF Settings!BatchFails, Settings!Seed, Settings!Tick
<1>2. Overwritten
  BY <1>1, NotOverwritten
<1>3. /\ run \in [Pods -> [Settings!Tasks -> Task]] /\ table \in Tables
      /\ last \in [Pods -> Tokens] /\ base \in [Pods -> Tables]
      /\ snap \in [Pods -> [Settings!Keys -> Values \cup {Env}]]
      /\ \A q \in Pods : Told(last[q], base[q])
  BY DEF ReloadInv, SettingsTypes, TableInv
<1>4. "loop" \in Settings!Tasks /\ "request" \in Settings!Tasks
  BY TasksType
<1>5. Told(Settings!Resting.tok, Settings!Resting.tab)
  BY RestTold
<1>6. /\ Settings!Token \in Tokens /\ Told(Settings!Token, table) /\ Told(Settings!NoToken, table)
      /\ Settings!NoToken \in Tokens
  BY <1>3, TokenOfTable, TableTold DEF Tokens
<1>7. CASE Settings!BatchFails(p)
  <2>1. run' = [run EXCEPT ![p]["request"] = Settings!Resting] /\ UNCHANGED <<snap, last, base>>
    BY <1>7 DEF Settings!BatchFails
  <2>. QED BY <1>1, <1>2, <1>3, <1>4, <1>5, <2>1, ComparedTold, TaskStep, TasksType
<1>8. CASE Settings!Restart(p)
  <2>. DEFINE y == [w \in Settings!Tasks |->
               IF w = "loop" THEN [Settings!Resting EXCEPT !.pc = "list", !.booting = TRUE]
               ELSE Settings!Resting]
  <2>1. /\ run' = [run EXCEPT ![p] = y]
        /\ snap' = [snap EXCEPT ![p] = Settings!FromEnv]
        /\ last' = [last EXCEPT ![p] = Settings!NoToken]
        /\ UNCHANGED base
    BY <1>8 DEF Settings!Restart
  <2>2. y \in [Settings!Tasks -> Task]
    BY TasksType DEF Task
  <2>3. \A w \in Settings!Tasks :
           /\ y[w].pc = "list" => y[w].next = 1
           /\ y[w].pc # "store"
           /\ y[w].tok = Settings!Resting.tok /\ y[w].tab = Settings!Resting.tab
    BY TasksType DEF Task
  <2>4. snap' \in [Pods -> [Settings!Keys -> Values \cup {Env}]]
    BY <1>3, <2>1 DEF Settings!FromEnv
  <2>5. last' \in [Pods -> Tokens] /\ base' \in [Pods -> Tables]
    BY <1>3, <1>6, <2>1
  <2>6. \A q \in Pods : Told(last'[q], base'[q])
    <3>1. \A q \in Pods : Told(Settings!NoToken, base[q])
      BY <1>3 DEF Told
    <3>. QED BY <1>3, <2>1, <3>1
  <2>7. \A w \in Settings!Tasks : Told(y[w].tok, y[w].tab)
    BY <1>5, <2>3
  <2>. HIDE DEF y
  <2>. QED BY <1>1, <1>2, <2>1, <2>2, <2>3, <2>4, <2>5, <2>6, <2>7, RunStep
<1>9. CASE Settings!Seed(p)
  <2>1. /\ run' = [run EXCEPT ![p]["loop"] = Settings!Resting] /\ UNCHANGED snap
        /\ base' = [base EXCEPT ![p] = table]
        /\ \/ last' = [last EXCEPT ![p] = Settings!Token]
           \/ last' = [last EXCEPT ![p] = Settings!NoToken]
    BY <1>9 DEF Settings!Seed
  <2>2. /\ last' \in [Pods -> Tokens] /\ base' \in [Pods -> Tables]
        /\ \A q \in Pods : Told(last'[q], base'[q])
    BY <1>3, <1>6, <2>1
  <2>. QED BY <1>1, <1>2, <1>3, <1>4, <1>5, <2>1, <2>2, TaskStep, TasksType
<1>10. CASE Settings!Tick(p)
  <2>. PICK y \in Task : y = [Settings!Resting EXCEPT !.pc = "list", !.tok = Settings!Token, !.tab = table]
    BY <1>3, <1>6, TasksType DEF Task
  <2>1. y.pc = "list" /\ y.next = 1 /\ y.tok = Settings!Token /\ y.tab = table
    BY TasksType DEF Task
  <2>2. run' = [run EXCEPT ![p]["loop"] = y] /\ UNCHANGED <<snap, last, base>>
    BY <1>10 DEF Settings!Tick
  <2>3. /\ last' \in [Pods -> Tokens] /\ base' \in [Pods -> Tables]
        /\ \A q \in Pods : Told(last'[q], base'[q])
    BY <2>2, ComparedTold
  <2>4. Told(y.tok, y.tab) /\ snap' \in [Pods -> [Settings!Keys -> Values \cup {Env}]]
    BY <1>3, <1>6, <2>1, <2>2
  <2>. QED BY <1>1, <1>2, <1>4, <2>1, <2>2, <2>3, <2>4, TaskStep
<1>. QED BY <1>1, <1>2, <1>7, <1>8, <1>9, <1>10

\* Every step.
LEMMA ReloadStep ==
  ASSUME ReloadInv, [Settings!Next]_settingsVars
  PROVE  ReloadInv'
<1>1. CASE UNCHANGED settingsVars
  BY <1>1 DEF settingsVars, ReloadInv, SettingsTypes, RunsOK, TableInv, Told, Past, Follows
<1>2. ASSUME NEW p \in Pods, NEW k \in Settings!Keys,
             Settings!Delete(p, k) \/ \E v \in Values : Settings!Upsert(p, k, v)
      PROVE  ReloadInv'
  BY <1>2, SettingStep
<1>3. ASSUME NEW p \in Pods, NEW w \in Settings!Tasks, Settings!Rebuilds(p, w)
      PROVE  ReloadInv'
  BY <1>3, RebuildStep
<1>4. ASSUME NEW p \in Pods,
             Settings!BatchFails(p) \/ Settings!Restart(p) \/ Settings!Seed(p) \/ Settings!Tick(p)
      PROVE  ReloadInv'
  BY <1>4, LoopStep
<1>. QED BY <1>1, <1>2, <1>3, <1>4 DEF Settings!Next, Settings!Rebuilds

\* The token tells two contents of the table apart.
LEMMA ReloadSuffices ==
  ReloadInv => Settings!TypeOK /\ Settings!TokenIdentifiesTable
<1>. SUFFICES ASSUME ReloadInv PROVE Settings!TypeOK /\ Settings!TokenIdentifiesTable
  OBVIOUS
<1>1. Settings!TypeOK
  <2>1. \A k \in Settings!Keys :
          \/ table[k] = Settings!NoRow
          \/ table[k].val \in Values /\ table[k].ver \in 1..MaxWrites /\ table[k].at \in 0..MaxWrites
    BY SettingsNames DEF ReloadInv, SettingsTypes, Tables, StoredRow
  <2>2. snap \in [Pods -> [Settings!Keys -> Values \cup {Env}]] /\ used \in Spending
    BY DEF ReloadInv, SettingsTypes
  <2>3. \A p \in Pods, w \in Settings!Tasks : run[p][w] \in Task
    BY DEF ReloadInv, SettingsTypes
  <2>. QED BY <2>1, <2>2, <2>3 DEF Settings!TypeOK, Task, Spending
<1>2. Settings!TokenIdentifiesTable
  <2>. SUFFICES ASSUME NEW p \in Pods, last[p] = Settings!Token
                PROVE  base[p] = table
    BY DEF Settings!TokenIdentifiesTable
  <2>1. last[p] \in {Settings!NoToken, TokenOf(base[p])} /\ Follows(base[p]) /\ base[p] \in Tables
    BY DEF ReloadInv, TableInv, Told, SettingsTypes
  <2>2. last[p] = TokenOf(table) /\ TokenOf(table) # Settings!NoToken
    BY TokenOfTable, NoTokenIsNone DEF ReloadInv, SettingsTypes
  <2>. QED BY <2>1, <2>2, TokenTells DEF ReloadInv
<1>. QED BY <1>1, <1>2
-----------------------------------------------------------------------------
(***************************************************************************)
(* One pod takes the administrators' requests.  What a rebuild holds for a *)
(* setting is what the table says, or the table has changed since the      *)
(* token of the rebuild was read, and the loop will see that.              *)
(***************************************************************************)
OneWriter == \A p, q \in Writers : p = q

Loop(p) == run[p]["loop"]

Request(p) == run[p]["request"]

\* The snapshot of setting k is current, or a rebuild will still store it.
Due(p, k) ==
  \/ snap[p][k] = table[k].val
  \/ Loop(p).pc = "list" \/ (Loop(p).pc = "store" /\ k >= Loop(p).next)
  \/ Loop(p).pc # "rest" /\ table[k] # Loop(p).tab[k]
  \/ Loop(p).pc = "rest" /\ table[k] # base[p][k]
  \/ Request(p).pc = "list" \/ (Request(p).pc = "store" /\ k >= Request(p).next)

PodOK(p) ==
  /\ ~Loop(p).booting /\ Loop(p).pc # "seed"
  /\ \A k \in Settings!Keys :
       /\ Request(p).pc = "store" => Request(p).copy[k] = table[k].val
       /\ Loop(p).pc = "store" => Loop(p).copy[k] = table[k].val \/ table[k] # Loop(p).tab[k]
       /\ Due(p, k)

ServedInv ==
  /\ \A p \in Pods \ Writers : Request(p).pc = "rest"
  /\ Settings!Undisturbed => \A p \in Pods : PodOK(p)

\* A pod that does nothing, while the table stays.
LEMMA PodStays ==
  ASSUME NEW p \in Pods, PodOK(p), UNCHANGED table,
         run'[p] = run[p], snap'[p] = snap[p], base'[p] = base[p]
  PROVE  PodOK(p)'
<1>1. Loop(p)' = Loop(p) /\ Request(p)' = Request(p)
  BY DEF Loop, Request
<1>2. \A k \in Settings!Keys : Due(p, k)'
  BY <1>1 DEF PodOK, Due
<1>. QED BY <1>1, <1>2 DEF PodOK

\* Initially every pod serves the environment's settings.
LEMMA ServedStarts == Settings!Init => ServedInv
<1>. SUFFICES ASSUME Settings!Init PROVE ServedInv
  OBVIOUS
<1>1. \A p \in Pods : Loop(p) = Settings!Resting /\ Request(p) = Settings!Resting
  BY TasksType DEF Settings!Init, Loop, Request
<1>2. \A p \in Pods, k \in Settings!Keys : snap[p][k] = table[k].val
  BY SettingsNames DEF Settings!Init, Settings!FromEnv
<1>. QED BY <1>1, <1>2, TasksType DEF ServedInv, PodOK, Due

\* Nothing that happened is undone.
LEMMA UndisturbedBefore ==
  ASSUME ReloadInv, NEW p \in Pods,
         \/ \E k \in Settings!Keys : Settings!Delete(p, k) \/ \E v \in Values : Settings!Upsert(p, k, v)
         \/ Settings!BatchFails(p) \/ Settings!Restart(p) \/ Settings!Seed(p) \/ Settings!Tick(p)
         \/ \E w \in Settings!Tasks : Settings!Rebuilds(p, w),
         Settings!Undisturbed'
  PROVE  /\ Settings!Undisturbed /\ ~Settings!Fault /\ ~Settings!Restart(p)
         /\ ~Settings!BatchFails(p) /\ \A k \in Settings!Keys : ~Settings!Delete(p, k)
<1>1. /\ used.writes \in Nat /\ used.reverts \in Nat /\ used.restarts \in Nat
      /\ used.faults \in Nat /\ used \in Spending
  BY SpendingType
<1>2. used'.reverts = 0 /\ used'.restarts = 0 /\ used'.faults = 0
  BY DEF Settings!Undisturbed
<1>3. ~Settings!Fault
  BY <1>1, <1>2 DEF Settings!Fault, Spending
<1>4. ~Settings!Restart(p)
  BY <1>1, <1>2 DEF Settings!Restart, Spending
<1>5. ~Settings!Revert
  <2>. SUFFICES ASSUME Settings!Revert PROVE FALSE
    OBVIOUS
  <2>1. used' = [used EXCEPT !.writes = used.writes + 1, !.reverts = used.reverts + 1]
    BY DEF Settings!Revert
  <2>2. used'.reverts = used.reverts + 1
    BY <1>1, <2>1 DEF Spending
  <2>. QED BY <1>1, <1>2, <2>2
<1>6. UNCHANGED used \/ Settings!Write
  BY <1>3, <1>4, <1>5 DEF Settings!Delete, Settings!Upsert, Settings!BatchFails, Settings!Seed, Settings!Tick,
        Settings!Rebuilds, Settings!List, Settings!Store, Settings!Note, Settings!NoteApplied
<1>7. Settings!Undisturbed
  BY <1>1, <1>2, <1>6 DEF Settings!Write, Settings!Undisturbed, Spending
<1>. QED BY <1>3, <1>4, <1>5, <1>7 DEF Settings!BatchFails, Settings!Delete
\* A change of a setting is still to be seen by every loop.
LEMMA ServedUpsert ==
  ASSUME ReloadInv, ServedInv, OneWriter, Settings!Undisturbed,
         NEW p \in Pods, NEW k \in Settings!Keys, NEW v \in Values, Settings!Upsert(p, k, v)
  PROVE  \A q \in Pods : PodOK(q)'
<1>1. /\ p \in Writers /\ Request(p).pc \in {"rest", "list"}
      /\ run' = [run EXCEPT ![p]["request"] = [Settings!Resting EXCEPT !.pc = "list"]]
      /\ UNCHANGED <<snap, base>>
  BY DEF Settings!Upsert, Settings!Serving, Settings!Reload, Request
<1>2. /\ run \in [Pods -> [Settings!Tasks -> Task]] /\ table \in Tables
      /\ base \in [Pods -> Tables] /\ used.writes \in Nat
  BY SpendingType DEF ReloadInv, SettingsTypes
<1>3. /\ \A j \in Settings!Keys \ {k} : table'[j] = table[j]
      /\ table'[k].at = used.writes + 1
  <2>1. PICK behind \in 0..0 :
          table' = [table EXCEPT ![k] =
                      [val |-> v, ver |-> table[k].ver + 1,
                       at |-> IF behind < Settings!Clock THEN Settings!Clock - behind ELSE 0]]
    BY DEF Settings!Upsert
  <2>2. behind = 0 /\ Settings!Clock = used.writes + 1
    BY DEF Settings!Clock
  <2>3. (IF behind < Settings!Clock THEN Settings!Clock - behind ELSE 0) = used.writes + 1
    BY <1>2, <2>2
  <2>. QED BY <1>2, <2>1, <2>3 DEF Tables
<1>. SUFFICES ASSUME NEW q \in Pods PROVE PodOK(q)'
  OBVIOUS
<1>4. "loop" \in Settings!Tasks /\ "request" \in Settings!Tasks
  BY TasksType
<1>5. Loop(q)' = Loop(q) /\ Loop(q) \in Task
  BY <1>1, <1>2, <1>4 DEF Loop
<1>6. table'[k] # Loop(q).tab[k] /\ table'[k] # base[q][k]
  <2>1. Past(Loop(q).tab) /\ Past(base[q])
    BY <1>4 DEF ReloadInv, TableInv, Told, Loop
  <2>2. /\ Loop(q).tab[k].at <= used.writes /\ base[q][k].at <= used.writes
        /\ ~(used.writes + 1 <= used.writes)
    BY <1>2, <2>1 DEF Past
  <2>. QED BY <1>3, <2>2
<1>7. PodOK(q)
  BY DEF ServedInv
<1>8. CASE q = p
  <2>1. Request(q)'.pc = "list"
    BY <1>1, <1>2, <1>4, <1>8, TasksType DEF Request, Task
  <2>. QED BY <1>3, <1>5, <1>6, <1>7, <2>1 DEF PodOK, Due
<1>9. CASE q # p
  <2>1. Request(q)' = Request(q) /\ Request(q).pc = "rest"
    BY <1>1, <1>2, <1>9 DEF Request, OneWriter, ServedInv
  <2>2. \A j \in Settings!Keys : Due(q, j)'
    <3>. SUFFICES ASSUME NEW j \in Settings!Keys PROVE Due(q, j)'
      OBVIOUS
    <3>1. CASE j = k
      BY <1>1, <1>5, <1>6, <3>1 DEF Due
    <3>2. CASE j # k
      <4>1. table'[j] = table[j]
        BY <1>3, <3>2
      <4>. QED BY <1>1, <1>5, <1>7, <2>1, <4>1 DEF PodOK, Due
    <3>. QED BY <3>1, <3>2
  <2>. QED BY <1>3, <1>5, <1>6, <1>7, <2>1, <2>2 DEF PodOK
<1>. QED BY <1>8, <1>9

\* A rebuild goes on.
LEMMA ServedRebuild ==
  ASSUME ReloadInv, ServedInv, Settings!Undisturbed, ~Settings!Fault,
         NEW p \in Pods, NEW w \in Settings!Tasks, Settings!Rebuilds(p, w)
  PROVE  PodOK(p)'
<1>1. /\ run \in [Pods -> [Settings!Tasks -> Task]] /\ table \in Tables /\ UNCHANGED table
      /\ snap \in [Pods -> [Settings!Keys -> Values \cup {Env}]] /\ base \in [Pods -> Tables]
      /\ run[p][w] \in Task
  BY RebuildStep DEF ReloadInv, SettingsTypes
<1>2. w \in {"loop", "request"} /\ "loop" \in Settings!Tasks /\ "request" \in Settings!Tasks
  BY TasksType
<1>5. PodOK(p)
  BY DEF ServedInv
<1>6. \A u \in Settings!Tasks \ {w} : run'[p][u] = run[p][u]
  BY <1>1 DEF Settings!Rebuilds, Settings!List, Settings!Store, Settings!Note
<1>7. CASE Settings!List(p, w)
  <2>1. /\ run' = [run EXCEPT ![p][w].pc = "store", ![p][w].copy = Settings!Overlay]
        /\ UNCHANGED <<snap, base>> /\ run[p][w].pc = "list"
    BY <1>7 DEF Settings!List
  <2>2. /\ run'[p][w].pc = "store" /\ run'[p][w].copy = Settings!Overlay
        /\ run'[p][w].next = run[p][w].next /\ run'[p][w].booting = run[p][w].booting
        /\ run'[p][w].tab = run[p][w].tab
    BY <1>1, <2>1 DEF Task
  <2>3. \A k \in Settings!Keys : run'[p][w].copy[k] = table[k].val /\ k >= run'[p][w].next
    BY <2>1, <2>2, SettingsNames DEF Settings!Overlay, ReloadInv, RunsOK
  <2>4. CASE w = "loop"
    <3>1. Request(p)' = Request(p)
      BY <1>2, <1>6, <2>4 DEF Request
    <3>. QED BY <1>1, <1>5, <2>2, <2>3, <2>4, <3>1 DEF PodOK, Due, Loop
  <2>5. CASE w = "request"
    <3>1. Loop(p)' = Loop(p)
      BY <1>2, <1>6, <2>5 DEF Loop
    <3>. QED BY <1>1, <1>5, <2>2, <2>3, <2>5, <3>1 DEF PodOK, Due, Request
  <2>. QED BY <1>2, <2>4, <2>5
<1>8. CASE Settings!Store(p, w)
  <2>. DEFINE n == run[p][w].next
  <2>1. /\ run' = [run EXCEPT ![p][w].next = n + 1,
                     ![p][w].pc = IF n = NumKeys THEN "note" ELSE "store"]
        /\ snap' = [snap EXCEPT ![p][n] = run[p][w].copy[n]]
        /\ UNCHANGED base /\ run[p][w].pc = "store"
    BY <1>8 DEF Settings!Store
  <2>2. /\ run'[p][w].pc = (IF n = NumKeys THEN "note" ELSE "store")
        /\ run'[p][w].next = n + 1 /\ run'[p][w].booting = run[p][w].booting
        /\ run'[p][w].tab = run[p][w].tab /\ run'[p][w].copy = run[p][w].copy
    BY <1>1, <2>1 DEF Task
  <2>3. n \in Settings!Keys /\ NumKeys \in Nat
    BY <1>1, <2>1, SettingsNames DEF ReloadInv, RunsOK, Task
  <2>4. /\ \A k \in Settings!Keys \ {n} : snap'[p][k] = snap[p][k]
        /\ snap'[p][n] = run[p][w].copy[n]
    BY <1>1, <2>1, <2>3
  <2>5. \A k \in Settings!Keys \ {n} : k >= n => run'[p][w].pc = "store" /\ k >= run'[p][w].next
    BY <2>2, <2>3, SettingsNames
  <2>. HIDE DEF n
  <2>6. CASE w = "loop"
    <3>1. Request(p)' = Request(p)
      BY <1>2, <1>6, <2>6 DEF Request
    <3>2. /\ Loop(p)'.pc \in {"note", "store"} /\ Loop(p)'.tab = Loop(p).tab
          /\ Loop(p)'.copy = Loop(p).copy /\ Loop(p)'.booting = Loop(p).booting
          /\ Loop(p).pc = "store" /\ Loop(p).next = n
      BY <2>1, <2>2, <2>6 DEF Loop, n
    <3>3. \A k \in Settings!Keys : Due(p, k)'
      <4>. SUFFICES ASSUME NEW k \in Settings!Keys PROVE Due(p, k)'
        OBVIOUS
      <4>1. CASE k = n
        BY <1>1, <1>5, <2>3, <2>4, <2>6, <3>2, <4>1 DEF PodOK, Due, Loop
      <4>2. CASE k # n
        <5>1. Due(p, k) /\ snap'[p][k] = snap[p][k]
          BY <1>5, <2>4, <4>2 DEF PodOK
        <5>2. k >= n => Loop(p)'.pc = "store" /\ k >= Loop(p)'.next
          BY <2>5, <2>6, <4>2 DEF Loop
        <5>. QED BY <1>1, <3>1, <3>2, <5>1, <5>2 DEF Due
      <4>. QED BY <4>1, <4>2
    <3>. QED BY <1>1, <1>5, <3>1, <3>2, <3>3 DEF PodOK
  <2>7. CASE w = "request"
    <3>1. Loop(p)' = Loop(p) /\ base'[p] = base[p]
      BY <1>2, <1>6, <2>1, <2>7 DEF Loop
    <3>2. /\ Request(p).pc = "store" /\ Request(p).next = n
          /\ Request(p)'.copy = Request(p).copy
      BY <2>1, <2>2, <2>7 DEF Request, n
    <3>3. \A k \in Settings!Keys : Due(p, k)'
      <4>. SUFFICES ASSUME NEW k \in Settings!Keys PROVE Due(p, k)'
        OBVIOUS
      <4>1. CASE k = n
        <5>1. snap'[p][k] = table[k].val
          BY <1>5, <2>3, <2>4, <2>7, <3>2, <4>1 DEF PodOK, Request
        <5>. QED BY <1>1, <5>1 DEF Due
      <4>2. CASE k # n
        <5>1. Due(p, k) /\ snap'[p][k] = snap[p][k]
          BY <1>5, <2>4, <4>2 DEF PodOK
        <5>2. k >= n => Request(p)'.pc = "store" /\ k >= Request(p)'.next
          BY <2>5, <2>7, <4>2 DEF Request
        <5>. QED BY <1>1, <3>1, <3>2, <5>1, <5>2 DEF Due
      <4>. QED BY <4>1, <4>2
    <3>. QED BY <1>1, <1>5, <3>1, <3>2, <3>3 DEF PodOK
  <2>. QED BY <1>2, <2>6, <2>7
<1>9. CASE Settings!Note(p, w)
  <2>1. /\ run' = [run EXCEPT ![p][w] = IF run[p][w].booting THEN [Settings!Resting EXCEPT !.pc = "seed"]
                                         ELSE Settings!Resting]
        /\ run[p][w].pc = "note" /\ UNCHANGED snap
        /\ IF w = "loop" /\ ~run[p][w].booting THEN base' = [base EXCEPT ![p] = run[p][w].tab]
           ELSE UNCHANGED base
    BY <1>9 DEF Settings!Note
  <2>2. CASE w = "loop"
    <3>1. Request(p)' = Request(p) /\ Loop(p).pc = "note" /\ ~Loop(p).booting
      BY <1>2, <1>5, <1>6, <2>1, <2>2 DEF Request, Loop, PodOK
    <3>2. Loop(p)' = Settings!Resting /\ base'[p] = Loop(p).tab
      BY <1>1, <1>2, <2>1, <2>2, <3>1 DEF Loop
    <3>. QED BY <1>1, <1>5, <2>1, <3>1, <3>2, TasksType DEF PodOK, Due
  <2>3. CASE w = "request"
    <3>1. Loop(p)' = Loop(p) /\ base'[p] = base[p] /\ Request(p).pc = "note"
      BY <1>2, <1>6, <2>1, <2>3 DEF Loop, Request
    <3>2. Request(p)'.pc \in {"rest", "seed"}
      BY <1>1, <1>2, <2>1, <2>3, TasksType DEF Request, Task
    <3>. QED BY <1>1, <1>5, <2>1, <3>1, <3>2 DEF PodOK, Due
  <2>. QED BY <1>2, <2>2, <2>3
<1>. QED BY <1>7, <1>8, <1>9 DEF Settings!Rebuilds
\* Only the administrators' pod has requests.
LEMMA RequestsRest ==
  ASSUME ReloadInv, ServedInv, Settings!Next, NEW q \in Pods \ Writers
  PROVE  Request(q)'.pc = "rest"
<1>1. Request(q).pc = "rest"
  BY DEF ServedInv
<1>2. run \in [Pods -> [Settings!Tasks -> Task]] /\ "loop" \in Settings!Tasks /\ "request" \in Settings!Tasks
      /\ Settings!Tasks = {"loop", "request"}
  BY TasksType DEF ReloadInv, SettingsTypes
<1>3. ASSUME NEW p \in Pods, run'[q] = run[q]
      PROVE  Request(q)'.pc = "rest"
  BY <1>1, <1>3 DEF Request
<1>4. ASSUME NEW p \in Pods, NEW k \in Settings!Keys,
             Settings!Delete(p, k) \/ \E v \in Values : Settings!Upsert(p, k, v)
      PROVE  Request(q)'.pc = "rest"
  <2>1. p \in Writers /\ run' = [run EXCEPT ![p]["request"] = [Settings!Resting EXCEPT !.pc = "list"]]
    BY <1>4 DEF Settings!Delete, Settings!Upsert, Settings!Serving, Settings!Reload
  <2>. QED BY <1>2, <1>3, <2>1
<1>5. ASSUME NEW p \in Pods, Settings!BatchFails(p) \/ Settings!Restart(p) \/ Settings!Seed(p) \/ Settings!Tick(p)
      PROVE  Request(q)'.pc = "rest"
  <2>1. CASE p # q
    BY <1>2, <1>3, <1>5, <2>1
       DEF Settings!BatchFails, Settings!Restart, Settings!Seed, Settings!Tick
  <2>2. CASE p = q
    <3>1. CASE Settings!BatchFails(q) \/ Settings!Restart(q)
      BY <1>2, <3>1, TasksType DEF Settings!BatchFails, Settings!Restart, Request
    <3>2. CASE Settings!Seed(q) \/ Settings!Tick(q)
      BY <1>1, <1>2, <3>2 DEF Settings!Seed, Settings!Tick, Request
    <3>. QED BY <1>5, <2>2, <3>1, <3>2
  <2>. QED BY <2>1, <2>2
<1>6. ASSUME NEW p \in Pods, NEW w \in Settings!Tasks, Settings!Rebuilds(p, w)
      PROVE  Request(q)'.pc = "rest"
  <2>1. CASE p # q
    BY <1>2, <1>3, <1>6, <2>1
       DEF Settings!Rebuilds, Settings!List, Settings!Store, Settings!Note
  <2>2. CASE p = q
    <3>1. w = "loop"
      BY <1>1, <1>2, <1>6, <2>2
         DEF Settings!Rebuilds, Settings!List, Settings!Store, Settings!Note, Request
    <3>2. run'[q]["request"] = run[q]["request"]
      BY <1>2, <1>6, <2>2, <3>1
         DEF Settings!Rebuilds, Settings!List, Settings!Store, Settings!Note
    <3>. QED BY <1>1, <3>2 DEF Request
  <2>. QED BY <2>1, <2>2
<1>. QED BY <1>4, <1>5, <1>6 DEF Settings!Next, Settings!Rebuilds

\* A loop that finds another token starts a rebuild.
LEMMA ServedTick ==
  ASSUME ReloadInv, NEW p \in Pods, PodOK(p), Settings!Tick(p)
  PROVE  PodOK(p)'
<1>1. run \in [Pods -> [Settings!Tasks -> Task]] /\ "loop" \in Settings!Tasks /\ "request" \in Settings!Tasks
      /\ Settings!Tasks = {"loop", "request"}
  BY TasksType DEF ReloadInv, SettingsTypes
<1>2. run' = [run EXCEPT ![p]["loop"] =
                [Settings!Resting EXCEPT !.pc = "list", !.tok = Settings!Token, !.tab = table]]
      /\ UNCHANGED table
  BY DEF Settings!Tick
<1>3. Loop(p)'.pc = "list" /\ ~Loop(p)'.booting /\ Request(p)' = Request(p)
  BY <1>1, <1>2, TasksType DEF Loop, Request, Task
<1>. QED BY <1>2, <1>3 DEF PodOK, Due

\* Every step.
LEMMA ServedStep ==
  ASSUME ReloadInv, ServedInv, OneWriter, [Settings!Next]_settingsVars
  PROVE  ServedInv'
<1>1. CASE UNCHANGED settingsVars
  BY <1>1 DEF settingsVars, ServedInv, PodOK, Due, Loop, Request, Settings!Undisturbed
<1>2. CASE Settings!Next
  <2>1. \A q \in Pods \ Writers : Request(q)'.pc = "rest"
    BY <1>2, RequestsRest
  <2>2. ASSUME Settings!Undisturbed', NEW q \in Pods
        PROVE  PodOK(q)'
    <3>1. PICK p \in Pods :
            \/ \E k \in Settings!Keys : Settings!Delete(p, k) \/ \E v \in Values : Settings!Upsert(p, k, v)
            \/ Settings!BatchFails(p) \/ Settings!Restart(p) \/ Settings!Seed(p) \/ Settings!Tick(p)
            \/ \E w \in Settings!Tasks : Settings!Rebuilds(p, w)
      BY <1>2 DEF Settings!Next, Settings!Rebuilds
    <3>2. /\ Settings!Undisturbed /\ ~Settings!Fault /\ ~Settings!Restart(p)
          /\ ~Settings!BatchFails(p) /\ \A k \in Settings!Keys : ~Settings!Delete(p, k)
      BY <2>2, <3>1, UndisturbedBefore
    <3>3. PodOK(q) /\ PodOK(p)
      BY <3>2 DEF ServedInv
    <3>4. ~Settings!Seed(p)
      BY <3>3 DEF PodOK, Loop, Settings!Seed
    <3>5. CASE \E k \in Settings!Keys, v \in Values : Settings!Upsert(p, k, v)
      BY <3>2, <3>5, ServedUpsert
    <3>6. ASSUME NEW w \in Settings!Tasks, Settings!Rebuilds(p, w)
          PROVE  PodOK(q)'
      <4>1. CASE q = p
        BY <3>2, <3>6, <4>1, ServedRebuild
      <4>2. CASE q # p
        <5>1. run'[q] = run[q] /\ snap'[q] = snap[q] /\ base'[q] = base[q] /\ UNCHANGED table
          BY <3>6, <4>2, RebuildStep
             DEF ReloadInv, SettingsTypes, Settings!Rebuilds, Settings!List, Settings!Store, Settings!Note
        <5>. QED BY <3>3, <5>1, PodStays
      <4>. QED BY <4>1, <4>2
    <3>7. CASE Settings!Tick(p)
      <4>1. CASE q = p
        BY <3>3, <3>7, <4>1, ServedTick
      <4>2. CASE q # p
        <5>1. run'[q] = run[q] /\ snap'[q] = snap[q] /\ base'[q] = base[q] /\ UNCHANGED table
          BY <3>7, <4>2 DEF ReloadInv, SettingsTypes, Settings!Tick
        <5>. QED BY <3>3, <5>1, PodStays
      <4>. QED BY <4>1, <4>2
    <3>. QED BY <3>1, <3>2, <3>4, <3>5, <3>6, <3>7
  <2>. QED BY <2>1, <2>2 DEF ServedInv
<1>. QED BY <1>1, <1>2

\* A loop at rest with the current token has nothing to see.
LEMMA ServedSuffices == ReloadInv /\ ServedInv => Settings!SettledPodIsCurrent
<1>. SUFFICES ASSUME ReloadInv, ServedInv, Settings!Undisturbed, NEW p \in Pods,
                     last[p] = Settings!Token, \A w \in Settings!Tasks : run[p][w].pc = "rest"
              PROVE  snap[p] = Settings!Overlay
  BY DEF Settings!SettledPodIsCurrent
<1>1. base[p] = table
  BY ReloadSuffices DEF Settings!TokenIdentifiesTable
<1>2. Loop(p).pc = "rest" /\ Request(p).pc = "rest"
  BY TasksType DEF Loop, Request
<1>3. \A k \in Settings!Keys : snap[p][k] = table[k].val
  BY <1>1, <1>2 DEF ServedInv, PodOK, Due
<1>4. snap[p] \in [Settings!Keys -> Values \cup {Env}]
  BY DEF ReloadInv, SettingsTypes
<1>. QED BY <1>3, <1>4 DEF Settings!Overlay

\* The settings are one part of the composition.
LEMMA SettingsMove ==
  [MCNext]_all => [Settings!Next]_settingsVars
BY DEF MCNext, Plain, Disturbed, all, settingsVars

(***************************************************************************)
(* For any pods, settings and values, whatever is written, deleted,        *)
(* restarted or misread: stored rows are well formed, and a loop that sees *)
(* its token again has missed no change (store/admin_settings.go:49).      *)
(***************************************************************************)
THEOREM TokensTell ==
  MCSpec => [](Settings!TypeOK /\ Settings!TokenIdentifiesTable)
<1>1. MCInit => ReloadInv
  BY ReloadStarts DEF MCInit
<1>2. ReloadInv /\ [MCNext]_all => ReloadInv'
  BY SettingsMove, ReloadStep
<1>. QED BY <1>1, <1>2, ReloadSuffices, PTL DEF MCSpec

(***************************************************************************)
(* When administrators use one pod, a pod whose loop has nothing to do     *)
(* serves what the table says, unless overrides were deleted, pods         *)
(* restarted or reads failed (proxy/server.go:177).                        *)
(***************************************************************************)
THEOREM SettingsHold ==
  ASSUME OneWriter
  PROVE  MCSpec => []SettingsInv
<1>1. MCInit => ReloadInv /\ ServedInv
  BY ReloadStarts, ServedStarts DEF MCInit
<1>2. ReloadInv /\ ServedInv /\ [MCNext]_all => ReloadInv' /\ ServedInv'
  BY SettingsMove, ReloadStep, ServedStep
<1>3. ReloadInv /\ ServedInv => SettingsInv
  BY ReloadSuffices, ServedSuffices DEF SettingsInv
<1>. QED BY <1>1, <1>2, <1>3, PTL DEF MCSpec
=============================================================================
