------------------------ MODULE RolloutLedgerProofs ------------------------
(***************************************************************************)
(* Proofs about RolloutLedger for any number of rollouts, targets,         *)
(* replicas, HTTP requests and failures, and any limits with               *)
(* RequestLimit < ClaimGrace.                                              *)
(***************************************************************************)
EXTENDS RolloutLedger, TLAPS

(***************************************************************************)
(* The inductive invariant, in parts: what one pair of ledger rows         *)
(* satisfies (Agree, Sound), what a process record has to do with the      *)
(* ledgers (Fits), and how processes and rollouts exclude each other.      *)
(***************************************************************************)
Begun(row) == row.status \notin Waiting \cup {"rejected"}

Agree(a, row) ==
    /\ Begun(row) <=> a \in {"running", "executed", "failed"}
    /\ a = "executed" => row.status # "running"
    /\ a = "failed" => row.status \in Terminal
    /\ row.status = "rejected" => a = "rejected"

Sound(row) ==
    /\ row.rb # "" => row.status \in Broken /\ row.auto
    /\ row.rb \in RollbackOpen \cup {"succeeded"} => row.restorable

Resting == {"ready", "idle", "done"}

(***************************************************************************)
(* A snapshot that is current is the row; a claim is held by a current     *)
(* snapshot and is as old as its request; and whoever is about to take a   *)
(* claim back has seen the whole grace period pass.                        *)
(***************************************************************************)
Fits(x, a, rows, ages) ==
    /\ x.pc \notin Resting => x.job \in Rollouts
    /\ x.pc \notin Resting \cup {"insert"} => a[x.job] # "none"
    /\ x.pc = "insert" => /\ x.row.status \in Waiting /\ x.row.rb = ""
                          /\ x.row.uid \in Uids
    /\ x.cur => /\ x.pc \in {"reject", "persist", "rbclaim"} \cup RollbackPc
                /\ x.row = rows[x.job]
    /\ x.pc = "persist" =>
          /\ rolloutReconcileDue(x.row)
          /\ x.cur /\ x.row.rb = "running" => ages[x.job] = ClaimGrace
    /\ x.pc = "rbclaim" => x.row.rb = "requested"
    /\ x.pc \in RollbackPc => /\ x.cur
                              /\ x.row.rb = "running"
                              /\ x.busy = ages[x.job]

RowsOK ==
    \A r \in Rollouts : Exists(r) => Agree(act[r], roll[r]) /\ Sound(roll[r])

ProcsOK == \A p \in Procs : Fits(proc[p], act, roll, age)

SendsOK ==
    /\ \A r \in Rollouts : sends[r] \in {0, 1} /\ (sends[r] = 1 => Started(r))
    /\ \A p \in Procs : proc[p].pc = "send" =>
          Started(proc[p].job) /\ sends[proc[p].job] = 0
    /\ \A p, q \in Procs :
          proc[p].pc = "send" /\ proc[q].pc = "send"
          /\ proc[p].job = proc[q].job => p = q

ClaimsOK ==
    \A p, q \in Procs :
        InRollback(p) /\ InRollback(q) /\ proc[p].job = proc[q].job => p = q

LocksOK ==
    \A q, r \in Rollouts :
        q # r /\ Exists(q) /\ Exists(r) /\ roll[q].uid = roll[r].uid
        => ~(ActiveTarget(roll[q]) /\ ActiveTarget(roll[r]))

IInv ==
    /\ TypeOK
    /\ RowsOK
    /\ ProcsOK
    /\ SendsOK
    /\ ClaimsOK
    /\ LocksOK

-----------------------------------------------------------------------------
(***************************************************************************)
(* The operators of RolloutJudge                                           *)
(***************************************************************************)
\* A judgement keeps the row a sound row, its target, and what was settled.
LEMMA JudgeOK ==
    ASSUME NEW row \in Row, NEW ev \in Evidence,
           NEW l \in BOOLEAN, NEW m \in BOOLEAN,
           Sound(row), rolloutReconcileDue(row)
    PROVE  /\ Judge(row, ev, l, m) \in Row
           /\ Sound(Judge(row, ev, l, m))
           /\ Judge(row, ev, l, m).uid = row.uid
           /\ row.status \in Terminal => Judge(row, ev, l, m).status = row.status
           /\ \/ Judge(row, ev, l, m).status = row.status
              \/ Judge(row, ev, l, m).status \in Broken \cup {"succeeded"}
           /\ row.rb \in {"failed", "succeeded"} => Judge(row, ev, l, m).rb = row.rb
           /\ Judge(row, ev, l, m).rb # "running"
<1>1. row \in [status : Status, rb : RollbackStatus, auto : BOOLEAN,
              restorable : BOOLEAN, uid : Uids \cup {None}, tgt : {"seen", NoBase}]
  BY DEF Row
<1>2. ev \in [found : BOOLEAN, other : BOOLEAN, touched : BOOLEAN,
             failed : BOOLEAN, healthy : BOOLEAN, restoreFailed : BOOLEAN,
             restored : BOOLEAN, base : {"seen"}]
  BY DEF Evidence
<1>. DEFINE status == JudgedStatus(row, ev, l)
           owed   == status \in Broken /\ row.auto /\ row.rb = ""
           noted  == (ev.touched /\ row.rb = "") \/ (owed /\ ev.found)
           tgt    == IF noted THEN ev.base ELSE row.tgt
           rb     == IF owed THEN RequestedRollback(row, ev)
                     ELSE JudgedRollback(row, ev, m)
<1>3. Judge(row, ev, l, m) = [row EXCEPT !.status = status, !.tgt = tgt, !.rb = rb]
  BY DEF Judge
<1>4. /\ status \in Status
      /\ row.status \in Terminal => status = row.status
      /\ status = row.status \/ status \in Broken \cup {"succeeded"}
      /\ row.status \in Broken => status \in Broken
  BY <1>1, <1>2 DEF JudgedStatus, Status, Waiting, Driving, Terminal, Broken
<1>5. tgt \in {"seen", NoBase}
  BY <1>1, <1>2
<1>6. /\ rb \in RollbackStatus
      /\ rb # "" => status \in Broken /\ row.auto
      /\ rb \in RollbackOpen \cup {"succeeded"} => row.restorable
      /\ row.rb \in {"failed", "succeeded"} => rb = row.rb
      /\ rb # "running"
  <2>1. CASE owed
    BY <1>1, <1>2, <2>1 DEF RequestedRollback, RollbackStatus, RollbackOpen
  <2>2. CASE ~owed
    BY <1>1, <1>2, <1>4, <2>2
       DEF JudgedRollback, RollbackStatus, RollbackOpen, Sound
  <2>. QED BY <2>1, <2>2
<1>. HIDE DEF status, tgt, rb
<1>. QED BY <1>1, <1>3, <1>4, <1>5, <1>6 DEF Row, Sound

-----------------------------------------------------------------------------
(***************************************************************************)
(* The three kinds of step: a process moves on, a process also moves an    *)
(* action, a process writes a rollout's row                                *)
(***************************************************************************)
\* A claim under way is the row's.
LEMMA ClaimIsInRow ==
    ASSUME ProcsOK, NEW p \in Procs, InRollback(p)
    PROVE  /\ proc[p].job \in Rollouts
           /\ Exists(proc[p].job)
           /\ roll[proc[p].job].rb = "running"
           /\ proc[p].busy = age[proc[p].job]
BY DEF ProcsOK, Fits, InRollback, RollbackPc, Resting, Exists

\* Process p moves on and the ledgers stay as they are.
LEMMA QuietStep ==
    ASSUME IInv, NEW p \in Procs, NEW new \in Process,
           proc' = [proc EXCEPT ![p] = new],
           lease' \in [Rollouts -> Workers \cup {None, "gone"}],
           faults' \in Nat,
           UNCHANGED <<ledger, sends>>,
           Fits(new, act, roll, age),
           new.pc # "send",
           new.pc \in RollbackPc => InRollback(p) /\ new.job = proc[p].job
    PROVE  IInv'
<1>. USE DEF IInv, ledger
<1>1. proc \in [Procs -> Process]
  BY DEF TypeOK
<1>2. proc' \in [Procs -> Process] /\ proc'[p] = new
      /\ \A q \in Procs \ {p} : proc'[q] = proc[q]
  BY <1>1
<1>3. TypeOK'
  BY <1>2 DEF TypeOK
<1>4. RowsOK'
  BY DEF RowsOK, Exists
<1>5. ProcsOK'
  BY <1>2 DEF ProcsOK
<1>6. SendsOK'
  BY <1>2 DEF SendsOK, Started, Exists
<1>7. ClaimsOK'
  BY <1>2 DEF ClaimsOK, InRollback
<1>8. LocksOK'
  BY DEF LocksOK, Exists
<1>. QED BY <1>3, <1>4, <1>5, <1>6, <1>7, <1>8

\* Process p moves on and moves the action of an existing rollout.
LEMMA ActStep ==
    ASSUME IInv, NEW p \in Procs, NEW new \in Process, NEW r \in Rollouts,
           NEW a \in ActionStatus \ {"none"},
           Exists(r),
           Agree(a, roll[r]),
           act' = [act EXCEPT ![r] = a],
           proc' = [proc EXCEPT ![p] = new],
           lease' \in [Rollouts -> Workers \cup {None, "gone"}],
           UNCHANGED <<roll, age, late, rbLate, sends, faults>>,
           Fits(new, act, roll, age),
           new.pc \notin {"send"} \cup RollbackPc
    PROVE  IInv'
<1>. USE DEF IInv
<1>1. proc \in [Procs -> Process] /\ act \in [Rollouts -> ActionStatus]
  BY DEF TypeOK
<1>2. proc' \in [Procs -> Process] /\ proc'[p] = new
      /\ \A q \in Procs \ {p} : proc'[q] = proc[q]
  BY <1>1
<1>3. act' \in [Rollouts -> ActionStatus] /\ act'[r] = a
      /\ \A q \in Rollouts \ {r} : act'[q] = act[q]
  BY <1>1
<1>4. \A q \in Rollouts : (Exists(q))' <=> Exists(q)
  BY <1>3 DEF Exists
<1>5. TypeOK'
  BY <1>2, <1>3 DEF TypeOK
<1>6. RowsOK'
  BY <1>3, <1>4 DEF RowsOK, Exists
<1>7. ProcsOK'
  <2>1. \A x \in Process : Fits(x, act, roll, age) => Fits(x, act', roll', age')
    BY <1>3, <1>4 DEF Fits, Exists, Resting
  <2>. QED BY <1>1, <1>2, <2>1 DEF ProcsOK
<1>8. SendsOK'
  <2>1. \A q \in Procs : proc[q].pc = "send" => proc[q].job \in Rollouts
    BY DEF ProcsOK, Fits, Resting
  <2>2. \A q \in Rollouts : (Started(q))' <=> Started(q)
    BY <1>4 DEF Started
  <2>. QED BY <1>2, <2>1, <2>2 DEF SendsOK
<1>9. ClaimsOK'
  BY <1>2 DEF ClaimsOK, InRollback
<1>10. LocksOK'
  BY <1>4 DEF LocksOK
<1>. QED BY <1>5, <1>6, <1>7, <1>8, <1>9, <1>10

(***************************************************************************)
(* Process p writes a row.  No other process may hold a claim on it, a     *)
(* started rollout stays started, and an existing row that was given up    *)
(* stays given up.                                                         *)
(***************************************************************************)
LEMMA WriteStep ==
    ASSUME IInv, NEW p \in Procs, NEW new \in Process, NEW r \in Rollouts,
           NEW a \in ActionStatus \ {"none"}, NEW row \in Row,
           Agree(a, row), Sound(row),
           act' = [act EXCEPT ![r] = a],
           WriteRow(p, r, row, new),
           lease' \in [Rollouts -> Workers \cup {None, "gone"}],
           UNCHANGED <<late, rbLate, sends, faults>>,
           Started(r) => Begun(row),
           \A q \in Procs \ {p} : InRollback(q) => proc[q].job # r,
           IF Exists(r)
           THEN row.uid = roll[r].uid /\ (ActiveTarget(row) => ActiveTarget(roll[r]))
           ELSE ~Conflict(r, row),
           Fits(new, act', roll', age'),
           new.pc = "send" => new.job = r /\ ~Started(r) /\ Begun(row),
           new.pc \in RollbackPc => new.job = r
    PROVE  IInv'
<1>. USE DEF IInv
<1>1. /\ proc \in [Procs -> Process]
      /\ act \in [Rollouts -> ActionStatus]
      /\ roll \in [Rollouts -> Row]
      /\ age \in [Rollouts -> 0 .. ClaimGrace]
      /\ 0 \in 0 .. ClaimGrace
  BY LimitsAssumption DEF TypeOK
<1>2. /\ act' \in [Rollouts -> ActionStatus] /\ act'[r] = a
      /\ \A q \in Rollouts \ {r} : act'[q] = act[q]
  BY <1>1
<1>3. /\ roll' \in [Rollouts -> Row] /\ roll'[r] = row
      /\ \A q \in Rollouts \ {r} : roll'[q] = roll[q]
  BY <1>1 DEF WriteRow
<1>4. /\ age' \in [Rollouts -> 0 .. ClaimGrace]
      /\ \A q \in Rollouts \ {r} : age'[q] = age[q]
  BY <1>1 DEF WriteRow
<1>5. /\ proc' \in [Procs -> Process] /\ proc'[p] = new
      /\ \A q \in Procs \ {p} :
            proc'[q] = IF proc[q].job = r THEN [proc[q] EXCEPT !.cur = FALSE]
                       ELSE proc[q]
  <2>1. \A x \in Process : [x EXCEPT !.cur = FALSE] \in Process
    BY DEF Process
  <2>. QED BY <1>1, <2>1 DEF WriteRow
<1>6. \A q \in Procs \ {p} : /\ proc'[q].pc = proc[q].pc
                             /\ proc'[q].job = proc[q].job
  BY <1>1, <1>5 DEF Process
<1>7. \A q \in Rollouts : Exists(q) => (Exists(q))'
  BY <1>2 DEF Exists
<1>8. \A q \in Rollouts : Started(q) => (Started(q))'
  BY <1>2, <1>3, <1>7 DEF Started, Begun, Exists
<1>9. TypeOK'
  BY <1>2, <1>3, <1>4, <1>5 DEF TypeOK
<1>10. RowsOK'
  BY <1>2, <1>3 DEF RowsOK, Exists
<1>11. ProcsOK'
  <2>. SUFFICES ASSUME NEW q \in Procs \ {p}
                PROVE  Fits(proc'[q], act', roll', age')
    BY <1>5 DEF ProcsOK
  <2>1. Fits(proc[q], act, roll, age) /\ proc[q] \in Process
    BY <1>1 DEF ProcsOK
  <2>2. CASE proc[q].job = r
    <3>1. proc'[q] = [proc[q] EXCEPT !.cur = FALSE]
      BY <1>5, <2>2
    <3>2. /\ proc'[q].pc = proc[q].pc /\ proc'[q].job = proc[q].job
          /\ proc'[q].row = proc[q].row /\ proc'[q].cur = FALSE
      BY <2>1, <3>1 DEF Process
    <3>3. proc[q].pc \notin RollbackPc
      BY <2>2 DEF InRollback
    <3>. QED BY <1>2, <2>1, <2>2, <3>2, <3>3 DEF Fits, Resting
  <2>3. CASE proc[q].job # r
    <3>1. proc'[q] = proc[q]
      BY <1>5, <2>3
    <3>2. CASE proc[q].pc \in Resting
      BY <2>1, <3>1, <3>2 DEF Fits, Resting, RollbackPc
    <3>3. CASE proc[q].pc \notin Resting
      <4>1. proc[q].job \in Rollouts \ {r}
        BY <2>1, <2>3, <3>3 DEF Fits
      <4>2. /\ act'[proc[q].job] = act[proc[q].job]
            /\ roll'[proc[q].job] = roll[proc[q].job]
            /\ age'[proc[q].job] = age[proc[q].job]
        BY <1>2, <1>3, <1>4, <4>1
      <4>. QED BY <2>1, <3>1, <4>2, ZenonT(60) DEF Fits
    <3>. QED BY <3>2, <3>3
  <2>. QED BY <2>2, <2>3
<1>12. SendsOK'
  <2>1. \A q \in Procs \ {p} : proc[q].pc = "send" => proc[q].job \in Rollouts
    BY DEF ProcsOK, Fits, Resting
  <2>2. \A q \in Procs \ {p} :
          proc'[q].pc = "send" => (Started(proc[q].job))' /\ sends'[proc[q].job] = 0
    BY <1>6, <1>8, <2>1 DEF SendsOK
  <2>3. new.pc = "send" => /\ (Started(new.job))' /\ sends'[new.job] = 0
                           /\ \A q \in Procs \ {p} :
                                 proc'[q].pc = "send" => proc'[q].job # r
    BY <1>2, <1>3, <1>6 DEF SendsOK, Started, Begun, Exists
  <2>. QED BY <1>5, <1>6, <1>8, <2>2, <2>3 DEF SendsOK
<1>13. ClaimsOK'
  BY <1>5, <1>6 DEF ClaimsOK, InRollback
<1>14. LocksOK'
  BY <1>2, <1>3, <1>7 DEF LocksOK, Exists, Conflict
<1>. QED BY <1>9, <1>10, <1>11, <1>12, <1>13, <1>14

-----------------------------------------------------------------------------
(***************************************************************************)
(* Processes at rest                                                       *)
(***************************************************************************)
\* A process at rest fits any ledgers.
LEMMA RestOK ==
    ASSUME NEW p \in Procs
    PROVE  /\ NoRow \in Row
           /\ Rest(p) \in Process
           /\ Rest(p).pc \in {"idle", "done"}
           /\ Rest(p).job = None /\ Rest(p).cur = FALSE
           /\ Rest(p).row = NoRow
           /\ \A a, rows, ages : Fits(Rest(p), a, rows, ages)
<1>1. NoRow \in Row
  BY DEF NoRow, Row, Status, Terminal, RollbackStatus
<1>2. Rest(p) \in Process
  BY <1>1, LimitsAssumption DEF Rest, Process, Pc
<1>3. /\ Rest(p).pc \in {"idle", "done"}
      /\ Rest(p).job = None /\ Rest(p).cur = FALSE /\ Rest(p).row = NoRow
  BY DEF Rest
<1>. QED BY <1>1, <1>2, <1>3 DEF Fits, Resting, RollbackPc

\* Deleting one's own leases leaves a lease table.
LEMMA ReleaseOK ==
    ASSUME TypeOK, NEW p, Release(p)
    PROVE  lease' \in [Rollouts -> Workers \cup {None, "gone"}]
BY DEF TypeOK, Release

\* A process that stops where it is breaks nothing.
LEMMA RestStep ==
    ASSUME IInv, NEW p \in Procs,
           proc' = [proc EXCEPT ![p] = Rest(p)],
           lease' \in [Rollouts -> Workers \cup {None, "gone"}],
           faults' \in Nat,
           UNCHANGED <<ledger, sends>>
    PROVE  IInv'
<1>1. /\ Rest(p) \in Process /\ Fits(Rest(p), act, roll, age)
      /\ Rest(p).pc # "send" /\ Rest(p).pc \notin RollbackPc
  BY RestOK DEF RollbackPc
<1>. QED BY <1>1, QuietStep

\* A process that stops and deletes its leases breaks nothing.
LEMMA LeaveStep ==
    ASSUME IInv, NEW p \in Procs, Leave(p), UNCHANGED <<ledger, sends, faults>>
    PROVE  IInv'
<1>1. /\ lease' \in [Rollouts -> Workers \cup {None, "gone"}]
      /\ faults' \in Nat
  BY ReleaseOK DEF Leave, IInv, TypeOK
<1>. QED BY <1>1, RestStep DEF Leave, Step

-----------------------------------------------------------------------------
(***************************************************************************)
(* Requests of users                                                       *)
(***************************************************************************)
\* RequestRollout prepares a row that waits and owes nothing.
LEMMA RequestRolloutOK ==
    ASSUME IInv, NEW h \in Handlers, NEW r \in Rollouts, NEW uid \in Uids,
           NEW direct \in BOOLEAN, NEW auto \in BOOLEAN,
           NEW restorable \in BOOLEAN,
           RequestRollout(h, r, uid, direct, auto, restorable)
    PROVE  IInv'
<1>. DEFINE row == [status |-> IF direct THEN "approved" ELSE "approval_required",
                    rb |-> "", auto |-> auto, restorable |-> restorable,
                    uid |-> uid, tgt |-> NoBase]
           new == [Rest(h) EXCEPT !.pc = "insert", !.job = r,
                                  !.row = row, !.follow = TRUE]
<1>1. h \in Procs
  BY DEF Procs
<1>2. /\ lease' \in [Rollouts -> Workers \cup {None, "gone"}]
      /\ faults' \in Nat
      /\ UNCHANGED <<ledger, sends, faults>>
  BY DEF RequestRollout, IInv, TypeOK
<1>3. CASE Conflict(r, row)
  <2>1. proc' = [proc EXCEPT ![h] = Rest(h)]
    BY <1>3 DEF RequestRollout, Step
  <2>. QED BY <1>1, <1>2, <2>1, RestStep
<1>4. CASE ~Conflict(r, row)
  <2>1. proc' = [proc EXCEPT ![h] = new]
    BY <1>4 DEF RequestRollout, Step
  <2>2. row \in Row /\ row.status \in Waiting /\ row.rb = "" /\ row.uid \in Uids
    BY DEF Row, Status, Waiting, RollbackStatus
  <2>3. Rest(h) \in Process /\ Rest(h).cur = FALSE
    BY <1>1, RestOK
  <2>4. /\ new \in Process /\ new.pc = "insert" /\ new.job = r
        /\ new.row = row /\ new.cur = FALSE
    BY <2>2, <2>3 DEF Process, Pc
  <2>5. Fits(new, act, roll, age)
    BY <2>2, <2>4 DEF Fits, Resting, RollbackPc
  <2>6. new.pc # "send" /\ new.pc \notin RollbackPc
    BY <2>4 DEF RollbackPc
  <2>. HIDE DEF new
  <2>. QED BY <1>1, <1>2, <2>1, <2>4, <2>5, <2>6, QuietStep
<1>. QED BY <1>3, <1>4

\* ApproveRollout moves the action of a waiting rollout only.
LEMMA ApproveRolloutOK ==
    ASSUME IInv, NEW h \in Handlers, NEW r \in Rollouts, ApproveRollout(h, r)
    PROVE  IInv'
<1>. DEFINE new == [Rest(h) EXCEPT !.pc = "check", !.job = r]
<1>1. h \in Procs
  BY DEF Procs
<1>2. Rest(h) \in Process /\ Rest(h).cur = FALSE
  BY <1>1, RestOK
<1>3. /\ new \in Process /\ new.pc = "check" /\ new.job = r /\ new.cur = FALSE
  BY <1>2 DEF Process, Pc
<1>4. Exists(r) /\ act[r] = "approval_required" /\ Agree("approved", roll[r])
  BY DEF ApproveRollout, Undecided, IInv, RowsOK, Agree, Begun, Waiting, Exists
<1>5. Fits(new, act, roll, age)
  BY <1>3, <1>4 DEF Fits, Resting, RollbackPc, Exists
<1>6. "approved" \in ActionStatus \ {"none"}
  BY DEF ActionStatus
<1>7. /\ act' = [act EXCEPT ![r] = "approved"]
      /\ proc' = [proc EXCEPT ![h] = new]
      /\ lease' \in [Rollouts -> Workers \cup {None, "gone"}]
      /\ UNCHANGED <<roll, age, late, rbLate, sends, faults>>
  BY DEF ApproveRollout, Step, IInv, TypeOK
<1>8. new.pc \notin {"send"} \cup RollbackPc
  BY <1>3 DEF RollbackPc
<1>. HIDE DEF new
<1>. QED BY <1>1, <1>3, <1>4, <1>5, <1>6, <1>7, <1>8, ActStep

\* ReadForReject keeps the row as it is read.
LEMMA ReadForRejectOK ==
    ASSUME IInv, NEW h \in Handlers, NEW r \in Rollouts, ReadForReject(h, r)
    PROVE  IInv'
<1>. DEFINE new == [Rest(h) EXCEPT !.pc = "reject", !.job = r, !.cur = TRUE,
                                   !.row = roll[r]]
<1>1. h \in Procs
  BY DEF Procs
<1>2. Rest(h) \in Process /\ roll[r] \in Row
  BY <1>1, RestOK DEF IInv, TypeOK
<1>3. /\ new \in Process /\ new.pc = "reject" /\ new.job = r
      /\ new.row = roll[r]
  BY <1>2 DEF Process, Pc
<1>4. Fits(new, act, roll, age)
  BY <1>3 DEF ReadForReject, Fits, Resting, RollbackPc, Exists
<1>5. /\ proc' = [proc EXCEPT ![h] = new]
      /\ lease' \in [Rollouts -> Workers \cup {None, "gone"}]
      /\ faults' \in Nat
      /\ UNCHANGED <<ledger, sends>>
  BY DEF ReadForReject, Step, IInv, TypeOK
<1>6. new.pc # "send" /\ new.pc \notin RollbackPc
  BY <1>3 DEF RollbackPc
<1>. HIDE DEF new
<1>. QED BY <1>1, <1>3, <1>4, <1>5, <1>6, QuietStep

\* DecideInActionCenter moves an undecided action, whose rollout has not begun.
LEMMA DecideInActionCenterOK ==
    ASSUME IInv, NEW h \in Handlers, NEW r \in Rollouts,
           NEW verdict \in {"approved", "rejected"},
           DecideInActionCenter(h, r, verdict)
    PROVE  IInv'
<1>1. h \in Procs
  BY DEF Procs
<1>2. /\ Rest(h) \in Process /\ Fits(Rest(h), act, roll, age)
      /\ Rest(h).pc \notin {"send"} \cup RollbackPc
  BY <1>1, RestOK DEF RollbackPc
<1>3. Exists(r) /\ Agree(verdict, roll[r])
  BY DEF DecideInActionCenter, Undecided, IInv, RowsOK, Agree, Exists
<1>4. verdict \in ActionStatus \ {"none"}
  BY DEF ActionStatus
<1>5. /\ act' = [act EXCEPT ![r] = verdict]
      /\ proc' = [proc EXCEPT ![h] = Rest(h)]
      /\ lease' \in [Rollouts -> Workers \cup {None, "gone"}]
      /\ UNCHANGED <<roll, age, late, rbLate, sends, faults>>
  BY DEF DecideInActionCenter, Step, IInv, TypeOK
<1>. QED BY <1>1, <1>2, <1>3, <1>4, <1>5, ActStep

\* ExecuteInActionCenter and ViewRollout only set a handler to work.
LEMMA BeginWorkOK ==
    ASSUME IInv, NEW h \in Handlers, NEW r \in Rollouts,
           ExecuteInActionCenter(h, r) \/ ViewRollout(h, r)
    PROVE  IInv'
<1>1. h \in Procs
  BY DEF Procs
<1>2. PICK label \in {"check", "observe"} :
         /\ proc' = [proc EXCEPT ![h] = [Rest(h) EXCEPT !.pc = label, !.job = r]]
         /\ act[r] # "none"
         /\ UNCHANGED <<ledger, lease, sends, faults>>
  BY DEF ExecuteInActionCenter, ViewRollout, Step, Exists
<1>. DEFINE new == [Rest(h) EXCEPT !.pc = label, !.job = r]
<1>3. Rest(h) \in Process /\ Rest(h).cur = FALSE
  BY <1>1, RestOK
<1>4. new \in Process /\ new.pc = label /\ new.job = r /\ new.cur = FALSE
  BY <1>3 DEF Process, Pc
<1>5. Fits(new, act, roll, age)
  BY <1>2, <1>4 DEF Fits, Resting, RollbackPc
<1>6. /\ lease' \in [Rollouts -> Workers \cup {None, "gone"}]
      /\ faults' \in Nat
  BY <1>2 DEF IInv, TypeOK
<1>7. new.pc # "send" /\ new.pc \notin RollbackPc
  BY <1>4 DEF RollbackPc
<1>8. proc' = [proc EXCEPT ![h] = new]
  BY <1>2
<1>. HIDE DEF new
<1>. QED BY <1>1, <1>2, <1>4, <1>5, <1>6, <1>7, <1>8, QuietStep

-----------------------------------------------------------------------------
(***************************************************************************)
(* Requests that write                                                     *)
(***************************************************************************)
\* InsertK8sRolloutRequest adds both rows, unless the target is taken.
LEMMA InsertK8sRolloutRequestOK ==
    ASSUME IInv, NEW h \in Handlers, InsertK8sRolloutRequest(h)
    PROVE  IInv'
<1>. DEFINE r   == proc[h].job
           row == proc[h].row
           new == IF row.status = "approved"
                  THEN [proc[h] EXCEPT !.pc = "check", !.row = NoRow]
                  ELSE Rest(h)
<1>1. h \in Procs
  BY DEF Procs
<1>2. proc[h] \in Process /\ Fits(proc[h], act, roll, age) /\ proc[h].pc = "insert"
  BY <1>1 DEF InsertK8sRolloutRequest, IInv, TypeOK, ProcsOK
<1>3. /\ r \in Rollouts /\ row \in Row /\ row.status \in Waiting /\ row.rb = ""
      /\ proc[h].cur = FALSE
  BY <1>2 DEF Fits, Process, Resting, RollbackPc
<1>4. /\ lease' \in [Rollouts -> Workers \cup {None, "gone"}]
      /\ faults' \in Nat
      /\ UNCHANGED <<sends, faults>>
  BY DEF InsertK8sRolloutRequest, IInv, TypeOK
<1>5. CASE Conflict(r, row)
  <2>1. proc' = [proc EXCEPT ![h] = Rest(h)] /\ UNCHANGED ledger
    BY <1>5 DEF InsertK8sRolloutRequest, Step
  <2>. QED BY <1>1, <1>4, <2>1, RestStep
<1>6. CASE ~Conflict(r, row)
  <2>1. /\ act' = [act EXCEPT ![r] = row.status]
        /\ WriteRow(h, r, row, new)
        /\ UNCHANGED <<late, rbLate>>
    BY <1>6 DEF InsertK8sRolloutRequest
  <2>2. ~Exists(r)
    BY <1>6 DEF Conflict
  <2>3. /\ row.status \in ActionStatus \ {"none"}
        /\ Agree(row.status, row) /\ Sound(row)
    BY <1>3 DEF ActionStatus, Waiting, Agree, Begun, Sound, RollbackOpen
  <2>4. act'[r] # "none"
    BY <1>3, <2>1, <2>3 DEF IInv, TypeOK
  <2>5. /\ new \in Process /\ Fits(new, act', roll', age')
        /\ new.pc \notin {"send"} \cup RollbackPc
    <3>1. CASE row.status = "approved"
      <4>1. /\ new \in Process /\ new.pc = "check" /\ new.job = r
            /\ new.cur = FALSE
        BY <1>1, <1>2, <1>3, <3>1, RestOK DEF Process, Pc
      <4>. HIDE DEF new, r
      <4>. QED BY <1>3, <2>4, <4>1 DEF Fits, Resting, RollbackPc
    <3>2. CASE row.status # "approved"
      <4>1. new = Rest(h)
        BY <3>2
      <4>2. /\ Rest(h) \in Process /\ Fits(Rest(h), act', roll', age')
            /\ Rest(h).pc \notin {"send"} \cup RollbackPc
        BY <1>1, RestOK DEF RollbackPc
      <4>. HIDE DEF new
      <4>. QED BY <4>1, <4>2
    <3>. QED BY <3>1, <3>2
  <2>6. \A q \in Procs \ {h} : InRollback(q) => proc[q].job # r
    BY <2>2, ClaimIsInRow DEF IInv
  <2>7. ~Started(r)
    BY <2>2 DEF Started
  <2>. HIDE DEF new, row, r
  <2>. QED BY <1>1, <1>3, <1>4, <1>6, <2>1, <2>2, <2>3, <2>5, <2>6, <2>7, WriteStep
<1>. QED BY <1>5, <1>6

\* RejectK8sRolloutWithAction ends both ledgers at once, before the start.
LEMMA RejectK8sRolloutWithActionOK ==
    ASSUME IInv, NEW h \in Handlers, RejectK8sRolloutWithAction(h)
    PROVE  IInv'
<1>. DEFINE r   == proc[h].job
           row == [roll[r] EXCEPT !.status = "rejected"]
<1>1. h \in Procs
  BY DEF Procs
<1>2. proc[h] \in Process /\ Fits(proc[h], act, roll, age) /\ proc[h].pc = "reject"
  BY <1>1 DEF RejectK8sRolloutWithAction, IInv, TypeOK, ProcsOK
<1>3. r \in Rollouts /\ Exists(r) /\ roll[r] \in Row
  BY <1>2 DEF Fits, Resting, Exists, IInv, TypeOK
<1>4. /\ lease' \in [Rollouts -> Workers \cup {None, "gone"}]
      /\ faults' \in Nat
      /\ UNCHANGED <<sends, faults>>
  BY DEF RejectK8sRolloutWithAction, IInv, TypeOK
<1>5. CASE act[r] = "approval_required" /\ proc[h].cur
  <2>1. /\ act' = [act EXCEPT ![r] = "rejected"]
        /\ WriteRow(h, r, row, Rest(h))
        /\ UNCHANGED <<late, rbLate>>
    BY <1>5 DEF RejectK8sRolloutWithAction, Undecided
  <2>2. Agree(act[r], roll[r]) /\ Sound(roll[r])
    BY <1>3 DEF IInv, RowsOK
  <2>3. /\ roll[r].status \in Waiting /\ roll[r].rb = ""
        /\ ~Started(r)
    BY <1>3, <1>5, <2>2 DEF Agree, Begun, Sound, Broken, Waiting, Started
  <2>4. /\ row \in Row /\ row.status = "rejected" /\ row.rb = ""
        /\ row.uid = roll[r].uid
    BY <1>3, <2>3 DEF Row, Status, Terminal
  <2>5. Agree("rejected", row) /\ Sound(row) /\ ActiveTarget(roll[r])
    BY <2>3, <2>4 DEF Agree, Begun, Sound, RollbackOpen, ActiveTarget
  <2>6. /\ Rest(h) \in Process /\ Fits(Rest(h), act', roll', age')
        /\ Rest(h).pc \notin {"send"} \cup RollbackPc
    BY <1>1, RestOK DEF RollbackPc
  <2>7. \A q \in Procs \ {h} : InRollback(q) => proc[q].job # r
    BY <2>3, ClaimIsInRow DEF IInv
  <2>8. "rejected" \in ActionStatus \ {"none"}
    BY DEF ActionStatus
  <2>. HIDE DEF row, r
  <2>. QED BY <1>1, <1>3, <1>4, <2>1, <2>3, <2>4, <2>5, <2>6, <2>7, <2>8, WriteStep
<1>6. CASE ~(act[r] = "approval_required" /\ proc[h].cur)
  <2>1. proc' = [proc EXCEPT ![h] = Rest(h)] /\ UNCHANGED ledger
    BY <1>6 DEF RejectK8sRolloutWithAction, Undecided, Step
  <2>. QED BY <1>1, <1>4, <2>1, RestStep
<1>. QED BY <1>5, <1>6

-----------------------------------------------------------------------------
(***************************************************************************)
(* runApprovedK8sAction                                                    *)
(***************************************************************************)
\* A process that goes on with its rollout and keeps no row.
LEMMA OnwardOK ==
    ASSUME NEW x \in Process, NEW a, NEW rows, NEW ages,
           Fits(x, a, rows, ages),
           x.pc \notin Resting \cup {"insert", "reject", "persist", "rbclaim"}
                       \cup RollbackPc,
           NEW label \in {"check", "claim", "drift", "await", "observe", "sync"}
    PROVE  /\ [x EXCEPT !.pc = label] \in Process
           /\ Fits([x EXCEPT !.pc = label], a, rows, ages)
           /\ [x EXCEPT !.pc = label].pc \notin {"send"} \cup RollbackPc
<1>. DEFINE y == [x EXCEPT !.pc = label]
<1>1. /\ y \in Process /\ y.pc = label /\ y.job = x.job /\ y.cur = x.cur
      /\ y.row = x.row
  BY DEF Process, Pc
<1>2. x.job \in Rollouts /\ a[x.job] # "none" /\ ~x.cur
  BY DEF Fits
<1>. QED BY <1>1, <1>2 DEF Fits, Resting, RollbackPc

\* CheckTarget decides where to go on.
LEMMA CheckTargetOK ==
    ASSUME IInv, NEW p \in Procs, CheckTarget(p)
    PROVE  IInv'
<1>1. UNCHANGED <<ledger, sends, faults>>
  BY DEF CheckTarget
<1>2. CASE Leave(p)
  BY <1>1, <1>2, LeaveStep
<1>3. ASSUME NEW label \in {"claim", "drift"}, Goto(p, label), UNCHANGED lease
      PROVE  IInv'
  <2>1. proc[p] \in Process /\ Fits(proc[p], act, roll, age) /\ proc[p].pc = "check"
    BY DEF CheckTarget, IInv, TypeOK, ProcsOK
  <2>2. /\ [proc[p] EXCEPT !.pc = label] \in Process
        /\ Fits([proc[p] EXCEPT !.pc = label], act, roll, age)
        /\ [proc[p] EXCEPT !.pc = label].pc \notin {"send"} \cup RollbackPc
    <3>1. proc[p].pc \notin Resting \cup {"insert", "reject", "persist", "rbclaim"}
                              \cup RollbackPc
      BY <2>1 DEF Resting, RollbackPc
    <3>. QED BY <2>1, <3>1, OnwardOK
  <2>3. /\ proc' = [proc EXCEPT ![p] = [proc[p] EXCEPT !.pc = label]]
        /\ lease' \in [Rollouts -> Workers \cup {None, "gone"}]
        /\ faults' \in Nat
    BY <1>1, <1>3 DEF Goto, Step, IInv, TypeOK
  <2>. QED BY <1>1, <2>2, <2>3, QuietStep
<1>. QED BY <1>2, <1>3 DEF CheckTarget

\* StartK8sRolloutExecution starts both ledgers, so only one process gets to send.
LEMMA StartK8sRolloutExecutionOK ==
    ASSUME IInv, NEW p \in Procs, StartK8sRolloutExecution(p)
    PROVE  IInv'
<1>. DEFINE r   == proc[p].job
           row == [roll[r] EXCEPT !.status = "running"]
           new == IF proc[p].pc = "claim"
                  THEN [proc[p] EXCEPT !.pc = "send"]
                  ELSE [proc[p] EXCEPT !.pc = "final", !.out = "blocked"]
<1>1. /\ proc[p] \in Process /\ Fits(proc[p], act, roll, age)
      /\ proc[p].pc \in {"claim", "drift"}
  BY DEF StartK8sRolloutExecution, IInv, TypeOK, ProcsOK
<1>2. /\ r \in Rollouts /\ Exists(r) /\ roll[r] \in Row /\ proc[p].cur = FALSE
  BY <1>1 DEF Fits, Resting, RollbackPc, Exists, IInv, TypeOK, Process
<1>3. UNCHANGED <<sends, faults>>
  BY DEF StartK8sRolloutExecution
<1>4. CASE act[r] = "approved" /\ roll[r].status \in Waiting
  <2>1. /\ act' = [act EXCEPT ![r] = "running"]
        /\ WriteRow(p, r, row, new)
        /\ UNCHANGED <<late, rbLate, lease>>
    BY <1>4 DEF StartK8sRolloutExecution, MayStart
  <2>2. roll[r].rb = "" /\ ~Started(r)
    BY <1>2, <1>4 DEF IInv, RowsOK, Sound, Waiting, Broken, Started
  <2>3. /\ row \in Row /\ row.status = "running" /\ row.rb = ""
        /\ row.uid = roll[r].uid
    BY <1>2, <2>2 DEF Row, Status, Driving
  <2>4. /\ Agree("running", row) /\ Sound(row) /\ Begun(row)
        /\ ActiveTarget(roll[r])
    BY <1>4, <2>3 DEF Agree, Begun, Waiting, Sound, RollbackOpen, ActiveTarget
  <2>5. act'[r] # "none"
    BY <1>2, <2>1 DEF IInv, TypeOK
  <2>6. /\ new \in Process /\ new.pc \in {"send", "final"} /\ new.job = r
        /\ new.cur = FALSE
    BY <1>1, <1>2 DEF Process, Pc, Outcome
  <2>7. Fits(new, act', roll', age') /\ new.pc \notin RollbackPc
    BY <1>2, <2>5, <2>6 DEF Fits, Resting, RollbackPc
  <2>8. \A q \in Procs \ {p} : InRollback(q) => proc[q].job # r
    BY <2>2, ClaimIsInRow DEF IInv
  <2>9. /\ "running" \in ActionStatus \ {"none"}
        /\ lease' \in [Rollouts -> Workers \cup {None, "gone"}]
    BY <2>1 DEF ActionStatus, IInv, TypeOK
  <2>. HIDE DEF row, r, new
  <2>. QED BY <1>2, <1>3, <2>1, <2>2, <2>3, <2>4, <2>6, <2>7, <2>8, <2>9, WriteStep
<1>5. CASE ~(act[r] = "approved" /\ roll[r].status \in Waiting)
  BY <1>3, <1>5, LeaveStep DEF StartK8sRolloutExecution, MayStart
<1>. QED BY <1>4, <1>5

\* SendRestart is the only send: whoever may send is alone and has not sent.
LEMMA SendRestartOK ==
    ASSUME IInv, NEW p \in Procs, SendRestart(p)
    PROVE  IInv'
<1>. DEFINE r   == proc[p].job
           new == [proc[p] EXCEPT !.pc = "await"]
<1>1. proc[p] \in Process /\ Fits(proc[p], act, roll, age) /\ proc[p].pc = "send"
  BY DEF SendRestart, IInv, TypeOK, ProcsOK
<1>2. proc[p].pc \notin Resting \cup {"insert", "reject", "persist", "rbclaim"}
                          \cup RollbackPc
  BY <1>1 DEF Resting, RollbackPc
<1>3. /\ new \in Process /\ Fits(new, act, roll, age)
      /\ new.pc \notin {"send"} \cup RollbackPc
  BY <1>1, <1>2, OnwardOK
<1>4. /\ proc' = [proc EXCEPT ![p] = new]
      /\ sends' = [sends EXCEPT ![r] = sends[r] + 1]
      /\ UNCHANGED <<act, roll, age, late, rbLate, lease, faults>>
  BY DEF SendRestart, Goto, Step, ledger
<1>. HIDE DEF new
<1>5. /\ proc' \in [Procs -> Process] /\ proc'[p] = new
      /\ \A q \in Procs \ {p} : proc'[q] = proc[q]
  BY <1>3, <1>4 DEF IInv, TypeOK
<1>6. r \in Rollouts /\ Started(r) /\ sends[r] = 0
  BY <1>1 DEF Fits, Resting, IInv, SendsOK
<1>7. /\ sends' \in [Rollouts -> Nat] /\ sends'[r] = 1
      /\ \A q \in Rollouts \ {r} : sends'[q] = sends[q]
  BY <1>4, <1>6 DEF IInv, TypeOK
<1>8. TypeOK'
  BY <1>4, <1>5, <1>7 DEF IInv, TypeOK
<1>9. RowsOK' /\ LocksOK'
  BY <1>4 DEF IInv, RowsOK, LocksOK, Exists
<1>10. ProcsOK'
  BY <1>3, <1>4, <1>5 DEF IInv, ProcsOK
<1>11. ClaimsOK'
  BY <1>3, <1>5 DEF IInv, ClaimsOK, InRollback
<1>12. SendsOK'
  <2>1. \A q \in Rollouts : (Started(q))' <=> Started(q)
    BY <1>4 DEF Started, Exists
  <2>2. \A q \in Procs : proc[q].pc = "send" => proc[q].job \in Rollouts
    BY DEF IInv, ProcsOK, Fits, Resting
  <2>3. \A q \in Procs \ {p} : proc[q].pc = "send" => proc[q].job # r
    BY <1>1 DEF IInv, SendsOK
  <2>. QED BY <1>3, <1>5, <1>6, <1>7, <2>1, <2>2, <2>3 DEF IInv, SendsOK
<1>. QED BY <1>8, <1>9, <1>10, <1>11, <1>12 DEF IInv

\* AwaitRestart notes the outcome.
LEMMA AwaitRestartOK ==
    ASSUME IInv, NEW p \in Procs, AwaitRestart(p)
    PROVE  IInv'
<1>1. PICK o \in {"ok", "error", "unknown"} :
         proc' = [proc EXCEPT ![p] = [proc[p] EXCEPT !.pc = "final", !.out = o]]
  BY DEF AwaitRestart, Step
<1>. DEFINE new == [proc[p] EXCEPT !.pc = "final", !.out = o]
<1>2. proc[p] \in Process /\ Fits(proc[p], act, roll, age) /\ proc[p].pc = "await"
  BY DEF AwaitRestart, IInv, TypeOK, ProcsOK
<1>3. /\ new \in Process /\ new.pc = "final" /\ new.job = proc[p].job
      /\ new.cur = proc[p].cur
  BY <1>2 DEF Process, Pc, Outcome
<1>4. Fits(new, act, roll, age)
  BY <1>2, <1>3 DEF Fits, Resting, RollbackPc
<1>5. /\ lease' \in [Rollouts -> Workers \cup {None, "gone"}]
      /\ faults' \in Nat
      /\ UNCHANGED <<ledger, sends>>
  BY DEF AwaitRestart, IInv, TypeOK
<1>6. new.pc # "send" /\ new.pc \notin RollbackPc /\ proc' = [proc EXCEPT ![p] = new]
  BY <1>1, <1>3 DEF RollbackPc
<1>. HIDE DEF new
<1>. QED BY <1>3, <1>4, <1>5, <1>6, QuietStep

-----------------------------------------------------------------------------
(***************************************************************************)
(* Going on with a rollout, with nothing read                              *)
(***************************************************************************)
\* The labels at which a process holds no row.
Plain == {"check", "claim", "drift", "send", "await", "final", "lease",
          "observe", "reread", "sync"}

\* A process at such a label fits as soon as its rollout exists.
LEMMA PlainOK ==
    ASSUME NEW x \in Process, NEW a, NEW rows, NEW ages,
           x.pc \in Plain, x.job \in Rollouts, a[x.job] # "none", x.cur = FALSE
    PROVE  Fits(x, a, rows, ages) /\ x.pc \notin RollbackPc
BY DEF Fits, Resting, RollbackPc, Plain

\* Forget keeps the rollout and drops everything else.
LEMMA ForgetOK ==
    ASSUME NEW p \in Procs, proc[p] \in Process, NEW label \in Plain
    PROVE  /\ Forget(p, label) \in Process
           /\ Forget(p, label).pc = label
           /\ Forget(p, label).job = proc[p].job
           /\ Forget(p, label).cur = FALSE
<1>1. Rest(p) \in Process /\ Rest(p).cur = FALSE
  BY RestOK
<1>2. proc[p].job \in Rollouts \cup {None} /\ label \in Pc
  BY DEF Process, Pc, Plain
<1>. QED BY <1>1, <1>2 DEF Forget, Process

\* A process that goes on with its rollout and writes nothing.
LEMMA ForgetStep ==
    ASSUME IInv, NEW p \in Procs, NEW label \in Plain \ {"send"},
           proc[p].pc \notin Resting \cup {"insert"},
           proc' = [proc EXCEPT ![p] = Forget(p, label)],
           lease' \in [Rollouts -> Workers \cup {None, "gone"}],
           faults' \in Nat,
           UNCHANGED <<ledger, sends>>
    PROVE  IInv'
<1>1. proc[p] \in Process /\ Fits(proc[p], act, roll, age)
  BY DEF IInv, TypeOK, ProcsOK
<1>2. proc[p].job \in Rollouts /\ act[proc[p].job] # "none"
  BY <1>1 DEF Fits
<1>3. /\ Forget(p, label) \in Process
      /\ Forget(p, label).pc = label
      /\ Forget(p, label).job = proc[p].job
      /\ Forget(p, label).cur = FALSE
  BY <1>1, ForgetOK
<1>4. Fits(Forget(p, label), act, roll, age) /\ label \notin RollbackPc
  BY <1>2, <1>3, PlainOK
<1>. QED BY <1>3, <1>4, QuietStep

\* A process that ends its reconcile.
LEMMA ConcludeStep ==
    ASSUME IInv, NEW p \in Procs, Conclude(p),
           proc[p].pc \notin Resting \cup {"insert"},
           UNCHANGED <<ledger, sends, faults>>
    PROVE  IInv'
<1>1. CASE p \in Workers
  <2>1. /\ proc' = [proc EXCEPT ![p] = Forget(p, "sync")]
        /\ lease' \in [Rollouts -> Workers \cup {None, "gone"}]
        /\ faults' \in Nat
    BY <1>1 DEF Conclude, Step, IInv, TypeOK
  <2>2. "sync" \in Plain \ {"send"}
    BY DEF Plain
  <2>. QED BY <2>1, <2>2, ForgetStep
<1>2. CASE p \notin Workers
  BY <1>2, LeaveStep DEF Conclude
<1>. QED BY <1>1, <1>2

\* FinalizeK8sRolloutMutation writes the outcome to both ledgers at once.
LEMMA FinalizeK8sRolloutMutationOK ==
    ASSUME IInv, NEW p \in Procs, FinalizeK8sRolloutMutation(p)
    PROVE  IInv'
<1>. DEFINE r   == proc[p].job
           out == proc[p].out
           row == FinalRow(roll[r], out)
           a   == FinalAction(out)
<1>1. /\ proc[p] \in Process /\ Fits(proc[p], act, roll, age)
      /\ proc[p].pc = "final"
  BY DEF FinalizeK8sRolloutMutation, BothStillRun, IInv, TypeOK, ProcsOK
<1>2. /\ r \in Rollouts /\ Exists(r) /\ roll[r] \in Row
      /\ out \in Outcome \cup {"none"}
  BY <1>1 DEF Fits, Resting, Exists, IInv, TypeOK, Process
<1>3. UNCHANGED <<sends, faults>>
  BY DEF FinalizeK8sRolloutMutation, BothStillRun
<1>4. CASE act[r] = "running" /\ roll[r].status = "running"
  <2>1. roll[r].rb = ""
    BY <1>2, <1>4 DEF IInv, RowsOK, Sound, Broken
  <2>2. /\ row \in Row /\ row.uid = roll[r].uid
        /\ row.status = IF Refused(out) THEN "failed" ELSE "monitoring"
        /\ row.rb = IF Refused(out) /\ roll[r].auto THEN "failed" ELSE ""
        /\ row.auto = roll[r].auto
    BY <1>2 DEF FinalRow, Row, Status, Driving, Terminal, Broken, RollbackStatus
  <2>3. /\ a \in ActionStatus \ {"none"} /\ Agree(a, row) /\ Begun(row)
    BY <2>2 DEF FinalAction, ActionStatus, Agree, Begun, Waiting, Terminal, Broken
  <2>4. Sound(row) /\ ActiveTarget(roll[r])
    BY <1>4, <2>2 DEF Sound, Broken, RollbackOpen, ActiveTarget, Driving
  <2>5. \A q \in Procs \ {p} : InRollback(q) => proc[q].job # r
    BY <2>1, ClaimIsInRow DEF IInv
  <2>6. act' = [act EXCEPT ![r] = a] /\ UNCHANGED <<late, rbLate>>
    BY <1>4 DEF FinalizeK8sRolloutMutation, BothStillRun
  <2>7. act'[r] # "none"
    BY <1>2, <2>3, <2>6 DEF IInv, TypeOK
  <2>8. CASE proc[p].follow /\ ~Refused(out)
    <3>. DEFINE new == Forget(p, "observe")
    <3>1. /\ WriteRow(p, r, row, new)
          /\ lease' \in [Rollouts -> Workers \cup {None, "gone"}]
      BY <1>4, <2>8 DEF FinalizeK8sRolloutMutation, BothStillRun, IInv, TypeOK
    <3>2. /\ new \in Process /\ new.pc = "observe" /\ new.job = r
          /\ new.cur = FALSE /\ "observe" \in Plain
      BY <1>1, ForgetOK DEF Plain
    <3>. HIDE DEF row, r, a, new
    <3>3. Fits(new, act', roll', age') /\ new.pc \notin RollbackPc
      BY <1>2, <2>7, <3>2, PlainOK
    <3>. QED BY <1>2, <1>3, <2>2, <2>3, <2>4, <2>5, <2>6, <3>1, <3>2, <3>3, WriteStep
  <2>9. CASE ~(proc[p].follow /\ ~Refused(out))
    <3>1. WriteRow(p, r, row, Rest(p)) /\ Release(p)
      BY <1>4, <2>9 DEF FinalizeK8sRolloutMutation, BothStillRun
    <3>2. lease' \in [Rollouts -> Workers \cup {None, "gone"}]
      BY <3>1, ReleaseOK DEF IInv
    <3>3. /\ Rest(p) \in Process /\ Fits(Rest(p), act', roll', age')
          /\ Rest(p).pc \notin {"send"} \cup RollbackPc
      BY RestOK DEF RollbackPc
    <3>. HIDE DEF row, r, a
    <3>. QED BY <1>2, <1>3, <2>2, <2>3, <2>4, <2>5, <2>6, <3>1, <3>2, <3>3, WriteStep
  <2>. QED BY <2>8, <2>9
<1>5. CASE ~(act[r] = "running" /\ roll[r].status = "running")
  BY <1>3, <1>5, LeaveStep DEF FinalizeK8sRolloutMutation, BothStillRun
<1>. QED BY <1>4, <1>5

-----------------------------------------------------------------------------
(***************************************************************************)
(* Reconciling                                                             *)
(***************************************************************************)
\* ListK8sRolloutActionsDue starts a worker on a rollout that exists.
LEMMA ListK8sRolloutActionsDueOK ==
    ASSUME IInv, NEW w \in Workers, NEW r \in Rollouts,
           ListK8sRolloutActionsDue(w, r)
    PROVE  IInv'
<1>. DEFINE new == [Rest(w) EXCEPT !.pc = "lease", !.job = r]
<1>1. w \in Procs
  BY DEF Procs
<1>2. Rest(w) \in Process /\ Rest(w).cur = FALSE
  BY <1>1, RestOK
<1>3. /\ new \in Process /\ new.pc = "lease" /\ new.job = r /\ new.cur = FALSE
  BY <1>2 DEF Process, Pc
<1>4. /\ proc' = [proc EXCEPT ![w] = new]
      /\ lease' \in [Rollouts -> Workers \cup {None, "gone"}]
      /\ faults' \in Nat
      /\ UNCHANGED <<ledger, sends>>
      /\ act[r] # "none"
  BY DEF ListK8sRolloutActionsDue, Step, IInv, TypeOK, Exists
<1>. HIDE DEF new
<1>5. "lease" \in Plain \ {"send"}
  BY DEF Plain
<1>6. Fits(new, act, roll, age) /\ new.pc \notin {"send"} \cup RollbackPc
  BY <1>3, <1>4, <1>5, PlainOK
<1>. QED BY <1>1, <1>3, <1>4, <1>6, QuietStep

\* ReconcileOne takes the lease and goes on, or leaves the rollout alone.
LEMMA ReconcileOneOK ==
    ASSUME IInv, NEW w \in Workers, ReconcileOne(w)
    PROVE  IInv'
<1>. DEFINE r == proc[w].job
           label == IF roll[r].status \in Waiting /\ act[r] = "approved"
                    THEN "check" ELSE "observe"
           new == [proc[w] EXCEPT !.pc = label]
<1>1. /\ w \in Procs /\ proc[w] \in Process /\ Fits(proc[w], act, roll, age)
      /\ proc[w].pc = "lease"
  BY DEF Procs, ReconcileOne, IInv, TypeOK, ProcsOK
<1>2. /\ UNCHANGED <<ledger, sends>> /\ faults' \in Nat
      /\ lease \in [Rollouts -> Workers \cup {None, "gone"}]
  BY DEF ReconcileOne, IInv, TypeOK
<1>3. CASE lease[r] \in {None, w}
  <2>1. /\ proc' = [proc EXCEPT ![w] = new]
        /\ lease' \in [Rollouts -> Workers \cup {None, "gone"}]
    BY <1>2, <1>3 DEF ReconcileOne, Goto, Step
  <2>2. /\ proc[w].pc \notin Resting \cup {"insert", "reject", "persist", "rbclaim"}
                                \cup RollbackPc
        /\ label \in {"check", "observe"}
    BY <1>1 DEF Resting, RollbackPc
  <2>. HIDE DEF label
  <2>3. /\ new \in Process /\ Fits(new, act, roll, age)
        /\ new.pc \notin {"send"} \cup RollbackPc
    BY <1>1, <2>2, OnwardOK
  <2>. HIDE DEF new
  <2>. QED BY <1>1, <1>2, <2>1, <2>3, QuietStep
<1>4. CASE lease[r] \notin {None, w}
  <2>1. /\ proc' = [proc EXCEPT ![w] = Rest(w)]
        /\ lease' \in [Rollouts -> Workers \cup {None, "gone"}]
    BY <1>2, <1>4 DEF ReconcileOne, Step
  <2>. QED BY <1>1, <1>2, <2>1, RestStep
<1>. QED BY <1>3, <1>4

\* ObserveRollout reads a row, and takes a claim into view only after its grace.
LEMMA ObserveRolloutOK ==
    ASSUME IInv, NEW p \in Procs, ObserveRollout(p)
    PROVE  IInv'
<1>. DEFINE r   == proc[p].job
           row == roll[r]
           new == [proc[p] EXCEPT !.pc = "persist", !.cur = TRUE, !.row = row]
<1>1. /\ proc[p] \in Process /\ Fits(proc[p], act, roll, age)
      /\ proc[p].pc = "observe"
  BY DEF ObserveRollout, ClaimInGrace, IInv, TypeOK, ProcsOK
<1>2. /\ r \in Rollouts /\ act[r] # "none" /\ row \in Row
      /\ age[r] \in 0 .. ClaimGrace
  BY <1>1 DEF Fits, Resting, IInv, TypeOK
<1>3. UNCHANGED <<ledger, sends, faults>>
  BY DEF ObserveRollout, ClaimInGrace
<1>. DEFINE away == \/ ~rolloutReconcileDue(row)
                    \/ row.rb = "running" /\ age[r] < ClaimGrace
<1>4. CASE away
  <2>1. Conclude(p) /\ proc[p].pc \notin Resting \cup {"insert"}
    BY <1>1, <1>4 DEF ObserveRollout, ClaimInGrace, Resting
  <2>. QED BY <1>3, <2>1, ConcludeStep
<1>5. CASE ~away
  <2>1. /\ proc' = [proc EXCEPT ![p] = new]
        /\ lease' \in [Rollouts -> Workers \cup {None, "gone"}]
        /\ faults' \in Nat
    BY <1>3, <1>5 DEF ObserveRollout, ClaimInGrace, Step, IInv, TypeOK
  <2>2. /\ new \in Process /\ new.pc = "persist" /\ new.job = r
        /\ new.row = roll[r] /\ new.cur = TRUE
    BY <1>1, <1>2 DEF Process, Pc
  <2>3. /\ rolloutReconcileDue(roll[r])
        /\ roll[r].rb = "running" => age[r] = ClaimGrace
    BY <1>2, <1>5, LimitsAssumption
  <2>. HIDE DEF new, r
  <2>4. Fits(new, act, roll, age) /\ new.pc \notin {"send"} \cup RollbackPc
    BY <1>2, <2>2, <2>3 DEF Fits, Resting, RollbackPc
  <2>. QED BY <1>3, <2>1, <2>2, <2>4, QuietStep
<1>. QED BY <1>4, <1>5

(***************************************************************************)
(* PersistRollout: the compare-and-swap makes the judged row the row, and  *)
(* by then every request under a claim taken back has ended.               *)
(***************************************************************************)
LEMMA PersistRolloutOK ==
    ASSUME IInv, NEW p \in Procs, PersistRollout(p)
    PROVE  IInv'
<1>. DEFINE r   == proc[p].job
           new == IF p \in Workers THEN Forget(p, "reread") ELSE Rest(p)
<1>1. /\ proc[p] \in Process /\ Fits(proc[p], act, roll, age)
      /\ proc[p].pc = "persist"
  BY DEF PersistRollout, IInv, TypeOK, ProcsOK
<1>2. /\ r \in Rollouts /\ Exists(r) /\ proc[p].row \in Row
      /\ rolloutReconcileDue(proc[p].row)
      /\ late[r] \in BOOLEAN /\ rbLate[r] \in BOOLEAN
      /\ act[r] \in ActionStatus \ {"none"}
  BY <1>1 DEF Fits, Resting, Exists, IInv, TypeOK, Process
<1>3. UNCHANGED <<sends, faults>>
  BY DEF PersistRollout
<1>4. PICK ev \in Evidence :
         LET row == Judge(proc[p].row, ev, late[r], rbLate[r]) IN
         IF Swaps(p, row)
         THEN /\ WriteRow(p, r, row, new)
              /\ UNCHANGED <<act, late, rbLate, lease>>
         ELSE Conclude(p) /\ UNCHANGED ledger
  BY DEF PersistRollout, Judgements
<1>. DEFINE row == Judge(proc[p].row, ev, late[r], rbLate[r])
<1>5. CASE Swaps(p, row)
  <2>1. WriteRow(p, r, row, new) /\ UNCHANGED <<act, late, rbLate, lease>>
    BY <1>4, <1>5
  <2>2. proc[p].cur /\ proc[p].row = roll[r]
    BY <1>1, <1>5 DEF Swaps, Fits
  <2>3. Agree(act[r], roll[r]) /\ Sound(roll[r])
    BY <1>2 DEF IInv, RowsOK
  <2>4. /\ row \in Row /\ Sound(row) /\ row.uid = roll[r].uid
        /\ roll[r].status \in Terminal => row.status = roll[r].status
        /\ row.status = roll[r].status \/ row.status \in Broken \cup {"succeeded"}
    BY <1>2, <2>2, <2>3, JudgeOK
  <2>5. Begun(roll[r]) /\ ActiveTarget(roll[r])
    BY <1>2, <2>2, <2>3 DEF rolloutReconcileDue, Sound, NeedsRollback, Begun,
       ActiveTarget, Broken, Driving, Waiting, RollbackOpen
  <2>. HIDE DEF row
  <2>6. Agree(act[r], row) /\ Begun(row)
    BY <2>3, <2>4, <2>5 DEF Agree, Begun, Broken, Waiting, Terminal
  <2>7. \A q \in Procs \ {p} : InRollback(q) => proc[q].job # r
    <3>. SUFFICES ASSUME NEW q \in Procs, InRollback(q), proc[q].job = r
                  PROVE  FALSE
      OBVIOUS
    <3>1. roll[r].rb = "running" /\ proc[q].busy = age[r]
      BY ClaimIsInRow DEF IInv
    <3>2. age[r] = ClaimGrace
      BY <1>1, <2>2, <3>1 DEF Fits
    <3>3. proc[q].busy \in 0 .. RequestLimit
      BY DEF IInv, TypeOK, Process
    <3>. QED BY <3>1, <3>2, <3>3, LimitsAssumption
  <2>8. act' = [act EXCEPT ![r] = act[r]] /\ act'[r] # "none"
    BY <1>2, <2>1 DEF IInv, TypeOK
  <2>9. /\ new \in Process /\ Fits(new, act', roll', age')
        /\ new.pc \notin {"send"} \cup RollbackPc
    <3>1. /\ Rest(p) \in Process /\ Fits(Rest(p), act', roll', age')
          /\ Rest(p).pc \notin {"send"} \cup RollbackPc
      BY RestOK DEF RollbackPc
    <3>. DEFINE go == Forget(p, "reread")
    <3>2. /\ go \in Process /\ go.pc = "reread" /\ go.job = r /\ go.cur = FALSE
          /\ "reread" \in Plain
      BY <1>1, ForgetOK DEF Plain
    <3>3. new = go \/ new = Rest(p)
      OBVIOUS
    <3>. HIDE DEF go, r, new
    <3>4. Fits(go, act', roll', age') /\ go.pc \notin {"send"} \cup RollbackPc
      BY <1>2, <2>8, <3>2, PlainOK
    <3>. QED BY <3>1, <3>2, <3>3, <3>4
  <2>10. lease' \in [Rollouts -> Workers \cup {None, "gone"}]
    BY <2>1 DEF IInv, TypeOK
  <2>. HIDE DEF r, new
  <2>. QED BY <1>2, <1>3, <2>1, <2>4, <2>5, <2>6, <2>7, <2>8, <2>9, <2>10, WriteStep
<1>6. CASE ~Swaps(p, row)
  <2>1. Conclude(p) /\ UNCHANGED ledger
    BY <1>4, <1>6
  <2>2. proc[p].pc \notin Resting \cup {"insert"}
    BY <1>1 DEF Resting
  <2>. QED BY <1>3, <2>1, <2>2, ConcludeStep
<1>. QED BY <1>5, <1>6

\* RereadRollout takes up a rollback that the row just stored asks for.
LEMMA RereadRolloutOK ==
    ASSUME IInv, NEW w \in Workers, RereadRollout(w)
    PROVE  IInv'
<1>. DEFINE r   == proc[w].job
           new == [proc[w] EXCEPT !.pc = "rbclaim", !.cur = TRUE, !.row = roll[r]]
           go  == [proc[w] EXCEPT !.pc = "sync"]
<1>1. /\ w \in Procs /\ proc[w] \in Process /\ Fits(proc[w], act, roll, age)
      /\ proc[w].pc = "reread"
  BY DEF Procs, RereadRollout, IInv, TypeOK, ProcsOK
<1>2. /\ r \in Rollouts /\ act[r] # "none" /\ roll[r] \in Row
  BY <1>1 DEF Fits, Resting, IInv, TypeOK
<1>3. /\ UNCHANGED <<ledger, sends>>
      /\ lease' \in [Rollouts -> Workers \cup {None, "gone"}]
      /\ faults' \in Nat
  BY DEF RereadRollout, IInv, TypeOK
<1>4. CASE roll[r].rb = "requested"
  <2>1. proc' = [proc EXCEPT ![w] = new]
    BY <1>4 DEF RereadRollout, Step
  <2>2. /\ new \in Process /\ new.pc = "rbclaim" /\ new.job = r
        /\ new.row = roll[r]
    BY <1>1, <1>2 DEF Process, Pc
  <2>. HIDE DEF new, r
  <2>3. Fits(new, act, roll, age) /\ new.pc \notin {"send"} \cup RollbackPc
    BY <1>2, <1>4, <2>2 DEF Fits, Resting, RollbackPc
  <2>. QED BY <1>1, <1>3, <2>1, <2>2, <2>3, QuietStep
<1>5. CASE roll[r].rb # "requested"
  <2>1. proc' = [proc EXCEPT ![w] = go]
    BY <1>5 DEF RereadRollout, Goto, Step
  <2>2. proc[w].pc \notin Resting \cup {"insert", "reject", "persist", "rbclaim"}
                             \cup RollbackPc
    BY <1>1 DEF Resting, RollbackPc
  <2>3. /\ go \in Process /\ Fits(go, act, roll, age)
        /\ go.pc \notin {"send"} \cup RollbackPc
    BY <1>1, <2>2, OnwardOK
  <2>. HIDE DEF go
  <2>. QED BY <1>1, <1>3, <2>1, <2>3, QuietStep
<1>. QED BY <1>4, <1>5

\* ClaimRollback: nobody else holds a claim on a row that says "requested".
LEMMA ClaimRollbackOK ==
    ASSUME IInv, NEW w \in Workers, ClaimRollback(w)
    PROVE  IInv'
<1>. DEFINE r   == proc[w].job
           row == [proc[w].row EXCEPT !.rb = "running"]
           new == [proc[w] EXCEPT !.pc = "rbrequest", !.row = row, !.busy = 0]
<1>1. /\ w \in Procs /\ proc[w] \in Process /\ Fits(proc[w], act, roll, age)
      /\ proc[w].pc = "rbclaim"
  BY DEF Procs, ClaimRollback, IInv, TypeOK, ProcsOK
<1>2. /\ r \in Rollouts /\ Exists(r) /\ roll[r] \in Row /\ age[r] \in Nat
      /\ act[r] \in ActionStatus \ {"none"} /\ proc[w].row.rb = "requested"
  BY <1>1 DEF Fits, Resting, Exists, IInv, TypeOK
<1>3. /\ UNCHANGED <<sends, faults>>
      /\ lease' \in [Rollouts -> Workers \cup {None, "gone"}]
  BY DEF ClaimRollback, IInv, TypeOK
<1>4. CASE Swaps(w, row)
  <2>1. WriteRow(w, r, row, new) /\ UNCHANGED <<act, late, rbLate>>
    BY <1>4 DEF ClaimRollback
  <2>2. proc[w].cur /\ proc[w].row = roll[r] /\ roll[r].rb = "requested"
    BY <1>1, <1>2, <1>4 DEF Swaps, Fits
  <2>3. Agree(act[r], roll[r]) /\ Sound(roll[r])
    BY <1>2 DEF IInv, RowsOK
  <2>4. /\ row \in Row /\ row.rb = "running" /\ row.uid = roll[r].uid
        /\ row.status = roll[r].status /\ row.auto = roll[r].auto
        /\ row.restorable = roll[r].restorable
    BY <1>2, <2>2 DEF Row, RollbackStatus, RollbackOpen
  <2>. HIDE DEF row
  <2>5. /\ new \in Process /\ new.pc = "rbrequest" /\ new.job = r
        /\ new.row = row /\ new.cur /\ new.busy = 0
    <3>1. 0 \in 0 .. RequestLimit /\ "rbrequest" \in Pc
      BY LimitsAssumption DEF Pc, RollbackPc
    <3>. QED BY <1>1, <2>2, <2>4, <3>1 DEF Process
  <2>. HIDE DEF new
  <2>6. /\ Agree(act[r], row) /\ Sound(row) /\ ActiveTarget(roll[r])
        /\ Started(r) => Begun(row)
    BY <2>2, <2>3, <2>4
       DEF Agree, Sound, Begun, Started, ActiveTarget, RollbackOpen
  <2>7. \A q \in Procs \ {w} : InRollback(q) => proc[q].job # r
    BY <2>2, ClaimIsInRow DEF IInv
  <2>8. /\ act' = [act EXCEPT ![r] = act[r]] /\ act'[r] # "none"
        /\ roll'[r] = row /\ age'[r] = 0
    BY <1>2, <2>1 DEF WriteRow, IInv, TypeOK
  <2>. HIDE DEF r
  <2>9. Fits(new, act', roll', age') /\ new.pc # "send"
    BY <1>2, <2>4, <2>5, <2>8 DEF Fits, Resting, RollbackPc
  <2>. QED BY <1>1, <1>2, <1>3, <2>1, <2>4, <2>5, <2>6, <2>7, <2>8, <2>9, WriteStep
<1>5. CASE ~Swaps(w, row)
  <2>1. /\ proc' = [proc EXCEPT ![w] = Forget(w, "sync")]
        /\ UNCHANGED ledger /\ faults' \in Nat
    BY <1>3, <1>5 DEF ClaimRollback, Step, IInv, TypeOK
  <2>2. "sync" \in Plain \ {"send"} /\ proc[w].pc \notin Resting \cup {"insert"}
    BY <1>1 DEF Plain, Resting
  <2>. QED BY <1>1, <1>3, <2>1, <2>2, ForgetStep
<1>. QED BY <1>4, <1>5

\* RequestRollback keeps the claim.
LEMMA RequestRollbackOK ==
    ASSUME IInv, NEW w \in Workers, RequestRollback(w)
    PROVE  IInv'
<1>1. PICK o \in {"ok", "error", "unknown"} :
         proc' = [proc EXCEPT ![w] = [proc[w] EXCEPT !.pc = "rbfinal", !.out = o]]
  BY DEF RequestRollback, Step
<1>. DEFINE new == [proc[w] EXCEPT !.pc = "rbfinal", !.out = o]
<1>2. /\ w \in Procs /\ proc[w] \in Process /\ Fits(proc[w], act, roll, age)
      /\ proc[w].pc = "rbrequest"
  BY DEF Procs, RequestRollback, IInv, TypeOK, ProcsOK
<1>3. /\ new \in Process /\ new.pc = "rbfinal" /\ new.job = proc[w].job
      /\ new.cur = proc[w].cur /\ new.row = proc[w].row /\ new.busy = proc[w].busy
  BY <1>2 DEF Process, Pc, RollbackPc, Outcome
<1>4. /\ proc' = [proc EXCEPT ![w] = new]
      /\ lease' \in [Rollouts -> Workers \cup {None, "gone"}]
      /\ faults' \in Nat
      /\ UNCHANGED <<ledger, sends>>
  BY <1>1 DEF RequestRollback, IInv, TypeOK
<1>. HIDE DEF new
<1>5. Fits(new, act, roll, age) /\ new.pc # "send" /\ InRollback(w)
  BY <1>2, <1>3 DEF Fits, Resting, RollbackPc, InRollback
<1>. QED BY <1>2, <1>3, <1>4, <1>5, QuietStep

\* FinalizeRollback gives the claim back with the result.
LEMMA FinalizeRollbackOK ==
    ASSUME IInv, NEW w \in Workers, FinalizeRollback(w)
    PROVE  IInv'
<1>. DEFINE r   == proc[w].job
           row == RollbackRow(proc[w].row, proc[w].out)
           new == Forget(w, "sync")
<1>1. /\ w \in Procs /\ proc[w] \in Process /\ Fits(proc[w], act, roll, age)
      /\ proc[w].pc = "rbfinal"
  BY DEF Procs, FinalizeRollback, IInv, TypeOK, ProcsOK
<1>2. /\ r \in Rollouts /\ Exists(r) /\ roll[r] \in Row /\ InRollback(w)
      /\ act[r] \in ActionStatus \ {"none"}
      /\ proc[w].row = roll[r] /\ roll[r].rb = "running"
  BY <1>1 DEF Fits, Resting, RollbackPc, InRollback, Exists, IInv, TypeOK
<1>3. /\ UNCHANGED <<sends, faults>>
      /\ lease' \in [Rollouts -> Workers \cup {None, "gone"}]
  BY DEF FinalizeRollback, IInv, TypeOK
<1>4. "sync" \in Plain \ {"send"}
  BY DEF Plain
<1>5. CASE Swaps(w, row)
  <2>1. WriteRow(w, r, row, new) /\ UNCHANGED <<act, late, rbLate>>
    BY <1>5 DEF FinalizeRollback
  <2>2. Agree(act[r], roll[r]) /\ Sound(roll[r])
    BY <1>2 DEF IInv, RowsOK
  <2>3. /\ row \in Row /\ row.rb \in {"failed", "monitoring"}
        /\ row.uid = roll[r].uid /\ row.status = roll[r].status
        /\ row.auto = roll[r].auto /\ row.restorable = roll[r].restorable
    BY <1>2 DEF RollbackRow, Row, RollbackStatus, RollbackOpen
  <2>. HIDE DEF row
  <2>4. /\ Agree(act[r], row) /\ Sound(row) /\ ActiveTarget(roll[r])
        /\ Started(r) => Begun(row)
    BY <1>2, <2>2, <2>3
       DEF Agree, Sound, Begun, Started, ActiveTarget, RollbackOpen
  <2>5. \A q \in Procs \ {w} : InRollback(q) => proc[q].job # r
    BY <1>1, <1>2 DEF IInv, ClaimsOK
  <2>6. act' = [act EXCEPT ![r] = act[r]] /\ act'[r] # "none"
    BY <1>2, <2>1 DEF IInv, TypeOK
  <2>7. /\ new \in Process /\ new.pc = "sync" /\ new.job = r /\ new.cur = FALSE
    BY <1>1, <1>4, ForgetOK
  <2>. HIDE DEF r, new
  <2>8. Fits(new, act', roll', age') /\ new.pc \notin {"send"} \cup RollbackPc
    BY <1>2, <1>4, <2>6, <2>7, PlainOK
  <2>. QED BY <1>1, <1>2, <1>3, <2>1, <2>3, <2>4, <2>5, <2>6, <2>7, <2>8, WriteStep
<1>6. CASE ~Swaps(w, row)
  <2>1. /\ proc' = [proc EXCEPT ![w] = Forget(w, "sync")]
        /\ UNCHANGED ledger /\ faults' \in Nat
    BY <1>3, <1>6 DEF FinalizeRollback, Step, IInv, TypeOK
  <2>2. proc[w].pc \notin Resting \cup {"insert"}
    BY <1>1 DEF Resting
  <2>. QED BY <1>1, <1>3, <1>4, <2>1, <2>2, ForgetStep
<1>. QED BY <1>5, <1>6

\* syncRolloutActionRequest closes an action only with a rollout that is over.
LEMMA syncRolloutActionRequestOK ==
    ASSUME IInv, NEW w \in Workers, syncRolloutActionRequest(w)
    PROVE  IInv'
<1>. DEFINE r == proc[w].job
<1>1. /\ w \in Procs /\ proc[w] \in Process /\ Fits(proc[w], act, roll, age)
      /\ proc[w].pc = "sync"
  BY DEF Procs, syncRolloutActionRequest, IInv, TypeOK, ProcsOK
<1>2. /\ r \in Rollouts /\ Exists(r)
  BY <1>1 DEF Fits, Resting, Exists
<1>3. Leave(w) /\ UNCHANGED <<roll, age, late, rbLate, sends, faults>>
  BY DEF syncRolloutActionRequest
<1>4. CASE roll[r].status \in Terminal /\ act[r] = "running"
  <2>1. PICK mutated \in BOOLEAN :
           act' = [act EXCEPT ![r] = SyncedAction(roll[r], mutated)]
    BY <1>4 DEF syncRolloutActionRequest
  <2>. DEFINE a == SyncedAction(roll[r], mutated)
  <2>2. a \in {"executed", "failed"}
    BY DEF SyncedAction
  <2>3. Agree(act[r], roll[r])
    BY <1>2 DEF IInv, RowsOK
  <2>. HIDE DEF a
  <2>4. a \in ActionStatus \ {"none"} /\ Agree(a, roll[r])
    BY <1>4, <2>2, <2>3 DEF Agree, ActionStatus, Terminal, Broken
  <2>5. /\ Rest(w) \in Process /\ Fits(Rest(w), act, roll, age)
        /\ Rest(w).pc \notin {"send"} \cup RollbackPc
    BY <1>1, RestOK DEF RollbackPc
  <2>6. /\ lease' \in [Rollouts -> Workers \cup {None, "gone"}]
        /\ proc' = [proc EXCEPT ![w] = Rest(w)]
    BY <1>3, ReleaseOK DEF Leave, Step, IInv
  <2>7. act' = [act EXCEPT ![r] = a]
    BY <2>1 DEF a
  <2>. HIDE DEF r
  <2>. QED BY <1>1, <1>2, <1>3, <2>4, <2>5, <2>6, <2>7, ActStep
<1>5. CASE ~(roll[r].status \in Terminal /\ act[r] = "running")
  <2>1. UNCHANGED <<ledger, sends, faults>>
    BY <1>3, <1>5 DEF syncRolloutActionRequest, ledger
  <2>. QED BY <1>1, <1>3, <2>1, LeaveStep
<1>. QED BY <1>4, <1>5

-----------------------------------------------------------------------------
(***************************************************************************)
(* Time and failures                                                       *)
(***************************************************************************)
\* Tick ages a claim and its request together.
LEMMA TickOK ==
    ASSUME IInv, Tick
    PROVE  IInv'
<1>. DEFINE ages(r) == roll[r].rb = "running" /\ age[r] < ClaimGrace
<1>1. /\ proc \in [Procs -> Process] /\ age \in [Rollouts -> 0 .. ClaimGrace]
      /\ \A p \in Procs : Fits(proc[p], act, roll, age)
  BY DEF IInv, TypeOK, ProcsOK
<1>2. UNCHANGED <<act, roll, late, rbLate, lease, sends, faults>>
  BY DEF Tick, RequestsInTime
<1>3. /\ age' \in [Rollouts -> 0 .. ClaimGrace]
      /\ \A r \in Rollouts : age'[r] = IF ages(r) THEN age[r] + 1 ELSE age[r]
  BY <1>1, LimitsAssumption DEF Tick, RequestsInTime
<1>4. \A p \in Procs : InRollback(p) =>
         /\ [proc[p] EXCEPT !.busy = @ + 1] \in Process
         /\ proc[p].busy + 1 \in 0 .. RequestLimit
  <2>. SUFFICES ASSUME NEW p \in Procs, InRollback(p)
                PROVE  /\ [proc[p] EXCEPT !.busy = @ + 1] \in Process
                       /\ proc[p].busy + 1 \in 0 .. RequestLimit
    OBVIOUS
  <2>1. proc[p] \in Process /\ proc[p].busy < RequestLimit
    BY <1>1 DEF Tick, RequestsInTime
  <2>2. proc[p].busy + 1 \in 0 .. RequestLimit
    BY <2>1, LimitsAssumption DEF Process
  <2>. QED BY <2>1, <2>2 DEF Process
<1>5. /\ proc' \in [Procs -> Process]
      /\ \A p \in Procs : proc'[p] = IF InRollback(p)
                                     THEN [proc[p] EXCEPT !.busy = @ + 1]
                                     ELSE proc[p]
  BY <1>1, <1>4 DEF Tick, RequestsInTime
<1>6. \A p \in Procs : proc'[p].pc = proc[p].pc /\ proc'[p].job = proc[p].job
  BY <1>1, <1>5 DEF Process
<1>7. TypeOK'
  BY <1>2, <1>3, <1>5 DEF IInv, TypeOK
<1>8. RowsOK' /\ LocksOK'
  BY <1>2 DEF IInv, RowsOK, LocksOK, Exists
<1>9. SendsOK'
  BY <1>2, <1>6 DEF IInv, SendsOK, Started, Exists
<1>10. ClaimsOK'
  BY <1>6 DEF IInv, ClaimsOK, InRollback
<1>11. ProcsOK'
  <2>. SUFFICES ASSUME NEW p \in Procs
                PROVE  Fits(proc'[p], act', roll', age')
    BY DEF ProcsOK
  <2>1. proc[p] \in Process /\ Fits(proc[p], act, roll, age)
    BY <1>1
  <2>2. CASE InRollback(p)
    <3>. DEFINE r == proc[p].job
    <3>1. /\ r \in Rollouts /\ roll[r].rb = "running" /\ proc[p].busy = age[r]
          /\ proc[p].busy < RequestLimit /\ proc[p].busy \in Nat
      BY <2>1, <2>2, ClaimIsInRow DEF IInv, Tick, RequestsInTime, Process
    <3>2. age'[r] = proc[p].busy + 1
      BY <1>3, <3>1, LimitsAssumption
    <3>3. /\ proc'[p].pc = proc[p].pc /\ proc'[p].job = r
          /\ proc'[p].row = proc[p].row /\ proc'[p].cur = proc[p].cur
          /\ proc'[p].busy = proc[p].busy + 1
      BY <1>5, <2>1, <2>2 DEF Process
    <3>. QED BY <1>2, <2>1, <2>2, <3>2, <3>3 DEF Fits, InRollback, Resting, RollbackPc
  <2>3. CASE ~InRollback(p)
    <3>1. proc'[p] = proc[p] /\ proc[p].pc \notin RollbackPc
      BY <1>5, <2>3 DEF InRollback
    <3>2. /\ proc[p].pc = "persist" /\ proc[p].cur /\ proc[p].row.rb = "running"
          => age'[proc[p].job] = ClaimGrace
      BY <1>3, <2>1, LimitsAssumption DEF Fits, Resting
    <3>. QED BY <1>2, <2>1, <3>1, <3>2 DEF Fits
  <2>. QED BY <2>2, <2>3
<1>. QED BY <1>7, <1>8, <1>9, <1>10, <1>11 DEF IInv

\* Passing deadlines and leases touch nothing the invariant speaks of.
LEMMA DeadlineOK ==
    ASSUME IInv, NEW r \in Rollouts, DeadlinePasses(r) \/ LeaseExpires(r)
    PROVE  IInv'
<1>1. UNCHANGED <<act, roll, age, proc, sends, faults>>
  BY DEF DeadlinePasses, TimeoutPasses, RollbackTimeoutPasses, LeaseExpires, ledger
<1>2. /\ late' \in [Rollouts -> BOOLEAN]
      /\ rbLate' \in [Rollouts -> BOOLEAN]
      /\ lease' \in [Rollouts -> Workers \cup {None, "gone"}]
  BY DEF DeadlinePasses, TimeoutPasses, RollbackTimeoutPasses, LeaseExpires,
         ledger, IInv, TypeOK
<1>3. TypeOK'
  BY <1>1, <1>2 DEF IInv, TypeOK
<1>4. /\ RowsOK' /\ ProcsOK' /\ SendsOK' /\ ClaimsOK' /\ LocksOK'
  BY <1>1 DEF IInv, RowsOK, ProcsOK, SendsOK, ClaimsOK, LocksOK, Exists, Started,
         InRollback
<1>. QED BY <1>3, <1>4 DEF IInv

\* A process may die or give up anywhere.
LEMMA FailureOK ==
    ASSUME IInv, NEW p \in Procs, Crash(p) \/ StoreFails(p)
    PROVE  IInv'
<1>1. proc' = [proc EXCEPT ![p] = Rest(p)] /\ UNCHANGED <<ledger, sends>>
  BY DEF Crash, StoreFails, Leave, Step
<1>2. faults' \in Nat
  BY DEF Crash, StoreFails, IInv, TypeOK
<1>3. lease' \in [Rollouts -> Workers \cup {None, "gone"}]
  <2>1. CASE Crash(p)
    <3>1. PICK owner \in {p, "gone"} :
             lease' = [r \in Rollouts |-> IF lease[r] = p THEN owner ELSE lease[r]]
      BY <2>1 DEF Crash
    <3>2. lease \in [Rollouts -> Workers \cup {None, "gone"}]
      BY DEF IInv, TypeOK
    <3>. QED BY <3>1, <3>2
  <2>2. CASE StoreFails(p)
    BY <2>2, ReleaseOK DEF StoreFails, Leave, IInv
  <2>. QED BY <2>1, <2>2
<1>. QED BY <1>1, <1>2, <1>3, RestStep

-----------------------------------------------------------------------------
(***************************************************************************)
(* The invariant                                                           *)
(***************************************************************************)
\* The invariant holds in an empty hub.
LEMMA InitOK == Init => IInv
<1>. SUFFICES ASSUME Init PROVE IInv
  OBVIOUS
<1>1. \A p \in Procs : /\ proc[p] \in Process
                       /\ proc[p].pc \in Resting
                       /\ proc[p].cur = FALSE
  <2>. SUFFICES ASSUME NEW p \in Procs
                PROVE  /\ proc[p] \in Process
                       /\ proc[p].pc \in Resting
                       /\ proc[p].cur = FALSE
    OBVIOUS
  <2>1. /\ Rest(p) \in Process /\ Rest(p).pc \in {"idle", "done"}
        /\ Rest(p).cur = FALSE
    BY RestOK
  <2>2. /\ [Rest(p) EXCEPT !.pc = "ready"] \in Process
        /\ [Rest(p) EXCEPT !.pc = "ready"].pc = "ready"
        /\ [Rest(p) EXCEPT !.pc = "ready"].cur = FALSE
    BY <2>1 DEF Process, Pc
  <2>. QED BY <2>1, <2>2 DEF Init, Resting
<1>2. TypeOK
  <2>1. NoRow \in Row
    BY DEF NoRow, Row, Status, Terminal, RollbackStatus
  <2>2. proc \in [Procs -> Process]
    BY <1>1 DEF Init
  <2>. QED BY <2>1, <2>2, LimitsAssumption DEF Init, TypeOK, ActionStatus
<1>3. RowsOK /\ LocksOK
  BY DEF Init, RowsOK, LocksOK, Exists
<1>4. ProcsOK
  BY <1>1 DEF ProcsOK, Fits, Resting, RollbackPc
<1>5. SendsOK
  <2>1. \A p \in Procs : proc[p].pc # "send"
    BY <1>1 DEF Resting
  <2>2. \A r \in Rollouts : sends[r] = 0
    BY DEF Init
  <2>. QED BY <2>1, <2>2 DEF SendsOK
<1>6. ClaimsOK
  BY <1>1 DEF ClaimsOK, InRollback, Resting, RollbackPc
<1>. QED BY <1>2, <1>3, <1>4, <1>5, <1>6 DEF IInv

\* Every step of every process, deadline and failure preserves it.
LEMMA NextOK ==
    ASSUME IInv, [Next]_vars
    PROVE  IInv'
<1>1. CASE UNCHANGED vars
  <2>1. UNCHANGED <<act, roll, age, late, rbLate, lease, proc, sends, faults>>
    BY <1>1 DEF vars, ledger
  <2>. QED BY <2>1 DEF IInv, TypeOK, RowsOK, ProcsOK, SendsOK, ClaimsOK, LocksOK,
           Exists, Started, InRollback
<1>2. ASSUME NEW h \in Handlers, Handle(h) \/ Answer(h)
      PROVE  IInv'
  <2>1. CASE Answer(h)
    BY <2>1, InsertK8sRolloutRequestOK, RejectK8sRolloutWithActionOK DEF Answer
  <2>2. CASE Handle(h)
    BY <2>2, RequestRolloutOK, ApproveRolloutOK, ReadForRejectOK,
       DecideInActionCenterOK, BeginWorkOK DEF Handle
  <2>. QED BY <1>2, <2>1, <2>2
<1>3. ASSUME NEW p \in Procs, Run(p) \/ Crash(p) \/ StoreFails(p)
      PROVE  IInv'
  <2>1. CASE Run(p)
    BY <2>1, CheckTargetOK, StartK8sRolloutExecutionOK, SendRestartOK,
       AwaitRestartOK, FinalizeK8sRolloutMutationOK, ObserveRolloutOK,
       PersistRolloutOK DEF Run
  <2>2. CASE Crash(p) \/ StoreFails(p)
    BY <2>2, FailureOK
  <2>. QED BY <1>3, <2>1, <2>2
<1>4. ASSUME NEW w \in Workers, Reconcile(w)
      PROVE  IInv'
  BY <1>4, ListK8sRolloutActionsDueOK, ReconcileOneOK, RereadRolloutOK,
     ClaimRollbackOK, RequestRollbackOK, FinalizeRollbackOK,
     syncRolloutActionRequestOK DEF Reconcile
<1>. QED BY <1>1, <1>2, <1>3, <1>4, DeadlineOK, TickOK DEF Next

\* Every reachable state of the hub satisfies the invariant.
THEOREM Invariance == Spec => []IInv
<1>1. IInv /\ [Next]_vars => IInv'
  BY NextOK
<1>. QED BY InitOK, <1>1, PTL DEF Spec

-----------------------------------------------------------------------------
(***************************************************************************)
(* What it gives                                                           *)
(***************************************************************************)
\* No sequence of steps takes a table or a process out of its type.
THEOREM TypeCorrect == Spec => []TypeOK
<1>1. IInv => TypeOK
  BY DEF IInv
<1>. QED BY <1>1, Invariance, PTL

(***************************************************************************)
(* The action ledger and the rollout ledger agree, for any number of       *)
(* approvers, executors, reconcilers and failures between them.            *)
(***************************************************************************)
THEOREM Agreement == Spec => []LedgersAgree
<1>1. IInv => LedgersAgree
  BY DEF IInv, RowsOK, Agree, Begun, LedgersAgree, Started
<1>. QED BY <1>1, Invariance, PTL

\* No two processes ever send the restart of one rollout.
THEOREM SentOnce == Spec => []RestartSentOnce
<1>1. IInv => RestartSentOnce
  BY DEF IInv, SendsOK, RestartSentOnce
<1>. QED BY <1>1, Invariance, PTL

(***************************************************************************)
(* A rollback patch is sent under a claim nobody else holds, although      *)
(* leases expire at any time: the grace period outlasts every request.     *)
(***************************************************************************)
THEOREM ClaimExclusive == Spec => []RollbackUnderClaim
<1>1. IInv => RollbackUnderClaim
  <2>. SUFFICES ASSUME IInv, NEW v \in Workers, NEW w \in Workers, InRollback(w)
                PROVE  /\ roll[proc[w].job].rb = "running"
                       /\ InRollback(v) /\ proc[v].job = proc[w].job => v = w
    BY DEF RollbackUnderClaim
  <2>1. v \in Procs /\ w \in Procs
    BY DEF Procs
  <2>. QED BY <2>1, ClaimIsInRow DEF IInv, ClaimsOK
<1>. QED BY <1>1, Invariance, PTL

\* A rollback is open only after a failure, by request, with a template.
THEOREM RollbackJustified == Spec => []RollbackOnlyAfterFailure
<1>1. IInv => RollbackOnlyAfterFailure
  BY DEF IInv, RowsOK, Sound, RollbackOnlyAfterFailure, RollbackOpen
<1>. QED BY <1>1, Invariance, PTL

\* No two rollouts of one object may both still patch it.
THEOREM TargetExclusive == Spec => []OneRolloutPerTarget
<1>1. \A row : MayStillPatch(row) => ActiveTarget(row)
  BY DEF MayStillPatch, ActiveTarget, Driving, RollbackOpen
<1>2. IInv => OneRolloutPerTarget
  BY <1>1 DEF IInv, LocksOK, OneRolloutPerTarget
<1>. QED BY <1>2, Invariance, PTL

-----------------------------------------------------------------------------
(***************************************************************************)
(* The steps of RolloutLedger: what is closed stays closed, and every step *)
(* of every process is a step of RolloutLifecycle or none.                 *)
(*                                                                         *)
(* Both follow from one lemma.  A step of the hub leaves the rows alone,   *)
(* or sends one restart, or writes one rollout's rows; and a row that is   *)
(* written enters the table with its target free, or moves forward.        *)
(***************************************************************************)

\* The rows stay, and no closed action is opened.
Still ==
    /\ UNCHANGED <<roll, sends>>
    /\ \A r \in Rollouts : /\ act'[r] # "none" <=> act[r] # "none"
                           /\ act[r] \in ActionClosed => act'[r] = act[r]

\* The restart of a rollout that has started, for the first time.
Sends(r) ==
    /\ UNCHANGED <<act, roll>>
    /\ Started(r) /\ sends[r] = 0
    /\ sends' = [sends EXCEPT ![r] = 1]

OnlyRow(r) ==
    /\ UNCHANGED sends
    /\ act'[r] # "none"
    /\ \A q \in Rollouts \ {r} : act'[q] = act[q] /\ roll'[q] = roll[q]

\* A new rollout takes a target that is free.
Enters(r) ==
    /\ ~Conflict(r, roll'[r])
    /\ roll'[r].status \in Waiting
    /\ roll'[r].uid \in Uids

\* Where a status may go.
Forward(s, t) ==
    \/ t = s
    \/ s \in Waiting /\ t \in {"running", "rejected"}
    \/ s \in Driving /\ t \in {"monitoring", "succeeded"} \cup Broken

\* A known rollout keeps its target and what is settled, and takes nothing.
Moves(r) ==
    /\ Exists(r)
    /\ roll'[r].uid = roll[r].uid
    /\ Forward(roll[r].status, roll'[r].status)
    /\ roll[r].rb \in {"failed", "succeeded"} => roll'[r].rb = roll[r].rb
    /\ ActiveTarget(roll'[r]) => ActiveTarget(roll[r])
    /\ act[r] \in ActionClosed => act'[r] = act[r]

LedgerStep ==
    \/ Still
    \/ \E r \in Rollouts : Sends(r)
    \/ \E r \in Rollouts : OnlyRow(r) /\ (Enters(r) \/ Moves(r))

-----------------------------------------------------------------------------
(***************************************************************************)
(* Steps that write no row                                                 *)
(***************************************************************************)
\* What touches neither table nor patch.
LEMMA SameIsStill == UNCHANGED <<act, roll, sends>> => Still
BY DEF Still

\* A decision is about an action that is open.
LEMMA ActIsStill ==
    ASSUME IInv, NEW r \in Rollouts, Exists(r), act[r] \notin ActionClosed,
           NEW a, a # "none", act' = [act EXCEPT ![r] = a],
           UNCHANGED <<roll, sends>>
    PROVE  Still
BY DEF Still, IInv, TypeOK, Exists

\* What users ask for decides an action or touches no row.
LEMMA HandleStep ==
    ASSUME IInv, NEW h \in Handlers, Handle(h)
    PROVE  LedgerStep
<1>1. CASE UNCHANGED <<act, roll, sends>>
  BY <1>1, SameIsStill DEF LedgerStep
<1>2. ASSUME NEW r \in Rollouts, ApproveRollout(h, r)
      PROVE  LedgerStep
  <2>1. Exists(r) /\ act[r] \notin ActionClosed
    BY <1>2 DEF ApproveRollout, Undecided, ActionClosed
  <2>2. act' = [act EXCEPT ![r] = "approved"] /\ UNCHANGED <<roll, sends>>
    BY <1>2 DEF ApproveRollout
  <2>. QED BY <2>1, <2>2, ActIsStill DEF LedgerStep
<1>3. ASSUME NEW r \in Rollouts, NEW verdict \in {"approved", "rejected"},
             DecideInActionCenter(h, r, verdict)
      PROVE  LedgerStep
  <2>1. Exists(r) /\ act[r] \notin ActionClosed
    BY <1>3 DEF DecideInActionCenter, Undecided, ActionClosed, Exists
  <2>2. act' = [act EXCEPT ![r] = verdict] /\ UNCHANGED <<roll, sends>>
    BY <1>3 DEF DecideInActionCenter
  <2>. QED BY <2>1, <2>2, ActIsStill DEF LedgerStep
<1>. QED
  BY <1>1, <1>2, <1>3
     DEF Handle, RequestRollout, ReadForReject, ExecuteInActionCenter,
         ViewRollout, ledger

\* Closing an action is about one that was running.
LEMMA SyncStep ==
    ASSUME IInv, NEW w \in Workers, syncRolloutActionRequest(w)
    PROVE  LedgerStep
<1>. DEFINE r == proc[w].job
<1>1. UNCHANGED <<roll, sends>>
  BY DEF syncRolloutActionRequest
<1>2. CASE roll[r].status \in Terminal /\ act[r] = "running"
  <2>1. PICK mutated \in BOOLEAN :
           act' = [act EXCEPT ![r] = SyncedAction(roll[r], mutated)]
    BY <1>2 DEF syncRolloutActionRequest
  <2>2. w \in Procs /\ proc[w].pc = "sync" /\ Fits(proc[w], act, roll, age)
    BY DEF Procs, syncRolloutActionRequest, IInv, ProcsOK
  <2>3. /\ r \in Rollouts /\ Exists(r) /\ act[r] \notin ActionClosed
        /\ SyncedAction(roll[r], mutated) # "none"
    BY <1>2, <2>2 DEF Fits, Resting, Exists, ActionClosed, SyncedAction
  <2>. QED BY <1>1, <2>1, <2>3, ActIsStill DEF LedgerStep
<1>3. CASE ~(roll[r].status \in Terminal /\ act[r] = "running")
  BY <1>1, <1>3, SameIsStill DEF LedgerStep, syncRolloutActionRequest
<1>. QED BY <1>2, <1>3

\* Time, failures and steps that only read or wait.
LEMMA OtherStep ==
    ASSUME \/ UNCHANGED vars
           \/ Tick
           \/ \E r \in Rollouts : DeadlinePasses(r) \/ LeaseExpires(r)
           \/ \E p \in Procs : \/ Crash(p) \/ StoreFails(p) \/ CheckTarget(p)
                               \/ AwaitRestart(p) \/ ObserveRollout(p)
           \/ \E w \in Workers : \/ \E r \in Rollouts : ListK8sRolloutActionsDue(w, r)
                                 \/ ReconcileOne(w) \/ RereadRollout(w)
                                 \/ RequestRollback(w)
    PROVE  LedgerStep
<1>1. UNCHANGED <<act, roll, sends>>
  BY DEF vars, ledger, Tick, DeadlinePasses, TimeoutPasses, RollbackTimeoutPasses,
         LeaseExpires, Crash, StoreFails, CheckTarget, AwaitRestart,
         ObserveRollout, ListK8sRolloutActionsDue, ReconcileOne, RereadRollout,
         RequestRollback
<1>. QED BY <1>1, SameIsStill DEF LedgerStep

\* Whoever may send has started the rollout and has not sent.
LEMMA SendStep ==
    ASSUME IInv, NEW p \in Procs, SendRestart(p)
    PROVE  LedgerStep
<1>1. proc[p].pc = "send" /\ Fits(proc[p], act, roll, age)
  BY DEF SendRestart, IInv, ProcsOK
<1>2. /\ proc[p].job \in Rollouts /\ Started(proc[p].job)
      /\ sends[proc[p].job] = 0
  BY <1>1 DEF Fits, Resting, IInv, SendsOK
<1>3. sends' = [sends EXCEPT ![proc[p].job] = 1] /\ UNCHANGED <<act, roll>>
  BY <1>2 DEF SendRestart, ledger
<1>. QED BY <1>2, <1>3 DEF LedgerStep, Sends

-----------------------------------------------------------------------------
(***************************************************************************)
(* Steps that write a row                                                  *)
(***************************************************************************)
\* What WriteRow and a write to the action leave of the other rollouts.
LEMMA WriteIsOnlyRow ==
    ASSUME IInv, NEW p \in Procs, NEW r \in Rollouts, NEW row, NEW new,
           NEW a, a # "none", act' = [act EXCEPT ![r] = a],
           WriteRow(p, r, row, new), UNCHANGED sends
    PROVE  OnlyRow(r) /\ roll'[r] = row /\ act'[r] = a
BY DEF IInv, TypeOK, WriteRow, OnlyRow

\* A rollout enters the table when the unique indexes let it.
LEMMA InsertStep ==
    ASSUME IInv, NEW h \in Handlers, InsertK8sRolloutRequest(h)
    PROVE  LedgerStep
<1>. DEFINE r   == proc[h].job
           row == proc[h].row
           new == IF row.status = "approved"
                  THEN [proc[h] EXCEPT !.pc = "check", !.row = NoRow]
                  ELSE Rest(h)
<1>1. h \in Procs /\ Fits(proc[h], act, roll, age) /\ proc[h].pc = "insert"
  BY DEF Procs, InsertK8sRolloutRequest, IInv, ProcsOK
<1>2. r \in Rollouts /\ row.status \in Waiting /\ row.uid \in Uids
  BY <1>1 DEF Fits, Resting
<1>3. CASE Conflict(r, row)
  <2>1. UNCHANGED <<act, roll, sends>>
    BY <1>3 DEF InsertK8sRolloutRequest, ledger
  <2>. QED BY <2>1, SameIsStill DEF LedgerStep
<1>4. CASE ~Conflict(r, row)
  <2>1. /\ act' = [act EXCEPT ![r] = row.status]
        /\ WriteRow(h, r, row, new)
        /\ UNCHANGED sends
        /\ row.status # "none"
    BY <1>2, <1>4 DEF InsertK8sRolloutRequest, Waiting
  <2>. HIDE DEF r, row, new
  <2>2. OnlyRow(r) /\ roll'[r] = row
    BY <1>1, <1>2, <2>1, WriteIsOnlyRow
  <2>3. Enters(r)
    BY <1>2, <1>4, <2>2 DEF Enters
  <2>. QED BY <1>2, <2>2, <2>3 DEF LedgerStep
<1>. QED BY <1>3, <1>4

\* A rejection takes a waiting rollout out of the race.
LEMMA RejectStep ==
    ASSUME IInv, NEW h \in Handlers, RejectK8sRolloutWithAction(h)
    PROVE  LedgerStep
<1>. DEFINE r   == proc[h].job
           row == [roll[r] EXCEPT !.status = "rejected"]
<1>1. h \in Procs /\ Fits(proc[h], act, roll, age) /\ proc[h].pc = "reject"
  BY DEF Procs, RejectK8sRolloutWithAction, IInv, ProcsOK
<1>2. r \in Rollouts /\ Exists(r) /\ roll[r] \in Row
  BY <1>1 DEF Fits, Resting, Exists, IInv, TypeOK
<1>3. CASE act[r] = "approval_required" /\ proc[h].cur
  <2>1. /\ act' = [act EXCEPT ![r] = "rejected"]
        /\ WriteRow(h, r, row, Rest(h))
        /\ UNCHANGED sends
    BY <1>3 DEF RejectK8sRolloutWithAction, Undecided
  <2>2. roll[r].status \in Waiting
    BY <1>2, <1>3 DEF IInv, RowsOK, Agree, Begun
  <2>3. /\ row.status = "rejected" /\ row.rb = roll[r].rb
        /\ row.uid = roll[r].uid /\ ActiveTarget(roll[r])
    BY <1>2, <2>2 DEF Row, ActiveTarget
  <2>. HIDE DEF r, row
  <2>4. OnlyRow(r) /\ roll'[r] = row
    BY <1>1, <1>2, <2>1, WriteIsOnlyRow
  <2>5. Moves(r)
    BY <1>2, <1>3, <2>2, <2>3, <2>4 DEF Moves, Forward, ActionClosed
  <2>. QED BY <1>2, <2>4, <2>5 DEF LedgerStep
<1>4. CASE ~(act[r] = "approval_required" /\ proc[h].cur)
  <2>1. UNCHANGED <<act, roll, sends>>
    BY <1>4 DEF RejectK8sRolloutWithAction, Undecided, ledger
  <2>. QED BY <2>1, SameIsStill DEF LedgerStep
<1>. QED BY <1>3, <1>4

\* The start moves a waiting rollout.
LEMMA StartStep ==
    ASSUME IInv, NEW p \in Procs, StartK8sRolloutExecution(p)
    PROVE  LedgerStep
<1>. DEFINE r   == proc[p].job
           row == [roll[r] EXCEPT !.status = "running"]
           new == IF proc[p].pc = "claim"
                  THEN [proc[p] EXCEPT !.pc = "send"]
                  ELSE [proc[p] EXCEPT !.pc = "final", !.out = "blocked"]
<1>1. Fits(proc[p], act, roll, age) /\ proc[p].pc \in {"claim", "drift"}
  BY DEF StartK8sRolloutExecution, IInv, ProcsOK
<1>2. r \in Rollouts /\ Exists(r) /\ roll[r] \in Row
  BY <1>1 DEF Fits, Resting, Exists, IInv, TypeOK
<1>3. CASE act[r] = "approved" /\ roll[r].status \in Waiting
  <2>1. /\ act' = [act EXCEPT ![r] = "running"]
        /\ WriteRow(p, r, row, new)
        /\ UNCHANGED sends
    BY <1>3 DEF StartK8sRolloutExecution, MayStart
  <2>2. /\ row.status = "running" /\ row.rb = roll[r].rb
        /\ row.uid = roll[r].uid /\ ActiveTarget(roll[r])
    BY <1>2, <1>3 DEF Row, ActiveTarget
  <2>. HIDE DEF r, row, new
  <2>3. OnlyRow(r) /\ roll'[r] = row
    BY <1>2, <2>1, WriteIsOnlyRow
  <2>4. Moves(r)
    BY <1>2, <1>3, <2>2, <2>3 DEF Moves, Forward, ActionClosed
  <2>. QED BY <1>2, <2>3, <2>4 DEF LedgerStep
<1>4. CASE ~(act[r] = "approved" /\ roll[r].status \in Waiting)
  <2>1. UNCHANGED <<act, roll, sends>>
    BY <1>4 DEF StartK8sRolloutExecution, MayStart, ledger
  <2>. QED BY <2>1, SameIsStill DEF LedgerStep
<1>. QED BY <1>3, <1>4

\* The outcome moves a running rollout.
LEMMA FinalizeStep ==
    ASSUME IInv, NEW p \in Procs, FinalizeK8sRolloutMutation(p)
    PROVE  LedgerStep
<1>. DEFINE r   == proc[p].job
           out == proc[p].out
           row == FinalRow(roll[r], out)
           a   == FinalAction(out)
<1>1. Fits(proc[p], act, roll, age) /\ proc[p].pc = "final"
  BY DEF FinalizeK8sRolloutMutation, BothStillRun, IInv, ProcsOK
<1>2. r \in Rollouts /\ Exists(r) /\ roll[r] \in Row
  BY <1>1 DEF Fits, Resting, Exists, IInv, TypeOK
<1>3. CASE act[r] = "running" /\ roll[r].status = "running"
  <2>1. PICK new : /\ act' = [act EXCEPT ![r] = a]
                   /\ WriteRow(p, r, row, new)
                   /\ UNCHANGED sends
    <3>1. CASE proc[p].follow /\ ~Refused(out)
      BY <1>3, <3>1 DEF FinalizeK8sRolloutMutation, BothStillRun
    <3>2. CASE ~(proc[p].follow /\ ~Refused(out))
      BY <1>3, <3>2 DEF FinalizeK8sRolloutMutation, BothStillRun
    <3>. QED BY <3>1, <3>2
  <2>2. /\ row.status \in {"failed", "monitoring"}
        /\ row.uid = roll[r].uid /\ ActiveTarget(roll[r]) /\ a # "none"
    BY <1>2, <1>3 DEF FinalRow, FinalAction, Row, ActiveTarget, Driving
  <2>3. roll[r].rb = ""
    BY <1>2, <1>3 DEF IInv, RowsOK, Sound, Broken
  <2>. HIDE DEF r, row, a
  <2>4. OnlyRow(r) /\ roll'[r] = row
    BY <1>2, <2>1, <2>2, WriteIsOnlyRow
  <2>5. Moves(r)
    BY <1>2, <1>3, <2>2, <2>3, <2>4
       DEF Moves, Forward, Driving, Broken, ActionClosed
  <2>. QED BY <1>2, <2>4, <2>5 DEF LedgerStep
<1>4. CASE ~(act[r] = "running" /\ roll[r].status = "running")
  <2>1. UNCHANGED <<act, roll, sends>>
    BY <1>4 DEF FinalizeK8sRolloutMutation, BothStillRun, ledger
  <2>. QED BY <2>1, SameIsStill DEF LedgerStep
<1>. QED BY <1>3, <1>4

\* The compare-and-swap moves the row to what was judged of that same row.
LEMMA PersistStep ==
    ASSUME IInv, NEW p \in Procs, PersistRollout(p)
    PROVE  LedgerStep
<1>. DEFINE r   == proc[p].job
           new == IF p \in Workers THEN Forget(p, "reread") ELSE Rest(p)
<1>1. /\ proc[p] \in Process /\ Fits(proc[p], act, roll, age)
      /\ proc[p].pc = "persist"
  BY DEF PersistRollout, IInv, TypeOK, ProcsOK
<1>2. /\ r \in Rollouts /\ Exists(r) /\ proc[p].row \in Row
      /\ rolloutReconcileDue(proc[p].row)
      /\ late[r] \in BOOLEAN /\ rbLate[r] \in BOOLEAN
  BY <1>1 DEF Fits, Resting, Exists, IInv, TypeOK, Process
<1>3. PICK ev \in Evidence :
         LET row == Judge(proc[p].row, ev, late[r], rbLate[r]) IN
         IF Swaps(p, row)
         THEN WriteRow(p, r, row, new) /\ UNCHANGED <<act, sends>>
         ELSE UNCHANGED <<act, roll, sends>>
  BY DEF PersistRollout, Judgements, ledger
<1>. DEFINE row == Judge(proc[p].row, ev, late[r], rbLate[r])
<1>4. CASE Swaps(p, row)
  <2>1. WriteRow(p, r, row, new) /\ UNCHANGED <<act, sends>>
    BY <1>3, <1>4
  <2>2. proc[p].cur /\ proc[p].row = roll[r]
    BY <1>1, <1>4 DEF Swaps, Fits
  <2>3. Sound(roll[r])
    BY <1>2 DEF IInv, RowsOK
  <2>4. /\ row.uid = roll[r].uid
        /\ roll[r].status \in Terminal => row.status = roll[r].status
        /\ row.status = roll[r].status \/ row.status \in Broken \cup {"succeeded"}
        /\ roll[r].rb \in {"failed", "succeeded"} => row.rb = roll[r].rb
    BY <1>2, <2>2, <2>3, JudgeOK
  <2>5. roll[r].status \in Driving \cup Broken /\ ActiveTarget(roll[r])
    BY <1>2, <2>2, <2>3 DEF rolloutReconcileDue, Sound, NeedsRollback,
       ActiveTarget, RollbackOpen
  <2>6. act' = [act EXCEPT ![r] = act[r]] /\ act[r] # "none"
    BY <1>2, <2>1 DEF Exists, IInv, TypeOK
  <2>. HIDE DEF r, row, new
  <2>7. OnlyRow(r) /\ roll'[r] = row /\ act'[r] = act[r]
    BY <1>2, <2>1, <2>6, WriteIsOnlyRow
  <2>8. Moves(r)
    BY <1>2, <2>4, <2>5, <2>7 DEF Moves, Forward, Terminal
  <2>. QED BY <1>2, <2>7, <2>8 DEF LedgerStep
<1>5. CASE ~Swaps(p, row)
  BY <1>3, <1>5, SameIsStill DEF LedgerStep
<1>. QED BY <1>4, <1>5

\* A claim and its result change the rollback's status only, from an open one.
LEMMA RollbackIsMove ==
    ASSUME IInv, NEW w \in Workers, NEW r \in Rollouts, NEW new, NEW row,
           Exists(r), roll[r].rb \in RollbackOpen,
           NEW b, row = [roll[r] EXCEPT !.rb = b],
           WriteRow(w, r, row, new), UNCHANGED <<act, sends>>
    PROVE  LedgerStep
<1>1. /\ w \in Procs /\ roll[r] \in Row /\ act[r] # "none"
      /\ act' = [act EXCEPT ![r] = act[r]]
  BY DEF Procs, Exists, IInv, TypeOK
<1>2. OnlyRow(r) /\ roll'[r] = row /\ act'[r] = act[r]
  BY <1>1, WriteIsOnlyRow
<1>3. row.uid = roll[r].uid /\ row.status = roll[r].status
  BY <1>1 DEF Row
<1>4. ActiveTarget(roll[r]) /\ roll[r].rb \notin {"failed", "succeeded"}
  BY DEF ActiveTarget, RollbackOpen
<1>5. Moves(r)
  BY <1>2, <1>3, <1>4 DEF Moves, Forward
<1>. QED BY <1>2, <1>5 DEF LedgerStep

\* So do both writes around the rollback request, under the claim.
LEMMA RollbackStep ==
    ASSUME IInv, NEW w \in Workers, ClaimRollback(w) \/ FinalizeRollback(w)
    PROVE  LedgerStep
<1>. DEFINE r == proc[w].job
<1>1. w \in Procs /\ Fits(proc[w], act, roll, age)
  BY DEF Procs, IInv, ProcsOK
<1>2. CASE ClaimRollback(w)
  <2>. DEFINE row == [proc[w].row EXCEPT !.rb = "running"]
             new == [proc[w] EXCEPT !.pc = "rbrequest", !.row = row, !.busy = 0]
  <2>1. proc[w].pc = "rbclaim"
    BY <1>2 DEF ClaimRollback
  <2>2. r \in Rollouts /\ Exists(r)
    BY <1>1, <2>1 DEF Fits, Resting, Exists
  <2>3. CASE Swaps(w, row)
    <3>1. proc[w].row = roll[r] /\ roll[r].rb \in RollbackOpen
      BY <1>1, <2>1, <2>3 DEF Swaps, Fits, RollbackOpen
    <3>2. WriteRow(w, r, row, new) /\ UNCHANGED <<act, sends>>
      BY <1>2, <2>3 DEF ClaimRollback
    <3>3. row = [roll[r] EXCEPT !.rb = "running"]
      BY <3>1
    <3>. HIDE DEF r, row, new
    <3>. QED BY <2>2, <3>1, <3>2, <3>3, RollbackIsMove
  <2>4. CASE ~Swaps(w, row)
    <3>1. UNCHANGED <<act, roll, sends>>
      BY <1>2, <2>4 DEF ClaimRollback, ledger
    <3>. QED BY <3>1, SameIsStill DEF LedgerStep
  <2>. QED BY <2>3, <2>4
<1>3. CASE FinalizeRollback(w)
  <2>. DEFINE row == RollbackRow(proc[w].row, proc[w].out)
             new == Forget(w, "sync")
             b   == IF Refused(proc[w].out) THEN "failed" ELSE "monitoring"
  <2>1. proc[w].pc = "rbfinal"
    BY <1>3 DEF FinalizeRollback
  <2>2. /\ r \in Rollouts /\ Exists(r)
        /\ proc[w].row = roll[r] /\ roll[r].rb \in RollbackOpen
    BY <1>1, <2>1 DEF Fits, Resting, Exists, RollbackPc, RollbackOpen
  <2>3. CASE Swaps(w, row)
    <3>1. WriteRow(w, r, row, new) /\ UNCHANGED <<act, sends>>
      BY <1>3, <2>3 DEF FinalizeRollback
    <3>2. row = [roll[r] EXCEPT !.rb = b]
      BY <2>2 DEF RollbackRow
    <3>. HIDE DEF r, row, new, b
    <3>. QED BY <2>2, <3>1, <3>2, RollbackIsMove
  <2>4. CASE ~Swaps(w, row)
    <3>1. UNCHANGED <<act, roll, sends>>
      BY <1>3, <2>4 DEF FinalizeRollback, ledger
    <3>. QED BY <3>1, SameIsStill DEF LedgerStep
  <2>. QED BY <2>3, <2>4
<1>. QED BY <1>2, <1>3

-----------------------------------------------------------------------------
(***************************************************************************)
(* What a step can be                                                      *)
(***************************************************************************)
\* Every step of the hub is one of the three kinds.
LEMMA StepKinds ==
    ASSUME IInv, [Next]_vars
    PROVE  LedgerStep
<1>1. ASSUME NEW h \in Handlers, Handle(h) \/ Answer(h)
      PROVE  LedgerStep
  BY <1>1, HandleStep, InsertStep, RejectStep DEF Answer
<1>2. ASSUME NEW p \in Procs, Run(p) \/ Crash(p) \/ StoreFails(p)
      PROVE  LedgerStep
  BY <1>2, OtherStep, StartStep, SendStep, FinalizeStep, PersistStep DEF Run
<1>3. ASSUME NEW w \in Workers, Reconcile(w)
      PROVE  LedgerStep
  BY <1>3, OtherStep, RollbackStep, SyncStep DEF Reconcile
<1>. QED BY <1>1, <1>2, <1>3, OtherStep DEF Next

(***************************************************************************)
(* No step of any process overwrites a terminal status, a settled rollback *)
(* or a closed action.                                                     *)
(***************************************************************************)
THEOREM VerdictsFinal == Spec => VerdictsAreFinal
<1>1. IInv /\ [Next]_vars => VerdictsKept
  <2>. SUFFICES ASSUME IInv, LedgerStep, NEW r \in Rollouts, Exists(r)
                PROVE  /\ roll[r].status \in Terminal
                          => roll'[r].status = roll[r].status
                       /\ roll[r].rb \in {"failed", "succeeded"}
                          => roll'[r].rb = roll[r].rb
                       /\ act[r] \in ActionClosed => act'[r] = act[r]
    BY StepKinds DEF VerdictsKept
  <2>1. CASE Still
    BY <2>1 DEF Still
  <2>2. ASSUME NEW q \in Rollouts, Sends(q)
        PROVE  UNCHANGED <<act, roll>>
    BY <2>2 DEF Sends
  <2>3. ASSUME NEW q \in Rollouts, OnlyRow(q), Enters(q)
        PROVE  q # r
    BY <2>3 DEF Enters, Conflict
  <2>4. ASSUME NEW q \in Rollouts, OnlyRow(q), Moves(q), q = r
        PROVE  /\ roll[r].status \in Terminal
                  => roll'[r].status = roll[r].status
               /\ roll[r].rb \in {"failed", "succeeded"}
                  => roll'[r].rb = roll[r].rb
               /\ act[r] \in ActionClosed => act'[r] = act[r]
    BY <2>4 DEF Moves, Forward, Terminal, Waiting, Driving, Broken
  <2>. QED BY <2>1, <2>2, <2>3, <2>4 DEF LedgerStep, OnlyRow
<1>. QED BY <1>1, Invariance, PTL DEF Spec, VerdictsAreFinal

-----------------------------------------------------------------------------
(***************************************************************************)
(* The abstract life of a rollout                                          *)
(***************************************************************************)
PhaseOf   == [r \in Rollouts |-> Phase(r)]
UidOf     == [r \in Rollouts |-> roll[r].uid]
SentOf    == [r \in Rollouts |-> sends[r] > 0]

\* An empty hub is an abstract one in which nothing was requested.
LEMMA LifecycleInit == Init => Lifecycle!Init
<1>. SUFFICES ASSUME Init PROVE Lifecycle!Init
  OBVIOUS
<1>1. \A r \in Rollouts : Phase(r) = "none" /\ roll[r].uid = None
  BY DEF Init, Phase, Exists, NoRow
<1>2. \A r \in Rollouts : (sends[r] > 0) = FALSE
  <2>1. \A r \in Rollouts : ~(sends[r] > 0)
    BY DEF Init
  <2>. QED BY <2>1
<1>. QED BY <1>1, <1>2 DEF Lifecycle!Init

\* A phase is given by the row of a rollout that exists.
LEMMA SamePhase ==
    ASSUME NEW r \in Rollouts, act'[r] # "none" <=> act[r] # "none",
           roll'[r] = roll[r]
    PROVE  Phase(r)' = Phase(r)
BY DEF Phase, Exists

\* What only reads or decides is no step of the abstract rollouts.
LEMMA StillRefines ==
    ASSUME Still
    PROVE  UNCHANGED Lifecycle!vars
<1>1. \A r \in Rollouts : Phase(r)' = Phase(r)
  BY SamePhase DEF Still
<1>. QED BY <1>1 DEF Still, Lifecycle!vars

\* The restart of a started rollout is the abstract send.
LEMMA SendRefines ==
    ASSUME IInv, NEW r \in Rollouts, Sends(r)
    PROVE  Lifecycle!Send(r)
<1>1. \A q \in Rollouts : Phase(q)' = Phase(q)
  BY SamePhase DEF Sends
<1>2. Phase(r) \in {"driving", "restoring", "over"}
  BY DEF Sends, Started, Phase
<1>3. UNCHANGED <<PhaseOf, UidOf>>
  BY <1>1 DEF Sends, PhaseOf, UidOf
<1>4. ~SentOf[r] /\ SentOf' = [SentOf EXCEPT ![r] = TRUE]
  <2>1. sends \in [Rollouts -> Nat]
    BY DEF IInv, TypeOK
  <2>2. sends'[r] = 1 /\ \A q \in Rollouts \ {r} : sends'[q] = sends[q]
    BY <2>1 DEF Sends
  <2>3. \A q \in Rollouts \ {r} : SentOf'[q] = SentOf[q]
    BY <2>2 DEF SentOf
  <2>4. SentOf[r] = FALSE /\ SentOf'[r] = TRUE
    <3>1. (sends[r] > 0) = FALSE /\ (sends'[r] > 0) = TRUE
      BY <2>2 DEF Sends
    <3>. QED BY <3>1, Zenon DEF SentOf
  <2>. QED BY <2>3, <2>4 DEF SentOf
<1>. QED BY <1>2, <1>3, <1>4 DEF Lifecycle!Send, PhaseOf, UidOf, SentOf

\* A target is free for the hub only if no abstract rollout holds it.
LEMMA EntersRefines ==
    ASSUME IInv, NEW r \in Rollouts, OnlyRow(r), Enters(r),
           NEW t \in Uids, t = roll'[r].uid
    PROVE  Lifecycle!Request(r, t)
<1>1. ~Exists(r) /\ Phase(r) = "none" /\ Phase(r)' = "waiting"
  BY DEF OnlyRow, Enters, Conflict, Phase, Exists
<1>2. \A q \in Rollouts \ {r} : Phase(q)' = Phase(q)
  BY SamePhase DEF OnlyRow
<1>3. \A q \in Rollouts : roll[q].uid = t
         => Phase(q) \notin {"waiting", "driving", "restoring"}
  BY <1>1 DEF Enters, Conflict, Phase, ActiveTarget
<1>4. PhaseOf[r] = "none" /\ PhaseOf' = [PhaseOf EXCEPT ![r] = "waiting"]
  BY <1>1, <1>2 DEF PhaseOf
<1>5. UidOf' = [UidOf EXCEPT ![r] = t]
  BY DEF OnlyRow, UidOf
<1>6. UNCHANGED SentOf
  BY DEF OnlyRow, SentOf
<1>. QED BY <1>3, <1>4, <1>5, <1>6
         DEF Lifecycle!Request, Lifecycle!Move, Lifecycle!Holding,
             PhaseOf, UidOf, SentOf

\* A row that moves forward moves one phase on, or none.
LEMMA MovesPhase ==
    ASSUME NEW r \in Rollouts, OnlyRow(r), Moves(r)
    PROVE  \/ Phase(r)' = Phase(r)
           \/ Phase(r) = "waiting" /\ Phase(r)' \in {"refused", "driving"}
           \/ Phase(r) = "driving" /\ Phase(r)' \in {"over", "restoring"}
           \/ Phase(r) = "restoring" /\ Phase(r)' = "over"
<1>1. Exists(r) /\ Exists(r)'
  BY DEF OnlyRow, Moves, Exists
<1>2. CASE roll[r].status \in Waiting /\ roll'[r].status \in {"running", "rejected"}
  BY <1>1, <1>2 DEF Phase, Waiting, Driving
<1>3. CASE roll[r].status \in Driving
           /\ roll'[r].status \in {"monitoring", "succeeded"} \cup Broken
  BY <1>1, <1>3 DEF Phase, Waiting, Driving, Broken
<1>4. CASE roll'[r].status = roll[r].status
  BY <1>1, <1>4 DEF Phase, Moves
<1>. QED BY <1>2, <1>3, <1>4 DEF Moves, Forward

\* A row that moves forward is an abstract advance, or nothing.
LEMMA MovesRefines ==
    ASSUME NEW r \in Rollouts, OnlyRow(r), Moves(r)
    PROVE  Lifecycle!Advance(r) \/ UNCHANGED Lifecycle!vars
<1>1. \A q \in Rollouts \ {r} : Phase(q)' = Phase(q)
  BY SamePhase DEF OnlyRow
<1>2. UNCHANGED UidOf
  BY DEF OnlyRow, Moves, UidOf
<1>3. UNCHANGED SentOf
  BY DEF OnlyRow, SentOf
<1>4. CASE Phase(r)' = Phase(r)
  <2>1. UNCHANGED PhaseOf
    BY <1>1, <1>4 DEF PhaseOf
  <2>. QED BY <1>2, <1>3, <2>1 DEF Lifecycle!vars, PhaseOf, UidOf, SentOf
<1>5. CASE Phase(r)' # Phase(r)
  <2>1. PhaseOf[r] = Phase(r) /\ PhaseOf' = [PhaseOf EXCEPT ![r] = Phase(r)']
    BY <1>1 DEF PhaseOf
  <2>. QED
    BY <1>2, <1>3, <1>5, <2>1, MovesPhase
       DEF Lifecycle!Advance, Lifecycle!Move, PhaseOf, UidOf, SentOf
<1>. QED BY <1>4, <1>5

(***************************************************************************)
(* The two ledgers, the leases, the compare-and-swaps and the processes    *)
(* implement the life of a rollout: it is requested on a free target, goes *)
(* through its phases in order and sends its restart at most once.         *)
(***************************************************************************)
THEOREM LifecycleImplemented == Spec => ImplementsLifecycle
<1>1. IInv /\ [Next]_vars => [Lifecycle!Next]_(Lifecycle!vars)
  <2>. SUFFICES ASSUME IInv, LedgerStep
                PROVE  Lifecycle!Next \/ UNCHANGED Lifecycle!vars
    BY StepKinds
  <2>1. CASE Still
    BY <2>1, StillRefines
  <2>2. ASSUME NEW r \in Rollouts, Sends(r)
        PROVE  Lifecycle!Next
    BY <2>2, SendRefines DEF Lifecycle!Next
  <2>3. ASSUME NEW r \in Rollouts, OnlyRow(r), Enters(r)
        PROVE  Lifecycle!Next
    <3>1. PICK t \in Uids : t = roll'[r].uid
      BY <2>3 DEF Enters
    <3>2. Lifecycle!Request(r, t)
      BY <2>3, <3>1, EntersRefines
    <3>. QED BY <3>2 DEF Lifecycle!Next
  <2>4. ASSUME NEW r \in Rollouts, OnlyRow(r), Moves(r)
        PROVE  Lifecycle!Next \/ UNCHANGED Lifecycle!vars
    BY <2>4, MovesRefines DEF Lifecycle!Next
  <2>. QED BY <2>1, <2>2, <2>3, <2>4 DEF LedgerStep
<1>. QED
  BY <1>1, LifecycleInit, Invariance, PTL
     DEF Spec, ImplementsLifecycle, Lifecycle!Spec
=============================================================================
