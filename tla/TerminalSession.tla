--------------------------- MODULE TerminalSession ---------------------------
(***************************************************************************)
(* Pod exec and terminal sessions: the k8s_pod_exec_sessions row, the      *)
(* requests that ask for a session, decide on it, open a browser terminal  *)
(* with a one-use ticket or run a single command, and the reapers of the   *)
(* hub's replicas, which clean up after a transport that disappeared.      *)
(*                                                                         *)
(* Every SQL statement or transaction is one step.  A tick is one          *)
(* terminalAuthRecheckInterval; the other limits are counted in ticks.     *)
(***************************************************************************)
EXTENDS Naturals, FiniteSets

CONSTANTS
    Sessions,     \* exec sessions
    Users,        \* administrators
    Transports,   \* browser streams and execute requests, each served once
    Reapers,      \* terminal session reapers, one per replica
    None,         \* no user, no claim, no session
    Timeout,      \* execSessionTimeout
    Grace,        \* the reaper's 30 seconds on top of it
    SetupLimit,   \* from a claim to the start of the stream's own deadline
    FinalLimit,   \* the 5 seconds a transition or finalization may take
    Tolerance,    \* terminalAuthLapseTolerance
    MaxFaults     \* bound: crashes and failing store calls

ASSUME LimitsAssumption ==
    /\ {Timeout, Grace, SetupLimit, FinalLimit, MaxFaults} \subseteq Nat
    /\ Tolerance \in Nat \ {0}

\* The reaper's grace covers what a connection takes beside its own deadline.
ASSUME GraceAssumption ==
    FinalLimit > 0 /\ SetupLimit + 2 * FinalLimit <= Grace

ASSUME NamesAssumption == None \notin Sessions \cup Users \cup Transports

VARIABLES
    row,      \* k8s_pod_exec_sessions
    age,      \* ticks since the row's updated_at
    tr,       \* the transports
    reaper,   \* the row a reaper has read, if any
    revoked,  \* transports whose operator's credential was revoked
    blind,    \* ticks a shell has outlived its operator's credential (history)
    uses,     \* shells and commands connected per session (history)
    faults    \* crashes and failing store calls so far

vars == <<row, age, tr, reaper, revoked, blind, uses, faults>>

Status == {"none", "denied", "pending_approval", "rejected", "ready",
           "connecting", "running", "completed", "failed"}

Row == [status : Status, claim : Transports \cup {None},
        requestedBy : Users \cup {None}, decidedBy : Users \cup {None}]

Pc == {"idle", "ticket", "setup", "prepare", "open", "mark", "relay", "exec",
       "final", "fail", "execfinal", "done"}

Transport == [pc : Pc,
              session : Sessions \cup {None},
              shell : BOOLEAN,          \* its Kubernetes stream is open
              busy : 0 .. SetupLimit + FinalLimit,
              time : 0 .. Timeout,      \* ticks of its deadline used up
              checked : BOOLEAN,        \* its credential, in this tick
              lapses : 0 .. Tolerance,
              outcome : {"completed", "failed"}]

Idle == [pc |-> "idle", session |-> None, shell |-> FALSE, busy |-> 0,
         time |-> 0, checked |-> FALSE, lapses |-> 0, outcome |-> "completed"]

Done == [Idle EXCEPT !.pc = "done"]

Free == [session |-> None, status |-> "none", current |-> FALSE]

(***************************************************************************)
(* Bookkeeping                                                             *)
(***************************************************************************)
\* The row's updated_at moves, so what a reaper has read is out of date.
WriteRow(s, new) ==
    /\ row' = [row EXCEPT ![s] = new]
    /\ age' = [age EXCEPT ![s] = 0]
    /\ reaper' = [k \in Reapers |->
                    IF reaper[k].session = s
                    THEN [reaper[k] EXCEPT !.current = FALSE] ELSE reaper[k]]

KeepRow == UNCHANGED <<row, age, reaper>>

Step(p, new) == tr' = [tr EXCEPT ![p] = new]

Goto(p, label) == Step(p, [tr[p] EXCEPT !.pc = label, !.busy = 0])

Fault == faults < MaxFaults /\ faults' = faults + 1

Stale(s) == age[s] >= Timeout + Grace

(***************************************************************************)
(* Asking and deciding                                                     *)
(***************************************************************************)
\* The policy engine denies, asks for a second person, or allows.
RequestSession(s, u) ==
    /\ row[s].status = "none"
    /\ \E status \in {"denied", "pending_approval", "ready"} :
          WriteRow(s, [row[s] EXCEPT !.status = status, !.requestedBy = u])
    /\ UNCHANGED <<tr, revoked, blind, uses, faults>>

Approve(s, u) ==
    /\ row[s].status = "pending_approval"
    /\ u # row[s].requestedBy
    /\ WriteRow(s, [row[s] EXCEPT !.status = "ready", !.decidedBy = u])
    /\ UNCHANGED <<tr, revoked, blind, uses, faults>>

Reject(s, u) ==
    /\ row[s].status = "pending_approval"
    /\ WriteRow(s, [row[s] EXCEPT !.status = "rejected", !.decidedBy = u])
    /\ UNCHANGED <<tr, revoked, blind, uses, faults>>

(***************************************************************************)
(* The browser terminal                                                    *)
(***************************************************************************)
Released(r) == [r EXCEPT !.status = "ready", !.claim = None]

\* A ticket for a ready session; a stale connection is recovered first.
IssueTicket(p, s) ==
    /\ tr[p].pc = "idle"
    /\ \/ row[s].status = "ready" /\ KeepRow
       \/ row[s].status = "connecting" /\ Stale(s) /\ WriteRow(s, Released(row[s]))
    /\ Step(p, [tr[p] EXCEPT !.pc = "ticket", !.session = s])
    /\ UNCHANGED <<revoked, blind, uses, faults>>

\* Mutant: the claim does not look at the session's status.
MayClaimAnyway(p) == row[tr[p].session].status \in {"ready", "connecting"}

MayClaim(p) == row[tr[p].session].status = "ready"

\* The ticket and the session, in one transaction.
ConsumeTicket(p) ==
    /\ tr[p].pc = "ticket"
    /\ MayClaim(p)
    /\ p \notin revoked
    /\ LET s == tr[p].session IN
         WriteRow(s, [row[s] EXCEPT !.status = "connecting", !.claim = p])
    /\ Goto(p, "setup")
    /\ UNCHANGED <<revoked, blind, uses, faults>>

\* The ticket has expired, or its session is not to be had.
RefuseTicket(p) ==
    /\ tr[p].pc = "ticket"
    /\ Step(p, Done)
    /\ KeepRow
    /\ UNCHANGED <<revoked, blind, uses, faults>>

\* The handler reads the row again.
ReadClaimed(p) ==
    /\ tr[p].pc = "setup"
    /\ IF row[tr[p].session].status = "connecting"
       THEN Step(p, [tr[p] EXCEPT !.pc = "prepare"])
       ELSE Step(p, Done)
    /\ KeepRow
    /\ UNCHANGED <<revoked, blind, uses, faults>>

\* Cluster and client are there: the stream's deadline starts.
StartStream(p) ==
    /\ tr[p].pc = "prepare"
    /\ Goto(p, "open")
    /\ KeepRow
    /\ UNCHANGED <<revoked, blind, uses, faults>>

OpenPodTerminal(p) ==
    /\ tr[p].pc = "open"
    /\ tr[p].time < Timeout
    /\ Step(p, [tr[p] EXCEPT !.pc = "mark", !.shell = TRUE])
    /\ KeepRow
    /\ UNCHANGED <<revoked, blind, uses, faults>>

\* No cluster, no client, no browser or no pod.
ConnectFails(p) ==
    /\ tr[p].pc \in {"prepare", "open"}
    /\ Step(p, [tr[p] EXCEPT !.pc = "fail", !.busy = 0, !.outcome = "failed"])
    /\ KeepRow
    /\ UNCHANGED <<revoked, blind, uses, faults>>

Owns(p) == LET r == row[tr[p].session] IN r.status = "connecting" /\ r.claim = p

Connected(p) ==
    LET s == tr[p].session IN
    /\ WriteRow(s, [row[s] EXCEPT !.status = "running"])
    /\ uses' = [uses EXCEPT ![s] = @ + 1]

Unmarked(p) ==
    Step(p, [tr[p] EXCEPT !.pc = "fail", !.busy = 0, !.outcome = "failed"])

MarkConnected(p) ==
    /\ tr[p].pc = "mark"
    /\ IF Owns(p)
       THEN Connected(p) /\ Step(p, [tr[p] EXCEPT !.pc = "relay", !.checked = TRUE])
       ELSE Unmarked(p) /\ KeepRow /\ UNCHANGED uses
    /\ UNCHANGED <<revoked, blind, faults>>

\* The update fails or times out, perhaps after it was made.
MarkUnknown(p) ==
    /\ tr[p].pc = "mark"
    /\ Fault
    /\ \/ Owns(p) /\ Connected(p)
       \/ KeepRow /\ UNCHANGED uses
    /\ Unmarked(p)
    /\ UNCHANGED <<revoked, blind>>

\* The relay loop is left: the stream is closed, then the row finalized.
Leave(p, outcome) ==
    Step(p, [tr[p] EXCEPT !.pc = "final", !.shell = FALSE, !.busy = 0,
                          !.outcome = outcome])

RelayEnds(p) ==
    /\ tr[p].pc = "relay"
    /\ \E outcome \in {"completed", "failed"} : Leave(p, outcome)
    /\ KeepRow
    /\ UNCHANGED <<revoked, blind, uses, faults>>

Lapse(p) ==
    IF tr[p].lapses + 1 < Tolerance
    THEN Step(p, [tr[p] EXCEPT !.checked = TRUE, !.lapses = @ + 1])
    ELSE Leave(p, "failed")

\* authTicker: valid, revoked, or impossible to tell.
RecheckAuth(p) ==
    /\ tr[p].pc = "relay"
    /\ ~tr[p].checked
    /\ \/ /\ p \notin revoked
          /\ Step(p, [tr[p] EXCEPT !.checked = TRUE, !.lapses = 0])
       \/ p \in revoked /\ Leave(p, "failed")
       \/ Lapse(p)
    /\ KeepRow
    /\ UNCHANGED <<revoked, blind, uses, faults>>

RevokeCredential(p) ==
    /\ tr[p].pc # "done"
    /\ p \notin revoked
    /\ revoked' = revoked \cup {p}
    /\ KeepRow
    /\ UNCHANGED <<tr, blind, uses, faults>>

MayFinalize(p) ==
    LET r == row[tr[p].session] IN
    /\ r.claim = p
    /\ r.status \in IF tr[p].outcome = "failed"
                    THEN {"connecting", "running"} ELSE {"running"}

Finalized(p) == [row[tr[p].session] EXCEPT !.status = tr[p].outcome, !.claim = None]

\* After the relay, and for a connection that failed.
FinalizeTerminal(p) ==
    /\ tr[p].pc \in {"final", "fail"}
    /\ IF MayFinalize(p) THEN WriteRow(tr[p].session, Finalized(p)) ELSE KeepRow
    /\ Step(p, Done)
    /\ UNCHANGED <<revoked, blind, uses, faults>>

(***************************************************************************)
(* The single command                                                      *)
(***************************************************************************)
StartExec(p, s) ==
    /\ tr[p].pc = "idle"
    /\ row[s].status = "ready"
    /\ WriteRow(s, [row[s] EXCEPT !.status = "running"])
    /\ uses' = [uses EXCEPT ![s] = @ + 1]
    /\ Step(p, [tr[p] EXCEPT !.pc = "exec", !.session = s, !.shell = TRUE])
    /\ UNCHANGED <<revoked, blind, faults>>

ExecEnds(p) ==
    /\ tr[p].pc = "exec"
    /\ \E outcome \in {"completed", "failed"} :
          Step(p, [tr[p] EXCEPT !.pc = "execfinal", !.shell = FALSE, !.busy = 0,
                                !.outcome = outcome])
    /\ KeepRow
    /\ UNCHANGED <<revoked, blind, uses, faults>>

FinalizeExec(p) ==
    /\ tr[p].pc = "execfinal"
    /\ IF row[tr[p].session].status = "running"
       THEN WriteRow(tr[p].session, Finalized(p)) ELSE KeepRow
    /\ Step(p, Done)
    /\ UNCHANGED <<revoked, blind, uses, faults>>

\* The process dies, or its last store call fails: the row stays as it is.
Disappear(p) ==
    /\ tr[p].pc \notin {"idle", "done"}
    /\ Fault
    /\ Step(p, Done)
    /\ KeepRow
    /\ UNCHANGED <<revoked, blind, uses>>

(***************************************************************************)
(* The reaper                                                              *)
(***************************************************************************)
\* Mutant: a connection that never came about is not looked for.
DueRunning(s) == row[s].status = "running" /\ Stale(s)

Due(s) == row[s].status \in {"connecting", "running"} /\ Stale(s)

ReapList(k, s) ==
    /\ reaper[k] = Free
    /\ Due(s)
    /\ reaper' = [reaper EXCEPT ![k] = [session |-> s, status |-> row[s].status,
                                        current |-> TRUE]]
    /\ UNCHANGED <<row, age, tr, revoked, blind, uses, faults>>

\* Mutant: a running session is made ready again as well.
ReapedAsReady(r) == Released(r)

Reaped(r) ==
    IF r.status = "connecting" THEN Released(r)
    ELSE [r EXCEPT !.status = "failed", !.claim = None]

\* Both updates compare the status and the updated_at that were read.
ReapApply(k) ==
    /\ reaper[k] # Free
    /\ LET s == reaper[k].session IN
         IF reaper[k].current
         THEN /\ row' = [row EXCEPT ![s] = Reaped(row[s])]
              /\ age' = [age EXCEPT ![s] = 0]
              /\ reaper' = [j \in Reapers |->
                              IF j = k THEN Free
                              ELSE IF reaper[j].session = s
                              THEN [reaper[j] EXCEPT !.current = FALSE]
                              ELSE reaper[j]]
         ELSE reaper' = [reaper EXCEPT ![k] = Free] /\ UNCHANGED <<row, age>>
    /\ UNCHANGED <<tr, revoked, blind, uses, faults>>

(***************************************************************************)
(* Time                                                                    *)
(***************************************************************************)
InSetup(p) == tr[p].pc \in {"setup", "prepare"}
InClosing(p) == tr[p].pc \in {"mark", "final", "fail", "execfinal"}
UnderDeadline(p) == tr[p].pc \in {"open", "relay", "exec"}

\* Nobody is kept waiting beyond the limit of what it does.
OnTime(p) ==
    /\ InSetup(p) => tr[p].busy < SetupLimit
    /\ InClosing(p) => tr[p].busy < FinalLimit
    /\ UnderDeadline(p) => tr[p].time < Timeout
    /\ tr[p].pc = "relay" => tr[p].checked

Lasts(p) ==
    [tr[p] EXCEPT
        !.busy = IF InSetup(p) \/ InClosing(p) THEN @ + 1 ELSE @,
        !.time = IF (UnderDeadline(p) \/ tr[p].pc = "mark") /\ @ < Timeout
                 THEN @ + 1 ELSE @,
        !.checked = FALSE]

Tick ==
    /\ \A p \in Transports : OnTime(p)
    /\ \E s \in Sessions : row[s].status \in {"connecting", "running"} /\ ~Stale(s)
    /\ age' = [s \in Sessions |-> IF Stale(s) THEN age[s] ELSE age[s] + 1]
    /\ tr' = [p \in Transports |-> Lasts(p)]
    /\ blind' = [p \in Transports |->
                   IF tr[p].pc = "relay" /\ p \in revoked THEN blind[p] + 1
                   ELSE blind[p]]
    /\ UNCHANGED <<row, reaper, revoked, uses, faults>>

-----------------------------------------------------------------------------
Init ==
    /\ row = [s \in Sessions |-> [status |-> "none", claim |-> None,
                                  requestedBy |-> None, decidedBy |-> None]]
    /\ age = [s \in Sessions |-> 0]
    /\ tr = [p \in Transports |-> Idle]
    /\ reaper = [k \in Reapers |-> Free]
    /\ revoked = {}
    /\ blind = [p \in Transports |-> 0]
    /\ uses = [s \in Sessions |-> 0]
    /\ faults = 0

\* What a running request does next by itself.
Proceed(p) ==
    \/ ConsumeTicket(p) \/ RefuseTicket(p) \/ ReadClaimed(p) \/ StartStream(p)
    \/ OpenPodTerminal(p) \/ ConnectFails(p) \/ MarkConnected(p)
    \/ RelayEnds(p) \/ RecheckAuth(p) \/ FinalizeTerminal(p)
    \/ ExecEnds(p) \/ FinalizeExec(p)

Reap(k) == ReapApply(k) \/ \E s \in Sessions : ReapList(k, s)

Next ==
    \/ \E s \in Sessions, u \in Users :
          RequestSession(s, u) \/ Approve(s, u) \/ Reject(s, u)
    \/ \E p \in Transports, s \in Sessions : IssueTicket(p, s) \/ StartExec(p, s)
    \/ \E p \in Transports :
          Proceed(p) \/ MarkUnknown(p) \/ RevokeCredential(p) \/ Disappear(p)
    \/ \E k \in Reapers : Reap(k)
    \/ Tick

Spec == Init /\ [][Next]_vars

-----------------------------------------------------------------------------
\* Every variable keeps its type.
TypeOK ==
    /\ row \in [Sessions -> Row]
    /\ age \in [Sessions -> 0 .. Timeout + Grace]
    /\ tr \in [Transports -> Transport]
    /\ reaper \in [Reapers -> [session : Sessions \cup {None}, status : Status,
                               current : BOOLEAN]]
    /\ revoked \subseteq Transports
    /\ blind \in [Transports -> Nat]
    /\ uses \in [Sessions -> Nat]
    /\ faults \in 0 .. MaxFaults

(***************************************************************************)
(* Two transports never have a Kubernetes stream open for one session, not *)
(* even for a moment: a recovered connection is really dead.               *)
(***************************************************************************)
OneShellPerSession ==
    \A p, q \in Transports :
        tr[p].shell /\ tr[q].shell /\ tr[p].session = tr[q].session => p = q

(***************************************************************************)
(* A reaper never takes the row from a transport that is still relaying or *)
(* executing: it stays running, under that transport's claim.              *)
(***************************************************************************)
LiveTransportKeepsRow ==
    \A p \in Transports :
        /\ tr[p].pc = "relay" =>
              row[tr[p].session].status = "running" /\ row[tr[p].session].claim = p
        /\ tr[p].pc = "exec" =>
              row[tr[p].session].status = "running" /\ row[tr[p].session].claim = None

(***************************************************************************)
(* Where the policy asks for an approval, nothing is connected before a    *)
(* second person gave it.                                                  *)
(***************************************************************************)
SecondPersonDecides ==
    \A s \in Sessions :
        uses[s] > 0 /\ row[s].decidedBy # None =>
            row[s].decidedBy # row[s].requestedBy

(***************************************************************************)
(* A shell outlives its operator's credential by the tolerated lapses and  *)
(* no more.                                                                *)
(***************************************************************************)
RevokedShellCloses == \A p \in Transports : blind[p] <= Tolerance

(***************************************************************************)
(* The session's state keeps its type; no two shells of a session are open *)
(* (store/k8s_pod_exec.go:116); no reaper takes the row of a transport     *)
(* that still uses it; who decides is not who asked; and a shell closes    *)
(* once its operator's credential is revoked.                              *)
(***************************************************************************)
SessionInv ==
    /\ TypeOK
    /\ OneShellPerSession
    /\ LiveTransportKeepsRow
    /\ SecondPersonDecides
    /\ RevokedShellCloses

Phase(status) ==
    CASE status = "none" -> "none"
      [] status = "pending_approval" -> "asked"
      [] status \in {"denied", "rejected"} -> "refused"
      [] status \in {"ready", "connecting"} -> "granted"
      [] status = "running" -> "using"
      [] status \in {"completed", "failed"} -> "over"

Grant == INSTANCE TerminalGrant WITH
    phase <- [s \in Sessions |-> Phase(row[s].status)],
    used <- [s \in Sessions |-> uses[s] > 0]

\* Crashes, recoveries and races included, a grant is used at most once.
ImplementsGrant == Grant!Spec

\* A session whose transport is gone does not stay connecting or running.
SessionsSettle ==
    \A s \in Sessions :
        row[s].status \in {"connecting", "running"} ~>
            row[s].status \notin {"connecting", "running"}
=============================================================================
