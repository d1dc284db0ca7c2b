---------------------------- MODULE ClaimProofs ----------------------------
(***************************************************************************)
(* Proofs about the two users of a claim that outlives its holder: exec    *)
(* sessions, for any number of sessions, users, transports and reapers,    *)
(* and the reconcile of a service instance, for any number of workers and  *)
(* requests.                                                               *)
(*                                                                         *)
(* What has to be shown of a session is that a recovered or reaped one is  *)
(* dead: a transport that can still open or use a stream has not used up   *)
(* the time after which a reaper calls its row stale.  The inductive       *)
(* invariant therefore bounds the age of a row by the time its transport   *)
(* has spent at each stage of its way.                                     *)
(***************************************************************************)
EXTENDS MCClaims, TLAPS

-----------------------------------------------------------------------------
(***************************************************************************)
(* The inductive invariant                                                 *)
(***************************************************************************)
Over == {"completed", "failed"}

Claimed(p, r) == r.status = "connecting" /\ r.claim = p

(***************************************************************************)
(* Transport p in state t, with its session's row r of age a: the row is   *)
(* p's from the claim on, and younger than the reaper's limit.             *)
(***************************************************************************)
Covered(p, t, r, a) ==
    /\ t.pc \in {"setup", "prepare"} => /\ Claimed(p, r)
                                        /\ a <= t.busy /\ t.busy <= SetupLimit
    /\ t.pc = "open" => /\ Claimed(p, r)
                        /\ a <= SetupLimit + t.time /\ t.busy = 0
    /\ t.pc = "mark" => /\ Claimed(p, r)
                        /\ a < SetupLimit + Timeout + t.busy
                        /\ t.busy <= FinalLimit
    /\ t.pc = "relay" => r.status = "running" /\ r.claim = p /\ a <= t.time
    /\ t.pc = "fail" /\ t.shell =>
          /\ r.status \in {"connecting", "running"} /\ r.claim = p
          /\ a < SetupLimit + Timeout + FinalLimit + t.busy
          /\ t.busy <= FinalLimit
    /\ t.pc = "exec" => r.status = "running" /\ r.claim = None /\ a <= t.time
    /\ t.pc = "execfinal" => /\ r.status \in {"running"} \cup Over
                             /\ r.status = "running" => r.claim = None

Serving(p) == tr[p].pc \notin {"idle", "done"}

RowsCovered ==
    \A p \in Transports :
        LET s == tr[p].session IN
        /\ Serving(p) => s \in Sessions /\ Covered(p, tr[p], row[s], age[s])
        /\ tr[p].shell => tr[p].pc \in {"mark", "relay", "exec", "fail"}

\* A session runs one command.
Commands(p) == tr[p].pc \in {"exec", "execfinal"}

OneCommand ==
    \A p, q \in Transports :
        Commands(p) /\ Commands(q) /\ tr[p].session = tr[q].session => p = q

\* What a reaper has read and nobody has written since is due still.
ReapersInformed ==
    \A k \in Reapers :
        reaper[k].current => reaper[k].session \in Sessions /\ Due(reaper[k].session)

\* Who decided, whose row it can be, and what a session that was used can be.
Decided(r, n) ==
    /\ r.status \notin {"connecting", "running"} => r.claim = None
    /\ r.status \in {"none", "pending_approval"} => r.decidedBy = None
    /\ r.status # "rejected" /\ r.decidedBy # None => r.decidedBy # r.requestedBy
    /\ n > 0 => r.status \in {"running"} \cup Over

AllDecided == \A s \in Sessions : Decided(row[s], uses[s])

\* A shell that is blind has used up a lapse for every tick but the last.
Trusted(p, t, b) ==
    /\ p \notin revoked => b = 0
    /\ t.pc \in {"idle", "ticket", "setup", "prepare", "open", "mark"} =>
          b = 0 /\ t.lapses = 0
    /\ t.pc = "relay" => /\ t.lapses < Tolerance
                         /\ b <= t.lapses + 1
                         /\ t.checked => b <= t.lapses
    /\ b <= Tolerance

AllTrusted == \A p \in Transports : Trusted(p, tr[p], blind[p])

ClaimInv ==
    /\ TypeOK
    /\ RowsCovered
    /\ OneCommand
    /\ ReapersInformed
    /\ AllDecided
    /\ AllTrusted

-----------------------------------------------------------------------------
(***************************************************************************)
(* Types                                                                   *)
(***************************************************************************)
\* What the type invariant says of each session and each transport.
LEMMA Types ==
    ASSUME TypeOK
    PROVE  /\ \A s \in Sessions : /\ row[s] \in Row /\ age[s] \in Nat
                                  /\ age[s] <= Timeout + Grace /\ uses[s] \in Nat
           /\ \A p \in Transports : /\ tr[p] \in Transport /\ blind[p] \in Nat
                                    /\ tr[p].busy \in Nat /\ tr[p].time \in Nat
                                    /\ tr[p].time <= Timeout /\ tr[p].lapses \in Nat
           /\ Timeout \in Nat /\ Grace \in Nat /\ SetupLimit \in Nat
           /\ FinalLimit \in Nat /\ Tolerance \in Nat
<1>1. Timeout \in Nat /\ Grace \in Nat /\ SetupLimit \in Nat
      /\ FinalLimit \in Nat /\ Tolerance \in Nat
  BY LimitsAssumption
<1>. QED BY <1>1 DEF TypeOK, Transport

\* A write of a row keeps the types of what it touches.
LEMMA WriteRowTypes ==
    ASSUME TypeOK, NEW s \in Sessions, NEW new \in Row, WriteRow(s, new)
    PROVE  /\ row' \in [Sessions -> Row]
           /\ age' \in [Sessions -> 0 .. Timeout + Grace]
           /\ reaper' \in [Reapers -> [session : Sessions \cup {None}, status : Status,
                                       current : BOOLEAN]]
<1>1. 0 \in 0 .. Timeout + Grace
  BY LimitsAssumption
<1>2. row' \in [Sessions -> Row] /\ age' \in [Sessions -> 0 .. Timeout + Grace]
  BY <1>1 DEF TypeOK, WriteRow
<1>3. \A k \in Reapers : reaper'[k] \in [session : Sessions \cup {None},
                                         status : Status, current : BOOLEAN]
  BY DEF TypeOK, WriteRow
<1>. QED BY <1>2, <1>3 DEF WriteRow

\* So does a step of a transport.
LEMMA StepTypes ==
    ASSUME TypeOK, NEW p \in Transports, NEW new \in Transport, Step(p, new)
    PROVE  tr' \in [Transports -> Transport]
BY DEF TypeOK, Step

\* The counters of a transport may start.
LEMMA Zeros ==
    /\ 0 \in 0 .. SetupLimit + FinalLimit /\ 0 \in 0 .. Timeout /\ 0 \in 0 .. Tolerance
    /\ SetupLimit \in Nat /\ FinalLimit \in Nat /\ Timeout \in Nat
    /\ Grace \in Nat /\ Tolerance \in Nat \ {0}
BY LimitsAssumption

\* A transport that is done is one.
LEMMA DoneType == Done \in Transport
BY Zeros DEF Transport, Done, Idle, Pc

\* The rows that requests and decisions put in place of a session's.
LEMMA DecisionRows ==
    ASSUME NEW r \in Row, NEW st \in Status, NEW u \in Users
    PROVE  /\ [r EXCEPT !.status = st, !.requestedBy = u] \in Row
           /\ [r EXCEPT !.status = st, !.decidedBy = u] \in Row
BY DEF Row

(***************************************************************************)
(* The rows that transports and reapers put in its place: who asked and    *)
(* who decided stays.                                                      *)
(***************************************************************************)
SamePeople(r, n) == n.requestedBy = r.requestedBy /\ n.decidedBy = r.decidedBy

\* A change of the status alone.
LEMMA StatusRow ==
    ASSUME NEW r \in Row, NEW st \in Status
    PROVE  LET n == [r EXCEPT !.status = st] IN
           n \in Row /\ n.status = st /\ n.claim = r.claim /\ SamePeople(r, n)
BY DEF Row, SamePeople

\* A change of the status and the claim.
LEMMA ClaimRow ==
    ASSUME NEW r \in Row, NEW st \in Status, NEW c \in Transports \cup {None}
    PROVE  LET n == [r EXCEPT !.status = st, !.claim = c] IN
           n \in Row /\ n.status = st /\ n.claim = c /\ SamePeople(r, n)
BY DEF Row, SamePeople

\* What a recovery and a reaper make of a row.
LEMMA ReapedRows ==
    ASSUME NEW r \in Row
    PROVE  /\ Released(r) \in Row /\ Released(r).status = "ready"
           /\ Released(r).claim = None /\ SamePeople(r, Released(r))
           /\ Reaped(r) \in Row /\ Reaped(r).claim = None
           /\ SamePeople(r, Reaped(r))
           /\ Reaped(r).status = IF r.status = "connecting" THEN "ready" ELSE "failed"
<1>1. /\ Released(r) \in Row /\ Released(r).status = "ready"
      /\ Released(r).claim = None /\ SamePeople(r, Released(r))
  BY ClaimRow, ZenonT(60) DEF Released, Status
<1>2. LET n == [r EXCEPT !.status = "failed", !.claim = None] IN
      n \in Row /\ n.status = "failed" /\ n.claim = None /\ SamePeople(r, n)
  BY ClaimRow DEF Status
<1>. QED BY <1>1, <1>2 DEF Reaped

\* Requests and decisions keep the types.
LEMMA RequestTypes ==
    ASSUME TypeOK, NEW s \in Sessions, NEW u \in Users,
           RequestSession(s, u) \/ Approve(s, u) \/ Reject(s, u)
    PROVE  TypeOK'
<1>1. row[s] \in Row
  BY Types
<1>2. PICK new \in Row : WriteRow(s, new)
  <2>1. {"denied", "pending_approval", "ready", "rejected"} \subseteq Status
    BY DEF Status
  <2>2. CASE RequestSession(s, u)
    <3>1. PICK st \in {"denied", "pending_approval", "ready"} :
             WriteRow(s, [row[s] EXCEPT !.status = st, !.requestedBy = u])
      BY <2>2 DEF RequestSession
    <3>2. [row[s] EXCEPT !.status = st, !.requestedBy = u] \in Row
      BY <1>1, <2>1, DecisionRows
    <3>. QED BY <3>1, <3>2
  <2>3. CASE Approve(s, u)
    <3>1. [row[s] EXCEPT !.status = "ready", !.decidedBy = u] \in Row
      BY <1>1, <2>1, DecisionRows
    <3>. QED BY <2>3, <3>1 DEF Approve
  <2>4. CASE Reject(s, u)
    <3>1. [row[s] EXCEPT !.status = "rejected", !.decidedBy = u] \in Row
      BY <1>1, <2>1, DecisionRows
    <3>. QED BY <2>4, <3>1 DEF Reject
  <2>. QED BY <2>2, <2>3, <2>4
<1>3. UNCHANGED <<tr, revoked, blind, uses, faults>>
  BY DEF RequestSession, Approve, Reject
<1>. QED BY <1>2, <1>3, WriteRowTypes DEF TypeOK

(***************************************************************************)
(* A step of a transport and, if it writes one, of a session's row.        *)
(***************************************************************************)
Moves(p, t) == Step(p, t) /\ KeepRow /\ UNCHANGED uses

Writes(p, t, s, r) == Step(p, t) /\ WriteRow(s, r)

\* Such steps keep the types.
LEMMA MovesTypes ==
    ASSUME TypeOK, NEW p \in Transports, NEW t \in Transport, Moves(p, t),
           UNCHANGED <<revoked, blind>>, faults' \in 0 .. MaxFaults
    PROVE  TypeOK'
<1>1. tr' \in [Transports -> Transport]
  BY StepTypes DEF Moves
<1>. QED BY <1>1 DEF TypeOK, Moves, KeepRow

\* Likewise.
LEMMA WritesTypes ==
    ASSUME TypeOK, NEW p \in Transports, NEW t \in Transport,
           NEW s \in Sessions, NEW r \in Row, Writes(p, t, s, r),
           UNCHANGED <<revoked, blind>>, faults' \in 0 .. MaxFaults,
           uses' \in [Sessions -> Nat]
    PROVE  TypeOK'
<1>1. tr' \in [Transports -> Transport]
  BY StepTypes DEF Writes
<1>2. /\ row' \in [Sessions -> Row]
      /\ age' \in [Sessions -> 0 .. Timeout + Grace]
      /\ reaper' \in [Reapers -> [session : Sessions \cup {None}, status : Status,
                                  current : BOOLEAN]]
  BY WriteRowTypes DEF Writes
<1>. QED BY <1>1, <1>2 DEF TypeOK

-----------------------------------------------------------------------------
(***************************************************************************)
(* Steps of transports                                                     *)
(***************************************************************************)
\* What a transport has to be when its session's row is r, of age a.
Fits(p, t, r, a) ==
    /\ t.pc \notin {"idle", "done"} => t.session \in Sessions /\ Covered(p, t, r, a)
    /\ t.shell => t.pc \in {"mark", "relay", "exec", "fail"}

\* A transport becomes a command only by starting one.
StaysCommand(p, t) ==
    t.pc \in {"exec", "execfinal"} => Commands(p) /\ t.session = tr[p].session

\* A step of a transport that touches no row.
LEMMA MovesOK ==
    ASSUME ClaimInv, NEW p \in Transports, NEW t \in Transport, Moves(p, t),
           UNCHANGED <<revoked, blind>>, faults' \in 0 .. MaxFaults,
           Fits(p, t, row[t.session], age[t.session]), StaysCommand(p, t),
           Trusted(p, t, blind[p])
    PROVE  ClaimInv'
<1>1. TypeOK'
  BY MovesTypes DEF ClaimInv
<1>2. /\ tr'[p] = t
      /\ \A q \in Transports : q # p => tr'[q] = tr[q]
  BY DEF Moves, Step, ClaimInv, TypeOK
<1>3. UNCHANGED <<row, age, reaper, uses>>
  BY DEF Moves, KeepRow
<1>4. RowsCovered'
  BY <1>2, <1>3 DEF ClaimInv, RowsCovered, Serving, Fits
<1>5. OneCommand'
  BY <1>2 DEF ClaimInv, OneCommand, Commands, StaysCommand
<1>6. ReapersInformed' /\ AllDecided'
  BY <1>3 DEF ClaimInv, ReapersInformed, Due, Stale, AllDecided
<1>7. AllTrusted'
  BY <1>2 DEF ClaimInv, AllTrusted, Trusted
<1>. QED BY <1>1, <1>4, <1>5, <1>6, <1>7 DEF ClaimInv

\* Whoever writes a row of its own leaves the other rows as they were.
LEMMA WrittenRow ==
    ASSUME TypeOK, NEW s \in Sessions, NEW r, WriteRow(s, r)
    PROVE  /\ row'[s] = r /\ age'[s] = 0
           /\ \A o \in Sessions : o # s => row'[o] = row[o] /\ age'[o] = age[o]
BY DEF TypeOK, WriteRow

\* A write takes its row away from the reapers.
LEMMA WriteInforms ==
    ASSUME ClaimInv, NEW s \in Sessions, NEW r, WriteRow(s, r)
    PROVE  ReapersInformed'
<1>. SUFFICES ASSUME NEW k \in Reapers, reaper'[k].current
              PROVE  /\ reaper'[k].session \in Sessions
                     /\ row'[reaper'[k].session].status \in {"connecting", "running"}
                     /\ age'[reaper'[k].session] >= Timeout + Grace
  BY DEF ReapersInformed, Due, Stale
<1>1. reaper[k] \in [session : Sessions \cup {None}, status : Status, current : BOOLEAN]
  BY DEF ClaimInv, TypeOK
<1>2. reaper'[k] = reaper[k] /\ reaper[k].session # s
  BY <1>1 DEF WriteRow
<1>3. reaper[k].session \in Sessions /\ Due(reaper[k].session)
  BY <1>2 DEF ClaimInv, ReapersInformed
<1>. QED BY <1>2, <1>3, WrittenRow DEF ClaimInv, Due, Stale

\* A step of a transport that writes the row of a session.
LEMMA WritesOK ==
    ASSUME ClaimInv, NEW p \in Transports, NEW t \in Transport,
           NEW s \in Sessions, NEW r \in Row, Writes(p, t, s, r),
           UNCHANGED <<revoked, blind>>, faults' \in 0 .. MaxFaults,
           t.pc \notin {"idle", "done"} => t.session = s,
           Fits(p, t, r, 0), Trusted(p, t, blind[p]),
           \/ StaysCommand(p, t)
           \/ \A q \in Transports : Commands(q) => tr[q].session # s,
           \A q \in Transports : q # p /\ Serving(q) /\ tr[q].session = s
                                    => Covered(q, tr[q], r, 0),
           \/ UNCHANGED uses
           \/ uses' = [uses EXCEPT ![s] = @ + 1],
           Decided(r, uses'[s])
    PROVE  ClaimInv'
<1>1. uses' \in [Sessions -> Nat] /\ \A o \in Sessions : o # s => uses'[o] = uses[o]
  BY DEF ClaimInv, TypeOK
<1>2. TypeOK'
  BY <1>1, WritesTypes DEF ClaimInv
<1>3. /\ tr'[p] = t
      /\ \A q \in Transports : q # p => tr'[q] = tr[q]
  BY DEF Writes, Step, ClaimInv, TypeOK
<1>4. /\ row'[s] = r /\ age'[s] = 0
      /\ \A o \in Sessions : o # s => row'[o] = row[o] /\ age'[o] = age[o]
  BY WrittenRow DEF Writes, ClaimInv
<1>5. RowsCovered'
  <2>. SUFFICES ASSUME NEW q \in Transports
                PROVE  Fits(q, tr'[q], row'[tr'[q].session], age'[tr'[q].session])
    BY DEF RowsCovered, Fits, Serving
  <2>1. CASE q = p
    BY <1>3, <1>4, <2>1 DEF Fits
  <2>2. CASE q # p
    BY <1>3, <1>4, <2>2 DEF Fits, ClaimInv, RowsCovered, Serving
  <2>. QED BY <2>1, <2>2
<1>6. OneCommand'
  BY <1>3 DEF ClaimInv, OneCommand, Commands, StaysCommand
<1>7. ReapersInformed'
  BY WriteInforms DEF Writes
<1>8. AllDecided'
  BY <1>1, <1>4 DEF ClaimInv, AllDecided
<1>9. AllTrusted'
  BY <1>3 DEF ClaimInv, AllTrusted, Trusted
<1>. QED BY <1>2, <1>5, <1>6, <1>7, <1>8, <1>9 DEF ClaimInv

\* A transport that may still open or use a stream, or close one.
Holding(t) ==
    \/ t.pc \in {"setup", "prepare", "open", "mark", "relay", "exec"}
    \/ t.pc = "fail" /\ t.shell

(***************************************************************************)
(* The heart of the argument: nobody holds a session that is not in use,   *)
(* or whose row has become stale.                                          *)
(***************************************************************************)
LEMMA Unheld ==
    ASSUME ClaimInv, NEW p \in Transports, Serving(p),
           \/ row[tr[p].session].status \notin {"connecting", "running"}
           \/ Stale(tr[p].session)
    PROVE  ~Holding(tr[p])
<1>. DEFINE s == tr[p].session
<1>1. s \in Sessions /\ Covered(p, tr[p], row[s], age[s])
  BY DEF ClaimInv, RowsCovered
<1>2. /\ age[s] \in Nat /\ tr[p].busy \in Nat
      /\ tr[p].time \in Nat /\ tr[p].time <= Timeout
      /\ Timeout \in Nat /\ Grace \in Nat /\ SetupLimit \in Nat /\ FinalLimit \in Nat
  BY <1>1, Types DEF ClaimInv
<1>. QED BY <1>1, <1>2, GraceAssumption DEF Covered, Claimed, Holding, Stale

\* Others are not concerned by a row that is not in use, or stale.
LEMMA OthersOfUnheld ==
    ASSUME ClaimInv, NEW s \in Sessions, NEW r,
           row[s].status \notin {"connecting", "running"} \/ Stale(s),
           row[s].status \in {"running"} \cup Over => r.status \in Over,
           NEW q \in Transports, Serving(q), tr[q].session = s
    PROVE  Covered(q, tr[q], r, 0)
<1>1. ~Holding(tr[q])
  BY Unheld
<1>2. tr[q].pc = "execfinal" => row[s].status \in {"running"} \cup Over
  BY DEF ClaimInv, RowsCovered, Covered
<1>. QED BY <1>1, <1>2 DEF Holding, Covered, Over

\* Nor by a row that is in use under somebody's claim.
LEMMA OthersOfClaimed ==
    ASSUME ClaimInv, NEW p \in Transports, NEW s \in Sessions, NEW r,
           row[s].status \in {"connecting", "running"}, row[s].claim = p,
           NEW q \in Transports, q # p, Serving(q), tr[q].session = s
    PROVE  Covered(q, tr[q], r, 0)
<1>1. Covered(q, tr[q], row[s], age[s])
  BY DEF ClaimInv, RowsCovered
<1>. QED BY <1>1, NamesAssumption DEF Covered, Claimed, Over

\* Nor by the row of a command.
LEMMA OthersOfCommand ==
    ASSUME ClaimInv, NEW p \in Transports, Commands(p), NEW s \in Sessions, NEW r,
           s = tr[p].session, row[s].status = "running",
           NEW q \in Transports, q # p, Serving(q), tr[q].session = s
    PROVE  Covered(q, tr[q], r, 0)
<1>1. row[s].claim = None
  BY DEF ClaimInv, RowsCovered, Covered, Commands, Serving
<1>2. ~Commands(q)
  BY DEF ClaimInv, OneCommand
<1>3. Covered(q, tr[q], row[s], age[s])
  BY DEF ClaimInv, RowsCovered
<1>. QED BY <1>1, <1>2, <1>3, NamesAssumption DEF Covered, Claimed, Commands

(***************************************************************************)
(* What the proof of each step needs to know of its transport.             *)
(***************************************************************************)
LEMMA Known ==
    ASSUME ClaimInv, NEW p \in Transports
    PROVE  /\ tr[p] \in Transport
           /\ tr[p].busy \in Nat /\ tr[p].time \in Nat /\ tr[p].time <= Timeout
           /\ tr[p].lapses \in Nat /\ blind[p] \in Nat
           /\ Fits(p, tr[p], row[tr[p].session], age[tr[p].session])
           /\ Trusted(p, tr[p], blind[p])
           /\ tr[p].session \in Sessions =>
                 /\ row[tr[p].session] \in Row /\ age[tr[p].session] \in Nat
                 /\ Decided(row[tr[p].session], uses[tr[p].session])
BY Types DEF ClaimInv, RowsCovered, Fits, Serving, AllTrusted, AllDecided

\* A transport that is done fits everything.
LEMMA DoneFits ==
    ASSUME ClaimInv, NEW p \in Transports, NEW r, NEW a
    PROVE  Fits(p, Done, r, a) /\ StaysCommand(p, Done) /\ Trusted(p, Done, blind[p])
<1>1. Trusted(p, tr[p], blind[p])
  BY Known
<1>. QED BY <1>1 DEF Fits, Done, Idle, StaysCommand, Trusted

\* The request is over, its process is dead, or its last store call failed.
LEMMA EndsOK ==
    ASSUME ClaimInv, NEW p \in Transports, Moves(p, Done),
           UNCHANGED <<revoked, blind>>, faults' \in 0 .. MaxFaults
    PROVE  ClaimInv'
BY DoneType, DoneFits, MovesOK

-----------------------------------------------------------------------------
(***************************************************************************)
(* The browser terminal                                                    *)
(***************************************************************************)
\* A stale connection has no holder: it may be made ready again.
LEMMA IssueTicketOK ==
    ASSUME ClaimInv, NEW p \in Transports, NEW s \in Sessions, IssueTicket(p, s)
    PROVE  ClaimInv'
<1>. DEFINE t == [tr[p] EXCEPT !.pc = "ticket", !.session = s]
            r == Released(row[s])
<1>1. tr[p] \in Transport /\ ~tr[p].shell /\ Trusted(p, tr[p], blind[p])
  BY Known DEF IssueTicket, Fits, Transport
<1>2. /\ t \in Transport /\ t.pc = "ticket" /\ t.session = s /\ ~t.shell
      /\ t.lapses = tr[p].lapses
  BY <1>1 DEF Pc, Transport
<1>3. Step(p, t)
  BY DEF IssueTicket
<1>. HIDE DEF t, r
<1>4. /\ \A x, a : Fits(p, t, x, a)
      /\ StaysCommand(p, t) /\ Trusted(p, t, blind[p])
  BY <1>1, <1>2 DEF Fits, Covered, StaysCommand, Trusted, IssueTicket
<1>5. faults' \in 0 .. MaxFaults /\ UNCHANGED <<revoked, blind, uses>>
  BY DEF ClaimInv, TypeOK, IssueTicket
<1>6. CASE KeepRow
  BY <1>2, <1>3, <1>4, <1>5, <1>6, MovesOK DEF Moves
<1>7. CASE row[s].status = "connecting" /\ Stale(s) /\ WriteRow(s, r)
  <2>1. row[s] \in Row /\ Decided(row[s], uses[s])
    BY Types DEF ClaimInv, AllDecided
  <2>2. r \in Row /\ r.status = "ready" /\ r.claim = None /\ SamePeople(row[s], r)
    BY <2>1, ReapedRows DEF r
  <2>3. Decided(r, uses'[s])
    BY <1>5, <1>7, <2>1, <2>2 DEF Decided, SamePeople, Over
  <2>4. \A q \in Transports : q # p /\ Serving(q) /\ tr[q].session = s
                                => Covered(q, tr[q], r, 0)
    BY <1>7, OthersOfUnheld DEF Over
  <2>5. Writes(p, t, s, r)
    BY <1>3, <1>7 DEF Writes
  <2>. QED BY <1>2, <1>4, <1>5, <2>2, <2>3, <2>4, <2>5, WritesOK
<1>. QED BY <1>6, <1>7 DEF IssueTicket, r

\* The claim takes the session from ready: nobody else held it.
LEMMA ConsumeTicketOK ==
    ASSUME ClaimInv, NEW p \in Transports, ConsumeTicket(p)
    PROVE  ClaimInv'
<1>. DEFINE s == tr[p].session
            t == [tr[p] EXCEPT !.pc = "setup", !.busy = 0]
            r == [row[s] EXCEPT !.status = "connecting", !.claim = p]
<1>1. /\ s \in Sessions /\ tr[p] \in Transport /\ row[s] \in Row /\ ~tr[p].shell
      /\ Trusted(p, tr[p], blind[p]) /\ tr[p].pc = "ticket"
      /\ Decided(row[s], uses[s])
  BY Known DEF ConsumeTicket, Fits, Transport
<1>2. /\ t \in Transport /\ t.pc = "setup" /\ t.session = s /\ t.busy = 0
      /\ ~t.shell /\ t.lapses = tr[p].lapses
  BY <1>1, Zeros DEF Pc, Transport
<1>3. /\ r \in Row /\ r.status = "connecting" /\ r.claim = p
      /\ SamePeople(row[s], r)
  BY <1>1, ClaimRow DEF Status
<1>4. Writes(p, t, s, r) /\ row[s].status = "ready"
  BY DEF Writes, ConsumeTicket, Goto, MayClaim
<1>5. faults' \in 0 .. MaxFaults /\ UNCHANGED <<revoked, blind, uses>>
  BY DEF ClaimInv, TypeOK, ConsumeTicket
<1>. HIDE DEF s, t, r
<1>6. Fits(p, t, r, 0) /\ StaysCommand(p, t) /\ Trusted(p, t, blind[p])
  BY <1>1, <1>2, <1>3, Zeros DEF Fits, Covered, Claimed, StaysCommand, Trusted
<1>7. Decided(r, uses'[s])
  BY <1>1, <1>3, <1>4, <1>5 DEF Decided, SamePeople, Over
<1>8. \A q \in Transports : q # p /\ Serving(q) /\ tr[q].session = s
                              => Covered(q, tr[q], r, 0)
  BY <1>1, <1>4, OthersOfUnheld DEF Over
<1>. QED BY <1>1, <1>2, <1>3, <1>4, <1>5, <1>6, <1>7, <1>8, WritesOK

\* On its way to the stream a transport keeps its row and its age.
LEMMA SetupOK ==
    ASSUME ClaimInv, NEW p \in Transports, ReadClaimed(p) \/ StartStream(p)
    PROVE  ClaimInv'
<1>. DEFINE s == tr[p].session
            t == [tr[p] EXCEPT !.pc = "prepare"]
            u == [tr[p] EXCEPT !.pc = "open", !.busy = 0]
<1>1. /\ s \in Sessions /\ tr[p] \in Transport /\ ~tr[p].shell
      /\ Trusted(p, tr[p], blind[p]) /\ Covered(p, tr[p], row[s], age[s])
      /\ tr[p].busy \in Nat /\ tr[p].time \in Nat /\ age[s] \in Nat
      /\ tr[p].pc = IF ReadClaimed(p) THEN "setup" ELSE "prepare"
  BY Known DEF ReadClaimed, StartStream, Fits, Transport
<1>2. /\ t \in Transport /\ t.pc = "prepare" /\ t.session = s /\ t.busy = tr[p].busy
      /\ ~t.shell /\ t.lapses = tr[p].lapses
  BY <1>1, Zeros DEF Pc, Transport
<1>3. /\ u \in Transport /\ u.pc = "open" /\ u.session = s /\ u.busy = 0
      /\ u.time = tr[p].time /\ ~u.shell /\ u.lapses = tr[p].lapses
  BY <1>1, Zeros DEF Pc, Transport
<1>4. faults' \in 0 .. MaxFaults /\ UNCHANGED <<revoked, blind>>
  BY DEF ClaimInv, TypeOK, ReadClaimed, StartStream
<1>5. CASE ReadClaimed(p) /\ Moves(p, t)
  <2>. HIDE DEF s, t, u
  <2>1. Fits(p, t, row[s], age[s]) /\ StaysCommand(p, t) /\ Trusted(p, t, blind[p])
    BY <1>1, <1>2, <1>5 DEF Fits, Covered, StaysCommand, Trusted
  <2>. QED BY <1>2, <1>4, <1>5, <2>1, MovesOK
<1>6. CASE StartStream(p) /\ Moves(p, u)
  <2>. HIDE DEF s, t, u
  <2>1. tr[p].pc = "prepare"
    BY <1>6 DEF StartStream
  <2>2. Fits(p, u, row[s], age[s]) /\ StaysCommand(p, u) /\ Trusted(p, u, blind[p])
    BY <1>1, <1>3, <2>1, Zeros DEF Fits, Covered, StaysCommand, Trusted
  <2>. QED BY <1>3, <1>4, <1>6, <2>2, MovesOK
<1>7. CASE Moves(p, Done)
  BY <1>4, <1>7, EndsOK
<1>. QED BY <1>5, <1>6, <1>7 DEF ReadClaimed, StartStream, Moves, Goto

\* The shell opens while the deadline lasts, and so while the row is fresh.
LEMMA OpenPodTerminalOK ==
    ASSUME ClaimInv, NEW p \in Transports, OpenPodTerminal(p)
    PROVE  ClaimInv'
<1>. DEFINE s == tr[p].session
            t == [tr[p] EXCEPT !.pc = "mark", !.shell = TRUE]
<1>1. /\ s \in Sessions /\ tr[p] \in Transport /\ tr[p].time < Timeout
      /\ Trusted(p, tr[p], blind[p]) /\ Covered(p, tr[p], row[s], age[s])
      /\ tr[p].time \in Nat /\ age[s] \in Nat /\ tr[p].pc = "open"
  BY Known DEF OpenPodTerminal, Fits
<1>2. /\ t \in Transport /\ t.pc = "mark" /\ t.session = s /\ t.busy = tr[p].busy
      /\ t.lapses = tr[p].lapses
  BY <1>1, Zeros DEF Pc, Transport
<1>3. faults' \in 0 .. MaxFaults /\ UNCHANGED <<revoked, blind>> /\ Moves(p, t)
  BY DEF ClaimInv, TypeOK, OpenPodTerminal, Moves
<1>. HIDE DEF s, t
<1>4. Fits(p, t, row[s], age[s]) /\ StaysCommand(p, t) /\ Trusted(p, t, blind[p])
  BY <1>1, <1>2, Zeros DEF Fits, Covered, StaysCommand, Trusted
<1>. QED BY <1>2, <1>3, <1>4, MovesOK

\* A connection that fails before its shell is open holds nothing.
LEMMA ConnectFailsOK ==
    ASSUME ClaimInv, NEW p \in Transports, ConnectFails(p)
    PROVE  ClaimInv'
<1>. DEFINE s == tr[p].session
            t == [tr[p] EXCEPT !.pc = "fail", !.busy = 0, !.outcome = "failed"]
<1>1. /\ s \in Sessions /\ tr[p] \in Transport /\ ~tr[p].shell
      /\ Trusted(p, tr[p], blind[p])
  BY Known DEF ConnectFails, Fits, Transport
<1>2. t \in Transport /\ t.pc = "fail" /\ t.session = s /\ ~t.shell
  BY <1>1, Zeros DEF Pc, Transport
<1>3. faults' \in 0 .. MaxFaults /\ UNCHANGED <<revoked, blind>> /\ Moves(p, t)
  BY DEF ClaimInv, TypeOK, ConnectFails, Moves
<1>. HIDE DEF s, t
<1>4. Fits(p, t, row[s], age[s]) /\ StaysCommand(p, t) /\ Trusted(p, t, blind[p])
  BY <1>1, <1>2 DEF Fits, Covered, StaysCommand, Trusted
<1>. QED BY <1>2, <1>3, <1>4, MovesOK

\* The relay, or what is left of it, closes its stream.
LEMMA LeaveOK ==
    ASSUME ClaimInv, NEW p \in Transports, tr[p].pc = "relay",
           NEW outcome \in {"completed", "failed"}, Leave(p, outcome), KeepRow,
           UNCHANGED <<revoked, blind, uses, faults>>
    PROVE  ClaimInv'
<1>. DEFINE s == tr[p].session
            t == [tr[p] EXCEPT !.pc = "final", !.shell = FALSE, !.busy = 0,
                               !.outcome = outcome]
<1>1. s \in Sessions /\ tr[p] \in Transport /\ Trusted(p, tr[p], blind[p])
  BY Known DEF Fits
<1>2. t \in Transport /\ t.pc = "final" /\ t.session = s /\ ~t.shell
  BY <1>1, Zeros DEF Pc, Transport
<1>3. faults' \in 0 .. MaxFaults /\ Moves(p, t)
  BY DEF ClaimInv, TypeOK, Leave, Moves
<1>. HIDE DEF s, t
<1>4. Fits(p, t, row[s], age[s]) /\ StaysCommand(p, t) /\ Trusted(p, t, blind[p])
  BY <1>1, <1>2 DEF Fits, Covered, StaysCommand, Trusted
<1>. QED BY <1>2, <1>3, <1>4, MovesOK

\* A recheck leaves the relay, or counts one lapse more of a blind shell.
LEMMA RecheckAuthOK ==
    ASSUME ClaimInv, NEW p \in Transports, RecheckAuth(p)
    PROVE  ClaimInv'
<1>. DEFINE s == tr[p].session
            v == [tr[p] EXCEPT !.checked = TRUE, !.lapses = 0]
            l == [tr[p] EXCEPT !.checked = TRUE, !.lapses = tr[p].lapses + 1]
<1>1. /\ s \in Sessions /\ tr[p] \in Transport /\ tr[p].pc = "relay"
      /\ Trusted(p, tr[p], blind[p]) /\ Covered(p, tr[p], row[s], age[s])
      /\ tr[p].lapses \in Nat /\ blind[p] \in Nat
  BY Known DEF RecheckAuth, Fits
<1>2. KeepRow /\ UNCHANGED <<revoked, blind, uses, faults>>
  BY DEF RecheckAuth
<1>3. faults' \in 0 .. MaxFaults
  BY <1>2 DEF ClaimInv, TypeOK
<1>4. CASE p \notin revoked /\ Step(p, v)
  <2>1. /\ v \in Transport /\ v.pc = "relay" /\ v.session = s /\ v.lapses = 0
        /\ v.time = tr[p].time
    BY <1>1, Zeros DEF Transport
  <2>2. Moves(p, v)
    BY <1>2, <1>4 DEF Moves
  <2>. HIDE DEF s, v
  <2>3. Fits(p, v, row[s], age[s]) /\ StaysCommand(p, v) /\ Trusted(p, v, blind[p])
    BY <1>1, <1>4, <2>1, Zeros DEF Fits, Covered, StaysCommand, Trusted
  <2>. QED BY <1>2, <1>3, <2>1, <2>2, <2>3, MovesOK
<1>5. CASE tr[p].lapses + 1 < Tolerance /\ ~tr[p].checked /\ Step(p, l)
  <2>1. /\ l \in Transport /\ l.pc = "relay" /\ l.session = s
        /\ l.lapses = tr[p].lapses + 1 /\ l.time = tr[p].time
    <3>1. tr[p].lapses + 1 \in 0 .. Tolerance
      BY <1>1, <1>5, Zeros
    <3>. QED BY <1>1, <3>1 DEF Transport
  <2>2. Moves(p, l)
    BY <1>2, <1>5 DEF Moves
  <2>. HIDE DEF s, l
  <2>3. Fits(p, l, row[s], age[s]) /\ StaysCommand(p, l)
    BY <1>1, <2>1 DEF Fits, Covered, StaysCommand
  <2>4. Trusted(p, l, blind[p])
    BY <1>1, <1>5, <2>1, Zeros DEF Trusted
  <2>. QED BY <1>2, <1>3, <2>1, <2>2, <2>3, <2>4, MovesOK
<1>6. CASE Leave(p, "failed")
  BY <1>1, <1>2, <1>6, LeaveOK
<1>. QED BY <1>4, <1>5, <1>6 DEF RecheckAuth, Lapse

\* MarkConnected counts the use of a session that was not used before.
LEMMA ConnectedOK ==
    ASSUME ClaimInv, NEW p \in Transports, tr[p].pc = "mark", Owns(p), Connected(p),
           NEW t \in Transport, Step(p, t), t.session = tr[p].session,
           t.pc \in {"relay", "fail"}, t.pc = "fail" => t.busy = 0,
           t.lapses = tr[p].lapses,
           UNCHANGED <<revoked, blind>>, faults' \in 0 .. MaxFaults
    PROVE  ClaimInv'
<1>. DEFINE s == tr[p].session
            r == [row[s] EXCEPT !.status = "running"]
<1>1. /\ s \in Sessions /\ row[s] \in Row /\ Trusted(p, tr[p], blind[p])
      /\ uses[s] \in Nat /\ Decided(row[s], uses[s])
      /\ row[s].status = "connecting" /\ row[s].claim = p
  BY Known DEF Fits, ClaimInv, TypeOK, Owns
<1>2. r \in Row /\ r.status = "running" /\ r.claim = p /\ SamePeople(row[s], r)
  BY <1>1, StatusRow DEF Status
<1>3. Writes(p, t, s, r) /\ uses' = [uses EXCEPT ![s] = @ + 1]
  BY DEF Writes, Connected
<1>4. t.time \in Nat /\ t.lapses \in Nat
  BY Zeros DEF Transport
<1>. HIDE DEF s, r
<1>5. t.session = s
  BY DEF s
<1>6. Fits(p, t, r, 0) /\ StaysCommand(p, t)
  BY <1>1, <1>2, <1>4, <1>5, Zeros, GraceAssumption DEF Fits, Covered, StaysCommand
<1>7. Trusted(p, t, blind[p])
  BY <1>1, <1>4, Zeros DEF Trusted
<1>8. Decided(r, uses'[s])
  BY <1>1, <1>2 DEF Decided, SamePeople
<1>9. \A q \in Transports : q # p /\ Serving(q) /\ tr[q].session = s
                              => Covered(q, tr[q], r, 0)
  BY <1>1, OthersOfClaimed
<1>. QED BY <1>1, <1>2, <1>3, <1>5, <1>6, <1>7, <1>8, <1>9, WritesOK

\* The mark is set, not set, or nobody knows; an open shell fails in time.
LEMMA MarkOK ==
    ASSUME ClaimInv, NEW p \in Transports, MarkConnected(p) \/ MarkUnknown(p)
    PROVE  ClaimInv'
<1>. DEFINE s == tr[p].session
            t == [tr[p] EXCEPT !.pc = "relay", !.checked = TRUE]
            u == [tr[p] EXCEPT !.pc = "fail", !.busy = 0, !.outcome = "failed"]
<1>1. /\ s \in Sessions /\ tr[p] \in Transport /\ tr[p].pc = "mark"
      /\ Trusted(p, tr[p], blind[p]) /\ Covered(p, tr[p], row[s], age[s])
      /\ tr[p].busy \in Nat /\ age[s] \in Nat
  BY Known DEF MarkConnected, MarkUnknown, Fits
<1>2. t \in Transport /\ t.pc = "relay" /\ t.session = s /\ t.lapses = tr[p].lapses
  BY <1>1, Zeros DEF Pc, Transport
<1>3. /\ u \in Transport /\ u.pc = "fail" /\ u.session = s /\ u.busy = 0
      /\ u.lapses = tr[p].lapses
  BY <1>1, Zeros DEF Pc, Transport
<1>4. faults' \in 0 .. MaxFaults /\ UNCHANGED <<revoked, blind>>
  BY LimitsAssumption DEF ClaimInv, TypeOK, MarkConnected, MarkUnknown, Fault
<1>5. CASE Owns(p) /\ Connected(p) /\ Step(p, t)
  <2>. HIDE DEF t
  <2>. QED BY <1>1, <1>2, <1>4, <1>5, ConnectedOK
<1>6. CASE Owns(p) /\ Connected(p) /\ Step(p, u)
  <2>. HIDE DEF u
  <2>. QED BY <1>1, <1>3, <1>4, <1>6, ConnectedOK
<1>7. CASE Moves(p, u)
  <2>. HIDE DEF s, t, u
  <2>1. Fits(p, u, row[s], age[s]) /\ StaysCommand(p, u) /\ Trusted(p, u, blind[p])
    BY <1>1, <1>3, Zeros DEF Fits, Covered, Claimed, StaysCommand, Trusted
  <2>. QED BY <1>3, <1>4, <1>7, <2>1, MovesOK
<1>. QED BY <1>5, <1>6, <1>7 DEF MarkConnected, MarkUnknown, Unmarked, Moves

\* The end of a terminal, in the row if it is still its own.
LEMMA FinalizeTerminalOK ==
    ASSUME ClaimInv, NEW p \in Transports, FinalizeTerminal(p)
    PROVE  ClaimInv'
<1>. DEFINE s == tr[p].session
            r == Finalized(p)
<1>1. /\ s \in Sessions /\ row[s] \in Row /\ Decided(row[s], uses[s])
      /\ tr[p].outcome \in {"completed", "failed"}
  BY Known DEF FinalizeTerminal, Fits, Transport
<1>2. r \in Row /\ r.status = tr[p].outcome /\ r.claim = None /\ SamePeople(row[s], r)
  <2>1. tr[p].outcome \in Status
    BY <1>1 DEF Status
  <2>. QED BY <1>1, <2>1, ClaimRow DEF Finalized
<1>3. faults' \in 0 .. MaxFaults /\ UNCHANGED <<revoked, blind, uses>>
  BY DEF ClaimInv, TypeOK, FinalizeTerminal
<1>4. CASE MayFinalize(p) /\ Writes(p, Done, s, r)
  <2>1. row[s].status \in {"connecting", "running"} /\ row[s].claim = p
    BY <1>4 DEF MayFinalize
  <2>. HIDE DEF s, r
  <2>2. Decided(r, uses'[s])
    BY <1>1, <1>2, <1>3, <2>1 DEF Decided, SamePeople, Over
  <2>3. \A q \in Transports : q # p /\ Serving(q) /\ tr[q].session = s
                                => Covered(q, tr[q], r, 0)
    BY <1>1, <2>1, OthersOfClaimed
  <2>4. Done.pc = "done"
    BY DEF Done, Idle
  <2>. QED BY <1>1, <1>2, <1>3, <1>4, <2>2, <2>3, <2>4, DoneType, DoneFits, WritesOK
<1>5. CASE Moves(p, Done)
  BY <1>3, <1>5, EndsOK
<1>. QED BY <1>4, <1>5 DEF FinalizeTerminal, Moves, Writes

-----------------------------------------------------------------------------
(***************************************************************************)
(* The single command                                                      *)
(***************************************************************************)
\* A command takes a session that is ready, and so nobody's.
LEMMA StartExecOK ==
    ASSUME ClaimInv, NEW p \in Transports, NEW s \in Sessions, StartExec(p, s)
    PROVE  ClaimInv'
<1>. DEFINE t == [tr[p] EXCEPT !.pc = "exec", !.session = s, !.shell = TRUE]
            r == [row[s] EXCEPT !.status = "running"]
<1>1. /\ tr[p] \in Transport /\ row[s] \in Row /\ Decided(row[s], uses[s])
      /\ Trusted(p, tr[p], blind[p]) /\ tr[p].pc = "idle" /\ uses[s] \in Nat
  BY Known, Types DEF StartExec, ClaimInv, AllDecided
<1>2. t \in Transport /\ t.pc = "exec" /\ t.session = s /\ t.time \in Nat
  <2>1. t \in Transport /\ t.pc = "exec" /\ t.session = s
    BY <1>1, Zeros DEF Pc, Transport
  <2>. HIDE DEF t
  <2>. QED BY <2>1, Zeros DEF Transport
<1>3. /\ r \in Row /\ r.status = "running" /\ r.claim = row[s].claim
      /\ SamePeople(row[s], r)
  BY <1>1, StatusRow DEF Status
<1>4. /\ Writes(p, t, s, r) /\ row[s].status = "ready"
      /\ uses' = [uses EXCEPT ![s] = @ + 1]
  BY DEF Writes, StartExec
<1>5. faults' \in 0 .. MaxFaults /\ UNCHANGED <<revoked, blind>>
  BY DEF ClaimInv, TypeOK, StartExec
<1>. HIDE DEF t, r
<1>6. \/ StaysCommand(p, t)
      \/ \A q \in Transports : Commands(q) => tr[q].session # s
  BY <1>4 DEF ClaimInv, RowsCovered, Covered, Commands, Serving, Over
<1>7. Fits(p, t, r, 0) /\ Trusted(p, t, blind[p])
  BY <1>1, <1>2, <1>3, <1>4 DEF Fits, Covered, Trusted, Decided
<1>8. Decided(r, uses'[s])
  BY <1>1, <1>3, <1>4 DEF Decided, SamePeople
<1>9. \A q \in Transports : q # p /\ Serving(q) /\ tr[q].session = s
                              => Covered(q, tr[q], r, 0)
  BY <1>4, OthersOfUnheld DEF Over
<1>10. /\ t.pc \notin {"idle", "done"} => t.session = s
       /\ UNCHANGED uses \/ uses' = [uses EXCEPT ![s] = @ + 1]
  BY <1>2, <1>4
<1>11. t \in Transport /\ r \in Row /\ Writes(p, t, s, r)
  BY <1>2, <1>3, <1>4
<1>. QED BY <1>5, <1>6, <1>7, <1>8, <1>9, <1>10, <1>11, WritesOK

\* Its stream is closed before the row is finalized.
LEMMA ExecEndsOK ==
    ASSUME ClaimInv, NEW p \in Transports, ExecEnds(p)
    PROVE  ClaimInv'
<1>1. PICK outcome \in {"completed", "failed"} :
         Step(p, [tr[p] EXCEPT !.pc = "execfinal", !.shell = FALSE, !.busy = 0,
                               !.outcome = outcome])
  BY DEF ExecEnds
<1>. DEFINE s == tr[p].session
            t == [tr[p] EXCEPT !.pc = "execfinal", !.shell = FALSE, !.busy = 0,
                               !.outcome = outcome]
<1>2. /\ s \in Sessions /\ tr[p] \in Transport /\ tr[p].pc = "exec"
      /\ Trusted(p, tr[p], blind[p]) /\ Covered(p, tr[p], row[s], age[s])
  BY Known DEF ExecEnds, Fits
<1>3. t \in Transport /\ t.pc = "execfinal" /\ t.session = s /\ ~t.shell
  BY <1>2, Zeros DEF Pc, Transport
<1>4. faults' \in 0 .. MaxFaults /\ UNCHANGED <<revoked, blind>> /\ Moves(p, t)
  BY <1>1 DEF ClaimInv, TypeOK, ExecEnds, Moves
<1>. HIDE DEF s, t
<1>5. s = tr[p].session
  BY DEF s
<1>6. Fits(p, t, row[s], age[s]) /\ StaysCommand(p, t) /\ Trusted(p, t, blind[p])
  BY <1>2, <1>3, <1>5 DEF Fits, Covered, StaysCommand, Commands, Trusted
<1>. QED BY <1>3, <1>4, <1>6, MovesOK

\* No other command of the session is there to lose its row.
LEMMA FinalizeExecOK ==
    ASSUME ClaimInv, NEW p \in Transports, FinalizeExec(p)
    PROVE  ClaimInv'
<1>. DEFINE s == tr[p].session
            r == Finalized(p)
<1>1. /\ s \in Sessions /\ row[s] \in Row /\ Decided(row[s], uses[s])
      /\ tr[p].outcome \in {"completed", "failed"}
  BY Known DEF FinalizeExec, Fits, Transport
<1>2. r \in Row /\ r.status = tr[p].outcome /\ r.claim = None /\ SamePeople(row[s], r)
  <2>1. tr[p].outcome \in Status
    BY <1>1 DEF Status
  <2>. QED BY <1>1, <2>1, ClaimRow DEF Finalized
<1>3. faults' \in 0 .. MaxFaults /\ UNCHANGED <<revoked, blind, uses>>
  BY DEF ClaimInv, TypeOK, FinalizeExec
<1>4. CASE row[s].status = "running" /\ Writes(p, Done, s, r)
  <2>1. Commands(p) /\ s = tr[p].session
    BY DEF FinalizeExec, Commands
  <2>. HIDE DEF s, r
  <2>2. Decided(r, uses'[s])
    BY <1>1, <1>2, <1>3, <1>4 DEF Decided, SamePeople, Over
  <2>3. \A q \in Transports : q # p /\ Serving(q) /\ tr[q].session = s
                                => Covered(q, tr[q], r, 0)
    BY <1>1, <1>4, <2>1, OthersOfCommand
  <2>4. Done.pc = "done"
    BY DEF Done, Idle
  <2>. QED BY <1>1, <1>2, <1>3, <1>4, <2>2, <2>3, <2>4, DoneType, DoneFits, WritesOK
<1>5. CASE Moves(p, Done)
  BY <1>3, <1>5, EndsOK
<1>. QED BY <1>4, <1>5 DEF FinalizeExec, Moves, Writes

\* Every step of a transport preserves the invariant.
LEMMA TransportOK ==
    ASSUME ClaimInv, NEW p \in Transports,
           Proceed(p) \/ MarkUnknown(p) \/ Disappear(p)
    PROVE  ClaimInv'
<1>1. CASE RefuseTicket(p) \/ Disappear(p)
  <2>1. Moves(p, Done) /\ UNCHANGED <<revoked, blind>>
    BY <1>1 DEF RefuseTicket, Disappear, Moves
  <2>2. faults' \in 0 .. MaxFaults
    BY <1>1, LimitsAssumption DEF RefuseTicket, Disappear, Fault, ClaimInv, TypeOK
  <2>. QED BY <2>1, <2>2, EndsOK
<1>2. CASE RelayEnds(p)
  <2>1. PICK outcome \in {"completed", "failed"} : Leave(p, outcome)
    BY <1>2 DEF RelayEnds
  <2>. QED BY <1>2, <2>1, LeaveOK DEF RelayEnds
<1>. QED BY <1>1, <1>2, ConsumeTicketOK, SetupOK, OpenPodTerminalOK, ConnectFailsOK,
            MarkOK, RecheckAuthOK, FinalizeTerminalOK, ExecEndsOK, FinalizeExecOK
         DEF Proceed

-----------------------------------------------------------------------------
(***************************************************************************)
(* Requests, revocations, reapers and time                                 *)
(***************************************************************************)
\* A write of a row that nobody holds, by somebody who is no transport.
LEMMA RowsOK ==
    ASSUME ClaimInv, NEW s \in Sessions, NEW r,
           \A o \in Sessions : row'[o] = IF o = s THEN r ELSE row[o],
           \A o \in Sessions : age'[o] = IF o = s THEN 0 ELSE age[o],
           UNCHANGED <<tr, revoked, blind, uses>>, Decided(r, uses[s]),
           row[s].status \notin {"connecting", "running"} \/ Stale(s),
           row[s].status \in {"running"} \cup Over => r.status \in Over,
           TypeOK', ReapersInformed'
    PROVE  ClaimInv'
<1>1. RowsCovered'
  <2>. SUFFICES ASSUME NEW p \in Transports
                PROVE  /\ Serving(p) => /\ tr[p].session \in Sessions
                                        /\ Covered(p, tr[p], row'[tr[p].session],
                                                   age'[tr[p].session])
                       /\ tr[p].shell => tr[p].pc \in {"mark", "relay", "exec", "fail"}
    BY DEF RowsCovered, Serving
  <2>1. CASE Serving(p) /\ tr[p].session = s
    BY <2>1, OthersOfUnheld DEF ClaimInv, RowsCovered
  <2>2. CASE ~(Serving(p) /\ tr[p].session = s)
    BY <2>2 DEF ClaimInv, RowsCovered
  <2>. QED BY <2>1, <2>2
<1>2. OneCommand'
  BY DEF ClaimInv, OneCommand, Commands
<1>3. AllDecided'
  BY DEF ClaimInv, AllDecided
<1>4. AllTrusted'
  BY DEF ClaimInv, AllTrusted, Trusted
<1>. QED BY <1>1, <1>2, <1>3, <1>4 DEF ClaimInv

\* Who approves is not who asked; nothing was connected before.
LEMMA RequestsOK ==
    ASSUME ClaimInv, NEW s \in Sessions, NEW u \in Users,
           RequestSession(s, u) \/ Approve(s, u) \/ Reject(s, u)
    PROVE  ClaimInv'
<1>1. TypeOK'
  BY RequestTypes DEF ClaimInv
<1>2. row[s] \in Row /\ Decided(row[s], uses[s])
  BY Types DEF ClaimInv, AllDecided
<1>3. UNCHANGED <<tr, revoked, blind, uses>>
  BY DEF RequestSession, Approve, Reject
<1>4. row[s].status \in {"none", "pending_approval"}
  BY DEF RequestSession, Approve, Reject
<1>5. PICK r : WriteRow(s, r) /\ Decided(r, uses[s])
  <2>1. CASE RequestSession(s, u)
    <3>1. PICK st \in {"denied", "pending_approval", "ready"} :
             WriteRow(s, [row[s] EXCEPT !.status = st, !.requestedBy = u])
      BY <2>1 DEF RequestSession
    <3>. DEFINE r == [row[s] EXCEPT !.status = st, !.requestedBy = u]
    <3>2. /\ r.status = st /\ r.claim = row[s].claim
          /\ r.decidedBy = row[s].decidedBy
      BY <1>2 DEF Row
    <3>3. Decided(r, uses[s])
      BY <1>2, <1>4, <3>2 DEF Decided, Over
    <3>. QED BY <3>1, <3>3
  <2>2. CASE Approve(s, u)
    <3>. DEFINE r == [row[s] EXCEPT !.status = "ready", !.decidedBy = u]
    <3>1. /\ r.status = "ready" /\ r.claim = row[s].claim
          /\ r.decidedBy = u /\ r.requestedBy = row[s].requestedBy
      BY <1>2 DEF Row
    <3>2. Decided(r, uses[s])
      BY <1>2, <1>4, <2>2, <3>1 DEF Decided, Over, Approve
    <3>. QED BY <2>2, <3>2 DEF Approve
  <2>3. CASE Reject(s, u)
    <3>. DEFINE r == [row[s] EXCEPT !.status = "rejected", !.decidedBy = u]
    <3>1. r.status = "rejected" /\ r.claim = row[s].claim
      BY <1>2 DEF Row
    <3>2. Decided(r, uses[s])
      BY <1>2, <1>4, <3>1 DEF Decided, Over
    <3>. QED BY <2>3, <3>2 DEF Reject
  <2>. QED BY <2>1, <2>2, <2>3
<1>6. /\ \A o \in Sessions : row'[o] = IF o = s THEN r ELSE row[o]
      /\ \A o \in Sessions : age'[o] = IF o = s THEN 0 ELSE age[o]
  BY <1>5, WrittenRow DEF ClaimInv
<1>7. ReapersInformed'
  BY <1>5, WriteInforms
<1>8. row[s].status \notin {"connecting", "running"} \cup Over
  BY <1>4 DEF Over
<1>. QED BY <1>1, <1>3, <1>5, <1>6, <1>7, <1>8, RowsOK

\* Nobody was blind before.
LEMMA RevokeOK ==
    ASSUME ClaimInv, NEW p \in Transports, RevokeCredential(p)
    PROVE  ClaimInv'
<1>1. UNCHANGED <<row, age, tr, reaper, blind, uses, faults>>
  BY DEF RevokeCredential, KeepRow
<1>2. revoked' = revoked \cup {p}
  BY DEF RevokeCredential
<1>3. TypeOK' /\ RowsCovered' /\ OneCommand' /\ AllDecided'
  BY <1>1, <1>2 DEF ClaimInv, TypeOK, RowsCovered, Serving, OneCommand, Commands,
                    AllDecided
<1>4. ReapersInformed'
  BY <1>1 DEF ClaimInv, ReapersInformed, Due, Stale
<1>5. AllTrusted'
  BY <1>1, <1>2 DEF ClaimInv, AllTrusted, Trusted
<1>. QED BY <1>3, <1>4, <1>5 DEF ClaimInv

\* What a reaper takes is due, and so held by nobody.
LEMMA ReapOK ==
    ASSUME ClaimInv, NEW k \in Reapers, Reap(k)
    PROVE  ClaimInv'
<1>. DEFINE Note == [session : Sessions \cup {None}, status : Status,
                     current : BOOLEAN]
<1>1. reaper \in [Reapers -> Note] /\ Free \in Note
  BY DEF ClaimInv, TypeOK, Free, Status
<1>2. UNCHANGED <<tr, revoked, blind, uses, faults>>
  BY DEF Reap, ReapApply, ReapList
<1>3. ASSUME UNCHANGED <<row, age>>, reaper' \in [Reapers -> Note], ReapersInformed'
      PROVE  ClaimInv'
  <2>1. TypeOK' /\ RowsCovered' /\ OneCommand' /\ AllDecided'
    BY <1>2, <1>3 DEF ClaimInv, TypeOK, RowsCovered, Serving, OneCommand, Commands,
                      AllDecided
  <2>2. AllTrusted'
    BY <1>2 DEF ClaimInv, AllTrusted, Trusted
  <2>. QED BY <1>3, <2>1, <2>2 DEF ClaimInv
<1>4. ASSUME NEW s \in Sessions, ReapList(k, s)
      PROVE  ClaimInv'
  <2>1. UNCHANGED <<row, age>> /\ Due(s) /\ row[s].status \in Status
    BY <1>4, Types DEF ReapList, ClaimInv, Row
  <2>2. reaper' = [reaper EXCEPT ![k] = [session |-> s, status |-> row[s].status,
                                         current |-> TRUE]]
    BY <1>4 DEF ReapList
  <2>3. reaper' \in [Reapers -> Note]
    BY <1>1, <2>1, <2>2
  <2>4. ReapersInformed'
    BY <1>1, <2>1, <2>2 DEF ClaimInv, ReapersInformed, Due, Stale
  <2>. QED BY <1>3, <2>1, <2>3, <2>4
<1>5. CASE ReapApply(k) /\ ~reaper[k].current
  <2>1. UNCHANGED <<row, age>> /\ reaper' = [reaper EXCEPT ![k] = Free]
    BY <1>5 DEF ReapApply
  <2>2. reaper' \in [Reapers -> Note]
    BY <1>1, <2>1
  <2>3. ReapersInformed'
    BY <1>1, <2>1 DEF ClaimInv, ReapersInformed, Due, Stale, Free
  <2>. QED BY <1>3, <2>1, <2>2, <2>3
<1>6. CASE ReapApply(k) /\ reaper[k].current
  <2>. DEFINE s == reaper[k].session
              r == Reaped(row[s])
  <2>1. /\ s \in Sessions /\ Due(s) /\ row[s] \in Row /\ Decided(row[s], uses[s])
    BY <1>6, Types DEF ClaimInv, ReapersInformed, AllDecided
  <2>2. /\ row' = [row EXCEPT ![s] = r] /\ age' = [age EXCEPT ![s] = 0]
        /\ reaper' = [j \in Reapers |->
                        IF j = k THEN Free
                        ELSE IF reaper[j].session = s
                        THEN [reaper[j] EXCEPT !.current = FALSE]
                        ELSE reaper[j]]
    BY <1>6 DEF ReapApply
  <2>3. /\ r \in Row /\ r.claim = None /\ SamePeople(row[s], r)
        /\ r.status = IF row[s].status = "connecting" THEN "ready" ELSE "failed"
    BY <2>1, ReapedRows
  <2>. HIDE DEF s, r
  <2>4. \A j \in Reapers : reaper'[j] \in Note
    BY <1>1, <2>2
  <2>5. TypeOK'
    BY <1>2, <2>1, <2>2, <2>3, <2>4, Zeros DEF ClaimInv, TypeOK
  <2>6. /\ \A o \in Sessions : row'[o] = IF o = s THEN r ELSE row[o]
        /\ \A o \in Sessions : age'[o] = IF o = s THEN 0 ELSE age[o]
    BY <2>2 DEF ClaimInv, TypeOK
  <2>7. ReapersInformed'
    <3>. SUFFICES ASSUME NEW j \in Reapers, reaper'[j].current
                  PROVE  /\ reaper'[j].session \in Sessions
                         /\ row'[reaper'[j].session].status \in {"connecting", "running"}
                         /\ age'[reaper'[j].session] >= Timeout + Grace
      BY DEF ReapersInformed, Due, Stale
    <3>1. reaper'[j] = reaper[j] /\ reaper[j].session # s
      BY <1>1, <2>2 DEF Free
    <3>2. reaper[j].session \in Sessions /\ Due(reaper[j].session)
      BY <3>1 DEF ClaimInv, ReapersInformed
    <3>. QED BY <2>6, <3>1, <3>2 DEF Due, Stale
  <2>8. Decided(r, uses[s])
    BY <2>1, <2>3 DEF Decided, SamePeople, Due, Over
  <2>9. /\ Stale(s)
        /\ row[s].status \in {"running"} \cup Over => r.status \in Over
    BY <2>1, <2>3 DEF Due, Over
  <2>. QED BY <1>2, <2>1, <2>5, <2>6, <2>7, <2>8, <2>9, RowsOK
<1>. QED BY <1>4, <1>5, <1>6 DEF Reap

\* What a tick makes of a transport: OnTime keeps its counters in their range.
LEMMA LastsRecord ==
    ASSUME ClaimInv, NEW p \in Transports, OnTime(p)
    PROVE  LET t == Lasts(p) IN
           /\ t \in Transport /\ t.pc = tr[p].pc /\ t.session = tr[p].session
           /\ t.shell = tr[p].shell /\ t.lapses = tr[p].lapses /\ ~t.checked
           /\ t.busy = IF InSetup(p) \/ InClosing(p) THEN tr[p].busy + 1 ELSE tr[p].busy
           /\ UnderDeadline(p) => t.time = tr[p].time + 1
<1>1. /\ tr[p] \in Transport /\ tr[p].busy \in Nat /\ tr[p].time \in Nat
      /\ tr[p].time <= Timeout
  BY Known
<1>. DEFINE b == IF InSetup(p) \/ InClosing(p) THEN tr[p].busy + 1 ELSE tr[p].busy
            m == IF (UnderDeadline(p) \/ tr[p].pc = "mark") /\ tr[p].time < Timeout
                 THEN tr[p].time + 1 ELSE tr[p].time
            t == [tr[p] EXCEPT !.busy = b, !.time = m, !.checked = FALSE]
<1>2. b \in 0 .. SetupLimit + FinalLimit
  BY <1>1, Zeros DEF OnTime, Transport
<1>3. m \in 0 .. Timeout /\ (UnderDeadline(p) => m = tr[p].time + 1)
  BY <1>1, Zeros DEF OnTime
<1>4. Lasts(p) = t
  BY DEF Lasts
<1>. HIDE DEF b, m
<1>5. /\ t \in Transport /\ t.pc = tr[p].pc /\ t.session = tr[p].session
      /\ t.shell = tr[p].shell /\ t.lapses = tr[p].lapses /\ ~t.checked
      /\ t.busy = b /\ t.time = m
  BY <1>1, <1>2, <1>3 DEF Transport
<1>. QED BY <1>3, <1>4, <1>5 DEF b

\* A row ages no faster than its transport uses up its time.
LEMMA TickOK ==
    ASSUME ClaimInv, Tick
    PROVE  ClaimInv'
<1>1. /\ age' = [s \in Sessions |-> IF Stale(s) THEN age[s] ELSE age[s] + 1]
      /\ tr' = [p \in Transports |-> Lasts(p)]
      /\ blind' = [p \in Transports |->
                     IF tr[p].pc = "relay" /\ p \in revoked THEN blind[p] + 1
                     ELSE blind[p]]
      /\ \A p \in Transports : OnTime(p)
  BY DEF Tick
<1>2. UNCHANGED <<row, reaper, revoked, uses, faults>>
  BY DEF Tick
<1>3. \A p \in Transports :
        /\ tr'[p] \in Transport /\ tr'[p].pc = tr[p].pc
        /\ tr'[p].session = tr[p].session /\ tr'[p].shell = tr[p].shell
        /\ tr'[p].lapses = tr[p].lapses /\ ~tr'[p].checked
        /\ tr'[p].busy = IF InSetup(p) \/ InClosing(p) THEN tr[p].busy + 1
                         ELSE tr[p].busy
        /\ UnderDeadline(p) => tr'[p].time = tr[p].time + 1
  BY <1>1, LastsRecord
<1>4. \A s \in Sessions : /\ age'[s] \in 0 .. Timeout + Grace
                          /\ age'[s] <= age[s] + 1
                          /\ Stale(s) => age'[s] = age[s]
  BY <1>1, Types, Zeros DEF ClaimInv, Stale
<1>5. TypeOK'
  <2>1. tr' \in [Transports -> Transport]
    BY <1>1, <1>3
  <2>2. age' \in [Sessions -> 0 .. Timeout + Grace]
    BY <1>1, <1>4
  <2>3. blind' \in [Transports -> Nat]
    BY <1>1, Types DEF ClaimInv
  <2>. QED BY <1>2, <2>1, <2>2, <2>3 DEF ClaimInv, TypeOK
<1>6. RowsCovered'
  <2>. SUFFICES ASSUME NEW p \in Transports
                PROVE  Fits(p, tr'[p], row[tr[p].session], age'[tr[p].session])
    BY <1>2, <1>3 DEF RowsCovered, Serving, Fits
  <2>. DEFINE s == tr[p].session
              a == age[s]
              c == age'[s]
  <2>1. /\ tr[p].busy \in Nat /\ tr[p].time \in Nat
        /\ Fits(p, tr[p], row[s], a) /\ (s \in Sessions => a \in Nat)
    BY Known
  <2>2. s \in Sessions => c \in Nat /\ c <= a + 1
    BY <1>4, Zeros
  <2>3. OnTime(p)
    BY <1>1
  <2>. HIDE DEF a, c
  <2>4. Serving(p) => Covered(p, tr'[p], row[s], c)
    <3>. SUFFICES ASSUME Serving(p) PROVE Covered(p, tr'[p], row[s], c)
      OBVIOUS
    <3>1. s \in Sessions /\ Covered(p, tr[p], row[s], a)
      BY <2>1 DEF Fits, Serving
    <3>2. CASE tr[p].pc \in {"setup", "prepare", "open"}
      BY <1>3, <2>1, <2>2, <2>3, <3>1, <3>2, Zeros
         DEF Covered, OnTime, InSetup, InClosing, UnderDeadline
    <3>3. CASE tr[p].pc \in {"mark", "fail"}
      BY <1>3, <2>1, <2>2, <2>3, <3>1, <3>3, Zeros
         DEF Covered, OnTime, InSetup, InClosing, UnderDeadline
    <3>4. CASE tr[p].pc \in {"relay", "exec"}
      BY <1>3, <2>1, <2>2, <2>3, <3>1, <3>4, Zeros
         DEF Covered, OnTime, InSetup, InClosing, UnderDeadline
    <3>5. CASE tr[p].pc \notin {"setup", "prepare", "open", "mark", "fail", "relay",
                                "exec"}
      BY <1>3, <3>1, <3>5 DEF Covered
    <3>. QED BY <3>2, <3>3, <3>4, <3>5
  <2>. QED BY <1>3, <2>1, <2>4 DEF Fits, Serving, c
<1>7. OneCommand'
  BY <1>3 DEF ClaimInv, OneCommand, Commands
<1>8. ReapersInformed'
  BY <1>2, <1>4 DEF ClaimInv, ReapersInformed, Due, Stale
<1>9. AllDecided'
  BY <1>2 DEF ClaimInv, AllDecided
<1>10. AllTrusted'
  <2>. SUFFICES ASSUME NEW p \in Transports PROVE Trusted(p, tr'[p], blind'[p])
    BY <1>2 DEF AllTrusted, Trusted
  <2>1. /\ tr[p].lapses \in Nat /\ blind[p] \in Nat /\ Trusted(p, tr[p], blind[p])
    BY Known
  <2>2. blind'[p] = IF tr[p].pc = "relay" /\ p \in revoked THEN blind[p] + 1
                    ELSE blind[p]
    BY <1>1
  <2>3. tr[p].pc = "relay" => tr[p].checked
    BY <1>1 DEF OnTime
  <2>. QED BY <1>3, <2>1, <2>2, <2>3, Zeros DEF Trusted
<1>. QED BY <1>5, <1>6, <1>7, <1>8, <1>9, <1>10 DEF ClaimInv

-----------------------------------------------------------------------------
(***************************************************************************)
(* The invariant                                                           *)
(***************************************************************************)
\* Nothing was asked for and nobody is connected.
LEMMA InitOK == Init => ClaimInv
<1>. SUFFICES ASSUME Init PROVE ClaimInv
  OBVIOUS
<1>1. Idle \in Transport
  BY Zeros DEF Idle, Transport, Pc
<1>2. TypeOK
  <2>1. row \in [Sessions -> Row]
    BY DEF Init, Row, Status
  <2>2. age \in [Sessions -> 0 .. Timeout + Grace] /\ tr \in [Transports -> Transport]
    BY <1>1, Zeros DEF Init
  <2>3. Free \in [session : Sessions \cup {None}, status : Status, current : BOOLEAN]
    BY DEF Free, Status
  <2>4. faults \in 0 .. MaxFaults /\ revoked \subseteq Transports
    <3>1. 0 \in 0 .. MaxFaults
      BY LimitsAssumption
    <3>. QED BY <3>1 DEF Init
  <2>. QED BY <2>1, <2>2, <2>3, <2>4 DEF Init, TypeOK
<1>3. RowsCovered /\ OneCommand
  BY DEF Init, Idle, RowsCovered, OneCommand, Serving, Commands
<1>4. ReapersInformed
  BY DEF Init, Free, ReapersInformed
<1>5. AllDecided
  BY DEF Init, AllDecided, Decided
<1>6. AllTrusted
  BY Zeros DEF Init, Idle, AllTrusted, Trusted
<1>. QED BY <1>2, <1>3, <1>4, <1>5, <1>6 DEF ClaimInv

\* Every step of the hub, of a request or of time preserves it.
LEMMA NextOK ==
    ASSUME ClaimInv, [Next]_vars
    PROVE  ClaimInv'
<1>1. CASE UNCHANGED vars
  BY <1>1 DEF vars, ClaimInv, TypeOK, RowsCovered, Serving, OneCommand, Commands,
              ReapersInformed, Due, Stale, AllDecided, AllTrusted, Trusted
<1>2. ASSUME NEW s \in Sessions, NEW u \in Users,
             RequestSession(s, u) \/ Approve(s, u) \/ Reject(s, u)
      PROVE  ClaimInv'
  BY <1>2, RequestsOK
<1>3. ASSUME NEW p \in Transports, NEW s \in Sessions,
             IssueTicket(p, s) \/ StartExec(p, s)
      PROVE  ClaimInv'
  BY <1>3, IssueTicketOK, StartExecOK
<1>4. ASSUME NEW p \in Transports,
             Proceed(p) \/ MarkUnknown(p) \/ RevokeCredential(p) \/ Disappear(p)
      PROVE  ClaimInv'
  BY <1>4, TransportOK, RevokeOK
<1>5. ASSUME NEW k \in Reapers, Reap(k)
      PROVE  ClaimInv'
  BY <1>5, ReapOK
<1>. QED BY <1>1, <1>2, <1>3, <1>4, <1>5, TickOK DEF Next

\* Every reachable state of the sessions satisfies the invariant.
THEOREM ClaimInvariance == Spec => []ClaimInv
<1>1. ClaimInv /\ [Next]_vars => ClaimInv'
  BY NextOK
<1>. QED BY InitOK, <1>1, PTL DEF Spec

(***************************************************************************)
(* However many transports, reapers and crashes there are: one shell per   *)
(* session, no live transport loses its row, a second person decides where *)
(* one has to, and a shell without its operator's credential closes.       *)
(***************************************************************************)
THEOREM SessionsHold == Spec => []SessionInv
<1>1. ClaimInv => SessionInv
  <2>. SUFFICES ASSUME ClaimInv PROVE SessionInv
    OBVIOUS
  <2>1. OneShellPerSession
    <3>. SUFFICES ASSUME NEW p \in Transports, NEW q \in Transports, tr[p].shell,
                         tr[q].shell, tr[p].session = tr[q].session
                  PROVE  p = q
      BY DEF OneShellPerSession
    <3>1. \A o \in {p, q} : /\ tr[o].pc \in {"mark", "relay", "exec", "fail"}
                            /\ Covered(o, tr[o], row[tr[o].session], age[tr[o].session])
      BY DEF ClaimInv, RowsCovered, Serving
    <3>2. CASE tr[p].pc = "exec" /\ tr[q].pc = "exec"
      BY <3>2 DEF ClaimInv, OneCommand, Commands
    <3>3. CASE tr[p].pc # "exec" \/ tr[q].pc # "exec"
      BY <3>1, <3>3, NamesAssumption DEF Covered, Claimed
    <3>. QED BY <3>2, <3>3
  <2>2. LiveTransportKeepsRow
    BY DEF ClaimInv, RowsCovered, Serving, Covered, LiveTransportKeepsRow
  <2>3. SecondPersonDecides
    BY DEF ClaimInv, AllDecided, Decided, Over, SecondPersonDecides
  <2>4. RevokedShellCloses
    BY DEF ClaimInv, AllTrusted, Trusted, RevokedShellCloses
  <2>. QED BY <2>1, <2>2, <2>3, <2>4 DEF ClaimInv, SessionInv
<1>. QED BY <1>1, ClaimInvariance, PTL

-----------------------------------------------------------------------------
(***************************************************************************)
(* The refinement                                                          *)
(***************************************************************************)
\* No session's row or use changes.
Still == UNCHANGED <<row, uses>>

\* The row of one session changes, and not its use.
Advances(s) ==
    /\ \E r : /\ row' = [row EXCEPT ![s] = r]
              /\ \/ Phase(r.status) = Phase(row[s].status)
                 \/ <<Phase(row[s].status), Phase(r.status)>> \in Grant!Steps
    /\ UNCHANGED uses

\* A session that was granted and not used is used.
IsUsed(s) ==
    /\ row[s].status \in {"ready", "connecting"}
    /\ row' = [row EXCEPT ![s] = [row[s] EXCEPT !.status = "running"]]
    /\ uses' = [uses EXCEPT ![s] = @ + 1]

\* Requests and decisions advance a session.
LEMMA RequestsAdvance ==
    ASSUME ClaimInv, NEW s \in Sessions, NEW u \in Users,
           RequestSession(s, u) \/ Approve(s, u) \/ Reject(s, u)
    PROVE  Advances(s)
<1>1. row[s] \in Row
  BY Types DEF ClaimInv
<1>2. CASE RequestSession(s, u)
  <2>1. PICK st \in {"denied", "pending_approval", "ready"} :
           WriteRow(s, [row[s] EXCEPT !.status = st, !.requestedBy = u])
    BY <1>2 DEF RequestSession
  <2>. DEFINE r == [row[s] EXCEPT !.status = st, !.requestedBy = u]
  <2>2. r.status = st
    BY <1>1 DEF Row
  <2>3. row' = [row EXCEPT ![s] = r] /\ UNCHANGED uses /\ row[s].status = "none"
    BY <1>2, <2>1 DEF RequestSession, WriteRow
  <2>. HIDE DEF r
  <2>. QED BY <2>2, <2>3 DEF Advances, Phase, Grant!Steps
<1>3. CASE Approve(s, u)
  <2>. DEFINE r == [row[s] EXCEPT !.status = "ready", !.decidedBy = u]
  <2>1. r.status = "ready"
    BY <1>1 DEF Row
  <2>2. /\ row' = [row EXCEPT ![s] = r] /\ UNCHANGED uses
        /\ row[s].status = "pending_approval"
    BY <1>3 DEF Approve, WriteRow
  <2>. HIDE DEF r
  <2>. QED BY <2>1, <2>2 DEF Advances, Phase, Grant!Steps
<1>4. CASE Reject(s, u)
  <2>. DEFINE r == [row[s] EXCEPT !.status = "rejected", !.decidedBy = u]
  <2>1. r.status = "rejected"
    BY <1>1 DEF Row
  <2>2. /\ row' = [row EXCEPT ![s] = r] /\ UNCHANGED uses
        /\ row[s].status = "pending_approval"
    BY <1>4 DEF Reject, WriteRow
  <2>. HIDE DEF r
  <2>. QED BY <2>1, <2>2 DEF Advances, Phase, Grant!Steps
<1>. QED BY <1>2, <1>3, <1>4

\* A recovered connection goes back to what it was granted for.
LEMMA ReleaseAdvances ==
    ASSUME ClaimInv, NEW s \in Sessions, row[s].status \in {"connecting", "running"},
           row' = [row EXCEPT ![s] = Reaped(row[s])], UNCHANGED uses
    PROVE  Advances(s)
<1>. DEFINE r == Reaped(row[s])
<1>1. r.status = IF row[s].status = "connecting" THEN "ready" ELSE "failed"
  BY ReapedRows, Types DEF ClaimInv
<1>2. row' = [row EXCEPT ![s] = r]
  OBVIOUS
<1>. HIDE DEF r
<1>. QED BY <1>1, <1>2 DEF Advances, Phase, Grant!Steps

\* The end of a session is written over a connection or a use of it.
LEMMA FinalAdvances ==
    ASSUME ClaimInv, NEW p \in Transports, tr[p].session \in Sessions,
           row[tr[p].session].status \in {"connecting", "running"},
           WriteRow(tr[p].session, Finalized(p)), UNCHANGED uses
    PROVE  Advances(tr[p].session)
<1>. DEFINE s == tr[p].session
            r == Finalized(p)
<1>1. row[s] \in Row /\ tr[p].outcome \in {"completed", "failed"}
  BY Types DEF ClaimInv, Transport
<1>2. r.status \in {"completed", "failed"}
  BY <1>1 DEF Finalized, Row
<1>3. row' = [row EXCEPT ![s] = r]
  BY DEF WriteRow
<1>. HIDE DEF s, r
<1>4. row[s].status \in {"connecting", "running"}
  BY DEF s
<1>5. Advances(s)
  BY <1>2, <1>3, <1>4 DEF Advances, Phase, Grant!Steps
<1>. QED BY <1>5 DEF s

\* What a transport does leaves the sessions alone, advances one or uses one.
LEMMA TransportSteps ==
    ASSUME ClaimInv, NEW p \in Transports,
           \/ Proceed(p) \/ MarkUnknown(p) \/ RevokeCredential(p) \/ Disappear(p)
           \/ \E s \in Sessions : IssueTicket(p, s) \/ StartExec(p, s)
    PROVE  Still \/ \E s \in Sessions : Advances(s) \/ IsUsed(s)
<1>1. tr[p].pc \notin {"idle", "done"} => tr[p].session \in Sessions
  BY DEF ClaimInv, RowsCovered, Serving
<1>2. CASE \E s \in Sessions : IssueTicket(p, s)
  <2>1. PICK s \in Sessions : IssueTicket(p, s)
    BY <1>2
  <2>2. CASE KeepRow
    BY <2>1, <2>2 DEF IssueTicket, KeepRow, Still
  <2>3. CASE row[s].status = "connecting" /\ WriteRow(s, Released(row[s]))
    <3>1. row' = [row EXCEPT ![s] = Reaped(row[s])] /\ UNCHANGED uses
      BY <2>1, <2>3 DEF IssueTicket, WriteRow, Reaped
    <3>. QED BY <2>3, <3>1, ReleaseAdvances
  <2>. QED BY <2>1, <2>2, <2>3 DEF IssueTicket
<1>3. CASE \E s \in Sessions : StartExec(p, s)
  BY <1>3 DEF StartExec, WriteRow, IsUsed
<1>4. CASE ConsumeTicket(p)
  <2>. DEFINE s == tr[p].session
              r == [row[s] EXCEPT !.status = "connecting", !.claim = p]
  <2>1. s \in Sessions /\ row[s] \in Row
    BY <1>1, <1>4, Types DEF ConsumeTicket, ClaimInv
  <2>2. r.status = "connecting"
    BY <2>1 DEF Row
  <2>3. row' = [row EXCEPT ![s] = r] /\ UNCHANGED uses /\ row[s].status = "ready"
    BY <1>4 DEF ConsumeTicket, MayClaim, WriteRow
  <2>. HIDE DEF s, r
  <2>4. Advances(s)
    BY <2>2, <2>3 DEF Advances, Phase
  <2>. QED BY <2>1, <2>4
<1>5. CASE MarkConnected(p) \/ MarkUnknown(p)
  <2>1. CASE Owns(p) /\ Connected(p)
    <3>1. tr[p].session \in Sessions
      BY <1>1, <1>5 DEF MarkConnected, MarkUnknown
    <3>2. IsUsed(tr[p].session)
      BY <2>1 DEF Owns, Connected, WriteRow, IsUsed
    <3>. QED BY <3>1, <3>2
  <2>2. CASE KeepRow /\ UNCHANGED uses
    BY <2>2 DEF KeepRow, Still
  <2>. QED BY <1>5, <2>1, <2>2 DEF MarkConnected, MarkUnknown
<1>6. CASE FinalizeTerminal(p) \/ FinalizeExec(p)
  <2>1. tr[p].session \in Sessions /\ UNCHANGED uses
    BY <1>1, <1>6 DEF FinalizeTerminal, FinalizeExec
  <2>2. CASE KeepRow
    BY <2>1, <2>2 DEF KeepRow, Still
  <2>3. CASE /\ row[tr[p].session].status \in {"connecting", "running"}
             /\ WriteRow(tr[p].session, Finalized(p))
    BY <2>1, <2>3, FinalAdvances
  <2>. QED BY <1>6, <2>2, <2>3 DEF FinalizeTerminal, FinalizeExec, MayFinalize
<1>7. CASE \/ RefuseTicket(p) \/ ReadClaimed(p) \/ StartStream(p) \/ OpenPodTerminal(p)
           \/ ConnectFails(p) \/ RelayEnds(p) \/ RecheckAuth(p) \/ ExecEnds(p)
           \/ RevokeCredential(p) \/ Disappear(p)
  BY <1>7 DEF RefuseTicket, ReadClaimed, StartStream, OpenPodTerminal, ConnectFails,
              RelayEnds, RecheckAuth, ExecEnds, RevokeCredential, Disappear, KeepRow,
              Still
<1>. QED BY <1>2, <1>3, <1>4, <1>5, <1>6, <1>7 DEF Proceed

\* So does everything else.
LEMMA GrantSteps ==
    ASSUME ClaimInv, [Next]_vars
    PROVE  Still \/ \E s \in Sessions : Advances(s) \/ IsUsed(s)
<1>1. CASE UNCHANGED vars \/ Tick
  BY <1>1 DEF vars, Tick, Still
<1>2. ASSUME NEW s \in Sessions, NEW u \in Users,
             RequestSession(s, u) \/ Approve(s, u) \/ Reject(s, u)
      PROVE  Advances(s)
  BY <1>2, RequestsAdvance
<1>3. ASSUME NEW k \in Reapers, Reap(k)
      PROVE  Still \/ \E s \in Sessions : Advances(s)
  <2>. DEFINE s == reaper[k].session
  <2>1. UNCHANGED uses
    BY <1>3 DEF Reap, ReapList, ReapApply
  <2>2. CASE UNCHANGED row
    BY <2>1, <2>2 DEF Still
  <2>3. CASE reaper[k].current /\ row' = [row EXCEPT ![s] = Reaped(row[s])]
    <3>1. s \in Sessions /\ Due(s)
      BY <2>3 DEF ClaimInv, ReapersInformed
    <3>2. Advances(s)
      BY <2>1, <2>3, <3>1, ReleaseAdvances DEF Due
    <3>. QED BY <3>1, <3>2
  <2>. QED BY <1>3, <2>2, <2>3 DEF Reap, ReapList, ReapApply
<1>. QED BY <1>1, <1>2, <1>3, TransportSteps DEF Next

(***************************************************************************)
(* Crashes, recoveries, reapers and races included, a grant is used at     *)
(* most once, and what was refused or is over stays so.                    *)
(***************************************************************************)
THEOREM GrantImplemented == Spec => ImplementsGrant
<1>. DEFINE phase == [s \in Sessions |-> Phase(row[s].status)]
            used == [s \in Sessions |-> uses[s] > 0]
<1>1. Init => Grant!Init
  <2>. SUFFICES ASSUME Init PROVE Grant!Init
    OBVIOUS
  <2>1. \A s \in Sessions : Phase(row[s].status) = "none"
    BY DEF Init, Phase
  <2>2. \A s \in Sessions : (uses[s] > 0) = FALSE
    BY DEF Init
  <2>3. phase = [s \in Sessions |-> "none"]
    BY <2>1
  <2>4. used = [s \in Sessions |-> FALSE]
    BY <2>2, Zenon
  <2>. QED BY <2>3, <2>4 DEF Grant!Init
<1>2. ClaimInv /\ [Next]_vars => [Grant!Next]_Grant!vars
  <2>. SUFFICES ASSUME ClaimInv, [Next]_vars PROVE [Grant!Next]_Grant!vars
    OBVIOUS
  <2>1. CASE Still
    BY <2>1 DEF Still, Grant!vars
  <2>2. ASSUME NEW s \in Sessions, Advances(s)
        PROVE  [Grant!Next]_Grant!vars
    <3>1. PICK r : /\ row' = [row EXCEPT ![s] = r]
                   /\ \/ Phase(r.status) = Phase(row[s].status)
                      \/ <<Phase(row[s].status), Phase(r.status)>> \in Grant!Steps
      BY <2>2 DEF Advances
    <3>2. UNCHANGED used
      BY <2>2 DEF Advances
    <3>3. \A o \in Sessions : row'[o] = IF o = s THEN r ELSE row[o]
      BY <3>1 DEF ClaimInv, TypeOK
    <3>4. phase' = [phase EXCEPT ![s] = Phase(r.status)]
      BY <3>3
    <3>5. CASE Phase(r.status) = Phase(row[s].status)
      BY <3>2, <3>4, <3>5 DEF Grant!vars
    <3>6. CASE <<Phase(row[s].status), Phase(r.status)>> \in Grant!Steps
      <4>1. phase[s] = Phase(row[s].status)
        OBVIOUS
      <4>2. Grant!Advance(s)
        BY <3>2, <3>4, <3>6, <4>1 DEF Grant!Advance
      <4>. QED BY <4>2 DEF Grant!Next
    <3>. QED BY <3>1, <3>5, <3>6
  <2>3. ASSUME NEW s \in Sessions, IsUsed(s)
        PROVE  [Grant!Next]_Grant!vars
    <3>. DEFINE r == [row[s] EXCEPT !.status = "running"]
    <3>1. row[s] \in Row /\ uses[s] \in Nat /\ Decided(row[s], uses[s])
      BY Types DEF ClaimInv, AllDecided
    <3>2. uses[s] = 0
      BY <2>3, <3>1 DEF Decided, Over, IsUsed
    <3>3. \A o \in Sessions : row'[o].status = IF o = s THEN "running" ELSE row[o].status
      BY <2>3, <3>1 DEF ClaimInv, TypeOK, IsUsed, Row
    <3>4. \A o \in Sessions : uses'[o] = IF o = s THEN 1 ELSE uses[o]
      BY <2>3, <3>2 DEF ClaimInv, TypeOK, IsUsed
    <3>5. phase' = [phase EXCEPT ![s] = "using"]
      <4>1. \A o \in Sessions : Phase(row'[o].status)
                                 = IF o = s THEN "using" ELSE Phase(row[o].status)
        <5>1. Phase("running") = "using"
          BY DEF Phase
        <5>. QED BY <3>3, <5>1
      <4>. QED BY <4>1
    <3>6. used' = [used EXCEPT ![s] = TRUE]
      <4>1. \A o \in Sessions :
              (uses'[o] > 0) = IF o = s THEN TRUE ELSE (uses[o] > 0)
        <5>1. \A o \in Sessions : o # s => uses'[o] = uses[o]
          BY <3>4
        <5>2. uses'[s] > 0
          BY <3>4
        <5>. QED BY <5>1, <5>2, Zenon
      <4>. QED BY <4>1, Zenon
    <3>7. phase[s] = "granted" /\ ~used[s]
      <4>1. Phase(row[s].status) = "granted" /\ ~(uses[s] > 0)
        BY <2>3, <3>2 DEF IsUsed, Phase
      <4>. QED BY <4>1
    <3>8. Grant!Use(s)
      BY <3>5, <3>6, <3>7 DEF Grant!Use
    <3>. QED BY <3>8 DEF Grant!Next
  <2>. QED BY <2>1, <2>2, <2>3, GrantSteps
<1>. QED BY <1>1, <1>2, ClaimInvariance, PTL DEF Spec, ImplementsGrant, Grant!Spec

-----------------------------------------------------------------------------
(***************************************************************************)
(* The reconcile of a service instance.  A worker never looks at its lease *)
(* again once it has it: it relies on having less time than the lease.     *)
(* The invariant says how much less, for as long as it may still write;    *)
(* requests are as quick, by assumption (Pace in MCClaims).                *)
(***************************************************************************)
ServicePc == {"idle", "lease", "read", "components", "row", "release", "done"}

Job == [pc : ServicePc, in : Service!Row, seen : Service!Versions, ok : BOOLEAN,
        left : 0..ServiceTimeout]

Lease == [owner : Service!Actors \cup {Service!Nobody, "gone"}, left : 0..Service!Ttl]

\* Whoever may still write has the lease, for a grace longer than its time.
LeaseCovers(a) ==
  Service!Holding(a) /\ Service!CanWork(a) =>
    /\ lease.owner = a
    /\ job[a].left + ServiceGrace <= lease.left

\* What it read is not behind the row, and what it wrote is there still.
InOrder(a) ==
  Service!Holding(a) /\ Service!CanWork(a) =>
    /\ job[a].pc = "components" => instance.seen <= job[a].seen
    /\ job[a].pc = "row" => components = job[a].seen

LeaseInv ==
  /\ Service!TypeOK
  /\ job \in [Service!Actors -> Job] /\ lease \in Lease
  /\ \A a \in Service!Actors :
        LeaseCovers(a) /\ InOrder(a) /\ job[a].in.status <= inventory
  /\ Service!HealthHasComponents

-----------------------------------------------------------------------------
(***************************************************************************)
(* The lease                                                               *)
(***************************************************************************)
\* The constants are numbers.
LEMMA Numbers ==
  /\ ServiceTimeout \in Nat /\ ServiceTimeout > 0
  /\ ServiceGrace \in Nat /\ ServiceGrace > 0
  /\ Service!Ttl \in Nat /\ Service!Ttl = ServiceTimeout + ServiceGrace
  /\ MaxInventory \in Nat /\ MaxStops \in Nat /\ Service!Versions \subseteq Nat
  /\ Service!Nobody \notin Service!Actors
BY ServiceAssumption DEF Service!ConstantsOK, Service!Ttl, Service!Versions

\* The lease has one owner.
LEMMA Exclusive ==
  ASSUME LeaseInv
  PROVE  Service!OneReconciler
BY DEF LeaseInv, LeaseCovers, Service!OneReconciler

(***************************************************************************)
(* A job goes on, and nothing it shares is written.                        *)
(***************************************************************************)
LEMMA JobStep ==
  ASSUME LeaseInv, NEW a \in Service!Actors, NEW x \in Job,
         job' = [job EXCEPT ![a] = x], UNCHANGED <<inventory, fresh, components, instance>>,
         lease' \in Lease, stops' \in 0..MaxStops,
         \A b \in Service!Actors \ {a} :
             lease.owner = b /\ lease.left > 0 => lease' = lease,
         x.pc = "done" => a \in Requests,
         x.seen <= inventory, x.in.status <= inventory,
         LeaseCovers(a)', InOrder(a)'
  PROVE  LeaseInv'
<1>1. \A b \in Service!Actors : job'[b] = IF b = a THEN x ELSE job[b]
  BY DEF LeaseInv
<1>2. job' \in [Service!Actors -> Job]
  BY DEF LeaseInv
<1>3. Service!TypeOK'
  <2>1. \A b \in Service!Actors :
          /\ job'[b].pc \in ServicePc /\ job'[b].seen <= inventory
             /\ job'[b].left <= ServiceTimeout
          /\ job'[b].pc = "done" => b \in Requests
    <3>1. x.pc \in ServicePc /\ x.left <= ServiceTimeout
      BY Numbers DEF Job
    <3>. QED BY <1>1, <3>1 DEF LeaseInv, Service!TypeOK, ServicePc
  <2>2. lease'.owner \in Service!Actors \cup {Service!Nobody, "gone"}
          /\ lease'.left \in 0..Service!Ttl
    BY DEF Lease
  <2>. QED BY <2>1, <2>2 DEF LeaseInv, Service!TypeOK, ServicePc
<1>4. ASSUME NEW b \in Service!Actors, b # a
      PROVE  LeaseCovers(b)' /\ InOrder(b)'
  <2>1. job'[b] = job[b]
    BY <1>1, <1>4
  <2>2. LeaseCovers(b) /\ InOrder(b)
    BY DEF LeaseInv
  <2>3. InOrder(b)'
    BY <2>1, <2>2 DEF InOrder, Service!Holding, Service!CanWork
  <2>4. ASSUME Service!Holding(b), Service!CanWork(b)
        PROVE  lease' = lease
    <3>1. lease.owner = b /\ job[b].left + ServiceGrace <= lease.left
      BY <2>2, <2>4 DEF LeaseCovers
    <3>2. job[b].left \in Nat /\ lease.left \in Nat
      BY Numbers DEF LeaseInv, Job, Lease
    <3>3. lease.left > 0
      BY <3>1, <3>2, Numbers
    <3>. QED BY <1>4, <3>1, <3>3
  <2>5. LeaseCovers(b)'
    BY <2>1, <2>2, <2>4 DEF LeaseCovers, Service!Holding, Service!CanWork
  <2>. QED BY <2>3, <2>5
<1>5. \A b \in Service!Actors : job'[b].in.status <= inventory
  BY <1>1 DEF LeaseInv
<1>6. Service!HealthHasComponents'
  BY DEF LeaseInv, Service!HealthHasComponents
<1>7. \A b \in Service!Actors : LeaseCovers(b)' /\ InOrder(b)'
  BY <1>4
<1>. QED BY <1>2, <1>3, <1>5, <1>6, <1>7 DEF LeaseInv

\* Who is at no step that writes needs no lease.
LEMMA UnheldService ==
  ASSUME NEW a \in Service!Actors, ~Service!Holding(a)'
  PROVE  LeaseCovers(a)' /\ InOrder(a)'
BY DEF LeaseCovers, InOrder

\* A job that ends.
LEMMA EndedServiceJob ==
  ASSUME NEW a \in Service!Actors
  PROVE  /\ Service!Ended(a) \in Job
         /\ Service!Ended(a).pc \in {"idle", "done"}
         /\ Service!Ended(a).pc = "done" => a \in Requests
         /\ Service!Ended(a).seen = 0 /\ Service!Ended(a).in.status = 0
<1>1. 0 \in Service!Versions /\ 0 \in 0..ServiceTimeout
  BY Numbers DEF Service!Versions
<1>2. CASE a \in Workers
  <2>1. Service!Ended(a) = [pc |-> "idle", in |-> [status |-> 0, seen |-> 0], seen |-> 0,
                    ok |-> FALSE, left |-> 0]
    BY <1>2 DEF Service!Ended, Service!Idle
  <2>. QED BY <1>1, <2>1 DEF Job, Service!Row, ServicePc
<1>3. CASE a \notin Workers
  <2>1. Service!Ended(a) = [pc |-> "done", in |-> [status |-> 0, seen |-> 0], seen |-> 0,
                    ok |-> FALSE, left |-> 0]
    BY <1>3 DEF Service!Ended, Service!Idle
  <2>. QED BY <1>1, <1>3, <2>1 DEF Job, Service!Row, ServicePc, Service!Actors
<1>. QED BY <1>2, <1>3

-----------------------------------------------------------------------------
(***************************************************************************)
(* The actions                                                             *)
(***************************************************************************)
\* What the invariant says of one actor.
LEMMA JobFacts ==
  ASSUME LeaseInv, NEW a \in Service!Actors
  PROVE  /\ job[a] \in Job /\ LeaseCovers(a) /\ InOrder(a)
         /\ job[a].seen <= inventory /\ job[a].in.status <= inventory
         /\ inventory \in Nat /\ inventory \in Service!Versions /\ fresh \in BOOLEAN
         /\ instance \in Service!Row /\ instance.status <= inventory
            /\ instance.seen <= inventory
         /\ stops \in 0..MaxStops /\ lease \in Lease
         /\ job[a].left \in Nat /\ lease.left \in Nat
BY Numbers DEF LeaseInv, Service!TypeOK, Job, Lease

\* The inventory, and what was read of it, may move without the leases.
LEMMA InventoryOK ==
  ASSUME LeaseInv, Service!Collect \/ Service!GoStale
  PROVE  LeaseInv'
<1>1. /\ UNCHANGED <<components, instance, lease, job, stops>>
      /\ inventory \in Service!Versions /\ inventory' \in Service!Versions
         /\ inventory <= inventory'
      /\ fresh' \in BOOLEAN /\ inventory \in Nat /\ inventory' \in Nat
  <2>1. inventory \in Service!Versions /\ inventory \in 0..MaxInventory
          /\ MaxInventory \in Nat
    BY Numbers DEF LeaseInv, Service!TypeOK, Service!Versions
  <2>2. CASE Service!Collect
    <3>1. inventory' = inventory + 1 /\ inventory < MaxInventory /\ fresh' = TRUE
          /\ UNCHANGED <<components, instance, lease, job, stops>>
      BY <2>2 DEF Service!Collect
    <3>2. inventory' \in Service!Versions /\ inventory \in Nat /\ inventory' \in Nat
          /\ inventory <= inventory'
      BY <2>1, <3>1 DEF Service!Versions
    <3>3. fresh' \in BOOLEAN
      BY <3>1
    <3>4. UNCHANGED <<components, instance, lease, job, stops>>
      BY <3>1
    <3>5. inventory \in Service!Versions
      BY <2>1
    <3>. QED BY <3>2, <3>3, <3>4, <3>5, Zenon
  <2>3. CASE Service!GoStale
    <3>1. UNCHANGED <<inventory, components, instance, lease, job, stops>> /\ fresh' = FALSE
      BY <2>3 DEF Service!GoStale
    <3>2. fresh' \in BOOLEAN
      BY <3>1
    <3>3. UNCHANGED <<components, instance, lease, job, stops>>
      BY <3>1
    <3>4. /\ inventory \in Service!Versions /\ inventory \in Nat
          /\ inventory' \in Service!Versions /\ inventory' \in Nat
             /\ inventory <= inventory'
      BY <2>1, <3>1
    <3>. QED BY <3>2, <3>3, <3>4, Zenon
  <2>. QED BY <2>2, <2>3
<1>2. Service!TypeOK'
  <2>1. components' \in 0..inventory'
    BY <1>1 DEF LeaseInv, Service!TypeOK
  <2>2. \A a \in Service!Actors : job[a].seen <= inventory'
    <3>1. ASSUME NEW a \in Service!Actors PROVE job[a].seen <= inventory'
      <4>1. job[a].seen \in Nat /\ job[a].seen <= inventory
        BY Numbers DEF LeaseInv, Service!TypeOK, Job
      <4>. QED BY <1>1, <4>1
    <3>. QED BY <3>1
  <2>3. instance.status <= inventory' /\ instance.seen <= inventory'
    <3>1. instance.status \in Nat /\ instance.seen \in Nat
            /\ instance.status <= inventory /\ instance.seen <= inventory
      BY Numbers DEF LeaseInv, Service!TypeOK, Service!Row
    <3>. QED BY <1>1, <3>1
  <2>. QED BY <1>1, <2>1, <2>2, <2>3 DEF LeaseInv, Service!TypeOK
<1>3. ASSUME NEW a \in Service!Actors
      PROVE  LeaseCovers(a)' /\ InOrder(a)' /\ job'[a].in.status <= inventory'
  <2>1. job[a].in.status \in Nat /\ job[a].in.status <= inventory
    BY Numbers DEF LeaseInv, Job, Service!Row
  <2>2. job'[a].in.status <= inventory'
    BY <1>1, <2>1
  <2>. QED BY <1>1, <2>2
    DEF LeaseInv, LeaseCovers, InOrder, Service!Holding, Service!CanWork
<1>. QED BY <1>1, <1>2, <1>3 DEF LeaseInv, Service!HealthHasComponents

\* Time passes for the lease and for the deadlines alike.
LEMMA LeaseTickOK ==
  ASSUME LeaseInv, Service!Tick
  PROVE  LeaseInv'
<1>1. /\ UNCHANGED <<inventory, fresh, components, instance, stops>>
      /\ lease' = [lease EXCEPT !.left = Service!Less(@)]
      /\ job' = [a \in Service!Actors |-> [job[a] EXCEPT !.left = Service!Less(@)]]
      /\ \A a \in Requests : Service!Holding(a) => job[a].left > 0
  BY DEF Service!Tick
<1>2. /\ lease'.owner = lease.owner /\ lease'.left = Service!Less(lease.left)
      /\ lease.left \in Nat /\ lease.left <= Service!Ttl
      /\ lease' = [owner |-> lease.owner, left |-> Service!Less(lease.left)]
      /\ lease.owner \in Service!Actors \cup {Service!Nobody, "gone"}
  BY <1>1, Numbers DEF LeaseInv, Lease
<1>3. lease' \in Lease
  BY <1>2, Numbers DEF Lease, Service!Less
<1>4. ASSUME NEW a \in Service!Actors
      PROVE  /\ job'[a].pc = job[a].pc /\ job'[a].in = job[a].in
                /\ job'[a].seen = job[a].seen
             /\ job'[a].ok = job[a].ok /\ job'[a].left = Service!Less(job[a].left)
             /\ job[a].left \in Nat /\ job[a].left <= ServiceTimeout
             /\ job'[a] \in Job
  <2>1. job[a] \in Job /\ job'[a] = [job[a] EXCEPT !.left = Service!Less(job[a].left)]
    BY <1>1 DEF LeaseInv
  <2>2. /\ job[a].left \in Nat /\ job[a].left <= ServiceTimeout
           /\ Service!Less(job[a].left) \in 0..ServiceTimeout
    BY <2>1, Numbers DEF Job, Service!Less
  <2>. QED BY <2>1, <2>2 DEF Job
<1>5. job' \in [Service!Actors -> Job]
  BY <1>1, <1>4
<1>6. Service!TypeOK'
  <2>1. \A a \in Service!Actors :
          /\ job'[a].pc \in ServicePc /\ job'[a].seen <= inventory
             /\ job'[a].left <= ServiceTimeout
          /\ job'[a].pc = "done" => a \in Requests
    BY <1>4, Numbers DEF LeaseInv, Service!TypeOK, Job
  <2>2. lease'.owner \in Service!Actors \cup {Service!Nobody, "gone"}
          /\ lease'.left \in 0..Service!Ttl
    BY <1>3 DEF Lease
  <2>. QED BY <1>1, <2>1, <2>2 DEF LeaseInv, Service!TypeOK, ServicePc
<1>7. ASSUME NEW a \in Service!Actors
      PROVE  LeaseCovers(a)' /\ InOrder(a)' /\ job'[a].in.status <= inventory'
  <2>1. ASSUME Service!Holding(a)', Service!CanWork(a)'
        PROVE  Service!Holding(a) /\ Service!CanWork(a) /\ job[a].left > 0
    <3>1. Service!Holding(a)
      BY <1>4, <2>1 DEF Service!Holding
    <3>2. CASE a \in Workers
      <4>1. Service!Less(job[a].left) > 0
        BY <1>4, <2>1, <3>2 DEF Service!CanWork
      <4>2. job[a].left > 0
        BY <1>4, <4>1 DEF Service!Less
      <4>. QED BY <3>1, <4>2 DEF Service!CanWork
    <3>3. CASE a \in Requests
      BY <1>1, <3>1, <3>3 DEF Service!CanWork
    <3>. QED BY <3>2, <3>3 DEF Service!Actors
  <2>2. LeaseCovers(a) /\ InOrder(a) /\ job[a].in.status <= inventory
    BY DEF LeaseInv
  <2>3. InOrder(a)'
    BY <1>1, <1>4, <2>1, <2>2 DEF InOrder
  <2>4. LeaseCovers(a)'
    <3>. SUFFICES ASSUME Service!Holding(a)', Service!CanWork(a)'
                  PROVE  lease'.owner = a /\ job'[a].left + ServiceGrace <= lease'.left
      BY DEF LeaseCovers
    <3>1. lease.owner = a /\ job[a].left + ServiceGrace <= lease.left /\ job[a].left > 0
      BY <2>1, <2>2 DEF LeaseCovers
    <3>2. Service!Less(job[a].left) = job[a].left - 1
            /\ Service!Less(lease.left) = lease.left - 1
      BY <1>2, <1>4, <3>1, Numbers DEF Service!Less
    <3>. QED BY <1>2, <1>4, <3>1, <3>2, Numbers
  <2>. QED BY <1>1, <1>4, <2>2, <2>3, <2>4
<1>. QED BY <1>1, <1>3, <1>5, <1>6, <1>7 DEF LeaseInv, Service!HealthHasComponents

\* The row is read before the lease.
LEMMA LoadOK ==
  ASSUME LeaseInv, NEW a \in Service!Actors, Service!Load(a)
  PROVE  LeaseInv'
<1>. DEFINE x == [pc |-> "lease", in |-> instance, seen |-> job[a].seen, ok |-> job[a].ok,
                  left |-> job[a].left]
<1>1. job' = [job EXCEPT ![a] = x]
  <2>1. job' = [job EXCEPT ![a].pc = "lease", ![a].in = instance]
    BY DEF Service!Load
  <2>2. job[a] \in Job /\ job \in [Service!Actors -> Job]
    BY JobFacts DEF LeaseInv
  <2>3. \A b \in Service!Actors : b # a => job'[b] = job[b]
    BY <2>1, <2>2
  <2>4. job'[a] = [[job[a] EXCEPT !.pc = "lease"] EXCEPT !.in = instance]
    BY <2>1, <2>2
  <2>5. job'[a] = x
    BY <2>2, <2>4 DEF Job
  <2>6. job' = [b \in Service!Actors |-> job'[b]]
    BY <2>1, <2>2
  <2>. HIDE DEF x
  <2>. QED BY <2>2, <2>3, <2>5, <2>6
<1>2. x \in Job /\ x.pc = "lease" /\ x.seen = job[a].seen /\ x.in = instance
  BY JobFacts DEF Job, ServicePc
<1>. HIDE DEF x
<1>3. job'[a].pc = "lease"
  BY <1>1, <1>2 DEF LeaseInv
<1>4. ~Service!Holding(a)'
  BY <1>3 DEF Service!Holding
<1>5. UNCHANGED <<inventory, fresh, components, instance, lease, stops>>
  BY DEF Service!Load
<1>. QED BY <1>1, <1>2, <1>4, <1>5, UnheldService, JobFacts, JobStep

\* A lease is taken that nobody can still rely on.
LEMMA AcquireOK ==
  ASSUME LeaseInv, NEW a \in Service!Actors, Service!Acquire(a)
  PROVE  LeaseInv'
<1>. UNCHANGED <<inventory, fresh, components, instance, stops>>
  BY DEF Service!Acquire
<1>1. CASE lease.owner \in {Service!Nobody, a} \/ lease.left = 0
  <2>. DEFINE x == [pc |-> "read", in |-> job[a].in, seen |-> job[a].seen, ok |-> job[a].ok,
                    left |-> ServiceTimeout]
  <2>1. lease' = [owner |-> a, left |-> Service!Ttl] /\ job' = [job EXCEPT ![a] = x]
    <3>1. job' = [job EXCEPT ![a].pc = "read", ![a].left = ServiceTimeout]
      BY <1>1 DEF Service!Acquire
    <3>2. job[a] \in Job /\ job \in [Service!Actors -> Job]
      BY JobFacts DEF LeaseInv
    <3>3. \A b \in Service!Actors : b # a => job'[b] = job[b]
      BY <3>1, <3>2
    <3>4. job'[a] = [[job[a] EXCEPT !.pc = "read"] EXCEPT !.left = ServiceTimeout]
      BY <3>1, <3>2
    <3>5. job'[a] = x
      BY <3>2, <3>4 DEF Job
    <3>6. job' = [b \in Service!Actors |-> job'[b]]
      BY <3>1, <3>2
    <3>. HIDE DEF x
    <3>. QED BY <1>1, <3>2, <3>3, <3>5, <3>6 DEF Service!Acquire
  <2>2. x \in Job /\ x.pc = "read" /\ x.seen = job[a].seen /\ x.in = job[a].in
          /\ x.left = ServiceTimeout
    BY JobFacts, Numbers DEF Job, ServicePc
  <2>. HIDE DEF x
  <2>3. lease' \in Lease /\ lease'.owner = a /\ lease'.left = ServiceTimeout + ServiceGrace
    BY <2>1, Numbers DEF Lease
  <2>4. job'[a] = x
    BY <2>1 DEF LeaseInv
  <2>5. LeaseCovers(a)' /\ InOrder(a)'
    BY <2>2, <2>3, <2>4, Numbers DEF LeaseCovers, InOrder
  <2>6. \A b \in Service!Actors \ {a} : lease.owner = b /\ lease.left > 0 => lease' = lease
    BY <1>1, JobFacts, Numbers
  <2>7. lease' \in Lease /\ stops' \in 0..MaxStops
    BY <2>3, JobFacts
  <2>8. x.seen <= inventory /\ x.in.status <= inventory
    BY <2>2, JobFacts
  <2>9. job' = [job EXCEPT ![a] = x] /\ x \in Job /\ (x.pc = "done" => a \in Requests)
    BY <2>1, <2>2
  <2>. QED BY <2>5, <2>6, <2>7, <2>8, <2>9, JobStep
<1>2. CASE ~(lease.owner \in {Service!Nobody, a} \/ lease.left = 0)
  <2>1. job' = [job EXCEPT ![a] = Service!Ended(a)] /\ lease' = lease
    BY <1>2 DEF Service!Acquire
  <2>2. job'[a] = Service!Ended(a)
    BY <2>1 DEF LeaseInv
  <2>3. ~Service!Holding(a)'
    BY <2>2, EndedServiceJob DEF Service!Holding
  <2>4. /\ Service!Ended(a) \in Job
        /\ Service!Ended(a).pc = "done" => a \in Requests
        /\ Service!Ended(a).seen <= inventory /\ Service!Ended(a).in.status <= inventory
    BY EndedServiceJob, JobFacts
  <2>5. lease' \in Lease /\ stops' \in 0..MaxStops /\ LeaseCovers(a)' /\ InOrder(a)'
    BY <2>1, <2>3, UnheldService, JobFacts
  <2>. QED BY <2>1, <2>4, <2>5, JobStep
<1>. QED BY <1>1, <1>2

\* The inventory that is read is not behind the row.
LEMMA ReadInventoryOK ==
  ASSUME LeaseInv, NEW a \in Service!Actors, Service!ReadInventory(a)
  PROVE  LeaseInv'
<1>. DEFINE x == [pc |-> "components", in |-> job[a].in, seen |-> inventory, ok |-> fresh,
                  left |-> job[a].left]
<1>1. job' = [job EXCEPT ![a] = x]
  <2>1. job' = [job EXCEPT ![a].pc = "components", ![a].seen = inventory, ![a].ok = fresh]
    BY DEF Service!ReadInventory
  <2>2. job[a] \in Job /\ job \in [Service!Actors -> Job]
    BY JobFacts DEF LeaseInv
  <2>3. \A b \in Service!Actors : b # a => job'[b] = job[b]
    BY <2>1, <2>2
  <2>4. job'[a] = [[[job[a] EXCEPT !.pc = "components"] EXCEPT !.seen = inventory]
          EXCEPT !.ok = fresh]
    BY <2>1, <2>2
  <2>5. job'[a] = x
    BY <2>2, <2>4 DEF Job
  <2>6. job' = [b \in Service!Actors |-> job'[b]]
    BY <2>1, <2>2
  <2>. HIDE DEF x
  <2>. QED BY <2>2, <2>3, <2>5, <2>6
<1>2. /\ x \in Job /\ x.pc = "components" /\ x.seen = inventory /\ x.in = job[a].in
      /\ x.left = job[a].left
  BY JobFacts DEF Job, ServicePc
<1>. HIDE DEF x
<1>3. job'[a] = x
  BY <1>1 DEF LeaseInv
<1>4. UNCHANGED <<inventory, fresh, components, instance, lease, stops>>
        /\ job[a].pc = "read"
      /\ Service!CanWork(a) /\ Service!Holding(a)
  BY DEF Service!ReadInventory, Service!Holding
<1>5. LeaseCovers(a)' /\ InOrder(a)'
  BY <1>2, <1>3, <1>4, JobFacts DEF LeaseCovers, InOrder
<1>6. x.seen <= inventory
  BY <1>2, JobFacts
<1>. QED BY <1>1, <1>2, <1>4, <1>5, <1>6, JobFacts, JobStep

(***************************************************************************)
(* A holder of the lease writes what it shares: nobody else may write.     *)
(***************************************************************************)
LEMMA HolderStep ==
  ASSUME LeaseInv, NEW a \in Service!Actors, Service!Holding(a), Service!CanWork(a),
         NEW x \in Job, job' = [job EXCEPT ![a] = x], x.left = job[a].left,
         x.in = job[a].in, x.seen = job[a].seen, x.pc # "done",
         UNCHANGED <<inventory, fresh, lease, stops>>,
         components' \in 0..inventory, instance' \in Service!Row,
         instance'.status <= inventory, instance'.seen <= inventory,
         instance'.seen <= components', InOrder(a)'
  PROVE  LeaseInv'
<1>1. \A b \in Service!Actors : job'[b] = IF b = a THEN x ELSE job[b]
  BY DEF LeaseInv
<1>2. job' \in [Service!Actors -> Job]
  BY DEF LeaseInv
<1>3. Service!TypeOK'
  <2>1. \A b \in Service!Actors :
          /\ job'[b].pc \in ServicePc /\ job'[b].seen <= inventory
             /\ job'[b].left <= ServiceTimeout
          /\ job'[b].pc = "done" => b \in Requests
    BY <1>1, JobFacts DEF LeaseInv, Service!TypeOK, ServicePc, Job
  <2>. QED BY <2>1 DEF LeaseInv, Service!TypeOK, ServicePc
<1>4. ASSUME NEW b \in Service!Actors
      PROVE  LeaseCovers(b)'
  <2>1. Service!Holding(b)' /\ Service!CanWork(b)' => Service!Holding(b)
          /\ Service!CanWork(b) /\ job'[b].left = job[b].left
    BY <1>1 DEF Service!Holding, Service!CanWork
  <2>2. LeaseCovers(b)
    BY DEF LeaseInv
  <2>. QED BY <2>1, <2>2 DEF LeaseCovers
<1>5. ASSUME NEW b \in Service!Actors
      PROVE  InOrder(b)'
  <2>1. CASE b = a
    BY <2>1
  <2>2. CASE b # a
    <3>1. ~(Service!Holding(b) /\ Service!CanWork(b))
      BY <2>2, Exclusive DEF Service!OneReconciler
    <3>. QED BY <1>1, <2>2, <3>1 DEF InOrder, Service!Holding, Service!CanWork
  <2>. QED BY <2>1, <2>2
<1>6. \A b \in Service!Actors : job'[b].in.status <= inventory
  BY <1>1 DEF LeaseInv
<1>. QED BY <1>2, <1>3, <1>4, <1>5, <1>6 DEF LeaseInv, Service!HealthHasComponents

\* The components catch up with the row.
LEMMA WriteComponentsOK ==
  ASSUME LeaseInv, NEW a \in Service!Actors, Service!WriteComponents(a)
  PROVE  LeaseInv'
<1>. DEFINE x == [job[a] EXCEPT !.pc = "row"]
<1>1. job' = [job EXCEPT ![a] = x]
  <2>1. job' = [job EXCEPT ![a].pc = "row"]
    BY DEF Service!WriteComponents
  <2>. QED BY <2>1, JobFacts DEF LeaseInv
<1>2. /\ x \in Job /\ x.pc = "row" /\ x.seen = job[a].seen /\ x.in = job[a].in
      /\ x.left = job[a].left
  BY JobFacts DEF Job, ServicePc
<1>. HIDE DEF x
<1>3. job'[a] = x
  BY <1>1 DEF LeaseInv
<1>4. /\ UNCHANGED <<inventory, fresh, instance, lease, stops>> /\ job[a].pc = "components"
      /\ Service!CanWork(a) /\ Service!Holding(a) /\ components' = job[a].seen
  BY DEF Service!WriteComponents, Service!Holding
<1>5. InOrder(a)'
  BY <1>2, <1>3, <1>4 DEF InOrder
<1>6. components' \in 0..inventory /\ instance.seen <= components'
  <2>1. job[a].seen \in Nat /\ job[a].seen <= inventory /\ inventory \in Nat
    BY JobFacts, Numbers DEF Job
  <2>2. instance.seen <= job[a].seen
    BY <1>4, JobFacts DEF InOrder
  <2>. QED BY <1>4, <2>1, <2>2
<1>. QED BY <1>1, <1>2, <1>4, <1>5, <1>6, JobFacts, HolderStep

\* The row shows what the components were written from.
LEMMA WriteRowOK ==
  ASSUME LeaseInv, NEW a \in Service!Actors, Service!WriteRow(a)
  PROVE  LeaseInv'
<1>. DEFINE x == [job[a] EXCEPT !.pc = "release"]
<1>1. job' = [job EXCEPT ![a] = x]
  <2>1. job' = [job EXCEPT ![a].pc = "release"]
    BY DEF Service!WriteRow
  <2>. QED BY <2>1, JobFacts DEF LeaseInv
<1>2. /\ x \in Job /\ x.pc = "release" /\ x.seen = job[a].seen /\ x.in = job[a].in
      /\ x.left = job[a].left
  BY JobFacts DEF Job, ServicePc
<1>. HIDE DEF x
<1>3. job'[a] = x
  BY <1>1 DEF LeaseInv
<1>4. /\ UNCHANGED <<inventory, fresh, components, lease, stops>> /\ job[a].pc = "row"
      /\ Service!CanWork(a) /\ Service!Holding(a) /\ instance'.seen = job[a].seen
      /\ instance'.status \in {job[a].seen, job[a].in.status}
      /\ instance' = [status |-> instance'.status, seen |-> instance'.seen]
  BY DEF Service!WriteRow, Service!Holding
<1>5. InOrder(a)'
  BY <1>2, <1>3 DEF InOrder
<1>6. /\ instance' \in Service!Row /\ instance'.status <= inventory
         /\ instance'.seen <= inventory
      /\ components' \in 0..inventory /\ instance'.seen <= components'
  <2>1. job[a].seen \in Service!Versions /\ job[a].in.status \in Service!Versions
    BY JobFacts DEF Job, Service!Row
  <2>2. components = job[a].seen
    BY <1>4, JobFacts DEF InOrder
  <2>3. instance'.seen \in Service!Versions /\ instance'.status \in Service!Versions
    BY <1>4, <2>1
  <2>4. instance' \in Service!Row
    BY <1>4, <2>3 DEF Service!Row
  <2>5. components \in 0..inventory
    BY DEF LeaseInv, Service!TypeOK
  <2>. QED BY <1>4, <2>2, <2>3, <2>4, <2>5, JobFacts, Numbers
<1>. QED BY <1>1, <1>2, <1>4, <1>5, <1>6, HolderStep

\* A job that stops writing.
LEMMA GiveUpOK ==
  ASSUME LeaseInv, NEW a \in Service!Actors, Service!GiveUp(a)
  PROVE  LeaseInv'
<1>. DEFINE x == [job[a] EXCEPT !.pc = "release"]
<1>1. job' = [job EXCEPT ![a] = x]
  <2>1. job' = [job EXCEPT ![a].pc = "release"]
    BY DEF Service!GiveUp
  <2>. QED BY <2>1, JobFacts DEF LeaseInv
<1>2. x \in Job /\ x.pc = "release" /\ x.seen = job[a].seen /\ x.in = job[a].in
  BY JobFacts DEF Job, ServicePc
<1>. HIDE DEF x
<1>3. job'[a] = x
  BY <1>1 DEF LeaseInv
<1>4. ~Service!Holding(a)'
  BY <1>2, <1>3 DEF Service!Holding
<1>5. UNCHANGED <<inventory, fresh, components, instance, lease>> /\ stops' \in 0..MaxStops
  <2>1. stops' = stops \/ (stops < MaxStops /\ stops' = stops + 1)
    BY DEF Service!GiveUp
  <2>. QED BY <2>1, JobFacts, Numbers DEF Service!GiveUp
<1>. QED BY <1>1, <1>2, <1>4, <1>5, UnheldService, JobFacts, JobStep

\* Nobody loses a lease through somebody else's release or death.
LEMMA LeaveServiceOK ==
  ASSUME LeaseInv, NEW a \in Service!Actors, Service!Release(a) \/ Service!Crash(a)
  PROVE  LeaseInv'
<1>1. /\ job' = [job EXCEPT ![a] = Service!Ended(a)]
      /\ UNCHANGED <<inventory, fresh, components, instance>>
      /\ \/ lease' = lease
         \/ lease.owner = a /\ lease' = Service!Free
         \/ lease.owner = a /\ lease' = [lease EXCEPT !.owner = "gone"]
      /\ stops' = stops \/ (stops < MaxStops /\ stops' = stops + 1)
  <2>1. CASE Service!Release(a)
    BY <2>1 DEF Service!Release
  <2>2. CASE Service!Crash(a)
    BY <2>2 DEF Service!Crash
  <2>. QED BY <2>1, <2>2
<1>2. job'[a] = Service!Ended(a)
  BY <1>1 DEF LeaseInv
<1>3. ~Service!Holding(a)'
  BY <1>2, EndedServiceJob DEF Service!Holding
<1>4. lease' \in Lease
  BY <1>1, JobFacts, Numbers DEF Lease, Service!Free
<1>5. \A b \in Service!Actors \ {a} : lease.owner = b /\ lease.left > 0 => lease' = lease
  BY <1>1
<1>6. stops' \in 0..MaxStops
  BY <1>1, JobFacts, Numbers
<1>7. /\ Service!Ended(a) \in Job
      /\ Service!Ended(a).pc = "done" => a \in Requests
      /\ Service!Ended(a).seen <= inventory /\ Service!Ended(a).in.status <= inventory
  BY EndedServiceJob, JobFacts
<1>8. LeaseCovers(a)' /\ InOrder(a)'
  BY <1>3, UnheldService
<1>. QED BY <1>1, <1>4, <1>5, <1>6, <1>7, <1>8, JobStep

-----------------------------------------------------------------------------
(***************************************************************************)
(* The theorems                                                            *)
(***************************************************************************)
(***************************************************************************)
(* LeaseInv is an invariant of the reconcile as long as requests are as    *)
(* quick as the workers have to be.                                        *)
(***************************************************************************)
THEOREM LeaseInvariance ==
  Service!Spec => []LeaseInv
<1>1. Service!Init => LeaseInv
  <2>. SUFFICES ASSUME Service!Init PROVE LeaseInv
    OBVIOUS
  <2>1. 0 \in Service!Versions /\ 0 \in 0..ServiceTimeout /\ 0 \in 0..Service!Ttl
          /\ 0 \in 0..MaxStops
    BY Numbers DEF Service!Versions
  <2>2. Service!Idle \in Job /\ Service!Idle.pc = "idle" /\ Service!Idle.seen = 0
          /\ Service!Idle.left = 0
        /\ Service!Idle.in.status = 0
    BY <2>1 DEF Service!Idle, Job, Service!Row, ServicePc
  <2>3. lease \in Lease /\ lease.owner = Service!Nobody /\ lease.left = 0
    BY <2>1 DEF Service!Init, Service!Free, Lease
  <2>4. instance \in Service!Row /\ instance.status = 0 /\ instance.seen = 0
    BY <2>1 DEF Service!Init, Service!Row
  <2>5. \A a \in Service!Actors : job[a] = Service!Idle
    BY DEF Service!Init
  <2>6. Service!TypeOK
    BY <2>1, <2>2, <2>3, <2>4, <2>5, Numbers DEF Service!Init, Service!TypeOK
  <2>7. \A a \in Service!Actors : LeaseCovers(a) /\ InOrder(a)
          /\ job[a].in.status <= inventory
    BY <2>2, <2>5 DEF LeaseCovers, InOrder, Service!Holding, Service!Init
  <2>8. job \in [Service!Actors -> Job]
    BY <2>2 DEF Service!Init
  <2>9. Service!HealthHasComponents
    BY <2>4 DEF Service!Init, Service!HealthHasComponents
  <2>. QED BY <2>3, <2>6, <2>7, <2>8, <2>9 DEF LeaseInv
<1>2. LeaseInv /\ [Service!Next]_Service!vars => LeaseInv'
  <2>. SUFFICES ASSUME LeaseInv, [Service!Next]_Service!vars
                PROVE  LeaseInv'
    OBVIOUS
  <2>1. CASE Service!Collect \/ Service!GoStale \/ Service!Tick
    BY <2>1, InventoryOK, LeaseTickOK
  <2>2. ASSUME NEW a \in Service!Actors, Service!Work(a) \/ Service!Crash(a)
        PROVE  LeaseInv'
    BY <2>2, LoadOK, AcquireOK, ReadInventoryOK, WriteComponentsOK, WriteRowOK, GiveUpOK,
       LeaveServiceOK
    DEF Service!Work
  <2>3. CASE UNCHANGED Service!vars
    BY <2>3 DEF Service!vars, LeaseInv, Service!TypeOK, LeaseCovers, InOrder,
           Service!Holding, Service!CanWork, Service!HealthHasComponents
  <2>. QED BY <2>1, <2>2, <2>3 DEF Service!Next
<1>. QED BY <1>1, <1>2, PTL DEF Service!Spec

(***************************************************************************)
(* One reconciler at a time, and a health that its components explain      *)
(* (TryAcquireK8sServiceReconcileLease, reconcileServiceInstance).         *)
(***************************************************************************)
THEOREM ServiceHolds == Service!Spec => []Service!ServiceInv
<1>1. LeaseInv => Service!ServiceInv
  BY Exclusive DEF LeaseInv, Service!ServiceInv
<1>. QED BY <1>1, LeaseInvariance, PTL

\* A step of MCClaims is one of the service or leaves it alone.
LEMMA ServiceMoves == MCSpec => Service!Spec
<1>1. MCInit => Service!Init
  BY DEF MCInit
<1>2. [MCNext]_all => [Service!Next]_Service!vars
  BY DEF MCNext, all, serviceVars, Service!vars
<1>. QED BY <1>1, <1>2, PTL DEF MCSpec, Service!Spec

\* The same of the instance that MCClaims checks.
THEOREM ServiceOfClaims == MCSpec => []ServiceInv
<1>1. Service!ServiceInv => ServiceInv
  BY DEF ServiceInv
<1>. QED BY <1>1, ServiceHolds, ServiceMoves, PTL
=============================================================================
