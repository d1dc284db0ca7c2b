----------------------------- MODULE AsyncLogger -----------------------------
(***************************************************************************)
(* The asynchronous log: requests enqueue their records, one goroutine     *)
(* writes them to the store, records the store refuses go to a fallback    *)
(* file, and an administrator's replay brings that file back.              *)
(*                                                                         *)
(* A step is one channel operation, one transaction of the store or one    *)
(* operation on a file.  Counters, timestamps and the system_errors rows   *)
(* are left out.                                                           *)
(***************************************************************************)
EXTENDS Naturals, Sequences, FiniteSets

CONSTANTS
    Records,          \* log records, each with an id of its own
    Oversized,        \* records whose line is longer than the scanner's buffer
    None,             \* no record
    QueueSize,        \* capacity of the channel
    MaxStoreFaults,   \* bound: failing inserts
    MaxDiskFaults,    \* bound: failing writes of the fallback file
    MaxKills,         \* bound: kills
    MaxStops,         \* bound: graceful stops
    MaxLate           \* bound: requests that outlive the HTTP server's shutdown

ASSUME QueueAssumption == QueueSize \in Nat \ {0}
ASSUME RecordsAssumption == None \notin Records /\ Oversized \subseteq Records
ASSUME BoundsAssumption ==
    {MaxStoreFaults, MaxDiskFaults, MaxKills, MaxStops, MaxLate} \subseteq Nat

VARIABLES
    phase,    \* of the process
    fate,     \* what became of a record at Enqueue
    queue,    \* the channel
    writer,   \* the goroutine's step and the record it holds
    stored,   \* records in the database
    file,     \* lines of the fallback file; the empty sequence: no file
    tmp,      \* lines of the replay's temporary file
    replay,   \* the replay's step and the lines it has read
    saved,    \* records ever written to the fallback file (history)
    used      \* faults and stops so far, by kind

vars == <<phase, fate, queue, writer, stored, file, tmp, replay, saved, used>>

Phase == {"serving", "stopping", "stopped", "down"}

\* A line torn by a short write runs into the record that is appended next.
Line == [recs : SUBSET Records, whole : BOOLEAN, ended : BOOLEAN]

WholeLine(r) == [recs |-> {r}, whole |-> TRUE, ended |-> TRUE]
TornLine(r) == [recs |-> {r}, whole |-> FALSE, ended |-> FALSE]

IdleWriter == [pc |-> "select", rec |-> None]
IdleReplay == [pc |-> "idle", read |-> 0]

Limit == [store |-> MaxStoreFaults, disk |-> MaxDiskFaults,
          kill |-> MaxKills, stop |-> MaxStops, late |-> MaxLate]

Use(kinds) ==
    /\ \A kind \in kinds : used[kind] < Limit[kind]
    /\ used' = [kind \in DOMAIN used |-> used[kind] + IF kind \in kinds THEN 1 ELSE 0]

\* Records a file gives back.
Readable(lines) ==
    {r \in Records : \E i \in 1 .. Len(lines) :
        lines[i].whole /\ lines[i].recs = {r}}

-----------------------------------------------------------------------------
\* Requests that are still served when the drain window ends go on.
Served ==
    \/ phase = "serving" /\ UNCHANGED used
    \/ phase \in {"stopping", "stopped"} /\ Use({"late"})

Enqueue(r) ==
    /\ Served
    /\ fate[r] = "none"
    /\ IF Len(queue) < QueueSize
       THEN /\ queue' = Append(queue, r)
            /\ fate' = [fate EXCEPT ![r] = "accepted"]
       ELSE /\ fate' = [fate EXCEPT ![r] = "dropped"]
            /\ UNCHANGED queue
    /\ UNCHANGED <<phase, writer, stored, file, tmp, replay, saved>>

(***************************************************************************)
(* The writer                                                              *)
(***************************************************************************)
Running == phase \in {"serving", "stopping"}

Receive ==
    /\ Running
    /\ writer.pc = "select"
    /\ queue # <<>>
    /\ writer' = [pc |-> "insert", rec |-> Head(queue)]
    /\ queue' = Tail(queue)
    /\ UNCHANGED <<phase, fate, stored, file, tmp, replay, saved, used>>

Insert ==
    /\ Running
    /\ writer.pc = "insert"
    /\ stored' = stored \cup {writer.rec}
    /\ writer' = IdleWriter
    /\ UNCHANGED <<phase, fate, queue, file, tmp, replay, saved, used>>

\* An error, or no answer within the deadline: the commit may have happened.
InsertFails ==
    /\ Running
    /\ writer.pc = "insert"
    /\ Use({"store"})
    /\ stored' \in {stored, stored \cup {writer.rec}}
    /\ writer' = [writer EXCEPT !.pc = "fallback"]
    /\ UNCHANGED <<phase, fate, queue, file, tmp, replay, saved>>

\* What is appended continues a last line that has no end.
Appended(lines, line) ==
    IF lines # <<>> /\ ~lines[Len(lines)].ended
    THEN [lines EXCEPT ![Len(lines)] =
            [recs |-> @.recs \cup line.recs, whole |-> FALSE, ended |-> line.ended]]
    ELSE Append(lines, line)

\* Mutant: the writer does not wait for a replay.
FallbackUnlocked == TRUE

\* fallbackMu is free.
FallbackFree == replay.pc = "idle"

WriteFallback ==
    /\ Running
    /\ writer.pc = "fallback"
    /\ FallbackFree
    /\ file' = Appended(file, WholeLine(writer.rec))
    /\ saved' = saved \cup {writer.rec}
    /\ writer' = IdleWriter
    /\ UNCHANGED <<phase, fate, queue, stored, tmp, replay, used>>

\* The file cannot be written, or not all of the line; nobody looks.
WriteFallbackFails ==
    /\ Running
    /\ writer.pc = "fallback"
    /\ FallbackFree
    /\ Use({"disk"})
    /\ file' \in {file, Appended(file, TornLine(writer.rec))}
    /\ writer' = IdleWriter
    /\ UNCHANGED <<phase, fate, queue, stored, tmp, replay, saved>>

\* done is closed and the channel drained: the writer is gone, Stop returns.
Return ==
    /\ phase = "stopping"
    /\ writer.pc = "select"
    /\ queue = <<>>
    /\ phase' = "stopped"
    /\ UNCHANGED <<fate, queue, writer, stored, file, tmp, replay, saved, used>>

(***************************************************************************)
(* The replay                                                              *)
(***************************************************************************)
ReplayBegin ==
    /\ Served
    /\ replay = IdleReplay
    /\ file # <<>>
    /\ replay' = [pc |-> "scan", read |-> 0]
    /\ tmp' = <<>>
    /\ UNCHANGED <<phase, fate, queue, writer, stored, file, saved>>

Scanning == replay.pc = "scan" /\ replay.read < Len(file)

Current == file[replay.read + 1]

Advance == replay' = [replay EXCEPT !.read = @ + 1]

KeepLine == tmp' = Appended(tmp, [Current EXCEPT !.ended = TRUE])

TooLong == Current.recs \cap Oversized # {}

\* A line that is no record is kept.
ReplayBadLine ==
    /\ Scanning
    /\ ~TooLong /\ ~Current.whole
    /\ KeepLine
    /\ Advance
    /\ UNCHANGED <<phase, fate, queue, writer, stored, file, saved, used>>

\* Mutant: a duplicate is a failure like any other.
DuplicateKept == KeepLine

\* duplicateLogRecordError: the store has the record, its line is dropped.
Duplicate == UNCHANGED tmp

ReplayInsert ==
    /\ Scanning
    /\ ~TooLong /\ Current.whole
    /\ IF Current.recs \subseteq stored THEN Duplicate ELSE UNCHANGED tmp
    /\ stored' = stored \cup Current.recs
    /\ Advance
    /\ UNCHANGED <<phase, fate, queue, writer, file, saved, used>>

ReplayInsertFails ==
    /\ Scanning
    /\ ~TooLong /\ Current.whole
    /\ Use({"store"})
    /\ stored' \in {stored, stored \cup Current.recs}
    /\ KeepLine
    /\ Advance
    /\ UNCHANGED <<phase, fate, queue, writer, file, saved>>

\* On a full disk neither the store nor the temporary file takes the line.
ReplayKeepFails ==
    /\ Scanning
    /\ ~TooLong
    /\ Use({"disk"})
    /\ tmp' \in {tmp, Appended(tmp, [Current EXCEPT !.whole = FALSE, !.ended = FALSE])}
    /\ Advance
    /\ UNCHANGED <<phase, fate, queue, writer, stored, file, saved>>

\* The scanner gives up; the file stays as it is.
ReplayGivesUp ==
    /\ Scanning
    /\ TooLong
    /\ replay' = IdleReplay
    /\ UNCHANGED <<phase, fate, queue, writer, stored, file, tmp, saved, used>>

\* The scanner is at the end of the file.
ReplayScanned ==
    /\ replay.pc = "scan"
    /\ replay.read = Len(file)
    /\ replay' = [pc |-> "remove", read |-> 0]
    /\ UNCHANGED <<phase, fate, queue, writer, stored, file, tmp, saved, used>>

\* The temporary file goes as well, when it is empty.
ReplayRemove ==
    /\ replay.pc = "remove"
    /\ file' = <<>>
    /\ replay' = IF tmp = <<>> THEN IdleReplay ELSE [pc |-> "rename", read |-> 0]
    /\ UNCHANGED <<phase, fate, queue, writer, stored, tmp, saved, used>>

ReplayRename ==
    /\ replay.pc = "rename"
    /\ file' = tmp
    /\ tmp' = <<>>
    /\ replay' = IdleReplay
    /\ UNCHANGED <<phase, fate, queue, writer, stored, saved, used>>

(***************************************************************************)
(* The process                                                             *)
(***************************************************************************)
\* The HTTP server has drained, or its drain window is over.
Stop ==
    /\ phase = "serving"
    /\ Use(IF replay = IdleReplay THEN {"stop"} ELSE {"stop", "late"})
    /\ phase' = "stopping"
    /\ UNCHANGED <<fate, queue, writer, stored, file, tmp, replay, saved>>

Gone ==
    /\ phase' = "down"
    /\ queue' = <<>>
    /\ writer' = IdleWriter
    /\ replay' = IdleReplay
    /\ UNCHANGED <<fate, stored, file, tmp, saved>>

Exit == phase = "stopped" /\ Gone /\ UNCHANGED used

Kill == phase # "down" /\ Use({"kill"}) /\ Gone

Start ==
    /\ phase = "down"
    /\ phase' = "serving"
    /\ UNCHANGED <<fate, queue, writer, stored, file, tmp, replay, saved, used>>

-----------------------------------------------------------------------------
Init ==
    /\ phase = "serving"
    /\ fate = [r \in Records |-> "none"]
    /\ queue = <<>>
    /\ writer = IdleWriter
    /\ stored = {}
    /\ file = <<>>
    /\ tmp = <<>>
    /\ replay = IdleReplay
    /\ saved = {}
    /\ used = [kind \in DOMAIN Limit |-> 0]

Write == Receive \/ Insert \/ InsertFails \/ WriteFallback \/ WriteFallbackFails

Replay ==
    \/ ReplayBegin \/ ReplayBadLine \/ ReplayInsert \/ ReplayInsertFails
    \/ ReplayKeepFails \/ ReplayGivesUp \/ ReplayScanned \/ ReplayRemove \/ ReplayRename

Resume == Return \/ Exit \/ Start

Next ==
    \/ \E r \in Records : Enqueue(r)
    \/ Write
    \/ Replay
    \/ Stop \/ Kill \/ Resume

Spec == Init /\ [][Next]_vars

-----------------------------------------------------------------------------
\* Every variable keeps its type; the channel keeps its capacity.
TypeOK ==
    /\ phase \in Phase
    /\ fate \in [Records -> {"none", "accepted", "dropped"}]
    /\ queue \in Seq(Records) /\ Len(queue) <= QueueSize
    /\ writer \in [pc : {"select", "insert", "fallback"}, rec : Records \cup {None}]
    /\ stored \subseteq Records
    /\ file \in Seq(Line) /\ tmp \in Seq(Line)
    /\ replay \in [pc : {"idle", "scan", "remove", "rename"}, read : 0 .. Len(file)]
    /\ saved \subseteq Records
    /\ used \in [store : 0 .. MaxStoreFaults, disk : 0 .. MaxDiskFaults, kill : 0 .. MaxKills,
                stop : 0 .. MaxStops, late : 0 .. MaxLate]

Accepted == {r \in Records : fate[r] = "accepted"}

Held == {queue[i] : i \in 1 .. Len(queue)} \cup ({writer.rec} \cap Records)

\* The process was never killed, every write to the disk succeeded and no
\* request outlived the drain window.
Calm == used.kill = 0 /\ used.disk = 0 /\ used.late = 0

Kept == stored \cup Readable(file) \cup (IF replay.pc = "rename" THEN Readable(tmp) ELSE {})

(***************************************************************************)
(* A record Enqueue took is on its way, in the store, or where a replay    *)
(* finds it, through failing inserts, replays beside the writer, and       *)
(* graceful stops.                                                         *)
(***************************************************************************)
NothingLost == Calm => Accepted \subseteq Held \cup Kept

(***************************************************************************)
(* When Stop has returned, every record Enqueue took is in the store or in *)
(* the fallback file.                                                      *)
(***************************************************************************)
StopFlushes == Calm /\ phase = "stopped" => Accepted \subseteq Kept

(***************************************************************************)
(* A kill costs at most the channel and the record in hand, a request that *)
(* outlives the drain window and a failing disk one record each:           *)
(* everything else reaches the store or the fallback file.                 *)
(***************************************************************************)
LossIsBounded ==
    Cardinality(Accepted \ (Held \cup stored \cup saved))
        <= used.kill * (QueueSize + 1) + used.disk + used.late

(***************************************************************************)
(* The log keeps its type; what Enqueue took is on its way, in the store   *)
(* or where a replay finds it, and after Stop no longer on its way         *)
(* (store/async.go), unless something was killed, a disk failed or a       *)
(* request outlived the drain; and these cost no more than they must.      *)
(***************************************************************************)
LogInv == TypeOK /\ NothingLost /\ StopFlushes /\ LossIsBounded

\* A replay ends before the records behind a line that is too long.
Blocked == ~Calm \/ Oversized \cap saved # {}

\* Once the store works, replays get rid of the fallback file.
FileDrains == file # <<>> ~> ((file = <<>> /\ replay = IdleReplay) \/ Blocked)
=============================================================================
