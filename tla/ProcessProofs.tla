---------------------------- MODULE ProcessProofs ----------------------------
(***************************************************************************)
(* Proofs about a process: its asynchronous log, for any records, any      *)
(* capacity of the channel and any number of faults, and its background    *)
(* loops with their shutdown, for any schedulers and timeouts.             *)
(*                                                                         *)
(* The log takes two arguments.  While nothing is killed and no disk fails *)
(* every line of a file is one whole record, so that a replay never loses  *)
(* what it has read: it is stored or in the temporary file, which replaces *)
(* the other.  When something does fail, each record that is lost is paid  *)
(* for by one failure, which bounds their number.                          *)
(***************************************************************************)
EXTENDS MCProcess, FiniteSetTheorems, SequenceTheorems, TLAPS

-----------------------------------------------------------------------------
(***************************************************************************)
(* The inductive invariant                                                 *)
(***************************************************************************)
\* A line that a replay can read and that nothing runs into.
CleanLine(line) == line.whole /\ line.ended /\ \E r \in Records : line.recs = {r}

Clean(lines) == \A i \in 1 .. Len(lines) : CleanLine(lines[i])

\* The writer holds a record from its receipt on; a replay goes in order.
Steps ==
    /\ writer.pc = "select" => writer = IdleWriter
    /\ writer.pc # "select" => writer.rec \in Records
    /\ replay.pc = "idle" => replay = IdleReplay
    /\ replay.pc \in {"remove", "rename"} => replay.read = 0
    /\ replay.pc = "rename" => file = <<>>
    /\ phase \in {"stopped", "down"} => writer = IdleWriter
    /\ phase = "down" => queue = <<>> /\ replay = IdleReplay

\* Where the records are while nothing goes wrong.
Flow ==
    /\ Clean(file) /\ Clean(tmp)
    /\ phase # "serving" => replay = IdleReplay
    /\ phase = "stopped" => queue = <<>>
    /\ replay.pc = "scan" =>
         \A i \in 1 .. replay.read : file[i].recs \subseteq stored \cup Readable(tmp)
    /\ replay.pc = "remove" => Readable(file) \subseteq stored \cup Readable(tmp)
    /\ Accepted \subseteq Held \cup Kept

\* Records that are nowhere any more, and what may account for them.
Lost == Accepted \ (Held \cup stored \cup saved)

\* What waits in the channel of a writer that is gone is as good as lost.
Parked == IF phase = "stopped" THEN Len(queue) ELSE 0

Budget == used.kill * (QueueSize + 1) + used.disk + used.late

LoggerInv ==
    /\ TypeOK
    /\ Steps
    /\ Calm => Flow
    /\ IsFiniteSet(Accepted)
    /\ Cardinality(Lost) + Parked <= Budget

-----------------------------------------------------------------------------
(***************************************************************************)
(* Lines, faults and sizes                                                 *)
(***************************************************************************)
\* The lines of a file after one more was written.
LEMMA AppendedType ==
  ASSUME NEW lines \in Seq(Line), NEW line \in Line
  PROVE  /\ Appended(lines, line) \in Seq(Line)
         /\ Len(Appended(lines, line)) \in Nat
<1>1. CASE lines # <<>> /\ ~lines[Len(lines)].ended
  <2>. DEFINE n == Len(lines)
              joined == [recs |-> lines[n].recs \cup line.recs, whole |-> FALSE, ended |-> line.ended]
  <2>1. n \in 1 .. Len(lines)
    BY <1>1, EmptySeq
  <2>2. joined \in Line
    <3>1. lines[n] \in Line
      BY <2>1, ElementOfSeq
    <3>. HIDE DEF n
    <3>. QED BY <3>1 DEF Line
  <2>3. Appended(lines, line) = [lines EXCEPT ![n] = joined]
    BY <1>1, <2>1 DEF Appended
  <2>4. [lines EXCEPT ![n] = joined] \in Seq(Line)
    <3>. HIDE DEF n, joined
    <3>. QED BY <2>1, <2>2, ExceptSeq
  <2>. QED BY <2>3, <2>4
<1>2. CASE ~(lines # <<>> /\ ~lines[Len(lines)].ended)
  BY <1>2, AppendProperties DEF Appended
<1>. QED BY <1>1, <1>2

\* Behind clean lines a clean line is a line of its own.
LEMMA AppendedClean ==
  ASSUME NEW lines \in Seq(Line), NEW line \in Line, Clean(lines), CleanLine(line)
  PROVE  /\ Clean(Appended(lines, line))
         /\ Readable(Appended(lines, line)) = Readable(lines) \cup line.recs
<1>1. Appended(lines, line) = Append(lines, line)
  <2>1. lines # <<>> => lines[Len(lines)].ended
    BY EmptySeq DEF Clean, CleanLine
  <2>. QED BY <2>1 DEF Appended
<1>2. /\ Len(Append(lines, line)) = Len(lines) + 1
      /\ \A i \in 1 .. Len(lines) : Append(lines, line)[i] = lines[i]
      /\ Append(lines, line)[Len(lines) + 1] = line
      /\ Len(lines) \in Nat
  BY AppendProperties
<1>3. Clean(Append(lines, line))
  BY <1>2 DEF Clean
<1>4. PICK r \in Records : line.recs = {r} /\ line.whole
  BY DEF CleanLine
<1>5. ASSUME NEW x \in Records
      PROVE  x \in Readable(Append(lines, line)) <=> x \in Readable(lines) \cup {r}
  <2>1. ASSUME x \in Readable(lines)
        PROVE  x \in Readable(Append(lines, line))
    BY <1>2, <2>1 DEF Readable
  <2>2. r \in Readable(Append(lines, line))
    BY <1>2, <1>4 DEF Readable
  <2>3. ASSUME x \in Readable(Append(lines, line)), x # r
        PROVE  x \in Readable(lines)
    <3>1. PICK i \in 1 .. Len(Append(lines, line)) :
            Append(lines, line)[i].whole /\ Append(lines, line)[i].recs = {x}
      BY <2>3 DEF Readable
    <3>2. i # Len(lines) + 1
      BY <1>2, <1>4, <2>3, <3>1
    <3>. QED BY <1>2, <3>1, <3>2 DEF Readable
  <2>. QED BY <2>1, <2>2, <2>3
<1>. QED BY <1>1, <1>3, <1>4, <1>5, SMTT(60) DEF Readable

\* Counting faults keeps them in their bounds, and nothing is forgotten.
LEMMA UseOK ==
  ASSUME TypeOK, NEW kinds \in SUBSET {"store", "disk", "kill", "stop", "late"}, Use(kinds)
  PROVE  /\ used' \in [store : 0 .. MaxStoreFaults, disk : 0 .. MaxDiskFaults,
                       kill : 0 .. MaxKills, stop : 0 .. MaxStops, late : 0 .. MaxLate]
         /\ used'.disk = used.disk + IF "disk" \in kinds THEN 1 ELSE 0
         /\ used'.kill = used.kill + IF "kill" \in kinds THEN 1 ELSE 0
         /\ used'.late = used.late + IF "late" \in kinds THEN 1 ELSE 0
<1>. DEFINE K == {"store", "disk", "kill", "stop", "late"}
<1>1. DOMAIN Limit = K /\ DOMAIN used = K
  BY DEF Limit, TypeOK
<1>2. /\ Limit["store"] = MaxStoreFaults /\ Limit["disk"] = MaxDiskFaults
      /\ Limit["kill"] = MaxKills /\ Limit["stop"] = MaxStops /\ Limit["late"] = MaxLate
  BY DEF Limit
<1>3. used' = [k \in K |-> used[k] + IF k \in kinds THEN 1 ELSE 0]
  BY <1>1 DEF Use
<1>4. \A k \in kinds : used[k] < Limit[k]
  BY DEF Use
<1>5. /\ used["store"] \in 0 .. MaxStoreFaults /\ used["disk"] \in 0 .. MaxDiskFaults
      /\ used["kill"] \in 0 .. MaxKills /\ used["stop"] \in 0 .. MaxStops
      /\ used["late"] \in 0 .. MaxLate
  BY DEF TypeOK
<1>6. /\ used'["store"] \in 0 .. MaxStoreFaults /\ used'["disk"] \in 0 .. MaxDiskFaults
      /\ used'["kill"] \in 0 .. MaxKills /\ used'["stop"] \in 0 .. MaxStops
      /\ used'["late"] \in 0 .. MaxLate
  BY <1>2, <1>3, <1>4, <1>5, BoundsAssumption
<1>. QED BY <1>3, <1>6

\* The records in a channel.
Queued(s) == {s[i] : i \in 1 .. Len(s)}

\* A channel holds no more records than it is long.
LEMMA QueueSizes ==
  ASSUME NEW s \in Seq(Records)
  PROVE  /\ IsFiniteSet(Queued(s)) /\ Cardinality(Queued(s)) \in Nat
         /\ Cardinality(Queued(s)) <= Len(s)
<1>. DEFINE T == {s[i] : i \in 1 .. Len(s)}
            f == [i \in 1 .. Len(s) |-> s[i]]
<1>1. Len(s) \in Nat /\ IsFiniteSet(1 .. Len(s)) /\ Cardinality(1 .. Len(s)) = Len(s)
  <2>1. Len(s) \in Nat /\ 1 \in Int /\ Len(s) \in Int
    OBVIOUS
  <2>. QED BY <2>1, FS_Interval, SMTT(60)
<1>2. f \in Surjection(1 .. Len(s), T)
  BY DEF Surjection
<1>. HIDE DEF T, f
<1>3. IsFiniteSet(T) /\ Cardinality(T) <= Len(s)
  BY <1>1, <1>2, FS_Surjection
<1>. QED BY <1>3, FS_CardinalityType DEF T, Queued

\* What a sender puts into the channel and the writer takes out of it.
LEMMA QueueOps ==
  ASSUME NEW s \in Seq(Records)
  PROVE  /\ Len(s) \in Nat /\ Queued(s) \subseteq Records
         /\ s = <<>> => Queued(s) = {} /\ Len(s) = 0
         /\ \A r \in Records : /\ Append(s, r) \in Seq(Records)
                               /\ Len(Append(s, r)) = Len(s) + 1
                               /\ Queued(Append(s, r)) = Queued(s) \cup {r}
         /\ s # <<>> => /\ Head(s) \in Records /\ Tail(s) \in Seq(Records)
                        /\ Len(Tail(s)) = Len(s) - 1
                        /\ Queued(s) = {Head(s)} \cup Queued(Tail(s))
<1>1. Len(s) \in Nat /\ Queued(s) \subseteq Records
  BY ElementOfSeq DEF Queued
<1>2. s = <<>> => Queued(s) = {} /\ Len(s) = 0
  BY DEF Queued
<1>3. ASSUME NEW r \in Records
      PROVE  /\ Append(s, r) \in Seq(Records) /\ Len(Append(s, r)) = Len(s) + 1
             /\ Queued(Append(s, r)) = Queued(s) \cup {r}
  BY AppendProperties DEF Queued
<1>4. ASSUME s # <<>>
      PROVE  /\ Head(s) \in Records /\ Tail(s) \in Seq(Records)
             /\ Len(Tail(s)) = Len(s) - 1
             /\ Queued(s) = {Head(s)} \cup Queued(Tail(s))
  <2>1. /\ Head(s) \in Records /\ Tail(s) \in Seq(Records)
        /\ Len(Tail(s)) = Len(s) - 1 /\ Head(s) = s[1] /\ Len(s) \in Nat /\ Len(s) >= 1
        /\ \A i \in 1 .. Len(Tail(s)) : Tail(s)[i] = s[i + 1]
    BY <1>4, HeadTailProperties, EmptySeq
  <2>2. ASSUME NEW i \in 1 .. Len(s)
        PROVE  s[i] \in {Head(s)} \cup Queued(Tail(s))
    <3>1. CASE i = 1
      BY <2>1, <3>1
    <3>2. CASE i # 1
      <4>1. i - 1 \in 1 .. Len(Tail(s)) /\ Tail(s)[i - 1] = s[(i - 1) + 1] /\ (i - 1) + 1 = i
        BY <2>1, <3>2
      <4>. QED BY <4>1 DEF Queued
    <3>. QED BY <3>1, <3>2
  <2>3. ASSUME NEW i \in 1 .. Len(Tail(s))
        PROVE  Tail(s)[i] \in Queued(s)
    <3>1. i + 1 \in 1 .. Len(s) /\ Tail(s)[i] = s[i + 1]
      BY <2>1
    <3>. QED BY <3>1 DEF Queued
  <2>4. Head(s) \in Queued(s)
    BY <2>1 DEF Queued
  <2>5. Queued(s) \subseteq {Head(s)} \cup Queued(Tail(s))
    BY <2>2 DEF Queued
  <2>6. Queued(Tail(s)) \subseteq Queued(s)
    BY <2>3 DEF Queued
  <2>. QED BY <2>1, <2>4, <2>5, <2>6
<1>. QED BY <1>1, <1>2, <1>3, <1>4

\* The records in the channel or in the writer's hand.
LEMMA HeldIs == Held = Queued(queue) \cup ({writer.rec} \cap Records)
BY DEF Held, Queued

\* What is lost is finite, and so is what a step adds to it.
LEMMA Counting ==
  ASSUME LoggerInv, TypeOK', NEW X, IsFiniteSet(X), Lost' \subseteq Lost \cup X,
         Cardinality(X) + Parked' + Budget <= Budget' + Parked
  PROVE  Cardinality(Lost') + Parked' <= Budget'
<1>1. IsFiniteSet(Lost) /\ Cardinality(Lost) \in Nat
  <2>1. Lost \subseteq Accepted
    BY DEF Lost
  <2>. QED BY <2>1, FS_Subset, FS_CardinalityType DEF LoggerInv
<1>2. /\ IsFiniteSet(Lost \cup X) /\ Cardinality(X) \in Nat
      /\ Cardinality(Lost \cup X) \in Nat
      /\ Cardinality(Lost \cup X) <= Cardinality(Lost) + Cardinality(X)
  <2>1. IsFiniteSet(Lost \cap X)
    BY <1>1, FS_Subset
  <2>2. Cardinality(Lost \cap X) \in Nat /\ Cardinality(X) \in Nat
    BY <2>1, FS_CardinalityType
  <2>3. /\ IsFiniteSet(Lost \cup X)
        /\ Cardinality(Lost \cup X) = Cardinality(Lost) + Cardinality(X) - Cardinality(Lost \cap X)
    BY <1>1, FS_Union
  <2>4. Cardinality(Lost \cup X) \in Nat
    BY <2>3, FS_CardinalityType
  <2>. QED BY <1>1, <2>2, <2>3, <2>4
<1>3. Cardinality(Lost') <= Cardinality(Lost \cup X) /\ Cardinality(Lost') \in Nat
  BY <1>2, FS_Subset, FS_CardinalityType
<1>4. Parked \in Nat /\ Parked' \in Nat /\ Budget \in Int /\ Budget' \in Int
  <2>1. Len(queue) \in Nat /\ Len(queue') \in Nat
    BY SMTT(60) DEF LoggerInv, TypeOK
  <2>2. /\ used.kill \in Int /\ used.disk \in Int /\ used.late \in Int
        /\ used'.kill \in Int /\ used'.disk \in Int /\ used'.late \in Int
    BY BoundsAssumption DEF LoggerInv, TypeOK
  <2>3. used.kill * (QueueSize + 1) \in Int /\ used'.kill * (QueueSize + 1) \in Int
    BY <2>2, QueueAssumption
  <2>4. Parked \in Nat /\ Parked' \in Nat
    BY <2>1 DEF Parked
  <2>. QED BY <2>2, <2>3, <2>4 DEF Budget
<1>5. Cardinality(Lost) + Parked <= Budget
  BY DEF LoggerInv
<1>. HIDE DEF Lost, Parked, Budget
<1>. QED BY <1>1, <1>2, <1>3, <1>4, <1>5

\* A step that loses nothing and spends nothing less.
LEMMA NoLoss ==
  ASSUME LoggerInv, TypeOK', Lost' \subseteq Lost, Parked' + Budget <= Budget' + Parked
  PROVE  Cardinality(Lost') + Parked' <= Budget'
<1>1. Cardinality({}) = 0 /\ IsFiniteSet({})
  BY FS_EmptySet
<1>2. Cardinality({}) + Parked' + Budget <= Budget' + Parked
  <2>. HIDE DEF Parked, Budget
  <2>1. Parked' \in Int /\ Budget \in Int
    <3>1. Len(queue') \in Nat
      BY DEF TypeOK
    <3>2. used.kill \in Int /\ used.disk \in Int /\ used.late \in Int
      BY BoundsAssumption DEF LoggerInv, TypeOK
    <3>. QED BY <3>1, <3>2, QueueAssumption DEF Parked, Budget
  <2>. QED BY <1>1, <2>1
<1>3. Lost' \subseteq Lost \cup {}
  OBVIOUS
<1>. QED BY <1>1, <1>2, <1>3, Counting

-----------------------------------------------------------------------------
(***************************************************************************)
(* Requests and the writer                                                 *)
(***************************************************************************)
\* The budget is a number, and only grows.
LEMMA BudgetInt ==
  ASSUME LoggerInv
  PROVE  /\ Budget \in Int /\ used.kill * (QueueSize + 1) \in Int
         /\ used.kill \in Nat /\ used.disk \in Nat /\ used.late \in Nat
<1>1. used.kill \in Nat /\ used.disk \in Nat /\ used.late \in Nat
  BY BoundsAssumption DEF LoggerInv, TypeOK
<1>2. used.kill * (QueueSize + 1) \in Int
  BY <1>1, QueueAssumption
<1>. QED BY <1>1, <1>2 DEF Budget

\* A failing insert costs nothing.
LEMMA StoreFaultOK ==
  ASSUME LoggerInv, Use({"store"})
  PROVE  /\ used' \in [store : 0 .. MaxStoreFaults, disk : 0 .. MaxDiskFaults,
                       kill : 0 .. MaxKills, stop : 0 .. MaxStops, late : 0 .. MaxLate]
         /\ Calm' => Calm
         /\ Budget' = Budget
<1>1. /\ used' \in [store : 0 .. MaxStoreFaults, disk : 0 .. MaxDiskFaults,
                    kill : 0 .. MaxKills, stop : 0 .. MaxStops, late : 0 .. MaxLate]
      /\ used'.disk = used.disk + 0 /\ used'.kill = used.kill + 0 /\ used'.late = used.late + 0
  BY UseOK DEF LoggerInv
<1>2. used'.disk = used.disk /\ used'.kill = used.kill /\ used'.late = used.late
  BY <1>1, BudgetInt
<1>. QED BY <1>1, <1>2 DEF Calm, Budget

\* A failing disk costs one record.
LEMMA DiskFaultOK ==
  ASSUME LoggerInv, Use({"disk"})
  PROVE  /\ used' \in [store : 0 .. MaxStoreFaults, disk : 0 .. MaxDiskFaults,
                       kill : 0 .. MaxKills, stop : 0 .. MaxStops, late : 0 .. MaxLate]
         /\ ~Calm'
         /\ Budget' = Budget + 1
<1>1. /\ used' \in [store : 0 .. MaxStoreFaults, disk : 0 .. MaxDiskFaults,
                    kill : 0 .. MaxKills, stop : 0 .. MaxStops, late : 0 .. MaxLate]
      /\ used'.disk = used.disk + 1 /\ used'.kill = used.kill + 0 /\ used'.late = used.late + 0
  BY UseOK DEF LoggerInv
<1>2. used'.disk = used.disk + 1 /\ used'.kill = used.kill /\ used'.late = used.late
  BY <1>1, BudgetInt
<1>. QED BY <1>1, <1>2, BudgetInt DEF Calm, Budget

\* Who still enqueues or replays is served, or outlives the drain.
LEMMA ServedOK ==
  ASSUME LoggerInv, Served
  PROVE  /\ used' \in [store : 0 .. MaxStoreFaults, disk : 0 .. MaxDiskFaults,
                       kill : 0 .. MaxKills, stop : 0 .. MaxStops, late : 0 .. MaxLate]
         /\ Calm' => Calm /\ phase = "serving"
         /\ phase # "down" /\ (phase # "serving" => Budget' = Budget + 1)
         /\ phase = "serving" => Budget' = Budget
<1>1. TypeOK
  BY DEF LoggerInv
<1>2. used.kill \in Nat /\ used.disk \in Nat /\ used.late \in Nat
  BY <1>1, BoundsAssumption DEF TypeOK
<1>3. CASE phase = "serving" /\ UNCHANGED used
  BY <1>1, <1>3 DEF TypeOK, Calm, Budget
<1>4. CASE phase \in {"stopping", "stopped"} /\ Use({"late"})
  <2>1. /\ used' \in [store : 0 .. MaxStoreFaults, disk : 0 .. MaxDiskFaults,
                      kill : 0 .. MaxKills, stop : 0 .. MaxStops, late : 0 .. MaxLate]
        /\ used'.disk = used.disk + 0 /\ used'.kill = used.kill + 0
        /\ used'.late = used.late + 1
    BY <1>1, <1>4, UseOK
  <2>2. used'.disk = used.disk /\ used'.kill = used.kill /\ used'.late = used.late + 1
    BY <1>2, <2>1
  <2>3. ~Calm'
    BY <1>2, <2>2 DEF Calm
  <2>4. Budget' = Budget + 1
    <3>1. used.kill * (QueueSize + 1) \in Int
      BY <1>2, QueueAssumption
    <3>. QED BY <1>2, <2>2, <3>1 DEF Budget
  <2>. QED BY <1>4, <2>1, <2>3, <2>4
<1>. QED BY <1>3, <1>4 DEF Served

\* A record is taken or dropped.
LEMMA EnqueueOK ==
  ASSUME LoggerInv, NEW r \in Records, Enqueue(r)
  PROVE  LoggerInv'
<1>1. TypeOK /\ Steps
  BY DEF LoggerInv
<1>2. UNCHANGED <<phase, writer, stored, file, tmp, replay, saved>> /\ Served
  BY DEF Enqueue
<1>3. queue \in Seq(Records) /\ queue' \in Seq(Records) /\ Len(queue) \in Nat /\ Len(queue') \in Nat
  <2>1. queue \in Seq(Records) /\ Append(queue, r) \in Seq(Records)
    BY <1>1 DEF TypeOK
  <2>2. queue' = queue \/ queue' = Append(queue, r)
    BY DEF Enqueue
  <2>. QED BY <2>1, <2>2
<1>4. \/ queue' = Append(queue, r) /\ Len(queue') <= QueueSize /\ fate' = [fate EXCEPT ![r] = "accepted"]
      \/ queue' = queue /\ fate' = [fate EXCEPT ![r] = "dropped"]
  BY <1>1, <1>3, QueueOps, QueueAssumption DEF Enqueue, TypeOK
<1>5. TypeOK'
  BY <1>1, <1>2, <1>3, <1>4, ServedOK DEF TypeOK
<1>6. Steps'
  BY <1>1, <1>2, ServedOK DEF Steps
<1>7. \/ /\ Accepted' = Accepted \cup {r} /\ Held' = Held \cup {r}
         /\ Len(queue') = Len(queue) + 1
      \/ /\ Accepted' = Accepted /\ Held' = Held /\ Len(queue') = Len(queue)
  <2>1. CASE queue' = Append(queue, r) /\ fate' = [fate EXCEPT ![r] = "accepted"]
    <3>1. Queued(queue') = Queued(queue) \cup {r} /\ Len(queue') = Len(queue) + 1
      BY <1>3, <2>1, QueueOps
    <3>2. Held' = Held \cup {r}
      BY <1>2, <3>1 DEF Held, Queued
    <3>3. Accepted' = Accepted \cup {r}
      BY <1>1, <2>1 DEF Accepted, TypeOK
    <3>. QED BY <3>1, <3>2, <3>3
  <2>2. CASE queue' = queue /\ fate' = [fate EXCEPT ![r] = "dropped"]
    <3>1. fate[r] = "none"
      BY DEF Enqueue
    <3>2. Accepted' = Accepted
      BY <1>1, <2>2, <3>1 DEF Accepted, TypeOK
    <3>. QED BY <1>2, <2>2, <3>2 DEF Held
  <2>. QED BY <1>4, <2>1, <2>2
<1>8. Calm' => Flow'
  <2>1. SUFFICES ASSUME Calm' PROVE Flow'
    OBVIOUS
  <2>2. Flow /\ phase = "serving"
    BY <2>1, <1>2, ServedOK DEF LoggerInv
  <2>3. Kept' = Kept
    BY <1>2 DEF Kept, Readable
  <2>4. Accepted' \subseteq Held' \cup Kept'
    BY <1>7, <2>2, <2>3 DEF Flow
  <2>. QED BY <1>2, <2>2, <2>4 DEF Flow, Clean, Readable
<1>9. IsFiniteSet(Accepted')
  BY <1>7, FS_AddElement DEF LoggerInv
<1>10. Lost' \subseteq Lost
  BY <1>2, <1>7 DEF Lost
<1>11. Parked' + Budget <= Budget' + Parked
  <2>1. Budget \in Int
    BY BudgetInt
  <2>2. CASE phase = "stopped"
    BY <1>2, <1>3, <1>7, <2>1, <2>2, ServedOK DEF Parked
  <2>3. CASE phase # "stopped"
    <3>1. Parked' = 0 /\ Parked = 0
      BY <1>2, <2>3 DEF Parked
    <3>. QED BY <1>2, <2>1, <3>1, ServedOK
  <2>. QED BY <2>2, <2>3
<1>12. Cardinality(Lost') + Parked' <= Budget'
  BY <1>5, <1>10, <1>11, NoLoss
<1>. QED BY <1>5, <1>6, <1>8, <1>9, <1>12 DEF LoggerInv

\* The writer takes the next record.
LEMMA ReceiveOK ==
  ASSUME LoggerInv, Receive
  PROVE  LoggerInv'
<1>1. TypeOK /\ Steps /\ queue \in Seq(Records)
  BY DEF LoggerInv, TypeOK
<1>2. /\ UNCHANGED <<phase, fate, stored, file, tmp, replay, saved, used>>
      /\ phase \in {"serving", "stopping"} /\ queue # <<>> /\ writer = IdleWriter
  BY <1>1 DEF Receive, Running, Steps
<1>3. /\ Head(queue) \in Records /\ Tail(queue) \in Seq(Records)
      /\ Len(Tail(queue)) = Len(queue) - 1 /\ Len(queue) \in Nat
      /\ Queued(queue) = {Head(queue)} \cup Queued(Tail(queue))
  BY <1>1, <1>2, QueueOps
<1>4. queue' = Tail(queue) /\ writer' = [pc |-> "insert", rec |-> Head(queue)]
  BY DEF Receive
<1>5. TypeOK'
  BY <1>1, <1>2, <1>3, <1>4, QueueAssumption DEF TypeOK
<1>6. Steps'
  BY <1>1, <1>2, <1>3, <1>4 DEF Steps
<1>7. Held' = Held
  <2>1. Held' = Queued(queue') \cup ({writer'.rec} \cap Records)
    BY DEF Held, Queued
  <2>2. {writer'.rec} \cap Records = {Head(queue)}
    BY <1>3, <1>4
  <2>3. {writer.rec} \cap Records = {}
    BY <1>2, RecordsAssumption DEF IdleWriter
  <2>. QED BY <1>3, <1>4, <2>1, <2>2, <2>3, HeldIs
<1>8. Accepted' = Accepted /\ Kept' = Kept /\ Calm' = Calm
  BY <1>2 DEF Accepted, Kept, Readable, Calm
<1>9. Calm' => Flow'
  BY <1>2, <1>7, <1>8 DEF LoggerInv, Flow, Clean, Readable
<1>10. Cardinality(Lost') + Parked' <= Budget'
  BY <1>2, <1>7, <1>8 DEF LoggerInv, Lost, Parked, Budget
<1>. QED BY <1>5, <1>6, <1>8, <1>9, <1>10 DEF LoggerInv

\* A record in the store, or in the file, is off the writer's hands.
LEMMA WrittenOK ==
  ASSUME LoggerInv, writer.pc # "select", TypeOK', Steps',
         UNCHANGED <<phase, fate, queue, tmp, replay>>,
         writer' = IdleWriter \/ writer'.rec = writer.rec,
         stored \subseteq stored', saved \subseteq saved',
         Calm' => Calm /\ Clean(file') /\ Readable(file) \subseteq Readable(file')
                  /\ (file' = file \/ replay.pc = "idle")
                  /\ (writer' = IdleWriter => writer.rec \in stored' \cup Readable(file')),
         \/ writer' # IdleWriter \/ writer.rec \in stored' \cup saved'
         \/ Budget' = Budget + 1,
         Budget' = Budget \/ Budget' = Budget + 1
  PROVE  LoggerInv'
<1>1. TypeOK /\ Steps /\ writer.rec \in Records /\ phase \in {"serving", "stopping"}
  <2>1. TypeOK /\ Steps
    BY DEF LoggerInv
  <2>2. writer.rec \in Records
    BY <2>1 DEF Steps, IdleWriter, TypeOK
  <2>3. phase \in {"serving", "stopping"}
    BY <2>1 DEF Steps, IdleWriter, TypeOK, Phase
  <2>. QED BY <2>1, <2>2, <2>3
<1>2. Held \subseteq Held' \cup {writer.rec} /\ (writer' # IdleWriter => Held' = Held)
  BY DEF Held
<1>3. Accepted' = Accepted
  BY DEF Accepted
<1>4. Calm' => Flow'
  <2>1. SUFFICES ASSUME Calm' PROVE Flow'
    OBVIOUS
  <2>2. Flow
    BY <2>1 DEF LoggerInv
  <2>3. Kept \subseteq Kept'
    BY <2>1 DEF Kept, Readable
  <2>4. Accepted' \subseteq Held' \cup Kept'
    <3>1. CASE writer' = IdleWriter
      <4>1. writer.rec \in Kept'
        BY <2>1, <3>1 DEF Kept
      <4>. QED BY <1>2, <1>3, <2>2, <2>3, <4>1 DEF Flow
    <3>2. CASE writer' # IdleWriter
      BY <1>2, <1>3, <2>2, <2>3, <3>2 DEF Flow
    <3>. QED BY <3>1, <3>2
  <2>5. Clean(file') /\ Clean(tmp')
    BY <2>1, <2>2 DEF Flow, Clean
  <2>6. replay.pc = "scan" =>
          \A i \in 1 .. replay'.read : file'[i].recs \subseteq stored' \cup Readable(tmp')
    BY <2>1, <2>2 DEF Flow, Readable
  <2>7. replay.pc = "remove" => Readable(file') \subseteq stored' \cup Readable(tmp')
    <3>1. ASSUME replay.pc = "remove" PROVE Readable(file') = Readable(file) /\ Readable(tmp') = Readable(tmp)
      BY <2>1, <3>1 DEF Readable
    <3>. QED BY <2>2, <3>1 DEF Flow
  <2>. QED BY <1>1, <2>2, <2>4, <2>5, <2>6, <2>7 DEF Flow
<1>5. Parked' = Parked
  BY DEF Parked
<1>6. Cardinality(Lost') + Parked' <= Budget'
  <2>1. Parked \in Nat
    BY <1>1 DEF Parked, TypeOK
  <2>2. CASE writer' # IdleWriter \/ writer.rec \in stored' \cup saved'
    <3>1. Lost' \subseteq Lost
      BY <1>2, <1>3, <2>2 DEF Lost
    <3>2. Parked' + Budget <= Budget' + Parked
      BY <1>5, <2>1, BudgetInt
    <3>. QED BY <3>1, <3>2, NoLoss
  <2>3. CASE Budget' = Budget + 1
    <3>1. Lost' \subseteq Lost \cup {writer.rec}
      BY <1>2, <1>3 DEF Lost
    <3>2. IsFiniteSet({writer.rec}) /\ Cardinality({writer.rec}) = 1
      BY FS_Singleton
    <3>3. Cardinality({writer.rec}) + Parked' + Budget <= Budget' + Parked
      BY <1>5, <2>1, <2>3, <3>2, BudgetInt
    <3>. QED BY <3>1, <3>2, <3>3, Counting
  <2>. QED BY <2>2, <2>3
<1>. QED BY <1>3, <1>4, <1>6 DEF LoggerInv

\* The record in the writer's hand is inserted, or refused by the store.
LEMMA InsertOK ==
  ASSUME LoggerInv, Insert \/ InsertFails
  PROVE  LoggerInv'
<1>1. TypeOK /\ Steps /\ writer.pc = "insert" /\ writer.rec \in Records
  BY DEF LoggerInv, Steps, Insert, InsertFails
<1>2. /\ UNCHANGED <<phase, fate, queue, file, tmp, replay, saved>>
      /\ stored' \in {stored, stored \cup {writer.rec}}
  BY DEF Insert, InsertFails
<1>3. /\ used' \in [store : 0 .. MaxStoreFaults, disk : 0 .. MaxDiskFaults,
                    kill : 0 .. MaxKills, stop : 0 .. MaxStops, late : 0 .. MaxLate]
      /\ Calm' => Calm
      /\ Budget' = Budget
  <2>1. CASE Insert
    BY <1>1, <2>1 DEF Insert, TypeOK, Calm, Budget
  <2>2. CASE InsertFails
    BY <2>2, StoreFaultOK DEF InsertFails
  <2>. QED BY <2>1, <2>2
<1>4. \/ writer' = IdleWriter /\ writer.rec \in stored'
      \/ writer' = [pc |-> "fallback", rec |-> writer.rec]
  <2>1. CASE Insert
    BY <2>1 DEF Insert
  <2>2. CASE InsertFails
    <3>1. writer' = [writer EXCEPT !.pc = "fallback"]
      BY <2>2 DEF InsertFails
    <3>2. writer' = [pc |-> "fallback", rec |-> writer.rec]
      BY <1>1, <3>1 DEF TypeOK
    <3>. QED BY <3>2
  <2>. QED BY <2>1, <2>2
<1>5. TypeOK'
  BY <1>1, <1>2, <1>3, <1>4 DEF TypeOK, IdleWriter
<1>6. phase \notin {"stopped", "down"}
  BY <1>1 DEF Steps, IdleWriter
<1>7. Steps'
  BY <1>1, <1>2, <1>4, <1>6 DEF Steps, IdleWriter
<1>8. Calm' => Calm /\ Clean(file') /\ Readable(file) \subseteq Readable(file')
               /\ (file' = file \/ replay.pc = "idle")
  BY <1>2, <1>3 DEF LoggerInv, Flow, Clean, Readable
<1>9. writer' = IdleWriter => writer.rec \in stored'
  BY <1>4 DEF IdleWriter
<1>10. writer' = IdleWriter \/ writer'.rec = writer.rec
  BY <1>4
<1>11. stored \subseteq stored' /\ saved \subseteq saved' /\ writer.pc # "select"
  BY <1>1, <1>2
<1>. QED BY <1>2, <1>3, <1>5, <1>7, <1>8, <1>9, <1>10, <1>11, WrittenOK

\* A record refused by the store goes to the file, or the disk fails.
LEMMA FallbackOK ==
  ASSUME LoggerInv, WriteFallback \/ WriteFallbackFails
  PROVE  LoggerInv'
<1>1. /\ TypeOK /\ Steps /\ writer.pc = "fallback" /\ writer.rec \in Records
      /\ replay.pc = "idle" /\ replay = IdleReplay
  BY DEF LoggerInv, Steps, WriteFallback, WriteFallbackFails, FallbackFree
<1>2. UNCHANGED <<phase, fate, queue, stored, tmp, replay>> /\ writer' = IdleWriter
  BY DEF WriteFallback, WriteFallbackFails
<1>3. WholeLine(writer.rec) \in Line /\ TornLine(writer.rec) \in Line
      /\ CleanLine(WholeLine(writer.rec)) /\ WholeLine(writer.rec).recs = {writer.rec}
  BY <1>1 DEF WholeLine, TornLine, Line, CleanLine
<1>4. file \in Seq(Line) /\ file' \in Seq(Line)
  <2>1. file \in Seq(Line)
    BY <1>1 DEF TypeOK
  <2>2. Appended(file, WholeLine(writer.rec)) \in Seq(Line)
    BY <1>3, <2>1, AppendedType
  <2>3. Appended(file, TornLine(writer.rec)) \in Seq(Line)
    BY <1>3, <2>1, AppendedType
  <2>4. \/ file' = file \/ file' = Appended(file, WholeLine(writer.rec))
        \/ file' = Appended(file, TornLine(writer.rec))
    BY DEF WriteFallback, WriteFallbackFails
  <2>. QED BY <2>1, <2>2, <2>3, <2>4
<1>5. /\ used' \in [store : 0 .. MaxStoreFaults, disk : 0 .. MaxDiskFaults,
                    kill : 0 .. MaxKills, stop : 0 .. MaxStops, late : 0 .. MaxLate]
      /\ saved \subseteq saved' /\ saved' \subseteq Records
      /\ \/ /\ Calm' => Calm /\ file' = Appended(file, WholeLine(writer.rec))
            /\ Budget' = Budget /\ writer.rec \in saved'
         \/ ~Calm' /\ Budget' = Budget + 1
  <2>1. CASE WriteFallback
    BY <1>1, <2>1 DEF WriteFallback, TypeOK, Calm, Budget
  <2>2. CASE WriteFallbackFails
    BY <1>1, <2>2, DiskFaultOK DEF WriteFallbackFails, TypeOK
  <2>. QED BY <2>1, <2>2
<1>6. replay' = IdleReplay /\ IdleReplay.read = 0 /\ IdleReplay.pc = "idle" /\ Len(file') \in Nat
  BY <1>1, <1>2, <1>4 DEF IdleReplay
<1>7. TypeOK'
  <2>1. replay' \in [pc : {"idle", "scan", "remove", "rename"}, read : 0 .. Len(file')]
    BY <1>6 DEF IdleReplay
  <2>. QED BY <1>1, <1>2, <1>4, <1>5, <2>1 DEF TypeOK, IdleWriter
<1>8. Steps'
  BY <1>1, <1>2 DEF Steps, IdleWriter
<1>9. Calm' => Calm /\ Clean(file') /\ Readable(file) \subseteq Readable(file')
               /\ writer.rec \in Readable(file')
  <2>1. SUFFICES ASSUME Calm'
                 PROVE  Calm /\ Clean(file') /\ Readable(file) \subseteq Readable(file')
                        /\ writer.rec \in Readable(file')
    OBVIOUS
  <2>2. Clean(file) /\ Calm
    BY <2>1, <1>5 DEF LoggerInv, Flow
  <2>3. file' = Appended(file, WholeLine(writer.rec))
    BY <2>1, <1>5
  <2>4. Clean(file') /\ Readable(file') = Readable(file) \cup {writer.rec}
    BY <1>3, <1>4, <2>2, <2>3, AppendedClean
  <2>. QED BY <2>2, <2>4
<1>10. writer.pc # "select"
  BY <1>1
<1>. QED BY <1>1, <1>2, <1>5, <1>7, <1>8, <1>9, <1>10, WrittenOK

\* The writer is gone when Stop returns, and the channel is empty.
LEMMA ReturnOK ==
  ASSUME LoggerInv, Return
  PROVE  LoggerInv'
<1>1. TypeOK /\ Steps /\ writer = IdleWriter /\ queue = <<>>
  BY DEF LoggerInv, Steps, Return
<1>2. /\ UNCHANGED <<fate, queue, writer, stored, file, tmp, replay, saved, used>>
      /\ phase = "stopping" /\ phase' = "stopped"
  BY DEF Return
<1>3. TypeOK' /\ Steps'
  BY <1>1, <1>2 DEF TypeOK, Steps, Phase
<1>4. Accepted' = Accepted /\ Kept' = Kept /\ Held' = Held /\ Calm' = Calm
  BY <1>2 DEF Accepted, Kept, Readable, Calm, Held
<1>5. Calm' => Flow'
  BY <1>1, <1>2, <1>4 DEF LoggerInv, Flow, Clean, Readable
<1>6. Parked' = 0 /\ Parked = 0 /\ Budget' = Budget /\ Lost' = Lost
  BY <1>1, <1>2, <1>4 DEF Parked, Budget, Lost
<1>. QED BY <1>3, <1>4, <1>5, <1>6 DEF LoggerInv

-----------------------------------------------------------------------------
(***************************************************************************)
(* The replay                                                              *)
(***************************************************************************)
\* What a replay's step must respect: nothing leaves the store, and a record
\* it has read stays where the file or the temporary file gives it back.
LEMMA ReplayStepOK ==
  ASSUME LoggerInv, TypeOK', Steps', UNCHANGED <<phase, fate, queue, writer, saved>>,
         stored \subseteq stored', Budget' = Budget \/ Budget' = Budget + 1,
         Calm' => /\ Calm /\ phase = "serving"
                  /\ Clean(file') /\ Clean(tmp') /\ Kept \subseteq Kept'
                  /\ replay'.pc = "scan" =>
                       \A i \in 1 .. replay'.read :
                         file'[i].recs \subseteq stored' \cup Readable(tmp')
                  /\ replay'.pc = "remove" =>
                       Readable(file') \subseteq stored' \cup Readable(tmp')
  PROVE  LoggerInv'
<1>1. Accepted' = Accepted /\ Held' = Held
  BY DEF Accepted, Held
<1>2. Calm' => Flow'
  BY <1>1 DEF LoggerInv, Flow
<1>3. Lost' \subseteq Lost
  BY <1>1 DEF Lost
<1>4. Parked' + Budget <= Budget' + Parked
  <2>1. Parked' = Parked /\ Parked \in Int
    BY DEF Parked, LoggerInv, TypeOK
  <2>. QED BY <2>1, BudgetInt
<1>5. Cardinality(Lost') + Parked' <= Budget'
  BY <1>3, <1>4, NoLoss
<1>. QED BY <1>1, <1>2, <1>5 DEF LoggerInv

\* Nobody replays in a process that is down, and in quiet times a replay is
\* over when the server stops.
LEMMA UnderWay ==
  ASSUME LoggerInv, replay.pc # "idle"
  PROVE  phase # "down" /\ (Calm => Flow /\ phase = "serving")
BY DEF LoggerInv, Steps, Flow, IdleReplay

\* A replay starts with an empty temporary file.
LEMMA ReplayBeginOK ==
  ASSUME LoggerInv, ReplayBegin
  PROVE  LoggerInv'
<1>1. TypeOK /\ Steps /\ Served
  BY DEF LoggerInv, ReplayBegin
<1>2. /\ UNCHANGED <<phase, fate, queue, writer, stored, file, saved>>
      /\ tmp' = <<>> /\ replay = IdleReplay /\ replay' = [pc |-> "scan", read |-> 0]
  BY DEF ReplayBegin
<1>3. replay.pc = "idle" /\ replay'.pc = "scan" /\ replay'.read = 0
  BY <1>2 DEF IdleReplay
<1>4. TypeOK'
  <2>1. Len(file) \in Nat
    BY <1>1 DEF TypeOK
  <2>. QED BY <1>1, <1>2, <2>1, ServedOK DEF TypeOK
<1>5. Steps'
  BY <1>1, <1>2, <1>3, ServedOK DEF Steps
<1>6. Calm' => /\ Calm /\ phase = "serving"
               /\ Clean(file') /\ Clean(tmp') /\ Kept \subseteq Kept'
  <2>1. SUFFICES ASSUME Calm'
                 PROVE  /\ Calm /\ phase = "serving"
                        /\ Clean(file') /\ Clean(tmp') /\ Kept \subseteq Kept'
    OBVIOUS
  <2>2. Calm /\ phase = "serving"
    BY <1>1, <2>1, ServedOK
  <2>3. Clean(file') /\ Clean(tmp')
    BY <1>2, <2>2 DEF LoggerInv, Flow, Clean
  <2>4. Kept \subseteq Kept'
    BY <1>2, <1>3 DEF Kept, Readable
  <2>. QED BY <2>2, <2>3, <2>4
<1>7. Budget' = Budget \/ Budget' = Budget + 1
  BY <1>1, ServedOK
<1>8. \A i \in 1 .. replay'.read : file'[i].recs \subseteq stored' \cup Readable(tmp')
  BY <1>3
<1>. QED BY <1>2, <1>3, <1>4, <1>5, <1>6, <1>7, <1>8, ReplayStepOK

\* One line is read: inserted, kept in the temporary file, or lost to it.
LEMMA ReplayLineOK ==
  ASSUME LoggerInv, Scanning, UNCHANGED <<phase, fate, queue, writer, file, saved>>, Advance,
         stored' \in {stored, stored \cup Current.recs}, tmp' \in Seq(Line),
         used' \in [store : 0 .. MaxStoreFaults, disk : 0 .. MaxDiskFaults,
                    kill : 0 .. MaxKills, stop : 0 .. MaxStops, late : 0 .. MaxLate],
         Budget' = Budget \/ Budget' = Budget + 1,
         Calm' => /\ Calm /\ Clean(tmp') /\ Readable(tmp) \subseteq Readable(tmp')
                  /\ Current.recs \subseteq stored' \cup Readable(tmp')
  PROVE  LoggerInv'
<1>1. TypeOK /\ Steps /\ replay.pc = "scan"
  BY DEF LoggerInv, Scanning
<1>2. Len(file) \in Nat /\ replay.read \in 0 .. Len(file) /\ replay.read < Len(file)
  BY <1>1 DEF TypeOK, Scanning
<1>3. replay' = [pc |-> "scan", read |-> replay.read + 1]
  BY <1>1 DEF Advance, TypeOK
<1>4. replay.read + 1 \in 0 .. Len(file) /\ replay.read + 1 \in 1 .. Len(file)
  BY <1>2
<1>5. Current \in Line
  <2>1. file \in Seq(Line)
    BY <1>1 DEF TypeOK
  <2>. QED BY <1>4, <2>1, ElementOfSeq DEF Current
<1>6. TypeOK'
  BY <1>1, <1>3, <1>4, <1>5 DEF TypeOK, Line
<1>7. Steps'
  BY <1>1, <1>3, UnderWay DEF Steps
<1>8. ASSUME Calm'
      PROVE  /\ Calm /\ phase = "serving"
             /\ Clean(file') /\ Clean(tmp') /\ Kept \subseteq Kept'
             /\ \A i \in 1 .. replay'.read :
                  file'[i].recs \subseteq stored' \cup Readable(tmp')
  <2>1. Flow /\ Calm /\ phase = "serving"
    BY <1>1, <1>8, UnderWay
  <2>2. Kept \subseteq Kept'
    BY <1>1, <1>3 DEF Kept, Readable
  <2>3. ASSUME NEW i \in 1 .. (replay.read + 1)
        PROVE  file[i].recs \subseteq stored' \cup Readable(tmp')
    <3>1. CASE i = replay.read + 1
      BY <1>8, <3>1 DEF Current
    <3>2. CASE i # replay.read + 1
      <4>1. i \in 1 .. replay.read
        BY <1>2, <3>2
      <4>2. file[i].recs \subseteq stored \cup Readable(tmp)
        BY <1>1, <2>1, <4>1 DEF Flow
      <4>. QED BY <1>8, <4>2
    <3>. QED BY <3>1, <3>2
  <2>4. Clean(file') /\ Clean(tmp')
    BY <1>8, <2>1 DEF Flow, Clean
  <2>. QED BY <1>3, <2>1, <2>2, <2>3, <2>4
<1>9. replay'.pc = "scan" /\ stored \subseteq stored'
  BY <1>3
<1>. QED BY <1>6, <1>7, <1>8, <1>9, ReplayStepOK

\* In quiet times the line under the scanner is one whole record.
LEMMA CurrentLine ==
  ASSUME LoggerInv, Scanning
  PROVE  /\ Current \in Line /\ (Calm => CleanLine(Current))
         /\ [Current EXCEPT !.ended = TRUE] \in Line
         /\ [Current EXCEPT !.ended = TRUE].recs = Current.recs
         /\ CleanLine(Current) => CleanLine([Current EXCEPT !.ended = TRUE])
         /\ [Current EXCEPT !.whole = FALSE, !.ended = FALSE] \in Line
<1>1. TypeOK
  BY DEF LoggerInv
<1>2. file \in Seq(Line) /\ replay.read + 1 \in 1 .. Len(file)
  <2>1. Len(file) \in Nat /\ replay.read \in 0 .. Len(file) /\ replay.read < Len(file)
    BY <1>1 DEF TypeOK, Scanning
  <2>. QED BY <1>1, <2>1 DEF TypeOK
<1>3. Current \in Line
  BY <1>2, ElementOfSeq DEF Current
<1>4. Calm => CleanLine(Current)
  BY <1>2 DEF LoggerInv, Flow, Clean, Current
<1>5. /\ [Current EXCEPT !.ended = TRUE] \in Line
      /\ [Current EXCEPT !.ended = TRUE].recs = Current.recs
      /\ [Current EXCEPT !.ended = TRUE].whole = Current.whole
      /\ [Current EXCEPT !.ended = TRUE].ended = TRUE
  <2>. HIDE DEF Current
  <2>. QED BY <1>3 DEF Line
<1>6. [Current EXCEPT !.whole = FALSE, !.ended = FALSE] \in Line
  <2>. HIDE DEF Current
  <2>. QED BY <1>3 DEF Line
<1>7. CleanLine(Current) => CleanLine([Current EXCEPT !.ended = TRUE])
  BY <1>5 DEF CleanLine
<1>. QED BY <1>3, <1>4, <1>5, <1>6, <1>7

\* A record goes to the store, or its line to the temporary file.
LEMMA ReplayInsertOK ==
  ASSUME LoggerInv, ReplayInsert \/ ReplayInsertFails
  PROVE  LoggerInv'
<1>1. /\ Scanning /\ UNCHANGED <<phase, fate, queue, writer, file, saved>> /\ Advance
      /\ stored' \in {stored, stored \cup Current.recs}
  BY DEF ReplayInsert, ReplayInsertFails
<1>2. /\ used' \in [store : 0 .. MaxStoreFaults, disk : 0 .. MaxDiskFaults,
                    kill : 0 .. MaxKills, stop : 0 .. MaxStops, late : 0 .. MaxLate]
      /\ Calm' => Calm
      /\ Budget' = Budget
  <2>1. CASE ReplayInsert
    BY <2>1 DEF ReplayInsert, LoggerInv, TypeOK, Calm, Budget
  <2>2. CASE ReplayInsertFails
    BY <2>2, StoreFaultOK DEF ReplayInsertFails
  <2>. QED BY <2>1, <2>2
<1>3. tmp \in Seq(Line) /\ (Calm => Clean(tmp))
  BY DEF LoggerInv, TypeOK, Flow
<1>4. \/ tmp' = tmp /\ Current.recs \subseteq stored'
      \/ tmp' = Appended(tmp, [Current EXCEPT !.ended = TRUE])
  <2>1. CASE ReplayInsert
    BY <2>1 DEF ReplayInsert, Duplicate
  <2>2. CASE ReplayInsertFails
    BY <2>2 DEF ReplayInsertFails, KeepLine
  <2>. QED BY <2>1, <2>2
<1>5. tmp' \in Seq(Line)
  BY <1>1, <1>3, <1>4, AppendedType, CurrentLine
<1>6. ASSUME Calm'
      PROVE  /\ Calm /\ Clean(tmp') /\ Readable(tmp) \subseteq Readable(tmp')
             /\ Current.recs \subseteq stored' \cup Readable(tmp')
  <2>1. Calm /\ Clean(tmp) /\ CleanLine(Current)
    BY <1>1, <1>2, <1>3, <1>6, CurrentLine
  <2>2. CASE tmp' = tmp /\ Current.recs \subseteq stored'
    BY <2>1, <2>2
  <2>3. CASE tmp' = Appended(tmp, [Current EXCEPT !.ended = TRUE])
    <3>. DEFINE line == [Current EXCEPT !.ended = TRUE]
    <3>1. line \in Line /\ CleanLine(line) /\ line.recs = Current.recs
      BY <1>1, <2>1, CurrentLine
    <3>. HIDE DEF line
    <3>2. /\ Clean(Appended(tmp, line))
          /\ Readable(Appended(tmp, line)) = Readable(tmp) \cup line.recs
      BY <1>3, <2>1, <3>1, AppendedClean
    <3>3. tmp' = Appended(tmp, line)
      BY <2>3 DEF line
    <3>. QED BY <2>1, <3>1, <3>2, <3>3
  <2>. QED BY <1>4, <2>2, <2>3
<1>. QED BY <1>1, <1>2, <1>5, <1>6, ReplayLineOK

\* A line that is no record is kept; there is none in quiet times.
LEMMA ReplayBadLineOK ==
  ASSUME LoggerInv, ReplayBadLine
  PROVE  LoggerInv'
<1>1. /\ Scanning /\ UNCHANGED <<phase, fate, queue, writer, file, saved, stored, used>> /\ Advance
      /\ tmp' = Appended(tmp, [Current EXCEPT !.ended = TRUE]) /\ ~Current.whole
  BY DEF ReplayBadLine, KeepLine
<1>2. tmp' \in Seq(Line)
  <2>. DEFINE line == [Current EXCEPT !.ended = TRUE]
  <2>1. line \in Line /\ tmp \in Seq(Line)
    BY <1>1, CurrentLine DEF LoggerInv, TypeOK
  <2>. HIDE DEF line
  <2>2. Appended(tmp, line) \in Seq(Line)
    BY <2>1, AppendedType
  <2>. QED BY <1>1, <2>1, <2>2 DEF line
<1>3. ~Calm' /\ Budget' = Budget
  BY <1>1, CurrentLine DEF CleanLine, Calm, Budget
<1>4. used' \in [store : 0 .. MaxStoreFaults, disk : 0 .. MaxDiskFaults,
                 kill : 0 .. MaxKills, stop : 0 .. MaxStops, late : 0 .. MaxLate]
  BY <1>1 DEF LoggerInv, TypeOK
<1>. QED BY <1>1, <1>2, <1>3, <1>4, ReplayLineOK

\* The disk takes neither the record nor its line.
LEMMA ReplayKeepFailsOK ==
  ASSUME LoggerInv, ReplayKeepFails
  PROVE  LoggerInv'
<1>1. /\ Scanning /\ UNCHANGED <<phase, fate, queue, writer, file, saved, stored>> /\ Advance
      /\ Use({"disk"})
      /\ tmp' \in {tmp, Appended(tmp, [Current EXCEPT !.whole = FALSE, !.ended = FALSE])}
  BY DEF ReplayKeepFails
<1>2. tmp' \in Seq(Line)
  <2>. DEFINE line == [Current EXCEPT !.whole = FALSE, !.ended = FALSE]
  <2>1. line \in Line /\ tmp \in Seq(Line)
    BY <1>1, CurrentLine DEF LoggerInv, TypeOK
  <2>. HIDE DEF line
  <2>2. Appended(tmp, line) \in Seq(Line)
    BY <2>1, AppendedType
  <2>. QED BY <1>1, <2>1, <2>2 DEF line
<1>. QED BY <1>1, <1>2, DiskFaultOK, ReplayLineOK

\* The replay ends early: the file is as it was.
LEMMA ReplayGivesUpOK ==
  ASSUME LoggerInv, ReplayGivesUp
  PROVE  LoggerInv'
<1>1. /\ UNCHANGED <<phase, fate, queue, writer, stored, file, tmp, saved, used>>
      /\ replay.pc = "scan" /\ replay' = IdleReplay
  BY DEF ReplayGivesUp, Scanning
<1>2. replay'.pc = "idle" /\ replay'.read = 0 /\ Len(file) \in Nat
  BY <1>1 DEF IdleReplay, LoggerInv, TypeOK
<1>3. TypeOK'
  <2>1. replay' \in [pc : {"idle", "scan", "remove", "rename"}, read : 0 .. Len(file')]
    BY <1>1, <1>2 DEF IdleReplay
  <2>. QED BY <1>1, <2>1 DEF LoggerInv, TypeOK
<1>4. Steps'
  BY <1>1, <1>2 DEF LoggerInv, Steps
<1>5. Kept' = Kept /\ Budget' = Budget /\ Calm' = Calm
  BY <1>1, <1>2 DEF Kept, Readable, Budget, Calm
<1>6. Calm' => Calm /\ phase = "serving" /\ Clean(file') /\ Clean(tmp')
  BY <1>1, <1>5, UnderWay DEF Flow, Clean
<1>. QED BY <1>1, <1>2, <1>3, <1>4, <1>5, <1>6, ReplayStepOK

\* All is read: every record of the file is in the store or kept.
LEMMA ReplayScannedOK ==
  ASSUME LoggerInv, ReplayScanned
  PROVE  LoggerInv'
<1>1. /\ UNCHANGED <<phase, fate, queue, writer, stored, file, tmp, saved, used>>
      /\ replay.pc = "scan" /\ replay.read = Len(file) /\ replay' = [pc |-> "remove", read |-> 0]
      /\ replay'.pc = "remove"
  BY DEF ReplayScanned
<1>2. TypeOK'
  <2>1. Len(file) \in Nat
    BY DEF LoggerInv, TypeOK
  <2>. QED BY <1>1, <2>1 DEF LoggerInv, TypeOK
<1>3. Steps'
  BY <1>1, UnderWay DEF LoggerInv, Steps
<1>4. Kept' = Kept /\ Budget' = Budget /\ Calm' = Calm
  BY <1>1 DEF Kept, Readable, Budget, Calm
<1>5. ASSUME Calm'
      PROVE  /\ Calm /\ phase = "serving" /\ Clean(file') /\ Clean(tmp')
             /\ Readable(file') \subseteq stored' \cup Readable(tmp')
  <2>1. Flow /\ Calm /\ phase = "serving"
    BY <1>1, <1>4, <1>5, UnderWay
  <2>2. \A i \in 1 .. Len(file) : file[i].recs \subseteq stored \cup Readable(tmp)
    BY <1>1, <2>1 DEF Flow
  <2>3. Readable(file) \subseteq stored \cup Readable(tmp)
    <3>1. SUFFICES ASSUME NEW r \in Readable(file)
                   PROVE  r \in stored \cup Readable(tmp)
      OBVIOUS
    <3>2. PICK i \in 1 .. Len(file) : file[i].recs = {r}
      BY <3>1 DEF Readable
    <3>. QED BY <2>2, <3>2
  <2>. QED BY <1>1, <2>1, <2>3 DEF Flow, Clean, Readable
<1>. QED BY <1>1, <1>2, <1>3, <1>4, <1>5, ReplayStepOK

\* The file is removed before the temporary file takes its name.
LEMMA ReplayRemoveOK ==
  ASSUME LoggerInv, ReplayRemove
  PROVE  LoggerInv'
<1>1. /\ UNCHANGED <<phase, fate, queue, writer, stored, tmp, saved, used>>
      /\ replay.pc = "remove" /\ file' = <<>>
      /\ \/ tmp = <<>> /\ replay' = IdleReplay
         \/ tmp # <<>> /\ replay' = [pc |-> "rename", read |-> 0]
  BY DEF ReplayRemove
<1>2. replay'.pc \in {"idle", "rename"} /\ replay'.read = 0 /\ replay' \in [pc : {"idle", "rename"}, read : {0}]
  BY <1>1 DEF IdleReplay
<1>3. TypeOK'
  <2>1. file' \in Seq(Line) /\ Len(file') = 0
    BY <1>1
  <2>2. replay' \in [pc : {"idle", "scan", "remove", "rename"}, read : 0 .. Len(file')]
    BY <1>2, <2>1
  <2>. QED BY <1>1, <2>1, <2>2 DEF LoggerInv, TypeOK
<1>4. Steps'
  BY <1>1, UnderWay DEF LoggerInv, Steps, IdleReplay
<1>5. Budget' = Budget /\ Calm' = Calm
  BY <1>1 DEF Budget, Calm
<1>6. ASSUME Calm'
      PROVE  /\ Calm /\ phase = "serving" /\ Clean(file') /\ Clean(tmp') /\ Kept \subseteq Kept'
  <2>1. Flow /\ Calm /\ phase = "serving"
    BY <1>1, <1>5, <1>6, UnderWay
  <2>2. Clean(file') /\ Clean(tmp')
    BY <1>1, <2>1 DEF Flow, Clean
  <2>3. Kept = stored \cup Readable(file)
    BY <1>1 DEF Kept
  <2>4. Readable(file) \subseteq stored \cup Readable(tmp)
    BY <1>1, <2>1 DEF Flow
  <2>5. Readable(tmp) \subseteq Kept'
    <3>1. CASE tmp = <<>>
      BY <3>1 DEF Readable
    <3>2. CASE tmp # <<>>
      BY <1>1, <3>2 DEF Kept, Readable
    <3>. QED BY <3>1, <3>2
  <2>6. stored \subseteq Kept'
    BY <1>1 DEF Kept
  <2>. QED BY <2>1, <2>2, <2>3, <2>4, <2>5, <2>6
<1>7. replay'.pc # "scan" /\ replay'.pc # "remove"
  BY <1>2
<1>. QED BY <1>1, <1>3, <1>4, <1>5, <1>6, <1>7, ReplayStepOK

\* What was kept is the fallback file now.
LEMMA ReplayRenameOK ==
  ASSUME LoggerInv, ReplayRename
  PROVE  LoggerInv'
<1>1. /\ UNCHANGED <<phase, fate, queue, writer, stored, saved, used>>
      /\ replay.pc = "rename" /\ file' = tmp /\ tmp' = <<>> /\ replay' = IdleReplay
      /\ file = <<>>
  BY DEF ReplayRename, LoggerInv, Steps
<1>2. replay'.pc = "idle" /\ replay'.read = 0
  BY <1>1 DEF IdleReplay
<1>3. TypeOK'
  <2>1. file' \in Seq(Line) /\ Len(file') \in Nat /\ tmp' \in Seq(Line)
    BY <1>1 DEF LoggerInv, TypeOK
  <2>2. replay' \in [pc : {"idle", "scan", "remove", "rename"}, read : 0 .. Len(file')]
    BY <1>1, <2>1 DEF IdleReplay
  <2>. QED BY <1>1, <2>1, <2>2 DEF LoggerInv, TypeOK
<1>4. Steps'
  BY <1>1, <1>2 DEF LoggerInv, Steps
<1>5. Budget' = Budget /\ Calm' = Calm
  BY <1>1 DEF Budget, Calm
<1>6. ASSUME Calm'
      PROVE  /\ Calm /\ phase = "serving" /\ Clean(file') /\ Clean(tmp') /\ Kept \subseteq Kept'
  <2>1. Flow /\ Calm /\ phase = "serving"
    BY <1>1, <1>5, <1>6, UnderWay
  <2>2. Clean(file') /\ Clean(tmp')
    BY <1>1, <2>1 DEF Flow, Clean
  <2>3. Kept \subseteq Kept'
    BY <1>1 DEF Kept, Readable
  <2>. QED BY <2>1, <2>2, <2>3
<1>7. replay'.pc # "scan" /\ replay'.pc # "remove"
  BY <1>2
<1>. QED BY <1>1, <1>3, <1>4, <1>5, <1>6, <1>7, ReplayStepOK

-----------------------------------------------------------------------------
(***************************************************************************)
(* The process                                                             *)
(***************************************************************************)
\* The server stops; a replay that is still under way outlives the drain.
LEMMA StopOK ==
  ASSUME LoggerInv, Stop
  PROVE  LoggerInv'
<1>1. /\ UNCHANGED <<fate, queue, writer, stored, file, tmp, replay, saved>>
      /\ phase = "serving" /\ phase' = "stopping"
  BY DEF Stop
<1>2. /\ used' \in [store : 0 .. MaxStoreFaults, disk : 0 .. MaxDiskFaults,
                    kill : 0 .. MaxKills, stop : 0 .. MaxStops, late : 0 .. MaxLate]
      /\ Calm' => Calm /\ replay = IdleReplay
      /\ Budget' = Budget \/ Budget' = Budget + 1
  <2>1. CASE replay = IdleReplay
    <3>1. Use({"stop"})
      BY <2>1 DEF Stop
    <3>2. /\ used' \in [store : 0 .. MaxStoreFaults, disk : 0 .. MaxDiskFaults,
                        kill : 0 .. MaxKills, stop : 0 .. MaxStops, late : 0 .. MaxLate]
          /\ used'.disk = used.disk + 0 /\ used'.kill = used.kill + 0
          /\ used'.late = used.late + 0
      BY <3>1, UseOK DEF LoggerInv
    <3>3. used'.disk = used.disk /\ used'.kill = used.kill /\ used'.late = used.late
      BY <3>2, BudgetInt
    <3>. QED BY <2>1, <3>2, <3>3 DEF Calm, Budget
  <2>2. CASE replay # IdleReplay
    <3>1. Use({"stop", "late"})
      BY <2>2 DEF Stop
    <3>2. /\ used' \in [store : 0 .. MaxStoreFaults, disk : 0 .. MaxDiskFaults,
                        kill : 0 .. MaxKills, stop : 0 .. MaxStops, late : 0 .. MaxLate]
          /\ used'.disk = used.disk + 0 /\ used'.kill = used.kill + 0
          /\ used'.late = used.late + 1
      BY <3>1, UseOK DEF LoggerInv
    <3>3. used'.disk = used.disk /\ used'.kill = used.kill /\ used'.late = used.late + 1
      BY <3>2, BudgetInt
    <3>. QED BY <3>2, <3>3, BudgetInt DEF Calm, Budget
  <2>. QED BY <2>1, <2>2
<1>3. TypeOK'
  BY <1>1, <1>2 DEF LoggerInv, TypeOK, Phase
<1>4. Steps'
  BY <1>1 DEF LoggerInv, Steps
<1>5. Accepted' = Accepted /\ Kept' = Kept /\ Held' = Held
  BY <1>1 DEF Accepted, Kept, Readable, Held
<1>6. Calm' => Flow'
  BY <1>1, <1>2, <1>5 DEF LoggerInv, Flow, Clean, Readable, IdleReplay
<1>7. Lost' \subseteq Lost /\ Parked' = 0 /\ Parked = 0
  BY <1>1, <1>5 DEF Lost, Parked
<1>8. Parked' + Budget <= Budget' + Parked
  BY <1>2, <1>7, BudgetInt
<1>9. Cardinality(Lost') + Parked' <= Budget'
  BY <1>3, <1>7, <1>8, NoLoss
<1>. QED BY <1>3, <1>4, <1>5, <1>6, <1>9 DEF LoggerInv

\* The process goes with what is in its channel.
LEMMA ExitOK ==
  ASSUME LoggerInv, Exit
  PROVE  LoggerInv'
<1>1. TypeOK /\ Steps /\ writer = IdleWriter /\ phase = "stopped"
  BY DEF LoggerInv, Steps, Exit
<1>2. /\ UNCHANGED <<fate, stored, file, tmp, saved, used>>
      /\ phase' = "down" /\ queue' = <<>> /\ writer' = IdleWriter /\ replay' = IdleReplay
  BY DEF Exit, Gone
<1>3. queue \in Seq(Records) /\ queue' \in Seq(Records) /\ Len(queue') = 0
  BY <1>1, <1>2 DEF TypeOK
<1>4. TypeOK'
  <2>1. Len(file) \in Nat
    BY <1>1 DEF TypeOK
  <2>2. replay' \in [pc : {"idle", "scan", "remove", "rename"}, read : 0 .. Len(file')]
    BY <1>2, <2>1 DEF IdleReplay
  <2>. QED BY <1>1, <1>2, <1>3, <2>2, QueueAssumption DEF TypeOK, Phase, IdleWriter
<1>5. Steps'
  BY <1>2 DEF Steps, IdleWriter, IdleReplay
<1>6. Held = Queued(queue) /\ Held' = {}
  <2>1. {IdleWriter.rec} \cap Records = {}
    BY RecordsAssumption DEF IdleWriter
  <2>2. Queued(queue') = {}
    BY <1>2, <1>3, QueueOps
  <2>3. Held' = Queued(queue') \cup ({writer'.rec} \cap Records)
    BY DEF Held, Queued
  <2>. QED BY <1>1, <1>2, <2>1, <2>2, <2>3, HeldIs
<1>7. Accepted' = Accepted /\ Calm' = Calm /\ Budget' = Budget
  BY <1>2 DEF Accepted, Calm, Budget
<1>8. Calm' => Flow'
  <2>1. SUFFICES ASSUME Calm' PROVE Flow'
    OBVIOUS
  <2>2. Flow /\ replay = IdleReplay /\ queue = <<>>
    BY <1>1, <1>7, <2>1 DEF LoggerInv, Flow
  <2>3. Held = {}
    BY <1>3, <1>6, <2>2, QueueOps
  <2>4. Kept' = Kept
    BY <1>2, <2>2 DEF Kept, Readable
  <2>5. Clean(file') /\ Clean(tmp')
    BY <1>2, <2>2 DEF Flow, Clean
  <2>6. Accepted' \subseteq Held' \cup Kept'
    BY <1>6, <1>7, <2>2, <2>3, <2>4 DEF Flow
  <2>. QED BY <1>2, <2>5, <2>6 DEF Flow, IdleReplay
<1>9. Lost' \subseteq Lost \cup Held
  BY <1>2, <1>7 DEF Lost
<1>10. Cardinality(Held) + Parked' + Budget <= Budget' + Parked /\ IsFiniteSet(Held)
  <2>1. /\ Cardinality(Held) <= Len(queue) /\ Cardinality(Held) \in Nat /\ IsFiniteSet(Held)
        /\ Len(queue) \in Nat
    BY <1>3, <1>6, QueueSizes
  <2>2. Parked = Len(queue) /\ Parked' = 0
    BY <1>1, <1>2 DEF Parked
  <2>. QED BY <1>7, <2>1, <2>2, BudgetInt
<1>11. Cardinality(Lost') + Parked' <= Budget'
  BY <1>4, <1>9, <1>10, Counting
<1>. QED BY <1>4, <1>5, <1>7, <1>8, <1>11 DEF LoggerInv

\* A kill costs the channel and the record in hand.
LEMMA KillOK ==
  ASSUME LoggerInv, Kill
  PROVE  LoggerInv'
<1>1. TypeOK /\ Use({"kill"})
  BY DEF LoggerInv, Kill
<1>2. /\ UNCHANGED <<fate, stored, file, tmp, saved>>
      /\ phase' = "down" /\ queue' = <<>> /\ writer' = IdleWriter /\ replay' = IdleReplay
  BY DEF Kill, Gone
<1>3. /\ queue \in Seq(Records) /\ queue' \in Seq(Records) /\ Len(queue') = 0
      /\ Len(queue) \in Nat /\ Len(queue) <= QueueSize /\ QueueSize \in Nat
  BY <1>1, <1>2, QueueAssumption DEF TypeOK
<1>4. /\ used' \in [store : 0 .. MaxStoreFaults, disk : 0 .. MaxDiskFaults,
                    kill : 0 .. MaxKills, stop : 0 .. MaxStops, late : 0 .. MaxLate]
      /\ used'.disk = used.disk + 0 /\ used'.kill = used.kill + 1
      /\ used'.late = used.late + 0
  BY <1>1, UseOK
<1>5. used'.disk = used.disk /\ used'.kill = used.kill + 1 /\ used'.late = used.late
  BY <1>4, BudgetInt
<1>6. ~Calm'
  BY <1>5, BudgetInt DEF Calm
<1>7. Budget' = Budget + (QueueSize + 1)
  <2>1. (used.kill + 1) * (QueueSize + 1) = used.kill * (QueueSize + 1) + (QueueSize + 1)
    BY <1>3, BudgetInt
  <2>2. used'.kill * (QueueSize + 1) = used.kill * (QueueSize + 1) + (QueueSize + 1)
    BY <1>5, <2>1
  <2>3. Budget = used.kill * (QueueSize + 1) + used.disk + used.late
    BY DEF Budget
  <2>4. Budget' = used'.kill * (QueueSize + 1) + used'.disk + used'.late
    BY DEF Budget
  <2>5. Budget' = (used.kill * (QueueSize + 1) + (QueueSize + 1)) + used.disk + used.late
    BY <1>5, <2>2, <2>4
  <2>. HIDE DEF Budget
  <2>6. PICK n \in Int : n = used.kill * (QueueSize + 1)
    BY BudgetInt
  <2>7. /\ Budget = n + used.disk + used.late
        /\ Budget' = (n + (QueueSize + 1)) + used.disk + used.late
    BY <2>3, <2>5, <2>6
  <2>8. used.disk \in Nat /\ used.late \in Nat
    BY BudgetInt
  <2>9. (n + (QueueSize + 1)) + used.disk + used.late = (n + used.disk + used.late) + (QueueSize + 1)
    BY <1>3, <2>8
  <2>. QED BY <2>7, <2>9
<1>8. TypeOK'
  <2>1. Len(file) \in Nat
    BY <1>1 DEF TypeOK
  <2>2. replay' \in [pc : {"idle", "scan", "remove", "rename"}, read : 0 .. Len(file')]
    BY <1>2, <2>1 DEF IdleReplay
  <2>. QED BY <1>1, <1>2, <1>3, <1>4, <2>2 DEF TypeOK, Phase, IdleWriter
<1>9. Steps'
  BY <1>2 DEF Steps, IdleWriter, IdleReplay
<1>10. Accepted' = Accepted
  BY <1>2 DEF Accepted
<1>11. Lost' \subseteq Lost \cup Held
  BY <1>2, <1>10 DEF Lost
<1>12. /\ IsFiniteSet(Held) /\ Cardinality(Held) \in Nat
       /\ Cardinality(Held) <= Len(queue) + 1
  <2>1. /\ IsFiniteSet(Queued(queue)) /\ Cardinality(Queued(queue)) \in Nat
        /\ Cardinality(Queued(queue)) <= Len(queue)
    BY <1>3, QueueSizes
  <2>2. CASE writer.rec \in Records
    <3>1. Held = Queued(queue) \cup {writer.rec}
      BY <2>2, HeldIs
    <3>2. /\ IsFiniteSet(Held)
          /\ Cardinality(Held) = Cardinality(Queued(queue)) \/ Cardinality(Held) = Cardinality(Queued(queue)) + 1
      BY <2>1, <3>1, FS_AddElement
    <3>. QED BY <1>3, <2>1, <3>2
  <2>3. CASE writer.rec \notin Records
    <3>1. Held = Queued(queue)
      BY <2>3, HeldIs
    <3>. QED BY <1>3, <2>1, <3>1
  <2>. QED BY <2>2, <2>3
<1>13. Cardinality(Held) + Parked' + Budget <= Budget' + Parked
  <2>1. Parked \in Nat /\ Parked' = 0
    BY <1>2, <1>3 DEF Parked
  <2>. QED BY <1>3, <1>7, <1>12, <2>1, BudgetInt
<1>14. Cardinality(Lost') + Parked' <= Budget'
  BY <1>8, <1>11, <1>12, <1>13, Counting
<1>. QED BY <1>6, <1>8, <1>9, <1>10, <1>14 DEF LoggerInv

\* A new process starts with an empty channel.
LEMMA StartOK ==
  ASSUME LoggerInv, Start
  PROVE  LoggerInv'
<1>1. /\ UNCHANGED <<fate, queue, writer, stored, file, tmp, replay, saved, used>>
      /\ phase = "down" /\ phase' = "serving"
  BY DEF Start
<1>2. TypeOK' /\ Steps'
  BY <1>1 DEF LoggerInv, TypeOK, Steps, Phase
<1>3. Accepted' = Accepted /\ Kept' = Kept /\ Held' = Held /\ Calm' = Calm /\ Budget' = Budget
  BY <1>1 DEF Accepted, Kept, Readable, Calm, Held, Budget
<1>4. Calm' => Flow'
  BY <1>1, <1>3 DEF LoggerInv, Flow, Clean, Readable
<1>5. Parked' = Parked /\ Lost' = Lost
  BY <1>1, <1>3 DEF Parked, Lost
<1>. QED BY <1>2, <1>3, <1>4, <1>5 DEF LoggerInv

-----------------------------------------------------------------------------
(***************************************************************************)
(* The theorems                                                            *)
(***************************************************************************)
\* Nothing is logged yet.
LEMMA InitOK == Init => LoggerInv
<1>. SUFFICES ASSUME Init PROVE LoggerInv
  OBVIOUS
<1>1. used = [store |-> 0, disk |-> 0, kill |-> 0, stop |-> 0, late |-> 0]
  BY DEF Init, Limit
<1>2. TypeOK
  BY <1>1, QueueAssumption, BoundsAssumption
  DEF Init, TypeOK, Phase, IdleWriter, IdleReplay
<1>3. Steps
  BY DEF Init, Steps, IdleWriter, IdleReplay
<1>4. Accepted = {} /\ Lost = {}
  BY DEF Init, Accepted, Lost
<1>5. Flow
  BY <1>4 DEF Init, Flow, Clean, IdleReplay
<1>6. IsFiniteSet(Accepted) /\ Cardinality(Lost) = 0
  BY <1>4, FS_EmptySet
<1>7. Budget = 0 /\ Parked = 0
  BY <1>1, QueueAssumption DEF Budget, Parked, Init
<1>. QED BY <1>2, <1>3, <1>5, <1>6, <1>7 DEF LoggerInv

(***************************************************************************)
(* LoggerInv is an invariant of the asynchronous log.                      *)
(***************************************************************************)
THEOREM LoggerInvariance == Spec => []LoggerInv
<1>1. Init => LoggerInv
  BY InitOK
<1>2. LoggerInv /\ [Next]_vars => LoggerInv'
  <2>. SUFFICES ASSUME LoggerInv, [Next]_vars
                PROVE  LoggerInv'
    OBVIOUS
  <2>1. ASSUME NEW r \in Records, Enqueue(r) PROVE LoggerInv'
    BY <2>1, EnqueueOK
  <2>2. CASE Write
    BY <2>2, ReceiveOK, InsertOK, FallbackOK DEF Write
  <2>3. CASE Replay
    BY <2>3, ReplayBeginOK, ReplayBadLineOK, ReplayInsertOK, ReplayKeepFailsOK,
       ReplayGivesUpOK, ReplayScannedOK, ReplayRemoveOK, ReplayRenameOK DEF Replay
  <2>4. CASE Stop \/ Kill \/ Resume
    BY <2>4, StopOK, KillOK, ReturnOK, ExitOK, StartOK DEF Resume
  <2>5. CASE UNCHANGED vars
    <3>1. UNCHANGED <<phase, fate, queue, writer, stored, file, tmp, replay, saved, used>>
      BY <2>5 DEF vars
    <3>2. TypeOK' /\ Steps'
      BY <3>1 DEF LoggerInv, TypeOK, Steps
    <3>3. Accepted' = Accepted /\ Kept' = Kept /\ Held' = Held /\ Calm' = Calm
          /\ Budget' = Budget
      BY <3>1 DEF Accepted, Kept, Readable, Calm, Held, Budget
    <3>4. Calm' => Flow'
      BY <3>1, <3>3 DEF LoggerInv, Flow, Clean, Readable
    <3>5. Parked' = Parked /\ Lost' = Lost
      BY <3>1, <3>3 DEF Parked, Lost
    <3>. QED BY <3>2, <3>3, <3>4, <3>5 DEF LoggerInv
  <2>. QED BY <2>1, <2>2, <2>3, <2>4, <2>5 DEF Next
<1>. QED BY <1>1, <1>2, PTL DEF Spec

(***************************************************************************)
(* What Enqueue took is on its way, in the store or where a replay finds   *)
(* it, and after Stop no longer on its way; kills, failing disks and late  *)
(* requests cost no more records than the channel's capacity accounts for. *)
(***************************************************************************)
THEOREM LogHolds == Spec => []LogInv
<1>1. LoggerInv => LogInv
  <2>. SUFFICES ASSUME LoggerInv PROVE LogInv
    OBVIOUS
  <2>1. TypeOK /\ NothingLost
    BY DEF LoggerInv, Flow, NothingLost
  <2>2. StopFlushes
    <3>. SUFFICES ASSUME Calm, phase = "stopped" PROVE Accepted \subseteq Kept
      BY DEF StopFlushes
    <3>1. queue = <<>> /\ writer = IdleWriter /\ Accepted \subseteq Held \cup Kept
      BY DEF LoggerInv, Steps, Flow
    <3>2. Held = {}
      BY <3>1, HeldIs, RecordsAssumption DEF IdleWriter, Queued
    <3>. QED BY <3>1, <3>2
  <2>3. LossIsBounded
    <3>1. Parked \in Nat /\ Cardinality(Lost) + Parked <= Budget /\ Budget \in Int
      BY BudgetInt DEF LoggerInv, Parked, TypeOK
    <3>2. Cardinality(Lost) \in Nat
      <4>1. Lost \subseteq Accepted /\ IsFiniteSet(Accepted)
        BY DEF Lost, LoggerInv
      <4>. QED BY <4>1, FS_Subset, FS_CardinalityType
    <3>3. Cardinality(Lost) <= Budget
      BY <3>1, <3>2
    <3>. QED BY <3>3 DEF LossIsBounded, Lost, Budget
  <2>. QED BY <2>1, <2>2, <2>3 DEF LogInv
<1>. QED BY <1>1, LoggerInvariance, PTL

-----------------------------------------------------------------------------
(***************************************************************************)
(* The loops and the shutdown.  run() reaches a user's turn only after the *)
(* user was told to stop, and leaves it when the user is idle for good or  *)
(* is given up.                                                            *)
(***************************************************************************)
LoopNames == {"reconciler", "reaper"}
Others == {"request", "alerts", "retention"}
People == LoopNames \cup Schedulers \cup Others

\* The phase in which run() waits for a user, and the one that tells it to stop.
Turn(u) ==
    CASE u = "reconciler" -> 2 [] u = "reaper" -> 3 [] u = "request" -> 4
      [] u = "alerts" -> 6 [] u = "retention" -> 7 [] OTHER -> 5

ToldBy(u) == IF u \in LoopNames THEN 2 ELSE Turn(u)

\* The delay after k failures in a row.
Doubled(k) ==
    IF k <= 1 THEN Interval
    ELSE IF k = 2 THEN IF 2 * Interval < MaxBackoff THEN 2 * Interval ELSE MaxBackoff
    ELSE IF 4 * Interval < MaxBackoff THEN 4 * Interval ELSE MaxBackoff

LifeTypes ==
    /\ at \in 0..9
    /\ doing \in [People -> {"wait", "tick", "gone"}]
    /\ fails \in [LoopNames -> 0..3]
    /\ delay \in [LoopNames -> Interval..MaxBackoff]
    /\ told \subseteq People /\ late \subseteq told
    /\ asked \in BOOLEAN /\ spent \in Nat

DelayOK == \A w \in LoopNames : delay[w] = Doubled(fails[w])

ToldOK == \A u \in People : at >= ToldBy(u) => u \in told

\* Alerts and retention may begin another tick after they were told.
IdleOK ==
    \A u \in People : at > Turn(u) =>
        \/ u \in late
        \/ doing[u] # "tick" /\ (u \in {"alerts", "retention"} => doing[u] = "gone")

LifeInv == LifeTypes /\ DelayOK /\ ToldOK /\ IdleOK

-----------------------------------------------------------------------------
(***************************************************************************)
(* The names of the instance                                               *)
(***************************************************************************)
LEMMA LifeNames ==
    /\ Process!Workers = LoopNames
    /\ Process!Loops = LoopNames \cup Schedulers
    /\ Process!Users = People
    /\ LoopNames \cap Schedulers = {} /\ Others \cap (LoopNames \cup Schedulers) = {}
<1>1. Process!Workers = LoopNames
  BY DEF Process!Workers, Process!Range, LoopNames
<1>. QED BY <1>1, ProcessAssumption
         DEF Process!Loops, Process!Users, Process!ConstantsOK, People, Others

\* Four intervals are the longest delay; all limits are numbers.
LEMMA LifeNumbers ==
    /\ Interval \in Nat \ {0} /\ MaxBackoff \in Nat /\ MaxBackoff >= Interval
    /\ 4 * Interval >= MaxBackoff
    /\ {WorkerTimeout, HTTPTimeout, AlertLimit, PurgeLimit, Grace} \subseteq Nat
<1>1. Process!ConstantsOK
  BY ProcessAssumption
<1>2. Interval * 2^(3 - 1) >= MaxBackoff
  BY <1>1 DEF Process!ConstantsOK
<1>3. 2^(3 - 1) = 4
  OBVIOUS
<1>. QED BY <1>1, <1>2, <1>3 DEF Process!ConstantsOK

\* Concatenating short sequences.
LEMMA PhasesAre ==
    /\ Len(Process!Phases) = 9
    /\ Process!Phases[1] = "serving" /\ Process!Phases[2] = "reconciler"
    /\ Process!Phases[3] = "reaper" /\ Process!Phases[4] = "request"
    /\ Process!Phases[5] = "schedulers" /\ Process!Phases[6] = "alerts"
    /\ Process!Phases[7] = "retention" /\ Process!Phases[8] = "logger"
    /\ Process!Phases[9] = "closed"
<1>. DEFINE a == <<"serving">>
            b == <<"reconciler", "reaper">>
            c == <<"request", "schedulers", "alerts", "retention", "logger", "closed">>
            S == {"serving", "reconciler", "reaper", "request", "schedulers",
                  "alerts", "retention", "logger", "closed"}
<1>1. a \in Seq(S) /\ b \in Seq(S) /\ c \in Seq(S)
  OBVIOUS
<1>2. /\ Len(a) = 1 /\ a[1] = "serving"
      /\ Len(b) = 2 /\ b[1] = "reconciler" /\ b[2] = "reaper"
      /\ Len(c) = 6 /\ c[1] = "request" /\ c[2] = "schedulers" /\ c[3] = "alerts"
      /\ c[4] = "retention" /\ c[5] = "logger" /\ c[6] = "closed"
  OBVIOUS
<1>3. Process!Phases = (a \o b) \o c
  BY DEF Process!Phases
<1>. HIDE DEF a, b, c, S
<1>4. /\ a \o b \in Seq(S) /\ Len(a \o b) = 3
      /\ (a \o b)[1] = "serving" /\ (a \o b)[2] = "reconciler" /\ (a \o b)[3] = "reaper"
  <2>1. /\ a \o b \in Seq(S) /\ Len(a \o b) = Len(a) + Len(b)
        /\ \A i \in 1..(Len(a) + Len(b)) :
             (a \o b)[i] = IF i <= Len(a) THEN a[i] ELSE b[i - Len(a)]
    BY <1>1, ConcatProperties
  <2>. QED BY <1>2, <2>1
<1>5. /\ Len((a \o b) \o c) = 9
      /\ \A i \in 1..9 : ((a \o b) \o c)[i] = IF i <= 3 THEN (a \o b)[i] ELSE c[i - 3]
  <2>1. /\ Len((a \o b) \o c) = Len(a \o b) + Len(c)
        /\ \A i \in 1..(Len(a \o b) + Len(c)) :
             ((a \o b) \o c)[i] = IF i <= Len(a \o b) THEN (a \o b)[i] ELSE c[i - Len(a \o b)]
    BY <1>1, <1>4, ConcatProperties
  <2>. QED BY <1>2, <1>4, <2>1
<1>. QED BY <1>2, <1>3, <1>4, <1>5

\* The loop of nextDelay computes it.
LEMMA DelayAfter == ASSUME NEW k \in 0..3 PROVE Process!NextDelay(k) = Doubled(k)
<1>. DEFINE doubled[i \in Nat] ==
              IF i <= 1 THEN Interval
              ELSE IF doubled[i - 1] < MaxBackoff THEN 2 * doubled[i - 1] ELSE doubled[i - 1]
            twice == IF Interval < MaxBackoff THEN 2 * Interval ELSE Interval
            thrice == IF twice < MaxBackoff THEN 2 * twice ELSE twice
            f == [i \in Nat |-> IF i <= 1 THEN Interval ELSE IF i = 2 THEN twice ELSE thrice]
            step(g) == [i \in Nat |-> IF i <= 1 THEN Interval
                                      ELSE IF g[i - 1] < MaxBackoff THEN 2 * g[i - 1] ELSE g[i - 1]]
<1>1. doubled = CHOOSE g : g = step(g)
  OBVIOUS
<1>2. f = step(f)
  <2>1. ASSUME NEW i \in Nat
        PROVE  f[i] = IF i <= 1 THEN Interval
                      ELSE IF f[i - 1] < MaxBackoff THEN 2 * f[i - 1] ELSE f[i - 1]
    BY LifeNumbers
  <2>. QED BY <2>1
<1>3. doubled = step(doubled)
  <2>. HIDE DEF doubled, f, step
  <2>. QED BY <1>1, <1>2
<1>4. /\ doubled[0] = Interval /\ doubled[1] = Interval
      /\ doubled[2] = twice /\ doubled[3] = thrice
  <2>. HIDE DEF doubled
  <2>1. \A i \in Nat : doubled[i] = IF i <= 1 THEN Interval
                                    ELSE IF doubled[i - 1] < MaxBackoff THEN 2 * doubled[i - 1]
                                    ELSE doubled[i - 1]
    BY <1>3
  <2>2. doubled[0] = Interval /\ doubled[1] = Interval
    BY <2>1
  <2>3. doubled[2] = twice
    BY <2>1, <2>2
  <2>. QED BY <2>1, <2>2, <2>3
<1>5. Process!NextDelay(k) = IF doubled[k] > MaxBackoff THEN MaxBackoff ELSE doubled[k]
  BY DEF Process!NextDelay
<1>. HIDE DEF doubled
<1>6. k = 0 \/ k = 1 \/ k = 2 \/ k = 3
  OBVIOUS
<1>. QED BY <1>4, <1>5, <1>6, LifeNumbers DEF Doubled
\* Turns are numbers; nobody has a turn before it is told.
LEMMA Turns ==
    /\ \A u \in People : Turn(u) \in 2..7 /\ ToldBy(u) \in 2..7 /\ ToldBy(u) <= Turn(u)
    /\ Turn("reconciler") = 2 /\ Turn("reaper") = 3 /\ Turn("request") = 4
    /\ Turn("alerts") = 6 /\ Turn("retention") = 7
    /\ \A u \in Schedulers : Turn(u) = 5 /\ ToldBy(u) = 5
BY LifeNames DEF Turn, ToldBy, People, LoopNames, Others

\* Where run() is.
LEMMA WhereRunIs ==
    ASSUME at \in 0..9
    PROVE  /\ Process!In("serving") => at = 1
           /\ Process!In("reconciler") => at = 2
           /\ Process!In("reaper") => at = 3
           /\ Process!In("request") => at = 4
           /\ Process!In("schedulers") => at = 5
           /\ Process!In("alerts") => at = 6
           /\ Process!In("retention") => at = 7
           /\ Process!In("logger") => at = 8
<1>1. at = 0 \/ at = 1 \/ at = 2 \/ at = 3 \/ at = 4 \/ at = 5 \/ at = 6 \/ at = 7 \/ at = 8 \/ at = 9
  OBVIOUS
<1>. QED BY <1>1, PhasesAre DEF Process!In, Process!Alive

\* A phase that run() has left.
LEMMA PastTurns ==
    ASSUME at \in 0..9, NEW u \in People,
           Process!Past(IF u \in Schedulers THEN "schedulers" ELSE u)
    PROVE  at > Turn(u)
<1>1. PICK i \in 1..(at - 1) : Process!Phases[i] = IF u \in Schedulers THEN "schedulers" ELSE u
  BY DEF Process!Past
<1>2. i = 1 \/ i = 2 \/ i = 3 \/ i = 4 \/ i = 5 \/ i = 6 \/ i = 7 \/ i = 8
  OBVIOUS
<1>3. CASE u \in Schedulers
  <2>1. i = 5
    BY <1>1, <1>2, <1>3, PhasesAre
  <2>. QED BY <1>3, <2>1, Turns
<1>4. CASE u \notin Schedulers
  <2>1. u \in {"reconciler", "reaper", "request", "alerts", "retention"}
    BY <1>4 DEF People, LoopNames, Others
  <2>2. i = Turn(u)
    BY <1>1, <1>2, <1>4, <2>1, PhasesAre, Turns
  <2>. QED BY <2>2
<1>. QED BY <1>3, <1>4

\* Initially.
LEMMA LifeStarts == Process!Init => LifeInv
<1>. SUFFICES ASSUME Process!Init PROVE LifeInv
  OBVIOUS
<1>1. /\ at = 1 /\ spent = 0 /\ asked = FALSE
      /\ doing = [u \in People |-> "wait"]
      /\ fails = [w \in LoopNames |-> 0] /\ delay = [w \in LoopNames |-> Interval]
      /\ told = {} /\ late = {}
  BY LifeNames DEF Process!Init
<1>2. LifeTypes
  <2>1. Interval \in Interval..MaxBackoff /\ 0 \in 0..3
    BY LifeNumbers
  <2>2. /\ doing \in [People -> {"wait", "tick", "gone"}]
        /\ fails \in [LoopNames -> 0..3] /\ delay \in [LoopNames -> Interval..MaxBackoff]
    BY <1>1, <2>1
  <2>3. at \in 0..9 /\ told \subseteq People /\ late \subseteq told /\ spent \in Nat
    BY <1>1
  <2>4. asked \in BOOLEAN
    BY <1>1, Zenon
  <2>. QED BY <2>2, <2>3, <2>4 DEF LifeTypes
<1>3. DelayOK
  BY <1>1 DEF DelayOK, Doubled
<1>4. ToldOK /\ IdleOK
  BY <1>1, Turns DEF ToldOK, IdleOK
<1>. QED BY <1>2, <1>3, <1>4 DEF LifeInv

\* A tick begins.
LEMMA TickLife == ASSUME LifeInv, NEW u \in People, Process!Tick(u) PROVE LifeInv'
<1>1. /\ doing[u] = "wait" /\ (u \in told => u \in {"alerts", "retention"})
      /\ doing' = [doing EXCEPT ![u] = "tick"]
      /\ UNCHANGED <<at, fails, delay, told, late, asked, spent>>
  BY DEF Process!Tick
<1>2. LifeTypes' /\ DelayOK' /\ ToldOK'
  BY <1>1 DEF LifeInv, LifeTypes, DelayOK, ToldOK
<1>3. ~(at > Turn(u)) \/ u \in late
  BY <1>1, Turns DEF LifeInv, LifeTypes, ToldOK, IdleOK
<1>4. \A v \in People : v # u => doing'[v] = doing[v]
  BY <1>1 DEF LifeInv, LifeTypes
<1>5. IdleOK'
  BY <1>1, <1>3, <1>4 DEF LifeInv, IdleOK
<1>. QED BY <1>2, <1>5 DEF LifeInv

\* A worker's failures, and the delay after them.
LEMMA CountLife ==
    ASSUME LifeTypes, DelayOK, NEW l, NEW ok \in BOOLEAN, Process!Count(l, ok)
    PROVE  /\ fails' \in [LoopNames -> 0..3] /\ delay' \in [LoopNames -> Interval..MaxBackoff]
           /\ DelayOK'
<1>1. CASE l \in LoopNames
  <2>1. /\ fails' = [fails EXCEPT ![l] = Process!FailsAfter(l, ok)]
        /\ delay' = [delay EXCEPT ![l] = Process!NextDelay(fails'[l])]
    BY <1>1, LifeNames DEF Process!Count
  <2>2. Process!FailsAfter(l, ok) \in 0..3
    BY <1>1 DEF Process!FailsAfter, LifeTypes
  <2>3. fails' \in [LoopNames -> 0..3] /\ fails'[l] \in 0..3
    BY <1>1, <2>1, <2>2 DEF LifeTypes
  <2>4. Process!NextDelay(fails'[l]) = Doubled(fails'[l])
    BY <2>3, DelayAfter
  <2>5. Doubled(fails'[l]) \in Interval..MaxBackoff
    BY <2>3, LifeNumbers DEF Doubled
  <2>6. delay' \in [LoopNames -> Interval..MaxBackoff] /\ delay'[l] = Doubled(fails'[l])
    BY <1>1, <2>1, <2>4, <2>5 DEF LifeTypes
  <2>7. \A w \in LoopNames : w # l => delay'[w] = delay[w] /\ fails'[w] = fails[w]
    BY <2>1 DEF LifeTypes
  <2>. QED BY <2>3, <2>6, <2>7 DEF DelayOK
<1>2. CASE l \notin LoopNames
  BY <1>2, LifeNames DEF Process!Count, LifeTypes, DelayOK
<1>. QED BY <1>1, <1>2

\* A tick, or other work, ends; a user that was told returns.
LEMMA RestLife ==
    ASSUME LifeInv, NEW u \in People,
           \/ \E outcome \in {"ok", "error", "panic"} : Process!EndTick(u, outcome)
           \/ Process!EndWork(u) \/ Process!Return(u)
    PROVE  LifeInv'
<1>1. PICK next \in {"wait", "gone"} :
        /\ doing' = [doing EXCEPT ![u] = next]
        /\ doing[u] = "tick" \/ next = "gone"
        /\ UNCHANGED <<at, told, late, asked, spent>>
  BY DEF Process!EndTick, Process!EndWork, Process!Return
<1>2. fails' \in [LoopNames -> 0..3] /\ delay' \in [LoopNames -> Interval..MaxBackoff] /\ DelayOK'
  <2>1. CASE \E outcome \in {"ok", "error", "panic"} : Process!EndTick(u, outcome)
    <3>1. PICK ok \in BOOLEAN : Process!Count(u, ok)
      BY <2>1 DEF Process!EndTick
    <3>. QED BY <3>1, CountLife DEF LifeInv
  <2>2. CASE Process!EndWork(u) \/ Process!Return(u)
    BY <2>2 DEF Process!EndWork, Process!Return, LifeInv, LifeTypes, DelayOK
  <2>. QED BY <2>1, <2>2
<1>3. LifeTypes'
  BY <1>1, <1>2 DEF LifeInv, LifeTypes
<1>4. ToldOK'
  BY <1>1 DEF LifeInv, ToldOK
<1>5. /\ doing'[u] = next /\ \A v \in People : v # u => doing'[v] = doing[v]
  BY <1>1 DEF LifeInv, LifeTypes
<1>6. IdleOK'
  BY <1>1, <1>5 DEF LifeInv, IdleOK
<1>. QED BY <1>2, <1>3, <1>4, <1>6 DEF LifeInv
-----------------------------------------------------------------------------
(***************************************************************************)
(* The steps of run()                                                      *)
(***************************************************************************)
\* A step to the next phase tells whom it must, and leaves nobody that it should wait for.
LEMMA NextPhase ==
    ASSUME LifeInv, at \in 1..8, NEW more \in SUBSET People, Process!Advance(more),
           late \subseteq late', late' \subseteq told \cup more,
           asked' \in BOOLEAN, spent' \in Nat,
           \A u \in People : ToldBy(u) = at + 1 => u \in told \cup more,
           \A u \in People : Turn(u) = at =>
             \/ u \in late'
             \/ doing[u] # "tick" /\ (u \in {"alerts", "retention"} => doing[u] = "gone")
    PROVE  LifeInv'
<1>1. at' = at + 1 /\ told' = told \cup more /\ UNCHANGED <<doing, fails, delay>>
  BY DEF Process!Advance
<1>2. LifeTypes' /\ DelayOK'
  BY <1>1 DEF LifeInv, LifeTypes, DelayOK
<1>3. \A u \in People : /\ Turn(u) \in Nat /\ ToldBy(u) \in Nat
                        /\ at' > Turn(u) => at > Turn(u) \/ at = Turn(u)
                        /\ at' >= ToldBy(u) => at >= ToldBy(u) \/ ToldBy(u) = at + 1
  BY <1>1, Turns
<1>4. ToldOK'
  BY <1>1, <1>3 DEF LifeInv, ToldOK
<1>5. IdleOK'
  BY <1>1, <1>3 DEF LifeInv, IdleOK
<1>. QED BY <1>2, <1>4, <1>5 DEF LifeInv

\* What a wait costs.
LEMMA WaitCosts ==
    ASSUME LifeTypes, NEW limit \in {WorkerTimeout, HTTPTimeout, AlertLimit, PurgeLimit},
           Process!Took(limit) \/ spent' = spent + limit
    PROVE  spent' \in Nat
BY LifeNumbers DEF LifeTypes, Process!Took

\* Whom a phase tells.
LEMMA PhaseTells ==
    /\ Process!Told(Process!Phases[2]) = {} /\ Process!Told(Process!Phases[3]) = {}
    /\ Process!Told(Process!Phases[4]) = {"request"}
    /\ Process!Told("schedulers") = Schedulers
    /\ Process!Told("alerts") = {"alerts"} /\ Process!Told("retention") = {"retention"}
BY PhasesAre DEF Process!Told

\* Who is told as a phase begins, and who is waited for in it.
LEMMA WhoseTurn ==
    ASSUME NEW u \in People
    PROVE  /\ ToldBy(u) = 2 => u \in LoopNames
           /\ ToldBy(u) # 3
           /\ ToldBy(u) = 4 => u = "request"
           /\ ToldBy(u) = 5 => u \in Schedulers
           /\ ToldBy(u) = 6 => u = "alerts"
           /\ ToldBy(u) = 7 => u = "retention"
           /\ ToldBy(u) < 8 /\ Turn(u) < 8 /\ Turn(u) > 1
           /\ Turn(u) = 2 => u = "reconciler"
           /\ Turn(u) = 3 => u = "reaper"
           /\ Turn(u) = 4 => u = "request"
           /\ Turn(u) = 5 => u \in Schedulers
           /\ Turn(u) = 6 => u = "alerts"
           /\ Turn(u) = 7 => u = "retention"
BY LifeNames DEF Turn, ToldBy, People, LoopNames, Others

\* The shutdown begins.
LEMMA SignalLife ==
    ASSUME LifeInv, Process!Signal \/ Process!ListenerFails
    PROVE  LifeInv'
<1>1. at = 1
  BY WhereRunIs DEF Process!Signal, Process!ListenerFails, LifeInv, LifeTypes
<1>2. PICK more \in SUBSET People : LoopNames \subseteq more /\ Process!Advance(more)
  <2>1. CASE Process!Signal
    <3>1. Process!Advance(LoopNames \cup {})
      BY <1>1, <2>1, PhaseTells, LifeNames DEF Process!Signal
    <3>. QED BY <3>1 DEF People
  <2>2. CASE Process!ListenerFails
    BY <2>2, LifeNames DEF Process!ListenerFails, People, Others
  <2>. QED BY <2>1, <2>2
<1>3. UNCHANGED <<late, spent>> /\ asked' \in BOOLEAN
  BY DEF Process!Signal, Process!ListenerFails, LifeInv, LifeTypes
<1>4. late \subseteq told /\ spent \in Nat
  BY DEF LifeInv, LifeTypes
<1>. QED BY <1>1, <1>2, <1>3, <1>4, NextPhase, WhoseTurn

\* run() waits for a worker.
LEMMA WorkerLife ==
    ASSUME LifeInv, NEW w \in LoopNames, Process!WaitForWorker(w)
    PROVE  LifeInv'
<1>1. at = Turn(w) /\ at \in {2, 3}
  BY WhereRunIs, Turns DEF Process!WaitForWorker, LoopNames, LifeInv, LifeTypes
<1>2. w \in People /\ w \in told
  BY <1>1 DEF LifeInv, ToldOK, ToldBy, People
<1>3. PICK more \in SUBSET People :
        /\ Process!Advance(more) /\ (at = 3 => "request" \in more)
  <2>1. CASE at = 2
    <3>1. Process!Advance({})
      BY <2>1, PhaseTells DEF Process!WaitForWorker
    <3>. QED BY <2>1, <3>1
  <2>2. CASE at = 3
    <3>1. Process!Advance({"request"})
      BY <2>2, PhaseTells DEF Process!WaitForWorker
    <3>. QED BY <2>2, <3>1 DEF People, Others
  <2>. QED BY <1>1, <2>1, <2>2
<1>4. /\ \/ late' = late /\ doing[w] = "gone"
         \/ late' = late \cup {w}
      /\ asked' = asked
  BY DEF Process!WaitForWorker
<1>5. spent' \in Nat
  BY WaitCosts DEF Process!WaitForWorker, LifeInv
<1>6. late \subseteq told /\ asked \in BOOLEAN
  BY DEF LifeInv, LifeTypes
<1>7. \A u \in People : Turn(u) = at => u = w
  BY <1>1, WhoseTurn, Turns DEF LoopNames
<1>8. \A u \in People : ToldBy(u) = at + 1 => at = 3 /\ u = "request"
  BY <1>1, WhoseTurn
<1>. QED BY <1>1, <1>2, <1>3, <1>4, <1>5, <1>6, <1>7, <1>8, NextPhase

\* It waits for the requests.
LEMMA DrainLife == ASSUME LifeInv, Process!Drain PROVE LifeInv'
<1>1. at = 4 /\ late \subseteq told /\ asked \in BOOLEAN
  BY WhereRunIs DEF Process!Drain, LifeInv, LifeTypes
<1>2. "request" \in People /\ "request" \in told
  <2>1. "request" \in People
    BY DEF People, Others
  <2>2. ToldBy("request") = 4
    BY Turns DEF ToldBy, LoopNames
  <2>. QED BY <1>1, <2>1, <2>2 DEF LifeInv, ToldOK
<1>3. Process!Advance(Schedulers) /\ Schedulers \in SUBSET People
  BY PhaseTells DEF Process!Drain, People
<1>4. /\ \/ late' = late /\ doing["request"] # "tick"
         \/ late' = late \cup {"request"}
      /\ asked' = asked
  BY DEF Process!Drain
<1>5. spent' \in Nat
  BY WaitCosts DEF Process!Drain, LifeInv
<1>. QED BY <1>1, <1>2, <1>3, <1>4, <1>5, NextPhase, WhoseTurn

\* It waits for the schedulers.
LEMMA ShutdownLife == ASSUME LifeInv, Process!Shutdown PROVE LifeInv'
<1>1. at = 5 /\ late \subseteq told /\ asked \in BOOLEAN
  BY WhereRunIs DEF Process!Shutdown, LifeInv, LifeTypes
<1>2. Schedulers \subseteq People /\ Schedulers \subseteq told
  BY <1>1, Turns DEF LifeInv, ToldOK, People
<1>3. Process!Advance({"alerts"}) /\ {"alerts"} \in SUBSET People
  BY PhaseTells DEF Process!Shutdown, People, Others
<1>. DEFINE left == {s \in Schedulers : doing[s] # "gone"}
<1>4. /\ \/ left = {} /\ late' = late
         \/ late' = late \cup left
      /\ asked' = asked
  BY DEF Process!Shutdown
<1>5. spent' \in Nat
  BY WaitCosts DEF Process!Shutdown, LifeInv
<1>6. late \subseteq late' /\ late' \subseteq told /\ \A s \in Schedulers : s \in late' \/ doing[s] = "gone"
  BY <1>1, <1>2, <1>4
<1>. QED BY <1>1, <1>2, <1>3, <1>4, <1>5, <1>6, NextPhase, WhoseTurn, LifeNames DEF Others

\* The deferred calls, which do not give up.
LEMMA DeferredLife ==
    ASSUME LifeInv, Process!StopAlerts \/ Process!StopRetention \/ Process!StopLogger
    PROVE  LifeInv'
<1>1. late \subseteq told /\ asked \in BOOLEAN /\ spent \in Nat
  BY DEF LifeInv, LifeTypes
<1>2. PICK more \in SUBSET People :
        /\ Process!Advance(more)
        /\ \/ at = 6 /\ doing["alerts"] = "gone" /\ "retention" \in more
           \/ at = 7 /\ doing["retention"] = "gone"
           \/ at = 8
  <2>1. CASE Process!StopAlerts
    <3>1. Process!Advance({"retention"}) /\ at = 6 /\ doing["alerts"] = "gone"
      BY <2>1, PhaseTells, WhereRunIs DEF Process!StopAlerts, LifeInv, LifeTypes
    <3>. QED BY <3>1 DEF People, Others
  <2>2. CASE Process!StopRetention
    BY <2>2, WhereRunIs DEF Process!StopRetention, LifeInv, LifeTypes
  <2>3. CASE Process!StopLogger
    BY <2>3, WhereRunIs DEF Process!StopLogger, LifeInv, LifeTypes
  <2>. QED BY <2>1, <2>2, <2>3
<1>3. UNCHANGED <<late, asked>>
  BY DEF Process!StopAlerts, Process!StopRetention, Process!StopLogger
<1>4. spent' \in Nat
  BY <1>1, WaitCosts DEF Process!StopAlerts, Process!StopRetention, Process!StopLogger, LifeInv
<1>. QED BY <1>1, <1>2, <1>3, <1>4, NextPhase, WhoseTurn

\* The process is killed.
LEMMA KillLife == ASSUME LifeInv, Process!Kill PROVE LifeInv'
<1>1. /\ at' = 0 /\ doing' = [u \in People |-> "gone"]
      /\ UNCHANGED <<fails, delay, told, late, asked, spent>>
  BY LifeNames DEF Process!Kill
<1>2. LifeTypes' /\ DelayOK'
  BY <1>1 DEF LifeInv, LifeTypes, DelayOK
<1>3. ToldOK' /\ IdleOK'
  BY <1>1, Turns DEF ToldOK, IdleOK
<1>. QED BY <1>2, <1>3 DEF LifeInv

\* Every step of the loops and of run() keeps the invariant.
LEMMA LifeSteps == LifeInv /\ [Process!Next]_processVars => LifeInv'
<1>. SUFFICES ASSUME LifeInv, [Process!Next]_processVars PROVE LifeInv'
  OBVIOUS
<1>1. CASE UNCHANGED processVars
  BY <1>1 DEF processVars, LifeInv, LifeTypes, DelayOK, ToldOK, IdleOK
<1>2. ASSUME NEW u \in People, Process!Tick(u) \/ Process!Return(u)
      PROVE  LifeInv'
  BY <1>2, TickLife, RestLife
<1>3. ASSUME NEW l \in Process!Loops, NEW outcome \in {"ok", "error", "panic"},
             Process!EndTick(l, outcome)
      PROVE  LifeInv'
  <2>1. l \in People
    BY LifeNames DEF People
  <2>. QED BY <1>3, <2>1, RestLife
<1>4. ASSUME NEW u \in People, Process!EndWork(u)
      PROVE  LifeInv'
  BY <1>4, RestLife
<1>5. CASE Process!Run
  BY <1>5, LifeNames, SignalLife, WorkerLife, DrainLife, ShutdownLife, DeferredLife, KillLife
     DEF Process!Run
<1>. QED BY <1>1, <1>2, <1>3, <1>4, <1>5, LifeNames DEF Process!Next

\* It says at least what is promised.
LEMMA LifeSuffices ==
    LifeInv => Process!TypeOK /\ Process!StopMeansIdle /\ Process!BackoffFollows
<1>. SUFFICES ASSUME LifeInv
              PROVE  Process!TypeOK /\ Process!StopMeansIdle /\ Process!BackoffFollows
  OBVIOUS
<1>1. Process!TypeOK
  BY PhasesAre, LifeNames DEF LifeInv, LifeTypes, Process!TypeOK
<1>2. Process!StopMeansIdle
  <2>. SUFFICES ASSUME NEW u \in People, doing[u] = "tick",
                       Process!Past(IF u \in Schedulers THEN "schedulers" ELSE u)
                PROVE  u \in late
    BY LifeNames DEF Process!StopMeansIdle
  <2>1. at > Turn(u)
    BY PastTurns DEF LifeInv, LifeTypes
  <2>. QED BY <2>1 DEF LifeInv, IdleOK
<1>3. Process!BackoffFollows
  <2>. SUFFICES ASSUME NEW w \in LoopNames
                PROVE  delay[w] = IF fails[w] <= 1 THEN Interval
                                  ELSE IF Interval * 2^(fails[w] - 1) < MaxBackoff
                                       THEN Interval * 2^(fails[w] - 1)
                                  ELSE MaxBackoff
    BY LifeNames DEF Process!BackoffFollows
  <2>1. delay[w] = Doubled(fails[w])
    BY DEF LifeInv, DelayOK
  <2>2. fails[w] \in 0..3
    BY DEF LifeInv, LifeTypes
  <2>3. 2^(2 - 1) = 2 /\ 2^(3 - 1) = 4
    OBVIOUS
  <2>4. CASE fails[w] <= 1
    BY <2>1, <2>4 DEF Doubled
  <2>5. CASE fails[w] = 2
    BY <2>1, <2>3, <2>5, LifeNumbers DEF Doubled
  <2>6. CASE fails[w] = 3
    BY <2>1, <2>3, <2>6, LifeNumbers DEF Doubled
  <2>. QED BY <2>2, <2>4, <2>5, <2>6
<1>. QED BY <1>1, <1>2, <1>3

\* The loops and the shutdown are one part of the composition.
LifePart == part = "stops" => LifeInv

(***************************************************************************)
(* For any schedulers, timeouts and grace: after run() has waited for a    *)
(* worker, for the requests or for a scheduler (main.go:112), none of them *)
(* uses the store but those it gave up, and alerts and retention never do; *)
(* and for any interval, up to three failures in a row, a worker's delay   *)
(* is the doubled interval or the longest one (background_worker.go:162).  *)
(***************************************************************************)
THEOREM ProcessHolds == MCSpec => []ProcessInv
<1>1. MCInit => LifePart
  BY LifeStarts DEF MCInit, LifePart
<1>2. LifePart /\ [MCNext]_all => LifePart'
  <2>. SUFFICES ASSUME LifePart, [MCNext]_all, part' = "stops" PROVE LifeInv'
    BY DEF LifePart
  <2>1. part = "stops" /\ [Process!Next]_processVars
    BY DEF MCNext, all
  <2>. QED BY <2>1, LifeSteps DEF LifePart
<1>3. LifePart => ProcessInv
  BY LifeSuffices DEF LifePart, ProcessInv
<1>. QED BY <1>1, <1>2, <1>3, PTL DEF MCSpec

(***************************************************************************)
(* The same of the process that run process checks, whose other parts      *)
(* leave the log alone.                                                    *)
(***************************************************************************)
THEOREM LogOfProcess == MCSpec => []LogInv
<1>1. MCInit => Init
  BY DEF MCInit
<1>2. [MCNext]_all => [Next]_vars
  BY DEF MCNext, all
<1>. QED BY <1>1, <1>2, LogHolds, PTL DEF MCSpec, Spec
=============================================================================
