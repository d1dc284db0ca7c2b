-------------------------- MODULE ClickHouseProofs --------------------------
(***************************************************************************)
(* Proofs about what is on its way to ClickHouse: the queue of facts, for  *)
(* any number of facts, tables and requests that replay, any capacities    *)
(* and limits; the Text2SQL facts, for any questions and exporters; and    *)
(* the daily aggregates, for any windows that fit together.                *)
(*                                                                         *)
(* A fact is followed through queue, buffer, parked batch and table.  The  *)
(* invariant has three layers: what holds whatever goes wrong (LoopInv and *)
(* RetryOK), that no fact is lost while the process runs and the database  *)
(* parks (NothingVanishes), and that no fact is in two places when no      *)
(* answer is lost, every mark is written and replays do not overlap        *)
(* (Alone).                                                                *)
(***************************************************************************)
EXTENDS MCClickHouse, FiniteSetTheorems, SequenceTheorems, WellFoundedInduction, TLAPS

-----------------------------------------------------------------------------
(***************************************************************************)
(* The inductive invariant                                                 *)
(***************************************************************************)
Spending ==
    [troubles : 0..MaxTroubles, replays : 0..MaxReplays, batches : Nat, stopping : BOOLEAN]

Replaying == [pc : {"free", "post", "mark"}, todo : Seq(Batch), ok : BOOLEAN]

LoopTypes == loop \in [pc : {"wait", "insert", "park", "ended"}, table : Tables, last : BOOLEAN]

FactTypes ==
    /\ offered \subseteq Facts /\ dropped \subseteq offered
    /\ queue \in Seq(Facts) /\ Len(queue) <= QueueCap
    /\ buf \in Seq(Facts) /\ Len(buf) <= BatchSize
    /\ LoopTypes
    /\ parked \subseteq Batch /\ IsFiniteSet(parked)
    /\ replay \in [Replayers -> Replaying]
    /\ landed \in [Tables -> [Facts -> 0..2]]
    /\ abandoned \subseteq Tables \X Facts
    /\ spent \in Spending
    /\ trouble \in Troubles

\* Facts are in the table.
In(t, fs) == \A f \in fs : landed[t][f] > 0

(***************************************************************************)
(* The loop waits only while the buffer has room, and parks facts that     *)
(* ClickHouse takes only after something went wrong.                       *)
(***************************************************************************)
LoopOK ==
    /\ loop.pc = "wait" => Len(buf) < BatchSize
    /\ spent.stopping => "stop" \in trouble
    /\ loop.pc = "park" /\ ~spent.stopping /\ Range(buf) \cap Poison = {} => spent.troubles > 0

\* Parked batches are numbered.
BatchesOK ==
    /\ \A b \in parked : b.id <= spent.batches
    /\ \A b, c \in parked : b.id = c.id => b = c

Copies(b, c) == b.id = c.id => b.table = c.table /\ b.facts = c.facts

Current(r) == Head(replay[r].todo)

(***************************************************************************)
(* What a replay has listed are copies of the batches that are parked      *)
(* still, and what it reports as inserted is in the table.                 *)
(***************************************************************************)
Lists(todo) ==
    /\ todo # <<>>
    /\ \A i \in 1..Len(todo) :
         todo[i].id <= spent.batches /\ \A b \in parked : Copies(todo[i], b)

ReplaysOK ==
    \A r \in Replayers :
        /\ replay[r].pc # "free" => Lists(replay[r].todo)
        /\ replay[r].pc = "mark" /\ replay[r].ok => In(Current(r).table, Current(r).facts)

\* The replays that failed on batch b and have not counted it yet.
Failing(b) ==
    {r \in Replayers : replay[r].pc = "mark" /\ ~replay[r].ok /\ Current(r).id = b.id}

\* Every attempt that failed on a batch which ClickHouse takes was a trouble.
AttemptsOK ==
    \A b \in parked :
        b.facts \cap Poison = {} => b.attempts + Cardinality(Failing(b)) <= spent.troubles

-----------------------------------------------------------------------------
(***************************************************************************)
(* Types                                                                   *)
(***************************************************************************)
LEMMA TablesType == /\ NumTables \in Nat \ {0} /\ Tables = 1..NumTables /\ 1 \in Tables
                    /\ QueueCap \in Nat \ {0} /\ BatchSize \in Nat \ {0}
                    /\ Window \in Nat \ {0} /\ MaxAttempts \in Nat \ {0}
                    /\ MaxTroubles \in Nat /\ MaxReplays \in Nat
                    /\ Poison \subseteq Facts /\ IsFiniteSet(Replayers)
  BY ClickHouseAssumption DEF ConstantsOK, Tables

\* Inserting facts into a table, and whether the caller hears of it.
LEMMA Insertion ==
    ASSUME FactTypes, NEW t \in Tables, NEW fs \in SUBSET Facts, NEW ok \in BOOLEAN,
           Insert(t, fs, ok)
    PROVE  /\ landed' \in [Tables -> [Facts -> 0..2]]
           /\ \A u \in Tables, f \in Facts : landed[u][f] > 0 => landed'[u][f] > 0
           /\ ok => fs \cap Poison = {} /\ \A f \in fs : landed'[t][f] > 0
           /\ spent' \in Spending
           /\ spent'.replays = spent.replays /\ spent'.batches = spent.batches
           /\ spent'.stopping = spent.stopping /\ spent'.troubles >= spent.troubles
           /\ ~ok /\ fs \cap Poison = {} => spent'.troubles = spent.troubles + 1
<1>1. landed \in [Tables -> [Facts -> 0..2]] /\ spent \in Spending
  BY DEF FactTypes
<1>2. ASSUME Land(t, fs)
      PROVE  /\ landed' \in [Tables -> [Facts -> 0..2]]
             /\ \A u \in Tables, f \in Facts : landed[u][f] > 0 => landed'[u][f] > 0
             /\ \A f \in fs : landed'[t][f] > 0
  <2>. DEFINE row == [f \in Facts |-> IF f \in fs /\ landed[t][f] < 2
                                      THEN landed[t][f] + 1 ELSE landed[t][f]]
  <2>1. landed' = [landed EXCEPT ![t] = row]
    BY <1>2 DEF Land
  <2>2. row \in [Facts -> 0..2] /\ \A f \in Facts : row[f] >= landed[t][f]
    BY <1>1
  <2>3. \A f \in fs : row[f] > 0
    BY <1>1
  <2>. HIDE DEF row
  <2>4. landed' \in [Tables -> [Facts -> 0..2]] /\ landed'[t] = row
    BY <1>1, <2>1, <2>2
  <2>5. \A u \in Tables : u # t => landed'[u] = landed[u]
    BY <1>1, <2>1
  <2>6. ASSUME NEW u \in Tables, NEW f \in Facts, landed[u][f] > 0
        PROVE  landed'[u][f] > 0
    <3>1. landed[u][f] \in 0..2 /\ row[f] \in 0..2
      BY <1>1, <2>2
    <3>. QED BY <2>2, <2>4, <2>5, <2>6, <3>1
  <2>. QED BY <2>3, <2>4, <2>6
<1>3. ASSUME NEW kind, Trouble(kind)
      PROVE  /\ spent' \in Spending
             /\ spent'.replays = spent.replays /\ spent'.batches = spent.batches
             /\ spent'.stopping = spent.stopping /\ spent'.troubles = spent.troubles + 1
  <2>1. spent.troubles < MaxTroubles /\ spent' = [spent EXCEPT !.troubles = spent.troubles + 1]
    BY <1>3 DEF Trouble
  <2>2. spent.troubles + 1 \in 0..MaxTroubles
    BY <1>1, <2>1, TablesType DEF Spending
  <2>. QED BY <1>1, <2>1, <2>2 DEF Spending
<1>4. CASE ok /\ fs \cap Poison = {} /\ Land(t, fs) /\ UNCHANGED spent
  BY <1>1, <1>2, <1>4 DEF Spending
<1>5. CASE ~ok /\ fs \cap Poison # {} /\ UNCHANGED <<landed, spent>>
  BY <1>1, <1>5 DEF Spending
<1>6. CASE ~ok /\ Trouble("refused") /\ UNCHANGED landed
  <2>. spent.troubles \in Nat
    BY <1>1 DEF Spending
  <2>. QED BY <1>1, <1>3, <1>6
<1>7. CASE ~ok /\ fs \cap Poison = {} /\ Trouble("lost") /\ Land(t, fs)
  <2>. spent.troubles \in Nat
    BY <1>1 DEF Spending
  <2>. QED BY <1>1, <1>2, <1>3, <1>7
<1>. QED BY <1>4, <1>5, <1>6, <1>7 DEF Insert

\* What a sequence of facts holds are facts.
LEMMA FactsOf ==
    ASSUME NEW s \in Seq(Facts)
    PROVE  /\ Range(s) \in SUBSET Facts /\ Len(s) \in Nat
           /\ Range(s) = {s[i] : i \in 1..Len(s)}
  BY LenProperties, ElementOfSeq DEF Range

\* A queue without its head.
LEMMA HeadLeaves ==
    ASSUME NEW s \in Seq(Facts), s # <<>>
    PROVE  /\ Head(s) \in Facts /\ Tail(s) \in Seq(Facts)
           /\ Len(s) \in Nat /\ Len(Tail(s)) = Len(s) - 1
           /\ Range(s) = Range(Tail(s)) \cup {Head(s)}
<1>1. /\ Head(s) \in Facts /\ Tail(s) \in Seq(Facts)
      /\ Len(Tail(s)) = Len(s) - 1 /\ \A i \in 1..Len(Tail(s)) : Tail(s)[i] = s[i + 1]
  BY HeadTailProperties
<1>2. Len(s) \in Nat /\ Len(s) # 0 /\ Head(s) = s[1]
  BY LenProperties, EmptySeq
<1>3. Range(s) = {s[i] : i \in 1..Len(s)} /\ Range(Tail(s)) = {Tail(s)[i] : i \in 1..Len(Tail(s))}
  BY <1>1, FactsOf
<1>4. ASSUME NEW x \in Range(s), x # Head(s)
      PROVE  x \in Range(Tail(s))
  <2>1. PICK i \in 1..Len(s) : s[i] = x
    BY <1>3
  <2>2. i - 1 \in 1..Len(Tail(s)) /\ (i - 1) + 1 = i
    BY <1>1, <1>2, <1>4, <2>1
  <2>. QED BY <1>1, <1>3, <2>1, <2>2
<1>5. \A x \in Range(Tail(s)) : x \in Range(s)
  BY <1>1, <1>2, <1>3
<1>6. Head(s) \in Range(s)
  BY <1>2, <1>3
<1>. QED BY <1>1, <1>2, <1>4, <1>5, <1>6

\* A queue with one more.
LEMMA TailGrows ==
    ASSUME NEW s \in Seq(Facts), NEW f \in Facts
    PROVE  /\ Append(s, f) \in Seq(Facts) /\ Len(Append(s, f)) = Len(s) + 1
           /\ Range(Append(s, f)) = Range(s) \cup {f}
<1>1. /\ Append(s, f) \in Seq(Facts) /\ Len(Append(s, f)) = Len(s) + 1
      /\ \A i \in 1..Len(s) : Append(s, f)[i] = s[i]
      /\ Append(s, f)[Len(s) + 1] = f
  BY AppendProperties
<1>2. Len(s) \in Nat
  BY LenProperties
<1>3. /\ Range(s) = {s[i] : i \in 1..Len(s)}
      /\ Range(Append(s, f)) = {Append(s, f)[i] : i \in 1..(Len(s) + 1)}
  BY <1>1, FactsOf
<1>. QED BY <1>1, <1>2, <1>3

\* The empty buffer.
LEMMA NothingBuffered == <<>> \in Seq(Facts) /\ Len(<<>>) = 0 /\ Range(<<>>) = {}
<1>1. <<>> \in Seq(Facts) /\ Len(<<>>) = 0
  BY EmptySeq
<1>2. Range(<<>>) = {<<>>[i] : i \in 1..Len(<<>>)}
  BY <1>1, FactsOf
<1>3. 1..Len(<<>>) = {}
  BY <1>1
<1>. QED BY <1>1, <1>2, <1>3

\* From one table to the next, the buffer is emptied after the last.
LEMMA Onwards ==
    ASSUME FactTypes, NextTable
    PROVE  /\ LoopTypes' /\ buf' \in Seq(Facts) /\ Len(buf') <= BatchSize
           /\ loop'.pc # "park"
           /\ loop'.pc = "wait" => Len(buf') < BatchSize
           /\ \A t \in Tables : Buffered(t)' = IF loop.table < t THEN Range(buf) ELSE {}
<1>1. /\ LoopTypes /\ buf \in Seq(Facts) /\ Len(buf) <= BatchSize
      /\ loop.table \in 1..NumTables /\ NumTables \in Nat \ {0} /\ BatchSize \in Nat \ {0}
  BY TablesType DEF FactTypes, LoopTypes
<1>2. CASE loop.table < NumTables
  <2>1. loop' = [loop EXCEPT !.pc = "insert", !.table = loop.table + 1] /\ buf' = buf
    BY <1>2 DEF NextTable
  <2>2. loop.table + 1 \in Tables
    BY <1>1, <1>2 DEF Tables
  <2>3. LoopTypes' /\ loop'.pc = "insert" /\ loop'.table = loop.table + 1
    BY <1>1, <2>1, <2>2 DEF LoopTypes
  <2>4. \A t \in Tables : loop.table + 1 <= t <=> loop.table < t
    BY <1>1 DEF Tables
  <2>. QED BY <1>1, <2>1, <2>3, <2>4 DEF Buffered
<1>3. CASE ~(loop.table < NumTables)
  <2>1. /\ loop' = [Idle EXCEPT !.pc = IF loop.last THEN "ended" ELSE "wait"]
        /\ buf' = <<>>
    BY <1>3 DEF NextTable
  <2>2. LoopTypes' /\ loop'.pc \in {"ended", "wait"}
    BY <2>1, TablesType DEF LoopTypes, Idle
  <2>3. \A t \in Tables : ~(loop.table < t)
    BY <1>1, <1>3 DEF Tables
  <2>4. Len(buf') = 0 /\ buf' \in Seq(Facts) /\ Range(buf') = {}
    BY <2>1, NothingBuffered
  <2>5. \A t \in Tables : Buffered(t)' = {}
    BY <2>4 DEF Buffered
  <2>. QED BY <1>1, <2>2, <2>3, <2>4, <2>5
<1>. QED BY <1>2, <1>3

-----------------------------------------------------------------------------
(***************************************************************************)
(* Types and the loop, step by step                                        *)
(***************************************************************************)
LoopInv == FactTypes /\ LoopOK

\* Initially.
LEMMA LoopStarts == Init => LoopInv
<1>. SUFFICES ASSUME Init PROVE LoopInv
  OBVIOUS
<1>1. <<>> \in Seq(Facts) /\ Len(<<>>) = 0 /\ <<>> \in Seq(Batch)
  BY NothingBuffered, EmptySeq
<1>2. queue = <<>> /\ buf = <<>> /\ LoopTypes /\ loop.pc = "wait"
  BY TablesType DEF Init, Idle, LoopTypes
<1>3. /\ offered = {} /\ dropped = {} /\ abandoned = {} /\ parked = {}
      /\ landed \in [Tables -> [Facts -> 0..2]] /\ trouble \in Troubles
  BY DEF Init
<1>4. PICK none \in Seq(Batch) : none = <<>>
  BY <1>1, Zenon
<1>5. replay = [r \in Replayers |-> [pc |-> "free", todo |-> none, ok |-> FALSE]]
  BY <1>4 DEF Init, NotReplaying
<1>6. replay \in [Replayers -> Replaying]
  BY <1>5 DEF Replaying
<1>7. spent = [troubles |-> 0, replays |-> 0, batches |-> 0, stopping |-> FALSE]
  BY DEF Init
<1>8. spent \in Spending /\ ~spent.stopping
  BY <1>7, TablesType DEF Spending
<1>9. IsFiniteSet(parked)
  BY <1>3, FS_EmptySet
<1>10. queue \in Seq(Facts) /\ Len(queue) = 0 /\ buf \in Seq(Facts) /\ Len(buf) = 0
  BY <1>1, <1>2
<1>11. FactTypes
  BY <1>2, <1>3, <1>6, <1>8, <1>9, <1>10, TablesType DEF FactTypes
<1>12. LoopOK
  BY <1>2, <1>8, <1>10, TablesType DEF LoopOK
<1>. QED BY <1>11, <1>12 DEF LoopInv

\* A fact is offered.
LEMMA EnqueueLoop == ASSUME LoopInv, NEW f \in Facts, Enqueue(f) PROVE LoopInv'
<1>1. queue' \in Seq(Facts) /\ Len(queue') <= QueueCap
  <2>1. queue \in Seq(Facts) /\ Len(queue) \in Nat /\ Len(queue) <= QueueCap
    BY LenProperties DEF LoopInv, FactTypes
  <2>2. CASE Len(queue) < QueueCap
    <3>1. queue' = Append(queue, f)
      BY <2>2 DEF Enqueue
    <3>. QED BY <2>1, <2>2, <3>1, TailGrows, TablesType
  <2>3. CASE ~(Len(queue) < QueueCap)
    <3>1. queue' = queue
      BY <2>3 DEF Enqueue
    <3>. QED BY <2>1, <3>1
  <2>. QED BY <2>2, <2>3
<1>2. offered' \subseteq Facts /\ dropped' \subseteq offered'
  BY DEF Enqueue, LoopInv, FactTypes
<1>3. UNCHANGED <<buf, loop, parked, replay, landed, abandoned, spent, trouble>>
  BY DEF Enqueue
<1>. QED BY <1>1, <1>2, <1>3 DEF LoopInv, FactTypes, LoopTypes, LoopOK

\* The loop takes one.
LEMMA TakeLoop == ASSUME LoopInv, Take PROVE LoopInv'
<1>1. /\ queue \in Seq(Facts) /\ queue # <<>> /\ Len(queue) <= QueueCap
      /\ buf \in Seq(Facts) /\ Len(buf) < BatchSize /\ Len(buf) \in Nat
  BY LenProperties DEF LoopInv, FactTypes, LoopOK, Take
<1>2. queue' = Tail(queue) /\ buf' = Append(buf, Head(queue))
  BY DEF Take
<1>3. queue' \in Seq(Facts) /\ Len(queue') <= QueueCap
  BY <1>1, <1>2, HeadLeaves, TablesType
<1>4. buf' \in Seq(Facts) /\ Len(buf') = Len(buf) + 1
  BY <1>1, <1>2, HeadLeaves, TailGrows
<1>5. loop' = IF Len(buf) + 1 >= BatchSize THEN [Idle EXCEPT !.pc = "insert"] ELSE Idle
  BY DEF Take
<1>6. /\ LoopTypes' /\ loop'.pc \in {"wait", "insert"}
      /\ loop'.pc = "wait" => ~(Len(buf) + 1 >= BatchSize)
  BY <1>5, TablesType DEF LoopTypes, Idle
<1>7. UNCHANGED <<offered, dropped, parked, replay, landed, abandoned, spent, trouble>>
  BY DEF Take
<1>8. FactTypes'
  BY <1>1, <1>3, <1>4, <1>6, <1>7, TablesType DEF LoopInv, FactTypes
<1>9. LoopOK'
  BY <1>1, <1>4, <1>6, <1>7, TablesType DEF LoopInv, LoopOK
<1>. QED BY <1>8, <1>9 DEF LoopInv

\* The timer, the shutdown, and the loop that sees it.
LEMMA TurnLoop == ASSUME LoopInv, FlushTimer \/ Stop \/ End PROVE LoopInv'
<1>1. UNCHANGED <<offered, dropped, queue, buf, parked, replay, landed, abandoned, trouble>>
  BY DEF FlushTimer, Stop, End
<1>2. LoopTypes' /\ (loop'.pc \in {"insert", "ended"} \/ loop' = loop)
  <2>1. CASE FlushTimer
    BY <2>1, TablesType DEF FlushTimer, Idle, LoopTypes
  <2>2. CASE Stop
    BY <2>2 DEF Stop, LoopInv, FactTypes, LoopTypes
  <2>3. CASE End
    BY <2>3, TablesType DEF End, Idle, LoopTypes
  <2>. QED BY <2>1, <2>2, <2>3
<1>3. /\ spent' \in Spending /\ spent'.troubles = spent.troubles
      /\ spent'.stopping => "stop" \in trouble
      /\ ~spent'.stopping => ~spent.stopping
  <2>1. CASE FlushTimer \/ End
    BY <2>1 DEF FlushTimer, End, LoopInv, FactTypes, LoopOK
  <2>2. CASE Stop
    BY <2>2 DEF Stop, LoopInv, FactTypes, Spending
  <2>. QED BY <2>1, <2>2
<1>4. FactTypes'
  BY <1>1, <1>2, <1>3 DEF LoopInv, FactTypes
<1>5. LoopOK'
  BY <1>1, <1>2, <1>3 DEF LoopInv, LoopOK
<1>. QED BY <1>4, <1>5 DEF LoopInv

\* The loop inserts its buffer into a table.
LEMMA SinkLoop == ASSUME LoopInv, SinkTable PROVE LoopInv'
<1>1. /\ loop.pc = "insert" /\ loop.table \in Tables /\ LoopTypes
      /\ buf \in Seq(Facts) /\ Len(buf) <= BatchSize /\ spent \in Spending
  BY DEF LoopInv, FactTypes, LoopTypes, SinkTable
<1>2. PICK ok \in BOOLEAN :
        /\ IF spent.stopping THEN ~ok /\ UNCHANGED <<landed, spent>>
                             ELSE Insert(loop.table, Range(buf), ok)
        /\ IF ok THEN NextTable ELSE loop' = [loop EXCEPT !.pc = "park"] /\ UNCHANGED buf
  BY DEF SinkTable
<1>3. Range(buf) \in SUBSET Facts
  BY <1>1, FactsOf
<1>4. /\ landed' \in [Tables -> [Facts -> 0..2]] /\ spent' \in Spending
      /\ spent'.stopping = spent.stopping
      /\ ~ok /\ ~spent.stopping /\ Range(buf) \cap Poison = {} => spent'.troubles > 0
  <2>1. CASE spent.stopping
    BY <1>2, <2>1 DEF LoopInv, FactTypes
  <2>2. CASE ~spent.stopping
    <3>1. spent.troubles \in Nat
      BY <1>1 DEF Spending
    <3>2. FactTypes /\ Insert(loop.table, Range(buf), ok)
      BY <1>2, <2>2 DEF LoopInv
    <3>3. /\ landed' \in [Tables -> [Facts -> 0..2]] /\ spent' \in Spending
          /\ spent'.stopping = spent.stopping
          /\ ~ok /\ Range(buf) \cap Poison = {} => spent'.troubles = spent.troubles + 1
      <4>1. PICK t \in Tables, fs \in SUBSET Facts : t = loop.table /\ fs = Range(buf)
        BY <1>1, <1>3
      <4>2. Insert(t, fs, ok)
        BY <3>2, <4>1, Zenon
      <4>3. /\ landed' \in [Tables -> [Facts -> 0..2]] /\ spent' \in Spending
            /\ spent'.stopping = spent.stopping
            /\ ~ok /\ fs \cap Poison = {} => spent'.troubles = spent.troubles + 1
        BY <3>2, <4>2, Insertion
      <4>. QED BY <4>1, <4>3
    <3>. QED BY <3>1, <3>3
  <2>. QED BY <2>1, <2>2
<1>5. UNCHANGED <<offered, dropped, queue, parked, replay, abandoned, trouble>>
  BY DEF SinkTable
<1>6. /\ LoopTypes' /\ buf' \in Seq(Facts) /\ Len(buf') <= BatchSize
      /\ loop'.pc = "wait" => Len(buf') < BatchSize
      /\ loop'.pc = "park" => ~ok /\ buf' = buf
  <2>1. CASE ok
    BY <1>2, <2>1, Onwards DEF LoopInv
  <2>2. CASE ~ok
    BY <1>1, <1>2, <2>2 DEF LoopTypes
  <2>. QED BY <2>1, <2>2
<1>7. FactTypes'
  BY <1>4, <1>5, <1>6 DEF LoopInv, FactTypes
<1>8. LoopOK'
  BY <1>4, <1>5, <1>6 DEF LoopInv, LoopOK
<1>. QED BY <1>7, <1>8 DEF LoopInv

ParkedNow ==
    [id |-> spent.batches + 1, table |-> loop.table, facts |-> Range(buf), attempts |-> 1]

\* What the loop parks is a batch, and with a fresh number.
LEMMA ParkIs ==
    ASSUME LoopInv, Park
    PROVE  /\ ParkedNow \in Batch /\ loop.pc = "park" /\ NextTable
           /\ spent' \in Spending /\ spent'.stopping = spent.stopping
           /\ spent'.troubles >= spent.troubles /\ spent'.batches >= spent.batches
           /\ \/ /\ ~spent.stopping /\ parked' = parked \cup {ParkedNow}
                 /\ spent'.batches = spent.batches + 1
              \/ parked' = parked /\ trouble \cap {"park", "stop"} # {}
           /\ UNCHANGED <<offered, dropped, queue, replay, landed, abandoned, trouble>>
<1>1. /\ LoopTypes /\ buf \in Seq(Facts) /\ spent \in Spending
      /\ spent.batches \in Nat /\ spent.troubles \in Nat
  BY DEF LoopInv, FactTypes, Spending
<1>2. ParkedNow \in Batch
  <2>1. loop.table \in Tables /\ Range(buf) \in SUBSET Facts /\ spent.batches + 1 \in Nat
    BY <1>1, FactsOf DEF LoopTypes
  <2>2. 1 \in 1..MaxAttempts
    BY TablesType
  <2>. QED BY <2>1, <2>2 DEF ParkedNow, Batch
<1>3. CASE /\ ~spent.stopping /\ parked' = parked \cup {ParkedNow}
           /\ spent' = [spent EXCEPT !.batches = spent.batches + 1]
  <2>1. /\ spent' \in Spending /\ spent'.batches = spent.batches + 1
        /\ spent'.stopping = spent.stopping /\ spent'.troubles = spent.troubles
    BY <1>1, <1>3 DEF Spending
  <2>2. /\ loop.pc = "park" /\ NextTable
        /\ UNCHANGED <<offered, dropped, queue, replay, landed, abandoned, trouble>>
    BY DEF Park
  <2>3. spent'.troubles >= spent.troubles /\ spent'.batches >= spent.batches
    BY <1>1, <2>1
  <2>. QED BY <1>2, <1>3, <2>1, <2>2, <2>3
<1>4. CASE spent.stopping /\ UNCHANGED <<parked, spent>>
  <2>1. /\ loop.pc = "park" /\ NextTable /\ trouble \cap {"park", "stop"} # {}
        /\ UNCHANGED <<offered, dropped, queue, replay, landed, abandoned, trouble>>
    BY <1>4 DEF Park, LoopInv, LoopOK
  <2>2. spent'.troubles >= spent.troubles /\ spent'.batches >= spent.batches
    BY <1>1, <1>4
  <2>. QED BY <1>1, <1>2, <1>4, <2>1, <2>2
<1>5. CASE Trouble("park") /\ UNCHANGED parked
  <2>1. /\ "park" \in trouble /\ spent.troubles < MaxTroubles
        /\ spent' = [spent EXCEPT !.troubles = spent.troubles + 1]
    BY <1>5 DEF Trouble
  <2>2. spent.troubles + 1 \in 0..MaxTroubles
    BY <1>1, <2>1, TablesType
  <2>3. /\ spent' \in Spending /\ spent'.troubles = spent.troubles + 1
        /\ spent'.stopping = spent.stopping /\ spent'.batches = spent.batches
    BY <1>1, <2>1, <2>2 DEF Spending
  <2>. QED BY <1>1, <1>2, <1>5, <2>1, <2>3 DEF Park
<1>. QED BY <1>3, <1>4, <1>5 DEF Park, ParkedNow

\* Parking keeps the types.
LEMMA ParkLoop == ASSUME LoopInv, Park PROVE LoopInv'
<1>1. LoopTypes' /\ buf' \in Seq(Facts) /\ Len(buf') <= BatchSize
  BY ParkIs, Onwards DEF LoopInv
<1>2. loop'.pc # "park" /\ (loop'.pc = "wait" => Len(buf') < BatchSize)
  BY ParkIs, Onwards DEF LoopInv
<1>3. parked' \subseteq Batch /\ IsFiniteSet(parked')
  <2>1. IsFiniteSet(parked \cup {ParkedNow})
    BY FS_AddElement DEF LoopInv, FactTypes
  <2>. QED BY <2>1, ParkIs DEF LoopInv, FactTypes
<1>4. /\ spent' \in Spending /\ spent'.stopping = spent.stopping
      /\ UNCHANGED <<offered, dropped, queue, replay, landed, abandoned, trouble>>
  BY ParkIs
<1>5. FactTypes'
  BY <1>1, <1>3, <1>4 DEF LoopInv, FactTypes
<1>6. LoopOK'
  BY <1>2, <1>4 DEF LoopInv, LoopOK
<1>. QED BY <1>5, <1>6 DEF LoopInv

-----------------------------------------------------------------------------
(***************************************************************************)
(* What a replay does                                                      *)
(***************************************************************************)

\* A request lists the oldest of the parked batches.
LEMMA ListIs ==
    ASSUME LoopInv, NEW r \in Replayers, ReplayList(r)
    PROVE  /\ \E todo \in Seq(Batch) :
                /\ todo # <<>>
                /\ \A i \in 1..Len(todo) : todo[i] \in parked
                /\ \A i, j \in 1..Len(todo) : i < j => todo[i].id < todo[j].id
                /\ \E now1 \in Replaying :
                     /\ replay' = [replay EXCEPT ![r] = now1]
                     /\ now1.pc = "post" /\ now1.todo = todo
           /\ replay[r].pc = "free"
           /\ "overlap" \in trouble \/ \A q \in Replayers : replay[q].pc = "free"
           /\ spent' \in Spending /\ spent'.batches = spent.batches
           /\ spent'.stopping = spent.stopping /\ spent'.troubles = spent.troubles
           /\ UNCHANGED <<offered, dropped, queue, buf, loop, parked, landed, abandoned, trouble>>
<1>1. spent \in Spending /\ parked \subseteq Batch /\ IsFiniteSet(parked)
  BY DEF LoopInv, FactTypes
<1>2. PICK todo \in ById(Oldest(Window)) :
        replay' = [replay EXCEPT ![r] = [NotReplaying EXCEPT !.pc = "post", !.todo = todo]]
  BY DEF ReplayList
<1>3. Oldest(Window) \subseteq parked /\ Oldest(Window) # {}
  BY DEF Oldest, ReplayList
<1>. DEFINE n == Cardinality(Oldest(Window))
<1>4. n \in Nat \ {0}
  <2>1. IsFiniteSet(Oldest(Window))
    BY <1>1, <1>3, FS_Subset
  <2>. QED BY <1>3, <2>1, FS_CardinalityType, FS_EmptySet
<1>5. /\ todo \in [1..n -> Oldest(Window)]
      /\ \A i, j \in 1..n : i < j => todo[i].id < todo[j].id
  BY DEF ById
<1>. HIDE DEF n
<1>6. todo \in Seq(Oldest(Window))
  BY <1>4, <1>5, IsASeq
<1>7. DOMAIN todo = 1..n /\ DOMAIN todo = 1..Len(todo) /\ Len(todo) \in Nat
  BY <1>5, <1>6, LenProperties
<1>8. Len(todo) = n
  BY <1>4, <1>6, <1>7, LenProperties
<1>9. todo \in Seq(Batch)
  BY <1>1, <1>3, <1>6, SeqMonotonic
<1>10. todo # <<>>
  BY <1>4, <1>8, <1>9, EmptySeq
<1>11. /\ \A i \in 1..Len(todo) : todo[i] \in parked
       /\ \A i, j \in 1..Len(todo) : i < j => todo[i].id < todo[j].id
  BY <1>3, <1>5, <1>8
<1>12. \E now1 \in Replaying : /\ replay' = [replay EXCEPT ![r] = now1]
                               /\ now1.pc = "post" /\ now1.todo = todo
  <2>1. PICK none \in Seq(Batch) : none = <<>>
    BY EmptySeq, Zenon
  <2>2. PICK free : free = NotReplaying
    OBVIOUS
  <2>3. free = [pc |-> "free", todo |-> none, ok |-> FALSE]
    BY <2>1, <2>2 DEF NotReplaying
  <2>4. PICK now1 : now1 = [free EXCEPT !.pc = "post", !.todo = todo]
    OBVIOUS
  <2>5. now1 \in Replaying /\ now1.pc = "post" /\ now1.todo = todo
    BY <1>9, <2>1, <2>3, <2>4 DEF Replaying
  <2>6. replay' = [replay EXCEPT ![r] = now1]
    BY <1>2, <2>2, <2>4
  <2>. QED BY <2>5, <2>6
<1>13. /\ spent' \in Spending /\ spent'.batches = spent.batches
       /\ spent'.stopping = spent.stopping /\ spent'.troubles = spent.troubles
  <2>1. spent.replays < MaxReplays /\ spent' = [spent EXCEPT !.replays = spent.replays + 1]
    BY DEF ReplayList
  <2>2. spent.replays + 1 \in 0..MaxReplays
    BY <1>1, <2>1, TablesType DEF Spending
  <2>. QED BY <1>1, <2>1, <2>2 DEF Spending
<1>14. /\ replay[r].pc = "free"
       /\ "overlap" \in trouble \/ \A q \in Replayers : replay[q].pc = "free"
       /\ UNCHANGED <<offered, dropped, queue, buf, loop, parked, landed, abandoned, trouble>>
  BY DEF ReplayList
<1>. QED BY <1>9, <1>10, <1>11, <1>12, <1>13, <1>14

\* A list of batches, its head and what follows it.
LEMMA TodoIs ==
    ASSUME NEW todo \in Seq(Batch), todo # <<>>
    PROVE  /\ Head(todo) = todo[1] /\ todo[1] \in Batch
           /\ Len(todo) \in Nat \ {0} /\ 1 \in 1..Len(todo)
           /\ Tail(todo) \in Seq(Batch) /\ Len(Tail(todo)) = Len(todo) - 1
           /\ \A i \in 1..Len(Tail(todo)) : i + 1 \in 1..Len(todo) /\ Tail(todo)[i] = todo[i + 1]
           /\ Len(todo) # 1 => Tail(todo) # <<>>
<1>1. /\ Head(todo) \in Batch /\ Tail(todo) \in Seq(Batch)
      /\ Len(Tail(todo)) = Len(todo) - 1 /\ \A i \in 1..Len(Tail(todo)) : Tail(todo)[i] = todo[i + 1]
  BY HeadTailProperties
<1>2. Len(todo) \in Nat /\ Len(todo) # 0 /\ Head(todo) = todo[1]
  BY LenProperties, EmptySeq
<1>3. Len(todo) # 1 => Tail(todo) # <<>>
  BY <1>1, <1>2, EmptySeq
<1>. QED BY <1>1, <1>2, <1>3

\* A batch is posted again.
LEMMA PostIs ==
    ASSUME LoopInv, NEW r \in Replayers, ReplayPost(r), replay[r].todo # <<>>
    PROVE  \E ok \in BOOLEAN :
             /\ replay[r].pc = "post" /\ Current(r) \in Batch
             /\ Insert(Current(r).table, Current(r).facts, ok)
             /\ \E now1 \in Replaying :
                  /\ replay' = [replay EXCEPT ![r] = now1]
                  /\ now1.pc = "mark" /\ now1.ok = ok /\ now1.todo = replay[r].todo
             /\ UNCHANGED <<offered, dropped, queue, buf, loop, parked, abandoned, trouble>>
<1>1. replay \in [Replayers -> Replaying] /\ replay[r] \in Replaying
  BY DEF LoopInv, FactTypes
<1>2. PICK ok \in BOOLEAN :
        /\ Insert(Current(r).table, Current(r).facts, ok)
        /\ replay' = [replay EXCEPT ![r].pc = "mark", ![r].ok = ok]
  BY DEF ReplayPost, Current
<1>3. PICK now1 : now1 = [replay[r] EXCEPT !.pc = "mark", !.ok = ok]
  OBVIOUS
<1>4. now1 \in Replaying /\ now1.pc = "mark" /\ now1.ok = ok /\ now1.todo = replay[r].todo
  BY <1>1, <1>2, <1>3 DEF Replaying
<1>5. replay' = [replay EXCEPT ![r] = now1]
  BY <1>1, <1>2, <1>3
<1>6. Current(r) \in Batch
  BY <1>1, TodoIs DEF Replaying, Current
<1>. QED BY <1>2, <1>4, <1>5, <1>6 DEF ReplayPost

\* The batches that a replay has just posted, there is at most one.
Posted(r) == {b \in parked : b.id = Current(r).id}

\* A failed replay of batch b counts: it is given up, or c replaces it.
GivenUp(b) ==
    /\ b.attempts + 1 >= MaxAttempts
    /\ parked' = parked \ {b}
    /\ abandoned' = abandoned \cup ({b.table} \X b.facts)

Retried(b, c) ==
    /\ c.id = b.id /\ c.table = b.table /\ c.facts = b.facts /\ c.attempts = b.attempts + 1
    /\ parked' = (parked \ {b}) \cup {c}
    /\ abandoned' = abandoned

Counts(b) == GivenUp(b) \/ \E c \in Batch : Retried(b, c)

\* The outcome of a replay is marked.
LEMMA MarkIs ==
    ASSUME LoopInv, NEW r \in Replayers, ReplayMark(r), replay[r].todo # <<>>
    PROVE  /\ replay[r].pc = "mark" /\ Current(r) \in Batch
           /\ \E now1 \in Replaying :
                /\ replay' = [replay EXCEPT ![r] = now1]
                /\ \/ now1.pc = "free"
                   \/ /\ now1.pc = "post" /\ now1.todo = Tail(replay[r].todo)
                      /\ now1.todo # <<>>
           /\ \/ "mark" \in trouble /\ parked' = parked /\ abandoned' = abandoned
              \/ replay[r].ok /\ parked' = parked \ Posted(r) /\ abandoned' = abandoned
              \/ Posted(r) = {} /\ parked' = parked /\ abandoned' = abandoned
              \/ ~replay[r].ok /\ \E b \in Posted(r) : Counts(b)
           /\ spent' \in Spending /\ spent'.batches = spent.batches
           /\ spent'.stopping = spent.stopping /\ spent'.troubles >= spent.troubles
           /\ UNCHANGED <<offered, dropped, queue, buf, loop, landed, trouble>>
<1>1. /\ replay \in [Replayers -> Replaying] /\ replay[r] \in Replaying
      /\ spent \in Spending /\ spent.troubles \in Nat /\ parked \subseteq Batch
  BY DEF LoopInv, FactTypes, Spending
<1>2. PICK todo \in Seq(Batch) : todo = replay[r].todo
  BY <1>1 DEF Replaying
<1>3. /\ Current(r) = Head(todo) /\ Head(todo) \in Batch /\ Tail(todo) \in Seq(Batch)
      /\ Len(todo) # 1 => Tail(todo) # <<>>
  BY <1>2, TodoIs DEF Current
<1>4. \E now1 \in Replaying :
        /\ replay' = [replay EXCEPT ![r] = now1]
        /\ \/ now1.pc = "free"
           \/ now1.pc = "post" /\ now1.todo = Tail(todo) /\ now1.todo # <<>>
  <2>1. CASE Len(todo) = 1
    <3>1. PICK none \in Seq(Batch) : none = <<>>
      BY EmptySeq, Zenon
    <3>2. PICK free : free = NotReplaying
      OBVIOUS
    <3>3. free = [pc |-> "free", todo |-> none, ok |-> FALSE]
      BY <3>1, <3>2 DEF NotReplaying
    <3>4. free \in Replaying /\ free.pc = "free"
      BY <3>3 DEF Replaying
    <3>5. replay' = [replay EXCEPT ![r] = free]
      BY <1>1, <1>2, <2>1, <3>2 DEF ReplayMark, ReplayNext
    <3>. QED BY <3>4, <3>5
  <2>2. CASE Len(todo) # 1
    <3>1. PICK now1 : now1 = [replay[r] EXCEPT !.pc = "post", !.todo = Tail(todo)]
      OBVIOUS
    <3>2. now1 \in Replaying /\ now1.pc = "post" /\ now1.todo = Tail(todo)
      BY <1>1, <1>2, <1>3, <3>1 DEF Replaying
    <3>3. replay' = [replay EXCEPT ![r] = now1]
      BY <1>1, <1>2, <2>2, <3>1 DEF ReplayMark, ReplayNext
    <3>. QED BY <1>3, <2>2, <3>2, <3>3
  <2>. QED BY <2>1, <2>2
<1>5. /\ spent' \in Spending /\ spent'.batches = spent.batches
      /\ spent'.stopping = spent.stopping /\ spent'.troubles >= spent.troubles
  <2>1. CASE Trouble("mark")
    <3>1. /\ spent.troubles < MaxTroubles
          /\ spent' = [spent EXCEPT !.troubles = spent.troubles + 1]
      BY <2>1 DEF Trouble
    <3>2. spent.troubles + 1 \in 0..MaxTroubles
      BY <1>1, <3>1, TablesType
    <3>. QED BY <1>1, <3>1, <3>2 DEF Spending
  <2>2. CASE UNCHANGED spent
    BY <1>1, <2>2
  <2>. QED BY <2>1, <2>2 DEF ReplayMark
<1>6. \/ "mark" \in trouble /\ parked' = parked /\ abandoned' = abandoned
      \/ replay[r].ok /\ parked' = parked \ Posted(r) /\ abandoned' = abandoned
      \/ Posted(r) = {} /\ parked' = parked /\ abandoned' = abandoned
      \/ ~replay[r].ok /\ \E b \in Posted(r) : Counts(b)
  <2>1. CASE Trouble("mark") /\ UNCHANGED <<parked, abandoned>>
    BY <2>1 DEF Trouble
  <2>2. CASE /\ replay[r].ok \/ Posted(r) = {}
             /\ parked' = parked \ Posted(r) /\ UNCHANGED abandoned
    <3>1. Posted(r) = {} => parked \ Posted(r) = parked
      OBVIOUS
    <3>. QED BY <2>2, <3>1
  <2>3. CASE /\ ~replay[r].ok /\ Posted(r) # {}
             /\ Mark(CHOOSE b \in Posted(r) : TRUE)
    <3>1. PICK b \in Posted(r) : Mark(b)
      BY <2>3
    <3>2. b \in Batch
      BY <1>1 DEF Posted
    <3>3. CASE b.attempts + 1 >= MaxAttempts
      BY <2>3, <3>1, <3>3 DEF Mark, Counts, GivenUp
    <3>4. CASE ~(b.attempts + 1 >= MaxAttempts)
      <4>1. PICK c : c = [b EXCEPT !.attempts = b.attempts + 1]
        OBVIOUS
      <4>2. b.attempts + 1 \in 1..MaxAttempts
        BY <3>2, <3>4, TablesType DEF Batch
      <4>3. /\ c \in Batch /\ c.id = b.id /\ c.table = b.table /\ c.facts = b.facts
            /\ c.attempts = b.attempts + 1
        BY <3>2, <4>1, <4>2 DEF Batch
      <4>4. parked' = (parked \ {b}) \cup {c} /\ abandoned' = abandoned
        BY <3>1, <3>4, <4>1 DEF Mark
      <4>. QED BY <2>3, <3>1, <4>3, <4>4 DEF Counts, Retried
    <3>. QED BY <3>3, <3>4
  <2>. QED BY <2>1, <2>2, <2>3 DEF ReplayMark, Posted, Current
<1>7. replay[r].pc = "mark" /\ UNCHANGED <<offered, dropped, queue, buf, loop, landed, trouble>>
  BY DEF ReplayMark
<1>. QED BY <1>2, <1>3, <1>4, <1>5, <1>6, <1>7

\* Replays keep the types.
LEMMA ReplayLoop ==
    ASSUME LoopInv, ReplaysOK, NEW r \in Replayers, ReplayList(r) \/ ReplayPost(r) \/ ReplayMark(r)
    PROVE  LoopInv'
<1>1. /\ replay \in [Replayers -> Replaying] /\ parked \subseteq Batch /\ IsFiniteSet(parked)
      /\ abandoned \subseteq Tables \X Facts /\ landed \in [Tables -> [Facts -> 0..2]]
      /\ spent \in Spending /\ spent.troubles \in Nat
  BY DEF LoopInv, FactTypes, Spending
<1>2. ASSUME NEW now1 \in Replaying, replay' = [replay EXCEPT ![r] = now1]
      PROVE  replay' \in [Replayers -> Replaying]
  BY <1>1, <1>2
<1>3. ASSUME UNCHANGED <<offered, dropped, queue, buf, loop, trouble>>,
             replay' \in [Replayers -> Replaying],
             parked' \subseteq Batch, IsFiniteSet(parked'),
             abandoned' \subseteq Tables \X Facts, landed' \in [Tables -> [Facts -> 0..2]],
             spent' \in Spending, spent'.stopping = spent.stopping,
             spent'.troubles >= spent.troubles
      PROVE  LoopInv'
  <2>1. FactTypes'
    BY <1>3 DEF LoopInv, FactTypes, LoopTypes
  <2>2. spent'.troubles \in Nat
    BY <1>3 DEF Spending
  <2>3. LoopOK'
    BY <1>1, <1>3, <2>2 DEF LoopInv, LoopOK
  <2>. QED BY <2>1, <2>3 DEF LoopInv
<1>4. CASE ReplayList(r)
  <2>1. /\ UNCHANGED <<offered, dropped, queue, buf, loop, parked, landed, abandoned, trouble>>
        /\ spent' \in Spending /\ spent'.stopping = spent.stopping
        /\ spent'.troubles = spent.troubles
    BY <1>4, ListIs
  <2>2. replay' \in [Replayers -> Replaying]
    BY <1>2, <1>4, ListIs
  <2>. QED BY <1>1, <1>3, <2>1, <2>2
<1>5. CASE ReplayPost(r)
  <2>1. replay[r].todo # <<>>
    BY <1>5 DEF ReplaysOK, ReplayPost, Lists
  <2>2. PICK ok \in BOOLEAN :
             /\ Current(r) \in Batch
             /\ Insert(Current(r).table, Current(r).facts, ok)
             /\ \E now1 \in Replaying : replay' = [replay EXCEPT ![r] = now1]
             /\ UNCHANGED <<offered, dropped, queue, buf, loop, parked, abandoned, trouble>>
    BY <1>5, <2>1, PostIs
  <2>3. /\ landed' \in [Tables -> [Facts -> 0..2]] /\ spent' \in Spending
        /\ spent'.stopping = spent.stopping /\ spent'.troubles >= spent.troubles
    <3>1. PICK t \in Tables, fs \in SUBSET Facts : t = Current(r).table /\ fs = Current(r).facts
      BY <2>2 DEF Batch
    <3>2. Insert(t, fs, ok) /\ FactTypes
      BY <2>2, <3>1 DEF LoopInv
    <3>. QED BY <3>2, Insertion
  <2>. QED BY <1>1, <1>2, <1>3, <2>2, <2>3
<1>6. CASE ReplayMark(r)
  <2>1. replay[r].todo # <<>>
    BY <1>6 DEF ReplaysOK, ReplayMark, Lists
  <2>2. /\ UNCHANGED <<offered, dropped, queue, buf, loop, landed, trouble>>
        /\ spent' \in Spending /\ spent'.stopping = spent.stopping
        /\ spent'.troubles >= spent.troubles
    BY <1>6, <2>1, MarkIs
  <2>3. replay' \in [Replayers -> Replaying]
    BY <1>2, <1>6, <2>1, MarkIs
  <2>4. /\ parked' \subseteq Batch /\ IsFiniteSet(parked')
        /\ abandoned' \subseteq Tables \X Facts
    <3>1. CASE parked' = parked /\ abandoned' = abandoned
      BY <1>1, <3>1
    <3>2. CASE parked' = parked \ Posted(r) /\ abandoned' = abandoned
      <4>1. parked' \subseteq parked
        BY <3>2
      <4>. QED BY <1>1, <3>2, <4>1, FS_Subset
    <3>3. ASSUME NEW b \in Posted(r), GivenUp(b)
          PROVE  /\ parked' \subseteq Batch /\ IsFiniteSet(parked')
                 /\ abandoned' \subseteq Tables \X Facts
      <4>1. parked' \subseteq parked
        BY <3>3 DEF GivenUp
      <4>2. {b.table} \X b.facts \subseteq Tables \X Facts
        BY <1>1 DEF Posted, Batch
      <4>. QED BY <1>1, <3>3, <4>1, <4>2, FS_Subset DEF GivenUp
    <3>4. ASSUME NEW b \in Posted(r), NEW c \in Batch, Retried(b, c)
          PROVE  /\ parked' \subseteq Batch /\ IsFiniteSet(parked')
                 /\ abandoned' \subseteq Tables \X Facts
      <4>1. IsFiniteSet(parked \ {b})
        BY <1>1, FS_RemoveElement
      <4>2. IsFiniteSet((parked \ {b}) \cup {c})
        BY <4>1, FS_AddElement
      <4>. QED BY <1>1, <3>4, <4>2 DEF Retried
    <3>. QED BY <1>6, <2>1, <3>1, <3>2, <3>3, <3>4, MarkIs DEF Counts
  <2>. QED BY <1>1, <1>3, <2>2, <2>3, <2>4
<1>. QED BY <1>4, <1>5, <1>6

-----------------------------------------------------------------------------
(***************************************************************************)
(* Batches, replays and attempts                                           *)
(***************************************************************************)
RetryOK == BatchesOK /\ ReplaysOK /\ AttemptsOK /\ OnlyRefusedAbandoned

\* How the numbers of troubles and batches and the tables grow.
Grows ==
    /\ spent' \in Spending
    /\ spent'.troubles >= spent.troubles /\ spent'.batches >= spent.batches
    /\ \A t \in Tables, f \in Facts : landed[t][f] > 0 => landed'[t][f] > 0

\* Counts are numbers.
LEMMA RetryTypes ==
    ASSUME LoopInv
    PROVE  /\ spent.troubles \in Nat /\ spent.batches \in Nat
           /\ \A b \in Batch : /\ b.id \in Nat /\ b.table \in Tables /\ b.facts \subseteq Facts
                               /\ b.attempts \in Nat \ {0}
           /\ parked \subseteq Batch
           /\ replay \in [Replayers -> Replaying]
           /\ \A r \in Replayers : /\ replay[r] \in Replaying /\ replay[r].todo \in Seq(Batch)
                                   /\ replay[r].ok \in BOOLEAN
           /\ \A b : IsFiniteSet(Failing(b)) /\ Cardinality(Failing(b)) \in Nat
<1>1. /\ replay \in [Replayers -> Replaying] /\ parked \subseteq Batch /\ spent \in Spending
  BY DEF LoopInv, FactTypes
<1>2. /\ spent.troubles \in Nat /\ spent.batches \in Nat
      /\ \A b \in Batch : /\ b.id \in Nat /\ b.table \in Tables /\ b.facts \subseteq Facts
                          /\ b.attempts \in Nat \ {0}
  BY <1>1, TablesType DEF Spending, Batch
<1>3. \A r \in Replayers : /\ replay[r] \in Replaying /\ replay[r].todo \in Seq(Batch)
                           /\ replay[r].ok \in BOOLEAN
  BY <1>1 DEF Replaying
<1>4. ASSUME NEW b
      PROVE  IsFiniteSet(Failing(b)) /\ Cardinality(Failing(b)) \in Nat
  <2>1. Failing(b) \subseteq Replayers
    BY DEF Failing
  <2>2. IsFiniteSet(Failing(b))
    BY <2>1, TablesType, FS_Subset
  <2>. QED BY <2>2, FS_CardinalityType
<1>. QED BY <1>1, <1>2, <1>3, <1>4

\* What touches neither batches nor replays keeps all of it.
LEMMA RetryRests ==
    ASSUME LoopInv, RetryOK, Grows, UNCHANGED <<parked, replay, abandoned>>
    PROVE  RetryOK'
<1>1. /\ spent.troubles \in Nat /\ spent.batches \in Nat
      /\ spent'.troubles \in Nat /\ spent'.batches \in Nat
      /\ parked \subseteq Batch /\ \A b \in Batch : b.id \in Nat /\ b.attempts \in Nat
  BY RetryTypes DEF Grows, Spending
<1>2. BatchesOK'
  BY <1>1 DEF RetryOK, BatchesOK, Grows
<1>3. \A todo : Lists(todo) /\ todo \in Seq(Batch) => Lists(todo)'
  <2>. SUFFICES ASSUME NEW todo \in Seq(Batch), Lists(todo), NEW i \in 1..Len(todo)
                PROVE  todo[i].id <= spent'.batches
    BY DEF Lists, Copies
  <2>1. todo[i] \in Batch /\ todo[i].id <= spent.batches
    BY ElementOfSeq DEF Lists
  <2>. QED BY <1>1, <2>1 DEF Grows
<1>4. \A t \in Tables, fs \in SUBSET Facts : In(t, fs) => In(t, fs)'
  BY DEF In, Grows
<1>5. ReplaysOK'
  <2>. SUFFICES ASSUME NEW r \in Replayers
                PROVE  /\ replay[r].pc # "free" => Lists(replay[r].todo)'
                       /\ replay[r].pc = "mark" /\ replay[r].ok
                            => In(Current(r).table, Current(r).facts)'
    BY DEF ReplaysOK, Current
  <2>1. replay[r].todo \in Seq(Batch)
    BY RetryTypes
  <2>2. replay[r].pc # "free" => Lists(replay[r].todo)
    BY DEF RetryOK, ReplaysOK
  <2>3. replay[r].pc # "free" => Current(r).table \in Tables /\ Current(r).facts \subseteq Facts
    BY <2>1, <2>2, TodoIs, RetryTypes DEF Lists, Current
  <2>4. replay[r].pc = "mark" /\ replay[r].ok => In(Current(r).table, Current(r).facts)'
    BY <1>4, <2>3 DEF RetryOK, ReplaysOK, Current
  <2>. QED BY <1>3, <2>1, <2>2, <2>4
<1>6. AttemptsOK'
  <2>1. \A b : Failing(b)' = Failing(b)
    BY DEF Failing, Current
  <2>. QED BY <1>1, <2>1, RetryTypes DEF RetryOK, AttemptsOK, Grows
<1>7. OnlyRefusedAbandoned'
  <2>1. spent'.troubles < MaxAttempts => spent.troubles < MaxAttempts
    BY <1>1, TablesType DEF Grows
  <2>. QED BY <2>1 DEF RetryOK, OnlyRefusedAbandoned
<1>. QED BY <1>2, <1>5, <1>6, <1>7 DEF RetryOK

\* The steps of the requests and of the loop, but for its parking.
LEMMA RetryLoop ==
    ASSUME LoopInv, RetryOK, LoopInv',
           (\E f \in Facts : Enqueue(f)) \/ Take \/ FlushTimer \/ Stop \/ End \/ SinkTable
    PROVE  RetryOK'
<1>0. spent' \in Spending /\ spent.troubles \in Nat /\ spent.batches \in Nat
  BY RetryTypes DEF LoopInv, FactTypes
<1>1. UNCHANGED <<parked, replay, abandoned>>
  BY DEF Enqueue, Take, FlushTimer, Stop, End, SinkTable
<1>2. CASE (\E f \in Facts : Enqueue(f)) \/ Take \/ FlushTimer \/ Stop \/ End
  <2>1. landed' = landed /\ (spent' = spent \/ spent' = [spent EXCEPT !.stopping = TRUE])
    BY <1>2 DEF Enqueue, Take, FlushTimer, Stop, End
  <2>2. spent'.troubles = spent.troubles /\ spent'.batches = spent.batches
    BY <2>1 DEF LoopInv, FactTypes, Spending
  <2>3. Grows
    BY <1>0, <2>1, <2>2 DEF Grows
  <2>. QED BY <1>1, <2>3, RetryRests
<1>3. CASE SinkTable
  <2>1. PICK ok \in BOOLEAN :
          IF spent.stopping THEN ~ok /\ UNCHANGED <<landed, spent>>
                            ELSE Insert(loop.table, Range(buf), ok)
    BY <1>3 DEF SinkTable
  <2>2. CASE spent.stopping
    BY <1>0, <1>1, <2>1, <2>2, RetryRests DEF Grows
  <2>3. CASE ~spent.stopping
    <3>1. loop.table \in Tables /\ Range(buf) \in SUBSET Facts
      BY FactsOf DEF LoopInv, FactTypes, LoopTypes
    <3>2. PICK t \in Tables, fs \in SUBSET Facts : t = loop.table /\ fs = Range(buf)
      BY <3>1
    <3>3. Insert(t, fs, ok) /\ FactTypes
      BY <2>1, <2>3, <3>2 DEF LoopInv
    <3>4. /\ spent'.troubles >= spent.troubles /\ spent'.batches = spent.batches
          /\ \A u \in Tables, f \in Facts : landed[u][f] > 0 => landed'[u][f] > 0
      BY <3>3, Insertion
    <3>5. spent'.batches >= spent.batches
      BY <1>0, <3>4
    <3>6. Grows
      BY <1>0, <3>4, <3>5 DEF Grows
    <3>. QED BY <1>1, <3>6, RetryRests
  <2>. QED BY <2>2, <2>3
<1>. QED BY <1>2, <1>3

\* A new batch has a number that nobody has listed, and its first attempt.
LEMMA RetryPark == ASSUME LoopInv, RetryOK, Park PROVE RetryOK'
<1>0. /\ spent' \in Spending /\ spent.troubles \in Nat /\ spent.batches \in Nat
      /\ spent'.troubles >= spent.troubles /\ spent'.batches >= spent.batches
      /\ spent'.troubles \in Nat /\ spent'.batches \in Nat
      /\ UNCHANGED <<replay, landed, abandoned>>
  BY ParkIs, RetryTypes DEF Spending
<1>1. CASE parked' = parked
  BY <1>0, <1>1, RetryRests DEF Grows
<1>2. CASE /\ ~spent.stopping /\ parked' = parked \cup {ParkedNow}
           /\ spent'.batches = spent.batches + 1
  <2>1. /\ parked \subseteq Batch /\ \A b \in Batch : b.id \in Nat /\ b.attempts \in Nat
        /\ \A b \in parked : b.id <= spent.batches
    BY RetryTypes DEF RetryOK, BatchesOK
  <2>2. /\ ParkedNow.id = spent.batches + 1 /\ ParkedNow.attempts = 1
        /\ ParkedNow.facts = Range(buf)
    BY DEF ParkedNow
  <2>3. BatchesOK'
    BY <1>0, <1>2, <2>1, <2>2 DEF RetryOK, BatchesOK
  <2>4. ASSUME NEW todo \in Seq(Batch), Lists(todo)
        PROVE  /\ Lists(todo)'
               /\ \A i \in 1..Len(todo) : todo[i].id # ParkedNow.id
    <3>1. \A i \in 1..Len(todo) : todo[i] \in Batch /\ todo[i].id <= spent.batches
      BY <2>4, ElementOfSeq DEF Lists
    <3>2. \A i \in 1..Len(todo) : todo[i].id # ParkedNow.id /\ todo[i].id <= spent'.batches
      BY <1>0, <1>2, <2>1, <2>2, <3>1
    <3>. QED BY <1>2, <2>4, <3>2 DEF Lists, Copies
  <2>5. ReplaysOK'
    BY <1>0, <2>4, RetryTypes DEF RetryOK, ReplaysOK, In, Current
  <2>6. AttemptsOK'
    <3>1. \A b : Failing(b)' = Failing(b)
      BY <1>0 DEF Failing, Current
    <3>2. Failing(ParkedNow) = {}
      <4>. SUFFICES ASSUME NEW r \in Replayers, replay[r].pc = "mark"
                    PROVE  Current(r).id # ParkedNow.id
        BY DEF Failing
      <4>1. replay[r].todo \in Seq(Batch) /\ Lists(replay[r].todo)
        BY RetryTypes DEF RetryOK, ReplaysOK
      <4>2. replay[r].todo # <<>>
        BY <4>1 DEF Lists
      <4>. QED BY <2>4, <4>1, <4>2, TodoIs DEF Current
    <3>3. ParkedNow.facts \cap Poison = {} => spent.troubles > 0
      BY <1>2, <2>2, ParkIs DEF LoopInv, LoopOK
    <3>4. Cardinality(Failing(ParkedNow)) = 0
      BY <3>2, FS_EmptySet
    <3>5. ASSUME NEW b \in parked', b.facts \cap Poison = {}
          PROVE  b.attempts + Cardinality(Failing(b)) <= spent'.troubles
      <4>1. CASE b = ParkedNow
        BY <1>0, <2>2, <3>3, <3>4, <3>5, <4>1
      <4>2. CASE b \in parked
        <5>1. b.attempts + Cardinality(Failing(b)) <= spent.troubles
          BY <3>5, <4>2 DEF RetryOK, AttemptsOK
        <5>. QED BY <1>0, <2>1, <4>2, <5>1, RetryTypes
      <4>. QED BY <1>2, <4>1, <4>2
    <3>. QED BY <3>1, <3>5 DEF AttemptsOK
  <2>7. OnlyRefusedAbandoned'
    <3>1. spent'.troubles < MaxAttempts => spent.troubles < MaxAttempts
      BY <1>0, TablesType
    <3>. QED BY <1>0, <3>1 DEF RetryOK, OnlyRefusedAbandoned
  <2>. QED BY <2>3, <2>5, <2>6, <2>7 DEF RetryOK
<1>. QED BY <1>1, <1>2, ParkIs

\* A list stays one when batches get neither new numbers nor new facts.
LEMMA ListsStay ==
    ASSUME LoopInv, NEW todo \in Seq(Batch), Lists(todo),
           spent'.batches = spent.batches,
           \A c \in parked' : \E b \in parked : c.id = b.id /\ c.table = b.table /\ c.facts = b.facts
    PROVE  Lists(todo)'
  BY DEF Lists, Copies

\* The list that a replay has then.
LEMMA ListsMove ==
    ASSUME NEW q \in Replayers, NEW todo, replay'[q].todo = todo, Lists(todo)'
    PROVE  Lists(replay[q].todo)'
  BY DEF Lists

\* Listing fails nothing and inserts nothing.
LEMMA RetryList ==
    ASSUME LoopInv, RetryOK, NEW r \in Replayers, ReplayList(r)
    PROVE  RetryOK'
<1>1. PICK todo \in Seq(Batch), now1 \in Replaying :
        /\ todo # <<>> /\ \A i \in 1..Len(todo) : todo[i] \in parked
        /\ replay' = [replay EXCEPT ![r] = now1]
        /\ now1.pc = "post" /\ now1.todo = todo
  BY ListIs
<1>2. /\ spent' \in Spending /\ spent'.batches = spent.batches
      /\ spent'.troubles = spent.troubles /\ replay[r].pc = "free"
      /\ UNCHANGED <<parked, landed, abandoned>>
  BY ListIs
<1>3. /\ replay'[r] = now1 /\ \A q \in Replayers : q # r => replay'[q] = replay[q]
  BY <1>1, RetryTypes
<1>4. BatchesOK'
  BY <1>2 DEF RetryOK, BatchesOK
<1>5. \A q \in Seq(Batch) : Lists(q) => Lists(q)'
  BY <1>2 DEF Lists, Copies
<1>6. Lists(todo)'
  <2>1. Lists(todo)
    BY <1>1 DEF Lists, Copies, RetryOK, BatchesOK
  <2>. QED BY <1>5, <2>1
<1>7. ReplaysOK'
  <2>. SUFFICES ASSUME NEW q \in Replayers
                PROVE  /\ replay'[q].pc # "free" => Lists(replay[q].todo)'
                       /\ replay'[q].pc = "mark" /\ replay'[q].ok
                            => In(Current(q).table, Current(q).facts)'
    BY DEF ReplaysOK
  <2>1. CASE q = r
    BY <1>1, <1>3, <1>6, <2>1, ListsMove
  <2>2. CASE q # r
    <3>1. PICK now2 \in Replaying : now2 = replay[q] /\ now2 = replay'[q] /\ now2.todo \in Seq(Batch)
      BY <1>3, <2>2, RetryTypes
    <3>2. now2.pc # "free" => Lists(now2.todo)'
      BY <1>5, <3>1 DEF RetryOK, ReplaysOK
    <3>3. now2.pc = "mark" /\ now2.ok => In(Current(q).table, Current(q).facts)'
      BY <1>2, <3>1 DEF RetryOK, ReplaysOK, In, Current
    <3>. QED BY <3>1, <3>2, <3>3, ListsMove
  <2>. QED BY <2>1, <2>2
<1>8. \A b : Failing(b)' = Failing(b)
  BY <1>1, <1>2, <1>3 DEF Failing, Current
<1>9. AttemptsOK'
  BY <1>2, <1>8 DEF RetryOK, AttemptsOK
<1>10. OnlyRefusedAbandoned'
  BY <1>2 DEF RetryOK, OnlyRefusedAbandoned
<1>. QED BY <1>4, <1>7, <1>9, <1>10 DEF RetryOK

\* A post that fails on facts which ClickHouse takes is a trouble.
LEMMA RetryPost ==
    ASSUME LoopInv, RetryOK, NEW r \in Replayers, ReplayPost(r)
    PROVE  RetryOK'
<1>0. replay[r].todo \in Seq(Batch) /\ Lists(replay[r].todo) /\ replay[r].todo # <<>>
  BY RetryTypes DEF RetryOK, ReplaysOK, Lists, ReplayPost
<1>1. PICK ok \in BOOLEAN, now1 \in Replaying :
        /\ replay[r].pc = "post" /\ Current(r) \in Batch
        /\ Insert(Current(r).table, Current(r).facts, ok)
        /\ replay' = [replay EXCEPT ![r] = now1]
        /\ now1.pc = "mark" /\ now1.ok = ok /\ now1.todo = replay[r].todo
        /\ UNCHANGED <<parked, abandoned>>
  BY <1>0, PostIs
<1>2. PICK t \in Tables, fs \in SUBSET Facts : t = Current(r).table /\ fs = Current(r).facts
  BY <1>1 DEF Batch
<1>3. Insert(t, fs, ok) /\ FactTypes
  BY <1>1, <1>2 DEF LoopInv
<1>4. /\ \A u \in Tables, f \in Facts : landed[u][f] > 0 => landed'[u][f] > 0
      /\ ok => \A f \in fs : landed'[t][f] > 0
      /\ spent' \in Spending
      /\ spent'.batches = spent.batches
      /\ spent'.troubles >= spent.troubles
      /\ ~ok /\ fs \cap Poison = {} => spent'.troubles = spent.troubles + 1
  <2>1. \A u \in Tables, f \in Facts : landed[u][f] > 0 => landed'[u][f] > 0
    BY <1>3, Insertion
  <2>2. ok => \A f \in fs : landed'[t][f] > 0
    BY <1>3, Insertion
  <2>3. /\ spent' \in Spending /\ spent'.batches = spent.batches
        /\ spent'.troubles >= spent.troubles
        /\ ~ok /\ fs \cap Poison = {} => spent'.troubles = spent.troubles + 1
    BY <1>3, Insertion
  <2>. QED BY <2>1, <2>2, <2>3
<1>5. /\ replay'[r] = now1 /\ \A q \in Replayers : q # r => replay'[q] = replay[q]
  BY <1>1, RetryTypes
<1>6. \A q \in Replayers : Current(q)' = Current(q)
  BY <1>1, <1>5 DEF Current
<1>7. /\ spent.troubles \in Nat /\ spent'.troubles \in Nat
      /\ parked \subseteq Batch /\ \A b \in Batch : b.id \in Nat /\ b.attempts \in Nat
  BY <1>4, RetryTypes DEF Spending
<1>8. BatchesOK'
  BY <1>1, <1>4 DEF RetryOK, BatchesOK
<1>9. \A q : Lists(q) => Lists(q)'
  BY <1>1, <1>4 DEF Lists, Copies
<1>10. ReplaysOK'
  <2>. SUFFICES ASSUME NEW q \in Replayers
                PROVE  /\ replay'[q].pc # "free" => Lists(replay[q].todo)'
                       /\ replay'[q].pc = "mark" /\ replay'[q].ok
                            => In(Current(q).table, Current(q).facts)'
    BY DEF ReplaysOK
  <2>1. CASE q = r
    <3>1. Lists(replay[q].todo)'
      BY <1>0, <1>1, <1>5, <1>9, <2>1, ListsMove
    <3>2. replay'[q].ok => In(Current(q).table, Current(q).facts)'
      BY <1>1, <1>2, <1>4, <1>5, <1>6, <2>1 DEF In
    <3>. QED BY <3>1, <3>2
  <2>2. CASE q # r
    <3>1. replay[q].pc # "free" => Lists(replay[q].todo)'
      BY <1>5, <1>9, <2>2, ListsMove DEF RetryOK, ReplaysOK
    <3>2. ASSUME replay[q].pc = "mark", replay[q].ok
          PROVE  In(Current(q).table, Current(q).facts)'
      <4>1. In(Current(q).table, Current(q).facts) /\ replay[q].todo \in Seq(Batch)
            /\ replay[q].todo # <<>>
        BY <3>2, RetryTypes DEF RetryOK, ReplaysOK, Lists
      <4>2. Current(q).table \in Tables /\ Current(q).facts \subseteq Facts
        BY <4>1, TodoIs, RetryTypes DEF Current
      <4>. QED BY <1>4, <1>6, <4>1, <4>2 DEF In
    <3>. QED BY <1>5, <2>2, <3>1, <3>2
  <2>. QED BY <2>1, <2>2
<1>11. AttemptsOK'
  <2>. SUFFICES ASSUME NEW b \in parked, b.facts \cap Poison = {}
                PROVE  b.attempts + Cardinality(Failing(b)') <= spent'.troubles
    BY <1>1 DEF AttemptsOK
  <2>1. /\ b.attempts + Cardinality(Failing(b)) <= spent.troubles
        /\ b.attempts \in Nat /\ Cardinality(Failing(b)) \in Nat /\ IsFiniteSet(Failing(b))
    BY <1>7, RetryTypes DEF RetryOK, AttemptsOK
  <2>2. CASE ~ok /\ Current(r).id = b.id
    <3>1. Failing(b)' = Failing(b) \cup {r} /\ r \notin Failing(b)
      BY <1>1, <1>5, <1>6, <2>2 DEF Failing
    <3>2. Cardinality(Failing(b)') = Cardinality(Failing(b)) + 1
      BY <2>1, <3>1, FS_AddElement
    <3>3. Copies(Current(r), b)
      <4>1. Current(r) = replay[r].todo[1] /\ 1 \in 1..Len(replay[r].todo)
        BY <1>0, TodoIs DEF Current
      <4>. QED BY <1>0, <4>1 DEF Lists
    <3>4. spent'.troubles = spent.troubles + 1
      BY <1>2, <1>4, <2>2, <3>3 DEF Copies
    <3>. QED BY <1>7, <2>1, <3>2, <3>4
  <2>3. CASE ~(~ok /\ Current(r).id = b.id)
    <3>1. Failing(b)' = Failing(b)
      BY <1>1, <1>5, <1>6, <2>3 DEF Failing
    <3>. QED BY <1>4, <1>7, <2>1, <3>1
  <2>. QED BY <2>2, <2>3
<1>12. OnlyRefusedAbandoned'
  <2>1. spent'.troubles < MaxAttempts => spent.troubles < MaxAttempts
    BY <1>4, <1>7, TablesType
  <2>. QED BY <1>1, <2>1 DEF RetryOK, OnlyRefusedAbandoned
<1>. QED BY <1>8, <1>10, <1>11, <1>12 DEF RetryOK

\* A batch that is given up was tried once more than it had been counted.
LEMMA RetryMark ==
    ASSUME LoopInv, RetryOK, NEW r \in Replayers, ReplayMark(r)
    PROVE  RetryOK'
<1>0. replay[r].todo \in Seq(Batch) /\ Lists(replay[r].todo) /\ replay[r].todo # <<>>
  BY RetryTypes DEF RetryOK, ReplaysOK, Lists, ReplayMark
<1>1. PICK now1 \in Replaying :
        /\ replay' = [replay EXCEPT ![r] = now1]
        /\ \/ now1.pc = "free"
           \/ now1.pc = "post" /\ now1.todo = Tail(replay[r].todo) /\ now1.todo # <<>>
  BY <1>0, MarkIs
<1>2. /\ replay[r].pc = "mark" /\ landed' = landed /\ spent' \in Spending
      /\ spent'.batches = spent.batches /\ spent'.troubles >= spent.troubles
  BY <1>0, MarkIs
<1>3. /\ replay'[r] = now1 /\ \A q \in Replayers : q # r => replay'[q] = replay[q]
  BY <1>1, RetryTypes
<1>4. /\ spent.troubles \in Nat /\ spent'.troubles \in Nat
      /\ parked \subseteq Batch /\ \A b \in Batch : b.id \in Nat /\ b.attempts \in Nat
  BY <1>2, RetryTypes DEF Spending
<1>5. \/ parked' \subseteq parked /\ abandoned' = abandoned
      \/ \E b \in Posted(r) : GivenUp(b) /\ ~replay[r].ok
      \/ \E b \in Posted(r), c \in Batch : Retried(b, c) /\ ~replay[r].ok
  BY <1>0, MarkIs DEF Counts
<1>6. \A c \in parked' : \E b \in parked : c.id = b.id /\ c.table = b.table /\ c.facts = b.facts
  BY <1>5 DEF GivenUp, Retried, Posted
<1>7. BatchesOK'
  <2>1. ASSUME NEW b \in parked', NEW c \in parked', b.id = c.id
        PROVE  b = c
    BY <1>5, <2>1 DEF GivenUp, Retried, Posted, RetryOK, BatchesOK
  <2>. QED BY <1>2, <1>6, <2>1 DEF RetryOK, BatchesOK
<1>8. ReplaysOK'
  <2>0. \A todo \in Seq(Batch) : Lists(todo) => Lists(todo)'
    BY <1>2, <1>6, ListsStay
  <2>. SUFFICES ASSUME NEW q \in Replayers
                PROVE  /\ replay'[q].pc # "free" => Lists(replay[q].todo)'
                       /\ replay'[q].pc = "mark" /\ replay'[q].ok
                            => In(Current(q).table, Current(q).facts)'
    BY DEF ReplaysOK
  <2>1. CASE q = r
    <3>1. CASE now1.pc = "post" /\ now1.todo = Tail(replay[r].todo) /\ now1.todo # <<>>
      <4>1. now1.todo \in Seq(Batch) /\ Lists(now1.todo)
        BY <1>0, <3>1, TodoIs DEF Lists
      <4>. QED BY <1>3, <2>0, <2>1, <3>1, <4>1, ListsMove
    <3>. QED BY <1>1, <1>3, <2>1, <3>1
  <2>2. CASE q # r
    <3>1. PICK now2 \in Replaying : now2 = replay[q] /\ now2 = replay'[q] /\ now2.todo \in Seq(Batch)
      BY <1>3, <2>2, RetryTypes
    <3>2. now2.pc # "free" => Lists(now2.todo)'
      BY <2>0, <3>1 DEF RetryOK, ReplaysOK
    <3>3. now2.pc = "mark" /\ now2.ok => In(Current(q).table, Current(q).facts)'
      BY <1>2, <3>1 DEF RetryOK, ReplaysOK, In, Current
    <3>. QED BY <3>1, <3>2, <3>3, ListsMove
  <2>. QED BY <2>1, <2>2
<1>9. /\ \A b : Failing(b)' = Failing(b) \ {r}
      /\ ~replay[r].ok => \A b \in Posted(r) : r \in Failing(b)
  BY <1>1, <1>2, <1>3 DEF Failing, Current, Posted
<1>10. \A b : /\ Cardinality(Failing(b)') <= Cardinality(Failing(b))
              /\ r \in Failing(b) => Cardinality(Failing(b)') = Cardinality(Failing(b)) - 1
              /\ Cardinality(Failing(b)) \in Nat /\ Cardinality(Failing(b)') \in Nat
  <2>. TAKE b
  <2>1. IsFiniteSet(Failing(b)) /\ Cardinality(Failing(b)) \in Nat
    BY RetryTypes
  <2>2. IsFiniteSet(Failing(b)')
        /\ Cardinality(Failing(b)') = IF r \in Failing(b) THEN Cardinality(Failing(b)) - 1
                                      ELSE Cardinality(Failing(b))
    BY <1>9, <2>1, FS_RemoveElement
  <2>3. Cardinality(Failing(b)') \in Nat
    BY <2>2, FS_CardinalityType
  <2>. QED BY <2>1, <2>2, <2>3
<1>11. AttemptsOK'
  <2>1. ASSUME NEW b \in parked, b.facts \cap Poison = {}
        PROVE  b.attempts + Cardinality(Failing(b)') <= spent'.troubles
    <3>1. b.attempts + Cardinality(Failing(b)) <= spent.troubles /\ b.attempts \in Nat
      BY <1>4, <2>1 DEF RetryOK, AttemptsOK
    <3>. QED BY <1>2, <1>4, <1>10, <3>1
  <2>2. ASSUME NEW b \in Posted(r), NEW c \in Batch, Retried(b, c), ~replay[r].ok,
               c.facts \cap Poison = {}
        PROVE  c.attempts + Cardinality(Failing(c)') <= spent'.troubles
    <3>1. /\ b \in parked /\ c.facts = b.facts /\ c.attempts = b.attempts + 1 /\ c.id = b.id
          /\ r \in Failing(b)
      BY <1>9, <2>2 DEF Retried, Posted
    <3>2. b.attempts + Cardinality(Failing(b)) <= spent.troubles /\ b.attempts \in Nat
      BY <1>4, <2>2, <3>1 DEF RetryOK, AttemptsOK
    <3>3. Failing(c)' = Failing(b)'
      BY <3>1 DEF Failing
    <3>. QED BY <1>2, <1>4, <1>10, <3>1, <3>2, <3>3
  <2>3. ASSUME NEW c \in parked', c.facts \cap Poison = {}
        PROVE  c.attempts + Cardinality(Failing(c)') <= spent'.troubles
    <3>1. CASE c \in parked
      BY <2>1, <2>3, <3>1
    <3>2. CASE c \notin parked
      <4>1. PICK b \in Posted(r) : Retried(b, c) /\ ~replay[r].ok /\ c \in Batch
        BY <1>5, <2>3, <3>2 DEF GivenUp, Retried
      <4>. QED BY <2>2, <2>3, <4>1
    <3>. QED BY <3>1, <3>2
  <2>. QED BY <2>3 DEF AttemptsOK
<1>12. OnlyRefusedAbandoned'
  <2>1. spent'.troubles < MaxAttempts => spent.troubles < MaxAttempts
    BY <1>2, <1>4, TablesType
  <2>2. CASE abandoned' = abandoned
    BY <2>1, <2>2 DEF RetryOK, OnlyRefusedAbandoned
  <2>3. ASSUME NEW b \in Posted(r), GivenUp(b), ~replay[r].ok, spent'.troubles < MaxAttempts
        PROVE  b.facts \cap Poison # {}
    <3>. SUFFICES ASSUME b.facts \cap Poison = {} PROVE FALSE
      OBVIOUS
    <3>1. r \in Failing(b) /\ b \in parked /\ b.attempts + 1 >= MaxAttempts
      BY <1>9, <2>3 DEF Posted, GivenUp
    <3>2. b.attempts + Cardinality(Failing(b)) <= spent.troubles /\ b.attempts \in Nat
      BY <1>4, <3>1 DEF RetryOK, AttemptsOK
    <3>3. Cardinality(Failing(b)) >= 1
      BY <1>10, <3>1
    <3>. QED BY <1>2, <1>4, <1>10, <2>3, <3>1, <3>2, <3>3, TablesType
  <2>4. ASSUME NEW b \in Posted(r), GivenUp(b), ~replay[r].ok
        PROVE  OnlyRefusedAbandoned'
    <3>. SUFFICES ASSUME spent'.troubles < MaxAttempts, NEW a \in abandoned'
                  PROVE  \E f \in Poison : <<a[1], f>> \in abandoned'
      BY DEF OnlyRefusedAbandoned
    <3>1. abandoned' = abandoned \cup ({b.table} \X b.facts)
      BY <2>4 DEF GivenUp
    <3>2. CASE a \in abandoned
      BY <2>1, <3>1, <3>2 DEF RetryOK, OnlyRefusedAbandoned
    <3>3. CASE a \in {b.table} \X b.facts
      <4>1. a[1] = b.table
        BY <3>3
      <4>2. PICK f \in Poison : f \in b.facts
        BY <2>3, <2>4
      <4>. QED BY <3>1, <4>1, <4>2
    <3>. QED BY <3>1, <3>2, <3>3
  <2>. QED BY <1>5, <2>2, <2>4 DEF Retried
<1>. QED BY <1>7, <1>8, <1>11, <1>12 DEF RetryOK

-----------------------------------------------------------------------------
(***************************************************************************)
(* No fact vanishes                                                        *)
(***************************************************************************)
Somewhere(t) ==
    Range(queue) \cup Buffered(t) \cup Parked(t) \cup Landed(t) \cup Abandoned(t)

\* From the timer, the shutdown or a taken fact on, every table is to come.
LEMMA ToCome ==
    ASSUME LoopInv, Take \/ FlushTimer \/ Stop \/ End, NEW t \in Tables
    PROVE  /\ Buffered(t)' = IF Stop THEN Buffered(t) ELSE Range(buf')
           /\ ~Stop => Buffered(t) = Range(buf)
<1>1. t >= 1 /\ LoopTypes
  BY DEF Tables, LoopInv, FactTypes
<1>2. CASE Stop
  BY <1>2 DEF Stop, Buffered
<1>3. CASE (Take \/ FlushTimer \/ End) /\ ~Stop
  <2>1. loop.pc = "wait" /\ loop'.table = 1
    <3>1. CASE Take
      BY <3>1 DEF Take, Idle
    <3>2. CASE FlushTimer
      BY <3>2 DEF FlushTimer, Idle
    <3>3. CASE End
      BY <3>3 DEF End, Idle
    <3>. QED BY <1>3, <3>1, <3>2, <3>3
  <2>. QED BY <1>1, <1>3, <2>1 DEF Buffered
<1>. QED BY <1>2, <1>3

\* A step after which everything is somewhere keeps it so.
LEMMA KeepsAll ==
    ASSUME NothingVanishes, trouble' = trouble,
           trouble \cap {"park", "stop"} = {} =>
             \A t \in Tables : \A f \in (offered \ dropped)' :
               f \in Somewhere(t)' \/ (f \in offered \ dropped /\ f \notin Somewhere(t))
    PROVE  NothingVanishes'
  BY DEF NothingVanishes, Somewhere

\* A fact goes to the queue, or counts as dropped.
LEMMA EnqueueKeeps ==
    ASSUME LoopInv, NothingVanishes, NEW f \in Facts, Enqueue(f)
    PROVE  NothingVanishes'
<1>1. /\ UNCHANGED <<buf, loop, parked, landed, abandoned, trouble>>
      /\ offered' = offered \cup {f} /\ queue \in Seq(Facts)
  BY DEF Enqueue, LoopInv, FactTypes
<1>2. \A t : /\ Buffered(t)' = Buffered(t) /\ Parked(t)' = Parked(t)
             /\ Landed(t)' = Landed(t) /\ Abandoned(t)' = Abandoned(t)
  BY <1>1 DEF Buffered, Parked, Landed, Abandoned
<1>3. CASE Len(queue) < QueueCap
  <2>1. queue' = Append(queue, f) /\ dropped' = dropped
    BY <1>3 DEF Enqueue
  <2>2. Range(queue') = Range(queue) \cup {f}
    BY <1>1, <2>1, TailGrows
  <2>. QED BY <1>1, <1>2, <2>1, <2>2, KeepsAll DEF Somewhere
<1>4. CASE ~(Len(queue) < QueueCap)
  <2>1. queue' = queue /\ dropped' = dropped \cup {f}
    BY <1>4 DEF Enqueue
  <2>. QED BY <1>1, <1>2, <2>1, KeepsAll DEF Somewhere
<1>. QED BY <1>3, <1>4

\* Between queue and buffer nothing is lost.
LEMMA TakeKeeps ==
    ASSUME LoopInv, NothingVanishes, Take \/ FlushTimer \/ Stop \/ End
    PROVE  NothingVanishes'
<1>1. UNCHANGED <<offered, dropped, parked, landed, abandoned, trouble>>
  BY DEF Take, FlushTimer, Stop, End
<1>2. \A t : /\ Parked(t)' = Parked(t)
             /\ Landed(t)' = Landed(t) /\ Abandoned(t)' = Abandoned(t)
  BY <1>1 DEF Parked, Landed, Abandoned
<1>3. CASE Take
  <2>1. /\ queue \in Seq(Facts) /\ queue # <<>> /\ buf \in Seq(Facts)
        /\ queue' = Tail(queue) /\ buf' = Append(buf, Head(queue))
    BY <1>3 DEF Take, LoopInv, FactTypes
  <2>2. /\ Range(queue) = Range(queue') \cup {Head(queue)} /\ Head(queue) \in Facts
        /\ Range(buf') = Range(buf) \cup {Head(queue)}
    BY <2>1, HeadLeaves, TailGrows
  <2>3. \A t \in Tables : Buffered(t) \subseteq Range(buf) /\ Range(buf') = Buffered(t)'
    <3>1. ~Stop
      BY <1>1, <2>1, HeadLeaves DEF Stop
    <3>. QED BY <1>3, <3>1, ToCome
  <2>. QED BY <1>1, <1>2, <2>2, <2>3, KeepsAll DEF Somewhere
<1>4. CASE FlushTimer \/ Stop \/ End
  <2>1. queue' = queue /\ buf' = buf
    BY <1>4 DEF FlushTimer, Stop, End
  <2>2. \A t \in Tables : Buffered(t)' = Buffered(t)
    BY <1>4, <2>1, ToCome
  <2>. QED BY <1>1, <1>2, <2>1, <2>2, KeepsAll DEF Somewhere
<1>. QED BY <1>3, <1>4

\* What the loop inserts is in the table, what it could not insert stays.
LEMMA SinkKeeps ==
    ASSUME LoopInv, NothingVanishes, SinkTable
    PROVE  NothingVanishes'
<1>1. /\ UNCHANGED <<offered, dropped, queue, parked, abandoned, trouble>>
      /\ loop.pc = "insert" /\ loop.table \in Tables /\ Range(buf) \in SUBSET Facts
      /\ Tables = 1..NumTables /\ NumTables \in Nat /\ LoopTypes
  BY TablesType, FactsOf DEF SinkTable, LoopInv, FactTypes, LoopTypes
<1>2. PICK ok \in BOOLEAN :
        /\ IF spent.stopping THEN ~ok /\ UNCHANGED <<landed, spent>>
                             ELSE Insert(loop.table, Range(buf), ok)
        /\ IF ok THEN NextTable ELSE loop' = [loop EXCEPT !.pc = "park"] /\ UNCHANGED buf
  BY DEF SinkTable
<1>3. /\ \A u \in Tables, f \in Facts : landed[u][f] > 0 => landed'[u][f] > 0
      /\ ok => \A f \in Range(buf) : landed'[loop.table][f] > 0
  <2>1. CASE spent.stopping
    BY <1>2, <2>1
  <2>2. CASE ~spent.stopping
    <3>1. PICK t \in Tables, fs \in SUBSET Facts : t = loop.table /\ fs = Range(buf)
      BY <1>1
    <3>2. Insert(t, fs, ok) /\ FactTypes
      BY <1>2, <2>2, <3>1 DEF LoopInv
    <3>3. \A u \in Tables, f \in Facts : landed[u][f] > 0 => landed'[u][f] > 0
      BY <3>2, Insertion
    <3>4. ok => \A f \in fs : landed'[t][f] > 0
      BY <3>2, Insertion
    <3>. QED BY <3>1, <3>3, <3>4
  <2>. QED BY <2>1, <2>2
<1>4. ASSUME NEW t \in Tables
      PROVE  Buffered(t) \subseteq Buffered(t)' \cup Landed(t)' /\ Landed(t) \subseteq Landed(t)'
  <2>1. Landed(t) \subseteq Landed(t)'
    BY <1>3 DEF Landed
  <2>2. CASE ok
    <3>1. Buffered(t)' = IF loop.table < t THEN Range(buf) ELSE {}
      BY <1>2, <2>2, Onwards DEF LoopInv
    <3>2. Buffered(t) = IF loop.table <= t THEN Range(buf) ELSE {}
      BY <1>1 DEF Buffered
    <3>3. loop.table < t \/ loop.table = t \/ ~(loop.table <= t)
      BY <1>1
    <3>. QED BY <1>1, <1>3, <2>1, <2>2, <3>1, <3>2, <3>3 DEF Landed
  <2>3. CASE ~ok
    <3>1. loop' = [loop EXCEPT !.pc = "park"] /\ buf' = buf
      BY <1>2, <2>3
    <3>2. loop'.pc = "park" /\ loop'.table = loop.table
      BY <1>1, <3>1 DEF LoopTypes
    <3>. QED BY <1>1, <2>1, <3>1, <3>2 DEF Buffered
  <2>. QED BY <2>2, <2>3
<1>5. \A t : Parked(t)' = Parked(t) /\ Abandoned(t)' = Abandoned(t)
  BY <1>1 DEF Parked, Abandoned
<1>. QED BY <1>1, <1>4, <1>5, KeepsAll DEF Somewhere

\* What the loop could not insert is parked.
LEMMA ParkKeeps ==
    ASSUME LoopInv, NothingVanishes, Park
    PROVE  NothingVanishes'
<1>1. /\ UNCHANGED <<offered, dropped, queue, landed, abandoned, trouble>>
      /\ loop.pc = "park" /\ NextTable /\ loop.table \in Tables
      /\ Tables = 1..NumTables /\ NumTables \in Nat
      /\ ParkedNow.facts = Range(buf) /\ ParkedNow.table = loop.table
  BY ParkIs, TablesType DEF LoopInv, FactTypes, LoopTypes, ParkedNow
<1>2. trouble \cap {"park", "stop"} = {} => parked' = parked \cup {ParkedNow}
  BY ParkIs
<1>3. \A t : Landed(t)' = Landed(t) /\ Abandoned(t)' = Abandoned(t)
  BY <1>1 DEF Landed, Abandoned
<1>4. ASSUME NEW t \in Tables, parked' = parked \cup {ParkedNow}
      PROVE  Parked(t) \subseteq Parked(t)' /\ Buffered(t) \subseteq Buffered(t)' \cup Parked(t)'
  <2>1. Parked(t) \subseteq Parked(t)'
    BY <1>4 DEF Parked
  <2>2. loop.table = t => Range(buf) \subseteq Parked(t)'
    BY <1>1, <1>4 DEF Parked
  <2>3. Buffered(t)' = IF loop.table < t THEN Range(buf) ELSE {}
    BY <1>1, Onwards DEF LoopInv
  <2>4. Buffered(t) = IF loop.table <= t THEN Range(buf) ELSE {}
    BY <1>1 DEF Buffered
  <2>5. loop.table < t \/ loop.table = t \/ ~(loop.table <= t)
    BY <1>1
  <2>. QED BY <2>1, <2>2, <2>3, <2>4, <2>5
<1>. QED BY <1>1, <1>2, <1>3, <1>4, KeepsAll DEF Somewhere

\* A batch leaves when its facts are in the table, or when it is given up.
LEMMA ReplayKeeps ==
    ASSUME LoopInv, RetryOK, NothingVanishes, NEW r \in Replayers,
           ReplayList(r) \/ ReplayPost(r) \/ ReplayMark(r)
    PROVE  NothingVanishes'
<1>1. CASE ReplayList(r)
  <2>1. UNCHANGED <<offered, dropped, queue, buf, loop, parked, landed, abandoned, trouble>>
    BY <1>1, ListIs
  <2>. QED BY <2>1 DEF NothingVanishes, Buffered, Parked, Landed, Abandoned
<1>2. CASE ReplayPost(r)
  <2>1. /\ UNCHANGED <<offered, dropped, queue, buf, loop, parked, abandoned, trouble>>
        /\ replay[r].todo # <<>>
    BY <1>2 DEF ReplayPost, RetryOK, ReplaysOK, Lists
  <2>2. PICK ok \in BOOLEAN :
          Current(r) \in Batch /\ Insert(Current(r).table, Current(r).facts, ok)
    BY <1>2, <2>1, PostIs
  <2>3. PICK t \in Tables, fs \in SUBSET Facts : t = Current(r).table /\ fs = Current(r).facts
    BY <2>2 DEF Batch
  <2>4. Insert(t, fs, ok) /\ FactTypes
    BY <2>2, <2>3 DEF LoopInv
  <2>5. \A u \in Tables, f \in Facts : landed[u][f] > 0 => landed'[u][f] > 0
    BY <2>4, Insertion
  <2>6. \A u \in Tables : /\ Landed(u) \subseteq Landed(u)' /\ Buffered(u)' = Buffered(u)
                          /\ Parked(u)' = Parked(u) /\ Abandoned(u)' = Abandoned(u)
    BY <2>1, <2>5 DEF Landed, Buffered, Parked, Abandoned
  <2>. QED BY <2>1, <2>6, KeepsAll DEF Somewhere
<1>3. CASE ReplayMark(r)
  <2>1. /\ UNCHANGED <<offered, dropped, queue, buf, loop, landed, trouble>>
        /\ replay[r].todo # <<>> /\ replay[r].pc = "mark"
    BY <1>3 DEF ReplayMark, RetryOK, ReplaysOK, Lists
  <2>2. \A t \in Tables : Landed(t)' = Landed(t) /\ Buffered(t)' = Buffered(t)
    BY <2>1 DEF Landed, Buffered
  <2>3. ASSUME NEW t \in Tables
        PROVE  /\ Abandoned(t) \subseteq Abandoned(t)'
               /\ Parked(t) \subseteq Parked(t)' \cup Abandoned(t)' \cup Landed(t)
    <3>1. CASE parked' = parked /\ abandoned' = abandoned
      BY <3>1 DEF Parked, Abandoned
    <3>2. CASE replay[r].ok /\ parked' = parked \ Posted(r) /\ abandoned' = abandoned
      <4>1. In(Current(r).table, Current(r).facts)
        BY <2>1, <3>2 DEF RetryOK, ReplaysOK
      <4>2. replay[r].todo \in Seq(Batch) /\ Lists(replay[r].todo)
        BY <2>1, RetryTypes DEF RetryOK, ReplaysOK
      <4>3. \A b \in Posted(r) : b.table = Current(r).table /\ b.facts = Current(r).facts
        BY <2>1, <4>2, TodoIs DEF Posted, Current, Lists, Copies
      <4>4. \A b \in Posted(r) : b.facts \subseteq Facts
        BY RetryTypes DEF Posted
      <4>5. \A b \in Posted(r) : b.table = t => b.facts \subseteq Landed(t)
        BY <4>1, <4>3, <4>4 DEF Landed, In
      <4>. QED BY <3>2, <4>5 DEF Parked, Abandoned
    <3>3. ASSUME NEW b \in Posted(r), GivenUp(b)
          PROVE  /\ Abandoned(t) \subseteq Abandoned(t)'
                 /\ Parked(t) \subseteq Parked(t)' \cup Abandoned(t)'
      <4>1. b.facts \subseteq Facts
        BY RetryTypes DEF Posted
      <4>2. b.table = t => b.facts \subseteq Abandoned(t)'
        BY <3>3, <4>1 DEF GivenUp, Abandoned
      <4>. QED BY <3>3, <4>2 DEF GivenUp, Parked, Abandoned
    <3>4. ASSUME NEW b \in Posted(r), NEW c \in Batch, Retried(b, c)
          PROVE  Abandoned(t)' = Abandoned(t) /\ Parked(t) \subseteq Parked(t)'
      BY <3>4 DEF Retried, Parked, Abandoned
    <3>. QED BY <1>3, <2>1, <3>1, <3>2, <3>3, <3>4, MarkIs DEF Counts
  <2>. QED BY <2>1, <2>2, <2>3, KeepsAll DEF Somewhere
<1>. QED BY <1>1, <1>2, <1>3

-----------------------------------------------------------------------------
(***************************************************************************)
(* No fact is in two places                                                *)
(***************************************************************************)

\* No answer is lost, replays do not overlap and the database marks them.
NoRepeat == trouble \cap {"lost", "mark", "overlap"} = {}

\* A fact waits for table t in the queue or in the buffer.
Ahead(t) == Range(queue) \cup Buffered(t)

OneReplay == \A r, q \in Replayers : replay[r].pc # "free" /\ replay[q].pc # "free" => r = q

\* The queue has a fact once, and the buffer holds others.
QueuedOnce ==
    /\ \A i, j \in 1..Len(queue) : queue[i] = queue[j] => i = j
    /\ Range(queue) \cup Range(buf) \subseteq offered
    /\ Range(queue) \cap Range(buf) = {}

ParkedOnce ==
    /\ \A b \in parked : b.facts \subseteq offered /\ b.facts \cap Ahead(b.table) = {}
    /\ \A b, c \in parked : b.table = c.table /\ b # c => b.facts \cap c.facts = {}

TableOnce ==
    \A t \in Tables, f \in Facts :
        /\ landed[t][f] <= 1
        /\ landed[t][f] > 0 => f \in offered /\ f \notin Ahead(t)

\* The batch of a replay that is about to remove it.
Removes(r, b) == replay[r].pc = "mark" /\ replay[r].ok /\ Current(r).id = b.id

\* A batch whose facts are in the table is about to be removed.
ParkedOrIn ==
    \A b \in parked : \A f \in b.facts :
        landed[b.table][f] > 0 => \E r \in Replayers : Removes(r, b)

\* The batches that a replay still has to post are parked, each listed once.
ToPost(todo) ==
    /\ \A i \in 1..Len(todo) : \E b \in parked : b.id = todo[i].id
    /\ \A i, j \in 1..Len(todo) : i < j => todo[i].id < todo[j].id

ListedOnce == \A r \in Replayers : replay[r].pc # "free" => ToPost(replay[r].todo)

Alone == OneReplay /\ QueuedOnce /\ ParkedOnce /\ TableOnce /\ ParkedOrIn /\ ListedOnce

\* Initially.
LEMMA AloneStarts == Init => Alone
<1>. SUFFICES ASSUME Init PROVE Alone
  OBVIOUS
<1>1. /\ queue = <<>> /\ buf = <<>> /\ parked = {} /\ offered = {}
      /\ \A r \in Replayers : replay[r] = NotReplaying
      /\ \A t \in Tables, f \in Facts : landed[t][f] = 0
  BY DEF Init
<1>2. Range(queue) = {} /\ Range(buf) = {} /\ Len(queue) = 0
  BY <1>1, NothingBuffered
<1>3. \A r \in Replayers : replay[r].pc = "free"
  BY <1>1 DEF NotReplaying
<1>4. OneReplay /\ ListedOnce
  BY <1>3 DEF OneReplay, ListedOnce
<1>5. QueuedOnce
  BY <1>2 DEF QueuedOnce
<1>6. ParkedOnce /\ ParkedOrIn
  BY <1>1 DEF ParkedOnce, ParkedOrIn
<1>7. TableOnce
  BY <1>1 DEF TableOnce
<1>. QED BY <1>4, <1>5, <1>6, <1>7 DEF Alone

\* What is ahead, in types.
LEMMA AheadTypes ==
    ASSUME LoopInv
    PROVE  /\ Range(queue) \subseteq Facts /\ Range(buf) \subseteq Facts
           /\ \A t : Buffered(t) \subseteq Range(buf)
           /\ \A t \in Tables, f \in Facts : landed[t][f] \in 0..2
           /\ parked \subseteq Batch
           /\ \A b \in Batch : b.table \in Tables /\ b.facts \subseteq Facts
<1>1. queue \in Seq(Facts) /\ buf \in Seq(Facts) /\ landed \in [Tables -> [Facts -> 0..2]]
  BY DEF LoopInv, FactTypes
<1>2. Range(queue) \subseteq Facts /\ Range(buf) \subseteq Facts
  BY <1>1, FactsOf
<1>3. \A t : Buffered(t) \subseteq Range(buf)
  BY DEF Buffered
<1>4. \A t \in Tables, f \in Facts : landed[t][f] \in 0..2
  BY <1>1
<1>. QED BY <1>2, <1>3, <1>4, RetryTypes

\* A fact that is offered is nowhere yet.
LEMMA EnqueueAlone ==
    ASSUME LoopInv, Alone, NEW f \in Facts, Enqueue(f)
    PROVE  Alone'
<1>1. /\ UNCHANGED <<buf, loop, parked, replay, landed>>
      /\ f \notin offered /\ offered' = offered \cup {f} /\ queue \in Seq(Facts)
  BY DEF Enqueue, LoopInv, FactTypes
<1>2. /\ Range(queue') \subseteq Range(queue) \cup {f}
      /\ \A i, j \in 1..Len(queue') : queue'[i] = queue'[j] => i = j
  <2>1. CASE Len(queue) < QueueCap
    <3>1. queue' = Append(queue, f)
      BY <2>1 DEF Enqueue
    <3>2. Range(queue') = Range(queue) \cup {f}
      BY <1>1, <3>1, TailGrows
    <3>3. /\ Len(queue') = Len(queue) + 1 /\ queue'[Len(queue) + 1] = f
          /\ \A i \in 1..Len(queue) : queue'[i] = queue[i]
      BY <1>1, <3>1, AppendProperties
    <3>4. \A i \in 1..Len(queue) : queue[i] # f
      BY <1>1, FactsOf DEF Alone, QueuedOnce
    <3>5. Len(queue) \in Nat
      BY <1>1, LenProperties
    <3>. QED BY <3>2, <3>3, <3>4, <3>5 DEF Alone, QueuedOnce
  <2>2. CASE ~(Len(queue) < QueueCap)
    BY <2>2 DEF Enqueue, Alone, QueuedOnce
  <2>. QED BY <2>1, <2>2
<1>3. \A t : Buffered(t)' = Buffered(t) /\ Ahead(t)' \subseteq Ahead(t) \cup {f}
  BY <1>1, <1>2 DEF Buffered, Ahead
<1>4. OneReplay' /\ ParkedOrIn' /\ ListedOnce'
  BY <1>1 DEF Alone, OneReplay, ParkedOrIn, Removes, Current, ListedOnce, ToPost
<1>5. QueuedOnce'
  BY <1>1, <1>2 DEF Alone, QueuedOnce
<1>6. ParkedOnce'
  BY <1>1, <1>3 DEF Alone, ParkedOnce
<1>7. TableOnce'
  BY <1>1, <1>3 DEF Alone, TableOnce
<1>. QED BY <1>4, <1>5, <1>6, <1>7 DEF Alone

\* A fact leaves the queue for the buffer.
LEMMA TakeAlone ==
    ASSUME LoopInv, Alone, Take \/ FlushTimer \/ Stop \/ End
    PROVE  Alone'
<1>1. UNCHANGED <<offered, parked, replay, landed>>
  BY DEF Take, FlushTimer, Stop, End
<1>2. /\ QueuedOnce'
      /\ Range(queue') \cup Range(buf') = Range(queue) \cup Range(buf)
      /\ Stop => Range(buf') = Range(buf) /\ Range(queue') = Range(queue)
  <2>1. CASE Take
    <3>1. /\ queue \in Seq(Facts) /\ queue # <<>> /\ buf \in Seq(Facts)
          /\ queue' = Tail(queue) /\ buf' = Append(buf, Head(queue))
      BY <2>1 DEF Take, LoopInv, FactTypes
    <3>2. /\ Range(queue) = Range(queue') \cup {Head(queue)} /\ Head(queue) \in Facts
          /\ Range(buf') = Range(buf) \cup {Head(queue)}
          /\ Tail(queue) \in Seq(Facts) /\ Len(Tail(queue)) = Len(queue) - 1
      BY <3>1, HeadLeaves, TailGrows
    <3>3. /\ Len(queue) \in Nat \ {0} /\ Head(queue) = queue[1]
          /\ \A i \in 1..(Len(queue) - 1) : queue'[i] = queue[i + 1]
      BY <3>1, LenProperties, EmptySeq, HeadTailProperties
    <3>4. \A i, j \in 1..Len(queue) : queue[i] = queue[j] => i = j
      BY DEF Alone, QueuedOnce
    <3>5. \A i, j \in 1..Len(queue') : queue'[i] = queue'[j] => i = j
      BY <3>1, <3>2, <3>3, <3>4
    <3>6. \A i \in 1..Len(queue') : queue'[i] # Head(queue)
      BY <3>1, <3>2, <3>3, <3>4
    <3>7. Range(queue') = {queue'[i] : i \in 1..Len(queue')}
      BY <3>1, <3>2, FactsOf
    <3>8. Head(queue) \notin Range(queue')
      BY <3>6, <3>7
    <3>9. ~Stop
      <4>1. Range(queue') # Range(queue)
        BY <3>2, <3>8
      <4>. QED BY <4>1 DEF Stop
    <3>. QED BY <1>1, <3>2, <3>5, <3>8, <3>9 DEF Alone, QueuedOnce
  <2>2. CASE FlushTimer \/ Stop \/ End
    BY <1>1, <2>2 DEF FlushTimer, Stop, End, Alone, QueuedOnce
  <2>. QED BY <2>1, <2>2
<1>3. \A t \in Tables : Ahead(t)' = Ahead(t)
  BY <1>2, ToCome DEF Ahead
<1>4. OneReplay' /\ ParkedOrIn' /\ ListedOnce'
  BY <1>1 DEF Alone, OneReplay, ParkedOrIn, Removes, Current, ListedOnce, ToPost
<1>5. ParkedOnce'
  BY <1>1, <1>3, AheadTypes DEF Alone, ParkedOnce
<1>6. TableOnce'
  BY <1>1, <1>3 DEF Alone, TableOnce
<1>. QED BY <1>2, <1>4, <1>5, <1>6 DEF Alone

\* What an insertion does whose caller hears the truth.
Lands(t, fs, ok) ==
    /\ ~ok => landed' = landed
    /\ \A u \in Tables, f \in Facts :
         landed'[u][f] = landed[u][f] \/ (ok /\ u = t /\ f \in fs)
    /\ \A f \in fs : landed[t][f] = 0 => landed'[t][f] <= 1

\* Without lost answers an insertion lands just when the caller hears so.
LEMMA Landing ==
    ASSUME LoopInv, NoRepeat, NEW t \in Tables, NEW fs \in SUBSET Facts, NEW ok \in BOOLEAN,
           Insert(t, fs, ok)
    PROVE  Lands(t, fs, ok)
<1>1. landed \in [Tables -> [Facts -> 0..2]]
  BY DEF LoopInv, FactTypes
<1>2. (ok /\ Land(t, fs)) \/ (~ok /\ landed' = landed)
  BY DEF Insert, Trouble, NoRepeat
<1>3. CASE ok /\ Land(t, fs)
  <2>. DEFINE row == [f \in Facts |-> IF f \in fs /\ landed[t][f] < 2
                                      THEN landed[t][f] + 1 ELSE landed[t][f]]
  <2>1. landed' = [landed EXCEPT ![t] = row]
    BY <1>3 DEF Land
  <2>2. /\ \A f \in Facts \ fs : row[f] = landed[t][f]
        /\ \A f \in fs : landed[t][f] = 0 => row[f] <= 1
    BY <1>1
  <2>. HIDE DEF row
  <2>3. landed'[t] = row /\ \A u \in Tables : u # t => landed'[u] = landed[u]
    BY <1>1, <2>1
  <2>. QED BY <1>3, <2>2, <2>3 DEF Lands
<1>4. CASE ~ok /\ landed' = landed
  BY <1>4 DEF Lands
<1>. QED BY <1>2, <1>3, <1>4

\* From the buffer into a table.
LEMMA SinkAlone ==
    ASSUME LoopInv, NoRepeat, Alone, SinkTable
    PROVE  Alone'
<1>1. /\ UNCHANGED <<offered, queue, parked, replay>>
      /\ loop.pc = "insert" /\ loop.table \in Tables /\ Range(buf) \in SUBSET Facts
      /\ Tables = 1..NumTables /\ NumTables \in Nat /\ LoopTypes
  BY TablesType, FactsOf DEF SinkTable, LoopInv, FactTypes, LoopTypes
<1>2. PICK ok \in BOOLEAN :
        /\ IF spent.stopping THEN ~ok /\ UNCHANGED <<landed, spent>>
                             ELSE Insert(loop.table, Range(buf), ok)
        /\ IF ok THEN NextTable ELSE loop' = [loop EXCEPT !.pc = "park"] /\ UNCHANGED buf
  BY DEF SinkTable
<1>3. /\ ~ok => landed' = landed
      /\ \A u \in Tables, f \in Facts :
           landed'[u][f] = landed[u][f] \/ (ok /\ u = loop.table /\ f \in Range(buf))
      /\ \A f \in Range(buf) : landed[loop.table][f] = 0 => landed'[loop.table][f] <= 1
  <2>1. CASE spent.stopping
    BY <1>2, <2>1
  <2>2. CASE ~spent.stopping
    <3>1. PICK t \in Tables, fs \in SUBSET Facts : t = loop.table /\ fs = Range(buf)
      BY <1>1
    <3>2. Insert(t, fs, ok)
      BY <1>2, <2>2, <3>1
    <3>3. Lands(t, fs, ok)
      BY <3>2, Landing
    <3>. QED BY <3>1, <3>3 DEF Lands
  <2>. QED BY <2>1, <2>2
<1>4. \A t \in Tables : Buffered(t) = IF loop.table <= t THEN Range(buf) ELSE {}
  BY <1>1 DEF Buffered
<1>5. /\ Range(buf') \subseteq Range(buf)
      /\ \A t \in Tables : /\ Buffered(t)' \subseteq Buffered(t)
                           /\ ok => Buffered(t)' = IF loop.table < t THEN Range(buf) ELSE {}
  <2>1. CASE ok
    <3>1. NextTable /\ (buf' = buf \/ buf' = <<>>)
      BY <1>2, <2>1 DEF NextTable
    <3>2. Range(buf') \subseteq Range(buf)
      BY <3>1, NothingBuffered
    <3>3. \A t \in Tables : Buffered(t)' = IF loop.table < t THEN Range(buf) ELSE {}
      BY <3>1, Onwards DEF LoopInv
    <3>4. \A t \in Tables : loop.table < t => loop.table <= t
      BY <1>1
    <3>. QED BY <1>4, <3>2, <3>3, <3>4
  <2>2. CASE ~ok
    <3>1. loop' = [loop EXCEPT !.pc = "park"] /\ buf' = buf
      BY <1>2, <2>2
    <3>2. loop'.pc = "park" /\ loop'.table = loop.table
      BY <1>1, <3>1 DEF LoopTypes
    <3>. QED BY <1>1, <2>2, <3>1, <3>2 DEF Buffered
  <2>. QED BY <2>1, <2>2
<1>6. \A t \in Tables : Ahead(t)' \subseteq Ahead(t)
  BY <1>1, <1>5 DEF Ahead
<1>7. OneReplay' /\ ListedOnce' /\ QueuedOnce'
  BY <1>1, <1>5 DEF Alone, OneReplay, ListedOnce, ToPost, QueuedOnce
<1>8. ParkedOnce'
  BY <1>1, <1>6, AheadTypes DEF Alone, ParkedOnce
<1>9. TableOnce'
  <2>. SUFFICES ASSUME NEW t \in Tables, NEW f \in Facts
                PROVE  /\ landed'[t][f] <= 1
                       /\ landed'[t][f] > 0 => f \in offered' /\ f \notin Ahead(t)'
    BY DEF TableOnce
  <2>1. /\ landed[t][f] <= 1 /\ landed[t][f] \in 0..2
        /\ landed[t][f] > 0 => f \in offered /\ f \notin Ahead(t)
    BY AheadTypes DEF Alone, TableOnce
  <2>2. CASE landed'[t][f] = landed[t][f]
    BY <1>1, <1>6, <2>1, <2>2
  <2>3. CASE ok /\ t = loop.table /\ f \in Range(buf)
    <3>1. f \in Ahead(t) /\ f \notin Range(queue) /\ f \in offered
      BY <1>1, <1>4, <2>3 DEF Ahead, Alone, QueuedOnce
    <3>2. landed[t][f] = 0
      BY <2>1, <3>1
    <3>3. Buffered(t)' = {}
      BY <1>1, <1>5, <2>3
    <3>. QED BY <1>1, <1>3, <2>3, <3>1, <3>2, <3>3 DEF Ahead
  <2>. QED BY <1>3, <2>2, <2>3
<1>10. ParkedOrIn'
  <2>. SUFFICES ASSUME NEW b \in parked, NEW f \in b.facts, landed'[b.table][f] > 0
                PROVE  \E r \in Replayers : Removes(r, b)
    BY <1>1 DEF ParkedOrIn, Removes, Current
  <2>1. b.table \in Tables /\ f \in Facts
    BY AheadTypes
  <2>2. CASE landed'[b.table][f] = landed[b.table][f]
    BY <2>2 DEF Alone, ParkedOrIn
  <2>3. CASE b.table = loop.table /\ f \in Range(buf)
    BY <1>1, <1>4, <2>1, <2>3 DEF Alone, ParkedOnce, Ahead
  <2>. QED BY <1>3, <2>1, <2>2, <2>3
<1>. QED BY <1>7, <1>8, <1>9, <1>10 DEF Alone

\* From the buffer into a batch.
LEMMA ParkAlone ==
    ASSUME LoopInv, BatchesOK, Alone, Park
    PROVE  Alone'
<1>1. /\ UNCHANGED <<offered, queue, replay, landed>>
      /\ loop.pc = "park" /\ NextTable /\ loop.table \in Tables
      /\ Tables = 1..NumTables /\ NumTables \in Nat
      /\ ParkedNow.facts = Range(buf) /\ ParkedNow.table = loop.table
      /\ ParkedNow.id = spent.batches + 1
      /\ parked' = parked \cup {ParkedNow} \/ parked' = parked
  BY ParkIs, TablesType DEF LoopInv, FactTypes, LoopTypes, ParkedNow
<1>2. /\ Range(buf') \subseteq Range(buf)
      /\ \A t \in Tables : /\ Buffered(t) = IF loop.table <= t THEN Range(buf) ELSE {}
                           /\ Buffered(t)' = IF loop.table < t THEN Range(buf) ELSE {}
  <2>1. buf' = buf \/ buf' = <<>>
    BY <1>1 DEF NextTable
  <2>2. \A t \in Tables : Buffered(t)' = IF loop.table < t THEN Range(buf) ELSE {}
    BY <1>1, Onwards DEF LoopInv
  <2>3. \A t \in Tables : Buffered(t) = IF loop.table <= t THEN Range(buf) ELSE {}
    BY <1>1 DEF Buffered
  <2>. QED BY <2>1, <2>2, <2>3, NothingBuffered
<1>3. \A t \in Tables : Ahead(t)' \subseteq Ahead(t)
  <2>1. \A t \in Tables : loop.table < t => loop.table <= t
    BY <1>1
  <2>. QED BY <1>1, <1>2, <2>1 DEF Ahead
<1>4. OneReplay' /\ QueuedOnce'
  BY <1>1, <1>2 DEF Alone, OneReplay, QueuedOnce
<1>5. ListedOnce'
  BY <1>1 DEF Alone, ListedOnce, ToPost
<1>6. ParkedOnce'
  <2>1. \A b \in parked : b.facts \subseteq offered /\ b.facts \cap Ahead(b.table)' = {}
    BY <1>3, AheadTypes DEF Alone, ParkedOnce
  <2>0. PICK t \in Tables : t = loop.table
    BY <1>1
  <2>9. PICK new : new = ParkedNow /\ new.table = t /\ new.facts = Range(buf)
    BY <1>1, <2>0
  <2>2. new.facts \subseteq offered /\ new.facts \cap Ahead(t)' = {}
    <3>1. Buffered(t)' = {}
      BY <1>1, <1>2, <2>0
    <3>2. Range(buf) \subseteq offered /\ Range(buf) \cap Range(queue') = {}
      BY <1>1 DEF Alone, QueuedOnce
    <3>. QED BY <2>0, <2>9, <3>1, <3>2 DEF Ahead
  <2>3. \A b \in parked : b.table = ParkedNow.table => b.facts \cap ParkedNow.facts = {}
    <3>1. Range(buf) \subseteq Ahead(loop.table)
      BY <1>1, <1>2 DEF Ahead
    <3>. QED BY <1>1, <3>1 DEF Alone, ParkedOnce
  <2>4. \A b, c \in parked : b.table = c.table /\ b # c => b.facts \cap c.facts = {}
    BY DEF Alone, ParkedOnce
  <2>5. ASSUME NEW b \in parked'
        PROVE  b.facts \subseteq offered' /\ b.facts \cap Ahead(b.table)' = {}
    <3>1. CASE b \in parked
      BY <1>1, <2>1, <3>1
    <3>2. CASE b = new
      BY <1>1, <2>0, <2>9, <2>2, <3>2
    <3>. QED BY <1>1, <2>9, <3>1, <3>2
  <2>6. ASSUME NEW b \in parked', NEW c \in parked', b.table = c.table, b # c
        PROVE  b.facts \cap c.facts = {}
    BY <1>1, <2>3, <2>4, <2>6
  <2>. QED BY <2>5, <2>6 DEF ParkedOnce
<1>7. TableOnce'
  BY <1>1, <1>3 DEF Alone, TableOnce
<1>8. ParkedOrIn'
  <2>1. ASSUME NEW f \in ParkedNow.facts, landed[ParkedNow.table][f] > 0
        PROVE  FALSE
    <3>1. f \in Ahead(loop.table) /\ f \in Facts
      BY <1>1, <1>2, AheadTypes DEF Ahead
    <3>. QED BY <1>1, <2>1, <3>1 DEF Alone, TableOnce
  <2>. QED BY <1>1, <2>1 DEF Alone, ParkedOrIn, Removes, Current
<1>. QED BY <1>4, <1>5, <1>6, <1>7, <1>8 DEF Alone

\* Listing begins when nothing is under way, so nothing parked is in a table.
LEMMA ListAlone ==
    ASSUME LoopInv, NoRepeat, Alone, NEW r \in Replayers, ReplayList(r)
    PROVE  Alone'
<1>1. /\ \A q \in Replayers : replay[q].pc = "free"
      /\ UNCHANGED <<offered, queue, buf, loop, parked, landed>>
  BY ListIs DEF NoRepeat
<1>2. PICK todo \in Seq(Batch), now1 \in Replaying :
        /\ \A i \in 1..Len(todo) : todo[i] \in parked
        /\ \A i, j \in 1..Len(todo) : i < j => todo[i].id < todo[j].id
        /\ replay' = [replay EXCEPT ![r] = now1]
        /\ now1.pc = "post" /\ now1.todo = todo
  BY ListIs
<1>3. /\ replay'[r] = now1 /\ \A q \in Replayers : q # r => replay'[q].pc = "free"
  BY <1>1, <1>2, RetryTypes
<1>4. OneReplay'
  BY <1>3 DEF OneReplay
<1>5. QueuedOnce' /\ ParkedOnce' /\ TableOnce'
  BY <1>1 DEF Alone, QueuedOnce, ParkedOnce, TableOnce, Ahead, Buffered
<1>6. ParkedOrIn'
  BY <1>1 DEF Alone, ParkedOrIn, Removes
<1>7. ListedOnce'
  BY <1>1, <1>2, <1>3 DEF ListedOnce, ToPost
<1>. QED BY <1>4, <1>5, <1>6, <1>7 DEF Alone

\* From a batch into its table: the replay is the only one and removes it.
LEMMA PostAlone ==
    ASSUME LoopInv, RetryOK, NoRepeat, Alone, NEW r \in Replayers, ReplayPost(r)
    PROVE  Alone'
<1>0. replay[r].todo \in Seq(Batch) /\ Lists(replay[r].todo) /\ replay[r].todo # <<>>
  BY RetryTypes DEF RetryOK, ReplaysOK, Lists, ReplayPost
<1>1. PICK ok \in BOOLEAN, now1 \in Replaying :
        /\ replay[r].pc = "post" /\ Current(r) \in Batch
        /\ Insert(Current(r).table, Current(r).facts, ok)
        /\ replay' = [replay EXCEPT ![r] = now1]
        /\ now1.pc = "mark" /\ now1.ok = ok /\ now1.todo = replay[r].todo
        /\ UNCHANGED <<offered, queue, buf, loop, parked>>
  BY <1>0, PostIs
<1>2. /\ replay'[r] = now1 /\ \A q \in Replayers : q # r => replay'[q] = replay[q]
  BY <1>1, RetryTypes
<1>3. \A q \in Replayers : q # r => replay[q].pc = "free"
  BY <1>1 DEF Alone, OneReplay
<1>4. PICK t \in Tables, fs \in SUBSET Facts : t = Current(r).table /\ fs = Current(r).facts
  BY <1>1 DEF Batch
<1>5. PICK b0 \in parked : b0.id = Current(r).id /\ b0.table = t /\ b0.facts = fs
  <2>1. ToPost(replay[r].todo)
    BY <1>1 DEF Alone, ListedOnce
  <2>2. PICK b0 \in parked : b0.id = Current(r).id
    BY <1>0, <2>1, TodoIs DEF ToPost, Current
  <2>3. Copies(Current(r), b0)
    BY <1>0, TodoIs DEF Lists, Current
  <2>. QED BY <1>4, <2>2, <2>3 DEF Copies
<1>6. \A f \in fs : landed[t][f] = 0 /\ f \in offered /\ f \notin Ahead(t)
  <2>. TAKE f \in fs
  <2>1. ~(landed[t][f] > 0)
    BY <1>1, <1>3, <1>5 DEF Alone, ParkedOrIn, Removes
  <2>2. landed[t][f] \in 0..2
    BY AheadTypes
  <2>. QED BY <1>5, <2>1, <2>2 DEF Alone, ParkedOnce
<1>7. Insert(t, fs, ok)
  BY <1>1, <1>4
<1>8. Lands(t, fs, ok)
  BY <1>7, Landing
<1>9. \A f \in fs : landed'[t][f] <= 1
  BY <1>6, <1>8 DEF Lands
<1>10. OneReplay'
  BY <1>2, <1>3 DEF OneReplay
<1>11. QueuedOnce' /\ ParkedOnce' /\ \A u : Ahead(u)' = Ahead(u)
  BY <1>1 DEF Alone, QueuedOnce, ParkedOnce, Ahead, Buffered
<1>12. TableOnce'
  <2>. SUFFICES ASSUME NEW u \in Tables, NEW f \in Facts
                PROVE  /\ landed'[u][f] <= 1
                       /\ landed'[u][f] > 0 => f \in offered' /\ f \notin Ahead(u)'
    BY DEF TableOnce
  <2>1. CASE landed'[u][f] = landed[u][f]
    BY <1>1, <1>11, <2>1 DEF Alone, TableOnce
  <2>2. CASE ok /\ u = t /\ f \in fs
    BY <1>1, <1>6, <1>9, <1>11, <2>2
  <2>. QED BY <1>8, <2>1, <2>2 DEF Lands
<1>13. ParkedOrIn'
  <2>. SUFFICES ASSUME NEW b \in parked, NEW f \in b.facts, landed'[b.table][f] > 0
                PROVE  Removes(r, b)'
    BY <1>1 DEF ParkedOrIn
  <2>1. b.table \in Tables /\ f \in Facts
    BY AheadTypes
  <2>2. landed'[b.table][f] # landed[b.table][f]
    BY <1>1, <1>3 DEF Alone, ParkedOrIn, Removes
  <2>3. ok /\ b.table = t /\ f \in fs
    BY <1>8, <2>1, <2>2 DEF Lands
  <2>4. b = b0
    BY <1>5, <2>3 DEF Alone, ParkedOnce
  <2>. QED BY <1>1, <1>2, <1>5, <2>3, <2>4 DEF Removes, Current
<1>14. ListedOnce'
  BY <1>1, <1>2, <1>3 DEF Alone, ListedOnce, ToPost
<1>. QED BY <1>10, <1>11, <1>12, <1>13, <1>14 DEF Alone

\* What was inserted is removed, what failed is counted.
LEMMA MarkAlone ==
    ASSUME LoopInv, RetryOK, NoRepeat, Alone, NEW r \in Replayers, ReplayMark(r)
    PROVE  Alone'
<1>0. replay[r].todo \in Seq(Batch) /\ Lists(replay[r].todo) /\ replay[r].todo # <<>>
  BY RetryTypes DEF RetryOK, ReplaysOK, Lists, ReplayMark
<1>1. PICK now1 \in Replaying :
        /\ replay' = [replay EXCEPT ![r] = now1]
        /\ \/ now1.pc = "free"
           \/ now1.pc = "post" /\ now1.todo = Tail(replay[r].todo) /\ now1.todo # <<>>
  BY <1>0, MarkIs
<1>2. /\ replay[r].pc = "mark"
      /\ UNCHANGED <<offered, queue, buf, loop, landed>>
  BY <1>0, MarkIs
<1>3. /\ replay'[r] = now1 /\ \A q \in Replayers : q # r => replay'[q] = replay[q]
  BY <1>1, RetryTypes
<1>4. \A q \in Replayers : q # r => replay[q].pc = "free"
  BY <1>2 DEF Alone, OneReplay
<1>5. \/ replay[r].ok /\ parked' = parked \ Posted(r)
      \/ Posted(r) = {} /\ parked' = parked
      \/ ~replay[r].ok /\ \E b \in Posted(r) : GivenUp(b)
      \/ ~replay[r].ok /\ \E b \in Posted(r), c \in Batch : Retried(b, c)
  BY <1>0, MarkIs DEF NoRepeat, Counts
<1>6. \A c \in parked' : \E b \in parked : c.id = b.id /\ c.table = b.table /\ c.facts = b.facts
  BY <1>5 DEF GivenUp, Retried, Posted
<1>7. \A b \in parked : b.id # Current(r).id => b \in parked'
  BY <1>5 DEF GivenUp, Retried, Posted
<1>8. \A b, c \in parked' : b.id = c.id => b = c
  BY RetryMark DEF RetryOK, BatchesOK
<1>9. OneReplay'
  BY <1>3, <1>4 DEF OneReplay
<1>10. QueuedOnce' /\ TableOnce' /\ \A t : Ahead(t)' = Ahead(t)
  BY <1>2 DEF Alone, QueuedOnce, TableOnce, Ahead, Buffered
<1>11. ParkedOnce'
  <2>1. ASSUME NEW c \in parked'
        PROVE  c.facts \subseteq offered' /\ c.facts \cap Ahead(c.table)' = {}
    BY <1>2, <1>6, <1>10 DEF Alone, ParkedOnce
  <2>2. ASSUME NEW c \in parked', NEW d \in parked', c.table = d.table, c # d
        PROVE  c.facts \cap d.facts = {}
    <3>1. PICK b \in parked : c.id = b.id /\ c.table = b.table /\ c.facts = b.facts
      BY <1>6
    <3>2. PICK e \in parked : d.id = e.id /\ d.table = e.table /\ d.facts = e.facts
      BY <1>6
    <3>3. b # e
      BY <1>8, <2>2, <3>1, <3>2
    <3>. QED BY <2>2, <3>1, <3>2, <3>3 DEF Alone, ParkedOnce
  <2>. QED BY <2>1, <2>2 DEF ParkedOnce
<1>12. ParkedOrIn'
  <2>. SUFFICES ASSUME NEW c \in parked', NEW f \in c.facts, landed[c.table][f] > 0
                PROVE  FALSE
    BY <1>2 DEF ParkedOrIn
  <2>1. PICK b \in parked : c.id = b.id /\ c.table = b.table /\ c.facts = b.facts
    BY <1>6
  <2>2. PICK q \in Replayers : Removes(q, b)
    BY <2>1 DEF Alone, ParkedOrIn
  <2>3. replay[r].ok /\ b \in Posted(r)
    BY <1>4, <2>1, <2>2 DEF Removes, Posted
  <2>4. parked' = parked \ Posted(r)
    BY <1>5, <2>3
  <2>. QED BY <2>1, <2>3, <2>4 DEF Posted
<1>13. ListedOnce'
  <2>. SUFFICES ASSUME now1.pc # "free" PROVE ToPost(now1.todo)'
    BY <1>3, <1>4 DEF ListedOnce, ToPost
  <2>. DEFINE todo == replay[r].todo
  <2>1. now1.todo = Tail(todo)
    BY <1>1
  <2>2. ToPost(todo)
    BY <1>2 DEF Alone, ListedOnce
  <2>3. /\ Current(r) = todo[1] /\ Len(todo) \in Nat \ {0} /\ 1 \in 1..Len(todo)
        /\ Len(Tail(todo)) = Len(todo) - 1
        /\ \A i \in 1..Len(Tail(todo)) : i + 1 \in 1..Len(todo) /\ Tail(todo)[i] = todo[i + 1]
    BY <1>0, TodoIs DEF Current
  <2>4. /\ \A i \in 1..Len(todo) : \E b \in parked : b.id = todo[i].id
        /\ \A i, j \in 1..Len(todo) : i < j => todo[i].id < todo[j].id
    BY <2>2 DEF ToPost
  <2>. HIDE DEF todo
  <2>5. \A i \in 1..Len(Tail(todo)) : \E b \in parked' : b.id = Tail(todo)[i].id
    <3>. TAKE i \in 1..Len(Tail(todo))
    <3>1. i + 1 \in 1..Len(todo) /\ 1 < i + 1 /\ Tail(todo)[i] = todo[i + 1]
      BY <2>3
    <3>2. todo[1].id < todo[i + 1].id
      BY <2>3, <2>4, <3>1
    <3>3. PICK b \in parked : b.id = todo[i + 1].id
      BY <2>4, <3>1
    <3>4. b.id \in Nat /\ todo[1].id \in Nat
      BY <1>0, <2>3, RetryTypes, TodoIs DEF todo
    <3>. QED BY <1>7, <2>3, <3>1, <3>2, <3>3, <3>4
  <2>6. \A i, j \in 1..Len(Tail(todo)) : i < j => Tail(todo)[i].id < Tail(todo)[j].id
    BY <2>3, <2>4
  <2>. QED BY <2>1, <2>5, <2>6 DEF ToPost
<1>. QED BY <1>9, <1>10, <1>11, <1>12, <1>13 DEF Alone

-----------------------------------------------------------------------------
(***************************************************************************)
(* The inductive invariant and what follows from it                        *)
(***************************************************************************)
FactIInv == LoopInv /\ RetryOK /\ NothingVanishes /\ (NoRepeat => Alone)

\* Initially nothing is parked, given up or replayed.
LEMMA FactStarts == Init => FactIInv
<1>. SUFFICES ASSUME Init PROVE FactIInv
  OBVIOUS
<1>1. LoopInv /\ Alone
  BY LoopStarts, AloneStarts
<1>2. /\ parked = {} /\ offered = {} /\ abandoned = {}
      /\ \A r \in Replayers : replay[r].pc = "free"
  BY DEF Init, NotReplaying
<1>3. RetryOK
  BY <1>2 DEF RetryOK, BatchesOK, ReplaysOK, AttemptsOK, OnlyRefusedAbandoned
<1>4. NothingVanishes
  BY <1>2 DEF NothingVanishes
<1>. QED BY <1>1, <1>3, <1>4 DEF FactIInv

\* Every step of the queue, the loop and the replays keeps it.
LEMMA FactSteps == FactIInv /\ [Next]_vars => FactIInv'
<1>. SUFFICES ASSUME FactIInv, [Next]_vars PROVE FactIInv'
  OBVIOUS
<1>1. LoopInv /\ RetryOK /\ NothingVanishes /\ ReplaysOK /\ BatchesOK
  BY DEF FactIInv, RetryOK
<1>2. CASE UNCHANGED vars
  <2>1. LoopInv' /\ NothingVanishes'
    BY <1>1, <1>2 DEF vars, LoopInv, FactTypes, LoopTypes, LoopOK,
                      NothingVanishes, Buffered, Parked, Landed, Abandoned
  <2>2. RetryOK'
    BY <1>1, <1>2 DEF vars, RetryOK, BatchesOK, ReplaysOK, Lists, Copies, In, Current,
                      AttemptsOK, Failing, OnlyRefusedAbandoned
  <2>3. NoRepeat' => Alone'
    BY <1>2 DEF vars, FactIInv, NoRepeat, Alone, OneReplay, QueuedOnce, ParkedOnce, TableOnce,
                ParkedOrIn, ListedOnce, ToPost, Removes, Current, Ahead, Buffered
  <2>. QED BY <2>1, <2>2, <2>3 DEF FactIInv
<1>3. trouble' = trouble
  BY <1>2 DEF Next, vars, Enqueue, Take, FlushTimer, Stop, SinkTable, Park, End,
              ReplayList, ReplayPost, ReplayMark
<1>4. SUFFICES ASSUME Next
               PROVE  LoopInv' /\ RetryOK' /\ NothingVanishes' /\ (NoRepeat => Alone')
  BY <1>2, <1>3 DEF FactIInv, NoRepeat
<1>5. NoRepeat => Alone
  BY DEF FactIInv
<1>6. ASSUME NEW f \in Facts, Enqueue(f)
      PROVE  LoopInv' /\ RetryOK' /\ NothingVanishes' /\ (NoRepeat => Alone')
  <2>1. LoopInv' /\ NothingVanishes' /\ (NoRepeat => Alone')
    BY <1>1, <1>5, <1>6, EnqueueLoop, EnqueueKeeps, EnqueueAlone
  <2>2. RetryOK'
    BY <1>1, <1>6, <2>1, RetryLoop
  <2>. QED BY <2>1, <2>2
<1>7. CASE Take \/ FlushTimer \/ Stop \/ End
  <2>1. LoopInv'
    BY <1>1, <1>7, TakeLoop, TurnLoop
  <2>2. NothingVanishes' /\ (NoRepeat => Alone')
    BY <1>1, <1>5, <1>7, TakeKeeps, TakeAlone
  <2>. QED BY <1>1, <1>7, <2>1, <2>2, RetryLoop
<1>8. CASE SinkTable
  <2>1. LoopInv' /\ NothingVanishes' /\ (NoRepeat => Alone')
    BY <1>1, <1>5, <1>8, SinkLoop, SinkKeeps, SinkAlone
  <2>. QED BY <1>1, <1>8, <2>1, RetryLoop
<1>9. CASE Park
  BY <1>1, <1>5, <1>9, ParkLoop, RetryPark, ParkKeeps, ParkAlone
<1>10. ASSUME NEW r \in Replayers, ReplayList(r) \/ ReplayPost(r) \/ ReplayMark(r)
       PROVE  LoopInv' /\ RetryOK' /\ NothingVanishes' /\ (NoRepeat => Alone')
  <2>1. LoopInv' /\ NothingVanishes'
    BY <1>1, <1>10, ReplayLoop, ReplayKeeps
  <2>2. RetryOK'
    BY <1>1, <1>10, RetryList, RetryPost, RetryMark
  <2>3. NoRepeat => Alone'
    BY <1>1, <1>5, <1>10, ListAlone, PostAlone, MarkAlone
  <2>. QED BY <2>1, <2>2, <2>3
<1>. QED BY <1>4, <1>6, <1>7, <1>8, <1>9, <1>10 DEF Next

\* It says at least what is promised.
LEMMA FactSuffices ==
    FactIInv => TypeOK /\ NothingVanishes /\ OnlyRefusedAbandoned /\ LandedOnce
<1>. SUFFICES ASSUME FactIInv
              PROVE  TypeOK /\ NothingVanishes /\ OnlyRefusedAbandoned /\ LandedOnce
  OBVIOUS
<1>1. TypeOK
  <2>1. \A r \in Replayers : replay[r].pc \in {"free", "post", "mark"}
    BY DEF FactIInv, LoopInv, FactTypes, Replaying
  <2>. QED BY <2>1 DEF FactIInv, LoopInv, FactTypes, LoopTypes, Spending, TypeOK
<1>2. LandedOnce
  BY DEF FactIInv, NoRepeat, Alone, TableOnce, LandedOnce
<1>. QED BY <1>1, <1>2 DEF FactIInv, RetryOK

(***************************************************************************)
(* Whatever the capacities and limits, the facts and tables, the number of *)
(* requests that replay, and whatever goes wrong: the loop's and the       *)
(* replays' state satisfies the invariant.                                 *)
(***************************************************************************)
THEOREM FactInvariance == Spec => []FactIInv
BY FactStarts, FactSteps, PTL DEF Spec

\* The facts are one part of the composition.
FactLine == part = "facts" => FactIInv

(***************************************************************************)
(* No failing insertion loses a fact that the queue took                   *)
(* (clickhouse_fact.go:840), a batch is given up only when ClickHouse      *)
(* refuses it for good (clickhouse_fact.go:568), and without lost answers, *)
(* refused marks and overlapping replays a fact lands at most once         *)
(* (clickhouse_fact.go:616), a shutdown included.                          *)
(***************************************************************************)
THEOREM FactsHold == MCSpec => []FactInv
<1>1. MCInit => FactLine
  BY FactStarts DEF MCInit, FactLine
<1>2. FactLine /\ [MCNext]_all => FactLine'
  <2>. SUFFICES ASSUME FactLine, [MCNext]_all, part' = "facts" PROVE FactIInv'
    BY DEF FactLine
  <2>1. part = "facts" /\ [Next]_vars
    BY DEF MCNext, all
  <2>. QED BY <2>1, FactSteps DEF FactLine
<1>3. FactLine => FactInv
  BY FactSuffices DEF FactLine, FactInv
<1>. QED BY <1>1, <1>2, <1>3, PTL DEF MCSpec

-----------------------------------------------------------------------------
(***************************************************************************)
(* Questions.  Stamps differ and an export takes the oldest questions, so  *)
(* what is not newer than one of its rows is among its rows, or was dealt  *)
(* with before.                                                            *)
(***************************************************************************)
Exporting == [pc : {"idle", "post", "record"}, rows : SUBSET Questions, ok : BOOLEAN]

QuestionTypes ==
    /\ clock \in 1..MaxTime /\ stamp \in [Questions -> 0..clock]
    /\ logged \subseteq Questions
    /\ mark \in 0..(MaxTime + 1) /\ again \in BOOLEAN
    /\ listed \in BOOLEAN /\ (listed => "retry" \in mishap)
    /\ job \in [Senders -> Exporting]
    /\ sent \in [Questions -> 0..2]
    /\ faults \in 0..MaxFaults /\ reach \in 0..clock /\ mishap \in Mishaps

\* Two questions have two stamps; what was sent is logged and has one.
StampsOK ==
    /\ \A p, q \in Questions : stamp[p] = stamp[q] /\ stamp[p] # 0 => p = q
    /\ \A q \in logged : stamp[q] # 0
    /\ \A q \in Questions : sent[q] > 0 => q \in logged
    /\ "slow" \in mishap \/ \A q \in Questions \ logged : stamp[q] \in {0, clock}

\* An export has some logged questions, which it has sent when it says so.
JobsOK ==
    \A e \in Senders :
        /\ Questioned!Cardinality(job[e].rows) <= Limit
        /\ job[e].pc # "idle" => job[e].rows \subseteq logged /\ job[e].rows # {}
        /\ job[e].pc = "record" /\ job[e].ok => \A q \in job[e].rows : sent[q] > 0

MarkOK == mark \in {0, MaxTime + 1} \/ \E q \in Questions : stamp[q] = mark /\ sent[q] > 0

QuestionsOK == QuestionTypes /\ StampsOK /\ JobsOK /\ MarkOK

\* A question was sent, or is older than an export without a watermark goes back.
DealtWith(q) == sent[q] > 0 \/ stamp[q] <= reach

\* Nothing behind the watermark, or behind an export, is forgotten.
InTurn ==
    /\ mark \in 1..MaxTime => \A q \in Questions : stamp[q] \in 1..mark => DealtWith(q)
    /\ \A e \in Senders : job[e].pc # "idle" =>
         \A r \in job[e].rows, q \in Questions :
            stamp[q] \in 1..stamp[r] => q \in job[e].rows \/ DealtWith(q)

(***************************************************************************)
(* One export at a time: what was sent is not after the watermark, or is   *)
(* what the export has just sent; what it has to send was never sent.      *)
(***************************************************************************)
ByOne ==
    /\ mark <= MaxTime
    /\ \A d, e \in Senders : job[d].pc # "idle" /\ job[e].pc # "idle" => d = e
    /\ \A q \in Questions :
         /\ sent[q] <= 1
         /\ sent[q] > 0 => \/ stamp[q] <= mark
                           \/ \E e \in Senders :
                                job[e].pc = "record" /\ job[e].ok /\ q \in job[e].rows
    /\ \A e \in Senders, q \in Questions : job[e].pc # "idle" /\ q \in job[e].rows =>
         stamp[q] > mark /\ (job[e].pc = "post" => sent[q] = 0)

QuestionIInv ==
    /\ QuestionsOK
    /\ "slow" \notin mishap => InTurn
    /\ mishap \subseteq {"slow"} => ByOne

\* The bounds and the names.
LEMMA QuestionNames ==
    /\ {Backfill, Limit, MaxTime} \subseteq Nat \ {0} /\ MaxFaults \in Nat
    /\ IsFiniteSet(Questions)
    /\ Questioned!None = 0 /\ Questioned!DayOnly = MaxTime + 1 /\ Questioned!Times = 1..MaxTime
BY ClickHouseAssumption
   DEF Questioned!ConstantsOK, Questioned!None, Questioned!DayOnly, Questioned!Times,
       Questioned!IsFiniteSet, IsFiniteSet

\* The instance counts as the library does.
LEMMA QuestionCount == ASSUME NEW S PROVE Questioned!Cardinality(S) = Cardinality(S)
BY DEF Questioned!Cardinality, Cardinality

\* A bounded set of numbers has a greatest element.
LEMMA LatestExists ==
    ASSUME NEW n \in Nat, NEW S \in SUBSET (0..n), S # {}
    PROVE  /\ Questioned!Max(S) \in S
           /\ \A y \in S : y <= Questioned!Max(S)
<1>. DEFINE T == {n - x : x \in S}
<1>. DEFINE R == {ss \in Nat \X Nat : ss[1] < ss[2]}
<1>1. IsWellFoundedOn(R, Nat)
  BY NatLessThanWellFounded DEF OpToRel
<1>2. T \subseteq Nat /\ T # {}
  <2>1. \A x \in S : n - x \in Nat
    OBVIOUS
  <2>. QED BY <2>1
<1>. HIDE DEF R, T
<1>3. PICK m \in T : \A y \in T : ~(<<y, m>> \in R)
  BY <1>1, <1>2, WFMin
<1>4. \A y \in T : ~(y < m)
  BY <1>2, <1>3 DEF R
<1>5. PICK x \in S : m = n - x
  BY DEF T
<1>6. \A y \in S : y <= x
  <2>. SUFFICES ASSUME NEW y \in S PROVE y <= x
    OBVIOUS
  <2>1. n - y \in T
    BY DEF T
  <2>. QED BY <1>4, <1>5, <2>1
<1>7. \E z \in S : \A y \in S : z >= y
  BY <1>6
<1>8. Questioned!Max(S) = CHOOSE z \in S : \A y \in S : z >= y
  BY DEF Questioned!Max
<1>9. Questioned!Max(S) \in S /\ \A y \in S : Questioned!Max(S) >= y
  BY <1>7, <1>8
<1>. QED BY <1>9

\* The pending questions are the oldest ones, and not too many.
LEMMA PendingOldest ==
    ASSUME QuestionsOK, NEW start \in Nat
    PROVE  /\ Questioned!Pending(start) \subseteq logged
           /\ \A q \in Questioned!Pending(start) : stamp[q] > start
           /\ \A r \in Questioned!Pending(start), q \in logged :
                stamp[q] > start /\ stamp[q] <= stamp[r] => q \in Questioned!Pending(start)
           /\ Questioned!Cardinality(Questioned!Pending(start)) <= Limit
<1>. DEFINE qs == {q \in logged : stamp[q] > start}
            before(q) == {p \in qs : stamp[p] < stamp[q]}
<1>1. Questioned!Pending(start) = {q \in qs : Cardinality(before(q)) < Limit}
  BY QuestionCount DEF Questioned!Pending
<1>2. logged \subseteq Questions /\ \A q \in Questions : stamp[q] \in 0..MaxTime
  BY QuestionNames DEF QuestionsOK, QuestionTypes
<1>3. IsFiniteSet(qs)
  BY <1>2, QuestionNames, FS_Subset
<1>4. \A q \in qs : IsFiniteSet(before(q)) /\ Cardinality(before(q)) \in Nat
  BY <1>3, FS_Subset, FS_CardinalityType
<1>5. ASSUME NEW r \in qs, NEW q \in qs, stamp[q] <= stamp[r]
      PROVE  Cardinality(before(q)) <= Cardinality(before(r))
  <2>1. before(q) \subseteq before(r)
    BY <1>2, <1>5
  <2>. QED BY <1>4, <2>1, FS_Subset
<1>6. \A r \in Questioned!Pending(start), q \in qs : stamp[q] <= stamp[r] => q \in Questioned!Pending(start)
  <2>. SUFFICES ASSUME NEW r \in qs, Cardinality(before(r)) < Limit, NEW q \in qs, stamp[q] <= stamp[r]
                PROVE  Cardinality(before(q)) < Limit
    BY <1>1
  <2>. HIDE DEF before, qs
  <2>. QED BY <1>4, <1>5, QuestionNames
<1>7. Questioned!Cardinality(Questioned!Pending(start)) <= Limit
  <2>. DEFINE P == {q \in qs : Cardinality(before(q)) < Limit}
              S == {stamp[q] : q \in P}
  <2>1. CASE P = {}
    <3>1. Questioned!Pending(start) = {}
      BY <1>1, <2>1
    <3>2. Questioned!Cardinality({}) = 0
      BY QuestionCount, FS_EmptySet
    <3>. QED BY <3>1, <3>2, QuestionNames
  <2>2. CASE P # {}
    <3>1. S \in SUBSET (0..MaxTime) /\ S # {} /\ MaxTime \in Nat
      BY <1>2, <2>2, QuestionNames
    <3>2. Questioned!Max(S) \in S /\ \A y \in S : y <= Questioned!Max(S)
      <4>. HIDE DEF S
      <4>. QED BY <3>1, LatestExists
    <3>3. PICK m \in P : \A q \in P : stamp[q] <= stamp[m]
      BY <3>2
    <3>4. P \ {m} \subseteq before(m)
      <4>. SUFFICES ASSUME NEW q \in P, q # m PROVE stamp[q] < stamp[m]
        OBVIOUS
      <4>1. stamp[q] <= stamp[m] /\ stamp[q] # stamp[m] /\ stamp[q] \in Nat /\ stamp[m] \in Nat
        BY <1>2, <3>3 DEF QuestionsOK, StampsOK
      <4>. QED BY <4>1
    <3>5. IsFiniteSet(P)
      BY <1>3, FS_Subset
    <3>6. /\ IsFiniteSet(P \ {m}) /\ Cardinality(P \ {m}) = Cardinality(P) - 1
          /\ Cardinality(P) \in Nat
      BY <3>3, <3>5, FS_RemoveElement, FS_CardinalityType
    <3>7. Cardinality(P \ {m}) <= Cardinality(before(m)) /\ Cardinality(before(m)) < Limit
      BY <1>4, <3>3, <3>4, FS_Subset
    <3>8. Cardinality(P) <= Limit
      <4>. HIDE DEF P, before
      <4>1. Cardinality(before(m)) \in Nat
        BY <1>4, <3>3 DEF P
      <4>. QED BY <3>6, <3>7, <4>1, QuestionNames
    <3>. QED BY <1>1, <3>8, QuestionCount
  <2>. QED BY <2>1, <2>2
<1>. QED BY <1>1, <1>6, <1>7
\* Initially nothing was asked.
LEMMA QuestionStarts == Questioned!Init => QuestionIInv
<1>. SUFFICES ASSUME Questioned!Init PROVE QuestionIInv
  OBVIOUS
<1>1. /\ clock = 1 /\ mark = 0 /\ again = FALSE /\ listed = FALSE /\ faults = 0 /\ reach = 0 /\ logged = {}
      /\ mishap \in Mishaps
      /\ stamp = [q \in Questions |-> 0] /\ sent = [q \in Questions |-> 0]
      /\ job = [e \in Senders |-> Questioned!NoJob]
  BY QuestionNames DEF Questioned!Init
<1>2. \A e \in Senders : job[e].pc = "idle" /\ job[e].rows = {}
  BY <1>1 DEF Questioned!NoJob
<1>3. Questioned!Cardinality({}) = 0
  BY QuestionCount, FS_EmptySet
<1>4. QuestionTypes
  <2>1. Questioned!NoJob \in Exporting
    BY DEF Questioned!NoJob, Exporting
  <2>2. 0 \in 0..MaxFaults /\ 0 \in 0..1 /\ 1 \in 1..MaxTime /\ 0 \in 0..(MaxTime + 1)
    BY QuestionNames
  <2>3. job \in [Senders -> Exporting]
    BY <1>1, <2>1
  <2>4. stamp \in [Questions -> 0..1] /\ sent \in [Questions -> 0..2]
    BY <1>1
  <2>. QED BY <1>1, <2>2, <2>3, <2>4 DEF QuestionTypes
<1>5. \A q \in Questions : stamp[q] = 0 /\ sent[q] = 0
  BY <1>1
<1>6. QuestionsOK
  <2>1. StampsOK /\ MarkOK
    BY <1>1, <1>5 DEF StampsOK, MarkOK
  <2>2. 0 <= Limit
    BY QuestionNames
  <2>3. \A e \in Senders : Questioned!Cardinality(job[e].rows) <= Limit
    BY <1>2, <1>3, <2>2
  <2>4. JobsOK
    BY <1>2, <2>3 DEF JobsOK
  <2>. QED BY <1>4, <2>1, <2>4 DEF QuestionsOK
<1>7. InTurn
  BY <1>1, <1>2, <1>5 DEF InTurn
<1>8. ByOne
  BY <1>1, <1>2, <1>5, QuestionNames DEF ByOne
<1>. QED BY <1>6, <1>7, <1>8 DEF QuestionIInv

\* Stamps and numbers.
LEMMA QuestionNumbers ==
    ASSUME QuestionTypes
    PROVE  /\ MaxTime \in Nat /\ MaxFaults \in Nat /\ clock \in Nat /\ clock >= 1 /\ clock <= MaxTime
           /\ mark \in Nat /\ reach \in Nat /\ reach <= clock
           /\ \A q \in Questions : /\ stamp[q] \in Nat /\ stamp[q] <= clock
                                   /\ sent[q] \in Nat
           /\ \A e \in Senders : job[e].rows \subseteq Questions
BY QuestionNames DEF QuestionTypes, Exporting

\* A question that arrives is not among those logged, sent or read.
LEMMA AskStep ==
    ASSUME QuestionIInv, NEW q \in Questions, Questioned!Ask(q)
    PROVE  QuestionIInv'
<1>1. /\ stamp[q] = 0 /\ \A p \in Questions : stamp[p] # clock
      /\ stamp' = [stamp EXCEPT ![q] = clock]
      /\ UNCHANGED <<clock, logged, mark, again, listed, job, sent, faults, reach, mishap>>
  BY DEF Questioned!Ask
<1>2. QuestionTypes /\ StampsOK /\ JobsOK /\ MarkOK
  BY DEF QuestionIInv, QuestionsOK
<1>3. stamp'[q] = clock /\ \A p \in Questions \ {q} : stamp'[p] = stamp[p]
  BY <1>1, <1>2 DEF QuestionTypes
<1>4. QuestionTypes'
  BY <1>1, <1>2, QuestionNumbers DEF QuestionTypes
<1>5. q \notin logged /\ ~(sent[q] > 0)
  BY <1>1, <1>2 DEF StampsOK
<1>6. StampsOK'
  <2>1. \A p, r \in Questions : stamp'[p] = stamp'[r] /\ stamp'[p] # 0 => p = r
    BY <1>1, <1>2, <1>3 DEF StampsOK
  <2>2. \A p \in logged : stamp'[p] # 0
    BY <1>2, <1>3, <1>5 DEF StampsOK, QuestionTypes
  <2>3. "slow" \in mishap \/ \A p \in Questions \ logged : stamp'[p] \in {0, clock}
    BY <1>2, <1>3 DEF StampsOK
  <2>. QED BY <1>1, <1>2, <2>1, <2>2, <2>3 DEF StampsOK
<1>7. JobsOK'
  BY <1>1, <1>2 DEF JobsOK
<1>8. MarkOK'
  BY <1>1, <1>2, <1>3, <1>5 DEF MarkOK
<1>9. ASSUME InTurn PROVE InTurn'
  <2>1. ASSUME mark \in 1..MaxTime, stamp'[q] <= mark PROVE FALSE
    <3>1. PICK p \in Questions : stamp[p] = mark
      BY <1>2, <2>1, QuestionNumbers DEF MarkOK
    <3>2. stamp[p] \in Nat /\ stamp[p] <= clock /\ clock \in Nat /\ stamp[p] # clock
      BY <1>1, <1>2, QuestionNumbers
    <3>. QED BY <1>3, <2>1, <3>1, <3>2
  <2>2. ASSUME NEW e \in Senders, job[e].pc # "idle", NEW r \in job[e].rows
        PROVE  r \in Questions /\ stamp'[r] = stamp[r] /\ ~(stamp'[q] <= stamp'[r])
    <3>1. r \in logged /\ r \in Questions /\ r # q
      BY <1>2, <1>5, <2>2 DEF JobsOK, QuestionTypes
    <3>2. stamp[r] \in Nat /\ stamp[r] <= clock /\ clock \in Nat /\ stamp[r] # clock
      BY <1>1, <1>2, <3>1, QuestionNumbers
    <3>. QED BY <1>3, <3>1, <3>2
  <2>3. \A p \in Questions \ {q} : DealtWith(p)' = DealtWith(p)
    BY <1>1, <1>3 DEF DealtWith
  <2>4. mark \in 1..MaxTime => \A p \in Questions : stamp'[p] \in 1..mark => DealtWith(p)'
    BY <1>3, <1>9, <2>1, <2>3 DEF InTurn
  <2>5. \A e \in Senders : job[e].pc # "idle" =>
          \A r \in job[e].rows, p \in Questions :
            stamp'[p] \in 1..stamp'[r] => p \in job[e].rows \/ DealtWith(p)'
    BY <1>3, <1>9, <2>2, <2>3 DEF InTurn
  <2>. QED BY <1>1, <2>4, <2>5 DEF InTurn
<1>10. ASSUME ByOne PROVE ByOne'
  <2>1. \A p \in Questions : sent[p] > 0 => stamp'[p] = stamp[p]
    BY <1>3, <1>5
  <2>2. \A e \in Senders : \A p \in job[e].rows : job[e].pc # "idle" => stamp'[p] = stamp[p]
    BY <1>2, <1>3, <1>5, QuestionNumbers DEF JobsOK
  <2>. QED BY <1>1, <1>10, <2>1, <2>2 DEF ByOne
<1>. QED BY <1>1, <1>4, <1>6, <1>7, <1>8, <1>9, <1>10 DEF QuestionIInv, QuestionsOK

\* A question is answered.
LEMMA AnswerStep ==
    ASSUME QuestionIInv, NEW q \in Questions, Questioned!Answer(q)
    PROVE  QuestionIInv'
<1>1. /\ stamp[q] # 0 /\ logged' = logged \cup {q}
      /\ UNCHANGED <<clock, stamp, mark, again, listed, job, sent, faults, reach, mishap>>
  BY DEF Questioned!Answer
<1>2. QuestionTypes' /\ StampsOK' /\ JobsOK' /\ MarkOK'
  BY <1>1 DEF QuestionIInv, QuestionsOK, QuestionTypes, StampsOK, JobsOK, MarkOK
<1>3. InTurn' = InTurn /\ ByOne' = ByOne
  BY <1>1 DEF InTurn, DealtWith, ByOne
<1>. QED BY <1>1, <1>2, <1>3 DEF QuestionIInv, QuestionsOK

\* Time passes, with prompt answers when all that was asked is answered.
LEMMA AdvanceStep ==
    ASSUME QuestionIInv, Questioned!Advance
    PROVE  QuestionIInv'
<1>1. /\ clock < MaxTime /\ clock' = clock + 1
      /\ "slow" \in mishap \/ \A q \in Questions : stamp[q] # 0 => q \in logged
      /\ UNCHANGED <<stamp, logged, mark, again, listed, job, sent, faults, reach, mishap>>
  BY DEF Questioned!Advance
<1>2. QuestionTypes /\ StampsOK /\ JobsOK /\ MarkOK
  BY DEF QuestionIInv, QuestionsOK
<1>3. QuestionTypes'
  <2>1. clock' \in 1..MaxTime /\ reach \in 0..clock' /\ \A q \in Questions : stamp[q] \in 0..clock'
    BY <1>1, <1>2, QuestionNumbers DEF QuestionTypes
  <2>2. stamp \in [Questions -> 0..clock']
    BY <1>2, <2>1 DEF QuestionTypes
  <2>. QED BY <1>1, <1>2, <2>1, <2>2 DEF QuestionTypes
<1>4. StampsOK' /\ JobsOK' /\ MarkOK'
  BY <1>1, <1>2 DEF StampsOK, JobsOK, MarkOK
<1>5. InTurn' = InTurn /\ ByOne' = ByOne
  BY <1>1 DEF InTurn, DealtWith, ByOne
<1>. QED BY <1>1, <1>3, <1>4, <1>5 DEF QuestionIInv, QuestionsOK
\* What a failure costs.
LEMMA Failure ==
    ASSUME QuestionTypes, Questioned!Fault \/ UNCHANGED faults
    PROVE  faults' \in 0..MaxFaults
BY QuestionNames DEF QuestionTypes, Questioned!Fault

\* The retry endpoint reads the row of a failure, and later records its day.
LEMMA SinkRetryStep ==
    ASSUME QuestionIInv, Questioned!RetryList \/ Questioned!SinkRetry
    PROVE  QuestionIInv'
<1>1. /\ "retry" \in mishap
      /\ mark' \in {mark, MaxTime + 1} /\ again' \in BOOLEAN /\ listed' \in BOOLEAN
      /\ Questioned!Fault \/ UNCHANGED faults
      /\ UNCHANGED <<clock, stamp, logged, job, sent, reach, mishap>>
  BY QuestionNames
     DEF Questioned!RetryList, Questioned!SinkRetry, Questioned!RecordSuccess,
         QuestionIInv, QuestionsOK, QuestionTypes
<1>2. MaxTime \in Nat /\ (mark' \in 1..MaxTime => mark' = mark)
  BY <1>1, QuestionNames
<1>3. QuestionTypes'
  <2>1. mark' \in 0..(MaxTime + 1)
    BY <1>1, <1>2 DEF QuestionIInv, QuestionsOK, QuestionTypes
  <2>2. faults' \in 0..MaxFaults
    BY <1>1, Failure DEF QuestionIInv, QuestionsOK
  <2>. QED BY <1>1, <2>1, <2>2 DEF QuestionIInv, QuestionsOK, QuestionTypes
<1>4. StampsOK' /\ JobsOK' /\ MarkOK'
  BY <1>1 DEF QuestionIInv, QuestionsOK, StampsOK, JobsOK, MarkOK
<1>5. InTurn => InTurn'
  BY <1>1, <1>2 DEF InTurn, DealtWith
<1>6. ~(mishap' \subseteq {"slow"})
  BY <1>1
<1>. QED BY <1>1, <1>3, <1>4, <1>5, <1>6 DEF QuestionIInv, QuestionsOK

\* Questions that cannot be read leave a row to retry.
LEMMA ListFailsStep ==
    ASSUME QuestionIInv, NEW e \in Senders, Questioned!ListFails(e)
    PROVE  QuestionIInv'
<1>1. /\ Questioned!Fault /\ again' = TRUE
      /\ UNCHANGED <<clock, stamp, logged, mark, listed, job, sent, reach, mishap>>
  BY DEF Questioned!ListFails
<1>2. faults' \in 0..MaxFaults
  BY <1>1, Failure DEF QuestionIInv, QuestionsOK
<1>3. QuestionTypes' /\ StampsOK' /\ JobsOK' /\ MarkOK'
  BY <1>1, <1>2 DEF QuestionIInv, QuestionsOK, QuestionTypes, StampsOK, JobsOK, MarkOK
<1>4. InTurn' = InTurn /\ ByOne' = ByOne
  BY <1>1 DEF InTurn, DealtWith, ByOne
<1>. QED BY <1>1, <1>3, <1>4 DEF QuestionIInv, QuestionsOK

\* An export reads the oldest questions after the watermark, or after where one without it starts.
LEMMA ListStep ==
    ASSUME QuestionIInv, NEW e \in Senders, Questioned!List(e)
    PROVE  QuestionIInv'
<1>1. PICK start \in {Questioned!Since, Questioned!BackfillStart} :
        /\ \/ start = Questioned!Since /\ UNCHANGED faults
           \/ "read" \in mishap /\ Questioned!Fault
        /\ Questioned!Pending(start) # {}
        /\ job' = [job EXCEPT ![e] =
                     [Questioned!NoJob EXCEPT !.pc = "post", !.rows = Questioned!Pending(start)]]
        /\ reach' = IF start # mark /\ start > reach THEN start ELSE reach
  BY DEF Questioned!List
<1>2. /\ job[e].pc = "idle"
      /\ "overlap" \in mishap \/ \A d \in Senders : job[d].pc = "idle"
      /\ UNCHANGED <<clock, stamp, logged, mark, again, listed, sent, mishap>>
  BY DEF Questioned!List
<1>3. QuestionsOK /\ QuestionTypes /\ StampsOK /\ JobsOK /\ MarkOK
  BY DEF QuestionIInv, QuestionsOK
<1>4. /\ Questioned!BackfillStart \in 0..clock
      /\ Questioned!Since = IF mark \in 1..MaxTime THEN mark ELSE Questioned!BackfillStart
  <2>1. Backfill \in Nat /\ clock \in Nat
    BY <1>3, QuestionNames, QuestionNumbers
  <2>2. Questioned!BackfillStart \in 0..clock
    BY <2>1 DEF Questioned!BackfillStart
  <2>. QED BY <2>2, QuestionNames DEF Questioned!Since
<1>5. start \in Nat /\ (start # mark => start \in 0..clock)
  BY <1>1, <1>3, <1>4, QuestionNumbers
<1>. DEFINE rows == Questioned!Pending(start)
<1>6. /\ rows \subseteq logged /\ rows # {} /\ Questioned!Cardinality(rows) <= Limit
      /\ \A q \in rows : stamp[q] > start
      /\ \A r \in rows, q \in logged : stamp[q] > start /\ stamp[q] <= stamp[r] => q \in rows
  BY <1>1, <1>3, <1>5, PendingOldest
<1>. HIDE DEF rows
<1>7. PICK now1 : /\ now1 = [Questioned!NoJob EXCEPT !.pc = "post", !.rows = rows]
                  /\ job' = [job EXCEPT ![e] = now1]
  BY <1>1, Zenon DEF rows
<1>8. /\ now1 \in Exporting /\ now1.pc = "post" /\ now1.rows = rows
      /\ job'[e] = now1 /\ \A d \in Senders \ {e} : job'[d] = job[d]
  <2>1. Questioned!NoJob \in Exporting
    BY DEF Questioned!NoJob, Exporting
  <2>2. rows \in SUBSET Questions
    BY <1>3, <1>6 DEF QuestionTypes
  <2>3. now1 \in Exporting /\ now1.pc = "post" /\ now1.rows = rows
    BY <1>7, <2>1, <2>2 DEF Exporting
  <2>. QED BY <1>3, <1>7, <2>3 DEF QuestionTypes
<1>9. reach' \in 0..clock /\ reach' >= reach /\ (start # mark => reach' >= start)
  BY <1>1, <1>3, <1>5, QuestionNumbers
<1>10. QuestionTypes'
  <2>1. faults' \in 0..MaxFaults
    BY <1>1, <1>3, Failure
  <2>2. job' \in [Senders -> Exporting]
    BY <1>3, <1>7, <1>8 DEF QuestionTypes
  <2>. QED BY <1>2, <1>3, <1>9, <2>1, <2>2 DEF QuestionTypes
<1>11. JobsOK'
  <2>1. ASSUME NEW d \in Senders
        PROVE  /\ Questioned!Cardinality(job'[d].rows) <= Limit
               /\ job'[d].pc # "idle" => job'[d].rows \subseteq logged /\ job'[d].rows # {}
               /\ job'[d].pc = "record" /\ job'[d].ok => \A q \in job'[d].rows : sent[q] > 0
    <3>1. CASE d = e
      BY <1>6, <1>8, <3>1
    <3>2. CASE d # e
      BY <1>3, <1>8, <3>2 DEF JobsOK
    <3>. QED BY <3>1, <3>2
  <2>. QED BY <1>2, <2>1 DEF JobsOK
<1>12. StampsOK' /\ MarkOK'
  BY <1>2, <1>3 DEF StampsOK, MarkOK
<1>13. ASSUME "slow" \notin mishap, InTurn PROVE InTurn'
  <2>1. \A q \in Questions : DealtWith(q) => DealtWith(q)'
    BY <1>2, <1>3, <1>9, QuestionNumbers DEF DealtWith
  <2>2. ASSUME NEW r \in rows, NEW q \in Questions, stamp[q] \in 1..stamp[r]
        PROVE  q \in rows \/ DealtWith(q)'
    <3>1. r \in logged /\ r \in Questions
      BY <1>3, <1>6, <2>2 DEF QuestionTypes
    <3>2. /\ stamp[q] \in Nat /\ stamp[q] # 0 /\ stamp[q] <= stamp[r] /\ stamp[r] <= clock
          /\ stamp[r] \in Nat /\ clock \in Nat
      BY <1>3, <2>2, <3>1, QuestionNumbers
    <3>3. q \in logged
      <4>1. CASE stamp[q] = clock
        <5>1. stamp[q] = stamp[r]
          BY <3>2, <4>1
        <5>. QED BY <1>3, <3>1, <3>2, <5>1 DEF StampsOK
      <4>. QED BY <1>3, <1>13, <3>2, <4>1 DEF StampsOK
    <3>4. CASE stamp[q] > start
      BY <1>6, <2>2, <3>2, <3>3, <3>4
    <3>5. CASE stamp[q] <= start /\ start # mark
      <4>1. stamp[q] <= reach'
        BY <1>3, <1>5, <1>9, <3>2, <3>5, QuestionNumbers
      <4>. QED BY <1>2, <4>1 DEF DealtWith
    <3>6. CASE stamp[q] <= start /\ start = mark
      <4>1. mark \in 1..MaxTime
        BY <1>3, <1>4, <1>5, <1>1, <3>2, <3>6, QuestionNumbers
      <4>2. DealtWith(q)
        BY <1>13, <3>2, <3>6, <4>1 DEF InTurn
      <4>. QED BY <2>1, <4>2
    <3>. QED BY <1>5, <3>2, <3>4, <3>5, <3>6
  <2>3. ASSUME NEW d \in Senders, job'[d].pc # "idle",
               NEW r \in job'[d].rows, NEW q \in Questions, stamp[q] \in 1..stamp[r]
        PROVE  q \in job'[d].rows \/ DealtWith(q)'
    <3>1. CASE d = e
      BY <1>8, <2>2, <2>3, <3>1
    <3>2. CASE d # e
      BY <1>8, <1>13, <2>1, <2>3, <3>2 DEF InTurn
    <3>. QED BY <3>1, <3>2
  <2>4. mark \in 1..MaxTime => \A q \in Questions : stamp[q] \in 1..mark => DealtWith(q)'
    BY <1>13, <2>1 DEF InTurn
  <2>. QED BY <1>2, <2>3, <2>4 DEF InTurn
<1>14. ASSUME mishap \subseteq {"slow"}, ByOne PROVE ByOne'
  <2>1. /\ \A d \in Senders : job[d].pc = "idle"
        /\ start = Questioned!Since
    BY <1>1, <1>2, <1>14
  <2>2. mark <= MaxTime /\ mark \in Nat /\ MaxTime \in Nat
    BY <1>3, <1>14, QuestionNumbers DEF ByOne
  <2>3. start >= mark
    BY <1>4, <1>5, <2>1, <2>2
  <2>4. \A q \in Questions : sent[q] <= 1 /\ (sent[q] > 0 => stamp[q] <= mark)
    BY <1>14, <2>1 DEF ByOne
  <2>5. \A q \in rows : stamp[q] > mark /\ sent[q] = 0
    <3>. TAKE q \in rows
    <3>1. q \in Questions /\ stamp[q] > start
      BY <1>3, <1>6 DEF QuestionTypes
    <3>2. stamp[q] \in Nat /\ sent[q] \in Nat
      BY <1>3, <3>1, QuestionNumbers
    <3>. QED BY <1>5, <2>2, <2>3, <2>4, <3>1, <3>2
  <2>6. \A d \in Senders : job'[d].pc # "idle" => d = e
    BY <1>8, <2>1
  <2>. QED BY <1>2, <1>8, <2>2, <2>4, <2>5, <2>6 DEF ByOne
<1>. QED BY <1>2, <1>3, <1>10, <1>11, <1>12, <1>13, <1>14 DEF QuestionIInv, QuestionsOK
\* Inserting questions: the counts grow, up to two.
LEMMA LandedCounts ==
    ASSUME QuestionTypes, NEW qs \in SUBSET Questions, Questioned!Land(qs)
    PROVE  /\ sent' \in [Questions -> 0..2]
           /\ \A q \in qs : sent'[q] > 0
           /\ \A q \in Questions : sent[q] > 0 => sent'[q] > 0
           /\ \A q \in Questions \ qs : sent'[q] = sent[q]
           /\ \A q \in qs : sent[q] = 0 => sent'[q] = 1
<1>1. /\ sent \in [Questions -> 0..2]
      /\ sent' = [q \in Questions |-> IF q \in qs /\ sent[q] < 2 THEN sent[q] + 1 ELSE sent[q]]
  BY DEF QuestionTypes, Questioned!Land
<1>. QED BY <1>1

\* An export inserts what it has read, or fails to.
LEMMA QuestionPostStep ==
    ASSUME QuestionIInv, NEW e \in Senders, Questioned!Post(e)
    PROVE  QuestionIInv'
<1>1. QuestionsOK /\ QuestionTypes /\ StampsOK /\ JobsOK /\ MarkOK
  BY DEF QuestionIInv, QuestionsOK
<1>. DEFINE rows == job[e].rows
<1>2. PICK ok \in BOOLEAN :
        /\ job' = [job EXCEPT ![e].pc = "record", ![e].ok = ok]
        /\ \/ ok /\ Questioned!Land(rows) /\ UNCHANGED faults
           \/ ~ok /\ Questioned!Fault /\ UNCHANGED sent
           \/ ~ok /\ "lost" \in mishap /\ Questioned!Fault /\ Questioned!Land(rows)
  BY DEF Questioned!Post
<1>3. /\ job[e].pc = "post"
      /\ UNCHANGED <<clock, stamp, logged, mark, again, listed, reach, mishap>>
  BY DEF Questioned!Post
<1>4. rows \in SUBSET Questions /\ rows \subseteq logged /\ rows # {} /\ job[e] \in Exporting
  BY <1>1, <1>3 DEF JobsOK, QuestionTypes, Exporting
<1>5. /\ job' \in [Senders -> Exporting]
      /\ job'[e].pc = "record" /\ job'[e].rows = rows /\ job'[e].ok = ok
      /\ \A d \in Senders \ {e} : job'[d] = job[d]
  <2>1. job \in [Senders -> Exporting]
    BY <1>1 DEF QuestionTypes
  <2>2. PICK now1 : now1 = [job[e] EXCEPT !.pc = "record", !.ok = ok]
    OBVIOUS
  <2>3. now1 \in Exporting /\ now1.pc = "record" /\ now1.rows = rows /\ now1.ok = ok
    BY <1>4, <2>2 DEF Exporting
  <2>4. job' = [job EXCEPT ![e] = now1]
    BY <1>2, <2>1, <2>2
  <2>. QED BY <2>1, <2>3, <2>4
<1>. HIDE DEF rows
<1>6. /\ sent' \in [Questions -> 0..2]
      /\ \A q \in Questions : sent[q] > 0 => sent'[q] > 0
      /\ \A q \in Questions \ rows : sent'[q] = sent[q]
      /\ ok => \A q \in rows : sent'[q] > 0
      /\ \A q \in rows : sent[q] = 0 => sent'[q] \in {0, 1}
  <2>1. CASE UNCHANGED sent
    <3>. QED BY <1>1, <1>2, <1>4, <2>1, LandedCounts DEF QuestionTypes
  <2>2. CASE Questioned!Land(rows)
    BY <1>1, <1>4, <2>2, LandedCounts
  <2>. QED BY <1>2, <2>1, <2>2
<1>7. QuestionTypes'
  <2>1. faults' \in 0..MaxFaults
    BY <1>1, <1>2, Failure
  <2>. QED BY <1>1, <1>3, <1>5, <1>6, <2>1 DEF QuestionTypes
<1>8. StampsOK' /\ MarkOK'
  <2>1. \A q \in Questions : sent'[q] > 0 => q \in logged
    BY <1>1, <1>4, <1>6 DEF StampsOK
  <2>. QED BY <1>1, <1>3, <1>6, <2>1 DEF StampsOK, MarkOK
<1>9. JobsOK'
  <2>1. ASSUME NEW d \in Senders
        PROVE  /\ Questioned!Cardinality(job'[d].rows) <= Limit
               /\ job'[d].pc # "idle" => job'[d].rows \subseteq logged /\ job'[d].rows # {}
               /\ job'[d].pc = "record" /\ job'[d].ok => \A q \in job'[d].rows : sent'[q] > 0
    <3>1. Questioned!Cardinality(job[d].rows) <= Limit
      BY <1>1 DEF JobsOK
    <3>2. CASE d = e
      BY <1>4, <1>5, <1>6, <3>1, <3>2 DEF rows
    <3>3. CASE d # e
      <4>1. job'[d] = job[d] /\ job[d].rows \subseteq Questions
        BY <1>1, <1>5, <3>3, QuestionNumbers
      <4>. QED BY <1>1, <1>6, <3>1, <4>1 DEF JobsOK
    <3>. QED BY <3>2, <3>3
  <2>. QED BY <1>3, <2>1 DEF JobsOK
<1>10. ASSUME InTurn PROVE InTurn'
  <2>1. \A q \in Questions : DealtWith(q) => DealtWith(q)'
    BY <1>3, <1>6 DEF DealtWith
  <2>2. \A d \in Senders : job'[d].rows = job[d].rows /\ (job'[d].pc # "idle" => job[d].pc # "idle")
    BY <1>3, <1>5 DEF rows
  <2>. QED BY <1>3, <1>10, <2>1, <2>2 DEF InTurn
<1>11. ASSUME mishap \subseteq {"slow"}, ByOne PROVE ByOne'
  <2>1. ok \/ UNCHANGED sent
    BY <1>2, <1>6, <1>11
  <2>2. \A d \in Senders : job[d].pc # "idle" => d = e
    BY <1>3, <1>11 DEF ByOne
  <2>3. \A d \in Senders : job'[d].pc # "idle" => d = e
    BY <1>5, <2>2
  <2>4. \A q \in rows : sent[q] = 0 /\ stamp[q] > mark
    BY <1>3, <1>4, <1>11 DEF ByOne, rows
  <2>5. ASSUME NEW q \in Questions
        PROVE  /\ sent'[q] <= 1
               /\ sent'[q] > 0 => \/ stamp[q] <= mark
                                  \/ \E d \in Senders :
                                       job'[d].pc = "record" /\ job'[d].ok /\ q \in job'[d].rows
    <3>1. CASE q \in rows
      <4>1. sent'[q] \in {0, 1}
        BY <1>6, <2>4, <3>1
      <4>2. sent'[q] > 0 => ok
        BY <2>1, <2>4, <3>1
      <4>. QED BY <1>5, <3>1, <4>1, <4>2
    <3>2. CASE q \notin rows
      <4>1. sent'[q] = sent[q]
        BY <1>6, <3>2
      <4>2. sent[q] <= 1 /\ (sent[q] > 0 => stamp[q] <= mark)
        BY <1>3, <1>11, <2>2 DEF ByOne
      <4>. QED BY <4>1, <4>2
    <3>. QED BY <3>1, <3>2
  <2>. QED BY <1>3, <1>5, <1>11, <2>3, <2>4, <2>5 DEF ByOne
<1>. QED BY <1>1, <1>3, <1>7, <1>8, <1>9, <1>10, <1>11 DEF QuestionIInv, QuestionsOK
\* An export moves the watermark to the last question it has sent, or leaves a row to retry.
LEMMA QuestionRecordStep ==
    ASSUME QuestionIInv, NEW e \in Senders, Questioned!Record(e)
    PROVE  QuestionIInv'
<1>1. QuestionsOK /\ QuestionTypes /\ StampsOK /\ JobsOK /\ MarkOK
  BY DEF QuestionIInv, QuestionsOK
<1>. DEFINE rows == job[e].rows
            last == Questioned!Max({stamp[q] : q \in rows})
<1>2. /\ job[e].pc = "record"
      /\ job' = [job EXCEPT ![e] = Questioned!NoJob]
      /\ \/ job[e].ok /\ Questioned!RecordSuccess(last)
         \/ ~job[e].ok /\ Questioned!RecordFailure
      /\ UNCHANGED <<clock, stamp, logged, listed, sent, reach, mishap>>
  BY DEF Questioned!Record
<1>3. /\ job' \in [Senders -> Exporting]
      /\ job'[e].pc = "idle" /\ job'[e].rows = {}
      /\ \A d \in Senders \ {e} : job'[d] = job[d]
  <2>1. /\ Questioned!NoJob \in Exporting
        /\ Questioned!NoJob.pc = "idle" /\ Questioned!NoJob.rows = {}
    BY DEF Questioned!NoJob, Exporting
  <2>. QED BY <1>1, <1>2, <2>1 DEF QuestionTypes
<1>4. /\ rows \subseteq logged /\ rows \subseteq Questions /\ rows # {}
      /\ job[e].ok => \A q \in rows : sent[q] > 0
  BY <1>1, <1>2 DEF JobsOK, QuestionTypes
<1>5. /\ last \in 1..MaxTime /\ \E q \in rows : stamp[q] = last
      /\ \A q \in rows : stamp[q] <= last
  <2>. DEFINE S == {stamp[q] : q \in rows}
  <2>1. \A q \in rows : stamp[q] \in 1..MaxTime
    BY <1>1, <1>4, QuestionNumbers DEF StampsOK
  <2>2. S \in SUBSET (0..MaxTime) /\ S # {} /\ MaxTime \in Nat
    BY <1>4, <2>1, QuestionNames
  <2>3. last \in S /\ \A y \in S : y <= last
    <3>. HIDE DEF S, rows
    <3>1. last = Questioned!Max(S)
      BY DEF S
    <3>. HIDE DEF last
    <3>. QED BY <2>2, <3>1, LatestExists
  <2>. HIDE DEF last, rows
  <2>. QED BY <2>1, <2>3
<1>. HIDE DEF rows, last
<1>6. \/ job[e].ok /\ mark' = last
      \/ mark' = mark
  BY <1>2 DEF Questioned!RecordSuccess, Questioned!RecordFailure
<1>7. QuestionTypes'
  <2>1. faults' \in 0..MaxFaults /\ again' \in BOOLEAN
    <3>1. (Questioned!Fault \/ UNCHANGED faults) /\ again' \in {again, TRUE, FALSE}
      BY <1>2 DEF Questioned!RecordSuccess, Questioned!RecordFailure
    <3>. QED BY <1>1, <3>1, Failure DEF QuestionTypes
  <2>2. mark' \in 0..(MaxTime + 1)
    BY <1>1, <1>5, <1>6, QuestionNames DEF QuestionTypes
  <2>. QED BY <1>1, <1>2, <1>3, <2>1, <2>2 DEF QuestionTypes
<1>8. StampsOK'
  BY <1>1, <1>2 DEF StampsOK
<1>9. MarkOK'
  BY <1>1, <1>2, <1>4, <1>5, <1>6 DEF MarkOK
<1>10. JobsOK'
  <2>1. 0 <= Limit /\ Questioned!Cardinality({}) = 0
    BY QuestionNames, QuestionCount, FS_EmptySet
  <2>2. ASSUME NEW d \in Senders
        PROVE  /\ Questioned!Cardinality(job'[d].rows) <= Limit
               /\ job'[d].pc # "idle" => job'[d].rows \subseteq logged /\ job'[d].rows # {}
               /\ job'[d].pc = "record" /\ job'[d].ok => \A q \in job'[d].rows : sent[q] > 0
    <3>1. CASE d = e
      BY <1>3, <2>1, <3>1
    <3>2. CASE d # e
      BY <1>1, <1>3, <3>2 DEF JobsOK
    <3>. QED BY <3>1, <3>2
  <2>. QED BY <1>2, <2>2 DEF JobsOK
<1>11. ASSUME InTurn PROVE InTurn'
  <2>1. \A q \in Questions : DealtWith(q)' = DealtWith(q)
    BY <1>2 DEF DealtWith
  <2>2. ASSUME NEW d \in Senders, job'[d].pc # "idle"
        PROVE  job'[d] = job[d]
    BY <1>3, <2>2
  <2>3. ASSUME job[e].ok, NEW q \in Questions, stamp[q] \in 1..last
        PROVE  DealtWith(q)
    <3>1. PICK r \in rows : stamp[r] = last
      BY <1>5
    <3>2. q \in rows \/ DealtWith(q)
      BY <1>2, <1>11, <2>3, <3>1 DEF InTurn, rows
    <3>. QED BY <1>4, <2>3, <3>2 DEF DealtWith
  <2>4. mark' \in 1..MaxTime => \A q \in Questions : stamp[q] \in 1..mark' => DealtWith(q)
    BY <1>6, <1>11, <2>3 DEF InTurn
  <2>5. \A d \in Senders : job'[d].pc # "idle" =>
          \A r \in job'[d].rows, q \in Questions :
            stamp[q] \in 1..stamp[r] => q \in job'[d].rows \/ DealtWith(q)
    BY <1>11, <2>2 DEF InTurn
  <2>. QED BY <1>2, <2>1, <2>4, <2>5 DEF InTurn
<1>12. ASSUME mishap \subseteq {"slow"}, ByOne PROVE ByOne'
  <2>1. \/ job[e].ok /\ mark' = last
        \/ ~job[e].ok /\ mark' = mark
    BY <1>2, <1>12 DEF Questioned!RecordSuccess, Questioned!RecordFailure
  <2>2. \A d \in Senders : job[d].pc # "idle" => d = e
    BY <1>2, <1>12 DEF ByOne
  <2>3. \A d \in Senders : job'[d].pc = "idle"
    BY <1>3, <2>2
  <2>4. mark <= MaxTime /\ mark \in Nat /\ MaxTime \in Nat
    BY <1>1, <1>12, QuestionNumbers DEF ByOne
  <2>5. job[e].ok => mark <= last
    <3>1. PICK r \in rows : stamp[r] = last
      BY <1>5
    <3>2. r \in Questions /\ stamp[r] > mark
      BY <1>2, <1>4, <1>12, <3>1 DEF ByOne, rows
    <3>. QED BY <1>5, <2>4, <3>1, <3>2
  <2>6. ASSUME NEW q \in Questions
        PROVE  sent[q] <= 1 /\ (sent[q] > 0 => stamp[q] <= mark')
    <3>1. /\ sent[q] <= 1
          /\ sent[q] > 0 => stamp[q] <= mark \/ (job[e].ok /\ q \in rows)
      BY <1>12, <2>2 DEF ByOne, rows
    <3>2. stamp[q] \in Nat
      BY <1>1, QuestionNumbers
    <3>. QED BY <1>5, <2>1, <2>4, <2>5, <3>1, <3>2
  <2>7. mark' <= MaxTime
    BY <1>5, <2>1, <2>4
  <2>. QED BY <1>2, <2>3, <2>6, <2>7 DEF ByOne
<1>. QED BY <1>1, <1>2, <1>7, <1>8, <1>9, <1>10, <1>11, <1>12 DEF QuestionIInv, QuestionsOK
\* Every step of the questions and of their exports keeps it.
LEMMA QuestionSteps == QuestionIInv /\ [Questioned!Next]_questionVars => QuestionIInv'
<1>. SUFFICES ASSUME QuestionIInv, [Questioned!Next]_questionVars PROVE QuestionIInv'
  OBVIOUS
<1>1. CASE UNCHANGED questionVars
  <2>1. QuestionTypes' /\ StampsOK' /\ JobsOK' /\ MarkOK'
    BY <1>1 DEF questionVars, QuestionIInv, QuestionsOK, QuestionTypes, StampsOK, JobsOK, MarkOK
  <2>2. InTurn' = InTurn /\ ByOne' = ByOne /\ mishap' = mishap
    BY <1>1 DEF questionVars, InTurn, DealtWith, ByOne
  <2>. QED BY <2>1, <2>2 DEF QuestionIInv, QuestionsOK
<1>2. CASE Questioned!Advance \/ Questioned!RetryList \/ Questioned!SinkRetry
  BY <1>2, AdvanceStep, SinkRetryStep
<1>3. ASSUME NEW q \in Questions, Questioned!Ask(q) \/ Questioned!Answer(q)
      PROVE  QuestionIInv'
  BY <1>3, AskStep, AnswerStep
<1>4. ASSUME NEW e \in Senders,
             \/ Questioned!List(e) \/ Questioned!ListFails(e)
             \/ Questioned!Post(e) \/ Questioned!Record(e)
      PROVE  QuestionIInv'
  BY <1>4, ListStep, ListFailsStep, QuestionPostStep, QuestionRecordStep
<1>. QED BY <1>1, <1>2, <1>3, <1>4 DEF Questioned!Next

\* It says at least what is promised.
LEMMA QuestionSuffices == QuestionIInv => QuestionInv
<1>. SUFFICES ASSUME QuestionIInv PROVE QuestionInv
  OBVIOUS
<1>1. QuestionTypes /\ StampsOK /\ JobsOK /\ MarkOK
  BY DEF QuestionIInv, QuestionsOK
<1>2. Questioned!TypeOK
  <2>1. \A e \in Senders : job[e].pc \in {"idle", "post", "record"}
    BY <1>1 DEF QuestionTypes, Exporting
  <2>. QED BY <1>1, <2>1, QuestionNames
           DEF QuestionTypes, StampsOK, JobsOK, MarkOK, Questioned!TypeOK
<1>3. Questioned!NothingSkipped
  <2>. SUFFICES ASSUME "slow" \notin mishap, mark \in 1..MaxTime,
                       NEW q \in logged, sent[q] = 0, ~(stamp[q] > mark)
                PROVE  stamp[q] <= reach
    BY QuestionNames DEF Questioned!NothingSkipped
  <2>1. q \in Questions /\ stamp[q] # 0 /\ stamp[q] \in Nat /\ mark \in Nat
    BY <1>1, QuestionNumbers DEF QuestionTypes, StampsOK
  <2>2. stamp[q] \in 1..mark
    BY <2>1
  <2>3. DealtWith(q)
    BY <2>1, <2>2 DEF QuestionIInv, InTurn
  <2>. QED BY <2>3 DEF DealtWith
<1>4. Questioned!SentOnce
  BY DEF QuestionIInv, ByOne, Questioned!SentOnce
<1>. QED BY <1>2, <1>3, <1>4 DEF QuestionInv

(***************************************************************************)
(* For any questions, exporters, backfill, limit and clock, and whatever   *)
(* goes wrong: a watermark that is a time is the stamp of a question that  *)
(* was sent; while questions are answered at once, none that is logged is  *)
(* left behind the watermark (clickhouse_sink.go:151); exports one after   *)
(* the other, whose answers and watermarks are not lost, send a question   *)
(* once (clickhouse_sink.go:434).                                          *)
(***************************************************************************)
THEOREM QuestionsHold == MCSpec => []QuestionInv
<1>1. MCInit => QuestionIInv
  BY QuestionStarts DEF MCInit
<1>2. QuestionIInv /\ [MCNext]_all => QuestionIInv'
  <2>1. [MCNext]_all => [Questioned!Next]_questionVars
    BY DEF MCNext, all
  <2>. QED BY <2>1, QuestionSteps
<1>. QED BY <1>1, <1>2, QuestionSuffices, PTL DEF MCSpec

-----------------------------------------------------------------------------
(***************************************************************************)
(* Aggregates.  No window that is recomputed reaches a day of which        *)
(* requests were deleted, so an aggregate never shrinks, and that of a day *)
(* that was over when all of it was last recomputed is exact.              *)
(***************************************************************************)
Shipment ==
    [pc : {"idle", "list", "post", "record"}, since : Int,
     rows : SUBSET (Rollup!Days \X (1..2)), ok : BOOLEAN, late : BOOLEAN]

RollupTypes ==
    /\ now \in 0..MaxHalfDays /\ raw \subseteq made /\ made \subseteq 0..now
    /\ daily \in [Rollup!Days -> 0..2] /\ warehouse \in [Rollup!Days -> 0..2]
    /\ window \in Int /\ (window # Rollup!NoRetry => window <= Rollup!Today)
    /\ export \in [Rollup!Exporters -> Shipment]
    /\ \A e \in Rollup!Exporters :
         /\ export[e].since <= Rollup!Today
         /\ Rollup!Cardinality(export[e].rows) <= RowLimit
    /\ since \in [rollup : 0..MaxGap, export : 0..MaxOutage]
    /\ failures \in 0..MaxUpsets /\ asks \in 0..MaxAsks /\ upset \in Upsets

Made(d) == Rollup!Count(made, d)

\* A day that was over at a time.
Over(d, t) == 2 * d + 2 <= t

\* Days that were over at the last rollup are counted, and nothing newer was deleted.
CountedOK ==
    /\ \A d \in Rollup!Days : daily[d] <= Made(d)
    /\ \A d \in Rollup!Days : Over(d, now - since.rollup) => daily[d] = Made(d)
    /\ \A t \in made \ raw : t < now - 2 * RequestDays

\* When the worker's export began: time passes over it at most once.
Began == now - (IF export["worker"].late THEN 1 ELSE 0)

(***************************************************************************)
(* The worker alone exports.  What its last success began after is in the  *)
(* warehouse; a window it exports is exact for the days that were over     *)
(* when it began, in the aggregates, in the rows read and in the warehouse.*)
(***************************************************************************)
WindowOK(ship) ==
    /\ ship.since = Rollup!Day(Began) - SinkDays
    /\ ship.pc # "record" => ~ship.ok
    /\ \A d \in Rollup!Days : d >= ship.since /\ Over(d, Began) => daily[d] = Made(d)
    /\ \A row \in ship.rows : row[2] <= Made(row[1]) /\ (Over(row[1], Began) => row[2] = Made(row[1]))
    /\ ship.pc = "post" =>
         \A d \in Rollup!Days :
            d >= ship.since /\ Over(d, Began) /\ Made(d) > 0 => <<d, Made(d)>> \in ship.rows
    /\ ship.pc = "record" /\ ship.ok =>
         \A d \in Rollup!Days : d >= ship.since /\ Over(d, Began) => warehouse[d] = Made(d)

ShippedOK ==
    /\ \A e \in Admins : export[e].pc = "idle"
    /\ now - since.export <= Began
    /\ \A d \in Rollup!Days : warehouse[d] <= Made(d)
    /\ \A d \in Rollup!Days : Over(d, now - since.export) => warehouse[d] = Made(d)
    /\ export["worker"].pc # "idle" => WindowOK(export["worker"])

RollupIInv ==
    /\ RollupTypes /\ CountedOK
    /\ asks = 0 /\ "rollup" \notin upset => ShippedOK

\* The bounds, the names and the counting of the instance.
LEMMA RollupNames ==
    /\ {RollDays, RequestDays, SinkDays, RowLimit, MaxGap, MaxOutage} \subseteq Nat \ {0}
    /\ AdminDays \subseteq Nat \ {0}
    /\ {MaxHalfDays, MaxUpsets, MaxAsks} \subseteq Nat
    /\ "worker" \notin Admins /\ Rollup!Exporters = Admins \cup {"worker"}
BY ClickHouseAssumption DEF Rollup!ConstantsOK, Rollup!Exporters

LEMMA RollupCount == ASSUME NEW S PROVE Rollup!Cardinality(S) = Cardinality(S)
BY DEF Rollup!Cardinality, Cardinality

\* A half-day and its day.
LEMMA HalfDays ==
    ASSUME NEW t \in Nat
    PROVE  /\ Rollup!Day(t) \in Nat
           /\ 2 * Rollup!Day(t) <= t /\ t <= 2 * Rollup!Day(t) + 1
BY DEF Rollup!Day

LEMMA DayOf ==
    ASSUME NEW t \in Nat, NEW d \in Nat, 2 * d <= t, t <= 2 * d + 1
    PROVE  Rollup!Day(t) = d
<1>1. /\ Rollup!Day(t) \in Nat
      /\ 2 * Rollup!Day(t) <= t /\ t <= 2 * Rollup!Day(t) + 1
  BY HalfDays
<1>. QED BY <1>1

\* Days are numbers up to the last, which today does not exceed.
LEMMA DaysAre ==
    ASSUME RollupTypes
    PROVE  /\ now \in Nat /\ now <= MaxHalfDays /\ MaxHalfDays \in Nat
           /\ Rollup!Today = Rollup!Day(now) /\ Rollup!Today \in Nat
           /\ Rollup!Days \subseteq Nat /\ Rollup!Today \in Rollup!Days
           /\ Rollup!NoRetry \in Nat /\ Rollup!Today < Rollup!NoRetry
           /\ \A d \in Nat : d <= Rollup!Today => d \in Rollup!Days
<1>1. now \in Nat /\ now <= MaxHalfDays /\ MaxHalfDays \in Nat
  BY RollupNames DEF RollupTypes
<1>2. /\ Rollup!Day(now) \in Nat /\ Rollup!Day(MaxHalfDays) \in Nat
      /\ Rollup!Day(now) <= Rollup!Day(MaxHalfDays)
  BY <1>1, HalfDays
<1>. QED BY <1>1, <1>2 DEF Rollup!Today, Rollup!Days, Rollup!NoRetry

\* A day has at most two requests.
LEMMA CountIs ==
    ASSUME NEW ts \in SUBSET Nat, NEW d \in Nat
    PROVE  /\ IsFiniteSet({t \in ts : Rollup!Day(t) = d})
           /\ Rollup!Count(ts, d) = Cardinality({t \in ts : Rollup!Day(t) = d})
           /\ Rollup!Count(ts, d) \in 0..2
           /\ Rollup!Count(ts, d) > 0 <=> \E t \in ts : Rollup!Day(t) = d
<1>. DEFINE S == {t \in ts : Rollup!Day(t) = d}
<1>1. S \subseteq (2 * d)..(2 * d + 1)
  <2>. SUFFICES ASSUME NEW t \in ts, Rollup!Day(t) = d PROVE t \in (2 * d)..(2 * d + 1)
    OBVIOUS
  <2>1. t \in Nat /\ 2 * d <= t /\ t <= 2 * d + 1
    BY HalfDays
  <2>. QED BY <2>1
<1>2. /\ IsFiniteSet((2 * d)..(2 * d + 1))
      /\ Cardinality((2 * d)..(2 * d + 1)) = 2
  BY FS_Interval
<1>3. IsFiniteSet(S) /\ Cardinality(S) \in Nat /\ Cardinality(S) <= 2
  BY <1>1, <1>2, FS_Subset, FS_CardinalityType
<1>4. Rollup!Count(ts, d) = Cardinality(S)
  BY RollupCount DEF Rollup!Count
<1>5. Cardinality(S) = 0 <=> S = {}
  BY <1>3, FS_EmptySet
<1>6. Rollup!Count(ts, d) \in 0..2
  <2>. HIDE DEF S
  <2>. QED BY <1>3, <1>4
<1>7. Rollup!Count(ts, d) > 0 <=> S # {}
  <2>. HIDE DEF S
  <2>. QED BY <1>3, <1>4, <1>5
<1>8. S # {} <=> \E t \in ts : Rollup!Day(t) = d
  OBVIOUS
<1>. QED BY <1>3, <1>4, <1>6, <1>7, <1>8

\* More requests count more.
LEMMA CountGrows ==
    ASSUME NEW ts \in SUBSET Nat, NEW us \in SUBSET ts, NEW d \in Nat
    PROVE  Rollup!Count(us, d) <= Rollup!Count(ts, d)
<1>. DEFINE S == {t \in ts : Rollup!Day(t) = d}
            T == {t \in us : Rollup!Day(t) = d}
<1>1. T \subseteq S /\ us \in SUBSET Nat
  OBVIOUS
<1>2. IsFiniteSet(S) /\ Rollup!Count(ts, d) = Cardinality(S)
  BY CountIs
<1>3. Rollup!Count(us, d) = Cardinality(T)
  BY <1>1, CountIs
<1>4. Cardinality(T) <= Cardinality(S)
  <2>. HIDE DEF S, T
  <2>. QED BY <1>1, <1>2, FS_Subset
<1>. QED BY <1>2, <1>3, <1>4

\* Two sets with the same requests of a day count the same.
LEMMA CountSame ==
    ASSUME NEW ts, NEW us, NEW d,
           \A t : Rollup!Day(t) = d => (t \in ts <=> t \in us)
    PROVE  Rollup!Count(ts, d) = Rollup!Count(us, d)
<1>1. {t \in ts : Rollup!Day(t) = d} = {t \in us : Rollup!Day(t) = d}
  OBVIOUS
<1>. QED BY <1>1 DEF Rollup!Count

\* Requests, counters and counts are numbers; nothing was made after today.
LEMMA RollupNumbers ==
    ASSUME RollupTypes
    PROVE  /\ made \in SUBSET Nat /\ raw \subseteq made /\ \A t \in made : t <= now
           /\ since.rollup \in Nat /\ since.rollup <= MaxGap
           /\ since.export \in Nat /\ since.export <= MaxOutage
           /\ \A d \in Rollup!Days : daily[d] \in 0..2 /\ warehouse[d] \in 0..2
           /\ \A d \in Nat : Made(d) \in 0..2
           /\ \A d \in Nat : d > Rollup!Today => Made(d) = 0
<1>1. made \in SUBSET Nat /\ raw \subseteq made /\ \A t \in made : t <= now
  BY DaysAre DEF RollupTypes
<1>2. /\ since.rollup \in Nat /\ since.rollup <= MaxGap
      /\ since.export \in Nat /\ since.export <= MaxOutage
  BY RollupNames DEF RollupTypes
<1>3. \A d \in Nat : Made(d) \in 0..2
  BY <1>1, CountIs DEF Made
<1>4. ASSUME NEW d \in Nat, d > Rollup!Today PROVE Made(d) = 0
  <2>1. ASSUME NEW t \in made, Rollup!Day(t) = d PROVE FALSE
    <3>1. t \in Nat /\ now \in Nat /\ t <= now /\ Rollup!Today = Rollup!Day(now)
      BY <1>1, <2>1, DaysAre
    <3>2. 2 * d <= t /\ now <= 2 * Rollup!Day(now) + 1 /\ Rollup!Day(now) \in Nat
      BY <2>1, <3>1, HalfDays
    <3>. QED BY <1>4, <3>1, <3>2
  <2>2. ~(Made(d) > 0)
    BY <1>1, <2>1, CountIs DEF Made
  <2>. QED BY <1>3, <2>2
<1>. QED BY <1>1, <1>2, <1>3, <1>4 DEF RollupTypes

\* The aggregates are recomputed: none shrinks below, or grows beyond, what was made.
Recounted ==
    /\ daily' \in [Rollup!Days -> 0..2]
    /\ \A d \in Rollup!Days : /\ daily'[d] <= Made(d)
                              /\ daily[d] = Made(d) => daily'[d] = Made(d)

\* Of a day within a window of the configuration nothing was deleted.
LEMMA WindowUndeleted ==
    ASSUME Rollup!WindowsFit, RollupTypes, CountedOK,
           NEW n \in AdminDays \cup {RollDays, SinkDays},
           NEW d \in Nat, d >= Rollup!Today - n
    PROVE  Rollup!Count(raw, d) = Made(d)
<1>1. n \in Nat /\ RequestDays \in Nat /\ n < RequestDays
  BY RollupNames DEF Rollup!WindowsFit
<1>2. ASSUME NEW t \in made, Rollup!Day(t) = d PROVE t \in raw
  <2>1. t \in Nat /\ now \in Nat /\ Rollup!Today = Rollup!Day(now)
    BY <1>2, DaysAre, RollupNumbers
  <2>2. 2 * d <= t /\ now <= 2 * Rollup!Today + 1 /\ Rollup!Today \in Nat
    BY <1>2, <2>1, HalfDays
  <2>3. ~(t < now - 2 * RequestDays)
    BY <1>1, <2>1, <2>2
  <2>. QED BY <1>2, <2>3 DEF CountedOK
<1>3. \A t : Rollup!Day(t) = d => (t \in raw <=> t \in made)
  BY <1>2, RollupNumbers
<1>. QED BY <1>3, CountSame DEF Made

LEMMA RangeRecounts ==
    ASSUME Rollup!WindowsFit, RollupTypes, CountedOK,
           NEW n \in AdminDays \cup {RollDays, SinkDays}, NEW ok \in BOOLEAN,
           Rollup!RollupRange(n, ok)
    PROVE  /\ Recounted /\ failures' \in 0..MaxUpsets
           /\ ok \/ "rollup" \in upset
           /\ ok => \A d \in Rollup!Days :
                      d >= Rollup!Today - n /\ d <= Rollup!Today => daily'[d] = Made(d)
<1>1. n \in Nat /\ Rollup!Today \in Nat /\ Rollup!Days \subseteq Nat
  BY RollupNames, DaysAre
<1>2. ASSUME NEW to \in Int, daily' = Rollup!Rolled(Rollup!Today - n, to)
      PROVE  /\ Recounted
             /\ \A d \in Rollup!Days : d \in (Rollup!Today - n)..to => daily'[d] = Made(d)
  <2>1. ASSUME NEW d \in Rollup!Days
        PROVE  /\ daily'[d] \in 0..2 /\ daily'[d] <= Made(d)
               /\ daily[d] = Made(d) => daily'[d] = Made(d)
               /\ d \in (Rollup!Today - n)..to => daily'[d] = Made(d)
    <3>1. /\ d \in Nat /\ daily[d] \in 0..2 /\ Made(d) \in 0..2 /\ daily[d] <= Made(d)
          /\ Rollup!Count(raw, d) \in 0..2
      BY <1>1, <2>1, RollupNumbers, CountIs DEF CountedOK
    <3>2. daily'[d] = IF d \in (Rollup!Today - n)..to /\ Rollup!Count(raw, d) > 0
                      THEN Rollup!Count(raw, d) ELSE daily[d]
      BY <1>2, <2>1 DEF Rollup!Rolled
    <3>3. d \in (Rollup!Today - n)..to => Rollup!Count(raw, d) = Made(d)
      BY <1>1, <1>2, <3>1, WindowUndeleted
    <3>. QED BY <3>1, <3>2, <3>3
  <2>2. daily' = [d \in Rollup!Days |-> daily'[d]]
    BY <1>2 DEF Rollup!Rolled
  <2>. QED BY <2>1, <2>2 DEF Recounted
<1>3. CASE ok /\ daily' = Rollup!Rolled(Rollup!Today - n, Rollup!Today) /\ UNCHANGED failures
  <2>1. failures' \in 0..MaxUpsets
    BY <1>3 DEF RollupTypes
  <2>2. \A d \in Rollup!Days :
          d >= Rollup!Today - n /\ d <= Rollup!Today => d \in (Rollup!Today - n)..Rollup!Today
    BY <1>1
  <2>. QED BY <1>1, <1>2, <1>3, <2>1, <2>2
<1>4. CASE /\ ~ok /\ Rollup!Fault("rollup")
           /\ \E d \in (Rollup!Today - n)..Rollup!Today :
                daily' = Rollup!Rolled(Rollup!Today - n, d - 1)
  <2>1. failures' \in 0..MaxUpsets /\ "rollup" \in upset
    BY <1>4, RollupNames DEF Rollup!Fault, RollupTypes
  <2>. QED BY <1>1, <1>2, <1>4, <2>1
<1>. QED BY <1>3, <1>4 DEF Rollup!RollupRange

\* What is recomputed stays counted.
LEMMA RecountKeepsCounts ==
    ASSUME CountedOK, Recounted, UNCHANGED <<now, made, raw, since>>
    PROVE  CountedOK'
BY DEF CountedOK, Recounted, Made, Over

\* And so do the aggregates of a window under export.
LEMMA RecountKeepsShipped ==
    ASSUME ShippedOK, Recounted, UNCHANGED <<now, made, warehouse, export>>,
           since'.export = since.export
    PROVE  ShippedOK'
<1>1. Began' = Began
  BY DEF Began
<1>2. ASSUME WindowOK(export["worker"]) PROVE WindowOK(export["worker"])'
  BY <1>1, <1>2 DEF WindowOK, Recounted, Made, Over
<1>. QED BY <1>1, <1>2 DEF ShippedOK, Made, Over

\* Initially nothing was requested.
LEMMA RollupStarts == Rollup!Init => RollupIInv
<1>. SUFFICES ASSUME Rollup!Init PROVE RollupIInv
  OBVIOUS
<1>1. /\ now = 0 /\ made = {} /\ raw = {} /\ failures = 0 /\ asks = 0 /\ upset \in Upsets
      /\ daily = [d \in Rollup!Days |-> 0] /\ warehouse = [d \in Rollup!Days |-> 0]
      /\ window = Rollup!NoRetry
      /\ export = [e \in Rollup!Exporters |-> Rollup!NoJob]
      /\ since = [rollup |-> 0, export |-> 0]
  BY DEF Rollup!Init
<1>2. \A e \in Rollup!Exporters :
        /\ export[e].pc = "idle" /\ export[e].rows = {} /\ export[e].since = 0
        /\ export[e].late = FALSE
  BY <1>1 DEF Rollup!NoJob
<1>3. /\ Rollup!Today = Rollup!Day(0) /\ Rollup!Day(0) \in Nat /\ Rollup!Days \subseteq Nat
      /\ Rollup!NoRetry \in Nat /\ 0 \in 0..MaxHalfDays
      /\ 0 \in 0..MaxGap /\ 0 \in 0..MaxOutage /\ 0 \in 0..MaxUpsets /\ 0 \in 0..MaxAsks
  <2>1. Rollup!Day(0) \in Nat /\ Rollup!Day(MaxHalfDays) \in Nat
    BY RollupNames, HalfDays
  <2>2. Rollup!Today = Rollup!Day(0)
    BY <1>1 DEF Rollup!Today
  <2>3. Rollup!Days \subseteq Nat /\ Rollup!NoRetry \in Nat
    BY <2>1 DEF Rollup!Days, Rollup!NoRetry
  <2>. QED BY <2>1, <2>2, <2>3, RollupNames
<1>4. RollupTypes
  <2>1. Rollup!NoJob \in Shipment
    BY DEF Rollup!NoJob, Shipment
  <2>2. Rollup!Cardinality({}) = 0 /\ 0 <= RowLimit
    BY RollupCount, RollupNames, FS_EmptySet
  <2>3. export \in [Rollup!Exporters -> Shipment]
    BY <1>1, <2>1
  <2>4. \A e \in Rollup!Exporters :
          /\ export[e].since <= Rollup!Today
          /\ Rollup!Cardinality(export[e].rows) <= RowLimit
    BY <1>2, <1>3, <2>2
  <2>. QED BY <1>1, <1>3, <2>3, <2>4 DEF RollupTypes
<1>5. \A d \in Rollup!Days : Made(d) = 0 /\ daily[d] = 0 /\ warehouse[d] = 0
  <2>. TAKE d \in Rollup!Days
  <2>1. Made(d) \in 0..2 /\ ~(Made(d) > 0)
    BY <1>1, <1>3, CountIs DEF Made
  <2>. QED BY <1>1, <2>1
<1>6. CountedOK
  BY <1>1, <1>5 DEF CountedOK
<1>7. ShippedOK
  <2>1. Began = now
    <3>1. export["worker"].late = FALSE
      BY <1>2, RollupNames
    <3>2. Began = now - 0
      BY <3>1, Zenon DEF Began
    <3>. QED BY <1>1, <3>2
  <2>. QED BY <1>1, <1>2, <1>5, <2>1, RollupNames DEF ShippedOK
<1>. QED BY <1>4, <1>6, <1>7 DEF RollupIInv

\* When the worker's export began is not later than now.
LEMMA BeganIs ==
    ASSUME RollupTypes
    PROVE  /\ Began \in Int /\ Began <= now /\ now <= Began + 1
           /\ \A d \in Nat : Over(d, Began) => Over(d, now)
<1>1. now \in Nat
  BY DaysAre
<1>2. Began = now - 1 \/ Began = now - 0
  <2>1. CASE export["worker"].late
    BY <2>1, Zenon DEF Began
  <2>2. CASE ~export["worker"].late
    BY <2>2, Zenon DEF Began
  <2>. QED BY <2>1, <2>2
<1>. QED BY <1>1, <1>2 DEF Over

\* A request counts for today only.
LEMMA RequestMade ==
    ASSUME RollupTypes, made' = made \cup {now}
    PROVE  \A d \in Nat : /\ Made(d) <= Made(d)'
                          /\ Over(d, now) => Made(d)' = Made(d)
<1>. SUFFICES ASSUME NEW d \in Nat
              PROVE  Made(d) <= Made(d)' /\ (Over(d, now) => Made(d)' = Made(d))
  OBVIOUS
<1>1. made \in SUBSET Nat /\ now \in Nat
  BY DaysAre, RollupNumbers
<1>2. made' \in SUBSET Nat /\ made \in SUBSET made'
  BY <1>1
<1>3. Made(d) <= Made(d)'
  BY <1>2, CountGrows DEF Made
<1>4. ASSUME Over(d, now) PROVE Made(d)' = Made(d)
  <2>1. Rollup!Day(now) # d
    BY <1>1, <1>4, HalfDays DEF Over
  <2>2. \A t : Rollup!Day(t) = d => (t \in made' <=> t \in made)
    BY <2>1
  <2>. QED BY <2>2, CountSame DEF Made
<1>. QED BY <1>3, <1>4

LEMMA RequestStep ==
    ASSUME RollupIInv, Rollup!Request
    PROVE  RollupIInv'
<1>1. /\ now \notin made /\ made' = made \cup {now} /\ raw' = raw \cup {now}
      /\ UNCHANGED <<now, daily, warehouse, window, export, since, failures, asks, upset>>
  BY DEF Rollup!Request
<1>2. RollupTypes /\ CountedOK
  BY DEF RollupIInv
<1>3. RollupTypes'
  <2>1. now \in Nat /\ raw' \subseteq made' /\ made' \subseteq 0..now
    BY <1>1, <1>2, DaysAre DEF RollupTypes
  <2>. QED BY <1>1, <1>2, <2>1 DEF RollupTypes, Rollup!Today
<1>4. \A d \in Rollup!Days : /\ d \in Nat /\ Made(d) <= Made(d)'
                             /\ Made(d) \in 0..2 /\ Made(d)' \in 0..2
                             /\ Over(d, now) => Made(d)' = Made(d)
  <2>1. \A d \in Nat : Made(d)' \in 0..2
    <3>1. made' \in SUBSET Nat
      BY <1>1, <1>2, DaysAre, RollupNumbers
    <3>. QED BY <3>1, CountIs DEF Made
  <2>. QED BY <1>1, <1>2, <2>1, DaysAre, RollupNumbers, RequestMade
<1>5. CountedOK'
  <2>1. ASSUME NEW d \in Rollup!Days
        PROVE  /\ daily[d] <= Made(d)'
               /\ Over(d, now - since.rollup) => daily[d] = Made(d)'
    <3>1. daily[d] \in 0..2 /\ now \in Nat /\ since.rollup \in Nat
      BY <1>2, <2>1, DaysAre, RollupNumbers
    <3>2. Over(d, now - since.rollup) => Over(d, now)
      BY <1>4, <3>1 DEF Over
    <3>. QED BY <1>2, <1>4, <3>1, <3>2 DEF CountedOK
  <2>2. made' \ raw' \subseteq made \ raw
    BY <1>1
  <2>3. \A d \in Rollup!Days : Over(d, now - since.rollup)' = Over(d, now - since.rollup)
    BY <1>1 DEF Over
  <2>. QED BY <1>1, <1>2, <2>1, <2>2, <2>3 DEF CountedOK
<1>6. ASSUME ShippedOK PROVE ShippedOK'
  <2>1. Began' = Began /\ Began <= now /\ now - since.export <= Began
        /\ \A d \in Nat : Over(d, Began) => Over(d, now)
    BY <1>1, <1>2, <1>6, BeganIs DEF Began, ShippedOK
  <2>2. ASSUME NEW d \in Rollup!Days
        PROVE  /\ warehouse[d] <= Made(d)'
               /\ Over(d, now - since.export) => warehouse[d] = Made(d)'
    <3>1. warehouse[d] \in 0..2 /\ now \in Nat /\ since.export \in Nat
      BY <1>2, <2>2, DaysAre, RollupNumbers
    <3>2. Over(d, now - since.export) => Over(d, now)
      BY <1>4, <3>1 DEF Over
    <3>. QED BY <1>4, <1>6, <3>1, <3>2 DEF ShippedOK
  <2>3. ASSUME WindowOK(export["worker"]) PROVE WindowOK(export["worker"])'
    <3>. DEFINE ship == export["worker"]
    <3>1. \A row \in ship.rows : row[1] \in Rollup!Days /\ row[2] \in 1..2
      BY <1>2, RollupNames DEF RollupTypes, Shipment
    <3>2. \A d \in Rollup!Days : Over(d, Began) => Made(d)' = Made(d)
      BY <1>4, <2>1
    <3>3. \A row \in ship.rows :
            row[2] <= Made(row[1])' /\ (Over(row[1], Began) => row[2] = Made(row[1])')
      <4>. TAKE row \in ship.rows
      <4>1. /\ row[2] \in 1..2 /\ row[1] \in Rollup!Days
            /\ row[2] <= Made(row[1]) /\ (Over(row[1], Began) => row[2] = Made(row[1]))
        BY <2>3, <3>1 DEF WindowOK
      <4>2. /\ Made(row[1]) <= Made(row[1])' /\ Made(row[1]) \in 0..2 /\ Made(row[1])' \in 0..2
            /\ Over(row[1], Began) => Made(row[1])' = Made(row[1])
        BY <1>4, <3>2, <4>1
      <4>. QED BY <4>1, <4>2
    <3>4. \A d : Over(d, Began)' = Over(d, Began)
      BY <2>1 DEF Over
    <3>. QED BY <1>1, <2>1, <2>3, <3>2, <3>3, <3>4 DEF WindowOK
  <2>4. \A d \in Rollup!Days : Over(d, now - since.export)' = Over(d, now - since.export)
    BY <1>1 DEF Over
  <2>. QED BY <1>1, <1>6, <2>1, <2>2, <2>3, <2>4 DEF ShippedOK
<1>. QED BY <1>1, <1>3, <1>5, <1>6 DEF RollupIInv

\* Time passes, and over each export at most once.
LEMMA RollupAdvanceStep ==
    ASSUME Rollup!WindowsFit, RollupIInv, Rollup!Advance
    PROVE  RollupIInv'
<1>1. /\ now < MaxHalfDays /\ since.rollup < MaxGap /\ since.export < MaxOutage
      /\ \A e \in Rollup!Exporters : ~export[e].late
      /\ now' = now + 1
      /\ since' = [rollup |-> since.rollup + 1, export |-> since.export + 1]
      /\ export' = [e \in Rollup!Exporters |-> [export[e] EXCEPT !.late = export[e].pc # "idle"]]
      /\ UNCHANGED <<made, raw, daily, warehouse, window, failures, asks, upset>>
  BY DEF Rollup!Advance
<1>2. RollupTypes /\ CountedOK
  BY DEF RollupIInv
<1>3. /\ now \in Nat /\ MaxHalfDays \in Nat /\ now' \in Nat /\ now' <= MaxHalfDays
      /\ Rollup!Today \in Nat /\ Rollup!Today' \in Nat /\ Rollup!Today <= Rollup!Today'
  <2>1. now \in Nat /\ MaxHalfDays \in Nat /\ now' \in Nat /\ now' <= MaxHalfDays
    BY <1>1, <1>2, DaysAre
  <2>2. Rollup!Today = Rollup!Day(now) /\ Rollup!Today' = Rollup!Day(now')
    BY DEF Rollup!Today
  <2>3. /\ Rollup!Day(now) \in Nat /\ 2 * Rollup!Day(now) <= now /\ now <= 2 * Rollup!Day(now) + 1
        /\ Rollup!Day(now') \in Nat /\ 2 * Rollup!Day(now') <= now' /\ now' <= 2 * Rollup!Day(now') + 1
    BY <2>1, HalfDays
  <2>. QED BY <1>1, <2>1, <2>2, <2>3
<1>4. \A e \in Rollup!Exporters :
        /\ export'[e] \in Shipment
        /\ export'[e].pc = export[e].pc /\ export'[e].since = export[e].since
        /\ export'[e].rows = export[e].rows /\ export'[e].ok = export[e].ok
        /\ export'[e].late = (export[e].pc # "idle")
  <2>. TAKE e \in Rollup!Exporters
  <2>1. export[e] \in Shipment /\ export'[e] = [export[e] EXCEPT !.late = export[e].pc # "idle"]
    BY <1>1, <1>2 DEF RollupTypes
  <2>. QED BY <2>1 DEF Shipment
<1>5. /\ since'.rollup = since.rollup + 1 /\ since'.export = since.export + 1
      /\ since.rollup \in Nat /\ since.export \in Nat
      /\ since' \in [rollup : 0..MaxGap, export : 0..MaxOutage]
  BY <1>1, <1>2, RollupNumbers, RollupNames
<1>6. RollupTypes'
  <2>1. export' \in [Rollup!Exporters -> Shipment]
    BY <1>1, <1>4
  <2>2. \A e \in Rollup!Exporters :
          export'[e].since <= Rollup!Today' /\ Rollup!Cardinality(export'[e].rows) <= RowLimit
    <3>. TAKE e \in Rollup!Exporters
    <3>1. /\ export[e].since \in Int /\ export[e].since <= Rollup!Today
          /\ Rollup!Cardinality(export[e].rows) <= RowLimit
      BY <1>2 DEF RollupTypes, Shipment
    <3>. QED BY <1>3, <1>4, <3>1
  <2>3. window \in Int /\ (window # Rollup!NoRetry => window <= Rollup!Today')
    BY <1>2, <1>3 DEF RollupTypes
  <2>4. now' \in 0..MaxHalfDays /\ made \subseteq 0..now'
    BY <1>2, <1>3, <1>1 DEF RollupTypes
  <2>. QED BY <1>1, <1>2, <1>5, <2>1, <2>2, <2>3, <2>4 DEF RollupTypes
<1>7. now' - since'.rollup = now - since.rollup /\ now' - since'.export = now - since.export
  <2>1. now' = now + 1 /\ now \in Nat
    BY <1>1, <1>3
  <2>. QED BY <1>5, <2>1
<1>8. CountedOK'
  <2>1. \A t \in made \ raw : t < now' - 2 * RequestDays
    <3>. TAKE t \in made \ raw
    <3>1. t \in Nat /\ t < now - 2 * RequestDays /\ RequestDays \in Nat
      BY <1>2, RollupNumbers, RollupNames DEF CountedOK
    <3>. QED BY <1>1, <1>3, <3>1
  <2>2. \A d : Over(d, now - since.rollup)' = Over(d, now - since.rollup) /\ Made(d)' = Made(d)
    BY <1>1, <1>7 DEF Over, Made
  <2>. QED BY <1>1, <1>2, <2>1, <2>2 DEF CountedOK
<1>9. ASSUME ShippedOK PROVE ShippedOK'
  <2>1. "worker" \in Rollup!Exporters /\ Admins \subseteq Rollup!Exporters
    BY RollupNames
  <2>2. export["worker"].pc # "idle" => Began' = Began
    <3>. SUFFICES ASSUME export["worker"].pc # "idle" PROVE Began' = Began
      OBVIOUS
    <3>1. export'["worker"].late = TRUE /\ export["worker"].late = FALSE
      <4>1. export["worker"].late \in BOOLEAN
        BY <1>2, <2>1 DEF RollupTypes, Shipment
      <4>. QED BY <1>1, <1>4, <2>1, <4>1
    <3>2. Began' = now' - 1 /\ Began = now - 0
      BY <3>1, Zenon DEF Began
    <3>. QED BY <1>1, <1>3, <3>2
  <2>3. now' - since'.export <= Began'
    <3>1. Began' = now' - 1 \/ Began' = now' - 0
      <4>1. CASE export'["worker"].late
        BY <4>1, Zenon DEF Began
      <4>2. CASE ~export'["worker"].late
        BY <4>2, Zenon DEF Began
      <4>. QED BY <4>1, <4>2
    <3>2. since'.export \in Nat /\ since'.export >= 1
      BY <1>5
    <3>. QED BY <1>3, <3>1, <3>2
  <2>4. \A d : Made(d)' = Made(d) /\ Over(d, now - since.export)' = Over(d, now - since.export)
    BY <1>1, <1>7 DEF Made, Over
  <2>5. ASSUME export["worker"].pc # "idle" PROVE WindowOK(export["worker"])'
    <3>1. WindowOK(export["worker"]) /\ Began' = Began
      BY <1>9, <2>2, <2>5 DEF ShippedOK
    <3>2. \A d : Over(d, Began)' = Over(d, Began)
      BY <3>1 DEF Over
    <3>. QED BY <1>1, <1>4, <2>1, <2>4, <3>1, <3>2 DEF WindowOK
  <2>. QED BY <1>1, <1>4, <1>9, <2>1, <2>3, <2>4, <2>5 DEF ShippedOK
<1>. QED BY <1>1, <1>2, <1>6, <1>8, <1>9 DEF RollupIInv

\* Days that were over and left the window of the last rollup were counted before.
LEMMA RollupCovers ==
    ASSUME Rollup!WindowsFit, RollupTypes, CountedOK, Recounted,
           \A d \in Rollup!Days :
             d >= Rollup!Today - RollDays /\ d <= Rollup!Today => daily'[d] = Made(d)
    PROVE  \A d \in Rollup!Days : Over(d, now) => daily'[d] = Made(d)
<1>. SUFFICES ASSUME NEW d \in Rollup!Days, Over(d, now) PROVE daily'[d] = Made(d)
  OBVIOUS
<1>1. /\ d \in Nat /\ now \in Nat /\ Rollup!Today = Rollup!Day(now) /\ Rollup!Today \in Nat
      /\ RollDays \in Nat /\ MaxGap \in Nat /\ MaxGap <= 2 * RollDays
      /\ since.rollup \in Nat /\ since.rollup <= MaxGap
  BY DaysAre, RollupNames, RollupNumbers DEF Rollup!WindowsFit
<1>2. 2 * Rollup!Today <= now /\ now <= 2 * Rollup!Today + 1
  BY <1>1, HalfDays
<1>3. CASE d >= Rollup!Today - RollDays
  <2>1. d <= Rollup!Today
    BY <1>1, <1>2 DEF Over
  <2>. QED BY <1>3, <2>1
<1>4. CASE ~(d >= Rollup!Today - RollDays)
  <2>1. Over(d, now - since.rollup)
    BY <1>1, <1>2, <1>4 DEF Over
  <2>. QED BY <2>1 DEF CountedOK, Recounted
<1>. QED BY <1>3, <1>4

\* The retention worker counts its window and then deletes what is old.
LEMMA RetainStep ==
    ASSUME Rollup!WindowsFit, RollupIInv, Rollup!Retain
    PROVE  RollupIInv'
<1>1. PICK ok \in BOOLEAN :
        /\ Rollup!RollupRange(RollDays, ok)
        /\ since' = IF ok THEN [since EXCEPT !.rollup = 0] ELSE since
  BY DEF Rollup!Retain
<1>2. /\ raw' \in {raw, {t \in raw : t >= now - 2 * RequestDays}}
      /\ UNCHANGED <<now, made, warehouse, window, export, asks, upset>>
  BY DEF Rollup!Retain
<1>3. RollupTypes /\ CountedOK
  BY DEF RollupIInv
<1>4. /\ Recounted /\ failures' \in 0..MaxUpsets
      /\ ok => \A d \in Rollup!Days :
                 d >= Rollup!Today - RollDays /\ d <= Rollup!Today => daily'[d] = Made(d)
  BY <1>1, <1>3, RangeRecounts
<1>5. /\ since' \in [rollup : 0..MaxGap, export : 0..MaxOutage] /\ since'.export = since.export
      /\ since'.rollup = IF ok THEN 0 ELSE since.rollup
  BY <1>1, <1>3, RollupNames DEF RollupTypes
<1>6. RollupTypes'
  <2>1. raw' \subseteq made'
    BY <1>2, <1>3 DEF RollupTypes
  <2>. QED BY <1>2, <1>3, <1>4, <1>5, <2>1 DEF RollupTypes, Rollup!Today, Recounted
<1>7. CountedOK'
  <2>1. \A d \in Rollup!Days : daily'[d] <= Made(d)'
    BY <1>2, <1>4 DEF Recounted, Made
  <2>2. ASSUME NEW d \in Rollup!Days, Over(d, now - since'.rollup) PROVE daily'[d] = Made(d)
    <3>1. CASE ok
      <4>1. now \in Nat /\ since'.rollup = 0
        BY <1>3, <1>5, <3>1, DaysAre
      <4>2. Over(d, now)
        BY <2>2, <4>1 DEF Over
      <4>. QED BY <1>3, <1>4, <3>1, <4>2, RollupCovers
    <3>2. CASE ~ok
      BY <1>3, <1>4, <1>5, <2>2, <3>2 DEF CountedOK, Recounted
    <3>. QED BY <3>1, <3>2
  <2>3. ASSUME NEW t \in made \ raw' PROVE t < now - 2 * RequestDays
    <3>1. t \in Nat /\ now \in Nat /\ RequestDays \in Nat
      BY <1>3, <2>3, DaysAre, RollupNumbers, RollupNames
    <3>. QED BY <1>2, <1>3, <2>3, <3>1 DEF CountedOK
  <2>4. \A d : Over(d, now - since.rollup)' = Over(d, now - since'.rollup) /\ Made(d)' = Made(d)
    BY <1>2 DEF Over, Made
  <2>. QED BY <1>2, <2>1, <2>2, <2>3, <2>4 DEF CountedOK
<1>8. ShippedOK => ShippedOK'
  BY <1>2, <1>4, <1>5, RecountKeepsShipped
<1>. QED BY <1>2, <1>6, <1>7, <1>8 DEF RollupIInv

\* An administrator recomputes.
LEMMA AdminRollupStep ==
    ASSUME Rollup!WindowsFit, RollupIInv, Rollup!AdminRollup
    PROVE  RollupIInv'
<1>1. PICK n \in AdminDays, ok \in BOOLEAN : Rollup!RollupRange(n, ok)
  BY DEF Rollup!AdminRollup
<1>2. UNCHANGED <<now, made, raw, warehouse, window, export, since, asks, upset>>
  BY DEF Rollup!AdminRollup
<1>3. RollupTypes /\ CountedOK
  BY DEF RollupIInv
<1>4. Recounted /\ failures' \in 0..MaxUpsets
  BY <1>1, <1>3, RangeRecounts
<1>5. RollupTypes'
  BY <1>2, <1>3, <1>4 DEF RollupTypes, Rollup!Today, Recounted
<1>6. CountedOK' /\ (ShippedOK => ShippedOK')
  BY <1>2, <1>3, <1>4, RecountKeepsCounts, RecountKeepsShipped
<1>. QED BY <1>2, <1>5, <1>6 DEF RollupIInv

\* One export's record changes.
LEMMA ShipmentStep ==
    ASSUME RollupTypes, NEW e \in Rollup!Exporters, NEW new \in Shipment,
           export' = [export EXCEPT ![e] = new],
           new.since <= Rollup!Today, Rollup!Cardinality(new.rows) <= RowLimit
    PROVE  /\ export' \in [Rollup!Exporters -> Shipment]
           /\ export'[e] = new /\ \A d \in Rollup!Exporters \ {e} : export'[d] = export[d]
           /\ \A d \in Rollup!Exporters :
                /\ export'[d].since <= Rollup!Today
                /\ Rollup!Cardinality(export'[d].rows) <= RowLimit
BY DEF RollupTypes

\* An export begins with an empty record.
LEMMA BeginIs ==
    ASSUME RollupTypes, NEW e \in Rollup!Exporters,
           NEW first \in Int, first <= Rollup!Today, Rollup!Begin(e, first)
    PROVE  /\ export' \in [Rollup!Exporters -> Shipment]
           /\ \A d \in Rollup!Exporters \ {e} : export'[d] = export[d]
           /\ export'[e].pc = "list" /\ export'[e].since = first /\ export'[e].rows = {}
           /\ export'[e].late = FALSE /\ export'[e].ok = FALSE
           /\ \A d \in Rollup!Exporters :
                /\ export'[d].since <= Rollup!Today
                /\ Rollup!Cardinality(export'[d].rows) <= RowLimit
<1>1. PICK new : /\ new = [Rollup!NoJob EXCEPT !.pc = "list", !.since = first]
                 /\ export' = [export EXCEPT ![e] = new]
  BY Zenon DEF Rollup!Begin
<1>2. /\ new \in Shipment /\ new.pc = "list" /\ new.since = first /\ new.rows = {}
      /\ new.late = FALSE /\ new.ok = FALSE
  BY <1>1 DEF Rollup!NoJob, Shipment
<1>3. Rollup!Cardinality(new.rows) <= RowLimit
  BY <1>2, RollupCount, RollupNames, FS_EmptySet
<1>. QED BY <1>1, <1>2, <1>3, ShipmentStep

\* The first days of the windows.
LEMMA WindowStarts ==
    ASSUME RollupTypes, NEW n \in AdminDays \cup {RollDays, SinkDays}
    PROVE  Rollup!Today - n \in Int /\ Rollup!Today - n <= Rollup!Today
<1>1. n \in Nat /\ Rollup!Today \in Nat
  BY RollupNames, DaysAre
<1>. QED BY <1>1

\* The worker counts its window and begins to export it.
LEMMA WorkerExportStep ==
    ASSUME Rollup!WindowsFit, RollupIInv, Rollup!WorkerExport
    PROVE  RollupIInv'
<1>1. PICK ok \in BOOLEAN : Rollup!RollupRange(SinkDays, ok)
  BY DEF Rollup!WorkerExport
<1>2. /\ Rollup!Begin("worker", Rollup!Today - SinkDays)
      /\ UNCHANGED <<now, made, raw, warehouse, window, since, asks, upset>>
  BY DEF Rollup!WorkerExport
<1>3. RollupTypes /\ CountedOK /\ "worker" \in Rollup!Exporters
  BY RollupNames DEF RollupIInv
<1>4. /\ Recounted /\ failures' \in 0..MaxUpsets /\ (ok \/ "rollup" \in upset)
      /\ ok => \A d \in Rollup!Days :
                 d >= Rollup!Today - SinkDays /\ d <= Rollup!Today => daily'[d] = Made(d)
  BY <1>1, <1>3, RangeRecounts
<1>5. /\ export' \in [Rollup!Exporters -> Shipment]
      /\ \A d \in Rollup!Exporters \ {"worker"} : export'[d] = export[d]
      /\ export'["worker"].pc = "list" /\ export'["worker"].rows = {}
      /\ export'["worker"].since = Rollup!Today - SinkDays
      /\ export'["worker"].late = FALSE /\ export'["worker"].ok = FALSE
      /\ \A d \in Rollup!Exporters :
           /\ export'[d].since <= Rollup!Today
           /\ Rollup!Cardinality(export'[d].rows) <= RowLimit
  BY <1>2, <1>3, BeginIs, WindowStarts
<1>6. RollupTypes'
  BY <1>2, <1>3, <1>4, <1>5 DEF RollupTypes, Rollup!Today, Recounted
<1>7. CountedOK'
  BY <1>2, <1>3, <1>4, RecountKeepsCounts
<1>8. ASSUME ShippedOK, "rollup" \notin upset PROVE ShippedOK'
  <2>1. now \in Nat /\ since.export \in Nat /\ Rollup!Today = Rollup!Day(now) /\ Rollup!Today \in Nat
    BY <1>3, DaysAre, RollupNumbers
  <2>2. Began' = now' - 0
    BY <1>5, Zenon DEF Began
  <2>3. Began' = now /\ now - since.export <= Began'
    BY <1>2, <2>1, <2>2
  <2>4. \A d \in Rollup!Days : d >= Rollup!Today - SinkDays /\ Over(d, now) => daily'[d] = Made(d)
    <3>. SUFFICES ASSUME NEW d \in Rollup!Days, d >= Rollup!Today - SinkDays, Over(d, now)
                  PROVE  daily'[d] = Made(d)
      OBVIOUS
    <3>1. d \in Nat /\ now <= 2 * Rollup!Today + 1
      BY <1>3, <2>1, DaysAre, HalfDays
    <3>2. d <= Rollup!Today
      BY <2>1, <3>1 DEF Over
    <3>. QED BY <1>4, <1>8, <3>2
  <2>5. \A d : Made(d)' = Made(d) /\ Over(d, Began)' = Over(d, now)
    BY <1>2, <2>3 DEF Made, Over
  <2>6. Rollup!Day(Began)' = Rollup!Today
    BY <2>1, <2>3 DEF Rollup!Day
  <2>7. WindowOK(export["worker"])'
    BY <1>5, <2>4, <2>5, <2>6 DEF WindowOK
  <2>8. \A d : Over(d, now - since.export)' = Over(d, now - since.export)
    BY <1>2 DEF Over
  <2>9. \A e \in Admins : export'[e].pc = "idle"
    BY <1>5, <1>8, RollupNames DEF ShippedOK
  <2>. QED BY <1>2, <1>8, <2>3, <2>5, <2>7, <2>8, <2>9 DEF ShippedOK
<1>. QED BY <1>2, <1>6, <1>7, <1>8 DEF RollupIInv

\* An administrator exports or retries: the warehouse may then show older counts.
LEMMA AdminExportStep ==
    ASSUME Rollup!WindowsFit, RollupIInv, NEW e \in Admins,
           Rollup!AdminExport(e) \/ Rollup!AdminRetry(e)
    PROVE  RollupIInv'
<1>1. RollupTypes /\ CountedOK /\ e \in Rollup!Exporters
  BY RollupNames DEF RollupIInv
<1>2. /\ asks < MaxAsks /\ asks' = asks + 1
      /\ UNCHANGED <<now, made, raw, warehouse, window, since, upset>>
  BY DEF Rollup!AdminExport, Rollup!AdminRetry, Rollup!Ask
<1>3. asks' \in 0..MaxAsks /\ asks' # 0
  BY <1>1, <1>2, RollupNames DEF RollupTypes
<1>4. /\ Recounted /\ failures' \in 0..MaxUpsets
      /\ \E first \in Int : first <= Rollup!Today /\ Rollup!Begin(e, first)
  <2>1. CASE Rollup!AdminExport(e)
    <3>1. PICK n \in AdminDays, ok \in BOOLEAN :
            Rollup!RollupRange(n, ok) /\ Rollup!Begin(e, Rollup!Today - n)
      BY <2>1 DEF Rollup!AdminExport
    <3>2. Recounted /\ failures' \in 0..MaxUpsets
      BY <1>1, <3>1, RangeRecounts
    <3>. QED BY <1>1, <3>1, <3>2, WindowStarts
  <2>2. CASE Rollup!AdminRetry(e)
    <3>1. /\ UNCHANGED <<daily, failures>>
          /\ \/ window # Rollup!NoRetry /\ Rollup!Begin(e, window)
             \/ Rollup!Begin(e, Rollup!Today - SinkDays)
      BY <2>2 DEF Rollup!AdminRetry
    <3>2. Recounted /\ failures' \in 0..MaxUpsets
      BY <1>1, <3>1 DEF Recounted, RollupTypes, CountedOK
    <3>3. window # Rollup!NoRetry => window \in Int /\ window <= Rollup!Today
      BY <1>1 DEF RollupTypes
    <3>. QED BY <1>1, <3>1, <3>2, <3>3, WindowStarts
  <2>. QED BY <2>1, <2>2
<1>5. /\ export' \in [Rollup!Exporters -> Shipment]
      /\ \A d \in Rollup!Exporters :
           /\ export'[d].since <= Rollup!Today
           /\ Rollup!Cardinality(export'[d].rows) <= RowLimit
  BY <1>1, <1>4, BeginIs
<1>6. RollupTypes'
  BY <1>1, <1>2, <1>3, <1>4, <1>5 DEF RollupTypes, Rollup!Today, Recounted
<1>7. CountedOK'
  BY <1>1, <1>2, <1>4, RecountKeepsCounts
<1>. QED BY <1>3, <1>6, <1>7 DEF RollupIInv

\* Numbers above which there are fewer than n others are n at most.
LEMMA TopBounded ==
    ASSUME NEW n \in Nat, NEW S \in SUBSET Nat, IsFiniteSet(S),
           NEW T \in SUBSET S, \A x \in T : Cardinality({y \in S : y > x}) < n
    PROVE  IsFiniteSet(T) /\ Cardinality(T) <= n
<1>. DEFINE R == {ss \in Nat \X Nat : ss[1] < ss[2]}
<1>1. IsFiniteSet(T)
  BY FS_Subset
<1>2. CASE T = {}
  BY <1>1, <1>2, FS_EmptySet
<1>3. CASE T # {}
  <2>1. IsWellFoundedOn(R, Nat)
    BY NatLessThanWellFounded DEF OpToRel
  <2>2. T \subseteq Nat
    OBVIOUS
  <2>. HIDE DEF R
  <2>3. PICK m \in T : \A y \in T : ~(<<y, m>> \in R)
    BY <1>3, <2>1, <2>2, WFMin
  <2>4. \A y \in T \ {m} : y > m
    <3>. SUFFICES ASSUME NEW y \in T, y # m PROVE y > m
      OBVIOUS
    <3>1. y \in Nat /\ m \in Nat
      BY <2>2
    <3>2. ~(y < m)
      BY <2>3, <3>1 DEF R
    <3>. QED BY <3>1, <3>2
  <2>5. T \ {m} \subseteq {y \in S : y > m}
    BY <2>4
  <2>6. IsFiniteSet({y \in S : y > m})
    BY FS_Subset
  <2>7. /\ IsFiniteSet(T \ {m}) /\ Cardinality(T \ {m}) = Cardinality(T) - 1
        /\ Cardinality(T) \in Nat /\ Cardinality({y \in S : y > m}) \in Nat
    BY <1>1, <2>6, FS_RemoveElement, FS_CardinalityType
  <2>8. Cardinality(T \ {m}) <= Cardinality({y \in S : y > m})
    BY <2>5, <2>6, FS_Subset
  <2>9. Cardinality({y \in S : y > m}) < n
    BY <2>3
  <2>. QED BY <1>1, <2>7, <2>8, <2>9
<1>. QED BY <1>2, <1>3

\* An export reads aggregates as they are, and not too many; if its window is no longer
\* than the worker's, all of them.
LEMMA ListedIs ==
    ASSUME Rollup!WindowsFit, RollupTypes, CountedOK, NEW first \in Int
    PROVE  /\ Rollup!Listed(first) \in SUBSET (Rollup!Days \X (1..2))
           /\ Rollup!Cardinality(Rollup!Listed(first)) <= RowLimit
           /\ \A row \in Rollup!Listed(first) :
                row[1] \in Rollup!Days /\ row[2] = daily[row[1]]
           /\ first >= Rollup!Today - SinkDays - 1 =>
                \A d \in Rollup!Days :
                  d >= first /\ daily[d] > 0 => <<d, daily[d]>> \in Rollup!Listed(first)
<1>. DEFINE ds == {d \in Rollup!Days : d >= first /\ daily[d] > 0}
            above(x) == {y \in ds : y > x}
            top == {x \in ds : Cardinality(above(x)) < RowLimit}
<1>1. Rollup!Listed(first) = {<<d, daily[d]>> : d \in top}
  BY RollupCount DEF Rollup!Listed
<1>2. /\ RowLimit \in Nat /\ SinkDays \in Nat /\ SinkDays + 2 <= RowLimit
      /\ Rollup!Today \in Nat /\ Rollup!Days \subseteq Nat
  BY RollupNames, DaysAre DEF Rollup!WindowsFit
<1>3. \A d \in Rollup!Days : d \in Nat /\ daily[d] \in 0..2 /\ (daily[d] > 0 => d <= Rollup!Today)
  <2>. TAKE d \in Rollup!Days
  <2>1. /\ d \in Nat /\ daily[d] \in 0..2 /\ daily[d] <= Made(d)
        /\ d > Rollup!Today => Made(d) = 0
    BY <1>2, RollupNumbers DEF CountedOK
  <2>. QED BY <1>2, <2>1
<1>4. ds \in SUBSET Nat /\ ds \subseteq 0..Rollup!Today
  <2>1. \A d \in ds : d \in Nat /\ d <= Rollup!Today
    BY <1>3
  <2>2. \A d \in ds : d \in 0..Rollup!Today
    BY <1>2, <2>1
  <2>. HIDE DEF ds
  <2>. QED BY <2>1, <2>2
<1>5. IsFiniteSet(ds)
  <2>1. IsFiniteSet(0..Rollup!Today)
    BY <1>2, FS_Interval
  <2>. QED BY <1>4, <2>1, FS_Subset
<1>6. IsFiniteSet(top) /\ Cardinality(top) <= RowLimit
  <2>1. top \in SUBSET ds
    OBVIOUS
  <2>2. \A x \in top : Cardinality({y \in ds : y > x}) < RowLimit
    OBVIOUS
  <2>. HIDE DEF ds, top
  <2>. QED BY <1>2, <1>4, <1>5, <2>1, <2>2, TopBounded
<1>7. \A d \in top : d \in Rollup!Days /\ daily[d] \in 1..2
  BY <1>3
<1>8. Cardinality({<<d, daily[d]>> : d \in top}) <= Cardinality(top)
      /\ IsFiniteSet({<<d, daily[d]>> : d \in top})
  <2>. HIDE DEF top
  <2>. DEFINE g == [d \in top |-> <<d, daily[d]>>]
              rows == {<<d, daily[d]>> : d \in top}
  <2>1. g \in Surjection(top, rows)
    BY DEF Surjection
  <2>. QED BY <1>6, <2>1, FS_Surjection
<1>9. Cardinality({<<d, daily[d]>> : d \in top}) <= RowLimit
  BY <1>2, <1>6, <1>8, FS_CardinalityType
<1>10. ASSUME first >= Rollup!Today - SinkDays - 1, NEW x \in ds PROVE x \in top
  <2>1. x \in Nat /\ x >= first
    BY <1>4, <1>10
  <2>2. above(x) \subseteq (x + 1)..Rollup!Today
    BY <1>4, <2>1
  <2>3. /\ IsFiniteSet((x + 1)..Rollup!Today)
        /\ Cardinality((x + 1)..Rollup!Today) =
             IF x + 1 > Rollup!Today THEN 0 ELSE Rollup!Today - (x + 1) + 1
    BY <1>2, <2>1, FS_Interval
  <2>4. Cardinality((x + 1)..Rollup!Today) <= SinkDays + 1
    BY <1>2, <1>10, <2>1, <2>3
  <2>5. /\ Cardinality(above(x)) <= Cardinality((x + 1)..Rollup!Today)
        /\ Cardinality(above(x)) \in Nat /\ Cardinality((x + 1)..Rollup!Today) \in Nat
    <3>. HIDE DEF above
    <3>. QED BY <2>2, <2>3, FS_Subset, FS_CardinalityType
  <2>. QED BY <1>2, <1>10, <2>4, <2>5
<1>11. Rollup!Listed(first) \in SUBSET (Rollup!Days \X (1..2))
  <2>. HIDE DEF top
  <2>. QED BY <1>1, <1>7
<1>12. \A row \in Rollup!Listed(first) : row[1] \in Rollup!Days /\ row[2] = daily[row[1]]
  <2>. HIDE DEF top
  <2>. QED BY <1>1, <1>7
<1>13. first >= Rollup!Today - SinkDays - 1 =>
         \A d \in Rollup!Days :
           d >= first /\ daily[d] > 0 => <<d, daily[d]>> \in Rollup!Listed(first)
  <2>1. ASSUME first >= Rollup!Today - SinkDays - 1,
               NEW d \in Rollup!Days, d >= first, daily[d] > 0
        PROVE  <<d, daily[d]>> \in Rollup!Listed(first)
    <3>1. d \in top
      BY <1>10, <2>1
    <3>. HIDE DEF top
    <3>. QED BY <1>1, <3>1
  <2>. QED BY <2>1
<1>. HIDE DEF top
<1>. QED BY <1>1, <1>9, <1>11, <1>12, <1>13, RollupCount

\* A half-day of yesterday or today.
LEMMA DayBegan ==
    ASSUME RollupTypes
    PROVE  /\ Rollup!Day(Began) \in Int
           /\ 2 * Rollup!Day(Began) <= Began /\ Began <= 2 * Rollup!Day(Began) + 1
           /\ Rollup!Today - 1 <= Rollup!Day(Began)
<1>1. Began \in Int /\ now \in Nat /\ now <= Began + 1 /\ Rollup!Today = Rollup!Day(now)
  BY BeganIs, DaysAre
<1>2. ASSUME NEW t \in Int
      PROVE  Rollup!Day(t) \in Int /\ 2 * Rollup!Day(t) <= t /\ t <= 2 * Rollup!Day(t) + 1
  BY DEF Rollup!Day
<1>3. /\ Rollup!Day(Began) \in Int
      /\ 2 * Rollup!Day(Began) <= Began /\ Began <= 2 * Rollup!Day(Began) + 1
  BY <1>1, <1>2
<1>4. 2 * Rollup!Today <= now /\ Rollup!Today \in Nat
  BY <1>1, HalfDays
<1>. QED BY <1>1, <1>3, <1>4

\* Only the worker exports.
LEMMA WorkerExports ==
    ASSUME ShippedOK, NEW e \in Rollup!Exporters, export[e].pc # "idle"
    PROVE  e = "worker"
BY RollupNames DEF ShippedOK

\* An export reads its aggregates, or cannot.
LEMMA ExportListStep ==
    ASSUME Rollup!WindowsFit, RollupIInv, NEW e \in Rollup!Exporters, Rollup!ExportList(e)
    PROVE  RollupIInv'
<1>. DEFINE ship == export[e]
            read == [ship EXCEPT !.pc = "post", !.rows = Rollup!Listed(ship.since)]
            unread == [ship EXCEPT !.pc = "record"]
<1>1. RollupTypes /\ CountedOK
  BY DEF RollupIInv
<1>2. /\ ship \in Shipment /\ ship.since <= Rollup!Today
      /\ Rollup!Cardinality(ship.rows) <= RowLimit
  BY <1>1 DEF RollupTypes
<1>3. /\ ship.pc = "list"
      /\ UNCHANGED <<now, made, raw, daily, warehouse, window, since, asks, upset>>
      /\ \/ /\ export' = [export EXCEPT ![e] = read] /\ UNCHANGED failures
         \/ /\ Rollup!Fault("read")
            /\ export' = [export EXCEPT ![e] = unread]
  BY DEF Rollup!ExportList
<1>4. /\ Rollup!Listed(ship.since) \in SUBSET (Rollup!Days \X (1..2))
      /\ Rollup!Cardinality(Rollup!Listed(ship.since)) <= RowLimit
      /\ \A row \in Rollup!Listed(ship.since) :
           row[1] \in Rollup!Days /\ row[2] = daily[row[1]]
      /\ ship.since >= Rollup!Today - SinkDays - 1 =>
           \A d \in Rollup!Days :
             d >= ship.since /\ daily[d] > 0 => <<d, daily[d]>> \in Rollup!Listed(ship.since)
  <2>1. ship.since \in Int
    BY <1>2 DEF Shipment
  <2>. HIDE DEF ship
  <2>. QED BY <1>1, <2>1, ListedIs
<1>5. /\ read \in Shipment /\ read.pc = "post" /\ read.rows = Rollup!Listed(ship.since)
      /\ read.since = ship.since /\ read.late = ship.late /\ read.ok = ship.ok
      /\ unread \in Shipment /\ unread.pc = "record" /\ unread.rows = ship.rows
      /\ unread.since = ship.since /\ unread.late = ship.late /\ unread.ok = ship.ok
  BY <1>2, <1>4 DEF Shipment
<1>. HIDE DEF ship, read, unread
<1>6. failures' \in 0..MaxUpsets
  <2>1. failures \in 0..MaxUpsets /\ MaxUpsets \in Nat
    BY <1>1, RollupNames DEF RollupTypes
  <2>. QED BY <1>3, <2>1 DEF Rollup!Fault
<1>7. PICK new \in {read, unread} :
        /\ export' = [export EXCEPT ![e] = new]
        /\ export' \in [Rollup!Exporters -> Shipment]
        /\ export'[e] = new /\ \A d \in Rollup!Exporters \ {e} : export'[d] = export[d]
        /\ \A d \in Rollup!Exporters :
             /\ export'[d].since <= Rollup!Today
             /\ Rollup!Cardinality(export'[d].rows) <= RowLimit
  BY <1>1, <1>2, <1>3, <1>4, <1>5, ShipmentStep
<1>8. RollupTypes'
  BY <1>1, <1>3, <1>6, <1>7 DEF RollupTypes, Rollup!Today
<1>9. CountedOK'
  BY <1>1, <1>3 DEF CountedOK, Made, Over
<1>10. ASSUME ShippedOK PROVE ShippedOK'
  <2>1. e = "worker" /\ WindowOK(ship)
    BY <1>3, <1>10, WorkerExports DEF ShippedOK, ship
  <2>2. Began' = Began
    BY <1>3, <1>5, <1>7, <2>1 DEF Began, ship
  <2>3. ship.since >= Rollup!Today - SinkDays - 1
    <3>1. /\ Rollup!Day(Began) \in Int /\ Rollup!Today \in Nat /\ SinkDays \in Nat
          /\ Rollup!Today - 1 <= Rollup!Day(Began)
      BY <1>1, DayBegan, DaysAre, RollupNames
    <3>2. ship.since = Rollup!Day(Began) - SinkDays
      BY <2>1 DEF WindowOK
    <3>. QED BY <3>1, <3>2
  <2>4. \A d \in Rollup!Days : daily[d] <= Made(d)
    BY <1>1 DEF CountedOK
  <2>5. WindowOK(read)
    <3>1. \A row \in read.rows : row[2] <= Made(row[1]) /\ (Over(row[1], Began) => row[2] = Made(row[1]))
      <4>. TAKE row \in read.rows
      <4>1. /\ row[1] \in Rollup!Days /\ row[2] = daily[row[1]] /\ row[2] \in 1..2
            /\ Over(row[1], Began) /\ row[1] >= ship.since => daily[row[1]] = Made(row[1])
        BY <1>4, <1>5, <2>1 DEF WindowOK
      <4>2. row[1] >= ship.since
        <5>1. PICK d \in Rollup!Days : d >= ship.since /\ row = <<d, daily[d]>>
          BY <1>5 DEF Rollup!Listed
        <5>. QED BY <5>1
      <4>. QED BY <2>4, <4>1, <4>2
    <3>2. \A d \in Rollup!Days :
            d >= read.since /\ Over(d, Began) /\ Made(d) > 0 => <<d, Made(d)>> \in read.rows
      BY <1>4, <1>5, <2>1, <2>3 DEF WindowOK
    <3>. QED BY <1>3, <1>5, <2>1, <3>1, <3>2 DEF WindowOK
  <2>6. WindowOK(unread)
    BY <1>3, <1>5, <2>1 DEF WindowOK
  <2>7. WindowOK(new)'
    <3>1. WindowOK(new)
      BY <1>7, <2>5, <2>6
    <3>. QED BY <1>3, <2>2, <3>1 DEF WindowOK, Made, Over
  <2>8. \A a \in Admins : export'[a] = export[a]
    BY <1>7, <2>1, RollupNames
  <2>. QED BY <1>3, <1>7, <1>10, <2>1, <2>2, <2>7, <2>8 DEF ShippedOK, Made, Over
<1>. QED BY <1>3, <1>8, <1>9, <1>10 DEF RollupIInv

\* What was inserted last is one of the rows; other days stay.
LEMMA RowsLand ==
    ASSUME RollupTypes, NEW rows \in SUBSET (Rollup!Days \X (1..2)), Rollup!Land(rows)
    PROVE  /\ warehouse' \in [Rollup!Days -> 0..2]
           /\ \A d \in Rollup!Days :
                \/ <<d, warehouse'[d]>> \in rows
                \/ warehouse'[d] = warehouse[d] /\ \A n \in 1..2 : <<d, n>> \notin rows
<1>. DEFINE has(d) == \E n \in 1..2 : <<d, n>> \in rows
            last(d) == CHOOSE n \in 1..2 : <<d, n>> \in rows
<1>1. warehouse' = [d \in Rollup!Days |-> IF has(d) THEN last(d) ELSE warehouse[d]]
  BY DEF Rollup!Land
<1>2. \A d : has(d) => last(d) \in 1..2 /\ <<d, last(d)>> \in rows
  OBVIOUS
<1>3. \A d \in Rollup!Days : warehouse[d] \in 0..2
  BY RollupNumbers
<1>4. \A d : ~has(d) => \A n \in 1..2 : <<d, n>> \notin rows
  OBVIOUS
<1>5. \A d \in Rollup!Days : warehouse'[d] = IF has(d) THEN last(d) ELSE warehouse[d]
  BY <1>1
<1>. HIDE DEF has, last
<1>6. \A d \in Rollup!Days : warehouse'[d] \in 0..2
  <2>. SUFFICES ASSUME NEW d \in Rollup!Days PROVE warehouse'[d] \in 0..2
    OBVIOUS
  <2>1. has(d) => warehouse'[d] \in 1..2
    BY <1>2, <1>5
  <2>2. ~has(d) => warehouse'[d] \in 0..2
    BY <1>3, <1>5
  <2>. QED BY <2>1, <2>2
<1>7. warehouse' = [d \in Rollup!Days |-> warehouse'[d]]
  BY <1>1, <1>5
<1>. QED BY <1>2, <1>4, <1>5, <1>6, <1>7

\* An export sends its rows; they land, or not, or nobody learns of it.
LEMMA ExportPostStep ==
    ASSUME RollupIInv, NEW e \in Rollup!Exporters, Rollup!ExportPost(e)
    PROVE  RollupIInv'
<1>. DEFINE ship == export[e]
<1>1. RollupTypes /\ CountedOK
  BY DEF RollupIInv
<1>2. /\ ship \in Shipment /\ ship.since <= Rollup!Today
      /\ Rollup!Cardinality(ship.rows) <= RowLimit
  BY <1>1 DEF RollupTypes
<1>3. PICK ok \in BOOLEAN :
        /\ export' = [export EXCEPT ![e].pc = "record", ![e].ok = ok]
        /\ \/ ok /\ Rollup!Land(ship.rows) /\ UNCHANGED failures
           \/ ~ok /\ Rollup!Fault("refused") /\ UNCHANGED warehouse
           \/ ~ok /\ Rollup!Fault("lost") /\ Rollup!Land(ship.rows)
  BY DEF Rollup!ExportPost
<1>4. /\ ship.pc = "post"
      /\ UNCHANGED <<now, made, raw, daily, window, since, asks, upset>>
  BY DEF Rollup!ExportPost
<1>5. PICK new : /\ new = [ship EXCEPT !.pc = "record", !.ok = ok]
                 /\ export' = [export EXCEPT ![e] = new]
  BY <1>3
<1>6. /\ new \in Shipment /\ new.pc = "record" /\ new.rows = ship.rows /\ new.ok = ok
      /\ new.since = ship.since /\ new.late = ship.late
      /\ ship.rows \in SUBSET (Rollup!Days \X (1..2))
  BY <1>2, <1>5 DEF Shipment
<1>. HIDE DEF ship
<1>7. failures' \in 0..MaxUpsets
  <2>1. failures \in 0..MaxUpsets /\ MaxUpsets \in Nat
    BY <1>1, RollupNames DEF RollupTypes
  <2>. QED BY <1>3, <2>1 DEF Rollup!Fault
<1>8. /\ export' \in [Rollup!Exporters -> Shipment]
      /\ export'[e] = new /\ \A d \in Rollup!Exporters \ {e} : export'[d] = export[d]
      /\ \A d \in Rollup!Exporters :
           /\ export'[d].since <= Rollup!Today
           /\ Rollup!Cardinality(export'[d].rows) <= RowLimit
  BY <1>1, <1>2, <1>5, <1>6, ShipmentStep
<1>9. /\ warehouse' \in [Rollup!Days -> 0..2]
      /\ \A d \in Rollup!Days :
           \/ <<d, warehouse'[d]>> \in ship.rows
           \/ /\ warehouse'[d] = warehouse[d]
              /\ ok => \A n \in 1..2 : <<d, n>> \notin ship.rows
  <2>1. CASE Rollup!Land(ship.rows)
    BY <1>1, <1>6, <2>1, RowsLand
  <2>2. CASE UNCHANGED warehouse /\ ~ok
    BY <1>1, <2>2 DEF RollupTypes
  <2>. QED BY <1>3, <2>1, <2>2
<1>10. RollupTypes'
  BY <1>1, <1>4, <1>7, <1>8, <1>9 DEF RollupTypes, Rollup!Today
<1>11. CountedOK'
  BY <1>1, <1>4 DEF CountedOK, Made, Over
<1>12. ASSUME ShippedOK PROVE ShippedOK'
  <2>1. e = "worker" /\ WindowOK(ship)
    BY <1>4, <1>12, WorkerExports DEF ShippedOK, ship
  <2>2. Began' = Began /\ now - since.export <= Began
    BY <1>4, <1>6, <1>8, <1>12, <2>1 DEF Began, ship, ShippedOK
  <2>3. \A d \in Rollup!Days : d \in Nat /\ warehouse[d] \in 0..2 /\ Made(d) \in 0..2
    BY <1>1, DaysAre, RollupNumbers
  <2>4. ASSUME NEW d \in Rollup!Days
        PROVE  /\ warehouse'[d] <= Made(d)
               /\ Over(d, now - since.export) => warehouse'[d] = Made(d)
               /\ ok /\ d >= ship.since /\ Over(d, Began) => warehouse'[d] = Made(d)
    <3>1. Over(d, now - since.export) => Over(d, Began)
      <4>1. now \in Nat /\ since.export \in Nat /\ Began \in Int /\ d \in Nat
        BY <1>1, <2>3, DaysAre, RollupNumbers, BeganIs
      <4>. QED BY <2>2, <4>1 DEF Over
    <3>2. CASE <<d, warehouse'[d]>> \in ship.rows
      <4>1. /\ warehouse'[d] <= Made(d)
            /\ Over(d, Began) => warehouse'[d] = Made(d)
        BY <2>1, <3>2 DEF WindowOK
      <4>. QED BY <3>1, <4>1
    <3>3. CASE /\ warehouse'[d] = warehouse[d]
               /\ ok => \A n \in 1..2 : <<d, n>> \notin ship.rows
      <4>1. /\ warehouse[d] <= Made(d)
            /\ Over(d, now - since.export) => warehouse[d] = Made(d)
        BY <1>12 DEF ShippedOK
      <4>2. ASSUME ok, d >= ship.since, Over(d, Began) PROVE warehouse[d] = Made(d)
        <5>1. Made(d) > 0 => <<d, Made(d)>> \in ship.rows
          BY <1>4, <2>1, <4>2 DEF WindowOK
        <5>2. Made(d) > 0 => Made(d) \in 1..2
          BY <2>3
        <5>3. ~(Made(d) > 0)
          BY <3>3, <4>2, <5>1, <5>2
        <5>. QED BY <2>3, <4>1, <5>3
      <4>. QED BY <3>3, <4>1, <4>2
    <3>. QED BY <1>9, <3>2, <3>3
  <2>5. \A d : /\ Made(d)' = Made(d) /\ Over(d, Began)' = Over(d, Began)
               /\ Over(d, now - since.export)' = Over(d, now - since.export)
    BY <1>4, <2>2 DEF Made, Over
  <2>6. WindowOK(new)'
    <3>1. \A row \in new.rows :
            row[2] <= Made(row[1]) /\ (Over(row[1], Began) => row[2] = Made(row[1]))
      BY <1>6, <2>1 DEF WindowOK
    <3>2. new.since = Rollup!Day(Began) - SinkDays
      BY <1>6, <2>1 DEF WindowOK
    <3>3. \A d \in Rollup!Days : d >= new.since /\ Over(d, Began) => daily[d] = Made(d)
      BY <1>6, <2>1 DEF WindowOK
    <3>. QED BY <1>4, <1>6, <2>2, <2>4, <2>5, <3>1, <3>2, <3>3 DEF WindowOK
  <2>7. \A a \in Admins : export'[a] = export[a]
    BY <1>8, <2>1, RollupNames
  <2>. QED BY <1>4, <1>8, <1>12, <2>1, <2>2, <2>4, <2>5, <2>6, <2>7 DEF ShippedOK
<1>. QED BY <1>4, <1>10, <1>11, <1>12 DEF RollupIInv

\* An export ends: what left its window was in the warehouse since the one before.
LEMMA ExportRecordStep ==
    ASSUME Rollup!WindowsFit, RollupIInv, NEW e \in Rollup!Exporters, Rollup!ExportRecord(e)
    PROVE  RollupIInv'
<1>. DEFINE ship == export[e]
            new == Rollup!NoJob
<1>1. RollupTypes /\ CountedOK
  BY DEF RollupIInv
<1>2. ship \in Shipment /\ ship.since \in Int /\ ship.since <= Rollup!Today
  BY <1>1 DEF RollupTypes, Shipment
<1>3. /\ ship.pc = "record" /\ export' = [export EXCEPT ![e] = new]
      /\ \/ window' = (IF ship.ok THEN Rollup!NoRetry ELSE ship.since) /\ UNCHANGED failures
         \/ Rollup!Fault("record") /\ UNCHANGED window
      /\ since' = IF ship.ok /\ e = "worker"
                  THEN [since EXCEPT !.export = IF ship.late THEN 1 ELSE 0] ELSE since
      /\ UNCHANGED <<now, made, raw, daily, warehouse, asks, upset>>
  BY DEF Rollup!ExportRecord
<1>4. /\ new \in Shipment /\ new.pc = "idle" /\ new.since = 0 /\ new.rows = {}
      /\ new.late = FALSE
  BY DEF Rollup!NoJob, Shipment
<1>5. new.since <= Rollup!Today /\ Rollup!Cardinality(new.rows) <= RowLimit
  BY <1>1, <1>4, RollupCount, RollupNames, DaysAre, FS_EmptySet
<1>. HIDE DEF ship, new
<1>6. /\ export' \in [Rollup!Exporters -> Shipment]
      /\ export'[e] = new /\ \A d \in Rollup!Exporters \ {e} : export'[d] = export[d]
      /\ \A d \in Rollup!Exporters :
           /\ export'[d].since <= Rollup!Today
           /\ Rollup!Cardinality(export'[d].rows) <= RowLimit
  BY <1>1, <1>3, <1>4, <1>5, ShipmentStep
<1>7. failures' \in 0..MaxUpsets
  <2>1. failures \in 0..MaxUpsets /\ MaxUpsets \in Nat
    BY <1>1, RollupNames DEF RollupTypes
  <2>. QED BY <1>3, <2>1 DEF Rollup!Fault
<1>8. window' \in Int /\ (window' # Rollup!NoRetry => window' <= Rollup!Today)
  <2>1. Rollup!NoRetry \in Nat
    BY <1>1, DaysAre
  <2>2. window \in Int /\ (window # Rollup!NoRetry => window <= Rollup!Today)
    BY <1>1 DEF RollupTypes
  <2>. QED BY <1>2, <1>3, <2>1, <2>2
<1>9. /\ since' \in [rollup : 0..MaxGap, export : 0..MaxOutage]
      /\ since'.rollup = since.rollup
      /\ since'.export = IF ship.ok /\ e = "worker" THEN (IF ship.late THEN 1 ELSE 0)
                         ELSE since.export
  <2>1. since \in [rollup : 0..MaxGap, export : 0..MaxOutage] /\ MaxOutage \in Nat \ {0}
    BY <1>1, RollupNames DEF RollupTypes
  <2>. QED BY <1>3, <2>1
<1>10. RollupTypes'
  BY <1>1, <1>3, <1>6, <1>7, <1>8, <1>9 DEF RollupTypes, Rollup!Today
<1>11. CountedOK'
  BY <1>1, <1>3, <1>9 DEF CountedOK, Made, Over
<1>12. ASSUME ShippedOK PROVE ShippedOK'
  <2>1. e = "worker" /\ WindowOK(ship)
    BY <1>3, <1>12, WorkerExports DEF ShippedOK, ship
  <2>2. /\ now \in Nat /\ Began \in Int /\ Began <= now /\ now - since.export <= Began
        /\ since.export \in Nat /\ since.export <= MaxOutage
        /\ SinkDays \in Nat /\ MaxOutage \in Nat /\ MaxOutage <= 2 * SinkDays
    BY <1>1, <1>12, BeganIs, DaysAre, RollupNumbers, RollupNames DEF ShippedOK, Rollup!WindowsFit
  <2>3. Began' = now
    <3>1. Began' = now' - 0
      BY <1>4, <1>6, <2>1, Zenon DEF Began
    <3>. QED BY <1>3, <2>2, <3>1
  <2>4. ASSUME ship.ok PROVE now - since'.export = Began
    <3>1. ship.late => Began = now - 1
      BY <2>1, Zenon DEF Began, ship
    <3>2. ~ship.late => Began = now - 0
      BY <2>1, Zenon DEF Began, ship
    <3>3. since'.export = IF ship.late THEN 1 ELSE 0
      BY <1>9, <2>1, <2>4
    <3>. QED BY <2>2, <3>1, <3>2, <3>3
  <2>5. now - since'.export <= now
    BY <1>9, <2>2
  <2>6. ASSUME NEW d \in Rollup!Days, Over(d, now - since'.export)
        PROVE  warehouse[d] = Made(d)
    <3>0. d \in Nat
      BY <1>1, DaysAre
    <3>1. CASE ~ship.ok
      BY <1>9, <1>12, <2>6, <3>1 DEF ShippedOK
    <3>2. CASE ship.ok /\ d >= ship.since
      <4>1. Over(d, Began)
        BY <2>4, <2>6, <3>2
      <4>. QED BY <1>3, <2>1, <3>2, <4>1 DEF WindowOK
    <3>3. CASE ship.ok /\ ~(d >= ship.since)
      <4>1. ship.since = Rollup!Day(Began) - SinkDays
        BY <2>1 DEF WindowOK
      <4>2. Rollup!Day(Began) \in Int /\ 2 * Rollup!Day(Began) <= Began
        BY <1>1, DayBegan
      <4>3. 2 * d + 2 <= now - since.export
        BY <2>2, <3>0, <3>3, <4>1, <4>2
      <4>. QED BY <1>12, <4>3 DEF ShippedOK, Over
    <3>. QED BY <3>1, <3>2, <3>3
  <2>7. \A d : /\ Made(d)' = Made(d)
               /\ Over(d, now - since.export)' = Over(d, now - since'.export)
    BY <1>3 DEF Made, Over
  <2>8. \A a \in Admins : export'[a] = export[a]
    BY <1>6, <2>1, RollupNames
  <2>9. export'["worker"].pc = "idle"
    BY <1>4, <1>6, <2>1
  <2>. QED BY <1>3, <1>12, <2>3, <2>5, <2>6, <2>7, <2>8, <2>9 DEF ShippedOK
<1>. QED BY <1>3, <1>10, <1>11, <1>12 DEF RollupIInv

\* Every step keeps the invariant.
LEMMA RollupSteps ==
    ASSUME Rollup!WindowsFit, RollupIInv, [Rollup!Next]_rollupVars
    PROVE  RollupIInv'
<1>1. CASE UNCHANGED rollupVars
  <2>1. Began' = Began /\ \A d, t : Made(d)' = Made(d)
    BY <1>1 DEF rollupVars, Began, Made
  <2>2. WindowOK(export["worker"]) => WindowOK(export["worker"])'
    BY <1>1, <2>1 DEF rollupVars, WindowOK, Over
  <2>3. ShippedOK => ShippedOK'
    BY <1>1, <2>1, <2>2 DEF rollupVars, ShippedOK, Over
  <2>4. RollupTypes' /\ CountedOK'
    BY <1>1, <2>1 DEF rollupVars, RollupIInv, RollupTypes, CountedOK, Over, Rollup!Today
  <2>. QED BY <1>1, <2>3, <2>4 DEF rollupVars, RollupIInv
<1>2. CASE \/ Rollup!Request \/ Rollup!Advance \/ Rollup!Retain \/ Rollup!AdminRollup
           \/ Rollup!WorkerExport
  BY <1>2, RequestStep, RollupAdvanceStep, RetainStep, AdminRollupStep, WorkerExportStep
<1>3. ASSUME NEW e \in Admins, Rollup!AdminExport(e) \/ Rollup!AdminRetry(e)
      PROVE  RollupIInv'
  BY <1>3, AdminExportStep
<1>4. ASSUME NEW e \in Rollup!Exporters,
             Rollup!ExportList(e) \/ Rollup!ExportPost(e) \/ Rollup!ExportRecord(e)
      PROVE  RollupIInv'
  BY <1>4, ExportListStep, ExportPostStep, ExportRecordStep
<1>. QED BY <1>1, <1>2, <1>3, <1>4 DEF Rollup!Next

\* It says at least what is promised.
LEMMA RollupSuffices == ASSUME Rollup!WindowsFit, RollupIInv PROVE RollupInv
<1>1. RollupTypes /\ CountedOK
  BY DEF RollupIInv
<1>2. /\ now \in Nat /\ Rollup!Today = Rollup!Day(now) /\ Rollup!Today \in Nat
      /\ 2 * Rollup!Today <= now
      /\ made \in SUBSET Nat /\ raw \subseteq made
      /\ \A d \in Rollup!Days : d \in Nat
      /\ since.rollup \in Nat /\ since.rollup <= MaxGap
      /\ since.export \in Nat /\ since.export <= MaxOutage
  BY <1>1, DaysAre, RollupNumbers, HalfDays
<1>3. /\ RollDays \in Nat /\ SinkDays \in Nat /\ RequestDays \in Nat /\ RollDays < RequestDays
      /\ MaxGap \in Nat /\ MaxGap <= 2 * RollDays
      /\ MaxOutage \in Nat /\ MaxOutage <= 2 * SinkDays
  BY RollupNames DEF Rollup!WindowsFit
<1>4. Rollup!TypeOK
  <2>1. \A e \in Rollup!Exporters :
          /\ export[e].pc \in {"idle", "list", "post", "record"}
          /\ export[e].rows \subseteq Rollup!Days \X (1..2)
    BY <1>1 DEF RollupTypes, Shipment
  <2>. QED BY <1>1, <2>1 DEF RollupTypes, Rollup!TypeOK, Rollup!Times
<1>5. Rollup!PurgedIsCounted
  <2>. SUFFICES ASSUME NEW d \in Rollup!Days, Rollup!Count(raw, d) < Rollup!Count(made, d)
                PROVE  daily[d] = Rollup!Count(made, d)
    BY DEF Rollup!PurgedIsCounted
  <2>1. PICK t \in made \ raw : Rollup!Day(t) = d
    <3>1. d \in Nat /\ raw \in SUBSET Nat /\ made \in SUBSET Nat
      BY <1>2
    <3>2. Rollup!Count(raw, d) \in 0..2 /\ Rollup!Count(made, d) \in 0..2
      BY <3>1, CountIs
    <3>3. Rollup!Count(raw, d) # Rollup!Count(made, d)
      BY <3>2
    <3>4. ~(\A t : Rollup!Day(t) = d => (t \in raw <=> t \in made))
      BY <3>3, CountSame
    <3>. QED BY <1>2, <3>4
  <2>2. t \in Nat /\ t < now - 2 * RequestDays /\ 2 * d <= t /\ d \in Nat
    BY <1>1, <1>2, <2>1, HalfDays DEF CountedOK
  <2>3. 2 * d + 2 <= now - since.rollup
    BY <1>2, <1>3, <2>2
  <2>. QED BY <1>1, <2>3 DEF CountedOK, Over, Made
<1>6. Rollup!ExportComplete
  <2>. SUFFICES ASSUME asks = 0, "rollup" \notin upset,
                       NEW d \in Rollup!Days, d < Rollup!Today - SinkDays
                PROVE  warehouse[d] = Rollup!Count(made, d)
    BY DEF Rollup!ExportComplete
  <2>1. 2 * d + 2 <= now - since.export
    BY <1>2, <1>3
  <2>. QED BY <2>1 DEF RollupIInv, ShippedOK, Over, Made
<1>. QED BY <1>4, <1>5, <1>6 DEF RollupInv

(***************************************************************************)
(* For any windows that fit, whatever fails within the gaps: deleting      *)
(* requests never takes them out of the aggregate of their day             *)
(* (retention.go:113), and a day that left the sink worker's window is in  *)
(* the warehouse with all its requests (clickhouse_sink.go:591) while      *)
(* rollups work and no administrator exports.                              *)
(***************************************************************************)
THEOREM RollupsHold == ASSUME Rollup!WindowsFit PROVE MCSpec => []RollupInv
<1>1. MCInit => RollupIInv
  BY RollupStarts DEF MCInit
<1>2. RollupIInv /\ [MCNext]_all => RollupIInv'
  <2>1. [MCNext]_all => [Rollup!Next]_rollupVars
    BY DEF MCNext, all
  <2>. QED BY <2>1, RollupSteps
<1>3. RollupIInv => RollupInv
  BY RollupSuffices
<1>. QED BY <1>1, <1>2, <1>3, PTL DEF MCSpec
=============================================================================
