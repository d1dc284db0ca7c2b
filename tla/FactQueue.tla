----------------------------- MODULE FactQueue -----------------------------
(***************************************************************************)
(* Facts about completed requests on their way to ClickHouse                *)
(* (internal/proxy/clickhouse_fact.go, internal/store/                      *)
(* clickhouse_fact_retry.go).                                               *)
(*                                                                          *)
(* Requests offer facts to a bounded queue; one loop collects them in a     *)
(* buffer and flushes it, one insertion per fact table.  An insertion that  *)
(* fails is parked as a batch in the database, and administrators replay    *)
(* the parked batches, oldest first, until a batch lands or was tried too   *)
(* often.  Shutdown cancels the context that the loop's insertions and its  *)
(* parking use.                                                             *)
(***************************************************************************)
EXTENDS Naturals, Sequences, FiniteSets, FiniteSetsExt, SequencesExt

CONSTANTS
  Facts,
  NumTables,   \* the fact tables, flushed in this order
  QueueCap,    \* capacity of the queue
  BatchSize,   \* facts that trigger a flush
  Poison,      \* facts that ClickHouse always refuses
  Replayers,   \* requests that replay batches
  Window,      \* batches that one replay reads
  MaxAttempts, \* clickHouseFactRetryMaxAttempts
  Troubles,    \* sets of what may go wrong together: "refused", "lost",
               \* "park", "mark", "stop", "overlap"
  MaxTroubles, \* bound: how often
  MaxReplays   \* bound: replays that are started

ConstantsOK ==
  /\ {NumTables, QueueCap, BatchSize, Window, MaxAttempts} \subseteq Nat \ {0}
  /\ Poison \subseteq Facts
  /\ IsFiniteSet(Replayers)
  /\ Troubles \subseteq SUBSET {"refused", "lost", "park", "mark", "stop", "overlap"}
  /\ {MaxTroubles, MaxReplays} \subseteq Nat

Tables == 1..NumTables

VARIABLES
  offered,   \* facts of completed requests
  dropped,   \* facts the full queue refused
  queue,     \* chFactQueue
  buf,       \* the loop's buffer
  loop,      \* what the loop does, and for which table
  parked,    \* clickhouse_fact_retry
  replay,    \* replayer -> the batches it listed and what it does
  landed,    \* table -> fact -> how often it was inserted
  abandoned, \* facts of batches that were given up, with their table
  spent,     \* the bounds used up, and the number of batches ever parked
  trouble    \* what may go wrong in this behaviour

vars == <<offered, dropped, queue, buf, loop, parked, replay, landed, abandoned, spent, trouble>>

Idle == [pc |-> "wait", table |-> 1, last |-> FALSE]
NotReplaying == [pc |-> "free", todo |-> <<>>, ok |-> FALSE]
Batch == [id : Nat, table : Tables, facts : SUBSET Facts, attempts : 1..MaxAttempts]

(* The loop is running or has returned after a shutdown. *)
TypeOK ==
  /\ dropped \subseteq offered /\ offered \subseteq Facts
  /\ Len(queue) <= QueueCap /\ Len(buf) <= BatchSize
  /\ loop.pc \in {"wait", "insert", "park", "ended"} /\ loop.table \in Tables
  /\ parked \subseteq Batch
  /\ \A r \in Replayers : replay[r].pc \in {"free", "post", "mark"}
  /\ landed \in [Tables -> [Facts -> 0..2]]
  /\ spent \in [troubles : 0..MaxTroubles, replays : 0..MaxReplays, batches : Nat, stopping : BOOLEAN]
  /\ trouble \in Troubles

Init ==
  /\ offered = {} /\ dropped = {} /\ abandoned = {}
  /\ queue = <<>> /\ buf = <<>> /\ loop = Idle
  /\ parked = {}
  /\ replay = [r \in Replayers |-> NotReplaying]
  /\ landed = [t \in Tables |-> [f \in Facts |-> 0]]
  /\ spent = [troubles |-> 0, replays |-> 0, batches |-> 0, stopping |-> FALSE]
  /\ trouble \in Troubles

Trouble(kind) ==
  /\ kind \in trouble /\ spent.troubles < MaxTroubles
  /\ spent' = [spent EXCEPT !.troubles = @ + 1]

-----------------------------------------------------------------------------
(* ClickHouse *)

Land(t, fs) ==
  landed' = [landed EXCEPT ![t] =
    [f \in Facts |-> IF f \in fs /\ @[f] < 2 THEN @[f] + 1 ELSE @[f]]]

(* An insertion of facts fs into t and whether the caller is told that it   *)
(* worked: it lands as a whole or not at all, and the answer may be lost.   *)
Insert(t, fs, ok) ==
  \/ ok /\ fs \cap Poison = {} /\ Land(t, fs) /\ UNCHANGED spent
  \/ ~ok /\ fs \cap Poison # {} /\ UNCHANGED <<landed, spent>>
  \/ ~ok /\ Trouble("refused") /\ UNCHANGED landed
  \/ ~ok /\ fs \cap Poison = {} /\ Trouble("lost") /\ Land(t, fs)

-----------------------------------------------------------------------------
(* enqueueClickHouseFact: a full queue drops the fact and counts it. *)
Enqueue(f) ==
  /\ f \notin offered
  /\ offered' = offered \cup {f}
  /\ IF Len(queue) < QueueCap
     THEN queue' = Append(queue, f) /\ UNCHANGED dropped
     ELSE dropped' = dropped \cup {f} /\ UNCHANGED queue
  /\ UNCHANGED <<buf, loop, parked, replay, landed, abandoned, spent, trouble>>

(* The loop takes a fact; a full batch is flushed. *)
Take ==
  /\ loop.pc = "wait" /\ queue # <<>>
  /\ queue' = Tail(queue)
  /\ buf' = Append(buf, Head(queue))
  /\ loop' = IF Len(buf) + 1 >= BatchSize THEN [Idle EXCEPT !.pc = "insert"] ELSE Idle
  /\ UNCHANGED <<offered, dropped, parked, replay, landed, abandoned, spent, trouble>>

(* The timer flushes what the buffer holds. *)
FlushTimer ==
  /\ loop.pc = "wait" /\ buf # <<>>
  /\ loop' = [Idle EXCEPT !.pc = "insert"]
  /\ UNCHANGED <<offered, dropped, queue, buf, parked, replay, landed, abandoned, spent, trouble>>

(* Shutdown cancels the loop's context. *)
Stop ==
  /\ "stop" \in trouble /\ ~spent.stopping
  /\ spent' = [spent EXCEPT !.stopping = TRUE]
  /\ UNCHANGED <<offered, dropped, queue, buf, loop, parked, replay, landed, abandoned, trouble>>

(* After the last table the buffer is emptied. *)
NextTable ==
  IF loop.table < NumTables
  THEN loop' = [loop EXCEPT !.pc = "insert", !.table = @ + 1] /\ UNCHANGED buf
  ELSE loop' = [Idle EXCEPT !.pc = IF loop.last THEN "ended" ELSE "wait"] /\ buf' = <<>>

(* sink inserts the buffer into the next table.  Under a cancelled context  *)
(* nothing is sent any more.                                                *)
SinkTable ==
  /\ loop.pc = "insert"
  /\ \E ok \in BOOLEAN :
       /\ IF spent.stopping THEN ~ok /\ UNCHANGED <<landed, spent>>
                            ELSE Insert(loop.table, Range(buf), ok)
       /\ IF ok THEN NextTable ELSE loop' = [loop EXCEPT !.pc = "park"] /\ UNCHANGED buf
  /\ UNCHANGED <<offered, dropped, queue, parked, replay, abandoned, trouble>>

\* Mutant: a flush whose insertion failed is not parked.
ParkNothing ==
  /\ loop.pc = "park"
  /\ NextTable
  /\ UNCHANGED <<offered, dropped, queue, parked, replay, landed, abandoned, spent, trouble>>

(* RecordClickHouseFactRetry.  Its error is dropped, and it uses the loop's *)
(* context.                                                                 *)
Park ==
  /\ loop.pc = "park"
  /\ \/ /\ ~spent.stopping
        /\ parked' = parked \cup
             {[id |-> spent.batches + 1, table |-> loop.table, facts |-> Range(buf), attempts |-> 1]}
        /\ spent' = [spent EXCEPT !.batches = @ + 1]
     \/ spent.stopping /\ UNCHANGED <<parked, spent>>
     \/ Trouble("park") /\ UNCHANGED parked
  /\ NextTable
  /\ UNCHANGED <<offered, dropped, queue, replay, landed, abandoned, trouble>>

(* The loop sees the cancelled context: it flushes once more and returns,   *)
(* with whatever the queue still holds.                                     *)
End ==
  /\ spent.stopping /\ loop.pc = "wait"
  /\ loop' = [Idle EXCEPT !.pc = IF buf = <<>> THEN "ended" ELSE "insert", !.last = TRUE]
  /\ UNCHANGED <<offered, dropped, queue, buf, parked, replay, landed, abandoned, spent, trouble>>

-----------------------------------------------------------------------------
(* handleClickHouseFactRetry, one request r; two of them at a time only     *)
(* where replays may overlap.                                               *)

Oldest(n) == {b \in parked : Cardinality({c \in parked : c.id < b.id}) < n}

ById(bs) ==
  {q \in [1..Cardinality(bs) -> bs] : \A i, j \in DOMAIN q : i < j => q[i].id < q[j].id}

(* ListClickHouseFactRetries: the oldest batches, at most Window of them;   *)
(* a request that finds none returns.                                       *)
ReplayList(r) ==
  /\ replay[r].pc = "free" /\ spent.replays < MaxReplays /\ Oldest(Window) # {}
  /\ "overlap" \in trouble \/ \A q \in Replayers : replay[q].pc = "free"
  /\ spent' = [spent EXCEPT !.replays = @ + 1]
  /\ \E todo \in ById(Oldest(Window)) :
       replay' = [replay EXCEPT ![r] = [NotReplaying EXCEPT !.pc = "post", !.todo = todo]]
  /\ UNCHANGED <<offered, dropped, queue, buf, loop, parked, landed, abandoned, trouble>>

(* The payload is posted again, whether or not the batch is still parked. *)
ReplayPost(r) ==
  /\ replay[r].pc = "post"
  /\ LET b == Head(replay[r].todo) IN
     \E ok \in BOOLEAN :
       /\ Insert(b.table, b.facts, ok)
       /\ replay' = [replay EXCEPT ![r].pc = "mark", ![r].ok = ok]
  /\ UNCHANGED <<offered, dropped, queue, buf, loop, parked, abandoned, trouble>>

ReplayNext(r) ==
  LET todo == replay[r].todo IN
  replay' = [replay EXCEPT ![r] =
    IF Len(todo) = 1 THEN NotReplaying ELSE [@ EXCEPT !.pc = "post", !.todo = Tail(todo)]]

\* Mutant: the failed replays of a batch are not counted.
MarkUncounted(b) == UNCHANGED <<parked, abandoned>>

(* MarkClickHouseFactRetryAttempt counts a failed replay of the batch b;    *)
(* the one that reaches the limit abandons it.                              *)
Mark(b) ==
  IF b.attempts + 1 >= MaxAttempts
  THEN /\ parked' = parked \ {b}
       /\ abandoned' = abandoned \cup ({b.table} \X b.facts)
  ELSE /\ parked' = (parked \ {b}) \cup {[b EXCEPT !.attempts = @ + 1]}
       /\ UNCHANGED abandoned

(* A batch that landed is deleted, a failed one is counted unless another   *)
(* replay has removed it.  When the database refuses, the batch stays as    *)
(* it is.                                                                   *)
ReplayMark(r) ==
  /\ replay[r].pc = "mark"
  /\ LET now == {b \in parked : b.id = Head(replay[r].todo).id} IN
     \/ Trouble("mark") /\ UNCHANGED <<parked, abandoned>>
     \/ /\ IF replay[r].ok \/ now = {}
           THEN parked' = parked \ now /\ UNCHANGED abandoned
           ELSE Mark(CHOOSE b \in now : TRUE)
        /\ UNCHANGED spent
  /\ ReplayNext(r)
  /\ UNCHANGED <<offered, dropped, queue, buf, loop, landed, trouble>>

-----------------------------------------------------------------------------
Next ==
  \/ \E f \in Facts : Enqueue(f)
  \/ Take \/ FlushTimer \/ Stop \/ SinkTable \/ Park \/ End
  \/ \E r \in Replayers : ReplayList(r) \/ ReplayPost(r) \/ ReplayMark(r)

Spec == Init /\ [][Next]_vars

-----------------------------------------------------------------------------
(* Properties *)

Buffered(t) == IF loop.pc = "wait" \/ loop.table <= t THEN Range(buf) ELSE {}
Parked(t) == UNION {b.facts : b \in {c \in parked : c.table = t}}
Landed(t) == {f \in Facts : landed[t][f] > 0}
Abandoned(t) == {f \in Facts : <<t, f>> \in abandoned}

(* clickhouse_fact.go:840: a fact that was offered and not dropped is, for  *)
(* every table, waiting, parked, inserted or given up: no failing insertion *)
(* loses it, as long as the process runs and the database parks.            *)
NothingVanishes ==
  trouble \cap {"park", "stop"} = {} =>
    \A t \in Tables :
      offered \ dropped \subseteq
        Range(queue) \cup Buffered(t) \cup Parked(t) \cup Landed(t) \cup Abandoned(t)

(* clickhouse_fact.go:568: only a batch that ClickHouse refuses for good is *)
(* given up, as long as fewer insertions fail than the limit allows.        *)
OnlyRefusedAbandoned ==
  spent.troubles < MaxAttempts =>
    \A b \in abandoned : \E f \in Poison : <<b[1], f>> \in abandoned

(* clickhouse_fact.go:616: where no answer gets lost, replays do not        *)
(* overlap and the database marks what they did, every fact is inserted at  *)
(* most once, which the tables that do not merge rows depend on.            *)
LandedOnce ==
  trouble \cap {"lost", "mark", "overlap"} = {} =>
    \A t \in Tables, f \in Facts : landed[t][f] <= 1

(* clickhouse_fact.go:569: a refused batch at the head of the window does   *)
(* not block the batches behind it for ever.                                *)
ParkedDrains == <>[](parked = {})
=============================================================================
