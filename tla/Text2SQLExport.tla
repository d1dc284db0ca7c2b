--------------------------- MODULE Text2SQLExport ---------------------------
(***************************************************************************)
(* The export of Text2SQL facts from a watermark                            *)
(* (syncText2SQLFacts in internal/proxy/clickhouse_sink.go).                *)
(*                                                                          *)
(* A question is stamped when it arrives and logged when it is answered.    *)
(* An export sends the logged questions stamped after the watermark and     *)
(* moves the watermark to the last stamp it sent; a failure leaves a retry  *)
(* row.  The retry endpoint handles that row like one of the daily          *)
(* aggregates: it finds nothing to send and records the row's day as the    *)
(* watermark, which the next export cannot read as a time.                  *)
(***************************************************************************)
EXTENDS Naturals, FiniteSets, FiniteSetsExt

CONSTANTS
  Questions,
  Exporters,  \* sink workers of the replicas, and administrators
  Backfill,   \* how far an export without a watermark goes back
  Limit,      \* questions one export reads
  MaxTime,    \* bound: the clock
  Troubles,   \* sets of troubles, one of which a behaviour may meet
  MaxFaults   \* bound: insertions, reads and records that fail

(* Slow answers to questions, lost answers to insertions, states that       *)
(* cannot be read or recorded, the retry endpoint, exports that overlap.    *)
ConstantsOK ==
  /\ IsFiniteSet(Questions)
  /\ {Backfill, Limit, MaxTime} \subseteq Nat \ {0}
  /\ Troubles \subseteq SUBSET {"slow", "lost", "read", "record", "retry", "overlap"}
  /\ MaxFaults \in Nat

Times == 1..MaxTime
None == 0              \* no watermark yet
DayOnly == MaxTime + 1 \* a watermark that is a day

VARIABLES
  clock,
  stamp,  \* question -> created_at, 0 before it arrives
  logged, \* questions in text2sql_query_logs
  mark,   \* clickhouse_sink_state of text2sql_fact
  retry,  \* whether clickhouse_sink_retry has a row of text2sql_fact
  listed, \* whether the retry endpoint has read that row
  job,    \* exporter -> what it does
  sent,   \* question -> how often it was inserted
  faults, \* bound used up
  reach,  \* where the exports that went by no watermark began (history)
  trouble \* what may go wrong in this behaviour

vars == <<clock, stamp, logged, mark, retry, listed, job, sent, faults, reach, trouble>>

NoJob == [pc |-> "idle", rows |-> {}, ok |-> FALSE]

(* Stamps are in the past, and a watermark is a stamp that was sent. *)
TypeOK ==
  /\ clock \in Times
  /\ stamp \in [Questions -> 0..clock]
  /\ \A q \in logged : stamp[q] # 0
  /\ mark \in {None, DayOnly} \/ \E q \in Questions : stamp[q] = mark /\ sent[q] > 0
  /\ {retry, listed} \subseteq BOOLEAN
  /\ \A e \in Exporters :
       job[e].pc \in {"idle", "post", "record"} /\ Cardinality(job[e].rows) <= Limit
  /\ sent \in [Questions -> 0..2]
  /\ faults \in 0..MaxFaults /\ reach \in 0..clock /\ trouble \in Troubles

Init ==
  /\ clock = 1 /\ mark = None /\ retry = FALSE /\ listed = FALSE /\ faults = 0 /\ reach = 0
  /\ trouble \in Troubles
  /\ stamp = [q \in Questions |-> 0] /\ sent = [q \in Questions |-> 0]
  /\ logged = {}
  /\ job = [e \in Exporters |-> NoJob]

-----------------------------------------------------------------------------
(* A question arrives; no two have the same stamp. *)
Ask(q) ==
  /\ stamp[q] = 0 /\ \A p \in Questions : stamp[p] # clock
  /\ stamp' = [stamp EXCEPT ![q] = clock]
  /\ UNCHANGED <<clock, logged, mark, retry, listed, job, sent, faults, reach, trouble>>

(* finalize: the answered question is logged with the stamp it has. *)
Answer(q) ==
  /\ stamp[q] # 0 /\ q \notin logged
  /\ logged' = logged \cup {q}
  /\ UNCHANGED <<clock, stamp, mark, retry, listed, job, sent, faults, reach, trouble>>

Advance ==
  /\ clock < MaxTime
  /\ "slow" \in trouble \/ \A q \in Questions : stamp[q] # 0 => q \in logged
  /\ clock' = clock + 1
  /\ UNCHANGED <<stamp, logged, mark, retry, listed, job, sent, faults, reach, trouble>>

-----------------------------------------------------------------------------
Fault == faults < MaxFaults /\ faults' = faults + 1

BackfillStart == IF clock > Backfill THEN clock - Backfill ELSE 0

(* Where an export starts: at the watermark when it is a time. *)
Since == IF mark \in Times THEN mark ELSE BackfillStart

\* Mutant: the newest of the questions are read.
PendingNewest(since) ==
  LET qs == {q \in logged : stamp[q] > since}
  IN {q \in qs : Cardinality({p \in qs : stamp[p] > stamp[q]}) < Limit}

(* ListText2SQLLogsSince: the oldest of them up to the limit. *)
Pending(since) ==
  LET qs == {q \in logged : stamp[q] > since}
  IN {q \in qs : Cardinality({p \in qs : stamp[p] < stamp[q]}) < Limit}

(* A watermark that cannot be read is as none.  Nothing pending: the export *)
(* returns.                                                                 *)
List(e) ==
  /\ job[e].pc = "idle"
  /\ "overlap" \in trouble \/ \A d \in Exporters : job[d].pc = "idle"
  /\ \E since \in {Since, BackfillStart} :
       /\ \/ since = Since /\ UNCHANGED faults
          \/ "read" \in trouble /\ Fault
       /\ Pending(since) # {}
       /\ job' = [job EXCEPT ![e] = [NoJob EXCEPT !.pc = "post", !.rows = Pending(since)]]
       /\ reach' = IF since # mark /\ since > reach THEN since ELSE reach
  /\ UNCHANGED <<clock, stamp, logged, mark, retry, listed, sent, trouble>>

(* The questions cannot be read: a failure is recorded. *)
ListFails(e) ==
  /\ job[e].pc = "idle"
  /\ "read" \in trouble /\ Fault
  /\ retry' = TRUE
  /\ UNCHANGED <<clock, stamp, logged, mark, listed, job, sent, reach, trouble>>

(* The table is a plain MergeTree: it keeps what is inserted twice. *)
Land(qs) ==
  sent' = [q \in Questions |-> IF q \in qs /\ sent[q] < 2 THEN sent[q] + 1 ELSE sent[q]]

(* clickhouseText2SQLFactSink: the questions are inserted as a whole, or    *)
(* the insertion fails, or only its answer does.                            *)
Post(e) ==
  /\ job[e].pc = "post"
  /\ \E ok \in BOOLEAN :
       /\ job' = [job EXCEPT ![e].pc = "record", ![e].ok = ok]
       /\ \/ ok /\ Land(job[e].rows) /\ UNCHANGED faults
          \/ ~ok /\ Fault /\ UNCHANGED sent
          \/ ~ok /\ "lost" \in trouble /\ Fault /\ Land(job[e].rows)
  /\ UNCHANGED <<clock, stamp, logged, mark, retry, listed, reach, trouble>>

(* RecordClickHouseSinkSuccess: the watermark, then the deletion of the     *)
(* retry row.  Its errors, and those of RecordClickHouseSinkFailure, are    *)
(* dropped.                                                                 *)
RecordSuccess(value) ==
  \/ mark' = value /\ retry' = FALSE /\ UNCHANGED faults
  \/ "record" \in trouble /\ Fault /\ mark' \in {mark, value} /\ UNCHANGED retry

RecordFailure ==
  \/ retry' = TRUE /\ UNCHANGED <<mark, faults>>
  \/ "record" \in trouble /\ Fault /\ UNCHANGED <<mark, retry>>

Record(e) ==
  /\ job[e].pc = "record"
  /\ job' = [job EXCEPT ![e] = NoJob]
  /\ \/ job[e].ok /\ RecordSuccess(Max({stamp[q] : q \in job[e].rows}))
     \/ ~job[e].ok /\ RecordFailure
  /\ UNCHANGED <<clock, stamp, logged, listed, sent, reach, trouble>>

(* handleClickHouseSinkRetry: no daily aggregate has the dimension of the   *)
(* row it has read, so nothing is sent and the success is recorded with the *)
(* day of the row; or the aggregates cannot be read.                        *)
RetryList ==
  /\ "retry" \in trouble /\ retry /\ ~listed
  /\ listed' = TRUE
  /\ UNCHANGED <<clock, stamp, logged, mark, retry, job, sent, faults, reach, trouble>>

SinkRetry ==
  /\ listed /\ listed' = FALSE
  /\ \/ RecordSuccess(DayOnly)
     \/ "read" \in trouble /\ Fault /\ retry' = TRUE /\ UNCHANGED mark
  /\ UNCHANGED <<clock, stamp, logged, job, sent, reach, trouble>>

-----------------------------------------------------------------------------
Next ==
  \/ Advance \/ RetryList \/ SinkRetry
  \/ \E q \in Questions : Ask(q) \/ Answer(q)
  \/ \E e \in Exporters : List(e) \/ ListFails(e) \/ Post(e) \/ Record(e)

Spec == Init /\ [][Next]_vars

-----------------------------------------------------------------------------
(* Properties *)

(* clickhouse_sink.go:151: while questions are answered at once, a logged   *)
(* question that was not sent is after the watermark, so that the next      *)
(* export will send it, or was too old when an export had no watermark.     *)
NothingSkipped ==
  "slow" \notin trouble /\ mark \in Times =>
    \A q \in logged : sent[q] = 0 => stamp[q] > mark \/ stamp[q] <= reach

(* clickhouse_sink.go:434: exports are incremental.  The table is a plain   *)
(* MergeTree, which keeps a fact that is inserted twice, so this takes that *)
(* exports do not overlap, get their answers, and can keep their watermark. *)
SentOnce ==
  trouble \subseteq {"slow"} => \A q \in Questions : sent[q] <= 1
=============================================================================
