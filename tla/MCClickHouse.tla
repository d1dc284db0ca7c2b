---------------------------- MODULE MCClickHouse ----------------------------
(***************************************************************************)
(* The three ways from the gateway's database to ClickHouse, in one run of *)
(* TLC: the queue of facts, the daily aggregates and the Text2SQL facts.   *)
(* They share no state; part says which one moves, in which instance,      *)
(* while the others stay in their initial states.                          *)
(***************************************************************************)
EXTENDS FactQueue

CONSTANTS
  Questions,     \* questions to Text2SQL
  Senders,       \* those that export them
  Backfill,      \* how far an export without a watermark goes back
  Limit,         \* questions one export reads
  MaxTime,       \* bound: their clock
  Mishaps,       \* sets of troubles, one of which their exports may meet
  MaxFaults,     \* bound: failures
  MaxHalfDays,   \* bound: the time of the aggregates
  RollDays, RequestDays, SinkDays, AdminDays,  \* their windows
  RowLimit,      \* aggregates one export reads
  Admins,        \* administrators who export them
  MaxGap, MaxOutage,  \* half-days within which a rollup, and an export, worked
  Upsets,        \* sets of troubles, one of which they may meet
  MaxUpsets,     \* bound: failures
  MaxAsks        \* bound: exports that administrators ask for

VARIABLES part,
          now, made, raw, daily, warehouse, window, export, since, failures, asks, upset, \* of the aggregates
          clock, stamp, logged, mark, again, listed, job, sent, faults, reach, mishap \* of the questions

\* Replays go on for as long as a batch needs.
Drained ==
  INSTANCE FactQueue WITH
    Facts <- Facts, NumTables <- 1, QueueCap <- 2, BatchSize <- 1, Poison <- {"f3"},
    Replayers <- {"r1"}, Window <- 1, MaxAttempts <- 3,
    Troubles <- {{"refused"}}, MaxTroubles <- 2, MaxReplays <- 8

\* The aggregates, their retention and their exports.
Rollup ==
  INSTANCE RollupExport WITH
    MaxTime <- MaxHalfDays, Limit <- RowLimit, Troubles <- Upsets, MaxFaults <- MaxUpsets,
    retry <- window, job <- export, faults <- failures, trouble <- upset

\* The Text2SQL facts.
Questioned ==
  INSTANCE Text2SQLExport WITH
    Exporters <- Senders, Troubles <- Mishaps,
    trouble <- mishap, retry <- again

ASSUME ClickHouseAssumption ==
  /\ ConstantsOK /\ Drained!ConstantsOK
  /\ Rollup!ConstantsOK /\ Questioned!ConstantsOK

rollupVars == <<now, made, raw, daily, warehouse, window, export, since, failures, asks, upset>>
questionVars == <<clock, stamp, logged, mark, again, listed, job, sent, faults, reach, mishap>>
all == <<vars, part, rollupVars, questionVars>>

MCInit ==
  /\ Rollup!Init /\ Questioned!Init
  /\ \/ part \in {"facts", "aggregates", "questions"} /\ Init
     \/ part = "drain" /\ Drained!Init
  /\ part # "aggregates" => upset = CHOOSE u \in Upsets : TRUE
  /\ part # "questions" => mishap = CHOOSE m \in Mishaps : TRUE
  /\ part \notin {"facts", "drain"} => trouble = CHOOSE t \in Troubles : TRUE

MCNext ==
  \/ part = "facts" /\ Next /\ UNCHANGED <<part, rollupVars, questionVars>>
  \/ part = "drain" /\ Drained!Next /\ UNCHANGED <<part, rollupVars, questionVars>>
  \/ part = "aggregates" /\ Rollup!Next /\ UNCHANGED <<part, vars, questionVars>>
  \/ part = "questions" /\ Questioned!Next /\ UNCHANGED <<part, vars, rollupVars>>

(* The fact loop runs on and administrators go on replaying what is parked. *)
MCSpec ==
  /\ MCInit /\ [][MCNext]_all
  /\ WF_vars(part = "drain" /\ (Drained!Take \/ Drained!FlushTimer))
  /\ WF_vars(part = "drain" /\ (Drained!SinkTable \/ Drained!Park))
  /\ WF_vars(part = "drain" /\ Drained!ReplayList("r1"))
  /\ WF_vars(part = "drain" /\ (Drained!ReplayPost("r1") \/ Drained!ReplayMark("r1")))

-----------------------------------------------------------------------------
(***************************************************************************)
(* The queue, the buffer and the parked batches stay within their bounds;  *)
(* no failing insertion loses a fact that the queue took                   *)
(* (clickhouse_fact.go:840), only batches that ClickHouse refuses for good *)
(* are given up, and without lost answers and overlapping replays a fact   *)
(* lands at most once, whatever else fails, a shutdown included.           *)
(***************************************************************************)
FactInv == part = "facts" => TypeOK /\ NothingVanishes /\ OnlyRefusedAbandoned /\ LandedOnce

(* A refused batch does not block those behind it for ever. *)
BatchesDrain == part = "drain" => Drained!ParkedDrains

(***************************************************************************)
(* Aggregates, exports and the retry row keep their types.  Deleting       *)
(* requests never takes them out of the aggregate of their day             *)
(* (retention.go:113), and a day that left the sink worker's window was    *)
(* exported completely.                                                    *)
(***************************************************************************)
RollupInv == Rollup!TypeOK /\ Rollup!PurgedIsCounted /\ Rollup!ExportComplete

(***************************************************************************)
(* Whatever the exporters and the retry endpoint do, a watermark that is a *)
(* time is the stamp of a question that was sent.  With prompt answers a   *)
(* logged question that was not sent is after the watermark                *)
(* (clickhouse_sink.go:151), and exports one after the other, whose        *)
(* answers and watermarks are not lost, send a question once.              *)
(***************************************************************************)
QuestionInv == Questioned!TypeOK /\ Questioned!NothingSkipped /\ Questioned!SentOnce
=============================================================================
