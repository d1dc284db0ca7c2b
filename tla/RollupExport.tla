---------------------------- MODULE RollupExport ----------------------------
(***************************************************************************)
(* Daily aggregates of the request log, their retention and their export   *)
(* (internal/store/analytics_rollup.go, retention.go,                       *)
(* clickhouse_watermark.go and internal/proxy/clickhouse_sink.go).          *)
(*                                                                          *)
(* The retention worker recomputes the aggregates of the last days and then *)
(* deletes old requests.  The sink worker, and administrators, recompute a  *)
(* window of days and send its aggregates to ClickHouse; a dimension whose  *)
(* export failed has one retry row, which names the window's first day.     *)
(* One dimension with one value is modelled.  Time goes by in half-days, so *)
(* that the deletion, which cuts at a time, can cut through a day.          *)
(***************************************************************************)
EXTENDS Integers, FiniteSets, FiniteSetsExt

CONSTANTS
  MaxTime,     \* bound: the last half-day
  RollDays,    \* days before today the retention worker recomputes
  RequestDays, \* days a request is kept
  SinkDays,    \* days before today the sink worker exports
  AdminDays,   \* windows administrators ask for, in days
  Limit,       \* aggregates one export reads
  Admins,      \* requests that export, besides the sink worker
  MaxGap,      \* half-days after which a rollup of the retention worker worked
  MaxOutage,   \* half-days after which an export of the sink worker worked
  Troubles,    \* sets of troubles, one of which a behaviour may meet
  MaxFaults,   \* bound: how often
  MaxAsks      \* bound: exports that administrators ask for

(* Rollups that fail, aggregates that cannot be read, insertions refused,   *)
(* their answers lost, records not written; administrators who export too.  *)
ConstantsOK ==
  /\ {RollDays, RequestDays, SinkDays, Limit, MaxGap, MaxOutage} \subseteq Nat \ {0}
  /\ AdminDays \subseteq Nat \ {0}
  /\ "worker" \notin Admins
  /\ Troubles \subseteq SUBSET {"rollup", "read", "refused", "lost", "record", "admins"}
  /\ {MaxTime, MaxFaults, MaxAsks} \subseteq Nat

(* What the properties take of the configuration: requests are kept longer  *)
(* than any window that is recomputed, a window is longer than the workers  *)
(* are down, and an export reads all of its aggregates.                     *)
WindowsFit ==
  /\ \A n \in AdminDays \cup {RollDays, SinkDays} : n < RequestDays
  /\ MaxGap <= 2 * RollDays /\ MaxOutage <= 2 * SinkDays
  /\ SinkDays + 2 <= Limit

Exporters == Admins \cup {"worker"}
Times == 0..MaxTime
Day(t) == t \div 2
Days == 0..Day(MaxTime)
NoRetry == Day(MaxTime) + 1

VARIABLES
  now,       \* the half-day
  made,      \* the half-days with a request
  raw,       \* those whose request is still in request_logs
  daily,     \* analytics_daily: day -> requests, 0 without a row
  warehouse, \* ClickHouse: day -> requests of the row inserted last
  retry,     \* clickhouse_sink_retry: the first day of the failed window
  job,       \* exporter -> what it does
  since,     \* half-days since the workers last succeeded
  faults,    \* bound used up
  asks,      \* bound used up
  trouble    \* what may go wrong in this behaviour

vars == <<now, made, raw, daily, warehouse, retry, job, since, faults, asks, trouble>>

Today == Day(now)
Count(ts, d) == Cardinality({t \in ts : Day(t) = d})
NoJob == [pc |-> "idle", since |-> 0, rows |-> {}, ok |-> FALSE, late |-> FALSE]

(* One retry row, rows of the days read, counters within the windows. *)
TypeOK ==
  /\ now \in Times /\ raw \subseteq made /\ made \subseteq 0..now
  /\ daily \in [Days -> 0..2] /\ warehouse \in [Days -> 0..2]
  /\ retry \in Int /\ (retry # NoRetry => retry <= Today)
  /\ \A e \in Exporters :
       /\ job[e].pc \in {"idle", "list", "post", "record"}
       /\ job[e].rows \subseteq Days \X (1..2) /\ Cardinality(job[e].rows) <= Limit
  /\ since \in [rollup : 0..MaxGap, export : 0..MaxOutage]
  /\ faults \in 0..MaxFaults /\ asks \in 0..MaxAsks /\ trouble \in Troubles

Init ==
  /\ now = 0 /\ made = {} /\ raw = {}
  /\ daily = [d \in Days |-> 0] /\ warehouse = [d \in Days |-> 0]
  /\ retry = NoRetry
  /\ job = [e \in Exporters |-> NoJob]
  /\ since = [rollup |-> 0, export |-> 0]
  /\ faults = 0 /\ asks = 0 /\ trouble \in Troubles

Fault(kind) == kind \in trouble /\ faults < MaxFaults /\ faults' = faults + 1
Ask == "admins" \in trouble /\ asks < MaxAsks /\ asks' = asks + 1

-----------------------------------------------------------------------------
(* A request is logged. *)
Request ==
  /\ now \notin made
  /\ made' = made \cup {now} /\ raw' = raw \cup {now}
  /\ UNCHANGED <<now, daily, warehouse, retry, job, since, faults, asks, trouble>>

(* Exports take minutes: time passes over one at most once.  MaxGap and     *)
(* MaxOutage bound for how long the workers fail or do not run.             *)
Advance ==
  /\ now < MaxTime /\ since.rollup < MaxGap /\ since.export < MaxOutage
  /\ \A e \in Exporters : ~job[e].late
  /\ now' = now + 1
  /\ since' = [rollup |-> since.rollup + 1, export |-> since.export + 1]
  /\ job' = [e \in Exporters |-> [job[e] EXCEPT !.late = job[e].pc # "idle"]]
  /\ UNCHANGED <<made, raw, daily, warehouse, retry, faults, asks, trouble>>

-----------------------------------------------------------------------------
(* RollupDay over a range: a day without requests selects no row and leaves *)
(* its aggregate as it is.                                                  *)
Rolled(from, to) ==
  [d \in Days |-> IF d \in from..to /\ Count(raw, d) > 0 THEN Count(raw, d) ELSE daily[d]]

(* RollupRange over the last n days; a failure leaves the later days out.   *)
RollupRange(n, ok) ==
  \/ ok /\ daily' = Rolled(Today - n, Today) /\ UNCHANGED faults
  \/ /\ ~ok /\ Fault("rollup")
     /\ \E d \in Today - n..Today : daily' = Rolled(Today - n, d - 1)

\* Mutant: only the aggregates of today are recomputed.
RetainToday ==
  /\ daily' = Rolled(Today, Today)
  /\ since' = [since EXCEPT !.rollup = 0]
  /\ raw' = {t \in raw : t >= now - 2 * RequestDays}
  /\ UNCHANGED <<now, made, warehouse, retry, job, faults, asks, trouble>>

(* RetentionWorker.runOnceWith: a failed rollup does not keep it from       *)
(* deleting, which may fail as well.                                        *)
Retain ==
  /\ \E ok \in BOOLEAN :
       /\ RollupRange(RollDays, ok)
       /\ since' = IF ok THEN [since EXCEPT !.rollup = 0] ELSE since
  /\ raw' \in {raw, {t \in raw : t >= now - 2 * RequestDays}}
  /\ UNCHANGED <<now, made, warehouse, retry, job, asks, trouble>>

(* An administrator recomputes aggregates (POST /admin/dw/rollups). *)
AdminRollup ==
  /\ \E n \in AdminDays, ok \in BOOLEAN : RollupRange(n, ok)
  /\ UNCHANGED <<now, made, raw, warehouse, retry, job, since, asks, trouble>>

-----------------------------------------------------------------------------
(* Exports *)

Begin(e, first) ==
  job' = [job EXCEPT ![e] = [NoJob EXCEPT !.pc = "list", !.since = first]]

(* clickhouseSinkLoop: the worker's window; an error of the rollup is       *)
(* dropped.                                                                 *)
WorkerExport ==
  /\ job["worker"].pc = "idle"
  /\ \E ok \in BOOLEAN : RollupRange(SinkDays, ok)
  /\ Begin("worker", Today - SinkDays)
  /\ UNCHANGED <<now, made, raw, warehouse, retry, since, asks, trouble>>

(* handleClickHouseSink *)
AdminExport(e) ==
  /\ job[e].pc = "idle" /\ Ask
  /\ \E n \in AdminDays, ok \in BOOLEAN : RollupRange(n, ok) /\ Begin(e, Today - n)
  /\ UNCHANGED <<now, made, raw, warehouse, retry, since, trouble>>

(* handleClickHouseSinkRetry: the failed window, or the worker's. *)
AdminRetry(e) ==
  /\ job[e].pc = "idle" /\ Ask
  /\ \/ retry # NoRetry /\ Begin(e, retry)
     \/ Begin(e, Today - SinkDays)
  /\ UNCHANGED <<now, made, raw, daily, warehouse, retry, since, faults, trouble>>

(* ListDailyRollups: the aggregates since the first day, the newest of them *)
(* up to the limit.                                                         *)
Listed(first) ==
  LET ds == {d \in Days : d >= first /\ daily[d] > 0}
  IN {<<d, daily[d]>> : d \in {x \in ds : Cardinality({y \in ds : y > x}) < Limit}}

ExportList(e) ==
  /\ job[e].pc = "list"
  /\ \/ /\ job' = [job EXCEPT ![e].pc = "post", ![e].rows = Listed(job[e].since)]
        /\ UNCHANGED faults
     \/ /\ Fault("read")
        /\ job' = [job EXCEPT ![e].pc = "record"]
  /\ UNCHANGED <<now, made, raw, daily, warehouse, retry, since, asks, trouble>>

(* The warehouse keeps the row of a day that was inserted last. *)
Land(rows) ==
  warehouse' = [d \in Days |-> IF \E n \in 1..2 : <<d, n>> \in rows
                               THEN CHOOSE n \in 1..2 : <<d, n>> \in rows ELSE warehouse[d]]

(* clickhouseSink: nothing to send counts as sent. *)
ExportPost(e) ==
  /\ job[e].pc = "post"
  /\ \E ok \in BOOLEAN :
       /\ job' = [job EXCEPT ![e].pc = "record", ![e].ok = ok]
       /\ \/ ok /\ Land(job[e].rows) /\ UNCHANGED faults
          \/ ~ok /\ job[e].rows # {} /\ Fault("refused") /\ UNCHANGED warehouse
          \/ ~ok /\ job[e].rows # {} /\ Fault("lost") /\ Land(job[e].rows)
  /\ UNCHANGED <<now, made, raw, daily, retry, since, asks, trouble>>

(* RecordClickHouseSinkSuccess removes the retry row, whatever its window;  *)
(* RecordClickHouseSinkFailure replaces it.  Their errors are dropped.      *)
ExportRecord(e) ==
  /\ job[e].pc = "record"
  /\ job' = [job EXCEPT ![e] = NoJob]
  /\ \/ retry' = (IF job[e].ok THEN NoRetry ELSE job[e].since) /\ UNCHANGED faults
     \/ Fault("record") /\ UNCHANGED retry
  /\ since' = IF job[e].ok /\ e = "worker"
              THEN [since EXCEPT !.export = IF job[e].late THEN 1 ELSE 0] ELSE since
  /\ UNCHANGED <<now, made, raw, daily, warehouse, asks, trouble>>

-----------------------------------------------------------------------------
Next ==
  \/ Request \/ Advance \/ Retain \/ AdminRollup \/ WorkerExport
  \/ \E e \in Admins : AdminExport(e) \/ AdminRetry(e)
  \/ \E e \in Exporters : ExportList(e) \/ ExportPost(e) \/ ExportRecord(e)

Spec == Init /\ [][Next]_vars

-----------------------------------------------------------------------------
(* Properties *)

(* retention.go:113: a day of which requests were deleted keeps the         *)
(* aggregate of all its requests.                                           *)
PurgedIsCounted ==
  \A d \in Days :
    Count(raw, d) < Count(made, d) => daily[d] = Count(made, d)

(* clickhouse_sink.go:591: a day that left the window of the sink worker is *)
(* in the warehouse with all its requests, however its exports fail within  *)
(* the window, unless its rollups do or an administrator exports as well.   *)
ExportComplete ==
  asks = 0 /\ "rollup" \notin trouble =>
    \A d \in Days : d < Today - SinkDays => warehouse[d] = Count(made, d)
=============================================================================
