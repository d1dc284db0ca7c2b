------------------------------ MODULE MCProcess ------------------------------
(***************************************************************************)
(* The asynchronous log and the background loops with their shutdown, in   *)
(* one run of TLC.  The two share no state; part says which one moves, and *)
(* under which fairness, while the other stays in its initial state.       *)
(***************************************************************************)
EXTENDS AsyncLogger

CONSTANTS
    Schedulers,    \* the loops that NewServer starts
    Interval,      \* time between ticks
    MaxBackoff,    \* longest time between ticks
    WorkerTimeout, \* how long run() waits for a worker
    HTTPTimeout,   \* how long it waits for requests, and for the schedulers
    AlertLimit,    \* longest time that alerts takes to evaluate its rules
    PurgeLimit,    \* longest time that retention takes for a run
    Grace          \* time from the signal until the process is killed

VARIABLES part, at, doing, fails, delay, told, late, asked, spent

\* Both workers, in the order in which run() waits for them.
Process ==
    INSTANCE ProcessLifecycle WITH
        StopOrder <- <<"reconciler", "reaper">>, MaxFails <- 3

\* One worker and time enough, for liveness.
Small ==
    INSTANCE ProcessLifecycle WITH
        StopOrder <- <<"reconciler">>, Schedulers <- {"drift"},
        Interval <- 1, MaxBackoff <- 3, MaxFails <- 3,
        WorkerTimeout <- 3, HTTPTimeout <- 3, AlertLimit <- 3,
        PurgeLimit <- 60, Grace <- 1000

ASSUME ProcessAssumption == Process!ConstantsOK /\ Small!ConstantsOK

processVars == <<at, doing, fails, delay, told, late, asked, spent>>
all == <<vars, part, processVars>>

MCInit ==
    \/ part \in {"log", "stops"} /\ Init /\ Process!Init
    \/ part \in {"ticks", "hangs"} /\ Init /\ Small!Init

MCNext ==
    \/ part = "log" /\ Next /\ UNCHANGED <<part, processVars>>
    \/ part = "stops" /\ Process!Next /\ UNCHANGED <<part, vars>>
    \/ part \in {"ticks", "hangs"} /\ Small!Next /\ UNCHANGED <<part, vars>>

(***************************************************************************)
(* The goroutine and a replay under way go on; an administrator starts a   *)
(* replay as long as the file is there, and a stopped process again.       *)
(***************************************************************************)
LogFairness ==
    /\ WF_vars(part = "log" /\ Write)
    /\ WF_vars(part = "log" /\ Replay)
    /\ WF_vars(part = "log" /\ Resume)

\* Ticks have a deadline and end.
TickFairness ==
    \A l \in {"reconciler", "drift"} : WF_processVars(part = "ticks" /\ Small!TicksOn(l))

(***************************************************************************)
(* Ticks and requests may hang: run() goes on, so do the loops that are    *)
(* told to stop between ticks, and the work of alerts and retention, which *)
(* has a deadline.  The select of those two is not for ever in favour of   *)
(* the ticker.                                                             *)
(***************************************************************************)
HangFairness ==
    /\ WF_processVars(part = "hangs" /\ Small!Run)
    /\ \A u \in {"alerts", "retention"} : WF_processVars(part = "hangs" /\ Small!EndWork(u))
    /\ WF_processVars(part = "hangs" /\ Small!Leaves({"reconciler", "drift"}))
    /\ SF_processVars(part = "hangs" /\ Small!Leaves({"alerts", "retention"}))

MCSpec == MCInit /\ [][MCNext]_all /\ LogFairness /\ TickFairness /\ HangFairness

-----------------------------------------------------------------------------
(***************************************************************************)
(* The process keeps its type; whoever a shutdown has waited for no longer *)
(* uses the store; the delay of a worker follows its failures.             *)
(***************************************************************************)
ProcessInv ==
    part = "stops" => Process!TypeOK /\ Process!StopMeansIdle /\ Process!BackoffFollows

(***************************************************************************)
(* A loop whose ticks end goes on ticking through errors and panics, and   *)
(* the shutdown ends although ticks and requests hang.                     *)
(***************************************************************************)
LoopsAndShutdownGoOn ==
    /\ part = "ticks" => Small!KeepsTicking
    /\ part = "hangs" => Small!ShutdownEnds
=============================================================================
