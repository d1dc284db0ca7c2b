-------------------------- MODULE ProcessLifecycle --------------------------
(***************************************************************************)
(* The background loops of a server process and its shutdown               *)
(* (internal/proxy/background_worker.go, server_background.go and           *)
(* cmd/clustara/main.go).                                                   *)
(*                                                                          *)
(* The durable workers and the schedulers run one tick after another; a     *)
(* tick may succeed, fail or panic.  Alerts and retention have loops of     *)
(* their own and requests come in until the listener closes.  All use the   *)
(* store.  run() stops them one after the other, most with a timeout, and   *)
(* only then flushes the logger and closes the store.  Time is counted only *)
(* while run() waits: a wait takes no time or all that it may.              *)
(***************************************************************************)
EXTENDS Naturals, Sequences, Functions

CONSTANTS
  StopOrder,     \* the durable workers, in the order run() waits for them
  Schedulers,    \* the loops that NewServer starts
  Interval,      \* time between ticks
  MaxBackoff,    \* longest time between ticks
  MaxFails,      \* failures in a row that are told apart
  WorkerTimeout, \* WORKER_SHUTDOWN_TIMEOUT; 0 waits without limit
  HTTPTimeout,   \* HTTP_SHUTDOWN_TIMEOUT
  AlertLimit,    \* longest time that alerts takes to evaluate its rules
  PurgeLimit,    \* longest time that retention takes for a run
  Grace          \* time from the signal until the process is killed

Workers == Range(StopOrder)
Loops == Workers \cup Schedulers
Users == Loops \cup {"request", "alerts", "retention"}

(* What run() and its callers assume of the configuration. *)
ConstantsOK ==
  /\ Workers \cap Schedulers = {}
  /\ {"request", "alerts", "retention"} \cap Loops = {}
  /\ Interval \in Nat \ {0} /\ MaxBackoff \in Nat /\ MaxBackoff >= Interval
  /\ MaxFails \in Nat \ {0} /\ Interval * 2^(MaxFails - 1) >= MaxBackoff
  /\ {WorkerTimeout, HTTPTimeout, AlertLimit, PurgeLimit, Grace} \subseteq Nat

VARIABLES
  at,    \* the phase run() is in; 0 once the process is killed
  doing, \* user -> between ticks, in a tick, or returned
  fails, \* worker -> failures in a row
  delay, \* worker -> time to its next tick
  told,  \* the users whose context is cancelled, or whose channel is closed
  late,  \* the users that run() no longer waited for
  asked, \* whether the shutdown was asked for by a signal
  spent  \* time run() took to shut down

vars == <<at, doing, fails, delay, told, late, asked, spent>>

Phases ==
  <<"serving">> \o StopOrder \o <<"request", "schedulers", "alerts", "retention", "logger", "closed">>

TypeOK ==
  /\ at \in 0..Len(Phases)
  /\ doing \in [Users -> {"wait", "tick", "gone"}]
  /\ fails \in [Workers -> 0..MaxFails]
  /\ delay \in [Workers -> Interval..MaxBackoff]
  /\ told \subseteq Users /\ late \subseteq told
  /\ asked \in BOOLEAN /\ spent \in Nat

Init ==
  /\ at = 1 /\ spent = 0 /\ asked = FALSE
  /\ doing = [u \in Users |-> "wait"]
  /\ fails = [w \in Workers |-> 0]
  /\ delay = [w \in Workers |-> Interval]
  /\ told = {} /\ late = {}

Alive == at > 0
Overdue == asked /\ spent >= Grace
In(phase) == Alive /\ Phases[at] = phase /\ ~Overdue

-----------------------------------------------------------------------------
(* The time to the next tick after k failures in a row. *)
NextDelay(k) ==
  LET doubled[i \in Nat] ==
        IF i <= 1 THEN Interval
        ELSE IF doubled[i - 1] < MaxBackoff THEN 2 * doubled[i - 1] ELSE doubled[i - 1]
  IN  IF doubled[k] > MaxBackoff THEN MaxBackoff ELSE doubled[k]

(* The loops do not start a tick once they are told to stop, and neither do *)
(* requests; the select of alerts and retention may still take the ticker.  *)
Tick(u) ==
  /\ Alive
  /\ doing[u] = "wait"
  /\ u \in told => u \in {"alerts", "retention"}
  /\ doing' = [doing EXCEPT ![u] = "tick"]
  /\ UNCHANGED <<at, fails, delay, told, late, asked, spent>>

(* A failed tick counts unless its context was cancelled. *)
FailsAfter(w, ok) ==
  CASE ok -> 0
    [] ~ok /\ w \in told -> fails[w]
    [] OTHER -> IF fails[w] < MaxFails THEN fails[w] + 1 ELSE MaxFails

(* runTick and nextDelay; the schedulers keep their interval. *)
Count(l, ok) ==
  IF l \in Workers
  THEN /\ fails' = [fails EXCEPT ![l] = FailsAfter(l, ok)]
       /\ delay' = [delay EXCEPT ![l] = NextDelay(fails'[l])]
  ELSE UNCHANGED <<fails, delay>>

(* Mutant: a panic ends the loop that ran the tick. *)
EndTickFatal(l, outcome) ==
  /\ Alive
  /\ doing[l] = "tick"
  /\ doing' = [doing EXCEPT ![l] = IF outcome = "panic" THEN "gone" ELSE "wait"]
  /\ Count(l, outcome = "ok")
  /\ UNCHANGED <<at, told, late, asked, spent>>

(* invoke: a panic is a failure like any other. *)
EndTick(l, outcome) ==
  /\ Alive
  /\ doing[l] = "tick"
  /\ doing' = [doing EXCEPT ![l] = "wait"]
  /\ Count(l, outcome = "ok")
  /\ UNCHANGED <<at, told, late, asked, spent>>

EndWork(u) ==
  /\ Alive
  /\ doing[u] = "tick"
  /\ doing' = [doing EXCEPT ![u] = "wait"]
  /\ UNCHANGED <<at, fails, delay, told, late, asked, spent>>

(* Between ticks a user sees that it was told to stop, and returns. *)
Return(u) ==
  /\ Alive
  /\ u \in told
  /\ doing[u] = "wait"
  /\ doing' = [doing EXCEPT ![u] = "gone"]
  /\ UNCHANGED <<at, fails, delay, told, late, asked, spent>>

-----------------------------------------------------------------------------
(* The next phase.  Stop is called on the alerts, and so on, as their phase *)
(* begins; the workers are all told as the first phase begins.              *)
Advance(more) ==
  /\ at' = at + 1
  /\ told' = told \cup more
  /\ UNCHANGED <<doing, fails, delay>>

(* The phase took no time, or all that it may take. *)
Took(limit) == spent' \in {spent, spent + limit}

(* What the phase after the workers, and each later one, stops. *)
Told(phase) ==
  CASE phase \in {"request", "alerts", "retention"} -> {phase}
    [] phase = "schedulers" -> Schedulers
    [] OTHER -> {}

Signal ==
  /\ In("serving")
  /\ asked' = TRUE
  /\ Advance(Workers \cup Told(Phases[2]))
  /\ UNCHANGED <<late, spent>>

(* ListenAndServe fails: no more requests come in, and the rest is the same. *)
ListenerFails ==
  /\ In("serving")
  /\ Advance(Workers \cup {"request"})
  /\ UNCHANGED <<late, asked, spent>>

(* wait: with a timeout, unless it is zero, that only a tick outlasts. *)
WaitForWorker(w) ==
  /\ In(w)
  /\ \/ doing[w] = "gone" /\ Took(WorkerTimeout) /\ UNCHANGED late
     \/ /\ doing[w] = "tick" /\ WorkerTimeout > 0
        /\ spent' = spent + WorkerTimeout
        /\ late' = late \cup {w}
  /\ Advance(Told(Phases[at + 1]))
  /\ UNCHANGED asked

Drain ==
  /\ In("request")
  /\ \/ doing["request"] # "tick" /\ Took(HTTPTimeout) /\ UNCHANGED late
     \/ /\ doing["request"] = "tick"
        /\ spent' = spent + HTTPTimeout
        /\ late' = late \cup {"request"}
  /\ Advance(Told("schedulers"))
  /\ UNCHANGED asked

(* Mutant: the schedulers are told to stop and not waited for. *)
ShutdownAway ==
  /\ In("schedulers")
  /\ Advance(Told("alerts"))
  /\ UNCHANGED <<late, asked, spent>>

(* The server's Shutdown, with a deadline of its own. *)
Shutdown ==
  /\ In("schedulers")
  /\ LET left == {s \in Schedulers : doing[s] # "gone"}
     IN  \/ left = {} /\ Took(HTTPTimeout) /\ UNCHANGED late
         \/ /\ \E s \in left : doing[s] = "tick"
            /\ spent' = spent + HTTPTimeout
            /\ late' = late \cup left
  /\ Advance(Told("alerts"))
  /\ UNCHANGED asked

(* The deferred calls, last registered first: they wait without a timeout. *)
StopAlerts ==
  /\ In("alerts")
  /\ doing["alerts"] = "gone"
  /\ Took(AlertLimit)
  /\ Advance(Told("retention"))
  /\ UNCHANGED <<late, asked>>

StopRetention ==
  /\ In("retention")
  /\ doing["retention"] = "gone"
  /\ Took(PurgeLimit)
  /\ Advance({})
  /\ UNCHANGED <<late, asked>>

StopLogger ==
  /\ In("logger")
  /\ Advance({})
  /\ UNCHANGED <<late, asked, spent>>

(* The process is killed when its grace period is over. *)
Kill ==
  /\ Alive /\ Phases[at] # "closed" /\ Overdue
  /\ at' = 0
  /\ doing' = [u \in Users |-> "gone"]
  /\ UNCHANGED <<fails, delay, told, late, asked, spent>>

Run == Signal \/ ListenerFails \/ (\E w \in Workers : WaitForWorker(w)) \/ Drain \/ Shutdown
         \/ StopAlerts \/ StopRetention \/ StopLogger \/ Kill

Next ==
  \/ \E u \in Users : Tick(u) \/ Return(u)
  \/ \E l \in Loops, outcome \in {"ok", "error", "panic"} : EndTick(l, outcome)
  \/ \E u \in Users \ Loops : EndWork(u)
  \/ Run

Spec == Init /\ [][Next]_vars

Leaves(users) == \E u \in users : Return(u)

TicksOn(l) == Tick(l) \/ \E outcome \in {"ok", "error", "panic"} : EndTick(l, outcome)

-----------------------------------------------------------------------------
Past(phase) == Alive /\ \E i \in 1..(at - 1) : Phases[i] = phase

(* Once run() has waited for a worker, for the requests or for the          *)
(* schedulers, none of them uses the store but those it gave up waiting     *)
(* for; alerts and retention never do.  So a store that is closed is used   *)
(* by nobody else.                                                          *)
StopMeansIdle ==
  \A u \in Users :
    doing[u] = "tick" /\ Past(IF u \in Schedulers THEN "schedulers" ELSE u) => u \in late

(* The delay of a worker follows its failures: the interval while ticks     *)
(* succeed and after the first failure, then doubling up to the longest.    *)
BackoffFollows ==
  \A w \in Workers :
    delay[w] = IF fails[w] <= 1 THEN Interval
               ELSE IF Interval * 2^(fails[w] - 1) < MaxBackoff THEN Interval * 2^(fails[w] - 1)
               ELSE MaxBackoff

(* A loop goes on ticking, however often its ticks fail or panic, until it  *)
(* is told to stop.                                                         *)
KeepsTicking == \A l \in Loops : []<>(doing[l] = "tick" \/ l \in told \/ ~Alive)

(* Once it was signalled the process ends, even if ticks and requests hang. *)
ShutdownEnds == (at > 1) ~> (~Alive \/ at = Len(Phases))
=============================================================================
