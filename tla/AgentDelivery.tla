---------------------------- MODULE AgentDelivery ----------------------------
(***************************************************************************)
(* How a change in a cluster reaches the hub's inventory: the in-cluster   *)
(* agent's watch loop for one resource kind, its event channel, batches    *)
(* and offline queue file, the hub's ingestion of a batch, and the         *)
(* periodic full collection that writes the same table.                    *)
(*                                                                         *)
(* The cluster is a log of writes; the resourceVersion of a write is its   *)
(* place in the log, and 0 stands for an empty resourceVersion.  Objects   *)
(* are numbered in the order in which a listing returns them; object 0 is  *)
(* everything of another kind.  An object's content is the resourceVersion *)
(* of its last write.                                                      *)
(***************************************************************************)
EXTENDS Naturals, Sequences, FiniteSets, FiniteSetsExt, SequencesExt

CONSTANTS
    NumObjects,     \* objects of the watched kind
    MaxWrites,      \* bound: writes to the cluster
    QueueSize,      \* capacity of the event channel
    MaxBatchSize,   \* events that make the flush loop send at once
    Faults,         \* the kinds of fault that may happen
    MaxFaults,      \* bound: faults
    Collects        \* the hub also collects the whole cluster periodically

FaultKinds == {"lost", "cut", "page", "stream", "stop", "kill", "wipe", "compact"}

ASSUME BoundsAssumption ==
    /\ NumObjects \in Nat \ {0}
    /\ MaxWrites \in Nat \ {0}
    /\ QueueSize \in Nat \ {0}
    /\ MaxBatchSize \in Nat \ {0}
    /\ MaxFaults \in Nat
    /\ Faults \subseteq FaultKinds
    /\ Collects \in BOOLEAN

VARIABLES
    log,        \* the cluster: every write so far
    floor,      \* writes the API server can no longer replay
    agent,      \* the agent process: "run", "stopping" or "off"
    rv,         \* stateStore: the resourceVersion in memory
    watcher,    \* the watch goroutine
    events,     \* Runner.events, the channel
    pending,    \* the flush loop's batch in the making
    flusher,    \* the flush loop
    stateFile,  \* the resourceVersion on disk
    queueFile,  \* the offline queue on disk: batches
    request,    \* the batch the hub is working on
    seen,       \* k8s_watch_events: the keys recorded for this agent id
    inventory,  \* k8s_inventory: content of each object, 0 for no row
    snapshot,   \* what a full collection has read and not yet applied
    base,       \* where the current watch began (history)
    skewed,     \* a listing ended behind one of its own items (history)
    faults      \* faults so far

cluster == <<log, floor>>
disk    == <<stateFile, queueFile>>
memory  == <<rv, watcher, events, pending, flusher>>
hub     == <<seen, inventory, snapshot>>
history == <<base, skewed>>
vars    == <<cluster, agent, memory, disk, request, hub, history, faults>>

Objects == 1 .. NumObjects
Types   == {"ADDED", "MODIFIED", "DELETED"}
Event   == [type : Types, obj : Objects, rv : 1 .. MaxWrites]
NoEvent == [type |-> "none", obj |-> 0, rv |-> 0]

(***************************************************************************)
(* The cluster                                                             *)
(***************************************************************************)
LastWrite(o) == Max({0} \cup {i \in 1 .. Len(log) : log[i].obj = o})

Live(o) ==
    LET i == LastWrite(o) IN IF i = 0 \/ log[i].type = "DELETED" THEN 0 ELSE i

LiveState == [o \in Objects |-> Live(o)]

Fault(kind) ==
    /\ kind \in Faults
    /\ faults < MaxFaults
    /\ faults' = faults + 1

Write(o, type) ==
    /\ Len(log) < MaxWrites
    /\ IF Live(o) = 0 THEN type = "ADDED" ELSE type \in {"MODIFIED", "DELETED"}
    /\ log' = Append(log, [type |-> type, obj |-> o])
    /\ UNCHANGED <<floor, agent, memory, disk, request, hub, history, faults>>

\* A write to another kind moves the resourceVersion only.
Elsewhere == [type |-> "MODIFIED", obj |-> 0]

WriteElsewhere ==
    /\ Len(log) < MaxWrites
    /\ log' = Append(log, Elsewhere)
    /\ UNCHANGED <<floor, agent, memory, disk, request, hub, history, faults>>

\* The API server forgets old writes; a watch from before then gets 410.
Compact ==
    /\ Fault("compact")
    /\ floor' \in floor + 1 .. Len(log)
    /\ UNCHANGED <<log, agent, memory, disk, request, hub, history>>

(***************************************************************************)
(* The watch loop                                                          *)
(***************************************************************************)
Watch(label) == watcher' = [watcher EXCEPT !.pc = label]

\* enqueue: blocks while the channel is full.
Enqueue(ev) ==
    /\ Len(events) < QueueSize
    /\ events' = Append(events, ev)

Listed(o) == [type |-> "ADDED", obj |-> o, rv |-> Live(o)]

\* The live objects in the order of a listing: there is one such sequence.
Listings ==
    LET live == {Listed(o) : o \in {x \in Objects : Live(x) # 0}}
    IN {items \in SeqOf(live, NumObjects) :
          /\ ToSet(items) = live
          /\ \A i, j \in DOMAIN items : i < j => items[i].obj < items[j].obj}

Behind(items) == \E i \in DOMAIN items : items[i].rv > Last(items).rv

\* watchLoop with no resourceVersion: the whole kind, as of now.
ListCurrent ==
    /\ agent = "run"
    /\ watcher.pc = "top"
    /\ rv = 0
    /\ \E items \in Listings :
         /\ watcher' = [pc |-> "list", items |-> items, last |-> Len(log),
                        held |-> NoEvent]
         /\ skewed' = (skewed \/ Behind(items))
    /\ UNCHANGED <<cluster, agent, rv, events, pending, flusher, disk, request,
                   hub, base, faults>>

ListEnqueue ==
    /\ agent # "off"
    /\ watcher.pc = "list"
    /\ watcher.items # <<>>
    /\ Enqueue(Head(watcher.items))
    /\ watcher' = [watcher EXCEPT !.items = Tail(@), !.last = Head(watcher.items).rv]
    /\ UNCHANGED <<cluster, agent, rv, pending, flusher, disk, request, hub,
                   history, faults>>

(***************************************************************************)
(* The resourceVersion kept is the last item's, or the listing's own when  *)
(* it is empty.                                                            *)
(***************************************************************************)
ListDone ==
    /\ agent # "off"
    /\ watcher.pc = "list"
    /\ watcher.items = <<>>
    /\ rv' = watcher.last
    /\ stateFile' = watcher.last
    /\ base' = watcher.last
    /\ Watch("open")
    /\ UNCHANGED <<cluster, agent, events, pending, flusher, queueFile,
                   request, hub, skewed, faults>>

\* A page fails: what was enqueued stays, the next turn lists again.
ListFail ==
    /\ Fault("page")
    /\ watcher.pc = "list"
    /\ watcher' = [watcher EXCEPT !.pc = "top", !.items = <<>>]
    /\ UNCHANGED <<cluster, agent, rv, events, pending, flusher, disk, request,
                   hub, history>>

\* watchLoop with a resourceVersion.
StartWatch ==
    /\ agent = "run"
    /\ watcher.pc = "top"
    /\ rv # 0
    /\ Watch("open")
    /\ UNCHANGED <<cluster, agent, rv, events, pending, flusher, disk, request,
                   hub, history, faults>>

OpenWatch ==
    /\ agent = "run"
    /\ watcher.pc = "open"
    /\ rv >= floor
    /\ Watch("watch")
    /\ UNCHANGED <<cluster, agent, rv, events, pending, flusher, disk, request,
                   hub, history, faults>>

\* 410 Gone: the state is cleared, in memory and on disk.
Expire ==
    /\ agent = "run"
    /\ watcher.pc \in {"open", "watch"}
    /\ rv < floor
    /\ rv' = 0
    /\ stateFile' = 0
    /\ Watch("top")
    /\ UNCHANGED <<cluster, agent, events, pending, flusher, queueFile,
                   request, hub, history, faults>>

(***************************************************************************)
(* The stream ends or stalls; the loop goes round with the state it has.   *)
(***************************************************************************)
Reconnect ==
    /\ Fault("stream")
    /\ agent = "run"
    /\ watcher.pc = "watch"
    /\ Watch("top")
    /\ UNCHANGED <<cluster, agent, rv, events, pending, flusher, disk, request,
                   hub, history>>

(***************************************************************************)
(* One decoded event, perhaps from the decoder's buffer after the context  *)
(* ended: the state is saved first.  A write to another kind shows as a    *)
(* bookmark.                                                               *)
(***************************************************************************)
WatchEvent ==
    /\ agent # "off"
    /\ watcher.pc = "watch"
    /\ rv < Len(log)
    /\ rv' = rv + 1
    /\ stateFile' = rv + 1
    /\ LET w == log[rv + 1] IN
         IF w.obj = 0
         THEN UNCHANGED watcher
         ELSE watcher' = [watcher EXCEPT
                            !.pc = "send",
                            !.held = [type |-> w.type, obj |-> w.obj, rv |-> rv + 1]]
    /\ UNCHANGED <<cluster, agent, events, pending, flusher, queueFile,
                   request, hub, history, faults>>

\* Mutant: a full channel drops the event.
WatchEnqueueDrops ==
    /\ agent # "off"
    /\ watcher.pc = "send"
    /\ events' = IF Len(events) < QueueSize THEN Append(events, watcher.held) ELSE events
    /\ watcher' = [watcher EXCEPT !.pc = "watch", !.held = NoEvent]
    /\ UNCHANGED <<cluster, agent, rv, pending, flusher, disk, request, hub,
                   history, faults>>

WatchEnqueue ==
    /\ agent # "off"
    /\ watcher.pc = "send"
    /\ Enqueue(watcher.held)
    /\ watcher' = [watcher EXCEPT !.pc = "watch", !.held = NoEvent]
    /\ UNCHANGED <<cluster, agent, rv, pending, flusher, disk, request, hub,
                   history, faults>>

\* The context has ended: enqueue gives up, the goroutine returns.
WatchLeave ==
    /\ agent = "stopping"
    /\ watcher.pc # "gone"
    /\ watcher' = [pc |-> "gone", items |-> <<>>, last |-> 0, held |-> NoEvent]
    /\ UNCHANGED <<cluster, agent, rv, events, pending, flusher, disk, request,
                   hub, history, faults>>

(***************************************************************************)
(* The flush loop                                                          *)
(***************************************************************************)
\* flushEvents, up to its first read of the queue file.
Flush(batch, next) ==
    /\ flusher' = [pc |-> "replay", batch |-> batch, at |-> 1, next |-> next]
    /\ pending' = <<>>

Take(next) ==
    /\ events # <<>>
    /\ events' = Tail(events)
    /\ LET batch == Append(pending, Head(events)) IN
         IF Len(batch) >= MaxBatchSize
         THEN Flush(batch, next)
         ELSE pending' = batch /\ UNCHANGED flusher
    /\ UNCHANGED <<cluster, agent, rv, watcher, disk, request, hub, history,
                   faults>>

TakeEvent == agent # "off" /\ flusher.pc = "select" /\ Take("select")

(***************************************************************************)
(* The batch ticker sends what there is; the heartbeat ticker flushes even *)
(* an empty batch, which matters when the queue file is not empty.         *)
(***************************************************************************)
Tick ==
    /\ agent # "off"
    /\ flusher.pc = "select"
    /\ pending # <<>> \/ queueFile # <<>>
    /\ Flush(pending, "select")
    /\ UNCHANGED <<cluster, agent, rv, watcher, events, disk, request, hub,
                   history, faults>>

BeginDrain ==
    /\ agent = "stopping"
    /\ flusher.pc = "select"
    /\ flusher' = [flusher EXCEPT !.pc = "drain"]
    /\ UNCHANGED <<cluster, agent, rv, watcher, events, pending, disk, request,
                   hub, history, faults>>

Drain == flusher.pc = "drain" /\ Take("drain")

NoFlush == [pc |-> "select", batch |-> <<>>, at |-> 1, next |-> "select"]
AtTop   == [pc |-> "top", items |-> <<>>, last |-> 0, held |-> NoEvent]

\* The process is gone and its memory with it.
Exit ==
    /\ agent' = "off"
    /\ rv' = 0
    /\ watcher' = AtTop
    /\ events' = <<>>
    /\ pending' = <<>>
    /\ flusher' = NoFlush
    /\ request' = <<>>

\* The channel is empty: the last flush, and Run returns.
DrainDone ==
    /\ flusher.pc = "drain"
    /\ events = <<>>
    /\ IF pending # <<>>
       THEN /\ Flush(pending, "exit")
            /\ UNCHANGED <<agent, rv, watcher, events, request>>
       ELSE Exit
    /\ UNCHANGED <<cluster, disk, hub, history, faults>>

AfterDrain ==
    /\ flusher.pc = "exit"
    /\ Exit
    /\ UNCHANGED <<cluster, disk, hub, history, faults>>

Flushed == flusher' = [NoFlush EXCEPT !.pc = flusher.next]

\* postBatch: the hub gets the batch; at says how far it has come.
Post(batch) == request' = <<[batch |-> batch, at |-> 1]>>

\* flushEvents runs under the context that Stop has ended.
Cancelled == agent = "stopping" /\ flusher.next = "select"

ReplayNext ==
    /\ flusher.pc = "replay"
    /\ ~Cancelled
    /\ request = <<>>
    /\ flusher.at <= Len(queueFile)
    /\ Post(queueFile[flusher.at])
    /\ UNCHANGED <<cluster, agent, memory, disk, hub, history, faults>>

\* Everything queued was accepted: the file goes, the new batch is sent.
ReplayDone ==
    /\ flusher.pc = "replay"
    /\ ~Cancelled
    /\ request = <<>>
    /\ flusher.at > Len(queueFile)
    /\ queueFile' = <<>>
    /\ flusher' = [flusher EXCEPT !.pc = "post"]
    /\ Post(flusher.batch)
    /\ UNCHANGED <<cluster, agent, rv, watcher, events, pending, stateFile,
                   hub, history, faults>>

\* Mutant: the batch whose replay failed is not kept.
RemainingSkipsOne(batch) ==
    IF flusher.pc = "replay"
    THEN SubSeq(queueFile, flusher.at + 1, Len(queueFile)) \o batch
    ELSE queueFile \o batch

\* Mutant: a failed replay puts the new batch before the ones still queued.
RemainingReordered(batch) ==
    IF flusher.pc = "replay"
    THEN batch \o SubSeq(queueFile, flusher.at, Len(queueFile))
    ELSE queueFile \o batch

(***************************************************************************)
(* What a failed post leaves on disk: the batches not yet accepted and the *)
(* one in hand, unless that one is a heartbeat only.                       *)
(***************************************************************************)
Remaining(batch) ==
    IF flusher.pc = "replay"
    THEN SubSeq(queueFile, flusher.at, Len(queueFile)) \o batch
    ELSE queueFile \o batch

PostFails ==
    /\ queueFile' = Remaining(IF flusher.batch = <<>> THEN <<>> ELSE <<flusher.batch>>)
    /\ Flushed
    /\ request' = <<>>

(***************************************************************************)
(* The hub: ApplyAgentBatch, one event at a time                           *)
(***************************************************************************)
Current == request[1].batch[request[1].at]

Pending == request # <<>> /\ request[1].at <= Len(request[1].batch)

\* watchEventKey, next to cluster and agent id.
Key(ev) == ev

Applied(ev) ==
    [inventory EXCEPT ![ev.obj] = IF ev.type = "DELETED" THEN 0 ELSE ev.rv]

IngestEvent ==
    /\ Pending
    /\ request' = [request EXCEPT ![1].at = @ + 1]
    /\ seen' = seen \cup {Key(Current)}
    /\ inventory' = IF Key(Current) \in seen THEN inventory ELSE Applied(Current)
    /\ UNCHANGED <<cluster, agent, memory, disk, snapshot, history, faults>>

\* The response is 200 and reaches the agent.
Respond ==
    /\ request # <<>>
    /\ ~Pending
    /\ request' = <<>>
    /\ IF flusher.pc = "replay"
       THEN flusher' = [flusher EXCEPT !.at = @ + 1]
       ELSE Flushed
    /\ UNCHANGED <<cluster, agent, rv, watcher, events, pending, disk, hub,
                   history, faults>>

\* The request or the response is lost, or the token is refused: all or nothing.
LosePost ==
    /\ Fault("lost")
    /\ request # <<>>
    /\ request[1].at = 1 \/ ~Pending
    /\ PostFails
    /\ UNCHANGED <<cluster, agent, rv, watcher, events, pending, stateFile,
                   hub, history>>

RecordCut == seen' \in {seen, seen \cup {Key(Current)}}

(***************************************************************************)
(* The agent stops during a post: the request ends wherever it is, and the *)
(* batch goes to the queue file.                                           *)
(***************************************************************************)
CancelPost ==
    /\ Cancelled
    /\ flusher.pc \in {"replay", "post"}
    /\ IF Pending /\ "cut" \in Faults THEN RecordCut ELSE UNCHANGED seen
    /\ PostFails
    /\ UNCHANGED <<cluster, agent, rv, watcher, events, pending, stateFile,
                   inventory, snapshot, history, faults>>

(***************************************************************************)
(* The store fails, or the agent's timeout ends the request's context,     *)
(* between two statements: perhaps after the event was recorded and before *)
(* it was applied.                                                         *)
(***************************************************************************)
CutPost ==
    /\ Fault("cut")
    /\ Pending
    /\ RecordCut
    /\ PostFails
    /\ UNCHANGED <<cluster, agent, rv, watcher, events, pending, stateFile,
                   inventory, snapshot, history>>

(***************************************************************************)
(* The full collection: Collect lists the cluster, ApplySnapshot upserts   *)
(* what it listed and prunes every row that it did not list.               *)
(***************************************************************************)
Collect ==
    /\ Collects
    /\ snapshot = <<>>
    /\ snapshot' = <<LiveState>>
    /\ UNCHANGED <<cluster, agent, memory, disk, request, seen, inventory,
                   history, faults>>

\* Mutant: nothing is pruned.
ApplyWithoutPrune ==
    /\ snapshot # <<>>
    /\ inventory' = [o \in Objects |-> IF snapshot[1][o] = 0 THEN inventory[o]
                                       ELSE snapshot[1][o]]
    /\ snapshot' = <<>>
    /\ UNCHANGED <<cluster, agent, memory, disk, request, seen, history, faults>>

ApplySnapshot ==
    /\ snapshot # <<>>
    /\ inventory' = snapshot[1]
    /\ snapshot' = <<>>
    /\ UNCHANGED <<cluster, agent, memory, disk, request, seen, history, faults>>

(***************************************************************************)
(* Stops and restarts                                                      *)
(***************************************************************************)
Stop ==
    /\ Fault("stop")
    /\ agent = "run"
    /\ agent' = "stopping"
    /\ UNCHANGED <<cluster, memory, disk, request, hub, history>>

Kill ==
    /\ Fault("kill")
    /\ agent # "off"
    /\ Exit
    /\ UNCHANGED <<cluster, disk, hub, history>>

(***************************************************************************)
(* The pod is replaced: its emptyDir is gone, and its name, which is the   *)
(* agent id in every key, is another one.                                  *)
(***************************************************************************)
Wipe ==
    /\ Fault("wipe")
    /\ agent = "off"
    /\ stateFile' = 0
    /\ queueFile' = <<>>
    /\ seen' = {}
    /\ UNCHANGED <<cluster, agent, memory, request, inventory, snapshot,
                   history>>

Restart ==
    /\ agent = "off"
    /\ agent' = "run"
    /\ rv' = stateFile
    /\ UNCHANGED <<cluster, watcher, events, pending, flusher, disk, request,
                   hub, history, faults>>

-----------------------------------------------------------------------------
Init ==
    /\ log = <<Elsewhere>>
    /\ floor = 0
    /\ agent = "run"
    /\ rv = 0
    /\ watcher = AtTop
    /\ events = <<>>
    /\ pending = <<>>
    /\ flusher = NoFlush
    /\ stateFile = 0
    /\ queueFile = <<>>
    /\ request = <<>>
    /\ seen = {}
    /\ inventory = [o \in Objects |-> 0]
    /\ snapshot = <<>>
    /\ base = 0
    /\ skewed = FALSE
    /\ faults = 0

Watching == \/ ListCurrent \/ ListEnqueue \/ ListDone \/ StartWatch
            \/ OpenWatch \/ Expire \/ WatchEvent \/ WatchEnqueue \/ WatchLeave

Flushing == \/ TakeEvent \/ Tick \/ BeginDrain \/ Drain \/ DrainDone
            \/ AfterDrain \/ ReplayNext \/ ReplayDone \/ CancelPost

Ingesting == IngestEvent \/ Respond

Collecting == Collect \/ ApplySnapshot

Failing == \/ ListFail \/ Reconnect \/ LosePost \/ CutPost \/ Stop \/ Kill
           \/ Wipe \/ Compact

Next ==
    \/ \E o \in Objects, t \in Types : Write(o, t)
    \/ WriteElsewhere
    \/ Watching
    \/ Flushing
    \/ Ingesting
    \/ Collecting
    \/ Restart
    \/ Failing

Spec == Init /\ [][Next]_vars

-----------------------------------------------------------------------------
Batch == Seq(Event)

\* Every variable keeps its type, and channel and batch keep their bounds.
TypeOK ==
    /\ log \in Seq([type : Types, obj : Objects \cup {0}])
    /\ Len(log) \in 1 .. MaxWrites
    /\ floor \in 0 .. Len(log)
    /\ agent \in {"run", "stopping", "off"}
    /\ rv \in 0 .. Len(log)
    /\ watcher.pc \in {"top", "list", "open", "watch", "send", "gone"}
    /\ watcher.items \in Batch
    /\ watcher.last \in 0 .. Len(log)
    /\ watcher.held \in Event \cup {NoEvent}
    /\ events \in Batch /\ Len(events) <= QueueSize
    /\ pending \in Batch /\ Len(pending) < MaxBatchSize
    /\ flusher.pc \in {"select", "drain", "exit", "replay", "post"}
    /\ flusher.batch \in Batch
    /\ stateFile \in 0 .. Len(log)
    /\ queueFile \in Seq(Batch)
    /\ seen \subseteq Event
    /\ inventory \in [Objects -> 0 .. Len(log)]
    /\ base \in 0 .. Len(log)
    /\ skewed \in BOOLEAN
    /\ faults \in 0 .. MaxFaults

EventAt(i) == [type |-> log[i].type, obj |-> log[i].obj, rv |-> i]

InFlight ==
    ToSet(events) \cup ToSet(pending) \cup ToSet(flusher.batch)
    \cup {watcher.held} \cup UNION {ToSet(queueFile[i]) : i \in DOMAIN queueFile}

(***************************************************************************)
(* A restart resumes at the resourceVersion on disk, so every change up to *)
(* it since the watch began is in the hub's event table or still on its    *)
(* way: a full channel, failing posts, replays and reconnects drop none.   *)
(***************************************************************************)
NothingSkipped ==
    \A i \in base + 1 .. stateFile :
        log[i].obj # 0 => Key(EventAt(i)) \in seen \/ EventAt(i) \in InFlight

Quiet ==
    /\ agent = "run"
    /\ watcher.pc = "watch"
    /\ rv = Len(log)
    /\ events = <<>> /\ pending = <<>> /\ queueFile = <<>>
    /\ flusher.pc = "select"
    /\ snapshot = <<>>

\* A caught-up agent with nothing left to send leaves an exact inventory.
Mirrored == Quiet => inventory = LiveState

\* The same, unless a listing ended behind one of its own items.
MirroredUnlessSkewed == skewed \/ Mirrored

(***************************************************************************)
(* Batches that failed are sent before newer ones and deduplicated, so the *)
(* changes of an object are recorded, and applied, oldest first.           *)
(***************************************************************************)
RecordsInOrder ==
    \A new \in seen' \ seen, old \in seen :
        ~skewed' /\ old.obj = new.obj => old.rv <= new.rv
=============================================================================
