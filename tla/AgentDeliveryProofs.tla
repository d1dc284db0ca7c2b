------------------------ MODULE AgentDeliveryProofs ------------------------
(***************************************************************************)
(* Proofs about AgentDelivery, as MCAgentDelivery composes it, for any     *)
(* numbers of objects and writes, any capacity and size of a batch.        *)
(***************************************************************************)
EXTENDS MCAgentDelivery, SequenceTheorems, WellFoundedInduction, TLAPS

USE BoundsAssumption DEF FaultKinds

(***************************************************************************)
(* The shape of the state: events are events of writes that happened.      *)
(***************************************************************************)
Known == [type : Types, obj : Objects, rv : 1 .. Len(log)]

ClusterTypes ==
    /\ log \in Seq([type : Types, obj : Objects \cup {0}])
    /\ Len(log) \in 1 .. MaxWrites
    /\ floor \in 0 .. Len(log)

WatchTypes ==
    /\ agent \in {"run", "stopping", "off"}
    /\ rv \in 0 .. Len(log)
    /\ watcher \in [pc : {"top", "list", "open", "watch", "send", "gone"},
                    items : Seq(Known), last : 0 .. Len(log),
                    held : Known \cup {NoEvent}]
    /\ watcher.pc = "send" => watcher.held \in Known
    /\ stateFile \in 0 .. Len(log)
    /\ base \in 0 .. Len(log)
    /\ skewed \in BOOLEAN

FlushTypes ==
    /\ events \in Seq(Known) /\ Len(events) <= QueueSize
    /\ pending \in Seq(Known) /\ Len(pending) < MaxBatchSize
    /\ flusher \in [pc : {"select", "drain", "exit", "replay", "post"},
                    batch : Seq(Known), at : Nat \ {0},
                    next : {"select", "drain", "exit"}]
    /\ queueFile \in Seq(Seq(Known))
    /\ request \in Seq([batch : Seq(Known), at : Nat \ {0}]) /\ Len(request) <= 1

HubTypes ==
    /\ seen \subseteq Known
    /\ inventory \in [Objects -> 0 .. Len(log)]
    /\ snapshot \in Seq([Objects -> 0 .. Len(log)])
    /\ faults \in 0 .. MaxFaults

TypeInv == ClusterTypes /\ WatchTypes /\ FlushTypes /\ HubTypes

-----------------------------------------------------------------------------
(***************************************************************************)
(* Sequences                                                               *)
(***************************************************************************)
LEMMA SeqMonotone ==
    ASSUME NEW A, NEW B, A \subseteq B
    PROVE  Seq(A) \subseteq Seq(B)
OBVIOUS

\* A sequence of one element at most.
LEMMA OneElement ==
    ASSUME NEW R, NEW s \in Seq(R), Len(s) <= 1
    PROVE  s = <<>> \/ (Len(s) = 1 /\ s[1] \in R)
<1>1. CASE Len(s) = 0
  BY <1>1, EmptySeq
<1>2. CASE Len(s) # 0
  <2>1. PICK n \in Nat : n = Len(s)
    OBVIOUS
  <2>2. n = 1
    BY <1>2, <2>1
  <2>3. s[1] \in R
    <3>1. s \in [1 .. n -> R]
      BY <2>1
    <3>2. 1 \in 1 .. n
      BY <2>2
    <3>. QED BY <3>1, <3>2
  <2>. QED BY <2>1, <2>2, <2>3
<1>. QED BY <1>1, <1>2

\* The same sequence with another element.
LEMMA ReplacedElement ==
    ASSUME NEW R, NEW s \in Seq(R), Len(s) = 1, NEW e \in R
    PROVE  [s EXCEPT ![1] = e] \in Seq(R) /\ Len([s EXCEPT ![1] = e]) <= 1
<1>1. PICK n : n = 1
  OBVIOUS
<1>2. n \in 1 .. Len(s) /\ Len(s) = n
  BY <1>1
<1>3. [s EXCEPT ![n] = e] \in Seq(R) /\ Len([s EXCEPT ![n] = e]) = n
  BY <1>2, ExceptSeq
<1>4. 1 <= 1
  OBVIOUS
<1>. QED BY <1>1, <1>3, <1>4, Zenon

\* The shape of the state implies the type invariant that TLC checks.
LEMMA TypeSuffices ==
    ASSUME TypeInv
    PROVE  TypeOK
<1>1. Known \subseteq Event
  BY DEF TypeInv, ClusterTypes, Known, Event
<1>2. Seq(Known) \subseteq Batch
  BY <1>1, SeqMonotone DEF Batch
<1>3. Seq(Seq(Known)) \subseteq Seq(Batch)
  BY <1>2, SeqMonotone
<1>4. /\ watcher.pc \in {"top", "list", "open", "watch", "send", "gone"}
      /\ watcher.items \in Batch /\ watcher.last \in 0 .. Len(log)
      /\ watcher.held \in Event \cup {NoEvent}
  BY <1>1, <1>2 DEF TypeInv, WatchTypes
<1>5. /\ flusher.pc \in {"select", "drain", "exit", "replay", "post"}
      /\ flusher.batch \in Batch
  BY <1>2 DEF TypeInv, FlushTypes
<1>. QED BY <1>1, <1>2, <1>3, <1>4, <1>5
         DEF TypeInv, ClusterTypes, WatchTypes, FlushTypes, HubTypes, TypeOK

\* While the cluster rests the known events stay the same.
LEMMA ClusterRests ==
    ASSUME TypeInv, UNCHANGED cluster
    PROVE  ClusterTypes' /\ Known' = Known /\ log' = log
BY DEF TypeInv, ClusterTypes, Known, cluster

\* A write adds to them.
LEMMA WriteTypes ==
    ASSUME TypeInv, NEW row \in [type : Types, obj : Objects \cup {0}],
           Len(log) < MaxWrites, log' = Append(log, row),
           UNCHANGED <<floor, agent, memory, disk, request, hub, history, faults>>
    PROVE  TypeInv'
<1>1. /\ log' \in Seq([type : Types, obj : Objects \cup {0}])
      /\ Len(log') = Len(log) + 1
      /\ Len(log) \in Nat
  BY DEF TypeInv, ClusterTypes
<1>2. ClusterTypes'
  BY <1>1 DEF TypeInv, ClusterTypes
<1>3. 0 .. Len(log) \subseteq 0 .. Len(log')
  BY <1>1
<1>4. Known \subseteq Known'
  BY <1>1 DEF Known
<1>5. Seq(Known) \subseteq Seq(Known')
  BY <1>4, SeqMonotone
<1>6. Seq(Seq(Known)) \subseteq Seq(Seq(Known'))
  BY <1>5, SeqMonotone
<1>7. WatchTypes'
  BY <1>3, <1>4, <1>5 DEF TypeInv, WatchTypes, memory, disk, history
<1>8. FlushTypes'
  <2>1. request' \in Seq([batch : Seq(Known'), at : Nat \ {0}])
    <3>. DEFINE A == [batch : Seq(Known), at : Nat \ {0}]
                B == [batch : Seq(Known'), at : Nat \ {0}]
    <3>1. A \subseteq B
      BY <1>5
    <3>2. request' = request /\ request \in Seq(A)
      BY DEF TypeInv, FlushTypes
    <3>. HIDE DEF A, B
    <3>3. Seq(A) \subseteq Seq(B)
      BY <3>1, SeqMonotone
    <3>4. request' \in Seq(B)
      BY <3>2, <3>3
    <3>. QED BY <3>4 DEF B
  <2>. QED BY <1>5, <1>6, <2>1 DEF TypeInv, FlushTypes, memory, disk
<1>9. HubTypes'
  <2>1. [Objects -> 0 .. Len(log)] \subseteq [Objects -> 0 .. Len(log')]
    BY <1>3
  <2>2. snapshot \in Seq([Objects -> 0 .. Len(log')])
    BY <2>1, SeqMonotone DEF TypeInv, HubTypes
  <2>. QED BY <1>4, <2>1, <2>2 DEF TypeInv, HubTypes, hub
<1>. QED BY <1>2, <1>7, <1>8, <1>9 DEF TypeInv

\* The last write to an object is a write to it.
LEMMA GreatestElement ==
    ASSUME NEW n \in Nat, NEW T \in SUBSET (0 .. n), T # {}
    PROVE  Max(T) \in T /\ \A y \in T : y <= Max(T)
<1>. DEFINE R == {ss \in Nat \X Nat : ss[1] < ss[2]}
            D == {n - x : x \in T}
<1>1. IsWellFoundedOn(R, Nat)
  BY NatLessThanWellFounded DEF OpToRel
<1>2. D \in SUBSET Nat /\ D # {}
  <2>1. \A x \in T : n - x \in Nat
    OBVIOUS
  <2>. QED BY <2>1
<1>. HIDE DEF R
<1>3. PICK d \in D : \A e \in D : ~(<<e, d>> \in R)
  BY <1>1, <1>2, WFMin
<1>4. \A e \in D : ~(e < d)
  BY <1>2, <1>3 DEF R
<1>5. PICK x \in T : d = n - x
  BY <1>3
<1>6. ASSUME NEW y \in T
      PROVE  y <= x
  <2>1. n - y \in D /\ n - y \in Nat /\ d \in Nat
    BY <1>2
  <2>2. ~(n - y < d)
    BY <1>4, <2>1
  <2>. QED BY <1>5, <2>1, <2>2
<1>7. \E z \in T : \A y \in T : z >= y
  BY <1>6
<1>. QED BY <1>7 DEF Max

\* What the last write is.
LEMMA LastWriteIs ==
    ASSUME ClusterTypes, NEW o
    PROVE  /\ LastWrite(o) \in 0 .. Len(log)
           /\ LastWrite(o) # 0 => log[LastWrite(o)].obj = o
           /\ \A i \in 1 .. Len(log) : log[i].obj = o => i <= LastWrite(o)
<1>. DEFINE T == {0} \cup {i \in 1 .. Len(log) : log[i].obj = o}
<1>1. Len(log) \in Nat /\ T \in SUBSET (0 .. Len(log)) /\ T # {}
  BY DEF ClusterTypes
<1>2. Max(T) \in T /\ \A y \in T : y <= Max(T)
  BY <1>1, GreatestElement
<1>3. LastWrite(o) = Max(T)
  BY DEF LastWrite
<1>. QED BY <1>1, <1>2, <1>3

\* Whether an object is live is decided by its last write.
LEMMA LiveIs ==
    ASSUME ClusterTypes, NEW o
    PROVE  /\ Live(o) \in 0 .. Len(log)
           /\ Live(o) # 0 => Live(o) = LastWrite(o) /\ log[Live(o)].type # "DELETED"
           /\ Live(o) = 0 => LastWrite(o) = 0 \/ log[LastWrite(o)].type = "DELETED"
BY LastWriteIs DEF Live, ClusterTypes

\* A listing returns known events, each object once at most.
LEMMA ListingTypes ==
    ASSUME TypeInv, NEW items \in Listings
    PROVE  /\ items \in Seq(Known)
           /\ \A e : (\E p \in DOMAIN items : items[p] = e)
                       <=> \E o \in Objects : Live(o) # 0 /\ e = Listed(o)
           /\ \A i, j \in DOMAIN items : i < j => items[i].obj < items[j].obj
<1>. DEFINE live == {Listed(o) : o \in {x \in Objects : Live(x) # 0}}
<1>1. /\ items \in SeqOf(live, NumObjects) /\ ToSet(items) = live
      /\ \A i, j \in DOMAIN items : i < j => items[i].obj < items[j].obj
  BY DEF Listings
<1>2. live \subseteq Known
  BY LiveIs DEF TypeInv, ClusterTypes, Known, Listed, Types
<1>. HIDE DEF live
<1>3. PICK m \in 0 .. NumObjects : items \in [1 .. m -> live]
  BY <1>1 DEF SeqOf
<1>4. items \in Seq(live)
  BY <1>3
<1>5. items \in Seq(Known)
  BY <1>2, <1>4, SeqMonotone
<1>6. \A e : (\E p \in DOMAIN items : items[p] = e) <=> e \in live
  BY <1>1 DEF ToSet
<1>. QED BY <1>1, <1>5, <1>6 DEF live

-----------------------------------------------------------------------------
(***************************************************************************)
(* Types: the steps                                                        *)
(***************************************************************************)
\* While the cluster rests, each group of variables keeps its type.
LEMMA WatchRests ==
    ASSUME TypeInv, UNCHANGED <<cluster, agent, rv, watcher, stateFile, history>>
    PROVE  WatchTypes'
BY ClusterRests DEF TypeInv, WatchTypes, history

\* The same for the flush loop's variables.
LEMMA FlushRests ==
    ASSUME TypeInv, UNCHANGED <<cluster, events, pending, flusher, queueFile, request>>
    PROVE  FlushTypes'
BY ClusterRests DEF TypeInv, FlushTypes

\* The same for the hub's.
LEMMA HubRests ==
    ASSUME TypeInv, UNCHANGED <<cluster, hub>>, faults' \in 0 .. MaxFaults
    PROVE  HubTypes'
BY ClusterRests DEF TypeInv, HubTypes, hub

\* A fault is counted within its bound.
LEMMA FaultTypes ==
    ASSUME TypeInv, NEW kind, Fault(kind)
    PROVE  faults' \in 0 .. MaxFaults
BY DEF TypeInv, HubTypes, Fault

\* A write, or the API server forgetting old ones.
LEMMA ClusterStepTypes ==
    ASSUME TypeInv,
           WriteElsewhere \/ Compact \/ \E o \in Objects, t \in Types : Write(o, t)
    PROVE  TypeInv'
<1>1. CASE WriteElsewhere
  <2>1. Elsewhere \in [type : Types, obj : Objects \cup {0}]
    BY DEF Elsewhere, Types
  <2>. QED BY <1>1, <2>1, WriteTypes DEF WriteElsewhere
<1>2. CASE \E o \in Objects, t \in Types : Write(o, t)
  <2>1. PICK o \in Objects, t \in Types : Write(o, t)
    BY <1>2
  <2>2. [type |-> t, obj |-> o] \in [type : Types, obj : Objects \cup {0}]
    OBVIOUS
  <2>. QED BY <2>1, <2>2, WriteTypes DEF Write
<1>3. CASE Compact
  <2>1. /\ floor' \in floor + 1 .. Len(log)
        /\ UNCHANGED <<log, agent, memory, disk, request, hub, history>>
        /\ faults' \in 0 .. MaxFaults
    BY <1>3, FaultTypes DEF Compact
  <2>2. ClusterTypes' /\ Known' = Known
    BY <2>1 DEF TypeInv, ClusterTypes, Known
  <2>3. WatchTypes'
    BY <2>1, <2>2 DEF TypeInv, WatchTypes, memory, disk, history
  <2>4. FlushTypes'
    BY <2>1, <2>2 DEF TypeInv, FlushTypes, memory, disk
  <2>5. HubTypes'
    BY <2>1, <2>2 DEF TypeInv, HubTypes, hub
  <2>. QED BY <2>2, <2>3, <2>4, <2>5 DEF TypeInv
<1>. QED BY <1>1, <1>2, <1>3

\* A step of the watch loop.
LEMMA WatchingTypes ==
    ASSUME TypeInv, Watching \/ ListFail \/ Reconnect
    PROVE  TypeInv'
<1>. DEFINE K == Known
            N == Len(log)
<1>0. UNCHANGED <<cluster, pending, flusher, queueFile, request, hub>>
  BY DEF Watching, ListCurrent, ListEnqueue, ListDone, StartWatch, OpenWatch, Expire,
         WatchEvent, WatchEnqueue, WatchLeave, ListFail, Reconnect, disk
<1>1. ClusterTypes' /\ Known' = K /\ Len(log)' = N /\ log' = log
  BY <1>0, ClusterRests
<1>2. N \in Nat
  BY DEF TypeInv, ClusterTypes
<1>3. /\ agent \in {"run", "stopping", "off"} /\ rv \in 0 .. N
      /\ watcher \in [pc : {"top", "list", "open", "watch", "send", "gone"},
                      items : Seq(K), last : 0 .. N, held : K \cup {NoEvent}]
      /\ watcher.pc = "send" => watcher.held \in K
      /\ stateFile \in 0 .. N /\ base \in 0 .. N /\ skewed \in BOOLEAN
      /\ events \in Seq(K) /\ Len(events) <= QueueSize
  BY DEF TypeInv, WatchTypes, FlushTypes
<1>4. ASSUME NEW ev \in K, Enqueue(ev)
      PROVE  events' \in Seq(K) /\ Len(events') <= QueueSize
  <2>. HIDE DEF K
  <2>. QED BY <1>3, <1>4 DEF Enqueue
<1>5. events' \in Seq(K) /\ Len(events') <= QueueSize
  <2>1. CASE ListEnqueue
    <3>1. Head(watcher.items) \in K
      <4>. HIDE DEF K
      <4>. QED BY <1>3, <2>1 DEF ListEnqueue
    <3>. QED BY <1>4, <2>1, <3>1 DEF ListEnqueue
  <2>2. CASE WatchEnqueue
    BY <1>3, <1>4, <2>2 DEF WatchEnqueue
  <2>3. CASE UNCHANGED events
    BY <1>3, <2>3
  <2>. QED BY <2>1, <2>2, <2>3
           DEF Watching, ListCurrent, ListDone, StartWatch, OpenWatch, Expire,
               WatchEvent, WatchLeave, ListFail, Reconnect
<1>6. FlushTypes'
  BY <1>0, <1>1, <1>5 DEF TypeInv, FlushTypes
<1>7. faults' \in 0 .. MaxFaults
  <2>1. CASE ListFail \/ Reconnect
    BY <2>1, FaultTypes DEF ListFail, Reconnect
  <2>2. CASE Watching
    BY <2>2 DEF TypeInv, HubTypes, Watching, ListCurrent, ListEnqueue, ListDone, StartWatch,
         OpenWatch, Expire, WatchEvent, WatchEnqueue, WatchLeave
  <2>. QED BY <2>1, <2>2
<1>8. HubTypes'
  BY <1>0, <1>7, HubRests
<1>9. WatchTypes'
  <2>. DEFINE W == [pc : {"top", "list", "open", "watch", "send", "gone"},
                    items : Seq(K), last : 0 .. N, held : K \cup {NoEvent}]
  <2>0. ASSUME agent' = agent, rv' \in 0 .. N, watcher' \in W,
               watcher'.pc = "send" => watcher'.held \in K,
               stateFile' \in 0 .. N, base' \in 0 .. N, skewed' \in BOOLEAN
        PROVE  WatchTypes'
    BY <1>1, <1>3, <2>0 DEF WatchTypes
  <2>. HIDE DEF K, N
  <2>1. CASE ListCurrent
    <3>1. PICK items \in Listings :
             /\ watcher' = [pc |-> "list", items |-> items, last |-> Len(log),
                            held |-> NoEvent]
             /\ skewed' = (skewed \/ Behind(items))
      BY <2>1 DEF ListCurrent
    <3>2. items \in Seq(K) /\ Len(log) \in 0 .. N
      BY <1>2, ListingTypes DEF K, N
    <3>3. UNCHANGED <<agent, rv, stateFile, base>>
      BY <2>1 DEF ListCurrent, disk
    <3>4. skewed' \in BOOLEAN
      BY <1>3, <3>1 DEF Behind
    <3>. QED BY <1>3, <2>0, <3>1, <3>2, <3>3, <3>4
  <2>2. CASE ListEnqueue
    <3>1. /\ watcher.items # <<>>
          /\ watcher' = [watcher EXCEPT !.items = Tail(@), !.last = Head(watcher.items).rv]
          /\ watcher.pc = "list"
          /\ UNCHANGED <<agent, rv, stateFile, base, skewed>>
      BY <2>2 DEF ListEnqueue, disk, history
    <3>2. Head(watcher.items) \in K /\ Tail(watcher.items) \in Seq(K)
      BY <1>3, <3>1
    <3>3. Head(watcher.items).rv \in 0 .. N
      BY <1>2, <3>2 DEF K, N, Known
    <3>. QED BY <1>3, <2>0, <3>1, <3>2, <3>3
  <2>3. CASE ListDone
    <3>1. /\ watcher' = [watcher EXCEPT !.pc = "open"]
          /\ rv' = watcher.last /\ stateFile' = watcher.last /\ base' = watcher.last
          /\ UNCHANGED <<agent, skewed>>
      BY <2>3 DEF ListDone, Watch
    <3>2. watcher.last \in 0 .. N
      BY <1>3
    <3>3. watcher' \in W /\ watcher'.pc = "open"
      BY <1>3, <3>1
    <3>. QED BY <1>3, <2>0, <3>1, <3>2, <3>3
  <2>4. CASE ListFail
    <3>1. /\ watcher' = [watcher EXCEPT !.pc = "top", !.items = <<>>]
          /\ UNCHANGED <<agent, rv, stateFile, base, skewed>>
      BY <2>4 DEF ListFail, disk, history
    <3>a. <<>> \in Seq(K)
      OBVIOUS
    <3>2. PICK none \in Seq(K) : none = <<>>
      BY <3>a, Zenon
    <3>3. watcher' = [watcher EXCEPT !.pc = "top", !.items = none]
      BY <3>1, <3>2
    <3>4. watcher' \in W /\ watcher'.pc = "top"
      BY <1>3, <3>3
    <3>. QED BY <1>3, <2>0, <3>1, <3>4
  <2>5. CASE StartWatch \/ OpenWatch \/ Reconnect
    <3>1. /\ \E label \in {"open", "watch", "top"} : watcher' = [watcher EXCEPT !.pc = label]
          /\ UNCHANGED <<agent, rv, stateFile, base, skewed>>
      BY <2>5 DEF StartWatch, OpenWatch, Reconnect, Watch, disk, history
    <3>2. PICK label \in {"open", "watch", "top"} : watcher' = [watcher EXCEPT !.pc = label]
      BY <3>1
    <3>3. watcher' \in W /\ watcher'.pc # "send"
      BY <1>3, <3>2
    <3>4. /\ agent' = agent /\ rv' \in 0 .. N /\ stateFile' \in 0 .. N
          /\ base' \in 0 .. N /\ skewed' \in BOOLEAN
      BY <1>3, <3>1
    <3>5. watcher' \in W /\ (watcher'.pc = "send" => watcher'.held \in K)
      BY <3>3
    <3>. HIDE DEF W
    <3>. QED BY <2>0, <3>4, <3>5
  <2>6. CASE Expire
    <3>1. /\ watcher' = [watcher EXCEPT !.pc = "top"]
          /\ rv' = 0 /\ stateFile' = 0
          /\ UNCHANGED <<agent, base, skewed>>
      BY <2>6 DEF Expire, Watch, history
    <3>2. watcher' \in W /\ watcher'.pc = "top"
      BY <1>3, <3>1
    <3>3. rv' \in 0 .. N /\ stateFile' \in 0 .. N /\ base' \in 0 .. N /\ skewed' \in BOOLEAN
      BY <1>2, <1>3, <3>1
    <3>4. watcher' \in W /\ (watcher'.pc = "send" => watcher'.held \in K)
      BY <3>2
    <3>. HIDE DEF W
    <3>. QED BY <2>0, <3>1, <3>3, <3>4
  <2>7. CASE WatchEvent
    <3>. DEFINE w == log[rv + 1]
    <3>1. /\ rv < N
          /\ watcher.pc = "watch"
          /\ rv' = rv + 1 /\ stateFile' = rv + 1
          /\ \/ w.obj = 0 /\ UNCHANGED watcher
             \/ /\ w.obj # 0
                /\ watcher' = [watcher EXCEPT
                                 !.pc = "send",
                                 !.held = [type |-> w.type, obj |-> w.obj, rv |-> rv + 1]]
          /\ UNCHANGED <<agent, base, skewed>>
      BY <2>7 DEF WatchEvent, history, N
    <3>2. rv + 1 \in 1 .. N
      BY <1>2, <1>3, <3>1
    <3>3. w \in [type : Types, obj : Objects \cup {0}]
      <4>. DEFINE Row == [type : Types, obj : Objects \cup {0}]
      <4>1. log \in Seq(Row)
        BY DEF TypeInv, ClusterTypes
      <4>2. rv + 1 \in 1 .. Len(log)
        BY <3>2 DEF N
      <4>. HIDE DEF Row
      <4>3. w \in Row
        BY <4>1, <4>2
      <4>. QED BY <4>3 DEF Row
    <3>4. CASE w.obj = 0
      BY <1>3, <2>0, <3>1, <3>2, <3>4
    <3>5. CASE w.obj # 0
      <4>1. [type |-> w.type, obj |-> w.obj, rv |-> rv + 1] \in K
        BY <3>2, <3>3, <3>5 DEF K, Known, N
      <4>. DEFINE ev == [type |-> w.type, obj |-> w.obj, rv |-> rv + 1]
      <4>2. watcher' = [watcher EXCEPT !.pc = "send", !.held = ev]
        BY <3>1, <3>5
      <4>3. ev \in K
        BY <4>1
      <4>. HIDE DEF ev, w
      <4>4. watcher' \in W /\ watcher'.held \in K
        BY <1>3, <4>2, <4>3
      <4>5. rv' \in 0 .. N /\ stateFile' \in 0 .. N
        BY <1>2, <3>1, <3>2
      <4>. QED BY <1>3, <2>0, <3>1, <4>4, <4>5
    <3>. QED BY <3>4, <3>5
  <2>8. CASE WatchEnqueue
    <3>1. /\ watcher' = [watcher EXCEPT !.pc = "watch", !.held = NoEvent]
          /\ UNCHANGED <<agent, rv, stateFile, base, skewed>>
      BY <2>8 DEF WatchEnqueue, disk, history
    <3>. QED BY <1>3, <2>0, <3>1
  <2>9. CASE WatchLeave
    <3>1. /\ watcher' = [pc |-> "gone", items |-> <<>>, last |-> 0, held |-> NoEvent]
          /\ UNCHANGED <<agent, rv, stateFile, base, skewed>>
      BY <2>9 DEF WatchLeave, disk, history
    <3>2. watcher' \in W /\ watcher'.pc # "send"
      BY <1>2, <3>1
    <3>. QED BY <1>3, <2>0, <3>1, <3>2
  <2>. QED BY <2>1, <2>2, <2>3, <2>4, <2>5, <2>6, <2>7, <2>8, <2>9 DEF Watching
<1>. QED BY <1>1, <1>6, <1>8, <1>9 DEF TypeInv

\* A step of the flush loop, or of the hub, that leaves the inventory alone.
LEMMA FlushStep ==
    ASSUME TypeInv,
           UNCHANGED <<cluster, agent, rv, watcher, stateFile, snapshot, history>>,
           faults' \in 0 .. MaxFaults,
           seen' \subseteq Known, inventory' \in [Objects -> 0 .. Len(log)],
           FlushTypes'
    PROVE  TypeInv'
<1>1. ClusterTypes' /\ Known' = Known /\ log' = log
  BY ClusterRests
<1>2. WatchTypes'
  BY WatchRests
<1>3. HubTypes'
  BY <1>1 DEF TypeInv, HubTypes
<1>. QED BY <1>1, <1>2, <1>3 DEF TypeInv

\* The event loop takes an event, and sends the batch when it is full.
LEMMA TakeTypes ==
    ASSUME TypeInv, NEW next \in {"select", "drain"}, Take(next)
    PROVE  TypeInv'
<1>. DEFINE K == Known
            batch == Append(pending, Head(events))
<1>1. /\ events # <<>> /\ events' = Tail(events)
      /\ \/ /\ Len(batch) >= MaxBatchSize
            /\ flusher' = [pc |-> "replay", batch |-> batch, at |-> 1, next |-> next]
            /\ pending' = <<>>
         \/ /\ ~(Len(batch) >= MaxBatchSize)
            /\ pending' = batch /\ UNCHANGED flusher
      /\ UNCHANGED <<cluster, agent, rv, watcher, disk, request, hub, history, faults>>
  BY DEF Take, Flush
<1>2. Known' = K
  BY <1>1, ClusterRests
<1>3. /\ events \in Seq(K) /\ Len(events) <= QueueSize /\ pending \in Seq(K)
      /\ flusher \in [pc : {"select", "drain", "exit", "replay", "post"},
                      batch : Seq(K), at : Nat \ {0}, next : {"select", "drain", "exit"}]
  BY DEF TypeInv, FlushTypes
<1>. HIDE DEF K
<1>4. events' \in Seq(K) /\ Len(events') <= QueueSize
  BY <1>1, <1>3
<1>5. batch \in Seq(K)
  BY <1>1, <1>3
<1>. HIDE DEF batch
<1>6. pending' \in Seq(K) /\ Len(pending') < MaxBatchSize
  <2>1. CASE pending' = <<>>
    BY <2>1
  <2>2. CASE pending' = batch /\ ~(Len(batch) >= MaxBatchSize)
    BY <1>5, <2>2
  <2>. QED BY <1>1, <2>1, <2>2
<1>7. flusher' \in [pc : {"select", "drain", "exit", "replay", "post"},
                    batch : Seq(K), at : Nat \ {0}, next : {"select", "drain", "exit"}]
  BY <1>1, <1>3, <1>5
<1>8. FlushTypes'
  BY <1>1, <1>2, <1>4, <1>6, <1>7 DEF TypeInv, FlushTypes, disk, K
<1>. QED BY <1>1, <1>8, FlushStep DEF TypeInv, HubTypes, disk, hub

\* After a failed post the queue file holds batches.
LEMMA PostFailsTypes ==
    ASSUME TypeInv, PostFails, UNCHANGED <<cluster, events, pending>>
    PROVE  FlushTypes'
<1>. DEFINE K == Known
            B == Seq(K)
            own == IF flusher.batch = <<>> THEN <<>> ELSE <<flusher.batch>>
<1>1. Known' = K
  BY ClusterRests
<1>2. /\ queueFile' = Remaining(own)
      /\ flusher' = [NoFlush EXCEPT !.pc = flusher.next]
      /\ request' = <<>>
  BY DEF PostFails, Flushed
<1>3. /\ events \in B /\ Len(events) <= QueueSize
      /\ pending \in B /\ Len(pending) < MaxBatchSize
      /\ flusher \in [pc : {"select", "drain", "exit", "replay", "post"},
                      batch : B, at : Nat \ {0}, next : {"select", "drain", "exit"}]
      /\ queueFile \in Seq(B)
  BY DEF TypeInv, FlushTypes
<1>. HIDE DEF K
<1>4. flusher' = [pc |-> flusher.next, batch |-> <<>>, at |-> 1, next |-> "select"]
  BY <1>2 DEF NoFlush
<1>5. flusher' \in [pc : {"select", "drain", "exit", "replay", "post"},
                    batch : B, at : Nat \ {0}, next : {"select", "drain", "exit"}]
  BY <1>3, <1>4
<1>. HIDE DEF B
<1>6. own \in Seq(B)
  <2>1. flusher.batch \in B
    BY <1>3
  <2>. QED BY <2>1
<1>. HIDE DEF own
<1>7. SubSeq(queueFile, flusher.at, Len(queueFile)) \in Seq(B)
  <2>1. flusher.at \in Nat \ {0} /\ Len(queueFile) \in Nat
    BY <1>3
  <2>. QED BY <1>3, <2>1
<1>8. queueFile' \in Seq(B)
  BY <1>2, <1>3, <1>6, <1>7 DEF Remaining
<1>. QED BY <1>1, <1>2, <1>3, <1>5, <1>8 DEF FlushTypes, K, B

\* The batch the hub gets is one of the agent's.
LEMMA PostTypes ==
    ASSUME TypeInv, NEW batch \in Seq(Known), Post(batch),
           UNCHANGED <<cluster, events, pending>>,
           flusher' \in [pc : {"select", "drain", "exit", "replay", "post"},
                         batch : Seq(Known), at : Nat \ {0},
                         next : {"select", "drain", "exit"}],
           queueFile' \in Seq(Seq(Known))
    PROVE  FlushTypes'
<1>. DEFINE R == [batch : Seq(Known), at : Nat \ {0}]
            r == [batch |-> batch, at |-> 1]
<1>1. Known' = Known
  BY ClusterRests
<1>2. r \in R
  OBVIOUS
<1>3. request' = <<r>>
  BY DEF Post
<1>. HIDE DEF R, r
<1>4. request' \in Seq(R) /\ Len(request') <= 1
  BY <1>2, <1>3
<1>. QED BY <1>1, <1>4 DEF TypeInv, FlushTypes, R

\* The hub's next event is a known one.
LEMMA CurrentKnown ==
    ASSUME TypeInv, Pending
    PROVE  /\ Len(request) = 1
           /\ request[1] \in [batch : Seq(Known), at : Nat \ {0}]
           /\ request[1].at \in 1 .. Len(request[1].batch)
           /\ Current \in Known
<1>. DEFINE R == [batch : Seq(Known), at : Nat \ {0}]
<1>1. request \in Seq(R) /\ Len(request) <= 1 /\ request # <<>>
  BY DEF TypeInv, FlushTypes, Pending
<1>2. Len(request) = 1 /\ request[1] \in R
  <2>. HIDE DEF R
  <2>. QED BY <1>1, OneElement
<1>3. request[1].at \in 1 .. Len(request[1].batch)
  BY <1>2 DEF Pending
<1>4. request[1].batch[request[1].at] \in Known
  <2>1. request[1].batch \in Seq(Known)
    BY <1>2
  <2>. QED BY <1>3, <2>1
<1>. QED BY <1>1, <1>2, <1>3, <1>4 DEF Current

\* The process's memory is gone.
LEMMA ExitTypes ==
    ASSUME TypeInv, Exit, UNCHANGED <<cluster, disk, hub, history>>,
           faults' \in 0 .. MaxFaults
    PROVE  TypeInv'
<1>1. ClusterTypes' /\ Known' = Known /\ log' = log
  BY ClusterRests
<1>2. /\ agent' = "off" /\ rv' = 0 /\ watcher' = AtTop /\ events' = <<>>
      /\ pending' = <<>> /\ flusher' = NoFlush /\ request' = <<>>
  BY DEF Exit
<1>3. Len(log) \in Nat
  BY DEF TypeInv, ClusterTypes
<1>4. /\ AtTop \in [pc : {"top", "list", "open", "watch", "send", "gone"},
                   items : Seq(Known), last : 0 .. Len(log), held : Known \cup {NoEvent}]
      /\ AtTop.pc # "send"
  BY <1>3 DEF AtTop
<1>5. NoFlush \in [pc : {"select", "drain", "exit", "replay", "post"},
                  batch : Seq(Known), at : Nat \ {0}, next : {"select", "drain", "exit"}]
  BY DEF NoFlush
<1>6. WatchTypes'
  BY <1>1, <1>2, <1>3, <1>4 DEF TypeInv, WatchTypes, disk, history
<1>7. FlushTypes'
  <2>1. /\ <<>> \in Seq(Known) /\ Len(<<>>) = 0
        /\ <<>> \in Seq([batch : Seq(Known), at : Nat \ {0}])
    OBVIOUS
  <2>2. queueFile' \in Seq(Seq(Known))
    BY DEF TypeInv, FlushTypes, disk
  <2>3. /\ events' \in Seq(Known) /\ Len(events') <= QueueSize
        /\ pending' \in Seq(Known) /\ Len(pending') < MaxBatchSize
        /\ request' \in Seq([batch : Seq(Known), at : Nat \ {0}]) /\ Len(request') <= 1
    BY <1>2, <2>1
  <2>. QED BY <1>1, <1>2, <1>5, <2>2, <2>3 DEF FlushTypes
<1>8. HubTypes'
  BY HubRests
<1>. QED BY <1>1, <1>6, <1>7, <1>8 DEF TypeInv

\* A step of the flush loop.
LEMMA FlushingTypes ==
    ASSUME TypeInv, Flushing \/ LosePost \/ CutPost
    PROVE  TypeInv'
<1>. DEFINE F == [pc : {"select", "drain", "exit", "replay", "post"},
                  batch : Seq(Known), at : Nat \ {0}, next : {"select", "drain", "exit"}]
<1>0. /\ flusher \in F /\ pending \in Seq(Known) /\ Len(pending) < MaxBatchSize
      /\ events \in Seq(Known) /\ Len(events) <= QueueSize
      /\ queueFile \in Seq(Seq(Known))
      /\ seen \subseteq Known /\ inventory \in [Objects -> 0 .. Len(log)]
      /\ faults \in 0 .. MaxFaults
  BY DEF TypeInv, FlushTypes, HubTypes
<1>1. CASE TakeEvent \/ Drain
  BY <1>1, TakeTypes DEF TakeEvent, Drain
<1>2. CASE Tick
  <2>1. /\ flusher' = [pc |-> "replay", batch |-> pending, at |-> 1, next |-> "select"]
        /\ pending' = <<>>
        /\ UNCHANGED <<cluster, agent, rv, watcher, events, disk, request, hub,
                       history, faults>>
    BY <1>2 DEF Tick, Flush
  <2>2. flusher' \in F
    BY <1>0, <2>1
  <2>3. pending' \in Seq(Known) /\ Len(pending') < MaxBatchSize
    BY <2>1
  <2>4. FlushTypes'
    BY <2>1, <2>2, <2>3, ClusterRests DEF TypeInv, FlushTypes, disk
  <2>. QED BY <1>0, <2>1, <2>4, FlushStep DEF disk, hub
<1>3. CASE BeginDrain
  <2>1. /\ flusher' = [flusher EXCEPT !.pc = "drain"]
        /\ UNCHANGED <<cluster, agent, rv, watcher, events, pending, disk, request,
                       hub, history, faults>>
    BY <1>3 DEF BeginDrain
  <2>2. flusher' \in F
    BY <1>0, <2>1
  <2>3. FlushTypes'
    BY <2>1, <2>2, ClusterRests DEF TypeInv, FlushTypes, disk
  <2>. QED BY <1>0, <2>1, <2>3, FlushStep DEF disk, hub
<1>4. CASE ReplayNext
  <2>1. /\ flusher.at <= Len(queueFile) /\ Post(queueFile[flusher.at])
        /\ UNCHANGED <<cluster, agent, memory, disk, hub, history, faults>>
    BY <1>4 DEF ReplayNext
  <2>2. queueFile[flusher.at] \in Seq(Known)
    <3>. DEFINE B == Seq(Known)
    <3>1. queueFile \in Seq(B) /\ flusher.at \in 1 .. Len(queueFile)
      BY <1>0, <2>1
    <3>. HIDE DEF B
    <3>2. queueFile[flusher.at] \in B
      BY <3>1
    <3>. QED BY <3>2 DEF B
  <2>3. flusher' \in F /\ queueFile' \in Seq(Seq(Known))
        /\ UNCHANGED <<cluster, events, pending>>
    BY <1>0, <2>1 DEF memory, disk
  <2>4. FlushTypes'
    BY <2>1, <2>2, <2>3, PostTypes
  <2>. QED BY <1>0, <2>1, <2>4, FlushStep DEF memory, disk, hub
<1>5. CASE ReplayDone
  <2>1. /\ queueFile' = <<>> /\ flusher' = [flusher EXCEPT !.pc = "post"]
        /\ Post(flusher.batch)
        /\ UNCHANGED <<cluster, agent, rv, watcher, events, pending, stateFile,
                       hub, history, faults>>
    BY <1>5 DEF ReplayDone
  <2>2. flusher' \in F /\ flusher.batch \in Seq(Known)
    BY <1>0, <2>1
  <2>3. queueFile' \in Seq(Seq(Known))
    BY <2>1
  <2>4. FlushTypes'
    BY <2>1, <2>2, <2>3, PostTypes
  <2>. QED BY <1>0, <2>1, <2>4, FlushStep DEF hub
<1>6. CASE LosePost \/ CutPost \/ CancelPost
  <2>1. /\ PostFails
        /\ UNCHANGED <<cluster, agent, rv, watcher, events, pending, stateFile,
                       inventory, snapshot, history>>
    BY <1>6 DEF LosePost, CutPost, CancelPost, hub
  <2>2. faults' \in 0 .. MaxFaults
    BY <1>0, <1>6, FaultTypes DEF LosePost, CutPost, CancelPost
  <2>3. seen' \subseteq Known
    <3>1. CASE UNCHANGED seen
      BY <1>0, <3>1
    <3>2. CASE Pending /\ RecordCut
      BY <1>0, <3>2, CurrentKnown DEF RecordCut, Key
    <3>. QED BY <1>6, <3>1, <3>2 DEF LosePost, CutPost, CancelPost, hub
  <2>4. FlushTypes'
    BY <2>1, PostFailsTypes
  <2>. QED BY <1>0, <2>1, <2>2, <2>3, <2>4, FlushStep
<1>7. CASE DrainDone \/ AfterDrain
  <2>1. CASE DrainDone /\ pending # <<>>
    <3>1. /\ flusher' = [pc |-> "replay", batch |-> pending, at |-> 1, next |-> "exit"]
          /\ pending' = <<>>
          /\ UNCHANGED <<agent, rv, watcher, events, request>>
          /\ UNCHANGED <<cluster, disk, hub, history, faults>>
      BY <2>1 DEF DrainDone, Flush
    <3>2. flusher' \in F
      BY <1>0, <3>1
    <3>3. pending' \in Seq(Known) /\ Len(pending') < MaxBatchSize
      BY <3>1
    <3>4. FlushTypes'
      BY <3>1, <3>2, <3>3, ClusterRests DEF TypeInv, FlushTypes, disk
    <3>. QED BY <1>0, <3>1, <3>4, FlushStep DEF disk, hub
  <2>2. CASE Exit /\ UNCHANGED <<cluster, disk, hub, history, faults>>
    BY <1>0, <2>2, ExitTypes
  <2>. QED BY <1>7, <2>1, <2>2 DEF DrainDone, AfterDrain
<1>. QED BY <1>1, <1>2, <1>3, <1>4, <1>5, <1>6, <1>7 DEF Flushing

\* What the hub makes of an event.
LEMMA IngestTypes ==
    ASSUME TypeInv, IngestEvent
    PROVE  TypeInv'
<1>. DEFINE R == [batch : Seq(Known), at : Nat \ {0}]
            new == [request[1] EXCEPT !.at = @ + 1]
<1>1. /\ Pending
      /\ request' = [request EXCEPT ![1] = new]
      /\ seen' = seen \cup {Current}
      /\ inventory' = IF Current \in seen THEN inventory ELSE Applied(Current)
      /\ UNCHANGED <<cluster, agent, memory, disk, snapshot, history, faults>>
  BY DEF IngestEvent, Key
<1>2. Len(request) = 1 /\ request \in Seq(R) /\ request[1] \in R /\ Current \in Known
  BY <1>1, CurrentKnown DEF TypeInv, FlushTypes
<1>3. new \in R
  <2>. DEFINE r == request[1]
  <2>1. r \in R
    BY <1>2
  <2>2. r.batch \in Seq(Known) /\ r.at \in Nat \ {0} /\ r = [batch |-> r.batch, at |-> r.at]
    BY <2>1
  <2>. HIDE DEF r
  <2>3. [r EXCEPT !.at = @ + 1] = [batch |-> r.batch, at |-> r.at + 1]
    BY <2>2
  <2>. QED BY <2>2, <2>3 DEF r
<1>. HIDE DEF R, new
<1>4. request' \in Seq(R) /\ Len(request') <= 1
  <2>1. request' = [request EXCEPT ![1] = new]
    BY <1>1
  <2>. QED BY <1>2, <1>3, <2>1, ReplacedElement, Zenon
<1>5. FlushTypes'
  BY <1>1, <1>4, ClusterRests DEF TypeInv, FlushTypes, memory, disk, R
<1>6. inventory' \in [Objects -> 0 .. Len(log)]
  <2>1. inventory \in [Objects -> 0 .. Len(log)] /\ Len(log) \in Nat
    BY DEF TypeInv, HubTypes, ClusterTypes
  <2>2. Current.obj \in Objects /\ Current.rv \in 0 .. Len(log)
    BY <1>2, <2>1 DEF Known
  <2>3. (IF Current.type = "DELETED" THEN 0 ELSE Current.rv) \in 0 .. Len(log)
    BY <2>1, <2>2
  <2>. QED BY <1>1, <2>1, <2>2, <2>3 DEF Applied
<1>7. seen' \subseteq Known /\ faults' \in 0 .. MaxFaults
  BY <1>1, <1>2 DEF TypeInv, HubTypes
<1>. QED BY <1>1, <1>5, <1>6, <1>7, FlushStep DEF memory, disk

\* The hub's response.
LEMMA RespondTypes ==
    ASSUME TypeInv, Respond
    PROVE  TypeInv'
<1>. DEFINE F == [pc : {"select", "drain", "exit", "replay", "post"},
                  batch : Seq(Known), at : Nat \ {0}, next : {"select", "drain", "exit"}]
<1>1. /\ request' = <<>>
      /\ \/ flusher' = [flusher EXCEPT !.at = @ + 1]
         \/ flusher' = [NoFlush EXCEPT !.pc = flusher.next]
      /\ UNCHANGED <<cluster, agent, rv, watcher, events, pending, disk, hub,
                     history, faults>>
  BY DEF Respond, Flushed
<1>2. flusher \in F
  BY DEF TypeInv, FlushTypes
<1>3. flusher' \in F
  <2>1. CASE flusher' = [flusher EXCEPT !.at = @ + 1]
    BY <1>2, <2>1
  <2>2. CASE flusher' = [NoFlush EXCEPT !.pc = flusher.next]
    <3>1. flusher' = [pc |-> flusher.next, batch |-> <<>>, at |-> 1, next |-> "select"]
      BY <2>2 DEF NoFlush
    <3>. QED BY <1>2, <3>1
  <2>. QED BY <1>1, <2>1, <2>2
<1>4. request' \in Seq([batch : Seq(Known), at : Nat \ {0}]) /\ Len(request') <= 1
  <2>1. /\ <<>> \in Seq([batch : Seq(Known), at : Nat \ {0}]) /\ Len(<<>>) = 0
    OBVIOUS
  <2>. QED BY <1>1, <2>1
<1>5. FlushTypes'
  BY <1>1, <1>3, <1>4, ClusterRests DEF TypeInv, FlushTypes, disk
<1>. QED BY <1>1, <1>5, FlushStep DEF TypeInv, HubTypes, disk, hub

\* A collection reads what lives and writes what it read.
LEMMA CollectingTypes ==
    ASSUME TypeInv, Collecting
    PROVE  TypeInv'
<1>. DEFINE M == [Objects -> 0 .. Len(log)]
<1>1. inventory \in M /\ snapshot \in Seq(M) /\ LiveState \in M
  BY LiveIs DEF TypeInv, HubTypes, LiveState
<1>2. /\ \/ snapshot' = <<LiveState>> /\ UNCHANGED inventory
         \/ snapshot' = <<>> /\ snapshot # <<>> /\ inventory' = snapshot[1]
      /\ UNCHANGED <<cluster, agent, memory, disk, request, seen, history, faults>>
  BY DEF Collecting, Collect, ApplySnapshot
<1>. HIDE DEF M
<1>3. snapshot' \in Seq(M)
  <2>. DEFINE now == LiveState
  <2>1. now \in M /\ (snapshot' = <<now>> \/ snapshot' = <<>>)
    BY <1>1, <1>2
  <2>2. <<>> \in Seq(M)
    OBVIOUS
  <2>. HIDE DEF now
  <2>3. <<now>> \in Seq(M)
    BY <2>1
  <2>. QED BY <2>1, <2>2, <2>3
<1>4. inventory' \in M
  <2>1. CASE snapshot # <<>> /\ inventory' = snapshot[1]
    <3>1. Len(snapshot) # 0 /\ Len(snapshot) \in Nat
      BY <1>1, <2>1, EmptySeq
    <3>2. snapshot[1] \in M
      BY <1>1, <3>1
    <3>. QED BY <2>1, <3>2
  <2>. QED BY <1>1, <1>2, <2>1
<1>5. WatchTypes'
  BY <1>2, WatchRests DEF memory, disk, history
<1>6. FlushTypes'
  BY <1>2, FlushRests DEF memory, disk
<1>7. ClusterTypes' /\ Known' = Known /\ Len(log)' = Len(log)
  BY <1>2, ClusterRests
<1>8. HubTypes'
  BY <1>2, <1>3, <1>4, <1>7 DEF TypeInv, HubTypes, M
<1>. QED BY <1>5, <1>6, <1>7, <1>8 DEF TypeInv

\* Stops, restarts and a replaced pod.
LEMMA ProcessTypes ==
    ASSUME TypeInv, Stop \/ Kill \/ Wipe \/ Restart
    PROVE  TypeInv'
<1>0. faults' \in 0 .. MaxFaults
  BY FaultTypes DEF Stop, Kill, Wipe, Restart, TypeInv, HubTypes
<1>1. CASE Kill
  BY <1>0, <1>1, ExitTypes DEF Kill
<1>2. CASE Stop \/ Restart
  <2>1. /\ agent' \in {"run", "stopping"} /\ rv' \in {rv, stateFile}
        /\ UNCHANGED <<cluster, watcher, events, pending, flusher, disk, request, hub,
                       history>>
    BY <1>2 DEF Stop, Restart, memory
  <2>2. ClusterTypes' /\ Known' = Known /\ Len(log)' = Len(log)
    BY <2>1, ClusterRests
  <2>3. WatchTypes'
    BY <2>1, <2>2 DEF TypeInv, WatchTypes, disk, history
  <2>4. FlushTypes'
    BY <2>1, FlushRests DEF disk
  <2>5. HubTypes'
    BY <1>0, <2>1, HubRests
  <2>. QED BY <2>2, <2>3, <2>4, <2>5 DEF TypeInv
<1>3. CASE Wipe
  <2>1. /\ stateFile' = 0 /\ queueFile' = <<>> /\ seen' = {}
        /\ UNCHANGED <<cluster, agent, memory, request, inventory, snapshot, history>>
    BY <1>3 DEF Wipe
  <2>2. ClusterTypes' /\ Known' = Known /\ Len(log)' = Len(log)
    BY <2>1, ClusterRests
  <2>3. WatchTypes'
    BY <2>1, <2>2 DEF TypeInv, WatchTypes, memory, history, ClusterTypes
  <2>4. queueFile' \in Seq(Seq(Known))
    BY <2>1
  <2>5. FlushTypes'
    BY <2>1, <2>2, <2>4 DEF TypeInv, FlushTypes, memory
  <2>6. HubTypes'
    BY <1>0, <2>1, <2>2 DEF TypeInv, HubTypes
  <2>. QED BY <2>2, <2>3, <2>5, <2>6 DEF TypeInv
<1>. QED BY <1>1, <1>2, <1>3

\* Every step keeps the shape of the state, whatever the faults.
LEMMA StepTypes ==
    ASSUME TypeInv, [Next]_vars
    PROVE  TypeInv'
<1>1. CASE UNCHANGED vars
  <2>1. UNCHANGED <<cluster, agent, rv, watcher, stateFile, history>>
        /\ UNCHANGED <<events, pending, flusher, queueFile, request, hub, faults>>
    BY <1>1 DEF vars, memory, disk
  <2>2. faults' \in 0 .. MaxFaults
    BY <2>1 DEF TypeInv, HubTypes
  <2>. QED BY <2>1, <2>2, ClusterRests, WatchRests, FlushRests, HubRests DEF TypeInv
<1>. QED BY <1>1, ClusterStepTypes, WatchingTypes, FlushingTypes, IngestTypes, RespondTypes,
            CollectingTypes, ProcessTypes DEF Next, Ingesting, Failing

\* So does the start.
LEMMA InitTypes ==
    ASSUME Init
    PROVE  TypeInv
<1>1. /\ log = <<Elsewhere>> /\ floor = 0 /\ agent = "run" /\ rv = 0 /\ watcher = AtTop
      /\ events = <<>> /\ pending = <<>> /\ flusher = NoFlush /\ stateFile = 0
      /\ queueFile = <<>> /\ request = <<>> /\ seen = {}
      /\ inventory = [o \in Objects |-> 0] /\ snapshot = <<>> /\ base = 0
      /\ skewed = FALSE /\ faults = 0
  BY DEF Init
<1>2. ClusterTypes
  <2>1. Elsewhere \in [type : Types, obj : Objects \cup {0}]
    BY DEF Elsewhere, Types
  <2>. HIDE DEF Elsewhere
  <2>2. log \in Seq([type : Types, obj : Objects \cup {0}]) /\ Len(log) = 1
    BY <1>1, <2>1
  <2>. QED BY <1>1, <2>2 DEF ClusterTypes
<1>3. WatchTypes
  <2>1. /\ AtTop \in [pc : {"top", "list", "open", "watch", "send", "gone"},
                     items : Seq(Known), last : 0 .. Len(log), held : Known \cup {NoEvent}]
        /\ AtTop.pc # "send"
    BY <1>2 DEF AtTop, ClusterTypes
  <2>. QED BY <1>1, <1>2, <2>1 DEF WatchTypes, ClusterTypes
<1>4. FlushTypes
  <2>1. NoFlush \in [pc : {"select", "drain", "exit", "replay", "post"},
                    batch : Seq(Known), at : Nat \ {0}, next : {"select", "drain", "exit"}]
    BY DEF NoFlush
  <2>2. /\ <<>> \in Seq(Known) /\ Len(<<>>) = 0
        /\ <<>> \in Seq([batch : Seq(Known), at : Nat \ {0}])
        /\ <<>> \in Seq(Seq(Known))
    OBVIOUS
  <2>3. /\ events \in Seq(Known) /\ Len(events) <= QueueSize
        /\ pending \in Seq(Known) /\ Len(pending) < MaxBatchSize
        /\ request \in Seq([batch : Seq(Known), at : Nat \ {0}]) /\ Len(request) <= 1
        /\ queueFile \in Seq(Seq(Known))
    BY <1>1, <2>2
  <2>. QED BY <1>1, <2>1, <2>3 DEF FlushTypes
<1>5. HubTypes
  <2>1. <<>> \in Seq([Objects -> 0 .. Len(log)])
    OBVIOUS
  <2>2. [o \in Objects |-> 0] \in [Objects -> 0 .. Len(log)]
    BY <1>2 DEF ClusterTypes
  <2>. QED BY <1>1, <2>1, <2>2 DEF HubTypes
<1>. QED BY <1>2, <1>3, <1>4, <1>5 DEF TypeInv

-----------------------------------------------------------------------------
(***************************************************************************)
(* Nothing is skipped                                                      *)
(***************************************************************************)
\* Faults that leave the agent's process and its disk alone.
Keeps == Faults \subseteq {"lost", "cut", "page", "stream", "compact"}

In(e, s) == \E p \in DOMAIN s : s[p] = e

Queued(e) == \E i \in DOMAIN queueFile : In(e, queueFile[i])

\* An event is in the agent's channel, in one of its batches or on its disk.
Waiting(e) == Queued(e) \/ In(e, flusher.batch) \/ In(e, pending) \/ In(e, events)

\* It is there, with the watch loop, or recorded.
UnderWay(e) == e \in seen \/ e = watcher.held \/ Waiting(e)

(***************************************************************************)
(* The state on disk is the one in memory, and the event that the watch    *)
(* loop holds is the one it has saved last.                                *)
(***************************************************************************)
WatchOK ==
    /\ agent = "run" /\ stateFile = rv
    /\ IF watcher.pc = "send" THEN watcher.held = EventAt(rv)
       ELSE watcher.held = NoEvent

(***************************************************************************)
(* A batch is given up only when all of it is recorded: the hub has        *)
(* recorded what is before its place in a batch, and what is before the    *)
(* flush loop's place in the queue file.                                   *)
(***************************************************************************)
FlushOK ==
    /\ flusher.pc \in {"select", "replay", "post"} /\ flusher.next = "select"
    /\ flusher.pc = "select" => flusher.batch = <<>> /\ request = <<>>
    /\ flusher.pc = "post" =>
         queueFile = <<>> /\ request # <<>> /\ request[1].batch = flusher.batch
    /\ flusher.pc = "replay" =>
         /\ flusher.at <= Len(queueFile) + 1
         /\ \A i \in 1 .. (flusher.at - 1) : \A e : In(e, queueFile[i]) => e \in seen
         /\ request # <<>> =>
              flusher.at <= Len(queueFile) /\ request[1].batch = queueFile[flusher.at]
    /\ request # <<>> =>
         /\ request[1].at <= Len(request[1].batch) + 1
         /\ \A j \in 1 .. (request[1].at - 1) : request[1].batch[j] \in seen

Skipless ==
    \A i \in base + 1 .. stateFile : log[i].obj # 0 => UnderWay(EventAt(i))

DeliveryInv == WatchOK /\ FlushOK /\ Skipless

\* Membership of sequences.
LEMMA InAppend ==
    ASSUME NEW S, NEW s \in Seq(S), NEW x \in S, NEW e
    PROVE  In(e, Append(s, x)) <=> In(e, s) \/ e = x
<1>1. /\ Append(s, x) \in Seq(S) /\ Len(Append(s, x)) = Len(s) + 1
      /\ Append(s, x)[Len(s) + 1] = x
      /\ \A p \in 1 .. Len(s) : Append(s, x)[p] = s[p]
  BY AppendProperties
<1>2. DOMAIN Append(s, x) = 1 .. (Len(s) + 1) /\ DOMAIN s = 1 .. Len(s) /\ Len(s) \in Nat
  BY <1>1
<1>. DEFINE t == Append(s, x)
<1>. HIDE DEF t
<1>3. In(e, t) => In(e, s) \/ e = x
  BY <1>1, <1>2 DEF In, t
<1>4. In(e, s) => In(e, t)
  <2>1. \A p \in DOMAIN s : p \in DOMAIN t /\ t[p] = s[p]
    BY <1>1, <1>2 DEF t
  <2>. QED BY <2>1 DEF In
<1>5. In(x, t)
  <2>1. Len(s) + 1 \in DOMAIN t /\ t[Len(s) + 1] = x
    BY <1>1, <1>2 DEF t
  <2>. QED BY <2>1 DEF In
<1>. QED BY <1>3, <1>4, <1>5 DEF t

\* What is in a sequence is its head or in its tail.
LEMMA InTail ==
    ASSUME NEW S, NEW s \in Seq(S), s # <<>>, NEW e
    PROVE  In(e, s) <=> e = Head(s) \/ In(e, Tail(s))
<1>1. Len(s) \in Nat \ {0} /\ DOMAIN s = 1 .. Len(s)
  BY EmptySeq, LenProperties
<1>2. /\ Head(s) = s[1] /\ Len(Tail(s)) = Len(s) - 1 /\ DOMAIN Tail(s) = 1 .. (Len(s) - 1)
      /\ \A p \in 1 .. (Len(s) - 1) : Tail(s)[p] = s[p + 1]
  BY <1>1, HeadTailProperties, LenProperties
<1>. DEFINE t == Tail(s)
<1>. HIDE DEF t
<1>3. ASSUME NEW p \in DOMAIN s, s[p] = e
      PROVE  e = Head(s) \/ In(e, t)
  <2>1. CASE p = 1
    BY <1>2, <1>3, <2>1
  <2>2. CASE p # 1
    <3>1. p - 1 \in DOMAIN t /\ t[p - 1] = s[p]
      BY <1>1, <1>2, <2>2 DEF t
    <3>. QED BY <1>3, <3>1 DEF In
  <2>. QED BY <2>1, <2>2
<1>4. ASSUME NEW p \in DOMAIN t, t[p] = e
      PROVE  In(e, s)
  <2>1. p + 1 \in DOMAIN s /\ s[p + 1] = e
    BY <1>1, <1>2, <1>4 DEF t
  <2>. QED BY <2>1 DEF In
<1>5. In(Head(s), s)
  BY <1>1, <1>2 DEF In
<1>. QED BY <1>3, <1>4, <1>5 DEF In, t

\* Nothing is in the empty sequence.
LEMMA InNone == \A e : ~In(e, <<>>)
BY DEF In

\* The event of a write to the watched kind is a known one.
LEMMA EventKnown ==
    ASSUME TypeInv, NEW i \in 1 .. Len(log), log[i].obj # 0
    PROVE  EventAt(i) \in Known
<1>. DEFINE Row == [type : Types, obj : Objects \cup {0}]
<1>1. log \in Seq(Row)
  BY DEF TypeInv, ClusterTypes
<1>2. log[i] \in Row
  <2>. HIDE DEF Row
  <2>. QED BY <1>1
<1>. QED BY <1>2 DEF EventAt, Known

\* A step that begins no other watch and reads no other write.
LEMMA GoesOn ==
    ASSUME TypeInv, DeliveryInv, UNCHANGED <<log, base, stateFile>>, WatchOK', FlushOK',
           \A e \in Known : UnderWay(e) => UnderWay(e)'
    PROVE  DeliveryInv'
<1>1. ASSUME NEW i \in base + 1 .. stateFile, log[i].obj # 0
      PROVE  UnderWay(EventAt(i))'
  <2>1. i \in 1 .. Len(log)
    BY DEF TypeInv, WatchTypes, ClusterTypes
  <2>2. EventAt(i) \in Known
    BY <1>1, <2>1, EventKnown
  <2>3. UnderWay(EventAt(i))
    BY <1>1 DEF DeliveryInv, Skipless
  <2>4. EventAt(i)' = EventAt(i)
    BY DEF EventAt
  <2>. QED BY <2>2, <2>3, <2>4 DEF UnderWay, Waiting, Queued
<1>2. Skipless'
  BY <1>1 DEF Skipless
<1>. QED BY <1>2 DEF DeliveryInv

\* The flush loop's place depends on its own files and the hub's table only.
LEMMA FlushUndisturbed ==
    ASSUME DeliveryInv, UNCHANGED <<flusher, request, queueFile, seen>>
    PROVE  FlushOK'
BY DEF DeliveryInv, FlushOK, In

\* What is held elsewhere stays under way.
LEMMA UnderWayRests ==
    ASSUME UNCHANGED <<events, pending, flusher, queueFile, seen>>, NEW e,
           e = watcher.held => e = watcher.held'
    PROVE  UnderWay(e) => UnderWay(e)'
BY DEF UnderWay, Waiting, Queued, In

\* The cluster's writes come after what was read of it.
LEMMA ClusterDelivers ==
    ASSUME TypeInv, DeliveryInv,
           WriteElsewhere \/ Compact \/ \E o \in Objects, t \in Types : Write(o, t)
    PROVE  DeliveryInv'
<1>1. /\ UNCHANGED <<agent, memory, disk, request, hub, history>>
      /\ Len(log') >= Len(log) /\ \A i \in 1 .. Len(log) : log'[i] = log[i]
  <2>1. CASE Compact
    BY <2>1 DEF Compact, TypeInv, ClusterTypes
  <2>2. CASE WriteElsewhere \/ \E o \in Objects, t \in Types : Write(o, t)
    <3>1. PICK row : log' = Append(log, row)
      BY <2>2 DEF WriteElsewhere, Write
    <3>2. UNCHANGED <<agent, memory, disk, request, hub, history>>
      BY <2>2 DEF WriteElsewhere, Write
    <3>. DEFINE Row == [type : Types, obj : Objects \cup {0}]
    <3>3. log \in Seq(Row)
      BY DEF TypeInv, ClusterTypes
    <3>. HIDE DEF Row
    <3>4. log \in Seq(Row \cup {row})
      BY <3>3, SeqMonotonic
    <3>5. /\ Len(Append(log, row)) = Len(log) + 1 /\ Len(log) \in Nat
          /\ \A i \in 1 .. Len(log) : Append(log, row)[i] = log[i]
      BY <3>4, AppendProperties
    <3>. QED BY <3>1, <3>2, <3>5
  <2>. QED BY <2>1, <2>2
<1>2. /\ stateFile \in 0 .. Len(log) /\ base \in 0 .. Len(log) /\ rv \in 0 .. Len(log)
      /\ Len(log) \in Nat
  BY DEF TypeInv, WatchTypes, ClusterTypes
<1>3. ASSUME NEW i \in 1 .. Len(log)
      PROVE  EventAt(i)' = EventAt(i)
  BY <1>1 DEF EventAt
<1>4. watcher.pc = "send" => rv # 0
  BY DEF DeliveryInv, WatchOK, TypeInv, WatchTypes, Known, EventAt
<1>5. WatchOK'
  BY <1>1, <1>2, <1>3, <1>4 DEF DeliveryInv, WatchOK, memory, disk
<1>6. FlushOK'
  BY <1>1, FlushUndisturbed DEF memory, disk, hub
<1>7. Skipless'
  <2>. SUFFICES ASSUME NEW i \in base' + 1 .. stateFile', log'[i].obj # 0
                PROVE  UnderWay(EventAt(i))'
    BY DEF Skipless
  <2>1. i \in 1 .. Len(log) /\ i \in base + 1 .. stateFile
    BY <1>1, <1>2 DEF disk, history
  <2>2. UnderWay(EventAt(i))
    BY <1>1, <2>1 DEF DeliveryInv, Skipless
  <2>3. EventAt(i)' = EventAt(i)
    BY <1>3, <2>1
  <2>4. UNCHANGED <<events, pending, flusher, queueFile, seen, watcher>>
    BY <1>1 DEF memory, disk, hub
  <2>. QED BY <2>2, <2>3, <2>4 DEF UnderWay, Waiting, Queued
<1>. QED BY <1>5, <1>6, <1>7 DEF DeliveryInv

\* A step of the watch loop that reads and hands over no event.
LEMMA LoopDelivers ==
    ASSUME TypeInv, DeliveryInv,
           UNCHANGED <<cluster, pending, flusher, queueFile, request, hub>>,
           UNCHANGED <<agent, rv, stateFile, base>>, watcher.pc # "send",
           watcher'.pc # "send", watcher'.held = NoEvent,
           events' = events \/ \E ev \in Known : events' = Append(events, ev)
    PROVE  DeliveryInv'
<1>1. FlushOK'
  BY FlushUndisturbed DEF hub
<1>2. WatchOK'
  BY DEF DeliveryInv, WatchOK
<1>3. ASSUME NEW e \in Known, UnderWay(e)
      PROVE  UnderWay(e)'
  <2>1. In(e, events) => In(e, events')
    <3>1. events \in Seq(Known)
      BY DEF TypeInv, FlushTypes
    <3>2. CASE events' = events
      BY <3>2 DEF In
    <3>3. CASE \E ev \in Known : events' = Append(events, ev)
      BY <3>1, <3>3, InAppend
    <3>. QED BY <3>2, <3>3
  <2>2. e # watcher.held
    BY <1>3 DEF DeliveryInv, WatchOK, NoEvent, Known
  <2>3. e \in seen \/ In(e, pending) \/ In(e, flusher.batch)
          \/ (\E i \in DOMAIN queueFile : In(e, queueFile[i])) => UnderWay(e)'
    BY DEF UnderWay, Waiting, Queued, In, hub
  <2>4. In(e, events') => UnderWay(e)'
    BY DEF UnderWay, Waiting, Queued, In
  <2>. QED BY <1>3, <2>1, <2>2, <2>3, <2>4 DEF UnderWay, Waiting, Queued
<1>4. UNCHANGED <<log, base, stateFile>>
  BY DEF cluster
<1>. QED BY <1>1, <1>2, <1>3, <1>4, GoesOn

\* The watch loop hands on what it reads.
LEMMA WatchingDelivers ==
    ASSUME TypeInv, DeliveryInv, Watching \/ ListFail \/ Reconnect
    PROVE  DeliveryInv'
<1>0. UNCHANGED <<cluster, pending, flusher, queueFile, request, hub>>
  BY DEF Watching, ListCurrent, ListEnqueue, ListDone, StartWatch, OpenWatch, Expire,
         WatchEvent, WatchEnqueue, WatchLeave, ListFail, Reconnect, disk
<1>. FlushOK'
  BY <1>0, FlushUndisturbed DEF hub
<1>1. /\ watcher \in [pc : {"top", "list", "open", "watch", "send", "gone"},
                      items : Seq(Known), last : 0 .. Len(log), held : Known \cup {NoEvent}]
      /\ rv \in 0 .. Len(log) /\ base \in 0 .. Len(log) /\ Len(log) \in Nat
  BY DEF TypeInv, WatchTypes, ClusterTypes
<1>2. watcher.pc # "send" => watcher.held = NoEvent
  BY DEF DeliveryInv, WatchOK
<1>3. agent = "run" /\ stateFile = rv
  BY DEF DeliveryInv, WatchOK
<1>4. CASE ListCurrent
  BY <1>0, <1>4, LoopDelivers DEF ListCurrent, disk
<1>5. CASE ListEnqueue
  <2>1. /\ watcher.pc = "list" /\ watcher.items # <<>>
        /\ events' = Append(events, Head(watcher.items))
        /\ watcher' = [watcher EXCEPT !.items = Tail(@), !.last = Head(watcher.items).rv]
        /\ UNCHANGED <<agent, rv, stateFile, base>>
    BY <1>5 DEF ListEnqueue, Enqueue, disk, history
  <2>2. Head(watcher.items) \in Known
    <3>1. watcher.items \in Seq(Known)
      BY <1>1
    <3>. QED BY <2>1, <3>1, HeadTailProperties
  <2>3. watcher'.pc = "list" /\ watcher'.held = NoEvent
    BY <1>1, <1>2, <2>1
  <2>. QED BY <1>0, <2>1, <2>2, <2>3, LoopDelivers
<1>6. CASE ListFail \/ StartWatch \/ OpenWatch \/ Reconnect
  <2>1. /\ watcher.pc # "send" /\ UNCHANGED <<agent, rv, stateFile, base, events>>
        /\ \/ watcher' = [watcher EXCEPT !.pc = "top", !.items = <<>>]
           \/ \E label \in {"open", "watch", "top"} : watcher' = [watcher EXCEPT !.pc = label]
    BY <1>6 DEF ListFail, StartWatch, OpenWatch, Reconnect, Watch, disk, history
  <2>2. watcher'.pc # "send" /\ watcher'.held = NoEvent
    BY <1>1, <1>2, <2>1
  <2>. QED BY <1>0, <2>1, <2>2, LoopDelivers
<1>7. CASE ListDone \/ Expire
  <2>1. /\ watcher.pc # "send" /\ UNCHANGED <<agent, events>> /\ stateFile' = rv'
        /\ \E label \in {"open", "top"} : watcher' = [watcher EXCEPT !.pc = label]
        /\ \/ base' = stateFile'
           \/ stateFile' = 0 /\ base' = base
    BY <1>7 DEF ListDone, Expire, Watch, history
  <2>2. watcher'.pc # "send" /\ watcher'.held = NoEvent
    BY <1>1, <1>2, <2>1
  <2>3. WatchOK'
    BY <1>3, <2>1, <2>2 DEF WatchOK
  <2>4. stateFile' \in Nat /\ base' \in Nat
    BY <1>1, <1>7 DEF ListDone, Expire, history
  <2>5. Skipless'
    BY <2>1, <2>4 DEF Skipless
  <2>. QED BY <2>3, <2>5 DEF DeliveryInv
<1>8. CASE WatchEvent
  <2>. DEFINE w == log[rv + 1]
  <2>1. /\ watcher.pc = "watch" /\ rv < Len(log)
        /\ rv' = rv + 1 /\ stateFile' = rv + 1
        /\ \/ w.obj = 0 /\ UNCHANGED watcher
           \/ /\ w.obj # 0
              /\ watcher' = [watcher EXCEPT !.pc = "send", !.held = EventAt(rv + 1)]
        /\ UNCHANGED <<agent, base, events>>
    BY <1>8 DEF WatchEvent, history, EventAt
  <2>2. log' = log
    BY <1>0 DEF cluster
  <2>3. EventAt(rv)' = EventAt(rv + 1)
    BY <2>1, <2>2 DEF EventAt
  <2>. HIDE DEF w
  <2>4. WatchOK'
    <3>1. CASE w.obj = 0
      BY <1>2, <1>3, <2>1, <3>1 DEF WatchOK
    <3>2. CASE w.obj # 0
      <4>1. watcher'.pc = "send" /\ watcher'.held = EventAt(rv + 1)
        BY <1>1, <2>1, <3>2
      <4>. QED BY <1>3, <2>1, <2>3, <4>1 DEF WatchOK
    <3>. QED BY <3>1, <3>2
  <2>5. ASSUME NEW i \in base' + 1 .. stateFile', log'[i].obj # 0
        PROVE  UnderWay(EventAt(i))'
    <3>1. EventAt(i)' = EventAt(i)
      BY <2>2 DEF EventAt
    <3>2. CASE i = rv + 1
      <4>1. w.obj # 0
        BY <2>2, <2>5, <3>2 DEF w
      <4>2. watcher'.held = EventAt(i)
        BY <1>1, <2>1, <3>2, <4>1
      <4>. QED BY <3>1, <4>2 DEF UnderWay, Waiting, Queued
    <3>3. CASE i # rv + 1
      <4>1. i \in base + 1 .. stateFile
        BY <1>1, <1>3, <2>1, <3>3
      <4>2. UnderWay(EventAt(i))
        BY <2>2, <2>5, <4>1 DEF DeliveryInv, Skipless
      <4>3. EventAt(i) # watcher.held
        BY <1>2, <2>1, <2>2, <2>5 DEF EventAt, NoEvent
      <4>4. UnderWay(EventAt(i)) => UnderWay(EventAt(i))'
        BY <1>0, <2>1, <3>1, <4>3 DEF UnderWay, Waiting, Queued, hub
      <4>. QED BY <4>2, <4>4
    <3>. QED BY <3>2, <3>3
  <2>. QED BY <2>4, <2>5 DEF Skipless, DeliveryInv
<1>9. CASE WatchEnqueue
  <2>1. /\ watcher.pc = "send" /\ events' = Append(events, watcher.held)
        /\ watcher' = [watcher EXCEPT !.pc = "watch", !.held = NoEvent]
        /\ UNCHANGED <<agent, rv, base, stateFile>>
    BY <1>9 DEF WatchEnqueue, Enqueue, disk, history
  <2>2. watcher.held \in Known /\ events \in Seq(Known)
    BY <2>1 DEF TypeInv, WatchTypes, FlushTypes
  <2>3. WatchOK'
    <3>1. watcher'.pc = "watch" /\ watcher'.held = NoEvent
      BY <1>1, <2>1
    <3>. QED BY <1>3, <2>1, <3>1 DEF WatchOK
  <2>4. ASSUME NEW e \in Known, UnderWay(e)
        PROVE  UnderWay(e)'
    <3>1. In(e, events) \/ e = watcher.held => In(e, events')
      BY <2>1, <2>2, InAppend
    <3>. QED BY <1>0, <2>4, <3>1 DEF UnderWay, Waiting, Queued, hub, In
  <2>5. UNCHANGED <<log, base, stateFile>>
    BY <1>0, <2>1 DEF cluster
  <2>. QED BY <2>3, <2>4, <2>5, GoesOn
<1>10. CASE WatchLeave
  BY <1>3, <1>10 DEF WatchLeave
<1>. QED BY <1>4, <1>5, <1>6, <1>7, <1>8, <1>9, <1>10 DEF Watching

(***************************************************************************)
(* The flush loop and the hub pass events on: they add none, and an event  *)
(* that waits no longer is recorded.                                       *)
(***************************************************************************)
Passes ==
    /\ UNCHANGED <<cluster, agent, rv, watcher, stateFile, history>>
    /\ seen \subseteq seen'
    /\ \A e : /\ e \in seen' => e \in seen \/ Waiting(e)
              /\ Waiting(e) => Waiting(e)' \/ e \in seen'
              /\ Waiting(e)' => Waiting(e)

\* A step that passes events on skips none.
LEMMA PassesDeliver ==
    ASSUME TypeInv, DeliveryInv, Passes, FlushOK'
    PROVE  DeliveryInv'
<1>1. WatchOK'
  BY DEF Passes, DeliveryInv, WatchOK, EventAt, cluster
<1>2. \A e \in Known : UnderWay(e) => UnderWay(e)'
  BY DEF Passes, UnderWay
<1>3. UNCHANGED <<log, base, stateFile>>
  BY DEF Passes, cluster, history
<1>. QED BY <1>1, <1>2, <1>3, GoesOn

\* An event of the channel goes to the batch, or with the batch to the hub.
LEMMA TakeDelivers ==
    ASSUME TypeInv, DeliveryInv, TakeEvent
    PROVE  FlushOK' /\ Passes
<1>. DEFINE batch == Append(pending, Head(events))
            K == Known
<1>1. /\ flusher.pc = "select" /\ events # <<>> /\ events' = Tail(events)
      /\ \/ /\ flusher' = [pc |-> "replay", batch |-> batch, at |-> 1, next |-> "select"]
            /\ pending' = <<>>
         \/ pending' = batch /\ UNCHANGED flusher
      /\ UNCHANGED <<cluster, agent, rv, watcher, disk, request, hub, history>>
  BY DEF TakeEvent, Take, Flush
<1>2. events \in Seq(K) /\ pending \in Seq(K) /\ Head(events) \in K
  <2>1. events \in Seq(K) /\ pending \in Seq(K)
    BY DEF TypeInv, FlushTypes
  <2>. HIDE DEF K
  <2>. QED BY <1>1, <2>1, HeadTailProperties
<1>3. \A e : In(e, batch) <=> In(e, pending) \/ e = Head(events)
  <2>. HIDE DEF K
  <2>. QED BY <1>2, InAppend
<1>4. \A e : In(e, events) <=> e = Head(events) \/ In(e, events')
  <2>. HIDE DEF K
  <2>. QED BY <1>1, <1>2, InTail
<1>. HIDE DEF batch, K
<1>5. request = <<>> /\ flusher.batch = <<>>
  BY <1>1 DEF DeliveryInv, FlushOK
<1>7. FlushOK'
  <2>1. CASE pending' = batch /\ UNCHANGED flusher
    BY <1>1, <2>1, FlushUndisturbed DEF disk, hub
  <2>2. CASE flusher' = [pc |-> "replay", batch |-> batch, at |-> 1, next |-> "select"]
    <3>1. /\ flusher'.pc = "replay" /\ flusher'.next = "select" /\ flusher'.at = 1
          /\ request' = <<>>
      BY <1>1, <1>5, <2>2
    <3>2. Len(queueFile') \in Nat
      BY <1>1 DEF TypeInv, FlushTypes, disk
    <3>. QED BY <3>1, <3>2 DEF FlushOK
  <2>. QED BY <1>1, <2>1, <2>2
<1>8. ASSUME NEW e
      PROVE  Waiting(e)' <=> Waiting(e)
  <2>1. In(e, pending') \/ In(e, flusher'.batch) <=> In(e, pending) \/ e = Head(events)
    <3>1. ~In(e, <<>>)
      BY InNone
    <3>. QED BY <1>1, <1>3, <1>5, <3>1
  <2>2. Waiting(e)' <=> Queued(e) \/ In(e, flusher'.batch) \/ In(e, pending') \/ In(e, events')
    BY <1>1 DEF Waiting, Queued, In, disk
  <2>3. ~In(e, flusher.batch)
    BY <1>5, InNone
  <2>. QED BY <1>4, <2>1, <2>2, <2>3 DEF Waiting
<1>9. UNCHANGED <<cluster, agent, rv, watcher, stateFile, history, seen>>
  BY <1>1 DEF disk, hub
<1>. QED BY <1>7, <1>8, <1>9 DEF Passes

\* A ticker sends the batch in the making.
LEMMA TickDelivers ==
    ASSUME TypeInv, DeliveryInv, Tick
    PROVE  FlushOK' /\ Passes
<1>1. /\ flusher.pc = "select" /\ pending' = <<>>
      /\ flusher' = [pc |-> "replay", batch |-> pending, at |-> 1, next |-> "select"]
      /\ UNCHANGED <<cluster, agent, rv, watcher, events, disk, request, hub, history>>
  BY DEF Tick, Flush
<1>2. request = <<>> /\ flusher.batch = <<>>
  BY <1>1 DEF DeliveryInv, FlushOK
<1>4. FlushOK'
  <2>1. /\ flusher'.pc = "replay" /\ flusher'.next = "select" /\ flusher'.at = 1
        /\ request' = <<>>
    BY <1>1, <1>2
  <2>2. Len(queueFile') \in Nat
    BY <1>1 DEF TypeInv, FlushTypes, disk
  <2>. QED BY <2>1, <2>2 DEF FlushOK
<1>5. ASSUME NEW e
      PROVE  Waiting(e)' <=> Waiting(e)
  <2>1. ~In(e, flusher.batch) /\ ~In(e, <<>>)
    BY <1>2, InNone
  <2>2. In(e, pending) <=> In(e, flusher'.batch)
    BY <1>1
  <2>3. Waiting(e)' <=> Queued(e) \/ In(e, flusher'.batch) \/ In(e, pending') \/ In(e, events)
    BY <1>1 DEF Waiting, Queued, In, disk
  <2>. QED BY <1>1, <2>1, <2>2, <2>3 DEF Waiting
<1>6. UNCHANGED <<cluster, agent, rv, watcher, stateFile, history, seen>>
  BY <1>1 DEF disk, hub
<1>. QED BY <1>4, <1>5, <1>6 DEF Passes

\* Replays and the post of the new batch.
LEMMA PostDelivers ==
    ASSUME TypeInv, DeliveryInv, ReplayNext \/ ReplayDone
    PROVE  FlushOK' /\ Passes
<1>0. /\ flusher.pc = "replay" /\ flusher.next = "select"
      /\ flusher.at <= Len(queueFile) + 1
      /\ \A i \in 1 .. (flusher.at - 1) : \A e : In(e, queueFile[i]) => e \in seen
      /\ flusher \in [pc : {"select", "drain", "exit", "replay", "post"},
                      batch : Seq(Known), at : Nat \ {0}, next : {"select", "drain", "exit"}]
      /\ Len(queueFile) \in Nat /\ DOMAIN queueFile = 1 .. Len(queueFile)
  <2>1. flusher.pc = "replay"
    BY DEF ReplayNext, ReplayDone
  <2>2. queueFile \in Seq(Seq(Known))
    BY DEF TypeInv, FlushTypes
  <2>3. Len(queueFile) \in Nat /\ DOMAIN queueFile = 1 .. Len(queueFile)
    BY <2>2, LenProperties
  <2>. QED BY <2>1, <2>3 DEF DeliveryInv, FlushOK, TypeInv, FlushTypes
<1>1. CASE ReplayNext
  <2>1. /\ request = <<>> /\ flusher.at <= Len(queueFile)
        /\ request' = <<[batch |-> queueFile[flusher.at], at |-> 1]>>
        /\ UNCHANGED <<cluster, agent, memory, disk, hub, history>>
    BY <1>1 DEF ReplayNext, Post
  <2>3. /\ request' # <<>> /\ request'[1].batch = queueFile[flusher.at]
        /\ request'[1].at = 1
    BY <2>1
  <2>4. Len(request'[1].batch) \in Nat
    <3>. DEFINE B == Seq(Known)
    <3>1. queueFile \in Seq(B) /\ flusher.at \in 1 .. Len(queueFile)
      BY <1>0, <2>1 DEF TypeInv, FlushTypes
    <3>. HIDE DEF B
    <3>2. queueFile[flusher.at] \in B
      BY <3>1
    <3>. QED BY <2>3, <3>2 DEF B
  <2>5. FlushOK'
    BY <1>0, <2>1, <2>3, <2>4 DEF FlushOK, memory, disk, hub, In
  <2>6. \A e : Waiting(e)' <=> Waiting(e)
    BY <2>1 DEF Waiting, Queued, memory, disk, In
  <2>7. UNCHANGED <<cluster, agent, rv, watcher, stateFile, history, seen>>
    BY <2>1 DEF memory, disk, hub
  <2>. QED BY <2>5, <2>6, <2>7 DEF Passes
<1>2. CASE ReplayDone
  <2>1. /\ request = <<>> /\ flusher.at > Len(queueFile) /\ queueFile' = <<>>
        /\ flusher' = [flusher EXCEPT !.pc = "post"]
        /\ request' = <<[batch |-> flusher.batch, at |-> 1]>>
        /\ UNCHANGED <<cluster, agent, rv, watcher, events, pending, stateFile, hub, history>>
    BY <1>2 DEF ReplayDone, Post
  <2>3. /\ flusher'.pc = "post" /\ flusher'.next = "select" /\ flusher'.batch = flusher.batch
        /\ request' # <<>> /\ request'[1].batch = flusher.batch /\ request'[1].at = 1
        /\ Len(flusher.batch) \in Nat
    BY <1>0, <2>1
  <2>4. FlushOK'
    BY <2>1, <2>3 DEF FlushOK
  <2>5. ASSUME NEW e
        PROVE  /\ Waiting(e)' => Waiting(e)
               /\ Waiting(e) => Waiting(e)' \/ e \in seen'
    <3>1. ASSUME NEW i \in DOMAIN queueFile, In(e, queueFile[i])
          PROVE  e \in seen
      <4>1. i \in 1 .. (flusher.at - 1)
        BY <1>0, <2>1
      <4>. QED BY <1>0, <3>1, <4>1
    <3>2. Waiting(e)' <=> In(e, flusher.batch) \/ In(e, pending) \/ In(e, events)
      BY <2>1, <2>3 DEF Waiting, Queued, In
    <3>3. seen' = seen
      BY <2>1 DEF hub
    <3>. QED BY <3>1, <3>2, <3>3 DEF Waiting, Queued
  <2>6. UNCHANGED <<cluster, agent, rv, watcher, stateFile, history, seen>>
    BY <2>1 DEF hub
  <2>. QED BY <2>4, <2>5, <2>6 DEF Passes
<1>. QED BY <1>1, <1>2

\* The event that the hub handles is one of the waiting ones.
LEMMA HandledWaits ==
    ASSUME TypeInv, DeliveryInv, Pending
    PROVE  /\ Current \in Known /\ Waiting(Current)
           /\ flusher.pc \in {"replay", "post"}
<1>. DEFINE r == request[1]
<1>1. /\ Current \in Known /\ Len(request) = 1
      /\ r \in [batch : Seq(Known), at : Nat \ {0}]
      /\ r.at \in 1 .. Len(r.batch) /\ Current = r.batch[r.at] /\ request # <<>>
  BY CurrentKnown DEF Current, Pending
<1>2. /\ flusher.pc \in {"replay", "post"}
      /\ flusher.pc = "post" => r.batch = flusher.batch
      /\ flusher.pc = "replay" => flusher.at <= Len(queueFile) /\ r.batch = queueFile[flusher.at]
  BY <1>1 DEF DeliveryInv, FlushOK
<1>3. r.at \in DOMAIN r.batch
  <2>1. r.batch \in Seq(Known)
    BY <1>1
  <2>. QED BY <1>1, <2>1, LenProperties
<1>4. In(Current, r.batch)
  BY <1>1, <1>3 DEF In
<1>5. flusher.at \in Nat \ {0} /\ DOMAIN queueFile = 1 .. Len(queueFile) /\ Len(queueFile) \in Nat
  <2>1. queueFile \in Seq(Seq(Known)) /\ flusher.at \in Nat \ {0}
    BY DEF TypeInv, FlushTypes
  <2>. QED BY <2>1, LenProperties
<1>. HIDE DEF r
<1>6. flusher.pc = "replay" => flusher.at \in DOMAIN queueFile
  BY <1>2, <1>5
<1>. QED BY <1>1, <1>2, <1>4, <1>6 DEF Waiting, Queued

\* The hub records the next event of its batch.
LEMMA IngestDelivers ==
    ASSUME TypeInv, DeliveryInv, IngestEvent
    PROVE  FlushOK' /\ Passes
<1>. DEFINE r == request[1]
            new == [r EXCEPT !.at = @ + 1]
<1>1. /\ Pending
      /\ request' = [request EXCEPT ![1] = new]
      /\ seen' = seen \cup {Current}
      /\ UNCHANGED <<cluster, agent, memory, disk, snapshot, history>>
  BY DEF IngestEvent, Key
<1>2. /\ request \in Seq([batch : Seq(Known), at : Nat \ {0}]) /\ Len(request) = 1
      /\ r \in [batch : Seq(Known), at : Nat \ {0}]
      /\ r.at \in 1 .. Len(r.batch)
      /\ Current = r.batch[r.at]
  BY <1>1, CurrentKnown DEF TypeInv, FlushTypes, Current
<1>3. new.batch = r.batch /\ new.at = r.at + 1
  BY <1>2
<1>4. request' # <<>> /\ request'[1] = new /\ request # <<>>
  <2>1. 1 \in DOMAIN request /\ request # <<>>
    BY <1>1, <1>2, LenProperties DEF Pending
  <2>2. request'[1] = new
    BY <1>1, <2>1, Zenon
  <2>3. DOMAIN request' = DOMAIN request
    BY <1>1, Zenon
  <2>4. request' # <<>>
    BY <2>1, <2>3
  <2>. QED BY <2>1, <2>2, <2>4
<1>. HIDE DEF r, new
<1>6. UNCHANGED <<flusher, queueFile>>
  BY <1>1 DEF memory, disk
<1>7. request[1] = r /\ FlushOK
  BY DEF r, DeliveryInv
<1>8. flusher.pc # "select" /\ flusher.pc \in {"replay", "post"} /\ flusher.next = "select"
  BY <1>4, <1>7 DEF FlushOK
<1>9. /\ new.at <= Len(new.batch) + 1
      /\ \A j \in 1 .. (new.at - 1) : new.batch[j] \in seen'
  <2>1. new.at <= Len(new.batch) + 1
    BY <1>2, <1>3
  <2>2. ASSUME NEW j \in 1 .. (new.at - 1)
        PROVE  new.batch[j] \in seen'
    <3>1. CASE j = r.at
      BY <1>1, <1>2, <1>3, <3>1
    <3>2. CASE j # r.at
      <4>1. j \in 1 .. (r.at - 1)
        BY <1>2, <1>3, <3>2
      <4>2. r.batch[j] \in seen
        BY <1>4, <1>7, <4>1 DEF FlushOK
      <4>. QED BY <1>1, <1>3, <4>2
    <3>. QED BY <3>1, <3>2
  <2>. QED BY <2>1, <2>2
<1>10. flusher.pc = "post" => queueFile = <<>> /\ r.batch = flusher.batch
  BY <1>7 DEF FlushOK
<1>11. flusher.pc = "replay" =>
         /\ flusher.at <= Len(queueFile) + 1
         /\ \A i \in 1 .. (flusher.at - 1) : \A e : In(e, queueFile[i]) => e \in seen
         /\ flusher.at <= Len(queueFile) /\ r.batch = queueFile[flusher.at]
  BY <1>4, <1>7 DEF FlushOK
<1>12. FlushOK'
  <2>1. \A i, e : In(e, queueFile[i])' <=> In(e, queueFile[i])
    BY <1>6 DEF In
  <2>2. \A e : e \in seen => e \in seen'
    BY <1>1
  <2>3. flusher'.pc = "post" => /\ queueFile' = <<>> /\ request' # <<>>
                                /\ request'[1].batch = flusher'.batch
    BY <1>3, <1>4, <1>6, <1>10
  <2>4. flusher'.pc = "replay" =>
           /\ flusher'.at <= Len(queueFile') + 1
           /\ \A i \in 1 .. (flusher'.at - 1) : \A e : In(e, queueFile[i])' => e \in seen'
           /\ flusher'.at <= Len(queueFile') /\ request'[1].batch = queueFile'[flusher'.at]
    BY <1>3, <1>4, <1>6, <1>11, <2>1, <2>2
  <2>. QED BY <1>4, <1>6, <1>8, <1>9, <2>3, <2>4 DEF FlushOK
<1>13. \A e : Waiting(e)' <=> Waiting(e)
  BY <1>1 DEF Waiting, Queued, memory, disk, In
<1>14. Waiting(Current)
  BY <1>1, HandledWaits
<1>15. UNCHANGED <<cluster, agent, rv, watcher, stateFile, history>>
  BY <1>1 DEF memory, disk
<1>. QED BY <1>1, <1>12, <1>13, <1>14, <1>15 DEF Passes

\* A batch that is answered is recorded as a whole.
LEMMA AnsweredIsSeen ==
    ASSUME TypeInv, DeliveryInv, request # <<>>, ~Pending
    PROVE  \A e : In(e, request[1].batch) => e \in seen
<1>. DEFINE r == request[1]
<1>1. r \in [batch : Seq(Known), at : Nat \ {0}]
  BY OneElement DEF TypeInv, FlushTypes
<1>2. r.at <= Len(r.batch) + 1 /\ \A j \in 1 .. (r.at - 1) : r.batch[j] \in seen
  BY DEF DeliveryInv, FlushOK
<1>3. r.at > Len(r.batch)
  BY <1>1 DEF Pending
<1>4. Len(r.batch) \in Nat /\ DOMAIN r.batch = 1 .. Len(r.batch)
  <2>1. r.batch \in Seq(Known)
    BY <1>1
  <2>. QED BY <2>1, LenProperties
<1>. HIDE DEF r
<1>5. \A e : In(e, r.batch) => e \in seen
  BY <1>1, <1>2, <1>3, <1>4 DEF In
<1>. QED BY <1>5 DEF r

\* A response closes a batch all of which is recorded.
LEMMA RespondDelivers ==
    ASSUME TypeInv, DeliveryInv, Respond
    PROVE  FlushOK' /\ Passes
<1>1. /\ request # <<>> /\ ~Pending /\ request' = <<>>
      /\ IF flusher.pc = "replay" THEN flusher' = [flusher EXCEPT !.at = @ + 1]
         ELSE flusher' = [NoFlush EXCEPT !.pc = flusher.next]
      /\ UNCHANGED <<cluster, agent, rv, watcher, events, pending, disk, hub, history>>
  BY DEF Respond, Flushed
<1>2. \A e : In(e, request[1].batch) => e \in seen
  BY <1>1, AnsweredIsSeen
<1>3. FlushOK
  BY DEF DeliveryInv
<1>4. flusher \in [pc : {"select", "drain", "exit", "replay", "post"},
                   batch : Seq(Known), at : Nat \ {0}, next : {"select", "drain", "exit"}]
  BY DEF TypeInv, FlushTypes
<1>6. /\ UNCHANGED <<cluster, agent, rv, watcher, stateFile, history>>
      /\ UNCHANGED <<seen, queueFile, events, pending>>
  BY <1>1 DEF disk, hub
<1>7. CASE flusher.pc = "replay"
  <2>1. /\ flusher'.pc = "replay" /\ flusher'.at = flusher.at + 1
        /\ flusher'.batch = flusher.batch /\ flusher'.next = "select"
    BY <1>1, <1>3, <1>4, <1>7 DEF FlushOK
  <2>2. /\ flusher.at <= Len(queueFile) /\ request[1].batch = queueFile[flusher.at]
        /\ \A i \in 1 .. (flusher.at - 1) : \A e : In(e, queueFile[i]) => e \in seen
    BY <1>1, <1>3, <1>7 DEF FlushOK
  <2>3. flusher.at \in Nat \ {0} /\ Len(queueFile) \in Nat
    BY <1>4 DEF TypeInv, FlushTypes
  <2>4. \A i \in 1 .. (flusher'.at - 1) : \A e : In(e, queueFile[i]) => e \in seen
    BY <1>2, <2>1, <2>2, <2>3
  <2>5. flusher'.at <= Len(queueFile) + 1
    BY <2>1, <2>2, <2>3
  <2>6. FlushOK'
    BY <1>1, <1>6, <2>1, <2>4, <2>5 DEF FlushOK, In
  <2>7. \A e : Waiting(e)' <=> Waiting(e)
    BY <1>6, <2>1 DEF Waiting, Queued, In
  <2>. QED BY <1>6, <2>6, <2>7 DEF Passes
<1>8. CASE flusher.pc # "replay"
  <2>1. flusher.pc = "post" /\ request[1].batch = flusher.batch
    BY <1>1, <1>3, <1>8 DEF FlushOK
  <2>2. flusher' = [pc |-> "select", batch |-> <<>>, at |-> 1, next |-> "select"]
    BY <1>1, <1>3, <1>8 DEF FlushOK, NoFlush
  <2>3. FlushOK'
    BY <1>1, <2>2 DEF FlushOK
  <2>4. ASSUME NEW e
        PROVE  /\ Waiting(e)' => Waiting(e)
               /\ Waiting(e) => Waiting(e)' \/ e \in seen'
    <3>1. In(e, flusher.batch) => e \in seen
      BY <1>2, <2>1
    <3>2. Waiting(e)' <=> Queued(e) \/ In(e, pending) \/ In(e, events)
      BY <1>6, <2>2, InNone DEF Waiting, Queued, In
    <3>. QED BY <1>6, <3>1, <3>2 DEF Waiting
  <2>. QED BY <1>6, <2>3, <2>4 DEF Passes
<1>. QED BY <1>7, <1>8

\* What is left of a sequence from a place on.
LEMMA TailFrom ==
    ASSUME NEW S, NEW s \in Seq(S), NEW n \in Nat \ {0}, n <= Len(s) + 1, NEW m,
           m = Len(s) - n + 1
    PROVE  /\ SubSeq(s, n, Len(s)) \in Seq(S)
           /\ Len(SubSeq(s, n, Len(s))) = m
           /\ \A p \in 1 .. m : SubSeq(s, n, Len(s))[p] = s[n + p - 1]
<1>1. Len(s) \in Nat /\ \A i \in n .. Len(s) : s[i] \in S
  BY ElementOfSeq
<1>2. /\ SubSeq(s, n, Len(s)) \in Seq(S)
      /\ Len(SubSeq(s, n, Len(s))) = IF n <= Len(s) THEN Len(s) - n + 1 ELSE 0
      /\ \A p \in 1 .. Len(s) - n + 1 : SubSeq(s, n, Len(s))[p] = s[n + p - 1]
  BY <1>1, SubSeqProperties
<1>. QED BY <1>1, <1>2

Own == IF flusher.batch = <<>> THEN <<>> ELSE <<flusher.batch>>

(***************************************************************************)
(* What a failed post leaves in the queue file: the batches from the flush *)
(* loop's place on, then its own one if there is anything in it.           *)
(***************************************************************************)
LEMMA RemainingIs ==
    ASSUME TypeInv, DeliveryInv, flusher.pc # "select"
    PROVE  \E off, m \in Nat :
             /\ off + m = Len(queueFile)
             /\ \A i \in 1 .. off : \A e : In(e, queueFile[i]) => e \in seen
             /\ \A p \in 1 .. m : Remaining(Own)[p] = queueFile[off + p]
             /\ \/ DOMAIN Remaining(Own) = 1 .. m /\ flusher.batch = <<>>
                \/ /\ DOMAIN Remaining(Own) = 1 .. (m + 1)
                   /\ Remaining(Own)[m + 1] = flusher.batch
<1>. DEFINE B == Seq(Known)
            kept == IF flusher.pc = "replay"
                    THEN SubSeq(queueFile, flusher.at, Len(queueFile)) ELSE queueFile
            off == IF flusher.pc = "replay" THEN flusher.at - 1 ELSE 0
            m == Len(queueFile) - off
<1>1. /\ queueFile \in Seq(B) /\ flusher.batch \in B
      /\ flusher.at \in Nat \ {0} /\ FlushOK
  BY DEF TypeInv, FlushTypes, DeliveryInv
<1>2. Remaining(Own) = kept \o Own
  BY DEF Remaining
<1>. HIDE DEF B
<1>3. Len(queueFile) \in Nat /\ DOMAIN queueFile = 1 .. Len(queueFile)
  BY <1>1, LenProperties
<1>4. flusher.pc = "replay" =>
        /\ flusher.at <= Len(queueFile) + 1
        /\ \A i \in 1 .. (flusher.at - 1) : \A e : In(e, queueFile[i]) => e \in seen
  BY <1>1 DEF FlushOK
<1>5. off \in Nat /\ m \in Nat /\ off + m = Len(queueFile)
  BY <1>1, <1>3, <1>4
<1>6. /\ kept \in Seq(B) /\ Len(kept) = m
      /\ \A p \in 1 .. m : kept[p] = queueFile[off + p]
  <2>1. CASE flusher.pc = "replay"
    <3>b. flusher.at \in Int /\ Len(queueFile) \in Int /\ m = Len(queueFile) - flusher.at + 1
      BY <1>1, <1>3, <2>1
    <3>. HIDE DEF m
    <3>d. queueFile \in Seq(B) /\ flusher.at <= Len(queueFile) + 1
      BY <1>1, <1>4, <2>1
    <3>1. /\ SubSeq(queueFile, flusher.at, Len(queueFile)) \in Seq(B)
          /\ Len(SubSeq(queueFile, flusher.at, Len(queueFile))) = m
          /\ \A p \in 1 .. m :
               SubSeq(queueFile, flusher.at, Len(queueFile))[p] = queueFile[flusher.at + p - 1]
      BY <1>1, <3>b, <3>d, TailFrom
    <3>2. \A p \in 1 .. m : flusher.at + p - 1 = off + p
      BY <1>1, <1>5, <2>1
    <3>. QED BY <2>1, <3>1, <3>2
  <2>2. CASE flusher.pc # "replay"
    BY <1>1, <1>3, <2>2
  <2>. QED BY <2>1, <2>2
<1>7. \A i \in 1 .. off : \A e : In(e, queueFile[i]) => e \in seen
  BY <1>3, <1>4
<1>. HIDE DEF kept, off, m
<1>8. /\ \A p \in 1 .. m : Remaining(Own)[p] = queueFile[off + p]
      /\ \/ DOMAIN Remaining(Own) = 1 .. m /\ flusher.batch = <<>>
         \/ /\ DOMAIN Remaining(Own) = 1 .. (m + 1)
            /\ Remaining(Own)[m + 1] = flusher.batch
  <2>1. CASE flusher.batch = <<>>
    <3>1. Remaining(Own) = kept
      BY <1>2, <1>6, <2>1 DEF Own
    <3>2. DOMAIN kept = 1 .. m
      BY <1>6, LenProperties
    <3>. QED BY <1>6, <2>1, <3>1, <3>2
  <2>2. CASE flusher.batch # <<>>
    <3>a. Own = <<flusher.batch>>
      BY <2>2 DEF Own
    <3>b. Append(kept, flusher.batch) = kept \o <<flusher.batch>>
      BY <1>1, <1>6, AppendIsConcat, Zenon
    <3>1. Remaining(Own) = Append(kept, flusher.batch)
      BY <1>2, <3>a, <3>b, Zenon
    <3>2. /\ Len(Append(kept, flusher.batch)) = m + 1
          /\ Append(kept, flusher.batch)[m + 1] = flusher.batch
          /\ \A p \in 1 .. m : Append(kept, flusher.batch)[p] = kept[p]
          /\ Append(kept, flusher.batch) \in Seq(B)
      BY <1>1, <1>6, AppendProperties
    <3>3. DOMAIN Append(kept, flusher.batch) = 1 .. (m + 1)
      BY <3>2, LenProperties
    <3>. QED BY <1>6, <3>1, <3>2, <3>3
  <2>. QED BY <2>1, <2>2
<1>. QED BY <1>5, <1>7, <1>8, Zenon

\* The queue file then holds what was there or in hand, but for what is recorded.
LEMMA RemainingHolds ==
    ASSUME TypeInv, DeliveryInv, flusher.pc # "select", NEW e
    PROVE  /\ In(e, flusher.batch) \/ Queued(e)
                => e \in seen \/ \E b : In(b, Remaining(Own)) /\ In(e, b)
           /\ \A b : In(b, Remaining(Own)) /\ In(e, b)
                => In(e, flusher.batch) \/ Queued(e)
<1>1. PICK off, m \in Nat :
             /\ off + m = Len(queueFile)
             /\ \A i \in 1 .. off : \A x : In(x, queueFile[i]) => x \in seen
             /\ \A p \in 1 .. m : Remaining(Own)[p] = queueFile[off + p]
             /\ \/ DOMAIN Remaining(Own) = 1 .. m /\ flusher.batch = <<>>
                \/ /\ DOMAIN Remaining(Own) = 1 .. (m + 1)
                   /\ Remaining(Own)[m + 1] = flusher.batch
  BY RemainingIs
<1>2. DOMAIN queueFile = 1 .. Len(queueFile) /\ Len(queueFile) \in Nat
  <2>1. queueFile \in Seq(Seq(Known))
    BY DEF TypeInv, FlushTypes
  <2>. QED BY <2>1, LenProperties
<1>. DEFINE R == Remaining(Own)
<1>. HIDE DEF R
<1>3. /\ \A p \in 1 .. m : p \in DOMAIN R /\ R[p] = queueFile[off + p]
      /\ \A p \in DOMAIN R : p \in 1 .. m \/ (p = m + 1 /\ R[p] = flusher.batch)
      /\ flusher.batch # <<>> => m + 1 \in DOMAIN R /\ R[m + 1] = flusher.batch
  BY <1>1 DEF R
<1>4. ASSUME In(e, flusher.batch)
      PROVE  \E b : In(b, R) /\ In(e, b)
  <2>1. flusher.batch # <<>>
    BY <1>4, InNone
  <2>2. In(flusher.batch, R)
    BY <1>3, <2>1 DEF In
  <2>. QED BY <1>4, <2>2
<1>5. ASSUME NEW i \in DOMAIN queueFile, In(e, queueFile[i])
      PROVE  e \in seen \/ \E b : In(b, R) /\ In(e, b)
  <2>1. CASE i \in 1 .. off
    BY <1>1, <1>5, <2>1
  <2>2. CASE i \notin 1 .. off
    <3>1. i - off \in 1 .. m /\ off + (i - off) = i
      BY <1>1, <1>2, <2>2
    <3>2. In(queueFile[i], R)
      BY <1>3, <3>1 DEF In
    <3>. QED BY <1>5, <3>2
  <2>. QED BY <2>1, <2>2
<1>6. ASSUME NEW p \in DOMAIN R, In(e, R[p])
      PROVE  In(e, flusher.batch) \/ Queued(e)
  <2>1. CASE p \in 1 .. m
    <3>1. off + p \in DOMAIN queueFile
      BY <1>1, <1>2, <2>1
    <3>. QED BY <1>3, <1>6, <2>1, <3>1 DEF Queued
  <2>2. CASE p = m + 1 /\ R[p] = flusher.batch
    BY <1>6, <2>2
  <2>. QED BY <1>3, <2>1, <2>2
<1>7. \A b : In(b, R) /\ In(e, b) => \E p \in DOMAIN R : In(e, R[p])
  BY DEF In
<1>. QED BY <1>4, <1>5, <1>6, <1>7 DEF R, Queued

\* A failed post: the batch stays on disk.
LEMMA LossDelivers ==
    ASSUME TypeInv, DeliveryInv, LosePost \/ CutPost
    PROVE  FlushOK' /\ Passes
<1>1. /\ request # <<>> /\ request' = <<>>
      /\ queueFile' = Remaining(Own)
      /\ flusher' = [NoFlush EXCEPT !.pc = flusher.next]
      /\ UNCHANGED <<cluster, agent, rv, watcher, events, pending, stateFile, history>>
      /\ seen' = seen \/ (Pending /\ seen' = seen \cup {Current})
  BY DEF LosePost, CutPost, PostFails, Flushed, Own, RecordCut, Pending, hub, Key
<1>2. flusher.pc # "select" /\ flusher.next = "select"
  BY <1>1 DEF DeliveryInv, FlushOK
<1>4. flusher' = [pc |-> "select", batch |-> <<>>, at |-> 1, next |-> "select"]
  BY <1>1, <1>2 DEF NoFlush
<1>5. FlushOK'
  BY <1>1, <1>4 DEF FlushOK
<1>6. ASSUME NEW e
      PROVE  /\ Waiting(e)' => Waiting(e)
             /\ Waiting(e) => Waiting(e)' \/ e \in seen
  <2>1. Queued(e)' <=> \E b : In(b, Remaining(Own)) /\ In(e, b)
    BY <1>1 DEF In, Queued
  <2>2. Waiting(e)' <=> Queued(e)' \/ In(e, pending) \/ In(e, events)
    BY <1>1, <1>4, InNone DEF Waiting, In
  <2>. QED BY <1>2, <2>1, <2>2, RemainingHolds DEF Waiting
<1>7. Pending => Waiting(Current)
  BY HandledWaits
<1>. QED BY <1>1, <1>5, <1>6, <1>7 DEF Passes

\* What leaves the agent, its disk and the hub's event table alone.
LEMMA OthersDeliver ==
    ASSUME TypeInv, DeliveryInv,
           UNCHANGED <<cluster, agent, memory, disk, request, seen, history>>
    PROVE  DeliveryInv'
<1>1. WatchOK'
  BY DEF DeliveryInv, WatchOK, memory, disk, EventAt, cluster
<1>2. FlushOK'
  BY FlushUndisturbed DEF memory, disk
<1>3. \A e : UnderWay(e) => UnderWay(e)'
  BY UnderWayRests DEF memory, disk
<1>. QED BY <1>1, <1>2, <1>3, GoesOn DEF cluster, disk, history

\* No step skips a change while the process and its disk are there.
LEMMA StepDelivers ==
    ASSUME TypeInv, DeliveryInv, Keeps, [Next]_vars
    PROVE  DeliveryInv'
<1>1. agent = "run" /\ flusher.pc \in {"select", "replay", "post"} /\ flusher.next = "select"
  BY DEF DeliveryInv, WatchOK, FlushOK
<1>2. ~Stop /\ ~Kill /\ ~Wipe /\ ~Restart
  BY <1>1 DEF Keeps, Stop, Kill, Wipe, Restart, Fault
<1>3. ~BeginDrain /\ ~Drain /\ ~DrainDone /\ ~AfterDrain /\ ~CancelPost
  BY <1>1 DEF BeginDrain, Drain, DrainDone, AfterDrain, CancelPost, Cancelled
<1>4. CASE Collecting \/ UNCHANGED vars
  <2>1. UNCHANGED <<cluster, agent, memory, disk, request, seen, history>>
    BY <1>4 DEF Collecting, Collect, ApplySnapshot, vars, hub
  <2>. QED BY <2>1, OthersDeliver
<1>5. CASE TakeEvent \/ Tick \/ ReplayNext \/ ReplayDone \/ Ingesting \/ LosePost \/ CutPost
  <2>1. FlushOK' /\ Passes
    BY <1>5, TakeDelivers, TickDelivers, PostDelivers, IngestDelivers, RespondDelivers,
       LossDelivers DEF Ingesting
  <2>. QED BY <2>1, PassesDeliver
<1>. QED BY <1>2, <1>3, <1>4, <1>5, ClusterDelivers, WatchingDelivers
         DEF Next, Flushing, Failing

\* At the start there is none to skip.
LEMMA InitDelivers ==
    ASSUME Init
    PROVE  DeliveryInv
<1>1. /\ agent = "run" /\ rv = 0 /\ stateFile = 0 /\ base = 0 /\ request = <<>>
      /\ watcher.pc = "top" /\ watcher.held = NoEvent
      /\ flusher.pc = "select" /\ flusher.next = "select" /\ flusher.batch = <<>>
  BY DEF Init, AtTop, NoFlush
<1>. QED BY <1>1 DEF DeliveryInv, WatchOK, FlushOK, Skipless

\* What is under way is in flight or recorded.
LEMMA DeliverySuffices ==
    ASSUME DeliveryInv
    PROVE  NothingSkipped
<1>1. ASSUME NEW i \in base + 1 .. stateFile, log[i].obj # 0
      PROVE  Key(EventAt(i)) \in seen \/ EventAt(i) \in InFlight
  <2>. DEFINE e == EventAt(i)
  <2>1. UnderWay(e)
    BY <1>1 DEF DeliveryInv, Skipless
  <2>. HIDE DEF e
  <2>2. \A s : In(e, s) => e \in ToSet(s)
    BY DEF In, ToSet
  <2>3. e \in seen \/ e \in InFlight
    BY <2>1, <2>2 DEF UnderWay, Waiting, Queued, InFlight
  <2>. QED BY <2>3 DEF Key, e
<1>. QED BY <1>1 DEF NothingSkipped

-----------------------------------------------------------------------------
(***************************************************************************)
(* Order: under faults that keep the cluster's history and one listing,    *)
(* the changes of an object wait oldest first and are recorded so.         *)
(***************************************************************************)
\* Posts are lost or cut, streams break.
Gentle == Faults \subseteq {"lost", "cut", "stream"}

NoLater(e, f) == e.obj = f.obj => e.rv <= f.rv

Sorted(s) == \A i, j \in DOMAIN s : i < j => NoLater(s[i], s[j])

Leads(s, t) == \A e, f : In(e, s) /\ In(f, t) => NoLater(e, f)

\* From the queue file to the channel.
Ordered ==
    /\ \A i \in DOMAIN queueFile : Sorted(queueFile[i])
    /\ \A i, j \in DOMAIN queueFile : i < j => Leads(queueFile[i], queueFile[j])
    /\ \A e, f : /\ Queued(e)
                 /\ In(f, flusher.batch) \/ In(f, pending) \/ In(f, events)
                 => NoLater(e, f)
    /\ Sorted(flusher.batch) /\ Leads(flusher.batch, pending) /\ Leads(flusher.batch, events)
    /\ Sorted(pending) /\ Leads(pending, events)
    /\ Sorted(events)

\* Before the listing there is nothing.
Fresh ==
    rv = 0 /\ watcher.pc # "list" =>
        watcher.pc = "top" /\ \A e \in Event : ~UnderWay(e)

\* The resourceVersion at which the watch begins, or will begin.
Basis ==
    IF watcher.pc # "list" THEN base
    ELSE IF watcher.items = <<>> THEN watcher.last
    ELSE watcher.items[Len(watcher.items)].rv

Reach == IF watcher.pc = "list" THEN Basis ELSE rv

\* A listing that is under way.
ListOK ==
    watcher.pc = "list" =>
        /\ watcher.last # 0
        /\ \A i, j \in DOMAIN watcher.items :
             i < j => watcher.items[i].obj < watcher.items[j].obj
        /\ \A i \in DOMAIN watcher.items : watcher.items[i].rv <= Basis
        /\ \A e \in Event : UnderWay(e) =>
             \A i \in DOMAIN watcher.items : e.obj # watcher.items[i].obj

InReach == \A e \in Event : UnderWay(e) => e.rv <= Reach

\* What waits and is not recorded is no older than what is.
Unrecorded ==
    \A f \in Event : Waiting(f) /\ f \notin seen => \A e \in seen : NoLater(e, f)

LineInv == Fresh /\ ListOK /\ InReach /\ Ordered /\ Unrecorded

OrderInv == floor = 0 /\ (~skewed => LineInv)

\* What is under way is the event of a write.
LEMMA WaitingKnown ==
    ASSUME TypeInv, NEW e, e \in seen \/ Waiting(e)
    PROVE  e \in Known /\ e \in Event
<1>1. Known \subseteq Event /\ seen \subseteq Known
  BY DEF TypeInv, ClusterTypes, HubTypes, Known, Event
<1>2. ASSUME NEW s, s \in Seq(Known), In(e, s)
      PROVE  e \in Known
  <2>. DEFINE K == Known
  <2>. HIDE DEF K
  <2>1. ASSUME NEW t \in Seq(K), NEW q \in DOMAIN t
        PROVE  t[q] \in K
    BY <2>1
  <2>2. s \in Seq(K)
    BY <1>2 DEF K
  <2>3. e \in K
    BY <1>2, <2>1, <2>2 DEF In
  <2>. QED BY <2>3 DEF K
<1>3. ASSUME NEW i \in DOMAIN queueFile
      PROVE  queueFile[i] \in Seq(Known)
  <2>. DEFINE B == Seq(Known)
  <2>1. queueFile \in Seq(B)
    BY DEF TypeInv, FlushTypes
  <2>. HIDE DEF B
  <2>2. queueFile[i] \in B
    BY <2>1
  <2>. QED BY <2>2 DEF B
<1>4. /\ events \in Seq(Known) /\ pending \in Seq(Known) /\ flusher.batch \in Seq(Known)
  BY DEF TypeInv, FlushTypes
<1>. QED BY <1>1, <1>2, <1>3, <1>4 DEF Waiting, Queued

\* The same, with the event that the watch loop holds.
LEMMA UnderWayKnown ==
    ASSUME TypeInv, NEW e, UnderWay(e)
    PROVE  e = NoEvent \/ (e \in Known /\ e \in Event)
<1>1. Known \subseteq Event /\ watcher.held \in Known \cup {NoEvent}
  BY DEF TypeInv, ClusterTypes, WatchTypes, Known, Event
<1>. QED BY <1>1, WaitingKnown DEF UnderWay

\* Sorted sequences.
LEMMA SortedAppend ==
    ASSUME NEW S, NEW s \in Seq(S), NEW x \in S, Sorted(s), \A e : In(e, s) => NoLater(e, x)
    PROVE  Sorted(Append(s, x))
<1>1. /\ Append(s, x) \in Seq(S) /\ Len(Append(s, x)) = Len(s) + 1
      /\ Append(s, x)[Len(s) + 1] = x
      /\ \A p \in 1 .. Len(s) : Append(s, x)[p] = s[p]
  BY AppendProperties
<1>2. DOMAIN Append(s, x) = 1 .. (Len(s) + 1) /\ DOMAIN s = 1 .. Len(s) /\ Len(s) \in Nat
  BY <1>1
<1>. DEFINE t == Append(s, x)
<1>. HIDE DEF t
<1>3. ASSUME NEW i \in DOMAIN t, NEW j \in DOMAIN t, i < j
      PROVE  NoLater(t[i], t[j])
  <2>1. i \in DOMAIN s /\ t[i] = s[i]
    BY <1>1, <1>2, <1>3 DEF t
  <2>2. CASE j \in 1 .. Len(s)
    <3>1. j \in DOMAIN s /\ t[j] = s[j]
      BY <1>1, <1>2, <2>2 DEF t
    <3>. QED BY <1>3, <2>1, <3>1 DEF Sorted
  <2>3. CASE j = Len(s) + 1
    <3>1. t[j] = x
      BY <1>1, <2>3 DEF t
    <3>2. In(s[i], s)
      BY <2>1 DEF In
    <3>. QED BY <2>1, <3>1, <3>2
  <2>. QED BY <1>2, <1>3, <2>2, <2>3 DEF t
<1>. QED BY <1>3 DEF Sorted, t

\* The tail of a sorted sequence is sorted and comes after its head.
LEMMA SortedTail ==
    ASSUME NEW S, NEW s \in Seq(S), s # <<>>, Sorted(s)
    PROVE  Sorted(Tail(s)) /\ \A e : In(e, Tail(s)) => NoLater(Head(s), e)
<1>1. Len(s) \in Nat \ {0} /\ DOMAIN s = 1 .. Len(s)
  BY EmptySeq, LenProperties
<1>2. /\ Head(s) = s[1] /\ DOMAIN Tail(s) = 1 .. (Len(s) - 1)
      /\ \A p \in 1 .. (Len(s) - 1) : Tail(s)[p] = s[p + 1]
  BY <1>1, HeadTailProperties, LenProperties
<1>. DEFINE t == Tail(s)
<1>. HIDE DEF t
<1>3. \A p \in DOMAIN t : p + 1 \in DOMAIN s /\ t[p] = s[p + 1] /\ p \in Nat /\ 1 < p + 1
  BY <1>1, <1>2 DEF t
<1>4. ASSUME NEW i \in DOMAIN t, NEW j \in DOMAIN t, i < j
      PROVE  NoLater(t[i], t[j])
  <2>1. i + 1 < j + 1
    BY <1>3, <1>4
  <2>. QED BY <1>3, <2>1 DEF Sorted
<1>5. ASSUME NEW e, In(e, t)
      PROVE  NoLater(Head(s), e)
  <2>1. PICK p \in DOMAIN t : t[p] = e
    BY <1>5 DEF In
  <2>2. 1 \in DOMAIN s
    BY <1>1
  <2>. QED BY <1>2, <1>3, <2>1, <2>2 DEF Sorted
<1>. QED BY <1>4, <1>5 DEF Sorted, t

\* The empty sequence is sorted.
LEMMA SortedNone == Sorted(<<>>)
BY DEF Sorted

-----------------------------------------------------------------------------
(***************************************************************************)
(* Order: the flush loop and the hub                                       *)
(***************************************************************************)
LEMMA TakeOrders ==
    ASSUME TypeInv, DeliveryInv, Ordered, TakeEvent
    PROVE  Ordered' /\ UNCHANGED seen
<1>. DEFINE batch == Append(pending, Head(events))
            K == Known
<1>1. /\ flusher.pc = "select" /\ events # <<>> /\ events' = Tail(events)
      /\ \/ /\ flusher' = [pc |-> "replay", batch |-> batch, at |-> 1, next |-> "select"]
            /\ pending' = <<>>
         \/ pending' = batch /\ UNCHANGED flusher
      /\ UNCHANGED <<queueFile, seen>>
  BY DEF TakeEvent, Take, Flush, disk, hub
<1>2. events \in Seq(K) /\ pending \in Seq(K) /\ Head(events) \in K
  <2>1. events \in Seq(K) /\ pending \in Seq(K)
    BY DEF TypeInv, FlushTypes
  <2>. HIDE DEF K
  <2>. QED BY <1>1, <2>1, HeadTailProperties
<1>. HIDE DEF K
<1>3. \A e : In(e, batch) <=> In(e, pending) \/ e = Head(events)
  BY <1>2, InAppend
<1>4. \A e : In(e, events) <=> e = Head(events) \/ In(e, events')
  BY <1>1, <1>2, InTail
<1>5. flusher.batch = <<>> /\ \A e : ~In(e, <<>>)
  BY <1>1, InNone DEF DeliveryInv, FlushOK
<1>6. Sorted(batch)
  BY <1>2, <1>4, SortedAppend DEF Ordered, Leads
<1>7. Sorted(events') /\ \A f : In(f, events') => NoLater(Head(events), f)
  BY <1>1, <1>2, SortedTail DEF Ordered
<1>. HIDE DEF batch
<1>8. \A e, f : In(e, batch) /\ In(f, events') => NoLater(e, f)
  BY <1>3, <1>4, <1>7 DEF Ordered, Leads
<1>9. \A e, f : Queued(e) /\ (In(f, batch) \/ In(f, events')) => NoLater(e, f)
  BY <1>3, <1>4 DEF Ordered
<1>10. \A e : Queued(e)' <=> Queued(e)
  BY <1>1 DEF Queued, In
<1>11. /\ \A i \in DOMAIN queueFile' : Sorted(queueFile'[i])
       /\ \A i, j \in DOMAIN queueFile' : i < j => Leads(queueFile'[i], queueFile'[j])
  BY <1>1 DEF Ordered
<1>12. CASE pending' = batch /\ UNCHANGED flusher
  <2>1. \A s : Sorted(<<>>) /\ Leads(<<>>, s)
    BY <1>5, SortedNone DEF Leads
  <2>2. flusher'.batch = <<>>
    BY <1>5, <1>12
  <2>3. Leads(pending', events')
    BY <1>8, <1>12 DEF Leads
  <2>4. \A e, f : /\ Queued(e)'
                  /\ In(f, flusher'.batch) \/ In(f, pending') \/ In(f, events')
                  => NoLater(e, f)
    BY <1>5, <1>9, <1>10, <1>12, <2>2
  <2>. QED BY <1>1, <1>6, <1>7, <1>11, <1>12, <2>1, <2>2, <2>3, <2>4
           DEF Ordered, Sorted, Leads, In, NoLater
<1>13. CASE /\ flusher' = [pc |-> "replay", batch |-> batch, at |-> 1, next |-> "select"]
            /\ pending' = <<>>
  <2>1. \A s : Sorted(<<>>) /\ Leads(<<>>, s) /\ Leads(s, <<>>)
    BY <1>5, SortedNone DEF Leads
  <2>2. flusher'.batch = batch
    BY <1>13
  <2>3. Leads(flusher'.batch, events')
    BY <1>8, <2>2 DEF Leads
  <2>4. \A e, f : /\ Queued(e)'
                  /\ In(f, flusher'.batch) \/ In(f, pending') \/ In(f, events')
                  => NoLater(e, f)
    BY <1>5, <1>9, <1>10, <1>13, <2>2
  <2>. QED BY <1>1, <1>6, <1>7, <1>11, <1>13, <2>1, <2>2, <2>3, <2>4
           DEF Ordered, Sorted, Leads, In, NoLater
<1>. QED BY <1>1, <1>12, <1>13

\* Empty stages are in order with any other.
LEMMA NoneOrdered ==
    /\ Sorted(<<>>)
    /\ \A s : Leads(<<>>, s) /\ Leads(s, <<>>)
BY SortedNone, InNone DEF Leads

\* Order is about the stages only.
LEMMA OrderedRests ==
    ASSUME Ordered, UNCHANGED <<queueFile, pending, events>>, flusher'.batch = flusher.batch
    PROVE  Ordered'
BY DEF Ordered, Queued, Sorted, Leads, In, NoLater

\* The batch in the making takes the place of the one sent before.
LEMMA TickOrders ==
    ASSUME TypeInv, DeliveryInv, Ordered, Tick
    PROVE  Ordered' /\ UNCHANGED seen
<1>1. /\ pending' = <<>> /\ flusher'.batch = pending
      /\ UNCHANGED <<events, queueFile, seen>>
  BY DEF Tick, Flush, disk, hub
<1>2. \A e : Queued(e)' <=> Queued(e)
  BY <1>1 DEF Queued, In
<1>3. \A e : ~In(e, pending')
  BY <1>1, InNone
<1>4. \A e, f : /\ Queued(e)'
                /\ In(f, flusher'.batch) \/ In(f, pending') \/ In(f, events')
                => NoLater(e, f)
  BY <1>1, <1>2, <1>3 DEF Ordered
<1>5. /\ Sorted(pending') /\ Leads(flusher'.batch, pending') /\ Leads(pending', events')
  BY <1>1, NoneOrdered
<1>6. /\ Sorted(flusher'.batch) /\ Leads(flusher'.batch, events') /\ Sorted(events')
      /\ \A i \in DOMAIN queueFile' : Sorted(queueFile'[i])
      /\ \A i, j \in DOMAIN queueFile' : i < j => Leads(queueFile'[i], queueFile'[j])
  BY <1>1 DEF Ordered
<1>. QED BY <1>1, <1>4, <1>5, <1>6 DEF Ordered, Sorted, Leads, In, NoLater

\* A replayed queue file goes when all of it is recorded.
LEMMA PostOrders ==
    ASSUME TypeInv, DeliveryInv, Ordered, ReplayNext \/ ReplayDone
    PROVE  Ordered' /\ UNCHANGED seen
<1>1. CASE ReplayNext
  <2>1. UNCHANGED <<queueFile, pending, events, seen, flusher>>
    BY <1>1 DEF ReplayNext, memory, disk, hub
  <2>. QED BY <2>1, OrderedRests
<1>2. CASE ReplayDone
  <2>1. /\ queueFile' = <<>> /\ flusher' = [flusher EXCEPT !.pc = "post"]
        /\ UNCHANGED <<pending, events, seen>>
    BY <1>2 DEF ReplayDone, hub
  <2>2. flusher \in [pc : {"select", "drain", "exit", "replay", "post"}, batch : Seq(Known),
                     at : Nat \ {0}, next : {"select", "drain", "exit"}]
    BY DEF TypeInv, FlushTypes
  <2>3. flusher'.batch = flusher.batch
    BY <2>1, <2>2
  <2>4. DOMAIN queueFile' = {}
    BY <2>1
  <2>5. \A e : ~Queued(e)'
    BY <2>4 DEF Queued
  <2>. QED BY <2>1, <2>3, <2>4, <2>5 DEF Ordered, Sorted, Leads, In, NoLater
<1>. QED BY <1>1, <1>2

\* A batch that is answered goes.
LEMMA RespondOrders ==
    ASSUME TypeInv, DeliveryInv, Ordered, Respond
    PROVE  Ordered' /\ UNCHANGED seen
<1>1. /\ IF flusher.pc = "replay" THEN flusher' = [flusher EXCEPT !.at = @ + 1]
         ELSE flusher' = [NoFlush EXCEPT !.pc = flusher.next]
      /\ UNCHANGED <<events, pending, queueFile, seen>>
  BY DEF Respond, Flushed, disk, hub
<1>2. flusher \in [pc : {"select", "drain", "exit", "replay", "post"}, batch : Seq(Known),
                   at : Nat \ {0}, next : {"select", "drain", "exit"}]
  BY DEF TypeInv, FlushTypes
<1>3. CASE flusher.pc = "replay"
  <2>1. flusher'.batch = flusher.batch
    BY <1>1, <1>2, <1>3
  <2>. QED BY <1>1, <2>1, OrderedRests
<1>4. CASE flusher.pc # "replay"
  <2>1. flusher'.batch = <<>>
    BY <1>1, <1>4 DEF NoFlush
  <2>2. \A e : (Queued(e)' <=> Queued(e)) /\ ~In(e, flusher'.batch)
    BY <1>1, <2>1, InNone DEF Queued, In
  <2>3. Sorted(flusher'.batch) /\ Leads(flusher'.batch, pending') /\ Leads(flusher'.batch, events')
    BY <2>1, NoneOrdered
  <2>. QED BY <1>1, <2>2, <2>3 DEF Ordered, Sorted, Leads, In, NoLater
<1>. QED BY <1>1, <1>3, <1>4

\* A failed batch goes behind what remains of the queue file.
LEMMA LossOrders ==
    ASSUME TypeInv, DeliveryInv, Ordered, LosePost \/ CutPost
    PROVE  Ordered'
<1>1. /\ request # <<>> /\ queueFile' = Remaining(Own)
      /\ flusher' = [NoFlush EXCEPT !.pc = flusher.next]
      /\ UNCHANGED <<events, pending>>
  BY DEF LosePost, CutPost, PostFails, Flushed, Own, Pending
<1>2. flusher.pc # "select"
  BY <1>1 DEF DeliveryInv, FlushOK
<1>3. flusher'.batch = <<>>
  BY <1>1 DEF NoFlush
<1>4. PICK off, m \in Nat :
             /\ off + m = Len(queueFile)
             /\ \A i \in 1 .. off : \A x : In(x, queueFile[i]) => x \in seen
             /\ \A p \in 1 .. m : Remaining(Own)[p] = queueFile[off + p]
             /\ \/ DOMAIN Remaining(Own) = 1 .. m /\ flusher.batch = <<>>
                \/ /\ DOMAIN Remaining(Own) = 1 .. (m + 1)
                   /\ Remaining(Own)[m + 1] = flusher.batch
  BY <1>2, RemainingIs
<1>5. DOMAIN queueFile = 1 .. Len(queueFile) /\ Len(queueFile) \in Nat
  <2>1. queueFile \in Seq(Seq(Known))
    BY DEF TypeInv, FlushTypes
  <2>. QED BY <2>1, LenProperties
<1>6. ASSUME NEW p \in DOMAIN queueFile'
      PROVE  \/ /\ p \in 1 .. m /\ off + p \in DOMAIN queueFile
                /\ queueFile'[p] = queueFile[off + p]
             \/ p = m + 1 /\ queueFile'[p] = flusher.batch
  <2>1. p \in 1 .. m \/ (p = m + 1 /\ Remaining(Own)[m + 1] = flusher.batch)
    BY <1>1, <1>4, <1>6
  <2>2. p \in 1 .. m => off + p \in DOMAIN queueFile
    BY <1>4, <1>5
  <2>3. p \in 1 .. m => queueFile'[p] = queueFile[off + p]
    BY <1>1, <1>4
  <2>. QED BY <1>1, <2>1, <2>2, <2>3
<1>7. ASSUME NEW p \in DOMAIN queueFile'
      PROVE  Sorted(queueFile'[p])
  BY <1>6 DEF Ordered
<1>8. ASSUME NEW p \in DOMAIN queueFile', NEW q \in DOMAIN queueFile', p < q
      PROVE  Leads(queueFile'[p], queueFile'[q])
  <2>1. p \in 1 .. m /\ off + p \in DOMAIN queueFile /\ queueFile'[p] = queueFile[off + p]
    BY <1>6, <1>8
  <2>2. CASE /\ q \in 1 .. m /\ off + q \in DOMAIN queueFile
             /\ queueFile'[q] = queueFile[off + q]
    <3>1. off + p < off + q
      BY <1>8, <2>1, <2>2
    <3>. QED BY <2>1, <2>2, <3>1 DEF Ordered
  <2>3. CASE q = m + 1 /\ queueFile'[q] = flusher.batch
    BY <2>1, <2>3 DEF Ordered, Leads, Queued
  <2>. QED BY <1>6, <2>2, <2>3
<1>9. \A e : Queued(e)' => Queued(e) \/ In(e, flusher.batch)
  BY <1>6 DEF Queued, In
<1>10. \A e : ~In(e, flusher'.batch)
  BY <1>3, InNone
<1>11. \A e, f : /\ Queued(e)'
                 /\ In(f, flusher'.batch) \/ In(f, pending') \/ In(f, events')
                 => NoLater(e, f)
  BY <1>1, <1>9, <1>10 DEF Ordered, Leads
<1>12. Sorted(flusher'.batch) /\ Leads(flusher'.batch, pending') /\ Leads(flusher'.batch, events')
  BY <1>3, NoneOrdered
<1>13. Sorted(pending') /\ Leads(pending', events') /\ Sorted(events')
  BY <1>1 DEF Ordered
<1>. QED BY <1>7, <1>8, <1>11, <1>12, <1>13 DEF Ordered, Sorted, Leads, In, NoLater

\* What waits and is not recorded is no older than the event the hub handles.
LEMMA HandledFirst ==
    ASSUME TypeInv, DeliveryInv, Ordered, Pending, NEW f, Waiting(f), f \notin seen
    PROVE  NoLater(Current, f)
<1>. DEFINE r == request[1]
<1>1. /\ Current \in Known
      /\ r \in [batch : Seq(Known), at : Nat \ {0}]
      /\ r.at \in 1 .. Len(r.batch) /\ Current = r.batch[r.at] /\ request # <<>>
  BY CurrentKnown DEF Current, Pending
<1>2. /\ flusher.pc \in {"replay", "post"}
      /\ flusher.pc = "post" => queueFile = <<>> /\ r.batch = flusher.batch
      /\ flusher.pc = "replay" =>
           /\ flusher.at <= Len(queueFile) /\ r.batch = queueFile[flusher.at]
           /\ \A i \in 1 .. (flusher.at - 1) : \A e : In(e, queueFile[i]) => e \in seen
      /\ \A j \in 1 .. (r.at - 1) : r.batch[j] \in seen
  BY <1>1 DEF DeliveryInv, FlushOK
<1>3. Len(r.batch) \in Nat /\ DOMAIN r.batch = 1 .. Len(r.batch)
  <2>1. r.batch \in Seq(Known)
    BY <1>1
  <2>. QED BY <2>1, LenProperties
<1>4. flusher.at \in Nat \ {0} /\ DOMAIN queueFile = 1 .. Len(queueFile) /\ Len(queueFile) \in Nat
  <2>1. queueFile \in Seq(Seq(Known)) /\ flusher.at \in Nat \ {0}
    BY DEF TypeInv, FlushTypes
  <2>. QED BY <2>1, LenProperties
<1>5. r.at \in Nat \ {0}
  BY <1>1
<1>. HIDE DEF r
<1>6. In(Current, r.batch)
  BY <1>1, <1>3 DEF In
<1>7. Current.rv \in Nat
  BY <1>1 DEF Known
\* In the batch itself.
<1>8. ASSUME In(f, r.batch), Sorted(r.batch)
      PROVE  NoLater(Current, f)
  <2>1. PICK p \in DOMAIN r.batch : r.batch[p] = f
    BY <1>8 DEF In
  <2>2. CASE p < r.at
    BY <1>2, <1>3, <1>5, <2>1, <2>2
  <2>3. CASE p = r.at
    BY <1>1, <1>7, <2>1, <2>3 DEF NoLater
  <2>4. CASE p > r.at
    BY <1>1, <1>3, <1>8, <2>1, <2>4 DEF Sorted
  <2>. QED BY <1>3, <1>5, <2>1, <2>2, <2>3, <2>4
<1>9. CASE flusher.pc = "post"
  <2>1. DOMAIN queueFile = {} /\ r.batch = flusher.batch
    BY <1>2, <1>9
  <2>2. ~Queued(f)
    BY <2>1 DEF Queued
  <2>3. CASE In(f, flusher.batch)
    BY <1>8, <2>1, <2>3 DEF Ordered
  <2>4. CASE In(f, pending) \/ In(f, events)
    BY <1>6, <2>1, <2>4 DEF Ordered, Leads
  <2>. QED BY <2>2, <2>3, <2>4 DEF Waiting
<1>10. CASE flusher.pc = "replay"
  <2>1. flusher.at \in DOMAIN queueFile /\ r.batch = queueFile[flusher.at]
    BY <1>2, <1>4, <1>10
  <2>2. CASE In(f, flusher.batch) \/ In(f, pending) \/ In(f, events)
    BY <1>6, <2>1, <2>2 DEF Ordered, Queued
  <2>3. CASE Queued(f)
    <3>1. PICK i \in DOMAIN queueFile : In(f, queueFile[i])
      BY <2>3 DEF Queued
    <3>2. CASE i < flusher.at
      <4>1. i \in 1 .. (flusher.at - 1)
        BY <1>4, <3>2
      <4>. QED BY <1>2, <1>10, <3>1, <4>1
    <3>3. CASE i = flusher.at
      BY <1>8, <2>1, <3>1, <3>3 DEF Ordered
    <3>4. CASE i > flusher.at
      BY <1>6, <2>1, <3>1, <3>4 DEF Ordered, Leads
    <3>. QED BY <1>4, <3>2, <3>3, <3>4
  <2>. QED BY <2>2, <2>3 DEF Waiting
<1>. QED BY <1>2, <1>9, <1>10

\* Nothing new is recorded.
LEMMA UnrecordedRests ==
    ASSUME Unrecorded, UNCHANGED seen, \A e : Waiting(e)' => Waiting(e)
    PROVE  Unrecorded'
BY DEF Unrecorded, NoLater

\* The hub records the event it handles.
LEMMA RecordedInLine ==
    ASSUME TypeInv, DeliveryInv, Ordered, Unrecorded, Pending,
           seen' = seen \cup {Current}, \A e : Waiting(e)' => Waiting(e)
    PROVE  Unrecorded'
<1>1. ASSUME NEW f \in Event, Waiting(f)', f \notin seen', NEW e \in seen'
      PROVE  NoLater(e, f)
  <2>1. Waiting(f) /\ f \notin seen
    BY <1>1
  <2>2. CASE e \in seen
    BY <1>1, <2>1, <2>2 DEF Unrecorded
  <2>3. CASE e = Current
    BY <2>1, <2>3, HandledFirst
  <2>. QED BY <1>1, <2>2, <2>3
<1>. QED BY <1>1 DEF Unrecorded, NoLater

\* Nothing new is under way.
LEMMA PassesOrder ==
    ASSUME TypeInv, OrderInv, Passes, ~skewed => Ordered' /\ Unrecorded'
    PROVE  OrderInv'
<1>1. UNCHANGED <<floor, rv, watcher, base, skewed>>
  BY DEF Passes, cluster, history
<1>2. \A e : UnderWay(e)' => UnderWay(e)
  BY <1>1 DEF Passes, UnderWay
<1>3. Basis' = Basis /\ Reach' = Reach
  BY <1>1 DEF Basis, Reach
<1>4. ASSUME ~skewed
      PROVE  Fresh' /\ ListOK' /\ InReach'
  <2>1. Fresh /\ ListOK /\ InReach
    BY <1>4 DEF OrderInv, LineInv
  <2>2. Fresh'
    BY <1>1, <1>2, <2>1 DEF Fresh
  <2>3. ListOK'
    BY <1>1, <1>2, <1>3, <2>1 DEF ListOK
  <2>4. InReach'
    BY <1>2, <1>3, <2>1 DEF InReach
  <2>. QED BY <2>2, <2>3, <2>4
<1>. QED BY <1>1, <1>4 DEF OrderInv, LineInv

\* The flush loop and the hub keep the order.
LEMMA FlushOrder ==
    ASSUME TypeInv, DeliveryInv, OrderInv,
           TakeEvent \/ Tick \/ ReplayNext \/ ReplayDone \/ Ingesting \/ LosePost \/ CutPost
    PROVE  OrderInv'
<1>1. Passes
  BY TakeDelivers, TickDelivers, PostDelivers, IngestDelivers, RespondDelivers, LossDelivers
     DEF Ingesting
<1>2. \A e : Waiting(e)' => Waiting(e)
  BY <1>1 DEF Passes
<1>3. ASSUME ~skewed
      PROVE  Ordered' /\ Unrecorded'
  <2>1. Ordered /\ Unrecorded
    BY <1>3 DEF OrderInv, LineInv
  <2>2. CASE TakeEvent \/ Tick \/ ReplayNext \/ ReplayDone \/ Respond
    <3>1. Ordered' /\ UNCHANGED seen
      BY <2>1, <2>2, TakeOrders, TickOrders, PostOrders, RespondOrders
    <3>. QED BY <1>2, <2>1, <3>1, UnrecordedRests
  <2>3. CASE IngestEvent
    <3>1. /\ Pending /\ seen' = seen \cup {Current}
          /\ UNCHANGED <<queueFile, pending, events, flusher>>
      BY <2>3 DEF IngestEvent, Key, memory, disk
    <3>2. Ordered'
      BY <2>1, <3>1, OrderedRests
    <3>. QED BY <1>2, <2>1, <3>1, <3>2, RecordedInLine
  <2>4. CASE LosePost \/ CutPost
    <3>1. seen' = seen \/ (Pending /\ seen' = seen \cup {Current})
      BY <2>4 DEF LosePost, CutPost, PostFails, RecordCut, hub, Key
    <3>. QED BY <1>2, <2>1, <2>4, <3>1, LossOrders, RecordedInLine, UnrecordedRests
  <2>. QED BY <2>2, <2>3, <2>4 DEF Ingesting
<1>. QED BY <1>1, <1>3, PassesOrder

-----------------------------------------------------------------------------
(***************************************************************************)
(* Order: the watch loop                                                   *)
(***************************************************************************)
\* The watch loop enqueues an event that is no older than any before it.
LEMMA EnqueueOrders ==
    ASSUME TypeInv, Ordered, Unrecorded, UNCHANGED <<queueFile, flusher, pending, seen>>,
           NEW x \in Known, events' = Append(events, x),
           \A e \in Event : UnderWay(e) => NoLater(e, x)
    PROVE  Ordered' /\ Unrecorded' /\ \A e : Waiting(e)' <=> Waiting(e) \/ e = x
<1>. DEFINE K == Known
<1>1. events \in Seq(K) /\ x \in K
  BY DEF TypeInv, FlushTypes
<1>. HIDE DEF K
<1>2. \A e : In(e, events') <=> In(e, events) \/ e = x
  BY <1>1, InAppend
<1>3. \A e : e \in seen \/ Waiting(e) => NoLater(e, x)
  BY WaitingKnown DEF UnderWay
<1>4. Sorted(events')
  BY <1>1, <1>3, SortedAppend DEF Ordered, Waiting
<1>5. \A e : Queued(e)' <=> Queued(e)
  BY DEF Queued, In
<1>6. Ordered'
  <2>1. \A e, f : /\ Queued(e)'
                  /\ In(f, flusher'.batch) \/ In(f, pending') \/ In(f, events')
                  => NoLater(e, f)
    BY <1>2, <1>3, <1>5 DEF Ordered, Waiting
  <2>2. Leads(flusher'.batch, events') /\ Leads(pending', events')
    BY <1>2, <1>3 DEF Ordered, Waiting, Leads
  <2>. QED BY <1>4, <2>1, <2>2 DEF Ordered, Sorted, Leads, In, NoLater
<1>7. \A e : Waiting(e)' <=> Waiting(e) \/ e = x
  BY <1>2, <1>5 DEF Waiting
<1>8. Unrecorded'
  BY <1>3, <1>7 DEF Unrecorded, NoLater
<1>. QED BY <1>6, <1>7, <1>8

\* It enqueues nothing.
LEMMA StagesRest ==
    ASSUME OrderInv, ~skewed, UNCHANGED <<queueFile, flusher, pending, seen, events>>
    PROVE  Ordered' /\ Unrecorded' /\ \A e : Waiting(e)' <=> Waiting(e)
<1>1. \A e : Waiting(e)' <=> Waiting(e)
  BY DEF Waiting, Queued, In
<1>2. Ordered /\ Unrecorded
  BY DEF OrderInv, LineInv
<1>. QED BY <1>1, <1>2, OrderedRests, UnrecordedRests

\* The listing's next item goes to the channel.
LEMMA ListMoves ==
    ASSUME TypeInv, ListEnqueue
    PROVE  /\ Basis' = Basis /\ Head(watcher.items) \in Known
           /\ \A e : In(e, watcher.items) <=> e = Head(watcher.items) \/ In(e, watcher'.items)
           /\ watcher'.pc = "list" /\ watcher'.held = watcher.held
<1>. DEFINE x == Head(watcher.items)
            t == watcher.items
            n == Len(t)
            u == Tail(t)
            K == Known
<1>0. t \in Seq(K)
  BY DEF TypeInv, WatchTypes
<1>1. watcher \in [pc : {"top", "list", "open", "watch", "send", "gone"},
                   items : Seq(Known), last : 0 .. Len(log), held : Known \cup {NoEvent}]
  BY DEF TypeInv, WatchTypes
<1>2. /\ watcher.pc = "list" /\ t # <<>>
      /\ watcher' = [watcher EXCEPT !.items = Tail(@), !.last = x.rv]
  BY DEF ListEnqueue
<1>3. /\ watcher'.pc = "list" /\ watcher'.items = u /\ watcher'.last = x.rv
      /\ watcher'.held = watcher.held
  BY <1>1, <1>2
<1>. HIDE DEF K
<1>4. n \in Nat \ {0} /\ DOMAIN t = 1 .. n
  BY <1>0, <1>2, EmptySeq, LenProperties
<1>5. /\ x = t[1] /\ x \in K /\ u \in Seq(K) /\ Len(u) = n - 1 /\ DOMAIN u = 1 .. (n - 1)
      /\ \A p \in 1 .. (n - 1) : u[p] = t[p + 1]
  BY <1>0, <1>2, <1>4, HeadTailProperties, LenProperties
<1>6. u = <<>> <=> n - 1 = 0
  BY <1>5, EmptySeq
<1>7. \A e : In(e, t) <=> e = x \/ In(e, u)
  BY <1>0, <1>2, InTail
<1>. HIDE DEF x, t, n, u
<1>8. Basis = t[n].rv
  BY <1>2 DEF Basis, t, n
<1>9. Basis' = Basis
  <2>1. CASE n = 1
    BY <1>3, <1>4, <1>5, <1>6, <1>8, <2>1 DEF Basis
  <2>2. CASE n # 1
    <3>1. u # <<>> /\ n - 1 \in 1 .. (n - 1) /\ n - 1 + 1 = n
      BY <1>4, <1>6, <2>2
    <3>2. Basis' = u[n - 1].rv
      BY <1>3, <1>5, <3>1 DEF Basis
    <3>. QED BY <1>5, <1>8, <3>1, <3>2
  <2>. QED BY <2>1, <2>2
<1>. QED BY <1>3, <1>5, <1>7, <1>9 DEF x, t, K

\* The watch loop keeps the order.
LEMMA WatchingOrder ==
    ASSUME TypeInv, DeliveryInv, OrderInv, Watching \/ Reconnect
    PROVE  OrderInv'
<1>0. UNCHANGED <<log, floor, pending, flusher, queueFile, seen>>
  BY DEF Watching, ListCurrent, ListEnqueue, ListDone, StartWatch, OpenWatch, Expire,
         WatchEvent, WatchEnqueue, WatchLeave, Reconnect, disk, cluster, hub
<1>1. /\ watcher \in [pc : {"top", "list", "open", "watch", "send", "gone"},
                      items : Seq(Known), last : 0 .. Len(log), held : Known \cup {NoEvent}]
      /\ rv \in 0 .. Len(log) /\ Len(log) \in Nat /\ floor = 0
      /\ watcher.pc = "send" => watcher.held \in Known
      /\ agent = "run"
  BY DEF TypeInv, WatchTypes, ClusterTypes, OrderInv, DeliveryInv, WatchOK
<1>2. ~Expire /\ ~WatchLeave
  BY <1>1 DEF Expire, WatchLeave
<1>3. skewed => skewed'
  BY DEF Watching, ListCurrent, ListEnqueue, ListDone, StartWatch, OpenWatch, Expire,
         WatchEvent, WatchEnqueue, WatchLeave, Reconnect, history
<1>4. NoEvent \notin Event
  BY DEF NoEvent, Event
<1>. SUFFICES ASSUME ~skewed'
              PROVE  LineInv'
  BY <1>0, <1>1 DEF OrderInv
<1>5. ~skewed /\ Fresh /\ ListOK /\ InReach /\ Ordered /\ Unrecorded
  BY <1>3 DEF OrderInv, LineInv
<1>6. CASE StartWatch \/ OpenWatch \/ Reconnect
  <2>1. /\ watcher.pc \in {"top", "open", "watch"}
        /\ \E l \in {"top", "open", "watch"} : watcher' = [watcher EXCEPT !.pc = l]
        /\ UNCHANGED <<rv, base, events>>
        /\ watcher.pc = "top" => rv # 0
    BY <1>6 DEF StartWatch, OpenWatch, Reconnect, Watch, history
  <2>2. PICK l \in {"top", "open", "watch"} : watcher' = [watcher EXCEPT !.pc = l]
    BY <2>1
  <2>3. watcher'.pc = l /\ watcher'.held = watcher.held
    BY <1>1, <2>2
  <2>4. rv # 0
    BY <1>5, <2>1 DEF Fresh
  <2>5. Ordered' /\ Unrecorded' /\ \A e : Waiting(e)' <=> Waiting(e)
    BY <1>0, <1>5, <2>1, StagesRest
  <2>6. Fresh' /\ ListOK'
    BY <2>1, <2>3, <2>4 DEF Fresh, ListOK
  <2>7. \A e : UnderWay(e)' => UnderWay(e)
    BY <1>0, <2>3, <2>5 DEF UnderWay
  <2>8. InReach'
    BY <1>5, <2>1, <2>3, <2>7 DEF InReach, Reach
  <2>. QED BY <2>5, <2>6, <2>8 DEF LineInv
<1>7. CASE ListCurrent
  <2>1. PICK items \in Listings :
           /\ watcher' = [pc |-> "list", items |-> items, last |-> Len(log), held |-> NoEvent]
           /\ skewed' = (skewed \/ Behind(items))
    BY <1>7 DEF ListCurrent
  <2>2. UNCHANGED <<rv, base, events>> /\ rv = 0 /\ watcher.pc = "top"
    BY <1>7 DEF ListCurrent
  <2>3. \A e \in Event : ~UnderWay(e)
    BY <1>5, <2>2 DEF Fresh
  <2>4. Ordered' /\ Unrecorded' /\ \A e : Waiting(e)' <=> Waiting(e)
    BY <1>0, <1>5, <2>2, StagesRest
  <2>5. /\ watcher'.pc = "list" /\ watcher'.items = items /\ watcher'.last = Len(log)
        /\ watcher'.held = NoEvent
    BY <2>1
  <2>6. \A e \in Event : ~UnderWay(e)'
    BY <1>0, <1>4, <2>3, <2>4, <2>5 DEF UnderWay
  <2>7. /\ items \in Seq(Known)
        /\ \A i, j \in DOMAIN items : i < j => items[i].obj < items[j].obj
    BY ListingTypes
  <2>8. Len(log) # 0
    BY DEF TypeInv, ClusterTypes
  <2>9. \A i \in DOMAIN items : items[i].rv <= items[Len(items)].rv
    <3>1. ASSUME NEW i \in DOMAIN items
          PROVE  items[i].rv \in Nat
      <4>. DEFINE K == Known
      <4>1. \A e \in K : e.rv \in Nat
        BY DEF Known
      <4>2. items \in Seq(K)
        BY <2>7
      <4>. HIDE DEF K
      <4>3. items[i] \in K
        BY <4>2
      <4>. QED BY <4>1, <4>3
    <3>2. ~Behind(items)
      BY <1>5, <2>1
    <3>3. items # <<>> => items[Len(items)].rv \in Nat
      <4>1. items # <<>> => Len(items) \in DOMAIN items
        BY <2>7, EmptySeq, LenProperties
      <4>. QED BY <3>1, <4>1
    <3>4. items = <<>> => DOMAIN items = {}
      OBVIOUS
    <3>. QED BY <3>1, <3>2, <3>3, <3>4 DEF Behind, Last
  <2>10. ListOK'
    <3>1. items # <<>> => Basis' = items[Len(items)].rv
      BY <2>5 DEF Basis
    <3>2. items = <<>> => DOMAIN items = {}
      OBVIOUS
    <3>. QED BY <2>5, <2>6, <2>7, <2>8, <2>9, <3>1, <3>2 DEF ListOK
  <2>. QED BY <2>4, <2>5, <2>6, <2>10 DEF LineInv, Fresh, InReach
<1>8. CASE ListEnqueue
  <2>. DEFINE x == Head(watcher.items)
              t == watcher.items
  <2>1. /\ watcher.pc = "list" /\ t # <<>> /\ events' = Append(events, x)
        /\ watcher' = [watcher EXCEPT !.items = Tail(@), !.last = x.rv]
        /\ UNCHANGED <<rv, base>>
    BY <1>8 DEF ListEnqueue, Enqueue, history
  <2>2. t \in Seq(Known)
    BY <1>1
  <2>3. /\ watcher'.pc = "list" /\ watcher'.items = Tail(t) /\ watcher'.last = x.rv
        /\ watcher'.held = watcher.held
    BY <1>1, <2>1
  <2>. DEFINE n == Len(t)
              u == Tail(t)
  <2>4. /\ n \in Nat \ {0} /\ DOMAIN t = 1 .. n /\ x = t[1] /\ x \in Known
        /\ Len(u) = n - 1 /\ DOMAIN u = 1 .. (n - 1)
        /\ \A p \in 1 .. (n - 1) : u[p] = t[p + 1]
        /\ u = <<>> <=> n = 1
    <3>. DEFINE K == Known
    <3>. HIDE DEF K
    <3>1. t \in Seq(K)
      BY <2>2 DEF K
    <3>2. n \in Nat \ {0} /\ DOMAIN t = 1 .. n
      BY <2>1, <3>1, EmptySeq, LenProperties
    <3>3. x = t[1] /\ x \in K /\ u \in Seq(K) /\ Len(u) = n - 1 /\ DOMAIN u = 1 .. (n - 1)
          /\ \A p \in 1 .. (n - 1) : u[p] = t[p + 1]
      BY <2>1, <3>1, <3>2, HeadTailProperties, LenProperties
    <3>4. u = <<>> <=> n - 1 = 0
      BY <3>3, EmptySeq
    <3>. QED BY <3>2, <3>3, <3>4 DEF K
  <2>. HIDE DEF x, t, n, u
  <2>6. Basis' = Basis
    BY <1>8, ListMoves
  <2>7. ListOK /\ x.rv <= Basis /\ x.rv # 0 /\ 1 \in DOMAIN t
    <3>1. 1 \in DOMAIN t
      BY <2>4
    <3>2. x.rv # 0
      BY <2>4 DEF Known
    <3>. QED BY <1>5, <2>1, <2>4, <3>1, <3>2 DEF ListOK, t
  <2>8. \A e \in Event : UnderWay(e) => e.obj # x.obj
    BY <2>1, <2>4, <2>7 DEF ListOK, t
  <2>9. Ordered' /\ Unrecorded' /\ \A e : Waiting(e)' <=> Waiting(e) \/ e = x
    BY <1>0, <1>5, <2>1, <2>4, <2>8, EnqueueOrders DEF NoLater
  <2>10. \A e : UnderWay(e)' => UnderWay(e) \/ e = x
    BY <1>0, <2>3, <2>9 DEF UnderWay
  <2>11. InReach'
    BY <1>5, <2>1, <2>3, <2>6, <2>7, <2>10 DEF InReach, Reach
  <2>12. \A p \in DOMAIN u : p + 1 \in DOMAIN t /\ u[p] = t[p + 1] /\ 1 < p + 1 /\ p \in Nat
    BY <2>4
  <2>13. ASSUME NEW i \in DOMAIN u, NEW j \in DOMAIN u, i < j
         PROVE  u[i].obj < u[j].obj
    <3>1. i + 1 < j + 1
      BY <2>12, <2>13
    <3>. QED BY <2>1, <2>7, <2>12, <3>1 DEF ListOK, t
  <2>14. \A i \in DOMAIN u : u[i].rv <= Basis
    BY <2>1, <2>7, <2>12 DEF ListOK, t
  <2>15. ASSUME NEW e \in Event, UnderWay(e)', NEW i \in DOMAIN u
         PROVE  e.obj # u[i].obj
    <3>1. CASE UnderWay(e)
      BY <2>1, <2>7, <2>12, <3>1 DEF ListOK, t
    <3>2. CASE e = x
      <4>1. 1 \in DOMAIN t
        BY <2>4
      <4>2. x.obj < u[i].obj
        BY <2>1, <2>4, <2>7, <2>12, <4>1 DEF ListOK, t
      <4>3. x.obj \in Nat
        BY <2>4 DEF Known, Objects
      <4>. QED BY <3>2, <4>2, <4>3
    <3>. QED BY <2>10, <2>15, <3>1, <3>2
  <2>16. ListOK'
    <3>1. watcher'.items = u
      BY <2>3 DEF u
    <3>. QED BY <2>3, <2>6, <2>7, <2>13, <2>14, <2>15, <3>1 DEF ListOK
  <2>17. Fresh'
    BY <2>3 DEF Fresh
  <2>. QED BY <2>9, <2>11, <2>16, <2>17 DEF LineInv
<1>9. CASE ListDone
  <2>1. /\ watcher.pc = "list" /\ watcher.items = <<>>
        /\ rv' = watcher.last /\ base' = watcher.last
        /\ watcher' = [watcher EXCEPT !.pc = "open"] /\ UNCHANGED events
    BY <1>9 DEF ListDone, Watch
  <2>2. watcher'.pc = "open" /\ watcher'.held = watcher.held
    BY <1>1, <2>1
  <2>3. rv' # 0 /\ Reach' = Reach
    BY <1>5, <2>1, <2>2 DEF ListOK, Reach, Basis
  <2>4. Ordered' /\ Unrecorded' /\ \A e : Waiting(e)' <=> Waiting(e)
    BY <1>0, <1>5, <2>1, StagesRest
  <2>5. \A e : UnderWay(e)' => UnderWay(e)
    BY <1>0, <2>2, <2>4 DEF UnderWay
  <2>. QED BY <1>5, <2>2, <2>3, <2>4, <2>5 DEF LineInv, Fresh, ListOK, InReach
<1>10. CASE WatchEvent
  <2>. DEFINE h == [type |-> log[rv + 1].type, obj |-> log[rv + 1].obj, rv |-> rv + 1]
  <2>1. /\ watcher.pc = "watch" /\ rv' = rv + 1 /\ UNCHANGED events
        /\ UNCHANGED watcher \/ watcher' = [watcher EXCEPT !.pc = "send", !.held = h]
    BY <1>10 DEF WatchEvent
  <2>0. rv \in Nat /\ h.rv = rv + 1
    BY <1>1
  <2>. HIDE DEF h
  <2>2. /\ watcher'.pc # "list" /\ watcher.pc # "list"
        /\ watcher'.held = watcher.held \/ watcher'.held.rv = rv + 1
    BY <1>1, <2>0, <2>1
  <2>3. Ordered' /\ Unrecorded' /\ \A e : Waiting(e)' <=> Waiting(e)
    BY <1>0, <1>5, <2>1, StagesRest
  <2>4. \A e : UnderWay(e)' => UnderWay(e) \/ e.rv = rv + 1
    BY <1>0, <2>2, <2>3 DEF UnderWay
  <2>5. InReach'
    <3>1. \A e \in Event : e.rv \in Nat
      BY DEF Event
    <3>. QED BY <1>5, <2>0, <2>1, <2>2, <2>4, <3>1 DEF InReach, Reach
  <2>6. rv' # 0
    BY <2>0, <2>1
  <2>. QED BY <2>2, <2>3, <2>5, <2>6 DEF LineInv, Fresh, ListOK
<1>11. CASE WatchEnqueue
  <2>1. /\ watcher.pc = "send" /\ events' = Append(events, watcher.held)
        /\ watcher' = [watcher EXCEPT !.pc = "watch", !.held = NoEvent]
        /\ UNCHANGED <<rv, base>>
    BY <1>11 DEF WatchEnqueue, Enqueue, history
  <2>2. /\ watcher'.pc = "watch" /\ watcher'.held = NoEvent
        /\ watcher.held \in Known /\ watcher.held.rv = rv /\ rv # 0
    BY <1>1, <1>5, <2>1 DEF DeliveryInv, WatchOK, EventAt, Fresh
  <2>3. \A e \in Event : UnderWay(e) => NoLater(e, watcher.held)
    BY <1>5, <2>1, <2>2 DEF InReach, Reach, NoLater
  <2>4. Ordered' /\ Unrecorded' /\ \A e : Waiting(e)' <=> Waiting(e) \/ e = watcher.held
    BY <1>0, <1>5, <2>1, <2>2, <2>3, EnqueueOrders
  <2>5. \A e \in Event : UnderWay(e)' => UnderWay(e)
    BY <1>0, <1>4, <2>2, <2>4 DEF UnderWay
  <2>6. InReach'
    BY <1>5, <2>1, <2>2, <2>5 DEF InReach, Reach
  <2>. QED BY <2>1, <2>2, <2>4, <2>6 DEF LineInv, Fresh, ListOK
<1>. QED BY <1>2, <1>6, <1>7, <1>8, <1>9, <1>10, <1>11 DEF Watching

\* What touches neither the agent nor the hub's event table.
LEMMA OthersOrder ==
    ASSUME OrderInv, UNCHANGED <<floor, memory, queueFile, seen, history>>
    PROVE  OrderInv'
<1>1. UNCHANGED <<rv, watcher, events, pending, flusher, base, skewed>>
  BY DEF memory, history
<1>2. \A e : (UnderWay(e)' <=> UnderWay(e)) /\ (Waiting(e)' <=> Waiting(e))
  BY <1>1 DEF UnderWay, Waiting, Queued, In
<1>3. Basis' = Basis /\ Reach' = Reach
  BY <1>1 DEF Basis, Reach
<1>4. ASSUME ~skewed
      PROVE  LineInv'
  <2>1. Fresh /\ ListOK /\ InReach /\ Ordered /\ Unrecorded
    BY <1>4 DEF OrderInv, LineInv
  <2>2. Fresh' /\ InReach'
    BY <1>1, <1>2, <1>3, <2>1 DEF Fresh, InReach
  <2>3. ListOK'
    BY <1>1, <1>2, <1>3, <2>1 DEF ListOK
  <2>4. Ordered'
    BY <1>1, <2>1, OrderedRests
  <2>5. Unrecorded'
    BY <1>2, <2>1, UnrecordedRests
  <2>. QED BY <2>2, <2>3, <2>4, <2>5 DEF LineInv
<1>. QED BY <1>1, <1>4 DEF OrderInv

\* Under gentle faults only these steps are possible.
LEMMA GentleSteps ==
    ASSUME DeliveryInv, Gentle, [Next]_vars
    PROVE  \/ \E o \in Objects, t \in Types : Write(o, t)
           \/ WriteElsewhere
           \/ Watching \/ Reconnect
           \/ TakeEvent \/ Tick \/ ReplayNext \/ ReplayDone \/ Ingesting \/ LosePost \/ CutPost
           \/ Collecting \/ UNCHANGED vars
<1>1. agent = "run" /\ flusher.pc \in {"select", "replay", "post"} /\ flusher.next = "select"
  BY DEF DeliveryInv, WatchOK, FlushOK
<1>2. ~Stop /\ ~Kill /\ ~Wipe /\ ~Restart /\ ~ListFail /\ ~Compact
  BY <1>1 DEF Gentle, Stop, Kill, Wipe, Restart, ListFail, Compact, Fault
<1>3. ~BeginDrain /\ ~Drain /\ ~DrainDone /\ ~AfterDrain /\ ~CancelPost
  BY <1>1 DEF BeginDrain, Drain, DrainDone, AfterDrain, CancelPost, Cancelled
<1>. QED BY <1>2, <1>3 DEF Next, Flushing, Failing

\* Every step keeps the order under gentle faults.
LEMMA StepOrder ==
    ASSUME TypeInv, DeliveryInv, OrderInv, Gentle, [Next]_vars
    PROVE  OrderInv'
<1>1. CASE \/ WriteElsewhere \/ Collecting \/ UNCHANGED vars
           \/ \E o \in Objects, t \in Types : Write(o, t)
  <2>1. UNCHANGED <<floor, memory, queueFile, seen, history>>
    BY <1>1 DEF Write, WriteElsewhere, Collecting, Collect, ApplySnapshot, vars, cluster, disk, hub
  <2>. QED BY <2>1, OthersOrder
<1>. QED BY <1>1, GentleSteps, WatchingOrder, FlushOrder

\* At the start there is nothing to order.
LEMMA InitOrder ==
    ASSUME Init
    PROVE  OrderInv
<1>1. /\ floor = 0 /\ rv = 0 /\ events = <<>> /\ pending = <<>> /\ queueFile = <<>> /\ seen = {}
      /\ watcher.pc = "top" /\ watcher.held = NoEvent /\ flusher.batch = <<>>
  BY DEF Init, AtTop, NoFlush
<1>2. \A e : ~Waiting(e)
  <2>1. DOMAIN queueFile = {}
    BY <1>1
  <2>. QED BY <1>1, <2>1, InNone DEF Waiting, Queued
<1>3. \A e \in Event : ~UnderWay(e)
  <2>1. NoEvent \notin Event
    BY DEF NoEvent, Event
  <2>. QED BY <1>1, <1>2, <2>1 DEF UnderWay
<1>4. Ordered
  <2>1. DOMAIN queueFile = {} /\ \A e : ~Queued(e)
    BY <1>1 DEF Queued
  <2>. QED BY <1>1, <2>1, NoneOrdered DEF Ordered
<1>. QED BY <1>1, <1>2, <1>3, <1>4 DEF OrderInv, LineInv, Fresh, ListOK, InReach, Unrecorded

\* A step records an event only when it handles it.
LEMMA StepRecords ==
    ASSUME TypeInv, DeliveryInv, OrderInv, Gentle, [Next]_vars
    PROVE  RecordsInOrder
<1>1. ASSUME NEW new \in seen' \ seen, NEW old \in seen, ~skewed'
      PROVE  NoLater(old, new)
  <2>1. IngestEvent \/ CutPost
    <3>1. seen' # seen
      BY <1>1
    <3>. QED BY <3>1, GentleSteps
             DEF Write, WriteElsewhere, Watching, ListCurrent, ListEnqueue, ListDone, StartWatch,
                 OpenWatch, Expire, WatchEvent, WatchEnqueue, WatchLeave, Reconnect, TakeEvent,
                 Take, Tick, ReplayNext, ReplayDone, Ingesting, Respond, LosePost, Collecting,
                 Collect, ApplySnapshot, hub, vars
  <2>2. Pending /\ seen' \in {seen, seen \cup {Current}} /\ skewed' = skewed
    BY <2>1 DEF IngestEvent, CutPost, RecordCut, Key, history
  <2>3. new = Current /\ Waiting(Current) /\ Current \in Event
    BY <1>1, <2>2, HandledWaits, WaitingKnown
  <2>4. Unrecorded
    BY <1>1, <2>2 DEF OrderInv, LineInv
  <2>. QED BY <1>1, <2>3, <2>4 DEF Unrecorded
<1>. QED BY <1>1 DEF RecordsInOrder, NoLater

-----------------------------------------------------------------------------
(***************************************************************************)
(* The mirror: when batches are lost as a whole and nothing else writes    *)
(* the inventory, a row shows the newest event recorded of its object.     *)
(***************************************************************************)
Mild == Faults \subseteq {"lost", "stream"} /\ ~Collects

\* Under way, or still to be enqueued by the listing.
Travels(e) == UnderWay(e) \/ (watcher.pc = "list" /\ In(e, watcher.items))

\* The event tells of the write at its resourceVersion.
Genuine(e) ==
    /\ log[e.rv].obj = e.obj
    /\ e.type = "DELETED" <=> log[e.rv].type = "DELETED"

\* A listed event tells of the last write up to where the watch begins.
Settled(e) == \A k \in e.rv + 1 .. Basis : log[k].obj # e.obj

Faithful == \A e \in Event : Travels(e) => Genuine(e) /\ Settled(e)

\* The listing has missed no object that still is as it was.
Complete ==
    watcher.pc = "list" \/ rv # 0 =>
        \A k \in 1 .. Basis :
            /\ log[k].obj # 0 /\ log[k].type # "DELETED"
            /\ \A j \in k + 1 .. Len(log) : log[j].obj # log[k].obj
            => \E e \in Event : Travels(e) /\ e.obj = log[k].obj /\ e.rv = k

Content(e) == IF e.type = "DELETED" THEN 0 ELSE e.rv

Shows(o) ==
    \/ inventory[o] = 0 /\ \A e \in seen : e.obj # o
    \/ \E e \in seen : /\ e.obj = o /\ inventory[o] = Content(e)
                       /\ \A f \in seen : NoLater(f, e)

Shown == \A o \in Objects : Shows(o)

MirrorInv ==
    /\ snapshot = <<>>
    /\ base <= rv
    /\ ~skewed => Faithful /\ Complete /\ Shown

\* What travels is the event of a write.
LEMMA TravelsKnown ==
    ASSUME TypeInv, NEW e \in Event, Travels(e)
    PROVE  e \in Known
<1>1. CASE UnderWay(e)
  <2>1. e # NoEvent
    BY DEF Event, NoEvent
  <2>. QED BY <1>1, <2>1, UnderWayKnown
<1>2. CASE In(e, watcher.items)
  <2>. DEFINE K == Known
  <2>1. watcher.items \in Seq(K)
    BY DEF TypeInv, WatchTypes
  <2>. HIDE DEF K
  <2>2. \A p \in DOMAIN watcher.items : watcher.items[p] \in K
    BY <2>1
  <2>3. e \in K
    BY <1>2, <2>2 DEF In
  <2>. QED BY <2>3 DEF K
<1>. QED BY <1>1, <1>2 DEF Travels

\* The watch begins at a resourceVersion that the cluster has reached.
LEMMA BasisKnown ==
    ASSUME TypeInv
    PROVE  Basis \in 0 .. Len(log) /\ Len(log) \in Nat
<1>1. /\ base \in 0 .. Len(log) /\ watcher.last \in 0 .. Len(log) /\ Len(log) \in Nat
      /\ watcher.items \in Seq(Known)
  BY DEF TypeInv, WatchTypes, ClusterTypes
<1>2. watcher.items # <<>> => watcher.items[Len(watcher.items)] \in Known
  <2>. DEFINE K == Known
              t == watcher.items
  <2>. HIDE DEF K, t
  <2>1. t \in Seq(K)
    BY <1>1 DEF K, t
  <2>2. t # <<>> => t[Len(t)] \in K
    BY <2>1
  <2>. QED BY <2>2 DEF K, t
<1>3. \A e \in Known : e.rv \in 0 .. Len(log)
  BY <1>1 DEF Known
<1>. QED BY <1>1, <1>2, <1>3 DEF Basis

\* The same events travel, and the watch begins where it did.
LEMMA SameTravels ==
    ASSUME Faithful, Complete, UNCHANGED log, Basis' = Basis,
           watcher'.pc = "list" \/ rv' # 0 => watcher.pc = "list" \/ rv # 0,
           \A e \in Event : Travels(e)' <=> Travels(e)
    PROVE  Faithful' /\ Complete'
<1>1. \A e : (Genuine(e)' <=> Genuine(e)) /\ (Settled(e)' <=> Settled(e))
  BY DEF Genuine, Settled
<1>2. Faithful'
  BY <1>1 DEF Faithful
<1>3. Complete'
  BY DEF Complete
<1>. QED BY <1>2, <1>3

\* What a row shows depends on the hub's tables only.
LEMMA ShownRests ==
    ASSUME Shown, UNCHANGED <<seen, inventory>>
    PROVE  Shown'
BY DEF Shown, Shows, NoLater, Content

\* A write comes after all that travels.
LEMMA WriteMirrors ==
    ASSUME TypeInv, MirrorInv, NEW row, log' = Append(log, row),
           UNCHANGED <<memory, disk, hub, history>>
    PROVE  MirrorInv'
<1>1. UNCHANGED <<rv, watcher, events, pending, flusher, queueFile, seen, inventory, snapshot,
                  base, skewed>>
  BY DEF memory, disk, hub, history
<1>2. Len(log') = Len(log) + 1 /\ \A k \in 1 .. Len(log) : log'[k] = log[k]
  <2>. DEFINE Row == [type : Types, obj : Objects \cup {0}]
  <2>1. log \in Seq(Row)
    BY DEF TypeInv, ClusterTypes
  <2>. HIDE DEF Row
  <2>2. log \in Seq(Row \cup {row})
    BY <2>1, SeqMonotonic
  <2>. QED BY <2>2, AppendProperties
<1>3. Basis \in 0 .. Len(log) /\ Len(log) \in Nat /\ Basis' = Basis
  BY <1>1, BasisKnown DEF Basis
<1>4. \A e : Travels(e)' <=> Travels(e)
  BY <1>1 DEF Travels, UnderWay, Waiting, Queued, In
<1>5. ASSUME ~skewed
      PROVE  Faithful' /\ Complete' /\ Shown'
  <2>1. Faithful /\ Complete /\ Shown
    BY <1>5 DEF MirrorInv
  <2>2. ASSUME NEW e \in Event, Travels(e)'
        PROVE  Genuine(e)' /\ Settled(e)'
    <3>1. Travels(e) /\ e.rv \in 1 .. Len(log)
      BY <1>4, <2>2, TravelsKnown DEF Known
    <3>2. Genuine(e) /\ Settled(e)
      BY <2>1, <3>1 DEF Faithful
    <3>3. \A k \in e.rv + 1 .. Basis : k \in 1 .. Len(log)
      BY <1>3, <3>1
    <3>. QED BY <1>2, <1>3, <3>1, <3>2, <3>3 DEF Genuine, Settled
  <2>3. Complete'
    <3>1. ASSUME watcher'.pc = "list" \/ rv' # 0,
                 NEW k \in 1 .. Basis', log'[k].obj # 0, log'[k].type # "DELETED",
                 \A j \in k + 1 .. Len(log') : log'[j].obj # log'[k].obj
          PROVE  \E e \in Event : Travels(e)' /\ e.obj = log'[k].obj /\ e.rv = k
      <4>1. k \in 1 .. Basis /\ k \in 1 .. Len(log) /\ log'[k] = log[k]
        BY <1>2, <1>3
      <4>2. \A j \in k + 1 .. Len(log) : log[j].obj # log[k].obj
        BY <1>2, <1>3, <3>1, <4>1
      <4>3. \E e \in Event : Travels(e) /\ e.obj = log[k].obj /\ e.rv = k
        BY <1>1, <2>1, <3>1, <4>1, <4>2 DEF Complete
      <4>. QED BY <1>4, <4>1, <4>3
    <3>. QED BY <3>1 DEF Complete
  <2>4. Shown'
    BY <1>1, <2>1, ShownRests
  <2>. QED BY <2>2, <2>3, <2>4 DEF Faithful
<1>. QED BY <1>1, <1>5 DEF MirrorInv

\* What the flush loop does leaves the mirror alone.
LEMMA FlushMirrors ==
    ASSUME TypeInv, DeliveryInv, MirrorInv,
           TakeEvent \/ Tick \/ ReplayNext \/ ReplayDone \/ Respond \/ LosePost
    PROVE  MirrorInv'
<1>1. Passes
  BY TakeDelivers, TickDelivers, PostDelivers, RespondDelivers, LossDelivers
<1>2. UNCHANGED <<seen, inventory, snapshot>>
  BY DEF TakeEvent, Take, Tick, ReplayNext, ReplayDone, Respond, LosePost, hub
<1>3. UNCHANGED <<log, rv, watcher, base, skewed>> /\ Basis' = Basis
  BY <1>1 DEF Passes, cluster, history, Basis
<1>4. \A e : Travels(e)' <=> Travels(e)
  BY <1>1, <1>2, <1>3 DEF Passes, Travels, UnderWay
<1>5. ASSUME ~skewed
      PROVE  Faithful' /\ Complete' /\ Shown'
  BY <1>2, <1>3, <1>4, <1>5, SameTravels, ShownRests DEF MirrorInv
<1>. QED BY <1>2, <1>3, <1>5 DEF MirrorInv

\* The hub applies an event as it records it.
LEMMA IngestMirrors ==
    ASSUME TypeInv, DeliveryInv, OrderInv, MirrorInv, IngestEvent
    PROVE  MirrorInv'
<1>1. Passes
  BY IngestDelivers
<1>2. /\ Pending /\ seen' = seen \cup {Current}
      /\ inventory' = IF Current \in seen THEN inventory ELSE Applied(Current)
      /\ UNCHANGED snapshot
  BY DEF IngestEvent, Key
<1>3. UNCHANGED <<log, rv, watcher, base, skewed>> /\ Basis' = Basis
  BY <1>1 DEF Passes, cluster, history, Basis
<1>4. \A e : Travels(e)' <=> Travels(e)
  BY <1>1, <1>3 DEF Passes, Travels, UnderWay
<1>5. Current \in Event /\ Current \in Known /\ Waiting(Current)
  BY <1>2, HandledWaits, WaitingKnown
<1>6. ASSUME ~skewed
      PROVE  Shown'
  <2>1. Shown /\ Unrecorded
    BY <1>6 DEF MirrorInv, OrderInv, LineInv
  <2>2. CASE Current \in seen
    <3>1. UNCHANGED <<seen, inventory>>
      BY <1>2, <2>2
    <3>. QED BY <2>1, <3>1, ShownRests
  <2>3. CASE Current \notin seen
    <3>. DEFINE c == Current
    <3>1. c.obj \in Objects /\ c.rv \in Nat
      BY <1>5 DEF Event
    <3>2. inventory \in [Objects -> 0 .. Len(log)]
      BY DEF TypeInv, HubTypes
    <3>3. /\ inventory'[c.obj] = Content(c)
          /\ \A o \in Objects : o # c.obj => inventory'[o] = inventory[o]
      BY <1>2, <2>3, <3>1, <3>2 DEF Applied, Content
    <3>4. \A e \in seen : NoLater(e, c)
      BY <1>5, <2>1, <2>3 DEF Unrecorded
    <3>. HIDE DEF c
    <3>5. ASSUME NEW o \in Objects
          PROVE  Shows(o)'
      <4>1. CASE o = c.obj
        <5>1. NoLater(c, c) /\ \A f \in seen' : NoLater(f, c)
          BY <1>2, <3>1, <3>4 DEF NoLater, c
        <5>2. c \in seen' /\ c.obj = o /\ inventory'[o] = Content(c)
          BY <1>2, <3>3, <4>1 DEF c
        <5>. QED BY <5>1, <5>2 DEF Shows, NoLater, Content
      <4>2. CASE o # c.obj
        <5>1. inventory'[o] = inventory[o] /\ Shows(o)
          BY <2>1, <3>3, <4>2 DEF Shown
        <5>2. CASE inventory[o] = 0 /\ \A e \in seen : e.obj # o
          BY <1>2, <4>2, <5>1, <5>2 DEF Shows, c
        <5>3. CASE \E e \in seen : /\ e.obj = o /\ inventory[o] = Content(e)
                                   /\ \A f \in seen : NoLater(f, e)
          <6>1. PICK e \in seen : /\ e.obj = o /\ inventory[o] = Content(e)
                                  /\ \A f \in seen : NoLater(f, e)
            BY <5>3
          <6>2. \A f \in seen' : NoLater(f, e)
            BY <1>2, <4>2, <6>1 DEF NoLater, c
          <6>3. e \in seen' /\ inventory'[o] = Content(e)
            BY <1>2, <5>1, <6>1
          <6>. QED BY <6>1, <6>2, <6>3 DEF Shows, NoLater, Content
        <5>. QED BY <5>1, <5>2, <5>3 DEF Shows
      <4>. QED BY <4>1, <4>2
    <3>. QED BY <3>5 DEF Shown
  <2>. QED BY <2>2, <2>3
<1>7. ASSUME ~skewed
      PROVE  Faithful' /\ Complete'
  BY <1>3, <1>4, <1>7, SameTravels DEF MirrorInv
<1>. QED BY <1>2, <1>3, <1>6, <1>7 DEF MirrorInv

\* A listing shows the objects as they are.
LEMMA ListingMirrors ==
    ASSUME TypeInv, OrderInv, MirrorInv, ListCurrent
    PROVE  MirrorInv'
<1>1. PICK items \in Listings :
         /\ watcher' = [pc |-> "list", items |-> items, last |-> Len(log), held |-> NoEvent]
         /\ skewed' = (skewed \/ Behind(items))
  BY DEF ListCurrent
<1>2. /\ UNCHANGED <<log, rv, base, events, pending, flusher, queueFile, seen, inventory, snapshot>>
      /\ rv = 0 /\ watcher.pc = "top"
  BY DEF ListCurrent, cluster, disk, hub
<1>3. watcher'.pc = "list" /\ watcher'.items = items /\ watcher'.held = NoEvent
  BY <1>1
<1>4. /\ items \in Seq(Known)
      /\ \A e : In(e, items) <=> \E o \in Objects : Live(o) # 0 /\ e = Listed(o)
  BY ListingTypes DEF In
<1>5. ASSUME ~skewed'
      PROVE  Faithful' /\ Complete' /\ Shown'
  <2>1. ~skewed /\ Fresh /\ Shown
    BY <1>1, <1>5 DEF OrderInv, LineInv, MirrorInv
  <2>2. \A e \in Event : ~UnderWay(e)'
    <3>1. \A e \in Event : e # NoEvent /\ ~UnderWay(e)
      BY <1>2, <2>1 DEF Fresh, Event, NoEvent
    <3>. QED BY <1>2, <1>3, <3>1 DEF UnderWay, Waiting, Queued, In
  <2>3. \A e \in Event : Travels(e)' <=> In(e, items)
    BY <1>3, <2>2 DEF Travels, In
  <2>4. Basis' \in 0 .. Len(log) /\ Len(log) \in Nat
    <3>1. TypeInv'
      BY WatchingTypes DEF Watching
    <3>2. (Basis \in 0 .. Len(log))'
      BY <3>1, BasisKnown, PTL
    <3>. QED BY <1>2, <3>2, BasisKnown
  <2>5. ClusterTypes
    BY DEF TypeInv
  <2>6. ASSUME NEW e \in Event, In(e, items)
        PROVE  Genuine(e)' /\ Settled(e)'
    <3>1. PICK o \in Objects : Live(o) # 0 /\ e = Listed(o)
      BY <1>4, <2>6
    <3>2. /\ e.obj = o /\ e.rv = Live(o) /\ e.type = "ADDED"
      BY <3>1 DEF Listed
    <3>3. /\ Live(o) = LastWrite(o) /\ log[Live(o)].type # "DELETED"
          /\ log[LastWrite(o)].obj = o /\ LastWrite(o) \in 0 .. Len(log)
          /\ \A k \in 1 .. Len(log) : log[k].obj = o => k <= LastWrite(o)
      BY <2>5, <3>1, LiveIs, LastWriteIs
    <3>4. Genuine(e)'
      BY <1>2, <3>2, <3>3 DEF Genuine
    <3>5. ASSUME NEW k \in e.rv + 1 .. Basis'
          PROVE  log[k].obj # e.obj
      <4>1. k \in 1 .. Len(log) /\ ~(k <= LastWrite(o))
        BY <2>4, <3>2, <3>3
      <4>. QED BY <3>2, <3>3, <4>1
    <3>. QED BY <1>2, <3>4, <3>5 DEF Settled
  <2>7. ASSUME NEW k \in 1 .. Basis', log[k].obj # 0, log[k].type # "DELETED",
               \A j \in k + 1 .. Len(log) : log[j].obj # log[k].obj
        PROVE  \E e \in Event : Travels(e)' /\ e.obj = log[k].obj /\ e.rv = k
    <3>. DEFINE o == log[k].obj
    <3>1. k \in 1 .. Len(log)
      BY <2>4
    <3>2. o \in Objects
      <4>. DEFINE Row == [type : Types, obj : Objects \cup {0}]
      <4>1. log \in Seq(Row)
        BY <2>5 DEF ClusterTypes
      <4>2. log[k] \in Row
        <5>. HIDE DEF Row
        <5>. QED BY <3>1, <4>1
      <4>. QED BY <2>7, <4>2
    <3>3. /\ LastWrite(o) \in 0 .. Len(log) /\ k <= LastWrite(o)
          /\ LastWrite(o) # 0 => log[LastWrite(o)].obj = o
      BY <2>5, <3>1, LastWriteIs
    <3>4. LastWrite(o) = k
      <4>1. CASE LastWrite(o) # k
        <5>1. LastWrite(o) \in k + 1 .. Len(log) /\ LastWrite(o) # 0
          BY <2>4, <3>1, <3>3, <4>1
        <5>. QED BY <2>7, <3>3, <5>1
      <4>. QED BY <4>1
    <3>5. Live(o) # 0
      BY <2>5, <2>7, <3>1, <3>4, LiveIs
    <3>6. Live(o) = k
      BY <2>5, <3>4, <3>5, LiveIs
    <3>7. In(Listed(o), items) /\ Listed(o).obj = o /\ Listed(o).rv = k
      BY <1>4, <3>2, <3>5, <3>6 DEF Listed
    <3>8. Listed(o) \in Event
      <4>1. k \in 1 .. MaxWrites
        BY <2>4, <2>5, <3>1 DEF ClusterTypes
      <4>. QED BY <3>2, <3>6, <4>1 DEF Event, Listed, Types
    <3>. QED BY <2>3, <3>7, <3>8
  <2>8. Faithful'
    BY <2>3, <2>6 DEF Faithful
  <2>9. Complete'
    BY <1>2, <2>7 DEF Complete
  <2>. QED BY <1>2, <2>1, <2>8, <2>9, ShownRests
<1>. QED BY <1>2, <1>5 DEF MirrorInv

\* The watch loop adds events that are true, and the listing misses none.
LEMMA WatchingMirrors ==
    ASSUME TypeInv, DeliveryInv, OrderInv, MirrorInv, Watching \/ Reconnect
    PROVE  MirrorInv'
<1>0. UNCHANGED <<log, pending, flusher, queueFile, seen, inventory, snapshot>>
  BY DEF Watching, ListCurrent, ListEnqueue, ListDone, StartWatch, OpenWatch, Expire,
         WatchEvent, WatchEnqueue, WatchLeave, Reconnect, disk, cluster, hub
<1>1. /\ watcher \in [pc : {"top", "list", "open", "watch", "send", "gone"},
                      items : Seq(Known), last : 0 .. Len(log), held : Known \cup {NoEvent}]
      /\ rv \in 0 .. Len(log) /\ Len(log) \in Nat /\ floor = 0 /\ base \in 0 .. Len(log)
      /\ watcher.pc = "send" => watcher.held \in Known
      /\ agent = "run"
  BY DEF TypeInv, WatchTypes, ClusterTypes, OrderInv, DeliveryInv, WatchOK
<1>2. ~Expire /\ ~WatchLeave
  BY <1>1 DEF Expire, WatchLeave
<1>3. NoEvent \notin Event
  BY DEF NoEvent, Event
<1>4. ~skewed => Fresh /\ Faithful /\ Complete /\ Shown
  BY DEF OrderInv, LineInv, MirrorInv
<1>5. snapshot = <<>> /\ base <= rv
  BY DEF MirrorInv
<1>6. CASE StartWatch \/ OpenWatch \/ Reconnect
  <2>1. /\ watcher.pc \in {"top", "open", "watch"}
        /\ \E l \in {"top", "open", "watch"} : watcher' = [watcher EXCEPT !.pc = l]
        /\ UNCHANGED <<rv, base, events, skewed>>
        /\ watcher.pc = "top" => rv # 0
    BY <1>6 DEF StartWatch, OpenWatch, Reconnect, Watch, history
  <2>2. PICK l \in {"top", "open", "watch"} : watcher' = [watcher EXCEPT !.pc = l]
    BY <2>1
  <2>3. watcher'.pc = l /\ watcher'.held = watcher.held
    BY <1>1, <2>2
  <2>4. \A e \in Event : Travels(e)' <=> Travels(e)
    BY <1>0, <2>1, <2>3 DEF Travels, UnderWay, Waiting, Queued, In
  <2>5. Basis' = Basis
    BY <2>1, <2>3 DEF Basis
  <2>6. ~skewed => Faithful' /\ Complete' /\ Shown'
    BY <1>0, <1>4, <2>1, <2>3, <2>4, <2>5, SameTravels, ShownRests
  <2>. QED BY <1>0, <1>5, <2>1, <2>6 DEF MirrorInv
<1>7. CASE ListCurrent
  BY <1>7, ListingMirrors
<1>8. CASE ListEnqueue
  <2>. DEFINE x == Head(watcher.items)
  <2>1. /\ Basis' = Basis /\ x \in Known
        /\ \A e : In(e, watcher.items) <=> e = x \/ In(e, watcher'.items)
        /\ watcher'.pc = "list" /\ watcher'.held = watcher.held
    BY <1>8, ListMoves
  <2>2. /\ watcher.pc = "list" /\ events' = Append(events, x)
        /\ UNCHANGED <<rv, base, skewed>>
    BY <1>8 DEF ListEnqueue, Enqueue, history
  <2>3. \A e : In(e, events') <=> In(e, events) \/ e = x
    <3>. DEFINE K == Known
    <3>1. events \in Seq(K) /\ x \in K
      BY <2>1 DEF TypeInv, FlushTypes
    <3>. HIDE DEF K, x
    <3>. QED BY <2>2, <3>1, InAppend
  <2>. HIDE DEF x
  <2>4. \A e : In(e, watcher.items)' <=> In(e, watcher'.items)
    BY DEF In
  <2>5. \A e \in Event : Travels(e)' <=> Travels(e)
    <3>1. \A e : Waiting(e)' <=> Waiting(e) \/ e = x
      BY <1>0, <2>3 DEF Waiting, Queued, In
    <3>. QED BY <1>0, <2>1, <2>2, <2>4, <3>1 DEF Travels, UnderWay
  <2>6. ~skewed => Faithful' /\ Complete' /\ Shown'
    BY <1>0, <1>4, <2>1, <2>2, <2>5, SameTravels, ShownRests
  <2>. QED BY <1>0, <1>5, <2>2, <2>6 DEF MirrorInv
<1>9. CASE ListDone
  <2>1. /\ watcher.pc = "list" /\ watcher.items = <<>>
        /\ rv' = watcher.last /\ base' = watcher.last
        /\ watcher' = [watcher EXCEPT !.pc = "open"] /\ UNCHANGED <<events, skewed>>
    BY <1>9 DEF ListDone, Watch
  <2>2. watcher'.pc = "open" /\ watcher'.held = watcher.held
    BY <1>1, <2>1
  <2>3. \A e \in Event : Travels(e)' <=> Travels(e)
    BY <1>0, <2>1, <2>2, InNone DEF Travels, UnderWay, Waiting, Queued, In
  <2>4. Basis' = Basis
    BY <2>1, <2>2 DEF Basis
  <2>5. ~skewed => Faithful' /\ Complete' /\ Shown'
    BY <1>0, <1>4, <2>1, <2>3, <2>4, SameTravels, ShownRests
  <2>6. base' <= rv'
    BY <1>1, <2>1
  <2>. QED BY <1>0, <1>5, <2>1, <2>5, <2>6 DEF MirrorInv
<1>10. CASE WatchEvent
  <2>. DEFINE w == log[rv + 1]
  <2>0. PICK h : h = [type |-> w.type, obj |-> w.obj, rv |-> rv + 1]
    OBVIOUS
  <2>1. /\ watcher.pc = "watch" /\ rv < Len(log) /\ rv' = rv + 1
        /\ UNCHANGED <<events, base, skewed>>
        /\ UNCHANGED watcher \/ watcher' = [watcher EXCEPT !.pc = "send", !.held = h]
    BY <1>10, <2>0 DEF WatchEvent, history
  <2>2. h.type = w.type /\ h.obj = w.obj /\ h.rv = rv + 1 /\ rv \in Nat /\ rv + 1 \in 1 .. Len(log)
    BY <1>1, <2>0, <2>1
  <2>3. /\ watcher'.pc # "list" /\ watcher.held = NoEvent
        /\ watcher'.held = watcher.held \/ watcher'.held = h
    BY <1>1, <2>1 DEF DeliveryInv, WatchOK
  <2>4. Basis' = Basis /\ Basis = base
    BY <2>1, <2>3 DEF Basis
  <2>5. \A e \in Event : /\ Travels(e) => Travels(e)'
                         /\ Travels(e)' => Travels(e) \/ e = h
    BY <1>0, <1>3, <2>1, <2>3 DEF Travels, UnderWay, Waiting, Queued, In
  <2>6. Genuine(h)' /\ Settled(h)'
    <3>1. Genuine(h)'
      BY <1>0, <2>2 DEF Genuine
    <3>2. ~ \E k \in h.rv + 1 .. base : TRUE
      BY <1>1, <1>5, <2>2
    <3>. QED BY <2>4, <3>1, <3>2 DEF Settled
  <2>7. ASSUME ~skewed
        PROVE  Faithful' /\ Complete' /\ Shown'
    <3>1. Faithful /\ Complete /\ Shown /\ Fresh
      BY <1>4, <2>7
    <3>2. rv # 0
      BY <2>1, <3>1 DEF Fresh
    <3>3. Faithful'
      <4>1. \A e : Genuine(e) /\ Settled(e) => Genuine(e)' /\ Settled(e)'
        BY <1>0, <2>4 DEF Genuine, Settled
      <4>. QED BY <2>5, <2>6, <3>1, <4>1 DEF Faithful
    <3>4. Complete'
      BY <1>0, <2>4, <2>5, <3>1, <3>2 DEF Complete
    <3>. QED BY <1>0, <3>1, <3>3, <3>4, ShownRests
  <2>8. base' <= rv'
    BY <1>1, <1>5, <2>1, <2>2
  <2>. QED BY <1>0, <1>5, <2>1, <2>7, <2>8 DEF MirrorInv
<1>11. CASE WatchEnqueue
  <2>1. /\ watcher.pc = "send" /\ events' = Append(events, watcher.held)
        /\ watcher' = [watcher EXCEPT !.pc = "watch", !.held = NoEvent]
        /\ UNCHANGED <<rv, base, skewed>>
    BY <1>11 DEF WatchEnqueue, Enqueue, history
  <2>2. watcher'.pc = "watch" /\ watcher'.held = NoEvent /\ watcher.held \in Known
    BY <1>1, <2>1
  <2>3. \A e : In(e, events') <=> In(e, events) \/ e = watcher.held
    <3>. DEFINE K == Known
    <3>1. events \in Seq(K) /\ watcher.held \in K
      BY <2>2 DEF TypeInv, FlushTypes
    <3>. HIDE DEF K
    <3>. QED BY <2>1, <3>1, InAppend
  <2>4. \A e \in Event : Travels(e)' <=> Travels(e)
    <3>1. \A e : Waiting(e)' <=> Waiting(e) \/ e = watcher.held
      BY <1>0, <2>3 DEF Waiting, Queued, In
    <3>. QED BY <1>0, <1>3, <2>1, <2>2, <3>1 DEF Travels, UnderWay
  <2>5. Basis' = Basis
    BY <2>1, <2>2 DEF Basis
  <2>6. ~skewed => Faithful' /\ Complete' /\ Shown'
    BY <1>0, <1>4, <2>1, <2>2, <2>4, <2>5, SameTravels, ShownRests
  <2>. QED BY <1>0, <1>5, <2>1, <2>6 DEF MirrorInv
<1>. QED BY <1>2, <1>6, <1>7, <1>8, <1>9, <1>10, <1>11 DEF Watching

\* Every step keeps the mirror under mild faults.
LEMMA StepMirrors ==
    ASSUME TypeInv, DeliveryInv, OrderInv, MirrorInv, Mild, [Next]_vars
    PROVE  MirrorInv'
<1>1. Gentle
  BY DEF Mild, Gentle
<1>2. ~CutPost /\ ~Collecting
  BY DEF Mild, CutPost, Fault, Collecting, Collect, ApplySnapshot, MirrorInv
<1>3. CASE WriteElsewhere \/ \E o \in Objects, t \in Types : Write(o, t)
  <2>1. UNCHANGED <<memory, disk, hub, history>> /\ \E row : log' = Append(log, row)
    BY <1>3 DEF WriteElsewhere, Write
  <2>. QED BY <2>1, WriteMirrors
<1>4. CASE UNCHANGED vars
  <2>1. UNCHANGED <<log, rv, watcher, events, pending, flusher, queueFile, seen, inventory,
                    snapshot, base, skewed>>
    BY <1>4 DEF vars, cluster, memory, disk, hub, history
  <2>2. /\ Basis' = Basis
        /\ \A e \in Event : Travels(e)' <=> Travels(e)
    BY <2>1 DEF Basis, Travels, UnderWay, Waiting, Queued, In
  <2>3. ~skewed => Faithful' /\ Complete' /\ Shown'
    BY <2>1, <2>2, SameTravels, ShownRests DEF MirrorInv
  <2>. QED BY <2>1, <2>3 DEF MirrorInv
<1>. QED BY <1>1, <1>2, <1>3, <1>4, GentleSteps, WatchingMirrors, FlushMirrors, IngestMirrors
         DEF Ingesting

\* At the start there are no events and no rows.
LEMMA InitMirrors ==
    ASSUME Init
    PROVE  MirrorInv
<1>1. /\ rv = 0 /\ base = 0 /\ seen = {} /\ snapshot = <<>> /\ watcher.pc = "top"
      /\ inventory = [o \in Objects |-> 0]
      /\ OrderInv /\ ~skewed
  BY InitOrder DEF Init, AtTop
<1>2. \A e \in Event : ~Travels(e)
  BY <1>1 DEF OrderInv, LineInv, Fresh, Travels
<1>3. Shown
  BY <1>1 DEF Shown, Shows
<1>. QED BY <1>1, <1>2, <1>3 DEF MirrorInv, Faithful, Complete

\* With nothing on its way, each row shows the last write.
LEMMA MirrorSuffices ==
    ASSUME TypeInv, DeliveryInv, OrderInv, MirrorInv
    PROVE  MirroredUnlessSkewed
<1>. SUFFICES ASSUME ~skewed, Quiet
              PROVE  inventory = LiveState
  BY DEF MirroredUnlessSkewed, Mirrored
<1>1. /\ watcher.pc = "watch" /\ rv = Len(log)
      /\ events = <<>> /\ pending = <<>> /\ queueFile = <<>> /\ flusher.batch = <<>>
      /\ watcher.held = NoEvent /\ stateFile = rv
  BY DEF Quiet, DeliveryInv, WatchOK, FlushOK
<1>2. /\ Faithful /\ Complete /\ Shown /\ base <= rv /\ Basis = base
  BY <1>1 DEF MirrorInv, Basis
<1>3. /\ Len(log) \in Nat \ {0} /\ base \in 0 .. Len(log) /\ ClusterTypes
      /\ inventory \in [Objects -> 0 .. Len(log)] /\ seen \subseteq Event /\ seen \subseteq Known
  BY DEF TypeInv, ClusterTypes, WatchTypes, HubTypes, Known, Event
<1>4. ASSUME NEW e \in Event, Travels(e)
      PROVE  e \in seen
  <2>1. DOMAIN queueFile = {}
    BY <1>1
  <2>2. e # NoEvent
    BY DEF Event, NoEvent
  <2>. QED BY <1>1, <1>4, <2>1, <2>2, InNone DEF Travels, UnderWay, Waiting, Queued
<1>5. ASSUME NEW o \in Objects
      PROVE  inventory[o] = Live(o)
  <2>. DEFINE L == LastWrite(o)
  <2>1. /\ L \in 0 .. Len(log)
        /\ L # 0 => log[L].obj = o
        /\ \A i \in 1 .. Len(log) : log[i].obj = o => i <= L
        /\ Live(o) = IF L = 0 \/ log[L].type = "DELETED" THEN 0 ELSE L
    BY <1>3, LastWriteIs DEF Live
  <2>. HIDE DEF L
  <2>2. o # 0
    BY DEF Objects
  <2>3. ASSUME L > base
        PROVE  EventAt(L) \in seen /\ EventAt(L).obj = o /\ EventAt(L).rv = L
    <3>1. L \in base + 1 .. stateFile /\ L \in 1 .. Len(log) /\ log[L].obj # 0
      BY <1>1, <1>3, <2>1, <2>2, <2>3
    <3>2. UnderWay(EventAt(L))
      BY <3>1 DEF DeliveryInv, Skipless
    <3>3. EventAt(L) \in Event
      <4>1. EventAt(L) \in Known
        BY <3>1, EventKnown
      <4>. QED BY <1>3, <4>1 DEF Known, Event, ClusterTypes
    <3>4. EventAt(L) \in seen
      BY <1>4, <3>2, <3>3 DEF Travels
    <3>5. EventAt(L).obj = o /\ EventAt(L).rv = L
      BY <2>1, <3>1 DEF EventAt
    <3>. QED BY <3>4, <3>5
  <2>4. CASE inventory[o] = 0 /\ \A e \in seen : e.obj # o
    <3>1. CASE Live(o) # 0
      <4>1. L # 0 /\ log[L].type # "DELETED" /\ log[L].obj = o
        BY <2>1, <3>1
      <4>2. ~(L > base)
        BY <2>3, <2>4
      <4>3. L \in 1 .. Basis
        BY <1>2, <1>3, <2>1, <4>1, <4>2
      <4>4. \A j \in L + 1 .. Len(log) : log[j].obj # log[L].obj
        <5>1. ASSUME NEW j \in L + 1 .. Len(log), log[j].obj = o
              PROVE  FALSE
          <6>1. j \in 1 .. Len(log) /\ ~(j <= L)
            BY <1>3, <2>1
          <6>. QED BY <2>1, <5>1, <6>1
        <5>. QED BY <4>1, <5>1
      <4>5. \E e \in Event : Travels(e) /\ e.obj = log[L].obj /\ e.rv = L
        BY <1>1, <1>2, <1>3, <2>2, <4>1, <4>3, <4>4 DEF Complete
      <4>. QED BY <1>4, <2>4, <4>1, <4>5
    <3>. QED BY <2>4, <3>1
  <2>5. CASE \E e \in seen : /\ e.obj = o /\ inventory[o] = Content(e)
                             /\ \A f \in seen : NoLater(f, e)
    <3>1. PICK e \in seen : /\ e.obj = o /\ inventory[o] = Content(e)
                            /\ \A f \in seen : NoLater(f, e)
      BY <2>5
    <3>2. /\ e.rv \in 1 .. Len(log) /\ e \in Event
          /\ log[e.rv].obj = o
          /\ e.type = "DELETED" <=> log[e.rv].type = "DELETED"
          /\ \A k \in e.rv + 1 .. base : log[k].obj # o
      <4>1. e \in Known /\ e \in Event /\ Travels(e)
        BY <1>3 DEF Travels, UnderWay
      <4>2. Genuine(e) /\ Settled(e)
        BY <1>2, <4>1 DEF Faithful
      <4>. QED BY <1>2, <3>1, <4>1, <4>2 DEF Known, Genuine, Settled
    <3>3. e.rv <= L /\ L # 0
      BY <1>3, <2>1, <3>2
    <3>4. e.rv = L
      <4>1. CASE L > base
        <5>1. L <= e.rv
          BY <2>3, <3>1, <4>1 DEF NoLater
        <5>. QED BY <2>1, <3>2, <3>3, <5>1
      <4>2. CASE ~(L > base)
        <5>1. CASE e.rv < L
          <6>1. L \in e.rv + 1 .. base
            BY <1>3, <2>1, <3>2, <4>2, <5>1
          <6>. QED BY <2>1, <3>2, <3>3, <6>1
        <5>. QED BY <2>1, <3>2, <3>3, <5>1
      <4>. QED BY <4>1, <4>2
    <3>. QED BY <2>1, <3>1, <3>2, <3>3, <3>4 DEF Content
  <2>. QED BY <1>2, <2>4, <2>5 DEF Shown, Shows
<1>. QED BY <1>3, <1>5 DEF LiveState

-----------------------------------------------------------------------------
(***************************************************************************)
(* The theorems                                                            *)
(***************************************************************************)
\* What holds under which faults.
AgentLine ==
    part = "agent" =>
        /\ TypeInv
        /\ Keeps => DeliveryInv
        /\ Gentle => OrderInv
        /\ Mild => MirrorInv

\* Each set of faults is within the next.
LEMMA FaultsNest == (Mild => Gentle) /\ (Gentle => Keeps)
BY DEF Mild, Gentle, Keeps

\* The agent's part is one of the composition's two.
LEMMA LineFacts ==
    /\ MCInit => AgentLine
    /\ AgentLine /\ [MCNext]_<<vars, part>> => AgentLine'
<1>1. ASSUME MCInit PROVE AgentLine
  BY <1>1, InitTypes, InitDelivers, InitOrder, InitMirrors DEF MCInit, AgentLine
<1>2. ASSUME AgentLine, [MCNext]_<<vars, part>>, part' = "agent"
      PROVE  AgentLine'
  <2>1. part = "agent" /\ [Next]_vars
    BY <1>2 DEF MCNext
  <2>2. TypeInv /\ (Keeps => DeliveryInv) /\ (Gentle => OrderInv) /\ (Mild => MirrorInv)
    BY <1>2, <2>1 DEF AgentLine
  <2>3. TypeInv'
    BY <2>1, <2>2, StepTypes
  <2>4. Keeps => DeliveryInv'
    BY <2>1, <2>2, StepDelivers
  <2>5. Gentle => OrderInv'
    BY <2>1, <2>2, FaultsNest, StepOrder
  <2>6. Mild => MirrorInv'
    BY <2>1, <2>2, FaultsNest, StepMirrors
  <2>. QED BY <2>3, <2>4, <2>5, <2>6 DEF AgentLine, Keeps, Gentle, Mild
<1>3. part' # "agent" => AgentLine'
  BY DEF AgentLine
<1>. QED BY <1>1, <1>2, <1>3

\* The inductive invariant, each part under the faults that it stands.
THEOREM AgentInvariance == MCSpec => []AgentLine
BY LineFacts, PTL DEF MCSpec

(***************************************************************************)
(* Channel, batches and files keep their types and bounds, whatever the    *)
(* faults, and no change up to the resourceVersion on disk is lost as long *)
(* as the agent's process and its disk are there: posts may be lost or cut *)
(* short, listings and streams may break, the API server may forget.       *)
(***************************************************************************)
THEOREM ChangesAreKept ==
    MCSpec => [](part = "agent" => TypeOK /\ (Keeps => NothingSkipped))
<1>1. AgentLine => (part = "agent" => TypeOK /\ (Keeps => NothingSkipped))
  BY TypeSuffices, DeliverySuffices DEF AgentLine
<1>. QED BY <1>1, AgentInvariance, PTL

(***************************************************************************)
(* Whatever the sizes and the writes: with lost posts and broken streams a *)
(* caught-up agent leaves an exact inventory, unless its listing ended     *)
(* behind one of its own items.                                            *)
(***************************************************************************)
THEOREM AgentHolds ==
    ASSUME Faults \subseteq {"lost", "stream"}, ~Collects
    PROVE  MCSpec => []AgentInv
<1>1. AgentLine => AgentInv
  <2>1. Mild /\ Gentle /\ Keeps
    BY DEF Mild, Gentle, Keeps
  <2>. QED BY <2>1, TypeSuffices, DeliverySuffices, MirrorSuffices DEF AgentLine, AgentInv
<1>. QED BY <1>1, AgentInvariance, PTL

\* The changes of an object are recorded oldest first, also when the hub
\* fails between two statements.
THEOREM RecordsKeepOrder ==
    ASSUME Faults \subseteq {"lost", "cut", "stream"}
    PROVE  MCSpec => RecordedInOrder
<1>1. ASSUME AgentLine, [MCNext]_<<vars, part>>
      PROVE  [part = "agent" => RecordsInOrder]_vars
  <2>1. Gentle /\ Keeps
    BY DEF Gentle, Keeps
  <2>2. CASE part = "agent"
    <3>1. TypeInv /\ DeliveryInv /\ OrderInv /\ [Next]_vars
      BY <1>1, <2>1, <2>2 DEF AgentLine, MCNext
    <3>. QED BY <2>1, <3>1, StepRecords
  <2>. QED BY <2>2
<1>2. AgentLine /\ [MCNext]_<<vars, part>> => [part = "agent" => RecordsInOrder]_vars
  BY <1>1
<1>. QED BY <1>2, AgentInvariance, PTL DEF MCSpec, RecordedInOrder

=============================================================================
