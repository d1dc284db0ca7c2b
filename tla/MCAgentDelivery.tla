-------------------------- MODULE MCAgentDelivery --------------------------
(***************************************************************************)
(* AgentDelivery for TLC, in two instances that part tells apart: an agent *)
(* alone, with lost posts and broken streams, and every fault next to      *)
(* periodic full collections.                                              *)
(***************************************************************************)
EXTENDS AgentDelivery

VARIABLE part

\* One object, every fault the agent can meet, and periodic full collections.
Harsh ==
    INSTANCE AgentDelivery WITH
        NumObjects <- 1, MaxWrites <- 3, QueueSize <- 1, MaxBatchSize <- 1,
        Faults <- FaultKinds, MaxFaults <- 2, Collects <- TRUE

MCInit ==
    \/ part = "agent" /\ Init
    \/ part = "faults" /\ Harsh!Init

MCNext ==
    \/ part = "agent" /\ Next /\ UNCHANGED part
    \/ part = "faults" /\ Harsh!Next /\ UNCHANGED part

(***************************************************************************)
(* The goroutines of a running agent and of the hub go on, a pod that is   *)
(* gone is started again, and collections recur.  Nothing makes the        *)
(* cluster write or a fault happen.                                        *)
(***************************************************************************)
Fairness ==
    /\ WF_vars(part = "agent" /\ Watching)
    /\ WF_vars(part = "agent" /\ Flushing)
    /\ WF_vars(part = "agent" /\ Ingesting)
    /\ WF_vars(part = "faults" /\ Harsh!Watching)
    /\ WF_vars(part = "faults" /\ Harsh!Flushing)
    /\ WF_vars(part = "faults" /\ Harsh!Ingesting)
    /\ WF_vars(part = "faults" /\ Harsh!Collecting)
    /\ WF_vars(part = "faults" /\ Harsh!Restart)

MCSpec == MCInit /\ [][MCNext]_<<vars, part>> /\ Fairness

-----------------------------------------------------------------------------
(***************************************************************************)
(* Under lost posts and broken streams channel, batches and files keep     *)
(* their types and bounds; every change up to the resourceVersion on disk  *)
(* is recorded or on its way (runner.go, watch and flush); and a caught-up *)
(* agent leaves an exact inventory unless a listing was skewed.            *)
(***************************************************************************)
AgentInv == part = "agent" => TypeOK /\ NothingSkipped /\ MirroredUnlessSkewed

\* Changes of an object are recorded oldest first.
RecordedInOrder == [][part = "agent" => RecordsInOrder]_vars

\* Once the cluster rests, the agent brings the inventory up to date for good,
\* unless a listing was skewed.
AgentDelivers == <>[](part = "agent" => skewed \/ inventory = LiveState)

\* Once the cluster rests, periodic collections repair for good what any of
\* the faults left in the inventory.
CollectionRepairs == <>[](part = "faults" => inventory = Harsh!LiveState)
=============================================================================
