------------------------- MODULE MCRolloutEvidence -------------------------
(***************************************************************************)
(* RolloutEvidence for TLC, with two kinds of trouble that part tells      *)
(* apart: a process that dies while collections run one at a time, and     *)
(* collections that overlap.  Collectors are interchangeable.              *)
(***************************************************************************)
EXTENDS RolloutEvidence, TLC

VARIABLE part

Alone == \A c, d \in Collectors :
            col[c].pc # "idle" /\ col[d].pc # "idle" => c = d

MCInit == Init /\ part \in {"crash", "overlap"}

MCNext ==
    /\ Next
    /\ IF part = "crash" THEN Alone' ELSE crashes' = 0
    /\ UNCHANGED part

MCSpec == MCInit /\ [][MCNext]_<<vars, part>>

Symmetry == Permutations(Collectors)
=============================================================================
