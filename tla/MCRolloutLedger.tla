-------------------------- MODULE MCRolloutLedger --------------------------
(***************************************************************************)
(* RolloutLedger for TLC: replicas, HTTP requests, rollouts and targets    *)
(* are interchangeable.                                                    *)
(***************************************************************************)
EXTENDS RolloutLedger, TLC

Symmetry == Permutations(Workers) \cup Permutations(Handlers)
            \cup Permutations(Rollouts) \cup Permutations(Uids)
=============================================================================
