---------------------------- MODULE TerminalGrant ----------------------------
(***************************************************************************)
(* What an exec session promises: access to a pod is asked for, refused or *)
(* granted, and a grant is used once.                                      *)
(***************************************************************************)
CONSTANT Sessions

VARIABLES
    phase,  \* how far each session has come
    used    \* whether a shell or a command was connected under it

vars == <<phase, used>>

Init ==
    /\ phase = [s \in Sessions |-> "none"]
    /\ used = [s \in Sessions |-> FALSE]

Steps == {<<"none", "asked">>, <<"none", "granted">>, <<"none", "refused">>,
          <<"asked", "granted">>, <<"asked", "refused">>, <<"granted", "over">>,
          <<"using", "over">>}

Advance(s) ==
    /\ \E step \in Steps :
          phase[s] = step[1] /\ phase' = [phase EXCEPT ![s] = step[2]]
    /\ UNCHANGED used

Use(s) ==
    /\ phase[s] = "granted"
    /\ ~used[s]
    /\ phase' = [phase EXCEPT ![s] = "using"]
    /\ used' = [used EXCEPT ![s] = TRUE]

Next == \E s \in Sessions : Advance(s) \/ Use(s)

Spec == Init /\ [][Next]_vars
=============================================================================
