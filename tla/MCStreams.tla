------------------------------ MODULE MCStreams ------------------------------
(***************************************************************************)
(* Two of the node's stream goroutines side by side: the pss websocket    *)
(* pump with server.Close (PssPump) and a pingpong exchange (PingPong).   *)
(* They share no state; each step is a step of one of them, and each     *)
(* keeps its own fairness.                                                *)
(***************************************************************************)
EXTENDS PssPump, PingPong

allVars == <<vars, ppVars>>

MCInit == Init /\ PPInit

MCNext ==
    \/ Next /\ UNCHANGED ppVars
    \/ PPNext /\ UNCHANGED vars

MCSpec ==
    /\ MCInit /\ [][MCNext]_allVars
    /\ WF_allVars(PumpSteps /\ UNCHANGED ppVars)
    /\ WF_allVars(PingSteps /\ UNCHANGED vars)
    /\ WF_allVars(HandlerSteps /\ UNCHANGED vars)

=============================================================================
