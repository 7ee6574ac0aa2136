------------------------------- MODULE PssPump -------------------------------
(***************************************************************************)
(* The pss websocket pump of pkg/api (pumpWs) and server.Close.  pumpWs    *)
(* registers a pss handler that hands each message to the pump over the   *)
(* unbuffered channel dataC, then loops on a select over dataC, s.quit,   *)
(* gone and the ping ticker; when it returns, its deferred calls run in   *)
(* reverse order: cleanup() unregisters the handler, then the ticker and  *)
(* the connection are closed and wsWg.Done lets Close's wait end.         *)
(*                                                                         *)
(* pss runs each delivery of a registered handler on its own goroutine    *)
(* (a member of Deliveries), which blocks in `dataC <- m' until the pump  *)
(* receives.  `gone' is closed by the connection's close handler, which   *)
(* the websocket library calls only from its read methods; pumpWs never   *)
(* reads, so that case never fires and a client that leaves is noticed   *)
(* when a write or a ping fails.                                          *)
(***************************************************************************)
EXTENDS Naturals

CONSTANT Deliveries   \* bound: pss deliveries to this topic's handler

VARIABLES
    pump,        \* "loop", "write" (a message received), "exited", "done"
    registered,  \* the handler is registered with pss
    handler,     \* per delivery: "idle", "sending" (blocked on dataC), "returned"
    quit         \* s.quit has been closed by server.Close

vars == <<pump, registered, handler, quit>>

\* pumpWs after Register and before its loop
Init ==
    /\ pump = "loop"
    /\ registered = TRUE
    /\ handler = [d \in Deliveries |-> "idle"]
    /\ quit = FALSE

\* pss calls the registered handler, which sends on dataC
Deliver(d) ==
    /\ registered /\ handler[d] = "idle"
    /\ handler' = [handler EXCEPT ![d] = "sending"]
    /\ UNCHANGED <<pump, registered, quit>>

\* case b := <-dataC
PumpReceive(d) ==
    /\ pump = "loop" /\ handler[d] = "sending"
    /\ handler' = [handler EXCEPT ![d] = "returned"]
    /\ pump' = "write"
    /\ UNCHANGED <<registered, quit>>

\* SetWriteDeadline and WriteMessage of the message; an error returns
PumpWrite ==
    /\ pump = "write"
    /\ pump' \in {"loop", "exited"}
    /\ UNCHANGED <<registered, handler, quit>>

\* case <-s.quit: the close message is written and pumpWs returns
\* mutant: the return after the close message is missing
PumpQuitNoReturn ==
    /\ pump = "loop" /\ quit
    /\ pump' = "loop"
    /\ UNCHANGED <<registered, handler, quit>>

PumpQuit ==
    /\ pump = "loop" /\ quit
    /\ pump' = "exited"
    /\ UNCHANGED <<registered, handler, quit>>

\* case <-ticker.C: a ping that fails returns (a ping that succeeds
\* changes nothing)
PumpPingFails ==
    /\ pump = "loop"
    /\ pump' = "exited"
    /\ UNCHANGED <<registered, handler, quit>>

\* the deferred calls: cleanup(), ticker.Stop and conn.Close, wsWg.Done
PumpCleanup ==
    /\ pump = "exited"
    /\ registered' = FALSE
    /\ pump' = "done"
    /\ UNCHANGED <<handler, quit>>

\* server.Close: close(s.quit), then wait for wsWg
Close ==
    /\ ~quit
    /\ quit' = TRUE
    /\ UNCHANGED <<pump, registered, handler>>

PumpSteps == PumpWrite \/ PumpQuit \/ PumpCleanup \/ \E d \in Deliveries : PumpReceive(d)

Next ==
    \/ PumpSteps \/ PumpPingFails \/ Close
    \/ \E d \in Deliveries : Deliver(d)

(***************************************************************************)
(* The pump goroutine keeps running while it has a step; Go's select      *)
(* chooses among ready cases at random, so a ready quit is not starved    *)
(* (there are finitely many deliveries).  Pings need not fail, pss need   *)
(* not deliver and Close need not be called: no fairness for those.       *)
(***************************************************************************)
Spec == Init /\ [][Next]_vars /\ WF_vars(PumpSteps)

-----------------------------------------------------------------------------
(* Every variable stays in its domain. *)
TypeOK ==
    /\ pump \in {"loop", "write", "exited", "done"}
    /\ registered \in BOOLEAN
    /\ handler \in [Deliveries -> {"idle", "sending", "returned"}]
    /\ quit \in BOOLEAN

(* Close's wait for the websockets ends: once s.quit is closed, the pump  *)
(* returns and runs its deferred calls, whatever deliveries are pending. *)
QuitEndsPump == quit ~> (pump = "done")

(* Every call of the registered handler returns: each message a delivery *)
(* hands to dataC is eventually taken by the pump.                        *)
DeliveriesReturn == \A d \in Deliveries : (handler[d] = "sending") ~> (handler[d] = "returned")

=============================================================================
