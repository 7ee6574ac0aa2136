------------------------------ MODULE PingPong ------------------------------
(***************************************************************************)
(* The pingpong protocol (pkg/pingpong/pingpong.go): Ping opens a stream, *)
(* and for each greeting writes a Ping and reads a Pong; the handler on   *)
(* the other node reads Pings until EOF and answers each with a Pong.     *)
(* Both sides FullClose the stream when they return: the handler in a    *)
(* deferred call, Ping in a goroutine it starts from a deferred call.    *)
(*                                                                         *)
(* The stream is two FIFO queues, one per direction, each with a flag    *)
(* for the writer having closed its side.  A read of an empty queue whose *)
(* writer has closed is io.EOF.  A reset of the stream (the connection   *)
(* lost) makes every later read and write fail; either side's context    *)
(* may end, failing that side's pending read or write.  FullClose, of the *)
(* p2p package not in the repository, is modelled by its effect on the   *)
(* other side: this side's writes are closed.  The greetings are the     *)
(* one-character strings <<1>>, <<2>>, ... in the order of msgs.         *)
(***************************************************************************)
EXTENDS Naturals, Sequences

CONSTANT Greetings   \* how many msgs Ping is called with

VARIABLES
    c2s, c2sClosed,   \* Pings in flight; Ping's side closed (FullClose)
    s2c, s2cClosed,   \* Pongs in flight; the handler's side closed
    reset,            \* the stream has been reset
    client,           \* Ping: "open", "write", "read", "returned", "done"
    i,                \* the greeting Ping is at
    pongs,            \* the Pongs Ping has read, in order
    result,           \* what Ping returned: "none", "ok" or "err"
    handlerPc,        \* handler: "read", "write", "returned", "done"
    ping              \* the Ping the handler last read

ppVars == <<c2s, c2sClosed, s2c, s2cClosed, reset, client, i, pongs, result, handlerPc, ping>>

\* the handler's answer to a Ping: "{" + greeting + "}"
Respond(g) == <<"{">> \o g \o <<"}">>

PPInit ==
    /\ c2s = <<>> /\ c2sClosed = FALSE /\ s2c = <<>> /\ s2cClosed = FALSE
    /\ reset = FALSE
    /\ client = "open" /\ i = 1 /\ pongs = <<>> /\ result = "none"
    /\ handlerPc = "read" /\ ping = <<>>

\* Ping returns; the deferred goroutine will FullClose the stream
PingReturns(r) == client' = "returned" /\ result' = r

\* NewStream succeeded (a failed NewStream returns before any stream
\* exists, and the handler never runs: not a behaviour of this model)
PingOpen ==
    /\ client = "open"
    /\ client' = "write"
    /\ UNCHANGED <<c2s, c2sClosed, s2c, s2cClosed, reset, i, pongs, result, handlerPc, ping>>

\* the loop over msgs: the next Ping is written, or the loop is over
PingWrite ==
    /\ client = "write"
    /\ \/ i > Greetings /\ PingReturns("ok") /\ UNCHANGED c2s
       \/ i <= Greetings /\ reset /\ PingReturns("err") /\ UNCHANGED c2s
       \/ i <= Greetings /\ ~reset /\ c2s' = Append(c2s, <<i>>)
          /\ client' = "read" /\ UNCHANGED result
    /\ UNCHANGED <<c2sClosed, s2c, s2cClosed, reset, i, pongs, handlerPc, ping>>

\* mutant: every failed read is taken for io.EOF
IsEOFAnyError(eof, failed) == eof \/ failed

\* err == io.EOF: the handler's side is closed and nothing is left to read
IsEOF(eof, failed) == eof

\* ReadMsgWithContext of the Pong: a Pong, io.EOF (break) or another error
PingRead ==
    /\ client = "read"
    /\ \/ ~reset /\ s2c # <<>>
          /\ pongs' = Append(pongs, Head(s2c)) /\ s2c' = Tail(s2c)
          /\ i' = i + 1 /\ client' = "write" /\ UNCHANGED result
       \/ LET eof    == ~reset /\ s2c = <<>> /\ s2cClosed
              failed == reset
          IN  /\ eof \/ failed
              /\ PingReturns(IF IsEOF(eof, failed) THEN "ok" ELSE "err")
              /\ UNCHANGED <<pongs, s2c, i>>
    /\ UNCHANGED <<c2s, c2sClosed, s2cClosed, reset, handlerPc, ping>>

\* Ping's context ends: its pending write or read fails
PingCancelled ==
    /\ client = "read" \/ (client = "write" /\ i <= Greetings)
    /\ PingReturns("err")
    /\ UNCHANGED <<c2s, c2sClosed, s2c, s2cClosed, reset, i, pongs, handlerPc, ping>>

\* mutant: Ping's deferred call does not close the stream
PingFullCloseMissing ==
    /\ client = "returned"
    /\ client' = "done"
    /\ UNCHANGED <<c2s, c2sClosed, s2c, s2cClosed, reset, i, pongs, result, handlerPc, ping>>

\* the goroutine of Ping's deferred call: go stream.FullClose()
PingFullClose ==
    /\ client = "returned"
    /\ c2sClosed' = TRUE /\ client' = "done"
    /\ UNCHANGED <<c2s, s2c, s2cClosed, reset, i, pongs, result, handlerPc, ping>>

\* the handler's ReadMsgWithContext: a Ping, io.EOF (return nil) or an error
HandlerRead ==
    /\ handlerPc = "read"
    /\ \/ ~reset /\ c2s # <<>>
          /\ ping' = Head(c2s) /\ c2s' = Tail(c2s) /\ handlerPc' = "write"
       \/ (reset \/ (c2s = <<>> /\ c2sClosed)) /\ handlerPc' = "returned"
          /\ UNCHANGED <<c2s, ping>>
    /\ UNCHANGED <<c2sClosed, s2c, s2cClosed, reset, client, i, pongs, result>>

\* the handler's context ends: its pending read or write fails
HandlerCancelled ==
    /\ handlerPc \in {"read", "write"}
    /\ handlerPc' = "returned"
    /\ UNCHANGED <<c2s, c2sClosed, s2c, s2cClosed, reset, client, i, pongs, result, ping>>

\* WriteMsgWithContext of the Pong; an error returns
HandlerWrite ==
    /\ handlerPc = "write"
    /\ \/ ~reset /\ s2c' = Append(s2c, Respond(ping)) /\ handlerPc' = "read"
       \/ reset /\ handlerPc' = "returned" /\ UNCHANGED s2c
    /\ UNCHANGED <<c2s, c2sClosed, s2cClosed, reset, client, i, pongs, result, ping>>

\* the handler's deferred stream.FullClose()
HandlerFullClose ==
    /\ handlerPc = "returned"
    /\ s2cClosed' = TRUE /\ handlerPc' = "done"
    /\ UNCHANGED <<c2s, c2sClosed, s2c, reset, client, i, pongs, result, ping>>

\* the connection is lost: the stream is reset
StreamReset ==
    /\ ~reset
    /\ reset' = TRUE
    /\ UNCHANGED <<c2s, c2sClosed, s2c, s2cClosed, client, i, pongs, result, handlerPc, ping>>

PingSteps == PingOpen \/ PingWrite \/ PingRead \/ PingFullClose
HandlerSteps == HandlerRead \/ HandlerWrite \/ HandlerFullClose

PPNext ==
    \/ PingSteps \/ HandlerSteps
    \/ PingCancelled \/ HandlerCancelled \/ StreamReset

(***************************************************************************)
(* Both goroutines run while they have a step; reads and writes block   *)
(* only until data, EOF or a reset is there.  Cancellations and resets   *)
(* need not happen: no fairness for them.                                *)
(***************************************************************************)
PPFairness == WF_ppVars(PingSteps) /\ WF_ppVars(HandlerSteps)

PPSpec == PPInit /\ [][PPNext]_ppVars /\ PPFairness

-----------------------------------------------------------------------------
(* Ping and the handler both return and both close their sides, whatever *)
(* resets and cancellations happen: neither goroutine is left blocked on  *)
(* the stream.  The handler has no timeout of its own, so it relies on    *)
(* Ping's deferred FullClose to see EOF.                                 *)
PingPongEnd == <>(client = "done" /\ handlerPc = "done")

(* Ping returns nil after fewer Pongs than greetings only when the       *)
(* handler has already ended its side: a reset or a cancellation is an   *)
(* error, and only the handler's FullClose is read as io.EOF.  Every Pong *)
(* Ping read answers its Ping, in order.                                  *)
ShortPingOnlyAfterHandlerEnded ==
    /\ \A k \in 1 .. Len(pongs) : pongs[k] = Respond(<<k>>)
    /\ result = "ok" /\ Len(pongs) < Greetings => handlerPc \in {"returned", "done"}

=============================================================================
