----------------------------- MODULE Settlements -----------------------------
(***************************************************************************)
(* The settlements endpoints of the debug API (pkg/debugapi/             *)
(* settlements.go).  settlementsHandler merges the per-peer maps of sent *)
(* and received settlements into one row per peer, with totals;          *)
(* peerSettlementsHandler answers for one peer from TotalReceived and    *)
(* TotalSent, where ErrPeerNoSettlements stands for 0.                   *)
(*                                                                         *)
(* The settlement service is not in the repository: its state is the    *)
(* two maps, functions from peers to amounts, and any call may fail with *)
(* an error of its own.  A response is its status code and its content;  *)
(* the rows of the list response come in map order, which Go leaves     *)
(* unspecified, so they are a set.  Amounts are naturals (big.Int).      *)
(***************************************************************************)
EXTENDS Naturals, FiniteSets
LOCAL INSTANCE Functions

\* settlement.Interface's TotalSent / TotalReceived of a peer: the amount,
\* ErrPeerNoSettlements, or another error when the call fails
TotalOf(m, peer, fails) ==
    IF fails THEN [err |-> "other", v |-> 0]
    ELSE IF peer \in DOMAIN m THEN [err |-> "nil", v |-> m[peer]]
    ELSE [err |-> "noSettlements", v |-> 0]

Row(peer, sent, received) == [peer |-> peer, sent |-> sent, received |-> received]

\* mutant: every received entry makes a new row, dropping what was sent
MergeReceivedOverwrite(rows, a, b) ==
    [p \in DOMAIN rows \cup {a} |-> IF p = a THEN Row(a, 0, b) ELSE rows[p]]

\* the second loop's body: an existing row gets the received amount, a
\* peer with no row gets one with nothing sent
MergeReceived(rows, a, b) ==
    [p \in DOMAIN rows \cup {a} |->
        IF p # a THEN rows[p]
        ELSE IF a \in DOMAIN rows THEN [rows[a] EXCEPT !.received = b]
        ELSE Row(a, 0, b)]

RECURSIVE MergeAll(_, _, _)
MergeAll(rows, received, peers) ==
    IF peers = {} THEN rows
    ELSE LET a == CHOOSE q \in peers : TRUE
         IN  MergeAll(MergeReceived(rows, a, received[a]), received, peers \ {a})

\* settlementsHandler: a failed SettlementsSent or SettlementsReceived is a
\* 500; otherwise one row per peer and the two totals
SettlementsHandler(sent, received, sentFails, receivedFails) ==
    IF sentFails \/ receivedFails THEN [status |-> 500]
    ELSE LET rows == MergeAll([a \in DOMAIN sent |-> Row(a, sent[a], 0)],
                              received, DOMAIN received)
         IN  [status |-> 200, rows |-> Range(rows),
              totalSent |-> SumFunction(sent), totalReceived |-> SumFunction(received)]

\* mutant: only a successful TotalSent marks the peer as existing
PeerExistsSentOnly(receivedFound, sentFound) == sentFound

\* peerexists: set by either call that found settlements for the peer
PeerExists(receivedFound, sentFound) == receivedFound \/ sentFound

(***************************************************************************)
(* peerSettlementsHandler for a peer address that parses or not, with the *)
(* results of TotalReceived and TotalSent: an invalid address is a 404,  *)
(* a failing call a 500, ErrPeerNoSettlements reads as 0, and a peer     *)
(* neither call knows is a 404.                                           *)
(***************************************************************************)
PeerSettlementsHandler(peer, valid, rcv, snt) ==
    IF ~valid THEN [status |-> 404]
    ELSE IF rcv.err = "other" THEN [status |-> 500]
    ELSE IF snt.err = "other" THEN [status |-> 500]
    ELSE IF ~PeerExists(rcv.err = "nil", snt.err = "nil") THEN [status |-> 404]
    ELSE [status |-> 200, row |-> Row(peer, snt.v, rcv.v)]

=============================================================================
