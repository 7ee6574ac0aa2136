-------------------------------- MODULE Hive --------------------------------
(***************************************************************************)
(* The hive protocol (pkg/hive/hive.go).  BroadcastPeers splits the list  *)
(* of peers it is given into messages of at most maxBatchSize peers and   *)
(* sends them one after another with sendPeers; the first failed send     *)
(* ends the broadcast.  sendPeers looks each peer up in the address book *)
(* and writes the records it finds as one Peers message; peersHandler on  *)
(* the addressee parses each record with ifi.ParseAddress, stores it in   *)
(* its own address book and hands the overlays to Kademlia's AddPeers.    *)
(*                                                                         *)
(* An address book is a function from overlays to the ifi records stored *)
(* for them.  A Get may fail with an error other than ErrNotFound (the    *)
(* overlays in getFailing) and a Put may fail (putFailing): the state     *)
(* store behind the book is not in the repository.  The stream carries a *)
(* written message intact, so one broadcast is a function of its inputs. *)
(***************************************************************************)
EXTENDS Naturals, Sequences, IfiAddress

CONSTANT MaxBatchSize   \* maxBatchSize (30 in the program)

ASSUME MaxBatchSize \in Nat \ {0}

(***************************************************************************)
(* The loop of BroadcastPeers: max is lowered to the length of what is    *)
(* left when that is shorter, peers[:max] is sent and peers becomes       *)
(* peers[max:].  The result is the sequence of batches sent when every    *)
(* sendPeers succeeds.                                                    *)
(***************************************************************************)
\* mutant: the rest of the list starts one peer too far
RECURSIVE BatchesSkipping(_, _)
BatchesSkipping(peers, max) ==
    IF Len(peers) = 0 THEN <<>>
    ELSE LET m == IF max > Len(peers) THEN Len(peers) ELSE max
         IN  <<SubSeq(peers, 1, m)>> \o BatchesSkipping(SubSeq(peers, m + 2, Len(peers)), m)

RECURSIVE Batches(_, _)
Batches(peers, max) ==
    IF Len(peers) = 0 THEN <<>>
    ELSE LET m == IF max > Len(peers) THEN Len(peers) ELSE max
         IN  <<SubSeq(peers, 1, m)>> \o Batches(SubSeq(peers, m + 1, Len(peers)), m)

BroadcastBatches(peers) == Batches(peers, MaxBatchSize)

\* mutant: a peer missing from the address book fails the send
RECURSIVE CollectPeersStopOnMissing(_, _, _, _)
CollectPeersStopOnMissing(book, getFailing, batch, msg) ==
    IF batch = <<>> THEN [ok |-> TRUE, msg |-> msg]
    ELSE LET p == Head(batch)
         IN  IF p \in getFailing \/ p \notin DOMAIN book THEN [ok |-> FALSE, msg |-> msg]
             ELSE CollectPeersStopOnMissing(book, getFailing, Tail(batch), Append(msg, book[p]))

(***************************************************************************)
(* sendPeers' loop over the batch: a peer the book does not have is       *)
(* skipped (ErrNotFound: continue), any other Get error fails the send,   *)
(* and each record found is appended to the Peers message.                *)
(***************************************************************************)
RECURSIVE CollectPeers(_, _, _, _)
CollectPeers(book, getFailing, batch, msg) ==
    IF batch = <<>> THEN [ok |-> TRUE, msg |-> msg]
    ELSE LET p == Head(batch)
         IN  IF p \in getFailing THEN [ok |-> FALSE, msg |-> msg]
             ELSE IF p \notin DOMAIN book THEN CollectPeers(book, getFailing, Tail(batch), msg)
             ELSE CollectPeers(book, getFailing, Tail(batch), Append(msg, book[p]))

\* sendPeers: the message, or ok = FALSE when it is not written
SendPeers(book, getFailing, batch) == CollectPeers(book, getFailing, batch, <<>>)

(***************************************************************************)
(* peersHandler's loop over the received records: a record ParseAddress *)
(* rejects, or whose Put fails, is skipped; the others are stored and     *)
(* their overlays collected, in order, for the AddPeers handler.          *)
(***************************************************************************)
PeersHandler(msg, networkID, putFailing) ==
    LET parsed(r) == ParseAddress(r.underlay, r.overlay, r.signature, networkID)
        keep(r)   == parsed(r) # Invalid /\ r.overlay \notin putFailing
        kept      == SelectSeq(msg, keep)
    IN  [added |-> [k \in 1 .. Len(kept) |-> kept[k].overlay],
         stored |-> [k \in 1 .. Len(kept) |-> parsed(kept[k])]]

(***************************************************************************)
(* BroadcastPeers from a node with address book `book' to a node on      *)
(* network `networkID': the batches are sent in turn, each handled by    *)
(* the addressee, until one send fails.  The result is what the           *)
(* addressee passed to AddPeers and stored, in order, and whether         *)
(* BroadcastPeers returned an error.                                      *)
(***************************************************************************)
RECURSIVE SendBatches(_, _, _, _, _, _)
SendBatches(batches, book, getFailing, networkID, putFailing, acc) ==
    IF batches = <<>> THEN [acc EXCEPT !.err = FALSE]
    ELSE LET sent == SendPeers(book, getFailing, Head(batches))
             got  == PeersHandler(sent.msg, networkID, putFailing)
         IN  IF ~sent.ok THEN [acc EXCEPT !.err = TRUE]
             ELSE SendBatches(Tail(batches), book, getFailing, networkID, putFailing,
                          [acc EXCEPT !.added = @ \o got.added, !.stored = @ \o got.stored])

BroadcastPeers(peers, book, getFailing, networkID, putFailing) ==
    SendBatches(BroadcastBatches(peers), book, getFailing, networkID, putFailing,
            [added |-> <<>>, stored |-> <<>>, err |-> FALSE])

=============================================================================
