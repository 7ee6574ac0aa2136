---------------------------- MODULE FeedsPutter ----------------------------
(***************************************************************************)
(* The feed update putter (pkg/feeds/putter.go).  NewPutter makes a feed  *)
(* of (topic, the signer's owner address); Put stores the update of index *)
(* i as a single-owner chunk whose id is the update's id and which wraps  *)
(* a content-addressed chunk of the 8-byte big-endian timestamp followed *)
(* by the payload.                                                        *)
(*                                                                         *)
(* The feeds index types, cac, soc and crypto are not in the repository.  *)
(* Hashes are modelled as injective: the update id of (topic, index) is   *)
(* the pair, a SOC's address is the pair (id, owner).  A CAC holds at     *)
(* most ChunkSize bytes (cac.New refuses more, spec 4.B).  Signing and    *)
(* the store's Put may fail; the local store is a set of stored chunks.   *)
(* Bytes are naturals below 256 and the timestamp keeps its 64-bit width: *)
(* uint64(at) of a negative at is its two's complement.                  *)
(***************************************************************************)
EXTENDS Integers, Sequences

CONSTANT ChunkSize   \* infinity.ChunkSize (4096 in the program)

\* the w big-endian base-256 digits of a natural n < 256^w
RECURSIVE Digits(_, _)
Digits(n, w) == IF w = 0 THEN <<>> ELSE Digits(n \div 256, w - 1) \o <<n % 256>>

\* mutant: the timestamp written little-endian
PutUint64LittleEndian(at) ==
    LET be == IF at >= 0 THEN Digits(at, 8) ELSE [k \in 1 .. 8 |-> 255 - Digits(-at - 1, 8)[k]]
    IN  [k \in 1 .. 8 |-> be[9 - k]]

\* binary.BigEndian.PutUint64(ts, uint64(at)): a negative at is written as
\* 2^64 + at, whose bytes are those of -at-1 complemented
PutUint64(at) ==
    IF at >= 0 THEN Digits(at, 8) ELSE [k \in 1 .. 8 |-> 255 - Digits(-at - 1, 8)[k]]

\* toChunk: cac.New(ts || payload)
toChunk(at, payload) ==
    LET data == PutUint64(at) \o payload
    IN  IF Len(data) > ChunkSize THEN [err |-> "tooLarge"]
        ELSE [err |-> "nil", cac |-> [address |-> <<"cac", data>>, data |-> data]]

\* NewPutter: the signer's owner address, or its error
NewPutter(ownerOk, owner, topic) ==
    IF ~ownerOk THEN [err |-> "signer"] ELSE [err |-> "nil", topic |-> topic, owner |-> owner]

(***************************************************************************)
(* Put(ctx, i, at, payload): the update id, toChunk, soc.New and Sign,   *)
(* then the store's Put with ModePutUpload; the first error is returned  *)
(* and only the last step changes the store.                              *)
(***************************************************************************)
Put(putter, store, i, at, payload, signOk, putOk) ==
    LET id == <<putter.topic, i>>
        c  == toChunk(at, payload)
    IN  IF c.err # "nil" THEN [err |-> c.err, store |-> store]
        ELSE IF ~signOk THEN [err |-> "sign", store |-> store]
        ELSE IF ~putOk THEN [err |-> "put", store |-> store]
        ELSE [err |-> "nil",
              store |-> store \cup {[address |-> <<id, putter.owner>>, id |-> id,
                                     owner |-> putter.owner, wrapped |-> c.cac]}]

=============================================================================
