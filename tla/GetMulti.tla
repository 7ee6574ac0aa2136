------------------------------ MODULE GetMulti ------------------------------
(***************************************************************************)
(* localstore's GetMulti (pkg/localstore/mode_get_multi.go): the items of *)
(* the requested addresses are filled from the retrieval index, and then, *)
(* by the get mode, the gc index is updated (ModeGetRequest), the pin     *)
(* counters are filled from the pin index (ModeGetPin), nothing more is   *)
(* done (ModeGetSync, ModeGetLookup), or the mode is refused.             *)
(*                                                                         *)
(* shed and leveldb are not in the repository.  shed.Index.Fill fills     *)
(* every item from its key and fails with leveldb.ErrNotFound as soon as  *)
(* a key is missing; the retrieval index is the set of stored addresses,  *)
(* the pin index a function from the pinned addresses to their counters  *)
(* (as in PinnedChunks), and updateGCItems's effect is the set of         *)
(* addresses whose access timestamp it refreshed.  Errors other than     *)
(* ErrNotFound come from the store's I/O and are left out.               *)
(***************************************************************************)
EXTENDS Naturals, Sequences
LOCAL INSTANCE Functions

\* storage.ModeGet values; any other value is refused with ErrInvalidMode
GetModes == {"request", "sync", "lookup", "pin"}

\* shed.Index.Fill succeeds only if every key is in the index
Fill(index, addrs) == Range(addrs) \subseteq index

\* the items getMulti returns: each address, with the pin counter filled
\* from the pin index or left at its zero value
Items(addrs, pinIndex, pinFilled) ==
    [k \in 1 .. Len(addrs) |->
        [address |-> addrs[k],
         pinCounter |-> IF pinFilled THEN pinIndex[addrs[k]] ELSE 0]]

\* mutant: ModeGetPin takes the counters without pinIndex.Fill's check
getMultiUnpinnedFilled(mode, addrs, retrieval, pinIndex, accessed) ==
    IF ~Fill(retrieval, addrs)
    THEN [err |-> "leveldbNotFound", out |-> <<>>, accessed |-> accessed]
    ELSE CASE mode = "request" ->
                [err |-> "nil", out |-> Items(addrs, pinIndex, FALSE),
                 accessed |-> accessed \cup Range(addrs)]
           [] mode = "pin" ->
                [err |-> "nil", accessed |-> accessed,
                 out |-> [k \in 1 .. Len(addrs) |->
                            [address |-> addrs[k],
                             pinCounter |-> IF addrs[k] \in DOMAIN pinIndex
                                            THEN pinIndex[addrs[k]] ELSE 0]]]
           [] mode \in {"sync", "lookup"} ->
                [err |-> "nil", out |-> Items(addrs, pinIndex, FALSE), accessed |-> accessed]
           [] OTHER ->
                [err |-> "invalidMode", out |-> Items(addrs, pinIndex, FALSE), accessed |-> accessed]

(***************************************************************************)
(* getMulti: the result's error, its items, and the addresses whose gc    *)
(* entry is refreshed afterwards.                                          *)
(***************************************************************************)
getMulti(mode, addrs, retrieval, pinIndex, accessed) ==
    IF ~Fill(retrieval, addrs)
    THEN [err |-> "leveldbNotFound", out |-> <<>>, accessed |-> accessed]
    ELSE CASE mode = "request" ->
                [err |-> "nil", out |-> Items(addrs, pinIndex, FALSE),
                 accessed |-> accessed \cup Range(addrs)]
           [] mode = "pin" /\ ~Fill(DOMAIN pinIndex, addrs) ->
                [err |-> "leveldbNotFound", out |-> <<>>, accessed |-> accessed]
           [] mode = "pin" ->
                [err |-> "nil", out |-> Items(addrs, pinIndex, TRUE), accessed |-> accessed]
           [] mode \in {"sync", "lookup"} ->
                [err |-> "nil", out |-> Items(addrs, pinIndex, FALSE), accessed |-> accessed]
           [] OTHER ->
                [err |-> "invalidMode", out |-> Items(addrs, pinIndex, FALSE), accessed |-> accessed]

\* GetMulti: leveldb.ErrNotFound becomes storage.ErrNotFound, any error
\* drops the items, and the items become chunks with their pin counter
GetMulti(mode, addrs, retrieval, pinIndex, accessed) ==
    LET r == getMulti(mode, addrs, retrieval, pinIndex, accessed)
    IN  [err |-> IF r.err = "leveldbNotFound" THEN "notFound" ELSE r.err,
         chunks |-> IF r.err = "nil" THEN r.out ELSE <<>>,
         accessed |-> r.accessed]

=============================================================================
