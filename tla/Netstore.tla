------------------------------ MODULE Netstore ------------------------------
(***************************************************************************)
(* netstore.Get (src/unnamed/part_008): the local store first; on         *)
(* ErrNotFound the chunk is retrieved from the network and put into the   *)
(* local store with ModePutRequest; when retrieval fails and the request  *)
(* carries recovery targets and a callback is set, the callback is        *)
(* started on its own goroutine and ErrRecoveryAttempt returned.          *)
(*                                                                         *)
(* The local store is the set of addresses it holds; whether a local read *)
(* or a Put fails with an error of its own, and whether retrieval finds   *)
(* the chunk, are inputs: the storer and retrieval are not in the         *)
(* repository.  A Get returns its result, the store after it and the     *)
(* recovery goroutines it started, in order, as <<address, targets>>      *)
(* pairs.  A retrieval error with no recovery is returned as it is        *)
(* ("retrievalError").                                                    *)
(***************************************************************************)
EXTENDS Sequences

CONSTANT NoTargets   \* sctx.GetTargets of a context without targets (nil)

\* mutant: the retrieved chunk is returned without being stored
NetstoreGetUncached(store, addr, localFails, retrieved, putFails, targets, hasCallback) ==
    IF localFails THEN [res |-> "error", store |-> store, recoveries |-> <<>>]
    ELSE IF addr \in store THEN [res |-> "chunk", store |-> store, recoveries |-> <<>>]
    ELSE IF retrieved THEN [res |-> "chunk", store |-> store, recoveries |-> <<>>]
    ELSE IF targets = NoTargets \/ ~hasCallback
         THEN [res |-> "retrievalError", store |-> store, recoveries |-> <<>>]
    ELSE [res |-> "recoveryAttempt", store |-> store, recoveries |-> <<<<addr, targets>>>>]

NetstoreGet(store, addr, localFails, retrieved, putFails, targets, hasCallback) ==
    IF localFails THEN [res |-> "error", store |-> store, recoveries |-> <<>>]
    ELSE IF addr \in store THEN [res |-> "chunk", store |-> store, recoveries |-> <<>>]
    ELSE IF retrieved
         THEN IF putFails THEN [res |-> "error", store |-> store, recoveries |-> <<>>]
              ELSE [res |-> "chunk", store |-> store \cup {addr}, recoveries |-> <<>>]
    ELSE IF targets = NoTargets \/ ~hasCallback
         THEN [res |-> "retrievalError", store |-> store, recoveries |-> <<>>]
    ELSE [res |-> "recoveryAttempt", store |-> store, recoveries |-> <<<<addr, targets>>>>]

=============================================================================
