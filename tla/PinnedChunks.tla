---------------------------- MODULE PinnedChunks ----------------------------
(***************************************************************************)
(* localstore's listing of pinned chunks (pkg/localstore/pin.go).  The pin *)
(* index holds one item per pinned chunk, keyed by its address, with its  *)
(* pin counter; shed iterates it in key order.  An address is a natural,  *)
(* so key order is the order of the naturals.  The index is a function    *)
(* from the pinned addresses to their (positive) pin counters.            *)
(***************************************************************************)
EXTENDS Naturals, Integers, Sequences, FiniteSets
LOCAL INSTANCE SequencesExt

CONSTANT MaxPage   \* maxPage, the hard limit of a page (1000 in the program)

ASSUME MaxPage \in Nat \ {0}

\* the items pinIndex.Iterate visits, in key order
IndexItems(pinIndex) ==
    LET keys == SetToSortSeq(DOMAIN pinIndex, <)
    IN  [i \in 1 .. Len(keys) |-> [address |-> keys[i], pinCounter |-> pinIndex[keys[i]]]]

\* mutant: the skipped items are counted against the limit too
RECURSIVE IterateFromSkipCounted(_, _, _, _)
IterateFromSkipCounted(items, offset, limit, chunks) ==
    IF items = <<>> THEN chunks
    ELSE IF offset > 0 THEN IterateFromSkipCounted(Tail(items), offset - 1, limit - 1, chunks)
    ELSE LET next == Append(chunks, Head(items))
         IN  IF limit - 1 = 0 THEN next
             ELSE IterateFromSkipCounted(Tail(items), offset, limit - 1, next)

(***************************************************************************)
(* The Iterate callback of PinnedChunks applied to the remaining items:   *)
(* it first skips `offset' items, then appends each item and decrements   *)
(* limit, stopping when limit reaches 0.  Its arguments are the closure's *)
(* captured offset, limit and chunks.                                     *)
(***************************************************************************)
RECURSIVE IterateFrom(_, _, _, _)
IterateFrom(items, offset, limit, chunks) ==
    IF items = <<>> THEN chunks
    ELSE IF offset > 0 THEN IterateFrom(Tail(items), offset - 1, limit, chunks)
    ELSE LET next == Append(chunks, Head(items))
         IN  IF limit - 1 = 0 THEN next
             ELSE IterateFrom(Tail(items), offset, limit - 1, next)

\* PinnedChunks(ctx, offset, limit): the clamp to maxPage, the empty answer
\* when nothing is pinned, then the iteration
PinnedChunks(pinIndex, offset, limit) ==
    LET lim == IF limit > MaxPage THEN MaxPage ELSE limit
    IN  IF Cardinality(DOMAIN pinIndex) = 0 THEN <<>>
        ELSE IterateFrom(IndexItems(pinIndex), offset, lim, <<>>)

\* PinCounter(address): the item's counter, or storage.ErrNotFound
PinCounter(pinIndex, address, NotFound) ==
    IF address \in DOMAIN pinIndex THEN pinIndex[address] ELSE NotFound

=============================================================================
