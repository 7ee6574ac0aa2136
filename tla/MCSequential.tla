----------------------------- MODULE MCSequential -----------------------------
(***************************************************************************)
(* Two single-goroutine components of the node side by side: chequebook   *)
(* Init with crashes and restarts (ChequebookInit) and the ChunkPipe      *)
(* writer with its io.Pipe reader (ChunkPipe).  They share no state: each *)
(* step is a step of one of them, the other's variables unchanged, and    *)
(* each keeps the fairness of its own specification.  Both modules name   *)
(* their program counter pc, so each is instantiated with its own.        *)
(***************************************************************************)
CONSTANTS
    TxIds, DepositEnabled, CanRevert, MaxFailures, None,
    ChunkSize, WriteSizes, MaxBytes

VARIABLES
    deployKey, bookKey, chain, deposits, initPc, tx, book, failures,
    buf, out, readerClosed, pipePc, b, nw, acked, sent

Cheque == INSTANCE ChequebookInit WITH pc <- initPc
Chunks == INSTANCE ChunkPipe WITH pc <- pipePc

chequeVars == <<deployKey, bookKey, chain, deposits, initPc, tx, book, failures>>
pipeVars == <<buf, out, readerClosed, pipePc, b, nw, acked, sent>>
allVars == <<chequeVars, pipeVars>>

MCInit == Cheque!Init /\ Chunks!Init

MCNext ==
    \/ Cheque!Next /\ UNCHANGED pipeVars
    \/ Chunks!Next /\ UNCHANGED chequeVars

MCSpec ==
    /\ MCInit /\ [][MCNext]_allVars
    /\ WF_allVars(Cheque!Progress /\ UNCHANGED pipeVars)
    /\ \A t \in TxIds : WF_allVars(Cheque!Mine(t) /\ UNCHANGED pipeVars)

-----------------------------------------------------------------------------
(* Through crashes and failed starts, the chequebook address Init stores  *)
(* under chequebookKey is one WaitDeployed returned: the chequebook of    *)
(* the stored deployment transaction, deployed and not reverted.          *)
StoredChequebookDeployed == Cheque!StoredChequebookDeployed

(* ChunkPipe's variables stay in their domains; in particular its buffer *)
(* never holds more than the 2 * ChunkSize bytes of c.data.              *)
PipeTypeOK == Chunks!TypeOK

(* "only the last read is smaller than the chunk size": every write the  *)
(* reader takes has ChunkSize bytes except the one ChunkPipe.Close makes. *)
OnlyLastReadShort == Chunks!OnlyLastReadShort

(* ChunkPipe is a pipe: the reader gets the bytes Write took, in order   *)
(* and once each, and Close delivers all of them unless the reader went. *)
ImplementsPipe == Chunks!ImplementsPipe

=============================================================================
