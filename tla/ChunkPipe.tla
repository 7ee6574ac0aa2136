------------------------------ MODULE ChunkPipe ------------------------------
(***************************************************************************)
(* ChunkPipe (pkg/file/buffer.go): a writer side that re-chunks whatever  *)
(* it is given into writes of exactly ChunkSize bytes on an io.Pipe,      *)
(* keeping the remainder in a buffer of 2 * ChunkSize bytes, and writes   *)
(* the last, shorter piece on Close.  The pipe's reader is the            *)
(* environment: a write on an io.Pipe returns once the reader has taken   *)
(* it, and fails with ErrClosedPipe once the reader has closed its end.   *)
(* A byte is the natural giving its position in everything written, so a *)
(* lost, repeated or reordered byte shows in the sequences.               *)
(***************************************************************************)
EXTENDS Naturals, Sequences
LOCAL INSTANCE SequencesExt

CONSTANTS
    ChunkSize,    \* infinity.ChunkSize (4096 in the program)
    WriteSizes,   \* lengths of the slices Write is called with
    MaxBytes      \* bound: bytes written in all

ASSUME /\ ChunkSize \in Nat \ {0}
       /\ WriteSizes \subseteq Nat \ {0}
       /\ MaxBytes \in Nat

MaxBufferSize == 2 * ChunkSize

VARIABLES
    buf,            \* c.data[:c.cursor]
    out,            \* the writes the reader took from the io.Pipe, in order
    readerClosed,   \* the reader has closed its end of the io.Pipe
    pc,             \* "idle", "write" (inside Write) or "closed"
    b,              \* Write's argument
    nw,             \* Write's count of bytes taken from b
    acked,          \* history: the bytes Write calls returned as written
    sent            \* bytes passed to Write so far

vars == <<buf, out, readerClosed, pc, b, nw, acked, sent>>

cursor == Len(buf)

Min2(x, y) == IF x < y THEN x ELSE y

\* NewChunkPipe
Init ==
    /\ buf = <<>> /\ out = <<>> /\ readerClosed = FALSE
    /\ pc = "idle" /\ b = <<>> /\ nw = 0
    /\ acked = <<>> /\ sent = 0

\* Write(b) is called with the next n bytes of the stream
StartWrite(n) ==
    /\ pc = "idle"
    /\ sent + n <= MaxBytes
    /\ b' = [i \in 1 .. n |-> sent + i]
    /\ sent' = sent + n
    /\ nw' = 0
    /\ pc' = "write"
    /\ UNCHANGED <<buf, out, readerClosed, acked>>

\* mutant: the copy is not bounded by the buffer's free room (an append)
CopiedUnbounded == buf \o SubSeq(b, nw + 1, Len(b))

\* copy(c.data[c.cursor:], b[nw:]): the buffer's free room bounds the copy
Copied == buf \o SubSeq(b, nw + 1, nw + Min2(MaxBufferSize - cursor, Len(b) - nw))

\* one pass of the loop that leaves less than a chunk in the buffer
WriteCopy ==
    /\ pc = "write" /\ nw < Len(b)
    /\ Len(Copied) < ChunkSize
    /\ nw' = nw + (Len(Copied) - cursor)
    /\ buf' = Copied
    /\ UNCHANGED <<out, readerClosed, pc, b, acked, sent>>

(***************************************************************************)
(* One pass of the loop that fills a chunk: c.data[:ChunkSize] is written *)
(* to the pipe, the cursor drops by ChunkSize and the rest of the buffer  *)
(* is moved to its start.                                                 *)
(***************************************************************************)
\* mutant: the cursor drops but the rest of the buffer is not moved
FlushUnshifted(full) == SubSeq(full, 1, Len(full) - ChunkSize)

\* mutant: the whole buffer, not one chunk, is written
WrittenWhole(full) == full

Written(full) == SubSeq(full, 1, ChunkSize)

Flush(full) == SubSeq(full, ChunkSize + 1, Len(full))

WriteFlush ==
    /\ pc = "write" /\ nw < Len(b)
    /\ Len(Copied) >= ChunkSize
    /\ ~readerClosed
    /\ nw' = nw + (Len(Copied) - cursor)
    /\ out' = Append(out, Written(Copied))
    /\ buf' = Flush(Copied)
    /\ UNCHANGED <<readerClosed, pc, b, acked, sent>>

\* the pipe write fails: Write returns nw, counting the bytes just buffered
WriteFlushFails ==
    /\ pc = "write" /\ nw < Len(b)
    /\ Len(Copied) >= ChunkSize
    /\ readerClosed
    /\ buf' = Copied
    /\ acked' = acked \o SubSeq(b, 1, nw + (Len(Copied) - cursor))
    /\ pc' = "idle" /\ b' = <<>> /\ nw' = 0
    /\ UNCHANGED <<out, readerClosed, sent>>

\* the loop ends: Write returns len(b), nil
WriteReturn ==
    /\ pc = "write" /\ nw >= Len(b)
    /\ acked' = acked \o b
    /\ pc' = "idle" /\ b' = <<>> /\ nw' = 0
    /\ UNCHANGED <<buf, out, readerClosed, sent>>

(***************************************************************************)
(* Close: a non-empty buffer is written first, and an error from that    *)
(* write is returned without closing the pipe; then the writer end is     *)
(* closed.  The caller is done with the pipe either way.                  *)
(***************************************************************************)
Close ==
    /\ pc = "idle"
    /\ \/ cursor > 0 /\ ~readerClosed /\ out' = Append(out, buf) /\ buf' = <<>>
       \/ cursor > 0 /\ readerClosed /\ UNCHANGED <<out, buf>>
       \/ cursor = 0 /\ UNCHANGED <<out, buf>>
    /\ pc' = "closed"
    /\ UNCHANGED <<readerClosed, b, nw, acked, sent>>

\* the reader closes its end of the io.Pipe
ReaderClose ==
    /\ ~readerClosed
    /\ readerClosed' = TRUE
    /\ UNCHANGED <<buf, out, pc, b, nw, acked, sent>>

Next ==
    \/ \E n \in WriteSizes : StartWrite(n)
    \/ WriteCopy \/ WriteFlush \/ WriteFlushFails \/ WriteReturn
    \/ Close \/ ReaderClose

Spec == Init /\ [][Next]_vars

-----------------------------------------------------------------------------
(* Every variable stays in its domain; in particular the buffered bytes  *)
(* never exceed the 2 * ChunkSize bytes of c.data.                       *)
TypeOK ==
    /\ buf \in Seq(1 .. MaxBytes) /\ Len(buf) <= MaxBufferSize
    /\ out \in Seq(Seq(1 .. MaxBytes))
    /\ readerClosed \in BOOLEAN
    /\ pc \in {"idle", "write", "closed"}
    /\ nw \in 0 .. Len(b)
    /\ sent \in 0 .. MaxBytes

(* "ChunkPipe ensures that only the last read is smaller than the chunk  *)
(* size, regardless of size of individual writes": every write the       *)
(* reader takes has ChunkSize bytes, except the one Close makes.         *)
OnlyLastReadShort ==
    \A i \in 1 .. Len(out) :
        /\ Len(out[i]) <= ChunkSize
        /\ (i < Len(out) \/ pc # "closed") => Len(out[i]) = ChunkSize

(* ChunkPipe is a pipe: the reader gets the bytes Write took, in order,  *)
(* once each, and Close delivers all of them unless the reader has gone. *)
(* Bytes of a Write still in progress count as handed over once copied.  *)
AbsPipe == INSTANCE Pipe WITH
    accepted  <- acked \o SubSeq(b, 1, nw),
    delivered <- FlattenSeq(out),
    state     <- IF pc = "closed" THEN "closed"
                 ELSE IF readerClosed THEN "broken" ELSE "open"

ImplementsPipe == AbsPipe!Spec

=============================================================================
