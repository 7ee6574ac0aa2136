-------------------------------- MODULE Pipe --------------------------------
(***************************************************************************)
(* What an in-process pipe promises its writer and its reader (the        *)
(* io.ReadWriteCloser contract NewChunkPipe returns): the reader receives *)
(* a prefix of the bytes the writer handed over, in order and once each, *)
(* and a successful Close of an open pipe delivers all of them.  Once the *)
(* reader has gone the pipe is broken: the writer may still hand bytes    *)
(* over, but nothing more is delivered.                                   *)
(***************************************************************************)
EXTENDS Sequences
LOCAL INSTANCE SequencesExt

VARIABLES
    accepted,    \* the bytes handed to the pipe by the writer, in order
    delivered,   \* the bytes the reader has received, in order
    state        \* "open", "broken" (the reader has closed) or "closed"

\* the writer hands over more bytes; any further prefix may reach the reader
Put ==
    /\ state = "open"
    /\ IsPrefix(accepted, accepted')
    /\ IsPrefix(delivered, delivered') /\ IsPrefix(delivered', accepted')
    /\ UNCHANGED state

\* after the reader has gone, bytes can be handed over but are not delivered
PutBroken ==
    /\ state = "broken"
    /\ IsPrefix(accepted, accepted')
    /\ UNCHANGED <<delivered, state>>

\* the reader closes its end
Break ==
    /\ state = "open"
    /\ state' = "broken"
    /\ UNCHANGED <<accepted, delivered>>

\* the writer closes: everything handed over reaches the reader
Close ==
    /\ state = "open"
    /\ delivered' = accepted
    /\ state' = "closed"
    /\ UNCHANGED accepted

\* the writer closes a broken pipe
CloseBroken ==
    /\ state = "broken"
    /\ state' = "closed"
    /\ UNCHANGED <<accepted, delivered>>

Init == accepted = <<>> /\ delivered = <<>> /\ state = "open"

Next == Put \/ PutBroken \/ Break \/ Close \/ CloseBroken

Spec == Init /\ [][Next]_<<accepted, delivered, state>>

=============================================================================
