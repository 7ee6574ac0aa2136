------------------------------ MODULE PssSend ------------------------------
(***************************************************************************)
(* The pss send endpoint (pssPostHandler, pkg/api/pss.go): the targets    *)
(* path parameter is split at commas and each field hex-decoded into a    *)
(* target of at most targetMaxLength bytes; the recipient query parameter *)
(* is parsed, or the topic's key is used; then the body is read and       *)
(* pss.Send called.  A response is its status and, for a send, what was   *)
(* passed to pss.Send.                                                    *)
(*                                                                         *)
(* A parameter is a sequence of characters.  hex.DecodeString accepts an  *)
(* even number of hex digits and yields a byte per two of them; a byte is *)
(* the pair of its digits.  pss (NewTopic, ParseRecipient, Send) is not   *)
(* in the repository: a recipient either parses or not, reading the body  *)
(* and Send either fail or not, and the topic's key stands for            *)
(* Secp256k1PrivateKeyFromBytes(topic).PublicKey.                         *)
(***************************************************************************)
EXTENDS Naturals, Sequences
LOCAL INSTANCE SequencesExt

CONSTANTS
    HexDigits,        \* characters hex.DecodeString accepts
    TargetMaxLength   \* targetMaxLength (2 bytes in the program)

\* strings.Split(s, ","): the fields between commas, empty ones included
Split(s) ==
    FoldLeft(LAMBDA fs, ch : IF ch = "," THEN Append(fs, <<>>)
                             ELSE [fs EXCEPT ![Len(fs)] = Append(@, ch)],
             <<<<>>>>, s)

\* hex.DecodeString: an error, or a byte per pair of digits
HexDecode(f) ==
    IF Len(f) % 2 = 1 \/ \E k \in 1 .. Len(f) : f[k] \notin HexDigits
    THEN [err |-> TRUE]
    ELSE [err |-> FALSE, bytes |-> [k \in 1 .. Len(f) \div 2 |-> <<f[2 * k - 1], f[2 * k]>>]]

\* mutant: a target of exactly targetMaxLength bytes is refused
BadTargetAtLimit(d) == d.err \/ Len(d.bytes) >= TargetMaxLength

\* the loop's check: err != nil || len(target) > targetMaxLength
BadTarget(d) == d.err \/ Len(d.bytes) > TargetMaxLength

(***************************************************************************)
(* pssPostHandler for a targets parameter, a recipient parameter ("" when *)
(* absent) that parses or not, and the outcomes of reading the body and   *)
(* of pss.Send.                                                           *)
(***************************************************************************)
PssPostHandler(targetsVar, recipientVar, recipientOk, readOk, sendOk) ==
    LET ds == [k \in 1 .. Len(Split(targetsVar)) |-> HexDecode(Split(targetsVar)[k])]
    IN  IF \E k \in 1 .. Len(ds) : BadTarget(ds[k]) THEN [status |-> 400]
        ELSE IF recipientVar # "" /\ ~recipientOk THEN [status |-> 400]
        ELSE IF ~readOk \/ ~sendOk THEN [status |-> 500]
        ELSE [status |-> 200,
              targets |-> [k \in 1 .. Len(ds) |-> ds[k].bytes],
              recipient |-> IF recipientVar = "" THEN "topicKey" ELSE recipientVar]

=============================================================================
