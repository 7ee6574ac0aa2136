----------------------------- MODULE IfiAddress -----------------------------
(***************************************************************************)
(* The signed peer record of package ifi (concatenated into               *)
(* pkg/localstore/mode_get_multi.go): NewAddress signs the bytes          *)
(* "voyager-handshake-" || underlay || overlay || networkID and           *)
(* ParseAddress recovers the signer from them and accepts the record only *)
(* if the signer's overlay for that network is the claimed overlay.      *)
(* The bytes carry no length of the underlay: only the fixed width of the *)
(* overlay and that comparison tell where the underlay ends.             *)
(*                                                                         *)
(* Bytes are symbols and byte strings are sequences; the underlay has any *)
(* length, the overlay and the network id have fixed widths, as in the    *)
(* program.  The crypto package is not in the repository: a signature is *)
(* modelled as the pair (key, signed data), recovery over the signed data *)
(* returns the key and over any other data fails, and the overlay of a    *)
(* key on a network is the pair of the two (injective, like the hash).   *)
(* ma.NewMultiaddrBytes is taken to decode every underlay of the model.  *)
(***************************************************************************)
EXTENDS Sequences

CONSTANTS
    HandshakePrefix,   \* the bytes of "voyager-handshake-", as one symbol
    NoKey,             \* what a failed crypto.Recover returns
    Invalid            \* ErrInvalidAddress

\* crypto.NewOverlayAddress(publicKey, networkID)
NewOverlayAddress(key, networkID) == <<key, networkID>>

\* signer.Sign(data) and crypto.Recover(signature, data)
Sign(key, data) == [key |-> key, data |-> data]
Recover(signature, data) == IF signature.data = data THEN signature.key ELSE NoKey

\* generateSignData: the prefix, the underlay, the overlay, the network id
GenerateSignData(underlay, overlay, networkID) ==
    <<HandshakePrefix>> \o underlay \o overlay \o <<networkID>>

\* NewAddress signs whatever overlay it is passed
NewAddress(key, underlay, overlay, networkID) ==
    [underlay |-> underlay, overlay |-> overlay,
     signature |-> Sign(key, GenerateSignData(underlay, overlay, networkID))]

\* mutant: the recovered overlay is not compared with the claimed one
ParseAddressUnchecked(underlay, overlay, signature, networkID) ==
    LET pk == Recover(signature, GenerateSignData(underlay, overlay, networkID))
    IN  IF pk = NoKey THEN Invalid
        ELSE [underlay |-> underlay, overlay |-> overlay, signature |-> signature]

ParseAddress(underlay, overlay, signature, networkID) ==
    LET pk == Recover(signature, GenerateSignData(underlay, overlay, networkID))
    IN  IF pk = NoKey THEN Invalid
        ELSE IF NewOverlayAddress(pk, networkID) # overlay THEN Invalid
        ELSE [underlay |-> underlay, overlay |-> overlay, signature |-> signature]

=============================================================================
