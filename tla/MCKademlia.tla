----------------------------- MODULE MCKademlia -----------------------------
(***************************************************************************)
(* A 3-bit address space seen from base 000 with MaxPO 1: peer 100 (4) is *)
(* in bin 0 and peer 010 (2) in bin 1.  With nnLowWatermark 1 the known    *)
(* peers give depth 1, so bin 0 saturates and over-saturates with its one  *)
(* connected peer, and Pick refuses a second inbound connection there.    *)
(* Peer 4 also dials in (Dialers), racing manage for the same peer.  The   *)
(* bootnodes are tried 2 first, so an inbound 4 can already be connected   *)
(* when the bootnode is announced.  With BitSuffixLength 1 the pseudo      *)
(* addresses are 100, 110 (bin 0) and 010, 011 (bin 1).                    *)
(***************************************************************************)
EXTENDS Kademlia

MCPeers == {4, 2}
MCBootnodes == <<2, 4>>
MCTargets == Addresses
MCSkipSets == {{}, {4}}
MCDialers == {4}

=============================================================================
