------------------------------ MODULE KadDepth ------------------------------
(***************************************************************************)
(* Neighbourhood depth and bin saturation (pkg/kademlia recalcDepth and    *)
(* binSaturated).  A PSlice (the bin-indexed peer set, not in the          *)
(* repository) is abstracted to its bin population: a function from bin to *)
(* the number of peers in that bin.  Both functions only count peers, and  *)
(* walk bins closest-first, so the population determines their result.    *)
(***************************************************************************)
EXTENDS KadAddress

CONSTANTS
    NNLowWatermark,       \* peers in the deepest bins that make a neighbourhood
    SaturationPeers,      \* connected peers that saturate a bin below depth
    OverSaturationPeers   \* connected peers that over-saturate a bin below depth

ASSUME /\ NNLowWatermark \in Nat \ {0}
       /\ SaturationPeers \in Nat \ {0}
       /\ OverSaturationPeers \in Nat
       /\ SaturationPeers <= OverSaturationPeers

\* the population of a peer set seen from base (PSlice.Add files a peer
\* under Proximity(base, peer))
BinCounts(S, base) == [b \in Bins |-> Cardinality({p \in S : Proximity(base, p) = b})]

\* PSlice.Length
Length(cnt) == MapThenSumSet(LAMBDA b : cnt[b], Bins)

\* PSlice.ShallowestEmpty: the lowest empty bin; noEmptyBins when none is
ShallowestEmpty(cnt) == Min({b \in Bins : cnt[b] = 0} \cup {MaxPO + 1})
NoEmptyBins(cnt) == \A b \in Bins : cnt[b] > 0

\* peers in bins b .. MaxPO, the ones EachBin visits before leaving bin b
CountFrom(cnt, b) == MapThenSumSet(LAMBDA c : cnt[c], b .. MaxPO)

(***************************************************************************)
(* recalcDepth.  EachBin walks peers closest bin first and stops at the    *)
(* peer where the counter reaches nnLowWatermark: its bin is the deepest   *)
(* bin b with CountFrom(cnt, b) >= nnLowWatermark.                         *)
(***************************************************************************)
\* mutant: the shallowest empty bin is never consulted
RecalcDepthIgnoringEmptyBins(cnt) ==
    IF Length(cnt) <= NNLowWatermark THEN 0
    ELSE Max({b \in Bins : CountFrom(cnt, b) >= NNLowWatermark})

RecalcDepthOf(cnt) ==
    IF Length(cnt) <= NNLowWatermark THEN 0
    ELSE LET candidate == Max({b \in Bins : CountFrom(cnt, b) >= NNLowWatermark})
         IN  IF NoEmptyBins(cnt) \/ ShallowestEmpty(cnt) > candidate
             THEN candidate
             ELSE ShallowestEmpty(cnt)

(***************************************************************************)
(* binSaturated(bin, peers, connected): the depth the known peers would    *)
(* give bounds the bins that can saturate at all.                          *)
(***************************************************************************)
BinSaturatedOf(bin, knownCnt, connCnt) ==
    IF bin >= RecalcDepthOf(knownCnt)
    THEN [saturated |-> FALSE, oversaturated |-> FALSE]
    ELSE [saturated |-> connCnt[bin] >= SaturationPeers,
          oversaturated |-> connCnt[bin] >= OverSaturationPeers]

=============================================================================
