----------------------------- MODULE KadAddress -----------------------------
(***************************************************************************)
(* The overlay-address algebra the Kademlia topology is written against.   *)
(* Overlay addresses are AddrBits-bit naturals read most-significant bit   *)
(* first, so bit 0 is the first bit the proximity order compares.  The     *)
(* infinity package (Proximity, ExtendedProximity, DistanceCmp) is not in  *)
(* the repository and is modelled from its contract; the pseudo-address    *)
(* generation and the closestPeer helper are translated from               *)
(* pkg/kademlia.                                                           *)
(***************************************************************************)
EXTENDS Naturals, Integers, FiniteSets, FiniteSetsExt, Bitwise

CONSTANTS
    AddrBits,          \* width of an overlay address (256 in the program)
    MaxPO,             \* proximity orders are capped at MaxPO; bins are 0..MaxPO
    BitSuffixLength,   \* extra prefix bits enumerated per bin by the balancer
    XCloserSign        \* the value DistanceCmp(t, x, y) returns when x is closer

ASSUME /\ AddrBits \in Nat \ {0}
       /\ MaxPO \in Nat
       /\ BitSuffixLength \in Nat \ {0}
       \* the deepest pseudo-address still fits in the address
       /\ MaxPO + BitSuffixLength < AddrBits
       /\ XCloserSign \in {-1, 1}

Addresses == 0 .. (2^AddrBits - 1)
Bins == 0 .. MaxPO

\* the zero address: the "unset" value of infinity.Address
ZeroAddress == 0

\* the result of closestPeer when no candidate remains (ErrNotFound)
NoPeer == -1

\* bit l of address a, counting from the most significant bit
Bit(a, l) == (a \div 2^(AddrBits - 1 - l)) % 2

\* the number of leading bits a and b share, uncapped
ExtendedProximity(a, b) ==
    CHOOSE n \in 0 .. AddrBits :
        /\ \A m \in 0 .. (n - 1) : Bit(a, m) = Bit(b, m)
        /\ n < AddrBits => Bit(a, n) # Bit(b, n)

Proximity(a, b) ==
    IF ExtendedProximity(a, b) > MaxPO THEN MaxPO ELSE ExtendedProximity(a, b)

\* compares the XOR distances of x and y to target: XCloserSign when x is
\* closer, -XCloserSign when y is closer, 0 when x = y
DistanceCmp(target, x, y) ==
    LET dx == x ^^ target
        dy == y ^^ target
    IN  IF dx = dy THEN 0 ELSE IF dx < dy THEN XCloserSign ELSE -XCloserSign

(***************************************************************************)
(* generateCommonBinPrefixes: pseudo-address (i, j) is the base with bit i *)
(* flipped, the next BitSuffixLength bits set to j (most significant bit   *)
(* of j first) and every later bit cleared.                                *)
(***************************************************************************)
PseudoBit(base, i, j, l) ==
    CASE l < i -> Bit(base, l)
      [] l = i -> 1 - Bit(base, l)
      [] l <= i + BitSuffixLength -> (j \div 2^(BitSuffixLength - (l - i))) % 2
      [] OTHER -> 0

CommonBinPrefix(base, i, j) ==
    MapThenSumSet(LAMBDA l : PseudoBit(base, i, j, l) * 2^(AddrBits - 1 - l),
                  0 .. (AddrBits - 1))

Suffixes == 0 .. (2^BitSuffixLength - 1)

(***************************************************************************)
(* closestPeer(peers, addr, spf, ZeroAddress): the first candidate that is *)
(* not skipped and not sanctioned becomes `closest'; every later candidate *)
(* replaces it when DistanceCmp(addr, closest, peer) is -1.  Candidates    *)
(* are the set `cands' with sanctioned peers already removed.              *)
(***************************************************************************)
\* mutant: the two outcomes of DistanceCmp are swapped in the switch
ClosestStepSwapped(addr, closest, peer) ==
    IF closest = NoPeer THEN peer
    ELSE IF DistanceCmp(addr, closest, peer) = 1 THEN peer ELSE closest

ClosestStep(addr, closest, peer) ==
    IF closest = NoPeer THEN peer
    ELSE IF DistanceCmp(addr, closest, peer) = -1 THEN peer ELSE closest

\* the fold both closestPeer and ClosestPeer perform, starting from `init'
ClosestFrom(init, cands, addr) ==
    FoldSet(LAMBDA p, c : ClosestStep(addr, c, p), init, cands)

ClosestPeerIn(cands, addr) == ClosestFrom(NoPeer, cands \ {ZeroAddress}, addr)

=============================================================================
