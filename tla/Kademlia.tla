------------------------------ MODULE Kademlia ------------------------------
(***************************************************************************)
(* The Kademlia topology driver of pkg/kademlia (Kad): the manage loop and *)
(* its two dialing passes and bootnode fallback, connect and announce, the *)
(* p2p callbacks Pick / Connected / Disconnected, AddPeers from hive, the   *)
(* ClosestPeer query with its stale-peer "kludge", and the retry map       *)
(* waitNext.  Each goroutine is a process whose steps are split where the *)
(* code performs I/O or can be preempted between a read and the write     *)
(* that depends on it:                                                     *)
(*   - the manage goroutine (mg);                                          *)
(*   - one goroutine per peer dialing in, running Connected (inbound);     *)
(*   - the p2p layer delivering Disconnected notifications;               *)
(*   - arbitrary callers of ClosestPeer and hive delivering AddPeers.      *)
(* The p2p layer itself is the environment: p2pPeers is the set p2p.Peers *)
(* returns, and remote peers may drop a connection at any time.            *)
(***************************************************************************)
EXTENDS KadDepth, Sequences

CONSTANTS
    Base,                 \* this node's overlay address
    Peers,                \* the other overlays that exist
    Bootnodes,            \* the overlays behind the configured bootnode underlays
    BootnodeMode,         \* Options.BootnodeMode
    MaxConnAttempts,      \* maxConnAttempts
    MaxBootnodeAttempts,  \* maxBootnodeAttempts
    MaxInbound,           \* bound: Connected goroutines running at once
    Dialers,              \* bound: the peers that dial in
    Targets,              \* addresses ClosestPeer is asked about
    SkipSets,             \* skip lists ClosestPeer is called with
    WantSelf, NotFound,   \* the error results of ClosestPeer
    TrackGossip           \* whether the ghost `told' records BroadcastPeers calls

ASSUME /\ Base \in Addresses
       /\ Peers \subseteq Addresses \ {Base, ZeroAddress}
       /\ Bootnodes \in Seq(Peers)
       /\ BootnodeMode \in BOOLEAN
       /\ MaxConnAttempts \in Nat /\ MaxBootnodeAttempts \in Nat \ {0}
       /\ MaxInbound \in Nat /\ Dialers \subseteq Peers
       /\ Targets \subseteq Addresses /\ SkipSets \subseteq SUBSET Peers
       /\ TrackGossip \in BOOLEAN

VARIABLES
    knownPeers,      \* k.knownPeers
    connectedPeers,  \* k.connectedPeers
    depth,           \* k.depth
    waitNext,        \* k.waitNext: the retry record of every peer
    manageC,         \* k.manageC, a channel of capacity one: TRUE when full
    addressBook,     \* the overlays the address book has an entry for
    p2pPeers,        \* p2p.Peers(): the overlays with a live connection
    disconnecting,   \* connections closed whose Disconnected call is pending
    mg,              \* the manage goroutine: program counter and loop cursors
    inbound,         \* per peer: where its Connected goroutine is
    inSnap,          \* per peer: the connected peers its announce read
    told,            \* <<a, b>>: a BroadcastPeers telling a about b was made
    failStreak       \* failed dials of a peer since it was last connected

vars == <<knownPeers, connectedPeers, depth, waitNext, manageC, addressBook,
          p2pPeers, disconnecting, mg, inbound, inSnap, told, failStreak>>

(***************************************************************************)
(* waitNext.  An entry holds failedAttempts and whether tryAfter is still  *)
(* in the future ("active"); the clock is abstracted to RetryElapsed      *)
(* steps that let an active entry expire.  A peer without an entry has    *)
(* NoEntry.                                                                *)
(***************************************************************************)
NoEntry == [present |-> FALSE, active |-> FALSE, failed |-> 0]
RetryInfo(f) == [present |-> TRUE, active |-> TRUE, failed |-> f]
WaitInfos == {NoEntry} \cup [present : {TRUE}, active : BOOLEAN, failed : 0 .. MaxConnAttempts]

\* the peer filter spf of manage: an entry whose tryAfter is in the future
Sanctioned(p) == waitNext[p].active

\* manage's error path after a failed connect: a retry entry with
\* timeToRetry is added only if none exists
InsertIfAbsent(w, p) == IF w[p].present THEN w ELSE [w EXCEPT ![p] = RetryInfo(0)]

\* mutant: pruning one attempt late
PrunesLate(w, p) == w[p].failed + 1 > MaxConnAttempts + 1
\* connect: failedAttempts after one more generic failure exceeds the limit
Prunes(w, p) == w[p].failed + 1 > MaxConnAttempts

PO(p) == Proximity(Base, p)
RecalcDepth(S) == RecalcDepthOf(BinCounts(S, Base))
BinSaturated(bin) == BinSaturatedOf(bin, BinCounts(knownPeers, Base), BinCounts(connectedPeers, Base))

\* Pick: inbound connections are refused when their bin is over-saturated
Pick(p) == BootnodeMode \/ ~BinSaturated(PO(p)).oversaturated

\* p2p.Disconnect(p): the connection closes and Disconnected will follow
\* (a connection that is already closed is left as it is)
DropLink(p) ==
    /\ p2pPeers' = p2pPeers \ {p}
    /\ disconnecting' = disconnecting \cup ({p} \cap p2pPeers)

(***************************************************************************)
(* Disconnected for each peer of S: remove it from connectedPeers, give it *)
(* a fresh timeToRetry entry, recalc depth and signal manageC.             *)
(***************************************************************************)
DisconnectedEffect(S) ==
    /\ connectedPeers' = connectedPeers \ S
    /\ waitNext' = [q \in Peers |-> IF q \in S THEN RetryInfo(0) ELSE waitNext[q]]
    /\ depth' = RecalcDepth(connectedPeers')
    /\ manageC' = (manageC \/ S # {})

(***************************************************************************)
(* The manage goroutine.  pc is where it is; phase which loop it is in    *)
(* ("p1" balanced dialing, "p2" bin filling, "boot" connectBootnodes);    *)
(* i, j index commonBinPrefixes; bin and visited are the EachBinRev       *)
(* cursor; peer and snap are the dial in progress and what its announce   *)
(* read; attempts, nconn and bi are connectBootnodes' locals.             *)
(***************************************************************************)
MgIdle == [pc |-> "idle", phase |-> "none", i |-> 0, j |-> 0, bin |-> 0,
           visited |-> {}, peer |-> NoPeer, snap |-> {},
           attempts |-> 0, nconn |-> 0, bi |-> 1]

StartPass1 == [MgIdle EXCEPT !.pc = "p1", !.phase = "p1"]
StartPass2 == [MgIdle EXCEPT !.pc = "p2", !.phase = "p2"]
StartBoot  == [MgIdle EXCEPT !.pc = "boot", !.phase = "boot"]

\* pass 1: on to the next pseudo address after a dial
NextPseudo(m) ==
    IF m.j + 1 < 2^BitSuffixLength
    THEN [m EXCEPT !.pc = "p1", !.j = m.j + 1, !.peer = NoPeer, !.snap = {}]
    ELSE [m EXCEPT !.pc = "p1", !.i = m.i + 1, !.j = 0, !.peer = NoPeer, !.snap = {}]

\* where manage goes once a dial of pass 1 or pass 2 is over
AfterDial(m) ==
    IF m.phase = "p1" THEN NextPseudo(m)
    ELSE [m EXCEPT !.pc = "p2", !.peer = NoPeer, !.snap = {}]

\* after pass 2: bootnodes if no peer is connected
AfterPass2(conn) == IF conn = {} THEN StartBoot ELSE MgIdle

Env == <<addressBook, p2pPeers, disconnecting, inbound, inSnap, told, failStreak>>

\* <-k.manageC: a wake-up starts both passes (the manage loop is not standalone)
ManageWake ==
    /\ mg.pc = "idle" /\ manageC
    /\ manageC' = FALSE
    /\ mg' = StartPass1
    /\ UNCHANGED <<knownPeers, connectedPeers, depth, waitNext, Env>>

(***************************************************************************)
(* Pass 1 over commonBinPrefixes from pseudo address (i, j) on: the        *)
(* closest connected peer to it; if none, break to the next bin; if that  *)
(* peer is near enough, go on; otherwise the closest unsanctioned known   *)
(* peer (none: break); skip it if it is connected or too far; a missing   *)
(* address-book entry aborts the pass; otherwise it is dialed.  The       *)
(* iterations that only read are taken in one step, up to the first one  *)
(* that dials or aborts.                                                   *)
(***************************************************************************)
Pass1Done == [kind |-> "done", i |-> 0, j |-> 0, peer |-> NoPeer]

RECURSIVE Pass1From(_, _)
Pass1From(i, j) ==
    LET pseudo == CommonBinPrefix(Base, i, j)
        thr    == i + BitSuffixLength + 1
        cc     == ClosestPeerIn(connectedPeers, pseudo)
        ck     == ClosestPeerIn({q \in knownPeers : ~Sanctioned(q)}, pseudo)
        nxt    == IF j + 1 < 2^BitSuffixLength THEN <<i, j + 1>> ELSE <<i + 1, 0>>
    IN  IF i > MaxPO THEN Pass1Done
        ELSE IF cc = NoPeer THEN Pass1From(i + 1, 0)
        ELSE IF ExtendedProximity(cc, pseudo) >= thr THEN Pass1From(nxt[1], nxt[2])
        ELSE IF ck = NoPeer THEN Pass1From(i + 1, 0)
        ELSE IF ck \in connectedPeers \/ ExtendedProximity(ck, pseudo) < thr
             THEN Pass1From(nxt[1], nxt[2])
        ELSE [kind |-> IF ck \in addressBook THEN "dial" ELSE "abort",
              i |-> i, j |-> j, peer |-> ck]

Pass1 ==
    /\ mg.pc = "p1"
    /\ LET r == Pass1From(mg.i, mg.j) IN
       \/ /\ r.kind = "done"
          /\ mg' = StartPass2
          /\ UNCHANGED knownPeers
       \/ /\ r.kind = "abort"
          /\ knownPeers' = knownPeers \ {r.peer}
          /\ mg' = StartPass2
       \/ /\ r.kind = "dial"
          /\ mg' = [mg EXCEPT !.pc = "dial", !.i = r.i, !.j = r.j, !.peer = r.peer]
          /\ UNCHANGED knownPeers
    /\ UNCHANGED <<connectedPeers, depth, waitNext, manageC, Env>>

(***************************************************************************)
(* Pass 2: knownPeers.EachBinRev visits bins farthest first, peers of a   *)
(* bin in any order.  Connected and sanctioned peers are skipped; at the  *)
(* first other peer of a bin, a saturated bin is jumped; otherwise a      *)
(* missing address-book entry aborts the pass and the peer is dialed     *)
(* if it has one.  As in pass 1, the iterations that only read are taken *)
(* in one step, up to the bin whose next peer is dialed or aborts.       *)
(***************************************************************************)
Eligible(bin, visited) ==
    {q \in knownPeers : PO(q) = bin /\ q \notin visited
                        /\ q \notin connectedPeers /\ ~Sanctioned(q)}

RECURSIVE Pass2From(_, _)
Pass2From(bin, visited) ==
    IF bin > MaxPO \/ (Eligible(bin, visited) # {} /\ ~BinSaturated(bin).saturated)
    THEN [bin |-> bin, visited |-> visited]
    ELSE Pass2From(bin + 1, {})

Pass2 ==
    /\ mg.pc = "p2"
    /\ LET r == Pass2From(mg.bin, mg.visited) IN
       \/ /\ r.bin > MaxPO
          /\ mg' = AfterPass2(connectedPeers)
          /\ UNCHANGED knownPeers
       \/ /\ r.bin <= MaxPO
          /\ \E p \in Eligible(r.bin, r.visited) :
                \/ /\ p \notin addressBook
                   /\ knownPeers' = knownPeers \ {p}
                   /\ mg' = AfterPass2(connectedPeers)
                \/ /\ p \in addressBook
                   /\ mg' = [mg EXCEPT !.pc = "dial", !.peer = p, !.bin = r.bin,
                                       !.visited = r.visited \cup {p}]
                   /\ UNCHANGED knownPeers
    /\ UNCHANGED <<connectedPeers, depth, waitNext, manageC, Env>>

\* BroadcastPeers calls recorded in the ghost `told'
Gossip(pairs) == told' = IF TrackGossip THEN told \cup pairs ELSE told

ResetStreak(p) == failStreak' = [failStreak EXCEPT ![p] = 0]
CountFailure(p) == failStreak' = [failStreak EXCEPT ![p] = IF @ > MaxConnAttempts THEN @ ELSE @ + 1]

(***************************************************************************)
(* connect(peer): p2p.Connect and what connect and manage's error path do *)
(* with each result.  ErrAlreadyConnected for the same overlay returns    *)
(* nil without announcing; an overlay mismatch (already connected under,  *)
(* or handshaking as, another overlay) makes manage drop the peer from    *)
(* knownPeers and the address book; a ConnectionBackoffError resets       *)
(* failedAttempts; any other error counts one more failed attempt and     *)
(* prunes the address-book entry past maxConnAttempts.  Every failure ends *)
(* in manage's insert-if-absent of a timeToRetry entry.                   *)
(***************************************************************************)
Dial ==
    /\ mg.pc = "dial"
    /\ LET p == mg.peer IN
       \/ /\ p \in p2pPeers
          /\ mg' = [mg EXCEPT !.pc = "add"]
          /\ UNCHANGED <<knownPeers, addressBook, waitNext, p2pPeers, failStreak>>
       \/ /\ p \notin p2pPeers
          /\ p2pPeers' = p2pPeers \cup {p}
          /\ mg' = [mg EXCEPT !.pc = "announce"]
          /\ UNCHANGED <<knownPeers, addressBook, waitNext, failStreak>>
       \/ /\ knownPeers' = knownPeers \ {p}
          /\ addressBook' = addressBook \ {p}
          /\ waitNext' = InsertIfAbsent(waitNext, p)
          /\ mg' = AfterDial(mg)
          /\ UNCHANGED <<p2pPeers, failStreak>>
       \/ /\ p \notin p2pPeers
          /\ waitNext' = [waitNext EXCEPT ![p] = RetryInfo(0)]
          /\ mg' = AfterDial(mg)
          /\ CountFailure(p)
          /\ UNCHANGED <<knownPeers, addressBook, p2pPeers>>
       \/ /\ p \notin p2pPeers
          /\ IF Prunes(waitNext, p)
             THEN /\ addressBook' = addressBook \ {p}
                  /\ waitNext' = InsertIfAbsent([waitNext EXCEPT ![p] = NoEntry], p)
             ELSE /\ waitNext' = [waitNext EXCEPT ![p] = RetryInfo(waitNext[p].failed + 1)]
                  /\ UNCHANGED addressBook
          /\ mg' = AfterDial(mg)
          /\ CountFailure(p)
          /\ UNCHANGED <<knownPeers, p2pPeers>>
    /\ UNCHANGED <<connectedPeers, depth, manageC, disconnecting, inbound, inSnap,
                   told>>

(***************************************************************************)
(* announce(peer), first half: read connectedPeers; a goroutine per other  *)
(* connected peer c gossips peer to c.  With nobody else connected,       *)
(* announce returns nil at once.                                           *)
(***************************************************************************)
AnnounceRead(p) == connectedPeers \ {p}
AnnounceGossip(p) == Gossip({<<c, p>> : c \in AnnounceRead(p)})

\* the addrs announce keeps for its synchronous send, kept for the ghost only
Snapshot(p) == IF TrackGossip THEN AnnounceRead(p) ELSE {}

ManageAnnounce ==
    /\ mg.pc = "announce"
    /\ AnnounceGossip(mg.peer)
    /\ mg' = [mg EXCEPT !.pc = IF AnnounceRead(mg.peer) = {} THEN "add" ELSE "send",
                        !.snap = Snapshot(mg.peer)]
    /\ UNCHANGED <<knownPeers, connectedPeers, depth, waitNext, manageC, addressBook,
                   p2pPeers, disconnecting, inbound, inSnap, failStreak>>

(***************************************************************************)
(* announce(peer), second half: the synchronous BroadcastPeers(peer, addrs)*)
(* succeeds only over a live connection; on failure the peer is           *)
(* disconnected and the error goes back to manage (connectBootnodes gives *)
(* up; the passes take the error path and go on).                         *)
(***************************************************************************)
ManageSend ==
    /\ mg.pc = "send"
    /\ \/ /\ mg.peer \in p2pPeers
          /\ Gossip({<<mg.peer, c>> : c \in mg.snap})
          /\ mg' = [mg EXCEPT !.pc = "add"]
          /\ UNCHANGED <<waitNext, p2pPeers, disconnecting, failStreak>>
       \/ /\ DropLink(mg.peer)
          /\ IF mg.phase = "boot"
             THEN mg' = MgIdle /\ UNCHANGED waitNext
             ELSE mg' = AfterDial(mg) /\ waitNext' = InsertIfAbsent(waitNext, mg.peer)
          /\ CountFailure(mg.peer)
          /\ UNCHANGED told
    /\ UNCHANGED <<knownPeers, connectedPeers, depth, manageC, addressBook, inbound,
                   inSnap>>

(***************************************************************************)
(* After connect returned nil.  The passes set a shortRetry entry, add the *)
(* peer to connectedPeers and recalc depth; connectBootnodes' connected()  *)
(* also adds it to knownPeers and deletes its entry, then counts it.       *)
(***************************************************************************)
ManageAdd ==
    /\ mg.pc = "add"
    /\ connectedPeers' = connectedPeers \cup {mg.peer}
    /\ depth' = RecalcDepth(connectedPeers')
    /\ IF mg.phase = "boot"
       THEN /\ knownPeers' = knownPeers \cup {mg.peer}
            /\ waitNext' = [waitNext EXCEPT ![mg.peer] = NoEntry]
            /\ mg' = [mg EXCEPT !.pc = "boot", !.nconn = @ + 1, !.bi = @ + 1,
                                !.peer = NoPeer, !.snap = {}]
       ELSE /\ waitNext' = [waitNext EXCEPT ![mg.peer] = RetryInfo(0)]
            /\ mg' = AfterDial(mg)
            /\ UNCHANGED knownPeers
    /\ ResetStreak(mg.peer)
    /\ UNCHANGED <<manageC, addressBook, p2pPeers, disconnecting, inbound, inSnap, told>>

(***************************************************************************)
(* connectBootnodes, one bootnode per step (each has one underlay, so its *)
(* Discover callback runs once).  The attempts counter is shared by all   *)
(* bootnodes; the callback stops once it reaches maxBootnodeAttempts.     *)
(* AlreadyConnected moves on; any other dial error returns.               *)
(***************************************************************************)
BootStep ==
    /\ mg.pc = "boot"
    /\ \/ /\ \/ mg.bi > Len(Bootnodes)
             \/ mg.attempts >= MaxBootnodeAttempts * Len(Bootnodes)
             \/ mg.nconn >= 3
          /\ mg' = MgIdle
          /\ UNCHANGED <<p2pPeers, failStreak>>
       \/ /\ mg.bi <= Len(Bootnodes)
          /\ mg.attempts < MaxBootnodeAttempts * Len(Bootnodes) /\ mg.nconn < 3
          /\ LET b == Bootnodes[mg.bi] IN
             \/ /\ mg.attempts >= MaxBootnodeAttempts
                /\ mg' = [mg EXCEPT !.bi = @ + 1]
                /\ UNCHANGED <<p2pPeers, failStreak>>
             \/ /\ mg.attempts < MaxBootnodeAttempts /\ b \in p2pPeers
                /\ mg' = [mg EXCEPT !.attempts = @ + 1, !.bi = @ + 1]
                /\ UNCHANGED <<p2pPeers, failStreak>>
             \/ /\ mg.attempts < MaxBootnodeAttempts /\ b \notin p2pPeers
                /\ mg' = MgIdle
                /\ UNCHANGED <<p2pPeers, failStreak>>
             \/ /\ mg.attempts < MaxBootnodeAttempts /\ b \notin p2pPeers
                /\ p2pPeers' = p2pPeers \cup {b}
                /\ mg' = [mg EXCEPT !.attempts = @ + 1, !.pc = "announce", !.peer = b]
                /\ UNCHANGED failStreak
    /\ UNCHANGED <<knownPeers, connectedPeers, depth, waitNext, manageC, addressBook,
                   disconnecting, inbound, inSnap, told>>

(***************************************************************************)
(* A peer dials in.  The p2p layer asks Pick first and refuses the        *)
(* connection when Pick is false; otherwise the connection is live and    *)
(* Connected runs on its own goroutine.                                    *)
(***************************************************************************)
InboundDial(p) ==
    /\ p \in Dialers
    /\ inbound[p] = "idle" /\ p \notin p2pPeers
    /\ Cardinality({q \in Peers : inbound[q] # "idle"}) < MaxInbound
    /\ Pick(p)
    /\ p2pPeers' = p2pPeers \cup {p}
    /\ inbound' = [inbound EXCEPT ![p] = "check"]
    /\ UNCHANGED <<knownPeers, connectedPeers, depth, waitNext, manageC, addressBook,
                   disconnecting, mg, inSnap, told, failStreak>>

(***************************************************************************)
(* connected() once announce returned nil: the peer joins knownPeers and  *)
(* connectedPeers, its retry entry is deleted, depth is recalculated;     *)
(* Connected then signals manageC.                                         *)
(***************************************************************************)
ConnectedJoin(p) ==
    /\ knownPeers' = knownPeers \cup {p}
    /\ connectedPeers' = connectedPeers \cup {p}
    /\ waitNext' = [waitNext EXCEPT ![p] = NoEntry]
    /\ depth' = RecalcDepth(connectedPeers')
    /\ manageC' = TRUE
    /\ inbound' = [inbound EXCEPT ![p] = "idle"]
    /\ inSnap' = [inSnap EXCEPT ![p] = {}]
    /\ ResetStreak(p)

(***************************************************************************)
(* Connected: the over-saturation check again (ErrOversaturated makes the *)
(* p2p layer disconnect), then the first half of announce; when announce  *)
(* finds nobody to tell it returns nil and connected() goes on at once.   *)
(***************************************************************************)
ConnectedCheck(p) ==
    /\ inbound[p] = "check"
    /\ \/ /\ ~BootnodeMode /\ BinSaturated(PO(p)).oversaturated
          /\ DropLink(p)
          /\ inbound' = [inbound EXCEPT ![p] = "idle"]
          /\ UNCHANGED <<told, inSnap, knownPeers, connectedPeers, depth, waitNext,
                         manageC, failStreak>>
       \/ /\ BootnodeMode \/ ~BinSaturated(PO(p)).oversaturated
          /\ AnnounceRead(p) # {}
          /\ AnnounceGossip(p)
          /\ inSnap' = [inSnap EXCEPT ![p] = Snapshot(p)]
          /\ inbound' = [inbound EXCEPT ![p] = "send"]
          /\ UNCHANGED <<p2pPeers, disconnecting, knownPeers, connectedPeers, depth,
                         waitNext, manageC, failStreak>>
       \/ /\ BootnodeMode \/ ~BinSaturated(PO(p)).oversaturated
          /\ AnnounceRead(p) = {}
          /\ ConnectedJoin(p)
          /\ UNCHANGED <<p2pPeers, disconnecting, told>>
    /\ UNCHANGED <<addressBook, mg>>

\* Connected: the synchronous half of announce, and connected() after it;
\* a failed send disconnects the peer and Connected returns the error
ConnectedSend(p) ==
    /\ inbound[p] = "send"
    /\ \/ /\ p \in p2pPeers
          /\ Gossip({<<p, c>> : c \in inSnap[p]})
          /\ ConnectedJoin(p)
          /\ UNCHANGED <<p2pPeers, disconnecting>>
       \/ /\ DropLink(p)
          /\ inbound' = [inbound EXCEPT ![p] = "idle"]
          /\ inSnap' = [inSnap EXCEPT ![p] = {}]
          /\ UNCHANGED <<told, knownPeers, connectedPeers, depth, waitNext, manageC,
                         failStreak>>
    /\ UNCHANGED <<addressBook, mg>>

\* the remote end closes a connection
RemoteDisconnect(p) ==
    /\ p \in p2pPeers
    /\ DropLink(p)
    /\ UNCHANGED <<knownPeers, connectedPeers, depth, waitNext, manageC, addressBook,
                   mg, inbound, inSnap, told, failStreak>>

\* the p2p layer calls Disconnected for a closed connection
Disconnected(p) ==
    /\ p \in disconnecting
    /\ disconnecting' = disconnecting \ {p}
    /\ DisconnectedEffect({p})
    /\ UNCHANGED <<knownPeers, addressBook, p2pPeers, mg, inbound, inSnap, told,
                   failStreak>>

\* time passes beyond a retry entry's tryAfter
RetryElapsed(p) ==
    /\ waitNext[p].active
    /\ waitNext' = [waitNext EXCEPT ![p].active = FALSE]
    /\ UNCHANGED <<knownPeers, connectedPeers, depth, manageC, Env, mg>>

\* the 30 s timer of manage: a non-blocking send on manageC
Tick ==
    /\ ~manageC
    /\ manageC' = TRUE
    /\ UNCHANGED <<knownPeers, connectedPeers, depth, waitNext, Env, mg>>

\* hive's peersHandler stores a gossiped record in the address book and
\* calls AddPeers, which adds unknown peers and signals manageC
AddPeers(p) ==
    /\ ~(p \in addressBook /\ p \in knownPeers)
    /\ addressBook' = addressBook \cup {p}
    /\ knownPeers' = knownPeers \cup {p}
    /\ manageC' = TRUE
    /\ UNCHANGED <<connectedPeers, depth, waitNext, p2pPeers, disconnecting, mg,
                   inbound, inSnap, told, failStreak>>

(***************************************************************************)
(* ClosestPeer(addr, skip...): connected peers that are skipped are        *)
(* ignored; of the rest, those missing from the p2p.Peers() snapshot are  *)
(* set aside to be disconnected afterwards (the kludge) and the others    *)
(* compete with the base address.  The answer goes to the caller; the     *)
(* step's effect on the topology is the Disconnected calls.               *)
(***************************************************************************)
\* mutant: the kludge is dropped and every connected peer competes
AllCandidates(conn, live, skip) == conn \ skip
LiveCandidates(conn, live, skip) == (conn \ skip) \cap live

ClosestPeerAnswer(addr, skip) ==
    IF connectedPeers = {} THEN NotFound
    ELSE LET closest == ClosestFrom(Base, LiveCandidates(connectedPeers, p2pPeers, skip), addr)
         IN  IF closest = Base THEN WantSelf ELSE closest

ClosestPeer(skip) ==
    /\ \/ /\ connectedPeers = {}
          /\ UNCHANGED <<connectedPeers, depth, waitNext, manageC>>
       \/ /\ connectedPeers # {}
          /\ DisconnectedEffect((connectedPeers \ skip) \ p2pPeers)
    /\ UNCHANGED <<knownPeers, addressBook, p2pPeers, disconnecting, mg, inbound, inSnap,
                   told, failStreak>>

-----------------------------------------------------------------------------
(* New and Start: the address book's overlays become known peers and      *)
(* AddPeers signals manageC.                                               *)
Init ==
    /\ addressBook = Peers
    /\ knownPeers = addressBook
    /\ connectedPeers = {}
    /\ depth = 0
    /\ waitNext = [p \in Peers |-> NoEntry]
    /\ manageC = TRUE
    /\ p2pPeers = {}
    /\ disconnecting = {}
    /\ mg = MgIdle
    /\ inbound = [p \in Peers |-> "idle"]
    /\ inSnap = [p \in Peers |-> {}]
    /\ told = {}
    /\ failStreak = [p \in Peers |-> 0]

Next ==
    \/ ManageWake \/ Pass1 \/ Pass2 \/ Dial \/ ManageAnnounce \/ ManageSend
    \/ ManageAdd \/ BootStep \/ Tick
    \/ \E p \in Peers :
          \/ InboundDial(p) \/ ConnectedCheck(p) \/ ConnectedSend(p)
          \/ RemoteDisconnect(p) \/ Disconnected(p) \/ RetryElapsed(p) \/ AddPeers(p)
    \/ \E skip \in SkipSets : ClosestPeer(skip)

Spec == Init /\ [][Next]_vars

-----------------------------------------------------------------------------
MgPCs == {"idle", "p1", "p2", "dial", "announce", "send", "add", "boot"}

(* Every variable stays in its domain.  In particular a waitNext entry     *)
(* never records more than maxConnAttempts failed attempts: connect's     *)
(* prune check removes the entry at the attempt that would exceed it.     *)
TypeOK ==
    /\ knownPeers \subseteq Peers /\ connectedPeers \subseteq Peers
    /\ depth \in Bins
    /\ waitNext \in [Peers -> WaitInfos]
    /\ manageC \in BOOLEAN
    /\ addressBook \subseteq Peers /\ p2pPeers \subseteq Peers
    /\ disconnecting \subseteq Peers
    /\ mg.pc \in MgPCs /\ mg.peer \in Peers \cup {NoPeer}
    /\ inbound \in [Peers -> {"idle", "check", "send"}]
    /\ inSnap \in [Peers -> SUBSET Peers]
    /\ told \subseteq Peers \X Peers
    /\ failStreak \in [Peers -> 0 .. (MaxConnAttempts + 1)]

(* ClosestPeer answers with the connected, non-skipped peer with a live    *)
(* p2p connection that is nearest to the address by XOR distance, or      *)
(* WantSelf when the base address is nearer than all of them: the switch  *)
(* on DistanceCmp and the kludge that sets aside peers missing from       *)
(* p2p.Peers() together guarantee it, whatever state connectedPeers is in *)
(* when it is called.                                                      *)
ClosestPeerIsClosest ==
    \A addr \in Targets, skip \in SkipSets :
        LET res    == ClosestPeerAnswer(addr, skip)
            answer == IF res = WantSelf THEN Base ELSE res
            live   == (connectedPeers \ skip) \cap p2pPeers
        IN  res # NotFound =>
                /\ answer \in live \cup {Base}
                /\ \A q \in live \cup {Base} : (answer ^^ addr) <= (q ^^ addr)

(* The maxConnAttempts comment (kademlia_test.go:1147, "when there is    *)
(* maxConnAttempts failed connect calls for a given peer it is considered *)
(* non-connectable") and spec 4.E and 8 ("at most maxConnAttempts connect *)
(* attempts before removal"): a peer whose last maxConnAttempts dials     *)
(* since it was last connected all failed is no longer in the address     *)
(* book.  connect prunes only when failedAttempts > maxConnAttempts.      *)
NonConnectablePruned ==
    \A p \in Peers : failStreak[p] >= MaxConnAttempts => p \notin addressBook

(* Every peer in connectedPeers has a live p2p connection, or its          *)
(* Disconnected notification is still on its way (the invariant the        *)
(* ClosestPeer kludge is a hotfix for).                                    *)
ConnectedAreLinked ==
    \A p \in connectedPeers : p \in p2pPeers \/ p \in disconnecting

(* announce gossips both ways: any two connected peers have each been      *)
(* told about the other.                                                   *)
AnnouncedToEachOther ==
    \A a, b \in connectedPeers : a # b => <<a, b>> \in told

(* connectBootnodes, as the specification describes it: with fewer than 3  *)
(* bootnodes connected it gives up only after every configured bootnode   *)
(* has been tried (up to maxBootnodeAttempts tries each).                  *)
BootnodesEachTried ==
    [][mg.phase = "boot" /\ mg'.pc = "idle" =>
          mg.nconn >= 3 \/ mg.attempts >= Len(Bootnodes)]_vars

=============================================================================
