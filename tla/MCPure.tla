------------------------------- MODULE MCPure -------------------------------
(***************************************************************************)
(* Checks the project's pure operators against reference definitions over *)
(* every input within the bounds: recalcDepth over bin populations,       *)
(* PinnedChunks over pin indexes, offsets and limits, and BroadcastPeers' *)
(* batching over peer lists, the ifi records, the hive exchange, the    *)
(* settlements handlers, netstore.Get, GetMulti, the feed putter and the  *)
(* command's config loading.  The one variable is the input; every input  *)
(* is an initial state and nothing changes it.                            *)
(***************************************************************************)
EXTENDS KadDepth, PinnedChunks, Hive, IfiAddress, Settlements, Netstore,
        GetMulti, FeedsPutter, Command, PssSend

SX == INSTANCE SequencesExt

CONSTANTS
    MaxCount,   \* peers per bin in the checked populations
    Chunks,     \* addresses that may be pinned
    MaxPins,    \* the largest pin counter of an item
    Offsets,    \* offsets PinnedChunks is called with
    Limits,     \* limits PinnedChunks is called with
    MaxPeers,   \* the longest peer list given to BroadcastPeers
    Keys,       \* the nodes' signing keys
    NetworkIDs, \* network ids
    Filler,     \* a byte that is neither a key nor a network id
    SettlementPeers, \* peers the settlement service may know
    Amounts,    \* settlement amounts
    BadPeer,    \* a peer path parameter that does not parse
    ChunkAddr,  \* the address netstore.Get is asked for
    Targets,    \* recovery targets a request may carry
    GetAddrs,   \* addresses the store may hold and GetMulti may ask for
    Owner,      \* the feed owner's address
    Topic,      \* the feed topic
    FeedAts,    \* timestamps Put is called with
    MaxPayload, \* the longest feed payload
    OptHome,    \* a home directory an option may set
    OptCfg,     \* a config file path an option may set
    MaxParam    \* the longest targets parameter of a pss send

VARIABLE input

DepthInputs == {[kind |-> "depth", conn |-> c] : c \in [Bins -> 0 .. MaxCount]}

PinIndexes == UNION {[S -> 1 .. MaxPins] : S \in SUBSET Chunks}
PinInputs ==
    {[kind |-> "pin", index |-> x, offset |-> o, limit |-> l] :
        x \in PinIndexes, o \in Offsets, l \in Limits}

BatchInputs == {[kind |-> "hive", peers |-> [i \in 1 .. n |-> i]] : n \in 0 .. MaxPeers}

\* underlays are byte strings of up to two bytes over every byte the model has
Bytes == Keys \cup NetworkIDs \cup {Filler}
Underlays == UNION {[1 .. n -> Bytes] : n \in 0 .. 2}

\* the records nodes sign for themselves: their own overlay on a network
HonestRecords ==
    {NewAddress(k, u, NewOverlayAddress(k, n), n) : k \in Keys, u \in Underlays, n \in NetworkIDs}

\* what a peer can present: an honest record's signature with the signed
\* underlay||overlay bytes cut anywhere, under any network id
IfiInputs ==
    UNION {LET uo == r.underlay \o r.overlay
           IN  {[kind |-> "ifi", underlay |-> SubSeq(uo, 1, c),
                 overlay |-> SubSeq(uo, c + 1, Len(uo)),
                 signature |-> r.signature, networkID |-> n] :
                    c \in 0 .. Len(uo), n \in NetworkIDs} :
           r \in HonestRecords}

\* the broadcasting node's network, its peers' overlays there, and the
\* record its address book holds for each
HomeNet == CHOOSE n \in NetworkIDs : TRUE
HivePeers == {NewOverlayAddress(k, HomeNet) : k \in Keys}
BookRecord(o) == NewAddress(o[1], <<Filler>>, o, HomeNet)
AtMostOne(S) == {{}} \cup {{p} : p \in S}
PeerLists == UNION {{s \in [1 .. n -> HivePeers] : SX!IsInjective(s)} : n \in 0 .. Cardinality(HivePeers)}

\* a list of peers to announce, the book at the time sendPeers reads it
\* (peers pruned since announce read them are missing), the failing Gets
\* and Puts, and the addressee's network
HiveInputs ==
    {[kind |-> "exchange", peers |-> ps, book |-> [o \in bk |-> BookRecord(o)],
      getFailing |-> gf, putFailing |-> pf, networkID |-> n] :
        ps \in PeerLists, bk \in SUBSET HivePeers, gf \in AtMostOne(HivePeers),
        pf \in AtMostOne(HivePeers), n \in NetworkIDs}

\* the settlement service's two maps, which of the list handler's calls
\* fails, the peer asked about and which of the peer handler's calls fails
AmountMaps == UNION {[S -> Amounts] : S \in SUBSET SettlementPeers}
SettlementInputs ==
    {[kind |-> "settlements", sent |-> s, received |-> r, listFails |-> lf,
      peer |-> p, peerFails |-> pf] :
        s \in AmountMaps, r \in AmountMaps, lf \in {"none", "sent", "received"},
        p \in SettlementPeers \cup {BadPeer}, pf \in {"none", "sent", "received"}}

\* one Get: the local store, a local read error, whether retrieval finds
\* the chunk, a Put error, the request's targets and a registered callback
NetstoreInputs ==
    {[kind |-> "netstore", store |-> st, localFails |-> lf, retrieved |-> rt,
      putFails |-> pf, targets |-> t, hasCallback |-> cb] :
        st \in SUBSET {ChunkAddr}, lf \in BOOLEAN, rt \in BOOLEAN, pf \in BOOLEAN,
        t \in {NoTargets} \cup Targets, cb \in BOOLEAN}

\* one GetMulti call: any mode (and one no mode names), a list of up to two
\* addresses, possibly repeated, the retrieval index and a pin index over
\* stored chunks
AddrLists == UNION {[1 .. n -> GetAddrs] : n \in 0 .. 2}
StorePins(S) == UNION {[P -> 1 .. MaxPins] : P \in SUBSET S}
GetMultiInputs ==
    UNION {{[kind |-> "getmulti", mode |-> m, addrs |-> a, retrieval |-> r, pins |-> x] :
               m \in GetModes \cup {"invalid"}, a \in AddrLists, x \in StorePins(r)} :
           r \in SUBSET GetAddrs}

\* timestamps around zero and a byte boundary, negative ones included
MCFeedAts == {-257, -1, 0, 1, 256}

\* one Put of a feed update: whether the signer yields an owner, the index,
\* timestamp and payload, and whether signing and the store's Put succeed
FeedInputs ==
    {[kind |-> "feed", ownerOk |-> o, index |-> i, at |-> t, payload |-> [k \in 1 .. n |-> Filler],
      signOk |-> sg, putOk |-> pt] :
        o \in BOOLEAN, i \in {1, 2}, t \in FeedAts, n \in 0 .. MaxPayload,
        sg \in BOOLEAN, pt \in BOOLEAN}

\* viper.SupportedExts begins "json", ..., "yaml"
MCConfigExts == <<"json", "yaml">>

\* one Execute: the options, os.UserHomeDir and the config files present
ConfigPaths == {<<h, e>> : h \in {OptHome, UserHome}, e \in SX!ToSet(ConfigExts)} \cup {OptCfg}
FileSystems == UNION {[P -> {"ok", "bad"}] : P \in SUBSET ConfigPaths}
CommandInputs ==
    {[kind |-> "command", optHome |-> h, optCfg |-> c, homeOk |-> ok, fs |-> f] :
        h \in {"", OptHome}, c \in {"", OptCfg}, ok \in BOOLEAN, f \in FileSystems}

\* one pss send: a targets parameter over a hex digit, a non-hex
\* character and the comma, and the recipient, body and Send outcomes
TargetsParams == UNION {[1 .. n -> {"0", "g", ","}] : n \in 1 .. MaxParam}
PssPostInputs ==
    {[kind |-> "psspost", targets |-> t, recipient |-> rv, recipientOk |-> ro,
      readOk |-> rd, sendOk |-> sd] :
        t \in TargetsParams, rv \in {"", "r"}, ro \in BOOLEAN, rd \in BOOLEAN, sd \in BOOLEAN}

Init ==
    input \in DepthInputs \cup PinInputs \cup BatchInputs \cup IfiInputs
                \cup HiveInputs \cup SettlementInputs \cup NetstoreInputs
                \cup GetMultiInputs \cup FeedInputs \cup CommandInputs \cup PssPostInputs

Spec == Init /\ [][UNCHANGED input]_input

-----------------------------------------------------------------------------
(* The depth definition of the specification: 0 with fewer than nnLow     *)
(* peers, otherwise the lower of the shallowest empty bin and the bin of  *)
(* the peer at which the closest-first count reaches nnLow.               *)
SpecDepth(cnt) ==
    IF Length(cnt) < NNLowWatermark THEN 0
    ELSE LET candidate == Max({b \in Bins : CountFrom(cnt, b) >= NNLowWatermark})
         IN  Min({ShallowestEmpty(cnt), candidate})

(* recalcDepth agrees with the specification's depth on every population, *)
(* although it short-circuits on Length <= nnLow rather than < nnLow and  *)
(* only consults the shallowest empty bin when it lies above candidate.   *)
DepthMatchesSpec == input.kind = "depth" => RecalcDepthOf(input.conn) = SpecDepth(input.conn)

\* the page the /pin/chunks parameters describe: the items ranked offset,
\* offset+1, ... in address order, at most min(limit, maxPage) of them
PageLength(x, o, l) ==
    LET n == Cardinality(DOMAIN x) - o
        m == IF l < MaxPage THEN l ELSE MaxPage
    IN  IF n <= 0 THEN 0 ELSE IF n < m THEN n ELSE m
Rank(x, a) == Cardinality({b \in DOMAIN x : b < a})
RefPage(x, o, l) ==
    [i \in 1 .. PageLength(x, o, l) |->
        LET a == CHOOSE b \in DOMAIN x : Rank(x, b) = o + i - 1
        IN  [address |-> a, pinCounter |-> PinCounter(x, a, 0)]]

(* For every limit the API documents (1 .. maxPage, and larger ones that  *)
(* are clamped), PinnedChunks returns exactly the requested slice of the *)
(* pin index in address order, with each item's pin counter.             *)
PageIsSlice ==
    input.kind = "pin" =>
        PinnedChunks(input.index, input.offset, input.limit)
            = RefPage(input.index, input.offset, input.limit)

(* maxPage is "the hard limit of page size": no call of PinnedChunks     *)
(* returns more than maxPage chunks, whatever limit it is passed.        *)
PageWithinMaxPage ==
    input.kind = "pin" =>
        Len(PinnedChunks(input.index, input.offset, input.limit)) <= MaxPage

(* BroadcastPeers sends every peer it is given, once and in order, in    *)
(* messages of at most maxBatchSize peers, all full but the last.        *)
BatchesPartition ==
    input.kind = "hive" =>
        LET bs == BroadcastBatches(input.peers)
        IN  /\ SX!FlattenSeq(bs) = input.peers
            /\ \A i \in 1 .. Len(bs) :
                  /\ Len(bs[i]) \in 1 .. MaxBatchSize
                  /\ i < Len(bs) => Len(bs[i]) = MaxBatchSize

(* ParseAddress accepts exactly the records a node signed for its own     *)
(* overlay on that network: not the same signature with bytes moved      *)
(* between underlay and overlay, nor one replayed on another network.    *)
IfiAcceptsOnlySigned ==
    input.kind = "ifi" =>
        LET rec == [underlay |-> input.underlay, overlay |-> input.overlay,
                    signature |-> input.signature]
        IN  (ParseAddress(input.underlay, input.overlay, input.signature, input.networkID) # Invalid)
                <=> \E k \in Keys : rec = NewAddress(k, input.underlay,
                                                     NewOverlayAddress(k, input.networkID), input.networkID)

(* A BroadcastPeers call delivers, batch by batch until the first send   *)
(* that fails, exactly the listed peers the sender's address book still  *)
(* holds (a peer pruned since announce read it is skipped silently), in   *)
(* order, and the addressee stores the sender's records for them, unless *)
(* it is on another network or its Put fails; BroadcastPeers returns an  *)
(* error exactly when a batch was not sent.                               *)
HiveDeliversBookedPeers ==
    input.kind = "exchange" =>
        LET res    == BroadcastPeers(input.peers, input.book, input.getFailing,
                                     input.networkID, input.putFailing)
            bs     == BroadcastBatches(input.peers)
            failAt == {j \in 1 .. Len(bs) : SX!Range(bs[j]) \cap input.getFailing # {}}
            sentN  == IF failAt = {} THEN Len(bs) ELSE Min(failAt) - 1
            known(p) == /\ p \in DOMAIN input.book /\ p \notin input.putFailing
                        /\ input.networkID = HomeNet
            learned == SelectSeq(SX!FlattenSeq(SubSeq(bs, 1, sentN)), known)
        IN  /\ res.added = learned
            /\ res.stored = [k \in 1 .. Len(learned) |-> input.book[learned[k]]]
            /\ res.err = (failAt # {})

(* The two settlements endpoints agree when neither fails: the list has   *)
(* one row per peer with settlements in either direction, with 0 for the *)
(* missing direction and totals that are the sums of its rows, and the   *)
(* peer endpoint answers 404 exactly for a peer without a row and the    *)
(* row's amounts otherwise.                                               *)
SettlementsAgree ==
    input.kind = "settlements" =>
        LET list  == SettlementsHandler(input.sent, input.received,
                                        input.listFails = "sent", input.listFails = "received")
            valid == input.peer # BadPeer
            one   == PeerSettlementsHandler(input.peer, valid,
                         TotalOf(input.received, input.peer, input.peerFails = "received"),
                         TotalOf(input.sent, input.peer, input.peerFails = "sent"))
            rowsOf(p) == {r \in list.rows : r.peer = p}
        IN  /\ list.status = 200 =>
                  /\ \A p \in DOMAIN input.sent \cup DOMAIN input.received : Cardinality(rowsOf(p)) = 1
                  /\ {r.peer : r \in list.rows} = DOMAIN input.sent \cup DOMAIN input.received
                  /\ list.totalSent = MapThenSumSet(LAMBDA r : r.sent, list.rows)
                  /\ list.totalReceived = MapThenSumSet(LAMBDA r : r.received, list.rows)
            /\ (list.status = 200 /\ valid /\ one.status # 500) =>
                  /\ one.status = 404 <=> rowsOf(input.peer) = {}
                  /\ one.status = 200 => rowsOf(input.peer) = {one.row}

(* netstore.Get as spec 4.I and its acceptance tests describe it: a      *)
(* chunk it returns is served by a following Get from the local store     *)
(* with the network and recovery gone, and a Get starts the recovery     *)
(* callback exactly once, with its address and targets, exactly when it  *)
(* returns ErrRecoveryAttempt.                                            *)
NetstoreCachesAndRecovers ==
    input.kind = "netstore" =>
        LET get  == NetstoreGet(input.store, ChunkAddr, input.localFails, input.retrieved,
                                input.putFails, input.targets, input.hasCallback)
            next == NetstoreGet(get.store, ChunkAddr, FALSE, FALSE, FALSE, NoTargets, FALSE)
        IN  /\ get.res = "chunk" => next.res = "chunk"
            /\ get.recoveries = IF get.res = "recoveryAttempt"
                                THEN <<<<ChunkAddr, input.targets>>>> ELSE <<>>


(* GetMulti is all or nothing and keeps the request's order: it succeeds  *)
(* exactly when the mode is known and every address is stored (and, for  *)
(* ModeGetPin, pinned), and then returns one chunk per address, in order, *)
(* with pin.go's PinCounter of it in ModeGetPin and 0 otherwise; only a   *)
(* successful ModeGetRequest refreshes the gc index, and for exactly the  *)
(* requested addresses.  Any other call answers storage.ErrNotFound or    *)
(* ErrInvalidMode with no chunks and no index touched.                    *)
GetMultiAllOrNothing ==
    input.kind = "getmulti" =>
        LET g      == GetMulti(input.mode, input.addrs, input.retrieval, input.pins, {})
            asked  == SX!ToSet(input.addrs)
            stored == asked \subseteq input.retrieval
            pinned == asked \subseteq DOMAIN input.pins
        IN  /\ g.err = CASE ~stored -> "notFound"
                         [] input.mode \notin GetModes -> "invalidMode"
                         [] input.mode = "pin" /\ ~pinned -> "notFound"
                         [] OTHER -> "nil"
            /\ g.err = "nil" =>
                  /\ Len(g.chunks) = Len(input.addrs)
                  /\ \A k \in 1 .. Len(input.addrs) :
                        /\ g.chunks[k].address = input.addrs[k]
                        /\ g.chunks[k].pinCounter =
                              IF input.mode = "pin" THEN PinCounter(input.pins, input.addrs[k], 0) ELSE 0
            /\ g.err # "nil" => g.chunks = <<>>
            /\ g.accessed = IF g.err = "nil" /\ input.mode = "request" THEN asked ELSE {}

\* 8 bytes whose int64 value lies within two bytes of zero
NearZero(b) == \/ \A k \in 1 .. 6 : b[k] = 0
               \/ \A k \in 1 .. 6 : b[k] = 255

\* binary.BigEndian.Uint64 of such 8 bytes, taken as an int64
ReadInt64(b) ==
    LET low(d) == SX!FoldLeft(LAMBDA acc, x : acc * 256 + x, 0, SubSeq(d, 7, 8))
    IN  IF b[1] = 0 THEN low(b) ELSE -(low([k \in 1 .. 8 |-> 255 - b[k]]) + 1)

(* A feed update Put stores, when it succeeds, one single-owner chunk at  *)
(* the address a lookup computes from the owner, topic and index, whose   *)
(* wrapped chunk starts with the 8 timestamp bytes that read back as `at' *)
(* (negative ones included) followed by the payload; it succeeds exactly *)
(* when the timestamp and payload fit a chunk and signing and storing    *)
(* succeed, and a failed Put stores nothing.                              *)
FeedUpdateReadable ==
    input.kind = "feed" =>
        LET p == NewPutter(input.ownerOk, Owner, Topic)
            r == Put(p, {}, input.index, input.at, input.payload, input.signOk, input.putOk)
            at == {c \in r.store : c.address = <<<<Topic, input.index>>, Owner>>}
        IN  /\ p.err = "nil" <=> input.ownerOk
            /\ p.err = "nil" =>
                 /\ r.err = "nil" <=> (8 + Len(input.payload) <= ChunkSize /\ input.signOk /\ input.putOk)
                 /\ r.err = "nil" =>
                       /\ r.store = at /\ Cardinality(at) = 1
                       /\ \A c \in at :
                             /\ NearZero(SubSeq(c.wrapped.data, 1, 8))
                             /\ ReadInt64(SubSeq(c.wrapped.data, 1, 8)) = input.at
                             /\ SubSeq(c.wrapped.data, 9, Len(c.wrapped.data)) = input.payload
                 /\ r.err # "nil" => r.store = {}

(* Execute loads the config file viper selects, the one an option named   *)
(* or else the first ".voyager" file of the home directory: it fails when *)
(* no home directory is known, when the named file is missing, or when    *)
(* the selected file does not parse, and a home directory without a      *)
(* config file is no error.                                               *)
ExecuteLoadsSelectedConfig ==
    input.kind = "command" =>
        LET e      == Execute(input.optHome, input.optCfg, input.homeOk, input.fs)
            home   == IF input.optHome # "" THEN input.optHome ELSE UserHome
            inHome(q) == q \in DOMAIN input.fs
            found  == SelectSeq([k \in 1 .. Len(ConfigExts) |-> <<home, ConfigExts[k]>>], inHome)
            sel    == IF input.optCfg # "" THEN input.optCfg
                      ELSE IF found = <<>> THEN "" ELSE Head(found)
            homeKnown == input.optHome # "" \/ input.homeOk
        IN  /\ e.err = "nil" <=> homeKnown /\ (sel = "" \/ (inHome(sel) /\ input.fs[sel] = "ok"))
            /\ e.err = "nil" => e.c.config = IF sel = "" THEN "none" ELSE sel


\* a field hex.DecodeString decodes into at most targetMaxLength bytes
IsTarget(f) == /\ Len(f) % 2 = 0 /\ Len(f) <= 2 * TargetMaxLength
               /\ \A k \in 1 .. Len(f) : f[k] \in HexDigits

(* pssPostHandler sends exactly when every comma-separated field of the  *)
(* targets parameter is a hex string of at most targetMaxLength bytes     *)
(* (empty fields included), the recipient parses if given, and reading   *)
(* and Send succeed; it then passes one target per field, in order, each *)
(* the bytes its field spells, and the topic's key when no recipient was *)
(* given.                                                                 *)
PssSendsEveryTarget ==
    input.kind = "psspost" =>
        LET r  == PssPostHandler(input.targets, input.recipient, input.recipientOk,
                                 input.readOk, input.sendOk)
            t  == input.targets
            commas == {k \in 1 .. Len(t) : t[k] = ","}
            cutSet == commas \cup {0, Len(t) + 1}
            cut(n) == CHOOSE c \in cutSet : Cardinality({d \in cutSet : d < c}) = n - 1
            fields == [n \in 1 .. Cardinality(commas) + 1 |-> SubSeq(t, cut(n) + 1, cut(n + 1) - 1)]
        IN  /\ r.status = 200 <=> /\ \A n \in DOMAIN fields : IsTarget(fields[n])
                                  /\ input.recipient = "" \/ input.recipientOk
                                  /\ input.readOk /\ input.sendOk
            /\ r.status = 200 =>
                  /\ Len(r.targets) = Cardinality(commas) + 1
                  /\ \A n \in DOMAIN r.targets : SX!FlattenSeq(r.targets[n]) = fields[n]
                  /\ r.recipient = IF input.recipient = "" THEN "topicKey" ELSE input.recipient

=============================================================================
