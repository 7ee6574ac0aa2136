\* the same bounds as MCPure.cfg, with PinnedChunks also called with a limit
\* of 0: below the documented minimum of 1, so the API would have to reject it
CONSTANTS
    AddrBits = 5
    MaxPO = 3
    BitSuffixLength = 1
    XCloserSign = 1
    NNLowWatermark = 2
    SaturationPeers = 2
    OverSaturationPeers = 3
    MaxCount = 3
    MaxPage = 2
    Chunks = {1, 2, 3, 4}
    MaxPins = 2
    Offsets = {0, 1, 2, 3, 4}
    Limits = {0, 1, 2, 3}
    MaxBatchSize = 2
    MaxPeers = 5
    Keys = {k1, k2, k3}
    NetworkIDs = {n1, n2}
    Filler = x
    HandshakePrefix = hp
    NoKey = NoKey
    Invalid = Invalid
    SettlementPeers = {p1, p2}
    Amounts = {0, 1, 2}
    BadPeer = bad
    ChunkAddr = c1
    Targets = {t1}
    NoTargets = NoTargets
    GetAddrs = {1, 2, 3}
    Owner = owner
    Topic = topic
    FeedAts <- MCFeedAts
    MaxPayload = 3
    ChunkSize = 10
    OptHome = h
    OptCfg = f
    UserHome = u
    ConfigExts <- MCConfigExts
    HexDigits = {"0"}
    TargetMaxLength = 2
    MaxParam = 6
SPECIFICATION Spec
INVARIANT PageWithinMaxPage
