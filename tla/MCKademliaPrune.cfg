CONSTANTS
    AddrBits = 3
    MaxPO = 1
    BitSuffixLength = 1
    XCloserSign = 1
    NNLowWatermark = 1
    SaturationPeers = 1
    OverSaturationPeers = 1
    Base = 0
    Peers <- MCPeers
    Bootnodes <- MCBootnodes
    BootnodeMode = FALSE
    MaxConnAttempts = 1
    MaxBootnodeAttempts = 1
    MaxInbound = 1
    Dialers <- MCDialers
    Targets <- MCTargets
    SkipSets <- MCSkipSets
    WantSelf = WantSelf
    NotFound = NotFound
    TrackGossip = FALSE
SPECIFICATION Spec
INVARIANT NonConnectablePruned
