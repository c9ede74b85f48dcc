CONSTANTS
    Self = self
    NoEntry = NoEntry
    Peers <- MCPeers
    BlockPeers = {}
    Bootstrap <- MCBootstrap
    Addrs <- MCAddrs
    BlockAddrs <- MCBlockAddrs
    Tids = {1, 2}
    RequestKinds = {"connect", "result", "data"}
    sd1 = sd1
    sd2 = sd2
    Sids <- MCSids
    InboxCap = 1

SPECIFICATION Spec
SYMMETRY SidSymmetry

PROPERTY DeliveriesSafe


