CONSTANTS
    Self = self
    NoEntry = NoEntry
    Peers <- MCPeers
    BlockPeers = {}
    Bootstrap <- MCBootstrap
    Addrs <- MCAddrs
    BlockAddrs <- MCBlockAddrs
    Tids = {1, 2}
    RequestKinds = {"connect"}
    Sids = {1, 2, 3}
    InboxCap = 1

SPECIFICATION Spec

INVARIANT NoDuplicateSession
