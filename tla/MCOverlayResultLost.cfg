CONSTANTS
    Self = self
    NoEntry = NoEntry
    Peers <- MCPeers
    BlockPeers = {}
    Bootstrap <- MCBootstrap
    Addrs <- MCAddrs
    BlockAddrs <- MCBlockAddrs
    Tids = {1, 2}
    RequestKinds = {"result"}
    Sids = {1, 2}
    InboxCap = 1

SPECIFICATION Spec

PROPERTY EveryRequestDelivered
