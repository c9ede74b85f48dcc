----------------------------- MODULE MCOverlay -----------------------------
(* Model-checking instance of Overlay: two remote peers, one of them in   *)
(* the allow list, two transaction ids, three session identities.         *)
EXTENDS Overlay

MCPeers == {"p1", "p2"}
MCBootstrap == {"p1"}
MCAddrs == {"a1", "a2"}
MCBlockAddrs == {"a2"}
=============================================================================
