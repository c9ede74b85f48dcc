---------------------------- MODULE MCOverlaySym ----------------------------
(* The safety instance of Overlay with session identities as model       *)
(* values.  A sid is only an identity in the code (the channel a sender  *)
(* belongs to): nothing orders or counts sids, so exchanging two of them *)
(* maps a behaviour to a behaviour, and symmetry is sound for safety.    *)
EXTENDS MCOverlay, TLC

CONSTANTS sd1, sd2

MCSids == {sd1, sd2}
SidSymmetry == Permutations(MCSids)
=============================================================================
