----------------------------- MODULE MCStartup -----------------------------
(* Two keypairs, so that a regenerated key can differ from the first, and *)
(* four calls of start, so that two starts can fail in different ways, a *)
(* third publish a PeerId and a fourth run after it.  The keys are        *)
(* interchangeable, so they form a symmetry set.                          *)
EXTENDS Startup, TLC

CONSTANTS k1, k2

MCKeys == {k1, k2}
KeySymmetry == Permutations(MCKeys)
=============================================================================
