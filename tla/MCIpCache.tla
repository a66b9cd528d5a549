----------------------------- MODULE MCIpCache -----------------------------
(***************************************************************************)
(* IpCache on three keys, a list of at most two entries and a short clock. *)
(***************************************************************************)
EXTENDS IpCache, TLC

CONSTANTS k1, k2, k3

ThreeKeys == {k1, k2, k3}
Symmetry == Permutations(Keys)
=============================================================================
