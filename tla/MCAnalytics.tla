---------------------------- MODULE MCAnalytics ----------------------------
(***************************************************************************)
(* Two accounts that sign, a governance contract that does not, two        *)
(* hashes, and epochs enough to skip one and come back for it.             *)
(***************************************************************************)
EXTENDS Analytics, TLC

CONSTANTS u1, u2, gov, h1, h2

MCAddress == {u1, u2, gov}
MCSigner == {u1, u2}
MCHash == {h1, h2}
Symmetry == Permutations(MCSigner) \cup Permutations(MCHash)
===========================================================================
