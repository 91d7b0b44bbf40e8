--------------------------- MODULE MCGovernance ---------------------------
(***************************************************************************)
(* A small governance contract: three signers, any of them or a contract   *)
(* the admin, two proposals, and a clock that outlives a voting period and *)
(* then reaches the largest timestamp.                                     *)
(***************************************************************************)
EXTENDS Governance, TLC

CONSTANTS s1, s2, s3, analytics, pause

MCSigner == {s1, s2, s3}
MCAddress == MCSigner \cup {analytics}
MCContract == {analytics}
MCAction == {pause}
MCQuorums == {0, 2}
MCVotingPeriods == {0, 2}
Symmetry == Permutations(MCSigner)
===========================================================================
