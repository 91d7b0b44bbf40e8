------------------------ MODULE MCGovernedAnalytics ------------------------
(***************************************************************************)
(* One account, both contracts, proposals for the analytics contract or   *)
(* for a contract without its entry points, one snapshot and a clock that  *)
(* outlives one voting period.                                             *)
(***************************************************************************)
EXTENDS GovernedAnalytics, TLC

CONSTANTS u1, h1

MCUser == {u1}
MCTarget == {AnalyticsAddress, GovernanceAddress}
MCProposedAdmin == {GovernanceAddress}
MCHash == {h1}
===========================================================================
