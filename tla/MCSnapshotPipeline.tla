------------------------ MODULE MCSnapshotPipeline ------------------------
(***************************************************************************)
(* Two requests with hashes of their own or the same, one other client,    *)
(* two epochs to race for, the second of which does not fit an i64.        *)
(***************************************************************************)
EXTENDS SnapshotPipeline

CONSTANTS r1, r2, u1, h1, h2, other

MCRequest == {r1, r2}
MCAddress == {u1}
MCOwnHash == {h1, h2}
MCOtherHash == {other}
===========================================================================
