------------------------ MODULE MCSnapshotContract ------------------------
(***************************************************************************)
(* Two accounts that sign and a contract address that does not, two hashes *)
(* and a string of another length, three epochs, one upgrade.              *)
(***************************************************************************)
EXTENDS SnapshotContract

CONSTANTS u1, u2, silent, h1, h2, short

MCAddress == {u1, u2, silent}
MCSigner == {u1, u2}
MCHash == {h1, h2}
MCBytes == {h1, h2, short}
===========================================================================
