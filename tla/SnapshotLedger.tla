-------------------------- MODULE SnapshotLedger --------------------------
(***************************************************************************)
(* What every snapshot contract of this repository promises its readers:   *)
(* an append-only ledger in which a new entry has a later epoch, and no    *)
(* earlier time, than every entry already there.                           *)
(***************************************************************************)
EXTENDS Naturals

CONSTANTS Epoch, Time, Hash

VARIABLE ledger   \* a set of entries

Entry == [epoch : Epoch, timestamp : Time, hash : Hash]

Init == ledger = {}

Extends(entry) ==
  \A old \in ledger :
    /\ old.epoch < entry.epoch
    /\ old.timestamp <= entry.timestamp

Append(entry) ==
  /\ Extends(entry)
  /\ ledger' = ledger \cup {entry}

Next == \E entry \in Entry : Append(entry)

Spec == Init /\ [][Next]_ledger
===========================================================================
