----------------------------- MODULE Analytics -----------------------------
(***************************************************************************)
(* The analytics contract, contracts/analytics/src/lib.rs: an epoch ledger *)
(* written by one admin, a pause switch, and two entry points through      *)
(* which a governance contract changes admin and pause state.              *)
(*                                                                         *)
(* As in Governance, a panic rolls the call back and is a missing step,    *)
(* and require_auth draws the caller from Signer.  The two governance      *)
(* entry points authenticate nobody: they compare their caller argument    *)
(* with the stored address, so that argument ranges over every Address.    *)
(***************************************************************************)
EXTENDS Naturals, FiniteSets, SorobanStorage

CONSTANTS
  Address,      \* accounts and contracts
  Signer,       \* the addresses that can authorise a call
  NoAddress,    \* stands for an absent Admin or Governance key
  Hash,
  MaxEpoch,     \* bound on the epochs submitted
  MaxTime       \* bound on ledger time

ASSUME AnalyticsConstants ==
  /\ Signer \subseteq Address
  /\ NoAddress \notin Address
  /\ MaxEpoch \in Nat
  /\ MaxTime \in Nat

VARIABLES
  now,           \* ledger timestamp
  admin,
  latestEpoch,
  snapshots,     \* epoch -> metadata
  paused,
  governance

vars == <<now, admin, latestEpoch, snapshots, paused, governance>>

Epoch == 1 .. MaxEpoch
Time == 0 .. MaxTime
SnapshotMetadata == [epoch : Epoch, timestamp : Time, hash : Hash]

---------------------------------------------------------------------------
Init ==
  /\ now = 0
  /\ admin = NoAddress
  /\ latestEpoch = 0
  /\ snapshots = EmptyMap
  /\ paused = FALSE
  /\ governance = NoAddress

IsAdmin(caller) == admin # NoAddress /\ caller = admin

Initialize(newAdmin) ==
  /\ admin = NoAddress
  /\ admin' = newAdmin
  /\ latestEpoch' = 0
  /\ paused' = FALSE
  /\ snapshots' = EmptyMap
  /\ UNCHANGED <<now, governance>>

\* Faults: any epoch the map does not hold is accepted; the pause ignored.
NewEpochIfAbsent(epoch) == epoch \notin DOMAIN snapshots

NewEpoch(epoch) == epoch > latestEpoch

SubmitWhilePaused(epoch, hash, caller) ==
  /\ IsAdmin(caller)
  /\ NewEpoch(epoch)
  /\ snapshots' = MapSet(snapshots, epoch,
                    [epoch |-> epoch, timestamp |-> now, hash |-> hash])
  /\ latestEpoch' = epoch
  /\ UNCHANGED <<now, admin, paused, governance>>

SubmitSnapshot(epoch, hash, caller) ==
  /\ ~paused
  /\ IsAdmin(caller)
  /\ NewEpoch(epoch)
  /\ snapshots' = MapSet(snapshots, epoch,
                    [epoch |-> epoch, timestamp |-> now, hash |-> hash])
  /\ latestEpoch' = epoch
  /\ UNCHANGED <<now, admin, paused, governance>>

SetAdmin(currentAdmin, newAdmin) ==
  /\ IsAdmin(currentAdmin)
  /\ admin' = newAdmin
  /\ UNCHANGED <<now, latestEpoch, snapshots, paused, governance>>

Pause(caller) ==
  /\ IsAdmin(caller)
  /\ paused' = TRUE
  /\ UNCHANGED <<now, admin, latestEpoch, snapshots, governance>>

Unpause(caller) ==
  /\ IsAdmin(caller)
  /\ paused' = FALSE
  /\ UNCHANGED <<now, admin, latestEpoch, snapshots, governance>>

SetGovernance(caller, newGovernance) ==
  /\ IsAdmin(caller)
  /\ governance' = newGovernance
  /\ UNCHANGED <<now, admin, latestEpoch, snapshots, paused>>

\* Fault: no governance contract is needed.
IsGovernanceIfAny(caller) == governance # NoAddress => caller = governance

IsGovernance(caller) == governance # NoAddress /\ caller = governance

SetAdminByGovernance(caller, newAdmin) ==
  /\ IsGovernance(caller)
  /\ admin' = newAdmin
  /\ UNCHANGED <<now, latestEpoch, snapshots, paused, governance>>

SetPausedByGovernance(caller, value) ==
  /\ IsGovernance(caller)
  /\ paused' = value
  /\ UNCHANGED <<now, admin, latestEpoch, snapshots, governance>>

LedgerClose ==
  /\ now < MaxTime
  /\ now' = now + 1
  /\ UNCHANGED <<admin, latestEpoch, snapshots, paused, governance>>

Call ==
  \/ \E a \in Address : Initialize(a)
  \/ \E caller \in Signer :
       \/ \E epoch \in Epoch, hash \in Hash : SubmitSnapshot(epoch, hash, caller)
       \/ \E a \in Address : SetAdmin(caller, a) \/ SetGovernance(caller, a)
       \/ Pause(caller)
       \/ Unpause(caller)
  \/ \E caller, a \in Address : SetAdminByGovernance(caller, a)
  \/ \E caller \in Address, p \in BOOLEAN : SetPausedByGovernance(caller, p)

Next == Call \/ LedgerClose

Spec == Init /\ [][Next]_vars

---------------------------------------------------------------------------
(* Properties *)

Abstract == INSTANCE SnapshotLedger WITH ledger <- MapValues(snapshots)

\* The stored values have their types; an epoch's entry names that epoch;
\* nothing is stored, paused or governed before initialize.
TypeOK ==
  /\ now \in Time
  /\ admin \in Address \cup {NoAddress}
  /\ governance \in Address \cup {NoAddress}
  /\ latestEpoch \in 0 .. MaxEpoch
  /\ paused \in BOOLEAN
  /\ DOMAIN snapshots \subseteq Epoch
  /\ \A e \in DOMAIN snapshots :
       snapshots[e] \in SnapshotMetadata /\ snapshots[e].epoch = e
  /\ admin = NoAddress =>
       snapshots = EmptyMap /\ latestEpoch = 0 /\ ~paused /\ governance = NoAddress

\* LatestEpoch, which instance storage keeps apart from the persistent map, is
\* the largest stored epoch: get_latest_snapshot never misses, and never
\* answers with an old entry.
LatestEpochIsLast ==
  /\ latestEpoch = 0 <=> DOMAIN snapshots = {}
  /\ latestEpoch > 0 => latestEpoch \in DOMAIN snapshots
  /\ \A e \in DOMAIN snapshots : e <= latestEpoch

\* Nothing is recorded by a call that finds the contract paused, whoever
\* paused it: the admin or a proposal.
PausedLedgerIsFrozen ==
  [][paused => snapshots' = snapshots]_<<paused, snapshots>>

\* The epoch counter is enough to make the map an append-only ledger whose
\* times follow its epochs.
ImplementsLedger == Abstract!Spec
===========================================================================
