------------------------- MODULE SnapshotContract -------------------------
(***************************************************************************)
(* The contract that anchors snapshot hashes,                              *)
(* contracts/snapshot-contract/src/lib.rs.                                 *)
(*                                                                         *)
(* As in Governance, a panic is a missing step and require_auth draws the  *)
(* caller from Signer.  The contract has two switches: pause, which        *)
(* submit_snapshot honours, and stop, which the other entry points do.     *)
(* prepare_upgrade and migrate publish an event and change no state.       *)
(* The code installed by upgrade is taken to be this contract again.       *)
(***************************************************************************)
EXTENDS Naturals, FiniteSets, SorobanStorage

CONSTANTS
  Address,
  Signer,       \* the addresses that can authorise a call
  NoAddress,    \* stands for an absent Admin key
  NoEpoch,      \* LatestEpoch read as None
  Bytes,        \* what a caller may pass as a hash
  Hash,         \* those that are HASH_SIZE long
  MaxEpoch,     \* bound on the epochs submitted
  MaxTime,      \* bound on ledger time
  MaxVersion    \* bound on upgrades

ASSUME SnapshotContractConstants ==
  /\ Signer \subseteq Address
  /\ NoAddress \notin Address
  /\ Hash \subseteq Bytes
  /\ MaxEpoch \in Nat
  /\ NoEpoch \notin Nat
  /\ MaxTime \in Nat
  /\ MaxVersion \in Nat \ {0}

VARIABLES
  now,              \* ledger timestamp
  admin,
  stopped,
  paused,
  version,          \* of Metadata; 0 while the key is absent
  upgradeTimestamp,
  latestEpoch,
  snapshots         \* epoch -> Snapshot

vars == <<now, admin, stopped, paused, version, upgradeTimestamp, latestEpoch, snapshots>>
switches == <<stopped, paused>>
metadata == <<version, upgradeTimestamp>>
ledger == <<latestEpoch, snapshots>>

Epoch == 1 .. MaxEpoch
Time == 0 .. MaxTime
Snapshot == [epoch : Epoch, timestamp : Time, hash : Hash]
CONTRACT_VERSION == 1

---------------------------------------------------------------------------
Init ==
  /\ now = 0
  /\ admin = NoAddress
  /\ stopped = FALSE
  /\ paused = FALSE
  /\ version = 0
  /\ upgradeTimestamp = 0
  /\ latestEpoch = NoEpoch
  /\ snapshots = EmptyMap

\* The stored admin exists and signed the call.
AdminSigns == admin \in Signer

Initialize(newAdmin) ==
  /\ admin = NoAddress
  /\ newAdmin \in Signer
  /\ admin' = newAdmin
  /\ version' = CONTRACT_VERSION
  /\ upgradeTimestamp' = now
  /\ stopped' = FALSE
  /\ UNCHANGED <<now, paused, ledger>>

StopContract ==
  /\ AdminSigns
  /\ stopped' = TRUE
  /\ UNCHANGED <<now, admin, paused, metadata, ledger>>

ResumeContract ==
  /\ AdminSigns
  /\ stopped' = FALSE
  /\ UNCHANGED <<now, admin, paused, metadata, ledger>>

\* Fault: require_not_stopped is left out.
TransferAdminThoughStopped(newAdmin) ==
  /\ AdminSigns
  /\ admin' = newAdmin
  /\ UNCHANGED <<now, switches, metadata, ledger>>

TransferAdmin(newAdmin) ==
  /\ ~stopped
  /\ AdminSigns
  /\ admin' = newAdmin
  /\ UNCHANGED <<now, switches, metadata, ledger>>

Upgrade(newWasmHash) ==
  /\ ~stopped
  /\ AdminSigns
  /\ newWasmHash \in Hash
  /\ version < MaxVersion
  /\ version' = version + 1
  /\ upgradeTimestamp' = now
  /\ UNCHANGED <<now, admin, switches, ledger>>

\* Faults: epoch 0 passes; only a repeated epoch is refused; only an older one.
NewEpochOrZero(epoch) == latestEpoch # NoEpoch => epoch > latestEpoch
NewEpochIfAbsent(epoch) == epoch # 0 /\ epoch \notin DOMAIN snapshots
NewEpochOrSame(epoch) == epoch # 0 /\ (latestEpoch # NoEpoch => epoch >= latestEpoch)

NewEpoch(epoch) ==
  /\ epoch # 0
  /\ latestEpoch # NoEpoch => epoch > latestEpoch
  /\ epoch \notin DOMAIN snapshots

\* Nobody is asked to sign.
SubmitSnapshot(hash, epoch) ==
  /\ ~paused
  /\ hash \in Hash
  /\ NewEpoch(epoch)
  /\ snapshots' = MapSet(snapshots, epoch,
                    [epoch |-> epoch, timestamp |-> now, hash |-> hash])
  /\ latestEpoch' = epoch
  /\ UNCHANGED <<now, admin, switches, metadata>>

IsAdmin(caller) == caller \in Signer /\ caller = admin

Pause(caller) ==
  /\ IsAdmin(caller)
  /\ paused' = TRUE
  /\ UNCHANGED <<now, admin, stopped, metadata, ledger>>

Unpause(caller) ==
  /\ IsAdmin(caller)
  /\ paused' = FALSE
  /\ UNCHANGED <<now, admin, stopped, metadata, ledger>>

\* The readers: each panics while the contract is stopped.
LatestSnapshot ==
  IF latestEpoch \in DOMAIN snapshots THEN {snapshots[latestEpoch]} ELSE {}

VerifySnapshot(hash) == ~stopped /\ \E e \in DOMAIN snapshots : snapshots[e].hash = hash

VerifySnapshotAtEpoch(hash, epoch) ==
  ~stopped /\ epoch \in DOMAIN snapshots /\ snapshots[epoch].hash = hash

VerifyLatestSnapshot(hash) == ~stopped /\ \E s \in LatestSnapshot : s.hash = hash

LedgerClose ==
  /\ now < MaxTime
  /\ now' = now + 1
  /\ UNCHANGED <<admin, switches, metadata, ledger>>

AdminCall ==
  \/ \E a \in Address : Initialize(a) \/ TransferAdmin(a)
  \/ StopContract
  \/ ResumeContract
  \/ \E h \in Bytes : Upgrade(h)
  \/ \E caller \in Address : Pause(caller) \/ Unpause(caller)

Next ==
  \/ AdminCall
  \/ \E h \in Bytes, epoch \in 0 .. MaxEpoch : SubmitSnapshot(h, epoch)
  \/ LedgerClose

Spec == Init /\ [][Next]_vars

---------------------------------------------------------------------------
(* Properties *)

Abstract == INSTANCE SnapshotLedger WITH ledger <- MapValues(snapshots)

ControlOK ==
  /\ admin \in Address \cup {NoAddress}
  /\ stopped \in BOOLEAN
  /\ paused \in BOOLEAN
  /\ version \in 0 .. MaxVersion
  /\ upgradeTimestamp \in 0 .. now
  /\ admin = NoAddress <=> version = 0
  /\ admin = NoAddress => ~stopped /\ ~paused

LedgerOK ==
  /\ now \in Time
  /\ latestEpoch \in Epoch \cup {NoEpoch}
  /\ DOMAIN snapshots \subseteq Epoch
  /\ \A e \in DOMAIN snapshots : snapshots[e] \in Snapshot /\ snapshots[e].epoch = e

\* The stored values have their types; the metadata, the switches and the
\* admin appear together; an entry names its own epoch.
TypeOK == ControlOK /\ LedgerOK

\* The three verifying readers agree: the latest snapshot exists as soon as
\* any does, verifies at its own epoch, and no epoch after it verifies.
ReadersAgree ==
  /\ LatestSnapshot = {} <=> DOMAIN snapshots = {}
  /\ \A h \in Hash :
       /\ VerifyLatestSnapshot(h) => VerifySnapshot(h)
       /\ \A e \in Epoch :
            VerifySnapshotAtEpoch(h, e) =>
              /\ VerifySnapshot(h)
              /\ e <= latestEpoch
              /\ e = latestEpoch => VerifyLatestSnapshot(h)

\* An auditor who was once told that a hash is the one of an epoch is told so
\* for ever, whenever the contract answers: whatever was submitted meanwhile,
\* also while it was stopped and told nothing, and whoever paused it, took it
\* over or upgraded it.
AnswersStand ==
  \A h \in Hash, e \in Epoch :
    [](VerifySnapshotAtEpoch(h, e) => [](~stopped => VerifySnapshotAtEpoch(h, e)))

\* While stopped, the contract's admin and code stay what they were; while
\* paused, its ledger does.
SwitchesHold ==
  [][/\ stopped => UNCHANGED <<admin, metadata>>
     /\ paused => UNCHANGED ledger]_vars

\* Whatever order of calls: an append-only ledger in epoch and time order.
ImplementsLedger == Abstract!Spec
===========================================================================
