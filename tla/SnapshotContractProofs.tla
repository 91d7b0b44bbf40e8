---------------------- MODULE SnapshotContractProofs ----------------------
(***************************************************************************)
(* Proofs about the snapshot contract, for any addresses, hashes, number   *)
(* of epochs and number of upgrades.                                       *)
(***************************************************************************)
EXTENDS SnapshotContract, TLAPS

\* Whatever the administration does, the ledger does not see it.
LEMMA AdminLeavesLedger ==
  ASSUME AdminCall
  PROVE  UNCHANGED <<now, latestEpoch, snapshots>>
  <1>1. ASSUME NEW a \in Address, Initialize(a) \/ TransferAdmin(a)
        PROVE  UNCHANGED <<now, latestEpoch, snapshots>>
    BY <1>1 DEF Initialize, TransferAdmin, ledger
  <1>2. CASE StopContract \/ ResumeContract
    BY <1>2 DEF StopContract, ResumeContract, ledger
  <1>3. ASSUME NEW h \in Bytes, Upgrade(h)
        PROVE  UNCHANGED <<now, latestEpoch, snapshots>>
    BY <1>3 DEF Upgrade, ledger
  <1>4. ASSUME NEW c \in Address, Pause(c) \/ Unpause(c)
        PROVE  UNCHANGED <<now, latestEpoch, snapshots>>
    BY <1>4 DEF Pause, Unpause, ledger
  <1>5. QED BY <1>1, <1>2, <1>3, <1>4 DEF AdminCall

---------------------------------------------------------------------------
(* Type correctness *)

LEMMA InitTypeOK == Init => TypeOK
  <1>1. DOMAIN EmptyMap = {}
    BY DEF EmptyMap
  <1>2. 0 \in Time /\ 0 \in 0 .. MaxVersion /\ 0 \in 0 .. 0
    BY SnapshotContractConstants DEF Time
  <1>3. QED
    BY <1>1, <1>2 DEF Init, TypeOK, ControlOK, LedgerOK

LEMMA SubmitTypeOK ==
  ASSUME TypeOK, NEW hash \in Bytes, NEW epoch \in 0 .. MaxEpoch,
         SubmitSnapshot(hash, epoch)
  PROVE  TypeOK'
  <1>1. /\ UNCHANGED <<now, admin, stopped, paused, version, upgradeTimestamp>>
        /\ latestEpoch' = epoch
        /\ hash \in Hash
        /\ epoch # 0
    BY DEF SubmitSnapshot, switches, metadata, NewEpoch
  <1>2. epoch \in Epoch
    BY <1>1, SnapshotContractConstants DEF Epoch
  <1>3. [epoch |-> epoch, timestamp |-> now, hash |-> hash] \in Snapshot
    BY <1>1, <1>2 DEF Snapshot, TypeOK, LedgerOK
  <1>4. /\ DOMAIN snapshots' = DOMAIN snapshots \cup {epoch}
        /\ snapshots'[epoch] = [epoch |-> epoch, timestamp |-> now, hash |-> hash]
        /\ \A e \in DOMAIN snapshots : e # epoch => snapshots'[e] = snapshots[e]
    BY DEF SubmitSnapshot, MapSet
  <1>5. LedgerOK'
    BY <1>1, <1>2, <1>3, <1>4 DEF TypeOK, LedgerOK
  <1>6. now \in Nat /\ MaxVersion \in Nat
    BY SnapshotContractConstants DEF TypeOK, LedgerOK, Time
  <1>7. ControlOK'
    <2>1. ControlOK
      BY DEF TypeOK
    <2>2. QED BY <1>1, <1>6, <2>1 DEF ControlOK
  <1>8. QED BY <1>5, <1>7 DEF TypeOK

LEMMA AdminTypeOK == ASSUME TypeOK, AdminCall PROVE TypeOK'
  <1>0. now \in Nat /\ version \in Nat /\ now' = now
    BY AdminLeavesLedger, SnapshotContractConstants
    DEF TypeOK, ControlOK, LedgerOK, Time
  <1>1. ASSUME NEW a \in Address, Initialize(a) PROVE ControlOK'
    <2>1. admin' = a /\ stopped' = FALSE /\ version' = 1 /\ upgradeTimestamp' = now
      BY <1>1 DEF Initialize, CONTRACT_VERSION
    <2>2. paused' = FALSE
      BY <1>1 DEF Initialize, TypeOK, ControlOK
    <2>3. a # NoAddress
      BY SnapshotContractConstants
    <2>4. 1 \in 0 .. MaxVersion /\ now \in 0 .. now
      BY <1>0, SnapshotContractConstants
    <2>5. (stopped \in BOOLEAN /\ paused \in BOOLEAN)' /\ ~stopped' /\ ~paused'
      BY <2>1, <2>2
    <2>6. (upgradeTimestamp \in 0 .. now)' /\ (version \in 0 .. MaxVersion)'
      BY <1>0, <2>1, <2>4
    <2>7. admin' \in Address /\ admin' # NoAddress /\ version' # 0
      BY <2>1, <2>3
    <2>8. QED BY <2>5, <2>6, <2>7 DEF ControlOK
  <1>2. ASSUME NEW a \in Address, TransferAdmin(a) PROVE ControlOK'
    BY <1>0, <1>2, SnapshotContractConstants
    DEF TransferAdmin, AdminSigns, TypeOK, ControlOK, switches, metadata, ledger
  <1>3. CASE StopContract \/ ResumeContract
    <2>1. ControlOK'
      BY <1>0, <1>3, SnapshotContractConstants
      DEF StopContract, ResumeContract, AdminSigns, TypeOK, ControlOK, metadata, ledger
    <2>2. QED BY <2>1, AdminLeavesLedger DEF TypeOK, LedgerOK
  <1>4. ASSUME NEW h \in Bytes, Upgrade(h) PROVE ControlOK'
    <2>1. version' = version + 1 /\ version + 1 \in 1 .. MaxVersion /\ upgradeTimestamp' = now
      BY <1>0, <1>4, SnapshotContractConstants DEF Upgrade
    <2>2. QED
      BY <1>0, <1>4, <2>1, SnapshotContractConstants
      DEF Upgrade, AdminSigns, TypeOK, ControlOK, switches, ledger
  <1>5. ASSUME NEW c \in Address, Pause(c) \/ Unpause(c) PROVE ControlOK'
    BY <1>0, <1>5, SnapshotContractConstants
    DEF Pause, Unpause, IsAdmin, TypeOK, ControlOK, metadata, ledger
  <1>6. ControlOK'
    BY <1>1, <1>2, <1>3, <1>4, <1>5 DEF AdminCall, TypeOK
  <1>7. QED BY <1>6, AdminLeavesLedger DEF TypeOK, LedgerOK

LEMMA NextTypeOK == TypeOK /\ [Next]_vars => TypeOK'
  <1> SUFFICES ASSUME TypeOK, [Next]_vars PROVE TypeOK'
    OBVIOUS
  <1>1. CASE AdminCall
    BY <1>1, AdminTypeOK
  <1>2. ASSUME NEW h \in Bytes, NEW e \in 0 .. MaxEpoch, SubmitSnapshot(h, e)
        PROVE  TypeOK'
    BY <1>2, SubmitTypeOK
  <1>3. CASE LedgerClose
    <2>1. now' = now + 1 /\ now + 1 \in Time /\ now \in Nat
      BY <1>3, SnapshotContractConstants DEF LedgerClose, TypeOK, LedgerOK, Time
    <2>2. ControlOK'
      BY <1>3, <2>1 DEF LedgerClose, TypeOK, ControlOK, switches, metadata
    <2>3. LedgerOK'
      BY <1>3, <2>1 DEF LedgerClose, TypeOK, LedgerOK, ledger
    <2>4. QED BY <2>2, <2>3 DEF TypeOK
  <1>4. CASE UNCHANGED vars
    BY <1>4 DEF vars, switches, metadata, ledger, TypeOK, ControlOK, LedgerOK
  <1>5. QED BY <1>1, <1>2, <1>3, <1>4 DEF Next

\* The stored values keep their types and go together.
THEOREM TypeCorrect == Spec => []TypeOK
  <1>1. TypeOK /\ [Next]_vars => TypeOK'
    BY NextTypeOK
  <1>2. QED BY InitTypeOK, <1>1, PTL DEF Spec

---------------------------------------------------------------------------
(* The ledger *)

\* LatestEpoch is the last key of the map it is stored apart from.
LatestIsLast ==
  /\ latestEpoch = NoEpoch => DOMAIN snapshots = {}
  /\ latestEpoch # NoEpoch => latestEpoch \in DOMAIN snapshots
  /\ \A e \in DOMAIN snapshots : e <= latestEpoch

\* No stored time is in the future: with it, the times follow the epochs.
NoFutureEntries == \A e \in DOMAIN snapshots : snapshots[e].timestamp <= now

LedgerInv == LatestIsLast /\ NoFutureEntries

LEMMA EpochsAreNaturals ==
  ASSUME TypeOK
  PROVE  /\ DOMAIN snapshots \subseteq Nat
         /\ latestEpoch # NoEpoch => latestEpoch \in Nat
         /\ NoEpoch \notin DOMAIN snapshots
         /\ now \in Nat
         /\ \A e \in DOMAIN snapshots : snapshots[e].timestamp \in Nat
  <1>1. Epoch \subseteq Nat /\ Time \subseteq Nat /\ NoEpoch \notin Nat
    BY SnapshotContractConstants DEF Epoch, Time
  <1>2. QED BY <1>1 DEF TypeOK, LedgerOK, Snapshot

LEMMA SubmitFacts ==
  ASSUME TypeOK, LedgerInv, NEW hash \in Bytes, NEW epoch \in 0 .. MaxEpoch,
         SubmitSnapshot(hash, epoch)
  PROVE  /\ ~paused
         /\ hash \in Hash
         /\ epoch \in Epoch
         /\ \A e \in DOMAIN snapshots : e < epoch
         /\ epoch \notin DOMAIN snapshots
         /\ DOMAIN snapshots' = DOMAIN snapshots \cup {epoch}
         /\ snapshots'[epoch] = [epoch |-> epoch, timestamp |-> now, hash |-> hash]
         /\ \A e \in DOMAIN snapshots : snapshots'[e] = snapshots[e]
         /\ latestEpoch' = epoch
         /\ UNCHANGED <<now, admin, stopped, paused, version, upgradeTimestamp>>
  <1>1. /\ ~paused
        /\ hash \in Hash
        /\ epoch # 0
        /\ epoch \notin DOMAIN snapshots
        /\ latestEpoch # NoEpoch => epoch > latestEpoch
        /\ latestEpoch' = epoch
        /\ UNCHANGED <<now, admin, stopped, paused, version, upgradeTimestamp>>
    BY DEF SubmitSnapshot, NewEpoch, switches, metadata
  <1>2. epoch \in Epoch /\ epoch \in Nat
    BY <1>1, SnapshotContractConstants DEF Epoch
  <1>3. ASSUME NEW e \in DOMAIN snapshots PROVE e < epoch
    <2>1. latestEpoch # NoEpoch /\ e <= latestEpoch
      BY DEF LedgerInv, LatestIsLast
    <2>2. e \in Nat /\ latestEpoch \in Nat
      BY <2>1, EpochsAreNaturals
    <2>3. QED BY <1>1, <1>2, <2>1, <2>2
  <1>4. /\ DOMAIN snapshots' = DOMAIN snapshots \cup {epoch}
        /\ snapshots'[epoch] = [epoch |-> epoch, timestamp |-> now, hash |-> hash]
        /\ \A e \in DOMAIN snapshots : snapshots'[e] = snapshots[e]
    BY <1>1 DEF SubmitSnapshot, MapSet
  <1>5. QED BY <1>1, <1>2, <1>3, <1>4

LEMMA NextLedgerInv == TypeOK /\ LedgerInv /\ [Next]_vars => LedgerInv'
  <1> SUFFICES ASSUME TypeOK, LedgerInv, [Next]_vars PROVE LedgerInv'
    OBVIOUS
  <1>0. now \in Nat /\ \A e \in DOMAIN snapshots : snapshots[e].timestamp \in Nat
    BY EpochsAreNaturals
  <1>1. ASSUME NEW h \in Bytes, NEW e \in 0 .. MaxEpoch, SubmitSnapshot(h, e)
        PROVE  LedgerInv'
    <2>1. /\ e \in Nat
          /\ e # NoEpoch
          /\ DOMAIN snapshots \subseteq Nat
      BY EpochsAreNaturals, SnapshotContractConstants
    <2>2. /\ \A d \in DOMAIN snapshots : d < e
          /\ DOMAIN snapshots' = DOMAIN snapshots \cup {e}
          /\ latestEpoch' = e
      BY <1>1, SubmitFacts
    <2>3. /\ snapshots'[e] = [epoch |-> e, timestamp |-> now, hash |-> h]
          /\ \A d \in DOMAIN snapshots : snapshots'[d] = snapshots[d]
          /\ now' = now
      BY <1>1, SubmitFacts
    <2>4. LatestIsLast'
      BY <2>1, <2>2 DEF LatestIsLast
    <2>5. NoFutureEntries'
      BY <1>0, <2>2, <2>3 DEF NoFutureEntries, LedgerInv
    <2>6. QED BY <2>4, <2>5 DEF LedgerInv
  <1>2. CASE AdminCall
    BY <1>2, AdminLeavesLedger DEF LedgerInv, LatestIsLast, NoFutureEntries
  <1>3. CASE LedgerClose
    BY <1>0, <1>3 DEF LedgerClose, ledger, LedgerInv, LatestIsLast, NoFutureEntries
  <1>4. CASE UNCHANGED vars
    BY <1>4 DEF vars, ledger, LedgerInv, LatestIsLast, NoFutureEntries
  <1>5. QED BY <1>1, <1>2, <1>3, <1>4 DEF Next

LEMMA LedgerInvariant == Spec => []LedgerInv
  <1>1. Init => LedgerInv
    BY DEF Init, LedgerInv, LatestIsLast, NoFutureEntries, EmptyMap
  <1>2. TypeOK /\ LedgerInv /\ [Next]_vars => LedgerInv'
    BY NextLedgerInv
  <1>3. QED BY <1>1, <1>2, TypeCorrect, PTL DEF Spec

---------------------------------------------------------------------------
(* What readers are told *)

\* The readers never contradict each other.
THEOREM ReadersCorrect == Spec => []ReadersAgree
  <1>1. TypeOK /\ LedgerInv => ReadersAgree
    <2> SUFFICES ASSUME TypeOK, LedgerInv PROVE ReadersAgree
      OBVIOUS
    <2>1. LatestSnapshot = {} <=> DOMAIN snapshots = {}
      BY DEF LatestSnapshot, LedgerInv, LatestIsLast
    <2>2. ASSUME NEW h \in Hash, VerifyLatestSnapshot(h) PROVE VerifySnapshot(h)
      BY <2>2 DEF VerifyLatestSnapshot, VerifySnapshot, LatestSnapshot
    <2>3. ASSUME NEW h \in Hash, NEW e \in Epoch, VerifySnapshotAtEpoch(h, e)
          PROVE  /\ VerifySnapshot(h)
                 /\ e <= latestEpoch
                 /\ e = latestEpoch => VerifyLatestSnapshot(h)
      BY <2>3
      DEF VerifySnapshotAtEpoch, VerifySnapshot, VerifyLatestSnapshot, LatestSnapshot,
          LedgerInv, LatestIsLast
    <2>4. QED BY <2>1, <2>2, <2>3 DEF ReadersAgree
  <1>2. QED BY <1>1, TypeCorrect, LedgerInvariant, PTL

LEMMA EntriesStay ==
  ASSUME TypeOK, LedgerInv, [Next]_vars, NEW e \in DOMAIN snapshots
  PROVE  e \in DOMAIN snapshots' /\ snapshots'[e] = snapshots[e]
  <1>1. ASSUME NEW h \in Bytes, NEW d \in 0 .. MaxEpoch, SubmitSnapshot(h, d)
        PROVE  e \in DOMAIN snapshots' /\ snapshots'[e] = snapshots[e]
    BY <1>1, SubmitFacts
  <1>2. CASE AdminCall
    BY <1>2, AdminLeavesLedger
  <1>3. CASE LedgerClose \/ UNCHANGED vars
    BY <1>3 DEF LedgerClose, vars, ledger
  <1>4. QED BY <1>1, <1>2, <1>3 DEF Next

\* An entry that was once read stays, stopped or not; so whenever a reader is
\* answered later, it is answered the same.
THEOREM AnswersCorrect == Spec => AnswersStand
  <1>1. ASSUME NEW CONSTANT h \in Hash, NEW CONSTANT e \in Epoch
        PROVE  Spec => [](VerifySnapshotAtEpoch(h, e) =>
                            [](~stopped => VerifySnapshotAtEpoch(h, e)))
    <2> DEFINE Entered == e \in DOMAIN snapshots /\ snapshots[e].hash = h
               Asked == VerifySnapshotAtEpoch(h, e)
               Answered == ~stopped => VerifySnapshotAtEpoch(h, e)
    <2>1. TypeOK /\ LedgerInv /\ Entered /\ [Next]_vars => Entered'
      BY EntriesStay
    <2>2. (Asked => Entered) /\ (Entered => Answered)
      BY DEF VerifySnapshotAtEpoch
    <2> HIDE DEF Entered, Asked, Answered
    <2>3. Spec => [](Asked => []Answered)
      BY <2>1, <2>2, TypeCorrect, LedgerInvariant, PTL DEF Spec
    <2>4. QED BY <2>3 DEF Asked, Answered
  <1>2. QED BY <1>1 DEF AnswersStand

\* The contract is an append-only ledger with non-decreasing times.
THEOREM SnapshotContractImplementsLedger == Spec => ImplementsLedger
  <1>1. Init => Abstract!Init
    BY DEF Init, Abstract!Init, MapValues, EmptyMap
  <1>2. TypeOK /\ LedgerInv /\ [Next]_vars => [Abstract!Next]_(MapValues(snapshots))
    <2> SUFFICES ASSUME TypeOK, LedgerInv, [Next]_vars
                 PROVE  Abstract!Next \/ UNCHANGED MapValues(snapshots)
      OBVIOUS
    <2>1. ASSUME NEW h \in Bytes, NEW e \in 0 .. MaxEpoch, SubmitSnapshot(h, e)
          PROVE  Abstract!Next
      <3>1. PICK t : t = now
        OBVIOUS
      <3> DEFINE entry == [epoch |-> e, timestamp |-> t, hash |-> h]
      <3>2. entry \in Abstract!Entry
        <4>1. e \in Epoch /\ h \in Hash
          BY <2>1, SubmitFacts
        <4>2. QED BY <3>1, <4>1 DEF Abstract!Entry, TypeOK, LedgerOK
      <3>3. MapValues(snapshots') = MapValues(snapshots) \cup {entry}
        <4>1. /\ DOMAIN snapshots' = DOMAIN snapshots \cup {e}
              /\ e \notin DOMAIN snapshots
              /\ snapshots'[e] = entry
              /\ \A d \in DOMAIN snapshots : snapshots'[d] = snapshots[d]
          BY <2>1, <3>1, SubmitFacts
        <4>2. QED BY <4>1 DEF MapValues
      <3>4. ASSUME NEW old \in MapValues(snapshots)
            PROVE  old.epoch < entry.epoch /\ old.timestamp <= entry.timestamp
        <4>1. PICK k \in DOMAIN snapshots : old = snapshots[k]
          BY DEF MapValues
        <4>2. k < e
          BY <2>1, SubmitFacts
        <4>3. old.epoch = k /\ old.timestamp <= now
          BY <4>1 DEF TypeOK, LedgerOK, LedgerInv, NoFutureEntries
        <4>4. QED BY <3>1, <4>2, <4>3
      <3>5. Abstract!Append(entry)
        BY <3>3, <3>4 DEF Abstract!Append, Abstract!Extends, MapValues
      <3>6. QED BY <3>2, <3>5 DEF Abstract!Next
    <2>2. CASE AdminCall
      BY <2>2, AdminLeavesLedger DEF MapValues
    <2>3. CASE LedgerClose \/ UNCHANGED vars
      BY <2>3 DEF LedgerClose, vars, ledger, MapValues
    <2>4. QED BY <2>1, <2>2, <2>3 DEF Next
  <1>3. QED
    BY <1>1, <1>2, TypeCorrect, LedgerInvariant, PTL
    DEF Spec, ImplementsLedger, Abstract!Spec

---------------------------------------------------------------------------
(* The switches *)

\* Stop protects the contract's owner and code, pause its ledger.
THEOREM SwitchesCorrect == Spec => SwitchesHold
  <1>1. TypeOK /\ LedgerInv /\ [Next]_vars =>
          /\ stopped => UNCHANGED <<admin, metadata>>
          /\ paused => UNCHANGED ledger
    <2> SUFFICES ASSUME TypeOK, LedgerInv, [Next]_vars
                 PROVE  /\ stopped => UNCHANGED <<admin, metadata>>
                        /\ paused => UNCHANGED ledger
      OBVIOUS
    <2>1. ASSUME NEW h \in Bytes, NEW e \in 0 .. MaxEpoch, SubmitSnapshot(h, e)
          PROVE  ~paused /\ UNCHANGED <<admin, metadata>>
      BY <2>1, SubmitFacts DEF metadata
    <2>2. ASSUME AdminCall, stopped PROVE UNCHANGED <<admin, metadata>>
      <3>1. ASSUME NEW a \in Address, Initialize(a) \/ TransferAdmin(a) PROVE FALSE
        BY <2>2, <3>1 DEF Initialize, TransferAdmin, TypeOK, ControlOK
      <3>2. ASSUME NEW h \in Bytes, Upgrade(h) PROVE FALSE
        BY <2>2, <3>2 DEF Upgrade
      <3>3. CASE StopContract \/ ResumeContract
        BY <3>3 DEF StopContract, ResumeContract, metadata
      <3>4. ASSUME NEW c \in Address, Pause(c) \/ Unpause(c)
            PROVE  UNCHANGED <<admin, metadata>>
        BY <3>4 DEF Pause, Unpause, metadata
      <3>5. QED BY <2>2, <3>1, <3>2, <3>3, <3>4 DEF AdminCall
    <2>3. AdminCall => UNCHANGED ledger
      BY AdminLeavesLedger DEF ledger
    <2>4. CASE LedgerClose \/ UNCHANGED vars
      BY <2>4 DEF LedgerClose, vars, metadata, ledger
    <2>5. QED BY <2>1, <2>2, <2>3, <2>4 DEF Next
  <1>2. QED BY <1>1, TypeCorrect, LedgerInvariant, PTL DEF Spec, SwitchesHold
===========================================================================
