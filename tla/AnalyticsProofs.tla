-------------------------- MODULE AnalyticsProofs --------------------------
(***************************************************************************)
(* Proofs about the analytics contract, for any addresses, hashes and      *)
(* number of epochs.                                                       *)
(***************************************************************************)
EXTENDS Analytics, TLAPS

\* The configuration calls leave the ledger alone.
LedgerUntouched == UNCHANGED <<now, latestEpoch, snapshots>>

\* What a step may be, seen from the ledger: initialize finds it empty.
LEMMA StepCases ==
  ASSUME TypeOK, [Next]_vars
  PROVE  \/ \E caller \in Signer, epoch \in Epoch, hash \in Hash :
              SubmitSnapshot(epoch, hash, caller)
         \/ LedgerUntouched
         \/ LedgerClose
  <1>1. ASSUME NEW a \in Address, Initialize(a) PROVE LedgerUntouched
    BY <1>1 DEF Initialize, TypeOK, LedgerUntouched
  <1>2. ASSUME NEW c \in Signer, NEW a \in Address, SetAdmin(c, a) \/ SetGovernance(c, a)
        PROVE  LedgerUntouched
    BY <1>2 DEF SetAdmin, SetGovernance, LedgerUntouched
  <1>3. ASSUME NEW c \in Signer, Pause(c) \/ Unpause(c) PROVE LedgerUntouched
    BY <1>3 DEF Pause, Unpause, LedgerUntouched
  <1>4. ASSUME NEW c \in Address, NEW a \in Address, SetAdminByGovernance(c, a)
        PROVE  LedgerUntouched
    BY <1>4 DEF SetAdminByGovernance, LedgerUntouched
  <1>5. ASSUME NEW c \in Address, NEW p \in BOOLEAN, SetPausedByGovernance(c, p)
        PROVE  LedgerUntouched
    BY <1>5 DEF SetPausedByGovernance, LedgerUntouched
  <1>6. CASE UNCHANGED vars
    BY <1>6 DEF vars, LedgerUntouched
  <1>7. QED BY <1>1, <1>2, <1>3, <1>4, <1>5, <1>6 DEF Next, Call

---------------------------------------------------------------------------
(* Type correctness *)

LEMMA InitTypeOK == Init => TypeOK
  <1>1. DOMAIN EmptyMap = {}
    BY DEF EmptyMap
  <1>2. 0 \in Time /\ 0 \in 0 .. MaxEpoch
    BY AnalyticsConstants DEF Time
  <1>3. QED BY <1>1, <1>2 DEF Init, TypeOK

LEMMA SubmitTypeOK ==
  ASSUME TypeOK, NEW epoch \in Epoch, NEW hash \in Hash, NEW caller \in Signer,
         SubmitSnapshot(epoch, hash, caller)
  PROVE  TypeOK'
  <1>1. /\ UNCHANGED <<now, admin, paused, governance>>
        /\ admin # NoAddress
        /\ latestEpoch' = epoch
    BY DEF SubmitSnapshot, IsAdmin
  <1>2. [epoch |-> epoch, timestamp |-> now, hash |-> hash] \in SnapshotMetadata
    BY DEF SnapshotMetadata, TypeOK
  <1>3. /\ DOMAIN snapshots' = DOMAIN snapshots \cup {epoch}
        /\ snapshots'[epoch] = [epoch |-> epoch, timestamp |-> now, hash |-> hash]
        /\ \A e \in DOMAIN snapshots : e # epoch => snapshots'[e] = snapshots[e]
    BY DEF SubmitSnapshot, MapSet
  <1>4. epoch \in 0 .. MaxEpoch
    BY AnalyticsConstants DEF Epoch
  <1>5. QED BY <1>1, <1>2, <1>3, <1>4 DEF TypeOK

LEMMA NextTypeOK == TypeOK /\ [Next]_vars => TypeOK'
  <1> SUFFICES ASSUME TypeOK, [Next]_vars PROVE TypeOK'
    OBVIOUS
  <1>1. ASSUME NEW a \in Address, Initialize(a) PROVE TypeOK'
    BY <1>1, AnalyticsConstants DEF Initialize, TypeOK, EmptyMap
  <1>2. ASSUME NEW c \in Signer, NEW a \in Address, SetAdmin(c, a) \/ SetGovernance(c, a)
        PROVE  TypeOK'
    BY <1>2, AnalyticsConstants DEF SetAdmin, SetGovernance, IsAdmin, TypeOK
  <1>3. ASSUME NEW c \in Signer, Pause(c) \/ Unpause(c) PROVE TypeOK'
    BY <1>3 DEF Pause, Unpause, IsAdmin, TypeOK
  <1>4. ASSUME NEW c \in Address, NEW a \in Address, SetAdminByGovernance(c, a)
        PROVE  TypeOK'
    BY <1>4, AnalyticsConstants DEF SetAdminByGovernance, IsGovernance, TypeOK
  <1>5. ASSUME NEW c \in Address, NEW p \in BOOLEAN, SetPausedByGovernance(c, p)
        PROVE  TypeOK'
    BY <1>5 DEF SetPausedByGovernance, IsGovernance, TypeOK
  <1>6. ASSUME NEW c \in Signer, NEW e \in Epoch, NEW h \in Hash, SubmitSnapshot(e, h, c)
        PROVE  TypeOK'
    BY <1>6, SubmitTypeOK
  <1>7. CASE LedgerClose
    BY <1>7, AnalyticsConstants DEF LedgerClose, TypeOK, Time
  <1>8. CASE UNCHANGED vars
    BY <1>8 DEF vars, TypeOK
  <1>9. QED BY <1>1, <1>2, <1>3, <1>4, <1>5, <1>6, <1>7, <1>8 DEF Next, Call

THEOREM TypeCorrect == Spec => []TypeOK
  <1>1. TypeOK /\ [Next]_vars => TypeOK'
    BY NextTypeOK
  <1>2. QED BY InitTypeOK, <1>1, PTL DEF Spec

---------------------------------------------------------------------------
(* The ledger *)

\* No stored time is in the future: with it, the times follow the epochs.
NoFutureEntries == \A e \in DOMAIN snapshots : snapshots[e].timestamp <= now

LedgerInv == LatestEpochIsLast /\ NoFutureEntries

LEMMA SubmitFacts ==
  ASSUME TypeOK, LedgerInv, NEW epoch \in Epoch, NEW hash \in Hash, NEW caller \in Signer,
         SubmitSnapshot(epoch, hash, caller)
  PROVE  /\ epoch \notin DOMAIN snapshots
         /\ \A e \in DOMAIN snapshots : e < epoch
         /\ DOMAIN snapshots' = DOMAIN snapshots \cup {epoch}
         /\ snapshots'[epoch] = [epoch |-> epoch, timestamp |-> now, hash |-> hash]
         /\ \A e \in DOMAIN snapshots : snapshots'[e] = snapshots[e]
         /\ latestEpoch' = epoch
         /\ now' = now
  <1>1. /\ epoch > latestEpoch
        /\ latestEpoch' = epoch
        /\ now' = now
        /\ snapshots' = MapSet(snapshots, epoch,
                          [epoch |-> epoch, timestamp |-> now, hash |-> hash])
    BY DEF SubmitSnapshot, NewEpoch
  <1>2. epoch \in Nat /\ latestEpoch \in Nat /\ DOMAIN snapshots \subseteq Nat
    BY AnalyticsConstants DEF Epoch, TypeOK
  <1>3. \A e \in DOMAIN snapshots : e < epoch
    BY <1>1, <1>2 DEF LedgerInv, LatestEpochIsLast
  <1>4. epoch \notin DOMAIN snapshots
    BY <1>2, <1>3
  <1>5. QED BY <1>1, <1>3, <1>4 DEF MapSet

LEMMA NextLedgerInv == TypeOK /\ LedgerInv /\ [Next]_vars => LedgerInv'
  <1> SUFFICES ASSUME TypeOK, LedgerInv, [Next]_vars PROVE LedgerInv'
    OBVIOUS
  <1>0. now \in Nat /\ \A e \in DOMAIN snapshots : snapshots[e].timestamp \in Nat
    BY AnalyticsConstants DEF TypeOK, Time, SnapshotMetadata
  <1>1. ASSUME NEW c \in Signer, NEW e \in Epoch, NEW h \in Hash, SubmitSnapshot(e, h, c)
        PROVE  LedgerInv'
    <2>1. e \in Nat /\ e > 0
      BY AnalyticsConstants DEF Epoch
    <2>2. DOMAIN snapshots \subseteq Nat
      BY AnalyticsConstants DEF Epoch, TypeOK
    <2>3. /\ \A d \in DOMAIN snapshots : d < e
          /\ DOMAIN snapshots' = DOMAIN snapshots \cup {e}
          /\ latestEpoch' = e
      BY <1>1, SubmitFacts
    <2>4. /\ snapshots'[e] = [epoch |-> e, timestamp |-> now, hash |-> h]
          /\ \A d \in DOMAIN snapshots : snapshots'[d] = snapshots[d]
          /\ now' = now
      BY <1>1, SubmitFacts
    <2>5. LatestEpochIsLast'
      BY <2>1, <2>2, <2>3 DEF LatestEpochIsLast
    <2>6. NoFutureEntries'
      BY <1>0, <2>3, <2>4 DEF NoFutureEntries, LedgerInv
    <2>7. QED BY <2>5, <2>6 DEF LedgerInv
  <1>2. CASE LedgerUntouched
    BY <1>2 DEF LedgerUntouched, LedgerInv, LatestEpochIsLast, NoFutureEntries
  <1>3. CASE LedgerClose
    BY <1>0, <1>3 DEF LedgerClose, LedgerInv, LatestEpochIsLast, NoFutureEntries
  <1>4. QED BY <1>1, <1>2, <1>3, StepCases

LEMMA InitLedgerInv == Init => LedgerInv
  BY DEF Init, LedgerInv, LatestEpochIsLast, NoFutureEntries, EmptyMap

LEMMA LedgerInvariant == Spec => []LedgerInv
  <1>1. TypeOK /\ LedgerInv /\ [Next]_vars => LedgerInv'
    BY NextLedgerInv
  <1>2. QED BY InitLedgerInv, <1>1, TypeCorrect, PTL DEF Spec

\* LatestEpoch is the last key of the map it is stored apart from.
THEOREM LatestEpochCorrect == Spec => []LatestEpochIsLast
  <1>1. LedgerInv => LatestEpochIsLast
    BY DEF LedgerInv
  <1>2. QED BY <1>1, LedgerInvariant, PTL

\* The contract is an append-only ledger with non-decreasing times.
THEOREM AnalyticsImplementsLedger == Spec => ImplementsLedger
  <1>1. Init => Abstract!Init
    BY DEF Init, Abstract!Init, MapValues, EmptyMap
  <1>2. TypeOK /\ LedgerInv /\ [Next]_vars => [Abstract!Next]_(MapValues(snapshots))
    <2> SUFFICES ASSUME TypeOK, LedgerInv, [Next]_vars
                 PROVE  Abstract!Next \/ UNCHANGED MapValues(snapshots)
      OBVIOUS
    <2>1. ASSUME NEW c \in Signer, NEW e \in Epoch, NEW h \in Hash, SubmitSnapshot(e, h, c)
          PROVE  Abstract!Next
      <3>1. PICK t : t = now
        OBVIOUS
      <3> DEFINE entry == [epoch |-> e, timestamp |-> t, hash |-> h]
      <3>2. entry \in Abstract!Entry
        BY <3>1 DEF Abstract!Entry, TypeOK
      <3>3. MapValues(snapshots') = MapValues(snapshots) \cup {entry}
        <4>1. /\ DOMAIN snapshots' = DOMAIN snapshots \cup {e}
              /\ e \notin DOMAIN snapshots
              /\ snapshots'[e] = entry
              /\ \A d \in DOMAIN snapshots : snapshots'[d] = snapshots[d]
          BY <2>1, <3>1, SubmitFacts
        <4>2. QED BY <4>1 DEF MapValues
      <3>4. ASSUME NEW old \in MapValues(snapshots)
            PROVE  old.epoch < entry.epoch /\ old.timestamp <= entry.timestamp
        <4>1. PICK k \in DOMAIN snapshots : old = snapshots[k]
          BY DEF MapValues
        <4>2. k < e
          BY <2>1, SubmitFacts
        <4>3. old.epoch = k /\ old.timestamp <= now
          BY <4>1 DEF TypeOK, LedgerInv, NoFutureEntries
        <4>4. QED BY <3>1, <4>2, <4>3
      <3>5. Abstract!Append(entry)
        BY <3>3, <3>4 DEF Abstract!Append, Abstract!Extends, MapValues
      <3>6. QED BY <3>2, <3>5 DEF Abstract!Next
    <2>2. CASE LedgerUntouched \/ LedgerClose
      BY <2>2 DEF LedgerUntouched, LedgerClose, MapValues
    <2>3. QED BY <2>1, <2>2, StepCases
  <1>3. QED
    BY <1>1, <1>2, TypeCorrect, LedgerInvariant, PTL
    DEF Spec, ImplementsLedger, Abstract!Spec

---------------------------------------------------------------------------
(* The pause *)

\* No call records anything while the contract is paused.
THEOREM PauseHolds == Spec => PausedLedgerIsFrozen
  <1>1. TypeOK /\ [Next]_vars => [paused => snapshots' = snapshots]_<<paused, snapshots>>
    <2> SUFFICES ASSUME TypeOK, [Next]_vars, paused PROVE snapshots' = snapshots
      OBVIOUS
    <2>1. ~ \E c \in Signer, e \in Epoch, h \in Hash : SubmitSnapshot(e, h, c)
      BY DEF SubmitSnapshot
    <2>2. QED BY <2>1, StepCases DEF LedgerUntouched, LedgerClose
  <1>2. QED BY <1>1, TypeCorrect, PTL DEF Spec, PausedLedgerIsFrozen
===========================================================================
