---------------------- MODULE SnapshotPipelineProofs ----------------------
(***************************************************************************)
(* Proofs about the snapshot pipeline, for any number of requests, any     *)
(* epochs and hashes, and any other clients of the contract.               *)
(***************************************************************************)
EXTENDS SnapshotPipeline, TLAPS

---------------------------------------------------------------------------
(* What the contract does to its map *)

LEMMA AdminKeepsSnapshots ==
  ASSUME Contract!AdminCall \/ Contract!LedgerClose
  PROVE  snapshots' = snapshots
  <1>1. ASSUME NEW a \in Address, Contract!Initialize(a) \/ Contract!TransferAdmin(a)
        PROVE  snapshots' = snapshots
    BY <1>1 DEF Contract!Initialize, Contract!TransferAdmin, Contract!ledger
  <1>2. CASE Contract!StopContract \/ Contract!ResumeContract \/ Contract!LedgerClose
    BY <1>2 DEF Contract!StopContract, Contract!ResumeContract, Contract!LedgerClose,
                Contract!ledger
  <1>3. ASSUME NEW h \in Hash, Contract!Upgrade(h) PROVE snapshots' = snapshots
    BY <1>3 DEF Contract!Upgrade, Contract!ledger
  <1>4. ASSUME NEW c \in Address, Contract!Pause(c) \/ Contract!Unpause(c)
        PROVE  snapshots' = snapshots
    BY <1>4 DEF Contract!Pause, Contract!Unpause, Contract!ledger
  <1>5. QED BY <1>1, <1>2, <1>3, <1>4 DEF Contract!AdminCall

LEMMA SubmitAddsOne ==
  ASSUME NEW h, NEW e, Contract!SubmitSnapshot(h, e)
  PROVE  /\ e \notin DOMAIN snapshots
         /\ DOMAIN snapshots' = DOMAIN snapshots \cup {e}
         /\ snapshots'[e].hash = h
         /\ \A d \in DOMAIN snapshots : snapshots'[d] = snapshots[d]
  BY DEF Contract!SubmitSnapshot, Contract!NewEpoch, Contract!MapSet

\* One request moves, and the contract does not.
LEMMA RequestFrame ==
  ASSUME NEW r \in Request,
         Generate(r) \/ Proceed(r) \/ Drop(r)
  PROVE  UNCHANGED <<snapshots, configured, epochOf, hashOf>>
  BY DEF Generate, Proceed, Drop, Store, Unconfigured, Send, Accepted, Fail, Verify,
         contractVars

---------------------------------------------------------------------------
(* The order of the steps *)

\* A wrapped epoch fits the column.
LEMMA RowType ==
  ASSUME NEW tx \in Transaction
  PROVE  RowOf(tx) \in Row
  <1>1. tx.epoch \in Nat /\ tx.epoch <= MaxEpoch /\ tx.hash \in OwnHash
    BY PipelineConstants DEF Transaction, Epoch
  <1>2. AsI64(tx.epoch) \in -MaxI64 - 1 .. MaxI64
    BY <1>1, PipelineConstants DEF AsI64
  <1>3. QED BY <1>1, <1>2 DEF RowOf, Row

LEMMA InitTypeOK == Init => TypeOK
  BY DEF Init, TypeOK, Ended

LEMMA RequestTypeOK ==
  ASSUME TypeOK, NEW r \in Request, Generate(r) \/ Proceed(r) \/ Drop(r)
  PROVE  TypeOK'
  <1>0. /\ Content(r) \in Transaction
        /\ RowOf(Content(r)) \in Row
        /\ \A q \in Request : RowOf(Content(q))' = RowOf(Content(q))
    BY RequestFrame, RowType DEF TypeOK, Content, Transaction, RowOf
  <1>1. CASE Generate(r)
    BY <1>0, <1>1 DEF Generate, GoTo, TypeOK, Ended
  <1>2. CASE Store(r)
    BY <1>0, <1>2 DEF Store, GoTo, TypeOK, Ended
  <1>3. CASE Unconfigured(r)
    BY <1>0, <1>3 DEF Unconfigured, GoTo, TypeOK, Ended
  <1>4. CASE Send(r)
    BY <1>0, <1>4 DEF Send, GoTo, TypeOK, Ended
  <1>5. CASE Accepted(r)
    BY <1>0, <1>5 DEF Accepted, GoTo, TypeOK, Ended
  <1>6. CASE Fail(r) \/ Drop(r)
    BY <1>0, <1>6 DEF Fail, Drop, GoTo, TypeOK, Ended
  <1>7. CASE Verify(r)
    <2>1. PICK a \in BOOLEAN : verified' = [verified EXCEPT ![r] = a]
      BY <1>7 DEF Verify, Contract!VerifySnapshotAtEpoch
    <2>2. QED BY <1>0, <1>7, <2>1 DEF Verify, GoTo, TypeOK, Ended
  <1>8. QED BY <1>1, <1>2, <1>3, <1>4, <1>5, <1>6, <1>7 DEF Proceed

\* The network and the other clients move no request.
LEMMA NetworkTypeOK ==
  ASSUME TypeOK,
         OtherCall \/ (\E tx \in inFlight : Land(tx) \/ Lose(tx)) \/ Crash \/ UNCHANGED vars
  PROVE  TypeOK'
  <1>1. CASE OtherCall
    BY <1>1 DEF OtherCall, requestVars, TypeOK, Content
  <1>2. CASE \E tx \in inFlight : Land(tx) \/ Lose(tx)
    BY <1>2 DEF Land, Lose, requestVars, TypeOK, Content
  <1>3. CASE Crash
    BY <1>3 DEF Crash, TypeOK, Content, Ended
  <1>4. CASE UNCHANGED vars
    BY <1>4 DEF vars, requestVars, TypeOK, Content
  <1>5. QED BY <1>1, <1>2, <1>3, <1>4

\* What was sent was stored first, and what was verified went all the way.
THEOREM TypeCorrect == Spec => []TypeOK
  <1>1. TypeOK /\ [Next]_vars => TypeOK'
    BY RequestTypeOK, NetworkTypeOK DEF Next
  <1>2. QED BY InitTypeOK, <1>1, PTL DEF Spec

---------------------------------------------------------------------------
(* The ledger and the database *)

\* A step leaves the contract's map alone or adds one epoch to it, and only a
\* transaction of ours adds a hash of ours.
LEMMA SnapshotsGrow ==
  ASSUME TypeOK, [Next]_vars
  PROVE  \/ snapshots' = snapshots
         \/ \E h \in Hash, e \in Epoch :
              /\ Contract!SubmitSnapshot(h, e)
              /\ h \in OwnHash => RowOf([epoch |-> e, hash |-> h]) \in rows
  <1>1. ASSUME NEW r \in Request, Generate(r) \/ Proceed(r) \/ Drop(r)
        PROVE  snapshots' = snapshots
    BY <1>1, RequestFrame
  <1>2. ASSUME NEW tx \in inFlight, Land(tx)
        PROVE  \E h \in Hash, e \in Epoch :
                 /\ Contract!SubmitSnapshot(h, e)
                 /\ h \in OwnHash => RowOf([epoch |-> e, hash |-> h]) \in rows
    <2>1. RowOf(tx) \in rows /\ tx \in Transaction
      BY DEF TypeOK
    <2>2. tx.hash \in Hash /\ tx.epoch \in Epoch /\ tx = [epoch |-> tx.epoch, hash |-> tx.hash]
      BY <2>1 DEF Transaction, Hash
    <2>3. QED BY <1>2, <2>1, <2>2 DEF Land
  <1>3. ASSUME NEW tx \in inFlight, Lose(tx) PROVE snapshots' = snapshots
    BY <1>3 DEF Lose, contractVars
  <1>4. CASE Crash \/ UNCHANGED vars
    BY <1>4 DEF Crash, vars, contractVars
  <1>5. CASE OtherCall
    <2>1. CASE Contract!AdminCall \/ Contract!LedgerClose
      BY <2>1, AdminKeepsSnapshots
    <2>2. CASE \E h \in OtherHash, e \in Epoch : Contract!SubmitSnapshot(h, e)
      BY <2>2, PipelineConstants DEF Hash
    <2>3. QED BY <1>5, <2>1, <2>2 DEF OtherCall
  <1>6. QED BY <1>1, <1>2, <1>3, <1>4, <1>5 DEF Next

\* So what is on the ledger stays there.
LEMMA AnchorsStay ==
  ASSUME TypeOK, [Next]_vars, NEW e \in DOMAIN snapshots
  PROVE  e \in DOMAIN snapshots' /\ snapshots'[e] = snapshots[e]
  BY SnapshotsGrow, SubmitAddsOne

LEMMA RowsStay == ASSUME [Next]_vars PROVE rows \subseteq rows'
  BY DEF Next, Generate, Proceed, Drop, Store, Unconfigured, Send, Accepted, Fail, Verify,
         Crash, Land, Lose, OtherCall, vars

\* A verified request's hash is on the ledger at its epoch, now and later.
THEOREM VerificationCorrect == Spec => []VerifiedIsAnchored
  <1>1. Init => VerifiedIsAnchored
    BY DEF Init, VerifiedIsAnchored
  <1>2. TypeOK /\ VerifiedIsAnchored /\ [Next]_vars => VerifiedIsAnchored'
    <2> SUFFICES ASSUME TypeOK, VerifiedIsAnchored, [Next]_vars,
                        NEW r \in Request, verified'[r]
                 PROVE  /\ epochOf'[r] \in DOMAIN snapshots'
                        /\ snapshots'[epochOf'[r]].hash = hashOf'[r]
      BY DEF VerifiedIsAnchored
    <2>1. epochOf' = epochOf /\ hashOf' = hashOf
      BY RequestFrame DEF Next, Crash, Land, Lose, OtherCall, requestVars, vars
    <2>2. /\ epochOf[r] \in DOMAIN snapshots
          /\ snapshots[epochOf[r]].hash = hashOf[r]
      <3>1. CASE verified[r]
        BY <3>1 DEF VerifiedIsAnchored
      <3>2. CASE ~verified[r]
        <4>1. verified' # verified
          BY <3>2
        <4>2. PICK q \in Request : Verify(q)
          BY <4>1 DEF Next, Generate, Proceed, Drop, Store, Unconfigured, Send, Accepted,
             Fail, Crash, Land, Lose, OtherCall, requestVars, vars
        <4>3. r = q /\ Contract!VerifySnapshotAtEpoch(hashOf[r], epochOf[r])
          BY <3>2, <4>2 DEF Verify, TypeOK
        <4>4. QED BY <4>3 DEF Contract!VerifySnapshotAtEpoch
      <3>3. QED BY <3>1, <3>2
    <2>3. QED BY <2>1, <2>2, AnchorsStay
  <1>3. QED BY <1>1, <1>2, TypeCorrect, PTL DEF Spec

\* Nothing of ours is on the ledger that is not in the database.
THEOREM AnchoringCorrect == Spec => []AnchoredIsStored
  <1>1. Init => AnchoredIsStored
    BY DEF Init, Contract!Init, Contract!EmptyMap, AnchoredIsStored
  <1>2. TypeOK /\ AnchoredIsStored /\ [Next]_vars => AnchoredIsStored'
    <2> SUFFICES ASSUME TypeOK, AnchoredIsStored, [Next]_vars,
                        NEW e \in DOMAIN snapshots', snapshots'[e].hash \in OwnHash
                 PROVE  RowOf([epoch |-> e, hash |-> snapshots'[e].hash]) \in rows'
      BY DEF AnchoredIsStored
    <2>1. CASE e \in DOMAIN snapshots
      BY <2>1, AnchorsStay, RowsStay DEF AnchoredIsStored
    <2>2. CASE e \notin DOMAIN snapshots
      <3>1. PICK h \in Hash, d \in Epoch :
              /\ Contract!SubmitSnapshot(h, d)
              /\ h \in OwnHash => RowOf([epoch |-> d, hash |-> h]) \in rows
        BY <2>2, SnapshotsGrow
      <3>2. d = e /\ snapshots'[e].hash = h
        <4>1. DOMAIN snapshots' = DOMAIN snapshots \cup {d} /\ snapshots'[d].hash = h
          BY <3>1, SubmitAddsOne
        <4>2. QED BY <2>2, <4>1
      <3>3. QED BY <3>1, <3>2, RowsStay
    <2>3. QED BY <2>1, <2>2
  <1>3. QED BY <1>1, <1>2, TypeCorrect, PTL DEF Spec

\* What a request was told stays true: once it has reported verification, the
\* contract answers an auditor who asks for its hash at its epoch with yes,
\* whenever it answers at all, for ever.
THEOREM VerificationIsForEver ==
  ASSUME NEW CONSTANT r \in Request, NEW CONSTANT h, NEW CONSTANT e
  PROVE  Spec =>
           [](verified[r] /\ hashOf[r] = h /\ epochOf[r] = e =>
                [](~stopped => Contract!VerifySnapshotAtEpoch(h, e)))
  <1> DEFINE Told == verified[r] /\ hashOf[r] = h /\ epochOf[r] = e
             Answered == ~stopped => Contract!VerifySnapshotAtEpoch(h, e)
  <1>1. TypeOK /\ Told /\ [Next]_vars => Told'
    <2> SUFFICES ASSUME TypeOK, Told, [Next]_vars PROVE Told'
      OBVIOUS
    <2>1. epochOf' = epochOf /\ hashOf' = hashOf
      BY RequestFrame DEF Next, Crash, Land, Lose, OtherCall, requestVars, vars
    <2>2. place[r] = "done"
      BY DEF TypeOK
    <2>3. ASSUME NEW q \in Request, Generate(q) \/ Proceed(q) \/ Drop(q)
          PROVE  verified'[r]
      <3>1. CASE Verify(q)
        BY <2>2, <3>1 DEF Verify, TypeOK
      <3>2. CASE ~Verify(q)
        BY <2>3, <3>2 DEF Generate, Proceed, Drop, Store, Unconfigured, Send, Accepted, Fail
      <3>3. QED BY <3>1, <3>2
    <2>4. CASE Crash \/ OtherCall \/ (\E tx \in inFlight : Land(tx) \/ Lose(tx))
      BY <2>4 DEF Crash, OtherCall, Land, Lose, requestVars
    <2>5. CASE UNCHANGED vars
      BY <2>5 DEF vars, requestVars
    <2>6. QED BY <2>1, <2>3, <2>4, <2>5 DEF Next
  <1>2. VerifiedIsAnchored /\ Told => Answered
    BY DEF VerifiedIsAnchored, Contract!VerifySnapshotAtEpoch
  <1> HIDE DEF Told, Answered
  <1>3. Spec => [](Told => []Answered)
    BY <1>1, <1>2, TypeCorrect, VerificationCorrect, PTL DEF Spec
  <1>4. QED BY <1>3 DEF Told, Answered

---------------------------------------------------------------------------
(* The order of the awaits *)

\* The requests' places in the order of generate_and_submit_snapshot.
Rank == [idle |-> 0, generated |-> 1, stored |-> 2, sending |-> 3, submitted |-> 4,
         failed |-> 5, done |-> 5]

\* No request goes back to an await it has passed; only sending is repeated.
RequestsAdvance ==
  [][\A r \in Request : place'[r] # place[r] => Rank[place'[r]] > Rank[place[r]]]_vars

\* The half of RequestsEnd that needs no fairness: crashes, drops and errors
\* included, a request takes at most five steps but for what it sends again.
THEOREM RequestsOnlyAdvance == Spec => RequestsAdvance
  <1> DEFINE Advances ==
        \A r \in Request : place'[r] # place[r] => Rank[place'[r]] > Rank[place[r]]
  <1>1. TypeOK /\ [Next]_vars => [Advances]_vars
    <2> SUFFICES ASSUME TypeOK, Next, NEW r \in Request, place'[r] # place[r]
                 PROVE  Rank[place'[r]] > Rank[place[r]]
      OBVIOUS
    <2>1. ASSUME NEW q \in Request, Generate(q) \/ Proceed(q) \/ Drop(q)
          PROVE  /\ q = r
                 /\ \/ place[r] = "idle" /\ place'[r] = "generated"
                    \/ place[r] = "generated" /\ place'[r] = "stored"
                    \/ place[r] = "stored" /\ place'[r] \in {"sending", "done"}
                    \/ place[r] = "sending" /\ place'[r] = "submitted"
                    \/ place[r] = "submitted" /\ place'[r] = "done"
                    \/ place[r] \notin Ended /\ place'[r] = "failed"
      BY <2>1 DEF Generate, Proceed, Drop, Store, Unconfigured, Send, Accepted, Fail, Verify,
         GoTo, TypeOK, Ended
    <2>2. CASE Crash
      <3>1. place[r] \notin Ended /\ place'[r] = "failed"
        BY <2>2 DEF Crash, TypeOK
      <3>2. QED BY <3>1 DEF TypeOK, Ended, Rank
    <2>3. ~(OtherCall \/ (\E tx \in inFlight : Land(tx) \/ Lose(tx)))
      BY DEF OtherCall, Land, Lose, requestVars
    <2>4. QED BY <2>1, <2>2, <2>3 DEF Next, TypeOK, Ended, Rank
  <1>2. QED BY <1>1, TypeCorrect, PTL DEF Spec, RequestsAdvance

---------------------------------------------------------------------------
(* The contract under the pipeline *)

\* The pipeline and the other clients use the contract through its interface,
\* so that it implements its own specification in their company.
LEMMA ContractKeepsItsSpec == Spec => Contract!Spec
  <1>1. Init => Contract!Init
    BY DEF Init
  <1>2. TypeOK /\ [Next]_vars => [Contract!Next]_(Contract!vars)
    <2> SUFFICES ASSUME TypeOK, [Next]_vars PROVE [Contract!Next]_(Contract!vars)
      OBVIOUS
    <2>1. ASSUME UNCHANGED contractVars PROVE UNCHANGED Contract!vars
      BY <2>1 DEF contractVars, Contract!vars
    <2>2. ASSUME NEW h \in Hash, NEW e \in Epoch, Contract!SubmitSnapshot(h, e)
          PROVE  Contract!Next
      <3>1. e \in 0 .. MaxEpoch
        BY PipelineConstants DEF Epoch
      <3>2. QED BY <2>2, <3>1 DEF Contract!Next
    <2>3. ASSUME NEW r \in Request, Generate(r) \/ Proceed(r) \/ Drop(r)
          PROVE  UNCHANGED contractVars
      BY <2>3 DEF Generate, Proceed, Drop, Store, Unconfigured, Send, Accepted, Fail, Verify
    <2>4. ASSUME NEW tx \in inFlight, Land(tx) PROVE Contract!Next
      <3>1. tx.hash \in Hash /\ tx.epoch \in Epoch
        BY DEF TypeOK, Transaction, Hash
      <3>2. QED BY <2>2, <2>4, <3>1 DEF Land
    <2>5. ASSUME NEW tx \in inFlight, Lose(tx) PROVE UNCHANGED contractVars
      BY <2>5 DEF Lose
    <2>6. CASE OtherCall
      BY <2>2, <2>6 DEF OtherCall, Contract!Next, Hash
    <2>7. CASE Crash \/ UNCHANGED vars
      BY <2>1, <2>7 DEF Crash, vars
    <2>8. QED BY <2>1, <2>3, <2>4, <2>5, <2>6, <2>7 DEF Next
  <1>3. QED BY <1>1, <1>2, TypeCorrect, PTL DEF Spec, Contract!Spec

\* The theorems about the contract, for the contract under the pipeline.
Facts == INSTANCE SnapshotContractProofs WITH Bytes <- Hash

\* The promises of the contract hold in the pipeline's company: its readers
\* agree, its answers stand, its switches hold and its ledger only grows.
THEOREM ContractKeepsItsPromises ==
  Spec => /\ []Contract!ReadersAgree
          /\ Contract!AnswersStand
          /\ Contract!SwitchesHold
          /\ Contract!ImplementsLedger
  <1>1. Facts!SnapshotContractConstants
    BY PipelineConstants DEF Facts!SnapshotContractConstants, Hash
  <1>2. Contract!Init => Facts!Init
    BY DEF Contract!Init, Facts!Init, Contract!EmptyMap, Facts!EmptyMap
  <1>3. [Contract!Next]_(Contract!vars) => [Facts!Next]_(Facts!vars)
    BY DEF Contract!Next, Facts!Next, Contract!vars, Facts!vars,
      Contract!switches, Facts!switches,
      Contract!metadata, Facts!metadata, Contract!ledger, Facts!ledger,
      Contract!AdminCall, Facts!AdminCall, Contract!SubmitSnapshot, Facts!SubmitSnapshot,
      Contract!LedgerClose, Facts!LedgerClose, Contract!Initialize, Facts!Initialize,
      Contract!TransferAdmin, Facts!TransferAdmin, Contract!StopContract, Facts!StopContract,
      Contract!ResumeContract, Facts!ResumeContract, Contract!Upgrade, Facts!Upgrade,
      Contract!Pause, Facts!Pause, Contract!Unpause, Facts!Unpause,
      Contract!AdminSigns, Facts!AdminSigns, Contract!IsAdmin, Facts!IsAdmin,
      Contract!NewEpoch, Facts!NewEpoch, Contract!MapSet, Facts!MapSet,
      Contract!CONTRACT_VERSION, Facts!CONTRACT_VERSION
  <1>4. Spec => Facts!Spec
    BY <1>2, <1>3, ContractKeepsItsSpec, PTL DEF Contract!Spec, Facts!Spec
  <1>5. Facts!ReadersAgree => Contract!ReadersAgree
    BY DEF Contract!ReadersAgree, Facts!ReadersAgree,
      Contract!LatestSnapshot, Facts!LatestSnapshot,
      Contract!VerifySnapshot, Facts!VerifySnapshot, Contract!VerifyLatestSnapshot,
      Facts!VerifyLatestSnapshot, Contract!VerifySnapshotAtEpoch, Facts!VerifySnapshotAtEpoch,
      Contract!Epoch, Facts!Epoch
  <1>6. Facts!AnswersStand => Contract!AnswersStand
    BY DEF Contract!AnswersStand, Facts!AnswersStand, Contract!Epoch, Facts!Epoch,
       Contract!VerifySnapshotAtEpoch, Facts!VerifySnapshotAtEpoch
  <1>7. Facts!SwitchesHold => Contract!SwitchesHold
    BY PTL DEF Contract!SwitchesHold, Facts!SwitchesHold, Contract!vars, Facts!vars,
       Contract!ledger, Facts!ledger, Contract!metadata, Facts!metadata
  <1>8. Facts!ImplementsLedger => Contract!ImplementsLedger
    <2>1. Facts!MapValues(snapshots) = Contract!MapValues(snapshots)
      BY DEF Facts!MapValues, Contract!MapValues
    <2>2. Facts!Abstract!Init => Contract!Abstract!Init
      BY <2>1 DEF Facts!Abstract!Init, Contract!Abstract!Init
    <2>3. [Facts!Abstract!Next]_(Facts!MapValues(snapshots))
            => [Contract!Abstract!Next]_(Contract!MapValues(snapshots))
      BY DEF Facts!MapValues, Contract!MapValues, Facts!Abstract!Next, Contract!Abstract!Next,
         Facts!Abstract!Append, Contract!Abstract!Append, Facts!Abstract!Extends,
         Contract!Abstract!Extends, Facts!Abstract!Entry, Contract!Abstract!Entry,
         Facts!Epoch, Contract!Epoch, Facts!Time, Contract!Time
    <2>4. QED
      BY <2>2, <2>3, PTL DEF Contract!ImplementsLedger, Facts!ImplementsLedger,
         Contract!Abstract!Spec, Facts!Abstract!Spec
  <1>9. QED
    BY <1>1, <1>4, <1>5, <1>6, <1>7, <1>8, Facts!ReadersCorrect, Facts!AnswersCorrect,
       Facts!SwitchesCorrect, Facts!SnapshotContractImplementsLedger, PTL
===========================================================================
