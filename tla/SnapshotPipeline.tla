------------------------- MODULE SnapshotPipeline -------------------------
(***************************************************************************)
(* How a snapshot gets from the database to the ledger: the backend's      *)
(* SnapshotService, backend/src/services/snapshot.rs, composed with the    *)
(* contract of SnapshotContract through the ContractService.               *)
(*                                                                         *)
(* Any number of generate requests run at once, for the same epoch or not; *)
(* each awaits between its steps, and the process may crash there.         *)
(* ContractService is not in the repository.  It is modelled as weakly as  *)
(* its callers use it: a transaction is sent, perhaps again; it lands late *)
(* or never; success may be answered before it lands, or an error although *)
(* it does.                                                                *)
(***************************************************************************)
EXTENDS Integers, FiniteSets

CONSTANTS
  Request,      \* calls of POST /api/snapshots/generate
  Address, Signer, NoAddress, NoEpoch,
  OwnHash,      \* hashes this backend computes
  OtherHash,    \* hashes other clients of the contract submit
  MaxEpoch,     \* bound on epochs, at most the largest u64
  MaxI64,       \* the largest i64
  MaxTime, MaxVersion

ASSUME PipelineConstants ==
  /\ OwnHash \cap OtherHash = {}
  /\ Signer \subseteq Address
  /\ NoAddress \notin Address
  /\ MaxI64 \in Nat
  /\ MaxEpoch \in 0 .. 2 * MaxI64 + 1
  /\ NoEpoch \notin Nat
  /\ MaxTime \in Nat
  /\ MaxVersion \in Nat \ {0}

VARIABLES
  now, admin, stopped, paused, version, upgradeTimestamp, latestEpoch, snapshots,
  configured,   \* whether contract_service is Some
  rows,         \* the snapshots table
  inFlight,     \* transactions on their way
  place,        \* how far each request is
  epochOf,      \* its epoch
  hashOf,       \* the hash it computed
  verified      \* its verification_successful

contractVars == <<now, admin, stopped, paused, version, upgradeTimestamp,
                  latestEpoch, snapshots>>
requestVars == <<place, epochOf, hashOf, verified>>
vars == <<contractVars, configured, rows, inFlight, requestVars>>

Hash == OwnHash \cup OtherHash
Contract == INSTANCE SnapshotContract WITH Bytes <- Hash

Epoch == 1 .. MaxEpoch
Transaction == [epoch : Epoch, hash : OwnHash]
Row == [epoch : -MaxI64 - 1 .. MaxI64, hash : OwnHash]

\* `epoch as i64` wraps: the upper half of u64 becomes the negative numbers.
AsI64(e) == IF e <= MaxI64 THEN e ELSE e - 2 * (MaxI64 + 1)
RowOf(tx) == [epoch |-> AsI64(tx.epoch), hash |-> tx.hash]
Content(r) == [epoch |-> epochOf[r], hash |-> hashOf[r]]
Ended == {"idle", "failed", "done"}

---------------------------------------------------------------------------
Init ==
  /\ Contract!Init
  /\ configured \in BOOLEAN
  /\ rows = {}
  /\ inFlight = {}
  /\ place = [r \in Request |-> "idle"]
  /\ epochOf \in [Request -> Epoch]
  /\ hashOf \in [Request -> OwnHash]
  /\ verified = [r \in Request |-> FALSE]

GoTo(r, p) == place' = [place EXCEPT ![r] = p]

\* Aggregate, serialise, hash: reads only.
Generate(r) ==
  /\ place[r] = "idle"
  /\ GoTo(r, "generated")
  /\ UNCHANGED <<contractVars, configured, rows, inFlight, epochOf, hashOf, verified>>

\* store_snapshot_in_database: a row of its own, whatever rows there are.  The
\* column is an i64; the transaction keeps the epoch as it was asked for.
Store(r) ==
  /\ place[r] = "generated"
  /\ rows' = rows \cup {RowOf(Content(r))}
  /\ GoTo(r, "stored")
  /\ UNCHANGED <<contractVars, configured, inFlight, epochOf, hashOf, verified>>

Unconfigured(r) ==
  /\ place[r] = "stored" /\ ~configured
  /\ GoTo(r, "done")
  /\ UNCHANGED <<contractVars, configured, rows, inFlight, epochOf, hashOf, verified>>

\* Fault: submission does not wait for the insert.
SendEarly(r) ==
  /\ place[r] \in {"generated", "stored", "sending"} /\ configured
  /\ inFlight' = inFlight \cup {Content(r)}
  /\ GoTo(r, "sending")
  /\ UNCHANGED <<contractVars, configured, rows, epochOf, hashOf, verified>>

\* submit_snapshot sends the transaction, and sends it again when it retries.
Send(r) ==
  /\ place[r] \in {"stored", "sending"} /\ configured
  /\ inFlight' = inFlight \cup {Content(r)}
  /\ GoTo(r, "sending")
  /\ UNCHANGED <<contractVars, configured, rows, epochOf, hashOf, verified>>

Accepted(r) ==
  /\ place[r] = "sending"
  /\ GoTo(r, "submitted")
  /\ UNCHANGED <<contractVars, configured, rows, inFlight, epochOf, hashOf, verified>>

\* An error from the aggregation, the database or the contract service ends
\* the request; what it has stored or sent stays.
Fail(r) ==
  /\ place[r] \in {"generated", "sending"}
  /\ GoTo(r, "failed")
  /\ UNCHANGED <<contractVars, configured, rows, inFlight, epochOf, hashOf, verified>>

\* Faults: the submission result is trusted; the contract is asked until it
\* knows the snapshot.
VerifyTrusting(r) ==
  /\ place[r] = "submitted"
  /\ verified' = [verified EXCEPT ![r] = TRUE]
  /\ GoTo(r, "done")
  /\ UNCHANGED <<contractVars, configured, rows, inFlight, epochOf, hashOf>>

VerifyUntilFound(r) ==
  /\ place[r] = "submitted"
  /\ Contract!VerifySnapshotAtEpoch(hashOf[r], epochOf[r])
  /\ verified' = [verified EXCEPT ![r] = TRUE]
  /\ GoTo(r, "done")
  /\ UNCHANGED <<contractVars, configured, rows, inFlight, epochOf, hashOf>>

\* verify_submission_success: the contract's answer, or false for an error.
Verify(r) ==
  /\ place[r] = "submitted"
  /\ \E answer \in {FALSE, Contract!VerifySnapshotAtEpoch(hashOf[r], epochOf[r])} :
       verified' = [verified EXCEPT ![r] = answer]
  /\ GoTo(r, "done")
  /\ UNCHANGED <<contractVars, configured, rows, inFlight, epochOf, hashOf>>

\* The HTTP client disconnects, and the handler's future is dropped.
Drop(r) ==
  /\ place[r] \notin Ended
  /\ GoTo(r, "failed")
  /\ UNCHANGED <<contractVars, configured, rows, inFlight, epochOf, hashOf, verified>>

\* The process ends; its futures are gone, its rows and transactions are not.
Crash ==
  /\ place' = [r \in Request |-> IF place[r] \in Ended THEN place[r] ELSE "failed"]
  /\ UNCHANGED <<contractVars, configured, rows, inFlight, epochOf, hashOf, verified>>

\* The network executes a transaction, finds it invalid, or loses it.
Land(tx) ==
  /\ Contract!SubmitSnapshot(tx.hash, tx.epoch)
  /\ inFlight' = inFlight \ {tx}
  /\ UNCHANGED <<configured, rows, requestVars>>

Lose(tx) ==
  /\ inFlight' = inFlight \ {tx}
  /\ UNCHANGED <<contractVars, configured, rows, requestVars>>

\* Everyone else who uses the contract.
OtherCall ==
  /\ \/ Contract!AdminCall
     \/ \E h \in OtherHash, e \in Epoch : Contract!SubmitSnapshot(h, e)
     \/ Contract!LedgerClose
  /\ UNCHANGED <<configured, rows, inFlight, requestVars>>

Proceed(r) ==
  Store(r) \/ Unconfigured(r) \/ Send(r) \/ Accepted(r) \/ Fail(r) \/ Verify(r)

Next ==
  \/ \E r \in Request : Generate(r) \/ Proceed(r) \/ Drop(r)
  \/ Crash
  \/ \E tx \in inFlight : Land(tx) \/ Lose(tx)
  \/ OtherCall

Spec == Init /\ [][Next]_vars

\* A request's next step is always taken: every await is a database call, an
\* HTTP call with a timeout or a two-second sleep.  The contract service is
\* taken to answer in the end, in whichever way.
Fairness ==
  \A r \in Request :
    WF_vars(Proceed(r)) /\ WF_vars(Accepted(r) \/ Fail(r))

FairSpec == Spec /\ Fairness

---------------------------------------------------------------------------
(* Properties *)

\* The variables have their types, and the order of the steps shows in them:
\* what was sent was stored first, what was verified went all the way.
TypeOK ==
  /\ configured \in BOOLEAN
  /\ rows \subseteq Row
  /\ inFlight \subseteq Transaction
  /\ \A tx \in inFlight : RowOf(tx) \in rows
  /\ place \in [Request -> Ended \cup {"generated", "stored", "sending", "submitted"}]
  /\ epochOf \in [Request -> Epoch]
  /\ hashOf \in [Request -> OwnHash]
  /\ verified \in [Request -> BOOLEAN]
  /\ \A r \in Request :
       /\ place[r] \in {"stored", "sending", "submitted", "done"} =>
            RowOf(Content(r)) \in rows
       /\ verified[r] => place[r] = "done"

\* A request that reports verification_successful has its own hash on the
\* ledger, at its epoch, then and ever after, whatever happened in the two
\* seconds before the check and whoever else wrote that epoch.
VerifiedIsAnchored ==
  \A r \in Request :
    verified[r] =>
      /\ epochOf[r] \in DOMAIN snapshots
      /\ snapshots[epochOf[r]].hash = hashOf[r]

\* Every hash of ours on the ledger has its row: no crash, lost answer or
\* repeated transaction anchors data that the database cannot show.  The row
\* bears the epoch the ledger has only up to the largest i64; above, the number
\* it wraps to, so that who looks a row up by epoch must wrap likewise.
AnchoredIsStored ==
  \A e \in DOMAIN snapshots :
    snapshots[e].hash \in OwnHash =>
      RowOf([epoch |-> e, hash |-> snapshots[e].hash]) \in rows

\* A generate request ends, whatever becomes of its transaction.
RequestsEnd == \A r \in Request : place[r] \notin Ended ~> place[r] \in Ended
===========================================================================
