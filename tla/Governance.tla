---------------------------- MODULE Governance ----------------------------
(***************************************************************************)
(* The governance contract, contracts/governance/src/lib.rs.               *)
(*                                                                         *)
(* One action per entry point that writes storage.  The host runs a call   *)
(* as a transaction: an Err or a panic leaves storage as it was, so an     *)
(* early return is a missing step, and a call's guards are the conjuncts   *)
(* of its action.  require_auth is modelled by drawing the caller from     *)
(* Signer, the addresses that can sign; initialize authenticates nobody    *)
(* and takes any address.                                                  *)
(*                                                                         *)
(* Left out: titles (only a non-empty one gets past the guard), proposers  *)
(* (always the admin), wasm hashes (stored, never read) and events.        *)
(***************************************************************************)
EXTENDS Naturals, FiniteSets, SorobanStorage

CONSTANTS
  Address,         \* every address: of an account or of a contract
  Signer,          \* addresses that can authorise a call
  NoAddress,       \* stands for an absent Admin key
  Contract,        \* contracts a proposal may target
  Action,          \* parameter actions a proposal may carry
  Quorums,         \* values initialize may be given
  VotingPeriods,   \* values initialize may be given
  MaxU64,          \* the largest u64, which bounds ledger time
  MaxProposals     \* bound on the number of proposals

ASSUME GovernanceConstants ==
  /\ Signer \subseteq Address
  /\ NoAddress \notin Address
  /\ IsFiniteSet(Signer)
  /\ MaxU64 \in Nat
  /\ MaxProposals \in Nat
  /\ Quorums \subseteq Nat
  /\ VotingPeriods \subseteq Nat

VARIABLES
  now,               \* ledger timestamp
  admin,
  quorum,
  votingPeriod,
  proposalCount,
  proposals,         \* id -> proposal
  votes,             \* id -> (voter -> choice)
  tally,             \* id -> the four counters
  parameterAction    \* id -> action, for parameter proposals only

config == <<admin, quorum, votingPeriod>>
vars == <<now, config, proposalCount, proposals, votes, tally, parameterAction>>

Choice == {"For", "Against", "Abstain"}
Status == {"Active", "Passed", "Failed", "Executed"}

Proposal ==
  [target : Contract, status : Status, createdAt : Nat, votingEndsAt : Nat]

VoteTally == [votesFor : Nat, votesAgainst : Nat, votesAbstain : Nat,
              totalVoters : Nat]

ZeroTally == [votesFor |-> 0, votesAgainst |-> 0, votesAbstain |-> 0,
              totalVoters |-> 0]

---------------------------------------------------------------------------
Init ==
  /\ now = 0
  /\ admin = NoAddress
  /\ quorum = 0
  /\ votingPeriod = 0
  /\ proposalCount = 0
  /\ proposals = EmptyMap
  /\ votes = EmptyMap
  /\ tally = EmptyMap
  /\ parameterAction = EmptyMap

IsAdmin(caller) == admin # NoAddress /\ caller = admin

\* A fault: initialize without its already-initialized check.
InitializeAgain(newAdmin, newQuorum, period) ==
  /\ admin' = newAdmin
  /\ quorum' = newQuorum
  /\ votingPeriod' = period
  /\ proposalCount' = 0
  /\ UNCHANGED <<now, proposals, votes, tally, parameterAction>>

Initialize(newAdmin, newQuorum, period) ==
  /\ admin = NoAddress
  /\ admin' = newAdmin
  /\ quorum' = newQuorum
  /\ votingPeriod' = period
  /\ proposalCount' = 0
  /\ UNCHANGED <<now, proposals, votes, tally, parameterAction>>

\* The part the two create entry points share.  Ids count up from 1; the
\* deadline is a checked u64 addition, and the call panics on overflow.
OpenProposal(target) ==
  LET id == proposalCount + 1 IN
    /\ proposalCount < MaxProposals
    /\ now + votingPeriod <= MaxU64
    /\ proposalCount' = id
    /\ proposals' = MapSet(proposals, id,
                      [target |-> target, status |-> "Active",
                       createdAt |-> now, votingEndsAt |-> now + votingPeriod])
    /\ tally' = MapSet(tally, id, ZeroTally)
    /\ votes' = MapSet(votes, id, EmptyMap)
    /\ UNCHANGED <<now, config>>

CreateProposal(caller, target) ==
  /\ IsAdmin(caller)
  /\ OpenProposal(target)
  /\ UNCHANGED parameterAction

CreateParameterProposal(caller, target, action) ==
  /\ IsAdmin(caller)
  /\ OpenProposal(target)
  /\ parameterAction' = MapSet(parameterAction, proposalCount + 1, action)

\* Faults: the deadline off by one; a ballot's effect on the counters.
VotingOpenAtDeadline(id) ==
  /\ proposals[id].status = "Active"
  /\ now <= proposals[id].votingEndsAt

VotingOpen(id) ==
  /\ proposals[id].status = "Active"
  /\ now < proposals[id].votingEndsAt

OneIf(condition) == IF condition THEN 1 ELSE 0

CountAbstentionAsAgainst(t, choice) ==
  [votesFor     |-> t.votesFor + OneIf(choice = "For"),
   votesAgainst |-> t.votesAgainst + OneIf(choice # "For"),
   votesAbstain |-> t.votesAbstain,
   totalVoters  |-> t.totalVoters + 1]

CountBallot(t, choice) ==
  [votesFor     |-> t.votesFor + OneIf(choice = "For"),
   votesAgainst |-> t.votesAgainst + OneIf(choice = "Against"),
   votesAbstain |-> t.votesAbstain + OneIf(choice = "Abstain"),
   totalVoters  |-> t.totalVoters + 1]

\* A fault: a vote that may be cast again.
VoteAgain(voter, id, choice) ==
  /\ id \in DOMAIN proposals
  /\ VotingOpen(id)
  /\ votes' = [votes EXCEPT ![id] = MapSet(@, voter, choice)]
  /\ tally' = [tally EXCEPT ![id] = CountBallot(@, choice)]
  /\ UNCHANGED <<now, config, proposalCount, proposals, parameterAction>>

Vote(voter, id, choice) ==
  /\ id \in DOMAIN proposals
  /\ VotingOpen(id)
  /\ voter \notin DOMAIN votes[id]
  /\ votes' = [votes EXCEPT ![id] = MapSet(@, voter, choice)]
  /\ tally' = [tally EXCEPT ![id] = CountBallot(@, choice)]
  /\ UNCHANGED <<now, config, proposalCount, proposals, parameterAction>>

\* Faults: a tie carries the proposal; abstentions do not count to the quorum.
VerdictOnTie(t) ==
  IF t.totalVoters >= quorum /\ t.votesFor >= t.votesAgainst
  THEN "Passed" ELSE "Failed"

VerdictWithoutAbstentions(t) ==
  IF t.votesFor + t.votesAgainst >= quorum /\ t.votesFor > t.votesAgainst
  THEN "Passed" ELSE "Failed"

Verdict(t) ==
  IF t.totalVoters >= quorum /\ t.votesFor > t.votesAgainst
  THEN "Passed" ELSE "Failed"

SetStatus(id, status) ==
  proposals' = [proposals EXCEPT ![id].status = status]

\* A fault: finalize without the deadline check.
FinalizeEarly(id) ==
  /\ id \in DOMAIN proposals
  /\ proposals[id].status = "Active"
  /\ SetStatus(id, Verdict(tally[id]))
  /\ UNCHANGED <<now, config, proposalCount, votes, tally, parameterAction>>

\* Anybody may call finalize: it takes no caller.
Finalize(id) ==
  /\ id \in DOMAIN proposals
  /\ proposals[id].status = "Active"
  /\ now >= proposals[id].votingEndsAt
  /\ SetStatus(id, Verdict(tally[id]))
  /\ UNCHANGED <<now, config, proposalCount, votes, tally, parameterAction>>

\* For a parameter proposal the same transaction calls the target, and a
\* panic there undoes this step too: GovernedAnalytics conjoins that call.
MarkExecuted(caller, id) ==
  /\ IsAdmin(caller)
  /\ id \in DOMAIN proposals
  /\ proposals[id].status = "Passed"
  /\ SetStatus(id, "Executed")
  /\ UNCHANGED <<now, config, proposalCount, votes, tally, parameterAction>>

\* A ledger closes: its timestamp is later than its predecessor's.
LedgerClose ==
  /\ now < MaxU64
  /\ now' = now + 1
  /\ UNCHANGED <<config, proposalCount, proposals, votes, tally, parameterAction>>

Call ==
  \/ \E a \in Address, q \in Quorums, p \in VotingPeriods : Initialize(a, q, p)
  \/ \E caller \in Signer, target \in Contract :
       \/ CreateProposal(caller, target)
       \/ \E action \in Action : CreateParameterProposal(caller, target, action)
  \/ \E id \in DOMAIN proposals :
       \/ \E voter \in Signer, choice \in Choice : Vote(voter, id, choice)
       \/ Finalize(id)
       \/ \E caller \in Signer : MarkExecuted(caller, id)

Next == Call \/ LedgerClose

Spec == Init /\ [][Next]_vars

---------------------------------------------------------------------------
(* Properties *)

Abstract == INSTANCE Referendum WITH
  Voter <- Signer, Id <- 1 .. MaxProposals,
  ballots <- votes,
  outcome <- [id \in DOMAIN proposals |-> proposals[id].status]

\* Every stored key belongs to an issued id and holds a value of its type:
\* ids are exactly 1..ProposalCount, in each of the four per-proposal maps.
TypeOK ==
  /\ now \in 0 .. MaxU64
  /\ admin \in Address \cup {NoAddress}
  /\ quorum \in Nat
  /\ votingPeriod \in Nat
  /\ proposalCount \in 0 .. MaxProposals
  /\ admin = NoAddress => proposalCount = 0
  /\ DOMAIN proposals = 1 .. proposalCount
  /\ DOMAIN votes = 1 .. proposalCount
  /\ DOMAIN tally = 1 .. proposalCount
  /\ DOMAIN parameterAction \subseteq 1 .. proposalCount
  /\ \A id \in 1 .. proposalCount :
       /\ proposals[id] \in Proposal
       /\ DOMAIN votes[id] \subseteq Signer
       /\ \A v \in DOMAIN votes[id] : votes[id][v] \in Choice
       /\ tally[id] \in VoteTally
  /\ \A id \in DOMAIN parameterAction : parameterAction[id] \in Action

Agrees(t, b) ==
  /\ t.votesFor = Abstract!Count(b, "For")
  /\ t.votesAgainst = Abstract!Count(b, "Against")
  /\ t.votesAbstain = Abstract!Count(b, "Abstain")
  /\ t.totalVoters = Cardinality(DOMAIN b)

\* The counters finalize decides by agree with the ballots that vote stored:
\* the two are written by separate storage updates and never recomputed.
TallyCountsBallots ==
  \A id \in DOMAIN proposals : Agrees(tally[id], votes[id])

\* A decided proposal was decided after its deadline, and its status is still
\* the verdict on the ballots stored now and the quorum stored now.
DecisionStands ==
  \A id \in DOMAIN proposals :
    proposals[id].status # "Active" =>
      /\ now >= proposals[id].votingEndsAt
      /\ (proposals[id].status = "Failed") <=> ~Abstract!Carried(votes[id], quorum)

\* A voting period of zero admits no ballot, so no proposal of a contract
\* initialised that way is ever carried, even with a quorum of zero.
EmptyWindowNeverPasses ==
  votingPeriod = 0 =>
    \A id \in DOMAIN proposals : proposals[id].status \in {"Active", "Failed"}

\* A ballot is never changed or withdrawn, and none is added from the
\* deadline on: what finalize reads cannot move between its eligibility and
\* the transaction that performs it.
BallotsAreFinal ==
  [][\A id \in DOMAIN votes :
       /\ \A v \in DOMAIN votes[id] :
            v \in DOMAIN votes'[id] /\ votes'[id][v] = votes[id][v]
       /\ now >= proposals[id].votingEndsAt => votes'[id] = votes[id]]_vars

\* The contract implements the referendum: counting by tallies and clocks is
\* indistinguishable from counting the ballots once, when voting is over.
ImplementsReferendum == Abstract!Spec
===========================================================================
