------------------------- MODULE GovernedAnalytics -------------------------
(***************************************************************************)
(* The governance contract and an analytics contract deployed together.    *)
(* They share the ledger's clock.  mark_executed applies a parameter       *)
(* proposal by a cross-contract call in the same transaction: the proposal *)
(* becomes Executed and the parameter changes in one step, or neither.     *)
(***************************************************************************)
EXTENDS Naturals, FiniteSets, SorobanStorage

CONSTANTS
  User,               \* accounts: the addresses that can sign
  GovernanceAddress,  \* where the governance contract is deployed
  AnalyticsAddress,   \* where the analytics contract is deployed
  NoAddress,
  Target,             \* addresses proposals are made for
  ProposedAdmin,      \* addresses SetAdmin proposals name
  Hash, Quorums, VotingPeriods,
  MaxTime,            \* bound on ledger time
  MaxProposals,       \* bound on proposals
  MaxEpoch            \* bound on epochs

ASSUME GovernedConstants ==
  /\ GovernanceAddress \notin User
  /\ AnalyticsAddress \notin User
  /\ GovernanceAddress # AnalyticsAddress
  /\ NoAddress \notin User \cup {GovernanceAddress, AnalyticsAddress}
  /\ Target \subseteq User \cup {GovernanceAddress, AnalyticsAddress}
  /\ ProposedAdmin \subseteq User \cup {GovernanceAddress, AnalyticsAddress}
  /\ IsFiniteSet(User)
  /\ MaxTime \in Nat /\ MaxProposals \in Nat /\ MaxEpoch \in Nat
  /\ Quorums \subseteq Nat
  /\ VotingPeriods \subseteq Nat

VARIABLES
  now,
  govAdmin, quorum, votingPeriod,
  proposalCount, proposals, votes, tally, parameterAction,
  anaAdmin, latestEpoch, snapshots, paused, governance

Address == User \cup {GovernanceAddress, AnalyticsAddress}

ParameterAction ==
  [kind : {"SetAdmin"}, value : ProposedAdmin] \cup [kind : {"SetPaused"}, value : BOOLEAN]

Gov == INSTANCE Governance WITH
  admin <- govAdmin, Signer <- User, Contract <- Target,
  Action <- ParameterAction, MaxU64 <- MaxTime

Ana == INSTANCE Analytics WITH admin <- anaAdmin, Signer <- User

govVars == <<govAdmin, quorum, votingPeriod,
             proposalCount, proposals, votes, tally, parameterAction>>
anaVars == <<anaAdmin, latestEpoch, snapshots, paused, governance>>
vars == <<now, govVars, anaVars>>

---------------------------------------------------------------------------
Init == Gov!Init /\ Ana!Init

\* A call on the governance contract that stays within it.
GovernanceCall ==
  /\ \/ \E a \in Address, q \in Quorums, p \in VotingPeriods : Gov!Initialize(a, q, p)
     \/ \E caller \in User, target \in Target :
          \/ Gov!CreateProposal(caller, target)
          \/ \E action \in ParameterAction :
               Gov!CreateParameterProposal(caller, target, action)
     \/ \E id \in DOMAIN proposals :
          \/ \E voter \in User, choice \in Gov!Choice : Gov!Vote(voter, id, choice)
          \/ Gov!Finalize(id)
  /\ UNCHANGED anaVars

\* A call on the analytics contract from outside the governance contract.
AnalyticsCall == Ana!Call /\ UNCHANGED govVars

\* A fault: an error of the call on the target is swallowed.
ApplyOrSkip(id) ==
  IF proposals[id].target = AnalyticsAddress /\ governance = GovernanceAddress
  THEN \/ /\ parameterAction[id].kind = "SetAdmin"
          /\ Ana!SetAdminByGovernance(GovernanceAddress, parameterAction[id].value)
       \/ /\ parameterAction[id].kind = "SetPaused"
          /\ Ana!SetPausedByGovernance(GovernanceAddress, parameterAction[id].value)
  ELSE UNCHANGED anaVars

\* A fault: the target takes the call whatever address governs it.
ApplyUngoverned(id) ==
  /\ proposals[id].target = AnalyticsAddress
  /\ IF parameterAction[id].kind = "SetAdmin"
     THEN anaAdmin' = parameterAction[id].value /\ paused' = paused
     ELSE paused' = parameterAction[id].value /\ anaAdmin' = anaAdmin
  /\ UNCHANGED <<latestEpoch, snapshots, governance>>

\* The call a parameter proposal makes on its target, with the governance
\* contract's own address as the caller argument.  A target that is not the
\* analytics contract has no such entry point, and the transaction fails.
Apply(id) ==
  /\ proposals[id].target = AnalyticsAddress
  /\ \/ /\ parameterAction[id].kind = "SetAdmin"
        /\ Ana!SetAdminByGovernance(GovernanceAddress, parameterAction[id].value)
     \/ /\ parameterAction[id].kind = "SetPaused"
        /\ Ana!SetPausedByGovernance(GovernanceAddress, parameterAction[id].value)

\* A fault: mark_executed without its Passed check.
ExecuteUndecided(caller, id) ==
  /\ Gov!IsAdmin(caller)
  /\ Gov!SetStatus(id, "Executed")
  /\ UNCHANGED <<now, govAdmin, quorum, votingPeriod, proposalCount, votes, tally,
                 parameterAction>>
  /\ IF id \in DOMAIN parameterAction THEN Apply(id) ELSE UNCHANGED anaVars

Execute(caller, id) ==
  /\ Gov!MarkExecuted(caller, id)
  /\ IF id \in DOMAIN parameterAction THEN Apply(id) ELSE UNCHANGED anaVars

LedgerClose ==
  /\ Gov!LedgerClose
  /\ UNCHANGED anaVars

Next ==
  \/ GovernanceCall
  \/ AnalyticsCall
  \/ \E caller \in User, id \in DOMAIN proposals : Execute(caller, id)
  \/ LedgerClose

Spec == Init /\ [][Next]_vars

---------------------------------------------------------------------------
(* Properties *)

Executing(id) ==
  /\ id \in DOMAIN proposals
  /\ proposals[id].status = "Passed"
  /\ proposals'[id].status = "Executed"

InEffect(action) ==
  \/ action.kind = "SetAdmin" /\ anaAdmin' = action.value
  \/ action.kind = "SetPaused" /\ paused' = action.value

\* Executing a parameter proposal changes the parameter it names, on the
\* contract it targets, to the value that was voted on, in the same step; and
\* if that contract answers to another governance address the proposal stays
\* Passed.  Executing an upgrade proposal leaves the contract alone.
ExecutionIsAtomic ==
  [][\A id \in DOMAIN proposals : Executing(id) =>
       IF id \in DOMAIN parameterAction
       THEN /\ proposals[id].target = AnalyticsAddress
            /\ governance = GovernanceAddress
            /\ InEffect(parameterAction[id])
       ELSE UNCHANGED anaVars]_vars

BecomesExecuted(id) ==
  proposals[id].status # "Executed" /\ proposals'[id].status = "Executed"

\* What reaches the analytics contract was voted: a parameter proposal is
\* executed after its deadline only, by a step that puts it into effect, and
\* the ballots stored at that moment carry it against the stored quorum.
EffectsAreVoted ==
  [][\A id \in DOMAIN parameterAction : BecomesExecuted(id) =>
       /\ now >= proposals[id].votingEndsAt
       /\ Gov!Abstract!Carried(votes[id], quorum)
       /\ InEffect(parameterAction[id])]_vars

SignedByAdmin ==
  \/ \E a \in Address : Ana!Initialize(a)
  \/ \E caller \in User :
       \/ Ana!Pause(caller)
       \/ Ana!Unpause(caller)
       \/ \E a \in Address : Ana!SetAdmin(caller, a)

\* Once the governance contract governs the analytics contract, a change of
\* admin or pause state that the latter's own admin did not sign comes from a
\* proposal being executed: the comments on set_admin_by_governance and
\* set_paused_by_governance say so, "Only the governance contract may call
\* this (after a passed proposal)".
GovernanceActsByProposal ==
  [][governance = GovernanceAddress =>
       \/ SignedByAdmin
       \/ \E id \in DOMAIN parameterAction : Executing(id)]_<<anaAdmin, paused>>
===========================================================================
