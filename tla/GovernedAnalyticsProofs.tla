---------------------- MODULE GovernedAnalyticsProofs ----------------------
(***************************************************************************)
(* Proofs about the two contracts together: the promises of each hold in   *)
(* the company of the other, and a proposal takes effect exactly when it   *)
(* is executed.                                                            *)
(***************************************************************************)
EXTENDS GovernedAnalytics, TLAPS

\* Stored parameter actions name values the analytics entry points accept.
ActionsTyped ==
  \A id \in DOMAIN parameterAction : parameterAction[id] \in ParameterAction

LEMMA GovernanceCallFacts ==
  ASSUME GovernanceCall
  PROVE  Gov!Call /\ UNCHANGED <<now, anaVars>>
  BY DEF GovernanceCall, Gov!Call, Gov!Initialize, Gov!CreateProposal,
         Gov!CreateParameterProposal, Gov!OpenProposal, Gov!Vote, Gov!Finalize

LEMMA AnalyticsCallFacts ==
  ASSUME AnalyticsCall
  PROVE  Ana!Call /\ UNCHANGED <<now, govVars>>
  BY DEF AnalyticsCall, Ana!Call, Ana!Initialize, Ana!SubmitSnapshot, Ana!SetAdmin,
         Ana!SetGovernance, Ana!Pause, Ana!Unpause, Ana!SetAdminByGovernance,
         Ana!SetPausedByGovernance

\* Executing is a step of the governance contract alone, whatever it applies.
LEMMA GovernanceKeepsItsSpec == Spec => Gov!Spec
  <1>1. Init => Gov!Init
    BY DEF Init
  <1>2. [Next]_vars => [Gov!Next]_(Gov!vars)
    <2> SUFFICES ASSUME [Next]_vars PROVE [Gov!Next]_(Gov!vars)
      OBVIOUS
    <2>1. CASE GovernanceCall
      BY <2>1, GovernanceCallFacts DEF Gov!Next
    <2>2. CASE AnalyticsCall
      BY <2>2, AnalyticsCallFacts DEF govVars, Gov!vars, Gov!config
    <2>3. CASE \E caller \in User, id \in DOMAIN proposals : Execute(caller, id)
      BY <2>3 DEF Execute, Gov!Next, Gov!Call
    <2>4. CASE LedgerClose
      BY <2>4 DEF LedgerClose, Gov!Next
    <2>5. CASE UNCHANGED vars
      BY <2>5 DEF vars, govVars, Gov!vars, Gov!config
    <2>6. QED BY <2>1, <2>2, <2>3, <2>4, <2>5 DEF Next
  <1>3. QED BY <1>1, <1>2, PTL DEF Spec, Gov!Spec

LEMMA ActionsStayTyped == Spec => []ActionsTyped
  <1>1. Init => ActionsTyped
    BY DEF Init, Gov!Init, Gov!EmptyMap, ActionsTyped
  <1>2. ActionsTyped /\ [Next]_vars => ActionsTyped'
    <2> SUFFICES ASSUME ActionsTyped, [Next]_vars PROVE ActionsTyped'
      OBVIOUS
    <2>1. ASSUME UNCHANGED parameterAction PROVE ActionsTyped'
      BY <2>1 DEF ActionsTyped
    <2>2. ASSUME NEW caller, NEW target, NEW action \in ParameterAction,
                 Gov!CreateParameterProposal(caller, target, action)
          PROVE  ActionsTyped'
      BY <2>2 DEF Gov!CreateParameterProposal, Gov!MapSet, ActionsTyped
    <2>3. CASE GovernanceCall
      BY <2>1, <2>2, <2>3 DEF GovernanceCall, Gov!Initialize, Gov!CreateProposal,
         Gov!Vote, Gov!Finalize
    <2>4. CASE AnalyticsCall
      BY <2>1, <2>4 DEF AnalyticsCall, govVars
    <2>5. CASE \E caller \in User, id \in DOMAIN proposals : Execute(caller, id)
      BY <2>1, <2>5 DEF Execute, Gov!MarkExecuted
    <2>6. CASE LedgerClose \/ UNCHANGED vars
      BY <2>1, <2>6 DEF LedgerClose, Gov!LedgerClose, vars, govVars
    <2>7. QED BY <2>3, <2>4, <2>5, <2>6 DEF Next
  <1>3. QED BY <1>1, <1>2, PTL DEF Spec

LEMMA ApplyFacts ==
  ASSUME ActionsTyped, NEW id \in DOMAIN parameterAction, Apply(id)
  PROVE  /\ Ana!Call
         /\ proposals[id].target = AnalyticsAddress
         /\ governance = GovernanceAddress
         /\ InEffect(parameterAction[id])
  <1>1. CASE parameterAction[id].kind = "SetAdmin"
    <2>1. Ana!SetAdminByGovernance(GovernanceAddress, parameterAction[id].value)
      BY <1>1 DEF Apply
    <2>2. PICK a : a = parameterAction[id].value
      OBVIOUS
    <2>3. a \in Address /\ GovernanceAddress \in Address
      BY <1>1, <2>2, GovernedConstants DEF ActionsTyped, ParameterAction, Address
    <2>4. Ana!SetAdminByGovernance(GovernanceAddress, a)
      BY <2>1, <2>2
    <2>5. Ana!Call
      BY <2>3, <2>4 DEF Ana!Call
    <2>6. QED
      BY <1>1, <2>1, <2>5
      DEF Apply, Ana!SetAdminByGovernance, Ana!IsGovernance, InEffect
  <1>2. CASE parameterAction[id].kind # "SetAdmin"
    <2>1. /\ parameterAction[id].kind = "SetPaused"
          /\ Ana!SetPausedByGovernance(GovernanceAddress, parameterAction[id].value)
      BY <1>2 DEF Apply
    <2>2. PICK p : p = parameterAction[id].value
      OBVIOUS
    <2>3. p \in BOOLEAN /\ GovernanceAddress \in Address
      BY <1>2, <2>1, <2>2 DEF ActionsTyped, ParameterAction, Address
    <2>4. Ana!SetPausedByGovernance(GovernanceAddress, p)
      BY <2>1, <2>2
    <2>5. Ana!Call
      BY <2>3, <2>4 DEF Ana!Call
    <2>6. QED
      BY <2>1, <2>5 DEF Apply, Ana!SetPausedByGovernance, Ana!IsGovernance, InEffect
  <1>3. QED BY <1>1, <1>2

\* The cross-contract call is one the analytics contract's interface allows.
LEMMA AnalyticsKeepsItsSpec == Spec => Ana!Spec
  <1>1. Init => Ana!Init
    BY DEF Init
  <1>2. ActionsTyped /\ [Next]_vars => [Ana!Next]_(Ana!vars)
    <2> SUFFICES ASSUME ActionsTyped, [Next]_vars PROVE [Ana!Next]_(Ana!vars)
      OBVIOUS
    <2>1. CASE GovernanceCall
      BY <2>1, GovernanceCallFacts DEF anaVars, Ana!vars
    <2>2. CASE AnalyticsCall
      BY <2>2, AnalyticsCallFacts DEF Ana!Next
    <2>3. ASSUME NEW caller \in User, NEW id \in DOMAIN proposals, Execute(caller, id)
          PROVE  [Ana!Next]_(Ana!vars)
      <3>1. CASE id \in DOMAIN parameterAction
        BY <2>3, <3>1, ApplyFacts DEF Execute, Ana!Next
      <3>2. CASE id \notin DOMAIN parameterAction
        BY <2>3, <3>2 DEF Execute, Gov!MarkExecuted, anaVars, Ana!vars
      <3>3. QED BY <3>1, <3>2
    <2>4. CASE LedgerClose
      BY <2>4 DEF LedgerClose, Gov!LedgerClose, Ana!Next, Ana!LedgerClose, anaVars
    <2>5. CASE UNCHANGED vars
      BY <2>5 DEF vars, anaVars, Ana!vars
    <2>6. QED BY <2>1, <2>2, <2>3, <2>4, <2>5 DEF Next
  <1>3. QED BY <1>1, <1>2, ActionsStayTyped, PTL DEF Spec, Ana!Spec

\* Executed is written by Execute alone.
LEMMA OnlyExecuteExecutes ==
  ASSUME [Next]_vars, NEW id \in DOMAIN proposals, Executing(id)
  PROVE  \E caller \in User : Execute(caller, id)
  <1>1. ASSUME UNCHANGED proposals PROVE FALSE
    BY <1>1 DEF Executing
  <1>2. ASSUME NEW target, Gov!OpenProposal(target) PROVE FALSE
    BY <1>2 DEF Gov!OpenProposal, Gov!MapSet, Executing
  <1>3. ASSUME NEW i \in DOMAIN proposals, Gov!Finalize(i) PROVE FALSE
    <2>1. /\ proposals[i].status = "Active"
          /\ proposals' = [proposals EXCEPT ![i].status = Gov!Verdict(tally[i])]
      BY <1>3 DEF Gov!Finalize, Gov!SetStatus
    <2>2. id # i
      BY <2>1 DEF Executing
    <2>3. QED BY <2>1, <2>2 DEF Executing
  <1>4. ~GovernanceCall
    BY <1>1, <1>2, <1>3
    DEF GovernanceCall, Gov!Initialize, Gov!CreateProposal,
        Gov!CreateParameterProposal, Gov!Vote
  <1>5. ~(AnalyticsCall \/ LedgerClose \/ UNCHANGED vars)
    BY <1>1 DEF AnalyticsCall, LedgerClose, Gov!LedgerClose, vars, govVars
  <1>6. PICK caller \in User, i \in DOMAIN proposals : Execute(caller, i)
    BY <1>4, <1>5 DEF Next
  <1>7. i = id
    BY <1>6 DEF Execute, Gov!MarkExecuted, Gov!SetStatus, Executing
  <1>8. QED BY <1>6, <1>7

\* A proposal is executed together with its effect, or not at all.
THEOREM ExecutionAppliesProposal == Spec => ExecutionIsAtomic
  <1> DEFINE Applied == \A id \in DOMAIN proposals : Executing(id) =>
       IF id \in DOMAIN parameterAction
       THEN /\ proposals[id].target = AnalyticsAddress
            /\ governance = GovernanceAddress
            /\ InEffect(parameterAction[id])
       ELSE UNCHANGED anaVars
  <1>1. ActionsTyped /\ [Next]_vars => [Applied]_vars
    <2> SUFFICES ASSUME ActionsTyped, [Next]_vars,
                        NEW id \in DOMAIN proposals, Executing(id)
                 PROVE  IF id \in DOMAIN parameterAction
                        THEN /\ proposals[id].target = AnalyticsAddress
                             /\ governance = GovernanceAddress
                             /\ InEffect(parameterAction[id])
                        ELSE UNCHANGED anaVars
      OBVIOUS
    <2>1. PICK caller \in User : Execute(caller, id)
      BY OnlyExecuteExecutes
    <2>2. QED BY <2>1, ApplyFacts DEF Execute
  <1>2. QED BY <1>1, ActionsStayTyped, PTL DEF Spec, ExecutionIsAtomic

---------------------------------------------------------------------------
(* What each contract promises, in the company of the other *)

\* The theorems about each contract, for the two contracts deployed here.
GovFacts == INSTANCE GovernanceProofs WITH
  admin <- govAdmin, Signer <- User, Contract <- Target,
  Action <- ParameterAction, MaxU64 <- MaxTime

AnaFacts == INSTANCE AnalyticsProofs WITH admin <- anaAdmin, Signer <- User

LEMMA GovernanceFactsApply == GovFacts!GovernanceConstants
  BY GovernedConstants DEF Address, GovFacts!GovernanceConstants, GovFacts!IsFiniteSet, IsFiniteSet

LEMMA AnalyticsFactsApply == AnaFacts!AnalyticsConstants
  BY GovernedConstants DEF AnaFacts!AnalyticsConstants, Address

\* The governance contract of the composition behaves as the one the theorems
\* of GovernanceProofs are about.
LEMMA SpecGivesGovernance == Spec => GovFacts!Spec
  <1>1. Gov!Init => GovFacts!Init
    BY DEF Gov!Init, GovFacts!Init, Gov!EmptyMap, GovFacts!EmptyMap
  <1>2. [Gov!Next]_(Gov!vars) => [GovFacts!Next]_(GovFacts!vars)
    BY DEF Gov!Next, GovFacts!Next, Gov!vars, GovFacts!vars, Gov!config, GovFacts!config,
      Gov!Call, GovFacts!Call, Gov!LedgerClose, GovFacts!LedgerClose,
      Gov!Initialize, GovFacts!Initialize, Gov!CreateProposal, GovFacts!CreateProposal,
      Gov!CreateParameterProposal, GovFacts!CreateParameterProposal,
      Gov!OpenProposal, GovFacts!OpenProposal, Gov!Choice, GovFacts!Choice,
      Gov!Vote, GovFacts!Vote, Gov!VotingOpen, GovFacts!VotingOpen,
      Gov!CountBallot, GovFacts!CountBallot, Gov!OneIf, GovFacts!OneIf,
      Gov!Finalize, GovFacts!Finalize, Gov!Verdict, GovFacts!Verdict,
      Gov!MarkExecuted, GovFacts!MarkExecuted, Gov!SetStatus, GovFacts!SetStatus,
      Gov!IsAdmin, GovFacts!IsAdmin, Gov!MapSet, GovFacts!MapSet,
      Gov!ZeroTally, GovFacts!ZeroTally, Gov!EmptyMap, GovFacts!EmptyMap
  <1>3. QED
    BY <1>1, <1>2, GovernanceKeepsItsSpec, PTL DEF Gov!Spec, GovFacts!Spec

\* The analytics contract likewise.
LEMMA SpecGivesAnalytics == Spec => AnaFacts!Spec
  <1>1. Ana!Init => AnaFacts!Init
    BY DEF Ana!Init, AnaFacts!Init, Ana!EmptyMap, AnaFacts!EmptyMap
  <1>2. [Ana!Next]_(Ana!vars) => [AnaFacts!Next]_(AnaFacts!vars)
    BY DEF Ana!Next, AnaFacts!Next, Ana!vars, AnaFacts!vars, Ana!Call, AnaFacts!Call,
      Ana!LedgerClose, AnaFacts!LedgerClose, Ana!Initialize, AnaFacts!Initialize,
      Ana!SubmitSnapshot, AnaFacts!SubmitSnapshot, Ana!NewEpoch, AnaFacts!NewEpoch,
      Ana!SetAdmin, AnaFacts!SetAdmin, Ana!SetGovernance, AnaFacts!SetGovernance,
      Ana!Pause, AnaFacts!Pause, Ana!Unpause, AnaFacts!Unpause,
      Ana!SetAdminByGovernance, AnaFacts!SetAdminByGovernance,
      Ana!SetPausedByGovernance, AnaFacts!SetPausedByGovernance,
      Ana!IsAdmin, AnaFacts!IsAdmin, Ana!IsGovernance, AnaFacts!IsGovernance,
      Ana!Epoch, AnaFacts!Epoch, Ana!MapSet, AnaFacts!MapSet, Ana!EmptyMap, AnaFacts!EmptyMap
  <1>3. QED
    BY <1>1, <1>2, AnalyticsKeepsItsSpec, PTL DEF Ana!Spec, AnaFacts!Spec

\* The governance contract's tallies count its ballots, its decisions stand
\* and its ballots are final in the composition too.
THEOREM GovernancePromisesHold ==
  Spec => /\ []Gov!TallyCountsBallots
          /\ []Gov!DecisionStands
          /\ []Gov!EmptyWindowNeverPasses
          /\ Gov!BallotsAreFinal
  <1>1. \A b, q : GovFacts!Abstract!Carried(b, q) = Gov!Abstract!Carried(b, q)
    BY DEF GovFacts!Abstract!Carried, Gov!Abstract!Carried,
      GovFacts!Abstract!Count, Gov!Abstract!Count,
      GovFacts!Abstract!Supporters, Gov!Abstract!Supporters,
      GovFacts!Abstract!Cardinality, Gov!Abstract!Cardinality,
      GovFacts!Abstract!IsFiniteSet, Gov!Abstract!IsFiniteSet
  <1>2. GovFacts!TallyCountsBallots => Gov!TallyCountsBallots
    BY DEF GovFacts!TallyCountsBallots, Gov!TallyCountsBallots, GovFacts!Agrees, Gov!Agrees,
      GovFacts!Abstract!Count, Gov!Abstract!Count,
      GovFacts!Abstract!Supporters, Gov!Abstract!Supporters,
      GovFacts!Abstract!Cardinality, Gov!Abstract!Cardinality,
      GovFacts!Abstract!IsFiniteSet, Gov!Abstract!IsFiniteSet,
      GovFacts!Cardinality, Gov!Cardinality, GovFacts!IsFiniteSet, Gov!IsFiniteSet
  <1>3. GovFacts!DecisionStands => Gov!DecisionStands
    BY <1>1 DEF GovFacts!DecisionStands, Gov!DecisionStands
  <1>4. GovFacts!EmptyWindowNeverPasses => Gov!EmptyWindowNeverPasses
    BY DEF GovFacts!EmptyWindowNeverPasses, Gov!EmptyWindowNeverPasses
  <1>5. GovFacts!BallotsAreFinal => Gov!BallotsAreFinal
    BY PTL DEF GovFacts!BallotsAreFinal, Gov!BallotsAreFinal, GovFacts!vars, Gov!vars,
      GovFacts!config, Gov!config
  <1>6. QED
    BY <1>2, <1>3, <1>4, <1>5, GovernanceFactsApply, SpecGivesGovernance,
       GovFacts!TallyCorrect, GovFacts!DecisionsCorrect, GovFacts!EmptyWindow,
       GovFacts!BallotsFinal, PTL

\* The composition, too, is a referendum.
THEOREM CompositionImplementsReferendum == Spec => Gov!ImplementsReferendum
  <1>1. GovFacts!Abstract!Init => Gov!Abstract!Init
    BY DEF GovFacts!Abstract!Init, Gov!Abstract!Init,
      GovFacts!Abstract!EmptyMap, Gov!Abstract!EmptyMap
  <1>2. GovFacts!Abstract!Next => Gov!Abstract!Next
    BY DEF GovFacts!Abstract!Next, Gov!Abstract!Next,
      GovFacts!Abstract!FixQuorum, Gov!Abstract!FixQuorum,
      GovFacts!Abstract!Open, Gov!Abstract!Open, GovFacts!Abstract!Cast, Gov!Abstract!Cast,
      GovFacts!Abstract!Decide, Gov!Abstract!Decide,
      GovFacts!Abstract!CarryOut, Gov!Abstract!CarryOut,
      GovFacts!Abstract!Choice, Gov!Abstract!Choice,
      GovFacts!Abstract!MapSet, Gov!Abstract!MapSet,
      GovFacts!Abstract!EmptyMap, Gov!Abstract!EmptyMap,
      GovFacts!Abstract!Carried, Gov!Abstract!Carried,
      GovFacts!Abstract!Count, Gov!Abstract!Count,
      GovFacts!Abstract!Supporters, Gov!Abstract!Supporters,
      GovFacts!Abstract!Cardinality, Gov!Abstract!Cardinality,
      GovFacts!Abstract!IsFiniteSet, Gov!Abstract!IsFiniteSet
  <1>3. [GovFacts!Abstract!Next]_(GovFacts!Abstract!vars)
          => [Gov!Abstract!Next]_(Gov!Abstract!vars)
    BY <1>2 DEF GovFacts!Abstract!vars, Gov!Abstract!vars
  <1>4. GovFacts!ImplementsReferendum => Gov!ImplementsReferendum
    BY <1>1, <1>3, PTL DEF GovFacts!ImplementsReferendum, Gov!ImplementsReferendum,
      GovFacts!Abstract!Spec, Gov!Abstract!Spec
  <1>5. QED
    BY <1>4, GovernanceFactsApply, SpecGivesGovernance,
       GovFacts!GovernanceImplementsReferendum, PTL

\* The analytics contract's latest epoch is its last, its ledger is frozen
\* while it is paused and append-only always, whoever administers it: its
\* admin, or the governance contract by a proposal.
THEOREM AnalyticsPromisesHold ==
  Spec => /\ []Ana!LatestEpochIsLast
          /\ Ana!PausedLedgerIsFrozen
          /\ Ana!ImplementsLedger
  <1>1. AnaFacts!LatestEpochIsLast => Ana!LatestEpochIsLast
    BY DEF AnaFacts!LatestEpochIsLast, Ana!LatestEpochIsLast
  <1>2. AnaFacts!PausedLedgerIsFrozen => Ana!PausedLedgerIsFrozen
    BY PTL DEF AnaFacts!PausedLedgerIsFrozen, Ana!PausedLedgerIsFrozen
  <1>3. AnaFacts!ImplementsLedger => Ana!ImplementsLedger
    <2>1. AnaFacts!Abstract!Init => Ana!Abstract!Init
      BY DEF AnaFacts!Abstract!Init, Ana!Abstract!Init, AnaFacts!MapValues, Ana!MapValues
    <2>2. [AnaFacts!Abstract!Next]_(AnaFacts!MapValues(snapshots))
            => [Ana!Abstract!Next]_(Ana!MapValues(snapshots))
      BY DEF AnaFacts!MapValues, Ana!MapValues, AnaFacts!Abstract!Next, Ana!Abstract!Next,
         AnaFacts!Abstract!Append, Ana!Abstract!Append, AnaFacts!Abstract!Extends,
         Ana!Abstract!Extends, AnaFacts!Abstract!Entry, Ana!Abstract!Entry,
         AnaFacts!Epoch, Ana!Epoch, AnaFacts!Time, Ana!Time
    <2>3. QED
      BY <2>1, <2>2, PTL DEF Ana!ImplementsLedger, AnaFacts!ImplementsLedger,
         Ana!Abstract!Spec, AnaFacts!Abstract!Spec
  <1>4. QED
    BY <1>1, <1>2, <1>3, AnalyticsFactsApply, SpecGivesAnalytics,
       AnaFacts!LatestEpochCorrect, AnaFacts!PauseHolds, AnaFacts!AnalyticsImplementsLedger, PTL

---------------------------------------------------------------------------
(* From the ballots to the analytics contract *)

\* Executed is written over Passed alone.
LEMMA OnlyPassedIsExecuted ==
  ASSUME [Next]_vars, NEW id \in DOMAIN proposals, BecomesExecuted(id)
  PROVE  Executing(id)
  <1>1. ASSUME UNCHANGED proposals PROVE FALSE
    BY <1>1 DEF BecomesExecuted
  <1>2. ASSUME NEW target, Gov!OpenProposal(target) PROVE FALSE
    BY <1>2 DEF Gov!OpenProposal, Gov!MapSet, BecomesExecuted
  <1>3. ASSUME NEW i \in DOMAIN proposals, Gov!Finalize(i) PROVE FALSE
    <2>1. proposals' = [proposals EXCEPT ![i].status = Gov!Verdict(tally[i])]
      BY <1>3 DEF Gov!Finalize, Gov!SetStatus
    <2>2. Gov!Verdict(tally[i]) # "Executed"
      BY DEF Gov!Verdict
    <2>3. QED BY <2>1, <2>2 DEF BecomesExecuted
  <1>4. ~GovernanceCall
    BY <1>1, <1>2, <1>3
    DEF GovernanceCall, Gov!Initialize, Gov!CreateProposal,
        Gov!CreateParameterProposal, Gov!Vote
  <1>5. ~(AnalyticsCall \/ LedgerClose \/ UNCHANGED vars)
    BY <1>1 DEF AnalyticsCall, LedgerClose, Gov!LedgerClose, vars, govVars
  <1>6. PICK caller \in User, i \in DOMAIN proposals : Execute(caller, i)
    BY <1>4, <1>5 DEF Next
  <1>7. /\ proposals[i].status = "Passed"
        /\ proposals' = [proposals EXCEPT ![i].status = "Executed"]
    BY <1>6 DEF Execute, Gov!MarkExecuted, Gov!SetStatus
  <1>8. i = id
    BY <1>7 DEF BecomesExecuted
  <1>9. QED BY <1>7, <1>8 DEF Executing, BecomesExecuted

\* A parameter of the analytics contract that a proposal changes was decided
\* by the ballots the governance contract holds, after the deadline.
THEOREM EffectsCorrect == Spec => EffectsAreVoted
  <1> DEFINE Voted ==
        \A id \in DOMAIN parameterAction : BecomesExecuted(id) =>
          /\ now >= proposals[id].votingEndsAt
          /\ Gov!Abstract!Carried(votes[id], quorum)
          /\ InEffect(parameterAction[id])
  <1>1. Spec => []GovFacts!TypeOK
    BY GovernanceFactsApply, SpecGivesGovernance, GovFacts!TypeCorrect, PTL
  <1>2. ActionsTyped /\ GovFacts!TypeOK /\ Gov!DecisionStands /\ [Next]_vars => [Voted]_vars
    <2> SUFFICES ASSUME ActionsTyped, GovFacts!TypeOK, Gov!DecisionStands, [Next]_vars,
                        NEW id \in DOMAIN parameterAction, BecomesExecuted(id)
                 PROVE  /\ now >= proposals[id].votingEndsAt
                        /\ Gov!Abstract!Carried(votes[id], quorum)
                        /\ InEffect(parameterAction[id])
      OBVIOUS
    <2>1. id \in DOMAIN proposals
      BY DEF GovFacts!TypeOK
    <2>2. Executing(id)
      BY <2>1, OnlyPassedIsExecuted
    <2>3. PICK caller \in User : Execute(caller, id)
      BY <2>1, <2>2, OnlyExecuteExecutes
    <2>4. InEffect(parameterAction[id])
      BY <2>3, ApplyFacts DEF Execute
    <2>5. QED
      BY <2>1, <2>2, <2>4 DEF Executing, Gov!DecisionStands
  <1>3. QED
    BY <1>1, <1>2, ActionsStayTyped, GovernancePromisesHold, PTL DEF Spec, EffectsAreVoted
===========================================================================
