------------------------- MODULE GovernanceProofs -------------------------
(***************************************************************************)
(* Proofs about the governance contract, for any finite set of signers,    *)
(* any quorum and voting period, and any number of proposals.              *)
(***************************************************************************)
EXTENDS Governance, FiniteSetTheorems, TLAPS

---------------------------------------------------------------------------
(* Counting ballots *)

\* The abstract specification's instance of FiniteSets is the library's.
LEMMA SameCardinality ==
  /\ \A S : Abstract!Cardinality(S) = Cardinality(S)
  BY DEF Abstract!Cardinality, Abstract!IsFiniteSet, Cardinality, IsFiniteSet

\* A ballot by a new voter joins the supporters of its choice and no others.
LEMMA BallotCounts ==
  ASSUME NEW b, NEW voter, voter \notin DOMAIN b, IsFiniteSet(DOMAIN b),
         NEW choice, NEW other
  PROVE  Abstract!Count(MapSet(b, voter, choice), other) =
           Abstract!Count(b, other) + OneIf(choice = other)
  <1> DEFINE c == MapSet(b, voter, choice)
  <1>0. /\ DOMAIN c = DOMAIN b \cup {voter}
        /\ c[voter] = choice
        /\ \A v \in DOMAIN b : c[v] = b[v]
    BY DEF MapSet
  <1>1. /\ Abstract!Supporters(b, other) \subseteq DOMAIN b
        /\ voter \notin Abstract!Supporters(b, other)
    BY DEF Abstract!Supporters
  <1>2. IsFiniteSet(Abstract!Supporters(b, other))
    BY <1>1, FS_Subset
  <1>3. Cardinality(Abstract!Supporters(b, other)) \in Nat
    BY <1>2, FS_CardinalityType
  <1>4. CASE choice = other
    <2>1. Abstract!Supporters(c, other) = Abstract!Supporters(b, other) \cup {voter}
      BY <1>4, <1>0 DEF Abstract!Supporters
    <2>2. Cardinality(Abstract!Supporters(c, other))
            = Cardinality(Abstract!Supporters(b, other)) + 1
      BY <2>1, <1>1, <1>2, FS_AddElement
    <2>3. QED BY <2>2, <1>4, SameCardinality DEF Abstract!Count, OneIf
  <1>5. CASE choice # other
    <2>1. Abstract!Supporters(c, other) = Abstract!Supporters(b, other)
      BY <1>5, <1>0 DEF Abstract!Supporters
    <2>2. QED BY <2>1, <1>3, <1>5, SameCardinality DEF Abstract!Count, OneIf
  <1>6. QED BY <1>4, <1>5

\* Nobody supports anything in an empty ballot box.
LEMMA EmptyBallotCounts ==
  ASSUME NEW b, DOMAIN b = {}
  PROVE  /\ \A choice : Abstract!Count(b, choice) = 0
         /\ Cardinality(DOMAIN b) = 0
  <1>1. \A choice : Abstract!Supporters(b, choice) = {}
    BY DEF Abstract!Supporters
  <1>2. QED BY <1>1, FS_EmptySet, SameCardinality DEF Abstract!Count

---------------------------------------------------------------------------
(* Type correctness *)

LEMMA InitTypeOK == Init => TypeOK
  BY GovernanceConstants DEF Init, TypeOK, EmptyMap

\* Opening a proposal issues the next id in every per-proposal map.
LEMMA OpenTypeOK ==
  ASSUME TypeOK, admin # NoAddress, NEW target \in Contract, OpenProposal(target)
  PROVE  /\ now' \in 0 .. MaxU64
         /\ admin' \in Address \cup {NoAddress}
         /\ quorum' \in Nat
         /\ votingPeriod' \in Nat
         /\ proposalCount' \in 0 .. MaxProposals
         /\ admin' # NoAddress
         /\ DOMAIN proposals' = 1 .. proposalCount'
         /\ DOMAIN votes' = 1 .. proposalCount'
         /\ DOMAIN tally' = 1 .. proposalCount'
         /\ \A id \in 1 .. proposalCount' :
              /\ proposals'[id] \in Proposal
              /\ DOMAIN votes'[id] \subseteq Signer
              /\ \A v \in DOMAIN votes'[id] : votes'[id][v] \in Choice
              /\ tally'[id] \in VoteTally
  <1> DEFINE new == proposalCount + 1
  <1>1. 1 .. new = (1 .. proposalCount) \cup {new}
    BY DEF TypeOK
  <1>2. new \in 0 .. MaxProposals /\ proposalCount' = new
    BY GovernanceConstants DEF TypeOK, OpenProposal
  <1>3. UNCHANGED <<now, admin, quorum, votingPeriod>>
    BY DEF OpenProposal, config
  <1>4. /\ DOMAIN proposals' = 1 .. new
        /\ DOMAIN votes' = 1 .. new
        /\ DOMAIN tally' = 1 .. new
    BY <1>1 DEF OpenProposal, TypeOK, MapSet
  <1>5. ASSUME NEW id \in 1 .. proposalCount
        PROVE  /\ proposals'[id] = proposals[id]
               /\ votes'[id] = votes[id]
               /\ tally'[id] = tally[id]
    <2>1. id # new
      BY DEF TypeOK
    <2>2. QED BY <2>1 DEF OpenProposal, TypeOK, MapSet
  <1>6. /\ proposals'[new] \in Proposal
        /\ votes'[new] = EmptyMap
        /\ tally'[new] \in VoteTally
    <2>1. /\ proposals'[new] = [target |-> target, status |-> "Active",
                createdAt |-> now, votingEndsAt |-> now + votingPeriod]
          /\ votes'[new] = EmptyMap
          /\ tally'[new] = ZeroTally
      BY DEF OpenProposal, MapSet
    <2>2. now \in Nat /\ now + votingPeriod \in Nat
      BY GovernanceConstants DEF TypeOK
    <2>3. QED BY <2>1, <2>2 DEF Proposal, Status, ZeroTally, VoteTally
  <1>7. DOMAIN EmptyMap = {}
    BY DEF EmptyMap
  <1>8. \A id \in 1 .. new :
          /\ proposals'[id] \in Proposal
          /\ DOMAIN votes'[id] \subseteq Signer
          /\ \A v \in DOMAIN votes'[id] : votes'[id][v] \in Choice
          /\ tally'[id] \in VoteTally
    BY <1>1, <1>5, <1>6, <1>7 DEF TypeOK
  <1>9. QED BY <1>2, <1>3, <1>4, <1>8 DEF TypeOK

\* Changing one status changes nothing else about the proposals.
LEMMA SetStatusFacts ==
  ASSUME TypeOK, NEW i \in DOMAIN proposals, NEW status \in Status,
         SetStatus(i, status)
  PROVE  /\ DOMAIN proposals' = DOMAIN proposals
         /\ proposals'[i].status = status
         /\ \A id \in DOMAIN proposals :
              /\ proposals'[id] \in Proposal
              /\ id # i => proposals'[id] = proposals[id]
              /\ proposals'[id].votingEndsAt = proposals[id].votingEndsAt
              /\ proposals'[id].createdAt = proposals[id].createdAt
  BY DEF SetStatus, TypeOK, Proposal

\* Casting a ballot changes one ballot box and one tally.
LEMMA VoteFacts ==
  ASSUME TypeOK, NEW voter \in Signer, NEW i \in DOMAIN proposals,
         NEW choice \in Choice, Vote(voter, i, choice)
  PROVE  /\ UNCHANGED <<now, admin, quorum, votingPeriod, proposalCount, proposals,
                        parameterAction>>
         /\ voter \notin DOMAIN votes[i]
         /\ DOMAIN votes' = DOMAIN votes
         /\ DOMAIN tally' = DOMAIN tally
         /\ votes'[i] = MapSet(votes[i], voter, choice)
         /\ tally'[i] = CountBallot(tally[i], choice)
         /\ \A id \in DOMAIN proposals :
              id # i => votes'[id] = votes[id] /\ tally'[id] = tally[id]
  BY DEF Vote, TypeOK, config

LEMMA CountBallotType ==
  ASSUME NEW t \in VoteTally, NEW choice \in Choice
  PROVE  CountBallot(t, choice) \in VoteTally
  BY DEF CountBallot, VoteTally, OneIf

LEMMA NextTypeOK == TypeOK /\ [Next]_vars => TypeOK'
  <1> SUFFICES ASSUME TypeOK, [Next]_vars PROVE TypeOK'
    OBVIOUS
  <1>1. ASSUME NEW a \in Address, NEW q \in Quorums, NEW p \in VotingPeriods,
               Initialize(a, q, p)
        PROVE  TypeOK'
    BY <1>1, GovernanceConstants DEF Initialize, TypeOK
  <1>2. ASSUME NEW caller \in Signer, NEW target \in Contract,
               CreateProposal(caller, target)
        PROVE  TypeOK'
    <2>1. OpenProposal(target) /\ UNCHANGED parameterAction /\ admin # NoAddress
      BY <1>2 DEF CreateProposal, IsAdmin
    <2>2. proposalCount' = proposalCount + 1
      BY <2>1 DEF OpenProposal
    <2>3. /\ DOMAIN parameterAction' \subseteq 1 .. proposalCount'
          /\ \A id \in DOMAIN parameterAction' : parameterAction'[id] \in Action
      BY <2>1, <2>2 DEF TypeOK
    <2>4. QED BY <2>1, <2>3, OpenTypeOK DEF TypeOK
  <1>3. ASSUME NEW caller \in Signer, NEW target \in Contract, NEW action \in Action,
               CreateParameterProposal(caller, target, action)
        PROVE  TypeOK'
    <2>1. /\ OpenProposal(target)
          /\ parameterAction' = MapSet(parameterAction, proposalCount + 1, action)
          /\ admin # NoAddress
      BY <1>3 DEF CreateParameterProposal, IsAdmin
    <2>2. proposalCount' = proposalCount + 1
      BY <2>1 DEF OpenProposal
    <2>3. /\ DOMAIN parameterAction' \subseteq 1 .. proposalCount'
          /\ \A id \in DOMAIN parameterAction' : parameterAction'[id] \in Action
      BY <2>1, <2>2 DEF TypeOK, MapSet
    <2>4. QED BY <2>1, <2>3, OpenTypeOK DEF TypeOK
  <1>4. ASSUME NEW id \in DOMAIN proposals, NEW voter \in Signer, NEW choice \in Choice,
               Vote(voter, id, choice)
        PROVE  TypeOK'
    <2>0. votes'[id] = MapSet(votes[id], voter, choice)
      BY <1>4, VoteFacts
    <2>1. /\ DOMAIN votes'[id] \subseteq Signer
          /\ \A v \in DOMAIN votes'[id] : votes'[id][v] \in Choice
      BY <2>0 DEF TypeOK, MapSet
    <2>2. tally'[id] \in VoteTally
      BY <1>4, VoteFacts, CountBallotType DEF TypeOK
    <2>3. \A i \in 1 .. proposalCount :
            /\ DOMAIN votes'[i] \subseteq Signer
            /\ \A v \in DOMAIN votes'[i] : votes'[i][v] \in Choice
            /\ tally'[i] \in VoteTally
      BY <1>4, <2>1, <2>2, VoteFacts DEF TypeOK
    <2>4. /\ DOMAIN votes' = 1 .. proposalCount
          /\ DOMAIN tally' = 1 .. proposalCount
      BY <1>4, VoteFacts DEF TypeOK
    <2>5. UNCHANGED <<now, config, proposalCount, proposals, parameterAction>>
      BY <1>4 DEF Vote
    <2>6. QED BY <2>3, <2>4, <2>5 DEF TypeOK, config
  <1>5. ASSUME NEW id \in DOMAIN proposals, NEW status \in Status, SetStatus(id, status),
               UNCHANGED <<now, config, proposalCount, votes, tally, parameterAction>>
        PROVE  TypeOK'
    BY <1>5, SetStatusFacts DEF TypeOK, config
  <1>6. CASE LedgerClose
    BY <1>6, GovernanceConstants DEF LedgerClose, TypeOK, config
  <1>7. CASE UNCHANGED vars
    BY <1>7 DEF vars, config, TypeOK
  <1>8. ASSUME NEW id \in DOMAIN proposals, Finalize(id)
        PROVE  TypeOK'
    <2>1. Verdict(tally[id]) \in Status
      BY DEF Verdict, Status
    <2>2. QED BY <1>8, <2>1, <1>5 DEF Finalize
  <1>9. ASSUME NEW id \in DOMAIN proposals, NEW caller \in Signer,
               MarkExecuted(caller, id)
        PROVE  TypeOK'
    <2>1. "Executed" \in Status
      BY DEF Status
    <2>2. QED BY <1>9, <2>1, <1>5 DEF MarkExecuted
  <1>10. QED
    BY <1>1, <1>2, <1>3, <1>4, <1>6, <1>7, <1>8, <1>9 DEF Next, Call

\* Ids are issued densely and every per-proposal map is keyed by exactly the
\* issued ids, whatever the order of the calls.
THEOREM TypeCorrect == Spec => []TypeOK
  <1>1. TypeOK /\ [Next]_vars => TypeOK'
    BY NextTypeOK
  <1>2. QED BY InitTypeOK, <1>1, PTL DEF Spec

\* What a step may be, with the two create entry points merged.
LEMMA StepCases ==
  ASSUME [Next]_vars
  PROVE  \/ \E a \in Address, q \in Quorums, p \in VotingPeriods : Initialize(a, q, p)
         \/ \E target \in Contract : OpenProposal(target)
         \/ \E id \in DOMAIN proposals, voter \in Signer, choice \in Choice :
              Vote(voter, id, choice)
         \/ \E id \in DOMAIN proposals : Finalize(id)
         \/ \E id \in DOMAIN proposals, caller \in Signer : MarkExecuted(caller, id)
         \/ LedgerClose
         \/ UNCHANGED vars
  BY Zenon DEF Next, Call, CreateProposal, CreateParameterProposal

---------------------------------------------------------------------------
(* The tally counts the ballots *)

LEMMA FiniteBallots ==
  ASSUME TypeOK, NEW id \in DOMAIN proposals
  PROVE  IsFiniteSet(DOMAIN votes[id])
  BY GovernanceConstants, FS_Subset DEF TypeOK

\* The calls that leave ballots and tallies alone keep them in agreement.
LEMMA SameBallotsSameCount ==
  ASSUME TallyCountsBallots, DOMAIN proposals' = DOMAIN proposals,
         UNCHANGED <<votes, tally>>
  PROVE  TallyCountsBallots'
  BY DEF TallyCountsBallots

LEMMA OpenFacts ==
  ASSUME TypeOK, NEW target \in Contract, OpenProposal(target)
  PROVE  LET new == proposalCount + 1 IN
           /\ UNCHANGED <<now, admin, quorum, votingPeriod>>
           /\ new \notin DOMAIN proposals
           /\ proposalCount < MaxProposals
           /\ DOMAIN proposals' = DOMAIN proposals \cup {new}
           /\ \A id \in DOMAIN proposals :
                /\ proposals'[id] = proposals[id]
                /\ votes'[id] = votes[id]
                /\ tally'[id] = tally[id]
           /\ proposals'[new].status = "Active"
           /\ proposals'[new].createdAt = now
           /\ proposals'[new].votingEndsAt = now + votingPeriod
           /\ DOMAIN votes'[new] = {}
           /\ tally'[new] = ZeroTally
  BY DEF OpenProposal, TypeOK, MapSet, config, EmptyMap

LEMMA OpenCounts ==
  ASSUME TypeOK, TallyCountsBallots, NEW target \in Contract, OpenProposal(target)
  PROVE  TallyCountsBallots'
  <1> DEFINE new == proposalCount + 1
  <1>1. \A id \in DOMAIN proposals : Agrees(tally'[id], votes'[id])
    BY OpenFacts DEF TallyCountsBallots
  <1>2. Agrees(tally'[new], votes'[new])
    <2>1. DOMAIN votes'[new] = {} /\ tally'[new] = ZeroTally
      BY OpenFacts
    <2>2. /\ \A choice : Abstract!Count(votes'[new], choice) = 0
          /\ Cardinality(DOMAIN votes'[new]) = 0
      BY <2>1, EmptyBallotCounts
    <2>3. QED BY <2>1, <2>2 DEF ZeroTally, Agrees
  <1>3. DOMAIN proposals' = DOMAIN proposals \cup {new}
    BY OpenFacts
  <1>4. QED
    BY <1>1, <1>2, <1>3 DEF TallyCountsBallots

LEMMA VoteCounts ==
  ASSUME TypeOK, TallyCountsBallots, NEW i \in DOMAIN proposals,
         NEW voter \in Signer, NEW choice \in Choice, Vote(voter, i, choice)
  PROVE  TallyCountsBallots'
  <1>1. IsFiniteSet(DOMAIN votes[i])
    BY FiniteBallots
  <1>2. voter \notin DOMAIN votes[i]
    BY VoteFacts
  <1>3. votes'[i] = MapSet(votes[i], voter, choice)
    BY VoteFacts
  <1>4. tally'[i] = CountBallot(tally[i], choice)
    BY VoteFacts
  <1>5. \A other : Abstract!Count(votes'[i], other) =
                     Abstract!Count(votes[i], other) + OneIf(choice = other)
    BY <1>1, <1>2, <1>3, BallotCounts
  <1>6. Cardinality(DOMAIN votes'[i]) = Cardinality(DOMAIN votes[i]) + 1
    <2>1. DOMAIN votes'[i] = DOMAIN votes[i] \cup {voter}
      BY <1>3 DEF MapSet
    <2>2. QED BY <2>1, <1>1, <1>2, FS_AddElement
  <1>7. Agrees(tally'[i], votes'[i])
    BY <1>4, <1>5, <1>6 DEF CountBallot, TallyCountsBallots, Agrees
  <1>8. \A id \in DOMAIN proposals :
          id # i => votes'[id] = votes[id] /\ tally'[id] = tally[id]
    BY VoteFacts
  <1>9. DOMAIN proposals' = DOMAIN proposals
    BY VoteFacts
  <1>10. QED
    BY <1>7, <1>8, <1>9 DEF TallyCountsBallots

LEMMA NextCounts == TypeOK /\ TallyCountsBallots /\ [Next]_vars => TallyCountsBallots'
  <1> SUFFICES ASSUME TypeOK, TallyCountsBallots, [Next]_vars
               PROVE  TallyCountsBallots'
    OBVIOUS
  <1>1. CASE \E target \in Contract : OpenProposal(target)
    BY <1>1, OpenCounts
  <1>2. CASE \E id \in DOMAIN proposals, voter \in Signer, choice \in Choice :
               Vote(voter, id, choice)
    BY <1>2, VoteCounts
  <1>3. CASE \E id \in DOMAIN proposals : Finalize(id)
    <2>1. DOMAIN proposals' = DOMAIN proposals /\ UNCHANGED <<votes, tally>>
      BY <1>3 DEF Finalize, SetStatus
    <2>2. QED BY <2>1, SameBallotsSameCount
  <1>4. CASE \E id \in DOMAIN proposals, caller \in Signer : MarkExecuted(caller, id)
    <2>1. DOMAIN proposals' = DOMAIN proposals /\ UNCHANGED <<votes, tally>>
      BY <1>4 DEF MarkExecuted, SetStatus
    <2>2. QED BY <2>1, SameBallotsSameCount
  <1>5. CASE \E a \in Address, q \in Quorums, p \in VotingPeriods : Initialize(a, q, p)
    BY <1>5, SameBallotsSameCount DEF Initialize
  <1>6. CASE LedgerClose \/ UNCHANGED vars
    BY <1>6, SameBallotsSameCount DEF LedgerClose, vars
  <1>7. QED BY <1>1, <1>2, <1>3, <1>4, <1>5, <1>6, StepCases

\* The four counters agree with the stored ballots in every reachable state.
THEOREM TallyCorrect == Spec => []TallyCountsBallots
  <1>1. Init => TallyCountsBallots
    BY DEF Init, TallyCountsBallots, EmptyMap
  <1>2. TypeOK /\ TallyCountsBallots /\ [Next]_vars => TallyCountsBallots'
    BY NextCounts
  <1>3. QED BY <1>1, <1>2, TypeCorrect, PTL DEF Spec

---------------------------------------------------------------------------
(* Decisions *)

\* Deciding by the counters is deciding by the ballots.
LEMMA VerdictCountsBallots ==
  ASSUME NEW t, NEW b, Agrees(t, b)
  PROVE  Verdict(t) = IF Abstract!Carried(b, quorum) THEN "Passed" ELSE "Failed"
  BY SameCardinality DEF Agrees, Verdict, Abstract!Carried

\* What links a proposal's window to the configuration: without it nothing
\* rules out a ballot in the empty window of a zero voting period.
Windows ==
  \A id \in DOMAIN proposals :
    /\ proposals[id].createdAt <= now
    /\ proposals[id].votingEndsAt = proposals[id].createdAt + votingPeriod
    /\ votingPeriod = 0 => DOMAIN votes[id] = {}

LEMMA NextWindows == TypeOK /\ Windows /\ [Next]_vars => Windows'
  <1> SUFFICES ASSUME TypeOK, Windows, [Next]_vars PROVE Windows'
    OBVIOUS
  <1>0. now \in Nat /\ votingPeriod \in Nat
    BY GovernanceConstants DEF TypeOK
  <1>1. CASE \E a \in Address, q \in Quorums, p \in VotingPeriods : Initialize(a, q, p)
    <2>1. DOMAIN proposals = {} /\ UNCHANGED proposals
      BY <1>1 DEF Initialize, TypeOK
    <2>2. QED BY <2>1 DEF Windows
  <1>2. ASSUME NEW target \in Contract, OpenProposal(target)
        PROVE  Windows'
    <2> DEFINE new == proposalCount + 1
    <2>1. DOMAIN proposals' = DOMAIN proposals \cup {new} /\ UNCHANGED <<now, votingPeriod>>
      BY <1>2, OpenFacts
    <2>2. \A id \in DOMAIN proposals :
            proposals'[id] = proposals[id] /\ votes'[id] = votes[id]
      BY <1>2, OpenFacts
    <2>3. /\ proposals'[new].createdAt = now
          /\ proposals'[new].votingEndsAt = now + votingPeriod
          /\ DOMAIN votes'[new] = {}
      BY <1>2, OpenFacts
    <2>4. QED BY <1>0, <2>1, <2>2, <2>3 DEF Windows
  <1>3. ASSUME NEW i \in DOMAIN proposals, NEW voter \in Signer, NEW choice \in Choice,
               Vote(voter, i, choice)
        PROVE  Windows'
    <2>1. now < proposals[i].votingEndsAt
      BY <1>3 DEF Vote, VotingOpen
    <2>2. proposals[i].createdAt \in Nat
      BY DEF TypeOK, Proposal
    <2>3. votingPeriod # 0
      BY <2>1, <2>2, <1>0 DEF Windows
    <2>4. UNCHANGED <<now, votingPeriod, proposals>>
      BY <1>3, VoteFacts
    <2>5. QED BY <2>3, <2>4 DEF Windows
  <1>4. ASSUME NEW i \in DOMAIN proposals, NEW status \in Status, SetStatus(i, status),
               UNCHANGED <<now, votingPeriod, votes>>
        PROVE  Windows'
    BY <1>4, SetStatusFacts DEF Windows
  <1>5. CASE \E id \in DOMAIN proposals : Finalize(id)
    BY <1>5, <1>4 DEF Finalize, Verdict, Status, config
  <1>6. CASE \E id \in DOMAIN proposals, caller \in Signer : MarkExecuted(caller, id)
    BY <1>6, <1>4 DEF MarkExecuted, Status, config
  <1>7. CASE LedgerClose
    <2>1. now' = now + 1 /\ UNCHANGED <<votingPeriod, proposals, votes>>
      BY <1>7 DEF LedgerClose, config
    <2>2. \A id \in DOMAIN proposals : proposals[id].createdAt \in Nat
      BY DEF TypeOK, Proposal
    <2>3. QED BY <2>1, <2>2, <1>0 DEF Windows
  <1>8. CASE UNCHANGED vars
    BY <1>8 DEF Windows, vars, config
  <1>9. QED BY <1>1, <1>2, <1>3, <1>5, <1>6, <1>7, <1>8, StepCases

\* One proposal's decision, read off its ballots.
Stands(p, b, q, time) ==
  p.status # "Active" =>
    /\ time >= p.votingEndsAt
    /\ (p.status = "Failed") <=> ~Abstract!Carried(b, q)

LEMMA NextDecisionStands ==
  TypeOK /\ TallyCountsBallots /\ DecisionStands /\ [Next]_vars => DecisionStands'
  <1> SUFFICES ASSUME TypeOK, TallyCountsBallots, DecisionStands, [Next]_vars
               PROVE  DecisionStands'
    OBVIOUS
  <1>0. /\ \A id \in DOMAIN proposals : Stands(proposals[id], votes[id], quorum, now)
        /\ (\A id \in DOMAIN proposals' :
              Stands(proposals'[id], votes'[id], quorum', now')) => DecisionStands'
    BY DEF DecisionStands, Stands
  <1>1. CASE \E a \in Address, q \in Quorums, p \in VotingPeriods : Initialize(a, q, p)
    <2>1. DOMAIN proposals = {} /\ UNCHANGED proposals
      BY <1>1 DEF Initialize, TypeOK
    <2>2. QED BY <2>1, <1>0
  <1>2. ASSUME NEW target \in Contract, OpenProposal(target)
        PROVE  DecisionStands'
    <2> DEFINE new == proposalCount + 1
    <2>1. DOMAIN proposals' = DOMAIN proposals \cup {new} /\ UNCHANGED <<now, quorum>>
      BY <1>2, OpenFacts
    <2>2. \A id \in DOMAIN proposals :
            proposals'[id] = proposals[id] /\ votes'[id] = votes[id]
      BY <1>2, OpenFacts
    <2>3. proposals'[new].status = "Active"
      BY <1>2, OpenFacts
    <2>4. Stands(proposals'[new], votes'[new], quorum', now')
      BY <2>3 DEF Stands
    <2>5. QED BY <1>0, <2>1, <2>2, <2>4
  <1>3. ASSUME NEW i \in DOMAIN proposals, NEW voter \in Signer, NEW choice \in Choice,
               Vote(voter, i, choice)
        PROVE  DecisionStands'
    <2>1. proposals[i].status = "Active"
      BY <1>3 DEF Vote, VotingOpen
    <2>2. UNCHANGED <<now, quorum, proposals>>
      BY <1>3, VoteFacts
    <2>3. \A id \in DOMAIN proposals : id # i => votes'[id] = votes[id]
      BY <1>3, VoteFacts
    <2>4. Stands(proposals'[i], votes'[i], quorum', now')
      BY <2>1, <2>2 DEF Stands
    <2>5. QED BY <1>0, <2>2, <2>3, <2>4
  <1>4. ASSUME NEW i \in DOMAIN proposals, NEW status \in Status, SetStatus(i, status),
               UNCHANGED <<now, quorum, votes>>,
               now >= proposals[i].votingEndsAt,
               (status = "Failed") <=> ~Abstract!Carried(votes[i], quorum)
        PROVE  DecisionStands'
    <2>1. Stands(proposals'[i], votes'[i], quorum', now')
      BY <1>4, SetStatusFacts DEF Stands
    <2>2. \A id \in DOMAIN proposals : id # i => proposals'[id] = proposals[id]
      BY <1>4, SetStatusFacts
    <2>3. DOMAIN proposals' = DOMAIN proposals
      BY <1>4, SetStatusFacts
    <2>4. QED BY <1>0, <1>4, <2>1, <2>2, <2>3
  <1>5. ASSUME NEW id \in DOMAIN proposals, Finalize(id)
        PROVE  DecisionStands'
    <2>1. Verdict(tally[id]) = IF Abstract!Carried(votes[id], quorum)
                               THEN "Passed" ELSE "Failed"
      BY VerdictCountsBallots DEF TallyCountsBallots
    <2>2. Verdict(tally[id]) \in Status
      BY <2>1 DEF Status
    <2>3. QED BY <1>5, <2>1, <2>2, <1>4 DEF Finalize, config
  <1>6. ASSUME NEW id \in DOMAIN proposals, NEW caller \in Signer, MarkExecuted(caller, id)
        PROVE  DecisionStands'
    <2>1. proposals[id].status = "Passed"
      BY <1>6 DEF MarkExecuted
    <2>2. now >= proposals[id].votingEndsAt /\ Abstract!Carried(votes[id], quorum)
      BY <2>1, <1>0 DEF Stands
    <2>3. "Executed" \in Status
      BY DEF Status
    <2>4. QED BY <1>6, <2>2, <2>3, <1>4 DEF MarkExecuted, config
  <1>7. CASE LedgerClose
    <2>1. now' = now + 1 /\ UNCHANGED <<quorum, proposals, votes>>
      BY <1>7 DEF LedgerClose, config
    <2>2. \A id \in DOMAIN proposals : proposals[id].votingEndsAt \in Nat
      BY DEF TypeOK, Proposal
    <2>3. now \in Nat
      BY GovernanceConstants DEF TypeOK
    <2>4. \A id \in DOMAIN proposals : Stands(proposals'[id], votes'[id], quorum', now')
      BY <1>0, <2>1, <2>2, <2>3 DEF Stands
    <2>5. QED BY <1>0, <2>1, <2>4
  <1>8. CASE UNCHANGED vars
    BY <1>8, <1>0 DEF vars, config
  <1>9. QED BY <1>1, <1>2, <1>3, <1>5, <1>6, <1>7, <1>8, StepCases

\* A decision was made after the deadline and stays the verdict on the stored
\* ballots under the stored quorum.
THEOREM DecisionsCorrect == Spec => []DecisionStands
  <1>1. Init => DecisionStands
    BY DEF Init, DecisionStands, EmptyMap
  <1>2. TypeOK /\ TallyCountsBallots /\ DecisionStands /\ [Next]_vars => DecisionStands'
    BY NextDecisionStands
  <1>3. QED BY <1>1, <1>2, TypeCorrect, TallyCorrect, PTL DEF Spec

\* With a voting period of zero nothing is ever carried.
THEOREM EmptyWindow == Spec => []EmptyWindowNeverPasses
  <1>1. Init => Windows
    BY DEF Init, Windows, EmptyMap
  <1>2. TypeOK /\ Windows /\ [Next]_vars => Windows'
    BY NextWindows
  <1>3. TypeOK /\ Windows /\ DecisionStands => EmptyWindowNeverPasses
    <2> SUFFICES ASSUME TypeOK, Windows, DecisionStands, votingPeriod = 0,
                        NEW id \in DOMAIN proposals
                 PROVE  proposals[id].status \in {"Active", "Failed"}
      BY DEF EmptyWindowNeverPasses
    <2>1. DOMAIN votes[id] = {}
      BY DEF Windows
    <2>2. /\ Abstract!Count(votes[id], "For") = 0
          /\ Abstract!Count(votes[id], "Against") = 0
      BY <2>1, EmptyBallotCounts
    <2>3. ~Abstract!Carried(votes[id], quorum)
      BY <2>2 DEF Abstract!Carried
    <2>4. proposals[id].status \in Status
      BY DEF TypeOK, Proposal
    <2>5. QED BY <2>3, <2>4 DEF DecisionStands, Status
  <1>4. QED BY <1>1, <1>2, <1>3, TypeCorrect, DecisionsCorrect, PTL DEF Spec

---------------------------------------------------------------------------
(* Ballots are final *)

LEMMA VoteKeepsBallots ==
  ASSUME TypeOK, NEW i \in DOMAIN proposals, NEW voter \in Signer,
         NEW choice \in Choice, Vote(voter, i, choice), NEW id \in DOMAIN votes
  PROVE  /\ \A v \in DOMAIN votes[id] :
              v \in DOMAIN votes'[id] /\ votes'[id][v] = votes[id][v]
         /\ now >= proposals[id].votingEndsAt => votes'[id] = votes[id]
  <1>0. id \in DOMAIN proposals
    BY DEF TypeOK
  <1>1. CASE id = i
    <2>1. now < proposals[i].votingEndsAt
      BY DEF Vote, VotingOpen
    <2>2. voter \notin DOMAIN votes[i]
      BY VoteFacts
    <2>3. votes'[i] = MapSet(votes[i], voter, choice)
      BY VoteFacts
    <2>4. now \in Nat /\ proposals[i].votingEndsAt \in Nat
      BY GovernanceConstants DEF TypeOK, Proposal
    <2>5. QED BY <1>1, <2>1, <2>2, <2>3, <2>4 DEF MapSet
  <1>2. CASE id # i
    BY <1>0, <1>2, VoteFacts
  <1>3. QED BY <1>1, <1>2

\* No call changes or withdraws a ballot, and none adds one once the deadline
\* has come.
THEOREM BallotsFinal == Spec => BallotsAreFinal
  <1> DEFINE Kept == \A id \in DOMAIN votes :
               /\ \A v \in DOMAIN votes[id] :
                    v \in DOMAIN votes'[id] /\ votes'[id][v] = votes[id][v]
               /\ now >= proposals[id].votingEndsAt => votes'[id] = votes[id]
  <1>1. TypeOK /\ [Next]_vars => [Kept]_vars
    <2> SUFFICES ASSUME TypeOK, [Next]_vars PROVE Kept
      OBVIOUS
    <2>1. CASE \E target \in Contract : OpenProposal(target)
      <3>1. DOMAIN votes = DOMAIN proposals
        BY DEF TypeOK
      <3>2. QED BY <2>1, <3>1, OpenFacts
    <2>2. CASE \E id \in DOMAIN proposals, voter \in Signer, choice \in Choice :
                 Vote(voter, id, choice)
      BY <2>2, VoteKeepsBallots
    <2>3. ASSUME UNCHANGED votes
          PROVE  Kept
      BY <2>3
    <2>4. CASE \E a \in Address, q \in Quorums, p \in VotingPeriods : Initialize(a, q, p)
      BY <2>3, <2>4 DEF Initialize
    <2>5. CASE \E id \in DOMAIN proposals : Finalize(id)
      BY <2>3, <2>5 DEF Finalize
    <2>6. CASE \E id \in DOMAIN proposals, caller \in Signer : MarkExecuted(caller, id)
      BY <2>3, <2>6 DEF MarkExecuted
    <2>7. CASE LedgerClose \/ UNCHANGED vars
      BY <2>3, <2>7 DEF LedgerClose, vars
    <2>8. QED BY <2>1, <2>2, <2>4, <2>5, <2>6, <2>7, StepCases
  <1>2. QED BY <1>1, TypeCorrect, PTL DEF Spec, BallotsAreFinal

---------------------------------------------------------------------------
(* Refinement *)

outcome == [id \in DOMAIN proposals |-> proposals[id].status]

LEMMA InitRefines == Init => Abstract!Init
  BY DEF Init, Abstract!Init, EmptyMap, Abstract!EmptyMap

LEMMA StatusOutcome ==
  ASSUME TypeOK, NEW i \in DOMAIN proposals, NEW status \in Status,
         SetStatus(i, status)
  PROVE  outcome' = [outcome EXCEPT ![i] = status]
  <1>1. DOMAIN proposals' = DOMAIN proposals
    BY SetStatusFacts
  <1>2. \A id \in DOMAIN proposals :
          proposals'[id].status = IF id = i THEN status ELSE proposals[id].status
    BY SetStatusFacts
  <1>3. QED BY <1>1, <1>2 DEF outcome

LEMMA NextRefines ==
  TypeOK /\ TallyCountsBallots /\ [Next]_vars => [Abstract!Next]_(Abstract!vars)
  <1> SUFFICES ASSUME TypeOK, TallyCountsBallots, [Next]_vars
               PROVE  Abstract!Next \/ UNCHANGED <<quorum, votes, outcome>>
    BY DEF Abstract!vars, outcome
  <1>0. DOMAIN proposals = 1 .. proposalCount /\ DOMAIN votes = 1 .. proposalCount
        /\ proposalCount \in 0 .. MaxProposals
    BY DEF TypeOK
  <1>00. DOMAIN proposals \subseteq 1 .. MaxProposals
    BY <1>0, GovernanceConstants
  <1>1. CASE \E a \in Address, q \in Quorums, p \in VotingPeriods : Initialize(a, q, p)
    <2>1. /\ DOMAIN votes = {}
          /\ quorum' \in Quorums
          /\ UNCHANGED <<votes, proposals>>
      BY <1>0, <1>1 DEF Initialize, TypeOK
    <2>2. Abstract!FixQuorum
      BY <2>1 DEF Abstract!FixQuorum
    <2>3. QED BY <2>2 DEF Abstract!Next
  <1>2. ASSUME NEW target \in Contract, OpenProposal(target)
        PROVE  Abstract!Next
    <2> DEFINE new == proposalCount + 1
    <2>1. new \in 1 .. MaxProposals /\ new \notin DOMAIN votes
      BY <1>2, <1>0, GovernanceConstants DEF OpenProposal
    <2>2. votes' = Abstract!MapSet(votes, new, Abstract!EmptyMap)
      BY <1>2 DEF OpenProposal, MapSet, EmptyMap, Abstract!MapSet, Abstract!EmptyMap
    <2>3. outcome' = Abstract!MapSet(outcome, new, "Active")
      <3>1. DOMAIN proposals' = DOMAIN proposals \cup {new}
        BY <1>2, OpenFacts
      <3>2. \A id \in DOMAIN proposals : proposals'[id] = proposals[id]
        BY <1>2, OpenFacts
      <3>3. proposals'[new].status = "Active" /\ new \notin DOMAIN proposals
        BY <1>2, OpenFacts
      <3>4. QED BY <3>1, <3>2, <3>3 DEF outcome, Abstract!MapSet
    <2>4. UNCHANGED quorum
      BY <1>2, OpenFacts
    <2>5. Abstract!Open(new)
      BY <2>1, <2>2, <2>3, <2>4 DEF Abstract!Open, outcome
    <2>6. PICK n : n = new
      OBVIOUS
    <2>7. n \in 1 .. MaxProposals /\ Abstract!Open(n)
      BY <2>1, <2>5, <2>6 DEF Abstract!Open
    <2>8. QED BY <2>7 DEF Abstract!Next
  <1>3. ASSUME NEW i \in DOMAIN proposals, NEW voter \in Signer, NEW choice \in Choice,
               Vote(voter, i, choice)
        PROVE  Abstract!Next
    <2>1. i \in DOMAIN votes /\ outcome[i] = "Active" /\ voter \notin DOMAIN votes[i]
      BY <1>0, <1>3 DEF Vote, VotingOpen, outcome
    <2>2. votes' = [votes EXCEPT ![i] = Abstract!MapSet(@, voter, choice)]
      BY <1>3 DEF Vote, MapSet, Abstract!MapSet
    <2>3. UNCHANGED <<quorum, proposals>>
      BY <1>3, VoteFacts
    <2>4. Abstract!Cast(voter, i, choice)
      BY <2>1, <2>2, <2>3 DEF Abstract!Cast, outcome
    <2>5. choice \in Abstract!Choice
      BY DEF Choice, Abstract!Choice
    <2>6. i \in 1 .. MaxProposals
      BY <1>00
    <2>7. QED BY <2>4, <2>5, <2>6 DEF Abstract!Next
  <1>4. ASSUME NEW id \in DOMAIN proposals, Finalize(id)
        PROVE  Abstract!Next
    <2>1. Verdict(tally[id]) = IF Abstract!Carried(votes[id], quorum)
                               THEN "Passed" ELSE "Failed"
      BY VerdictCountsBallots DEF TallyCountsBallots
    <2>2. /\ Verdict(tally[id]) \in Status
          /\ SetStatus(id, Verdict(tally[id]))
          /\ UNCHANGED <<quorum, votes>>
          /\ outcome[id] = "Active"
      BY <1>4, <2>1 DEF Finalize, config, Status, outcome
    <2>3. outcome' = [outcome EXCEPT ![id] = Verdict(tally[id])]
      BY <2>2, StatusOutcome
    <2>4. Abstract!Decide(id)
      BY <1>0, <2>1, <2>2, <2>3 DEF Abstract!Decide, outcome
    <2>5. id \in 1 .. MaxProposals
      BY <1>00
    <2>6. QED BY <2>5, <2>4 DEF Abstract!Next
  <1>5. ASSUME NEW id \in DOMAIN proposals, NEW caller \in Signer, MarkExecuted(caller, id)
        PROVE  Abstract!Next
    <2>1. /\ SetStatus(id, "Executed")
          /\ UNCHANGED <<quorum, votes>>
          /\ outcome[id] = "Passed"
          /\ "Executed" \in Status
      BY <1>5 DEF MarkExecuted, config, Status, outcome
    <2>2. outcome' = [outcome EXCEPT ![id] = "Executed"]
      BY <2>1, StatusOutcome
    <2>3. Abstract!CarryOut(id)
      BY <1>0, <2>1, <2>2 DEF Abstract!CarryOut, outcome
    <2>5. id \in 1 .. MaxProposals
      BY <1>00
    <2>6. QED BY <2>5, <2>3 DEF Abstract!Next
  <1>6. CASE LedgerClose \/ UNCHANGED vars
    BY <1>6 DEF LedgerClose, vars, config, outcome
  <1>7. QED BY <1>1, <1>2, <1>3, <1>4, <1>5, <1>6, StepCases

\* The contract implements the referendum, for any number of voters.
THEOREM GovernanceImplementsReferendum == Spec => ImplementsReferendum
  <1>1. TypeOK /\ TallyCountsBallots /\ [Next]_vars => [Abstract!Next]_(Abstract!vars)
    BY NextRefines
  <1>2. QED
    BY InitRefines, <1>1, TypeCorrect, TallyCorrect, PTL
    DEF Spec, ImplementsReferendum, Abstract!Spec
===========================================================================
