---------------------------- MODULE Referendum ----------------------------
(***************************************************************************)
(* What the governance contract promises, with neither tallies nor clocks: *)
(* a question is opened once, every voter casts at most one ballot while   *)
(* it is open, and it is decided once, by counting exactly the ballots     *)
(* that were cast.  Only a passed question is ever carried out, and the    *)
(* quorum is not moved once a question has been asked.                     *)
(***************************************************************************)
EXTENDS Naturals, FiniteSets, SorobanStorage

CONSTANTS Voter, Id, Quorums

VARIABLES
  quorum,    \* ballots needed for a decision to count
  ballots,   \* per question: voter -> choice
  outcome    \* per question: Active, Passed, Failed or Executed

vars == <<quorum, ballots, outcome>>

Choice == {"For", "Against", "Abstain"}

Supporters(b, choice) == {v \in DOMAIN b : b[v] = choice}
Count(b, choice) == Cardinality(Supporters(b, choice))

Carried(b, q) ==
  /\ Cardinality(DOMAIN b) >= q
  /\ Count(b, "For") > Count(b, "Against")

---------------------------------------------------------------------------
Init ==
  /\ quorum = 0
  /\ ballots = EmptyMap
  /\ outcome = EmptyMap

FixQuorum ==
  /\ DOMAIN ballots = {}
  /\ quorum' \in Quorums
  /\ UNCHANGED <<ballots, outcome>>

Open(id) ==
  /\ id \notin DOMAIN ballots
  /\ ballots' = MapSet(ballots, id, EmptyMap)
  /\ outcome' = MapSet(outcome, id, "Active")
  /\ UNCHANGED quorum

Cast(voter, id, choice) ==
  /\ id \in DOMAIN ballots
  /\ outcome[id] = "Active"
  /\ voter \notin DOMAIN ballots[id]
  /\ ballots' = [ballots EXCEPT ![id] = MapSet(@, voter, choice)]
  /\ UNCHANGED <<quorum, outcome>>

Decide(id) ==
  /\ id \in DOMAIN ballots
  /\ outcome[id] = "Active"
  /\ outcome' = [outcome EXCEPT ![id] =
                   IF Carried(ballots[id], quorum) THEN "Passed" ELSE "Failed"]
  /\ UNCHANGED <<quorum, ballots>>

CarryOut(id) ==
  /\ id \in DOMAIN ballots
  /\ outcome[id] = "Passed"
  /\ outcome' = [outcome EXCEPT ![id] = "Executed"]
  /\ UNCHANGED <<quorum, ballots>>

Next ==
  \/ FixQuorum
  \/ \E id \in Id :
       \/ Open(id)
       \/ \E voter \in Voter, choice \in Choice : Cast(voter, id, choice)
       \/ Decide(id)
       \/ CarryOut(id)

Spec == Init /\ [][Next]_vars
===========================================================================
