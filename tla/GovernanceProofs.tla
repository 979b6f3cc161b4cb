-------------------------- MODULE GovernanceProofs --------------------------
(***************************************************************************)
(* Governance over a staking contract whose stakes move between the votes: *)
(* tallies, indexes, delegations, reviews and what the votes weigh, for    *)
(* every number of accounts, proposals, configurations and periods.        *)
(***************************************************************************)
EXTENDS Governance, StakingProofs

-----------------------------------------------------------------------------
(* The state in parts.                                                     *)

VoteRecord == [vote : VoteType, vote_power : Int]

BallotOK ==
    /\ proposals \in Seq(Proposal)
    /\ DOMAIN vote_records \subseteq ProposalIds \X User
    /\ \A k \in DOMAIN vote_records : vote_records[k] \in VoteRecord
    /\ DOMAIN deposits \subseteq ProposalIds
    /\ \A id \in DOMAIN deposits : deposits[id] \in Nat
    /\ by_status \in [ProposalStatus -> Seq(ProposalIds)]

DelegationOK == Entries(delegation, User) /\ delegators \in [User -> Seq(User)]

\* A configuration in force is the first one or one that was queued.
SettingOK ==
    /\ config \in AllConfigs
    /\ pending_config \subseteq [new_config : Configs, executable_at : Nat]
    /\ Cardinality(pending_config) <= 1
    /\ staking_contract \in BOOLEAN /\ gov_paused \in BOOLEAN

LEMMA ConfigsAreConfigurations == AllConfigs \subseteq GovernanceConfig
BY GovernanceAssumption DEF AllConfigs

LEMMA GovernanceTypeInParts ==
    StakingTypeOK /\ BallotOK /\ DelegationOK /\ SettingOK => TypeOK
BY ConfigsAreConfigurations, GovernanceAssumption
   DEF TypeOK, BallotOK, DelegationOK, SettingOK, Entries, VoteRecord

LEMMA ElementsAreSet == \A s : ToSet(s) = Elements(s)
BY DEF ToSet, Elements

LEMMA ReplacedElement ==
    ASSUME NEW S, NEW list \in Seq(S), NEW i \in DOMAIN list, NEW x \in S,
           NEW l, l = [list EXCEPT ![i] = x]
    PROVE  /\ l \in Seq(S) /\ Len(l) = Len(list) /\ DOMAIN l = DOMAIN list
           /\ l[i] = x /\ \A j \in DOMAIN list : j # i => l[j] = list[j]
OBVIOUS

-----------------------------------------------------------------------------
(* What a call does to the ballot: it creates a proposal, casts votes for  *)
(* one or moves one to another status.                                     *)

\* The votes that approved a proposal, and the review they leave time for.
Passed(p, c) ==
    LET directional == p.tally["For"] + p.tally["Against"]
    IN  /\ Total(p) >= c.quorum_votes
        /\ directional > 0 /\ p.tally["For"] * 10000 >= c.pass_threshold_bps * directional
Approved(p) ==
    \E c \in AllConfigs : Passed(p, c) /\ p.timelock_ends_at > p.voting_ends_at + c.timelock

Creates(p) ==
    /\ p \in Proposal /\ p.status = "Active" /\ p.tally = [v \in VoteType |-> 0]
    /\ \E c \in AllConfigs : p.voting_ends_at = now + c.voting_period
    /\ proposals' = Append(proposals, p)
    /\ deposits' = Put(deposits, NextId, p.deposit_amount)
    /\ by_status' = [by_status EXCEPT !["Active"] = Append(@, NextId)]
    /\ UNCHANGED vote_records

Ballot(v, n) == [vote |-> v, vote_power |-> n]
Cast(id, vote, voters, power) == [k \in {id} \X voters |-> Ballot(vote, power[k[2]])]
Raised(tally, vote, n) == [tally EXCEPT ![vote] = @ + n]
Counted(id, vote, voters, power) ==
    [proposals[id + 1] EXCEPT !.tally = Raised(@, vote, SumFunctionOnSet(power, voters))]

Casts(id, vote, voters, power) ==
    /\ id \in ProposalIds /\ vote \in VoteType /\ voters \subseteq User
    /\ \A voter \in voters : power[voter] \in Int /\ power[voter] = get_vote_power(voter)
    /\ proposals[id + 1].status = "Active" /\ now <= proposals[id + 1].voting_ends_at
    /\ \A voter \in voters : <<id, voter>> \notin DOMAIN vote_records
    /\ vote_records' = Recorded(Cast(id, vote, voters, power))
    /\ proposals' = [proposals EXCEPT ![id + 1] = Counted(id, vote, voters, power)]
    /\ UNCHANGED <<deposits, by_status>>

Moves(id, p) ==
    /\ id \in ProposalIds /\ p \in Proposal
    /\ proposals[id + 1].status \in {"Active", "Queued"}
    /\ p.status \notin {"Active", proposals[id + 1].status}
    /\ p.tally = proposals[id + 1].tally
    /\ p.voting_ends_at = proposals[id + 1].voting_ends_at
    /\ p.status = "Queued" => Approved(p)
    /\ p.status = "Executed" =>
          /\ proposals[id + 1].status = "Queued"
          /\ now >= proposals[id + 1].timelock_ends_at
    /\ proposals' = [proposals EXCEPT ![id + 1] = p]
    /\ by_status' = Reindexed(id, proposals[id + 1].status, p.status)
    /\ DOMAIN deposits' = DOMAIN deposits \ {id}
    /\ \A x \in DOMAIN deposits' : deposits'[x] = deposits[x]
    /\ UNCHANGED vote_records

BallotStep ==
    \/ \E p : Creates(p)
    \/ \E id, vote, voters, power : Casts(id, vote, voters, power)
    \/ \E id, p : Moves(id, p)
    \/ UNCHANGED ballotVars

LEMMA IdIsIndex ==
    ASSUME proposals \in Seq(Proposal), NEW id \in ProposalIds
    PROVE  id \in Nat /\ id + 1 \in DOMAIN proposals /\ proposals[id + 1] \in Proposal
BY DEF ProposalIds

LEMMA CreateCreates ==
    ASSUME BallotOK, AccountsOK, SettingOK, NEW u \in User, NEW deposit \in Deposits,
           CreateProposal(u, deposit)
    PROVE  BallotStep
<1> DEFINE p == [proposer |-> u, deposit_amount |-> deposit, status |-> "Active",
                 voting_ends_at |-> now + config.voting_period, timelock_ends_at |-> 0,
                 tally |-> [v \in VoteType |-> 0]]
<1>1. config.voting_period \in Nat /\ now \in Nat /\ deposit \in Nat
  BY ConfigsAreConfigurations, GovernanceAssumption DEF SettingOK, GovernanceConfig, AccountsOK
<1>2. p \in Proposal
  BY <1>1 DEF Proposal, ProposalStatus
<1>3. /\ proposals' = Append(proposals, p)
      /\ deposits' = Put(deposits, NextId, p.deposit_amount)
      /\ by_status' = [by_status EXCEPT !["Active"] = Append(@, NextId)]
      /\ UNCHANGED vote_records
  BY DEF CreateProposal
<1>4. /\ p.status = "Active" /\ p.tally = [v \in VoteType |-> 0]
      /\ \E c \in AllConfigs : p.voting_ends_at = now + c.voting_period
  BY DEF SettingOK
<1> HIDE DEF p
<1>5. Creates(p)
  BY <1>2, <1>3, <1>4 DEF Creates
<1> QED
  BY <1>5 DEF BallotStep

LEMMA PowerIsInteger ==
    ASSUME PositionOK, NEW u
    PROVE  get_vote_power(u) \in Int
BY DEF get_vote_power, get_voting_power, PositionOK, Position

LEMMA VoteCasts ==
    ASSUME BallotOK, DelegationOK, PositionOK, NEW u \in User, NEW id \in ProposalIds,
           NEW vote \in VoteType, CastVote(u, id, vote)
    PROVE  BallotStep
<1> DEFINE voters == VotedFor(id, u)
           power == [voter \in voters |-> get_vote_power(voter)]
<1>1. voters \subseteq User
  BY DEF VotedFor, ToSet, DelegationOK
<1>2. \A voter \in voters : <<id, voter>> \notin DOMAIN vote_records
  BY DEF VotedFor, CastVote
<1>3. proposals[id + 1].status = "Active" /\ now <= proposals[id + 1].voting_ends_at
  BY DEF CastVote, VotingOpen
<1>4. \A voter \in voters : power[voter] \in Int /\ power[voter] = get_vote_power(voter)
  BY PowerIsInteger
<1>5. /\ vote_records' = Recorded(Cast(id, vote, voters, power))
      /\ proposals' = [proposals EXCEPT ![id + 1].tally[vote] =
                             @ + SumFunctionOnSet(power, voters)]
      /\ UNCHANGED <<deposits, by_status>>
  BY DEF CastVote, Cast, Ballot
<1> HIDE DEF voters, power
<1>6. proposals' = [proposals EXCEPT ![id + 1] = Counted(id, vote, voters, power)]
  BY <1>5 DEF Counted, Raised
<1>7. Casts(id, vote, voters, power)
  BY <1>1, <1>2, <1>3, <1>4, <1>5, <1>6 DEF Casts
<1> QED
  BY <1>7 DEF BallotStep

LEMMA CloseMoves ==
    ASSUME BallotOK, NEW id \in ProposalIds, NEW status \in ProposalStatus, NEW ends \in Nat,
           Close(id, status, ends),
           proposals[id + 1].status \in {"Active", "Queued"},
           status \notin {"Active", "Executed", proposals[id + 1].status},
           NEW p, p = [proposals[id + 1] EXCEPT !.status = status, !.timelock_ends_at = ends],
           status = "Queued" => Approved(p)
    PROVE  BallotStep
<1>1. /\ p \in Proposal /\ p.status = status /\ p.tally = proposals[id + 1].tally
      /\ p.voting_ends_at = proposals[id + 1].voting_ends_at
  BY IdIsIndex DEF BallotOK, Proposal
<1>2. proposals' = [proposals EXCEPT ![id + 1] = p]
  BY DEF Close
<1>3. /\ by_status' = Reindexed(id, proposals[id + 1].status, status)
      /\ DOMAIN deposits' = DOMAIN deposits \ {id}
      /\ \A x \in DOMAIN deposits' : deposits'[x] = deposits[x]
      /\ UNCHANGED vote_records
  BY DEF Close, Drop, Restrict
<1>4. Moves(id, p)
  BY <1>1, <1>2, <1>3 DEF Moves
<1> QED
  BY <1>4 DEF BallotStep

\* A quotient that reaches the threshold means that the votes do.
LEMMA MajorityBound ==
    ASSUME NEW votes \in Int, NEW directional \in Int, directional > 0, NEW threshold \in Int,
           votes \div directional >= threshold
    PROVE  votes >= threshold * directional
<1> DEFINE q == votes \div directional
<1>1. q \in Int /\ directional * q <= votes
  OBVIOUS
<1>2. q >= threshold
  OBVIOUS
<1> HIDE DEF q
<1>3. threshold * directional <= directional * q
  BY <1>1, <1>2
<1> QED
  BY <1>1, <1>3

LEMMA ThresholdIsInteger ==
    ASSUME NEW c \in GovernanceConfig
    PROVE  c.pass_threshold_bps \in Int
<1> DEFINE Bps == 1..10000
<1>1. GovernanceConfig = [voting_period : Nat, timelock : Nat, quorum_votes : Nat,
                          pass_threshold_bps : Bps, min_proposal_deposit : Nat]
  BY DEF GovernanceConfig
<1>2. Bps \subseteq Int
  OBVIOUS
<1> HIDE DEF Bps
<1> QED
  BY <1>1, <1>2

LEMMA FinalizeMoves ==
    ASSUME BallotOK, AccountsOK, SettingOK, NEW id \in ProposalIds, FinalizeProposal(id)
    PROVE  BallotStep
<1> DEFINE p == proposals[id + 1]
           q == [p EXCEPT !.status = "Queued", !.timelock_ends_at = TimelockEnd]
<1>1. p \in Proposal /\ p.status = "Active" /\ now > p.voting_ends_at /\ now \in Nat
  BY IdIsIndex DEF BallotOK, FinalizeProposal, VotingOver, AccountsOK
<1>2. config \in GovernanceConfig /\ config \in AllConfigs
  BY ConfigsAreConfigurations DEF SettingOK
<1>3. ASSUME proposal_passes(p), Close(id, "Queued", TimelockEnd)  PROVE BallotStep
  <2>1. TimelockEnd \in Nat
    BY <1>1, <1>2 DEF TimelockEnd, GovernanceConfig
  <2>2. /\ q.tally = p.tally /\ q.voting_ends_at = p.voting_ends_at
        /\ q.timelock_ends_at = now + config.timelock
    BY <1>1 DEF Proposal, TimelockEnd
  <2>3. q.timelock_ends_at > q.voting_ends_at + config.timelock
    BY <1>1, <1>2, <2>2 DEF GovernanceConfig, Proposal
  <2> DEFINE for == p.tally["For"]
             directional == for + p.tally["Against"]
  <2>4. for \in Int /\ p.tally["Against"] \in Int /\ config.pass_threshold_bps \in Int
    <3>1. p.tally \in [VoteType -> Int]
      BY <1>1 DEF Proposal
    <3> HIDE DEF p
    <3>2. for \in Int /\ p.tally["Against"] \in Int
      BY <3>1 DEF VoteType
    <3> QED
      BY <1>2, <3>2, ThresholdIsInteger
  <2>5. /\ Total(p) >= config.quorum_votes /\ directional > 0
        /\ (for * 10000) \div directional >= config.pass_threshold_bps
    BY <1>3 DEF proposal_passes
  <2>6. for * 10000 \in Int /\ directional \in Int
    BY <2>4
  <2> HIDE DEF directional
  <2>7. for * 10000 >= config.pass_threshold_bps * directional
    BY <2>4, <2>5, <2>6, MajorityBound
  <2> HIDE DEF p, q, for
  <2>8. Passed(q, config)
    BY <2>2, <2>5, <2>7 DEF Passed, Total, for, directional
  <2>9. Approved(q)
    BY <1>2, <2>3, <2>8 DEF Approved
  <2> QED
    BY <1>1, <1>3, <2>1, <2>9, CloseMoves DEF ProposalStatus, p, q
<1>4. ASSUME Close(id, "Defeated", p.timelock_ends_at)  PROVE BallotStep
  BY <1>1, <1>4, CloseMoves DEF ProposalStatus, Proposal
<1> QED
  BY <1>3, <1>4 DEF FinalizeProposal

LEMMA ExecuteMoves ==
    ASSUME BallotOK, IndexAgrees, NEW id \in ProposalIds, ExecuteProposal(id)
    PROVE  BallotStep
<1> DEFINE p == [proposals[id + 1] EXCEPT !.status = "Executed"]
<1>1. /\ p \in Proposal /\ p.status = "Executed" /\ p.tally = proposals[id + 1].tally
      /\ p.voting_ends_at = proposals[id + 1].voting_ends_at
      /\ proposals[id + 1].status = "Queued" /\ now >= proposals[id + 1].timelock_ends_at
  BY IdIsIndex DEF BallotOK, Proposal, ProposalStatus, ExecuteProposal
<1>2. /\ proposals' = [proposals EXCEPT ![id + 1] = p]
      /\ by_status' = Reindexed(id, "Queued", "Executed")
      /\ UNCHANGED <<vote_records, deposits>>
  BY DEF ExecuteProposal
<1>3. id \notin DOMAIN deposits
  BY <1>1 DEF IndexAgrees
<1> HIDE DEF p
<1>4. Moves(id, p)
  BY <1>1, <1>2, <1>3 DEF Moves
<1> QED
  BY <1>4 DEF BallotStep

LEMMA CancelMoves ==
    ASSUME BallotOK, NEW u, NEW id \in ProposalIds, CancelProposal(u, id)
    PROVE  BallotStep
<1>1. proposals[id + 1].timelock_ends_at \in Nat
  BY IdIsIndex DEF BallotOK, Proposal
<1> QED
  BY <1>1, CloseMoves DEF CancelProposal, ProposalStatus

LEMMA ExpireMoves ==
    ASSUME BallotOK, NEW id \in ProposalIds, ExpireProposal(id)
    PROVE  BallotStep
<1>1. proposals[id + 1].timelock_ends_at \in Nat
  BY IdIsIndex DEF BallotOK, Proposal
<1>2. proposals[id + 1].status \in {"Active", "Queued"}
  BY DEF ExpireProposal, IsExpired
<1> QED
  BY <1>1, <1>2, CloseMoves DEF ExpireProposal, ProposalStatus

LEMMA BallotMoves ==
    ASSUME BallotOK, DelegationOK, SettingOK, BooksOK, IndexAgrees, [Next]_vars
    PROVE  BallotStep
<1>1. ASSUME ProposalNext  PROVE BallotStep
  BY <1>1, CreateCreates, VoteCasts, FinalizeMoves, ExecuteMoves, CancelMoves, ExpireMoves
     DEF ProposalNext, BooksOK
<1>2. ASSUME DelegationNext  PROVE UNCHANGED ballotVars
  BY <1>2 DEF DelegationNext, Delegate, RevokeDelegation
<1>3. ASSUME SettingNext  PROVE UNCHANGED ballotVars
  BY <1>3 DEF SettingNext, QueueConfigUpdate, ExecuteConfigUpdate, CancelConfigUpdate,
              SetStakingContract, PauseGovernance, UnpauseGovernance
<1>4. ASSUME NEW u, NEW v, NEW amount, Pay(u, v, amount)  PROVE UNCHANGED ballotVars
  BY <1>4 DEF Pay, govVars
<1>5. UNCHANGED ballotVars => BallotStep
  BY DEF BallotStep
<1> QED
  BY <1>1, <1>2, <1>3, <1>4, <1>5 DEF Next, vars, govVars
-----------------------------------------------------------------------------
(* The ballot keeps its type, and the index and the deposits follow the    *)
(* proposals.                                                              *)

LEMMA AfterCreation ==
    ASSUME proposals \in Seq(Proposal), NEW p \in Proposal, proposals' = Append(proposals, p)
    PROVE  /\ proposals' \in Seq(Proposal)
           /\ NextId \in Nat \ ProposalIds /\ ProposalIds' = ProposalIds \cup {NextId}
           /\ proposals'[NextId + 1] = p
           /\ \A id \in ProposalIds : proposals'[id + 1] = proposals[id + 1]
BY DEF ProposalIds, NextId

LEMMA AfterChange ==
    ASSUME proposals \in Seq(Proposal), NEW id \in ProposalIds, NEW p \in Proposal,
           proposals' = [proposals EXCEPT ![id + 1] = p]
    PROVE  /\ proposals' \in Seq(Proposal) /\ ProposalIds' = ProposalIds
           /\ proposals'[id + 1] = p
           /\ \A j \in ProposalIds \ {id} : proposals'[j + 1] = proposals[j + 1]
<1>1. id + 1 \in DOMAIN proposals
  BY IdIsIndex
<1>2. \A j \in ProposalIds \ {id} : j + 1 \in DOMAIN proposals /\ j + 1 # id + 1
  BY IdIsIndex DEF ProposalIds
<1>3. /\ proposals' \in Seq(Proposal) /\ Len(proposals') = Len(proposals)
      /\ proposals'[id + 1] = p
      /\ \A i \in DOMAIN proposals : i # id + 1 => proposals'[i] = proposals[i]
  BY <1>1, ReplacedElement
<1> QED
  BY <1>2, <1>3 DEF ProposalIds

LEMMA VotersAreFinite ==
    ASSUME NEW id, NEW vote, NEW voters, NEW power, Casts(id, vote, voters, power)
    PROVE  IsFiniteSet(voters) /\ SumFunctionOnSet(power, voters) \in Int
<1>1. IsFiniteSet(voters)
  BY StakingAssumption, FS_Subset DEF Casts
<1> QED
  BY <1>1, SumIsInteger DEF Casts

LEMMA CountedIsProposal ==
    ASSUME BallotOK, NEW id, NEW vote, NEW voters, NEW power, Casts(id, vote, voters, power)
    PROVE  /\ Counted(id, vote, voters, power) \in Proposal
           /\ Counted(id, vote, voters, power).status = "Active"
           /\ Counted(id, vote, voters, power).voting_ends_at = proposals[id + 1].voting_ends_at
           /\ Counted(id, vote, voters, power).tally
                 = Raised(proposals[id + 1].tally, vote, SumFunctionOnSet(power, voters))
<1> DEFINE sum == SumFunctionOnSet(power, voters)
           p == proposals[id + 1]
           t == Raised(p.tally, vote, sum)
<1>1. p \in Proposal /\ p.status = "Active"
  BY IdIsIndex DEF Casts, BallotOK
<1>2. p.tally \in [VoteType -> Int] /\ vote \in VoteType /\ sum \in Int
  BY <1>1, VotersAreFinite DEF Proposal, Casts
<1>3. Counted(id, vote, voters, power) = [p EXCEPT !.tally = t]
  BY DEF Counted
<1> HIDE DEF sum, p
<1>4. t \in [VoteType -> Int]
  BY <1>2 DEF Raised
<1> HIDE DEF t
<1>5. /\ [p EXCEPT !.tally = t] \in Proposal /\ [p EXCEPT !.tally = t].status = "Active"
      /\ [p EXCEPT !.tally = t].tally = t
      /\ [p EXCEPT !.tally = t].voting_ends_at = p.voting_ends_at
  BY <1>1, <1>4 DEF Proposal
<1> QED
  BY <1>3, <1>5 DEF sum, p, t

\* What a vote adds to the records.
Records(id, vote, voters, power) ==
    /\ DOMAIN vote_records' = DOMAIN vote_records \cup ({id} \X voters)
    /\ DOMAIN vote_records \cap ({id} \X voters) = {}
    /\ \A k \in DOMAIN vote_records : vote_records'[k] = vote_records[k]
    /\ \A voter \in voters : vote_records'[<<id, voter>>] = Ballot(vote, power[voter])

LEMMA RecordsGrow ==
    ASSUME BallotOK, NEW id, NEW vote, NEW voters, NEW power, Casts(id, vote, voters, power)
    PROVE  Records(id, vote, voters, power)
<1> DEFINE cast == Cast(id, vote, voters, power)
<1>1. DOMAIN cast = {id} \X voters
  BY DEF Cast
<1>2. \A voter \in voters : <<id, voter>> \in DOMAIN cast
                            /\ cast[<<id, voter>>] = Ballot(vote, power[voter])
  BY DEF Cast
<1>3. vote_records' = Recorded(cast)
  BY DEF Casts
<1> HIDE DEF cast
<1>4. DOMAIN vote_records \cap ({id} \X voters) = {}
  BY DEF Casts
<1>5. /\ DOMAIN Recorded(cast) = DOMAIN cast \cup DOMAIN vote_records
      /\ \A k \in DOMAIN cast : Recorded(cast)[k] = cast[k]
      /\ \A k \in DOMAIN vote_records : k \notin DOMAIN cast => Recorded(cast)[k] = vote_records[k]
  BY DEF Recorded
<1> QED
  BY <1>1, <1>2, <1>3, <1>4, <1>5 DEF Records

LEMMA ListsMayGrow ==
    ASSUME NEW S, NEW T, S \subseteq T
    PROVE  Seq(S) \subseteq Seq(T)
OBVIOUS

LEMMA CreationKeepsBallot ==
    ASSUME BallotOK, NEW p, Creates(p)
    PROVE  BallotOK'
<1>1. /\ proposals' \in Seq(Proposal)
      /\ NextId \in Nat \ ProposalIds /\ ProposalIds' = ProposalIds \cup {NextId}
  BY AfterCreation DEF Creates, BallotOK
<1>2. DOMAIN deposits' \subseteq ProposalIds' /\ \A id \in DOMAIN deposits' : deposits'[id] \in Nat
  BY <1>1 DEF Creates, BallotOK, Put, Proposal
<1>3. by_status' \in [ProposalStatus -> Seq(ProposalIds')]
  <2>1. Seq(ProposalIds) \subseteq Seq(ProposalIds')
    BY <1>1, ListsMayGrow
  <2>2. \A s \in ProposalStatus : by_status[s] \in Seq(ProposalIds')
    BY <2>1 DEF BallotOK
  <2>3. Append(by_status["Active"], NextId) \in Seq(ProposalIds')
    BY <1>1, <2>2, AppendAdds DEF ProposalStatus
  <2> QED
    BY <2>2, <2>3 DEF Creates, BallotOK
<1>4. DOMAIN vote_records' \subseteq ProposalIds' \X User
  BY <1>1 DEF Creates, BallotOK
<1> QED
  BY <1>1, <1>2, <1>3, <1>4 DEF BallotOK, Creates

LEMMA VoteKeepsBallot ==
    ASSUME BallotOK, NEW id, NEW vote, NEW voters, NEW power, Casts(id, vote, voters, power)
    PROVE  BallotOK'
<1>1. proposals' \in Seq(Proposal) /\ ProposalIds' = ProposalIds
  BY CountedIsProposal, AfterChange DEF Casts, BallotOK
<1>2. /\ DOMAIN vote_records' = DOMAIN vote_records \cup ({id} \X voters)
      /\ \A k \in DOMAIN vote_records : vote_records'[k] = vote_records[k]
      /\ \A voter \in voters : vote_records'[<<id, voter>>] = Ballot(vote, power[voter])
  BY RecordsGrow, SMTT(60) DEF Records
<1>3. id \in ProposalIds /\ voters \subseteq User
  BY DEF Casts
<1>4. \A voter \in voters : Ballot(vote, power[voter]) \in VoteRecord
  BY DEF Casts, VoteRecord, Ballot
<1>5. DOMAIN vote_records' \subseteq ProposalIds \X User
  BY <1>2, <1>3 DEF BallotOK
<1>6. \A k \in DOMAIN vote_records' : vote_records'[k] \in VoteRecord
  <2>1. \A k \in {id} \X voters : \E voter \in voters : k = <<id, voter>>
    OBVIOUS
  <2>2. \A k \in {id} \X voters : vote_records'[k] \in VoteRecord
    BY <1>2, <1>4, <2>1
  <2> QED
    BY <1>2, <2>2 DEF BallotOK
<1> QED
  BY <1>1, <1>5, <1>6 DEF BallotOK, Casts

\* What leaves one list of the index enters another.
LEMMA IndexMoves ==
    ASSUME BallotOK, NEW id, NEW p, Moves(id, p)
    PROVE  /\ by_status' \in [ProposalStatus -> Seq(ProposalIds)]
           /\ \A s \in ProposalStatus :
                 /\ s = proposals[id + 1].status =>
                       by_status'[s] = Without(by_status[s], id)
                 /\ s = p.status => by_status'[s] = Append(by_status[s], id)
                 /\ s \notin {p.status, proposals[id + 1].status} => by_status'[s] = by_status[s]
<1> DEFINE from == proposals[id + 1].status
           to == p.status
<1>1. from \in ProposalStatus /\ to \in ProposalStatus /\ from # to /\ id \in ProposalIds
  BY IdIsIndex DEF Moves, BallotOK, Proposal
<1>2. by_status' = Reindexed(id, from, to)
  BY DEF Moves
<1>3. \A s \in ProposalStatus : by_status[s] \in Seq(ProposalIds)
  BY DEF BallotOK
<1>4. /\ Without(by_status[from], id) \in Seq(ProposalIds)
      /\ Append(by_status[to], id) \in Seq(ProposalIds)
  BY <1>1, <1>3, WithoutRemoves, AppendAdds
<1> HIDE DEF from, to
<1>5. /\ by_status' \in [ProposalStatus -> Seq(ProposalIds)]
      /\ by_status'[from] = Without(by_status[from], id)
      /\ by_status'[to] = Append(by_status[to], id)
      /\ \A s \in ProposalStatus \ {from, to} : by_status'[s] = by_status[s]
  BY <1>1, <1>2, <1>4 DEF Reindexed, BallotOK
<1> QED
  BY <1>1, <1>5 DEF from, to

LEMMA MoveKeepsBallot ==
    ASSUME BallotOK, NEW id, NEW p, Moves(id, p)
    PROVE  BallotOK'
<1>1. proposals' \in Seq(Proposal) /\ ProposalIds' = ProposalIds
  BY AfterChange DEF Moves, BallotOK
<1>2. by_status' \in [ProposalStatus -> Seq(ProposalIds)]
  BY IndexMoves
<1> QED
  BY <1>1, <1>2 DEF BallotOK, Moves

LEMMA BallotKept ==
    ASSUME BallotOK, BallotStep
    PROVE  BallotOK'
<1>1. CASE UNCHANGED ballotVars
  BY <1>1 DEF ballotVars, BallotOK, ProposalIds
<1> QED
  BY <1>1, CreationKeepsBallot, VoteKeepsBallot, MoveKeepsBallot DEF BallotStep
\* One list of the index.
Listed(s) ==
    /\ Elements(by_status[s]) = {id \in ProposalIds : proposals[id + 1].status = s}
    /\ IsInjective(by_status[s])
DepositsAgree == DOMAIN deposits = {id \in ProposalIds : proposals[id + 1].status = "Active"}

LEMMA IndexInParts == IndexAgrees <=> (\A s \in ProposalStatus : Listed(s)) /\ DepositsAgree
BY ElementsAreSet DEF IndexAgrees, Listed, DepositsAgree

LEMMA CreationIndexed ==
    ASSUME BallotOK, \A s \in ProposalStatus : Listed(s), DepositsAgree, NEW p, Creates(p)
    PROVE  (\A s \in ProposalStatus : Listed(s)') /\ DepositsAgree'
<1>1. /\ NextId \in Nat \ ProposalIds /\ ProposalIds' = ProposalIds \cup {NextId}
      /\ proposals'[NextId + 1] = p
      /\ \A id \in ProposalIds : proposals'[id + 1] = proposals[id + 1]
      /\ p.status = "Active"
  BY AfterCreation DEF Creates, BallotOK
<1>2. ASSUME NEW s \in ProposalStatus  PROVE Listed(s)'
  <2>1. /\ by_status[s] \in Seq(ProposalIds)
        /\ by_status'[s] = IF s = "Active" THEN Append(by_status[s], NextId) ELSE by_status[s]
    BY DEF BallotOK, Creates, ProposalStatus
  <2>2. CASE s = "Active"
    <3>1. by_status[s] \in Seq(ProposalIds \cup {NextId})
      BY <2>1, ListsMayGrow
    <3>2. /\ Elements(by_status'[s]) = Elements(by_status[s]) \cup {NextId}
          /\ NextId \notin Elements(by_status[s])
          /\ IsInjective(by_status[s]) /\ NextId \notin Elements(by_status[s])
                => IsInjective(by_status'[s])
      BY <1>1, <2>1, <2>2, <3>1, AppendAdds DEF Listed
    <3> QED
      BY <1>1, <2>2, <3>2 DEF Listed
  <2>3. CASE s # "Active"
    BY <1>1, <2>1, <2>3 DEF Listed
  <2> QED
    BY <2>2, <2>3
<1>3. DOMAIN deposits' = DOMAIN deposits \cup {NextId}
  BY DEF Creates, Put
<1>4. DepositsAgree'
  BY <1>1, <1>3 DEF DepositsAgree
<1> QED
  BY <1>2, <1>4

LEMMA VoteIndexed ==
    ASSUME BallotOK, \A s \in ProposalStatus : Listed(s), DepositsAgree,
           NEW id, NEW vote, NEW voters, NEW power, Casts(id, vote, voters, power)
    PROVE  (\A s \in ProposalStatus : Listed(s)') /\ DepositsAgree'
<1> DEFINE p == Counted(id, vote, voters, power)
<1>1. p \in Proposal /\ p.status = "Active"
  BY CountedIsProposal
<1>2. /\ id \in ProposalIds /\ proposals[id + 1].status = "Active"
      /\ proposals' = [proposals EXCEPT ![id + 1] = p] /\ UNCHANGED <<by_status, deposits>>
  BY DEF Casts
<1> HIDE DEF p
<1>3. /\ ProposalIds' = ProposalIds /\ proposals'[id + 1] = p
      /\ \A j \in ProposalIds \ {id} : proposals'[j + 1] = proposals[j + 1]
  BY <1>1, <1>2, AfterChange DEF BallotOK
<1>4. \A j \in ProposalIds : proposals'[j + 1].status = proposals[j + 1].status
  BY <1>1, <1>2, <1>3
<1> QED
  BY <1>2, <1>3, <1>4 DEF Listed, DepositsAgree

LEMMA MoveIndexed ==
    ASSUME BallotOK, \A s \in ProposalStatus : Listed(s), DepositsAgree,
           NEW id, NEW p, Moves(id, p)
    PROVE  (\A s \in ProposalStatus : Listed(s)') /\ DepositsAgree'
<1> DEFINE from == proposals[id + 1].status
           to == p.status
<1>1. /\ id \in ProposalIds /\ from \in {"Active", "Queued"} /\ to \notin {"Active", from}
      /\ p \in Proposal /\ to \in ProposalStatus /\ from \in ProposalStatus
  BY DEF Moves, Proposal, ProposalStatus
<1>2. /\ ProposalIds' = ProposalIds /\ proposals'[id + 1].status = to
      /\ \A j \in ProposalIds \ {id} : proposals'[j + 1] = proposals[j + 1]
  BY AfterChange DEF Moves, BallotOK
<1>3. \A s \in ProposalStatus :
         /\ s = from => by_status'[s] = Without(by_status[s], id)
         /\ s = to => by_status'[s] = Append(by_status[s], id)
         /\ s \notin {to, from} => by_status'[s] = by_status[s]
  BY IndexMoves
<1>4. \A s \in ProposalStatus : by_status[s] \in Seq(ProposalIds)
  BY DEF BallotOK
<1>5. DOMAIN deposits' = DOMAIN deposits \ {id}
  BY DEF Moves
<1>6. DepositsAgree'
  BY <1>1, <1>2, <1>5 DEF DepositsAgree
<1> DEFINE Of(s) == {j \in ProposalIds : proposals[j + 1].status = s}
           After(s) == {j \in ProposalIds : proposals'[j + 1].status = s}
<1>7. /\ id \in Of(from) /\ After(from) = Of(from) \ {id}
      /\ id \notin Of(to) /\ After(to) = Of(to) \cup {id}
      /\ \A s \in ProposalStatus \ {from, to} : After(s) = Of(s)
  BY <1>1, <1>2
<1>8. ASSUME NEW s \in ProposalStatus
      PROVE  Elements(by_status[s]) = Of(s) /\ IsInjective(by_status[s])
  BY DEF Listed
<1>9. ASSUME NEW s, Elements(by_status'[s]) = After(s), IsInjective(by_status'[s])
      PROVE  Listed(s)'
  BY <1>2, <1>9 DEF Listed
<1> HIDE DEF from, to, Of, After
<1>10. ASSUME NEW s \in ProposalStatus
       PROVE  Elements(by_status'[s]) = After(s) /\ IsInjective(by_status'[s])
  <2>1. Elements(by_status[s]) = Of(s) /\ IsInjective(by_status[s])
    BY <1>8
  <2>2. CASE s = from
    <3>1. by_status'[s] = Without(by_status[s], id) /\ After(s) = Of(s) \ {id}
      BY <1>3, <1>7, <2>2
    <3>2. /\ Elements(Without(by_status[s], id)) = Elements(by_status[s]) \ {id}
          /\ IsInjective(by_status[s]) => IsInjective(Without(by_status[s], id))
      BY <1>4, WithoutRemoves
    <3> QED
      BY <2>1, <3>1, <3>2
  <2>3. CASE s = to
    <3>1. /\ by_status'[s] = Append(by_status[s], id) /\ After(s) = Of(s) \cup {id}
          /\ id \notin Of(s)
      BY <1>3, <1>7, <2>3
    <3>2. /\ Elements(Append(by_status[s], id)) = Elements(by_status[s]) \cup {id}
          /\ IsInjective(by_status[s]) /\ id \notin Elements(by_status[s])
                => IsInjective(Append(by_status[s], id))
      BY <1>1, <1>4, AppendAdds
    <3> QED
      BY <2>1, <3>1, <3>2
  <2>4. CASE s \notin {from, to}
    <3>1. by_status'[s] = by_status[s] /\ After(s) = Of(s)
      BY <1>3, <1>7, <2>4
    <3> QED
      BY <2>1, <3>1
  <2> QED
    BY <2>2, <2>3, <2>4
<1>11. \A s \in ProposalStatus : Listed(s)'
  BY <1>9, <1>10
<1> QED
  BY <1>6, <1>11

LEMMA IndexKept ==
    ASSUME BallotOK, IndexAgrees, BallotStep
    PROVE  IndexAgrees'
<1>1. (\A s \in ProposalStatus : Listed(s)) /\ DepositsAgree
  BY IndexInParts
<1>2. CASE UNCHANGED ballotVars
  BY <1>2 DEF ballotVars, IndexAgrees, ProposalIds
<1>3. ASSUME (\A s \in ProposalStatus : Listed(s)') /\ DepositsAgree'  PROVE IndexAgrees'
  BY <1>3, ElementsAreSet DEF IndexAgrees, Listed, DepositsAgree
<1> QED
  BY <1>1, <1>2, <1>3, CreationIndexed, VoteIndexed, MoveIndexed DEF BallotStep
-----------------------------------------------------------------------------
(* The tallies are the sums of the records.                                *)

Votes(id, vote) == {k \in DOMAIN vote_records : k[1] = id /\ vote_records[k].vote = vote}
Tallied(id, vote) == proposals[id + 1].tally[vote] = SumFunctionOnSet(Powers, Votes(id, vote))

LEMMA RecordsAreFinite ==
    ASSUME BallotOK
    PROVE  /\ IsFiniteSet(DOMAIN vote_records) /\ DOMAIN Powers = DOMAIN vote_records
           /\ \A k \in DOMAIN vote_records : Powers[k] \in Int
<1>1. Len(proposals) \in Nat
  BY DEF BallotOK
<1>2. IsFiniteSet(ProposalIds)
  BY <1>1, FS_Interval DEF ProposalIds
<1>3. IsFiniteSet(ProposalIds \X User)
  BY <1>2, StakingAssumption, FS_Product
<1>4. IsFiniteSet(DOMAIN vote_records)
  BY <1>3, FS_Subset DEF BallotOK
<1> QED
  BY <1>4 DEF Powers, BallotOK, VoteRecord

LEMMA VotesAreFinite ==
    ASSUME BallotOK, NEW id, NEW vote
    PROVE  IsFiniteSet(Votes(id, vote)) /\ \A k \in Votes(id, vote) : Powers[k] \in Int
<1>1. Votes(id, vote) \in SUBSET DOMAIN vote_records
  BY DEF Votes
<1> QED
  BY <1>1, RecordsAreFinite, FS_Subset

\* As long as the records of a tally stay, so does their sum.
LEMMA QuietSum ==
    ASSUME BallotOK, NEW id, NEW vote, Votes(id, vote)' = Votes(id, vote),
           \A k \in DOMAIN vote_records :
              k \in DOMAIN vote_records' /\ vote_records'[k] = vote_records[k]
    PROVE  SumFunctionOnSet(Powers, Votes(id, vote))' = SumFunctionOnSet(Powers, Votes(id, vote))
<1> DEFINE f == Powers
           g == Powers'
           S == Votes(id, vote)
<1>1. \A k \in S : f[k] = g[k]
  BY DEF Powers, Votes
<1>2. IsFiniteSet(S)
  BY VotesAreFinite
<1>3. SumFunctionOnSet(Powers, Votes(id, vote))' = SumFunctionOnSet(g, S)
  OBVIOUS
<1> HIDE DEF f, g, S
<1>4. SumFunctionOnSet(f, S) = SumFunctionOnSet(g, S)
  BY <1>1, <1>2, SumsAgree
<1> QED
  BY <1>3, <1>4 DEF f, S

\* A vote's own tally grows by the powers that it records.
LEMMA CastSum ==
    ASSUME BallotOK, NEW id, NEW vote, NEW voters, NEW power, Casts(id, vote, voters, power)
    PROVE  SumFunctionOnSet(Powers, Votes(id, vote))'
              = SumFunctionOnSet(Powers, Votes(id, vote)) + SumFunctionOnSet(power, voters)
<1> DEFINE f == Powers
           g == Powers'
           A == Votes(id, vote)
           N == {id} \X voters
<1>1. /\ DOMAIN vote_records' = DOMAIN vote_records \cup N
      /\ DOMAIN vote_records \cap N = {}
      /\ \A k \in DOMAIN vote_records : vote_records'[k] = vote_records[k]
      /\ \A voter \in voters : vote_records'[<<id, voter>>] = Ballot(vote, power[voter])
  <2>1. Records(id, vote, voters, power)
    BY RecordsGrow
  <2> QED
    BY <2>1 DEF Records
<1>2. \A k \in N : k[1] = id /\ \E voter \in voters : k = <<id, voter>>
  OBVIOUS
<1>3. \A n : Ballot(vote, n).vote = vote /\ Ballot(vote, n).vote_power = n
  BY DEF Ballot
<1>4. Votes(id, vote)' = A \cup N
  <2>1. \A k \in N : vote_records'[k].vote = vote
    BY <1>1, <1>2, <1>3
  <2>2. Votes(id, vote)' = {k \in DOMAIN vote_records' : k[1] = id /\ vote_records'[k].vote = vote}
    BY DEF Votes
  <2>3. A = {k \in DOMAIN vote_records : k[1] = id /\ vote_records[k].vote = vote}
    BY DEF Votes
  <2> HIDE DEF A, N
  <2>4. \A k \in N : k[1] = id
    BY <1>2
  <2> QED
    BY <1>1, <2>1, <2>2, <2>3, <2>4
<1>5. A \cap N = {} /\ A \subseteq DOMAIN vote_records
  BY <1>1 DEF Votes
<1>6. \A voter \in voters : g[<<id, voter>>] = power[voter]
  <2>1. \A voter \in voters : <<id, voter>> \in DOMAIN vote_records'
    BY <1>1
  <2> QED
    BY <1>1, <1>3, <2>1 DEF Powers
<1>7. \A k \in A : f[k] = g[k] /\ f[k] \in Int
  <2>1. \A k \in A : f[k] \in Int
    BY VotesAreFinite
  <2> QED
    BY <1>1, <1>5, <2>1 DEF Powers
<1>8. IsFiniteSet(A) /\ IsFiniteSet(voters) /\ \A voter \in voters : power[voter] \in Int
  BY VotesAreFinite, VotersAreFinite DEF Casts
<1>9. SumFunctionOnSet(Powers, Votes(id, vote))' = SumFunctionOnSet(g, A \cup N)
  BY <1>4
<1>10. IsFiniteSet(N)
  BY <1>8, FS_Singleton, FS_Product
<1>11. \A k \in N : g[k] \in Int
  BY <1>2, <1>6, <1>8
<1> HIDE DEF f, g, A
<1>12. SumFunctionOnSet(g, N) = SumFunctionOnSet(power, voters)
  BY <1>6, <1>8, SumOverPairs, ZenonT(60)
<1>13. SumFunctionOnSet(f, A) = SumFunctionOnSet(g, A)
  BY <1>7, <1>8, SumsAgree
<1> HIDE DEF N
<1>14. SumFunctionOnSet(g, A \cup N) = SumFunctionOnSet(g, A) + SumFunctionOnSet(g, N)
  BY <1>5, <1>7, <1>8, <1>10, <1>11, SumOfUnion
<1> QED
  BY <1>9, <1>12, <1>13, <1>14 DEF f, A

LEMMA CastTallied ==
    ASSUME BallotOK, TalliesAreSums,
           NEW id, NEW vote, NEW voters, NEW power, Casts(id, vote, voters, power)
    PROVE  TalliesAreSums'
<1> DEFINE p == Counted(id, vote, voters, power)
           sum == SumFunctionOnSet(power, voters)
<1>1. /\ id \in ProposalIds /\ vote \in VoteType
      /\ proposals' = [proposals EXCEPT ![id + 1] = p]
  BY DEF Casts
<1>2. p \in Proposal /\ p.tally = Raised(proposals[id + 1].tally, vote, sum)
  BY CountedIsProposal
<1>3. proposals[id + 1].tally \in [VoteType -> Int] /\ sum \in Int
  BY <1>1, IdIsIndex, VotersAreFinite DEF BallotOK, Proposal
<1>4. /\ \A k \in DOMAIN vote_records :
            k \in DOMAIN vote_records' /\ vote_records'[k] = vote_records[k]
      /\ DOMAIN vote_records' = DOMAIN vote_records \cup ({id} \X voters)
      /\ \A voter \in voters : vote_records'[<<id, voter>>].vote = vote
  <2>1. Records(id, vote, voters, power)
    BY RecordsGrow
  <2>2. \A n : Ballot(vote, n).vote = vote
    BY DEF Ballot
  <2> QED
    BY <2>1, <2>2 DEF Records
<1> HIDE DEF p
<1>5. /\ ProposalIds' = ProposalIds /\ proposals'[id + 1] = p
      /\ \A j \in ProposalIds \ {id} : proposals'[j + 1] = proposals[j + 1]
  BY <1>1, <1>2, AfterChange DEF BallotOK
<1> HIDE DEF sum
<1>6. ASSUME NEW j \in ProposalIds, NEW w \in VoteType  PROVE Tallied(j, w)'
  <2>1. Tallied(j, w)
    BY DEF TalliesAreSums, Tallied, Votes
  <2>2. CASE j = id /\ w = vote
    <3>1. proposals'[j + 1].tally[w] = proposals[j + 1].tally[w] + sum
      BY <1>2, <1>3, <1>5, <2>2 DEF Raised
    <3>2. SumFunctionOnSet(Powers, Votes(id, vote))'
             = SumFunctionOnSet(Powers, Votes(id, vote)) + sum
      BY CastSum DEF sum
    <3> QED
      BY <2>1, <2>2, <3>1, <3>2 DEF Tallied
  <2>3. CASE j # id \/ w # vote
    <3>1. proposals'[j + 1].tally[w] = proposals[j + 1].tally[w]
      BY <1>2, <1>3, <1>5, <2>3 DEF Raised
    <3>2. Votes(j, w)' = Votes(j, w)
      <4>1. \A k \in {id} \X voters : \E voter \in voters : k = <<id, voter>> /\ k[1] = id
        OBVIOUS
      <4>2. \A k \in {id} \X voters : k[1] = id /\ vote_records'[k].vote = vote
        BY <1>4, <4>1
      <4> QED
        BY <1>4, <2>3, <4>2 DEF Votes
    <3>3. SumFunctionOnSet(Powers, Votes(j, w))' = SumFunctionOnSet(Powers, Votes(j, w))
      BY <1>4, <3>2, QuietSum
    <3> QED
      BY <2>1, <3>1, <3>3 DEF Tallied
  <2> QED
    BY <2>2, <2>3
<1> QED
  BY <1>5, <1>6 DEF TalliesAreSums, Tallied, Votes

\* Where no record is added, no tally moves.
LEMMA QuietTallied ==
    ASSUME BallotOK, TalliesAreSums, UNCHANGED vote_records,
           NEW j \in ProposalIds, proposals'[j + 1].tally = proposals[j + 1].tally,
           NEW w \in VoteType
    PROVE  Tallied(j, w)'
BY DEF TalliesAreSums, Tallied, Votes, Powers

\* No vote is recorded yet for a proposal that is new.
LEMMA NewTallied ==
    ASSUME BallotOK, NEW id, id \notin ProposalIds, NEW w, UNCHANGED vote_records,
           proposals'[id + 1].tally[w] = 0
    PROVE  Tallied(id, w)'
<1>1. \A k \in DOMAIN vote_records : k[1] \in ProposalIds
  BY DEF BallotOK
<1>2. Votes(id, w)' = {}
  BY <1>1 DEF Votes
<1>3. SumFunctionOnSet(Powers', {}) = 0
  BY SumOfNothing
<1> QED
  BY <1>2, <1>3 DEF Tallied

LEMMA TalliesKept ==
    ASSUME BallotOK, TalliesAreSums, BallotStep
    PROVE  TalliesAreSums'
<1>0. ASSUME \A j \in ProposalIds', w \in VoteType : Tallied(j, w)'
      PROVE  TalliesAreSums'
  BY <1>0 DEF TalliesAreSums, Tallied, Votes
<1>1. CASE UNCHANGED ballotVars
  BY <1>1 DEF ballotVars, TalliesAreSums, Powers, ProposalIds
<1>2. ASSUME NEW id, NEW p, Moves(id, p)  PROVE TalliesAreSums'
  <2>1. /\ ProposalIds' = ProposalIds /\ proposals'[id + 1] = p
        /\ \A j \in ProposalIds \ {id} : proposals'[j + 1] = proposals[j + 1]
    BY <1>2, AfterChange DEF Moves, BallotOK
  <2>2. \A j \in ProposalIds : proposals'[j + 1].tally = proposals[j + 1].tally
    BY <1>2, <2>1 DEF Moves
  <2>3. \A j \in ProposalIds, w \in VoteType : Tallied(j, w)'
    BY <1>2, <2>2, QuietTallied DEF Moves
  <2> QED
    BY <1>0, <2>1, <2>3
<1>3. ASSUME NEW p, Creates(p)  PROVE TalliesAreSums'
  <2>1. /\ NextId \in Nat \ ProposalIds /\ ProposalIds' = ProposalIds \cup {NextId}
        /\ proposals'[NextId + 1] = p
        /\ \A j \in ProposalIds : proposals'[j + 1] = proposals[j + 1]
    BY <1>3, AfterCreation DEF Creates, BallotOK
  <2>2. \A j \in ProposalIds, w \in VoteType : Tallied(j, w)'
    BY <1>3, <2>1, QuietTallied DEF Creates
  <2>3. PICK id : id = NextId
    OBVIOUS
  <2>4. \A w \in VoteType : proposals'[id + 1].tally[w] = 0
    BY <1>3, <2>1, <2>3 DEF Creates
  <2>5. \A w \in VoteType : Tallied(id, w)'
    BY <1>3, <2>1, <2>3, <2>4, NewTallied DEF Creates
  <2> QED
    BY <1>0, <2>1, <2>2, <2>3, <2>5
<1> QED
  BY <1>1, <1>2, <1>3, CastTallied DEF BallotStep
-----------------------------------------------------------------------------
(* Queued proposals are approved, and recorded votes stand.                *)

ReviewsHeld == \A id \in ProposalIds :
                  proposals[id + 1].status = "Queued" => Approved(proposals[id + 1])

\* What a ballot step may do to the proposals there are.
ProposalChange(j) ==
    /\ j \in ProposalIds' /\ proposals'[j + 1].voting_ends_at = proposals[j + 1].voting_ends_at
    /\ \/ proposals'[j + 1] = proposals[j + 1]
       \/ proposals'[j + 1].status = "Active" /\ proposals[j + 1].status = "Active"
       \/ /\ proposals'[j + 1].tally = proposals[j + 1].tally
          /\ proposals'[j + 1].status = "Queued" => Approved(proposals'[j + 1])
          /\ proposals'[j + 1].status = "Executed" =>
                /\ proposals[j + 1].status = "Queued"
                /\ now >= proposals[j + 1].timelock_ends_at

LEMMA ProposalsChange ==
    ASSUME BallotOK, BallotStep
    PROVE  /\ \A j \in ProposalIds : ProposalChange(j)
           /\ \A j \in ProposalIds' \ ProposalIds : proposals'[j + 1].status = "Active"
           /\ \A k \in DOMAIN vote_records :
                 k \in DOMAIN vote_records' /\ vote_records'[k] = vote_records[k]
<1> DEFINE Good == /\ \A j \in ProposalIds : ProposalChange(j)
                   /\ \A j \in ProposalIds' \ ProposalIds : proposals'[j + 1].status = "Active"
                   /\ \A k \in DOMAIN vote_records :
                         k \in DOMAIN vote_records' /\ vote_records'[k] = vote_records[k]
<1>1. ASSUME UNCHANGED ballotVars  PROVE Good
  BY <1>1 DEF ballotVars, ProposalChange, ProposalIds
<1>2. ASSUME NEW p, Creates(p)  PROVE Good
  <2>1. /\ ProposalIds' = ProposalIds \cup {NextId} /\ proposals'[NextId + 1] = p
        /\ \A j \in ProposalIds : proposals'[j + 1] = proposals[j + 1]
    BY <1>2, AfterCreation DEF Creates, BallotOK
  <2> QED
    BY <1>2, <2>1 DEF ProposalChange, Creates
<1>3. ASSUME NEW id, NEW vote, NEW voters, NEW power, Casts(id, vote, voters, power)
      PROVE  Good
  <2> DEFINE p == Counted(id, vote, voters, power)
  <2>1. /\ p \in Proposal /\ p.status = "Active"
        /\ p.voting_ends_at = proposals[id + 1].voting_ends_at
    BY <1>3, CountedIsProposal
  <2>2. id \in ProposalIds /\ proposals[id + 1].status = "Active"
        /\ proposals' = [proposals EXCEPT ![id + 1] = p]
    BY <1>3 DEF Casts
  <2> HIDE DEF p
  <2>3. /\ ProposalIds' = ProposalIds /\ proposals'[id + 1] = p
        /\ \A j \in ProposalIds \ {id} : proposals'[j + 1] = proposals[j + 1]
    BY <2>1, <2>2, AfterChange DEF BallotOK
  <2>4. \A j \in ProposalIds : ProposalChange(j)
    BY <2>1, <2>2, <2>3 DEF ProposalChange
  <2>5. Records(id, vote, voters, power)
    BY <1>3, RecordsGrow
  <2> QED
    BY <2>3, <2>4, <2>5 DEF Records
<1>4. ASSUME NEW id, NEW p, Moves(id, p)  PROVE Good
  <2>1. /\ ProposalIds' = ProposalIds /\ proposals'[id + 1] = p
        /\ \A j \in ProposalIds \ {id} : proposals'[j + 1] = proposals[j + 1]
    BY <1>4, AfterChange DEF Moves, BallotOK
  <2> QED
    BY <1>4, <2>1 DEF ProposalChange, Moves
<1> HIDE DEF Good
<1>5. Good
  BY <1>1, <1>2, <1>3, <1>4 DEF BallotStep
<1> QED
  BY <1>5 DEF Good

LEMMA ReviewsKept ==
    ASSUME BallotOK, ReviewsHeld, BallotStep
    PROVE  ReviewsHeld'
<1> SUFFICES ASSUME NEW j \in ProposalIds', proposals'[j + 1].status = "Queued"
             PROVE  Approved(proposals'[j + 1])
  BY DEF ReviewsHeld, Approved, Passed, Total, AllConfigs
<1>1. j \in ProposalIds /\ ProposalChange(j)
  BY ProposalsChange
<1> QED
  BY <1>1 DEF ReviewsHeld, ProposalChange

ReviewStep ==
    \A id \in ProposalIds :
        LET p == proposals[id + 1]
        IN  p.status # "Executed" /\ proposals'[id + 1].status = "Executed" =>
                \E c \in AllConfigs : Reviewed(p, c)

LEMMA ExecutionsReviewed ==
    ASSUME BallotOK, AccountsOK, ReviewsHeld, BallotStep
    PROVE  ReviewStep
<1> SUFFICES ASSUME NEW id \in ProposalIds, proposals[id + 1].status # "Executed",
                    proposals'[id + 1].status = "Executed"
             PROVE  \E c \in AllConfigs : Reviewed(proposals[id + 1], c)
  BY DEF ReviewStep
<1> DEFINE p == proposals[id + 1]
<1>1. ProposalChange(id)
  BY ProposalsChange
<1>2. p.status = "Queued" /\ now >= p.timelock_ends_at
  BY <1>1 DEF ProposalChange
<1>3. p \in Proposal /\ now \in Int
  BY IdIsIndex DEF BallotOK, AccountsOK
<1>4. p.timelock_ends_at \in Int /\ p.voting_ends_at \in Int
  BY <1>3 DEF Proposal
<1>5. Approved(p)
  BY <1>2 DEF ReviewsHeld
<1> HIDE DEF p
<1>6. PICK c \in AllConfigs : Passed(p, c) /\ p.timelock_ends_at > p.voting_ends_at + c.timelock
  BY <1>5 DEF Approved
<1>7. c.timelock \in Int
  BY ConfigsAreConfigurations DEF GovernanceConfig
<1>8. now > p.voting_ends_at + c.timelock
  BY <1>2, <1>3, <1>4, <1>6, <1>7
<1>9. Reviewed(p, c)
  BY <1>6, <1>8 DEF Reviewed, Passed
<1> QED
  BY <1>9 DEF p

StandStep ==
    /\ \A k \in DOMAIN vote_records :
          k \in DOMAIN vote_records' /\ vote_records'[k] = vote_records[k]
    /\ \A id \in ProposalIds :
          proposals[id + 1].status # "Active" =>
              proposals'[id + 1].tally = proposals[id + 1].tally

LEMMA RecordsStand ==
    ASSUME BallotOK, BallotStep
    PROVE  StandStep
BY ProposalsChange DEF StandStep, ProposalChange

-----------------------------------------------------------------------------
(* The two directions of a delegation.                                     *)

OneDirection ==
    \A u, v \in User : u \in Elements(delegators[v]) <=> u \in DOMAIN delegation /\ delegation[u] = v
ListedOnce == \A v \in User : IsInjective(delegators[v])
OneLevel == \A u \in DOMAIN delegation : delegation[u] \notin DOMAIN delegation

LEMMA DelegationsInParts == DelegationsAgree <=> OneDirection /\ ListedOnce /\ OneLevel
BY ElementsAreSet DEF DelegationsAgree, OneDirection, ListedOnce, OneLevel

\* Nobody lists an account that no longer delegates.
LEMMA UndelegatedRemoves ==
    ASSUME DelegationOK, OneDirection, ListedOnce, NEW u \in User
    PROVE  /\ Undelegated(u) \in [User -> Seq(User)]
           /\ \A v \in User : /\ Elements(Undelegated(u)[v]) = Elements(delegators[v]) \ {u}
                              /\ IsInjective(Undelegated(u)[v])
<1>1. \A v \in User : delegators[v] \in Seq(User)
  BY DEF DelegationOK
<1>2. CASE u \notin DOMAIN delegation
  <2>1. \A v \in User : u \notin Elements(delegators[v])
    BY <1>2 DEF OneDirection
  <2> QED
    BY <1>2, <2>1 DEF Undelegated, DelegationOK, ListedOnce
<1>3. CASE u \in DOMAIN delegation
  <2> DEFINE d == delegation[u]
             rest == Without(delegators[d], u)
  <2>1. d \in User
    BY <1>3 DEF DelegationOK, Entries
  <2>2. /\ rest \in Seq(User) /\ Elements(rest) = Elements(delegators[d]) \ {u}
        /\ IsInjective(rest)
    BY <1>1, <2>1, WithoutRemoves DEF ListedOnce
  <2>3. \A v \in User \ {d} : u \notin Elements(delegators[v])
    BY DEF OneDirection
  <2>4. Undelegated(u) = [delegators EXCEPT ![d] = rest]
    BY <1>3 DEF Undelegated
  <2> HIDE DEF d, rest
  <2>5. /\ Undelegated(u) \in [User -> Seq(User)] /\ Undelegated(u)[d] = rest
        /\ \A v \in User \ {d} : Undelegated(u)[v] = delegators[v]
    BY <2>1, <2>2, <2>4 DEF DelegationOK
  <2> QED
    BY <2>1, <2>2, <2>3, <2>5 DEF ListedOnce
<1> QED
  BY <1>2, <1>3

LEMMA DelegateKeeps ==
    ASSUME DelegationOK, OneDirection, ListedOnce, OneLevel, NEW u \in User, NEW v \in User,
           Delegate(u, v)
    PROVE  DelegationOK' /\ OneDirection' /\ ListedOnce' /\ OneLevel'
<1> DEFINE l == Undelegated(u)
<1>1. /\ delegation' = Put(delegation, u, v) /\ delegators' = [l EXCEPT ![v] = Append(@, u)]
      /\ u # v /\ v \notin DOMAIN delegation /\ delegators[u] = <<>>
  BY DEF Delegate, MayDelegate
<1>2. /\ l \in [User -> Seq(User)]
      /\ \A w \in User : Elements(l[w]) = Elements(delegators[w]) \ {u} /\ IsInjective(l[w])
  BY UndelegatedRemoves
<1> HIDE DEF l
<1>3. /\ Append(l[v], u) \in Seq(User) /\ Elements(Append(l[v], u)) = Elements(l[v]) \cup {u}
      /\ IsInjective(Append(l[v], u))
  BY <1>2, AppendAdds
<1>4. /\ delegators' \in [User -> Seq(User)] /\ delegators'[v] = Append(l[v], u)
      /\ \A w \in User \ {v} : delegators'[w] = l[w]
  BY <1>1, <1>2, <1>3
<1>5. /\ DOMAIN delegation' = DOMAIN delegation \cup {u} /\ delegation'[u] = v
      /\ \A x \in DOMAIN delegation \ {u} : delegation'[x] = delegation[x]
  BY <1>1 DEF Put
<1>6. DelegationOK'
  <2>1. Entries(delegation', User)
    BY <1>1, PutKeepsEntries DEF DelegationOK
  <2> QED
    BY <1>4, <2>1 DEF DelegationOK
<1>7. OneDirection'
  <2> SUFFICES ASSUME NEW x \in User, NEW w \in User
               PROVE  x \in Elements(delegators'[w]) <=>
                         x \in DOMAIN delegation' /\ delegation'[x] = w
    BY DEF OneDirection, Elements
  <2>1. x \in Elements(delegators'[w]) <=>
           \/ x \in Elements(delegators[w]) /\ x # u
           \/ x = u /\ w = v
    BY <1>2, <1>3, <1>4
  <2> QED
    BY <1>5, <2>1 DEF OneDirection
<1>8. ListedOnce'
  BY <1>2, <1>3, <1>4 DEF ListedOnce
<1>9. OneLevel'
  <2> SUFFICES ASSUME NEW x \in DOMAIN delegation'  PROVE delegation'[x] \notin DOMAIN delegation'
    BY DEF OneLevel
  <2>1. CASE x = u
    BY <1>1, <1>5, <2>1
  <2>2. CASE x # u
    <3>1. x \in DOMAIN delegation /\ delegation'[x] = delegation[x] /\ x \in User
      BY <1>5, <2>2 DEF DelegationOK, Entries
    <3>2. Elements(delegators[u]) = {}
      BY <1>1 DEF Elements
    <3>3. delegation[x] # u
      BY <3>1, <3>2 DEF OneDirection
    <3> QED
      BY <1>5, <3>1, <3>3 DEF OneLevel
  <2> QED
    BY <2>1, <2>2
<1> QED
  BY <1>6, <1>7, <1>8, <1>9

LEMMA RevokeKeeps ==
    ASSUME DelegationOK, OneDirection, ListedOnce, OneLevel, NEW u \in User, RevokeDelegation(u)
    PROVE  DelegationOK' /\ OneDirection' /\ ListedOnce' /\ OneLevel'
<1>1. delegation' = Drop(delegation, u) /\ delegators' = Undelegated(u)
  BY DEF RevokeDelegation
<1>2. /\ delegators' \in [User -> Seq(User)]
      /\ \A w \in User : /\ Elements(delegators'[w]) = Elements(delegators[w]) \ {u}
                         /\ IsInjective(delegators'[w])
  BY <1>1, UndelegatedRemoves
<1>3. /\ Entries(delegation', User) /\ DOMAIN delegation' = DOMAIN delegation \ {u}
      /\ \A x \in DOMAIN delegation \ {u} : delegation'[x] = delegation[x]
  BY <1>1, DropKeepsEntries DEF DelegationOK
<1>4. OneDirection'
  <2> SUFFICES ASSUME NEW x \in User, NEW w \in User
               PROVE  x \in Elements(delegators'[w]) <=>
                         x \in DOMAIN delegation' /\ delegation'[x] = w
    BY DEF OneDirection, Elements
  <2> QED
    BY <1>2, <1>3 DEF OneDirection
<1> QED
  BY <1>2, <1>3, <1>4 DEF DelegationOK, ListedOnce, OneLevel

LEMMA DelegationsKept ==
    ASSUME DelegationOK, DelegationsAgree, [Next]_vars
    PROVE  DelegationOK' /\ DelegationsAgree'
<1> DEFINE Parts == DelegationOK /\ OneDirection /\ ListedOnce /\ OneLevel
<1>1. Parts
  BY DelegationsInParts
<1>2. ASSUME UNCHANGED delegationVars  PROVE Parts'
  BY <1>1, <1>2 DEF delegationVars, DelegationOK, OneDirection, ListedOnce, OneLevel
<1>3. ASSUME DelegationNext  PROVE Parts'
  BY <1>1, <1>3, DelegateKeeps, RevokeKeeps DEF DelegationNext
<1>4. ASSUME ProposalNext  PROVE UNCHANGED delegationVars
  BY <1>4 DEF ProposalNext, CreateProposal, CastVote, FinalizeProposal, ExecuteProposal,
              CancelProposal, ExpireProposal, Close
<1>5. ASSUME SettingNext  PROVE UNCHANGED delegationVars
  BY <1>5 DEF SettingNext, QueueConfigUpdate, ExecuteConfigUpdate, CancelConfigUpdate,
              SetStakingContract, PauseGovernance, UnpauseGovernance
<1>6. ASSUME NEW u, NEW v, NEW amount, Pay(u, v, amount)  PROVE UNCHANGED delegationVars
  BY <1>6 DEF Pay, govVars
<1>7. UNCHANGED vars \/ (StakingNext /\ UNCHANGED govVars) => UNCHANGED delegationVars
  BY DEF vars, govVars
<1> HIDE DEF Parts
<1>8. Parts'
  BY <1>2, <1>3, <1>4, <1>5, <1>6, <1>7 DEF Next
<1> QED
  BY <1>8, ElementsAreSet DEF Parts, DelegationsAgree, OneDirection, ListedOnce, OneLevel
-----------------------------------------------------------------------------
(* The settings, and the stakes under all of it.                           *)

LEMMA SettingsKept ==
    ASSUME SettingOK, AccountsOK, [Next]_vars
    PROVE  SettingOK'
<1>1. ASSUME SettingNext  PROVE SettingOK'
  <2>1. ASSUME NEW a \in User, NEW c \in Configs, QueueConfigUpdate(a, c)  PROVE SettingOK'
    <3> DEFINE p == [new_config |-> c, executable_at |-> now + ConfigTimelock]
    <3>1. p \in [new_config : Configs, executable_at : Nat]
      BY GovernanceAssumption DEF AccountsOK
    <3>2. pending_config' = {p} /\ UNCHANGED <<config, staking_contract, gov_paused>>
      BY <2>1 DEF QueueConfigUpdate
    <3> HIDE DEF p
    <3>3. Cardinality(pending_config') <= 1
      BY <3>2, FS_Singleton
    <3> QED
      BY <3>1, <3>2, <3>3 DEF SettingOK, AllConfigs
  <2>2. ASSUME pending_config' = {}, config' \in AllConfigs, staking_contract' \in BOOLEAN,
               gov_paused' \in BOOLEAN
        PROVE  SettingOK'
    BY <2>2, FS_EmptySet DEF SettingOK, AllConfigs
  <2>3. CASE ExecuteConfigUpdate
    BY <2>2, <2>3 DEF ExecuteConfigUpdate, SettingOK, AllConfigs
  <2>4. ASSUME NEW a \in User, CancelConfigUpdate(a)  PROVE SettingOK'
    BY <2>2, <2>4 DEF CancelConfigUpdate, SettingOK
  <2>5. ASSUME NEW a \in User, SetStakingContract(a) \/ PauseGovernance(a) \/ UnpauseGovernance(a)
        PROVE  SettingOK'
    BY <2>5 DEF SetStakingContract, PauseGovernance, UnpauseGovernance, SettingOK, AllConfigs
  <2> QED
    BY <1>1, <2>1, <2>3, <2>4, <2>5 DEF SettingNext
<1>2. ASSUME UNCHANGED settingVars  PROVE SettingOK'
  BY <1>2 DEF settingVars, SettingOK, AllConfigs
<1>3. ASSUME ProposalNext  PROVE UNCHANGED settingVars
  BY <1>3 DEF ProposalNext, CreateProposal, CastVote, FinalizeProposal, ExecuteProposal,
              CancelProposal, ExpireProposal, Close
<1>4. ASSUME DelegationNext  PROVE UNCHANGED settingVars
  BY <1>4 DEF DelegationNext, Delegate, RevokeDelegation
<1>5. ASSUME NEW u, NEW v, NEW amount, Pay(u, v, amount)  PROVE UNCHANGED settingVars
  BY <1>5 DEF Pay, govVars
<1>6. UNCHANGED vars \/ (StakingNext /\ UNCHANGED govVars) => UNCHANGED settingVars
  BY DEF vars, govVars
<1> QED
  BY <1>1, <1>2, <1>3, <1>4, <1>5, <1>6 DEF Next

\* Whatever is not a step of the staking contract leaves its books as they are, a
\* payment between holders included.
StakesStep ==
    \/ [StakingNext]_<<stakingVars, now>>
    \/ \E u, v \in User, amount \in StakeAmounts : Pay(u, v, amount)

LEMMA StakesMove == [Next]_vars => StakesStep
<1>1. ASSUME ProposalNext  PROVE UNCHANGED <<stakingVars, now>>
  BY <1>1 DEF ProposalNext, CreateProposal, CastVote, FinalizeProposal, ExecuteProposal,
              CancelProposal, ExpireProposal, Close
<1>2. ASSUME DelegationNext  PROVE UNCHANGED <<stakingVars, now>>
  BY <1>2 DEF DelegationNext, Delegate, RevokeDelegation
<1>3. ASSUME SettingNext  PROVE UNCHANGED <<stakingVars, now>>
  BY <1>3 DEF SettingNext, QueueConfigUpdate, ExecuteConfigUpdate, CancelConfigUpdate,
              SetStakingContract, PauseGovernance, UnpauseGovernance
<1>4. UNCHANGED vars => UNCHANGED <<stakingVars, now>>
  BY DEF vars
<1> QED
  BY <1>1, <1>2, <1>3, <1>4 DEF Next, StakesStep

LEMMA PaymentMoves ==
    ASSUME AccountsOK, NEW u \in User, NEW v \in User, NEW amount \in StakeAmounts,
           Pay(u, v, amount)
    PROVE  /\ tokens' \in [User \cup {Pool} -> Nat] /\ tokens'[Pool] = tokens[Pool]
           /\ UNCHANGED <<positionVars, unbonding, noticeVars, controlVars, now>>
<1>1. u # v /\ Transfer(u, v, amount) /\ amount \in Int /\ Pool \notin {u, v}
  BY StakingAssumption DEF Pay
<1>2. /\ tokens' \in [User \cup {Pool} -> Nat]
      /\ \A x \in (User \cup {Pool}) \ {u, v} : tokens'[x] = tokens[x]
  BY <1>1, TransferKeepsBalances
<1> QED
  BY <1>1, <1>2 DEF Pay

LEMMA StakesKept ==
    ASSUME BooksOK, StakesStep
    PROVE  BooksOK'
<1>1. ASSUME NEW u \in User, NEW v \in User, NEW amount \in StakeAmounts, Pay(u, v, amount)
      PROVE  BooksOK'
  <2>1. /\ tokens' \in [User \cup {Pool} -> Nat]
        /\ UNCHANGED <<positionVars, unbonding, noticeVars, controlVars, now>>
    BY <1>1, PaymentMoves DEF BooksOK
  <2>2. AccountsOK'
    BY <2>1, AccountsStand DEF BooksOK, noticeVars, controlVars
  <2> QED
    BY <2>1, <2>2 DEF BooksOK, PositionOK, ListOK, TotalIsSum, StakeOf, positionVars
<1> QED
  BY <1>1, BooksKept DEF StakesStep

LEMMA CoverKept ==
    ASSUME BooksOK, PoolCovers, StakesStep
    PROVE  PoolCovers'
<1>1. ASSUME NEW u \in User, NEW v \in User, NEW amount \in StakeAmounts, Pay(u, v, amount)
      PROVE  PoolCovers'
  <2>1. tokens'[Pool] = tokens[Pool] /\ UNCHANGED <<positionVars, unbonding>>
    BY <1>1, PaymentMoves DEF BooksOK
  <2> QED
    BY <2>1 DEF PoolCovers, Owed, StakeOf, UnbondingOf, positionVars
<1>2. ASSUME [StakingNext]_<<stakingVars, now>>  PROVE PoolCovers'
  BY <1>2, BooksKept, CallsSettle, PoolFollows DEF BooksOK
<1> QED
  BY <1>1, <1>2 DEF StakesStep

-----------------------------------------------------------------------------
(* The invariant and the theorems.                                         *)

GovernanceInv ==
    /\ BooksOK /\ PoolCovers
    /\ BallotOK /\ DelegationOK /\ SettingOK
    /\ IndexAgrees /\ TalliesAreSums /\ ReviewsHeld /\ DelegationsAgree

LEMMA GovernanceStarts == Init => GovernanceInv
<1> SUFFICES ASSUME Init  PROVE GovernanceInv
  OBVIOUS
<1>1. BooksOK /\ PoolCovers
  BY BooksStart, NothingOwedAtStart DEF Init
<1>2. ProposalIds = {} /\ proposals = <<>>
  BY DEF Init, ProposalIds
<1>3. DOMAIN vote_records = {} /\ DOMAIN deposits = {} /\ DOMAIN delegation = {}
  BY DEF Init, Nothing
<1>4. BallotOK
  <2>1. proposals \in Seq(Proposal) /\ <<>> \in Seq(ProposalIds)
    BY <1>2, EmptySeq
  <2> QED
    BY <1>2, <1>3, <2>1 DEF BallotOK, Init
<1>5. DelegationOK
  BY <1>3, EmptySeq DEF DelegationOK, Entries, Init
<1>6. SettingOK
  <2>1. Cardinality({}) = 0
    BY FS_EmptySet
  <2>2. pending_config = {} /\ Cardinality(pending_config) <= 1
    BY <2>1 DEF Init
  <2> QED
    BY <2>2 DEF SettingOK, AllConfigs, Init
<1>7. IndexAgrees
  BY <1>2, <1>3 DEF IndexAgrees, Init, ToSet, IsInjective
<1>8. TalliesAreSums /\ ReviewsHeld
  BY <1>2 DEF TalliesAreSums, ReviewsHeld
<1>9. DelegationsAgree
  BY <1>3 DEF DelegationsAgree, Init, ToSet, IsInjective
<1> QED
  BY <1>1, <1>4, <1>5, <1>6, <1>7, <1>8, <1>9 DEF GovernanceInv

LEMMA GovernanceKept ==
    ASSUME GovernanceInv, [Next]_vars
    PROVE  GovernanceInv' /\ ReviewStep /\ StandStep
<1>1. BallotStep /\ StakesStep
  BY BallotMoves, StakesMove DEF GovernanceInv
<1>2. BooksOK' /\ PoolCovers'
  BY <1>1, StakesKept, CoverKept DEF GovernanceInv
<1>3. BallotOK' /\ IndexAgrees' /\ TalliesAreSums' /\ ReviewsHeld'
  BY <1>1, BallotKept, IndexKept, TalliesKept, ReviewsKept DEF GovernanceInv
<1>4. DelegationOK' /\ DelegationsAgree' /\ SettingOK'
  BY DelegationsKept, SettingsKept DEF GovernanceInv, BooksOK
<1>5. ReviewStep /\ StandStep
  BY <1>1, ExecutionsReviewed, RecordsStand DEF GovernanceInv, BooksOK
<1> QED
  BY <1>2, <1>3, <1>4, <1>5 DEF GovernanceInv

LEMMA GovernanceImplies == GovernanceInv => TypeOK
BY BooksImply, GovernanceTypeInParts DEF GovernanceInv

\* Every entry of both contracts has its type: no vote, deposit or index names a proposal
\* that does not exist, and at most one configuration waits.
THEOREM GovernanceTypeCorrect == Spec => []TypeOK
BY GovernanceStarts, GovernanceKept, GovernanceImplies, PTL DEF Spec

\* The two directions of every delegation agree and no delegate delegates, after any
\* sequence of delegate and revoke_delegation.
THEOREM DelegationsAlwaysAgree == Spec => []DelegationsAgree
<1>1. GovernanceInv => DelegationsAgree
  BY DEF GovernanceInv
<1> QED
  BY <1>1, GovernanceStarts, GovernanceKept, PTL DEF Spec

\* The tallies that finalize_proposal decides by are the sums of the recorded votes, for
\* every number of delegators behind a vote and every movement of the stakes.
THEOREM TalliesAreAlwaysSums == Spec => []TalliesAreSums
<1>1. GovernanceInv => TalliesAreSums
  BY DEF GovernanceInv
<1> QED
  BY <1>1, GovernanceStarts, GovernanceKept, PTL DEF Spec

\* Every proposal is listed under its own status only, and its deposit entry lasts
\* exactly as long as it is open.
THEOREM IndexAlwaysAgrees == Spec => []IndexAgrees
<1>1. GovernanceInv => IndexAgrees
  BY DEF GovernanceInv
<1> QED
  BY <1>1, GovernanceStarts, GovernanceKept, PTL DEF Spec

\* Nothing is executed that a configuration's quorum and majority did not approve and its
\* timelock did not leave time to review.
THEOREM ExecutionsAreReviewed == Spec => ExecutionIsReviewed
<1>1. GovernanceInv /\ [Next]_vars => GovernanceInv' /\ [ReviewStep]_vars
  BY GovernanceKept
<1> QED
  BY <1>1, GovernanceStarts, PTL DEF Spec, ExecutionIsReviewed, ReviewStep

\* A recorded vote is never replaced and a closed proposal's tally never moves.
THEOREM VotesAlwaysStand == Spec => VotesStand
<1>1. GovernanceInv /\ [Next]_vars => GovernanceInv' /\ [StandStep]_vars
  BY GovernanceKept
<1> QED
  BY <1>1, GovernanceStarts, PTL DEF Spec, VotesStand, StandStep

\* The staking contract can pay every claim also when holders trade the token among
\* themselves between their calls.
THEOREM ClaimsStayCovered == Spec => []PoolCovers
<1>1. GovernanceInv => PoolCovers
  BY DEF GovernanceInv
<1> QED
  BY <1>1, GovernanceStarts, GovernanceKept, PTL DEF Spec
-----------------------------------------------------------------------------
(* Staked tokens vote once.  What a proposal's recorded votes weigh, and   *)
(* what the tokens that can still be staked before its vote ends could     *)
(* weigh, never exceed all tokens times the largest multiplier: a holder   *)
(* that has voted gets its stake back only after the vote, because the     *)
(* unbonding period is longer than the voting period.                      *)

\* Powers of one, from before the staking contract was set, are no stakes; votes end
\* before what is unstaked meanwhile can be claimed.
Weighable ==
    /\ MinStake > 1 /\ Periods # {}
    /\ \A c \in AllConfigs : c.voting_period < Unbonding

MaxWeight == Max({multiplier(period) : period \in Periods})
AllFunds == SumFunctionOnSet(Funds, User)
Bound == MaxWeight * AllFunds

Ends(id) == proposals[id + 1].voting_ends_at
Voted(id, u) == <<id, u>> \in DOMAIN vote_records

\* What u can stake before the vote ends, without and with what it has staked.
Released(id, u) ==
    IF u \in DOMAIN unbonding /\ unbonding[u].claimable_time <= Ends(id)
    THEN Positive(unbonding[u].amount) ELSE 0
AtHand(id, u) == tokens[u] + Released(id, u)
Usable(id, u) == AtHand(id, u) + Positive(StakeOf(u))

Worth(id, u) ==
    IF Voted(id, u) /\ vote_records[<<id, u>>].vote_power >= MinStake
    THEN vote_records[<<id, u>>].vote_power ELSE 0
Spendable(id, u) == IF Voted(id, u) THEN AtHand(id, u) ELSE Usable(id, u)
Potential(id, u) == Worth(id, u) + MaxWeight * Spendable(id, u)

Worths(id) == [u \in User |-> Worth(id, u)]
Potentials(id) == [u \in User |-> Potential(id, u)]

Backed(id) ==
    /\ now <= Ends(id) => SumFunctionOnSet(Potentials(id), User) <= Bound
    /\ SumFunctionOnSet(Worths(id), User) <= Bound

PowersFollow ==
    \A u \in DOMAIN stake :
        /\ stake[u].period \in Periods
        /\ stake[u].voting_power = stake[u].amount * multiplier(stake[u].period)

Conserved == SumFunctionOnSet(tokens, User \cup {Pool}) = AllFunds

VotesEndInTime == \A id \in ProposalIds : Ends(id) < now + Unbonding

LEMMA LargestWeight ==
    ASSUME Periods # {}
    PROVE  MaxWeight \in 1..5 /\ \A p \in Periods : multiplier(p) \in 1..MaxWeight
<1> DEFINE W == {multiplier(p) : p \in Periods}
           D == {5 - w : w \in W}
<1>1. W \subseteq 1..5 /\ W # {}
  BY MultiplierIsPositive, StakingAssumption
<1> HIDE DEF W
<1>2. D \in SUBSET Nat /\ D # {}
  <2>1. \A w \in W : w \in 1..5
    BY <1>1
  <2>2. \A w \in W : 5 - w \in Nat
    BY <2>1
  <2> QED
    BY <1>1, <2>2
<1>3. PICK d \in D : \A e \in D : d <= e
  BY <1>2, LeastNatural
<1>4. PICK w \in W : d = 5 - w
  BY <1>3
<1>5. ASSUME NEW v \in W  PROVE w >= v
  <2>1. d <= 5 - v /\ v \in Int /\ w \in Int
    BY <1>1, <1>3
  <2> QED
    BY <1>4, <2>1
<1>6. MaxWeight = CHOOSE x \in W : \A y \in W : x >= y
  BY DEF MaxWeight, Max, W
<1>7. MaxWeight \in W /\ \A y \in W : MaxWeight >= y
  BY <1>5, <1>6
<1>8. \A p \in Periods : multiplier(p) \in W
  BY DEF W
<1>9. \A y \in W : y \in Int /\ 1 <= y
  BY <1>1
<1>10. MaxWeight \in 1..5
  BY <1>1, <1>7
<1>11. ASSUME NEW p \in Periods  PROVE multiplier(p) \in 1..MaxWeight
  <2> DEFINE m == multiplier(p)
  <2>1. m \in Int /\ 1 <= m /\ MaxWeight >= m
    BY <1>7, <1>8, <1>9
  <2> HIDE DEF m
  <2>2. m \in 1..MaxWeight
    BY <1>10, <2>1
  <2> QED
    BY <2>2 DEF m
<1> QED
  BY <1>10, <1>11

LEMMA FundsAreFinite ==
    /\ IsFiniteSet(User) /\ IsFiniteSet(User \cup {Pool}) /\ AllFunds \in Int
    /\ \A u \in User : Funds[u] \in Nat
<1>1. IsFiniteSet(User) /\ IsFiniteSet(User \cup {Pool}) /\ \A u \in User : Funds[u] \in Nat
  BY StakingAssumption, FS_AddElement
<1>2. AllFunds \in Int
  BY <1>1, SumIsInteger DEF AllFunds
<1> QED
  BY <1>1, <1>2

\* The parts are numbers.
LEMMA PartsAreNumbers ==
    ASSUME PositionOK, AccountsOK, BallotOK, Weighable, NEW id \in ProposalIds, NEW u \in User
    PROVE  /\ tokens[u] \in Nat /\ Released(id, u) \in Nat /\ AtHand(id, u) \in Nat
           /\ Usable(id, u) \in Nat /\ AtHand(id, u) <= Usable(id, u)
           /\ Spendable(id, u) \in Nat /\ Worth(id, u) \in Nat
           /\ MaxWeight * Spendable(id, u) \in Nat /\ Potential(id, u) \in Nat
           /\ Worth(id, u) <= Potential(id, u) /\ Ends(id) \in Nat /\ MaxWeight \in 1..5
<1>1. tokens[u] \in Nat /\ StakeOf(u) \in Int
  BY AmountsAreIntegers, BalancesAreIntegers
<1>2. Released(id, u) \in Nat
  BY DEF Released, AccountsOK, Entries, UnbondingEntry, Positive
<1>3. AtHand(id, u) \in Nat /\ Usable(id, u) \in Nat /\ AtHand(id, u) <= Usable(id, u)
  BY <1>1, <1>2 DEF AtHand, Usable, Positive
<1>4. Spendable(id, u) \in Nat
  BY <1>3 DEF Spendable
<1>5. Worth(id, u) \in Nat
  <2>1. Voted(id, u) => vote_records[<<id, u>>].vote_power \in Int
    BY DEF BallotOK, VoteRecord, Voted
  <2> QED
    BY <2>1, StakingAssumption DEF Worth
<1>6. MaxWeight \in 1..5
  BY LargestWeight DEF Weighable
<1>7. MaxWeight * Spendable(id, u) \in Nat
  BY <1>4, <1>6
<1>8. Potential(id, u) \in Nat /\ Worth(id, u) <= Potential(id, u)
  BY <1>5, <1>7 DEF Potential
<1>9. Ends(id) \in Nat
  BY IdIsIndex DEF BallotOK, Proposal, Ends
<1> QED
  BY <1>1, <1>2, <1>3, <1>4, <1>5, <1>6, <1>7, <1>8, <1>9

\* No step of the staking contract gives anybody more to stake before the vote ends.
SpendsNoMore(id) ==
    \A v \in User : AtHand(id, v)' <= AtHand(id, v) /\ Usable(id, v)' <= Usable(id, v)

LEMMA LoweringHands ==
    ASSUME PositionOK, AccountsOK, NEW id \in ProposalIds, NEW u \in User, Lowers(u),
           UNCHANGED proposals
    PROVE  SpendsNoMore(id)
<1> SUFFICES ASSUME NEW v \in User
             PROVE  AtHand(id, v)' <= AtHand(id, v) /\ Usable(id, v)' <= Usable(id, v)
  BY DEF SpendsNoMore
<1>1. Released(id, v)' = Released(id, v) /\ AtHand(id, v)' = AtHand(id, v)
  BY DEF Lowers, Released, Ends, AtHand
<1>2. Released(id, v) \in Nat
  BY DEF Released, AccountsOK, Entries, UnbondingEntry, Positive
<1>3. AtHand(id, v) \in Nat /\ StakeOf(v) \in Int
  BY <1>2, BalancesAreIntegers, AmountsAreIntegers DEF AtHand
<1>4. Positive(StakeOf(v)') <= Positive(StakeOf(v)) /\ Positive(StakeOf(v)') \in Int
      /\ Positive(StakeOf(v)) \in Int
  BY <1>3 DEF Lowers, Positive
<1>5. Usable(id, v)' = AtHand(id, v)' + Positive(StakeOf(v)')
  BY DEF Usable, Positive
<1> QED
  BY <1>1, <1>3, <1>4, <1>5 DEF Usable

LEMMA DepositHands ==
    ASSUME PositionOK, AccountsOK, NEW id \in ProposalIds, NEW u \in User, NEW amount \in Int,
           TopsUp(u, amount), UNCHANGED proposals
    PROVE  SpendsNoMore(id)
<1> SUFFICES ASSUME NEW v \in User
             PROVE  AtHand(id, v)' <= AtHand(id, v) /\ Usable(id, v)' <= Usable(id, v)
  BY DEF SpendsNoMore
<1>1. Released(id, v)' = Released(id, v) /\ Released(id, v) \in Nat
  BY DEF TopsUp, Released, Ends, AccountsOK, Entries, UnbondingEntry, Positive
<1>2. /\ tokens'[u] = tokens[u] - amount /\ amount >= 0
      /\ \A w \in User \ {u} : tokens'[w] = tokens[w]
  BY StakingAssumption, TransferKeepsBalances DEF TopsUp
<1>3. tokens[v] \in Nat /\ StakeOf(v) \in Int
  BY BalancesAreIntegers, AmountsAreIntegers
<1>4. /\ AtHand(id, v) = tokens[v] + Released(id, v)
      /\ AtHand(id, v)' = tokens'[v] + Released(id, v)'
      /\ Usable(id, v) = AtHand(id, v) + Positive(StakeOf(v))
      /\ Usable(id, v)' = AtHand(id, v)' + Positive(StakeOf(v)')
  BY DEF AtHand, Usable, Positive
<1>5. CASE v = u
  <2>1. Positive(StakeOf(v)') <= Positive(StakeOf(v)) + amount
        /\ Positive(StakeOf(v)') \in Int /\ Positive(StakeOf(v)) \in Int
    BY <1>2, <1>3, <1>5 DEF Positive, TopsUp
  <2> QED
    BY <1>1, <1>2, <1>3, <1>4, <1>5, <2>1
<1>6. CASE v # u
  <2>1. Positive(StakeOf(v)') = Positive(StakeOf(v)) /\ Positive(StakeOf(v)) \in Int
    BY <1>3, <1>6 DEF Positive, TopsUp
  <2> QED
    BY <1>1, <1>2, <1>3, <1>4, <1>6, <2>1
<1> QED
  BY <1>5, <1>6

\* What is unstaked now can be claimed only when the vote has ended.
LEMMA UnstakeHands ==
    ASSUME PositionOK, AccountsOK, NEW id \in ProposalIds, NEW u \in User, Unstake(u),
           UNCHANGED proposals, Ends(id) \in Nat, Ends(id) < now + Unbonding
    PROVE  SpendsNoMore(id)
<1> SUFFICES ASSUME NEW v \in User
             PROVE  AtHand(id, v)' <= AtHand(id, v) /\ Usable(id, v)' <= Usable(id, v)
  BY DEF SpendsNoMore
<1>1. /\ u \in DOMAIN stake /\ stake' = Drop(stake, u) /\ tokens' = tokens
      /\ unbonding' = Put(unbonding, u, [amount |-> stake[u].amount,
                                         claimable_time |-> now + Unbonding])
  BY DEF Unstake, Deregister
<1>2. Released(id, v) \in Nat /\ tokens[v] \in Nat /\ StakeOf(v) \in Int
  BY BalancesAreIntegers, AmountsAreIntegers
     DEF Released, AccountsOK, Entries, UnbondingEntry, Positive
<1>3. Ends(id)' = Ends(id) /\ ~(now + Unbonding <= Ends(id))
  <2>1. now + Unbonding \in Int
    BY StakingAssumption DEF AccountsOK
  <2> QED
    BY <2>1 DEF Ends
<1>4. /\ AtHand(id, v) = tokens[v] + Released(id, v)
      /\ AtHand(id, v)' = tokens[v] + Released(id, v)'
      /\ Usable(id, v) = AtHand(id, v) + Positive(StakeOf(v))
      /\ Usable(id, v)' = AtHand(id, v)' + Positive(StakeOf(v)')
  BY <1>1 DEF AtHand, Usable, Positive
<1>5. CASE v = u
  <2>1. StakeOf(v)' = 0
    BY <1>1, <1>5 DEF StakeOf, Drop, Restrict
  <2>2. Released(id, v)' = 0
    <3>1. u \in DOMAIN unbonding' /\ unbonding'[u].claimable_time = now + Unbonding
      BY <1>1 DEF Put
    <3> QED
      BY <1>3, <1>5, <3>1 DEF Released
  <2>3. Positive(StakeOf(v)) \in Nat /\ Positive(StakeOf(v)') = 0
    BY <1>2, <2>1 DEF Positive
  <2> QED
    BY <1>2, <1>4, <2>2, <2>3
<1>6. CASE v # u
  <2>1. StakeOf(v)' = StakeOf(v) /\ Released(id, v)' = Released(id, v)
    BY <1>1, <1>3, <1>6 DEF StakeOf, Drop, Restrict, Put, Released
  <2>2. Positive(StakeOf(v)') = Positive(StakeOf(v)) /\ Positive(StakeOf(v)) \in Int
    BY <1>2, <2>1 DEF Positive
  <2> QED
    BY <1>2, <1>4, <2>1, <2>2
<1> QED
  BY <1>5, <1>6

\* What is claimed was counted as claimable.
LEMMA ClaimHands ==
    ASSUME PositionOK, AccountsOK, NEW id \in ProposalIds, NEW u \in User, Claim(u),
           UNCHANGED proposals, Ends(id) \in Nat, now <= Ends(id)
    PROVE  SpendsNoMore(id)
<1> SUFFICES ASSUME NEW v \in User
             PROVE  AtHand(id, v)' <= AtHand(id, v) /\ Usable(id, v)' <= Usable(id, v)
  BY DEF SpendsNoMore
<1> DEFINE amount == unbonding[u].amount
<1>1. /\ u \in DOMAIN unbonding /\ amount \in Nat /\ Pool # u /\ Transfer(Pool, u, amount)
      /\ unbonding' = Drop(unbonding, u)
  BY ClaimMoves
<1>2. Released(id, v) \in Nat /\ tokens[v] \in Nat /\ StakeOf(v) \in Int
  BY BalancesAreIntegers, AmountsAreIntegers
     DEF Released, AccountsOK, Entries, UnbondingEntry, Positive
<1>3. StakeOf(v)' = StakeOf(v)
  BY DEF Claim, positionVars, StakeOf
<1>4. unbonding[u].claimable_time <= Ends(id)
  <2>1. now >= unbonding[u].claimable_time
    BY DEF Claim, is_period_elapsed
  <2>2. now \in Int /\ unbonding[u].claimable_time \in Int
    BY <1>1 DEF AccountsOK, Entries, UnbondingEntry
  <2> QED
    BY <2>1, <2>2
<1> HIDE DEF amount
<1>5. tokens'[u] = tokens[u] + amount /\ \A w \in User \ {u} : tokens'[w] = tokens[w]
  BY <1>1, StakingAssumption, TransferKeepsBalances
<1>6. /\ AtHand(id, v) = tokens[v] + Released(id, v)
      /\ AtHand(id, v)' = tokens'[v] + Released(id, v)'
      /\ Usable(id, v) = AtHand(id, v) + Positive(StakeOf(v))
      /\ Usable(id, v)' = AtHand(id, v)' + Positive(StakeOf(v)')
  BY DEF AtHand, Usable, Positive
<1>7. Positive(StakeOf(v)') = Positive(StakeOf(v)) /\ Positive(StakeOf(v)) \in Int
  BY <1>2, <1>3 DEF Positive
<1>8. CASE v = u
  <2>1. Released(id, v)' = 0
    BY <1>1, <1>8 DEF Released, Drop, Restrict
  <2>2. Released(id, v) = amount
    BY <1>1, <1>4, <1>8 DEF Released, Positive, amount
  <2> QED
    BY <1>1, <1>2, <1>5, <1>6, <1>7, <1>8, <2>1, <2>2
<1>9. CASE v # u
  <2>1. Released(id, v)' = Released(id, v)
    BY <1>1, <1>9 DEF Released, Drop, Restrict, Ends
  <2> QED
    BY <1>2, <1>5, <1>6, <1>7, <1>9, <2>1
<1> QED
  BY <1>8, <1>9

LEMMA StakersSpend ==
    ASSUME PositionOK, AccountsOK, NEW id \in ProposalIds, [StakingNext]_<<stakingVars, now>>,
           UNCHANGED proposals, Ends(id) \in Nat, now <= Ends(id), Ends(id) < now + Unbonding
    PROVE  SpendsNoMore(id)
<1>1. CASE UNCHANGED <<stake, unbonding, tokens>>
  <2>1. PICK u \in User : u = admin
    BY DEF AccountsOK
  <2>2. \A v : StakeOf(v)' = StakeOf(v)
    BY <1>1 DEF StakeOf
  <2>3. StakeOf(u) \in Int
    BY AmountsAreIntegers
  <2>4. Lowers(u)
    BY <1>1, <2>2, <2>3 DEF Lowers
  <2> QED
    BY <2>4, LoweringHands
<1> QED
  BY <1>1, AccountsChange, LoweringHands, DepositHands, UnstakeHands, ClaimHands
     DEF AccountStep

\* The power of a position is its amount by the multiplier of its period.
Follows(pos) ==
    /\ pos.period \in Periods
    /\ pos.voting_power = pos.amount * multiplier(pos.period)

LEMMA ResizedFollows ==
    ASSUME NEW pos \in Position, Follows(pos), NEW amount \in Int
    PROVE  Follows(Resized(pos, amount)) /\ Follows(Topped(pos, amount))
<1>1. /\ Resized(pos, amount).period = pos.period /\ Resized(pos, amount).amount = amount
      /\ Resized(pos, amount).voting_power = amount * multiplier(pos.period)
  BY DEF Resized, Position
<1>2. /\ Topped(pos, amount).period = pos.period /\ Topped(pos, amount).amount = amount
      /\ Topped(pos, amount).voting_power = amount * multiplier(pos.period)
  BY DEF Topped, Resized, Position
<1> QED
  BY <1>1, <1>2 DEF Follows

LEMMA OneFollows ==
    ASSUME PowersFollow, NEW u,
           \/ stake' = stake \/ stake' = Drop(stake, u)
           \/ \E pos : Follows(pos) /\ (stake' = [stake EXCEPT ![u] = pos] \/ stake' = Put(stake, u, pos))
    PROVE  PowersFollow'
<1>1. CASE stake' = stake \/ stake' = Drop(stake, u)
  BY <1>1 DEF PowersFollow, Drop, Restrict
<1>2. ASSUME NEW pos, Follows(pos),
             stake' = [stake EXCEPT ![u] = pos] \/ stake' = Put(stake, u, pos)
      PROVE  PowersFollow'
  <2>1. \A v \in DOMAIN stake' : stake'[v] = pos \/ (v \in DOMAIN stake /\ stake'[v] = stake[v])
    BY <1>2 DEF Put
  <2> QED
    BY <1>2, <2>1 DEF PowersFollow, Follows
<1> QED
  BY <1>1, <1>2

LEMMA PowersKept ==
    ASSUME PositionOK, AccountsOK, PowersFollow, [StakingNext]_<<stakingVars, now>>
    PROVE  PowersFollow'
<1>0. \A u \in DOMAIN stake : stake[u] \in Position /\ stake[u].amount \in Int /\ Follows(stake[u])
  BY DEF PositionOK, Position, PowersFollow, Follows
<1>1. ASSUME NEW u \in User, PositionNext(u)  PROVE PowersFollow'
  <2>1. ASSUME NEW amount \in StakeAmounts, NEW period \in Periods, Stake(u, amount, period)
        PROVE  PowersFollow'
    <3> DEFINE pos == [amount |-> amount, period |-> period, start_time |-> now,
                       unlock_time |-> now + period * Month,
                       voting_power |-> amount * multiplier(period)]
    <3>1. Follows(pos) /\ stake' = Put(stake, u, pos)
      BY <2>1 DEF Follows, Stake
    <3> HIDE DEF pos
    <3> QED
      BY <3>1, OneFollows
  <2>2. ASSUME NEW amount \in StakeAmounts, TopUp(u, amount)  PROVE PowersFollow'
    <3> DEFINE sum == stake[u].amount + amount
    <3>1. u \in DOMAIN stake /\ amount \in Int /\ stake' = [stake EXCEPT ![u] = Topped(stake[u], sum)]
      BY <2>2, StakingAssumption DEF TopUp
    <3>2. sum \in Int
      BY <1>0, <3>1
    <3> HIDE DEF sum
    <3>3. Follows(Topped(stake[u], sum))
      BY <1>0, <3>1, <3>2, ResizedFollows
    <3> QED
      BY <3>1, <3>3, OneFollows
  <2>3. CASE Unstake(u) \/ Claim(u)
    <3>1. stake' = stake \/ stake' = Drop(stake, u)
      BY <2>3 DEF Unstake, Claim, Deregister, positionVars
    <3> QED
      BY <3>1, OneFollows
  <2> QED
    BY <1>1, <2>1, <2>2, <2>3 DEF PositionNext
<1>2. ASSUME NEW a \in User, SlashNext(a)  PROVE PowersFollow'
  <2>1. ASSUME NEW u \in User, NEW shortfall \in StakeAmounts, Slash(a, u, shortfall)
        PROVE  PowersFollow'
    <3> DEFINE rest == stake[u].amount - SlashAmount(stake[u], shortfall)
    <3>1. u \in DOMAIN stake /\ shortfall \in Int
      BY <2>1, StakingAssumption DEF Slash
    <3>2. rest \in Int
      BY <1>0, <3>1 DEF SlashAmount
    <3>3. stake' = Drop(stake, u) \/ stake' = [stake EXCEPT ![u] = Resized(stake[u], rest)]
      BY <2>1, <3>1 DEF Slash, Deregister
    <3> HIDE DEF rest
    <3>4. Follows(Resized(stake[u], rest))
      BY <1>0, <3>1, <3>2, ResizedFollows
    <3> QED
      BY <3>3, <3>4, OneFollows
  <2>2. ASSUME NEW u \in User, ExecuteSlash(a, u)  PROVE PowersFollow'
    <3> DEFINE rest == stake[u].amount - slash_notice[u].amount
    <3>1. u \in DOMAIN stake /\ slash_notice[u].amount \in Nat
      BY <2>2, ExecutionResizes
    <3>2. rest \in Int /\ stake' = [stake EXCEPT ![u] = Resized(stake[u], rest)]
      BY <1>0, <2>2, <3>1 DEF ExecuteSlash
    <3> HIDE DEF rest
    <3>3. Follows(Resized(stake[u], rest))
      BY <1>0, <3>1, <3>2, ResizedFollows
    <3> QED
      BY <3>2, <3>3, OneFollows
  <2>3. ASSUME stake' = stake  PROVE PowersFollow'
    BY <2>3, OneFollows
  <2> QED
    BY <1>2, <2>1, <2>2, <2>3 DEF SlashNext, CreateSlashNotice, CancelSlash,
                                  SetSlashNoticePeriod, positionVars
<1>3. ASSUME stake' = stake  PROVE PowersFollow'
  BY <1>3, OneFollows
<1>4. ASSUME NEW a \in User, ControlNext(a)  PROVE stake' = stake
  BY <1>4 DEF ControlNext, UpdateAdmin, PauseStaking, UnpauseStaking, positionVars
<1>5. ASSUME StakingTick \/ UNCHANGED <<stakingVars, now>>  PROVE stake' = stake
  BY <1>5 DEF StakingTick, stakingVars, positionVars
<1> QED
  BY <1>1, <1>2, <1>3, <1>4, <1>5 DEF StakingNext

\* Tokens move between the accounts; none appear and none are lost.
LEMMA ConservedKept ==
    ASSUME BooksOK, BooksOK', Conserved, StakesStep
    PROVE  Conserved'
<1> DEFINE S == User \cup {Pool}
<1>1. /\ \A x \in S : tokens[x] \in Int
      /\ \A x \in S : tokens'[x] \in Int
      /\ IsFiniteSet(S) /\ Pool \notin User
  BY FundsAreFinite, StakingAssumption DEF BooksOK, AccountsOK
<1>2. ASSUME NEW a \in S, NEW b \in S, a # b, tokens'[a] + tokens'[b] = tokens[a] + tokens[b],
             \A x \in S \ {a, b} : tokens'[x] = tokens[x]
      PROVE  Conserved'
  <2> DEFINE f == tokens
             g == tokens'
  <2> HIDE DEF S, f, g
  <2>1. SumFunctionOnSet(g, S) = SumFunctionOnSet(f, S)
    <3>1. /\ \A x \in S : f[x] \in Int
          /\ \A x \in S : g[x] \in Int
          /\ \A x \in S \ {a, b} : g[x] = f[x]
          /\ g[a] + g[b] = f[a] + f[b]
      BY <1>1, <1>2 DEF f, g
    <3> QED
      BY <1>1, <1>2, <3>1, SumOfExchange
  <2> QED
    BY <2>1 DEF Conserved, S, f, g
<1>3. ASSUME NEW u \in User, Settles(u)  PROVE Conserved'
  <2>1. u # Pool /\ tokens'[u] + tokens'[Pool] = tokens[u] + tokens[Pool]
    BY <1>1, <1>3 DEF Settles
  <2>2. \A x \in S \ {u, Pool} : tokens'[x] = tokens[x]
    BY <1>3 DEF Settles
  <2> QED
    BY <1>2, <2>1, <2>2
<1>4. ASSUME NEW u \in User, NEW v \in User, NEW amount \in StakeAmounts, Pay(u, v, amount)
      PROVE  Conserved'
  <2>1. u # v /\ Transfer(u, v, amount) /\ amount \in Int
    BY <1>4, StakingAssumption DEF Pay
  <2>2. /\ tokens'[u] = tokens[u] - amount /\ tokens'[v] = tokens[v] + amount
        /\ \A x \in S \ {u, v} : tokens'[x] = tokens[x]
    BY <2>1, TransferKeepsBalances DEF BooksOK
  <2>3. tokens'[u] + tokens'[v] = tokens[u] + tokens[v]
    BY <1>1, <2>1, <2>2
  <2> QED
    BY <1>2, <2>1, <2>2, <2>3
<1>5. CASE tokens' = tokens
  BY <1>5 DEF Conserved
<1> HIDE DEF S
<1>6. ASSUME [StakingNext]_<<stakingVars, now>>  PROVE Conserved'
  BY <1>3, <1>5, <1>6, CallsSettle DEF SettlementStep, BooksOK
<1> QED
  BY <1>4, <1>6 DEF StakesStep

\* The parts in every state, and so in the next one.
NumbersOK ==
    \A id \in ProposalIds, u \in User :
        /\ Released(id, u) \in Nat /\ AtHand(id, u) \in Nat /\ Usable(id, u) \in Nat
        /\ AtHand(id, u) <= Usable(id, u) /\ Spendable(id, u) \in Nat
        /\ Worth(id, u) \in Nat /\ MaxWeight * Spendable(id, u) \in Nat
        /\ Potential(id, u) \in Nat /\ Worth(id, u) <= Potential(id, u)

LEMMA NumbersAre == PositionOK /\ AccountsOK /\ BallotOK /\ Weighable => NumbersOK
BY PartsAreNumbers DEF NumbersOK

LEMMA NumbersStay == (PositionOK /\ AccountsOK /\ BallotOK /\ Weighable)' => NumbersOK'
BY NumbersAre, PTL

LEMMA WeighableStays == Weighable => Weighable'
BY DEF Weighable

\* Where nobody's potential grows, their sum does not, nor does the worth of the votes
\* exceed it.
LEMMA PotentialsShrink ==
    ASSUME NumbersOK, NumbersOK', NEW id \in ProposalIds, id \in ProposalIds',
           \A u \in User : Potential(id, u)' <= Potential(id, u)
    PROVE  /\ SumFunctionOnSet(Potentials(id), User)' <= SumFunctionOnSet(Potentials(id), User)
           /\ SumFunctionOnSet(Worths(id), User)' <= SumFunctionOnSet(Potentials(id), User)
<1> DEFINE f == Potentials(id)
           g == Potentials(id)'
           w == Worths(id)'
<1>1. /\ \A u \in User : f[u] \in Int
      /\ \A u \in User : g[u] \in Int
      /\ \A u \in User : w[u] \in Int
      /\ \A u \in User : g[u] <= f[u]
      /\ \A u \in User : w[u] <= f[u]
  <2>1. \A u \in User : f[u] = Potential(id, u) /\ g[u] = Potential(id, u)' /\ w[u] = Worth(id, u)'
    BY DEF Potentials, Worths
  <2>2. \A u \in User : /\ Potential(id, u) \in Int /\ Potential(id, u)' \in Int
                        /\ Worth(id, u)' \in Int /\ Worth(id, u)' <= Potential(id, u)'
    BY DEF NumbersOK
  <2> HIDE DEF f, g, w
  <2> QED
    BY <2>1, <2>2
<1>2. IsFiniteSet(User)
  BY FundsAreFinite
<1>3. /\ SumFunctionOnSet(Potentials(id), User)' = SumFunctionOnSet(g, User)
      /\ SumFunctionOnSet(Worths(id), User)' = SumFunctionOnSet(w, User)
  OBVIOUS
<1> HIDE DEF f, g, w
<1>4. SumFunctionOnSet(g, User) <= SumFunctionOnSet(f, User)
  BY <1>1, <1>2, SumIsMonotonic
<1>5. SumFunctionOnSet(w, User) <= SumFunctionOnSet(f, User)
  BY <1>1, <1>2, SumIsMonotonic
<1> QED
  BY <1>3, <1>4, <1>5 DEF f

LEMMA SumsAreIntegers ==
    ASSUME NumbersOK, NEW id \in ProposalIds
    PROVE  /\ SumFunctionOnSet(Potentials(id), User) \in Int
           /\ SumFunctionOnSet(Worths(id), User) \in Int
<1> DEFINE f == Potentials(id)
           w == Worths(id)
<1>1. \A u \in User : f[u] \in Int /\ w[u] \in Int
  BY DEF NumbersOK, Potentials, Worths
<1>2. IsFiniteSet(User)
  BY FundsAreFinite
<1> HIDE DEF f, w
<1>3. SumFunctionOnSet(f, User) \in Int /\ SumFunctionOnSet(w, User) \in Int
  BY <1>1, <1>2, SumIsInteger
<1> QED
  BY <1>3 DEF f, w

LEMMA IntegersStay == (NumbersOK => \A id \in ProposalIds :
           /\ SumFunctionOnSet(Potentials(id), User) \in Int
           /\ SumFunctionOnSet(Worths(id), User) \in Int)'
<1>1. NumbersOK => \A id \in ProposalIds :
           /\ SumFunctionOnSet(Potentials(id), User) \in Int
           /\ SumFunctionOnSet(Worths(id), User) \in Int
  BY SumsAreIntegers
<1> QED
  BY <1>1, PTL

\* A step that spends no more, with the records as they are, raises nobody's potential.
LEMMA SpendersShrink ==
    ASSUME NumbersOK, NumbersOK', NEW id \in ProposalIds, id \in ProposalIds', Weighable,
           UNCHANGED vote_records, SpendsNoMore(id), NEW u \in User
    PROVE  Potential(id, u)' <= Potential(id, u)
<1>1. Worth(id, u)' = Worth(id, u) /\ Voted(id, u)' = Voted(id, u)
  BY DEF Worth, Voted
<1>2. Spendable(id, u)' <= Spendable(id, u)
  BY <1>1 DEF Spendable, SpendsNoMore
<1>3. /\ Worth(id, u) \in Nat /\ Spendable(id, u) \in Nat /\ Spendable(id, u)' \in Nat
      /\ MaxWeight \in 1..5
  BY LargestWeight DEF NumbersOK, Weighable
<1>4. Potential(id, u)' = Worth(id, u)' + MaxWeight * Spendable(id, u)'
  BY DEF Potential, MaxWeight
<1> HIDE DEF MaxWeight
<1>5. MaxWeight * Spendable(id, u)' <= MaxWeight * Spendable(id, u)
  BY <1>2, <1>3
<1> QED
  BY <1>1, <1>3, <1>4, <1>5 DEF Potential

\* A power that counts as a stake's is at most the stake's amount by the largest weight.
LEMMA PowerWithin ==
    ASSUME NEW a \in Int, NEW M \in 1..5, NEW m \in 1..M, a * m > 1
    PROVE  a > 0 /\ a * m <= M * a
<1>1. a > 0
  <2> SUFFICES ASSUME a <= 0  PROVE FALSE
    OBVIOUS
  <2>1. m \in 1..5
    OBVIOUS
  <2>2. a * m <= 0
    BY <2>1
  <2> QED
    BY <2>2
<1>2. (M - m) * a >= 0
  BY <1>1
<1> QED
  BY <1>1, <1>2

\* The voters' stakes turn into the worth of their votes.
LEMMA VotersShrink ==
    ASSUME PositionOK, AccountsOK, BallotOK, NumbersOK, NumbersOK', PowersFollow, Weighable,
           UNCHANGED <<stakingVars, now>>,
           NEW id, NEW vote, NEW voters, NEW power, Casts(id, vote, voters, power),
           id \in ProposalIds', proposals'[id + 1].voting_ends_at = proposals[id + 1].voting_ends_at,
           NEW u \in User
    PROVE  Potential(id, u)' <= Potential(id, u)
<1>1. /\ id \in ProposalIds
      /\ \A voter \in voters : power[voter] = get_vote_power(voter) /\ power[voter] \in Int
  BY DEF Casts
<1>2. /\ DOMAIN vote_records' = DOMAIN vote_records \cup ({id} \X voters)
      /\ DOMAIN vote_records \cap ({id} \X voters) = {}
      /\ \A k \in DOMAIN vote_records : vote_records'[k] = vote_records[k]
      /\ \A voter \in voters : vote_records'[<<id, voter>>].vote_power = power[voter]
  <2>1. Records(id, vote, voters, power)
    BY RecordsGrow
  <2>2. \A n : Ballot(vote, n).vote_power = n
    BY DEF Ballot
  <2> QED
    BY <2>1, <2>2 DEF Records
<1>3. /\ AtHand(id, u)' = AtHand(id, u) /\ Usable(id, u)' = Usable(id, u)
      /\ AtHand(id, u) \in Nat /\ Usable(id, u) \in Nat /\ MaxWeight \in 1..5
  <2>1. UNCHANGED <<tokens, unbonding, stake>> /\ Ends(id)' = Ends(id)
    BY DEF stakingVars, positionVars, Ends
  <2>2. Released(id, u)' = Released(id, u) /\ StakeOf(u)' = StakeOf(u)
    BY <2>1 DEF Released, StakeOf
  <2> QED
    BY <1>1, <2>1, <2>2, LargestWeight DEF AtHand, Usable, Positive, NumbersOK, Weighable
<1>4. CASE u \notin voters
  <2>1. <<id, u>> \notin {id} \X voters
    BY <1>4
  <2>2. Voted(id, u)' = Voted(id, u) /\ (Voted(id, u) => vote_records'[<<id, u>>] = vote_records[<<id, u>>])
    BY <1>2, <2>1 DEF Voted
  <2>3. Worth(id, u)' = Worth(id, u) /\ Spendable(id, u)' = Spendable(id, u)
    BY <1>3, <2>2 DEF Worth, Spendable
  <2>4. Potential(id, u)' = Potential(id, u)
    BY <2>3 DEF Potential, MaxWeight
  <2> QED
    BY <1>1, <2>4 DEF NumbersOK
<1>5. CASE u \in voters
  <2>1. <<id, u>> \in {id} \X voters
    BY <1>5
  <2>2. ~Voted(id, u) /\ Voted(id, u)' /\ vote_records'[<<id, u>>].vote_power = power[u]
    BY <1>2, <1>5, <2>1 DEF Voted
  <2>3. Worth(id, u)' = IF power[u] >= MinStake THEN power[u] ELSE 0
    BY <2>2 DEF Worth
  <2> DEFINE own == Positive(StakeOf(u))
  <2>4. own \in Nat
    BY AmountsAreIntegers DEF Positive
  <2>5. Worth(id, u)' <= MaxWeight * own
    <3>1. CASE power[u] >= MinStake
      <4>1. power[u] > 1 /\ power[u] \in Int /\ power[u] = get_vote_power(u)
        BY <1>1, <1>5, <3>1, StakingAssumption DEF Weighable
      <4>2. u \in DOMAIN stake /\ power[u] = stake[u].voting_power
        BY <4>1 DEF get_vote_power, get_voting_power
      <4> DEFINE amount == stake[u].amount
                 m == multiplier(stake[u].period)
      <4>3. amount \in Int /\ m \in 1..MaxWeight /\ power[u] = amount * m
        BY <4>2, LargestWeight DEF PositionOK, Position, PowersFollow, Weighable
      <4>4. StakeOf(u) = amount
        BY <4>2 DEF StakeOf
      <4> HIDE DEF amount, m
      <4>5. amount > 0 /\ amount * m <= MaxWeight * amount
        BY <1>3, <4>1, <4>3, PowerWithin
      <4>6. own = amount
        BY <4>3, <4>4, <4>5 DEF Positive
      <4> QED
        BY <2>3, <3>1, <4>3, <4>5, <4>6
    <3>2. CASE ~(power[u] >= MinStake)
      <4>1. Worth(id, u)' = 0
        BY <2>3, <3>2
      <4> HIDE DEF own
      <4>2. MaxWeight * own >= 0
        BY <1>3, <2>4
      <4> QED
        BY <4>1, <4>2
    <3> QED
      BY <3>1, <3>2
  <2>6. /\ Potential(id, u)' = Worth(id, u)' + MaxWeight * AtHand(id, u)
        /\ Potential(id, u) = 0 + MaxWeight * Usable(id, u)
        /\ Usable(id, u) = AtHand(id, u) + own
    BY <1>3, <2>2 DEF Potential, Spendable, Worth, Usable, MaxWeight
  <2>7. Worth(id, u)' \in Nat
    BY <1>1 DEF NumbersOK
  <2> HIDE DEF own
  <2>8. MaxWeight * Usable(id, u) = MaxWeight * AtHand(id, u) + MaxWeight * own
    BY <1>3, <2>4, <2>6, Distributes
  <2>9. MaxWeight * AtHand(id, u) \in Int /\ MaxWeight * own \in Int
    BY <1>3, <2>4
  <2> QED
    BY <2>5, <2>6, <2>7, <2>8, <2>9
<1> QED
  BY <1>4, <1>5

\* A payment moves the potential of the payer to the payee.
LEMMA PaymentExchanges ==
    ASSUME BooksOK, BooksOK', BallotOK, NumbersOK, NumbersOK', Weighable, UNCHANGED ballotVars,
           NEW id \in ProposalIds, NEW a \in User, NEW b \in User, NEW amount \in StakeAmounts,
           Pay(a, b, amount)
    PROVE  SumFunctionOnSet(Potentials(id), User)' = SumFunctionOnSet(Potentials(id), User)
<1> DEFINE f == Potentials(id)
           g == Potentials(id)'
<1>1. a # b /\ Transfer(a, b, amount) /\ amount \in Int /\ MaxWeight \in 1..5
  BY StakingAssumption, LargestWeight DEF Pay, Weighable
<1>2. /\ tokens'[a] = tokens[a] - amount /\ tokens'[b] = tokens[b] + amount
      /\ \A x \in User \ {a, b} : tokens'[x] = tokens[x]
      /\ \A x \in User : tokens[x] \in Int /\ tokens'[x] \in Int
  BY <1>1, TransferKeepsBalances DEF BooksOK, AccountsOK
<1>3. UNCHANGED <<proposals, vote_records, stake, unbonding>>
  BY DEF Pay, positionVars, ballotVars
<1>4. ASSUME NEW x \in User, NEW n \in Int, tokens'[x] = tokens[x] + n
      PROVE  g[x] = f[x] + MaxWeight * n
  <2>1. Released(id, x)' = Released(id, x) /\ StakeOf(x)' = StakeOf(x) /\ Released(id, x) \in Int
    BY <1>3 DEF Released, Ends, StakeOf, NumbersOK
  <2>2. AtHand(id, x)' = AtHand(id, x) + n
    BY <1>2, <1>4, <2>1 DEF AtHand
  <2>3. /\ Voted(id, x)' = Voted(id, x) /\ Worth(id, x)' = Worth(id, x)
        /\ Positive(StakeOf(x)') = Positive(StakeOf(x)) /\ Positive(StakeOf(x)) \in Int
    BY <1>3, <2>1, AmountsAreIntegers DEF Voted, Worth, Positive, BooksOK
  <2>4. Usable(id, x)' = AtHand(id, x)' + Positive(StakeOf(x)')
    BY DEF Usable, Positive
  <2>5. AtHand(id, x) \in Int /\ Worth(id, x) \in Int /\ Spendable(id, x) \in Int
    BY DEF NumbersOK
  <2>6. Usable(id, x)' = Usable(id, x) + n
    BY <2>2, <2>3, <2>4, <2>5 DEF Usable
  <2>7. Spendable(id, x)' = Spendable(id, x) + n
    BY <2>2, <2>3, <2>6 DEF Spendable
  <2>8. /\ Potential(id, x)' = Worth(id, x) + MaxWeight * Spendable(id, x)'
        /\ Potential(id, x) = Worth(id, x) + MaxWeight * Spendable(id, x)
    BY <2>3 DEF Potential, MaxWeight
  <2>9. MaxWeight * (Spendable(id, x) + n) = MaxWeight * Spendable(id, x) + MaxWeight * n
    BY <1>1, <2>5, Distributes
  <2>10. MaxWeight * Spendable(id, x) \in Int /\ MaxWeight * n \in Int
    BY <1>1, <2>5
  <2>11. f[x] = Potential(id, x) /\ g[x] = Potential(id, x)'
    BY DEF Potentials
  <2> HIDE DEF f, g
  <2> QED
    BY <2>5, <2>7, <2>8, <2>9, <2>10, <2>11
<1>5. \A x \in User : f[x] \in Int
  BY DEF Potentials, NumbersOK
<1>6. SumFunctionOnSet(Potentials(id), User)' = SumFunctionOnSet(g, User)
  OBVIOUS
<1> HIDE DEF f, g
<1>7. g[a] = f[a] + MaxWeight * (-amount) /\ g[b] = f[b] + MaxWeight * amount
  <2>1. tokens'[a] = tokens[a] + (-amount) /\ -amount \in Int
    BY <1>1, <1>2
  <2> QED
    BY <1>1, <1>2, <1>4, <2>1
<1>8. ASSUME NEW x \in User \ {a, b}  PROVE g[x] = f[x]
  <2>1. tokens'[x] = tokens[x] + 0
    BY <1>2
  <2>2. g[x] = f[x] + MaxWeight * 0
    BY <1>4, <2>1
  <2> QED
    BY <1>1, <1>5, <2>2
<1>9. g[a] + g[b] = f[a] + f[b] /\ g[a] \in Int /\ g[b] \in Int
  <2>1. MaxWeight * (-amount) = -(MaxWeight * amount) /\ MaxWeight * amount \in Int
    BY <1>1
  <2> QED
    BY <1>5, <1>7, <2>1
<1>10. \A x \in User : g[x] \in Int
  BY <1>5, <1>8, <1>9
<1>11. SumFunctionOnSet(g, User) = SumFunctionOnSet(f, User)
  BY <1>1, <1>5, <1>8, <1>9, <1>10, FundsAreFinite, SumOfExchange
<1> QED
  BY <1>6, <1>11 DEF f

\* All tokens that exist could back the votes on a new proposal, and no vote is cast.
LEMMA NewBacked ==
    ASSUME BooksOK, BallotOK, PoolCovers, Conserved, NumbersOK, Weighable,
           NEW id \in ProposalIds, \A u \in User : ~Voted(id, u)
    PROVE  Backed(id)
<1> DEFINE t == [u \in User |-> tokens[u]]
           o == [u \in User |-> Owed(u)]
           s == [u \in User |-> tokens[u] + Owed(u)]
           m == [u \in User |-> MaxWeight * s[u]]
           f == Potentials(id)
           w == Worths(id)
<1>1. IsFiniteSet(User) /\ Pool \notin User /\ AllFunds \in Int /\ MaxWeight \in 1..5
  BY FundsAreFinite, StakingAssumption, LargestWeight DEF Weighable
<1>2. \A u \in User : tokens[u] \in Nat /\ Owed(u) \in Nat /\ tokens[u] + Owed(u) \in Nat
  BY AmountsAreIntegers, BalancesAreIntegers DEF BooksOK
<1>3. \A u \in User : m[u] \in Int /\ m[u] = MaxWeight * s[u]
  BY <1>1, <1>2
<1>4. ASSUME NEW u \in User  PROVE f[u] <= m[u] /\ f[u] \in Int /\ w[u] = 0
  <2>1. Released(id, u) <= Positive(UnbondingOf(u))
    BY AmountsAreIntegers DEF Released, UnbondingOf, Positive, BooksOK
  <2>2. Usable(id, u) <= tokens[u] + Owed(u)
    <3>1. Released(id, u) \in Int /\ StakeOf(u) \in Int /\ UnbondingOf(u) \in Int
      BY AmountsAreIntegers DEF NumbersOK, BooksOK
    <3>2. Positive(StakeOf(u)) \in Int /\ Positive(UnbondingOf(u)) \in Int
      BY <3>1 DEF Positive
    <3> QED
      BY <1>2, <2>1, <3>1, <3>2 DEF Usable, AtHand, Owed
  <2>3. Worth(id, u) = 0 /\ Spendable(id, u) = Usable(id, u)
    BY DEF Worth, Spendable
  <2>4. Usable(id, u) \in Int /\ s[u] \in Int
    BY <1>2 DEF NumbersOK
  <2>5. MaxWeight * Usable(id, u) <= MaxWeight * s[u]
    BY <1>1, <2>2, <2>4
  <2>6. f[u] = Potential(id, u) /\ w[u] = Worth(id, u)
    BY DEF Potentials, Worths
  <2>7. MaxWeight * Usable(id, u) \in Int
    BY <1>1, <2>4
  <2> HIDE DEF f, w
  <2> QED
    BY <2>3, <2>5, <2>6, <2>7 DEF Potential
<1>5. /\ \A u \in User : t[u] \in Int
      /\ \A u \in User : o[u] \in Int
      /\ \A u \in User : s[u] \in Int
      /\ \A u \in User : s[u] = t[u] + o[u]
  BY <1>2
<1>6. SumFunctionOnSet(o, User) <= tokens[Pool] /\ tokens[Pool] \in Int
  BY BalancesAreIntegers DEF PoolCovers, BooksOK
<1>7. \A u \in User \cup {Pool} : tokens[u] \in Int
  BY DEF BooksOK, AccountsOK
<1>8. \A u \in User : t[u] = tokens[u]
  OBVIOUS
<1> HIDE DEF t, o, s, m, f, w
<1>9. SumFunctionOnSet(t, User) + tokens[Pool] = AllFunds
  <2>1. SumFunctionOnSet(tokens, User \cup {Pool}) = SumFunctionOnSet(tokens, User) + tokens[Pool]
    BY <1>1, <1>7, SumWith
  <2>2. SumFunctionOnSet(t, User) = SumFunctionOnSet(tokens, User)
    BY <1>1, <1>8, SumsAgree
  <2> QED
    BY <2>1, <2>2 DEF Conserved
<1>10. SumFunctionOnSet(s, User) = SumFunctionOnSet(t, User) + SumFunctionOnSet(o, User)
  BY <1>1, <1>5, SumOfSums
<1>11. SumFunctionOnSet(t, User) \in Int /\ SumFunctionOnSet(o, User) \in Int
  BY <1>1, <1>5, SumIsInteger
<1>12. SumFunctionOnSet(s, User) <= AllFunds /\ SumFunctionOnSet(s, User) \in Int
  BY <1>1, <1>6, <1>9, <1>10, <1>11
<1>13. SumFunctionOnSet(m, User) = MaxWeight * SumFunctionOnSet(s, User)
  BY <1>1, <1>3, <1>5, SumOfMultiples
<1>14. SumFunctionOnSet(f, User) <= SumFunctionOnSet(m, User)
  BY <1>1, <1>3, <1>4, SumIsMonotonic
<1>15. MaxWeight * SumFunctionOnSet(s, User) <= Bound
  BY <1>1, <1>12 DEF Bound
<1>16. Bound \in Int /\ SumFunctionOnSet(f, User) \in Int /\ SumFunctionOnSet(m, User) \in Int
  BY <1>1, <1>3, <1>4, SumIsInteger DEF Bound
<1>17. SumFunctionOnSet(w, User) = 0
  BY <1>1, <1>4, SumOfZeros
<1>18. Bound >= 0
  <2>1. AllFunds >= 0
    <3> DEFINE zero == [u \in User |-> 0]
    <3>1. SumFunctionOnSet(zero, User) = 0
      BY <1>1, SumOfZeros
    <3>2. SumFunctionOnSet(zero, User) <= SumFunctionOnSet(Funds, User)
      BY <1>1, FundsAreFinite, SumIsMonotonic
    <3> QED
      BY <3>1, <3>2 DEF AllFunds
  <2> QED
    BY <1>1, <2>1 DEF Bound
<1>19. SumFunctionOnSet(f, User) <= Bound
  BY <1>13, <1>14, <1>15, <1>16
<1> QED
  BY <1>17, <1>18, <1>19 DEF Backed, f, w

LEMMA EitherMoves ==
    ASSUME BallotOK, DelegationOK, SettingOK, BooksOK, IndexAgrees, [Next]_vars
    PROVE  \/ BallotStep /\ UNCHANGED <<stakingVars, now>>
           \/ StakesStep /\ UNCHANGED ballotVars
<1>1. BallotStep
  BY BallotMoves
<1>2. ASSUME ProposalNext  PROVE UNCHANGED <<stakingVars, now>>
  BY <1>2 DEF ProposalNext, CreateProposal, CastVote, FinalizeProposal, ExecuteProposal,
              CancelProposal, ExpireProposal, Close
<1>3. ASSUME DelegationNext  PROVE UNCHANGED <<stakingVars, now>>
  BY <1>3 DEF DelegationNext, Delegate, RevokeDelegation
<1>4. ASSUME SettingNext  PROVE UNCHANGED <<stakingVars, now>>
  BY <1>4 DEF SettingNext, QueueConfigUpdate, ExecuteConfigUpdate, CancelConfigUpdate,
              SetStakingContract, PauseGovernance, UnpauseGovernance
<1>5. ASSUME NEW u \in User, NEW v \in User, NEW amount \in StakeAmounts, Pay(u, v, amount)
      PROVE  StakesStep /\ UNCHANGED ballotVars
  BY <1>5 DEF Pay, govVars, StakesStep
<1>6. ASSUME (StakingNext /\ UNCHANGED govVars) \/ UNCHANGED vars
      PROVE  StakesStep /\ UNCHANGED ballotVars
  BY <1>6 DEF vars, govVars, StakesStep
<1> QED
  BY <1>1, <1>2, <1>3, <1>4, <1>5, <1>6 DEF Next

LEMMA TimePasses ==
    ASSUME AccountsOK, StakesStep
    PROVE  now <= now'
<1>1. ASSUME NEW u, NEW v, NEW amount, Pay(u, v, amount)  PROVE now' = now
  BY <1>1 DEF Pay
<1>2. ASSUME [StakingNext]_<<stakingVars, now>>  PROVE now' = now \/ now' = now + 1
  BY <1>2 DEF StakingNext, PositionNext, SlashNext, ControlNext, StakingTick, Stake, TopUp,
              Unstake, Claim, Slash, SetSlashNoticePeriod, CreateSlashNotice, CancelSlash,
              ExecuteSlash, UpdateAdmin, PauseStaking, UnpauseStaking
<1>3. now \in Nat
  BY DEF AccountsOK
<1> QED
  BY <1>1, <1>2, <1>3 DEF StakesStep

\* The same proposals with the same deadlines, or one more.
LEMMA DeadlinesStand ==
    ASSUME BallotOK, AccountsOK, Weighable, VotesEndInTime, BallotStep, now \in Nat, now' \in Nat,
           now <= now'
    PROVE  /\ VotesEndInTime'
           /\ \A id \in ProposalIds : id \in ProposalIds' /\ Ends(id)' = Ends(id) /\ Ends(id) \in Nat
<1>1. \A id \in ProposalIds : id \in ProposalIds' /\ Ends(id)' = Ends(id) /\ Ends(id) \in Nat
  BY ProposalsChange, IdIsIndex DEF ProposalChange, Ends, BallotOK, Proposal
<1>2. ASSUME NEW id \in ProposalIds' \ ProposalIds  PROVE Ends(id)' < now + Unbonding
  <2>1. \A j \in ProposalIds' \ ProposalIds : \E p : Creates(p)
    <3>1. ASSUME NEW j, NEW vote, NEW voters, NEW power, Casts(j, vote, voters, power)
          PROVE  ProposalIds' = ProposalIds
      BY <3>1, CountedIsProposal, AfterChange DEF Casts, BallotOK
    <3>2. ASSUME NEW j, NEW p, Moves(j, p)  PROVE ProposalIds' = ProposalIds
      BY <3>2, AfterChange DEF Moves, BallotOK
    <3>3. UNCHANGED ballotVars => ProposalIds' = ProposalIds
      BY DEF ballotVars, ProposalIds
    <3> QED
      BY <3>1, <3>2, <3>3 DEF BallotStep
  <2>2. PICK p : Creates(p)
    BY <2>1
  <2>3. PICK c \in AllConfigs : p.voting_ends_at = now + c.voting_period
    BY <2>2 DEF Creates
  <2>4. Ends(id)' = p.voting_ends_at
    BY <2>2, AfterCreation DEF Creates, BallotOK, Ends
  <2>5. c.voting_period < Unbonding /\ c.voting_period \in Nat /\ Unbonding \in Nat
    BY ConfigsAreConfigurations, StakingAssumption DEF Weighable, GovernanceConfig
  <2> QED
    BY <2>3, <2>4, <2>5
<1>3. ASSUME NEW id \in ProposalIds'  PROVE Ends(id)' < now' + Unbonding
  <2>1. Unbonding \in Nat
    BY StakingAssumption
  <2>2. CASE id \in ProposalIds
    BY <1>1, <2>1, <2>2 DEF VotesEndInTime
  <2>3. CASE id \notin ProposalIds
    <3>1. PICK e : e = Ends(id)'
      OBVIOUS
    <3>2. id \in ProposalIds' \ ProposalIds
      BY <2>3
    <3>3. e < now + Unbonding
      BY <1>2, <3>1, <3>2
    <3>4. e \in Nat
      <4>1. proposals' \in Seq(Proposal)
        BY BallotKept DEF BallotOK
      <4>2. proposals'[id + 1] \in Proposal
        BY <4>1 DEF ProposalIds
      <4> QED
        BY <3>1, <4>2 DEF Ends, Proposal
    <3> QED
      BY <2>1, <3>1, <3>3, <3>4
  <2> QED
    BY <2>2, <2>3
<1> QED
  BY <1>1, <1>3 DEF VotesEndInTime

\* A vote stays backed while stakes and tokens move.
LEMMA StakesBack ==
    ASSUME BooksOK, BooksOK', BallotOK, NumbersOK, NumbersOK', Weighable, VotesEndInTime,
           StakesStep, UNCHANGED ballotVars, NEW id \in ProposalIds, Backed(id)
    PROVE  Backed(id)'
<1>1. /\ id \in ProposalIds' /\ Ends(id)' = Ends(id) /\ Ends(id) \in Nat /\ now <= now'
      /\ now \in Nat /\ now' \in Nat /\ UNCHANGED <<proposals, vote_records>>
  BY TimePasses, IdIsIndex DEF ballotVars, ProposalIds, Ends, BallotOK, Proposal, BooksOK, AccountsOK
<1>2. SumFunctionOnSet(Worths(id), User)' = SumFunctionOnSet(Worths(id), User)
  <2>1. \A u : Worth(id, u)' = Worth(id, u)
    BY <1>1 DEF Worth, Voted
  <2>2. Worths(id)' = Worths(id)
    BY <2>1 DEF Worths
  <2> QED
    BY <2>2
<1>3. /\ SumFunctionOnSet(Potentials(id), User) \in Int
      /\ SumFunctionOnSet(Potentials(id), User)' \in Int
      /\ Bound \in Int /\ Bound' = Bound
  <2>1. MaxWeight \in 1..5
    BY LargestWeight DEF Weighable
  <2> QED
    BY <1>1, <2>1, SumsAreIntegers, IntegersStay, FundsAreFinite DEF Bound, MaxWeight, AllFunds
<1>4. ASSUME now' <= Ends(id)
      PROVE  SumFunctionOnSet(Potentials(id), User)' <= SumFunctionOnSet(Potentials(id), User)
  <2>1. now <= Ends(id) /\ Ends(id) < now + Unbonding
    BY <1>1, <1>4 DEF VotesEndInTime
  <2>2. ASSUME [StakingNext]_<<stakingVars, now>>
        PROVE  SumFunctionOnSet(Potentials(id), User)' <= SumFunctionOnSet(Potentials(id), User)
    <3>1. SpendsNoMore(id)
      BY <1>1, <2>1, <2>2, StakersSpend DEF BooksOK
    <3>2. \A u \in User : Potential(id, u)' <= Potential(id, u)
      BY <1>1, <3>1, SpendersShrink
    <3> QED
      BY <1>1, <3>2, PotentialsShrink
  <2>3. ASSUME NEW u \in User, NEW v \in User, NEW amount \in StakeAmounts, Pay(u, v, amount)
        PROVE  SumFunctionOnSet(Potentials(id), User)' <= SumFunctionOnSet(Potentials(id), User)
    <3>1. SumFunctionOnSet(Potentials(id), User)' = SumFunctionOnSet(Potentials(id), User)
      BY <2>3, PaymentExchanges
    <3> QED
      BY <1>3, <3>1
  <2> QED
    BY <2>2, <2>3 DEF StakesStep
<1>5. now' <= Ends(id) => now <= Ends(id)
  BY <1>1
<1> QED
  BY <1>1, <1>2, <1>3, <1>4, <1>5 DEF Backed, Bound

LEMMA UnvotedAreBacked ==
    BooksOK /\ BallotOK /\ PoolCovers /\ Conserved /\ Weighable =>
        \A id \in ProposalIds : (\A u \in User : ~Voted(id, u)) => Backed(id)
BY NumbersAre, NewBacked DEF BooksOK

LEMMA UnvotedStayBacked ==
    (BooksOK /\ BallotOK /\ PoolCovers /\ Conserved /\ Weighable =>
        \A id \in ProposalIds : (\A u \in User : ~Voted(id, u)) => Backed(id))'
BY UnvotedAreBacked, PTL

\* A vote stays backed while neither its records nor the stakes and tokens change.
LEMMA QuietBacks ==
    ASSUME NEW id \in ProposalIds, Backed(id), UNCHANGED <<stakingVars, now>>, Ends(id)' = Ends(id),
           \A u \in User : /\ Voted(id, u)' = Voted(id, u)
                           /\ Voted(id, u) => vote_records'[<<id, u>>] = vote_records[<<id, u>>]
    PROVE  Backed(id)'
<1>1. UNCHANGED <<tokens, unbonding, stake>>
  BY DEF stakingVars, positionVars
<1>2. ASSUME NEW u \in User  PROVE Worth(id, u)' = Worth(id, u) /\ Potential(id, u)' = Potential(id, u)
  <2>1. Worth(id, u)' = Worth(id, u)
    BY DEF Worth
  <2>2. Released(id, u)' = Released(id, u) /\ StakeOf(u)' = StakeOf(u)
    BY <1>1 DEF Released, StakeOf
  <2>3. Spendable(id, u)' = Spendable(id, u)
    BY <1>1, <2>2 DEF Spendable, AtHand, Usable, Positive
  <2> QED
    BY <2>1, <2>3 DEF Potential, MaxWeight
<1>3. Worths(id)' = Worths(id) /\ Potentials(id)' = Potentials(id)
  BY <1>2 DEF Worths, Potentials
<1> QED
  BY <1>3 DEF Backed, Bound, MaxWeight, AllFunds

LEMMA VotesBack ==
    ASSUME PositionOK, AccountsOK, BallotOK, NumbersOK, NumbersOK', PowersFollow, Weighable,
           UNCHANGED <<stakingVars, now>>,
           NEW j, NEW vote, NEW voters, NEW power, Casts(j, vote, voters, power),
           NEW id \in ProposalIds, id \in ProposalIds', Ends(id)' = Ends(id), Backed(id)
    PROVE  Backed(id)'
<1>1. CASE id = j
  <2>1. now <= Ends(id)
    BY <1>1 DEF Casts, Ends
  <2>2. Casts(id, vote, voters, power)
    BY <1>1
  <2>3. \A u \in User : Potential(id, u)' <= Potential(id, u)
    BY <2>2, VotersShrink DEF Ends
  <2>4. /\ SumFunctionOnSet(Potentials(id), User)' <= SumFunctionOnSet(Potentials(id), User)
        /\ SumFunctionOnSet(Worths(id), User)' <= SumFunctionOnSet(Potentials(id), User)
    BY <2>3, PotentialsShrink
  <2>5. SumFunctionOnSet(Potentials(id), User) <= Bound
    BY <2>1 DEF Backed
  <2>6. /\ SumFunctionOnSet(Potentials(id), User) \in Int
        /\ SumFunctionOnSet(Potentials(id), User)' \in Int
        /\ SumFunctionOnSet(Worths(id), User)' \in Int
        /\ Bound \in Int /\ Bound' = Bound
    <3>1. MaxWeight \in 1..5
      BY LargestWeight DEF Weighable
    <3> QED
      BY <3>1, SumsAreIntegers, IntegersStay, FundsAreFinite DEF Bound, MaxWeight, AllFunds
  <2> QED
    BY <2>4, <2>5, <2>6 DEF Backed
<1>2. CASE id # j
  <2>1. Records(j, vote, voters, power)
    BY RecordsGrow
  <2>2. \A u \in User : <<id, u>> \notin {j} \X voters
    BY <1>2
  <2>3. \A u \in User : /\ Voted(id, u)' = Voted(id, u)
                        /\ Voted(id, u) => vote_records'[<<id, u>>] = vote_records[<<id, u>>]
    BY <2>1, <2>2 DEF Records, Voted
  <2> QED
    BY <2>3, QuietBacks
<1> QED
  BY <1>1, <1>2

BackingInv ==
    /\ PowersFollow /\ Conserved /\ VotesEndInTime
    /\ \A id \in ProposalIds : Backed(id)

LEMMA BallotsBack ==
    ASSUME GovernanceInv, GovernanceInv', NumbersOK, NumbersOK', Weighable, BackingInv,
           Conserved', BallotStep, UNCHANGED <<stakingVars, now>>
    PROVE  \A id \in ProposalIds' : Backed(id)'
<1>1. \A id \in ProposalIds : id \in ProposalIds' /\ Ends(id)' = Ends(id) /\ Backed(id)
  <2>1. now \in Nat /\ now' \in Nat /\ now <= now'
    BY DEF GovernanceInv, BooksOK, AccountsOK
  <2> QED
    BY <2>1, DeadlinesStand DEF GovernanceInv, BooksOK, BackingInv
<1>2. ASSUME NEW id \in ProposalIds, vote_records' = vote_records  PROVE Backed(id)'
  <2>1. \A u \in User : /\ Voted(id, u)' = Voted(id, u)
                        /\ Voted(id, u) => vote_records'[<<id, u>>] = vote_records[<<id, u>>]
    BY <1>2 DEF Voted
  <2> QED
    BY <1>1, <2>1, QuietBacks
<1>3. ASSUME NEW p, Creates(p), NEW id \in ProposalIds' \ ProposalIds  PROVE Backed(id)'
  <2>1. \A k \in DOMAIN vote_records' : k[1] \in ProposalIds
    BY <1>3 DEF Creates, GovernanceInv, BallotOK
  <2>2. \A u \in User : ~Voted(id, u)'
    BY <1>3, <2>1 DEF Voted
  <2>3. Weighable'
    BY WeighableStays
  <2> QED
    BY <1>3, <2>2, <2>3, UnvotedStayBacked DEF GovernanceInv
<1>4. CASE UNCHANGED ballotVars
  BY <1>2, <1>4 DEF ballotVars, ProposalIds
<1>5. ASSUME NEW p, Creates(p)  PROVE \A id \in ProposalIds' : Backed(id)'
  BY <1>2, <1>3, <1>5 DEF Creates
<1>6. ASSUME NEW j, NEW p, Moves(j, p)  PROVE \A id \in ProposalIds' : Backed(id)'
  <2>1. ProposalIds' = ProposalIds
    BY <1>6, AfterChange DEF Moves, GovernanceInv, BallotOK
  <2> QED
    BY <1>2, <1>6, <2>1 DEF Moves
<1>7. ASSUME NEW j, NEW vote, NEW voters, NEW power, Casts(j, vote, voters, power)
      PROVE  \A id \in ProposalIds' : Backed(id)'
  <2>1. ProposalIds' = ProposalIds
    BY <1>7, CountedIsProposal, AfterChange DEF Casts, GovernanceInv, BallotOK
  <2> QED
    BY <1>1, <1>7, <2>1, VotesBack DEF GovernanceInv, BooksOK, BackingInv
<1> QED
  BY <1>4, <1>5, <1>6, <1>7 DEF BallotStep

LEMMA BackingKept ==
    ASSUME GovernanceInv, Weighable, BackingInv, [Next]_vars
    PROVE  BackingInv'
<1>1. GovernanceInv' /\ BallotStep /\ StakesStep
  BY GovernanceKept, BallotMoves, StakesMove DEF GovernanceInv
<1>2. NumbersOK /\ NumbersOK'
  BY <1>1, NumbersAre, NumbersStay, WeighableStays DEF GovernanceInv, BooksOK
<1>3. Conserved'
  BY <1>1, ConservedKept DEF GovernanceInv, BackingInv
<1>4. PowersFollow'
  <2>1. ASSUME NEW u, NEW v, NEW amount, Pay(u, v, amount)  PROVE PowersFollow'
    BY <2>1 DEF Pay, positionVars, BackingInv, PowersFollow
  <2> QED
    BY <1>1, <2>1, PowersKept DEF StakesStep, GovernanceInv, BooksOK, BackingInv
<1>5. VotesEndInTime'
  <2>1. now \in Nat /\ now' \in Nat /\ now <= now'
    BY <1>1, TimePasses DEF GovernanceInv, BooksOK, AccountsOK
  <2> QED
    BY <1>1, <2>1, DeadlinesStand DEF GovernanceInv, BooksOK, BackingInv
<1>6. \A id \in ProposalIds' : Backed(id)'
  <2>1. ASSUME BallotStep, UNCHANGED <<stakingVars, now>>
        PROVE  \A id \in ProposalIds' : Backed(id)'
    BY <1>1, <1>2, <1>3, <2>1, BallotsBack
  <2>2. ASSUME StakesStep, UNCHANGED ballotVars  PROVE \A id \in ProposalIds' : Backed(id)'
    <3>1. ProposalIds' = ProposalIds
      BY <2>2 DEF ballotVars, ProposalIds
    <3> QED
      BY <1>1, <1>2, <2>2, <3>1, StakesBack DEF GovernanceInv, BackingInv
  <2> QED
    BY <2>1, <2>2, EitherMoves DEF GovernanceInv
<1> QED
  BY <1>3, <1>4, <1>5, <1>6 DEF BackingInv

LEMMA BackingStarts ==
    ASSUME Init  PROVE BackingInv
<1>1. ProposalIds = {} /\ DOMAIN stake = {}
  BY DEF Init, ProposalIds, InitStaking, Nothing
<1>2. Conserved
  <2>1. /\ tokens[Pool] = 0 /\ \A x \in User : tokens[x] = Funds[x]
        /\ \A x \in User : Funds[x] \in Int
        /\ \A x \in User \cup {Pool} : tokens[x] \in Int
    BY StakingAssumption DEF Init, InitStaking
  <2>2. IsFiniteSet(User) /\ Pool \notin User /\ AllFunds \in Int
    BY FundsAreFinite, StakingAssumption
  <2>3. SumFunctionOnSet(tokens, User \cup {Pool}) = SumFunctionOnSet(tokens, User) + tokens[Pool]
    BY <2>1, <2>2, SumWith
  <2>4. SumFunctionOnSet(tokens, User) = AllFunds
    BY <2>1, <2>2, SumsAgree DEF AllFunds
  <2> QED
    BY <2>1, <2>2, <2>3, <2>4 DEF Conserved
<1> QED
  BY <1>1, <1>2 DEF BackingInv, PowersFollow, VotesEndInTime

\* The records that weigh for a proposal are its voters' worths.
LEMMA WorthsAreVotes ==
    ASSUME BallotOK, NumbersOK, NEW id \in ProposalIds
    PROVE  SumFunctionOnSet(Powers, {k \in DOMAIN vote_records : k[1] = id /\ Powers[k] >= MinStake})
              = SumFunctionOnSet(Worths(id), User)
<1> DEFINE V == {u \in User : Voted(id, u) /\ vote_records[<<id, u>>].vote_power >= MinStake}
           R == User \ V
           K == {k \in DOMAIN vote_records : k[1] = id /\ Powers[k] >= MinStake}
           f == Worths(id)
           g == Powers
<1>1. \A k \in DOMAIN vote_records : Powers[k] = vote_records[k].vote_power
                                     /\ \E j \in ProposalIds, u \in User : k = <<j, u>>
  BY DEF Powers, BallotOK
<1>2. K = {id} \X V
  <2>1. ASSUME NEW k \in K  PROVE k \in {id} \X V
    <3>1. PICK u \in User : k = <<id, u>>
      BY <1>1, <2>1
    <3> QED
      BY <1>1, <2>1, <3>1 DEF Voted
  <2>2. ASSUME NEW u \in V  PROVE <<id, u>> \in K
    BY <1>1, <2>2 DEF Voted
  <2> HIDE DEF K, V
  <2> QED
    BY <2>1, <2>2
<1>3. \A u \in V : g[<<id, u>>] = f[u]
  BY <1>1 DEF Worths, Worth, Voted
<1>4. \A u \in R : f[u] = 0
  BY DEF Worths, Worth
<1>5. \A u \in User : f[u] \in Int
  BY DEF Worths, NumbersOK
<1>6. /\ IsFiniteSet(V) /\ IsFiniteSet(R) /\ V \cap R = {} /\ V \cup R = User
      /\ V \subseteq User /\ R \subseteq User
  BY FundsAreFinite, FS_Subset
<1> HIDE DEF f, g, V, R, K
<1>7. SumFunctionOnSet(g, {id} \X V) = SumFunctionOnSet(f, V)
  <2>1. \A u \in V : f[u] \in Int
    BY <1>5, <1>6
  <2> QED
    BY <1>3, <1>6, <2>1, SumOverPairs, ZenonT(60)
<1>8. SumFunctionOnSet(f, V \cup R) = SumFunctionOnSet(f, V) + SumFunctionOnSet(f, R)
  BY <1>5, <1>6, SumOfUnion
<1>9. SumFunctionOnSet(f, R) = 0
  BY <1>4, <1>6, SumOfZeros
<1>10. SumFunctionOnSet(f, V) \in Int
  BY <1>5, <1>6, SumIsInteger
<1>11. SumFunctionOnSet(f, User) = SumFunctionOnSet(f, V)
  <2>1. SumFunctionOnSet(f, V \cup R) = SumFunctionOnSet(f, V)
    BY <1>8, <1>9, <1>10
  <2>2. V \cup R = User
    BY <1>6
  <2> QED
    BY <2>1, <2>2, Zenon
<1>12. SumFunctionOnSet(g, K) = SumFunctionOnSet(f, User)
  BY <1>2, <1>7, <1>11
<1>13. SumFunctionOnSet(Powers, K) = SumFunctionOnSet(Worths(id), User)
  BY <1>12 DEF f, g
<1> QED
  BY <1>13 DEF K

LEMMA BackingImplies ==
    ASSUME GovernanceInv, Weighable, BackingInv
    PROVE  VotesBackedByTokens
<1> SUFFICES ASSUME NEW id \in ProposalIds
             PROVE  SumFunctionOnSet(Powers, {k \in DOMAIN vote_records :
                                                 k[1] = id /\ Powers[k] >= MinStake})
                       <= AllFunds * MaxWeight
  BY DEF VotesBackedByTokens, AllFunds, MaxWeight
<1>1. NumbersOK
  BY NumbersAre DEF GovernanceInv, BooksOK
<1>2. SumFunctionOnSet(Worths(id), User) <= Bound
  BY DEF BackingInv, Backed
<1>3. Bound = AllFunds * MaxWeight
  <2>1. MaxWeight \in 1..5 /\ AllFunds \in Int
    BY LargestWeight, FundsAreFinite DEF Weighable
  <2> QED
    BY <2>1 DEF Bound
<1> QED
  BY <1>1, <1>2, <1>3, WorthsAreVotes DEF GovernanceInv

\* Staked tokens vote once: provided that votes end before what is unstaked meanwhile can be
\* claimed, the stakes recorded for one proposal never weigh more than all tokens could,
\* however they are unstaked, claimed, paid, staked again or voted with by a delegate.
THEOREM VotesAreBacked == Weighable /\ Spec => []VotesBackedByTokens
<1> DEFINE Inv == GovernanceInv /\ Weighable /\ BackingInv
<1>1. Weighable /\ Init => Inv
  BY GovernanceStarts, BackingStarts
<1>2. Inv /\ [Next]_vars => Inv'
  BY GovernanceKept, BackingKept, WeighableStays
<1>3. Inv => VotesBackedByTokens
  BY BackingImplies
<1> QED
  BY <1>1, <1>2, <1>3, PTL DEF Spec
=============================================================================
