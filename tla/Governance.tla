----------------------------- MODULE Governance -----------------------------
(***************************************************************************)
(* The governance contract (packages/governance), which weighs votes by    *)
(* the stakes of the staking contract.  Governance calls get_voting_power  *)
(* inside the transaction that casts the vote, so a vote reads the stakes  *)
(* of its own moment; between two votes of a proposal the stakes, and the  *)
(* tokens behind them, may change hands.                                   *)
(***************************************************************************)
EXTENDS Staking, SequencesExt

CONSTANTS
    GovAdmin,           \* the administrator of governance
    Config0, Configs,   \* the GovernanceConfig at init, and those that are queued
    Deposits,           \* deposits that proposers offer
    ConfigTimelock,     \* CONFIG_TIMELOCK_SECONDS
    ExecutionWindow,    \* PROPOSAL_EXECUTION_WINDOW
    MaxProposals        \* no proposal is created beyond this many

VoteType == {"For", "Against", "Abstain"}
\* Draft and Succeeded are values of the type that no entry point assigns.
ProposalStatus == {"Active", "Queued", "Executed", "Defeated", "Cancelled", "Expired"}

\* proposal_deposit is only compared with min_proposal_deposit, by validate_config.
GovernanceConfig == [voting_period : Nat, timelock : Nat, quorum_votes : Nat,
                     pass_threshold_bps : 1..10000, min_proposal_deposit : Nat]

ASSUME GovernanceAssumption ==
    /\ Config0 \in GovernanceConfig /\ Configs \subseteq GovernanceConfig
    /\ Deposits \subseteq Nat
    /\ {ConfigTimelock, ExecutionWindow, MaxProposals} \subseteq Nat

VARIABLES
    config,             \* Config
    pending_config,     \* PendingConfig: the empty set, or the one queued update
    proposals,          \* Proposal(id); id is the index minus one, as ProposalCount counts
    vote_records,       \* Vote(id, voter)
    deposits,           \* Deposit(id)
    by_status,          \* ProposalsByStatus(status)
    delegation,         \* Delegation(u)
    delegators,         \* Delegators(u)
    staking_contract,   \* whether StakingContract is set
    gov_paused

ballotVars == <<proposals, vote_records, deposits, by_status>>
delegationVars == <<delegation, delegators>>
settingVars == <<config, pending_config, staking_contract, gov_paused>>
govVars == <<ballotVars, delegationVars, settingVars>>
vars == <<govVars, stakingVars, now>>

Init ==
    /\ InitStaking
    /\ config = Config0 /\ pending_config = {}
    /\ proposals = <<>> /\ vote_records = Nothing /\ deposits = Nothing
    /\ by_status = [s \in ProposalStatus |-> <<>>]
    /\ delegation = Nothing /\ delegators = [u \in User |-> <<>>]
    /\ staking_contract = FALSE
    /\ gov_paused = FALSE

-----------------------------------------------------------------------------
(* Helpers.                                                                *)

Total(p) == p.tally["For"] + p.tally["Against"] + p.tally["Abstain"]

proposal_passes(p) ==
    LET directional == p.tally["For"] + p.tally["Against"]
    IN  /\ Total(p) >= config.quorum_votes
        /\ directional > 0
        /\ (p.tally["For"] * 10000) \div directional >= config.pass_threshold_bps

get_vote_power(u) == IF staking_contract THEN get_voting_power(u) ELSE 1

\* Proposal id leaves the index of its status for that of the next one.
MutReindexed(id, from, to) == [by_status EXCEPT ![to] = Append(@, id)]
Reindexed(id, from, to) ==
    [by_status EXCEPT ![from] = Without(@, id), ![to] = Append(@, id)]

\* The votes that a call casts are recorded beside those there are.
Recorded(cast) ==
    [k \in DOMAIN cast \cup DOMAIN vote_records |->
        IF k \in DOMAIN cast THEN cast[k] ELSE vote_records[k]]

\* A delegator's vote is cast by its delegate unless one is recorded already.
MutVotedFor(id, u) == {u} \cup ToSet(delegators[u])
VotedFor(id, u) == {u} \cup {d \in ToSet(delegators[u]) : <<id, d>> \notin DOMAIN vote_records}

MutMayDelegate(u, v) == u # v /\ v \notin DOMAIN delegation
MayDelegate(u, v) == u # v /\ v \notin DOMAIN delegation /\ delegators[u] = <<>>

\* The delegators of everybody once u no longer delegates.
Undelegated(u) ==
    IF u \in DOMAIN delegation
    THEN [delegators EXCEPT ![delegation[u]] = Without(@, u)]
    ELSE delegators

MutVotingOpen(p) == now <= p.voting_ends_at
VotingOpen(p) == p.status = "Active" /\ now <= p.voting_ends_at
VotingOver(p) == p.status = "Active" /\ now > p.voting_ends_at

IsExpired(p) ==
    \/ p.status = "Active" /\ now > p.voting_ends_at + ExecutionWindow
    \/ p.status = "Queued" /\ now > p.timelock_ends_at + ExecutionWindow

-----------------------------------------------------------------------------
(* Proposals.                                                              *)

MutNextId == Len(proposals) + 1   \* counted from one
NextId == Len(proposals)

CreateProposal(u, deposit) ==
    /\ ~gov_paused
    /\ Len(proposals) < MaxProposals
    /\ deposit >= config.min_proposal_deposit /\ deposit > 0
    /\ LET id == NextId
       IN  /\ proposals' = Append(proposals,
                  [proposer |-> u, deposit_amount |-> deposit, status |-> "Active",
                   voting_ends_at |-> now + config.voting_period, timelock_ends_at |-> 0,
                   tally |-> [v \in VoteType |-> 0]])
           /\ deposits' = Put(deposits, id, deposit)
           /\ by_status' = [by_status EXCEPT !["Active"] = Append(@, id)]
    /\ UNCHANGED <<vote_records, delegationVars, settingVars, stakingVars, now>>

CastVote(u, id, vote) ==
    /\ ~gov_paused
    /\ VotingOpen(proposals[id + 1])
    /\ <<id, u>> \notin DOMAIN vote_records
    /\ u \notin DOMAIN delegation
    /\ LET voters == VotedFor(id, u)
           power == [voter \in voters |-> get_vote_power(voter)]
           cast == [k \in {id} \X voters |-> [vote |-> vote, vote_power |-> power[k[2]]]]
       IN  /\ vote_records' = Recorded(cast)
           /\ proposals' = [proposals EXCEPT ![id + 1].tally[vote] =
                                 @ + SumFunctionOnSet(power, voters)]
    /\ UNCHANGED <<deposits, by_status, delegationVars, settingVars, stakingVars, now>>

\* Closing a proposal, in whichever way: its status, its index, its deposit entry.
Close(id, status, ends) ==
    /\ proposals' = [proposals EXCEPT ![id + 1].status = status,
                                      ![id + 1].timelock_ends_at = ends]
    /\ by_status' = Reindexed(id, proposals[id + 1].status, status)
    /\ deposits' = Drop(deposits, id)
    /\ UNCHANGED <<vote_records, delegationVars, settingVars, stakingVars, now>>

MutTimelockEnd == config.timelock   \* a duration taken for a deadline
TimelockEnd == now + config.timelock

FinalizeProposal(id) ==
    /\ ~gov_paused
    /\ VotingOver(proposals[id + 1])
    /\ IF proposal_passes(proposals[id + 1])
       THEN Close(id, "Queued", TimelockEnd)
       ELSE Close(id, "Defeated", proposals[id + 1].timelock_ends_at)

\* The call that the proposal carries reaches contracts outside this model.
ExecuteProposal(id) ==
    /\ ~gov_paused
    /\ proposals[id + 1].status = "Queued"
    /\ now >= proposals[id + 1].timelock_ends_at
    /\ proposals' = [proposals EXCEPT ![id + 1].status = "Executed"]
    /\ by_status' = Reindexed(id, "Queued", "Executed")
    /\ UNCHANGED <<vote_records, deposits, delegationVars, settingVars, stakingVars, now>>

CancelProposal(u, id) ==
    /\ ~gov_paused
    /\ proposals[id + 1].proposer = u
    /\ proposals[id + 1].status = "Active"
    /\ Total(proposals[id + 1]) <= 0
    /\ Close(id, "Cancelled", proposals[id + 1].timelock_ends_at)

ExpireProposal(id) ==
    /\ ~gov_paused
    /\ IsExpired(proposals[id + 1])
    /\ Close(id, "Expired", proposals[id + 1].timelock_ends_at)

-----------------------------------------------------------------------------
(* Delegation.                                                             *)

Delegate(u, v) ==
    /\ ~gov_paused
    /\ MayDelegate(u, v)
    /\ delegation' = Put(delegation, u, v)
    /\ delegators' = [Undelegated(u) EXCEPT ![v] = Append(@, u)]
    /\ UNCHANGED <<ballotVars, settingVars, stakingVars, now>>

RevokeDelegation(u) ==
    /\ ~gov_paused
    /\ delegation' = Drop(delegation, u)
    /\ delegators' = Undelegated(u)
    /\ UNCHANGED <<ballotVars, settingVars, stakingVars, now>>

-----------------------------------------------------------------------------
(* Configuration.                                                          *)

QueueConfigUpdate(a, c) ==
    /\ ~gov_paused
    /\ a = GovAdmin
    /\ pending_config = {}
    /\ pending_config' = {[new_config |-> c, executable_at |-> now + ConfigTimelock]}
    /\ UNCHANGED <<config, staking_contract, gov_paused, ballotVars, delegationVars,
                   stakingVars, now>>

MutExecuteConfigUpdate ==
    /\ ~gov_paused
    /\ \E p \in pending_config : config' = p.new_config
    /\ pending_config' = {}
    /\ UNCHANGED <<staking_contract, gov_paused, ballotVars, delegationVars, stakingVars, now>>
ExecuteConfigUpdate ==
    /\ ~gov_paused
    /\ \E p \in pending_config : now >= p.executable_at /\ config' = p.new_config
    /\ pending_config' = {}
    /\ UNCHANGED <<staking_contract, gov_paused, ballotVars, delegationVars, stakingVars, now>>

CancelConfigUpdate(a) ==
    /\ ~gov_paused
    /\ a = GovAdmin
    /\ pending_config # {}
    /\ pending_config' = {}
    /\ UNCHANGED <<config, staking_contract, gov_paused, ballotVars, delegationVars,
                   stakingVars, now>>

SetStakingContract(a) ==
    /\ ~gov_paused
    /\ a = GovAdmin
    /\ staking_contract' = TRUE
    /\ UNCHANGED <<config, pending_config, gov_paused, ballotVars, delegationVars,
                   stakingVars, now>>

PauseGovernance(a) ==
    /\ a = GovAdmin
    /\ gov_paused' = TRUE
    /\ UNCHANGED <<config, pending_config, staking_contract, ballotVars, delegationVars,
                   stakingVars, now>>

UnpauseGovernance(a) ==
    /\ a = GovAdmin
    /\ gov_paused' = FALSE
    /\ UNCHANGED <<config, pending_config, staking_contract, ballotVars, delegationVars,
                   stakingVars, now>>

-----------------------------------------------------------------------------
(* The platform around it.                                                 *)

ProposalIds == 0..(Len(proposals) - 1)

ProposalNext ==
    \/ \E u \in User, deposit \in Deposits : CreateProposal(u, deposit)
    \/ \E u \in User, id \in ProposalIds, vote \in VoteType : CastVote(u, id, vote)
    \/ \E id \in ProposalIds : FinalizeProposal(id) \/ ExecuteProposal(id) \/ ExpireProposal(id)
    \/ \E u \in User, id \in ProposalIds : CancelProposal(u, id)

DelegationNext ==
    \/ \E u, v \in User : Delegate(u, v)
    \/ \E u \in User : RevokeDelegation(u)

SettingNext ==
    \/ \E a \in User, c \in Configs : QueueConfigUpdate(a, c)
    \/ ExecuteConfigUpdate
    \/ \E a \in User : CancelConfigUpdate(a) \/ SetStakingContract(a)
    \/ \E a \in User : PauseGovernance(a) \/ UnpauseGovernance(a)

\* Holders of the staked token pay one another, outside both contracts.
Pay(u, v, amount) ==
    /\ u # v
    /\ Transfer(u, v, amount)
    /\ UNCHANGED <<govVars, positionVars, unbonding, noticeVars, controlVars, now>>

Next ==
    \/ ProposalNext \/ DelegationNext \/ SettingNext
    \/ \E u, v \in User, amount \in StakeAmounts : Pay(u, v, amount)
    \/ StakingNext /\ UNCHANGED govVars

Spec == Init /\ [][Next]_vars

-----------------------------------------------------------------------------
(* Properties.                                                             *)

Proposal == [proposer : User, deposit_amount : Nat, status : ProposalStatus,
             voting_ends_at : Nat, timelock_ends_at : Nat, tally : [VoteType -> Int]]

TypeOK ==
    /\ StakingTypeOK
    /\ config \in GovernanceConfig
    /\ pending_config \subseteq [new_config : GovernanceConfig, executable_at : Nat]
    /\ Cardinality(pending_config) <= 1
    /\ proposals \in Seq(Proposal)
    /\ DOMAIN vote_records \subseteq ProposalIds \X User
    /\ \A k \in DOMAIN vote_records : vote_records[k] \in [vote : VoteType, vote_power : Int]
    /\ DOMAIN deposits \subseteq ProposalIds /\ \A id \in DOMAIN deposits : deposits[id] \in Nat
    /\ by_status \in [ProposalStatus -> Seq(ProposalIds)]
    /\ DOMAIN delegation \subseteq User /\ delegators \in [User -> Seq(User)]
    /\ staking_contract \in BOOLEAN /\ gov_paused \in BOOLEAN

\* delegate and revoke_delegation keep the two directions of a delegation in
\* step, and no delegate delegates: cast_vote looks one step down, so a vote
\* behind a second delegation would be lost.
DelegationsAgree ==
    /\ \A u, v \in User :
          u \in ToSet(delegators[v]) <=> u \in DOMAIN delegation /\ delegation[u] = v
    /\ \A v \in User : IsInjective(delegators[v])
    /\ \A u \in DOMAIN delegation : delegation[u] \notin DOMAIN delegation

Powers == [k \in DOMAIN vote_records |-> vote_records[k].vote_power]

\* The tallies that finalize_proposal decides by are the sums of the recorded
\* votes, although a delegate's call records several of them and the stakes
\* behind them have moved since.
TalliesAreSums ==
    \A id \in ProposalIds, vote \in VoteType :
        proposals[id + 1].tally[vote] =
            SumFunctionOnSet(Powers, {k \in DOMAIN vote_records :
                                         k[1] = id /\ vote_records[k].vote = vote})

\* get_proposals finds every proposal under its own status only, and a deposit
\* entry exists exactly as long as its proposal is open.
IndexAgrees ==
    /\ \A s \in ProposalStatus :
          /\ ToSet(by_status[s]) = {id \in ProposalIds : proposals[id + 1].status = s}
          /\ IsInjective(by_status[s])
    /\ DOMAIN deposits = {id \in ProposalIds : proposals[id + 1].status = "Active"}

\* Staked tokens vote once: what is recorded for one proposal with the weight of
\* a stake never exceeds all tokens there are, times the largest multiplier, although
\* holders unstake, claim, pay one another and stake again.  It takes a voting
\* period below the unbonding period.
VotesBackedByTokens ==
    \A id \in ProposalIds :
        SumFunctionOnSet(Powers, {k \in DOMAIN vote_records : k[1] = id /\ Powers[k] >= MinStake})
            <= SumFunctionOnSet(Funds, User) * Max({multiplier(period) : period \in Periods})

\* A proposal is executed only when, by the terms of one configuration there has been,
\* its votes had a quorum and a majority and it has been reviewed since: the timelock runs
\* from the first moment at which the proposal could be finalized, whatever configuration
\* replaces that one in between.
AllConfigs == {Config0} \cup Configs
Reviewed(p, c) ==
    LET directional == p.tally["For"] + p.tally["Against"]
    IN  /\ now > p.voting_ends_at + c.timelock
        /\ Total(p) >= c.quorum_votes
        /\ directional > 0 /\ p.tally["For"] * 10000 >= c.pass_threshold_bps * directional
ExecutionIsReviewed ==
    [][\A id \in ProposalIds :
          LET p == proposals[id + 1]
          IN  p.status # "Executed" /\ proposals'[id + 1].status = "Executed" =>
                  \E c \in AllConfigs : Reviewed(p, c)]_vars

\* A recorded vote stands: no later vote, delegation or revocation replaces it,
\* and nothing is added to the tally of a proposal that is closed.
VotesStand ==
    [][/\ \A k \in DOMAIN vote_records :
             k \in DOMAIN vote_records' /\ vote_records'[k] = vote_records[k]
       /\ \A id \in ProposalIds :
             proposals[id + 1].status # "Active" =>
                 proposals'[id + 1].tally = proposals[id + 1].tally]_vars
=============================================================================
