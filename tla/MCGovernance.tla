---------------------------- MODULE MCGovernance ----------------------------
(***************************************************************************)
(* One proposal before three voters and the only staked tokens, which they *)
(* pass on to one another, while a second configuration waits for its own  *)
(* timelock.                                                               *)
(***************************************************************************)
EXTENDS Governance

CONSTANTS a, b, c

MCFunds == [u \in User |-> IF u = a THEN MinStake ELSE 0]
MCConfig0 == [voting_period |-> 0, timelock |-> 1, quorum_votes |-> 2,
              pass_threshold_bps |-> 6000, min_proposal_deposit |-> 1]
MCConfigs == {[voting_period |-> 1, timelock |-> 2, quorum_votes |-> 3,
               pass_threshold_bps |-> 5000, min_proposal_deposit |-> 1]}

\* Two stories share the first steps.  In the first, governance does not know the
\* staking contract, everybody weighs one, and delegations and configurations
\* change; in the second it does, and stakes and tokens change hands.
Counting == ~staking_contract
Weighing == staking_contract

\* c proposes.  Delegations change while there is a vote for them to matter to.
VotingNext ==
    \/ \E deposit \in Deposits : CreateProposal(c, deposit)
    \/ \E u \in User, id \in ProposalIds, vote \in VoteType :
          (vote = "Abstain" => u = c) /\ (vote = "Against" => u # b) /\ CastVote(u, id, vote)
    \/ \E id \in ProposalIds :
          FinalizeProposal(id) \/ ExecuteProposal(id) \/ ExpireProposal(id) \/ CancelProposal(c, id)
    \/ /\ Counting
       /\ \A id \in ProposalIds : proposals[id + 1].status = "Active"
       /\ \E u \in {a, b} : RevokeDelegation(u) \/ \E v \in User : Delegate(u, v)
    \/ Weighing /\ Delegate(b, c)

\* The switches are tried before there is a proposal; an update that is queued
\* then may take effect later, in the middle of a vote.
SwitchNext ==
    \/ \E update \in Configs : Counting /\ proposals = <<>> /\ QueueConfigUpdate(a, update)
    \/ ExecuteConfigUpdate \/ CancelConfigUpdate(a)
    \/ proposals = <<>> /\ (SetStakingContract(a) \/ PauseGovernance(a))
    \/ UnpauseGovernance(a)

\* a stakes its tokens at the start; they may go to b, who keeps them staked.
HolderNext ==
    \/ /\ Weighing
       /\ \E u \in {a, b}, n \in StakeAmounts, period \in Periods :
             (u = a => now = 0) /\ Stake(u, n, period) /\ UNCHANGED govVars
    \/ (Unstake(a) \/ Claim(a) \/ StakingTick) /\ UNCHANGED govVars
    \/ \E n \in StakeAmounts : Pay(a, b, n)

GovernanceInit == Init /\ admin = a

GovernanceSpec == GovernanceInit /\ [][VotingNext \/ SwitchNext \/ HolderNext]_vars
=============================================================================
