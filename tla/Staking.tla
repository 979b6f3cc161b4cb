------------------------------- MODULE Staking -------------------------------
(***************************************************************************)
(* The staking contract (packages/staking) beside the token it holds.      *)
(* DataKey families indexed by an address are functions whose domain is    *)
(* the set of addresses that have an entry.  An entry point that returns   *)
(* Err, or whose token transfer is refused, changes nothing, so each one   *)
(* is an atomic action guarded by everything it needs to return Ok.        *)
(***************************************************************************)
EXTENDS Integers, Sequences, FiniteSets, FiniteSetsExt, Functions

CONSTANTS
    User, Pool,        \* token holders, and the staking contract's own account
    Month,             \* seconds of a staking month
    Unbonding,         \* UNBONDING_PERIOD_SECONDS
    MinStake,          \* MIN_STAKE_AMOUNT
    Notices,           \* slash notice periods that the admin sets
    DefaultNotice,     \* the notice period before the admin sets one
    StakeAmounts,      \* amounts that callers pass
    Periods,           \* staking periods that stakers choose
    Funds,             \* the tokens each user holds at the start
    MaxTime            \* last ledger timestamp

StakingPeriod == {1, 3, 6, 12}

ASSUME StakingAssumption ==
    /\ IsFiniteSet(User) /\ Pool \notin User
    /\ Month \in Nat \ {0} /\ {Unbonding, MinStake, DefaultNotice, MaxTime} \subseteq Nat
    /\ MinStake > 0
    /\ Notices \subseteq Nat /\ StakeAmounts \subseteq Int
    /\ Periods \subseteq StakingPeriod /\ Funds \in [User -> Nat]

VARIABLES
    admin,             \* Admin, replaced by update_admin
    stake,             \* Stake(u)
    unbonding,         \* Unbonding(u)
    total_staked,      \* TotalStaked
    staker_list,       \* StakerList
    slash_notice,      \* SlashNotice(u)
    notice_period,     \* SlashNoticePeriod
    staking_paused,
    tokens,            \* balances of the staked token
    now                \* ledger timestamp

positionVars == <<stake, total_staked, staker_list>>
noticeVars == <<slash_notice, notice_period>>
controlVars == <<admin, staking_paused>>
stakingVars == <<positionVars, unbonding, noticeVars, controlVars, tokens>>

\* A family of keys none of which has an entry.
Nothing == [key \in {} |-> 0]

InitStaking ==
    /\ admin \in User
    /\ stake = Nothing /\ unbonding = Nothing /\ slash_notice = Nothing
    /\ total_staked = 0 /\ staker_list = <<>>
    /\ notice_period = DefaultNotice
    /\ staking_paused = FALSE
    /\ tokens = [x \in User \cup {Pool} |-> IF x = Pool THEN 0 ELSE Funds[x]]
    /\ now = 0

-----------------------------------------------------------------------------
(* Helpers.  A definition named Mut... is a faulty form of the definition  *)
(* that follows it, with which a property must fail.                       *)

multiplier(period) == CASE period = 1 -> 1 [] period = 3 -> 2 [] period = 6 -> 3 [] period = 12 -> 5

Put(f, k, v) == [x \in DOMAIN f \cup {k} |-> IF x = k THEN v ELSE f[x]]
Drop(f, k) == Restrict(f, DOMAIN f \ {k})

\* The list is copied but for an element.
Without(list, u) ==
    LET copy[i \in 0..Len(list)] ==
            IF i = 0 THEN <<>>
            ELSE IF list[i] = u THEN copy[i - 1] ELSE Append(copy[i - 1], list[i])
    IN  copy[Len(list)]

\* A transfer, which the token contract refuses when the payer lacks the funds.
Transfer(from, to, amount) ==
    /\ 0 <= amount /\ amount <= tokens[from]
    /\ tokens' = [tokens EXCEPT ![from] = @ - amount, ![to] = @ + amount]

MutIsPeriodElapsed(deadline) == TRUE   \* the lock is not looked at
is_period_elapsed(deadline) == now >= deadline

\* The position after its principal changes: the multiplier stays, the power follows.
MutResized(pos, amount) == [pos EXCEPT !.voting_power = amount * multiplier(pos.period)]
Resized(pos, amount) ==
    [pos EXCEPT !.amount = amount, !.voting_power = amount * multiplier(pos.period)]

\* The start that gives the enlarged stake the time weight the old one had
\* gathered.  A negative stake (see ExecuteSlash) is cast to an unsigned number,
\* whose product saturates, and the start falls back to zero.
EffectiveStart(pos, amount) ==
    IF amount <= 0 THEN now
    ELSE IF pos.amount < 0 /\ now > pos.start_time THEN 0
    ELSE now - (pos.amount * (now - pos.start_time)) \div amount

MutTopped(pos, amount) == Resized(pos, amount)   \* the start is left as it was
Topped(pos, amount) == [Resized(pos, amount) EXCEPT !.start_time = EffectiveStart(pos, amount)]

\* slash caps at the stake; execute_slash does not.
SlashAmount(pos, shortfall) == IF shortfall >= pos.amount THEN pos.amount ELSE shortfall

get_voting_power(u) == IF u \in DOMAIN stake THEN stake[u].voting_power ELSE 0

\* Removing a position removes the registration that goes with it.
MutUnlisted(u) == stake' = stake /\ staker_list' = Without(staker_list, u)
MutStillListed(u) == stake' = Drop(stake, u) /\ staker_list' = staker_list
Deregister(u) == stake' = Drop(stake, u) /\ staker_list' = Without(staker_list, u)

-----------------------------------------------------------------------------
(* Stakers.                                                                *)

Stake(u, amount, period) ==
    /\ ~staking_paused
    /\ amount >= MinStake /\ period \in StakingPeriod
    /\ u \notin DOMAIN stake
    /\ Transfer(u, Pool, amount)
    /\ stake' = Put(stake, u, [amount |-> amount, period |-> period, start_time |-> now,
                               unlock_time |-> now + period * Month,
                               voting_power |-> amount * multiplier(period)])
    /\ total_staked' = total_staked + amount
    /\ staker_list' = Append(staker_list, u)
    /\ UNCHANGED <<unbonding, noticeVars, controlVars, now>>

TopUp(u, amount) ==
    /\ ~staking_paused
    /\ amount > 0
    /\ u \in DOMAIN stake /\ now <= stake[u].unlock_time
    /\ Transfer(u, Pool, amount)
    /\ stake' = [stake EXCEPT ![u] = Topped(@, @.amount + amount)]
    /\ total_staked' = total_staked + amount
    /\ UNCHANGED <<staker_list, unbonding, noticeVars, controlVars, now>>

\* An unbonding position that was not claimed yet is replaced.
Unstake(u) ==
    /\ ~staking_paused
    /\ u \in DOMAIN stake /\ is_period_elapsed(stake[u].unlock_time)
    /\ unbonding' = Put(unbonding, u, [amount |-> stake[u].amount,
                                       claimable_time |-> now + Unbonding])
    /\ Deregister(u)
    /\ total_staked' = total_staked - stake[u].amount
    /\ UNCHANGED <<noticeVars, controlVars, tokens, now>>

Claim(u) ==
    /\ ~staking_paused
    /\ u \in DOMAIN unbonding /\ is_period_elapsed(unbonding[u].claimable_time)
    /\ Transfer(Pool, u, unbonding[u].amount)
    /\ unbonding' = Drop(unbonding, u)
    /\ UNCHANGED <<positionVars, noticeVars, controlVars, now>>

-----------------------------------------------------------------------------
(* The admin.                                                              *)

Slash(a, u, shortfall) ==
    /\ ~staking_paused
    /\ a = admin
    /\ u \in DOMAIN stake /\ shortfall > 0
    /\ LET slashed == SlashAmount(stake[u], shortfall)
           rest == stake[u].amount - slashed
       IN  /\ IF rest = 0 THEN Deregister(u)
              ELSE stake' = [stake EXCEPT ![u] = Resized(@, rest)] /\ UNCHANGED staker_list
           /\ total_staked' = total_staked - slashed
    /\ UNCHANGED <<unbonding, noticeVars, controlVars, tokens, now>>

SetSlashNoticePeriod(a, seconds) ==
    /\ ~staking_paused
    /\ a = admin
    /\ notice_period' = seconds
    /\ UNCHANGED <<positionVars, unbonding, slash_notice, controlVars, tokens, now>>

CreateSlashNotice(a, u, amount) ==
    /\ ~staking_paused
    /\ a = admin
    /\ amount > 0
    /\ u \in DOMAIN stake /\ amount <= stake[u].amount
    /\ u \notin DOMAIN slash_notice
    /\ slash_notice' = Put(slash_notice, u, [amount |-> amount, until |-> now + notice_period])
    /\ UNCHANGED <<positionVars, unbonding, notice_period, controlVars, tokens, now>>

CancelSlash(a, u) ==
    /\ ~staking_paused
    /\ a = admin
    /\ u \in DOMAIN slash_notice /\ now < slash_notice[u].until
    /\ slash_notice' = Drop(slash_notice, u)
    /\ UNCHANGED <<positionVars, unbonding, notice_period, controlVars, tokens, now>>

\* The amount is the one noticed, whatever the stake is by now; a stake that is
\* emptied keeps its entry and its registration.
ExecuteSlash(a, u) ==
    /\ ~staking_paused
    /\ a = admin
    /\ u \in DOMAIN slash_notice /\ now >= slash_notice[u].until
    /\ u \in DOMAIN stake
    /\ LET slashed == slash_notice[u].amount
       IN  /\ stake' = [stake EXCEPT ![u] = Resized(@, @.amount - slashed)]
           /\ total_staked' = total_staked - slashed
    /\ slash_notice' = Drop(slash_notice, u)
    /\ UNCHANGED <<staker_list, unbonding, notice_period, controlVars, tokens, now>>

UpdateAdmin(a, successor) ==
    /\ ~staking_paused
    /\ a = admin
    /\ admin' = successor
    /\ UNCHANGED <<positionVars, unbonding, noticeVars, staking_paused, tokens, now>>

PauseStaking(a) ==
    /\ a = admin
    /\ staking_paused' = TRUE
    /\ UNCHANGED <<positionVars, unbonding, noticeVars, admin, tokens, now>>

UnpauseStaking(a) ==
    /\ a = admin
    /\ staking_paused' = FALSE
    /\ UNCHANGED <<positionVars, unbonding, noticeVars, admin, tokens, now>>

-----------------------------------------------------------------------------

\* Time passes.
StakingTick ==
    /\ now < MaxTime
    /\ now' = now + 1
    /\ UNCHANGED stakingVars

PositionNext(u) ==
    \/ \E amount \in StakeAmounts, period \in Periods : Stake(u, amount, period)
    \/ \E amount \in StakeAmounts : TopUp(u, amount)
    \/ Unstake(u) \/ Claim(u)

SlashNext(a) ==
    \/ \E u \in User, amount \in StakeAmounts :
          Slash(a, u, amount) \/ CreateSlashNotice(a, u, amount)
    \/ \E u \in User : CancelSlash(a, u) \/ ExecuteSlash(a, u)
    \/ \E seconds \in Notices : SetSlashNoticePeriod(a, seconds)

ControlNext(a) ==
    \/ \E successor \in User : UpdateAdmin(a, successor)
    \/ PauseStaking(a) \/ UnpauseStaking(a)

StakingNext ==
    \/ \E u \in User : PositionNext(u) \/ SlashNext(u) \/ ControlNext(u)
    \/ StakingTick

StakingSpec == InitStaking /\ [][StakingNext]_<<stakingVars, now>>

-----------------------------------------------------------------------------
(* Properties.                                                             *)

StakingTypeOK ==
    /\ admin \in User
    /\ DOMAIN stake \subseteq User /\ DOMAIN unbonding \subseteq User
    /\ DOMAIN slash_notice \subseteq User
    /\ \A u \in DOMAIN stake :
          stake[u] \in [amount : Int, period : StakingPeriod, start_time : Nat,
                        unlock_time : Nat, voting_power : Int]
    /\ \A u \in DOMAIN unbonding : unbonding[u] \in [amount : Int, claimable_time : Nat]
    /\ \A u \in DOMAIN slash_notice : slash_notice[u] \in [amount : Nat, until : Nat]
    /\ total_staked \in Int /\ staker_list \in Seq(User)
    /\ notice_period \in Nat /\ staking_paused \in BOOLEAN
    /\ tokens \in [User \cup {Pool} -> Nat] /\ now \in Nat

\* get_all_stakers returns every address with a stake, and each once, whichever
\* way its position was opened, emptied or closed.
StakersAreListed ==
    /\ {staker_list[i] : i \in DOMAIN staker_list} = DOMAIN stake
    /\ Len(staker_list) = Cardinality(DOMAIN stake)

StakeOf(u) == IF u \in DOMAIN stake THEN stake[u].amount ELSE 0
UnbondingOf(u) == IF u \in DOMAIN unbonding THEN unbonding[u].amount ELSE 0

\* TotalStaked, kept by increments, is the sum of the positions.
TotalIsSum == total_staked = SumFunctionOnSet([u \in User |-> StakeOf(u)], User)

\* Nobody is owed more than what it paid in and has not taken out, so that no staker's
\* claim is paid out of another's stake, and the contract's account covers what it owes
\* to all of them.  A slash by notice may turn a position negative, which is no claim of
\* the contract's on the staker and makes up for nothing that is owed.
Positive(n) == IF n > 0 THEN n ELSE 0
Owed(u) == Positive(StakeOf(u)) + Positive(UnbondingOf(u))
NobodyIsOwedMore ==
    /\ \A u \in User : Owed(u) <= Funds[u] - tokens[u]
    /\ SumFunctionOnSet([u \in User |-> Owed(u)], User) <= tokens[Pool]

\* What a top-up adds starts counting now: it moves the start so that the time
\* weight gathered so far stays the same, up to the rounding of one second.
Weight(pos) == pos.amount * (now - pos.start_time)
TopUpKeepsWeight ==
    [][\A u \in DOMAIN stake \cap DOMAIN stake' :
          0 <= stake[u].amount /\ stake[u].amount < stake'[u].amount =>
              /\ stake'[u].unlock_time = stake[u].unlock_time
              /\ Weight(stake'[u]) <= Weight(stake[u])
              /\ Weight(stake[u]) < Weight(stake'[u]) + stake'[u].amount]_<<stakingVars, now>>
=============================================================================
