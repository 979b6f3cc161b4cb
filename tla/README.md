# A TLA+ verification of the Moistello contracts

Moistello is a set of Soroban (Rust) contracts for rotating savings circles: the
members of a *circle* contribute a fixed amount each round, and each round's pool
goes to one member, until everybody has been paid once. This directory holds TLA+
modules that model the contracts, TLC configurations that check them on small
instances, and proofs that TLAPS checks for every instance.

## 1. Inventory

| Component | State it keeps | Operations | What makes it correct |
|---|---|---|---|
| Circle (`packages/circle`) | one `Circle` record; members; contribution log with the write-time caches of #406; per-round fee ledgers and strikes; bids, Dutch auctions, votes; a dispute; settings; withdrawal window; referrals and streaks | join, invite, contribute, settle (operator or sweep), bid, vote, exit, report, cancel, dispute, pause, configure, withdraw | one payout per member, pools match the log, strikes are earned, tokens are where the records say, rounds end |
| Circle factory (`packages/circle-factory`) | list and count of circles, canonical deployments, fee and protocol configuration, a rate limit and the deployments of each organizer in each period | init, init_with_config, set_*, deploy_circle (which configures the new circle), pause | no organizer above its limit; circles get the configuration in force |
| Governance (`packages/governance`) | proposals with tallies, votes, delegations, deposits, a pending configuration update | create, vote, delegate, finalize, execute, cancel, expire; queue, execute and cancel an update | one outcome per proposal, timelocks respected, a weight counted once, deposits settled once |
| Governance token (`packages/governance-token`) | balances, supply, allowances with an expiration, freezes, allowlist | transfer, approve, mint, four burns, freeze, claw back, restrict, pause | supply is the sum of the balances, frozen funds stay |
| Staking (`packages/staking`) | stakes, unbonding positions, slash notices | stake, top up, unstake, claim, slash, notices | tokens held cover stakes and unbondings |
| Treasury (`packages/treasury`) | recorded balance, deposit and withdrawal logs | init, deposit, withdraw, rescue, pause | the recorded balance is backed by tokens and by the logs |
| Escrow swap (`packages/escrow-swap`) | swap requests | create, accept, complete, cancel, pause | every open swap can be honoured |
| Reputation registry (`packages/reputation-registry`) | scores, a paged history of activities, and the library of `scoring.rs` | record, payments, completions, defaults, decay, pause | the history is read back whole, streaks are earned |
| Common (`packages/common`) | pause flag, reentrancy flag, VRF key, pending key, nonce, counter | pause, guard, evaluate, shuffle, rotate the key | no draw of a round is refused as a replay |

How they interact. A member signs a call to a circle; the circle calls the token
contract for every transfer, the treasury when it deposits a payout fee (late
penalties and forfeited collateral reach the treasury by plain transfers), an oracle
for a yield rate, and two libraries that keep their data in its own storage: the VRF
for a random recipient and `scoring.rs` for its members' scores. The factory calls
`configure_from_factory` of a circle in the transaction that deploys it, and so
decides the treasury that the circle pays and the fee it charges. Governance asks the
staking contract for the voting power of each voter inside the transaction that casts
the vote. The escrow holds and moves governance tokens like any other account, under
the freezes, the allowlist and the clawbacks of that token's administrator.

There are no threads. What is hard is the *order of calls*: anybody may call most
entry points at any time, so the settlement of a round, the sweep of its deadline,
late contributions, exits, refunds in batches, disputes and the operator's own
entry points interleave freely, across ledger times; in governance, votes,
delegations, stakes and token payments interleave, and so do the ways a proposal ends
and a configuration update that changes the rules on the way; the two parties of a swap
and the token's administrator act against one another; and an administrator may
initialize a factory or a treasury again in the middle of its life. A call that fails
rolls all its effects back, its callees' included. So an entry point is one atomic
action, the reentrancy flag can never be seen set, and "partial failure" means that
one refused transfer undoes a whole settlement, strikes and all.

## 2. Modules

| Module | Models | From |
|---|---|---|
| `CircleState` | the storage keys as variables, the member-list helpers, the contribution window, token movements | `types.rs`, `contract.rs` helpers, `common/math.rs` |
| `CircleMembers` | join, batch_invite, exit_circle, report_late, cancel_circle | `contract.rs` |
| `CircleRounds` | contribute, the four recipient resolvers, trigger_payout, check_contribution_deadline, schedule_payout, batch_payout | `contract.rs`, `payout.rs` |
| `CircleBids` | auction_bid, refund_losing_bids, init_dutch_auction, dutch_auction_bid, cancel_auction, vote_payout | `contract.rs` |
| `CircleAdmin` | raise_dispute, resolve_dispute, withdrawals, bonuses, referrals, streaks, pause, settings, configure_from_factory | `contract.rs`, `common/pause.rs` |
| `Circle` | `Init`, `Next`, `Spec`, every property, and the refinement mapping `Club` | |
| `Rosca` | the abstract savings club that a circle implements | what the circle promises |
| `Staking` | the staking contract and the token it holds | `staking/src/contract.rs`, `types.rs` |
| `Governance` | the governance contract, composed with `Staking`: votes read the stakes | `governance/src/contract.rs`, `types.rs` |
| `GovernanceToken` | the token with allowances, freezes, clawbacks and allowlist | `governance-token/src/contract.rs` |
| `EscrowSwap` | the swaps, composed with `GovernanceToken` and with a plain token | `escrow-swap/src/contract.rs`, `common/src/token_transfer.rs` |
| `CircleFactory` | the factory, its quota and the settings it pushes | `circle-factory/src/contract.rs` |
| `Treasury` | the treasury's books and what it holds of each token | `treasury/src/contract.rs` |
| `Reputation` | the registry's paged history, and `scoring.rs` | `reputation-registry/src` |
| `Vrf` | the draw of a round's positions, its nonces, the rotation of its key | `common/src/vrf.rs`, `circle/src/payout.rs` |
| `Clock` | the ledger time that `CircleFactory` and `Vrf` share | |
| `Platform` | the four above composed: circles that the factory pointed at the treasury pay it | |
| `CircleProofs`, `CircleRefinement`, `CircleFunds`, `TokenProofs`, `StakingProofs`, `GovernanceProofs`, `PlatformProofs` | theorems and their proofs | |
| `DataTheorems` | what the proofs need to know of sums, ranks and lists | |
| `MC...` | the instances that TLC checks | |

Each circle module EXTENDS the one before it, `Governance` EXTENDS `Staking` and
`EscrowSwap` EXTENDS `GovernanceToken`, whose steps they interleave with their own
(`Governance` also with payments between token holders). Every operation is one
action, named for the entry point; its guard is the conjunction of what must hold for
the call to return `Ok`, in the order of the code, and everything the call writes,
through whichever helper, is in the action. For instance `CheckContributionDeadline`
strikes the absent members (`strike_non_contributors`) *and* settles the round
(`trigger_payout_internal`) with the member list so updated; when the settlement
cannot happen the action is disabled, as the call is rolled back.

How state corresponds:

* a `DataKey` is a variable; keys indexed by round or address are functions of them;
* the 128-bit `payout_bitmap` is a set of positions, which are indices into `members`
  less one (nothing ever removes a member);
* `contributions` is a set: the order of the log is not used by anything modelled,
  and a member cannot be in it twice for a round and time;
* amounts are integers; the i128 overflow checks are out of the reach of any balance;
* in `Staking` and `Governance` the keys indexed by an address or a vote are functions
  whose domain is the set of entries that exist (`stake`, `unbonding`, `slash_notice`,
  `vote_records`, `delegation`); lists stay sequences where the code keeps lists;
* a map from addresses to booleans (`frozen`, `allowlist`) is the set of the addresses
  it maps to true; an allowance is a record of its amount and expiration ledger;
* a factory configuration stands for the circle address derived from it;
* the treasury's logs are kept as the totals of their entries (`deposited`,
  `withdrawn`);
* an activity page of the registry is a sequence, and `PageSize` its capacity;
* ledger sequence and timestamp advance together in `Tick`.

Variables that no contract stores, for the properties only: `settled` (the
`PayoutExecuted` events of settlements), `seized` (what the token's administrator took
from each account by clawback and by burn), `inits` (how often the factory was
initialized), `history` and `paid` (the activities and the payments that were
recorded). They are written and, but for bounds in MC modules, never read by an action.

The staking contract's cast of a negative stake to an unsigned number, which such a
stake can meet in `top_up`, is modelled by its outcome, a start of zero; `scoring.rs`
casts a volume in the same way, and there it is a large bonus, capped.

What is abstracted, and how: in the circle, the VRF's choice is any active unpaid
member (the code falls back to position order, so it always finds one if there is one;
the draw itself is `Vrf`, where a hash is any number); the address order that breaks
ties of votes is any order; health scores, configuration hashes, the payouts log, bonus
percentages and event texts are left out; scores are assumed to admit everybody
(`min_moi_score` 0); an oracle or treasury that fails makes a call fail, which the model
covers by the call not happening, except that progress (`CircleCompletes`) assumes they
do not fail. A swap's secret and its hash are the choice of who calls `accept_swap`: a
responder without the secret is one that does not call.

Definitions named `Mut...` are faulty forms of the definition after them (a dropped
guard, a missing update, an off-by-one). They are used by nothing: replacing the
right definition by the faulty one makes the property named in `PROJECT.json` fail,
which is how we know that the property depends on that line of the code.

## 3. Checks

`tlc -workers 2 -config X.cfg M`; the runs take from seconds to about half a minute
each. Deadlock checking is off for the circle because clock, rounds and wallets are
bounded and a finished circle stops.

| Run | Instance | Shows |
|---|---|---|
| `rotation` | FIXED, 3 members, 3 rounds, fees 0, 50 and 100%, collateral; joins, contributions, triggers, schedules, exits, cancellation | `OnePayoutPerMember`, `RoundsWithinPositions`, `CachesAgree`, `SettledRoundsAreClosed`, `EscrowCovers`, and that the circle implements `Rosca` (`IsRosca`) |
| `deadlines` | RANDOM, 3 members, 2 rounds, deadline and grace of one unit each, half-amount penalty, default at 2 strikes | `TypeOK`, `StrikesAreEarned`, `StatusCacheAgrees`, `FeeLedgerTotals`, `PayoutsReachMembers` |
| `auction` | AUCTION, 2 players, 2 rounds, English and Dutch, refunds by 1 or 2, cancellations | `WinnerKeepsTopBid`, `DutchClearsOnce`, `RefundsReturnDeposits` |
| `vote` | VOTE, 3 members, one of whom may exit | `WinnerKeepsTopTally` |
| `operator` | FIXED, 2 members, deadline; batch invitations and payouts, disputes and resolutions; or, in a circle that waits for its second member, settings, switches, referrals, streaks, and withdrawals of at most 2 per call and 3 per day | `StreaksBounded`, `WithdrawalsWithinLimit`, `DisputeFreezesRounds`, `PaidPositionsReceiveNoMore`, `PauseFreezes` |
| `completion` | RANDOM, 2 members, no penalty; fairness | `CircleCompletes` |
| `staking` | two stakers with 3 tokens each, either of them admin; stakes of one and three months (of one unit), unbonding of one unit, slash notices of 0 and 1 | `StakersAreListed`, `TotalIsSum`, `NobodyIsOwedMore`, `TopUpKeepsWeight` |
| `governance` | one proposal, three voters, one stake's worth of tokens, two configurations | `TypeOK`, `DelegationsAgree`, `TalliesAreSums`, `IndexAgrees`, `VotesBackedByTokens`, `ExecutionIsReviewed`, `VotesStand` |
| `escrow` | two parties, one of them the token's administrator; supply of 3, two swaps of either token for either | `SupplyIsSum`, `EscrowCoversSwaps`, `FrozenFundsStay` |
| `platform` | two organizers and five configurations, limits 0 to 2 in periods of 0 and 2; two tokens in the treasury; pages of two activities, two circles and four rounds; two places and four draws | `QuotaHolds`, `BookIsBacked`, `HistoryIsWhole`, `StreaksAreEarned`, `RoundsCanBeDrawn` |
| `late_stall` (violated) | `completion` with a penalty | see section 5 |
| `empty_refund` (violated) | the disputes of `operator` | see section 5 |

Bounds of the circle. `MaxTime` ends the clock one or two units after the last window
closes, so that every order of a call and a window's end happens; the sweeps of all
rounds are possible within it because all windows share one deadline (the code bases it
on `started_at`). `StrikeBound` only stops `ReportLate` and the penalty from counting on
for ever after a member has passed `MaxStrikes`. Two or three members and two or three
rounds are enough for a member to be paid before, at and after another's exit,
default, bid or vote, and for a round to follow a swept one; four accounts (the
organizer outside the circle) let non-members act. `Wallet` lets every member
contribute and bid in every round, and at 4 also run out of tokens. The runs use
parts of `Next` (`RotationNext`, `DeadlineNext`, ...), each of which implies it, to keep
the state spaces small; every action of `Next` is in at least one of them, and the
theorems are about `Next` itself. In `rotation`, `deadlines` and `vote` only members
exit: the code pays collateral to an address that never joined, and `EscrowCovers`
could not hold with that. In `auction` the clock runs while a Dutch auction does, as
nothing else of a circle without a deadline reads it; in `vote` one member leaves, and a
round is paid in before it is voted on, as votes and contributions do not read one
another. `operator` has two stories: the settings change in a circle that waits for
its second member, or the circle goes on with its first settings and is disputed,
invited to, swept and paid. Symmetry is used over players in runs of safety properties
only.

Bounds of staking and governance. In `staking`, two units are enough to stake, unstake,
stake again, and unstake again before the first claim, with a slash notice running all
the while. In `governance`, the voting period is 0 or 1 and the timelock 1 or 2, so that
by time 4 a proposal can be queued, executed or expired under either configuration; the
unbonding period (2) is longer than both voting periods, which is what
`VotesBackedByTokens` needs and what the contracts do not enforce: with a voting period
of at least the 14 days of unbonding, tokens that voted could be claimed, paid to
somebody else, staked and vote again. All tokens are one minimal stake, so two votes of
it are one too many; three voters are the fewest with which a delegation could be
chained. One proposal at a time is enough for the tallies and the deadlines, which share
nothing between proposals. Two stories share the first steps. In the first, governance
does not know the staking contract, every vote weighs one, and delegations and
configurations change (`Counting`); in the second it does, and stakes and tokens change
hands (`Weighing`). `TypeOK` of this run includes the types of the staking contract.

Bounds of the token and the escrow. A supply of 3 in amounts of 1 and 2 allows partial
transfers, allowances used up in parts, and a balance that covers one of two swaps; a
swap can be of a token for itself, which is the case in which the deposits of two swaps
are of one token. After the mints nobody swaps, and the token's lists, switches,
allowances and burns change; or the tokens are swapped while the administrator freezes
a party or the escrow and takes from either. An allowance can expire at ledger 1, or
never.

Bounds of the platform. Each contract has a story of its own while the others stay as
they began; the treasury's starts once a circle that pays it has been deployed. At most
one further initialization happens to the factory, and rate limits of 1 and 2 meet three
configurations of one organizer. Five activities fill two pages of two and begin a third,
and they are read back in requests of every size; in the real registry a page holds more,
and `HistoryIsWhole` depends on it through quotient and remainder only. Circles report
rounds in order, and each once for a member, because a circle's current round only
grows and takes one contribution of each. A stride of 3 between the first nonces of two
rounds (1000 in the code) is above the two places, and that is what the assumption
`Places <= Stride` says for every instance; draws and settlements without a draw
alternate in every way.

Fairness. `FairSpec` asks for weak fairness of `Tick` (ledgers close) and of the sweep.
The sweep needs no authorization and the project's documents expect a keeper to call
it; nobody else has to do anything. No other module states liveness: their contracts
wait for somebody's call and promise nothing when nobody calls.

## 4. Proofs

Eight modules hold theorems; `tlapm M.tla` checks each. They hold for every value of the
constants that the modules' named assumptions admit, and for the whole specification,
not for the parts of it that the runs use. A theorem whose property the whole
specification does not have names, as a hypothesis on the behaviour, the calls that must
not happen or how they must be ordered; the table says which.

| Theorem | Module | States |
|---|---|---|
| `RotationInvariant` | `CircleProofs` | `Spec => []IInv` |
| `RotationTypeCorrect` | `CircleProofs` | the rotation's variables keep their types |
| `OneRotationPayout` | `CircleProofs` | `OnePayoutPerMember` |
| `RoundsAreBounded` | `CircleProofs` | `RoundsWithinPositions` |
| `PausedCircleIsFrozen` | `CircleProofs` | `PauseFreezes` |
| `DisputedCircleStandsStill` | `CircleProofs` | `DisputeFreezesRounds` |
| `StreaksStayBounded` | `CircleProofs` | `StreaksBounded` |
| `TopTallyStands` | `CircleProofs` | `WinnerKeepsTopTally` |
| `WinnersKeepTopBids` | `CircleProofs` | `WinnerKeepsTopBid` |
| `DutchAuctionsClearOnce` | `CircleProofs` | `DutchClearsOnce` |
| `CircleImplementsRosca` | `CircleRefinement` | `IsRosca`: the circle implements the savings club |
| `CachesAlwaysAgree` | `CircleRefinement` | `CachesAgree` |
| `SettledRoundsStayClosed` | `CircleRefinement` | `SettledRoundsAreClosed` |
| `StrikesAreAlwaysEarned` | `CircleRefinement` | `StrikesAreEarned` |
| `FeesAddUp` | `CircleRefinement` | `FeeLedgerTotals` |
| `PaidMembersReceiveNoMore` | `CircleRefinement` | `PaidPositionsReceiveNoMore` |
| `ClubRoundsAreWinners`, `RoundsAreWinners` | `CircleRefinement` | a club has had as many rounds as winners, all of them enrolled; so has a circle |
| `TypesAreCorrect` | `CircleFunds` | `TypeOK` of the circle: no account is ever overdrawn |
| `StatusesAgree` | `CircleFunds` | `StatusCacheAgrees`, if no dispute is resolved by a penalty |
| `PayoutsAreReceived` | `CircleFunds` | `PayoutsReachMembers`, if no batch is paid |
| `WithdrawalsStayWithinLimit` | `CircleFunds` | `WithdrawalsWithinLimit`, if there is a daily limit and nothing but withdrawals pays the operators |
| `EscrowIsCovered` | `CircleFunds` | `EscrowCovers`, but for the ten calls of `Leaks` |
| `DepositsComeBack` | `CircleFunds` | `RefundsReturnDeposits`, if tokens move for bids, contributions and settlements only |
| `StakingTypeCorrect` | `StakingProofs` | the staking contract's variables keep their types |
| `ListIsComplete` | `StakingProofs` | `StakersAreListed` |
| `TotalIsTheSum` | `StakingProofs` | `TotalIsSum` |
| `ClaimsAreCovered` | `StakingProofs` | `NobodyIsOwedMore` |
| `TopUpsAreFair` | `StakingProofs` | `TopUpKeepsWeight` |
| `GovernanceTypeCorrect` | `GovernanceProofs` | `TypeOK` of governance and staking together |
| `DelegationsAlwaysAgree` | `GovernanceProofs` | `DelegationsAgree` |
| `TalliesAreAlwaysSums` | `GovernanceProofs` | `TalliesAreSums` |
| `IndexAlwaysAgrees` | `GovernanceProofs` | `IndexAgrees` |
| `ExecutionsAreReviewed` | `GovernanceProofs` | `ExecutionIsReviewed` |
| `VotesAlwaysStand` | `GovernanceProofs` | `VotesStand` |
| `VotesAreBacked` | `GovernanceProofs` | `VotesBackedByTokens`, if votes end before what is unstaked meanwhile can be claimed |
| `ClaimsStayCovered` | `GovernanceProofs` | the staking contract holds what it owes, also when governance and payments of others interleave with it |
| `TokenTypeCorrect` | `TokenProofs` | balances, allowances and lists keep their types; no balance is negative |
| `FrozenFundsAreSafe` | `TokenProofs` | `FrozenFundsStay` |
| `SupplyIsBacked` | `TokenProofs` | `SupplyIsSum` |
| `SwapsAreCovered` | `TokenProofs` | `EscrowCoversSwaps` |
| `SwapsKeepTheSupply`, `SwapsKeepFrozenFunds` | `TokenProofs` | `SupplyIsSum` and `FrozenFundsStay` when swaps move tokens too |
| `TreasuryBookIsBacked` | `PlatformProofs` | `BookIsBacked` |
| `EveryRoundCanBeDrawn` | `PlatformProofs` | `RoundsCanBeDrawn` |
| `QuotasHold` | `PlatformProofs` | `QuotaHolds` |
| `HistoriesAreWhole` | `PlatformProofs` | `HistoryIsWhole` |
| `StreaksStandForPayments` | `PlatformProofs` | `StreaksAreEarned`, if payments are reported in order |

Sums and lists. Many of these properties are about a sum over all accounts, or a list
put together from pages. The induction theorems of the library take a predicate as
parameter, which the provers cannot instantiate; `DataTheorems` states induction with
*sets* instead of predicates: a non-empty set of naturals has a least element
(`LeastNatural`, from the well-foundedness of `<`), a set with zero and all successors is
`Nat` (`NaturalInduction`), a set of subsets that contains each one whose smaller parts
it contains has the whole (`SubsetInduction`). A sum over a finite set is, in the library,
a recursive function chosen to fit its equation: that the equation determines it
(`AddsAgree`), and that the element taken out first is of no consequence (`SumStep`), are
proved by these inductions, and everything else follows: what a sum does when one summand
changes or two exchange an amount (`SumOfChange`, `SumOfExchange`), when an element is
added or removed, that it is monotonic, over a union, over pairs and over the parts of a
partition, of sums and of multiples, and under a renaming of its index set (`SumOfRenamed`,
which the removal of bids from the middle of the list needs). `SharesFit` says that parts
of an amount in proportion to weights, each rounded down, add up to no more than it. In the same way, `PiecesFlatten` says that the consecutive pieces of a list put together are the list, and
`RanksNumberTheSet` that counting the members of a finite set of indices in their order
gives each of 1..n to one of them, which is what `SelectSeq`-like removals of bids need.

The circle. `OnePayoutPerMember` is not inductive: that a recipient is new follows from
its position being unmarked in the bitmap, hence from every earlier recipient's position
being marked, hence from positions belonging to distinct addresses. `IInv` says
exactly that, in named parts: `RotationTypeOK`; the fee in 0..10000 (without it a pool
could net to more than it holds); `Roster` (addresses in `members` are distinct,
`member_count` is the length, the length is at most `MaxMembers`); `Settlements`
(`settled` has `current_round` entries, entry k is for round k-1, its recipient is a
member whose position is marked, recipients are distinct); `Bitmap` (marked positions
are those of members, and at least `current_round` of them are marked). Most
operations leave all of this alone but for strikes, statuses and settings: they are
"standing" steps, and `StandingStepKeepsIInv`, over the tuple `rotation`, covers them.
`EnrollmentKeepsIInv` treats a growing roster, `ContributeKeepsIInv` a contribution,
`SettleKeepsIInv` a settlement and `BatchPayoutKeepsIInv` a batch payout. The constants
are any that `ConfigAssumption` admits (it lists what `init` accepts).

`PausedCircleIsFrozen` goes action by action: each of the entry points but Pause and
Unpause has `~paused` among its guards, whatever else it does.

The implementation of `Rosca`. The mapping `Club` takes the roster to the addresses in
`members`, standing to the active ones, the pots to `round_contributors`, the winners to
the recipients in `settled`. The proof needs more than `IInv`: `contribute` finds its
caller in `MemberStatus` and `MemberContributed` only, so that what it accepts is a
payment of the club only if those constant-time copies (#406) agree with the lists:
`Copies`. `RInv` is `IInv` and `Copies`. Operations that keep addresses, pots and
settlements map to a change of standing (`KeepingIsRestand`), which also covers the
default of the absent in a sweep up to the award that ends it; joins and batches of
invitations to an enrolment, a contribution to a payment, a settlement to an award. That
an address which is `ACTIVE` in `MemberStatus` is also active in `Members` is not needed,
and would not hold: see section 5.

The rest of the circle has a small invariant for each concern, over `IInv` or `RInv`.

* *Disputes.* `DisputeFreezesRounds` needs no invariant beyond the types: every entry
  point that moves a round, `report_late` included, asks for the status ACTIVE, and the
  others (`update_streak`, exits, settings) do not move it; one lemma per group of
  operations (`MemberNextFrame`, `BidNextFrame`, `AdminNextFrame`) says what the group
  leaves alone.
* *Streaks.* `StreaksBounded` is not inductive: were a record empty, a streak begun anew
  would exceed it. `StreakInv` adds that a record is at least one.
* *Votes.* `VoteInv` adds that a circle of another type has no votes, which settlements
  without a vote need.
* *Auctions.* `AuctionInv` joins both properties and the types, in which two facts do the
  work: winners are those of *past* rounds, so that a bid, which is for the round in
  progress, beats none of them; and a Dutch auction's prices are discounts and it has
  begun, so that the price it clears at lies in its range. Refunds and cancellations remove
  bids from the middle of the list; `RanksNumberTheSet` shows that the bids that remain
  are those of before, each at one place.
* *Books.* `CachesAgree` relates the totals of a round to the log, whose entries are
  records that also carry the time: it is preserved only if a member is never in the log
  twice for one round (`LogOK`), which the cache that `contribute` reads says, and the
  cache is right because of the log: the two are one invariant, `BooksInv`. That a settled
  round keeps its pool needs also that no round ahead has one, and that the log is finite.
* *Strikes.* Only members are struck, because the sweep goes through the list and a
  report is for a contributor, who is a member by `BooksInv` and `RInv`; that the members
  stay members is taken from the refinement: the club's roster only grows (`MembersStay`).
* *Fees.* `FeeInv` adds the types of the ledgers: a recording adds what it adds to
  `total_fees` to one round's entry, so to the sum over all rounds, however many.
* *Payouts.* Outside time-weighted circles a settlement gives to its recipient, all else
  being a share of zero, and the recipient's position was not marked; a batch checks
  the same bitmap for each member that it pays, and a member is at one position (`Roster`).

Proving about sums over rounds and addresses needs that there are finitely many of them:
`AddressAssumption` says so of `Address`, which stands for the accounts there are.

The circle's tokens (`CircleFunds`). Every operation that moves tokens is described once,
by `Flows`: what each address and the circle's own account gain, in the token the circle
uses, while the other tokens stay where they are. One lemma per operation
(`JoinFlows`, ..., `BatchPayoutFlows`) says so, and that all balances stay natural numbers; for
a settlement this is `SettlementDivides`, which rests on the pool being divided without
excess: the fee is at most the pool, and the time-weighted shares, each rounded down, and
the remainder that the recipient gets add up to what is left (`PoolIsDivided`). `Ledger` is
the invariant they need, that of the rotation with the books, the auction's types and the
entries of all other keys; with the records of the earlier proofs it is `TypeOK`.

* *Standings.* `StandingsOK` is all that `StatusCacheAgrees` needs; each operation writes
  both copies of a status alike, except for PENALIZE, which writes one.
* *Payouts.* `PayoutInv` says with sums over sets what `PayoutsReachMembers` says: what all
  addresses received is `total_payouts`, which is the sum over `settled`. A step that
  settles nothing is `Payless`; a settlement adds the same net amount on both sides.
* *Withdrawals.* `WithdrawalInv` bounds what the operators have by the limit times the
  days that are *over* and what was withdrawn on the day of the last withdrawal; the day
  of the entry is never ahead of the clock, so that a new day begins with the whole limit.
* *Escrow.* `EscrowInv` strengthens `EscrowCovers` to `Own >= Pooled - PaidIn + Deposited +
  HeldIn`: the contributions, less what settlements took from them, the deposits of all
  listed bids, and one collateral for each active member until the circle is completed.
  Deposits have to be counted, since refunds of bids come from the same account, and a
  cancelled circle that is disputed as well, since a later resolution resumes it. A step
  that neither contributes nor settles is `Quiet` and keeps the bound if own tokens change
  by no less than deposits and collateral held (`QuietKeepsEscrow`); a settlement pays as
  much as `PaidIn` grows by, and the last one the collateral (`SettlementKeepsEscrow`).
  The hypothesis is that none of the calls of `Leaks` happens: an exit of an address that
  is no member; an invitation when there is a collateral, which the invited do not pay; a
  late contribution whose penalty leaves for the treasury (section 5); the cancellation of
  an auction that a bid without a deposit leads; a resolution after completion, which
  makes the circle hold collateral again that it has paid back; a penalty on one who is
  not an active member; a bonus; a change of token; a withdrawal; a batch payout. Each
  of the ten is needed: with the other nine excluded, TLC finds a violation for it within
  a few steps on two members and two rounds.
* *Deposits.* `DepositsComeBack` has no invariant of its own beside the token's: the lemmas
  on lists say what removing a batch and appending a bid do to one bidder's deposits, and
  `Flows` says the same of that bidder's tokens. A cancellation with bids changes the bids
  of the round in progress, and one without moves nothing (`CancelAuctionGivesBack`).

Staking. The total is the sum of the stakes, entries and list have the same users: these
(`TotalIsSum`, `ListOK`) and the types (`PositionOK`, `AccountsOK`) are `BooksOK`, in which
a stake may be any integer, as notices make it negative. Every operation on a position
opens, resizes or closes one (`Opens`, ...), each of which keeps list, total and entries
in step. `NobodyIsOwedMore` is two facts, each inductive over `BooksOK`: what each user is
owed is within what that user paid in (`OwedWithinPaid`), and the sum of what is owed to
all is within the tokens the contract holds (`PoolCovers`, preserved because a step
changes what one user is owed by no more than the tokens it moves). The second is also
proved of governance's specification, where users pay one another. `TopUpsAreFair` is an
argument about the rounding of one division (`Division`).

Governance. `GovernanceInv` is one invariant for all properties, as ballots, delegations
and deadlines hold one another up: the staking contract's `BooksOK` and `PoolCovers`;
types in which a configuration in force is the first one or was queued (`SettingOK`) and
vote records belong to proposals there are (`BallotOK`); `IndexAgrees`; `TalliesAreSums`,
with sums over the set of records there are, to which a ballot with delegations adds
several at once; `ReviewsHeld`, that a *queued* proposal passed quorum and threshold under
one of the configurations (execution looks at the timelock only, so that the property of
executed proposals rests on it); `DelegationsAgree`. `VotesStand` and `ExecutionIsReviewed`
are action properties that follow from it.

`VotesBackedByTokens` would need a token to be followed through its holders. The proof
counts instead: what the votes recorded for a proposal weigh, together with the largest
weight of all that can still be staked before its vote ends, is at most what all tokens
could weigh (`Backed`). What a user can still stake is the tokens at hand, what an
unbonding releases before the end of the vote, and, unless the user has voted, the stake.
A vote moves weight from what can be staked to what is recorded; a payment moves it
between users; staking, unstaking and slashing only lower it, because what is unstaked
while a vote runs is released after it. After the vote the recorded weights stand. Beside
`GovernanceInv` this takes that the powers in the stakes are those of their amounts and
periods (`PowersFollow`), that no tokens are made or lost (`Conserved`) and that a vote
ends within the unbonding period from now (`VotesEndInTime`). The hypothesis of the
theorem, `Weighable`, is that every configuration's voting period is below the unbonding
period, and that a stake weighs more than the one of a vote without stakes: the code's
are 14 days (`staking/src/types.rs:53`) against 7 in governance's tests
(`governance/src/test.rs:18`), with a minimal stake of many units. The contracts do not
check the former: with longer votes the property is false.

The token. `TokenTypeOK` is inductive as it stands, in three parts (`BooksOK`,
`ListsOK`, `AllowancesOK`) that each group of operations keeps; the lemmas
`TransferMoves` and `BurnTakes` say what a movement does to the books, and the same case
analysis shows that the account of a frozen holder is left alone (one lemma per group).
The supply follows from what these lemmas say of one or two balances by `SumOfChange` and
`SumOfExchange`.

The escrow. `EscrowInv` adds to `EscrowCoversSwaps` that allowances are given by users
only (`OwnersApprove`): the escrow's own account approves nobody, so that no
`transfer_from` or `burn_from` can take the deposits; what the administrator takes is
counted in `seized`. The deposits of the open swaps are a sum over the list of swaps.

The platform. `BookIsBacked` is inductive with the types of the treasury's variables
(`TreasuryInv`): a deposit adds to both sides, a plain transfer to the tokens held only, a
rescue of the treasury's token takes from both, an initialization starts the recorded
balance from nothing. Depositors are circles, accounts other than the treasury's own.
`RoundsCanBeDrawn` is strengthened to `DrawInv`, the same beyond the last round: the
nonces used are below the first of the round to come, because a draw uses as many as
there are places and the stride is not below that. `QuotaHolds` needs that the stored
counter of a period *is* the number of the organizer's deployments in it, under the one
initialization that the property speaks of (`QuotaCounted`). `HistoryIsWhole` follows from
`HistoryInv`: a book is the pages of the history, all full but for the last (`IsPaged`);
that every reading of it in requests of any size returns the history is `PiecesFlatten`,
first for the pages in a request and then for the requests. `StreaksAreEarned` is proved
for behaviours in which payments are reported in order (`ReportsInOrder` is a hypothesis of
the theorem): the registry accepts reports in any order, and circles make them in order.

Only model-checked, and why: `CircleCompletes`, as liveness is out of the prover's reach,
and the two expected violations. All invariants and action properties of the passing
runs are theorems, under the hypotheses that the table names.

## 5. Where the code differs from what it says

Two runs are expected to find a violation, of a statement quoted from the code:

* `late_stall`: `contribute` sends a late penalty from the circle to the treasury but
  adds the whole amount to the round's pool, so the settlement wants more than the
  circle holds and fails at every attempt. `contract.rs:446-449` says that a circle
  "cannot stall" and "pays out the smaller real pool instead of over-drawing".
* `empty_refund`: the REFUND resolution pays back `Member.total_contributions`, which
  is never increased (`contract.rs:2040`).

Met while modelling, modelled as the code has it, without a run of their own:

In the circle: the PENALIZE resolution marks the member DEFAULTED in `Members` only
(`contract.rs:2027`), while `contribute` reads `MemberStatus` and still lets it in, although
`contract.rs:519` says otherwise; a FIXED circle whose absent member defaults in the sweep
cannot settle that member's turn (`payout.rs:71`); `report_late` adds two strikes and can
be repeated (`contract.rs:1780`); a late penalty is counted in `total_fees` beside a pool
that is paid in full, against the conservation that `test_invariants.rs:33` states; a member
may exit, and a resolved dispute be resolved again, while `contract.rs:1896` and `:1953`
say otherwise; the *highest* discount wins an auction (`README.md:48` says the lowest);
`cancel_auction` keeps the deposits of all bidders but one.

In staking: unstaking again before claiming replaces the unbonding entry, and the tokens
of the replaced one stay in the contract (`staking/src/contract.rs:178`); a slash notice
survives slashes without notice and the stake it was made for, and `execute_slash` does
not compare its amount with the stake again, so that a stake and its voting power may
become negative, where `staking/README.md:66` caps a slash at the stake; a stake emptied
by a notice keeps its entry, one emptied by `slash` loses it; slashed tokens stay in the
contract. In governance: a vote of weight zero is recorded and does not stop
`cancel_proposal`, which its comment (`governance/src/contract.rs:497`) allows only before
any vote; the expiry of a queued proposal announces the refund that its finalization
announced already; a delegator whose delegate voted before the delegation has no way
to vote but to revoke it.

In the token and the escrow: either party may cancel a swap that has been accepted, also
after the time lock (`escrow-swap/src/contract.rs:323`); a freeze of one party, or of the
escrow, blocks completion and cancellation alike until it is lifted, as both pay both
parties; a clawback from the escrow leaves open swaps without cover, which
`EscrowCoversSwaps` counts through `seized`.

In the factory: the reputation registry is set only after a circle's construction, so that
the limits by tier that the constructor documents (`circle/src/contract.rs:32-33`) never
apply to deployments; a second `init` resets the count of circles but neither their list
nor the quotas, and may part the fee of `FeeConfig` from that of `FactoryConfig`. In the
treasury: late penalties and forfeited collateral come in by plain transfers that nothing
records, and so can neither be withdrawn nor, in the treasury's own token, rescued; a
rescue is not logged; a second `init` starts the recorded balance afresh beside the tokens
held.

In the registry: its README says that circle payouts feed its scores
(`reputation-registry/README.md:3`), but circles call `scoring.rs` as a library, which
writes the circle's own storage, so that the registry's scores never change by it; a
payment of round 0 looks like no payment at all, so that missing round 1 does not end a
streak; the registry's tiers begin at 200, 400, 600 and 800 and those of `scoring.rs` one
above; decay can be applied again for the same inactivity; a recorded default adds its
impact to the score. In the VRF: `shuffle_positions` is said to give a "random
permutation" (`common/src/vrf.rs:363`), but positions are drawn independently and may
repeat, so that the circle needs its fallback.

## 6. Not modelled

* The yield oracle and its cache (`circle/src/oracle.rs`): the rate is only announced; its
  failure is a call that does not happen.
* The common helpers: the reentrancy flag (steps are atomic), entry lifetimes (an archived
  entry is restored before it is used), the upgrade entry point, explorer links.
* The circle's views, health score, configuration hash and payouts log, `set_oracle`,
  `set_fallback_oracle` and `set_reputation_registry`: no modelled step reads what they
  write.
* `verify_vrf`, token metadata, the member log of `scoring.rs` and all reads and events of
  the other contracts, except the paged history of activities.
* `src/circle.rs`, `scripts` and `pkg`: a prototype outside the workspace and tooling.
* The call that an executed proposal carries, and the plain tokens: external, modelled by
  how the contracts use them.

What could come next: the views and the health score of the circle as pure functions, and
the factory composed with more than the settings of the circles it deploys.
