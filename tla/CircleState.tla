---------------------------- MODULE CircleState ----------------------------
(***************************************************************************)
(* The storage of one circle contract (packages/circle): its parameters,   *)
(* its ledger entries and the helpers every entry point shares.  One       *)
(* VARIABLE stands for one DataKey of types.rs (or for a family of keys    *)
(* indexed by round or by member).  An entry point that returns Err rolls  *)
(* its whole invocation back, so an operation is one atomic action whose   *)
(* guard is the conjunction of everything that must hold for it to return  *)
(* Ok.                                                                     *)
(***************************************************************************)
EXTENDS Integers, Sequences, FiniteSets, FiniteSetsExt, Functions

CONSTANTS
    Address,             \* accounts outside the contract: members, organizer, admin
    Self, Treasury,      \* the circle's own account and the treasury contract
    NoOne,               \* an Option<Address> that is None
    Organizer, Admin,    \* members of Address
    Token, Token0,       \* token contracts, and the one named in CircleConfig
    \* --- CircleConfig ---
    ContributionAmount, MaxMembers, TotalRounds, PayoutType,
    Deadline,            \* contribution_deadline_seconds, 0 for none
    Grace,               \* grace_period_seconds
    Collateral,          \* collateral_amount
    PenaltyBps, MaxStrikes, MinDuration, MaxWithdrawal, DailyLimit,
    DaySeconds,          \* length of a withdrawal day (86400 in the code)
    \* --- inputs and bounds ---
    Wallet,              \* what every address holds of each token at the start
    Amounts,             \* amounts that callers pass
    FeeChoices,          \* values of fee_bps
    Bips,                \* discounts that bidders offer
    DutchConfigs,        \* arguments of init_dutch_auction
    MaxTime,             \* last ledger timestamp
    StrikeBound          \* no report or penalty beyond this many strikes

PayoutTypes == {"RANDOM", "FIXED", "AUCTION", "VOTE"}
CircleStatus == {"PENDING", "ACTIVE", "COMPLETED", "CANCELLED", "DISPUTED"}
MemberStatus == {"ACTIVE", "EXITED", "DEFAULTED"}
Account == Address \cup {Self, Treasury}

ASSUME AddressAssumption ==
    /\ IsFiniteSet(Address)
    /\ {Organizer, Admin} \subseteq Address
    /\ Self \notin Address /\ Treasury \notin Address /\ Self # Treasury
    /\ NoOne \notin Account
    /\ Token0 \in Token
ASSUME ConfigAssumption ==   \* what init accepts
    /\ ContributionAmount \in Nat
    /\ MaxMembers \in Nat /\ MaxMembers >= 2
    /\ TotalRounds \in Nat \ {0}
    /\ PayoutType \in PayoutTypes
    /\ {Deadline, Grace, Collateral, PenaltyBps, MaxStrikes} \subseteq Nat
    /\ {MinDuration, MaxWithdrawal, DailyLimit} \subseteq Nat
    /\ DaySeconds \in Nat \ {0}
ASSUME BoundAssumption ==
    /\ {Wallet, MaxTime, StrikeBound} \subseteq Nat
    /\ Amounts \subseteq Nat /\ Bips \subseteq 0..10000 /\ FeeChoices \subseteq 0..10000
    /\ DutchConfigs \subseteq [start_bips : Nat, floor_bips : Nat,
                               decay_bips_per_ledger : Nat, expiry_ledgers : Nat]

\* Every settled round pays a position that was unpaid, so no round beyond
\* MaxMembers is ever the current one (RoundsWithinPositions in Circle).
Rounds == 0..MaxMembers

VARIABLES
    circle,               \* Circle: the fields that change after construction
    members,              \* Members: Vec<Member>; the position of members[i] is i-1
    member_status,        \* MemberStatus(a), the O(1) copy of a member's status
    contributions,        \* Contributions, the log
    round_contributors,   \* RoundContributors(r)
    round_total,          \* RoundTotalContributed(r)
    member_contributed,   \* MemberContributed(a, r)
    round_strikes,        \* RoundStrikes(r)
    fee_ledger,           \* RoundFeeLedger(r)
    scheduled,            \* PayoutScheduled(r)
    bids,                 \* Bids: Vec<AuctionBid>
    auction_winner,       \* AuctionWinner(r)
    dutch,                \* DutchAuction(r), at most one configuration per round
    votes,                \* Votes
    dispute,              \* Dispute
    withdrawal,           \* WithdrawalDay and WithdrawalAmount
    referrals, streaks,   \* Referrals, Streaks
    fee_bps, treasury, allowlist, paused,   \* configuration set by admin or factory
    settled,              \* PayoutExecuted events of trigger_payout, one per round
    received,             \* total_received of each address
    balance,              \* token balances, per token contract and account
    now                   \* ledger timestamp; one ledger closes per unit

rosterVars  == <<members, member_status, round_strikes>>
roundVars   == <<contributions, round_contributors, round_total, member_contributed>>
payoutVars  == <<settled, received>>
auctionVars == <<bids, auction_winner, dutch, votes>>
configVars  == <<fee_bps, treasury, allowlist, paused>>
sideVars    == <<referrals, streaks, withdrawal>>
vars == <<circle, rosterVars, roundVars, fee_ledger, scheduled, payoutVars, auctionVars,
          dispute, configVars, sideVars, balance, now>>

-----------------------------------------------------------------------------
(* Helpers on the member list.  A definition named Mut... is a faulty form *)
(* of the definition that follows it, with which a property must fail.     *)

MemberAt(ms, a) == {i \in DOMAIN ms : ms[i].address = a}
IsMember(ms, a) == MemberAt(ms, a) # {}
ActiveIn(ms) == {i \in DOMAIN ms : ms[i].status = "ACTIVE"}
IsActiveMember(ms, a) == \E i \in ActiveIn(ms) : ms[i].address = a

NewMember(a) == [address |-> a, strikes |-> 0, status |-> "ACTIVE", total_contributions |-> 0]

MutPosition(i) == i   \* counted from one, like the sequence
Position(i) == i - 1
Unpaid(i) == Position(i) \notin circle.payout_bitmap

\* Active members that have not contributed in round r.
MutAwaiting(ms, r) == ActiveIn(ms)
MutNobodyAwaited(ms, r) == {}   \* a settlement waits for nobody
Awaiting(ms, r) == {i \in ActiveIn(ms) : ms[i].address \notin round_contributors[r]}

-----------------------------------------------------------------------------
(* The round in progress.                                                  *)

MutRunning == circle.status # "COMPLETED"
Running == circle.status = "ACTIVE"

\* contribute takes nothing for a round that is not the current one, or whose
\* payout has been scheduled, and nothing twice.
MutRoundOpen(r) == r >= circle.current_round /\ r \notin scheduled
RoundOpen(r) == r = circle.current_round /\ r \notin scheduled

MutHasContributed(m, r) == FALSE
HasContributed(m, r) == <<m, r>> \in member_contributed

-----------------------------------------------------------------------------
(* The contribution window.  Its basis is started_at for every round.      *)

RoundDeadline == circle.started_at + Deadline
ForfeitTime == RoundDeadline + Grace
WindowClosed == Deadline > 0 /\ now > ForfeitTime

\* contribute's own reading of the clock: TRUE on time, FALSE late.
OnTime == Deadline = 0 \/ now <= RoundDeadline
InWindow == OnTime \/ (Grace > 0 /\ now <= ForfeitTime)

-----------------------------------------------------------------------------
(* Token movements: the token contract panics, and so rolls the invocation *)
(* back, when the payer does not hold the amount.                          *)

Holds(a, amount) == amount <= balance[circle.token][a]

Moved(bal, from, to, amount) ==
    [bal EXCEPT ![circle.token][from] = @ - amount, ![circle.token][to] = @ + amount]

\* Self pays credit[a] to every account a; outflow is the sum of the credits.
PaidOut(bal, credit, outflow) ==
    [bal EXCEPT ![circle.token] =
        [a \in Account |-> IF a = Self THEN @[a] - outflow ELSE @[a] + credit[a]]]

Percentage(amount, bps) == (amount * bps) \div 10000

\* The late penalty or the payout fee that record_round_fee adds to round r.
MutFeeRecorded(r, payout_fee, penalty) ==   \* the payout overwrites the penalties
    [fee_ledger EXCEPT ![r].payout_fee = @ + payout_fee, ![r].late_penalty_fee = penalty]
FeeRecorded(r, payout_fee, penalty) ==
    [fee_ledger EXCEPT ![r].payout_fee = @ + payout_fee, ![r].late_penalty_fee = @ + penalty]

IsOperator(caller) == caller \in {Organizer, Admin}
=============================================================================
