------------------------------- MODULE Circle -------------------------------
(***************************************************************************)
(* The circle contract as a whole: its initial states, its next-state      *)
(* relation, and the properties of the rotation.                           *)
(***************************************************************************)
EXTENDS CircleAdmin

NoFees == [payout_fee |-> 0, late_penalty_fee |-> 0]

\* A circle is deployed on its own, or by the factory, which pushes the treasury
\* and the fee in the transaction that deploys it.
Init ==
    /\ circle = [status |-> "PENDING", current_round |-> 0, started_at |-> 0,
                 member_count |-> 0, payout_bitmap |-> {}, total_payouts |-> 0,
                 total_fees |-> 0, token |-> Token0]
    /\ members = << >>
    /\ member_status = [a \in Address |-> "NONE"]
    /\ contributions = {}
    /\ round_contributors = [r \in Rounds |-> {}]
    /\ round_total = [r \in Rounds |-> 0]
    /\ member_contributed = {}
    /\ round_strikes = [r \in Rounds |-> [a \in Address |-> 0]]
    /\ fee_ledger = [r \in Rounds |-> NoFees]
    /\ scheduled = {}
    /\ bids = << >>
    /\ auction_winner = [r \in Rounds |-> NoOne]
    /\ dutch = [r \in Rounds |-> {}]
    /\ votes = {}
    /\ dispute = {}
    /\ withdrawal = [day |-> 0, amount |-> 0]
    /\ referrals = {}
    /\ streaks = [a \in Address |-> {}]
    /\ \/ treasury = NoOne /\ fee_bps = 0
       \/ treasury = Treasury /\ fee_bps \in FeeChoices
    /\ allowlist = {}
    /\ paused = FALSE
    /\ settled = << >>
    /\ received = [a \in Address |-> 0]
    /\ balance = [t \in Token |-> [a \in Account |-> IF a \in Address THEN Wallet ELSE 0]]
    /\ now = 0

\* The clock is the ledger's; it stops at the bound MaxTime.
Tick ==
    /\ now < MaxTime
    /\ now' = now + 1
    /\ UNCHANGED <<circle, rosterVars, roundVars, fee_ledger, scheduled, payoutVars, auctionVars,
                   dispute, configVars, sideVars, balance>>

-----------------------------------------------------------------------------

Invitations == {<<a>> : a \in Address} \cup {<<a, b>> : a, b \in Address}
BatchesOf(S) == {<<a>> : a \in S} \cup {<<a, b>> : a, b \in S}

MemberNext ==
    \/ \E m \in Address : Join(m) \/ Exit(m) \/ CancelCircle(m)
    \/ \E m \in Address, invited \in Invitations : BatchInvite(m, invited)
    \/ \E m \in Address, r \in Rounds : ReportLate(m, r)

RoundNext ==
    \/ \E m \in Address, amount \in Amounts, r \in Rounds : Contribute(m, amount, r)
    \/ \E m \in Address, r \in Rounds : TriggerPayout(m, r) \/ SchedulePayout(m, r)
    \/ \E r \in Rounds : CheckContributionDeadline(r)
    \/ \E m \in Address, r \in Rounds :
          \E recipients \in BatchesOf(Address), amounts \in BatchesOf(Amounts) :
             BatchPayout(m, recipients, amounts, r)

BidNext ==
    \/ \E a \in Address, bips \in Bips, r \in Rounds : PlaceBid(a, bips, r)
    \/ \E r \in Rounds, limit \in 1..2 : RefundLosingBids(r, limit)
    \/ \E a \in Address, r \in Rounds, config \in DutchConfigs : InitDutchAuction(a, r, config)
    \/ \E a \in Address, r \in Rounds : DutchAuctionBid(a, r)
    \/ \E a \in Address : CancelAuction(a)
    \/ \E a, b \in Address, r \in Rounds : VotePayout(a, b, r)

AdminNext ==
    \/ \E a \in Address : RaiseDispute(a) \/ ClaimBonus(a) \/ Pause(a) \/ Unpause(a)
    \/ \E a \in Address, resolution \in Resolutions : ResolveDispute(a, resolution)
    \/ \E a \in Address, amount \in Amounts : WithdrawTreasury(a, amount)
    \/ \E a, b \in Address : RegisterReferral(a, b)
    \/ \E a \in Address, r \in Rounds : UpdateStreak(a, r)
    \/ \E a \in Address : SetTreasury(a)
    \/ \E a \in Address, bps \in FeeChoices : SetFeeBps(a, bps)
    \/ \E a \in Address, allowed \in SUBSET Address : SetAllowlist(a, allowed)
    \/ \E a \in Address, t \in Token : SetToken(a, t)
    \/ \E bps \in FeeChoices : ConfigureFromFactory(bps)

Next == MemberNext \/ RoundNext \/ BidNext \/ AdminNext \/ Tick

Spec == Init /\ [][Next]_vars

-----------------------------------------------------------------------------
(* Types.                                                                  *)

CircleRecord == [status : CircleStatus, current_round : Nat, started_at : Nat,
                 member_count : Nat, payout_bitmap : SUBSET (0..(MaxMembers - 1)),
                 total_payouts : Int, total_fees : Int, token : Token]
Member == [address : Address, strikes : Nat, status : MemberStatus, total_contributions : {0}]
Contribution == [member : Address, round : Rounds, amount : {ContributionAmount},
                 timestamp : Nat, on_time : BOOLEAN]
Settlement == [recipient : Address, round : Rounds, amount : Int, fee : Int]

\* The rotation: who is in, who has paid, who was paid, which round is open.
RotationTypeOK ==
    /\ circle \in CircleRecord
    /\ members \in Seq(Member)
    /\ contributions \subseteq Contribution
    /\ round_contributors \in [Rounds -> SUBSET Address]
    /\ round_total \in [Rounds -> Nat]
    /\ member_contributed \subseteq Address \X Rounds
    /\ settled \in Seq(Settlement)
    /\ now \in Nat

\* Everything else.
RecordsTypeOK ==
    /\ member_status \in [Address -> MemberStatus \cup {"NONE"}]
    /\ round_strikes \in [Rounds -> [Address -> Nat]]
    /\ fee_ledger \in [Rounds -> [payout_fee : Nat, late_penalty_fee : Nat]]
    /\ scheduled \subseteq Rounds
    /\ bids \in Seq([bidder : Address, bips : 0..10000, round : Rounds,
                     deposit : {0, ContributionAmount}])
    /\ auction_winner \in [Rounds -> Address \cup {NoOne}]
    /\ \A r \in Rounds : Cardinality(dutch[r]) <= 1
    /\ votes \subseteq [voter : Address, vote_for : Address, round : Rounds]
    /\ dispute \subseteq [raised_by : Address, resolution : Resolutions \cup {"NONE"}]
    /\ withdrawal \in [day : Nat, amount : Nat]
    /\ referrals \subseteq Address \X Address
    /\ \A a \in Address : streaks[a] \subseteq [current : Nat, longest : Nat, last : Rounds]
    /\ fee_bps \in 0..10000 /\ treasury \in {NoOne, Treasury}
    /\ allowlist \subseteq Address /\ paused \in BOOLEAN
    /\ received \in [Address -> Nat]
    /\ balance \in [Token -> [Account -> Nat]]

\* Every variable holds what its storage entry can hold; balances are never
\* negative, as the token contract would have refused the transfer.
TypeOK == RotationTypeOK /\ RecordsTypeOK

-----------------------------------------------------------------------------
(* Safety of the rotation.                                                 *)

\* Nobody receives a second rotation payout, whatever mix of deadline sweeps,
\* operator triggers, batch payouts, disputes and re-opened circles came before
\* (trigger_payout_internal and the payout bitmap).
OnePayoutPerMember ==
    /\ \A j, k \in DOMAIN settled : settled[j].recipient = settled[k].recipient => j = k
    /\ \A k \in DOMAIN settled : settled[k].round = k - 1

\* Every settled round used up a position of its own, and positions belong to
\* members: so a circle never gets past as many rounds as it has members, even
\* when total_rounds is larger.
RoundsWithinPositions ==
    /\ circle.payout_bitmap \subseteq {Position(i) : i \in DOMAIN members}
    /\ circle.current_round <= Cardinality(circle.payout_bitmap)
    /\ Len(members) <= MaxMembers /\ circle.member_count = Len(members)

\* The circle is a rotating savings club: payments, payouts, exits, defaults,
\* disputes, batches and settings, whatever their order, do to the members, the
\* pots and the recipients only what Rosca allows.
Addresses(S) == {members[i].address : i \in S}
Club == INSTANCE Rosca WITH
    Person <- Address, Round <- Rounds, Patient <- Deadline = 0,
    roster <- Addresses(DOMAIN members), standing <- Addresses(ActiveIn(members)),
    pots <- round_contributors, round <- circle.current_round,
    winners <- {settled[k].recipient : k \in DOMAIN settled}
IsRosca == Club!Spec

\* The constant-time copies that contribute keeps for a round (contributor list,
\* round total, contributed flag) say what the contribution log says, and no
\* member is in the log twice for one round.
CachesAgree ==
    LET log(r) == {c \in contributions : c.round = r}
    IN  /\ \A r \in Rounds :
              /\ round_contributors[r] = {c.member : c \in log(r)}
              /\ round_total[r] = ContributionAmount * Cardinality(round_contributors[r])
              /\ Cardinality(log(r)) = Cardinality(round_contributors[r])
        /\ member_contributed = {<<c.member, c.round>> : c \in contributions}

\* A round that has been settled is closed: its pool never changes again, and
\* no round ahead of the current one has a pool.
SettledRoundsAreClosed ==
    /\ \A k \in DOMAIN settled :
          settled[k].amount + settled[k].fee \in {0, round_total[k - 1]}
    /\ \A r \in Rounds : r > circle.current_round => round_total[r] = 0

PoolSum == SumFunction([c \in contributions |-> c.amount])
SettledSum == SumFunction([k \in DOMAIN settled |-> settled[k].amount + settled[k].fee])
CollateralHeld == IF circle.status \in {"COMPLETED", "CANCELLED"} THEN 0
                  ELSE Collateral * Cardinality(ActiveIn(members))

\* What members put in and have not got back is in the circle's account: the
\* contributions of unsettled rounds and the collateral of active members.
EscrowCovers == balance[Token0][Self] >= PoolSum - SettledSum + CollateralHeld

-----------------------------------------------------------------------------
(* Deadlines, strikes and fees.                                            *)

\* A strike recorded for a round was earned in it: the member contributed late,
\* or the round was swept without a contribution of its own (#429: the sweep and
\* report_late write RoundStrikes, contribute writes the log).
StrikesAreEarned ==
    \A r \in Rounds, m \in Address :
        round_strikes[r][m] > 0 =>
            /\ IsMember(members, m)
            /\ \A c \in contributions : c.member = m /\ c.round = r => ~c.on_time

\* The constant-time copy of a member's status, which contribute trusts, agrees
\* with the member list, which payouts and exits trust.
StatusCacheAgrees ==
    \A i \in DOMAIN members : member_status[members[i].address] = members[i].status

\* Circle.total_fees is the sum of the per-round fee ledgers, although late
\* penalties and payout fees are added to them by different entry points.
FeeLedgerTotals ==
    circle.total_fees =
        SumFunctionOnSet([r \in Rounds |-> fee_ledger[r].payout_fee
                                             + fee_ledger[r].late_penalty_fee], Rounds)

\* Time-weighted shares and the remainder add up: what members received is what
\* the rounds paid out, and who neither contributed nor was a recipient got none.
PayoutsReachMembers ==
    /\ SumFunction(received) = circle.total_payouts
    /\ circle.total_payouts = SumFunction([k \in DOMAIN settled |-> settled[k].amount])
    /\ \A m \in Address : received[m] > 0 =>
          \/ \E c \in contributions : c.member = m
          \/ \E k \in DOMAIN settled : settled[k].recipient = m

\* Outside time-weighted circles a member whose position is paid receives no more:
\* neither the rotation nor a batch pays a position twice (trigger_payout_internal
\* and batch_payout share the bitmap).
PaidPositionsReceiveNoMore ==
    [][PayoutType # "RANDOM" =>
         \A i \in DOMAIN members :
            ~Unpaid(i) => received'[members[i].address] = received[members[i].address]]_vars

-----------------------------------------------------------------------------
(* Auctions and votes.                                                     *)

\* The recorded winner of an auction round still has its bid in the list, and no
\* bid of that round beats it: refunds spare the winner, and nobody bids on a
\* round that is over (resolve_auction, auction_bid, refund_losing_bids).
WinnerKeepsTopBid ==
    \A r \in Rounds : auction_winner[r] # NoOne =>
        \E k \in BidsOf(r) : /\ bids[k].bidder = auction_winner[r]
                             /\ \A j \in BidsOf(r) : bids[j].bips <= bids[k].bips

\* A step that settles nothing, takes no contribution and leaves the bids of the
\* current round alone moves tokens only against deposits: whoever gets tokens
\* has that much less deposited.  So refunds in batches give each deposit back
\* once, to the one who made it (refund_losing_bids, "each at most once").
DepositsOf(m) == SumFunctionOnSet(Deposits, {k \in DOMAIN bids : bids[k].bidder = m})
BidsNow == {bids[k] : k \in BidsOf(circle.current_round)}
RefundsReturnDeposits ==
    [][contributions' = contributions /\ settled' = settled /\ BidsNow' = BidsNow =>
         \A m \in Address :
            balance'[Token0][m] + DepositsOf(m)' = balance[Token0][m] + DepositsOf(m)]_vars

\* A Dutch auction clears at most once, inside its price range, and a round in
\* Dutch mode has no English bid, whatever is configured again or cancelled.
DutchClearsOnce ==
    \A r \in Rounds : \A d \in dutch[r] :
        /\ Cardinality(BidsOf(r)) <= (IF d.resolved THEN 1 ELSE 0)
        /\ \A k \in BidsOf(r) : bids[k].bips \in d.config.floor_bips .. d.config.start_bips

\* Votes of a settled round are closed: its recipient keeps the top tally, and no
\* member has two votes in a round (vote_payout, resolve_vote).
WinnerKeepsTopTally ==
    /\ \A k \in DOMAIN settled, m \in Address :
          Tally(m, settled[k].round) <= Tally(settled[k].recipient, settled[k].round)
    /\ \A v, w \in votes : v.voter = w.voter /\ v.round = w.round => v = w

-----------------------------------------------------------------------------
(* Disputes, pauses and withdrawals.                                       *)

\* While a dispute is open no round moves: nothing is contributed, struck,
\* settled or batch-paid (raise_dispute, "until dispute is resolved").
DisputeFreezesRounds ==
    [][circle.status = "DISPUTED" =>
         UNCHANGED <<contributions, round_total, round_strikes, settled, received,
                     circle.current_round, circle.payout_bitmap>>]_vars

\* A paused circle keeps all its storage and its tokens; only the clock moves and
\* the admin may unpause (pause_circle is the emergency stop of README.md, and
\* unpause_circle what lets state-mutating operations resume).
PauseFreezes ==
    [][paused => UNCHANGED <<circle, rosterVars, roundVars, fee_ledger, scheduled, payoutVars,
                             auctionVars, dispute, fee_bps, treasury, allowlist, sideVars,
                             balance>>]_vars

\* Over any number of days, operators that receive nothing else get no more than
\* the daily limit for each day that has begun, and per-transaction and daily
\* limits hold across the change of day (withdraw_treasury, #478).
WithdrawalsWithinLimit ==
    SumFunctionOnSet([m \in Address |-> balance[Token0][m] - Wallet], {Organizer, Admin})
        <= DailyLimit * (Today + 1)

\* A streak never exceeds its record or the rounds there have been (streak
\* updates come from contribute and from update_streak, in any order of rounds).
StreaksBounded ==
    \A m \in Address : \A s \in streaks[m] :
        s.current <= s.longest /\ s.longest <= s.last + 1

-----------------------------------------------------------------------------
(* Progress.                                                               *)

\* An active circle with a contribution window gets through all its rounds, with
\* or without the members' contributions and the operator's triggers
\* (check_contribution_deadline, "so the circle cannot stall").  MaxTime must
\* leave the window room to close.
CircleCompletes ==
    (circle.status = "ACTIVE" /\ ForfeitTime < MaxTime) ~> (circle.status = "COMPLETED")

-----------------------------------------------------------------------------
(* What comments of the repository say and the code does not do.           *)

\* A dispute resolved by a refund before any payout gives every member its
\* contributions back (contract.rs, RESOLVE_REFUND branch).
ContributedBy(m) ==
    SumFunctionOnSet([c \in contributions |-> c.amount], {c \in contributions : c.member = m})
RefundReturnsContributions ==
    [][circle.status = "DISPUTED" /\ circle'.status = "CANCELLED" /\ settled = << >> =>
         \A m \in Address :
            balance'[Token0][m] >= balance[Token0][m] + ContributedBy(m)]_vars
=============================================================================
