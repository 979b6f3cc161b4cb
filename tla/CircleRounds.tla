---------------------------- MODULE CircleRounds ----------------------------
(***************************************************************************)
(* The rotation: contributions, the choice of a round's recipient          *)
(* (payout.rs), the settlement of a round, the deadline sweep, and the two *)
(* operator entry points beside them, schedule_payout and batch_payout.    *)
(***************************************************************************)
EXTENDS CircleMembers

\* calculate_penalty is an error for a rate above 100%.
PenaltyComputable == OnTime \/ PenaltyBps <= 10000
LatePenalty(amount) == IF OnTime THEN 0 ELSE Percentage(amount, PenaltyBps)

\* update_streak_internal: a streak is [current, longest, last], {} when none.
MutStreakAfter(s, r) ==   \* the record is never raised
    IF s = {} THEN {[current |-> 1, longest |-> 1, last |-> r]}
    ELSE {CASE r = x.last + 1 -> [x EXCEPT !.current = @ + 1, !.last = r]
            [] r > x.last + 1 -> [x EXCEPT !.current = 1, !.last = r]
            [] OTHER -> x : x \in s}
StreakAfter(s, r) ==
    IF s = {} THEN {[current |-> 1, longest |-> 1, last |-> r]}
    ELSE {CASE r = x.last + 1 -> [current |-> x.current + 1,
                                  longest |-> IF x.current + 1 > x.longest
                                              THEN x.current + 1 ELSE x.longest,
                                  last |-> r]
            [] r > x.last + 1 -> [x EXCEPT !.current = 1, !.last = r]
            [] OTHER -> x : x \in s}

\* contribute.  A late penalty is taken out of the circle's account, whereas the
\* round total grows by the whole amount.
Contribute(m, amount, r) ==
    /\ ~paused
    /\ Running
    /\ round_strikes[r][m] = 0
    /\ RoundOpen(r)
    /\ amount = ContributionAmount
    /\ member_status[m] = "ACTIVE"
    /\ ~HasContributed(m, r)
    /\ InWindow
    /\ PenaltyComputable
    /\ Holds(m, amount)
    /\ LET penalty == LatePenalty(amount)
           received_in == Moved(balance, m, Self, amount)
       IN  /\ balance' = IF treasury = NoOne THEN received_in
                         ELSE Moved(received_in, Self, treasury, penalty)
           /\ circle' = [circle EXCEPT !.total_fees = @ + penalty]
           /\ fee_ledger' = FeeRecorded(r, 0, penalty)
    /\ contributions' = contributions \cup
          {[member |-> m, round |-> r, amount |-> amount, timestamp |-> now, on_time |-> OnTime]}
    /\ member_contributed' = member_contributed \cup {<<m, r>>}
    /\ round_total' = [round_total EXCEPT ![r] = @ + amount]
    /\ round_contributors' = [round_contributors EXCEPT ![r] = @ \cup {m}]
    /\ streaks' = IF OnTime THEN [streaks EXCEPT ![m] = StreakAfter(@, r)] ELSE streaks
    /\ UNCHANGED <<rosterVars, scheduled, payoutVars, auctionVars, dispute, configVars,
                   referrals, withdrawal, now>>

-----------------------------------------------------------------------------
(* payout.rs: the indices in ms of the members a round may be paid to.     *)
(* The empty set stands for the error that blocks the payout.              *)

\* resolve_random walks a VRF permutation and falls back to position order.
ResolveRandom(ms) == {i \in ActiveIn(ms) : Unpaid(i)}

\* resolve_fixed: the turn of position r % max_members, whoever else is unpaid.
MutTurnOfActive(ms, r) ==   \* turns counted among the active, the bitmap not read
    {i \in ActiveIn(ms) : Position(i) = r % Cardinality(ActiveIn(ms))}
MutResolveFixed(ms, r) == {i \in ActiveIn(ms) : Position(i) = r % MaxMembers}
ResolveFixed(ms, r) == {i \in ActiveIn(ms) : Position(i) = r % MaxMembers /\ Unpaid(i)}

\* The highest discount wins, the latest bid among equals.
WinningBids(r) ==
    {k \in DOMAIN bids :
        /\ bids[k].round = r
        /\ \A j \in DOMAIN bids : bids[j].round = r =>
              \/ bids[j].bips < bids[k].bips
              \/ bids[j].bips = bids[k].bips /\ j <= k}
ResolveAuction(ms, r) ==
    {i \in ActiveIn(ms) : Unpaid(i) /\ \E k \in WinningBids(r) : bids[k].bidder = ms[i].address}

\* resolve_vote: a majority of the active members must have voted.  Among equal
\* tallies the code takes the first address in byte order: any of them here.
Tally(a, r) == Cardinality({v \in votes : v.round = r /\ v.vote_for = a})
VoteQuorum(ms, r) ==
    Cardinality({v \in votes : v.round = r}) >= (Cardinality(ActiveIn(ms)) \div 2) + 1
MutResolveVote(ms, r) ==   \* anybody with a vote
    {i \in ActiveIn(ms) : Unpaid(i) /\ VoteQuorum(ms, r) /\ Tally(ms[i].address, r) > 0}
ResolveVote(ms, r) ==
    {i \in ActiveIn(ms) : /\ Unpaid(i)
                          /\ VoteQuorum(ms, r)
                          /\ \A a \in Address : Tally(a, r) <= Tally(ms[i].address, r)}

Resolve(ms, r) ==
    CASE PayoutType = "RANDOM"  -> ResolveRandom(ms)
      [] PayoutType = "FIXED"   -> ResolveFixed(ms, r)
      [] PayoutType = "AUCTION" -> ResolveAuction(ms, r)
      [] PayoutType = "VOTE"    -> ResolveVote(ms, r)

-----------------------------------------------------------------------------
(* trigger_payout_internal.                                                *)

\* Time-weighted share of a contributor in a PAYOUT_RANDOM round.
Weight(a, r) ==
    SumFunctionOnSet([c \in contributions |-> c.amount * (now - c.timestamp)],
                     {c \in contributions : c.round = r /\ c.member = a})
TotalWeight(r) ==
    SumFunctionOnSet([c \in contributions |-> c.amount * (now - c.timestamp)],
                     {c \in contributions : c.round = r})
Share(ms, a, net, r) ==
    IF PayoutType = "RANDOM" /\ TotalWeight(r) > 0 /\ IsMember(ms, a)
    THEN (net * Weight(a, r)) \div TotalWeight(r) ELSE 0

\* What each address gets of a round's net pool: its share, and for the
\* recipient also whatever the shares leave over.
MutPayoutTo(ms, recipient, net, r) ==   \* the remainder stays in the circle
    [a \in Address |-> IF a = recipient /\ TotalWeight(r) = 0 THEN net
                       ELSE Share(ms, a, net, r)]
PayoutTo(ms, recipient, net, r) ==
    LET share == [a \in Address |-> Share(ms, a, net, r)]
        dust == net - SumFunctionOnSet(share, Address)
    IN  [a \in Address |-> IF a = recipient THEN share[a] + dust ELSE share[a]]

MutCircleAfter(i, net, fee) ==   \* the position is not marked as paid (#216)
    [circle EXCEPT !.current_round = @ + 1,
                   !.total_payouts = @ + net,
                   !.total_fees = @ + fee,
                   !.status = IF circle.current_round + 1 >= TotalRounds THEN "COMPLETED" ELSE @]
CircleAfter(i, net, fee) ==
    [circle EXCEPT !.payout_bitmap = @ \cup {Position(i)},
                   !.current_round = @ + 1,
                   !.total_payouts = @ + net,
                   !.total_fees = @ + fee,
                   !.status = IF circle.current_round + 1 >= TotalRounds THEN "COMPLETED" ELSE @]

\* A pool that nets to nothing still settles the round, without a payment; a
\* completion on this path returns no collateral.
SettleEmpty(i) ==
    /\ circle' = CircleAfter(i, 0, 0)
    /\ UNCHANGED <<fee_ledger, received, balance>>

SettleFunded(ms, i, r, net, fee) ==
    LET payout  == PayoutTo(ms, ms[i].address, net, r)
        routed  == IF treasury = NoOne THEN 0 ELSE fee
        refunds == IF circle.current_round + 1 >= TotalRounds THEN Collateral ELSE 0
        outflow == net + routed + refunds * Cardinality(ActiveIn(ms))
        Credit(a) == CASE a = treasury -> routed
                       [] a \in Address -> payout[a] + (IF IsActiveMember(ms, a) THEN refunds ELSE 0)
                       [] OTHER -> 0
    IN  /\ Holds(Self, outflow)
        /\ balance' = PaidOut(balance, [a \in Account |-> Credit(a)], outflow)
        /\ received' = [a \in Address |->
              IF IsMember(ms, a) THEN received[a] + payout[a] ELSE received[a]]
        /\ fee_ledger' = FeeRecorded(r, fee, 0)
        /\ circle' = CircleAfter(i, net, fee)

\* ms is the member list in force, which a sweep has already updated.  An oracle
\* that fails, like a treasury that refuses a deposit, makes the call fail.
SettleRound(ms, r) ==
    /\ Running
    /\ r = circle.current_round
    /\ now >= MinDuration
    /\ WindowClosed \/ Awaiting(ms, r) = {}
    /\ \E i \in Resolve(ms, r) :
          LET fee == Percentage(round_total[r], fee_bps)
              net == round_total[r] - fee
          IN  /\ \/ net <= 0 /\ SettleEmpty(i)
                 \/ net > 0 /\ SettleFunded(ms, i, r, net, fee)
              /\ auction_winner' = IF PayoutType = "AUCTION"
                                   THEN [auction_winner EXCEPT ![r] = ms[i].address]
                                   ELSE auction_winner
              /\ settled' = Append(settled, [recipient |-> ms[i].address, round |-> r,
                                             amount |-> IF net > 0 THEN net ELSE 0,
                                             fee |-> IF net > 0 THEN fee ELSE 0])
    /\ UNCHANGED <<roundVars, scheduled, bids, dutch, votes, dispute, configVars, sideVars, now>>

TriggerPayout(caller, r) ==
    /\ ~paused
    /\ IsOperator(caller)
    /\ SettleRound(members, r)
    /\ UNCHANGED rosterVars

-----------------------------------------------------------------------------
(* check_contribution_deadline: strike the absent, then settle the round.  *)

Swept(r) ==
    [i \in DOMAIN members |->
        IF i \in Awaiting(members, r)
        THEN [members[i] EXCEPT !.strikes = @ + 1,
                                !.status = IF members[i].strikes + 1 >= MaxStrikes
                                           THEN "DEFAULTED" ELSE @]
        ELSE members[i]]

MutRoundToSweep(r) == r = circle.current_round /\ r + 1 < TotalRounds
RoundToSweep(r) == r = circle.current_round /\ r < TotalRounds

MutStatusAfterSweep(r) == member_status   \* the cache is not refreshed
StatusAfterSweep(r) ==
    [a \in Address |->
        IF \E i \in Awaiting(members, r) :
              members[i].address = a /\ members[i].strikes + 1 >= MaxStrikes
        THEN "DEFAULTED" ELSE member_status[a]]

CheckContributionDeadline(r) ==
    /\ ~paused
    /\ Running
    /\ RoundToSweep(r)
    /\ WindowClosed
    /\ LET struck == {members[i].address : i \in Awaiting(members, r)}
       IN  /\ members' = Swept(r)
           /\ member_status' = StatusAfterSweep(r)
           /\ round_strikes' = [round_strikes EXCEPT ![r] =
                 [a \in Address |-> IF a \in struck THEN @[a] + 1 ELSE @[a]]]
    /\ SettleRound(Swept(r), r)

-----------------------------------------------------------------------------

SchedulePayout(caller, r) ==
    /\ ~paused
    /\ IsOperator(caller)
    /\ Running
    /\ r = circle.current_round
    /\ scheduled' = scheduled \cup {r}
    /\ UNCHANGED <<circle, rosterVars, roundVars, fee_ledger, payoutVars, auctionVars, dispute,
                   configVars, sideVars, balance, now>>

\* batch_payout pays arbitrary amounts and marks positions paid, but it does not
\* settle the round and records no fee.
BatchPayout(caller, recipients, amounts, r) ==
    LET at == DOMAIN recipients
        fee == [k \in at |-> Percentage(amounts[k], fee_bps)]
        net == [k \in at |-> amounts[k] - fee[k]]
        Total(f, S) == SumFunctionOnSet(f, S)
        To(a) == {k \in at : recipients[k] = a}
        paidTo(k) == MemberAt(members, recipients[k])
        Credit(a) == IF a = treasury THEN Total(fee, at) ELSE Total(net, To(a))
    IN  /\ ~paused
        /\ IsOperator(caller)
        /\ Running
        /\ r = circle.current_round
        /\ Len(recipients) = Len(amounts) /\ Len(recipients) \in 1..10
        /\ \A k \in at : amounts[k] > 0
        /\ \A k \in at : \A i \in paidTo(k) : Unpaid(i)
        /\ \A j, k \in at : recipients[j] = recipients[k] /\ paidTo(j) # {} => j = k
        /\ \A k \in at : fee[k] > 0 => treasury # NoOne
        /\ Holds(Self, Total(net, at) + Total(fee, at))
        /\ balance' = PaidOut(balance, [a \in Account |-> Credit(a)],
                              Total(net, at) + Total(fee, at))
        /\ circle' = [circle EXCEPT !.payout_bitmap =
              @ \cup {Position(i) : i \in UNION {paidTo(k) : k \in at}}]
        /\ received' = [a \in Address |->
              IF IsMember(members, a) THEN received[a] + Total(net, To(a)) ELSE received[a]]
        /\ UNCHANGED <<rosterVars, roundVars, fee_ledger, scheduled, settled, auctionVars,
                       dispute, configVars, sideVars, now>>
=============================================================================
