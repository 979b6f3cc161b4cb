----------------------------- MODULE CircleBids -----------------------------
(***************************************************************************)
(* The entry points that feed the choice of a round's recipient: English   *)
(* bids and the refund of their losers, Dutch auctions, the cancellation   *)
(* of an auction, and votes.  None of them looks at the circle's status.   *)
(***************************************************************************)
EXTENDS CircleRounds

\* What no entry point of this module touches.
outsideAuction == <<circle, rosterVars, roundVars, fee_ledger, scheduled, payoutVars,
                    dispute, configVars, sideVars, now>>

BidsOf(r) == {k \in DOMAIN bids : bids[k].round = r}
MutWithout(ks) == bids   \* refunded, and still listed
Without(ks) == [k \in 1..(Len(bids) - Cardinality(ks)) |->
                  bids[CHOOSE i \in DOMAIN bids :
                         i \notin ks /\ Cardinality({j \in DOMAIN bids \ ks : j <= i}) = k]]

\* Anybody may bid, member or not; the deposit is one contribution.
PlaceBid(bidder, bips, r) ==
    /\ ~paused
    /\ PayoutType = "AUCTION"
    /\ bips <= 10000
    /\ r = circle.current_round
    /\ dutch[r] = {}
    /\ \A k \in BidsOf(r) : bids[k].bidder # bidder
    /\ Holds(bidder, ContributionAmount)
    /\ balance' = Moved(balance, bidder, Self, ContributionAmount)
    /\ bids' = Append(bids, [bidder |-> bidder, bips |-> bips, round |-> r,
                             deposit |-> ContributionAmount])
    /\ UNCHANGED <<auction_winner, dutch, votes, outsideAuction>>

MutLosers(r) == BidsOf(r)
Losers(r) == {k \in BidsOf(r) : bids[k].bidder # auction_winner[r]}

\* The losers a call refunds: the first ones in bidding order, up to the cap.
LoserRefundBatchCap == 20
Deposits == [k \in DOMAIN bids |-> bids[k].deposit]
RefundBatch(r, limit) ==
    {k \in Losers(r) : /\ Cardinality({j \in Losers(r) : j <= k}) <= limit
                       /\ Cardinality({j \in Losers(r) : j <= k}) <= LoserRefundBatchCap}

RefundLosingBids(r, limit) ==
    /\ ~paused
    /\ limit > 0
    /\ auction_winner[r] # NoOne
    /\ LET batch == RefundBatch(r, limit)
           Refund(a) == SumFunctionOnSet(Deposits, {k \in batch : bids[k].bidder = a})
           outflow == SumFunctionOnSet(Deposits, batch)
       IN  /\ Holds(Self, outflow)
           /\ balance' = PaidOut(balance, [a \in Account |-> Refund(a)], outflow)
           /\ bids' = Without(batch)
    /\ UNCHANGED <<auction_winner, dutch, votes, outsideAuction>>

\* A configuration may be overwritten as long as the round has no bid.
InitDutchAuction(caller, r, config) ==
    /\ ~paused
    /\ caller = Organizer
    /\ PayoutType = "AUCTION"
    /\ r = circle.current_round
    /\ config.start_bips <= 10000
    /\ config.floor_bips <= config.start_bips
    /\ config.decay_bips_per_ledger > 0
    /\ config.expiry_ledgers > 0
    /\ BidsOf(r) = {}
    /\ dutch' = [dutch EXCEPT ![r] =
          {[config |-> config, start_ledger |-> now, resolved |-> FALSE]}]
    /\ UNCHANGED <<bids, auction_winner, votes, balance, outsideAuction>>

\* Saturating subtraction, and then the floor.
MutDecayedPrice(d) ==
    LET decayed == d.config.start_bips - d.config.decay_bips_per_ledger * (now - d.start_ledger)
    IN  IF decayed > 0 THEN decayed ELSE 0
DecayedPrice(d) ==
    LET decayed == d.config.start_bips - d.config.decay_bips_per_ledger * (now - d.start_ledger)
    IN  IF decayed > d.config.floor_bips THEN decayed ELSE d.config.floor_bips

DutchAuctionBid(bidder, r) ==
    /\ ~paused
    /\ r = circle.current_round
    /\ \E d \in dutch[r] :
          /\ ~d.resolved
          /\ now - d.start_ledger < d.config.expiry_ledgers
          /\ bids' = Append(bids, [bidder |-> bidder, bips |-> DecayedPrice(d), round |-> r,
                                   deposit |-> 0])
          /\ dutch' = [dutch EXCEPT ![r] = {[d EXCEPT !.resolved = TRUE]}]
    /\ UNCHANGED <<auction_winner, votes, balance, outsideAuction>>

\* cancel_auction drops every bid of the current round and repays the highest
\* bidder what it contributed to the round, or one contribution if nothing.
Contributed(a, r) ==
    SumFunctionOnSet([c \in contributions |-> c.amount],
                     {c \in contributions : c.member = a /\ c.round = r})

CancelAuction(caller) ==
    LET r == circle.current_round
        repaid == [k \in WinningBids(r) |->
                      IF Contributed(bids[k].bidder, r) = 0 THEN ContributionAmount
                      ELSE Contributed(bids[k].bidder, r)]
    IN  /\ ~paused
        /\ caller = Organizer
        /\ PayoutType = "AUCTION"
        /\ \A k \in WinningBids(r) : Holds(Self, repaid[k])
        /\ balance' =
              PaidOut(balance,
                      [a \in Account |-> SumFunctionOnSet(repaid, {k \in WinningBids(r) :
                                                                     bids[k].bidder = a})],
                      SumFunction(repaid))
        /\ bids' = Without(BidsOf(r))
        /\ UNCHANGED <<auction_winner, dutch, votes, outsideAuction>>

VotePayout(voter, vote_for, r) ==
    /\ ~paused
    /\ PayoutType = "VOTE"
    /\ r = circle.current_round
    /\ IsActiveMember(members, voter)
    /\ IsActiveMember(members, vote_for)
    /\ \A v \in votes : ~(v.voter = voter /\ v.round = r)
    /\ votes' = votes \cup {[voter |-> voter, vote_for |-> vote_for, round |-> r]}
    /\ UNCHANGED <<bids, auction_winner, dutch, balance, outsideAuction>>
=============================================================================
