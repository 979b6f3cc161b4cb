----------------------------- MODULE MCAuction -----------------------------
(***************************************************************************)
(* An auction circle whose organizer does not join; players bid before and *)
(* after they join: English and Dutch rounds, refunds in batches, and      *)
(* auctions that the organizer cancels.                                    *)
(***************************************************************************)
EXTENDS Circle, TLC

Players == Address \ {Organizer}
MemberSymmetry == Permutations(Players)

\* Without a deadline the clock matters to a Dutch auction only.
DutchRunning == \E r \in Rounds : \E d \in dutch[r] : ~d.resolved

AuctionNext ==
    \/ \E m \in Players : Join(m)
    \/ \E m \in Players, amount \in Amounts, r \in Rounds : Contribute(m, amount, r)
    \/ \E m \in Players, bips \in Bips, r \in Rounds : PlaceBid(m, bips, r)
    \/ \E r \in Rounds, limit \in 1..2 : RefundLosingBids(r, limit)
    \/ \E r \in Rounds : TriggerPayout(Organizer, r)
    \/ \E r \in Rounds, config \in DutchConfigs : InitDutchAuction(Organizer, r, config)
    \/ \E m \in Players, r \in Rounds : DutchAuctionBid(m, r)
    \/ CancelAuction(Organizer)
    \/ DutchRunning /\ Tick

AuctionSpec == Init /\ [][AuctionNext]_vars

DutchChoices == {[start_bips |-> 5, floor_bips |-> 4, decay_bips_per_ledger |-> 2,
                  expiry_ledgers |-> 2]}
=============================================================================
