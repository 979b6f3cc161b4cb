------------------------------ MODULE Platform ------------------------------
(***************************************************************************)
(* The contracts around the circles: the factory that deploys them, the    *)
(* treasury that those which the factory pointed at it pay, the reputation *)
(* scores they feed, and the random draw of one of them.                   *)
(***************************************************************************)
EXTENDS CircleFactory, Treasury, Reputation, Vrf

CONSTANT ThisTreasury  \* the treasury of the model among those circles may have

platformVars == <<factoryVars, treasuryVars, reputationVars, vrfVars, now>>

Init == FactoryInit /\ TreasuryInit /\ ReputationInit /\ VrfInit /\ ClockInit

-----------------------------------------------------------------------------

\* The circles that the factory pointed at the treasury.
Payers == {c \in DOMAIN circle_settings : circle_settings[c].treasury = ThisTreasury}

\* A circle settles a round and deposits the fee it charges, or sends a late penalty
\* or forfeited collateral by a plain transfer.
PayFee(c, amount) == c \in Payers /\ circle_settings[c].fee_bps > 0 /\ deposit(amount)
PayPenalty(c, t, amount) == c \in Payers /\ TransferIn(t, amount)

TreasuryNext ==
    \/ \E c \in Payers, amount \in Sums : PayFee(c, amount)
    \/ \E c \in Payers, t \in Currency, amount \in Sums : PayPenalty(c, t, amount)
    \/ \E a \in TreasuryAdmins, amount \in Sums, away \in BOOLEAN : withdraw(a, amount, away)
    \/ \E a \in TreasuryAdmins, t \in Currency, amount \in Sums, away \in BOOLEAN :
          rescue_tokens(a, t, amount, away)
    \/ \E a \in TreasuryAdmins, t \in Currency : InitTreasury(a, t)
    \/ \E a \in TreasuryAdmins : PauseTreasury(a) \/ UnpauseTreasury(a)

Next ==
    \/ FactoryNext /\ UNCHANGED <<treasuryVars, reputationVars, vrfVars, now>>
    \/ TreasuryNext /\ UNCHANGED <<factoryVars, reputationVars, vrfVars, now>>
    \/ ReputationNext /\ UNCHANGED <<factoryVars, treasuryVars, vrfVars, now>>
    \/ VrfNext /\ UNCHANGED <<factoryVars, treasuryVars, reputationVars, now>>
    \/ ClockTick /\ UNCHANGED <<factoryVars, treasuryVars, reputationVars, vrfVars>>

Spec == Init /\ [][Next]_platformVars
=============================================================================
