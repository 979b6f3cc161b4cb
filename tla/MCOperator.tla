----------------------------- MODULE MCOperator -----------------------------
(***************************************************************************)
(* What the operator of a circle may do besides triggering payouts: invite *)
(* members in batches, pay batches out of the pool, and, as the admin,     *)
(* resolve disputes, pause, withdraw and configure.                        *)
(***************************************************************************)
EXTENDS Circle, TLC

Players == Address \ {Organizer}
PlayerSymmetry == Permutations(Players)

\* A dispute and its resolutions, first and later ones, beside the rotation, the
\* sweeps and batches of invitations and of payouts.
DisputeNext ==
    \/ \E m \in Players : Join(m) \/ Exit(m) \/ RaiseDispute(m)
    \/ \E resolution \in Resolutions : ResolveDispute(Admin, resolution)
    \/ \E invited \in BatchesOf(Players) : BatchInvite(Organizer, invited)
    \/ \E m \in Players, amount \in Amounts, r \in Rounds : Contribute(m, amount, r)
    \/ \E r \in Rounds : TriggerPayout(Organizer, r) \/ CheckContributionDeadline(r)
    \/ \E r \in Rounds, recipients \in BatchesOf(Players), amounts \in BatchesOf({ContributionAmount}) :
          BatchPayout(Organizer, recipients, amounts, r)
    \/ Tick

DisputeSpec == Init /\ [][DisputeNext]_vars

\* The settings, the switches, the side records and the withdrawals of a circle
\* that waits for its second member.
Joined == {a \in Players : IsMember(members, a)}
SettingsNext ==
    \/ \E a \in Joined : ClaimBonus(a)
    \/ \E a \in Players : SetAllowlist(Admin, {a}) /\ allowlist = {}
    \/ \E a \in Address : Pause(a) \/ Unpause(a) \/ SetTreasury(a)
    \/ \E a \in Joined : RegisterReferral(Organizer, a)
    \/ \E a \in Joined, r \in Rounds : UpdateStreak(a, r)
    \/ \E a \in Address, amount \in Amounts : WithdrawTreasury(a, amount)
    \/ \E bps \in FeeChoices : SetFeeBps(Admin, bps) \/ ConfigureFromFactory(bps)
    \/ \E t \in Token : SetToken(Admin, t)
    \/ Tick

\* Either the settings of a waiting circle change, or it goes on with those it has.
Waiting == Len(members) = 1 /\ dispute = {}
Untouched ==
    /\ ~paused /\ allowlist = {} /\ fee_bps = 0 /\ circle.token = Token0
    /\ referrals = {} /\ \A a \in Address : streaks[a] = {}
    /\ balance[Token0][Self] = Collateral

OperatorNext ==
    \/ Waiting /\ SettingsNext
    \/ (Waiting => Untouched) /\ DisputeNext

OperatorInit == Init /\ fee_bps = 0
OperatorSpec == OperatorInit /\ [][OperatorNext]_vars
=============================================================================
