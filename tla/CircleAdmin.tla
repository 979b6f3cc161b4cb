---------------------------- MODULE CircleAdmin ----------------------------
(***************************************************************************)
(* Disputes, the pause switch, withdrawals, bonuses, and the configuration *)
(* that the admin or the deploying factory sets.                           *)
(***************************************************************************)
EXTENDS CircleBids

\* What no entry point of this module touches.
outsideAdmin == <<roundVars, fee_ledger, scheduled, payoutVars, auctionVars, now>>

\* raise_dispute and dispute: any address may call it, once per circle.
RaiseDispute(a) ==
    /\ ~paused
    /\ circle.status \notin {"DISPUTED", "COMPLETED", "CANCELLED"}
    /\ dispute = {}
    /\ circle' = [circle EXCEPT !.status = "DISPUTED"]
    /\ dispute' = {[raised_by |-> a, resolution |-> "NONE"]}
    /\ UNCHANGED <<rosterVars, configVars, sideVars, balance, outsideAdmin>>

Resolutions == {"DISMISS", "PENALIZE", "FORCE_PAYOUT", "REFUND"}

\* The collateral goes to the treasury; MemberStatus keeps its old value.
\* StrikeBound keeps the counters finite: a dispute can be penalized repeatedly.
Penalize(a) ==
    /\ \A i \in MemberAt(members, a) : members[i].strikes < StrikeBound
    /\ IF treasury = NoOne \/ Collateral = 0 THEN UNCHANGED balance
       ELSE /\ Holds(Self, Collateral)
            /\ balance' = Moved(balance, Self, treasury, Collateral)
    /\ members' = [i \in DOMAIN members |->
          IF members[i].address = a
          THEN [members[i] EXCEPT !.strikes = @ + 1, !.status = "DEFAULTED"]
          ELSE members[i]]

\* Pays out Member.total_contributions, which nothing ever adds to.
RefundMembers ==
    LET Owed(S) == SumFunctionOnSet([i \in DOMAIN members |-> members[i].total_contributions], S)
    IN  /\ Holds(Self, Owed(DOMAIN members))
        /\ balance' = PaidOut(balance, [a \in Account |-> Owed(MemberAt(members, a))],
                              Owed(DOMAIN members))
        /\ members' = [i \in DOMAIN members |-> [members[i] EXCEPT !.total_contributions = 0]]

\* The guard is the existence of a dispute entry; whether it is still open, and
\* what the circle's status is, are not looked at.
ResolveDispute(caller, resolution) ==
    /\ ~paused
    /\ caller = Admin
    /\ \E d \in dispute :
          /\ \/ resolution \in {"DISMISS", "FORCE_PAYOUT"} /\ UNCHANGED <<members, balance>>
             \/ resolution = "PENALIZE" /\ Penalize(d.raised_by)
             \/ resolution = "REFUND" /\ RefundMembers
          /\ dispute' = {[d EXCEPT !.resolution = resolution]}
    /\ circle' =
          [circle EXCEPT !.status = IF resolution = "REFUND" THEN "CANCELLED" ELSE "ACTIVE"]
    /\ UNCHANGED <<member_status, round_strikes, configVars, sideVars, outsideAdmin>>

-----------------------------------------------------------------------------
(* Withdrawals.                                                            *)

Today == now \div DaySeconds
MutWithdrawnToday == 0   \* earlier withdrawals of the day are forgotten
WithdrawnToday == IF withdrawal.day = Today THEN withdrawal.amount ELSE 0

WithdrawTreasury(caller, amount) ==
    /\ ~paused
    /\ IsOperator(caller)
    /\ amount > 0
    /\ MaxWithdrawal > 0 => amount <= MaxWithdrawal
    /\ DailyLimit > 0 => WithdrawnToday + amount <= DailyLimit
    /\ treasury # NoOne
    /\ Holds(Self, amount)
    /\ balance' = Moved(balance, Self, caller, amount)
    /\ withdrawal' = [day |-> Today, amount |-> WithdrawnToday + amount]
    /\ UNCHANGED <<circle, rosterVars, dispute, configVars, referrals, streaks, outsideAdmin>>

\* claim_referral_bonus and claim_streak_bonus: the claimant, whoever it is,
\* gets everything the circle holds.
ClaimBonus(a) ==
    /\ ~paused
    /\ balance[circle.token][Self] > 0
    /\ balance' = Moved(balance, Self, a, balance[circle.token][Self])
    /\ UNCHANGED <<circle, rosterVars, dispute, configVars, sideVars, outsideAdmin>>

-----------------------------------------------------------------------------
(* Referrals, streaks, configuration.                                      *)

RegisterReferral(referrer, referred) ==
    /\ ~paused
    /\ referrer # referred
    /\ <<referrer, referred>> \notin referrals
    /\ referrals' = referrals \cup {<<referrer, referred>>}
    /\ UNCHANGED <<circle, rosterVars, dispute, configVars, streaks, withdrawal, balance,
                   outsideAdmin>>

\* A member may name any round.
UpdateStreak(a, r) ==
    /\ ~paused
    /\ streaks' = [streaks EXCEPT ![a] = StreakAfter(@, r)]
    /\ UNCHANGED <<circle, rosterVars, dispute, configVars, referrals, withdrawal, balance,
                   outsideAdmin>>

\* What no configuration entry point touches.
unconfigured == <<rosterVars, dispute, sideVars, balance, outsideAdmin>>

Pause(caller) ==
    /\ caller = Admin
    /\ paused' = TRUE
    /\ UNCHANGED <<circle, fee_bps, treasury, allowlist, unconfigured>>

Unpause(caller) ==
    /\ caller = Admin
    /\ paused' = FALSE
    /\ UNCHANGED <<circle, fee_bps, treasury, allowlist, unconfigured>>

SetTreasury(caller) ==
    /\ ~paused
    /\ caller = Admin
    /\ treasury' = Treasury
    /\ UNCHANGED <<circle, fee_bps, allowlist, paused, unconfigured>>

SetFeeBps(caller, bps) ==
    /\ ~paused
    /\ caller = Admin
    /\ bps <= 10000
    /\ fee_bps' = bps
    /\ UNCHANGED <<circle, treasury, allowlist, paused, unconfigured>>

SetAllowlist(caller, allowed) ==
    /\ ~paused
    /\ caller = Admin
    /\ allowlist' = allowed
    /\ UNCHANGED <<circle, fee_bps, treasury, paused, unconfigured>>

MutSetToken(caller, token) ==   \* the pause switch is not consulted
    /\ caller = Admin
    /\ circle' = [circle EXCEPT !.token = token]
    /\ UNCHANGED <<fee_bps, treasury, allowlist, paused, unconfigured>>
SetToken(caller, token) ==
    /\ ~paused
    /\ caller = Admin
    /\ circle' = [circle EXCEPT !.token = token]
    /\ UNCHANGED <<fee_bps, treasury, allowlist, paused, unconfigured>>

\* configure_from_factory.  The factory calls it when it deploys the circle; no
\* code of the repository calls it later, but the entry point allows it.
ConfigureFromFactory(bps) ==
    /\ ~paused
    /\ bps <= 10000
    /\ treasury' = Treasury
    /\ fee_bps' = bps
    /\ UNCHANGED <<circle, allowlist, paused, unconfigured>>
=============================================================================
