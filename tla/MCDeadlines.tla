----------------------------- MODULE MCDeadlines -----------------------------
(***************************************************************************)
(* Circles with a contribution window: late contributions and their        *)
(* penalties, sweeps that strike the absent, reports of late members,      *)
(* exits of members, and the time-weighted payouts of a RANDOM circle.     *)
(***************************************************************************)
EXTENDS Circle, TLC

\* The organizer, who is also the admin, does not join; the others are alike.
Players == Address \ {Organizer}
MemberSymmetry == Permutations(Players)

ContributeNext == \E m \in Players, amount \in Amounts, r \in Rounds : Contribute(m, amount, r)
SweepNext == \E r \in Rounds : CheckContributionDeadline(r)
TriggerNext == \E m \in Address, r \in Rounds : TriggerPayout(m, r)

DeadlineNext ==
    \/ \E m \in Players : Join(m) \/ (IsMember(members, m) /\ Exit(m))
    \/ \E m \in Players, r \in Rounds : ReportLate(m, r)
    \/ ContributeNext \/ SweepNext \/ TriggerNext
    \/ Tick

DeadlineSpec == Init /\ [][DeadlineNext]_vars

\* Time passes, and somebody sweeps a round whose window has closed: the sweep
\* needs no authorization.  Nobody else has to do anything, and nobody exits.
FairNext ==
    \/ \E m \in Players : Join(m)
    \/ ContributeNext \/ SweepNext \/ TriggerNext
    \/ Tick

FairSpec == Init /\ [][FairNext]_vars /\ WF_vars(Tick) /\ WF_vars(SweepNext)
=============================================================================
