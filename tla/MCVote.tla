------------------------------- MODULE MCVote -------------------------------
(***************************************************************************)
(* A voting circle whose organizer triggers the payouts and does not join; *)
(* members may exit between their vote and the settlement.                 *)
(***************************************************************************)
EXTENDS Circle, TLC

Players == Address \ {Organizer}
MemberSymmetry == Permutations(Players)

\* One member of the full circle leaves, at any time.
OneLeaves(m) == IsMember(members, m) /\ Cardinality(ActiveIn(members)) = MaxMembers

\* A round is paid in before it is voted on; the order makes no difference to votes.
Voteless(r) == \A v \in votes : v.round # r

VoteNext ==
    \/ \E m \in Players : Join(m) \/ (OneLeaves(m) /\ Exit(m))
    \/ \E m \in Players, amount \in Amounts, r \in Rounds : Voteless(r) /\ Contribute(m, amount, r)
    \/ \E v, m \in Players, r \in Rounds : VotePayout(v, m, r)
    \/ \E r \in Rounds : TriggerPayout(Organizer, r)

VoteSpec == Init /\ [][VoteNext]_vars
=============================================================================
