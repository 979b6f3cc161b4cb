--------------------------- MODULE CircleMembers ---------------------------
(***************************************************************************)
(* Entry points that change who is in the circle and in which standing:    *)
(* join, batch_invite, exit, report_late and cancel_circle.                *)
(* min_moi_score is taken to be 0: the circle looks scores up in its own   *)
(* storage, where they are all 0 until a contribution is recorded.         *)
(***************************************************************************)
EXTENDS CircleState

\* What no entry point of this module touches.
outsideRoster == <<roundVars, fee_ledger, scheduled, payoutVars, auctionVars,
                   dispute, configVars, sideVars, now>>

\* The circle starts in the step that fills it.
StartWhenFull(count) ==
    LET starts == count >= MaxMembers /\ circle.status = "PENDING"
    IN  circle' = [circle EXCEPT !.member_count = count,
                                 !.status = IF starts THEN "ACTIVE" ELSE @,
                                 !.started_at = IF starts THEN now ELSE @]

Join(m) ==
    /\ ~paused
    /\ circle.status = "PENDING"
    /\ allowlist = {} \/ m \in allowlist
    /\ ~IsMember(members, m)
    /\ Len(members) < MaxMembers
    /\ Holds(m, Collateral)
    /\ balance' = Moved(balance, m, Self, Collateral)
    /\ members' = Append(members, NewMember(m))
    /\ member_status' = [member_status EXCEPT ![m] = "ACTIVE"]
    /\ StartWhenFull(circle.member_count + 1)
    /\ UNCHANGED <<round_strikes, outsideRoster>>

\* batch_invite takes no collateral and does not consult the allowlist.
BatchInvite(caller, invited) ==
    /\ ~paused
    /\ caller = Organizer
    /\ circle.status \notin {"DISPUTED", "COMPLETED"}
    /\ \A i \in DOMAIN invited :
          /\ ~IsMember(members, invited[i])
          /\ \A j \in DOMAIN invited : invited[i] = invited[j] => i = j
    /\ Len(members) + Len(invited) <= MaxMembers
    /\ members' = members \o [i \in 1..Len(invited) |-> NewMember(invited[i])]
    /\ member_status' = [a \in Address |->
          IF \E i \in DOMAIN invited : invited[i] = a THEN "ACTIVE" ELSE member_status[a]]
    /\ StartWhenFull(Len(members) + Len(invited))
    /\ UNCHANGED <<round_strikes, balance, outsideRoster>>

\* exit_circle.  An address that is not a member falls through the loop: its
\* status entry is written and it is paid the collateral all the same.
MutMayExit(m) == TRUE
MayExit(m) == \A i \in MemberAt(members, m) : members[i].status = "ACTIVE"

Exit(m) ==
    /\ ~paused
    /\ circle.status # "COMPLETED"
    /\ MayExit(m)
    /\ Holds(Self, Collateral)
    /\ members' = [i \in DOMAIN members |->
          IF members[i].address = m THEN [members[i] EXCEPT !.status = "EXITED"]
                                    ELSE members[i]]
    /\ member_status' = [member_status EXCEPT ![m] = "EXITED"]
    /\ balance' = Moved(balance, Self, m, Collateral)
    /\ UNCHANGED <<circle, round_strikes, outsideRoster>>

\* report_late adds two strikes (a wrapping and then a checked increment), and
\* nothing stops it from being called again for the same late contribution.
\* StrikeBound keeps the counters finite.
ReportLate(late, r) ==
    /\ ~paused
    /\ Running
    /\ \E c \in contributions : c.member = late /\ c.round = r /\ ~c.on_time
    /\ \A i \in MemberAt(members, late) : members[i].strikes < StrikeBound
    /\ LET Reported(m) ==
             [m EXCEPT !.strikes = @ + 2,
                       !.status = IF m.strikes + 2 >= MaxStrikes THEN "DEFAULTED" ELSE @]
           defaults == \E i \in MemberAt(members, late) : members[i].strikes + 2 >= MaxStrikes
       IN  /\ members' = [i \in DOMAIN members |->
                 IF members[i].address = late THEN Reported(members[i]) ELSE members[i]]
           /\ member_status' =
                 IF defaults THEN [member_status EXCEPT ![late] = "DEFAULTED"]
                             ELSE member_status
    /\ round_strikes' =
          [round_strikes EXCEPT ![r][late] = @ + Cardinality(MemberAt(members, late))]
    /\ UNCHANGED <<circle, balance, outsideRoster>>

\* cancel_circle and cancel.  Members keep their ACTIVE standing.
CancelCircle(caller) ==
    /\ ~paused
    /\ caller = Organizer
    /\ circle.status = "PENDING"
    /\ Holds(Self, Collateral * Cardinality(ActiveIn(members)))
    /\ balance' = PaidOut(balance,
          [a \in Account |-> IF IsActiveMember(members, a) THEN Collateral ELSE 0],
          Collateral * Cardinality(ActiveIn(members)))
    /\ circle' = [circle EXCEPT !.status = "CANCELLED"]
    /\ UNCHANGED <<rosterVars, outsideRoster>>
=============================================================================
