---------------------------- MODULE CircleFunds ----------------------------
(***************************************************************************)
(* The circle's money, for every value of the constants.  Whatever a step  *)
(* moves, it moves between accounts of the token the circle uses, and no   *)
(* account is overdrawn: the lemmas of the middle part say, operation by   *)
(* operation, which accounts gain what (Flows).  Types follow, and what    *)
(* the code promises about the tokens: payouts reach the members, and      *)
(* operators withdraw no more than the daily limits.  The last parts add   *)
(* up what the circle owes, which is in the circle's account but for the   *)
(* calls that Leaks names, and follow the deposits back to the bidders.    *)
(* The first part is about the copy of the members' standings.             *)
(***************************************************************************)
EXTENDS CircleRefinement
-----------------------------------------------------------------------------
(* Standings: the member list and its constant-time copy.                  *)

StandingsOK == member_status \in [Address -> MemberStatus \cup {"NONE"}]

SameStandings ==
    /\ UNCHANGED member_status
    /\ DOMAIN members' = DOMAIN members
    /\ \A i \in DOMAIN members : /\ members'[i].address = members[i].address
                                 /\ members'[i].status = members[i].status

\* The resolution that defaults a member without refreshing the copy.
Penalizes == \E a \in Address : ResolveDispute(a, "PENALIZE")

\* A refund rewrites the member list, not the standings.
LEMMA RefundKeepsStandings ==
    ASSUME IInv, RefundMembers, UNCHANGED member_status
    PROVE  SameStandings
<1>1. members' = [i \in DOMAIN members |-> [members[i] EXCEPT !.total_contributions = 0]]
  BY Zenon DEF RefundMembers
<1>2. \A i \in DOMAIN members : members[i] \in Member
  BY MemberTypes
<1> QED
  BY <1>1, <1>2 DEF SameStandings, Member

LEMMA NextStandings ==
    ASSUME IInv, [Next]_vars
    PROVE  \/ SameStandings
           \/ \E m \in Address : Join(m) \/ Exit(m)
           \/ \E m \in Address, invited \in Invitations : BatchInvite(m, invited)
           \/ \E m \in Address, r \in Rounds : ReportLate(m, r)
           \/ \E r \in Rounds : CheckContributionDeadline(r)
           \/ Penalizes
<1>1. ASSUME UNCHANGED <<members, member_status>>  PROVE SameStandings
  BY <1>1 DEF SameStandings
<1>2. CASE UNCHANGED vars \/ Tick
  BY <1>1, <1>2 DEF vars, Tick, rosterVars
<1>3. ASSUME NEW m, CancelCircle(m)  PROVE SameStandings
  BY <1>1, <1>3, Zenon DEF CancelCircle, rosterVars
<1>4. CASE BidNext
  BY <1>1, <1>4, BidNextFrame DEF outsideAuction, rosterVars
<1>5. CASE RoundNext
  <2>1. ASSUME NEW m, NEW amount, NEW r, Contribute(m, amount, r)  PROVE SameStandings
    BY <1>1, <2>1, Zenon DEF Contribute, rosterVars
  <2>2. ASSUME NEW m, NEW r, TriggerPayout(m, r) \/ SchedulePayout(m, r)  PROVE SameStandings
    BY <1>1, <2>2, Zenon DEF TriggerPayout, SchedulePayout, rosterVars
  <2>3. ASSUME NEW m, NEW recipients, NEW amounts, NEW r, BatchPayout(m, recipients, amounts, r)
        PROVE  SameStandings
    BY <1>1, <2>3, Zenon DEF BatchPayout, rosterVars
  <2> QED
    BY <1>5, <2>1, <2>2, <2>3, Zenon DEF RoundNext
<1>6. CASE AdminNext
  <2>1. ASSUME NEW a, RaiseDispute(a)  PROVE SameStandings
    BY <1>1, <2>1, Zenon DEF RaiseDispute, rosterVars
  <2>2. ASSUME NEW a \in Address, NEW resolution, ResolveDispute(a, resolution)
        PROVE  SameStandings \/ Penalizes
    <3>1. /\ UNCHANGED member_status
          /\ \/ UNCHANGED members
             \/ resolution = "PENALIZE"
             \/ RefundMembers
      BY <2>2, Zenon DEF ResolveDispute
    <3> QED
      BY <1>1, <2>2, <3>1, RefundKeepsStandings, Zenon DEF Penalizes
  <2>3. ASSUME NEW a, NEW x, \/ SetFeeBps(a, x) \/ SetAllowlist(a, x) \/ SetToken(a, x)
                             \/ WithdrawTreasury(a, x) \/ RegisterReferral(a, x)
                             \/ UpdateStreak(a, x)
        PROVE  SameStandings
    BY <1>1, <2>3, SMT DEF SetFeeBps, SetAllowlist, SetToken, WithdrawTreasury,
       RegisterReferral, UpdateStreak, unconfigured, rosterVars
  <2>4. ASSUME NEW a, Pause(a) \/ Unpause(a) \/ SetTreasury(a) \/ ClaimBonus(a)
                      \/ ConfigureFromFactory(a)
        PROVE  SameStandings
    BY <1>1, <2>4, SMT DEF Pause, Unpause, SetTreasury, ClaimBonus, ConfigureFromFactory,
       unconfigured, rosterVars
  <2> QED
    BY <1>6, <2>1, <2>2, <2>3, <2>4, Zenon DEF AdminNext
<1> QED
  BY <1>2, <1>3, <1>4, <1>5, <1>6, Zenon DEF Next, MemberNext

\* The copy is written for the addresses whose standing changes.
LEMMA JoinCopies ==
    ASSUME IInv, StandingsOK, NEW m \in Address, Join(m)
    PROVE  StandingsOK' /\ (StatusCacheAgrees => StatusCacheAgrees')
<1>1. /\ ~IsMember(members, m) /\ members' = Append(members, NewMember(m))
      /\ member_status' = [member_status EXCEPT ![m] = "ACTIVE"]
  BY Zenon DEF Join
<1>2. NewMember(m) \in Member /\ NewMember(m).address = m /\ NewMember(m).status = "ACTIVE"
  BY NewMemberType DEF NewMember
<1>3. /\ members \in Seq(Member) /\ Len(members) \in Nat /\ DOMAIN members = 1..Len(members)
      /\ \A i \in DOMAIN members : members[i].address \in Address
  BY LenProperties, MemberTypes DEF IInv, RotationTypeOK, Member
<1>4. /\ members' \in Seq(Member) /\ Len(members') = Len(members) + 1
      /\ \A i \in 1..Len(members) : members'[i] = members[i]
      /\ members'[Len(members) + 1] = NewMember(m)
  BY <1>1, <1>2, <1>3, AppendProperties
<1>5. DOMAIN members' = 1..(Len(members) + 1)
  BY <1>4, LenProperties
<1>6. \A i \in DOMAIN members : members[i].address # m
  BY <1>1 DEF IsMember, MemberAt
<1>7. StandingsOK'
  BY <1>1 DEF StandingsOK, MemberStatus
<1>8. ASSUME StatusCacheAgrees, NEW i \in DOMAIN members'
      PROVE  member_status'[members'[i].address] = members'[i].status
  <2>1. CASE i \in DOMAIN members
    BY <1>1, <1>3, <1>4, <1>6, <1>8, <2>1 DEF StatusCacheAgrees, StandingsOK
  <2>2. CASE i = Len(members) + 1
    BY <1>1, <1>2, <1>4, <2>2 DEF StandingsOK
  <2> QED
    BY <1>3, <1>5, <2>1, <2>2
<1> QED
  BY <1>7, <1>8 DEF StatusCacheAgrees

LEMMA BatchInviteCopies ==
    ASSUME IInv, StandingsOK, NEW caller, NEW invited \in Seq(Address),
           BatchInvite(caller, invited)
    PROVE  StandingsOK' /\ (StatusCacheAgrees => StatusCacheAgrees')
<1> DEFINE new == [i \in 1..Len(invited) |-> NewMember(invited[i])]
<1>1. /\ \A i \in DOMAIN invited : ~IsMember(members, invited[i])
      /\ members' = members \o new
      /\ member_status' = [a \in Address |->
            IF \E i \in DOMAIN invited : invited[i] = a THEN "ACTIVE" ELSE member_status[a]]
  BY Zenon DEF BatchInvite
<1>2. /\ Len(invited) \in Nat /\ DOMAIN invited = 1..Len(invited)
      /\ \A i \in 1..Len(invited) : invited[i] \in Address
  BY LenProperties, ElementOfSeq
<1>3. /\ members \in Seq(Member) /\ Len(members) \in Nat /\ DOMAIN members = 1..Len(members)
      /\ \A i \in DOMAIN members : members[i].address \in Address
  BY LenProperties, MemberTypes DEF IInv, RotationTypeOK, Member
<1>4. \A i \in 1..Len(invited) : /\ new[i] \in Member /\ new[i].address = invited[i]
                                 /\ new[i].status = "ACTIVE"
  BY <1>2, NewMemberType DEF NewMember
<1>5. new \in Seq(Member) /\ Len(new) = Len(invited)
  <2>1. new \in [1..Len(invited) -> Member]
    BY <1>4
  <2> HIDE DEF new
  <2>2. new \in Seq(Member)
    BY <1>2, <2>1, SeqDef
  <2> QED
    BY <1>2, <2>1, <2>2, LenProperties
<1> HIDE DEF new
<1>6. /\ Len(members') = Len(members) + Len(invited)
      /\ members' \in Seq(Member)
      /\ \A i \in 1..(Len(members) + Len(invited)) :
            members'[i] = IF i <= Len(members) THEN members[i] ELSE new[i - Len(members)]
  <2>1. /\ members \o new \in Seq(Member)
        /\ Len(members \o new) = Len(members) + Len(new)
        /\ \A i \in 1..(Len(members) + Len(new)) :
              (members \o new)[i] = IF i <= Len(members) THEN members[i] ELSE new[i - Len(members)]
    BY <1>3, <1>5, ConcatProperties, Zenon
  <2> QED
    BY <1>1, <1>5, <2>1
<1>7. DOMAIN members' = 1..(Len(members) + Len(invited))
  BY <1>6, LenProperties
<1>8. StandingsOK'
  BY <1>1 DEF StandingsOK, MemberStatus
<1>9. ASSUME StatusCacheAgrees, NEW i \in DOMAIN members'
      PROVE  member_status'[members'[i].address] = members'[i].status
  <2>1. CASE i <= Len(members)
    <3>1. i \in DOMAIN members /\ members'[i] = members[i]
      BY <1>2, <1>3, <1>6, <1>7, <2>1
    <3>2. \A j \in DOMAIN invited : invited[j] # members[i].address
      BY <1>1, <3>1 DEF IsMember, MemberAt
    <3> QED
      BY <1>1, <1>3, <1>9, <3>1, <3>2 DEF StatusCacheAgrees
  <2>2. CASE i > Len(members)
    <3>1. i - Len(members) \in 1..Len(invited) /\ members'[i] = new[i - Len(members)]
      BY <1>2, <1>3, <1>6, <1>7, <2>2
    <3>2. /\ members'[i].address = invited[i - Len(members)]
          /\ members'[i].status = "ACTIVE"
          /\ members'[i].address \in Address
      BY <1>2, <1>4, <3>1
    <3> QED
      BY <1>1, <1>2, <3>1, <3>2
  <2> QED
    BY <1>2, <1>3, <1>7, <2>1, <2>2
<1> QED
  BY <1>8, <1>9 DEF StatusCacheAgrees

\* The standing of one address changes, in the list wherever it is, and in the copy.
LEMMA OneStandingCopied ==
    ASSUME IInv, StandingsOK, NEW m \in Address, NEW st \in MemberStatus,
           member_status' = [member_status EXCEPT ![m] = st],
           DOMAIN members' = DOMAIN members,
           \A i \in DOMAIN members :
              /\ members'[i].address = members[i].address
              /\ members'[i].status = IF members[i].address = m THEN st ELSE members[i].status
    PROVE  StandingsOK' /\ (StatusCacheAgrees => StatusCacheAgrees')
<1>1. \A i \in DOMAIN members : members[i].address \in Address
  BY MemberTypes DEF Member
<1> QED
  BY <1>1 DEF StandingsOK, StatusCacheAgrees

LEMMA ExitCopies ==
    ASSUME IInv, StandingsOK, NEW m \in Address, Exit(m)
    PROVE  StandingsOK' /\ (StatusCacheAgrees => StatusCacheAgrees')
<1>1. /\ members' = [i \in DOMAIN members |->
            IF members[i].address = m THEN [members[i] EXCEPT !.status = "EXITED"]
                                      ELSE members[i]]
      /\ member_status' = [member_status EXCEPT ![m] = "EXITED"]
  BY Zenon DEF Exit
<1>2. \A i \in DOMAIN members : members[i] \in Member
  BY MemberTypes
<1>3. \A i \in DOMAIN members :
         /\ members'[i].address = members[i].address
         /\ members'[i].status = IF members[i].address = m THEN "EXITED" ELSE members[i].status
  BY <1>1, <1>2 DEF Member
<1> QED
  BY <1>1, <1>3, OneStandingCopied DEF MemberStatus

LEMMA ReportLateCopies ==
    ASSUME IInv, StandingsOK, NEW late \in Address, NEW r, ReportLate(late, r)
    PROVE  StandingsOK' /\ (StatusCacheAgrees => StatusCacheAgrees')
<1> DEFINE Reported(m) ==
             [m EXCEPT !.strikes = @ + 2,
                       !.status = IF m.strikes + 2 >= MaxStrikes THEN "DEFAULTED" ELSE @]
           defaults == \E i \in MemberAt(members, late) : members[i].strikes + 2 >= MaxStrikes
<1>1. /\ members' = [i \in DOMAIN members |->
            IF members[i].address = late THEN Reported(members[i]) ELSE members[i]]
      /\ member_status' =
            IF defaults THEN [member_status EXCEPT ![late] = "DEFAULTED"] ELSE member_status
  BY Zenon DEF ReportLate
<1>2. \A i \in DOMAIN members : members[i] \in Member
  BY MemberTypes
<1>3. ASSUME NEW m \in Member
      PROVE  /\ Reported(m).address = m.address
             /\ Reported(m).status = IF m.strikes + 2 >= MaxStrikes THEN "DEFAULTED" ELSE m.status
  BY DEF Member
<1> HIDE DEF Reported
<1>4. DOMAIN members' = DOMAIN members
  BY <1>1
<1>5. \A i \in DOMAIN members :
         /\ members'[i].address = members[i].address
         /\ members[i].address = late =>
              members'[i].status = IF members[i].strikes + 2 >= MaxStrikes THEN "DEFAULTED"
                                   ELSE members[i].status
         /\ members[i].address # late => members'[i].status = members[i].status
  BY <1>1, <1>2, <1>3
<1>6. CASE defaults
  <2>1. \A i \in DOMAIN members :
           members'[i].status = IF members[i].address = late THEN "DEFAULTED"
                                ELSE members[i].status
    BY <1>5, <1>6 DEF MemberAt, IInv, Roster
  <2> QED
    BY <1>1, <1>4, <1>5, <1>6, <2>1, OneStandingCopied DEF MemberStatus
<1>7. CASE ~defaults
  <2>1. \A i \in DOMAIN members : members'[i].status = members[i].status
    BY <1>5, <1>7 DEF MemberAt
  <2> QED
    BY <1>1, <1>4, <1>5, <1>7, <2>1 DEF StandingsOK, StatusCacheAgrees
<1> QED
  BY <1>6, <1>7

LEMMA SweepCopies ==
    ASSUME IInv, StandingsOK, NEW r, CheckContributionDeadline(r)
    PROVE  StandingsOK' /\ (StatusCacheAgrees => StatusCacheAgrees')
<1> DEFINE Dropped(i) == i \in Awaiting(members, r) /\ members[i].strikes + 1 >= MaxStrikes
<1>1. members' = Swept(r) /\ member_status' = StatusAfterSweep(r)
  BY Zenon DEF CheckContributionDeadline
<1>2. \A i \in DOMAIN members : members[i] \in Member
  BY MemberTypes
<1>3. Awaiting(members, r) \subseteq DOMAIN members
  BY DEF Awaiting, ActiveIn
<1>4. DOMAIN members' = DOMAIN members
  BY <1>1 DEF Swept
<1>5. ASSUME NEW m \in Member, NEW st \in {"DEFAULTED", m.status}
      PROVE  LET n == [m EXCEPT !.strikes = @ + 1, !.status = st]
             IN  n.address = m.address /\ n.status = st
  BY DEF Member
<1>6. \A i \in DOMAIN members :
         /\ members'[i].address = members[i].address
         /\ members'[i].status = IF Dropped(i) THEN "DEFAULTED" ELSE members[i].status
  <2> SUFFICES ASSUME NEW i \in DOMAIN members
               PROVE  /\ members'[i].address = members[i].address
                      /\ members'[i].status = IF Dropped(i) THEN "DEFAULTED" ELSE members[i].status
    OBVIOUS
  <2> DEFINE st == IF members[i].strikes + 1 >= MaxStrikes THEN "DEFAULTED" ELSE members[i].status
  <2>1. members'[i] = IF i \in Awaiting(members, r)
                      THEN [members[i] EXCEPT !.strikes = @ + 1, !.status = st] ELSE members[i]
    BY <1>1 DEF Swept
  <2>2. i \in Awaiting(members, r) =>
           members'[i].address = members[i].address /\ members'[i].status = st
    BY <1>2, <1>5, <2>1
  <2> QED
    BY <2>1, <2>2
<1>7. member_status' = [a \in Address |->
         IF \E i \in DOMAIN members : members[i].address = a /\ Dropped(i)
         THEN "DEFAULTED" ELSE member_status[a]]
  BY <1>1, <1>3 DEF StatusAfterSweep
<1> HIDE DEF Dropped
<1>8. StandingsOK'
  BY <1>7 DEF StandingsOK, MemberStatus
<1>9. ASSUME StatusCacheAgrees, NEW i \in DOMAIN members'
      PROVE  member_status'[members'[i].address] = members'[i].status
  <2>1. /\ \A j \in DOMAIN members : members[j].address = members[i].address => j = i
        /\ members[i].address \in Address
    BY <1>2, <1>4 DEF IInv, Roster, Member
  <2> QED
    BY <1>4, <1>6, <1>7, <1>9, <2>1 DEF StatusCacheAgrees
<1> QED
  BY <1>8, <1>9 DEF StatusCacheAgrees

LEMMA NextKeepsStandings ==
    ASSUME IInv, StandingsOK, [Next]_vars
    PROVE  /\ StandingsOK'
           /\ StatusCacheAgrees /\ ~Penalizes => StatusCacheAgrees'
<1>1. CASE SameStandings
  BY <1>1 DEF SameStandings, StandingsOK, StatusCacheAgrees
<1>2. CASE Penalizes
  <2>1. UNCHANGED member_status
    BY <1>2, Zenon DEF Penalizes, ResolveDispute
  <2> QED
    BY <1>2, <2>1 DEF StandingsOK
<1>3. ASSUME NEW m \in Address, NEW invited \in Invitations, BatchInvite(m, invited)
      PROVE  StandingsOK' /\ (StatusCacheAgrees => StatusCacheAgrees')
  BY <1>3, InvitationTypes, BatchInviteCopies
<1> QED
  BY <1>1, <1>2, <1>3, NextStandings, JoinCopies, ExitCopies, ReportLateCopies, SweepCopies, Zenon

LEMMA StandingsInvariant == Spec => []StandingsOK
<1>1. Init => StandingsOK
  BY DEF Init, StandingsOK
<1>2. IInv /\ StandingsOK /\ [Next]_vars => StandingsOK'
  BY NextKeepsStandings
<1> QED
  BY <1>1, <1>2, RotationInvariant, PTL DEF Spec

\* As long as no dispute is resolved by a penalty, the status that contribute reads
\* is the one in the member list, which payouts and exits read, whoever joins, is
\* invited, exits (a member or not), is reported or swept, in any order.  The
\* penalty alone defaults a member and leaves its copy behind (resolve_dispute).
THEOREM StatusesAgree == Spec /\ [][~Penalizes]_vars => []StatusCacheAgrees
<1>1. Init => StatusCacheAgrees
  BY DEF Init, StatusCacheAgrees
<1>2. IInv /\ StandingsOK /\ StatusCacheAgrees /\ [Next]_vars /\ [~Penalizes]_vars
         => StatusCacheAgrees'
  <2>1. UNCHANGED vars => SameStandings
    BY DEF vars, rosterVars, SameStandings
  <2>2. SameStandings /\ StatusCacheAgrees => StatusCacheAgrees'
    BY DEF SameStandings, StatusCacheAgrees
  <2> QED
    BY <2>1, <2>2, NextKeepsStandings
<1> QED
  BY <1>1, <1>2, RotationInvariant, StandingsInvariant, PTL DEF Spec

-----------------------------------------------------------------------------
(* The types of the entries that no invariant so far speaks of.            *)

Vote == [voter : Address, vote_for : Address, round : Rounds]
Dispute == [raised_by : Address, resolution : Resolutions \cup {"NONE"}]

EntriesOK ==
    /\ scheduled \subseteq Rounds
    /\ votes \subseteq Vote
    /\ \A r \in Rounds : \E d : dutch[r] \subseteq {d}
    /\ dispute \subseteq Dispute
    /\ withdrawal \in [day : Nat, amount : Nat]
    /\ referrals \subseteq Address \X Address
    /\ treasury \in {NoOne, Treasury}
    /\ allowlist \subseteq Address /\ paused \in BOOLEAN

entries == <<scheduled, votes, dutch, dispute, withdrawal, referrals, treasury, allowlist, paused>>

LEMMA SameEntries ==
    ASSUME EntriesOK, UNCHANGED entries
    PROVE  EntriesOK'
BY SMT DEF EntriesOK, entries

LEMMA MemberNextEntries ==
    ASSUME IInv, MemberNext
    PROVE  UNCHANGED entries
BY MemberNextFrame DEF entries, outsideRoster, auctionVars, configVars, sideVars

LEMMA RoundNextEntries ==
    ASSUME EntriesOK, RoundNext
    PROVE  EntriesOK'
<1>1. ASSUME NEW m, NEW amount, NEW r, Contribute(m, amount, r)  PROVE UNCHANGED entries
  BY <1>1, Zenon DEF Contribute, entries, auctionVars, configVars
<1>2. ASSUME NEW m, NEW r \in Rounds, SchedulePayout(m, r)  PROVE EntriesOK'
  <2>1. /\ scheduled' = scheduled \cup {r}
        /\ UNCHANGED <<auctionVars, dispute, configVars, sideVars>>
    BY <1>2, Zenon DEF SchedulePayout
  <2> QED
    BY <2>1 DEF EntriesOK, auctionVars, configVars, sideVars
<1>3. ASSUME NEW ms, NEW r, SettleRound(ms, r)  PROVE UNCHANGED entries
  BY <1>3, Zenon DEF SettleRound, entries, configVars, sideVars
<1>4. ASSUME NEW m, NEW recipients, NEW amounts, NEW r, BatchPayout(m, recipients, amounts, r)
      PROVE  UNCHANGED entries
  BY <1>4, Zenon DEF BatchPayout, entries, auctionVars, configVars, sideVars
<1> QED
  BY <1>1, <1>2, <1>3, <1>4, SameEntries, Zenon
     DEF RoundNext, TriggerPayout, CheckContributionDeadline

\* A Dutch auction is written in place of the one before it.
LEMMA OneAuctionPerRound ==
    ASSUME AuctionTypeOK, EntriesOK, NEW r \in Rounds, NEW new,
           dutch' = [dutch EXCEPT ![r] = {new}],
           UNCHANGED <<scheduled, votes, dispute, withdrawal, referrals, treasury, allowlist,
                       paused>>
    PROVE  EntriesOK'
<1>1. /\ dutch'[r] = {new}
      /\ \A q \in Rounds \ {r} : dutch'[q] = dutch[q]
  BY DEF AuctionTypeOK
<1>2. \A q \in Rounds : \E d : dutch'[q] \subseteq {d}
  <2> SUFFICES ASSUME NEW q \in Rounds  PROVE \E d : dutch'[q] \subseteq {d}
    OBVIOUS
  <2>1. CASE q = r
    BY <1>1, <2>1, Zenon
  <2>2. CASE q # r
    BY <1>1, <2>2, Zenon DEF EntriesOK
  <2> QED
    BY <2>1, <2>2
<1> QED
  BY <1>2 DEF EntriesOK

LEMMA BidNextEntries ==
    ASSUME AuctionTypeOK, EntriesOK, BidNext
    PROVE  EntriesOK'
<1>1. ASSUME UNCHANGED outsideAuction
      PROVE  UNCHANGED <<scheduled, dispute, withdrawal, referrals, treasury, allowlist, paused>>
  BY <1>1 DEF outsideAuction, configVars, sideVars
<1>2. ASSUME NEW a, NEW bips, NEW r, PlaceBid(a, bips, r)  PROVE UNCHANGED entries
  BY <1>2, SMT DEF PlaceBid, entries, outsideAuction, configVars, sideVars
<1>3. ASSUME NEW r, NEW limit, RefundLosingBids(r, limit)  PROVE UNCHANGED entries
  BY <1>3, Zenon DEF RefundLosingBids, entries, outsideAuction, configVars, sideVars
<1>4. ASSUME NEW a, CancelAuction(a)  PROVE UNCHANGED entries
  BY <1>4, Zenon DEF CancelAuction, entries, outsideAuction, configVars, sideVars
<1>5. ASSUME NEW a, NEW r \in Rounds, NEW config, InitDutchAuction(a, r, config)  PROVE EntriesOK'
  <2> DEFINE new == [config |-> config, start_ledger |-> now, resolved |-> FALSE]
  <2>1. dutch' = [dutch EXCEPT ![r] = {new}] /\ UNCHANGED <<votes, outsideAuction>>
    BY <1>5, SMT DEF InitDutchAuction
  <2> HIDE DEF new
  <2> QED
    BY <1>1, <2>1, OneAuctionPerRound
<1>6. ASSUME NEW a, NEW r \in Rounds, DutchAuctionBid(a, r)  PROVE EntriesOK'
  <2>1. PICK new : dutch' = [dutch EXCEPT ![r] = {new}]
    BY <1>6, Zenon DEF DutchAuctionBid
  <2>2. UNCHANGED <<votes, outsideAuction>>
    BY <1>6, Zenon DEF DutchAuctionBid
  <2> QED
    BY <1>1, <2>1, <2>2, OneAuctionPerRound
<1>7. ASSUME NEW a \in Address, NEW b \in Address, NEW r \in Rounds, VotePayout(a, b, r)
      PROVE  EntriesOK'
  <2>1. /\ votes' = votes \cup {[voter |-> a, vote_for |-> b, round |-> r]}
        /\ UNCHANGED <<dutch, outsideAuction>>
    BY <1>7, Zenon DEF VotePayout
  <2>2. [voter |-> a, vote_for |-> b, round |-> r] \in Vote
    BY DEF Vote
  <2>3. votes' \subseteq Vote
    BY <2>1, <2>2 DEF EntriesOK
  <2> QED
    BY <1>1, <2>1, <2>3 DEF EntriesOK
<1> QED
  BY <1>2, <1>3, <1>4, <1>5, <1>6, <1>7, SameEntries, Zenon DEF BidNext

LEMMA DisputeEntries ==
    ASSUME EntriesOK, NEW d, d \in Dispute, dispute' = {d},
           UNCHANGED <<configVars, sideVars, outsideAdmin>>
    PROVE  EntriesOK'
BY DEF EntriesOK, configVars, sideVars, outsideAdmin, auctionVars

LEMMA AdminNextEntries ==
    ASSUME IInv, EntriesOK, AdminNext
    PROVE  EntriesOK'
<1>1. UNCHANGED <<scheduled, votes, dutch>>
  BY AdminNextFrame DEF outsideAdmin, auctionVars
<1>2. ASSUME NEW a \in Address, RaiseDispute(a)  PROVE EntriesOK'
  <2>1. /\ dispute' = {[raised_by |-> a, resolution |-> "NONE"]}
        /\ UNCHANGED <<configVars, sideVars, outsideAdmin>>
    BY <1>2, Zenon DEF RaiseDispute
  <2>2. [raised_by |-> a, resolution |-> "NONE"] \in Dispute
    BY DEF Dispute
  <2> QED
    BY <2>1, <2>2, DisputeEntries
<1>3. ASSUME NEW a, NEW resolution \in Resolutions, ResolveDispute(a, resolution)  PROVE EntriesOK'
  <2>1. PICK d \in dispute : dispute' = {[d EXCEPT !.resolution = resolution]}
    BY <1>3, Zenon DEF ResolveDispute
  <2>2. UNCHANGED <<configVars, sideVars, outsideAdmin>>
    BY <1>3, Zenon DEF ResolveDispute
  <2>3. d \in Dispute
    BY DEF EntriesOK
  <2>4. [d EXCEPT !.resolution = resolution] \in Dispute
    BY <2>3 DEF Dispute
  <2> QED
    BY <2>1, <2>2, <2>4, DisputeEntries
<1>4. ASSUME NEW a, NEW amount \in Nat, WithdrawTreasury(a, amount)  PROVE EntriesOK'
  <2>1. withdrawal' = [day |-> Today, amount |-> WithdrawnToday + amount]
    BY <1>4, Zenon DEF WithdrawTreasury
  <2>2. UNCHANGED <<dispute, configVars, referrals>>
    BY <1>4, Zenon DEF WithdrawTreasury
  <2>3. Today \in Nat
    <3>1. now \in Nat /\ DaySeconds \in Nat \ {0}
      BY ConfigAssumption DEF IInv, RotationTypeOK
    <3> QED
      BY <3>1 DEF Today
  <2>4. WithdrawnToday \in Nat
    BY DEF WithdrawnToday, EntriesOK
  <2>5. withdrawal' \in [day : Nat, amount : Nat]
    BY <2>1, <2>3, <2>4
  <2> QED
    BY <1>1, <2>2, <2>5 DEF EntriesOK, configVars
<1>5. ASSUME NEW a \in Address, NEW b \in Address, RegisterReferral(a, b)  PROVE EntriesOK'
  <2>1. /\ referrals' = referrals \cup {<<a, b>>}
        /\ UNCHANGED <<dispute, configVars, withdrawal>>
    BY <1>5, Zenon DEF RegisterReferral
  <2> QED
    BY <1>1, <2>1 DEF EntriesOK, configVars
<1>6. ASSUME NEW a, NEW r, UpdateStreak(a, r)  PROVE UNCHANGED entries
  BY <1>1, <1>6 DEF UpdateStreak, entries, configVars
<1>7. ASSUME NEW a, ClaimBonus(a)  PROVE UNCHANGED entries
  BY <1>1, <1>7 DEF ClaimBonus, entries, configVars, sideVars
<1>8. ASSUME NEW a, NEW x, SetFeeBps(a, x) \/ SetToken(a, x)  PROVE UNCHANGED entries
  BY <1>1, <1>8 DEF SetFeeBps, SetToken, unconfigured, entries, sideVars
<1>9. ASSUME NEW a, Pause(a) \/ Unpause(a) \/ SetTreasury(a) \/ ConfigureFromFactory(a)
      PROVE  EntriesOK'
  <2>1. /\ UNCHANGED <<dispute, withdrawal, referrals, allowlist>>
        /\ treasury' \in {Treasury, treasury}
    BY <1>9, SMT DEF Pause, Unpause, SetTreasury, ConfigureFromFactory, unconfigured, sideVars
  <2>2. paused' = TRUE \/ paused' = FALSE \/ UNCHANGED paused
    <3>1. ConfigureFromFactory(a) => UNCHANGED paused
      BY SMT DEF ConfigureFromFactory
    <3> QED
      BY <1>9, <3>1, Zenon DEF Pause, Unpause, SetTreasury
  <2>3. paused' \in BOOLEAN
    BY <2>2, Zenon DEF EntriesOK
  <2> QED
    BY <1>1, <2>1, <2>3 DEF EntriesOK
<1>10. ASSUME NEW a, NEW allowed \in SUBSET Address, SetAllowlist(a, allowed)  PROVE EntriesOK'
  BY <1>1, <1>10, SMT DEF SetAllowlist, unconfigured, sideVars, EntriesOK
<1>11. \A amount \in Amounts : amount \in Nat
  BY BoundAssumption, SMTT(60)
<1> QED
  BY <1>2, <1>3, <1>4, <1>5, <1>6, <1>7, <1>8, <1>9, <1>10, <1>11, SameEntries, Zenon
     DEF AdminNext

LEMMA EntriesInvariant == Spec => []EntriesOK
<1>1. ASSUME Init  PROVE EntriesOK
  BY <1>1 DEF Init, EntriesOK
<1>2. IInv /\ AuctionTypeOK /\ EntriesOK /\ [Next]_vars => EntriesOK'
  <2> SUFFICES ASSUME IInv, AuctionTypeOK, EntriesOK, [Next]_vars  PROVE EntriesOK'
    OBVIOUS
  <2>1. CASE Tick \/ UNCHANGED vars
    <3>1. UNCHANGED entries
      BY <2>1 DEF Tick, vars, entries, auctionVars, configVars, sideVars
    <3> QED
      BY <3>1, SameEntries
  <2>2. CASE MemberNext
    BY <2>2, MemberNextEntries, SameEntries
  <2> QED
    BY <2>1, <2>2, RoundNextEntries, BidNextEntries, AdminNextEntries, Zenon DEF Next
<1>3. AuctionInv => AuctionTypeOK
  BY DEF AuctionInv
<1> QED
  BY <1>1, <1>2, <1>3, RotationInvariant, AuctionInvariant, PTL DEF Spec

-----------------------------------------------------------------------------
(* Tokens: what a payment does to the balances.                            *)

Balances == [Token -> [Account -> Nat]]

LEMMA PercentageFits ==
    ASSUME NEW amount \in Nat, NEW bps \in Nat
    PROVE  /\ Percentage(amount, bps) \in Nat
           /\ bps <= 10000 => Percentage(amount, bps) <= amount
<1>1. amount * bps \in Nat /\ (bps <= 10000 => amount * bps <= amount * 10000)
  BY ProductsAreOrdered
<1> DEFINE n == amount * bps
<1> HIDE DEF n
<1>2. n \in Nat /\ (bps <= 10000 => n <= amount * 10000)
  BY <1>1 DEF n
<1>3. n \div 10000 \in Nat /\ (bps <= 10000 => n \div 10000 <= amount)
  BY <1>2
<1> QED
  BY <1>3 DEF n, Percentage

LEMMA MovedIs ==
    ASSUME NEW bal \in Balances, circle.token \in Token,
           NEW from \in Account, NEW to \in Account, from # to,
           NEW amount \in Nat, amount <= bal[circle.token][from]
    PROVE  /\ Moved(bal, from, to, amount) \in Balances
           /\ Moved(bal, from, to, amount)[circle.token][from] = bal[circle.token][from] - amount
           /\ Moved(bal, from, to, amount)[circle.token][to] = bal[circle.token][to] + amount
           /\ \A a \in Account \ {from, to} :
                 Moved(bal, from, to, amount)[circle.token][a] = bal[circle.token][a]
           /\ \A t \in Token \ {circle.token} : Moved(bal, from, to, amount)[t] = bal[t]
<1> DEFINE t == circle.token
           row == bal[t]
           less == [row EXCEPT ![from] = @ - amount]
           more == [less EXCEPT ![to] = @ + amount]
<1>1. row \in [Account -> Nat] /\ row[from] - amount \in Nat
  BY DEF Balances
<1>2. /\ less \in [Account -> Nat] /\ less[from] = row[from] - amount
      /\ \A a \in Account \ {from} : less[a] = row[a]
  BY <1>1
<1> HIDE DEF less
<1>3. /\ more \in [Account -> Nat] /\ more[to] = less[to] + amount
      /\ \A a \in Account \ {to} : more[a] = less[a]
  BY <1>2
<1>4. Moved(bal, from, to, amount) = [bal EXCEPT ![t] = more]
  BY DEF Moved, Balances, less, more
<1> HIDE DEF more
<1> QED
  BY <1>2, <1>3, <1>4 DEF Balances

LEMMA PaidOutIs ==
    ASSUME NEW bal \in Balances, circle.token \in Token,
           NEW credit, \A a \in Account \ {Self} : credit[a] \in Nat,
           NEW outflow \in Nat, outflow <= bal[circle.token][Self]
    PROVE  /\ PaidOut(bal, credit, outflow) \in Balances
           /\ PaidOut(bal, credit, outflow)[circle.token][Self] = bal[circle.token][Self] - outflow
           /\ \A a \in Account \ {Self} :
                 PaidOut(bal, credit, outflow)[circle.token][a] = bal[circle.token][a] + credit[a]
           /\ \A t \in Token \ {circle.token} : PaidOut(bal, credit, outflow)[t] = bal[t]
<1> DEFINE t == circle.token
           row == bal[t]
           paid == [a \in Account |-> IF a = Self THEN row[a] - outflow ELSE row[a] + credit[a]]
<1>0. Self \in Account
  BY DEF Account
<1>1. row \in [Account -> Nat] /\ row[Self] - outflow \in Nat
  BY <1>0 DEF Balances
<1>2. paid \in [Account -> Nat]
  BY <1>0, <1>1
<1>3. PaidOut(bal, credit, outflow) = [bal EXCEPT ![t] = paid]
  BY DEF PaidOut, Balances
<1>4. /\ paid[Self] = row[Self] - outflow
      /\ \A a \in Account \ {Self} : paid[a] = row[a] + credit[a]
  BY <1>0, <1>1
<1> HIDE DEF paid
<1> QED
  BY <1>2, <1>3, <1>4 DEF Balances

-----------------------------------------------------------------------------
(* Time-weighted shares.                                                   *)

Stamps == \A c \in contributions : c.timestamp <= now

Age == [c \in contributions |-> c.amount * (now - c.timestamp)]

\* Contributors weigh together what their round weighs, each nothing or more.
LEMMA WeightsAddUp ==
    ASSUME IInv, LogOK, Stamps, NEW r
    PROVE  /\ \A a : Weight(a, r) \in Nat
           /\ \A a : (\A c \in contributions : c.member # a) => Weight(a, r) = 0
           /\ TotalWeight(r) = SumFunctionOnSet([a \in Address |-> Weight(a, r)], Address)
<1> DEFINE parts == [a \in Address |-> {c \in contributions : c.round = r /\ c.member = a}]
           weight == [a \in Address |-> Weight(a, r)]
           log == {c \in contributions : c.round = r}
<1>1. \A c \in contributions : Age[c] \in Nat
  <2>1. ASSUME NEW c \in contributions  PROVE c.amount \in Nat /\ now - c.timestamp \in Nat
    BY ConfigAssumption, SMTT(60) DEF IInv, RotationTypeOK, Contribution, Stamps
  <2>2. \A x, y \in Nat : x * y \in Nat
    OBVIOUS
  <2> QED
    BY <2>1, <2>2 DEF Age
<1>2. /\ \A a : Weight(a, r) =
                   SumFunctionOnSet(Age, {c \in contributions : c.round = r /\ c.member = a})
      /\ TotalWeight(r) = SumFunctionOnSet(Age, log)
  BY DEF Weight, TotalWeight, Age
<1>3. \A a : IsFiniteSet({c \in contributions : c.round = r /\ c.member = a})
  BY FS_Subset DEF LogOK
<1>4. ASSUME NEW a  PROVE Weight(a, r) \in Nat
  <2> DEFINE part == {c \in contributions : c.round = r /\ c.member = a}
  <2>1. IsFiniteSet(part) /\ \A c \in part : Age[c] \in Nat
    BY <1>1, <1>3
  <2> HIDE DEF part
  <2>2. SumFunctionOnSet(Age, part) \in Nat
    BY <2>1, SumIsNatural
  <2> QED
    BY <1>2, <2>2 DEF part
<1>5. ASSUME NEW a, \A c \in contributions : c.member # a  PROVE Weight(a, r) = 0
  <2>1. {c \in contributions : c.round = r /\ c.member = a} = {}
    BY <1>5
  <2> QED
    BY <1>2, <2>1, SumOfNothing
<1>6. SumFunctionOnSet(Age, log) = SumFunctionOnSet(weight, Address)
  <2>1. \A a \in Address : IsFiniteSet(parts[a])
    BY <1>3
  <2>2. \A a, b \in Address : a # b => parts[a] \cap parts[b] = {}
    OBVIOUS
  <2>3. \A a \in Address : \A c \in parts[a] : Age[c] \in Int
    BY <1>1
  <2>4. \A a \in Address : weight[a] = SumFunctionOnSet(Age, parts[a])
    BY <1>2
  <2>5. \A c : c \in log <=> \E a \in Address : c \in parts[a]
    BY DEF IInv, RotationTypeOK, Contribution
  <2> HIDE DEF parts, weight, log
  <2> QED
    BY <2>1, <2>2, <2>3, <2>4, <2>5, SumOfParts, AddressAssumption
<1> QED
  BY <1>2, <1>4, <1>5, <1>6

\* A net pool is divided among members without a remainder, and nobody but the
\* recipient and contributors gets any of it.
LEMMA PoolIsDivided ==
    ASSUME IInv, LogOK, Stamps, NEW ms, NEW w \in Address, IsMember(ms, w), NEW net \in Nat, NEW r
    PROVE  LET payout == PayoutTo(ms, w, net, r)
           IN  /\ payout \in [Address -> Nat]
               /\ SumFunctionOnSet(payout, Address) = net
               /\ \A a \in Address : payout[a] # 0 => IsMember(ms, a)
               /\ \A a \in Address :
                     payout[a] # 0 => a = w \/ \E c \in contributions : c.member = a
<1> DEFINE share == [a \in Address |-> Share(ms, a, net, r)]
           total == SumFunctionOnSet(share, Address)
           dust == net - total
           payout == [a \in Address |-> IF a = w THEN share[a] + dust ELSE share[a]]
<1>1. PayoutTo(ms, w, net, r) = payout
  BY DEF PayoutTo
<1>2. /\ \A a \in Address : share[a] \in Nat
      /\ total <= net
      /\ \A a \in Address : share[a] # 0 =>
            IsMember(ms, a) /\ \E c \in contributions : c.member = a
  <2>1. CASE PayoutType = "RANDOM" /\ TotalWeight(r) > 0
    <3> DEFINE weight == [a \in Address |-> Weight(a, r)]
               due == [a \in Address |-> IF IsMember(ms, a) THEN Weight(a, r) ELSE 0]
               d == TotalWeight(r)
    <3>1. /\ \A a \in Address : weight[a] \in Nat /\ due[a] \in Nat /\ due[a] <= weight[a]
          /\ d = SumFunctionOnSet(weight, Address)
      BY WeightsAddUp
    <3>2. \A a \in Address :
             due[a] # 0 => IsMember(ms, a) /\ \E c \in contributions : c.member = a
      BY WeightsAddUp
    <3>3. SumFunctionOnSet(due, Address) <= d /\ d \in Nat \ {0}
      <4> HIDE DEF weight, due
      <4>1. SumFunctionOnSet(due, Address) <= SumFunctionOnSet(weight, Address)
        BY <3>1, SumIsMonotonic, AddressAssumption
      <4>2. SumFunctionOnSet(weight, Address) \in Nat
        BY <3>1, SumIsNatural, AddressAssumption
      <4> QED
        BY <2>1, <3>1, <4>1, <4>2
    <3>4. \A x \in Nat \ {0} : (net * 0) \div x = 0
      OBVIOUS
    <3>5. \A a \in Address : share[a] = (net * due[a]) \div d
      BY <2>1, <3>3, <3>4 DEF Share
    <3>6. ASSUME NEW a \in Address, due[a] = 0  PROVE share[a] = 0
      BY <3>3, <3>4, <3>5, <3>6
    <3> HIDE DEF share, due, d
    <3>7. (\A a \in Address : share[a] \in Nat) /\ total <= net
      BY <3>1, <3>3, <3>5, SharesFit, AddressAssumption
    <3> QED
      BY <3>2, <3>6, <3>7
  <2>2. CASE ~(PayoutType = "RANDOM" /\ TotalWeight(r) > 0)
    <3>1. \A a \in Address : share[a] = 0
      BY <2>2 DEF Share
    <3> HIDE DEF share
    <3>2. total = 0
      BY <3>1, SumOfZeros, AddressAssumption
    <3> QED
      BY <3>1, <3>2
  <2> QED
    BY <2>1, <2>2
<1> HIDE DEF share
<1>3. total \in Nat /\ dust \in Nat
  BY <1>2, SumIsNatural, AddressAssumption
<1> HIDE DEF total, dust
<1>4. /\ payout \in [Address -> Nat]
      /\ payout[w] = share[w] + dust
      /\ \A a \in Address \ {w} : payout[a] = share[a]
  BY <1>2, <1>3
<1>5. SumFunctionOnSet(payout, Address) = net
  <2> HIDE DEF payout
  <2>1. SumFunctionOnSet(payout, Address) = total + payout[w] - share[w]
    BY <1>2, <1>4, SumOfChange, AddressAssumption DEF total
  <2> QED
    BY <1>2, <1>3, <1>4, <2>1 DEF dust
<1>6. \A a \in Address : payout[a] # 0 => a = w \/ share[a] # 0
  BY <1>4
<1> QED
  BY <1>1, <1>2, <1>4, <1>5, <1>6

-----------------------------------------------------------------------------
(* What each entry point does to the tokens: what the circle's account and *)
(* every address gain.                                                     *)

MoneyOK == balance \in Balances /\ received \in [Address -> Nat] /\ Stamps

\* The invariants that the accounts rest on.
Ledger == IInv /\ BooksInv /\ AuctionTypeOK /\ EntriesOK /\ MoneyOK

Flows(gain, own) ==
    /\ balance' \in Balances
    /\ balance'[circle.token][Self] = balance[circle.token][Self] + own
    /\ \A a \in Address : balance'[circle.token][a] = balance[circle.token][a] + gain[a]
    /\ \A t \in Token \ {circle.token} : balance'[t] = balance[t]

Only(m, amount) == [a \in Address |-> IF a = m THEN amount ELSE 0]
Nobody == [a \in Address |-> 0]

LEMMA LedgerTypes ==
    ASSUME Ledger
    PROVE  /\ circle \in CircleRecord /\ circle.token \in Token
           /\ balance \in Balances
           /\ Self \in Account /\ Self \notin Address
           /\ Address \subseteq Account
           /\ \A a \in Account : balance[circle.token][a] \in Nat
<1>1. circle \in CircleRecord /\ balance \in Balances
  BY DEF Ledger, MoneyOK, IInv, RotationTypeOK
<1>2. circle.token \in Token
  BY <1>1 DEF CircleRecord
<1>3. Self \in Account /\ Self \notin Address /\ Address \subseteq Account
  BY AddressAssumption DEF Account
<1> QED
  BY <1>1, <1>2, <1>3 DEF Balances

LEMMA UnchangedFlows ==
    ASSUME Ledger, UNCHANGED balance
    PROVE  Flows(Nobody, 0)
BY LedgerTypes DEF Flows, Nobody

LEMMA PaysInFlows ==
    ASSUME Ledger, NEW m \in Address, NEW amount \in Nat, Holds(m, amount),
           balance' = Moved(balance, m, Self, amount)
    PROVE  Flows(Only(m, -amount), amount)
<1>1. /\ circle.token \in Token /\ balance \in Balances /\ m \in Account /\ Self \in Account
      /\ m # Self /\ Address \subseteq Account /\ Self \notin Address
      /\ \A a \in Account : balance[circle.token][a] \in Nat
  BY LedgerTypes
<1>2. amount <= balance[circle.token][m]
  BY DEF Holds
<1> DEFINE b == Moved(balance, m, Self, amount)
<1>3. /\ b \in Balances
      /\ b[circle.token][m] = balance[circle.token][m] - amount
      /\ b[circle.token][Self] = balance[circle.token][Self] + amount
      /\ \A a \in Account \ {m, Self} : b[circle.token][a] = balance[circle.token][a]
      /\ \A t \in Token \ {circle.token} : b[t] = balance[t]
  BY <1>1, <1>2, MovedIs
<1> HIDE DEF b
<1>4. \A a \in Address : b[circle.token][a] = balance[circle.token][a] + Only(m, -amount)[a]
  BY <1>1, <1>3 DEF Only
<1> QED
  BY <1>3, <1>4 DEF Flows, b

LEMMA PaysFlows ==
    ASSUME Ledger, NEW m \in Address, NEW amount \in Nat, Holds(Self, amount),
           balance' = Moved(balance, Self, m, amount)
    PROVE  Flows(Only(m, amount), -amount)
<1>1. /\ circle.token \in Token /\ balance \in Balances /\ m \in Account /\ Self \in Account
      /\ m # Self /\ Address \subseteq Account /\ Self \notin Address
      /\ \A a \in Account : balance[circle.token][a] \in Nat
  BY LedgerTypes
<1>2. amount <= balance[circle.token][Self]
  BY DEF Holds
<1> DEFINE b == Moved(balance, Self, m, amount)
<1>3. /\ b \in Balances
      /\ b[circle.token][m] = balance[circle.token][m] + amount
      /\ b[circle.token][Self] = balance[circle.token][Self] - amount
      /\ \A a \in Account \ {Self, m} : b[circle.token][a] = balance[circle.token][a]
      /\ \A t \in Token \ {circle.token} : b[t] = balance[t]
  BY <1>1, <1>2, MovedIs
<1> HIDE DEF b
<1>4. \A a \in Address : b[circle.token][a] = balance[circle.token][a] + Only(m, amount)[a]
  BY <1>1, <1>3 DEF Only
<1> QED
  BY <1>1, <1>3, <1>4 DEF Flows, b

LEMMA PaysTreasuryFlows ==
    ASSUME Ledger, treasury # NoOne, NEW amount \in Nat, Holds(Self, amount),
           balance' = Moved(balance, Self, treasury, amount)
    PROVE  Flows(Nobody, -amount)
<1>1. /\ circle.token \in Token /\ balance \in Balances /\ Self \in Account
      /\ Address \subseteq Account /\ Self \notin Address
      /\ \A a \in Account : balance[circle.token][a] \in Nat
  BY LedgerTypes
<1>2. treasury \in Account /\ treasury # Self /\ treasury \notin Address
  BY AddressAssumption DEF Ledger, EntriesOK, Account
<1>3. amount <= balance[circle.token][Self]
  BY DEF Holds
<1> DEFINE b == Moved(balance, Self, treasury, amount)
<1>4. /\ b \in Balances
      /\ b[circle.token][Self] = balance[circle.token][Self] - amount
      /\ \A a \in Account \ {Self, treasury} : b[circle.token][a] = balance[circle.token][a]
      /\ \A t \in Token \ {circle.token} : b[t] = balance[t]
  BY <1>1, <1>2, <1>3, MovedIs
<1> HIDE DEF b
<1>5. \A a \in Address : b[circle.token][a] = balance[circle.token][a] + Nobody[a]
  BY <1>1, <1>2, <1>4 DEF Nobody
<1> QED
  BY <1>1, <1>4, <1>5 DEF Flows, b

LEMMA PaidOutFlows ==
    ASSUME Ledger, NEW credit, \A a \in Account \ {Self} : credit[a] \in Nat,
           NEW outflow \in Nat, Holds(Self, outflow),
           balance' = PaidOut(balance, credit, outflow)
    PROVE  Flows(credit, -outflow)
<1>1. /\ circle.token \in Token /\ balance \in Balances /\ Self \in Account
      /\ Address \subseteq Account /\ Self \notin Address
      /\ \A a \in Account : balance[circle.token][a] \in Nat
  BY LedgerTypes
<1>2. outflow <= balance[circle.token][Self]
  BY DEF Holds
<1> DEFINE b == PaidOut(balance, credit, outflow)
<1>3. /\ b \in Balances
      /\ b[circle.token][Self] = balance[circle.token][Self] - outflow
      /\ \A a \in Account \ {Self} : b[circle.token][a] = balance[circle.token][a] + credit[a]
      /\ \A t \in Token \ {circle.token} : b[t] = balance[t]
  BY <1>1, <1>2, PaidOutIs
<1> HIDE DEF b
<1> QED
  BY <1>1, <1>3 DEF Flows, b

-----------------------------------------------------------------------------
(* Contributions and settlements.                                          *)

\* What a late contributor is charged, which the treasury gets if there is one.
LEMMA LatePenaltyFits ==
    ASSUME PenaltyComputable
    PROVE  /\ LatePenalty(ContributionAmount) \in Nat
           /\ LatePenalty(ContributionAmount) <= ContributionAmount
<1>1. ContributionAmount \in Nat /\ PenaltyBps \in Nat
  BY ConfigAssumption
<1>2. CASE OnTime
  BY <1>1, <1>2 DEF LatePenalty
<1>3. CASE ~OnTime
  <2>1. PenaltyBps <= 10000
    BY <1>1, <1>3 DEF PenaltyComputable
  <2>2. LatePenalty(ContributionAmount) = Percentage(ContributionAmount, PenaltyBps)
    BY <1>3 DEF LatePenalty
  <2>3. /\ Percentage(ContributionAmount, PenaltyBps) \in Nat
        /\ Percentage(ContributionAmount, PenaltyBps) <= ContributionAmount
    BY <1>1, <2>1, PercentageFits
  <2> QED
    BY <2>2, <2>3
<1> QED
  BY <1>2, <1>3

Routed(penalty) == IF treasury = NoOne THEN 0 ELSE penalty

LEMMA ContributeFlows ==
    ASSUME Ledger, NEW m \in Address, NEW amount, NEW r, Contribute(m, amount, r)
    PROVE  /\ LatePenalty(ContributionAmount) \in 0..ContributionAmount
           /\ Flows(Only(m, -ContributionAmount),
                    ContributionAmount - Routed(LatePenalty(ContributionAmount)))
<1> DEFINE n == ContributionAmount
           penalty == LatePenalty(n)
           paid == Moved(balance, m, Self, n)
           t == circle.token
<1>1. /\ amount = n /\ PenaltyComputable /\ Holds(m, n)
      /\ balance' = IF treasury = NoOne THEN paid ELSE Moved(paid, Self, treasury, penalty)
  BY Zenon DEF Contribute
<1>2. n \in Nat /\ penalty \in 0..n
  BY <1>1, ConfigAssumption, LatePenaltyFits
<1>3. /\ t \in Token /\ balance \in Balances /\ m \in Account /\ Self \in Account
      /\ m # Self /\ Address \subseteq Account /\ Self \notin Address
      /\ \A a \in Account : balance[t][a] \in Nat
  BY LedgerTypes
<1>4. n <= balance[t][m]
  BY <1>1 DEF Holds
<1>5. /\ paid \in Balances
      /\ paid[t][m] = balance[t][m] - n
      /\ paid[t][Self] = balance[t][Self] + n
      /\ \A a \in Account \ {m, Self} : paid[t][a] = balance[t][a]
      /\ \A u \in Token \ {t} : paid[u] = balance[u]
  BY <1>2, <1>3, <1>4, MovedIs
<1>6. \A a \in Address : paid[t][a] = balance[t][a] + Only(m, -n)[a]
  BY <1>2, <1>3, <1>5 DEF Only
<1> HIDE DEF paid, penalty
<1>7. ASSUME treasury = NoOne  PROVE Flows(Only(m, -n), n - Routed(penalty))
  <2>1. balance' = paid /\ Routed(penalty) = 0 /\ n - 0 = n
    BY <1>1, <1>2, <1>7 DEF Routed
  <2> QED
    BY <1>5, <1>6, <2>1 DEF Flows
<1>8. ASSUME treasury # NoOne  PROVE Flows(Only(m, -n), n - Routed(penalty))
  <2> DEFINE b == Moved(paid, Self, treasury, penalty)
  <2>1. treasury \in Account /\ treasury # Self /\ treasury \notin Address
    BY <1>8, AddressAssumption DEF Ledger, EntriesOK, Account
  <2>2. penalty <= paid[t][Self]
    BY <1>2, <1>3, <1>5
  <2>3. /\ b \in Balances
        /\ b[t][Self] = paid[t][Self] - penalty
        /\ \A a \in Account \ {Self, treasury} : b[t][a] = paid[t][a]
        /\ \A u \in Token \ {t} : b[u] = paid[u]
    BY <1>2, <1>3, <1>5, <2>1, <2>2, MovedIs
  <2>4. balance' = b
    BY <1>1, <1>8
  <2> HIDE DEF b
  <2>5. b[t][Self] = balance[t][Self] + (n - Routed(penalty))
    BY <1>2, <1>3, <1>5, <1>8, <2>3 DEF Routed
  <2>6. \A a \in Address : b[t][a] = balance[t][a] + Only(m, -n)[a]
    BY <1>3, <1>6, <2>1, <2>3
  <2>7. \A u \in Token \ {t} : b[u] = balance[u]
    BY <1>5, <2>3
  <2> QED
    BY <2>3, <2>4, <2>5, <2>6, <2>7 DEF Flows
<1> QED
  BY <1>2, <1>7, <1>8, Zenon DEF penalty

-----------------------------------------------------------------------------
(* Settlements: to whom the pool of a round goes, and what comes back with *)
(* the last one.                                                           *)

LEMMA ActiveAreFinite ==
    ASSUME NEW ms \in Seq(Member)
    PROVE  IsFiniteSet(ActiveIn(ms)) /\ Cardinality(ActiveIn(ms)) \in Nat
<1>1. IsFiniteSet(1..Len(ms)) /\ DOMAIN ms = 1..Len(ms)
  BY LenProperties, FS_Interval
<1>2. ActiveIn(ms) \subseteq DOMAIN ms
  BY DEF ActiveIn
<1> QED
  BY <1>1, <1>2, FS_Subset, FS_CardinalityType

LEMMA FlowsAgree ==
    ASSUME NEW gain, NEW other, NEW own, Flows(gain, own),
           \A a \in Address : gain[a] = other[a]
    PROVE  Flows(other, own)
BY DEF Flows

\* The member at i is paid, every address gets payout[a] out of the pool, and every
\* active member gets back that much collateral.
Divides(ms, r, i, amount, charge, payout, back) ==
    /\ i \in Resolve(ms, r)
    /\ circle' = CircleAfter(i, amount, charge)
    /\ settled' = Append(settled, [recipient |-> ms[i].address, round |-> r,
                                   amount |-> amount, fee |-> charge])
    /\ payout \in [Address -> Nat] /\ SumFunctionOnSet(payout, Address) = amount
    /\ \A a \in Address :
          payout[a] # 0 => a = ms[i].address \/ \E c \in contributions : c.member = a
    /\ received' = [a \in Address |-> received[a] + payout[a]]
    /\ back \in {0, Collateral} /\ (back # 0 => circle'.status = "COMPLETED")
    /\ Flows([a \in Address |-> payout[a] + (IF IsActiveMember(ms, a) THEN back ELSE 0)],
             -(amount + Routed(charge) + back * Cardinality(ActiveIn(ms))))

LEMMA EmptyDivides ==
    ASSUME Ledger, NEW ms \in Seq(Member), NEW r, NEW i \in Resolve(ms, r), SettleEmpty(i),
           settled' = Append(settled, [recipient |-> ms[i].address, round |-> r,
                                       amount |-> 0, fee |-> 0])
    PROVE  Divides(ms, r, i, 0, 0, Nobody, 0)
<1>1. /\ circle' = CircleAfter(i, 0, 0)
      /\ UNCHANGED <<received, balance>>
  BY Zenon DEF SettleEmpty
<1>2. Nobody \in [Address -> Nat] /\ \A a \in Address : Nobody[a] = 0
  BY DEF Nobody
<1>3. SumFunctionOnSet(Nobody, Address) = 0
  BY <1>2, SumOfZeros, AddressAssumption
<1>4. received' = [a \in Address |-> received[a] + Nobody[a]]
  BY <1>1, <1>2 DEF Ledger, MoneyOK
<1>5. 0 + Routed(0) + 0 * Cardinality(ActiveIn(ms)) = 0
  <2>1. Cardinality(ActiveIn(ms)) \in Nat /\ Routed(0) = 0
    BY ActiveAreFinite DEF Routed
  <2>2. \A n \in Nat : 0 + 0 + 0 * n = 0
    OBVIOUS
  <2> QED
    BY <2>1, <2>2
<1>6. Flows([a \in Address |-> Nobody[a] + (IF IsActiveMember(ms, a) THEN 0 ELSE 0)], -0)
  BY <1>1, <1>2, UnchangedFlows, FlowsAgree
<1> QED
  BY <1>1, <1>2, <1>3, <1>4, <1>5, <1>6 DEF Divides

LEMMA CompletionStatus ==
    ASSUME IInv, NEW i, NEW net, NEW fee, circle.current_round + 1 >= TotalRounds
    PROVE  CircleAfter(i, net, fee).status = "COMPLETED"
BY DEF CircleAfter, IInv, RotationTypeOK, CircleRecord

LEMMA FundedDivides ==
    ASSUME Ledger, NEW ms \in Seq(Member), \A a : IsMember(ms, a) => a \in Address,
           NEW r, NEW i \in Resolve(ms, r),
           NEW net \in Nat, NEW fee \in Nat, SettleFunded(ms, i, r, net, fee),
           settled' = Append(settled, [recipient |-> ms[i].address, round |-> r,
                                       amount |-> net, fee |-> fee])
    PROVE  \E payout, back : Divides(ms, r, i, net, fee, payout, back)
<1> DEFINE w == ms[i].address
           payout == PayoutTo(ms, w, net, r)
           routed == IF treasury = NoOne THEN 0 ELSE fee
           back == IF circle.current_round + 1 >= TotalRounds THEN Collateral ELSE 0
           n == Cardinality(ActiveIn(ms))
           outflow == net + routed + back * n
           credit(a) == CASE a = treasury -> routed
                          [] a \in Address ->
                                payout[a] + (IF IsActiveMember(ms, a) THEN back ELSE 0)
                          [] OTHER -> 0
           gain == [a \in Address |-> payout[a] + (IF IsActiveMember(ms, a) THEN back ELSE 0)]
<1>1. /\ Holds(Self, outflow)
      /\ balance' = PaidOut(balance, [a \in Account |-> credit(a)], outflow)
      /\ received' = [a \in Address |->
            IF IsMember(ms, a) THEN received[a] + payout[a] ELSE received[a]]
      /\ circle' = CircleAfter(i, net, fee)
  BY Zenon DEF SettleFunded
<1>2. i \in DOMAIN ms
  BY ResolveUnpaid
<1>3. IsMember(ms, w) /\ w \in Address
  BY <1>2 DEF IsMember, MemberAt
<1>4. IInv /\ LogOK /\ Stamps /\ received \in [Address -> Nat]
  BY DEF Ledger, BooksInv, MoneyOK
<1>5. /\ payout \in [Address -> Nat]
      /\ SumFunctionOnSet(payout, Address) = net
      /\ \A a \in Address : payout[a] # 0 => IsMember(ms, a)
      /\ \A a \in Address : payout[a] # 0 => a = w \/ \E c \in contributions : c.member = a
  BY <1>3, <1>4, PoolIsDivided
<1> HIDE DEF payout
<1>6. received' = [a \in Address |-> received[a] + payout[a]]
  BY <1>1, <1>4, <1>5
<1>7. back \in {0, Collateral} /\ back \in Nat /\ (back # 0 => circle'.status = "COMPLETED")
  BY <1>1, <1>4, CompletionStatus, ConfigAssumption
<1>8. n \in Nat /\ routed \in Nat
  BY ActiveAreFinite
<1> HIDE DEF n, back, routed
<1>9. back * n \in Nat
  BY <1>7, <1>8
<1>10. outflow \in Nat
  BY <1>8, <1>9
<1>11. treasury \notin Address
  BY AddressAssumption DEF Ledger, EntriesOK, Account
<1>12. \A a \in Address : credit(a) = payout[a] + (IF IsActiveMember(ms, a) THEN back ELSE 0)
  BY <1>11
<1>13. \A a \in Account : credit(a) \in Nat
  BY <1>5, <1>7, <1>8
<1> DEFINE c == [a \in Account |-> credit(a)]
<1>14. /\ \A a \in Account : c[a] = credit(a)
       /\ Address \subseteq Account
  BY DEF Account
<1>15. \A a \in Account \ {Self} : c[a] \in Nat
  BY <1>13, <1>14
<1>16. \A a \in Address : c[a] = gain[a]
  BY <1>12, <1>14
<1>17. balance' = PaidOut(balance, c, outflow)
  BY <1>1
<1> HIDE DEF credit, c, outflow
<1>18. Flows(c, -outflow)
  BY <1>1, <1>10, <1>15, <1>17, PaidOutFlows
<1> HIDE DEF gain
<1>19. Flows(gain, -outflow)
  BY <1>16, <1>18, FlowsAgree
<1>20. Routed(fee) = routed
  BY DEF Routed, routed
<1> QED
  BY <1>1, <1>5, <1>6, <1>7, <1>19, <1>20, Zenon DEF Divides, gain, outflow, n

LEMMA SettlementDivides ==
    ASSUME Ledger, NEW ms, NEW r \in Rounds, SettleRound(ms, r), SameAddresses(ms)
    PROVE  \E i, payout, back : \E amount, charge \in Nat :
              Divides(ms, r, i, amount, charge, payout, back)
<1> DEFINE fee == Percentage(round_total[r], fee_bps)
           net == round_total[r] - fee
<1>1. PICK i \in Resolve(ms, r) :
         /\ \/ net <= 0 /\ SettleEmpty(i)
            \/ net > 0 /\ SettleFunded(ms, i, r, net, fee)
         /\ settled' = Append(settled, [recipient |-> ms[i].address, round |-> r,
                                        amount |-> IF net > 0 THEN net ELSE 0,
                                        fee |-> IF net > 0 THEN fee ELSE 0])
  BY Zenon DEF SettleRound
<1>2. round_total[r] \in Nat /\ fee_bps \in Nat
  BY DEF Ledger, IInv, RotationTypeOK
<1>3. fee \in Nat /\ net \in Int
  BY <1>2, PercentageFits, SMTT(60)
<1>4. /\ ms \in Seq(Member)
      /\ \A a : IsMember(ms, a) => a \in Address
  <2>1. ms \in Seq(Member) /\ \A j \in DOMAIN ms : ms[j] \in Member
    BY ElementOfSeq, LenProperties DEF SameAddresses
  <2> QED
    BY <2>1 DEF IsMember, MemberAt, Member
<1> HIDE DEF fee, net
<1>5. CASE net <= 0
  <2>1. /\ SettleEmpty(i)
        /\ settled' = Append(settled, [recipient |-> ms[i].address, round |-> r,
                                       amount |-> 0, fee |-> 0])
    BY <1>1, <1>3, <1>5
  <2> QED
    BY <1>4, <2>1, EmptyDivides
<1>6. CASE net > 0
  <2>1. /\ SettleFunded(ms, i, r, net, fee)
        /\ settled' = Append(settled, [recipient |-> ms[i].address, round |-> r,
                                       amount |-> net, fee |-> fee])
    BY <1>1, <1>3, <1>6
  <2>2. net \in Nat
    BY <1>3, <1>6
  <2>3. \E payout, back : Divides(ms, r, i, net, fee, payout, back)
    BY <1>3, <1>4, <2>1, <2>2, FundedDivides
  <2> QED
    BY <1>3, <2>2, <2>3
<1> QED
  BY <1>3, <1>5, <1>6

-----------------------------------------------------------------------------
(* The other entry points that move tokens.                                *)

LEMMA JoinFlows ==
    ASSUME Ledger, NEW m \in Address, Join(m)
    PROVE  Flows(Only(m, -Collateral), Collateral)
<1>1. Holds(m, Collateral) /\ balance' = Moved(balance, m, Self, Collateral)
  BY Zenon DEF Join
<1> QED
  BY <1>1, PaysInFlows, ConfigAssumption

LEMMA ExitFlows ==
    ASSUME Ledger, NEW m \in Address, Exit(m)
    PROVE  Flows(Only(m, Collateral), -Collateral)
<1>1. Holds(Self, Collateral) /\ balance' = Moved(balance, Self, m, Collateral)
  BY Zenon DEF Exit
<1> QED
  BY <1>1, PaysFlows, ConfigAssumption

LEMMA CancelCircleFlows ==
    ASSUME Ledger, NEW m, CancelCircle(m)
    PROVE  Flows([a \in Address |-> IF IsActiveMember(members, a) THEN Collateral ELSE 0],
                 -(Collateral * Cardinality(ActiveIn(members))))
<1> DEFINE credit == [a \in Account |-> IF IsActiveMember(members, a) THEN Collateral ELSE 0]
           other == [a \in Address |-> IF IsActiveMember(members, a) THEN Collateral ELSE 0]
           n == Cardinality(ActiveIn(members))
           outflow == Collateral * n
<1>1. Holds(Self, outflow) /\ balance' = PaidOut(balance, credit, outflow)
  BY Zenon DEF CancelCircle
<1>2. n \in Nat /\ Collateral \in Nat
  BY ActiveAreFinite, ConfigAssumption DEF Ledger, IInv, RotationTypeOK
<1> HIDE DEF n
<1>3. outflow \in Nat
  BY <1>2
<1>4. \A a \in Account \ {Self} : credit[a] \in Nat
  BY <1>2
<1>5. \A a \in Address : credit[a] = other[a]
  BY DEF Account
<1> HIDE DEF credit, other, outflow
<1>6. Flows(credit, -outflow)
  BY <1>1, <1>3, <1>4, PaidOutFlows
<1>7. Flows(other, -outflow)
  BY <1>5, <1>6, FlowsAgree
<1> QED
  BY <1>7, Zenon DEF other, outflow, n

LEMMA PlaceBidFlows ==
    ASSUME Ledger, NEW m \in Address, NEW bips, NEW r, PlaceBid(m, bips, r)
    PROVE  Flows(Only(m, -ContributionAmount), ContributionAmount)
<1>1. /\ Holds(m, ContributionAmount)
      /\ balance' = Moved(balance, m, Self, ContributionAmount)
  BY SMT DEF PlaceBid
<1> QED
  BY <1>1, PaysInFlows, ConfigAssumption

\* Sums of deposits, which are natural numbers.
LEMMA DepositTypes ==
    ASSUME AuctionTypeOK
    PROVE  /\ \A k \in DOMAIN bids : Deposits[k] \in Nat /\ Deposits[k] = bids[k].deposit
           /\ \A S : S \subseteq DOMAIN bids =>
                 IsFiniteSet(S) /\ SumFunctionOnSet(Deposits, S) \in Nat
<1>1. /\ Len(bids) \in Nat /\ DOMAIN bids = 1..Len(bids)
      /\ \A k \in DOMAIN bids : bids[k] \in Bid
  BY BidTypes
<1>2. \A k \in DOMAIN bids : Deposits[k] \in Nat /\ Deposits[k] = bids[k].deposit
  BY <1>1, ConfigAssumption DEF Deposits, Bid
<1>3. ASSUME NEW S, S \subseteq DOMAIN bids
      PROVE  IsFiniteSet(S) /\ SumFunctionOnSet(Deposits, S) \in Nat
  <2>0. IsFiniteSet(1..Len(bids))
    BY <1>1, FS_Interval
  <2>1. IsFiniteSet(S)
    BY <1>1, <1>3, <2>0, FS_Subset
  <2>2. \A k \in S : Deposits[k] \in Nat
    BY <1>2, <1>3
  <2> QED
    BY <2>1, <2>2, SumIsNatural
<1> QED
  BY <1>2, <1>3

LEMMA BatchOfBids ==
    ASSUME NEW r, NEW limit
    PROVE  RefundBatch(r, limit) \subseteq BidsOf(r) /\ BidsOf(r) \subseteq DOMAIN bids
BY DEF RefundBatch, Losers, BidsOf

Refunded(batch) == [a \in Address |->
                       SumFunctionOnSet(Deposits, {k \in batch : bids[k].bidder = a})]

LEMMA RefundLosingBidsFlows ==
    ASSUME Ledger, NEW r, NEW limit, RefundLosingBids(r, limit)
    PROVE  Flows(Refunded(RefundBatch(r, limit)),
                 -SumFunctionOnSet(Deposits, RefundBatch(r, limit)))
<1> DEFINE batch == RefundBatch(r, limit)
           part(a) == {k \in batch : bids[k].bidder = a}
           credit == [a \in Account |-> SumFunctionOnSet(Deposits, part(a))]
           outflow == SumFunctionOnSet(Deposits, batch)
<1>1. Holds(Self, outflow) /\ balance' = PaidOut(balance, credit, outflow)
  BY Zenon DEF RefundLosingBids
<1>2. batch \subseteq DOMAIN bids /\ \A a : part(a) \subseteq DOMAIN bids
  BY BatchOfBids
<1>3. \A S : S \subseteq DOMAIN bids => SumFunctionOnSet(Deposits, S) \in Nat
  BY DepositTypes DEF Ledger
<1>4. outflow \in Nat /\ \A a \in Account \ {Self} : credit[a] \in Nat
  BY <1>2, <1>3
<1>5. \A a \in Address : credit[a] = Refunded(batch)[a]
  BY DEF Refunded, Account
<1> HIDE DEF batch, credit, outflow
<1>6. Flows(credit, -outflow)
  BY <1>1, <1>4, PaidOutFlows
<1>7. Flows(Refunded(batch), -outflow)
  BY <1>5, <1>6, FlowsAgree
<1> QED
  BY <1>7, Zenon DEF batch, outflow

LEMMA OneWinningBid ==
    ASSUME AuctionTypeOK, NEW r, NEW j \in WinningBids(r), NEW k \in WinningBids(r)
    PROVE  j = k
<1>1. j \in DOMAIN bids /\ k \in DOMAIN bids /\ j \in Int /\ k \in Int
  BY BidTypes DEF WinningBids
<1>2. bids[j].bips \in Int /\ bids[k].bips \in Int
  <2>1. bids[j] \in Bid /\ bids[k] \in Bid
    BY <1>1, BidTypes
  <2>2. bids[j].bips \in Discounts /\ bids[k].bips \in Discounts
    BY <2>1 DEF Bid
  <2>3. \A d \in Discounts : d \in Int
    BY DEF Discounts
  <2> QED
    BY <2>2, <2>3
<1>3. /\ \/ bids[k].bips < bids[j].bips
         \/ bids[k].bips = bids[j].bips /\ k <= j
      /\ \/ bids[j].bips < bids[k].bips
         \/ bids[j].bips = bids[k].bips /\ j <= k
  BY DEF WinningBids
<1> QED
  BY <1>1, <1>2, <1>3

\* Nobody is in the log twice for a round.
LEMMA ContributedOnce ==
    ASSUME IInv, LogOK, NEW a, NEW r
    PROVE  Contributed(a, r) \in {0, ContributionAmount}
<1> DEFINE f == [c \in contributions |-> c.amount]
           S == {c \in contributions : c.member = a /\ c.round = r}
<1>1. Contributed(a, r) = SumFunctionOnSet(f, S)
  BY DEF Contributed
<1>2. \A c \in S : f[c] = ContributionAmount /\ f[c] \in Int
  BY ConfigAssumption DEF IInv, RotationTypeOK, Contribution
<1>3. IsFiniteSet(S) /\ \A c, d \in S : c = d
  BY FS_Subset DEF LogOK
<1> HIDE DEF f, S
<1>4. CASE S = {}
  BY <1>1, <1>4, SumOfNothing
<1>5. ASSUME NEW c \in S  PROVE Contributed(a, r) = ContributionAmount
  <2>1. SumFunctionOnSet(f, S) = f[c] + SumFunctionOnSet(f, S \ {c})
    BY <1>2, <1>3, SumWithout
  <2>2. S \ {c} = {}
    BY <1>3
  <2>3. SumFunctionOnSet(f, S \ {c}) = 0
    BY <2>2, SumOfNothing
  <2> QED
    BY <1>1, <1>2, <2>1, <2>3
<1> QED
  BY <1>4, <1>5

\* Cancelling repays one contribution, if there is a bid at all.
LEMMA CancelAuctionFlows ==
    ASSUME Ledger, NEW caller, CancelAuction(caller)
    PROVE  \E gain : Flows(gain, -(IF WinningBids(circle.current_round) = {} THEN 0
                                   ELSE ContributionAmount))
<1> DEFINE r == circle.current_round
           W == WinningBids(r)
           repaid == [k \in W |-> IF Contributed(bids[k].bidder, r) = 0 THEN ContributionAmount
                                  ELSE Contributed(bids[k].bidder, r)]
           part(a) == {k \in W : bids[k].bidder = a}
           credit == [a \in Account |-> SumFunctionOnSet(repaid, part(a))]
           outflow == SumFunction(repaid)
<1>1. /\ \A k \in W : Holds(Self, repaid[k])
      /\ balance' = PaidOut(balance, credit, outflow)
  BY Zenon DEF CancelAuction
<1>2. \A a : Contributed(a, r) \in {0, ContributionAmount}
  BY ContributedOnce DEF Ledger, BooksInv
<1>3. \A k \in W : repaid[k] \in Nat /\ repaid[k] = ContributionAmount
  BY <1>2, ConfigAssumption
<1>4. IsFiniteSet(W) /\ DOMAIN repaid = W
  BY DepositTypes DEF Ledger, WinningBids
<1>5. outflow = SumFunctionOnSet(repaid, W)
  BY <1>4 DEF SumFunction
<1>6. \A a \in Account : credit[a] \in Nat
  <2>1. \A a : IsFiniteSet(part(a)) /\ part(a) \subseteq W
    BY <1>4, FS_Subset
  <2> HIDE DEF part, repaid, W
  <2>2. \A a \in Account : SumFunctionOnSet(repaid, part(a)) \in Nat
    BY <1>3, <2>1, SumIsNatural
  <2> QED
    BY <2>2
<1>7. /\ outflow \in Nat /\ Holds(Self, outflow)
      /\ outflow = IF W = {} THEN 0 ELSE ContributionAmount
  <2>1. CASE W = {}
    <3>1. outflow = 0
      BY <1>5, <2>1, SumOfNothing
    <3> QED
      BY <2>1, <3>1, LedgerTypes DEF Holds
  <2>2. ASSUME NEW k \in W
        PROVE  /\ outflow \in Nat /\ Holds(Self, outflow)
               /\ outflow = ContributionAmount
    <3>1. W = {k}
      BY <2>2, OneWinningBid DEF Ledger
    <3> HIDE DEF repaid, W
    <3>2. outflow = repaid[k] + SumFunctionOnSet(repaid, W \ {k})
      BY <1>3, <1>4, <1>5, <2>2, SumWithout
    <3>3. W \ {k} = {}
      BY <3>1
    <3>4. SumFunctionOnSet(repaid, W \ {k}) = 0
      BY <3>3, SumOfNothing
    <3> QED
      BY <1>1, <1>3, <2>2, <3>2, <3>4
  <2> HIDE DEF outflow, W
  <2> QED
    BY <2>1, <2>2
<1> HIDE DEF credit, outflow
<1>8. Flows(credit, -outflow)
  BY <1>1, <1>6, <1>7, PaidOutFlows
<1>9. Flows(credit, -(IF W = {} THEN 0 ELSE ContributionAmount))
  BY <1>7, <1>8
<1> QED
  BY <1>9

LEMMA PenalizeFlows ==
    ASSUME Ledger, NEW a, Penalize(a)
    PROVE  \/ Flows(Nobody, 0)
           \/ treasury # NoOne /\ Flows(Nobody, -Collateral)
<1>1. \/ UNCHANGED balance
      \/ /\ treasury # NoOne /\ Holds(Self, Collateral)
         /\ balance' = Moved(balance, Self, treasury, Collateral)
  BY Zenon DEF Penalize
<1> QED
  BY <1>1, UnchangedFlows, PaysTreasuryFlows, ConfigAssumption

\* Nothing is owed to anybody, as nothing ever adds to total_contributions.
LEMMA RefundMembersFlows ==
    ASSUME Ledger, RefundMembers
    PROVE  Flows(Nobody, 0)
<1> DEFINE f == [i \in DOMAIN members |-> members[i].total_contributions]
           Owed(S) == SumFunctionOnSet(f, S)
           credit == [a \in Account |-> Owed(MemberAt(members, a))]
<1>1. balance' = PaidOut(balance, credit, Owed(DOMAIN members))
  BY Zenon DEF RefundMembers
<1>2. \A i \in DOMAIN members : f[i] = 0
  <2>1. \A i \in DOMAIN members : members[i] \in Member
    BY MemberTypes DEF Ledger
  <2> QED
    BY <2>1 DEF Member
<1>3. IsFiniteSet(DOMAIN members)
  <2>1. DOMAIN members = 1..Len(members) /\ Len(members) \in Nat
    BY LenProperties DEF Ledger, IInv, RotationTypeOK
  <2>2. IsFiniteSet(1..Len(members))
    BY <2>1, FS_Interval
  <2> QED
    BY <2>1, <2>2
<1>4. \A S : S \subseteq DOMAIN members => Owed(S) = 0
  <2> HIDE DEF f
  <2>1. ASSUME NEW S, S \subseteq DOMAIN members  PROVE SumFunctionOnSet(f, S) = 0
    BY <1>2, <1>3, <2>1, FS_Subset, SumOfZeros
  <2> QED
    BY <2>1
<1>5. Owed(DOMAIN members) = 0 /\ \A a : Owed(MemberAt(members, a)) = 0
  BY <1>4 DEF MemberAt
<1> HIDE DEF Owed
<1>6. /\ \A a \in Account : credit[a] = 0
      /\ \A a \in Address : credit[a] = Nobody[a]
  BY <1>5 DEF Nobody, Account
<1>7. Holds(Self, 0) /\ balance' = PaidOut(balance, credit, 0)
  BY <1>1, <1>5, LedgerTypes DEF Holds
<1> HIDE DEF credit
<1>8. Flows(credit, -0)
  BY <1>6, <1>7, PaidOutFlows
<1> QED
  BY <1>6, <1>8, FlowsAgree

LEMMA WithdrawTreasuryFlows ==
    ASSUME Ledger, NEW m \in Address, NEW amount \in Amounts, WithdrawTreasury(m, amount)
    PROVE  Flows(Only(m, amount), -amount)
<1>1. Holds(Self, amount) /\ balance' = Moved(balance, Self, m, amount)
  BY Zenon DEF WithdrawTreasury
<1>2. amount \in Nat
  BY BoundAssumption, SMTT(60)
<1> QED
  BY <1>1, <1>2, PaysFlows

LEMMA ClaimBonusFlows ==
    ASSUME Ledger, NEW m \in Address, ClaimBonus(m)
    PROVE  \E gain, own : Flows(gain, own)
<1> DEFINE n == balance[circle.token][Self]
<1>1. balance' = Moved(balance, Self, m, n)
  BY Zenon DEF ClaimBonus
<1>2. n \in Nat /\ Holds(Self, n)
  BY LedgerTypes DEF Holds
<1> HIDE DEF n
<1> QED
  BY <1>1, <1>2, PaysFlows

LEMMA FeesFit ==
    ASSUME NEW bps \in Discounts, NEW x \in Nat
    PROVE  Percentage(x, bps) \in Nat /\ x - Percentage(x, bps) \in Nat
<1>1. bps \in Nat /\ bps <= 10000
  BY DEF Discounts
<1>2. Percentage(x, bps) \in Nat /\ Percentage(x, bps) <= x
  BY <1>1, PercentageFits
<1> QED
  BY <1>2

\* Whatever amounts are named, nobody is paid less than nothing.
LEMMA BatchPayoutFlows ==
    ASSUME Ledger, NEW caller, NEW recipients, NEW n \in Nat, DOMAIN recipients = 1..n,
           NEW amounts, \A k \in 1..n : amounts[k] \in Nat,
           NEW r, BatchPayout(caller, recipients, amounts, r)
    PROVE  (\E gain, own : Flows(gain, own)) /\ received' \in [Address -> Nat]
<1> DEFINE at == DOMAIN recipients
           fee == [k \in at |-> Percentage(amounts[k], fee_bps)]
           net == [k \in at |-> amounts[k] - fee[k]]
           To(a) == {k \in at : recipients[k] = a}
           credit == [a \in Account |-> IF a = treasury THEN SumFunctionOnSet(fee, at)
                                        ELSE SumFunctionOnSet(net, To(a))]
           outflow == SumFunctionOnSet(net, at) + SumFunctionOnSet(fee, at)
<1>1. /\ Holds(Self, outflow)
      /\ balance' = PaidOut(balance, credit, outflow)
      /\ received' = [a \in Address |->
            IF IsMember(members, a) THEN received[a] + SumFunctionOnSet(net, To(a))
            ELSE received[a]]
  BY Zenon DEF BatchPayout
<1>2. fee_bps \in Discounts
  BY DEF Ledger, IInv, Discounts
<1>3. \A k \in at : fee[k] \in Nat /\ net[k] \in Nat
  <2>1. ASSUME NEW k \in at  PROVE fee[k] \in Nat /\ net[k] \in Nat
    <3>1. amounts[k] \in Nat
      OBVIOUS
    <3>2. /\ Percentage(amounts[k], fee_bps) \in Nat
          /\ amounts[k] - Percentage(amounts[k], fee_bps) \in Nat
      BY <1>2, <3>1, FeesFit, Zenon
    <3>3. fee[k] = Percentage(amounts[k], fee_bps) /\ net[k] = amounts[k] - fee[k]
      OBVIOUS
    <3> QED
      BY <3>2, <3>3
  <2> QED
    BY <2>1
<1>4. IsFiniteSet(at) /\ \A a : IsFiniteSet(To(a)) /\ To(a) \subseteq at
  <2>1. IsFiniteSet(1..n)
    BY FS_Interval
  <2> QED
    BY <2>1, FS_Subset
<1> HIDE DEF fee, net, at, To
<1>5. /\ SumFunctionOnSet(fee, at) \in Nat /\ SumFunctionOnSet(net, at) \in Nat
      /\ \A a : SumFunctionOnSet(net, To(a)) \in Nat
  BY <1>3, <1>4, SumIsNatural
<1>6. outflow \in Nat /\ \A a \in Account \ {Self} : credit[a] \in Nat
  BY <1>5
<1>7. received' \in [Address -> Nat]
  BY <1>1, <1>5 DEF Ledger, MoneyOK
<1> HIDE DEF credit, outflow
<1>8. Flows(credit, -outflow)
  BY <1>1, <1>6, PaidOutFlows
<1> QED
  BY <1>7, <1>8

-----------------------------------------------------------------------------
(* Types.                                                                  *)

Moves == \E gain, own : Flows(gain, own)

LEMMA MemberNextMoves ==
    ASSUME Ledger, MemberNext
    PROVE  Moves /\ UNCHANGED received
<1>1. ASSUME UNCHANGED balance  PROVE Moves
  BY <1>1, UnchangedFlows DEF Moves
<1>2. ASSUME NEW m \in Address, Join(m) \/ Exit(m) \/ CancelCircle(m)  PROVE Moves
  BY <1>2, JoinFlows, ExitFlows, CancelCircleFlows, Zenon DEF Moves
<1>3. ASSUME NEW m, NEW invited, BatchInvite(m, invited)  PROVE UNCHANGED balance
  BY <1>3, Zenon DEF BatchInvite
<1>4. ASSUME NEW m, NEW r, ReportLate(m, r)  PROVE UNCHANGED balance
  BY <1>4, Zenon DEF ReportLate
<1>5. Moves
  BY <1>1, <1>2, <1>3, <1>4, Zenon DEF MemberNext
<1>6. UNCHANGED outsideRoster
  BY MemberNextFrame DEF Ledger
<1> QED
  BY <1>5, <1>6 DEF outsideRoster, payoutVars

LEMMA BidNextMoves ==
    ASSUME Ledger, BidNext
    PROVE  Moves /\ UNCHANGED received
<1>1. ASSUME UNCHANGED balance  PROVE Moves
  BY <1>1, UnchangedFlows DEF Moves
<1>2. ASSUME NEW a \in Address, NEW bips, NEW r, PlaceBid(a, bips, r)  PROVE Moves
  BY <1>2, PlaceBidFlows, Zenon DEF Moves
<1>3. ASSUME NEW r, NEW limit, RefundLosingBids(r, limit)  PROVE Moves
  BY <1>3, RefundLosingBidsFlows, Zenon DEF Moves
<1>4. ASSUME NEW a, CancelAuction(a)  PROVE Moves
  BY <1>4, CancelAuctionFlows, Zenon DEF Moves
<1>5. ASSUME NEW a, NEW r, NEW config, InitDutchAuction(a, r, config)  PROVE UNCHANGED balance
  BY <1>5, SMT DEF InitDutchAuction
<1>6. ASSUME NEW a, NEW r, DutchAuctionBid(a, r)  PROVE UNCHANGED balance
  BY <1>6, Zenon DEF DutchAuctionBid
<1>7. ASSUME NEW a, NEW b, NEW r, VotePayout(a, b, r)  PROVE UNCHANGED balance
  BY <1>7, Zenon DEF VotePayout
<1>8. Moves
  BY <1>1, <1>2, <1>3, <1>4, <1>5, <1>6, <1>7, Zenon DEF BidNext
<1>9. UNCHANGED outsideAuction
  BY BidNextFrame
<1> QED
  BY <1>8, <1>9 DEF outsideAuction, payoutVars

LEMMA ResolveDisputeFlows ==
    ASSUME Ledger, NEW a, NEW resolution, ResolveDispute(a, resolution)
    PROVE  \/ Flows(Nobody, 0)
           \/ treasury # NoOne /\ resolution = "PENALIZE" /\ Flows(Nobody, -Collateral)
<1>1. \/ UNCHANGED balance
      \/ resolution = "PENALIZE" /\ \E b : Penalize(b)
      \/ RefundMembers
  BY Zenon DEF ResolveDispute
<1> QED
  BY <1>1, UnchangedFlows, PenalizeFlows, RefundMembersFlows, Zenon

LEMMA AdminNextMoves ==
    ASSUME Ledger, AdminNext
    PROVE  Moves /\ UNCHANGED received
<1>1. ASSUME UNCHANGED balance  PROVE Moves
  BY <1>1, UnchangedFlows DEF Moves
<1>2. ASSUME NEW a, NEW resolution, ResolveDispute(a, resolution)  PROVE Moves
  BY <1>2, ResolveDisputeFlows, Zenon DEF Moves
<1>3. ASSUME NEW a \in Address, NEW amount \in Amounts, WithdrawTreasury(a, amount)  PROVE Moves
  BY <1>3, WithdrawTreasuryFlows, Zenon DEF Moves
<1>4. ASSUME NEW a \in Address, ClaimBonus(a)  PROVE Moves
  BY <1>4, ClaimBonusFlows, Zenon DEF Moves
<1>5. ASSUME NEW a, RaiseDispute(a) \/ Pause(a) \/ Unpause(a) \/ SetTreasury(a)
      PROVE  UNCHANGED balance
  BY <1>5, Zenon DEF RaiseDispute, Pause, Unpause, SetTreasury, unconfigured
<1>6. ASSUME NEW a, NEW x, \/ RegisterReferral(a, x) \/ UpdateStreak(a, x)
                           \/ SetAllowlist(a, x) \/ SetToken(a, x)
      PROVE  UNCHANGED balance
  BY <1>6, Zenon DEF RegisterReferral, UpdateStreak, SetAllowlist, SetToken, unconfigured
<1>7. ASSUME NEW a, NEW x, SetFeeBps(a, x) \/ ConfigureFromFactory(x)  PROVE UNCHANGED balance
  BY <1>7, SMT DEF SetFeeBps, ConfigureFromFactory, unconfigured
<1>8. Moves
  BY <1>1, <1>2, <1>3, <1>4, <1>5, <1>6, <1>7, Zenon DEF AdminNext
<1>9. UNCHANGED outsideAdmin
  BY AdminNextFrame DEF Ledger
<1> QED
  BY <1>8, <1>9 DEF outsideAdmin, payoutVars

LEMMA SettlementMoves ==
    ASSUME Ledger, NEW ms, NEW r \in Rounds, SettleRound(ms, r), SameAddresses(ms)
    PROVE  Moves /\ received' \in [Address -> Nat]
<1>1. PICK i, payout, back : \E amount, charge \in Nat :
         Divides(ms, r, i, amount, charge, payout, back)
  BY SettlementDivides
<1>2. payout \in [Address -> Nat] /\ received' = [a \in Address |-> received[a] + payout[a]]
  BY <1>1, Zenon DEF Divides
<1>3. Moves
  BY <1>1, Zenon DEF Divides, Moves
<1> QED
  BY <1>2, <1>3 DEF Ledger, MoneyOK

LEMMA RoundNextMoves ==
    ASSUME Ledger, RoundNext
    PROVE  Moves /\ received' \in [Address -> Nat]
<1> DEFINE OK == Moves /\ received' \in [Address -> Nat]
<1>0. received \in [Address -> Nat] /\ IInv
  BY DEF Ledger, MoneyOK
<1>1. ASSUME NEW m \in Address, NEW amount, NEW r, Contribute(m, amount, r)  PROVE OK
  <2>1. UNCHANGED payoutVars
    BY <1>1, Zenon DEF Contribute
  <2>2. received' = received
    BY <2>1 DEF payoutVars
  <2>3. Moves
    BY <1>1, ContributeFlows, Zenon DEF Moves
  <2> QED
    BY <1>0, <2>2, <2>3
<1>2. ASSUME NEW m, NEW r \in Rounds, TriggerPayout(m, r)  PROVE OK
  <2>1. SettleRound(members, r)
    BY <1>2, Zenon DEF TriggerPayout
  <2>2. SameAddresses(members)
    BY <1>0 DEF IInv, RotationTypeOK, SameAddresses
  <2> QED
    BY <2>1, <2>2, SettlementMoves, Zenon
<1>3. ASSUME NEW r \in Rounds, CheckContributionDeadline(r)  PROVE OK
  <2>1. SettleRound(Swept(r), r)
    BY <1>3, Zenon DEF CheckContributionDeadline
  <2> QED
    BY <1>0, <2>1, SweptKeepsAddresses, SettlementMoves, Zenon
<1>4. ASSUME NEW m, NEW r, SchedulePayout(m, r)  PROVE OK
  <2>1. UNCHANGED <<payoutVars, balance>>
    BY <1>4, Zenon DEF SchedulePayout
  <2>2. UNCHANGED <<received, balance>>
    BY <2>1 DEF payoutVars
  <2> QED
    BY <1>0, <2>2, UnchangedFlows DEF Moves
<1>5. ASSUME NEW m, NEW r, NEW recipients \in BatchesOf(Address),
             NEW amounts \in BatchesOf(Amounts), BatchPayout(m, recipients, amounts, r)
      PROVE  OK
  <2>1. Len(recipients) = Len(amounts)
    BY <1>5, Zenon DEF BatchPayout
  <2>2. amounts \in Seq(Nat) /\ recipients \in Seq(Address)
    BY BatchTypes, Zenon
  <2>3. Len(recipients) \in Nat /\ DOMAIN recipients = 1..Len(recipients)
    BY <2>2, LenProperties
  <2>4. \A k \in 1..Len(recipients) : amounts[k] \in Nat
    BY <2>1, <2>2, ElementOfSeq
  <2> QED
    BY <1>5, <2>3, <2>4, BatchPayoutFlows, Zenon DEF Moves
<1> QED
  BY <1>1, <1>2, <1>3, <1>4, <1>5, Zenon DEF RoundNext

LEMMA TimeAdvances ==
    ASSUME IInv, [Next]_vars
    PROVE  now' \in Nat /\ now' >= now
<1>1. now \in Nat
  BY DEF IInv, RotationTypeOK
<1>2. now' \in Nat
  BY NextKeepsIInv DEF IInv, RotationTypeOK
<1>3. CASE Resting
  BY <1>1, <1>2, <1>3 DEF Resting
<1>4. CASE BidNext
  BY <1>1, <1>4, BidNextFrame DEF outsideAuction
<1>5. ASSUME NEW r, NEW ms, Closing(ms, r)  PROVE now' >= now
  BY <1>1, <1>5 DEF Closing
<1> QED
  BY <1>2, <1>3, <1>4, <1>5, NextFrame

\* Nothing is contributed in the future.
LEMMA NextKeepsStamps ==
    ASSUME Ledger, [Next]_vars
    PROVE  Stamps'
<1>1. IInv /\ Stamps /\ now \in Nat
  BY DEF Ledger, MoneyOK, IInv, RotationTypeOK
<1>2. ASSUME NEW m, NEW amount, NEW r, Contribute(m, amount, r)  PROVE Stamps'
  <2>1. /\ contributions' = contributions \cup
              {[member |-> m, round |-> r, amount |-> amount, timestamp |-> now,
                on_time |-> OnTime]}
        /\ now' = now
    BY <1>2, Zenon DEF Contribute
  <2> QED
    BY <1>1, <2>1 DEF Stamps
<1>3. ASSUME UNCHANGED roundVars, now' >= now, now' \in Nat  PROVE Stamps'
  <2>1. \A c \in contributions : c.timestamp \in Nat
    BY <1>1 DEF IInv, RotationTypeOK, Contribution
  <2> QED
    BY <1>1, <1>3, <2>1 DEF Stamps, roundVars
<1>4. now' \in Nat /\ now' >= now
  BY <1>1, TimeAdvances
<1>5. ASSUME NEW r, NEW ms, Closing(ms, r)  PROVE UNCHANGED roundVars
  BY <1>5, Zenon DEF Closing
<1>6. Bookless => UNCHANGED roundVars
  BY DEF Bookless, roundVars
<1> QED
  BY <1>1, <1>2, <1>3, <1>4, <1>5, <1>6, NextBooks, Zenon

LEMMA NextKeepsMoney ==
    ASSUME Ledger, [Next]_vars
    PROVE  MoneyOK'
<1>1. received \in [Address -> Nat]
  BY DEF Ledger, MoneyOK
<1>2. CASE Tick \/ UNCHANGED vars
  <2>1. UNCHANGED <<balance, received>>
    BY <1>2 DEF Tick, vars, payoutVars
  <2> QED
    BY <1>1, <2>1, NextKeepsStamps, LedgerTypes DEF MoneyOK
<1>3. CASE MemberNext \/ RoundNext \/ BidNext \/ AdminNext
  <2>1. Moves /\ received' \in [Address -> Nat]
    BY <1>1, <1>3, MemberNextMoves, RoundNextMoves, BidNextMoves, AdminNextMoves
  <2>2. balance' \in Balances
    BY <2>1, Zenon DEF Moves, Flows
  <2> QED
    BY <2>1, <2>2, NextKeepsStamps DEF MoneyOK, Balances
<1> QED
  BY <1>2, <1>3 DEF Next

LEMMA MoneyInvariant == Spec => []MoneyOK
<1>1. ASSUME Init  PROVE MoneyOK
  <2>1. /\ balance = [t \in Token |-> [a \in Account |-> IF a \in Address THEN Wallet ELSE 0]]
        /\ received = [a \in Address |-> 0] /\ contributions = {}
    BY <1>1 DEF Init
  <2> QED
    BY <2>1, BoundAssumption DEF MoneyOK, Balances, Stamps
<1>2. Ledger /\ [Next]_vars => MoneyOK'
  BY NextKeepsMoney
<1>3. IInv /\ BooksInv /\ AuctionInv /\ EntriesOK /\ MoneyOK => Ledger
  BY DEF Ledger, AuctionInv
<1> QED
  BY <1>1, <1>2, <1>3, RotationInvariant, BooksInvariant, AuctionInvariant, EntriesInvariant,
     PTL DEF Spec

LEMMA LedgerInvariant == Spec => []Ledger
<1>1. IInv /\ BooksInv /\ AuctionInv /\ EntriesOK /\ MoneyOK => Ledger
  BY DEF Ledger, AuctionInv
<1> QED
  BY <1>1, RotationInvariant, BooksInvariant, AuctionInvariant, EntriesInvariant, MoneyInvariant,
     PTL

\* The records that the earlier proofs are about.
RecordsInv == StandingsOK /\ StrikeInv /\ FeeInv /\ StreakInv

LEMMA RecordsInvariant == Spec => []RecordsInv
<1>1. Spec => [](StandingsOK /\ StrikeInv)
  BY StandingsInvariant, StrikeInvariant, PTL
<1>2. Spec => [](FeeInv /\ StreakInv)
  BY FeeInvariant, StreakInvariant, PTL
<1>3. (StandingsOK /\ StrikeInv) /\ (FeeInv /\ StreakInv) => RecordsInv
  BY DEF RecordsInv
<1> QED
  BY <1>1, <1>2, <1>3, PTL

\* Every storage entry holds what its type allows, and no balance is negative,
\* whatever the entry points are called with and in whatever order.
THEOREM TypesAreCorrect == Spec => []TypeOK
<1>1. Ledger /\ RecordsInv => TypeOK
  <2> SUFFICES ASSUME Ledger, StandingsOK, StrikeInv, FeeInv, StreakInv  PROVE TypeOK
    BY DEF RecordsInv
  <2>1. RotationTypeOK /\ fee_bps \in 0..10000
    BY DEF Ledger, IInv
  <2>2. /\ member_status \in [Address -> MemberStatus \cup {"NONE"}]
        /\ round_strikes \in [Rounds -> [Address -> Nat]]
        /\ fee_ledger \in [Rounds -> [payout_fee : Nat, late_penalty_fee : Nat]]
    BY Zenon DEF StandingsOK, StrikeInv, FeeInv, FeeRecord
  <2>3. /\ bids \in Seq([bidder : Address, bips : 0..10000, round : Rounds,
                         deposit : {0, ContributionAmount}])
        /\ auction_winner \in [Rounds -> Address \cup {NoOne}]
    BY DEF Ledger, AuctionTypeOK, Bid, Discounts
  <2>4. \A r \in Rounds : Cardinality(dutch[r]) <= 1
    <3>1. ASSUME NEW r \in Rounds  PROVE Cardinality(dutch[r]) <= 1
      <4>1. PICK d : dutch[r] \subseteq {d}
        BY DEF Ledger, EntriesOK
      <4>2. dutch[r] = {} \/ dutch[r] = {d}
        BY <4>1
      <4>3. Cardinality({d}) = 1 /\ Cardinality({}) = 0
        BY FS_EmptySet, FS_Singleton
      <4> QED
        BY <4>2, <4>3
    <3> QED
      BY <3>1
  <2>5. /\ scheduled \subseteq Rounds
        /\ votes \subseteq [voter : Address, vote_for : Address, round : Rounds]
        /\ dispute \subseteq [raised_by : Address, resolution : Resolutions \cup {"NONE"}]
        /\ withdrawal \in [day : Nat, amount : Nat]
        /\ referrals \subseteq Address \X Address
        /\ treasury \in {NoOne, Treasury}
        /\ allowlist \subseteq Address /\ paused \in BOOLEAN
    BY Zenon DEF Ledger, EntriesOK, Vote, Dispute
  <2>6. \A a \in Address : streaks[a] \subseteq [current : Nat, longest : Nat, last : Rounds]
    BY DEF StreakInv, Streak
  <2>7. received \in [Address -> Nat] /\ balance \in [Token -> [Account -> Nat]]
    BY Zenon DEF Ledger, MoneyOK, Balances
  <2> QED
    BY <2>1, <2>2, <2>3, <2>4, <2>5, <2>6, <2>7, SMTT(60) DEF TypeOK, RecordsTypeOK
<1> QED
  BY <1>1, RecordsInvariant, LedgerInvariant, PTL

-----------------------------------------------------------------------------
(* Payouts: what the members received is what the rounds paid.             *)

LEMMA SumOfAppended ==
    ASSUME NEW n \in Nat, NEW f, \A k \in 1..n : f[k] \in Int,
           NEW g, \A k \in 1..n : g[k] = f[k], g[n + 1] \in Int
    PROVE  SumFunctionOnSet(g, 1..(n + 1)) = SumFunctionOnSet(f, 1..n) + g[n + 1]
<1> DEFINE S == 1..n
           a == n + 1
<1>1. /\ IsFiniteSet(S) /\ a \notin S /\ 1..(n + 1) = S \cup {a}
      /\ \A x \in S \cup {a} : g[x] \in Int
  <2>1. 1 \in Int /\ n \in Int
    OBVIOUS
  <2>2. IsFiniteSet(1..n)
    BY <2>1, FS_Interval
  <2>3. n + 1 \notin 1..n /\ 1..(n + 1) = (1..n) \cup {n + 1}
    OBVIOUS
  <2> QED
    BY <2>2, <2>3
<1> HIDE DEF S, a
<1>2. SumFunctionOnSet(g, S \cup {a}) = SumFunctionOnSet(g, S) + g[a]
  BY <1>1, SumWith, SMTT(60)
<1>3. SumFunctionOnSet(g, S) = SumFunctionOnSet(f, S)
  BY <1>1, SumsAgree DEF S
<1> QED
  BY <1>1, <1>2, <1>3 DEF S, a

\* What a settlement adds to the log.
LEMMA SettledIs ==
    ASSUME IInv, NEW s, s \in Settlement, settled' = Append(settled, s)
    PROVE  /\ Len(settled) \in Nat /\ DOMAIN settled = 1..Len(settled)
           /\ DOMAIN settled' = 1..(Len(settled) + 1)
           /\ \A k \in 1..Len(settled) : settled'[k] = settled[k] /\ settled[k] \in Settlement
           /\ settled'[Len(settled) + 1] = s
<1>1. settled \in Seq(Settlement)
  BY DEF IInv, RotationTypeOK
<1>2. /\ settled' \in Seq(Settlement) /\ Len(settled') = Len(settled) + 1
      /\ \A k \in 1..Len(settled) : settled'[k] = settled[k]
      /\ settled'[Len(settled) + 1] = s
  BY <1>1, AppendProperties
<1>3. \A k \in 1..Len(settled) : settled[k] \in Settlement
  BY <1>1, ElementOfSeq
<1> QED
  BY <1>1, <1>2, <1>3, LenProperties

BatchPays == \E m, r, recipients, amounts : BatchPayout(m, recipients, amounts, r)

\* A step that pays nobody out of a pool, but for its contributions.
Payless ==
    /\ UNCHANGED <<settled, received>>
    /\ circle'.total_payouts = circle.total_payouts
    /\ contributions \subseteq contributions'

LEMMA RoundNextPayouts ==
    ASSUME IInv, RoundNext
    PROVE  \/ Payless \/ BatchPays
           \/ \E ms : \E r \in Rounds : SettleRound(ms, r) /\ SameAddresses(ms)
<1>1. circle \in CircleRecord
  BY DEF IInv, RotationTypeOK
<1>2. ASSUME NEW m, NEW amount, NEW r, Contribute(m, amount, r)  PROVE Payless
  <2>1. /\ circle' = [circle EXCEPT !.total_fees = @ + LatePenalty(amount)]
        /\ \E c : contributions' = contributions \cup {c}
        /\ UNCHANGED payoutVars
    BY <1>2, Zenon DEF Contribute
  <2> QED
    BY <1>1, <2>1 DEF Payless, payoutVars, CircleRecord
<1>3. ASSUME NEW m, NEW r, SchedulePayout(m, r)  PROVE Payless
  <2>1. UNCHANGED <<circle, roundVars, payoutVars>>
    BY <1>3, Zenon DEF SchedulePayout
  <2> QED
    BY <2>1 DEF Payless, payoutVars, roundVars
<1>4. ASSUME NEW r \in Rounds, CheckContributionDeadline(r)
      PROVE  SettleRound(Swept(r), r) /\ SameAddresses(Swept(r))
  BY <1>4, SweptKeepsAddresses, Zenon DEF CheckContributionDeadline
<1>5. ASSUME NEW m, NEW r, TriggerPayout(m, r)  PROVE SettleRound(members, r)
  BY <1>5, Zenon DEF TriggerPayout
<1>6. SameAddresses(members)
  BY DEF SameAddresses, IInv, RotationTypeOK
<1> HIDE DEF Payless
<1> QED
  BY <1>2, <1>3, <1>4, <1>5, <1>6, Zenon DEF RoundNext, BatchPays

LEMMA NextPayouts ==
    ASSUME IInv, [Next]_vars
    PROVE  \/ Payless \/ BatchPays
           \/ \E ms : \E r \in Rounds : SettleRound(ms, r) /\ SameAddresses(ms)
<1>1. CASE UNCHANGED vars \/ Tick
  BY <1>1 DEF vars, Tick, Payless, payoutVars, roundVars
<1>2. CASE MemberNext
  BY <1>2, MemberNextFrame DEF Payless, outsideRoster, payoutVars, roundVars, SameProgress
<1>3. CASE BidNext
  BY <1>3, BidNextFrame DEF Payless, outsideAuction, payoutVars, roundVars
<1>4. CASE AdminNext
  BY <1>4, AdminNextFrame DEF Payless, outsideAdmin, payoutVars, roundVars, SameProgress
<1> QED
  BY <1>1, <1>2, <1>3, <1>4, RoundNextPayouts, Zenon DEF Next

\* PayoutsReachMembers with its sums taken over sets.
AmountsOf(log) == [k \in DOMAIN log |-> log[k].amount]
PayoutInv ==
    /\ SumFunctionOnSet(received, Address) = circle.total_payouts
    /\ circle.total_payouts = SumFunctionOnSet(AmountsOf(settled), DOMAIN settled)
    /\ \A m \in Address : received[m] > 0 =>
          \/ \E c \in contributions : c.member = m
          \/ \E k \in DOMAIN settled : settled[k].recipient = m

LEMMA PaylessKeepsPayouts ==
    ASSUME PayoutInv, Payless
    PROVE  PayoutInv'
<1>1. received' = received /\ settled' = settled
  BY DEF Payless
<1> QED
  BY <1>1 DEF PayoutInv, Payless

LEMMA SettlementKeepsPayouts ==
    ASSUME Ledger, PayoutInv, NEW ms, NEW r \in Rounds, SettleRound(ms, r), SameAddresses(ms)
    PROVE  PayoutInv'
<1>1. PICK i, payout, back : \E amount, charge \in Nat :
         Divides(ms, r, i, amount, charge, payout, back)
  BY SettlementDivides
<1>2. PICK amount \in Nat, charge \in Nat : Divides(ms, r, i, amount, charge, payout, back)
  BY <1>1
<1> DEFINE w == ms[i].address
           s == [recipient |-> w, round |-> r, amount |-> amount, fee |-> charge]
<1>3. /\ i \in Resolve(ms, r)
      /\ circle' = CircleAfter(i, amount, charge)
      /\ settled' = Append(settled, s)
      /\ payout \in [Address -> Nat] /\ SumFunctionOnSet(payout, Address) = amount
      /\ \A a \in Address : payout[a] # 0 => a = w \/ \E c \in contributions : c.member = a
      /\ received' = [a \in Address |-> received[a] + payout[a]]
  BY <1>2, Zenon DEF Divides
<1>4. IInv /\ received \in [Address -> Nat] /\ IsFiniteSet(Address)
  BY AddressAssumption DEF Ledger, MoneyOK
<1>5. i \in DOMAIN members /\ w \in Address
  <2>1. DOMAIN ms = DOMAIN members
    BY <1>4, LenProperties DEF SameAddresses, IInv, RotationTypeOK
  <2>2. i \in DOMAIN members
    BY <1>3, <2>1, ResolveUnpaid
  <2>3. members[i] \in Member
    BY <1>4, <2>2, MemberTypes
  <2> QED
    BY <2>2, <2>3 DEF Member, SameAddresses
<1>6. s \in Settlement /\ s.amount = amount /\ s.recipient = w
  BY <1>5 DEF Settlement
<1>7. circle'.total_payouts = circle.total_payouts + amount
  <2>1. amount \in Int /\ charge \in Int
    OBVIOUS
  <2> QED
    BY <1>3, <1>4, <1>5, <2>1, CircleAfterFields
<1> HIDE DEF s, w
<1>8. /\ Len(settled) \in Nat /\ DOMAIN settled = 1..Len(settled)
      /\ DOMAIN settled' = 1..(Len(settled) + 1)
      /\ \A k \in 1..Len(settled) : settled'[k] = settled[k] /\ settled[k] \in Settlement
      /\ settled'[Len(settled) + 1] = s
  BY <1>3, <1>4, <1>6, SettledIs
<1>9. SumFunctionOnSet(received', Address) = SumFunctionOnSet(received, Address) + amount
  <2>1. \A a \in Address : /\ received[a] \in Int /\ payout[a] \in Int
                            /\ received'[a] = received[a] + payout[a]
    BY <1>3, <1>4
  <2>2. SumFunctionOnSet(received', Address)
          = SumFunctionOnSet(received, Address) + SumFunctionOnSet(payout, Address)
    BY <1>4, <2>1, SumOfSums
  <2> QED
    BY <1>3, <2>2
<1>10. SumFunctionOnSet(AmountsOf(settled'), DOMAIN settled')
         = SumFunctionOnSet(AmountsOf(settled), DOMAIN settled) + amount
  <2> DEFINE n == Len(settled)
             f == AmountsOf(settled)
             g == AmountsOf(settled')
  <2>1. \A k \in 1..n : f[k] = settled[k].amount /\ g[k] = settled[k].amount
    BY <1>8 DEF AmountsOf
  <2>2. \A k \in 1..n : settled[k].amount \in Int
    BY <1>8 DEF Settlement
  <2>3. g[n + 1] = amount
    BY <1>6, <1>8 DEF AmountsOf
  <2> HIDE DEF f, g, n
  <2>4. n \in Nat /\ DOMAIN settled = 1..n /\ DOMAIN settled' = 1..(n + 1)
    BY <1>8 DEF n
  <2>5. /\ \A k \in 1..n : f[k] \in Int
        /\ \A k \in 1..n : g[k] = f[k]
        /\ g[n + 1] \in Int
    BY <2>1, <2>2, <2>3
  <2>6. SumFunctionOnSet(g, 1..(n + 1)) = SumFunctionOnSet(f, 1..n) + g[n + 1]
    BY <2>4, <2>5, SumOfAppended
  <2> QED
    BY <2>3, <2>4, <2>6 DEF f, g
<1>11. ASSUME NEW m \in Address, received'[m] > 0
       PROVE  \/ \E c \in contributions' : c.member = m
              \/ \E k \in DOMAIN settled' : settled'[k].recipient = m
  <2>1. contributions' = contributions
    <3>1. UNCHANGED roundVars
      BY Zenon DEF SettleRound
    <3> QED
      BY <3>1 DEF roundVars
  <2>2. CASE received[m] > 0
    <3>1. \/ \E c \in contributions : c.member = m
          \/ \E k \in DOMAIN settled : settled[k].recipient = m
      BY <2>2 DEF PayoutInv
    <3> QED
      BY <1>8, <2>1, <3>1
  <2>3. CASE ~(received[m] > 0)
    <3>1. payout[m] # 0
      BY <1>3, <1>4, <1>11, <2>3
    <3> QED
      BY <1>3, <1>6, <1>8, <2>1, <3>1, SMTT(60)
  <2> QED
    BY <2>2, <2>3
<1> QED
  BY <1>7, <1>9, <1>10, <1>11 DEF PayoutInv

\* Unless the operator pays batches, which the rounds do not account for, what the
\* members received is what the circle counts as paid and what its rounds paid,
\* down to the last unit that the shares leave over, and it went to contributors
\* and recipients only (trigger_payout_internal, contract.rs; payout.rs).
THEOREM PayoutsAreReceived == Spec /\ [][~BatchPays]_vars => []PayoutsReachMembers
<1>1. ASSUME Init  PROVE PayoutInv
  <2>1. /\ received = [a \in Address |-> 0] /\ settled = << >> /\ circle.total_payouts = 0
        /\ IsFiniteSet(Address)
    BY <1>1, AddressAssumption DEF Init
  <2>2. SumFunctionOnSet(received, Address) = 0
    BY <2>1, SumOfZeros
  <2>3. DOMAIN settled = {}
    BY <2>1
  <2>4. SumFunctionOnSet(AmountsOf(settled), DOMAIN settled) = 0
    BY <2>3, SumOfNothing
  <2> QED
    BY <2>1, <2>2, <2>4 DEF PayoutInv
<1>2. ASSUME Ledger, PayoutInv, [Next]_vars, [~BatchPays]_vars  PROVE PayoutInv'
  <2>1. CASE UNCHANGED vars
    <3>1. Payless
      BY <2>1 DEF vars, Payless, payoutVars, roundVars
    <3> QED
      BY <1>2, <3>1, PaylessKeepsPayouts
  <2>2. CASE ~BatchPays
    <3>1. IInv
      BY <1>2 DEF Ledger
    <3> QED
      BY <1>2, <2>2, <3>1, NextPayouts, PaylessKeepsPayouts, SettlementKeepsPayouts, Zenon
  <2> QED
    BY <1>2, <2>1, <2>2
<1>3. Ledger /\ PayoutInv => PayoutsReachMembers
  <2> SUFFICES ASSUME Ledger, PayoutInv  PROVE PayoutsReachMembers
    OBVIOUS
  <2>1. received \in [Address -> Nat]
    BY DEF Ledger, MoneyOK
  <2>2. SumFunction(received) = SumFunctionOnSet(received, Address)
    BY <2>1 DEF SumFunction
  <2>3. SumFunction([k \in DOMAIN settled |-> settled[k].amount])
          = SumFunctionOnSet(AmountsOf(settled), DOMAIN settled)
    BY DEF SumFunction, AmountsOf
  <2> QED
    BY <2>2, <2>3 DEF PayoutInv, PayoutsReachMembers
<1> QED
  BY <1>1, <1>2, <1>3, LedgerInvariant, PTL DEF Spec

-----------------------------------------------------------------------------
(* Withdrawals.                                                            *)

Withdraws == \E a \in Address, amount \in Amounts : WithdrawTreasury(a, amount)

Operators == {Organizer, Admin}
FundsIn(bal) == SumFunctionOnSet([m \in Address |-> bal[Token0][m] - Wallet], Operators)
Funds == FundsIn(balance)

LEMMA NextWithdrawal ==
    ASSUME IInv, [Next]_vars, ~Withdraws
    PROVE  UNCHANGED withdrawal
<1>1. CASE UNCHANGED vars \/ Tick
  BY <1>1 DEF vars, Tick, sideVars
<1>2. CASE MemberNext
  BY <1>2, MemberNextFrame DEF outsideRoster, sideVars
<1>3. CASE BidNext
  BY <1>3, BidNextFrame DEF outsideAuction, sideVars
<1>4. CASE RoundNext
  <2>1. ASSUME NEW m, NEW amount, NEW r, Contribute(m, amount, r)  PROVE UNCHANGED withdrawal
    BY <2>1, Zenon DEF Contribute
  <2>2. ASSUME NEW m, NEW r, SchedulePayout(m, r)  PROVE UNCHANGED withdrawal
    BY <2>2, Zenon DEF SchedulePayout, sideVars
  <2>3. ASSUME NEW ms, NEW r, SettleRound(ms, r)  PROVE UNCHANGED withdrawal
    BY <2>3, Zenon DEF SettleRound, sideVars
  <2>4. ASSUME NEW m, NEW recipients, NEW amounts, NEW r, BatchPayout(m, recipients, amounts, r)
        PROVE  UNCHANGED withdrawal
    BY <2>4, Zenon DEF BatchPayout, sideVars
  <2> QED
    BY <1>4, <2>1, <2>2, <2>3, <2>4, Zenon DEF RoundNext, TriggerPayout, CheckContributionDeadline
<1>5. CASE AdminNext
  <2>1. ASSUME NEW a, RaiseDispute(a) \/ ClaimBonus(a) \/ Pause(a) \/ Unpause(a) \/ SetTreasury(a)
        PROVE  UNCHANGED withdrawal
    BY <2>1, Zenon DEF RaiseDispute, ClaimBonus, Pause, Unpause, SetTreasury, unconfigured,
                       sideVars
  <2>2. ASSUME NEW a, NEW x, \/ ResolveDispute(a, x) \/ RegisterReferral(a, x)
                             \/ UpdateStreak(a, x) \/ SetAllowlist(a, x) \/ SetToken(a, x)
        PROVE  UNCHANGED withdrawal
    BY <2>2, Zenon DEF ResolveDispute, RegisterReferral, UpdateStreak, SetAllowlist, SetToken,
                       unconfigured, sideVars
  <2>3. ASSUME NEW a, NEW x, SetFeeBps(a, x) \/ ConfigureFromFactory(x)
        PROVE  UNCHANGED withdrawal
    BY <2>3, SMT DEF SetFeeBps, ConfigureFromFactory, unconfigured, sideVars
  <2> QED
    BY <1>5, <2>1, <2>2, <2>3, Zenon DEF AdminNext, Withdraws
<1> QED
  BY <1>1, <1>2, <1>3, <1>4, <1>5, Zenon DEF Next

\* What the operators hold is accounted for by the days that are over and by what
\* was withdrawn on the day of the last withdrawal.
WithdrawalInv ==
    /\ Funds <= DailyLimit * withdrawal.day + withdrawal.amount
    /\ withdrawal.amount <= DailyLimit
    /\ withdrawal.day <= Today

LEMMA DaysAdvance ==
    ASSUME NEW s \in Nat, NEW t \in Nat, s <= t
    PROVE  /\ s \div DaySeconds \in Nat /\ t \div DaySeconds \in Nat
           /\ s \div DaySeconds <= t \div DaySeconds
<1> DEFINE d == DaySeconds
           q == s \div d
           p == t \div d
<1>1. d \in Nat /\ d > 0
  BY ConfigAssumption
<1> HIDE DEF d
<1>2. /\ q \in Nat /\ d * q <= s
      /\ p \in Nat /\ t < d * (p + 1)
  BY <1>1
<1> HIDE DEF q, p
<1>3. ASSUME p + 1 <= q  PROVE FALSE
  <2>1. d * (p + 1) <= d * q
    BY <1>1, <1>2, <1>3, ProductsAreOrdered
  <2> QED
    BY <1>1, <1>2, <2>1
<1>4. q <= p
  BY <1>2, <1>3
<1> QED
  BY <1>2, <1>4 DEF q, p, d

LEMMA FundsTypes ==
    ASSUME NEW bal \in Balances
    PROVE  /\ Operators \subseteq Address /\ IsFiniteSet(Operators)
           /\ \A m \in Address : bal[Token0][m] \in Nat
           /\ FundsIn(bal) \in Int
<1>1. Operators \subseteq Address /\ IsFiniteSet(Operators)
  BY AddressAssumption, FS_Subset DEF Operators
<1>2. \A m \in Address : bal[Token0][m] \in Nat
  BY AddressAssumption DEF Balances, Account
<1>3. \A m \in Operators : [a \in Address |-> bal[Token0][a] - Wallet][m] \in Int
  <2>1. Wallet \in Int
    BY BoundAssumption
  <2> QED
    BY <1>1, <1>2, <2>1
<1> QED
  BY <1>1, <1>2, <1>3, SumIsInteger DEF FundsIn

\* What an operator withdraws is all that the operators gain.
LEMMA WithdrawalGains ==
    ASSUME Ledger, MoneyOK', NEW w \in Address, NEW amount \in Amounts, WithdrawTreasury(w, amount)
    PROVE  Funds' <= Funds + amount
<1> DEFINE f == [m \in Address |-> balance[Token0][m] - Wallet]
           g == [m \in Address |-> balance'[Token0][m] - Wallet]
<1>1. /\ Operators \subseteq Address /\ IsFiniteSet(Operators)
      /\ \A m \in Address : balance[Token0][m] \in Nat /\ balance'[Token0][m] \in Nat
      /\ Funds \in Int
  BY FundsTypes DEF Ledger, MoneyOK, Funds
<1>2. Flows(Only(w, amount), -amount) /\ amount \in Nat /\ w \in Operators
  <2>1. amount \in Nat
    BY BoundAssumption, SMTT(60)
  <2>2. w \in Operators
    BY Zenon DEF WithdrawTreasury, IsOperator, Operators
  <2> QED
    BY <2>1, <2>2, WithdrawTreasuryFlows
<1>3. Wallet \in Int /\ \A m \in Operators : f[m] \in Int /\ g[m] \in Int
  <2>1. Wallet \in Int
    BY BoundAssumption
  <2> QED
    BY <1>1, <2>1
<1>4. Funds = SumFunctionOnSet(f, Operators)
  BY DEF Funds, FundsIn
<1>5. Funds' = SumFunctionOnSet(g, Operators)
  BY DEF Funds, FundsIn, Operators
<1>6. CASE circle.token = Token0
  <2>1. /\ \A m \in Address \ {w} : balance'[Token0][m] = balance[Token0][m]
        /\ balance'[Token0][w] = balance[Token0][w] + amount
    BY <1>1, <1>2, <1>6 DEF Flows, Only
  <2>2. \A m \in Operators \ {w} : g[m] = f[m]
    BY <1>1, <2>1
  <2>3. g[w] = f[w] + amount
    BY <1>1, <1>2, <1>3, <2>1
  <2>4. f[w] \in Int /\ w \in Operators
    BY <1>2, <1>3
  <2> HIDE DEF f, g
  <2>5. SumFunctionOnSet(g, Operators) = SumFunctionOnSet(f, Operators) + g[w] - f[w]
    BY <1>1, <1>3, <2>2, <2>4, SumOfChange
  <2> QED
    BY <1>1, <1>2, <1>4, <1>5, <2>3, <2>4, <2>5
<1>7. CASE circle.token # Token0
  <2>1. balance'[Token0] = balance[Token0]
    BY <1>2, <1>7, AddressAssumption DEF Flows
  <2>2. f = g
    BY <2>1
  <2> HIDE DEF f, g
  <2> QED
    BY <1>1, <1>2, <1>4, <1>5, <2>2
<1> QED
  BY <1>6, <1>7

LEMMA WithdrawalKeepsLimit ==
    ASSUME Ledger, WithdrawalInv, DailyLimit > 0, MoneyOK',
           NEW w \in Address, NEW amount \in Amounts, WithdrawTreasury(w, amount)
    PROVE  WithdrawalInv'
<1>1. /\ withdrawal' = [day |-> Today, amount |-> WithdrawnToday + amount]
      /\ WithdrawnToday + amount <= DailyLimit
      /\ now' = now
  BY Zenon DEF WithdrawTreasury, outsideAdmin
<1>2. Today' = Today
  BY <1>1 DEF Today
<1>3. Funds' <= Funds + amount
  BY WithdrawalGains
<1>4. /\ Funds \in Int /\ Funds' \in Int
      /\ withdrawal.day \in Nat /\ withdrawal.amount \in Nat
      /\ amount \in Nat /\ DailyLimit \in Nat
  <2>1. Funds \in Int /\ Funds' \in Int
    <3>1. balance \in Balances /\ balance' \in Balances
      BY DEF Ledger, MoneyOK
    <3>2. FundsIn(balance) \in Int /\ FundsIn(balance') \in Int
      BY <3>1, FundsTypes
    <3>3. Funds' = FundsIn(balance')
      BY DEF Funds, FundsIn, Operators
    <3> QED
      BY <3>2, <3>3 DEF Funds
  <2>2. amount \in Nat /\ DailyLimit \in Nat
    BY BoundAssumption, ConfigAssumption, SMTT(60)
  <2> QED
    BY <2>1, <2>2 DEF Ledger, EntriesOK
<1>5. Today \in Nat
  BY DaysAdvance DEF Today, Ledger, IInv, RotationTypeOK
<1> DEFINE spent == DailyLimit * withdrawal.day
           due == DailyLimit * Today
           day == withdrawal.day
           gone == withdrawal.amount
<1>6. /\ Funds <= spent + gone /\ gone <= DailyLimit /\ day <= Today
      /\ spent \in Nat /\ due \in Nat
  BY <1>4, <1>5 DEF WithdrawalInv
<1>7. CASE day = Today
  <2>1. WithdrawnToday = gone /\ spent = due
    BY <1>7 DEF WithdrawnToday
  <2> HIDE DEF spent, due, gone
  <2>2. Funds' <= due + (WithdrawnToday + amount)
    BY <1>3, <1>4, <1>6, <2>1 DEF gone
  <2> QED
    BY <1>1, <1>2, <1>5, <2>2 DEF due, WithdrawalInv
<1>8. CASE day # Today
  <2>1. WithdrawnToday = 0
    BY <1>8 DEF WithdrawnToday
  <2>2. spent + DailyLimit <= due
    <3>1. day + 1 <= Today /\ day + 1 \in Nat
      BY <1>4, <1>5, <1>6, <1>8
    <3>2. DailyLimit * (day + 1) <= due
      BY <1>4, <1>5, <3>1, ProductsAreOrdered
    <3>3. DailyLimit * (day + 1) = spent + DailyLimit
      <4>1. DailyLimit \in Int /\ day \in Int /\ 1 \in Int
        BY <1>4
      <4>2. DailyLimit * (day + 1) = DailyLimit * day + DailyLimit * 1
        BY <4>1, Distributes
      <4> QED
        BY <4>1, <4>2
    <3> QED
      BY <3>2, <3>3
  <2> HIDE DEF spent, due, gone
  <2>3. Funds' <= due + (WithdrawnToday + amount)
    BY <1>3, <1>4, <1>6, <2>1, <2>2 DEF gone
  <2> QED
    BY <1>1, <1>2, <1>5, <2>3 DEF due, WithdrawalInv
<1> QED
  BY <1>7, <1>8

\* With a daily limit, operators whom nothing else pays get at most the limit for
\* each day that has begun, however their withdrawals are spread over the days and
\* between the two of them (withdraw_treasury, #478).
THEOREM WithdrawalsStayWithinLimit ==
    ASSUME DailyLimit > 0
    PROVE  Spec /\ [][Funds' > Funds => Withdraws]_vars
             => []WithdrawalsWithinLimit
<1> DEFINE Honest == Funds' > Funds => Withdraws
<1>1. ASSUME Init  PROVE WithdrawalInv
  <2>1. /\ \A m \in Operators : [a \in Address |-> balance[Token0][a] - Wallet][m] = 0
        /\ withdrawal = [day |-> 0, amount |-> 0] /\ now = 0
    <3>1. /\ balance = [t \in Token |-> [a \in Account |-> IF a \in Address THEN Wallet ELSE 0]]
          /\ withdrawal = [day |-> 0, amount |-> 0] /\ now = 0
      BY <1>1 DEF Init
    <3>2. Operators \subseteq Address /\ Address \subseteq Account /\ Token0 \in Token
      BY AddressAssumption DEF Operators, Account
    <3>3. \A m \in Operators : balance[Token0][m] = Wallet
      BY <3>1, <3>2
    <3>4. Wallet \in Nat
      BY BoundAssumption
    <3> QED
      BY <3>1, <3>2, <3>3, <3>4
  <2>2. IsFiniteSet(Operators)
    BY AddressAssumption, FS_Subset DEF Operators
  <2>3. Funds = 0
    BY <2>1, <2>2, SumOfZeros DEF Funds, FundsIn
  <2>4. Today \in Nat
    BY <2>1, DaysAdvance DEF Today
  <2>5. DailyLimit * 0 = 0
    BY ConfigAssumption
  <2> QED
    BY <2>1, <2>3, <2>4, <2>5, ConfigAssumption DEF WithdrawalInv
<1>2. ASSUME Ledger, MoneyOK', WithdrawalInv, [Next]_vars, [Honest]_vars  PROVE WithdrawalInv'
  <2>1. CASE Withdraws
    BY <1>2, <2>1, WithdrawalKeepsLimit DEF Withdraws
  <2>2. CASE ~Withdraws
    <3>1. IInv
      BY <1>2 DEF Ledger
    <3>2. UNCHANGED withdrawal /\ now' \in Nat /\ now <= now' /\ now \in Nat
      BY <1>2, <2>2, <3>1, NextWithdrawal, TimeAdvances DEF IInv, RotationTypeOK
    <3>3. Today \in Nat /\ Today' \in Nat /\ Today <= Today'
      BY <3>2, DaysAdvance DEF Today
    <3>4. Funds \in Int /\ Funds' \in Int
      <4>1. balance \in Balances /\ balance' \in Balances
        BY <1>2 DEF Ledger, MoneyOK
      <4>2. FundsIn(balance) \in Int /\ FundsIn(balance') \in Int
        BY <4>1, FundsTypes
      <4>3. Funds' = FundsIn(balance')
        BY DEF Funds, FundsIn, Operators
      <4> QED
        BY <4>2, <4>3 DEF Funds
    <3>5. Funds' <= Funds
      <4>1. CASE UNCHANGED vars
        <5>1. balance' = balance
          BY <4>1 DEF vars
        <5> QED
          BY <3>4, <5>1 DEF Funds, FundsIn, Operators
      <4>2. CASE Honest
        BY <2>2, <3>4, <4>2
      <4> QED
        BY <1>2, <4>1, <4>2
    <3>6. withdrawal.day \in Nat /\ withdrawal.amount \in Nat /\ DailyLimit * withdrawal.day \in Nat
      BY <1>2, ConfigAssumption DEF Ledger, EntriesOK
    <3> QED
      BY <1>2, <3>2, <3>3, <3>4, <3>5, <3>6 DEF WithdrawalInv
  <2> QED
    BY <2>1, <2>2
<1>3. Ledger /\ WithdrawalInv => WithdrawalsWithinLimit
  <2> SUFFICES ASSUME Ledger, WithdrawalInv  PROVE WithdrawalsWithinLimit
    OBVIOUS
  <2> DEFINE day == withdrawal.day
             gone == withdrawal.amount
             spent == DailyLimit * day
             due == DailyLimit * (Today + 1)
  <2>1. Today \in Nat /\ day \in Nat /\ gone \in Nat /\ DailyLimit \in Nat
    <3>1. now \in Nat
      BY DEF Ledger, IInv, RotationTypeOK
    <3> QED
      BY <3>1, DaysAdvance, ConfigAssumption DEF Today, Ledger, EntriesOK
  <2>2. Funds <= spent + gone /\ gone <= DailyLimit /\ day <= Today
    BY DEF WithdrawalInv
  <2>3. spent + DailyLimit <= due
    <3>1. day + 1 <= Today + 1 /\ day + 1 \in Nat /\ Today + 1 \in Nat
      BY <2>1, <2>2
    <3>2. DailyLimit * (day + 1) <= due
      BY <2>1, <3>1, ProductsAreOrdered
    <3>3. DailyLimit * (day + 1) = spent + DailyLimit
      <4>1. DailyLimit \in Int /\ day \in Int /\ 1 \in Int
        BY <2>1
      <4>2. DailyLimit * (day + 1) = DailyLimit * day + DailyLimit * 1
        BY <4>1, Distributes
      <4> QED
        BY <4>1, <4>2
    <3> QED
      BY <3>2, <3>3
  <2>4. Funds \in Int
    BY FundsTypes DEF Ledger, MoneyOK, Funds
  <2>5. spent \in Nat /\ due \in Nat
    BY <2>1
  <2> HIDE DEF day, gone, spent, due
  <2>6. Funds <= due
    BY <2>1, <2>2, <2>3, <2>4, <2>5
  <2> QED
    BY <2>6 DEF due, WithdrawalsWithinLimit, Funds, FundsIn, Operators
<1>4. Ledger => MoneyOK
  BY DEF Ledger
<1> QED
  BY <1>1, <1>2, <1>3, <1>4, LedgerInvariant, PTL DEF Spec

-----------------------------------------------------------------------------
(* Escrow: what the circle owes is in its account.                         *)

Pooled(log) == SumFunctionOnSet([c \in log |-> c.amount], log)
PaidIn(log) == SumFunctionOnSet([k \in DOMAIN log |-> log[k].amount + log[k].fee], DOMAIN log)
Deposited(list) == SumFunctionOnSet([k \in DOMAIN list |-> list[k].deposit], DOMAIN list)
HeldIn(status, ms) ==
    IF status = "COMPLETED" THEN 0 ELSE Collateral * Cardinality(ActiveIn(ms))
Own == balance[Token0][Self]

\* A circle that was cancelled before it started has given everything back.
Closed == circle.status = "CANCELLED" /\ dispute = {}

\* What EscrowCovers promises does not keep itself.  Bidders' deposits are in the same
\* account, so the amount owed counts them.  A dispute can resume a circle that a refund
\* had cancelled, and its active members' collateral is then owed again: the bound is
\* kept in a disputed circle too.  And the tokens are the configured one, since the
\* account is counted in the token the circle uses now.
EscrowInv ==
    /\ circle.token = Token0
    /\ circle.status = "PENDING" \/ Closed => contributions = {} /\ settled = << >>
    /\ circle.status = "PENDING" => dispute = {}
    /\ ~Closed => Own >= Pooled(contributions) - PaidIn(settled) + Deposited(bids)
                           + HeldIn(circle.status, members)

LEMMA PooledType ==
    ASSUME NEW log \in SUBSET Contribution, IsFiniteSet(log)
    PROVE  Pooled(log) \in Nat
<1> DEFINE f == [c \in log |-> c.amount]
<1>1. \A c \in log : f[c] \in Nat
  BY ConfigAssumption DEF Contribution
<1> HIDE DEF f
<1>2. SumFunctionOnSet(f, log) \in Nat
  BY <1>1, SumIsNatural
<1> QED
  BY <1>2 DEF Pooled, f

LEMMA PaidInType ==
    ASSUME NEW log \in Seq(Settlement)
    PROVE  PaidIn(log) \in Int
<1> DEFINE f == [k \in DOMAIN log |-> log[k].amount + log[k].fee]
<1>1. Len(log) \in Nat /\ DOMAIN log = 1..Len(log) /\ \A k \in DOMAIN log : log[k] \in Settlement
  BY LenProperties, ElementOfSeq
<1>2. \A k \in DOMAIN log : f[k] \in Int
  BY <1>1 DEF Settlement
<1>3. IsFiniteSet(DOMAIN log)
  BY <1>1, FS_Interval
<1> HIDE DEF f
<1>4. SumFunctionOnSet(f, DOMAIN log) \in Int
  BY <1>2, <1>3, SumIsInteger
<1> QED
  BY <1>4 DEF PaidIn, f

LEMMA DepositedType ==
    ASSUME NEW list \in Seq(Bid)
    PROVE  Deposited(list) \in Nat
<1> DEFINE f == [k \in DOMAIN list |-> list[k].deposit]
<1>1. Len(list) \in Nat /\ DOMAIN list = 1..Len(list) /\ \A k \in DOMAIN list : list[k] \in Bid
  BY LenProperties, ElementOfSeq
<1>2. \A k \in DOMAIN list : f[k] \in Nat
  BY <1>1, ConfigAssumption DEF Bid
<1>3. IsFiniteSet(DOMAIN list)
  BY <1>1, FS_Interval
<1> HIDE DEF f
<1>4. SumFunctionOnSet(f, DOMAIN list) \in Nat
  BY <1>2, <1>3, SumIsNatural
<1> QED
  BY <1>4 DEF Deposited, f

LEMMA HeldType ==
    ASSUME NEW ms \in Seq(Member), NEW status
    PROVE  HeldIn(status, ms) \in Nat
<1>1. Collateral \in Nat /\ Cardinality(ActiveIn(ms)) \in Nat
  BY ActiveAreFinite, ConfigAssumption
<1>2. \A x, y \in Nat : x * y \in Nat
  OBVIOUS
<1> QED
  BY <1>1, <1>2 DEF HeldIn

\* More active members hold more collateral, and one more, one collateral more.
LEMMA HeldFalls ==
    ASSUME NEW ms \in Seq(Member), NEW ns \in Seq(Member), ActiveIn(ns) \subseteq ActiveIn(ms)
    PROVE  /\ Collateral * Cardinality(ActiveIn(ns)) <= Collateral * Cardinality(ActiveIn(ms))
           /\ \A i \in ActiveIn(ms) \ ActiveIn(ns) :
                 Collateral * Cardinality(ActiveIn(ns))
                    <= Collateral * Cardinality(ActiveIn(ms)) - Collateral
<1> DEFINE A == ActiveIn(ms)
           B == ActiveIn(ns)
           m == Cardinality(A)
           n == Cardinality(B)
<1>1. IsFiniteSet(A) /\ m \in Nat /\ IsFiniteSet(B) /\ n \in Nat /\ Collateral \in Nat
  BY ActiveAreFinite, ConfigAssumption
<1>2. n <= m
  BY <1>1, FS_Subset
<1>3. \A x, y, c \in Nat : x <= y => c * x <= c * y
  OBVIOUS
<1>4. ASSUME NEW i \in A, i \notin B  PROVE n + 1 <= m
  <2>1. B \cup {i} \subseteq A /\ IsFiniteSet(B \cup {i})
    BY <1>1, <1>4, FS_AddElement
  <2>2. Cardinality(B \cup {i}) <= m
    BY <1>1, <2>1, FS_Subset
  <2>3. Cardinality(B \cup {i}) = n + 1
    BY <1>1, <1>4, FS_AddElement
  <2> QED
    BY <2>2, <2>3
<1> HIDE DEF m, n
<1>5. Collateral * (n + 1) = Collateral * n + Collateral
  BY <1>1
<1>6. n + 1 <= m => Collateral * n <= Collateral * m - Collateral
  <2>1. n + 1 \in Nat
    BY <1>1
  <2>2. n + 1 <= m => Collateral * (n + 1) <= Collateral * m
    BY <1>1, <1>3, <2>1
  <2>3. Collateral * n \in Int /\ Collateral * m \in Int /\ Collateral \in Int
    BY <1>1
  <2> QED
    BY <1>5, <2>2, <2>3
<1>7. Collateral * n <= Collateral * m
  BY <1>1, <1>2, <1>3
<1> HIDE DEF A, B
<1>8. \A i \in A \ B : Collateral * n <= Collateral * m - Collateral
  BY <1>4, <1>6
<1> QED
  BY <1>7, <1>8 DEF A, B, m, n

LEMMA EscrowTypes ==
    ASSUME Ledger
    PROVE  /\ Own \in Nat /\ Pooled(contributions) \in Nat /\ PaidIn(settled) \in Int
           /\ Deposited(bids) \in Nat /\ HeldIn(circle.status, members) \in Nat
           /\ members \in Seq(Member)
<1>1. /\ members \in Seq(Member) /\ settled \in Seq(Settlement) /\ bids \in Seq(Bid)
      /\ contributions \in SUBSET Contribution /\ IsFiniteSet(contributions)
      /\ balance \in Balances
  BY DEF Ledger, IInv, RotationTypeOK, BooksInv, LogOK, AuctionTypeOK, MoneyOK
<1>2. Own \in Nat
  BY <1>1, AddressAssumption DEF Own, Balances, Account
<1> QED
  BY <1>1, <1>2, PooledType, PaidInType, DepositedType, HeldType, Zenon

LEMMA EscrowTypesNext ==
    ASSUME Ledger'
    PROVE  /\ Own' \in Nat /\ Pooled(contributions') \in Nat /\ PaidIn(settled') \in Int
           /\ Deposited(bids') \in Nat /\ HeldIn(circle'.status, members') \in Nat
           /\ members' \in Seq(Member)
<1>1. /\ members' \in Seq(Member) /\ settled' \in Seq(Settlement) /\ bids' \in Seq(Bid)
      /\ contributions' \in SUBSET Contribution /\ IsFiniteSet(contributions')
      /\ balance' \in Balances
  BY DEF Ledger, IInv, RotationTypeOK, BooksInv, LogOK, AuctionTypeOK, MoneyOK
<1>2. Own' \in Nat
  BY <1>1, AddressAssumption DEF Own, Balances, Account
<1> QED
  BY <1>1, <1>2, PooledType, PaidInType, DepositedType, HeldType, Zenon

LEMMA OwnChange ==
    ASSUME EscrowInv, NEW gain, NEW own, Flows(gain, own)
    PROVE  Own' = Own + own
BY DEF EscrowInv, Flows, Own

LEMMA EscrowPromised ==
    ASSUME Ledger, EscrowInv
    PROVE  EscrowCovers
<1> DEFINE f == [c \in contributions |-> c.amount]
           g == [k \in DOMAIN settled |-> settled[k].amount + settled[k].fee]
<1>1. PoolSum = Pooled(contributions) /\ SettledSum = PaidIn(settled)
  <2>1. SumFunction(f) = SumFunctionOnSet(f, contributions)
    BY DEF SumFunction
  <2>2. SumFunction(g) = SumFunctionOnSet(g, DOMAIN settled)
    BY DEF SumFunction
  <2> QED
    BY <2>1, <2>2 DEF PoolSum, SettledSum, Pooled, PaidIn
<1>2. /\ Own \in Nat /\ Pooled(contributions) \in Nat /\ PaidIn(settled) \in Int
      /\ Deposited(bids) \in Nat /\ HeldIn(circle.status, members) \in Nat
  BY EscrowTypes
<1>3. CASE Closed
  <2>1. contributions = {} /\ settled = << >>
    BY <1>3 DEF EscrowInv
  <2>2. DOMAIN settled = {}
    BY <2>1
  <2>3. Pooled(contributions) = 0 /\ PaidIn(settled) = 0
    BY <2>1, <2>2, SumOfNothing DEF Pooled, PaidIn
  <2>4. CollateralHeld = 0
    BY <1>3 DEF Closed, CollateralHeld
  <2> QED
    BY <1>1, <1>2, <2>3, <2>4 DEF EscrowCovers, Own
<1>4. CASE ~Closed
  <2>1. CollateralHeld \in Nat /\ CollateralHeld <= HeldIn(circle.status, members)
    BY <1>2 DEF CollateralHeld, HeldIn
  <2>2. Own >= Pooled(contributions) - PaidIn(settled) + Deposited(bids)
                 + HeldIn(circle.status, members)
    BY <1>4 DEF EscrowInv
  <2> QED
    BY <1>1, <1>2, <2>1, <2>2 DEF EscrowCovers, Own
<1> QED
  BY <1>3, <1>4

\* A step that neither contributes nor settles, and at most starts the circle.
Quiet ==
    /\ circle'.token = circle.token
    /\ UNCHANGED <<contributions, settled, dispute>>
    /\ \/ circle'.status = circle.status
       \/ circle.status = "PENDING" /\ circle'.status = "ACTIVE"

LEMMA QuietKeepsEscrow ==
    ASSUME Ledger, Ledger', EscrowInv, Quiet,
           NEW gain, NEW x \in Int, NEW y \in Int, Flows(gain, x + y),
           ~Closed => /\ HeldIn(circle'.status, members') <= HeldIn(circle.status, members) + x
                      /\ Deposited(bids') <= Deposited(bids) + y
    PROVE  EscrowInv'
<1>1. /\ Own \in Nat /\ Pooled(contributions) \in Nat /\ PaidIn(settled) \in Int
      /\ Deposited(bids) \in Nat /\ HeldIn(circle.status, members) \in Nat
  BY EscrowTypes
<1>2. /\ Own' \in Nat /\ Deposited(bids') \in Nat /\ HeldIn(circle'.status, members') \in Nat
  BY EscrowTypesNext
<1>3. Own' = Own + (x + y)
  BY OwnChange
<1>4. contributions' = contributions /\ settled' = settled /\ dispute' = dispute
  BY DEF Quiet
<1>5. circle'.token = Token0
  BY DEF EscrowInv, Quiet
<1>6. /\ circle'.status = "PENDING" => circle.status = "PENDING"
      /\ Closed' => Closed
      /\ Closed => Closed'
  BY <1>4 DEF Closed, Quiet
<1>7. ASSUME ~Closed'
      PROVE  Own' >= Pooled(contributions) - PaidIn(settled) + Deposited(bids')
                       + HeldIn(circle'.status, members')
  <2>1. Own >= Pooled(contributions) - PaidIn(settled) + Deposited(bids)
                 + HeldIn(circle.status, members)
    BY <1>6, <1>7 DEF EscrowInv
  <2>2. /\ HeldIn(circle'.status, members') <= HeldIn(circle.status, members) + x
        /\ Deposited(bids') <= Deposited(bids) + y
    BY <1>6, <1>7
  <2> QED
    BY <1>1, <1>2, <1>3, <2>1, <2>2
<1> QED
  BY <1>4, <1>5, <1>6, <1>7 DEF EscrowInv

\* Nothing moves, and no standing either.
LEMMA StillKeepsEscrow ==
    ASSUME Ledger, Ledger', EscrowInv, Quiet, UNCHANGED <<members, balance>>,
           Deposited(bids') = Deposited(bids)
    PROVE  EscrowInv'
<1>1. Flows(Nobody, 0 + 0)
  BY UnchangedFlows
<1>2. /\ Deposited(bids) \in Nat /\ HeldIn(circle.status, members) \in Nat
  BY EscrowTypes
<1>3. HeldIn(circle'.status, members') = HeldIn(circle.status, members)
  BY DEF Quiet, HeldIn
<1>4. /\ HeldIn(circle'.status, members') <= HeldIn(circle.status, members) + 0
      /\ Deposited(bids') <= Deposited(bids) + 0
  BY <1>2, <1>3
<1>5. 0 \in Int
  OBVIOUS
<1> QED
  BY <1>1, <1>4, <1>5, QuietKeepsEscrow

LEMMA HeldGrows ==
    ASSUME NEW ms \in Seq(Member), NEW ns \in Seq(Member), NEW i,
           ActiveIn(ns) \subseteq ActiveIn(ms) \cup {i}
    PROVE  Collateral * Cardinality(ActiveIn(ns))
             <= Collateral * Cardinality(ActiveIn(ms)) + Collateral
<1> DEFINE A == ActiveIn(ms)
           B == ActiveIn(ns)
           m == Cardinality(A)
           n == Cardinality(B)
<1>1. IsFiniteSet(A) /\ m \in Nat /\ IsFiniteSet(B) /\ n \in Nat /\ Collateral \in Nat
  BY ActiveAreFinite, ConfigAssumption
<1>2. n <= m + 1
  <2>1. IsFiniteSet(A \cup {i}) /\ B \subseteq A \cup {i}
    BY <1>1, FS_AddElement
  <2>2. n <= Cardinality(A \cup {i})
    BY <2>1, FS_Subset
  <2>3. Cardinality(A \cup {i}) \in {m, m + 1}
    BY <1>1, FS_AddElement
  <2> QED
    BY <1>1, <2>2, <2>3
<1> HIDE DEF m, n
<1>3. \A x, y, c \in Nat : x <= y => c * x <= c * y
  OBVIOUS
<1>4. Collateral * (m + 1) = Collateral * m + Collateral
  BY <1>1
<1>5. m + 1 \in Nat
  BY <1>1
<1>6. Collateral * n <= Collateral * (m + 1)
  BY <1>1, <1>2, <1>3, <1>5
<1> QED
  BY <1>4, <1>6 DEF A, B, m, n

LEMMA StartIsQuiet ==
    ASSUME Ledger, NEW n \in Nat, StartWhenFull(n)
    PROVE  /\ circle'.token = circle.token
           /\ \/ circle'.status = circle.status
              \/ circle.status = "PENDING" /\ circle'.status = "ACTIVE"
<1>1. circle \in CircleRecord
  BY LedgerTypes
<1> QED
  BY <1>1 DEF StartWhenFull, CircleRecord

LEMMA JoinKeepsEscrow ==
    ASSUME Ledger, Ledger', EscrowInv, NEW m \in Address, Join(m)
    PROVE  EscrowInv'
<1>1. /\ circle.status = "PENDING" /\ members' = Append(members, NewMember(m))
      /\ StartWhenFull(circle.member_count + 1) /\ UNCHANGED outsideRoster
  BY Zenon DEF Join
<1>2. circle.member_count + 1 \in Nat
  BY LedgerTypes DEF CircleRecord
<1>3. Quiet
  BY <1>1, <1>2, StartIsQuiet DEF Quiet, outsideRoster, roundVars, payoutVars
<1>4. ActiveIn(members') \subseteq ActiveIn(members) \cup {Len(members) + 1}
  <2>1. members \in Seq(Member) /\ NewMember(m) \in Member
    BY EscrowTypes, NewMemberType
  <2>2. /\ members' \in Seq(Member) /\ Len(members') = Len(members) + 1
        /\ \A i \in 1..Len(members) : members'[i] = members[i]
    BY <1>1, <2>1, AppendProperties
  <2>3. /\ Len(members) \in Nat /\ DOMAIN members = 1..Len(members)
        /\ DOMAIN members' = 1..(Len(members) + 1)
    BY <2>1, <2>2, LenProperties
  <2> QED
    BY <2>2, <2>3 DEF ActiveIn
<1>5. circle'.status # "COMPLETED" /\ circle.status # "COMPLETED"
  BY <1>1, <1>3 DEF Quiet
<1>6. HeldIn(circle'.status, members') <= HeldIn(circle.status, members) + Collateral
  BY <1>4, <1>5, EscrowTypes, EscrowTypesNext, HeldGrows DEF HeldIn
<1>7. bids' = bids
  BY <1>1 DEF outsideRoster, auctionVars
<1>8. Deposited(bids') <= Deposited(bids) + 0
  BY <1>7, EscrowTypes
<1>9. Collateral \in Int /\ 0 \in Int /\ Collateral + 0 = Collateral
  BY ConfigAssumption
<1>10. Flows(Only(m, -Collateral), Collateral + 0)
  BY <1>9, JoinFlows
<1> QED
  BY <1>3, <1>6, <1>8, <1>9, <1>10, QuietKeepsEscrow

LEMMA ExitKeepsEscrow ==
    ASSUME Ledger, Ledger', EscrowInv, NEW m \in Address, Exit(m), IsMember(members, m)
    PROVE  EscrowInv'
<1>1. /\ circle.status # "COMPLETED" /\ MayExit(m)
      /\ members' = [i \in DOMAIN members |->
            IF members[i].address = m THEN [members[i] EXCEPT !.status = "EXITED"]
                                      ELSE members[i]]
      /\ UNCHANGED <<circle, outsideRoster>>
  BY Zenon DEF Exit
<1>2. Quiet
  BY <1>1 DEF Quiet, outsideRoster, roundVars, payoutVars
<1>3. PICK i \in DOMAIN members : members[i].address = m
  BY DEF IsMember, MemberAt
<1>4. i \in ActiveIn(members)
  BY <1>1, <1>3 DEF MayExit, MemberAt, ActiveIn
<1>5. ActiveIn(members') \subseteq ActiveIn(members) /\ i \notin ActiveIn(members')
  <2>1. \A j \in DOMAIN members : members[j] \in Member
    BY MemberTypes DEF Ledger
  <2>2. /\ DOMAIN members' = DOMAIN members
        /\ \A j \in DOMAIN members :
              members'[j] = IF members[j].address = m THEN [members[j] EXCEPT !.status = "EXITED"]
                                                      ELSE members[j]
    BY <1>1
  <2>3. \A n \in Member : [n EXCEPT !.status = "EXITED"].status = "EXITED"
    BY DEF Member
  <2>4. \A j \in DOMAIN members :
           members'[j].status = IF members[j].address = m THEN "EXITED" ELSE members[j].status
    BY <2>1, <2>2, <2>3
  <2> QED
    BY <1>3, <2>2, <2>4 DEF ActiveIn
<1>6. Collateral * Cardinality(ActiveIn(members'))
        <= Collateral * Cardinality(ActiveIn(members)) - Collateral
  BY <1>4, <1>5, EscrowTypes, EscrowTypesNext, HeldFalls
<1>7. HeldIn(circle'.status, members') \in Nat /\ HeldIn(circle.status, members) \in Nat
  BY EscrowTypes, EscrowTypesNext
<1>8. HeldIn(circle'.status, members') <= HeldIn(circle.status, members) + (-Collateral)
  <2>1. /\ HeldIn(circle'.status, members') = Collateral * Cardinality(ActiveIn(members'))
        /\ HeldIn(circle.status, members) = Collateral * Cardinality(ActiveIn(members))
    BY <1>1 DEF HeldIn
  <2> QED
    BY <1>6, <1>7, <2>1, ConfigAssumption
<1>9. bids' = bids
  BY <1>1 DEF outsideRoster, auctionVars
<1>10. Deposited(bids') <= Deposited(bids) + 0
  BY <1>9, EscrowTypes
<1>11. (-Collateral) \in Int /\ 0 \in Int /\ (-Collateral) + 0 = -Collateral
  BY ConfigAssumption
<1>12. Flows(Only(m, Collateral), (-Collateral) + 0)
  BY <1>11, ExitFlows
<1> QED
  BY <1>2, <1>8, <1>10, <1>11, <1>12, QuietKeepsEscrow

LEMMA StandingsKeepEscrow ==
    ASSUME Ledger, Ledger', EscrowInv, Quiet, UNCHANGED <<balance, bids>>,
           Collateral = 0 \/ ActiveIn(members') \subseteq ActiveIn(members)
    PROVE  EscrowInv'
<1>1. HeldIn(circle'.status, members') \in Nat /\ HeldIn(circle.status, members) \in Nat
  BY EscrowTypes, EscrowTypesNext
<1>2. HeldIn(circle'.status, members') <= HeldIn(circle.status, members) + 0
  <2>1. CASE Collateral = 0
    <3>1. /\ Cardinality(ActiveIn(members)) \in Nat /\ Cardinality(ActiveIn(members')) \in Nat
      BY EscrowTypes, EscrowTypesNext, ActiveAreFinite
    <3>2. \A n \in Nat : 0 * n = 0
      OBVIOUS
    <3> QED
      BY <2>1, <3>1, <3>2 DEF HeldIn
  <2>2. CASE ActiveIn(members') \subseteq ActiveIn(members)
    <3>1. Collateral * Cardinality(ActiveIn(members'))
            <= Collateral * Cardinality(ActiveIn(members))
      BY <2>2, EscrowTypes, EscrowTypesNext, HeldFalls
    <3>2. (circle'.status = "COMPLETED") <=> (circle.status = "COMPLETED")
      BY DEF Quiet
    <3> QED
      BY <1>1, <3>1, <3>2 DEF HeldIn
  <2> QED
    BY <2>1, <2>2
<1>3. Deposited(bids') <= Deposited(bids) + 0
  BY EscrowTypes
<1>4. 0 \in Int
  OBVIOUS
<1>5. Flows(Nobody, 0 + 0)
  BY UnchangedFlows
<1> QED
  BY <1>2, <1>3, <1>4, <1>5, QuietKeepsEscrow

LEMMA BatchInviteKeepsEscrow ==
    ASSUME Ledger, Ledger', EscrowInv, NEW m, NEW invited \in Seq(Address),
           BatchInvite(m, invited), Collateral = 0
    PROVE  EscrowInv'
<1>1. /\ StartWhenFull(Len(members) + Len(invited)) /\ UNCHANGED <<balance, outsideRoster>>
  BY Zenon DEF BatchInvite
<1>2. Len(members) + Len(invited) \in Nat
  BY EscrowTypes, LenProperties
<1>3. Quiet
  BY <1>1, <1>2, StartIsQuiet DEF Quiet, outsideRoster, roundVars, payoutVars
<1> QED
  BY <1>1, <1>3, StandingsKeepEscrow DEF outsideRoster, auctionVars

LEMMA ReportLateKeepsEscrow ==
    ASSUME Ledger, Ledger', EscrowInv, NEW late, NEW r, ReportLate(late, r)
    PROVE  EscrowInv'
<1> DEFINE Reported(m) ==
             [m EXCEPT !.strikes = @ + 2,
                       !.status = IF m.strikes + 2 >= MaxStrikes THEN "DEFAULTED" ELSE @]
<1>1. /\ members' = [i \in DOMAIN members |->
                       IF members[i].address = late THEN Reported(members[i]) ELSE members[i]]
      /\ UNCHANGED <<circle, balance, outsideRoster>>
  BY Zenon DEF ReportLate
<1>2. Quiet
  BY <1>1 DEF Quiet, outsideRoster, roundVars, payoutVars
<1>3. \A m \in Member : Reported(m).status \in {"DEFAULTED", m.status}
  BY DEF Member
<1>4. \A i \in DOMAIN members : members[i] \in Member
  BY MemberTypes DEF Ledger
<1> HIDE DEF Reported
<1>5. ActiveIn(members') \subseteq ActiveIn(members)
  BY <1>1, <1>3, <1>4 DEF ActiveIn
<1> QED
  BY <1>1, <1>2, <1>5, StandingsKeepEscrow DEF outsideRoster, auctionVars

LEMMA CancelCircleKeepsEscrow ==
    ASSUME Ledger, EscrowInv, NEW m, CancelCircle(m)
    PROVE  EscrowInv'
<1>1. /\ circle.status = "PENDING" /\ circle' = [circle EXCEPT !.status = "CANCELLED"]
      /\ UNCHANGED outsideRoster
  BY Zenon DEF CancelCircle
<1>2. circle'.status = "CANCELLED" /\ circle'.token = circle.token
  BY <1>1, LedgerTypes DEF CircleRecord
<1>3. contributions' = {} /\ settled' = << >> /\ dispute' = {} /\ circle'.token = Token0
  BY <1>1, <1>2 DEF EscrowInv, outsideRoster, roundVars, payoutVars
<1>4. Closed'
  BY <1>2, <1>3 DEF Closed
<1> QED
  BY <1>2, <1>3, <1>4 DEF EscrowInv

\* Deposits of the bids that are left, and with one bid more.
LEMMA DepositsLeft ==
    ASSUME AuctionTypeOK, NEW ks \in SUBSET DOMAIN bids, bids' = Without(ks)
    PROVE  Deposited(bids') = Deposited(bids) - SumFunctionOnSet(Deposits, ks)
<1> DEFINE R == DOMAIN bids \ ks
           f == [k \in DOMAIN bids' |-> bids'[k].deposit]
<1>1. PICK from \in [DOMAIN bids' -> R] :
         /\ \A j, k \in DOMAIN bids' : from[j] = from[k] => j = k
         /\ \A k \in DOMAIN bids' : bids'[k] = bids[from[k]]
         /\ \A i \in R : \E k \in DOMAIN bids' : from[k] = i
  BY WithoutKeepsTheRest
<1>2. IsFiniteSet(DOMAIN bids')
  <2>1. bids' \in Seq(Bid)
    BY WithoutKeepsTheRest
  <2>2. Len(bids') \in Nat /\ DOMAIN bids' = 1..Len(bids')
    BY <2>1, LenProperties
  <2> QED
    BY <2>2, FS_Interval
<1>3. /\ \A k \in DOMAIN bids : Deposits[k] \in Nat /\ Deposits[k] = bids[k].deposit
      /\ IsFiniteSet(R) /\ IsFiniteSet(ks) /\ SumFunctionOnSet(Deposits, R) \in Nat
      /\ SumFunctionOnSet(Deposits, ks) \in Nat
  BY DepositTypes
<1>4. \A k \in DOMAIN bids' : f[k] \in Int /\ Deposits[from[k]] = f[k]
  BY <1>1, <1>3
<1>5. {from[k] : k \in DOMAIN bids'} = R
  BY <1>1
<1> HIDE DEF f, R
<1>6. SumFunctionOnSet(Deposits, {from[k] : k \in DOMAIN bids'})
        = SumFunctionOnSet(f, DOMAIN bids')
  BY <1>1, <1>2, <1>4, SumOfRenamed
<1>7. SumFunctionOnSet(Deposits, R \cup ks)
        = SumFunctionOnSet(Deposits, R) + SumFunctionOnSet(Deposits, ks)
  <2>1. R \cap ks = {} /\ \A k \in R \cup ks : Deposits[k] \in Int
    BY <1>3 DEF R
  <2> QED
    BY <1>3, <2>1, SumOfUnion
<1>8. R \cup ks = DOMAIN bids
  BY DEF R
<1>9. Deposited(bids') = SumFunctionOnSet(f, DOMAIN bids')
  BY DEF Deposited, f
<1>10. Deposited(bids) = SumFunctionOnSet(Deposits, DOMAIN bids)
  BY DEF Deposited, Deposits
<1>11. Deposited(bids') = SumFunctionOnSet(Deposits, R)
  BY <1>5, <1>6, <1>9, Zenon
<1>12. Deposited(bids) = SumFunctionOnSet(Deposits, R) + SumFunctionOnSet(Deposits, ks)
  BY <1>7, <1>8, <1>10, Zenon
<1> QED
  BY <1>3, <1>11, <1>12

LEMMA DepositAdded ==
    ASSUME AuctionTypeOK, NEW bid \in Bid, bids' = Append(bids, bid)
    PROVE  Deposited(bids') = Deposited(bids) + bid.deposit
<1> DEFINE n == Len(bids)
           f == [k \in DOMAIN bids |-> bids[k].deposit]
           g == [k \in DOMAIN bids' |-> bids'[k].deposit]
<1>1. n \in Nat /\ DOMAIN bids = 1..n /\ \A k \in 1..n : bids[k] \in Bid
  BY BidTypes
<1>2. bids \in Seq(Bid)
  BY DEF AuctionTypeOK
<1>3. /\ bids' \in Seq(Bid) /\ Len(bids') = n + 1 /\ \A k \in 1..n : bids'[k] = bids[k]
      /\ bids'[n + 1] = bid
  BY <1>2, AppendProperties
<1>4. DOMAIN bids' = 1..(n + 1)
  BY <1>3, LenProperties
<1>5. \A b \in Bid : b.deposit \in Int
  BY ConfigAssumption DEF Bid
<1> HIDE DEF n
<1>6. /\ \A k \in 1..n : f[k] \in Int
      /\ \A k \in 1..n : g[k] = f[k]
      /\ g[n + 1] = bid.deposit /\ g[n + 1] \in Int
  BY <1>1, <1>3, <1>4, <1>5
<1> HIDE DEF f, g
<1>7. SumFunctionOnSet(g, 1..(n + 1)) = SumFunctionOnSet(f, 1..n) + g[n + 1]
  BY <1>1, <1>6, SumOfAppended
<1>8. /\ Deposited(bids) = SumFunctionOnSet(f, 1..n)
      /\ Deposited(bids') = SumFunctionOnSet(g, 1..(n + 1))
  BY <1>1, <1>4 DEF Deposited, f, g
<1> QED
  BY <1>6, <1>7, <1>8

\* Deposits and tokens change together.
LEMMA BidsKeepEscrow ==
    ASSUME Ledger, Ledger', EscrowInv, UNCHANGED outsideAuction,
           NEW gain, NEW y \in Int, Flows(gain, y), Deposited(bids') <= Deposited(bids) + y
    PROVE  EscrowInv'
<1>1. Quiet /\ circle' = circle /\ members' = members
  BY DEF Quiet, outsideAuction, roundVars, payoutVars, rosterVars
<1>2. HeldIn(circle'.status, members') <= HeldIn(circle.status, members) + 0
  BY <1>1, EscrowTypes
<1>3. 0 \in Int /\ 0 + y = y
  OBVIOUS
<1>4. Flows(gain, 0 + y)
  BY <1>3
<1> QED
  BY <1>1, <1>2, <1>3, <1>4, QuietKeepsEscrow

LEMMA PlaceBidKeepsEscrow ==
    ASSUME Ledger, Ledger', EscrowInv, NEW m \in Address, NEW bips \in Bips, NEW r \in Rounds,
           PlaceBid(m, bips, r)
    PROVE  EscrowInv'
<1> DEFINE bid == [bidder |-> m, bips |-> bips, round |-> r, deposit |-> ContributionAmount]
<1>1. bids' = Append(bids, bid) /\ UNCHANGED outsideAuction
  BY SMT DEF PlaceBid
<1>2. bid \in Bid
  <2>1. bips \in Discounts
    BY BoundAssumption, SMT DEF Discounts
  <2> QED
    BY <2>1 DEF Bid
<1>3. bid.deposit = ContributionAmount
  OBVIOUS
<1> HIDE DEF bid
<1>4. Deposited(bids') = Deposited(bids) + ContributionAmount
  BY <1>1, <1>2, <1>3, DepositAdded DEF Ledger
<1>5. ContributionAmount \in Int
  BY ConfigAssumption
<1>6. Deposited(bids') <= Deposited(bids) + ContributionAmount
  BY <1>4, <1>5, EscrowTypes
<1> QED
  BY <1>1, <1>5, <1>6, PlaceBidFlows, BidsKeepEscrow

LEMMA RefundLosingBidsKeepsEscrow ==
    ASSUME Ledger, Ledger', EscrowInv, NEW r, NEW limit, RefundLosingBids(r, limit)
    PROVE  EscrowInv'
<1> DEFINE batch == RefundBatch(r, limit)
           back == SumFunctionOnSet(Deposits, batch)
<1>1. bids' = Without(batch) /\ UNCHANGED outsideAuction
  BY Zenon DEF RefundLosingBids
<1>2. batch \in SUBSET DOMAIN bids
  BY BatchOfBids
<1>3. back \in Nat
  BY <1>2, DepositTypes DEF Ledger
<1>4. Flows(Refunded(batch), -back)
  BY RefundLosingBidsFlows
<1> HIDE DEF batch
<1>5. Deposited(bids') = Deposited(bids) - back
  BY <1>1, <1>2, DepositsLeft DEF Ledger
<1> HIDE DEF back
<1>6. Deposited(bids') <= Deposited(bids) + (-back) /\ (-back) \in Int
  BY <1>3, <1>5, EscrowTypes
<1> QED
  BY <1>1, <1>4, <1>6, BidsKeepEscrow

LEMMA DutchAuctionBidKeepsEscrow ==
    ASSUME Ledger, Ledger', EscrowInv, NEW m \in Address, NEW r \in Rounds, DutchAuctionBid(m, r)
    PROVE  EscrowInv'
<1>1. PICK d \in dutch[r] :
         bids' = Append(bids, [bidder |-> m, bips |-> DecayedPrice(d), round |-> r, deposit |-> 0])
  BY Zenon DEF DutchAuctionBid
<1> DEFINE bid == [bidder |-> m, bips |-> DecayedPrice(d), round |-> r, deposit |-> 0]
<1>2. UNCHANGED <<balance, outsideAuction>>
  BY Zenon DEF DutchAuctionBid
<1>3. bid \in Bid
  <2>1. d \in DutchAuction /\ Priced(d) /\ now \in Nat
    BY DEF Ledger, AuctionTypeOK, IInv, RotationTypeOK
  <2>2. DecayedPrice(d) \in Discounts
    BY <2>1, PriceIsInRange
  <2> QED
    BY <2>2, SMTT(60) DEF Bid
<1>4. bid.deposit = 0
  OBVIOUS
<1>5. bids' = Append(bids, bid)
  BY <1>1
<1> HIDE DEF bid
<1>6. Deposited(bids') = Deposited(bids) + 0
  BY <1>3, <1>4, <1>5, DepositAdded DEF Ledger
<1>7. Deposited(bids') <= Deposited(bids) + 0 /\ 0 \in Int
  BY <1>6, EscrowTypes
<1>8. Flows(Nobody, 0)
  BY <1>2, UnchangedFlows
<1> QED
  BY <1>2, <1>7, <1>8, BidsKeepEscrow

LEMMA CancelAuctionKeepsEscrow ==
    ASSUME Ledger, Ledger', EscrowInv, NEW caller, CancelAuction(caller),
           \A k \in WinningBids(circle.current_round) : bids[k].deposit = ContributionAmount
    PROVE  EscrowInv'
<1> DEFINE r == circle.current_round
           repaid == IF WinningBids(r) = {} THEN 0 ELSE ContributionAmount
           ks == BidsOf(r)
           dropped == SumFunctionOnSet(Deposits, ks)
<1>1. bids' = Without(ks) /\ UNCHANGED outsideAuction
  BY Zenon DEF CancelAuction
<1>2. PICK gain : Flows(gain, -repaid)
  BY CancelAuctionFlows
<1>3. ks \in SUBSET DOMAIN bids /\ WinningBids(r) \subseteq ks
  BY DEF BidsOf, WinningBids
<1>4. /\ IsFiniteSet(ks) /\ dropped \in Nat
      /\ \A k \in ks : Deposits[k] \in Nat /\ Deposits[k] = bids[k].deposit
  BY <1>3, DepositTypes DEF Ledger
<1> HIDE DEF r, ks
<1>5. Deposited(bids') = Deposited(bids) - dropped
  BY <1>1, <1>3, DepositsLeft DEF Ledger
<1>6. repaid \in Nat /\ repaid <= dropped
  <2>1. ASSUME NEW k \in WinningBids(r)  PROVE ContributionAmount <= dropped
    <3>1. Deposits[k] <= dropped
      BY <1>3, <1>4, <2>1, SumCoversSummand
    <3> QED
      BY <1>3, <1>4, <2>1, <3>1 DEF r
  <2> HIDE DEF dropped
  <2> QED
    BY <1>4, <2>1, ConfigAssumption
<1> HIDE DEF dropped, repaid
<1>7. Deposited(bids') <= Deposited(bids) + (-repaid) /\ (-repaid) \in Int
  BY <1>4, <1>5, <1>6, EscrowTypes
<1> QED
  BY <1>1, <1>2, <1>7, BidsKeepEscrow

LEMMA ContributeKeepsEscrow ==
    ASSUME Ledger, Ledger', EscrowInv, NEW m \in Address, NEW amount, NEW r \in Rounds,
           Contribute(m, amount, r), Routed(LatePenalty(ContributionAmount)) = 0
    PROVE  EscrowInv'
<1> DEFINE entry == [member |-> m, round |-> r, amount |-> ContributionAmount,
                     timestamp |-> now, on_time |-> OnTime]
           f == [c \in contributions |-> c.amount]
           g == [c \in contributions' |-> c.amount]
<1>1. /\ contributions' = contributions \cup {entry} /\ ~HasContributed(m, r) /\ Running
      /\ circle' = [circle EXCEPT !.total_fees = @ + LatePenalty(amount)]
      /\ UNCHANGED <<rosterVars, payoutVars, auctionVars, dispute>>
  <2>1. amount = ContributionAmount
    BY Zenon DEF Contribute
  <2> QED
    BY <2>1, Zenon DEF Contribute
<1>2. circle'.status = "ACTIVE" /\ circle.status = "ACTIVE" /\ circle'.token = circle.token
  BY <1>1, LedgerTypes DEF CircleRecord, Running
<1>3. entry.member = m /\ entry.round = r /\ entry.amount = ContributionAmount
  OBVIOUS
<1> HIDE DEF entry
<1>4. entry \notin contributions
  BY <1>1, <1>3 DEF HasContributed, Ledger, BooksInv, CopiesOfLog
<1>5. Pooled(contributions') = Pooled(contributions) + ContributionAmount
  <2>1. /\ \A c \in contributions : f[c] \in Int /\ f[c] = g[c]
        /\ g[entry] = ContributionAmount
    BY <1>1, <1>3, ConfigAssumption DEF Ledger, IInv, RotationTypeOK, Contribution
  <2>2. IsFiniteSet(contributions) /\ ContributionAmount \in Int
    BY ConfigAssumption DEF Ledger, BooksInv, LogOK
  <2>3. Pooled(contributions) = SumFunctionOnSet(f, contributions)
    BY DEF Pooled
  <2>4. Pooled(contributions') = SumFunctionOnSet(g, contributions \cup {entry})
    BY <1>1 DEF Pooled
  <2> HIDE DEF f, g
  <2>5. \A c \in contributions \cup {entry} : g[c] \in Int
    BY <2>1, <2>2
  <2>6. SumFunctionOnSet(g, contributions \cup {entry})
          = SumFunctionOnSet(g, contributions) + g[entry]
    BY <1>4, <2>2, <2>5, SumWith
  <2>7. SumFunctionOnSet(f, contributions) = SumFunctionOnSet(g, contributions)
    BY <2>1, <2>2, SumsAgree
  <2> QED
    BY <2>1, <2>3, <2>4, <2>6, <2>7
<1>6. Own' = Own + ContributionAmount
  <2>1. Flows(Only(m, -ContributionAmount),
              ContributionAmount - Routed(LatePenalty(ContributionAmount)))
    BY ContributeFlows
  <2>2. ContributionAmount - Routed(LatePenalty(ContributionAmount)) = ContributionAmount
    BY ConfigAssumption
  <2> QED
    BY <2>1, <2>2, OwnChange
<1>7. settled' = settled /\ bids' = bids /\ members' = members
  BY <1>1 DEF payoutVars, auctionVars, rosterVars
<1>8. Own >= Pooled(contributions) - PaidIn(settled) + Deposited(bids)
               + HeldIn(circle.status, members)
  BY <1>2 DEF EscrowInv, Closed
<1>9. Own' >= Pooled(contributions') - PaidIn(settled') + Deposited(bids')
                + HeldIn(circle'.status, members')
  <2>1. HeldIn(circle'.status, members') = HeldIn(circle.status, members)
    BY <1>2, <1>7
  <2>2. PaidIn(settled') = PaidIn(settled) /\ Deposited(bids') = Deposited(bids)
    BY <1>7
  <2>3. ContributionAmount \in Nat
    BY ConfigAssumption
  <2> QED
    BY <1>5, <1>6, <1>8, <2>1, <2>2, <2>3, EscrowTypes, SMTT(60)
<1> QED
  BY <1>2, <1>9 DEF EscrowInv, Closed

\* A settlement pays what its round counts as paid, and a completion the collateral of
\* those who are still active.
LEMMA SettlementKeepsEscrow ==
    ASSUME Ledger, Ledger', EscrowInv, NEW ms, NEW r \in Rounds, SettleRound(ms, r),
           SameAddresses(ms), members' = ms, ActiveIn(ms) \subseteq ActiveIn(members)
    PROVE  EscrowInv'
<1>1. PICK i, payout, back : \E amount, charge \in Nat :
         Divides(ms, r, i, amount, charge, payout, back)
  BY SettlementDivides
<1>2. PICK amount \in Nat, charge \in Nat : Divides(ms, r, i, amount, charge, payout, back)
  BY <1>1
<1> DEFINE s == [recipient |-> ms[i].address, round |-> r, amount |-> amount, fee |-> charge]
           gain == [a \in Address |-> payout[a] + (IF IsActiveMember(ms, a) THEN back ELSE 0)]
           n == Cardinality(ActiveIn(ms))
           f == [k \in DOMAIN settled |-> settled[k].amount + settled[k].fee]
           g == [k \in DOMAIN settled' |-> settled'[k].amount + settled'[k].fee]
<1>3. /\ i \in Resolve(ms, r) /\ circle' = CircleAfter(i, amount, charge)
      /\ settled' = Append(settled, s)
      /\ back \in {0, Collateral} /\ (back # 0 => circle'.status = "COMPLETED")
      /\ Flows(gain, -(amount + Routed(charge) + back * n))
  BY <1>2, Zenon DEF Divides
<1>4. circle.status = "ACTIVE" /\ UNCHANGED <<roundVars, bids, dispute>>
  BY Zenon DEF SettleRound, Running
<1>5. circle'.status \in {"ACTIVE", "COMPLETED"} /\ circle'.token = circle.token
  BY <1>3, <1>4, LedgerTypes DEF CircleAfter, CircleRecord
<1>6. s \in Settlement /\ s.amount = amount /\ s.fee = charge
  <2>1. i \in DOMAIN ms /\ ms \in Seq(Member)
    BY <1>3, ResolveUnpaid DEF SameAddresses
  <2>2. ms[i] \in Member
    BY <2>1, ElementOfSeq, LenProperties
  <2> QED
    BY <2>2 DEF Settlement, Member
<1> HIDE DEF s
<1>7. PaidIn(settled') = PaidIn(settled) + (amount + charge)
  <2> DEFINE k0 == Len(settled)
  <2>1. /\ k0 \in Nat /\ DOMAIN settled = 1..k0 /\ DOMAIN settled' = 1..(k0 + 1)
        /\ \A k \in 1..k0 : settled'[k] = settled[k] /\ settled[k] \in Settlement
        /\ settled'[k0 + 1] = s
    BY <1>3, <1>6, SettledIs DEF Ledger
  <2> HIDE DEF k0
  <2>2. \A k \in 1..k0 : f[k] \in Int /\ g[k] = f[k]
    BY <2>1 DEF Settlement
  <2>3. g[k0 + 1] = amount + charge /\ g[k0 + 1] \in Int
    BY <1>6, <2>1
  <2>4. PaidIn(settled) = SumFunctionOnSet(f, 1..k0)
    BY <2>1 DEF PaidIn
  <2>5. PaidIn(settled') = SumFunctionOnSet(g, 1..(k0 + 1))
    BY <2>1 DEF PaidIn
  <2> HIDE DEF f, g
  <2>6. SumFunctionOnSet(g, 1..(k0 + 1)) = SumFunctionOnSet(f, 1..k0) + g[k0 + 1]
    BY <2>1, <2>2, <2>3, SumOfAppended
  <2> QED
    BY <2>3, <2>4, <2>5, <2>6
<1>8. n \in Nat /\ Collateral \in Nat /\ back * n \in Nat
      /\ Collateral * n \in Nat /\ Routed(charge) \in Nat /\ Routed(charge) <= charge
  <2>1. n \in Nat /\ Collateral \in Nat
    BY ActiveAreFinite, ConfigAssumption DEF SameAddresses
  <2>2. \A x, y \in Nat : x * y \in Nat
    OBVIOUS
  <2> HIDE DEF n
  <2> QED
    BY <1>3, <2>1, <2>2 DEF Routed
<1>9. Collateral * n <= HeldIn(circle.status, members)
  BY <1>4, EscrowTypes, EscrowTypesNext, HeldFalls DEF HeldIn
<1>10. back * n + HeldIn(circle'.status, members') <= Collateral * n
  <2>1. HeldIn(circle'.status, members')
          = IF circle'.status = "COMPLETED" THEN 0 ELSE Collateral * n
    BY DEF HeldIn
  <2>2. CASE back = 0
    <3>1. back * n = 0
      BY <1>8, <2>2
    <3> QED
      BY <1>8, <2>1, <3>1, SMTT(60)
  <2>3. CASE back = Collateral /\ circle'.status = "COMPLETED"
    <3>1. back * n = Collateral * n
      BY <2>3
    <3> QED
      BY <1>8, <2>1, <2>3, <3>1, SMTT(60)
  <2> QED
    BY <1>3, <2>2, <2>3
<1> HIDE DEF n, gain
<1>11. Own' = Own + (-(amount + Routed(charge) + back * n))
  BY <1>3, OwnChange
<1>12. contributions' = contributions /\ bids' = bids
  BY <1>4 DEF roundVars
<1>13. Own >= Pooled(contributions) - PaidIn(settled) + Deposited(bids)
                + HeldIn(circle.status, members)
  BY <1>4 DEF EscrowInv, Closed
<1>14. Own' >= Pooled(contributions') - PaidIn(settled') + Deposited(bids')
                 + HeldIn(circle'.status, members')
  <2>1. HeldIn(circle'.status, members') \in Nat
    BY EscrowTypesNext
  <2>2. /\ Own \in Nat /\ Pooled(contributions) \in Nat /\ PaidIn(settled) \in Int
        /\ Deposited(bids) \in Nat /\ HeldIn(circle.status, members) \in Nat
    BY EscrowTypes
  <2>3. Pooled(contributions') = Pooled(contributions) /\ Deposited(bids') = Deposited(bids)
    BY <1>12
  <2> QED
    BY <1>7, <1>8, <1>9, <1>10, <1>11, <1>13, <2>1, <2>2, <2>3
<1> QED
  BY <1>5, <1>14 DEF EscrowInv, Closed

LEMMA RoundNextKeepsEscrow ==
    ASSUME Ledger, Ledger', EscrowInv, RoundNext, ~BatchPays,
           \A m \in Address, amount \in Amounts, r \in Rounds :
              Contribute(m, amount, r) => Routed(LatePenalty(ContributionAmount)) = 0
    PROVE  EscrowInv'
<1>1. ASSUME NEW m \in Address, NEW amount \in Amounts, NEW r \in Rounds, Contribute(m, amount, r)
      PROVE  EscrowInv'
  BY <1>1, ContributeKeepsEscrow, Zenon
<1>2. ASSUME NEW m, NEW r \in Rounds, TriggerPayout(m, r)  PROVE EscrowInv'
  <2>1. SettleRound(members, r) /\ members' = members
    BY <1>2, Zenon DEF TriggerPayout, rosterVars
  <2>2. SameAddresses(members)
    BY DEF SameAddresses, Ledger, IInv, RotationTypeOK
  <2> QED
    BY <2>1, <2>2, SettlementKeepsEscrow
<1>3. ASSUME NEW m, NEW r, SchedulePayout(m, r)  PROVE EscrowInv'
  <2>1. UNCHANGED <<circle, rosterVars, roundVars, payoutVars, auctionVars, dispute, balance>>
    BY <1>3, Zenon DEF SchedulePayout
  <2> QED
    BY <2>1, StillKeepsEscrow DEF Quiet, rosterVars, roundVars, payoutVars, auctionVars
<1>4. ASSUME NEW r \in Rounds, CheckContributionDeadline(r)  PROVE EscrowInv'
  <2>1. members' = Swept(r) /\ SettleRound(Swept(r), r)
    BY <1>4, Zenon DEF CheckContributionDeadline
  <2>2. SameAddresses(Swept(r))
    BY SweptKeepsAddresses DEF Ledger
  <2>3. ActiveIn(Swept(r)) \subseteq ActiveIn(members)
    <3>1. \A m \in Member : \A st : [m EXCEPT !.strikes = @ + 1, !.status = st].status = st
      BY DEF Member
    <3>2. \A i \in DOMAIN members : members[i] \in Member
      BY MemberTypes DEF Ledger
    <3> QED
      BY <3>1, <3>2 DEF Swept, ActiveIn
  <2> QED
    BY <2>1, <2>2, <2>3, SettlementKeepsEscrow
<1> QED
  BY <1>1, <1>2, <1>3, <1>4, Zenon DEF RoundNext, BatchPays

LEMMA BidNextKeepsEscrow ==
    ASSUME Ledger, Ledger', EscrowInv, BidNext,
           \A a \in Address : CancelAuction(a) =>
              \A k \in WinningBids(circle.current_round) : bids[k].deposit = ContributionAmount
    PROVE  EscrowInv'
<1>1. ASSUME UNCHANGED <<balance, bids>>  PROVE EscrowInv'
  <2>1. UNCHANGED outsideAuction
    BY BidNextFrame
  <2> QED
    BY <1>1, <2>1, StillKeepsEscrow DEF Quiet, outsideAuction, rosterVars, roundVars, payoutVars
<1>2. ASSUME NEW a, NEW r, NEW config, InitDutchAuction(a, r, config)
      PROVE  UNCHANGED <<balance, bids>>
  BY <1>2, SMT DEF InitDutchAuction
<1>3. ASSUME NEW a, NEW b, NEW r, VotePayout(a, b, r)  PROVE UNCHANGED <<balance, bids>>
  BY <1>3, Zenon DEF VotePayout
<1> QED
  BY <1>1, <1>2, <1>3, PlaceBidKeepsEscrow, RefundLosingBidsKeepsEscrow,
     DutchAuctionBidKeepsEscrow, CancelAuctionKeepsEscrow, Zenon DEF BidNext

LEMMA RaiseDisputeKeepsEscrow ==
    ASSUME Ledger, Ledger', EscrowInv, NEW a, RaiseDispute(a)
    PROVE  EscrowInv'
<1>1. /\ circle.status \notin {"DISPUTED", "COMPLETED", "CANCELLED"}
      /\ circle' = [circle EXCEPT !.status = "DISPUTED"]
      /\ dispute' = {[raised_by |-> a, resolution |-> "NONE"]}
      /\ UNCHANGED <<rosterVars, balance, outsideAdmin>>
  BY Zenon DEF RaiseDispute
<1>2. circle'.status = "DISPUTED" /\ circle'.token = circle.token
  BY <1>1, LedgerTypes DEF CircleRecord
<1>3. /\ members' = members /\ contributions' = contributions /\ settled' = settled
      /\ bids' = bids /\ Own' = Own
  BY <1>1 DEF rosterVars, outsideAdmin, roundVars, payoutVars, auctionVars, Own
<1>4. HeldIn(circle'.status, members') = HeldIn(circle.status, members)
  BY <1>1, <1>2, <1>3 DEF HeldIn
<1>5. Own >= Pooled(contributions) - PaidIn(settled) + Deposited(bids)
               + HeldIn(circle.status, members)
  BY <1>1 DEF EscrowInv, Closed
<1> QED
  BY <1>2, <1>3, <1>4, <1>5 DEF EscrowInv, Closed

\* A resolution takes a collateral only for a member it makes inactive.
LEMMA ResolveDisputeKeepsEscrow ==
    ASSUME Ledger, Ledger', EscrowInv, NEW a, NEW resolution, ResolveDispute(a, resolution),
           circle.status # "COMPLETED",
           resolution = "PENALIZE" /\ Routed(Collateral) # 0 =>
              \A d \in dispute : IsActiveMember(members, d.raised_by)
    PROVE  EscrowInv'
<1> DEFINE n == Collateral * Cardinality(ActiveIn(members))
           n1 == Collateral * Cardinality(ActiveIn(members'))
<1>1. /\ dispute # {} /\ dispute' # {}
      /\ circle' = [circle EXCEPT !.status = IF resolution = "REFUND" THEN "CANCELLED"
                                             ELSE "ACTIVE"]
      /\ UNCHANGED <<member_status, outsideAdmin>>
  BY Zenon DEF ResolveDispute
<1>2. circle'.status \in {"CANCELLED", "ACTIVE"} /\ circle'.token = circle.token
  BY <1>1, LedgerTypes DEF CircleRecord
<1>3. contributions' = contributions /\ settled' = settled /\ bids' = bids
  BY <1>1 DEF outsideAdmin, roundVars, payoutVars, auctionVars
<1>4. n \in Nat /\ n1 \in Nat /\ Collateral \in Nat
  <2>1. HeldIn(circle.status, members) = n /\ HeldIn(circle'.status, members') = n1
    BY <1>2 DEF HeldIn
  <2> HIDE DEF n, n1
  <2> QED
    BY <2>1, EscrowTypes, EscrowTypesNext, ConfigAssumption
<1>5. \E own \in Int : Flows(Nobody, own) /\ n1 <= n + own
  <2>1. ASSUME Flows(Nobody, 0), ActiveIn(members') \subseteq ActiveIn(members)
        PROVE  \E own \in Int : Flows(Nobody, own) /\ n1 <= n + own
    <3>1. n1 <= n
      BY <2>1, EscrowTypes, EscrowTypesNext, HeldFalls
    <3> HIDE DEF n, n1
    <3>2. n1 <= n + 0 /\ 0 \in Int
      BY <1>4, <3>1
    <3> QED
      BY <2>1, <3>2
  <2>2. CASE UNCHANGED <<members, balance>>
    BY <2>1, <2>2, UnchangedFlows
  <2>3. CASE RefundMembers
    <3>1. SameStandings
      BY <1>1, <2>3, RefundKeepsStandings DEF Ledger
    <3>2. ActiveIn(members') \subseteq ActiveIn(members)
      BY <3>1 DEF SameStandings, ActiveIn
    <3> QED
      BY <2>1, <2>3, <3>2, RefundMembersFlows
  <2>4. ASSUME resolution = "PENALIZE", NEW d \in dispute, Penalize(d.raised_by)
        PROVE  \E own \in Int : Flows(Nobody, own) /\ n1 <= n + own
    <3> DEFINE raiser == d.raised_by
               Defaulted(m) == [m EXCEPT !.strikes = @ + 1, !.status = "DEFAULTED"]
    <3>1. members' = [i \in DOMAIN members |-> IF members[i].address = raiser
                                               THEN Defaulted(members[i]) ELSE members[i]]
      BY <2>4, Zenon DEF Penalize
    <3>2. \A m \in Member : Defaulted(m).status = "DEFAULTED"
      BY DEF Member
    <3>3. \A i \in DOMAIN members : members[i] \in Member
      BY MemberTypes DEF Ledger
    <3>4. Flows(Nobody, 0) \/ (treasury # NoOne /\ Flows(Nobody, -Collateral))
      BY <2>4, PenalizeFlows
    <3> HIDE DEF Defaulted, raiser
    <3>5. /\ ActiveIn(members') \subseteq ActiveIn(members)
          /\ \A i \in ActiveIn(members) :
                members[i].address = raiser => i \notin ActiveIn(members')
      BY <3>1, <3>2, <3>3 DEF ActiveIn
    <3>6. ASSUME treasury # NoOne, Flows(Nobody, -Collateral), Collateral # 0
          PROVE  \E own \in Int : Flows(Nobody, own) /\ n1 <= n + own
      <4>1. Routed(Collateral) # 0
        BY <3>6 DEF Routed
      <4>2. PICK i \in ActiveIn(members) : members[i].address = raiser
        BY <2>4, <4>1 DEF IsActiveMember, raiser
      <4>3. n1 <= n - Collateral
        BY <3>5, <4>2, EscrowTypes, EscrowTypesNext, HeldFalls
      <4> HIDE DEF n, n1
      <4>4. n1 <= n + (-Collateral) /\ (-Collateral) \in Int
        BY <1>4, <4>3
      <4> QED
        BY <3>6, <4>4
    <3>7. CASE treasury # NoOne /\ Flows(Nobody, -Collateral) /\ Collateral = 0
      <4>1. Flows(Nobody, 0)
        BY <3>7
      <4> QED
        BY <2>1, <3>5, <4>1
    <3> QED
      BY <2>1, <3>4, <3>5, <3>6, <3>7
  <2>5. \/ UNCHANGED <<members, balance>>
        \/ RefundMembers
        \/ resolution = "PENALIZE" /\ \E d \in dispute : Penalize(d.raised_by)
    BY Zenon DEF ResolveDispute
  <2> HIDE DEF n, n1
  <2> QED
    BY <2>2, <2>3, <2>4, <2>5
<1>6. PICK own \in Int : Flows(Nobody, own) /\ n1 <= n + own
  BY <1>5
<1>7. Own' = Own + own
  BY <1>6, OwnChange
<1>8. ~Closed /\ circle.status # "PENDING"
  BY <1>1 DEF EscrowInv, Closed
<1>9. Own >= Pooled(contributions) - PaidIn(settled) + Deposited(bids) + n
  BY <1>8 DEF EscrowInv, HeldIn
<1> HIDE DEF n, n1
<1>10. Own' >= Pooled(contributions) - PaidIn(settled) + Deposited(bids) + n1
  BY <1>4, <1>6, <1>7, <1>9, EscrowTypes
<1>11. HeldIn(circle'.status, members') = n1
  BY <1>2 DEF HeldIn, n1
<1>12. Own' >= Pooled(contributions') - PaidIn(settled') + Deposited(bids')
                 + HeldIn(circle'.status, members')
  BY <1>3, <1>10, <1>11
<1>13. ~Closed' /\ circle'.status # "PENDING" /\ circle'.token = Token0
  BY <1>1, <1>2 DEF EscrowInv, Closed
<1> QED
  BY <1>12, <1>13 DEF EscrowInv, Closed

\* The calls that take out of the escrow what somebody else put in.
Leaks ==
    \/ \E m \in Address : Exit(m) /\ ~IsMember(members, m)
    \/ Collateral # 0 /\ \E m \in Address, invited \in Invitations : BatchInvite(m, invited)
    \/ /\ \E m \in Address, amount \in Amounts, r \in Rounds : Contribute(m, amount, r)
       /\ Routed(LatePenalty(ContributionAmount)) # 0
    \/ /\ \E a \in Address : CancelAuction(a)
       /\ \E k \in WinningBids(circle.current_round) : bids[k].deposit # ContributionAmount
    \/ circle.status = "COMPLETED" /\ \E a \in Address, x \in Resolutions : ResolveDispute(a, x)
    \/ /\ Penalizes /\ Routed(Collateral) # 0
       /\ \E d \in dispute : ~IsActiveMember(members, d.raised_by)
    \/ \E a \in Address : ClaimBonus(a)
    \/ \E a \in Address, t \in Token \ {Token0} : SetToken(a, t)
    \/ Withdraws \/ BatchPays

LEMMA AdminNextKeepsEscrow ==
    ASSUME Ledger, Ledger', EscrowInv, AdminNext, ~Leaks
    PROVE  EscrowInv'
<1>0. UNCHANGED outsideAdmin
  BY AdminNextFrame DEF Ledger
<1>1. ASSUME UNCHANGED <<circle, rosterVars, dispute, balance>>  PROVE EscrowInv'
  BY <1>0, <1>1, StillKeepsEscrow
     DEF Quiet, outsideAdmin, rosterVars, roundVars, payoutVars, auctionVars
<1>2. ASSUME NEW a \in Address, NEW x \in Resolutions, ResolveDispute(a, x)  PROVE EscrowInv'
  <2>1. circle.status # "COMPLETED"
    BY <1>2, Zenon DEF Leaks
  <2>2. x = "PENALIZE" /\ Routed(Collateral) # 0 =>
           \A d \in dispute : IsActiveMember(members, d.raised_by)
    BY <1>2, Zenon DEF Leaks, Penalizes
  <2> QED
    BY <1>2, <2>1, <2>2, ResolveDisputeKeepsEscrow, Zenon
<1>3. ASSUME NEW a \in Address, NEW t \in Token, SetToken(a, t)  PROVE EscrowInv'
  <2>1. t = Token0
    BY <1>3, Zenon DEF Leaks
  <2>2. circle' = [circle EXCEPT !.token = t] /\ UNCHANGED <<rosterVars, dispute, balance>>
    BY <1>3, Zenon DEF SetToken, unconfigured
  <2>3. circle' = circle
    BY <2>1, <2>2, LedgerTypes DEF CircleRecord, EscrowInv
  <2> QED
    BY <1>1, <2>2, <2>3
<1>4. ASSUME NEW a, Pause(a) \/ Unpause(a) \/ SetTreasury(a)  PROVE EscrowInv'
  BY <1>1, <1>4, Zenon DEF Pause, Unpause, SetTreasury, unconfigured
<1>5. ASSUME NEW a, NEW x, RegisterReferral(a, x) \/ UpdateStreak(a, x) \/ SetAllowlist(a, x)
      PROVE  EscrowInv'
  BY <1>1, <1>5, Zenon DEF RegisterReferral, UpdateStreak, SetAllowlist, unconfigured
<1>6. ASSUME NEW a, NEW x, SetFeeBps(a, x) \/ ConfigureFromFactory(x)  PROVE EscrowInv'
  <2>1. UNCHANGED <<circle, rosterVars, dispute, balance>>
    BY <1>6, SMT DEF SetFeeBps, ConfigureFromFactory, unconfigured, rosterVars
  <2> QED
    BY <1>1, <2>1
<1>7. ~Withdraws /\ ~\E a \in Address : ClaimBonus(a)
  BY Zenon DEF Leaks
<1> QED
  BY <1>2, <1>3, <1>4, <1>5, <1>6, <1>7, RaiseDisputeKeepsEscrow, Zenon DEF AdminNext, Withdraws

LEMMA MemberNextKeepsEscrow ==
    ASSUME Ledger, Ledger', EscrowInv, MemberNext, ~Leaks
    PROVE  EscrowInv'
<1>1. ASSUME NEW m \in Address, Exit(m)  PROVE EscrowInv'
  <2>1. IsMember(members, m)
    BY <1>1, Zenon DEF Leaks
  <2> QED
    BY <1>1, <2>1, ExitKeepsEscrow
<1>2. ASSUME NEW m \in Address, NEW invited \in Invitations, BatchInvite(m, invited)
      PROVE  EscrowInv'
  <2>1. Collateral = 0
    BY <1>2, Zenon DEF Leaks
  <2>2. invited \in Seq(Address)
    BY InvitationTypes
  <2> QED
    BY <1>2, <2>1, <2>2, BatchInviteKeepsEscrow
<1> QED
  BY <1>1, <1>2, JoinKeepsEscrow, ReportLateKeepsEscrow, CancelCircleKeepsEscrow, Zenon
     DEF MemberNext

LEMMA NextKeepsEscrow ==
    ASSUME Ledger, Ledger', EscrowInv, [Next]_vars, [~Leaks]_vars
    PROVE  EscrowInv'
<1>1. CASE UNCHANGED vars \/ Tick
  <2>1. UNCHANGED <<circle, rosterVars, roundVars, payoutVars, auctionVars, dispute, balance>>
    BY <1>1, Zenon DEF vars, Tick
  <2> QED
    BY <2>1, StillKeepsEscrow DEF Quiet, rosterVars, roundVars, payoutVars, auctionVars
<1>2. CASE MemberNext /\ ~Leaks
  BY <1>2, MemberNextKeepsEscrow
<1>3. CASE AdminNext /\ ~Leaks
  BY <1>3, AdminNextKeepsEscrow
<1>4. CASE BidNext /\ ~Leaks
  <2>1. ASSUME NEW a \in Address, CancelAuction(a)
        PROVE  \A k \in WinningBids(circle.current_round) : bids[k].deposit = ContributionAmount
    BY <1>4, <2>1, Zenon DEF Leaks
  <2> QED
    BY <1>4, <2>1, BidNextKeepsEscrow, Zenon
<1>5. CASE RoundNext /\ ~Leaks
  <2>1. ASSUME NEW m \in Address, NEW amount \in Amounts, NEW r \in Rounds,
               Contribute(m, amount, r)
        PROVE  Routed(LatePenalty(ContributionAmount)) = 0
    BY <1>5, <2>1, Zenon DEF Leaks
  <2>2. ~BatchPays
    BY <1>5, Zenon DEF Leaks
  <2> QED
    BY <1>5, <2>1, <2>2, RoundNextKeepsEscrow, Zenon
<1> QED
  BY <1>1, <1>2, <1>3, <1>4, <1>5, Zenon DEF Next

\* But for the calls that Leaks names, what members put in and have not got back is in
\* the circle's account: contributions, deposits and collateral, through refunds of
\* bids, late exits, disputes, sweeps and the payouts that complete the circle.
THEOREM EscrowIsCovered == Spec /\ [][~Leaks]_vars => []EscrowCovers
<1>1. ASSUME Init  PROVE EscrowInv
  <2>1. /\ circle.token = Token0 /\ circle.status = "PENDING" /\ members = << >>
        /\ contributions = {} /\ settled = << >> /\ bids = << >> /\ dispute = {}
        /\ balance = [t \in Token |-> [a \in Account |-> IF a \in Address THEN Wallet ELSE 0]]
    BY <1>1 DEF Init
  <2>2. Own = 0
    BY <2>1, AddressAssumption DEF Own, Account
  <2>3. DOMAIN settled = {} /\ DOMAIN bids = {} /\ ActiveIn(members) = {}
    BY <2>1 DEF ActiveIn
  <2>4. Pooled(contributions) = 0 /\ PaidIn(settled) = 0 /\ Deposited(bids) = 0
    BY <2>1, <2>3, SumOfNothing DEF Pooled, PaidIn, Deposited
  <2>5. HeldIn(circle.status, members) = 0
    <3>1. Cardinality(ActiveIn(members)) = 0
      BY <2>3, FS_EmptySet
    <3> QED
      BY <2>1, <3>1, ConfigAssumption DEF HeldIn
  <2> QED
    BY <2>1, <2>2, <2>4, <2>5 DEF EscrowInv
<1>2. ASSUME Ledger, Ledger', EscrowInv, [Next]_vars, [~Leaks]_vars  PROVE EscrowInv'
  BY <1>2, NextKeepsEscrow
<1>3. Ledger /\ EscrowInv => EscrowCovers
  BY EscrowPromised
<1> QED
  BY <1>1, <1>2, <1>3, LedgerInvariant, PTL DEF Spec

-----------------------------------------------------------------------------
(* Deposits: a bidder's tokens and deposits change against one another.    *)

\* The calls that move tokens for another reason than a bid, a contribution or a
\* settlement, and the change of the token itself.
Diverts ==
    \/ Collateral # 0 /\ \E m \in Address : Join(m) \/ Exit(m) \/ CancelCircle(m)
    \/ \E a \in Address : ClaimBonus(a)
    \/ \E a \in Address, t \in Token \ {Token0} : SetToken(a, t)
    \/ Withdraws \/ BatchPays

FirstToken == circle.token = Token0

\* Only set_token changes the token.
LEMMA NextKeepsToken ==
    ASSUME IInv, FirstToken, Next, ~Diverts
    PROVE  FirstToken'
<1> DEFINE Same == circle'.token = circle.token
<1>1. circle \in CircleRecord
  BY DEF IInv, RotationTypeOK
<1>2. ASSUME UNCHANGED circle  PROVE Same
  BY <1>2
<1>3. ASSUME NEW st, circle' = [circle EXCEPT !.status = st]  PROVE Same
  BY <1>1, <1>3 DEF CircleRecord
<1>4. ASSUME NEW n, StartWhenFull(n)  PROVE Same
  BY <1>1, <1>4 DEF StartWhenFull, CircleRecord
<1>5. ASSUME MemberNext  PROVE Same
  <2>1. ASSUME NEW m, Join(m)  PROVE Same
    BY <1>4, <2>1, Zenon DEF Join
  <2>2. ASSUME NEW m, NEW invited, BatchInvite(m, invited)  PROVE Same
    BY <1>4, <2>2, Zenon DEF BatchInvite
  <2>3. ASSUME NEW m, CancelCircle(m)  PROVE Same
    BY <1>3, <2>3, Zenon DEF CancelCircle
  <2>4. ASSUME NEW m, NEW r, Exit(m) \/ ReportLate(m, r)  PROVE Same
    BY <1>2, <2>4, Zenon DEF Exit, ReportLate
  <2> QED
    BY <1>5, <2>1, <2>2, <2>3, <2>4, Zenon DEF MemberNext
<1>6. ASSUME BidNext  PROVE Same
  BY <1>6, BidNextFrame DEF outsideAuction
<1>7. ASSUME RoundNext  PROVE Same
  <2>1. ASSUME NEW m, NEW amount, NEW r, Contribute(m, amount, r)  PROVE Same
    <3>1. circle' = [circle EXCEPT !.total_fees = @ + LatePenalty(amount)]
      BY <2>1, Zenon DEF Contribute
    <3> QED
      BY <1>1, <3>1 DEF CircleRecord
  <2>2. ASSUME NEW m, NEW r, SchedulePayout(m, r)  PROVE Same
    BY <1>2, <2>2, Zenon DEF SchedulePayout
  <2>3. ASSUME NEW i, NEW net, NEW fee, circle' = CircleAfter(i, net, fee)  PROVE Same
    BY <1>1, <2>3 DEF CircleAfter, CircleRecord
  <2>4. ASSUME NEW ms, NEW r, SettleRound(ms, r)  PROVE Same
    <3>1. \E i, net, fee : circle' = CircleAfter(i, net, fee)
      BY <2>4, Zenon DEF SettleRound, SettleEmpty, SettleFunded
    <3> QED
      BY <2>3, <3>1
  <2>5. ~BatchPays
    BY Zenon DEF Diverts
  <2> QED
    BY <1>7, <2>1, <2>2, <2>4, <2>5, Zenon
       DEF RoundNext, TriggerPayout, CheckContributionDeadline, BatchPays
<1>8. ASSUME AdminNext  PROVE FirstToken'
  <2>1. ASSUME NEW a, RaiseDispute(a)  PROVE Same
    BY <1>3, <2>1, Zenon DEF RaiseDispute
  <2>2. ASSUME NEW a, NEW x, ResolveDispute(a, x)  PROVE Same
    <3>1. circle' = [circle EXCEPT !.status = IF x = "REFUND" THEN "CANCELLED" ELSE "ACTIVE"]
      BY <2>2, Zenon DEF ResolveDispute
    <3> QED
      BY <1>3, <3>1
  <2>3. ASSUME NEW a, NEW t \in Token, a \in Address, SetToken(a, t)  PROVE FirstToken'
    <3>1. t = Token0
      BY <2>3, Zenon DEF Diverts
    <3>2. circle' = [circle EXCEPT !.token = t]
      BY <2>3, Zenon DEF SetToken
    <3> QED
      BY <1>1, <3>1, <3>2 DEF CircleRecord, FirstToken
  <2>4. ASSUME NEW a, ClaimBonus(a) \/ Pause(a) \/ Unpause(a) \/ SetTreasury(a)  PROVE Same
    BY <1>2, <2>4, Zenon DEF ClaimBonus, Pause, Unpause, SetTreasury, unconfigured
  <2>5. ASSUME NEW a, NEW x, \/ WithdrawTreasury(a, x) \/ RegisterReferral(a, x)
                             \/ UpdateStreak(a, x) \/ SetAllowlist(a, x)
        PROVE  Same
    BY <1>2, <2>5, Zenon
       DEF WithdrawTreasury, RegisterReferral, UpdateStreak, SetAllowlist, unconfigured
  <2>6. ASSUME NEW a, NEW x, SetFeeBps(a, x) \/ ConfigureFromFactory(x)  PROVE Same
    <3>1. UNCHANGED circle
      BY <2>6, SMT DEF SetFeeBps, ConfigureFromFactory, unconfigured
    <3> QED
      BY <1>2, <3>1
  <2>7. Same => FirstToken'
    BY DEF FirstToken
  <2> HIDE DEF Same
  <2> QED
    BY <1>8, <2>1, <2>2, <2>3, <2>4, <2>5, <2>6, <2>7, Zenon DEF AdminNext
<1>9. ASSUME Tick  PROVE Same
  BY <1>9 DEF Tick
<1>10. Same => FirstToken'
  BY DEF FirstToken
<1> HIDE DEF Same
<1> QED
  BY <1>5, <1>6, <1>7, <1>8, <1>9, <1>10, Zenon DEF Next

\* One bidder's deposits when bids are removed, and when one is added.
LEMMA BidderDeposits ==
    ASSUME AuctionTypeOK, NEW m
    PROVE  DepositsOf(m) \in Nat
BY DepositTypes DEF DepositsOf

LEMMA BidderDepositsLeft ==
    ASSUME AuctionTypeOK, NEW ks \in SUBSET DOMAIN bids, bids' = Without(ks), NEW m
    PROVE  DepositsOf(m)'
             = DepositsOf(m) - SumFunctionOnSet(Deposits, {k \in ks : bids[k].bidder = m})
<1> DEFINE X == {k \in ks : bids[k].bidder = m}
           S == {k \in DOMAIN bids : bids[k].bidder = m}
           R == S \ X
           S1 == {k \in DOMAIN bids' : bids'[k].bidder = m}
           f == [k \in DOMAIN bids' |-> bids'[k].deposit]
<1>1. PICK from \in [DOMAIN bids' -> DOMAIN bids \ ks] :
         /\ \A j, k \in DOMAIN bids' : from[j] = from[k] => j = k
         /\ \A k \in DOMAIN bids' : bids'[k] = bids[from[k]]
         /\ \A i \in DOMAIN bids \ ks : \E k \in DOMAIN bids' : from[k] = i
  BY WithoutKeepsTheRest
<1>2. IsFiniteSet(S1)
  <2>1. bids' \in Seq(Bid)
    BY WithoutKeepsTheRest
  <2>2. Len(bids') \in Nat /\ DOMAIN bids' = 1..Len(bids')
    BY <2>1, LenProperties
  <2>3. IsFiniteSet(DOMAIN bids')
    BY <2>2, FS_Interval
  <2> QED
    BY <2>3, FS_Subset
<1>3. /\ \A k \in DOMAIN bids : Deposits[k] \in Nat /\ Deposits[k] = bids[k].deposit
      /\ IsFiniteSet(R) /\ IsFiniteSet(X) /\ SumFunctionOnSet(Deposits, R) \in Nat
      /\ SumFunctionOnSet(Deposits, X) \in Nat
  <2>1. R \subseteq DOMAIN bids /\ X \subseteq DOMAIN bids
    OBVIOUS
  <2> HIDE DEF R, X
  <2> QED
    BY <2>1, DepositTypes
<1>4. \A k \in S1 : f[k] \in Int /\ Deposits[from[k]] = f[k]
  BY <1>1, <1>3
<1>5. /\ {from[k] : k \in S1} = R
      /\ \A j, k \in S1 : from[j] = from[k] => j = k
  BY <1>1
<1>6. R \cap X = {} /\ R \cup X = S /\ \A k \in R \cup X : Deposits[k] \in Int
  BY <1>3
<1>7. DepositsOf(m) = SumFunctionOnSet(Deposits, S)
  BY DEF DepositsOf
<1>8. DepositsOf(m)' = SumFunctionOnSet(f, S1)
  BY DEF DepositsOf, Deposits
<1> HIDE DEF f, R, X, S, S1
<1>9. SumFunctionOnSet(Deposits, {from[k] : k \in S1}) = SumFunctionOnSet(f, S1)
  BY <1>2, <1>4, <1>5, SumOfRenamed
<1>10. SumFunctionOnSet(Deposits, R \cup X)
         = SumFunctionOnSet(Deposits, R) + SumFunctionOnSet(Deposits, X)
  BY <1>3, <1>6, SumOfUnion
<1>11. DepositsOf(m)' = SumFunctionOnSet(Deposits, R)
  BY <1>5, <1>8, <1>9
<1>12. DepositsOf(m) = SumFunctionOnSet(Deposits, R) + SumFunctionOnSet(Deposits, X)
  BY <1>6, <1>7, <1>10
<1>13. DepositsOf(m)' = DepositsOf(m) - SumFunctionOnSet(Deposits, X)
  BY <1>3, <1>11, <1>12
<1> QED
  BY <1>13 DEF X

LEMMA BidderDepositAdded ==
    ASSUME AuctionTypeOK, NEW bid \in Bid, bids' = Append(bids, bid), NEW m
    PROVE  DepositsOf(m)' = DepositsOf(m) + (IF bid.bidder = m THEN bid.deposit ELSE 0)
<1> DEFINE n == Len(bids)
           S == {k \in DOMAIN bids : bids[k].bidder = m}
           S1 == {k \in DOMAIN bids' : bids'[k].bidder = m}
           g == [k \in DOMAIN bids' |-> bids'[k].deposit]
           last == n + 1
<1>1. n \in Nat /\ DOMAIN bids = 1..n /\ \A k \in 1..n : bids[k] \in Bid
  BY BidTypes
<1>2. bids \in Seq(Bid)
  BY DEF AuctionTypeOK
<1>3. /\ bids' \in Seq(Bid) /\ Len(bids') = n + 1 /\ \A k \in 1..n : bids'[k] = bids[k]
      /\ bids'[n + 1] = bid
  BY <1>2, AppendProperties
<1>4. DOMAIN bids' = 1..(n + 1)
  BY <1>3, LenProperties
<1>5. \A b \in Bid : b.deposit \in Int
  BY ConfigAssumption DEF Bid
<1>6. /\ IsFiniteSet(S) /\ \A k \in S : Deposits[k] = bids[k].deposit /\ Deposits[k] \in Int
      /\ SumFunctionOnSet(Deposits, S) \in Nat
  BY DepositTypes
<1>7. DepositsOf(m) = SumFunctionOnSet(Deposits, S)
  BY DEF DepositsOf
<1>8. DepositsOf(m)' = SumFunctionOnSet(g, S1)
  BY DEF DepositsOf, Deposits
<1>9. last \notin S /\ S1 = IF bid.bidder = m THEN S \cup {last} ELSE S
  <2> HIDE DEF n
  <2>1. 1..(n + 1) = 1..n \cup {n + 1} /\ n + 1 \notin 1..n
    BY <1>1
  <2> QED
    BY <1>1, <1>3, <1>4, <2>1
<1>10. \A k \in S : g[k] = Deposits[k]
  BY <1>1, <1>3, <1>4, <1>6
<1>11. g[last] = bid.deposit
  BY <1>1, <1>3, <1>4
<1> HIDE DEF n, S, S1, g, last
<1>12. SumFunctionOnSet(g, S) = SumFunctionOnSet(Deposits, S)
  BY <1>6, <1>10, SumsAgree
<1>13. \A k \in S \cup {last} : g[k] \in Int
  BY <1>5, <1>6, <1>10, <1>11
<1>14. SumFunctionOnSet(g, S \cup {last}) = SumFunctionOnSet(g, S) + g[last]
  BY <1>6, <1>9, <1>13, SumWith
<1>15. CASE bid.bidder = m
  BY <1>7, <1>8, <1>9, <1>11, <1>12, <1>14, <1>15
<1>16. CASE bid.bidder # m
  BY <1>6, <1>7, <1>8, <1>9, <1>12, <1>16
<1> QED
  BY <1>15, <1>16

\* What RefundsReturnDeposits says of a step.
NowBids == BidsNow' = BidsNow
GivesBack ==
    \A m \in Address :
       balance'[Token0][m] + DepositsOf(m)' = balance[Token0][m] + DepositsOf(m)

LEMMA FlowsGiveBack ==
    ASSUME Ledger, FirstToken, NEW gain, NEW own, Flows(gain, own),
           \A m \in Address : gain[m] \in Int /\ DepositsOf(m)' = DepositsOf(m) - gain[m]
    PROVE  GivesBack
<1>1. \A m \in Address : balance[Token0][m] \in Nat
  BY LedgerTypes DEF FirstToken
<1>2. \A m \in Address : DepositsOf(m) \in Nat
  BY BidderDeposits DEF Ledger
<1>3. \A m \in Address : balance'[Token0][m] = balance[Token0][m] + gain[m]
  BY DEF Flows, FirstToken
<1> QED
  BY <1>1, <1>2, <1>3 DEF GivesBack

LEMMA OthersGiveBack ==
    ASSUME Ledger, FirstToken, UNCHANGED bids, NEW gain, NEW own, Flows(gain, own),
           \A m \in Address : gain[m] = 0
    PROVE  GivesBack
<1>1. \A m \in Address : DepositsOf(m)' = DepositsOf(m)
  BY DEF DepositsOf, Deposits
<1>2. \A m \in Address : DepositsOf(m) \in Nat
  BY BidderDeposits DEF Ledger
<1>3. \A m \in Address : gain[m] \in Int /\ DepositsOf(m)' = DepositsOf(m) - gain[m]
  BY <1>1, <1>2
<1> QED
  BY <1>3, FlowsGiveBack

LEMMA StillGivesBack ==
    ASSUME Ledger, FirstToken, UNCHANGED <<bids, balance>>
    PROVE  GivesBack
<1>1. Flows(Nobody, 0) /\ \A m \in Address : Nobody[m] = 0
  BY UnchangedFlows DEF Nobody
<1> QED
  BY <1>1, OthersGiveBack

LEMMA PlaceBidGivesBack ==
    ASSUME Ledger, FirstToken, NEW m \in Address, NEW bips \in Bips, NEW r \in Rounds,
           PlaceBid(m, bips, r)
    PROVE  GivesBack
<1> DEFINE bid == [bidder |-> m, bips |-> bips, round |-> r, deposit |-> ContributionAmount]
<1>1. bids' = Append(bids, bid)
  BY SMT DEF PlaceBid
<1>2. bid \in Bid
  <2>1. bips \in Discounts
    BY BoundAssumption, SMT DEF Discounts
  <2> QED
    BY <2>1 DEF Bid
<1>3. bid.deposit = ContributionAmount /\ bid.bidder = m /\ ContributionAmount \in Nat
  BY ConfigAssumption
<1> HIDE DEF bid
<1>4. \A a : DepositsOf(a)' = DepositsOf(a) + (IF bid.bidder = a THEN bid.deposit ELSE 0)
  BY <1>1, <1>2, BidderDepositAdded DEF Ledger
<1>5. \A a : DepositsOf(a) \in Nat
  BY BidderDeposits DEF Ledger
<1>6. Flows(Only(m, -ContributionAmount), ContributionAmount)
  BY PlaceBidFlows
<1>7. \A a \in Address : /\ Only(m, -ContributionAmount)[a] \in Int
                         /\ DepositsOf(a)' = DepositsOf(a) - Only(m, -ContributionAmount)[a]
  BY <1>3, <1>4, <1>5 DEF Only
<1> QED
  BY <1>6, <1>7, FlowsGiveBack

LEMMA DutchAuctionBidGivesBack ==
    ASSUME Ledger, FirstToken, NEW m \in Address, NEW r \in Rounds, DutchAuctionBid(m, r)
    PROVE  GivesBack
<1>1. PICK d \in dutch[r] :
         bids' = Append(bids, [bidder |-> m, bips |-> DecayedPrice(d), round |-> r, deposit |-> 0])
  BY Zenon DEF DutchAuctionBid
<1> DEFINE bid == [bidder |-> m, bips |-> DecayedPrice(d), round |-> r, deposit |-> 0]
<1>2. UNCHANGED balance
  BY Zenon DEF DutchAuctionBid
<1>3. bid \in Bid
  <2>1. d \in DutchAuction /\ Priced(d) /\ now \in Nat
    BY DEF Ledger, AuctionTypeOK, IInv, RotationTypeOK
  <2>2. DecayedPrice(d) \in Discounts
    BY <2>1, PriceIsInRange
  <2> QED
    BY <2>2, SMTT(60) DEF Bid
<1>4. bid.deposit = 0 /\ bids' = Append(bids, bid)
  BY <1>1
<1> HIDE DEF bid
<1>5. \A a : DepositsOf(a)' = DepositsOf(a) + (IF bid.bidder = a THEN bid.deposit ELSE 0)
  BY <1>3, <1>4, BidderDepositAdded DEF Ledger
<1>6. \A a : DepositsOf(a) \in Nat
  BY BidderDeposits DEF Ledger
<1>7. \A a \in Address : Nobody[a] \in Int /\ DepositsOf(a)' = DepositsOf(a) - Nobody[a]
  BY <1>4, <1>5, <1>6 DEF Nobody
<1> QED
  BY <1>2, <1>7, UnchangedFlows, FlowsGiveBack

LEMMA RefundLosingBidsGivesBack ==
    ASSUME Ledger, FirstToken, NEW r, NEW limit, RefundLosingBids(r, limit)
    PROVE  GivesBack
<1> DEFINE batch == RefundBatch(r, limit)
<1>1. bids' = Without(batch)
  BY Zenon DEF RefundLosingBids
<1>2. batch \in SUBSET DOMAIN bids
  BY BatchOfBids
<1>3. Flows(Refunded(batch), -SumFunctionOnSet(Deposits, batch))
  BY RefundLosingBidsFlows
<1> HIDE DEF batch
<1>4. \A m : DepositsOf(m)'
            = DepositsOf(m) - SumFunctionOnSet(Deposits, {k \in batch : bids[k].bidder = m})
  BY <1>1, <1>2, BidderDepositsLeft DEF Ledger
<1>5. \A m : SumFunctionOnSet(Deposits, {k \in batch : bids[k].bidder = m}) \in Nat
  BY <1>2, DepositTypes DEF Ledger
<1>6. \A m \in Address : Refunded(batch)[m] \in Int
                         /\ DepositsOf(m)' = DepositsOf(m) - Refunded(batch)[m]
  BY <1>4, <1>5 DEF Refunded
<1> QED
  BY <1>3, <1>6, FlowsGiveBack

\* A cancelled auction with a bid has none afterwards; without one, nothing moves.
LEMMA CancelAuctionGivesBack ==
    ASSUME Ledger, FirstToken, NEW caller, CancelAuction(caller)
    PROVE  ~NowBids \/ GivesBack
<1> DEFINE r == circle.current_round
           W == WinningBids(r)
           repaid == [k \in W |-> IF Contributed(bids[k].bidder, r) = 0 THEN ContributionAmount
                                  ELSE Contributed(bids[k].bidder, r)]
           credit == [a \in Account |->
                         SumFunctionOnSet(repaid, {k \in W : bids[k].bidder = a})]
<1>1. /\ bids' = Without(BidsOf(r)) /\ UNCHANGED outsideAuction
      /\ balance' = PaidOut(balance, credit, SumFunction(repaid))
  BY Zenon DEF CancelAuction
<1>2. BidsOf(r) \in SUBSET DOMAIN bids
  BY DEF BidsOf
<1>3. CASE BidsOf(r) # {}
  <2>1. \A k \in DOMAIN bids' : bids'[k].round # r
    <3>1. \E from \in [DOMAIN bids' -> DOMAIN bids \ BidsOf(r)] :
             \A k \in DOMAIN bids' : bids'[k] = bids[from[k]]
      BY <1>1, <1>2, WithoutKeepsTheRest DEF Ledger
    <3> QED
      BY <3>1 DEF BidsOf
  <2>2. circle' = circle
    BY <1>1 DEF outsideAuction
  <2>3. BidsNow' = {}
    BY <2>1, <2>2 DEF BidsNow, BidsOf
  <2>4. BidsNow # {}
    BY <1>3 DEF BidsNow
  <2> QED
    BY <2>3, <2>4 DEF NowBids
<1>4. CASE BidsOf(r) = {}
  <2>1. W = {}
    BY <1>4 DEF WinningBids, BidsOf
  <2>2. \A a : {k \in W : bids[k].bidder = a} = {}
    BY <2>1
  <2>3. DOMAIN repaid = {}
    BY <2>1
  <2> HIDE DEF W, repaid
  <2>4. SumFunction(repaid) = 0 /\ \A a \in Account : credit[a] = 0
    BY <2>2, <2>3, SumOfNothing DEF SumFunction
  <2>5. Holds(Self, 0)
    BY LedgerTypes DEF Holds
  <2> HIDE DEF credit
  <2>6. Flows(credit, -0)
    BY <1>1, <2>4, <2>5, PaidOutFlows
  <2>7. \A m : DepositsOf(m)'
              = DepositsOf(m) - SumFunctionOnSet(Deposits, {k \in {} : bids[k].bidder = m})
    BY <1>1, <1>2, <1>4, BidderDepositsLeft DEF Ledger
  <2>8. \A m : {k \in {} : bids[k].bidder = m} = {}
    OBVIOUS
  <2>9. \A m : DepositsOf(m)' = DepositsOf(m) - 0
    BY <2>7, <2>8, SumOfNothing
  <2>10. \A m \in Address : credit[m] = 0
    BY <2>4 DEF Account
  <2>11. \A m \in Address : credit[m] \in Int /\ DepositsOf(m)' = DepositsOf(m) - credit[m]
    BY <2>9, <2>10
  <2> QED
    BY <2>6, <2>11, FlowsGiveBack
<1> QED
  BY <1>3, <1>4

LEMMA MemberNextGivesBack ==
    ASSUME Ledger, FirstToken, MemberNext, ~Diverts
    PROVE  GivesBack
<1>1. UNCHANGED bids
  BY MemberNextFrame DEF Ledger, outsideRoster, auctionVars
<1>2. ASSUME NEW m \in Address, Join(m) \/ Exit(m) \/ CancelCircle(m)  PROVE GivesBack
  <2> DEFINE refund == [a \in Address |-> IF IsActiveMember(members, a) THEN Collateral ELSE 0]
  <2>1. Collateral = 0
    BY <1>2, Zenon DEF Diverts
  <2>2. \A a \in Address : DepositsOf(a) \in Nat /\ DepositsOf(a)' = DepositsOf(a)
    BY <1>1, BidderDeposits DEF Ledger, DepositsOf, Deposits
  <2>3. CASE Join(m)
    <3>1. \A a \in Address : /\ Only(m, -Collateral)[a] \in Int
                             /\ DepositsOf(a)' = DepositsOf(a) - Only(m, -Collateral)[a]
      BY <2>1, <2>2 DEF Only
    <3> QED
      BY <2>3, <3>1, JoinFlows, FlowsGiveBack
  <2>4. CASE Exit(m)
    <3>1. \A a \in Address : Only(m, Collateral)[a] = 0
      BY <2>1 DEF Only
    <3> QED
      BY <1>1, <2>4, <3>1, ExitFlows, OthersGiveBack
  <2>5. CASE CancelCircle(m)
    <3>1. \A a \in Address : refund[a] = 0
      BY <2>1
    <3>2. \E own : Flows(refund, own)
      BY <2>5, CancelCircleFlows
    <3> QED
      BY <1>1, <3>1, <3>2, OthersGiveBack
  <2> QED
    BY <1>2, <2>3, <2>4, <2>5
<1>3. ASSUME NEW m, NEW invited, BatchInvite(m, invited)  PROVE UNCHANGED balance
  BY <1>3, Zenon DEF BatchInvite
<1>4. ASSUME NEW m, NEW r, ReportLate(m, r)  PROVE UNCHANGED balance
  BY <1>4, Zenon DEF ReportLate
<1>5. UNCHANGED balance => GivesBack
  BY <1>1, StillGivesBack
<1> QED
  BY <1>2, <1>3, <1>4, <1>5, Zenon DEF MemberNext

LEMMA BidNextGivesBack ==
    ASSUME Ledger, FirstToken, BidNext
    PROVE  ~NowBids \/ GivesBack
<1>1. ASSUME NEW a, NEW r, NEW config, InitDutchAuction(a, r, config)  PROVE GivesBack
  <2>1. UNCHANGED <<balance, bids>>
    BY <1>1, SMT DEF InitDutchAuction
  <2> QED
    BY <2>1, StillGivesBack
<1>2. ASSUME NEW a, NEW b, NEW r, VotePayout(a, b, r)  PROVE GivesBack
  <2>1. UNCHANGED <<balance, bids>>
    BY <1>2, Zenon DEF VotePayout
  <2> QED
    BY <2>1, StillGivesBack
<1> QED
  BY <1>1, <1>2, PlaceBidGivesBack, RefundLosingBidsGivesBack, DutchAuctionBidGivesBack,
     CancelAuctionGivesBack, Zenon DEF BidNext

LEMMA AdminNextGivesBack ==
    ASSUME Ledger, FirstToken, AdminNext, ~Diverts
    PROVE  GivesBack
<1>1. UNCHANGED bids
  BY AdminNextFrame DEF Ledger, outsideAdmin, auctionVars
<1>2. UNCHANGED balance => GivesBack
  BY <1>1, StillGivesBack
<1>3. ASSUME NEW a, NEW x, ResolveDispute(a, x)  PROVE GivesBack
  <2>1. \E own : Flows(Nobody, own)
    BY <1>3, ResolveDisputeFlows
  <2>2. \A m \in Address : Nobody[m] = 0
    BY DEF Nobody
  <2> QED
    BY <1>1, <2>1, <2>2, OthersGiveBack
<1>4. ASSUME NEW a, RaiseDispute(a) \/ Pause(a) \/ Unpause(a) \/ SetTreasury(a)
      PROVE  UNCHANGED balance
  BY <1>4, Zenon DEF RaiseDispute, Pause, Unpause, SetTreasury, unconfigured
<1>5. ASSUME NEW a, NEW x, \/ RegisterReferral(a, x) \/ UpdateStreak(a, x)
                           \/ SetAllowlist(a, x) \/ SetToken(a, x)
      PROVE  UNCHANGED balance
  BY <1>5, Zenon DEF RegisterReferral, UpdateStreak, SetAllowlist, SetToken, unconfigured
<1>6. ASSUME NEW a, NEW x, SetFeeBps(a, x) \/ ConfigureFromFactory(x)  PROVE UNCHANGED balance
  BY <1>6, SMT DEF SetFeeBps, ConfigureFromFactory, unconfigured
<1>7. ~Withdraws /\ ~\E a \in Address : ClaimBonus(a)
  BY Zenon DEF Diverts
<1> QED
  BY <1>2, <1>3, <1>4, <1>5, <1>6, <1>7, Zenon DEF AdminNext, Withdraws

\* A contribution is new in the log, and a settlement among the settled rounds.
LEMMA RoundNextGivesBack ==
    ASSUME Ledger, FirstToken, RoundNext, ~Diverts
    PROVE  contributions' # contributions \/ settled' # settled \/ GivesBack
<1>1. ASSUME NEW m, NEW amount, NEW r, Contribute(m, amount, r)
      PROVE  contributions' # contributions
  <2> DEFINE c == [member |-> m, round |-> r, amount |-> amount, timestamp |-> now,
                   on_time |-> OnTime]
  <2>1. contributions' = contributions \cup {c} /\ ~HasContributed(m, r)
    BY <1>1, Zenon DEF Contribute
  <2>2. \A d \in contributions : d.member = m /\ d.round = r => HasContributed(m, r)
    BY DEF HasContributed, Ledger, BooksInv, CopiesOfLog
  <2>3. c.member = m /\ c.round = r
    OBVIOUS
  <2> HIDE DEF c
  <2> QED
    BY <2>1, <2>2, <2>3
<1>2. ASSUME NEW m, NEW r, SchedulePayout(m, r)  PROVE GivesBack
  <2>1. UNCHANGED <<auctionVars, balance>>
    BY <1>2, Zenon DEF SchedulePayout
  <2> QED
    BY <2>1, StillGivesBack DEF auctionVars
<1>3. ASSUME NEW ms, NEW r, SettleRound(ms, r)  PROVE settled' # settled
  <2>1. \E s : settled' = Append(settled, s)
    BY <1>3, Zenon DEF SettleRound
  <2>2. settled \in Seq(Settlement)
    BY DEF Ledger, IInv, RotationTypeOK
  <2>3. Len(settled) \in Nat /\ \A s : Len(Append(settled, s)) = Len(settled) + 1
    BY <2>2
  <2> QED
    BY <2>1, <2>3
<1>4. ~BatchPays
  BY Zenon DEF Diverts
<1> QED
  BY <1>1, <1>2, <1>3, <1>4, Zenon
     DEF RoundNext, BatchPays, TriggerPayout, CheckContributionDeadline

\* But for the calls that move tokens for another reason (Diverts), a bidder's tokens
\* and deposits change against one another: whichever batches losers are refunded in,
\* however often that is called and whichever bids are added meanwhile, each deposit
\* goes back once and to the one who made it (auction_bid, refund_losing_bids).
THEOREM DepositsComeBack == Spec /\ [][~Diverts]_vars => RefundsReturnDeposits
<1>1. ASSUME Init  PROVE FirstToken
  BY <1>1 DEF Init, FirstToken
<1>2. ASSUME Ledger, FirstToken, [Next]_vars, [~Diverts]_vars  PROVE FirstToken'
  <2>1. CASE UNCHANGED vars
    BY <1>2, <2>1 DEF vars, FirstToken
  <2>2. CASE Next /\ ~Diverts
    BY <1>2, <2>2, NextKeepsToken DEF Ledger
  <2> QED
    BY <1>2, <2>1, <2>2
<1>3. ASSUME Ledger, FirstToken, [Next]_vars, [~Diverts]_vars
      PROVE  [contributions' = contributions /\ settled' = settled /\ BidsNow' = BidsNow =>
                \A m \in Address :
                   balance'[Token0][m] + DepositsOf(m)' = balance[Token0][m] + DepositsOf(m)]_vars
  <2> SUFFICES ASSUME Next, ~Diverts, contributions' = contributions, settled' = settled, NowBids
               PROVE  GivesBack
    BY <1>3, Zenon DEF NowBids, GivesBack
  <2>1. CASE Tick
    BY <1>3, <2>1, StillGivesBack DEF Tick, auctionVars
  <2> QED
    BY <1>3, <2>1, MemberNextGivesBack, BidNextGivesBack, AdminNextGivesBack,
       RoundNextGivesBack, Zenon DEF Next
<1> QED
  BY <1>1, <1>2, <1>3, LedgerInvariant, PTL DEF Spec, RefundsReturnDeposits

=============================================================================
