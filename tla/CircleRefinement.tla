-------------------------- MODULE CircleRefinement --------------------------
(***************************************************************************)
(* The circle implements Rosca, for every value of the constants: each     *)
(* entry point maps to one step of the club, or to none.  Beside the       *)
(* invariant of the rotation this takes that contribute, which looks a     *)
(* caller up in MemberStatus and in MemberContributed only, takes payments *)
(* of enrolled addresses and none twice.  What follows from there: the     *)
(* round books agree with their copies, strikes are earned, fees add up,   *)
(* and who has been paid is paid no more.                                  *)
(***************************************************************************)
EXTENDS CircleProofs

\* What the constant-time copies say is true of the lists they stand for.
Copies ==
    /\ member_status \in [Address -> MemberStatus \cup {"NONE"}]
    /\ \A a \in Address : member_status[a] = "ACTIVE" => IsMember(members, a)
    /\ \A r \in Rounds, a \in Address :
          a \in round_contributors[r] => <<a, r>> \in member_contributed

RInv == IInv /\ Copies

-----------------------------------------------------------------------------
(* Enrolled addresses.                                                     *)

LEMMA EnrolledIsMember ==
    ASSUME NEW a
    PROVE  a \in Addresses(DOMAIN members) <=> IsMember(members, a)
BY DEF Addresses, IsMember, MemberAt

LEMMA SameEnrolled ==
    ASSUME IInv, SameAddresses(members')
    PROVE  /\ Addresses(DOMAIN members)' = Addresses(DOMAIN members)
           /\ DOMAIN members' = DOMAIN members
           /\ \A a : IsMember(members', a) <=> IsMember(members, a)
<1>1. DOMAIN members' = DOMAIN members
  BY LenProperties DEF SameAddresses, IInv, RotationTypeOK
<1>2. \A i \in DOMAIN members : members'[i].address = members[i].address
  BY DEF SameAddresses
<1>3. Addresses(DOMAIN members)' = Addresses(DOMAIN members)
  BY <1>1, <1>2 DEF Addresses
<1>4. \A a : IsMember(members', a) <=> IsMember(members, a)
  BY <1>1, <1>2 DEF IsMember, MemberAt
<1> QED
  BY <1>1, <1>3, <1>4

LEMMA ActiveAreEnrolled == Addresses(ActiveIn(members)) \subseteq Addresses(DOMAIN members)
BY DEF Addresses, ActiveIn

\* Whatever keeps the addresses, the pots and the settlements changes at most
\* who is in standing.
LEMMA KeepingIsRestand ==
    ASSUME IInv, SameAddresses(members'), UNCHANGED <<round_contributors, settled>>,
           circle'.current_round = circle.current_round
    PROVE  Club!Restand
<1>1. Addresses(DOMAIN members)' = Addresses(DOMAIN members)
  BY SameEnrolled
<1>2. Addresses(ActiveIn(members))' \subseteq Addresses(DOMAIN members)'
  BY DEF Addresses, ActiveIn
<1>3. {settled[k].recipient : k \in DOMAIN settled}' = {settled[k].recipient : k \in DOMAIN settled}
  OBVIOUS
<1> QED
  BY <1>1, <1>2, <1>3 DEF Club!Restand

LEMMA StandingIsRestand ==
    ASSUME IInv, StandingStep
    PROVE  Club!Restand
BY KeepingIsRestand DEF StandingStep, rotation

\* Steps that keep the list of addresses and make nobody active keep the copies.
LEMMA CopiesAreKept ==
    ASSUME RInv, SameAddresses(members'), UNCHANGED <<round_contributors, member_contributed>>,
           member_status' \in [Address -> MemberStatus \cup {"NONE"}],
           \A a \in Address : member_status'[a] = "ACTIVE" => member_status[a] = "ACTIVE"
    PROVE  Copies'
<1>1. \A a : IsMember(members', a) <=> IsMember(members, a)
  BY SameEnrolled DEF RInv
<1> QED
  BY <1>1 DEF RInv, Copies

LEMMA StandingKeepsCopies ==
    ASSUME RInv, StandingStep,
           member_status' \in [Address -> MemberStatus \cup {"NONE"}],
           \A a \in Address : member_status'[a] = "ACTIVE" => member_status[a] = "ACTIVE"
    PROVE  Copies'
BY CopiesAreKept DEF StandingStep, rotation

LEMMA StandingKeepsCopiesOfStatus ==
    ASSUME RInv, StandingStep, UNCHANGED member_status
    PROVE  Copies'
BY StandingKeepsCopies DEF RInv, Copies

-----------------------------------------------------------------------------
(* Entry points after which the same addresses are enrolled.               *)

LEMMA BidNextRestands ==
    ASSUME RInv, BidNext
    PROVE  Club!Restand /\ Copies'
<1>1. ASSUME NEW a, NEW bips, NEW r, PlaceBid(a, bips, r)  PROVE UNCHANGED outsideAuction
  BY <1>1, SMT DEF PlaceBid
<1>2. ASSUME NEW r, NEW limit, RefundLosingBids(r, limit)  PROVE UNCHANGED outsideAuction
  BY <1>2, Zenon DEF RefundLosingBids
<1>3. ASSUME NEW a, NEW r, NEW config, InitDutchAuction(a, r, config)
      PROVE  UNCHANGED outsideAuction
  BY <1>3, SMT DEF InitDutchAuction
<1>4. ASSUME NEW a, NEW r, DutchAuctionBid(a, r)  PROVE UNCHANGED outsideAuction
  BY <1>4, Zenon DEF DutchAuctionBid
<1>5. ASSUME NEW a, CancelAuction(a)  PROVE UNCHANGED outsideAuction
  BY <1>5, Zenon DEF CancelAuction
<1>6. ASSUME NEW a, NEW b, NEW r, VotePayout(a, b, r)  PROVE UNCHANGED outsideAuction
  BY <1>6, Zenon DEF VotePayout
<1>7. UNCHANGED member_status
  BY <1>1, <1>2, <1>3, <1>4, <1>5, <1>6, Zenon DEF BidNext, outsideAuction, rosterVars
<1> QED
  BY <1>7, BidNextIsStanding, StandingIsRestand, StandingKeepsCopiesOfStatus, Zenon DEF RInv

LEMMA AdminNextRestands ==
    ASSUME RInv, AdminNext
    PROVE  Club!Restand /\ Copies'
<1>1. ASSUME NEW a, RaiseDispute(a) \/ ClaimBonus(a)  PROVE UNCHANGED member_status
  BY <1>1, Zenon DEF RaiseDispute, ClaimBonus, rosterVars
<1>2. ASSUME NEW a, Pause(a) \/ Unpause(a) \/ SetTreasury(a)  PROVE UNCHANGED member_status
  BY <1>2, Zenon DEF Pause, Unpause, SetTreasury, unconfigured, rosterVars
<1>3. ASSUME NEW a, NEW resolution, ResolveDispute(a, resolution)
      PROVE  UNCHANGED member_status
  BY <1>3, Zenon DEF ResolveDispute
<1>4. ASSUME NEW a, NEW amount, WithdrawTreasury(a, amount)  PROVE UNCHANGED member_status
  BY <1>4, Zenon DEF WithdrawTreasury, rosterVars
<1>5. ASSUME NEW a, NEW b, RegisterReferral(a, b)  PROVE UNCHANGED member_status
  BY <1>5, Zenon DEF RegisterReferral, rosterVars
<1>6. ASSUME NEW a, NEW r, UpdateStreak(a, r)  PROVE UNCHANGED member_status
  BY <1>6, Zenon DEF UpdateStreak, rosterVars
<1>7. ASSUME NEW a, NEW x, SetFeeBps(a, x) \/ SetAllowlist(a, x) \/ SetToken(a, x)
      PROVE  UNCHANGED member_status
  BY <1>7 DEF SetFeeBps, SetAllowlist, SetToken, unconfigured, rosterVars
<1>8. ASSUME NEW bps, ConfigureFromFactory(bps)  PROVE UNCHANGED member_status
  BY <1>8 DEF ConfigureFromFactory, unconfigured, rosterVars
<1>9. UNCHANGED member_status
  BY <1>1, <1>2, <1>3, <1>4, <1>5, <1>6, <1>7, <1>8, Zenon DEF AdminNext
<1> QED
  BY <1>9, AdminNextIsStanding, StandingIsRestand, StandingKeepsCopiesOfStatus, Zenon DEF RInv

LEMMA ExitRestands ==
    ASSUME RInv, NEW m, Exit(m)
    PROVE  Club!Restand /\ Copies'
<1>1. member_status' = [member_status EXCEPT ![m] = "EXITED"]
  BY Zenon DEF Exit
<1>2. /\ member_status' \in [Address -> MemberStatus \cup {"NONE"}]
      /\ \A a \in Address : member_status'[a] = "ACTIVE" => member_status[a] = "ACTIVE"
  BY <1>1 DEF RInv, Copies, MemberStatus
<1> QED
  BY <1>2, ExitIsStanding, StandingIsRestand, StandingKeepsCopies, Zenon DEF RInv

LEMMA ReportLateRestands ==
    ASSUME RInv, NEW late, NEW r, ReportLate(late, r)
    PROVE  Club!Restand /\ Copies'
<1>1. \/ member_status' = [member_status EXCEPT ![late] = "DEFAULTED"]
      \/ member_status' = member_status
  BY Zenon DEF ReportLate
<1>2. /\ member_status' \in [Address -> MemberStatus \cup {"NONE"}]
      /\ \A a \in Address : member_status'[a] = "ACTIVE" => member_status[a] = "ACTIVE"
  BY <1>1 DEF RInv, Copies, MemberStatus
<1> QED
  BY <1>2, ReportLateIsStanding, StandingIsRestand, StandingKeepsCopies, Zenon DEF RInv

LEMMA CancelCircleRestands ==
    ASSUME RInv, NEW m, CancelCircle(m)
    PROVE  Club!Restand /\ Copies'
<1>1. UNCHANGED member_status
  BY Zenon DEF CancelCircle, rosterVars
<1> QED
  BY <1>1, CancelCircleIsStanding, StandingIsRestand, StandingKeepsCopiesOfStatus, Zenon DEF RInv

LEMMA SchedulePayoutRestands ==
    ASSUME RInv, NEW a, NEW r, SchedulePayout(a, r)
    PROVE  Club!Restand /\ Copies'
<1>1. UNCHANGED member_status
  BY Zenon DEF SchedulePayout, rosterVars
<1> QED
  BY <1>1, SchedulePayoutIsStanding, StandingIsRestand, StandingKeepsCopiesOfStatus, Zenon
     DEF RInv

\* A batch marks positions as paid, and the club does not know of them.
LEMMA BatchPayoutRestands ==
    ASSUME RInv, NEW a, NEW recipients, NEW amounts, NEW r,
           BatchPayout(a, recipients, amounts, r)
    PROVE  Club!Restand /\ Copies'
<1> DEFINE marked == {Position(i) : i \in UNION {MemberAt(members, recipients[k]) :
                                                   k \in DOMAIN recipients}}
<1>1. /\ circle' = [circle EXCEPT !.payout_bitmap = @ \cup marked]
      /\ UNCHANGED <<rosterVars, roundVars, settled>>
  BY Zenon DEF BatchPayout
<1> HIDE DEF marked
<1>2. circle'.current_round = circle.current_round
  BY <1>1 DEF RInv, IInv, RotationTypeOK, CircleRecord
<1>3. UNCHANGED <<members, member_status, round_contributors, member_contributed, settled>>
  BY <1>1 DEF rosterVars, roundVars
<1>4. SameAddresses(members')
  BY <1>3 DEF SameAddresses, RInv, IInv, RotationTypeOK
<1>5. /\ member_status' \in [Address -> MemberStatus \cup {"NONE"}]
      /\ \A b \in Address : member_status'[b] = "ACTIVE" => member_status[b] = "ACTIVE"
  BY <1>3 DEF RInv, Copies
<1>6. /\ UNCHANGED <<round_contributors, settled>>
      /\ UNCHANGED <<round_contributors, member_contributed>>
  BY <1>3
<1> QED
  BY <1>2, <1>4, <1>5, <1>6, KeepingIsRestand, CopiesAreKept, Zenon DEF RInv

LEMMA TickRestands ==
    ASSUME RInv, Tick
    PROVE  Club!Restand /\ Copies'
<1>1. UNCHANGED member_status
  BY DEF Tick, rosterVars
<1>2. StandingStep
  <2>1. Setting
    BY BoundAssumption DEF Tick, Setting, Untouched, RInv, IInv, RotationTypeOK, rotation,
       rosterVars, roundVars, payoutVars, configVars
  <2> QED
    BY <2>1, SettingIsStanding DEF RInv
<1> QED
  BY <1>1, <1>2, StandingIsRestand, StandingKeepsCopiesOfStatus, Zenon DEF RInv

-----------------------------------------------------------------------------
(* Those who enrol.                                                        *)

LEMMA Enrollment ==
    ASSUME RInv, NEW new \in Seq(Member),
           \A j \in DOMAIN new : new[j].status = "ACTIVE" /\ ~IsMember(members, new[j].address),
           members' = members \o new,
           circle'.current_round = circle.current_round, UNCHANGED rotation,
           member_status' \in [Address -> MemberStatus \cup {"NONE"}],
           \A a \in Address : member_status'[a] = "ACTIVE" =>
              member_status[a] = "ACTIVE" \/ \E j \in DOMAIN new : new[j].address = a
    PROVE  (\E P \in SUBSET Address : Club!Enrol(P)) /\ Copies'
<1> DEFINE P == {new[j].address : j \in DOMAIN new}
<1>1. /\ members \in Seq(Member) /\ Len(members) \in Nat /\ Len(new) \in Nat
      /\ DOMAIN members = 1..Len(members) /\ DOMAIN new = 1..Len(new)
  BY LenProperties DEF RInv, IInv, RotationTypeOK
<1>2. /\ members' \in Seq(Member) /\ Len(members') = Len(members) + Len(new)
      /\ \A i \in 1..(Len(members) + Len(new)) :
            members'[i] = IF i <= Len(members) THEN members[i] ELSE new[i - Len(members)]
  BY <1>1, ConcatProperties
<1>3. DOMAIN members' = 1..(Len(members) + Len(new))
  BY <1>2, LenProperties
<1>4. \A i \in DOMAIN members : i \in DOMAIN members' /\ members'[i] = members[i]
  BY <1>1, <1>2, <1>3
<1>5. \A j \in DOMAIN new : /\ Len(members) + j \in DOMAIN members'
                            /\ members'[Len(members) + j] = new[j]
  BY <1>1, <1>2, <1>3
<1>6. \A i \in DOMAIN members' :
         \/ i \in DOMAIN members
         \/ i - Len(members) \in DOMAIN new /\ members'[i] = new[i - Len(members)]
  BY <1>1, <1>2, <1>3
<1>7. P \in SUBSET Address
  <2>1. \A j \in DOMAIN new : new[j] \in Member
    BY <1>1, ElementOfSeq
  <2> QED
    BY <2>1 DEF Member
<1>8. P \cap Addresses(DOMAIN members) = {}
  BY EnrolledIsMember
<1> HIDE DEF P
<1>9. \A j \in DOMAIN new : new[j].address \in P
  BY DEF P
<1>10. \A a \in P : \E i \in DOMAIN members' :
          members'[i].address = a /\ members'[i].status = "ACTIVE"
  <2>1. ASSUME NEW j \in DOMAIN new
        PROVE  \E i \in DOMAIN members' :
                  members'[i].address = new[j].address /\ members'[i].status = "ACTIVE"
    <3>1. /\ Len(members) + j \in DOMAIN members'
          /\ members'[Len(members) + j].address = new[j].address
          /\ members'[Len(members) + j].status = "ACTIVE"
      BY <1>5
    <3> QED
      BY <3>1
  <2>2. ASSUME NEW a \in P
        PROVE  \E i \in DOMAIN members' :
                  members'[i].address = a /\ members'[i].status = "ACTIVE"
    <3>1. PICK j \in DOMAIN new : a = new[j].address
      BY DEF P
    <3>2. PICK i \in DOMAIN members' :
             members'[i].address = new[j].address /\ members'[i].status = "ACTIVE"
      BY <2>1
    <3> QED
      BY <3>1, <3>2
  <2> QED
    BY <2>2
<1>11. Addresses(DOMAIN members)' = Addresses(DOMAIN members) \cup P
  <2>1. Addresses(DOMAIN members)' \subseteq Addresses(DOMAIN members) \cup P
    BY <1>4, <1>6, <1>9 DEF Addresses
  <2>2. Addresses(DOMAIN members) \cup P \subseteq Addresses(DOMAIN members)'
    BY <1>4, <1>10 DEF Addresses
  <2> QED
    BY <2>1, <2>2
<1>12. Addresses(ActiveIn(members))' = Addresses(ActiveIn(members)) \cup P
  <2>1. ASSUME NEW i \in DOMAIN members', members'[i].status = "ACTIVE"
        PROVE  members'[i].address \in Addresses(ActiveIn(members)) \cup P
    <3>1. CASE i \in DOMAIN members
      BY <1>4, <2>1, <3>1 DEF Addresses, ActiveIn
    <3>2. CASE i - Len(members) \in DOMAIN new /\ members'[i] = new[i - Len(members)]
      BY <1>9, <3>2
    <3> QED
      BY <1>6, <3>1, <3>2
  <2>2. Addresses(ActiveIn(members)) \cup P \subseteq Addresses(ActiveIn(members))'
    <3>1. ASSUME NEW i \in DOMAIN members, members[i].status = "ACTIVE"
          PROVE  members[i].address \in Addresses(ActiveIn(members))'
      BY <1>4, <3>1, Zenon DEF Addresses, ActiveIn
    <3>2. ASSUME NEW a \in P  PROVE a \in Addresses(ActiveIn(members))'
      <4>1. PICK i \in DOMAIN members' :
               members'[i].address = a /\ members'[i].status = "ACTIVE"
        BY <1>10
      <4> QED
        BY <4>1 DEF Addresses, ActiveIn
    <3> QED
      BY <3>1, <3>2, ZenonT(60) DEF Addresses, ActiveIn
  <2>3. Addresses(ActiveIn(members))' \subseteq Addresses(ActiveIn(members)) \cup P
    BY <2>1, ZenonT(60) DEF Addresses, ActiveIn
  <2> QED
    BY <2>2, <2>3
<1>13. UNCHANGED <<round_contributors, member_contributed, settled>>
  BY DEF rotation
<1>14. Club!Enrol(P)
  BY <1>8, <1>11, <1>12, <1>13 DEF Club!Enrol
<1>15. \A a : IsMember(members, a) \/ a \in P => IsMember(members', a)
  BY <1>4, <1>10 DEF IsMember, MemberAt
<1>16. Copies'
  BY <1>13, <1>15, <1>9, SMTT(60) DEF RInv, Copies
<1> QED
  BY <1>7, <1>14, <1>16 DEF P

LEMMA JoinEnrols ==
    ASSUME RInv, NEW m \in Address, Join(m)
    PROVE  (\E P \in SUBSET Address : Club!Enrol(P)) /\ Copies'
<1> DEFINE new == <<NewMember(m)>>
<1>1. /\ members \in Seq(Member) /\ new \in Seq(Member)
      /\ DOMAIN new = 1..1 /\ new[1].address = m /\ new[1].status = "ACTIVE"
  BY NewMemberType, LenProperties DEF RInv, IInv, RotationTypeOK, NewMember
<1>2. members' = members \o new
  BY <1>1, NewMemberType, AppendIsConcat DEF Join
<1>3. circle'.current_round = circle.current_round
  <2>1. circle.member_count + 1 \in Nat
    BY LenProperties DEF RInv, IInv, RotationTypeOK, Roster
  <2> QED
    BY <2>1, StartWhenFullStep DEF Join, RInv
<1>4. UNCHANGED rotation /\ ~IsMember(members, m)
  BY DEF Join, outsideRoster, rotation, roundVars, payoutVars
<1>5. member_status' = [member_status EXCEPT ![m] = "ACTIVE"]
  BY DEF Join
<1>6. /\ member_status' \in [Address -> MemberStatus \cup {"NONE"}]
      /\ \A a \in Address : member_status'[a] = "ACTIVE" => member_status[a] = "ACTIVE" \/ m = a
  BY <1>5 DEF RInv, Copies, MemberStatus
<1>7. \A j \in DOMAIN new : new[j].status = "ACTIVE" /\ ~IsMember(members, new[j].address)
  BY <1>1, <1>4
<1>8. \A a \in Address : member_status'[a] = "ACTIVE" =>
         member_status[a] = "ACTIVE" \/ \E j \in DOMAIN new : new[j].address = a
  BY <1>1, <1>6
<1> HIDE DEF new
<1> QED
  BY <1>1, <1>2, <1>3, <1>4, <1>6, <1>7, <1>8, Enrollment

LEMMA BatchInviteEnrols ==
    ASSUME RInv, NEW a, NEW invited \in Seq(Address), BatchInvite(a, invited)
    PROVE  (\E P \in SUBSET Address : Club!Enrol(P)) /\ Copies'
<1> DEFINE new == [i \in 1..Len(invited) |-> NewMember(invited[i])]
<1>1. Len(invited) \in Nat /\ DOMAIN invited = 1..Len(invited)
  BY LenProperties
<1>2. new \in [1..Len(invited) -> Member]
  BY <1>1, NewMemberType, ElementOfSeq
<1>3. new \in Seq(Member) /\ DOMAIN new = 1..Len(invited)
  BY <1>1, <1>2, SeqDef
<1>4. \A j \in DOMAIN new : new[j].address = invited[j] /\ new[j].status = "ACTIVE"
  BY <1>1, NewMemberType, ElementOfSeq DEF NewMember
<1>5. /\ members' = members \o new
      /\ StartWhenFull(Len(members) + Len(invited))
      /\ UNCHANGED outsideRoster
  BY DEF BatchInvite
<1>6. member_status' = [b \in Address |->
         IF \E i \in DOMAIN invited : invited[i] = b THEN "ACTIVE" ELSE member_status[b]]
  BY DEF BatchInvite
<1>7. \A j \in DOMAIN new : new[j].status = "ACTIVE" /\ ~IsMember(members, new[j].address)
  BY <1>1, <1>3, <1>4 DEF BatchInvite
<1>8. circle'.current_round = circle.current_round
  <2>1. Len(members) + Len(invited) \in Nat
    BY <1>1, LenProperties DEF RInv, IInv, RotationTypeOK
  <2> QED
    BY <1>5, <2>1, StartWhenFullStep DEF RInv
<1>9. UNCHANGED rotation
  BY <1>5 DEF outsideRoster, rotation, roundVars, payoutVars
<1>10. member_status' \in [Address -> MemberStatus \cup {"NONE"}]
  BY <1>6 DEF RInv, Copies, MemberStatus
<1>11. \A b \in Address : member_status'[b] = "ACTIVE" =>
          member_status[b] = "ACTIVE" \/ \E j \in DOMAIN new : new[j].address = b
  BY <1>1, <1>3, <1>4, <1>6
<1> HIDE DEF new
<1> QED
  BY <1>3, <1>5, <1>7, <1>8, <1>9, <1>10, <1>11, Enrollment

-----------------------------------------------------------------------------
(* Payments and awards.                                                    *)

LEMMA ContributePays ==
    ASSUME RInv, NEW m \in Address, NEW amount, NEW r \in Rounds, Contribute(m, amount, r)
    PROVE  Club!Pay(m) /\ Copies'
<1>1. /\ circle' = [circle EXCEPT !.total_fees = @ + LatePenalty(amount)]
      /\ member_contributed' = member_contributed \cup {<<m, r>>}
      /\ round_contributors' = [round_contributors EXCEPT ![r] = @ \cup {m}]
      /\ UNCHANGED <<rosterVars, payoutVars>>
  BY Zenon DEF Contribute
<1>2. member_status[m] = "ACTIVE" /\ <<m, r>> \notin member_contributed /\ r = circle.current_round
  BY Zenon DEF Contribute, HasContributed, RoundOpen
<1>3. circle'.current_round = circle.current_round
  BY <1>1 DEF RInv, IInv, RotationTypeOK, CircleRecord
<1>4. UNCHANGED <<members, member_status, settled>>
  BY <1>1 DEF rosterVars, payoutVars
<1>5. m \in Addresses(DOMAIN members) /\ m \notin round_contributors[r]
  BY <1>2, EnrolledIsMember DEF RInv, Copies
<1>6. Addresses(DOMAIN members)' = Addresses(DOMAIN members)
  BY <1>4 DEF Addresses
<1>7. Addresses(ActiveIn(members))' = Addresses(ActiveIn(members))
  BY <1>4 DEF Addresses, ActiveIn
<1>8. Club!Pay(m)
  BY <1>1, <1>2, <1>3, <1>4, <1>5, <1>6, <1>7 DEF Club!Pay
<1>9. \A q \in Rounds, a \in Address :
         a \in round_contributors'[q] => <<a, q>> \in member_contributed'
  BY <1>1 DEF RInv, Copies, IInv, RotationTypeOK
<1>10. Copies'
  BY <1>4, <1>9 DEF RInv, Copies
<1> QED
  BY <1>8, <1>10

\* A recipient is active; a round is settled when everybody active has paid or
\* when its window has closed.
LEMMA ResolveActive ==
    ASSUME NEW ms, NEW r, NEW i \in Resolve(ms, r)
    PROVE  i \in ActiveIn(ms)
<1>1. PayoutType \in {"RANDOM", "FIXED", "AUCTION", "VOTE"}
  BY ConfigAssumption DEF PayoutTypes
<1>2. CASE PayoutType = "RANDOM"
  BY <1>2, Zenon DEF Resolve, ResolveRandom
<1>3. CASE PayoutType = "FIXED"
  BY <1>3 DEF Resolve, ResolveFixed
<1>4. CASE PayoutType = "AUCTION"
  BY <1>4 DEF Resolve, ResolveAuction
<1>5. CASE PayoutType = "VOTE"
  BY <1>5 DEF Resolve, ResolveVote
<1> QED
  BY <1>1, <1>2, <1>3, <1>4, <1>5

\* ms is the list a settlement works on: with no deadline nobody was struck.
LEMMA SettleAwards ==
    ASSUME RInv, NEW ms, NEW r \in Rounds, SettleRound(ms, r), SameAddresses(ms), members' = ms,
           \A i \in DOMAIN members : ms[i].status = "ACTIVE" => members[i].status = "ACTIVE",
           Deadline = 0 => ms = members
    PROVE  \E w \in Address : Club!Award(w)
<1>1. r = circle.current_round /\ UNCHANGED round_contributors
  BY SettleEffects DEF RInv, roundVars
<1>2. PICK i \in Resolve(ms, r), net \in Int, fee \in Int, amount \in Int, charge \in Int :
         /\ circle' = CircleAfter(i, net, fee)
         /\ settled' = Append(settled, [recipient |-> ms[i].address, round |-> r,
                                        amount |-> amount, fee |-> charge])
  BY SettleEffects, Zenon DEF RInv
<1> DEFINE w == ms[i].address
           paid == [recipient |-> w, round |-> r, amount |-> amount, fee |-> charge]
<1>3. i \in ActiveIn(ms) /\ i \in DOMAIN ms /\ Unpaid(i)
  BY ResolveActive, ResolveUnpaid
<1>4. /\ DOMAIN ms = DOMAIN members /\ ms \in Seq(Member)
      /\ \A j \in DOMAIN members : ms[j].address = members[j].address
  BY LenProperties DEF SameAddresses, RInv, IInv, RotationTypeOK
<1>5. ms[i] \in Member /\ w \in Address
  <2>1. ms[i] \in Member
    BY <1>3, <1>4, ElementOfSeq, LenProperties
  <2> QED
    BY <2>1 DEF Member
<1>6. circle'.current_round = circle.current_round + 1
  <2>1. i \in DOMAIN members
    BY <1>3, <1>4
  <2>2. circle' = CircleAfter(i, net, fee)
    BY <1>2
  <2> QED
    BY <2>1, <2>2, CircleAfterFields DEF RInv
<1>7. paid \in Settlement /\ paid.recipient = w
  BY <1>5, Zenon DEF Settlement
<1> HIDE DEF paid
<1>8. /\ settled \in Seq(Settlement) /\ Len(settled) \in Nat /\ DOMAIN settled = 1..Len(settled)
      /\ settled' = Append(settled, paid)
  BY <1>2, LenProperties DEF RInv, IInv, RotationTypeOK, paid
<1>9. /\ settled' \in Seq(Settlement) /\ Len(settled') = Len(settled) + 1
      /\ \A k \in 1..Len(settled) : settled'[k] = settled[k]
      /\ settled'[Len(settled) + 1] = paid
  BY <1>7, <1>8, AppendProperties
<1>10. DOMAIN settled' = 1..(Len(settled) + 1)
  BY <1>9, LenProperties
<1>11. {settled[k].recipient : k \in DOMAIN settled}'
          = {settled[k].recipient : k \in DOMAIN settled} \cup {w}
  <2>1. \A k \in DOMAIN settled : k \in DOMAIN settled' /\ settled'[k] = settled[k]
    BY <1>8, <1>9, <1>10
  <2>2. \A k \in DOMAIN settled' : k \in DOMAIN settled \/ settled'[k].recipient = w
    BY <1>7, <1>8, <1>9, <1>10
  <2>3. \E k \in DOMAIN settled' : settled'[k].recipient = w
    BY <1>7, <1>8, <1>9, <1>10
  <2> QED
    BY <2>1, <2>2, <2>3
<1>12. w \notin {settled[k].recipient : k \in DOMAIN settled}
  <2>1. ASSUME NEW k \in DOMAIN settled, settled[k].recipient = w  PROVE FALSE
    <3>1. PICK j \in DOMAIN members : members[j].address = w /\ ~Unpaid(j)
      BY <2>1 DEF RInv, IInv, Settlements
    <3>2. j = i
      BY <1>3, <1>4, <3>1 DEF RInv, IInv, Roster
    <3> QED
      BY <1>3, <3>1, <3>2
  <2> QED
    BY <2>1
<1>13. Addresses(DOMAIN members)' = Addresses(DOMAIN members)
  BY SameEnrolled DEF RInv
<1>14. /\ Addresses(ActiveIn(members))' \in SUBSET Addresses(ActiveIn(members))
       /\ w \in Addresses(ActiveIn(members))'
  BY <1>3, <1>4 DEF Addresses, ActiveIn
<1>15. Deadline = 0 =>
          Addresses(ActiveIn(members)) \subseteq round_contributors[circle.current_round]
  <2>1. WindowClosed \/ Awaiting(ms, r) = {}
    BY Zenon DEF SettleRound
  <2>2. Deadline = 0 => ~WindowClosed
    BY DEF WindowClosed
  <2> QED
    BY <1>1, <2>1, <2>2 DEF Awaiting, Addresses, ActiveIn
<1>16. Club!Award(w)
  BY <1>1, <1>6, <1>11, <1>12, <1>13, <1>14, <1>15 DEF Club!Award
<1> QED
  BY <1>5, <1>16

LEMMA TriggerPayoutAwards ==
    ASSUME RInv, NEW a, NEW r \in Rounds, TriggerPayout(a, r)
    PROVE  (\E w \in Address : Club!Award(w)) /\ Copies'
<1>1. SettleRound(members, r) /\ UNCHANGED rosterVars
  BY Zenon DEF TriggerPayout
<1>2. UNCHANGED <<members, member_status>>
  BY <1>1 DEF rosterVars
<1>3. SameAddresses(members) /\ SameAddresses(members')
  BY <1>2 DEF SameAddresses, RInv, IInv, RotationTypeOK
<1>4. UNCHANGED <<round_contributors, member_contributed>>
  BY <1>1, SettleEffects DEF RInv, roundVars
<1>5. \E w \in Address : Club!Award(w)
  BY <1>1, <1>2, <1>3, SettleAwards
<1>6. Copies'
  BY <1>2, <1>4 DEF RInv, Copies
<1> QED
  BY <1>5, <1>6

LEMMA CheckContributionDeadlineAwards ==
    ASSUME RInv, NEW r \in Rounds, CheckContributionDeadline(r)
    PROVE  (\E w \in Address : Club!Award(w)) /\ Copies'
<1>1. /\ SettleRound(Swept(r), r) /\ members' = Swept(r)
      /\ member_status' = StatusAfterSweep(r)
      /\ WindowClosed
  BY Zenon DEF CheckContributionDeadline
<1>2. SameAddresses(Swept(r))
  BY SweptKeepsAddresses DEF RInv
<1>3. \A i \in DOMAIN members : Swept(r)[i].status = "ACTIVE" => members[i].status = "ACTIVE"
  <2>1. ASSUME NEW i \in DOMAIN members, i \in Awaiting(members, r)
        PROVE  members[i].status = "ACTIVE"
    BY <2>1 DEF Awaiting, ActiveIn
  <2>2. ASSUME NEW i \in DOMAIN members, i \notin Awaiting(members, r)
        PROVE  Swept(r)[i] = members[i]
    BY <2>2, Zenon DEF Swept
  <2> QED
    BY <2>1, <2>2
<1>4. Deadline # 0
  BY <1>1 DEF WindowClosed
<1>5. \E w \in Address : Club!Award(w)
  BY <1>1, <1>2, <1>3, <1>4, SettleAwards
<1>6. /\ member_status' \in [Address -> MemberStatus \cup {"NONE"}]
      /\ \A a \in Address : member_status'[a] = "ACTIVE" => member_status[a] = "ACTIVE"
  BY <1>1 DEF StatusAfterSweep, RInv, Copies, MemberStatus
<1>7. UNCHANGED <<round_contributors, member_contributed>>
  BY <1>1, SettleEffects DEF RInv, roundVars
<1>8. Copies'
  BY <1>1, <1>2, <1>6, <1>7, CopiesAreKept
<1> QED
  BY <1>5, <1>8

-----------------------------------------------------------------------------
(* The refinement.                                                         *)

LEMMA MemberNextRefines ==
    ASSUME RInv, MemberNext
    PROVE  Club!Next /\ Copies'
BY JoinEnrols, BatchInviteEnrols, ExitRestands, CancelCircleRestands, ReportLateRestands,
   InvitationTypes, Zenon DEF MemberNext, Club!Next

LEMMA RoundNextRefines ==
    ASSUME RInv, RoundNext
    PROVE  Club!Next /\ Copies'
BY ContributePays, TriggerPayoutAwards, SchedulePayoutRestands, BatchPayoutRestands,
   CheckContributionDeadlineAwards, Zenon DEF RoundNext, Club!Next

LEMMA NextRefines ==
    ASSUME RInv, [Next]_vars
    PROVE  [Club!Next]_(Club!vars) /\ RInv'
<1>1. CASE UNCHANGED vars
  <2>1. UNCHANGED <<members, member_status, round_contributors, member_contributed, settled,
                    circle>>
    BY <1>1 DEF vars, rosterVars, roundVars, payoutVars
  <2>2. UNCHANGED Club!vars
    BY <2>1 DEF Club!vars, Addresses, ActiveIn
  <2>3. Copies'
    BY <2>1 DEF RInv, Copies
  <2> QED
    BY <1>1, <2>2, <2>3, NextKeepsIInv DEF RInv
<1>2. CASE Next
  <2>1. Club!Next /\ Copies'
    <3>1. BidNext \/ AdminNext \/ Tick => Club!Restand /\ Copies'
      BY BidNextRestands, AdminNextRestands, TickRestands, Zenon
    <3> QED
      BY <1>2, <3>1, MemberNextRefines, RoundNextRefines, Zenon DEF Next, Club!Next
  <2> QED
    BY <1>2, <2>1, NextKeepsIInv DEF RInv
<1> QED
  BY <1>1, <1>2

LEMMA InitRefines ==
    ASSUME Init
    PROVE  Club!Init /\ RInv
<1>1. /\ members = << >> /\ member_status = [a \in Address |-> "NONE"] /\ settled = << >>
      /\ round_contributors = [r \in Rounds |-> {}] /\ member_contributed = {}
  BY Zenon DEF Init
<1>2. circle.current_round = 0
  BY DEF Init
<1>3. Addresses(DOMAIN members) = {} /\ Addresses(ActiveIn(members)) = {}
  BY <1>1 DEF Addresses, ActiveIn
<1>4. Club!Init
  BY <1>1, <1>2, <1>3 DEF Club!Init
<1>5. Copies
  BY <1>1 DEF Copies
<1> QED
  BY <1>4, <1>5, InitIInv DEF RInv

\* The circle contract implements the savings club: whatever is called in whatever
\* order, addresses enrol before they pay, pay into the pot of the round in
\* progress once, and every round's pot goes to somebody in standing who had none
\* before; without a contribution deadline, not before all in standing have paid
\* (join, batch_invite, contribute, trigger_payout, check_contribution_deadline).
THEOREM CircleImplementsRosca == Spec => IsRosca
<1>1. Init => Club!Init /\ RInv
  BY InitRefines
<1>2. RInv /\ [Next]_vars => [Club!Next]_(Club!vars) /\ RInv'
  BY NextRefines
<1> QED
  BY <1>1, <1>2, PTL DEF Spec, IsRosca, Club!Spec

-----------------------------------------------------------------------------
(* What the club promises holds of the circle that implements it.          *)

LEMMA AwardKeepsCount ==
    ASSUME Club!OneRoundPerWinner, NEW w, Club!Award(w)
    PROVE  Club!OneRoundPerWinner'
<1> DEFINE winners == {settled[k].recipient : k \in DOMAIN settled}
           roster == Addresses(DOMAIN members)
           standing == Addresses(ActiveIn(members))
<1>1. /\ winners' = winners \cup {w} /\ w \notin winners /\ w \in standing
      /\ circle.current_round' = circle.current_round + 1
      /\ roster' = roster /\ standing' \subseteq standing
  BY DEF Club!Award
<1>2. /\ IsFiniteSet(winners) /\ winners \subseteq roster /\ standing \subseteq roster
      /\ circle.current_round = Cardinality(winners)
  BY DEF Club!OneRoundPerWinner, Club!IsFiniteSet, Club!Cardinality, IsFiniteSet, Cardinality
<1> HIDE DEF winners, roster, standing
<1>3. IsFiniteSet(winners') /\ Cardinality(winners') = Cardinality(winners) + 1
  BY <1>1, <1>2, FS_AddElement
<1>4. /\ IsFiniteSet(winners') /\ winners' \subseteq roster' /\ standing' \subseteq roster'
      /\ circle.current_round' = Cardinality(winners')
  BY <1>1, <1>2, <1>3
<1> QED
  BY <1>4 DEF Club!OneRoundPerWinner, Club!IsFiniteSet, Club!Cardinality, IsFiniteSet,
              Cardinality, winners, roster, standing

\* In every state there were as many rounds as people have been awarded a pot,
\* and all of those enrolled: pots are not awarded to outsiders, nor twice, and a
\* club ends at the latest with as many rounds as people.
THEOREM ClubRoundsAreWinners == Club!Spec => []Club!OneRoundPerWinner
<1>1. Club!Init => Club!OneRoundPerWinner
  BY FS_EmptySet
     DEF Club!Init, Club!OneRoundPerWinner, Club!IsFiniteSet, Club!Cardinality, IsFiniteSet,
         Cardinality
<1>2. Club!OneRoundPerWinner /\ [Club!Next]_(Club!vars) => Club!OneRoundPerWinner'
  <2> SUFFICES ASSUME Club!OneRoundPerWinner, [Club!Next]_(Club!vars)
               PROVE  Club!OneRoundPerWinner'
    OBVIOUS
  <2>1. ASSUME NEW P, Club!Enrol(P)  PROVE Club!OneRoundPerWinner'
    BY <2>1 DEF Club!Enrol, Club!OneRoundPerWinner
  <2>2. CASE Club!Restand
    BY <2>2 DEF Club!Restand, Club!OneRoundPerWinner
  <2>3. ASSUME NEW p, Club!Pay(p)  PROVE Club!OneRoundPerWinner'
    BY <2>3 DEF Club!Pay, Club!OneRoundPerWinner
  <2>4. CASE UNCHANGED Club!vars
    BY <2>4 DEF Club!vars, Club!OneRoundPerWinner
  <2> QED
    BY <2>1, <2>2, <2>3, <2>4, AwardKeepsCount DEF Club!Next
<1> QED
  BY <1>1, <1>2, PTL DEF Club!Spec

\* So a circle has settled as many rounds as it has paid different members,
\* whatever its disputes, batches, sweeps and settings were: the round counter
\* never runs ahead of the recipients (trigger_payout_internal).
THEOREM RoundsAreWinners == Spec => []Club!OneRoundPerWinner
BY CircleImplementsRosca, ClubRoundsAreWinners DEF IsRosca

-----------------------------------------------------------------------------
(* The books of the rotation: the contribution log and its constant-time   *)
(* copies, which one entry point writes, and the settlements.              *)

\* What is neither a payment nor a settlement leaves the books alone.
Bookless ==
    /\ UNCHANGED <<roundVars, settled>>
    /\ circle'.current_round = circle.current_round

LEMMA ContributeKeepsRound ==
    ASSUME IInv, NEW m, NEW amount, NEW r, Contribute(m, amount, r)
    PROVE  circle'.current_round = circle.current_round
<1>1. circle' = [circle EXCEPT !.total_fees = @ + LatePenalty(amount)]
  BY Zenon DEF Contribute
<1> QED
  BY <1>1 DEF IInv, RotationTypeOK, CircleRecord

LEMMA RoundNextBooks ==
    ASSUME IInv, RoundNext
    PROVE  \/ Bookless
           \/ \E m \in Address, amount \in Amounts, r \in Rounds : Contribute(m, amount, r)
           \/ \E r \in Rounds : \E ms : Closing(ms, r)
<1>1. circle \in CircleRecord
  BY DEF IInv, RotationTypeOK
<1>2. ASSUME NEW m, NEW r, SchedulePayout(m, r)  PROVE Bookless
  <2>1. UNCHANGED <<circle, roundVars, payoutVars>>
    BY <1>2, Zenon DEF SchedulePayout
  <2> QED
    BY <2>1 DEF Bookless, payoutVars
<1>3. ASSUME NEW m, NEW recipients, NEW amounts, NEW r, BatchPayout(m, recipients, amounts, r)
      PROVE  Bookless
  <2>1. PICK bits : /\ circle' = [circle EXCEPT !.payout_bitmap = bits]
                    /\ UNCHANGED <<settled, roundVars>>
    BY <1>3, Zenon DEF BatchPayout
  <2> QED
    BY <1>1, <2>1 DEF Bookless, CircleRecord
<1>4. ASSUME NEW m, NEW r \in Rounds, TriggerPayout(m, r)  PROVE Closing(members, r)
  <2>1. SettleRound(members, r)
    BY <1>4, Zenon DEF TriggerPayout
  <2>2. SameAddresses(members)
    BY DEF SameAddresses, IInv, RotationTypeOK
  <2> QED
    BY <2>1, <2>2, SettlementCloses
<1>5. ASSUME NEW r \in Rounds, CheckContributionDeadline(r)  PROVE Closing(Swept(r), r)
  <2>1. SettleRound(Swept(r), r)
    BY <1>5, Zenon DEF CheckContributionDeadline
  <2> QED
    BY <2>1, SweptKeepsAddresses, SettlementCloses
<1> QED
  BY <1>2, <1>3, <1>4, <1>5, Zenon DEF RoundNext

LEMMA NextBooks ==
    ASSUME IInv, [Next]_vars
    PROVE  \/ Bookless
           \/ \E m \in Address, amount \in Amounts, r \in Rounds : Contribute(m, amount, r)
           \/ \E r \in Rounds : \E ms : Closing(ms, r)
<1>1. CASE UNCHANGED vars \/ Tick
  BY <1>1 DEF vars, Tick, Bookless, payoutVars
<1>2. CASE MemberNext
  BY <1>2, MemberNextFrame DEF Bookless, outsideRoster, payoutVars, SameProgress
<1>3. CASE BidNext
  BY <1>3, BidNextFrame DEF Bookless, outsideAuction, payoutVars
<1>4. CASE AdminNext
  BY <1>4, AdminNextFrame DEF Bookless, outsideAdmin, payoutVars, SameProgress
<1> QED
  BY <1>1, <1>2, <1>3, <1>4, RoundNextBooks, Zenon DEF Next

Log(r) == {c \in contributions : c.round = r}

\* A member is in the log once for a round, and only for rounds that have begun.
LogOK ==
    /\ IsFiniteSet(contributions)
    /\ \A c, d \in contributions : c.member = d.member /\ c.round = d.round => c = d
    /\ \A c \in contributions : c.round <= circle.current_round

\* The parts of CachesAgree, round by round.
CopiesOfLog ==
    /\ \A r \in Rounds : round_contributors[r] = {c.member : c \in Log(r)}
    /\ \A r \in Rounds : round_total[r] = ContributionAmount * Cardinality(round_contributors[r])
    /\ member_contributed = {<<c.member, c.round>> : c \in contributions}

BooksInv == LogOK /\ CopiesOfLog /\ SettledRoundsAreClosed

\* As nobody is in the log twice for a round, entries and contributors are as many.
LEMMA OneEntryPerContributor ==
    ASSUME LogOK, NEW r
    PROVE  /\ IsFiniteSet({c.member : c \in Log(r)})
           /\ Cardinality({c.member : c \in Log(r)}) = Cardinality(Log(r))
           /\ Cardinality(Log(r)) \in Nat
<1> DEFINE who == [c \in Log(r) |-> c.member]
           S == {c.member : c \in Log(r)}
<1>1. IsFiniteSet(Log(r))
  BY FS_Subset DEF Log, LogOK
<1>2. who \in Surjection(Log(r), S)
  BY DEF Surjection
<1>3. \A c, d \in Log(r) : who[c] = who[d] => c = d
  BY DEF Log, LogOK
<1>4. who \in Injection(Log(r), S)
  BY <1>3 DEF Injection, IsInjective
<1> HIDE DEF who, S
<1>5. IsFiniteSet(S)
  BY <1>1, <1>2, FS_Surjection
<1>6. Cardinality(Log(r)) = Cardinality(S)
  BY <1>1, <1>2, <1>4, <1>5, FS_Injection, FS_Surjection
<1> QED
  BY <1>1, <1>5, <1>6, FS_CardinalityType DEF S

LEMMA BooksAgree ==
    ASSUME BooksInv
    PROVE  CachesAgree
<1>1. \A r \in Rounds : Cardinality(Log(r)) = Cardinality(round_contributors[r])
  BY OneEntryPerContributor DEF BooksInv, CopiesOfLog
<1> QED
  BY <1>1 DEF BooksInv, CopiesOfLog, CachesAgree, Log

LEMMA BooklessKeepsBooks ==
    ASSUME BooksInv, Bookless
    PROVE  BooksInv'
BY DEF BooksInv, LogOK, CopiesOfLog, SettledRoundsAreClosed, Bookless, roundVars, Log

\* One payment: a new entry of the round in progress, of a member that has none.
LEMMA ContributeKeepsBooks ==
    ASSUME IInv, BooksInv, NEW m \in Address, NEW amount, NEW r \in Rounds,
           Contribute(m, amount, r)
    PROVE  BooksInv'
<1> DEFINE entry == [member |-> m, round |-> r, amount |-> amount, timestamp |-> now,
                     on_time |-> OnTime]
<1>1. /\ contributions' = contributions \cup {entry}
      /\ member_contributed' = member_contributed \cup {<<m, r>>}
      /\ round_total' = [round_total EXCEPT ![r] = @ + ContributionAmount]
      /\ round_contributors' = [round_contributors EXCEPT ![r] = @ \cup {m}]
      /\ UNCHANGED payoutVars
  <2>1. amount = ContributionAmount
    BY Zenon DEF Contribute
  <2> QED
    BY <2>1, Zenon DEF Contribute
<1>2. r = circle.current_round /\ <<m, r>> \notin member_contributed
  BY Zenon DEF Contribute, RoundOpen, HasContributed
<1>3. entry.member = m /\ entry.round = r
  OBVIOUS
<1> HIDE DEF entry
<1>4. circle'.current_round = r /\ r \in Nat
  BY <1>2, ContributeKeepsRound DEF Rounds
<1>5. UNCHANGED settled
  BY <1>1 DEF payoutVars
<1>6. \A c \in contributions : ~(c.member = m /\ c.round = r)
  BY <1>2 DEF BooksInv, CopiesOfLog
<1>7. LogOK'
  <2>1. IsFiniteSet(contributions')
    BY <1>1, FS_AddElement DEF BooksInv, LogOK
  <2>2. \A c, d \in contributions' : c.member = d.member /\ c.round = d.round => c = d
    BY <1>1, <1>3, <1>6 DEF BooksInv, LogOK
  <2>3. \A c \in contributions' : c.round <= r
    BY <1>1, <1>2, <1>3, <1>4 DEF BooksInv, LogOK
  <2> QED
    BY <1>4, <2>1, <2>2, <2>3 DEF LogOK
<1>8. /\ round_total' \in [Rounds -> Nat] /\ round_total \in [Rounds -> Nat]
      /\ round_contributors \in [Rounds -> SUBSET Address]
      /\ \A q \in Rounds \ {r} : round_total'[q] = round_total[q]
      /\ round_total'[r] = round_total[r] + ContributionAmount
      /\ \A q \in Rounds \ {r} : round_contributors'[q] = round_contributors[q]
      /\ round_contributors'[r] = round_contributors[r] \cup {m}
  BY <1>1, ConfigAssumption DEF IInv, RotationTypeOK
<1>9. ASSUME NEW q \in Rounds
      PROVE  round_contributors'[q] = {c.member : c \in {d \in contributions' : d.round = q}}
  <2>1. round_contributors[q] = {c.member : c \in {d \in contributions : d.round = q}}
    BY DEF BooksInv, CopiesOfLog, Log
  <2>2. CASE q = r
    BY <1>1, <1>3, <1>8, <2>1, <2>2
  <2>3. CASE q # r
    BY <1>1, <1>3, <1>8, <2>1, <2>3
  <2> QED
    BY <2>2, <2>3
<1>10. ASSUME NEW q \in Rounds
       PROVE  round_total'[q] = ContributionAmount * Cardinality(round_contributors'[q])
  <2>1. round_total[q] = ContributionAmount * Cardinality(round_contributors[q])
    BY DEF BooksInv, CopiesOfLog
  <2>2. CASE q = r
    <3>1. IsFiniteSet(round_contributors[r]) /\ Cardinality(round_contributors[r]) \in Nat
      BY OneEntryPerContributor, FS_CardinalityType DEF BooksInv, CopiesOfLog
    <3>2. m \notin round_contributors[r]
      BY <1>6 DEF BooksInv, CopiesOfLog, Log
    <3>3. Cardinality(round_contributors'[r]) = Cardinality(round_contributors[r]) + 1
      BY <1>8, <3>1, <3>2, FS_AddElement
    <3>4. ASSUME NEW n \in Nat
          PROVE  ContributionAmount * (n + 1) = ContributionAmount * n + ContributionAmount
      BY ConfigAssumption
    <3> QED
      BY <1>8, <2>1, <2>2, <3>1, <3>3, <3>4
  <2>3. CASE q # r
    BY <1>8, <2>1, <2>3
  <2> QED
    BY <2>2, <2>3
<1>11. member_contributed' = {<<c.member, c.round>> : c \in contributions'}
  BY <1>1, <1>3 DEF BooksInv, CopiesOfLog
<1>12. CopiesOfLog'
  BY <1>9, <1>10, <1>11 DEF CopiesOfLog, Log
<1>13. ASSUME NEW k \in DOMAIN settled
       PROVE  settled[k].amount + settled[k].fee \in {0, round_total'[k - 1]}
  <2>1. DOMAIN settled = 1..r
    BY <1>2, LenProperties DEF IInv, RotationTypeOK, Settlements
  <2>2. k - 1 \in Rounds \ {r}
    BY <1>4, <2>1, ConfigAssumption DEF Rounds
  <2> QED
    BY <1>8, <2>2 DEF BooksInv, SettledRoundsAreClosed
<1>14. \A q \in Rounds : q > r => round_total'[q] = 0
  <2>1. \A q \in Rounds : q > r => q \in Rounds \ {r}
    BY <1>4
  <2> QED
    BY <1>2, <1>8, <2>1 DEF BooksInv, SettledRoundsAreClosed
<1>15. SettledRoundsAreClosed'
  BY <1>4, <1>5, <1>13, <1>14 DEF SettledRoundsAreClosed
<1> QED
  BY <1>7, <1>12, <1>15 DEF BooksInv

LEMMA ClosingKeepsBooks ==
    ASSUME IInv, BooksInv, NEW ms, NEW r \in Rounds, Closing(ms, r)
    PROVE  BooksInv'
<1>1. /\ r = circle.current_round /\ circle'.current_round = r + 1
      /\ UNCHANGED <<contributions, round_contributors, round_total, member_contributed>>
  BY DEF Closing, roundVars
<1>2. PICK i \in DOMAIN members, amount \in Int, charge \in Int :
         Settles(ms, r, i, amount, charge)
  BY Zenon DEF Closing
<1>3. r \in Nat /\ \A q \in Rounds : q \in Nat
  BY RoundTypes
<1>4. LogOK'
  <2>1. \A c \in contributions : c.round \in Nat /\ c.round <= r
    BY <1>1, <1>3 DEF BooksInv, LogOK, IInv, RotationTypeOK, Contribution
  <2>2. \A c \in contributions : c.round <= r + 1
    BY <1>3, <2>1
  <2> QED
    BY <1>1, <2>2 DEF BooksInv, LogOK
<1>5. CopiesOfLog'
  BY <1>1 DEF BooksInv, CopiesOfLog, Log
<1>6. ASSUME NEW k \in DOMAIN settled'
      PROVE  settled'[k].amount + settled'[k].fee \in {0, round_total[k - 1]}
  <2>1. \/ k \in DOMAIN settled /\ settled'[k] = settled[k]
        \/ k - 1 = r /\ settled'[k].amount + settled'[k].fee \in {0, round_total[r]}
    BY <1>1, <1>2, SettledGrows
  <2> QED
    BY <2>1 DEF BooksInv, SettledRoundsAreClosed
<1>7. \A q \in Rounds : q > r + 1 => round_total[q] = 0
  BY <1>1, <1>3 DEF BooksInv, SettledRoundsAreClosed
<1>8. SettledRoundsAreClosed'
  BY <1>1, <1>6, <1>7 DEF SettledRoundsAreClosed
<1> QED
  BY <1>4, <1>5, <1>8 DEF BooksInv

LEMMA BooksInvariant == Spec => []BooksInv
<1>1. ASSUME Init  PROVE BooksInv
  <2>1. /\ contributions = {} /\ settled = << >> /\ member_contributed = {}
        /\ round_contributors = [r \in Rounds |-> {}] /\ round_total = [r \in Rounds |-> 0]
    BY <1>1, Zenon DEF Init
  <2>2. LogOK
    BY <2>1, FS_EmptySet DEF LogOK
  <2>3. Cardinality({}) = 0 /\ ContributionAmount * 0 = 0
    BY FS_EmptySet, ConfigAssumption
  <2>4. CopiesOfLog
    BY <2>1, <2>3 DEF CopiesOfLog, Log
  <2>5. SettledRoundsAreClosed
    BY <2>1 DEF SettledRoundsAreClosed
  <2> QED
    BY <2>2, <2>4, <2>5 DEF BooksInv
<1>2. IInv /\ BooksInv /\ [Next]_vars => BooksInv'
  BY NextBooks, BooklessKeepsBooks, ContributeKeepsBooks, ClosingKeepsBooks, Zenon
<1> QED
  BY <1>1, <1>2, RotationInvariant, PTL DEF Spec

\* Whatever happens to members and rounds, the contributor lists, totals and flags
\* that payouts and payments trust say what the contribution log says, where
\* nobody is twice for a round (contribute).
THEOREM CachesAlwaysAgree == Spec => []CachesAgree
<1>1. BooksInv => CachesAgree
  BY BooksAgree
<1> QED
  BY <1>1, BooksInvariant, PTL

\* The pool that a settlement divided is the pool of that round for good, and no
\* round ahead has one (trigger_payout_internal, contribute).
THEOREM SettledRoundsStayClosed == Spec => []SettledRoundsAreClosed
<1>1. BooksInv => SettledRoundsAreClosed
  BY DEF BooksInv
<1> QED
  BY <1>1, BooksInvariant, PTL

-----------------------------------------------------------------------------
(* Strikes.                                                                *)

StrikeInv ==
    /\ round_strikes \in [Rounds -> [Address -> Nat]]
    /\ StrikesAreEarned

\* Nobody leaves the member list: an exit and a default change a status.
LEMMA MembersStay ==
    ASSUME RInv, [Next]_vars
    PROVE  \A a : IsMember(members, a) => IsMember(members', a)
<1>1. [Club!Next]_(Club!vars)
  BY NextRefines
<1>2. Addresses(DOMAIN members) \subseteq Addresses(DOMAIN members)'
  BY <1>1 DEF Club!Next, Club!vars, Club!Enrol, Club!Restand, Club!Pay, Club!Award
<1>3. \A a : a \in Addresses(DOMAIN members)' <=> IsMember(members', a)
  BY DEF Addresses, IsMember, MemberAt
<1> QED
  BY <1>2, <1>3, EnrolledIsMember

\* Strikes are recorded by a report and by a sweep; payments extend the log.
LEMMA NextStrikes ==
    ASSUME IInv, [Next]_vars
    PROVE  \/ UNCHANGED <<round_strikes, contributions>>
           \/ \E m \in Address, r \in Rounds : ReportLate(m, r)
           \/ \E r \in Rounds : CheckContributionDeadline(r)
           \/ \E m \in Address, amount \in Amounts, r \in Rounds : Contribute(m, amount, r)
<1>1. CASE UNCHANGED vars \/ Tick
  BY <1>1 DEF vars, Tick, rosterVars, roundVars
<1>2. CASE MemberNext
  <2>1. UNCHANGED contributions
    BY <1>2, MemberNextFrame DEF outsideRoster, roundVars
  <2>2. ASSUME NEW m, Join(m) \/ Exit(m) \/ CancelCircle(m)  PROVE UNCHANGED round_strikes
    BY <2>2, Zenon DEF Join, Exit, CancelCircle, rosterVars
  <2>3. ASSUME NEW m, NEW invited, BatchInvite(m, invited)  PROVE UNCHANGED round_strikes
    BY <2>3, Zenon DEF BatchInvite
  <2> QED
    BY <1>2, <2>1, <2>2, <2>3, Zenon DEF MemberNext
<1>3. CASE BidNext
  BY <1>3, BidNextFrame DEF outsideAuction, rosterVars, roundVars
<1>4. CASE AdminNext
  BY <1>4, AdminNextFrame DEF outsideAdmin, roundVars
<1>5. CASE RoundNext
  <2>1. ASSUME NEW m, NEW r, TriggerPayout(m, r)  PROVE UNCHANGED <<round_strikes, contributions>>
    <3>1. SettleRound(members, r) /\ UNCHANGED rosterVars
      BY <2>1, Zenon DEF TriggerPayout
    <3>2. UNCHANGED roundVars
      BY <3>1, Zenon DEF SettleRound
    <3> QED
      BY <3>1, <3>2 DEF rosterVars, roundVars
  <2>2. ASSUME NEW m, NEW r, SchedulePayout(m, r)  PROVE UNCHANGED <<round_strikes, contributions>>
    BY <2>2, Zenon DEF SchedulePayout, rosterVars, roundVars
  <2>3. ASSUME NEW m, NEW recipients, NEW amounts, NEW r, BatchPayout(m, recipients, amounts, r)
        PROVE  UNCHANGED <<round_strikes, contributions>>
    BY <2>3, Zenon DEF BatchPayout, rosterVars, roundVars
  <2> QED
    BY <1>5, <2>1, <2>2, <2>3, Zenon DEF RoundNext
<1> QED
  BY <1>1, <1>2, <1>3, <1>4, <1>5, Zenon DEF Next

\* New strikes are earned when they fall on members without a timely entry.
LEMMA EarnedStrikesKeep ==
    ASSUME RInv, RInv', [Next]_vars, StrikeInv, UNCHANGED contributions,
           round_strikes' \in [Rounds -> [Address -> Nat]],
           \A r \in Rounds, m \in Address :
              \/ round_strikes'[r][m] = round_strikes[r][m]
              \/ round_strikes'[r][m] = 0
              \/ /\ IsMember(members, m)
                 /\ \A c \in contributions : c.member = m /\ c.round = r => ~c.on_time
    PROVE  StrikeInv'
<1>1. ASSUME NEW r \in Rounds, NEW m \in Address, round_strikes'[r][m] > 0
      PROVE  /\ IsMember(members', m)
             /\ \A c \in contributions : c.member = m /\ c.round = r => ~c.on_time
  <2>1. /\ IsMember(members, m)
        /\ \A c \in contributions : c.member = m /\ c.round = r => ~c.on_time
    BY <1>1 DEF StrikeInv, StrikesAreEarned
  <2> QED
    BY <2>1, MembersStay
<1> QED
  BY <1>1, Zenon DEF StrikeInv, StrikesAreEarned

LEMMA ReportLateKeepsStrikes ==
    ASSUME RInv, RInv', BooksInv, StrikeInv, [Next]_vars,
           NEW late \in Address, NEW r \in Rounds, ReportLate(late, r)
    PROVE  StrikeInv'
<1> DEFINE n == Cardinality(MemberAt(members, late))
<1>1. /\ round_strikes' = [round_strikes EXCEPT ![r][late] = @ + n]
      /\ UNCHANGED outsideRoster
  BY Zenon DEF ReportLate
<1>2. PICK c \in contributions : c.member = late /\ c.round = r /\ ~c.on_time
  BY Zenon DEF ReportLate
<1>3. UNCHANGED contributions
  BY <1>1 DEF outsideRoster, roundVars
<1>4. \A d \in contributions : d.member = late /\ d.round = r => ~d.on_time
  BY <1>2 DEF BooksInv, LogOK
<1>5. n \in Nat /\ (n # 0 => IsMember(members, late))
  <2>1. DOMAIN members = 1..Len(members) /\ Len(members) \in Nat
    BY LenProperties DEF RInv, IInv, RotationTypeOK
  <2>2. IsFiniteSet(DOMAIN members)
    BY <2>1, FS_Interval
  <2>3. IsFiniteSet(MemberAt(members, late))
    BY <2>2, FS_Subset DEF MemberAt
  <2> QED
    BY <2>3, FS_CardinalityType, FS_EmptySet DEF IsMember
<1> HIDE DEF n
<1>6. /\ round_strikes \in [Rounds -> [Address -> Nat]]
      /\ round_strikes' \in [Rounds -> [Address -> Nat]]
      /\ \A q \in Rounds, m \in Address :
            round_strikes'[q][m] = IF q = r /\ m = late THEN round_strikes[q][m] + n
                                                        ELSE round_strikes[q][m]
  BY <1>1, <1>5 DEF StrikeInv
<1>7. ASSUME NEW q \in Rounds, NEW m \in Address, round_strikes'[q][m] # round_strikes[q][m]
      PROVE  q = r /\ m = late /\ n # 0
  BY <1>5, <1>6, <1>7
<1> QED
  BY <1>3, <1>4, <1>5, <1>6, <1>7, EarnedStrikesKeep

\* A sweep strikes active members that are not in the round's log.
LEMMA SweepKeepsStrikes ==
    ASSUME RInv, RInv', BooksInv, StrikeInv, [Next]_vars,
           NEW r \in Rounds, CheckContributionDeadline(r)
    PROVE  StrikeInv'
<1> DEFINE struck == {members[i].address : i \in Awaiting(members, r)}
<1>1. /\ round_strikes' = [round_strikes EXCEPT ![r] =
            [a \in Address |-> IF a \in struck THEN @[a] + 1 ELSE @[a]]]
      /\ SettleRound(Swept(r), r)
  BY Zenon DEF CheckContributionDeadline
<1>2. UNCHANGED contributions
  BY <1>1, SettleEffects DEF RInv, roundVars
<1>3. ASSUME NEW a \in struck
      PROVE  /\ IsMember(members, a)
             /\ \A c \in contributions : ~(c.member = a /\ c.round = r)
  BY DEF Awaiting, ActiveIn, IsMember, MemberAt, BooksInv, CopiesOfLog, Log
<1> HIDE DEF struck
<1>4. /\ round_strikes' \in [Rounds -> [Address -> Nat]]
      /\ \A q \in Rounds, m \in Address :
            round_strikes'[q][m] # round_strikes[q][m] => q = r /\ m \in struck
  BY <1>1 DEF StrikeInv
<1> QED
  BY <1>2, <1>3, <1>4, EarnedStrikesKeep

\* Who has a strike for the round can no longer pay into it.
LEMMA ContributeKeepsStrikes ==
    ASSUME RInv, RInv', StrikeInv, [Next]_vars,
           NEW m \in Address, NEW amount, NEW r \in Rounds, Contribute(m, amount, r)
    PROVE  StrikeInv'
<1> DEFINE entry == [member |-> m, round |-> r, amount |-> amount, timestamp |-> now,
                     on_time |-> OnTime]
<1>1. contributions' = contributions \cup {entry} /\ UNCHANGED rosterVars
  BY Zenon DEF Contribute
<1>2. round_strikes[r][m] = 0
  BY Zenon DEF Contribute
<1>3. entry.member = m /\ entry.round = r
  OBVIOUS
<1> HIDE DEF entry
<1>4. UNCHANGED <<members, round_strikes>>
  BY <1>1 DEF rosterVars
<1> QED
  BY <1>1, <1>2, <1>3, <1>4 DEF StrikeInv, StrikesAreEarned

LEMMA NextKeepsStrikes ==
    ASSUME RInv, RInv', BooksInv, StrikeInv, [Next]_vars
    PROVE  StrikeInv'
<1>1. ASSUME UNCHANGED <<round_strikes, contributions>>  PROVE StrikeInv'
  BY <1>1, EarnedStrikesKeep DEF StrikeInv
<1> QED
  BY <1>1, NextStrikes, ReportLateKeepsStrikes, SweepKeepsStrikes, ContributeKeepsStrikes,
     Zenon DEF RInv

LEMMA StrikeInvariant == Spec => []StrikeInv
<1>1. ASSUME Init  PROVE RInv /\ StrikeInv
  <2>1. round_strikes = [r \in Rounds |-> [a \in Address |-> 0]]
    BY <1>1, Zenon DEF Init
  <2>2. StrikeInv
    BY <2>1 DEF StrikeInv, StrikesAreEarned
  <2> QED
    BY <1>1, <2>2, InitRefines
<1>2. RInv /\ [Next]_vars => RInv'
  BY NextRefines
<1>3. RInv /\ RInv' /\ BooksInv /\ StrikeInv /\ [Next]_vars => StrikeInv'
  BY NextKeepsStrikes
<1> QED
  BY <1>1, <1>2, <1>3, BooksInvariant, PTL DEF Spec

\* A strike on record was earned: by a member, and in a round for which the log
\* has no payment of the member in time, then or later (strike_non_contributors,
\* report_late, contribute).
THEOREM StrikesAreAlwaysEarned == Spec => []StrikesAreEarned
<1>1. StrikeInv => StrikesAreEarned
  BY DEF StrikeInv
<1> QED
  BY <1>1, StrikeInvariant, PTL

-----------------------------------------------------------------------------
(* Fees.                                                                   *)

FeeRecord == [payout_fee : Nat, late_penalty_fee : Nat]
FeesOf(ledger) == [r \in Rounds |-> ledger[r].payout_fee + ledger[r].late_penalty_fee]

FeeInv ==
    /\ fee_ledger \in [Rounds -> FeeRecord]
    /\ circle.total_fees = SumFunctionOnSet(FeesOf(fee_ledger), Rounds)

\* One recording adds both of its fees to the sum.
LEMMA RecordingAddsFees ==
    ASSUME FeeInv, NEW r \in Rounds, NEW fee \in Nat, NEW penalty \in Nat,
           fee_ledger' = FeeRecorded(r, fee, penalty),
           circle'.total_fees = circle.total_fees + fee + penalty
    PROVE  FeeInv'
<1> DEFINE f == FeesOf(fee_ledger)
           g == FeesOf(fee_ledger')
<1>1. \A q \in Rounds : /\ fee_ledger[q] \in FeeRecord
                        /\ fee_ledger[q].payout_fee \in Nat
                        /\ fee_ledger[q].late_penalty_fee \in Nat
  BY DEF FeeInv, FeeRecord
<1>2. PICK old \in FeeRecord : old = fee_ledger[r]
  BY <1>1
<1> DEFINE half == [old EXCEPT !.payout_fee = @ + fee]
           new == [half EXCEPT !.late_penalty_fee = @ + penalty]
<1>3. /\ half \in FeeRecord /\ half.payout_fee = old.payout_fee + fee
      /\ half.late_penalty_fee = old.late_penalty_fee
  BY <1>2 DEF FeeRecord
<1>4. ASSUME NEW x \in FeeRecord
      PROVE  LET y == [x EXCEPT !.late_penalty_fee = @ + penalty]
             IN  /\ y \in FeeRecord /\ y.payout_fee = x.payout_fee
                 /\ y.late_penalty_fee = x.late_penalty_fee + penalty
  BY DEF FeeRecord
<1> HIDE DEF half
<1>5. /\ new \in FeeRecord /\ new.payout_fee = old.payout_fee + fee
      /\ new.late_penalty_fee = old.late_penalty_fee + penalty
  BY <1>3, <1>4
<1>6. fee_ledger' = [fee_ledger EXCEPT ![r] = new]
  BY <1>2 DEF FeeRecorded, FeeInv, half
<1> HIDE DEF new
<1>7. /\ fee_ledger' \in [Rounds -> FeeRecord] /\ fee_ledger'[r] = new
      /\ \A q \in Rounds \ {r} : fee_ledger'[q] = fee_ledger[q]
  BY <1>5, <1>6 DEF FeeInv
<1>8. /\ \A q \in Rounds : f[q] \in Int
      /\ \A q \in Rounds \ {r} : g[q] = f[q]
      /\ g[r] = f[r] + fee + penalty /\ g[r] \in Int
  BY <1>1, <1>2, <1>5, <1>7 DEF FeesOf, FeeRecord
<1>9. \A q \in Rounds : g[q] \in Int
  BY <1>8
<1>10. IsFiniteSet(Rounds)
  BY ConfigAssumption, FS_Interval DEF Rounds
<1> HIDE DEF f, g
<1>11. SumFunctionOnSet(g, Rounds) = SumFunctionOnSet(f, Rounds) + g[r] - f[r]
  BY <1>8, <1>9, <1>10, SumOfChange
<1>12. SumFunctionOnSet(f, Rounds) \in Int /\ f[r] \in Int
  BY <1>8, <1>10, SumIsInteger
<1>13. circle'.total_fees = SumFunctionOnSet(g, Rounds)
  BY <1>8, <1>11, <1>12 DEF FeeInv, f
<1> QED
  BY <1>7, <1>13 DEF FeeInv, g

LEMMA ContributeKeepsFees ==
    ASSUME IInv, FeeInv, NEW m, NEW amount, NEW r \in Rounds, Contribute(m, amount, r)
    PROVE  FeeInv'
<1>1. /\ circle' = [circle EXCEPT !.total_fees = @ + LatePenalty(amount)]
      /\ fee_ledger' = FeeRecorded(r, 0, LatePenalty(amount))
      /\ amount = ContributionAmount
  BY Zenon DEF Contribute
<1>2. PICK penalty \in Nat : penalty = LatePenalty(amount)
  BY <1>1, ConfigAssumption, PercentageType DEF LatePenalty
<1>3. circle'.total_fees = circle.total_fees + penalty /\ circle.total_fees \in Int
  BY <1>1, <1>2 DEF IInv, RotationTypeOK, CircleRecord
<1>4. circle'.total_fees = circle.total_fees + 0 + penalty
  BY <1>3
<1>5. fee_ledger' = FeeRecorded(r, 0, penalty) /\ 0 \in Nat
  BY <1>1, <1>2
<1> QED
  BY <1>4, <1>5, RecordingAddsFees, Zenon

LEMMA SettleKeepsFees ==
    ASSUME IInv, FeeInv, NEW ms, NEW r \in Rounds, SettleRound(ms, r), SameAddresses(ms)
    PROVE  FeeInv'
<1> DEFINE fee == Percentage(round_total[r], fee_bps)
           net == round_total[r] - fee
<1>1. PICK i \in Resolve(ms, r) : \/ net <= 0 /\ SettleEmpty(i)
                                  \/ net > 0 /\ SettleFunded(ms, i, r, net, fee)
  BY Zenon DEF SettleRound
<1>2. round_total[r] \in Nat /\ fee_bps \in Nat
  BY DEF IInv, RotationTypeOK
<1>3. fee \in Nat
  BY <1>2, PercentageType
<1>4. net \in Int /\ fee \in Int /\ 0 \in Int
  BY <1>2, <1>3
<1>5. i \in DOMAIN members
  BY LenProperties, ResolveUnpaid DEF SameAddresses, IInv, RotationTypeOK
<1>6. circle.total_fees \in Int
  BY DEF IInv, RotationTypeOK, CircleRecord
<1> HIDE DEF fee, net
<1>7. CASE SettleEmpty(i)
  <2>1. circle' = CircleAfter(i, 0, 0) /\ UNCHANGED fee_ledger
    BY <1>7, Zenon DEF SettleEmpty
  <2>2. circle'.total_fees = circle.total_fees + 0
    BY <1>4, <1>5, <2>1, CircleAfterFields
  <2> QED
    BY <1>6, <2>1, <2>2 DEF FeeInv
<1>8. CASE SettleFunded(ms, i, r, net, fee)
  <2>1. circle' = CircleAfter(i, net, fee) /\ fee_ledger' = FeeRecorded(r, fee, 0)
    BY <1>8, Zenon DEF SettleFunded
  <2>2. circle'.total_fees = circle.total_fees + fee
    BY <1>4, <1>5, <2>1, CircleAfterFields
  <2>3. circle'.total_fees = circle.total_fees + fee + 0
    BY <1>3, <1>6, <2>2
  <2> QED
    BY <1>3, <2>1, <2>3, RecordingAddsFees
<1> QED
  BY <1>1, <1>7, <1>8

LEMMA NextKeepsFees ==
    ASSUME IInv, FeeInv, [Next]_vars
    PROVE  FeeInv'
<1>1. ASSUME UNCHANGED fee_ledger, circle'.total_fees = circle.total_fees  PROVE FeeInv'
  BY <1>1 DEF FeeInv
<1>2. CASE UNCHANGED vars \/ Tick
  BY <1>1, <1>2 DEF vars, Tick
<1>3. CASE MemberNext
  BY <1>1, <1>3, MemberNextFrame DEF outsideRoster, SameProgress
<1>4. CASE BidNext
  BY <1>1, <1>4, BidNextFrame DEF outsideAuction
<1>5. CASE AdminNext
  BY <1>1, <1>5, AdminNextFrame DEF outsideAdmin, SameProgress
<1>6. CASE RoundNext
  <2>1. ASSUME NEW m, NEW r \in Rounds, TriggerPayout(m, r)  PROVE FeeInv'
    <3>1. SettleRound(members, r)
      BY <2>1, Zenon DEF TriggerPayout
    <3>2. SameAddresses(members)
      BY DEF SameAddresses, IInv, RotationTypeOK
    <3> QED
      BY <3>1, <3>2, SettleKeepsFees
  <2>2. ASSUME NEW r \in Rounds, CheckContributionDeadline(r)  PROVE FeeInv'
    <3>1. SettleRound(Swept(r), r)
      BY <2>2, Zenon DEF CheckContributionDeadline
    <3> QED
      BY <3>1, SweptKeepsAddresses, SettleKeepsFees
  <2>3. ASSUME NEW m, NEW r, SchedulePayout(m, r)  PROVE FeeInv'
    BY <1>1, <2>3, Zenon DEF SchedulePayout
  <2>4. ASSUME NEW m, NEW recipients, NEW amounts, NEW r, BatchPayout(m, recipients, amounts, r)
        PROVE  FeeInv'
    <3>1. PICK bits : circle' = [circle EXCEPT !.payout_bitmap = bits] /\ UNCHANGED fee_ledger
      BY <2>4, Zenon DEF BatchPayout
    <3> QED
      BY <1>1, <3>1 DEF IInv, RotationTypeOK, CircleRecord
  <2> QED
    BY <1>6, <2>1, <2>2, <2>3, <2>4, ContributeKeepsFees, Zenon DEF RoundNext
<1> QED
  BY <1>2, <1>3, <1>4, <1>5, <1>6, Zenon DEF Next

LEMMA FeeInvariant == Spec => []FeeInv
<1>1. ASSUME Init  PROVE FeeInv
  <2>1. circle.total_fees = 0 /\ fee_ledger = [r \in Rounds |-> NoFees]
    BY <1>1 DEF Init
  <2>2. /\ fee_ledger \in [Rounds -> FeeRecord]
        /\ \A r \in Rounds : FeesOf(fee_ledger)[r] = 0
    BY <2>1 DEF NoFees, FeeRecord, FeesOf
  <2>3. IsFiniteSet(Rounds)
    BY ConfigAssumption, FS_Interval DEF Rounds
  <2> QED
    BY <2>1, <2>2, <2>3, SumOfZeros DEF FeeInv
<1>2. IInv /\ FeeInv /\ [Next]_vars => FeeInv'
  BY NextKeepsFees
<1> QED
  BY <1>1, <1>2, RotationInvariant, PTL DEF Spec

\* The fees that a circle reports are those of its rounds' ledgers, late penalties
\* and payout fees together (record_round_fee, contribute, trigger_payout_internal).
THEOREM FeesAddUp == Spec => []FeeLedgerTotals
<1>1. FeeInv => FeeLedgerTotals
  BY DEF FeeInv, FeesOf, FeeLedgerTotals
<1> QED
  BY <1>1, FeeInvariant, PTL

-----------------------------------------------------------------------------
(* What members receive.                                                   *)

ReceivedOK == received \in [Address -> Int]

\* All that a round gives to somebody else than its recipient is a share, and
\* only time-weighted rounds have shares.
LEMMA PayoutsAreShares ==
    ASSUME RInv, BooksInv, NEW ms, NEW w, NEW net \in Int, NEW r
    PROVE  /\ PayoutTo(ms, w, net, r) \in [Address -> Int]
           /\ \A a \in Address : PayoutType # "RANDOM" /\ a # w => PayoutTo(ms, w, net, r)[a] = 0
<1> DEFINE age == [c \in contributions |-> c.amount * (now - c.timestamp)]
           share == [a \in Address |-> Share(ms, a, net, r)]
           dust == net - SumFunctionOnSet(share, Address)
<1>1. \A c \in contributions : age[c] \in Int
  <2>1. ASSUME NEW c \in contributions  PROVE c.amount \in Int /\ now - c.timestamp \in Int
    BY ConfigAssumption DEF RInv, IInv, RotationTypeOK, Contribution
  <2>2. \A x, y \in Int : x * y \in Int
    OBVIOUS
  <2> QED
    BY <2>1, <2>2
<1> HIDE DEF age
<1>2. \A S \in SUBSET contributions : SumFunctionOnSet(age, S) \in Int
  <2>1. ASSUME NEW S \in SUBSET contributions  PROVE SumFunctionOnSet(age, S) \in Int
    <3>1. IsFiniteSet(S) /\ \A c \in S : age[c] \in Int
      BY <1>1, FS_Subset DEF BooksInv, LogOK
    <3> QED
      BY <3>1, SumIsInteger
  <2> QED
    BY <2>1
<1>3. \A a : Weight(a, r) \in Int
  <2>1. \A a : Weight(a, r) =
                  SumFunctionOnSet(age, {c \in contributions : c.round = r /\ c.member = a})
    BY DEF Weight, age
  <2> QED
    BY <1>2, <2>1
<1>4. TotalWeight(r) \in Int
  <2>1. TotalWeight(r) = SumFunctionOnSet(age, {c \in contributions : c.round = r})
    BY DEF TotalWeight, age
  <2> QED
    BY <1>2, <2>1
<1>5. ASSUME NEW x \in Int, NEW y \in Int, y > 0  PROVE (net * x) \div y \in Int
  <2>1. PICK z \in Int : z = net * x
    OBVIOUS
  <2> QED
    BY <1>5, <2>1
<1>6. \A a : Share(ms, a, net, r) \in Int /\ (PayoutType # "RANDOM" => Share(ms, a, net, r) = 0)
  BY <1>3, <1>4, <1>5 DEF Share
<1>7. \A a \in Address : share[a] \in Int /\ (PayoutType # "RANDOM" => share[a] = 0)
  BY <1>6
<1> HIDE DEF share
<1>8. SumFunctionOnSet(share, Address) \in Int
  BY <1>7, SumIsInteger, AddressAssumption
<1>9. dust \in Int
  BY <1>8
<1>10. PayoutTo(ms, w, net, r) = [a \in Address |-> IF a = w THEN share[a] + dust ELSE share[a]]
  BY DEF PayoutTo, share
<1> HIDE DEF dust
<1> QED
  BY <1>7, <1>9, <1>10

\* A settlement gives to its recipient, whose position was not marked.
LEMMA SettlePaysUnpaid ==
    ASSUME RInv, BooksInv, ReceivedOK, NEW ms, NEW r \in Rounds, SettleRound(ms, r),
           SameAddresses(ms)
    PROVE  /\ ReceivedOK'
           /\ PayoutType # "RANDOM" =>
                \A i \in DOMAIN members :
                   ~Unpaid(i) => received'[members[i].address] = received[members[i].address]
<1> DEFINE fee == Percentage(round_total[r], fee_bps)
           net == round_total[r] - fee
<1>1. PICK w \in Resolve(ms, r) : \/ net <= 0 /\ SettleEmpty(w)
                                  \/ net > 0 /\ SettleFunded(ms, w, r, net, fee)
  BY Zenon DEF SettleRound
<1>2. net \in Int
  <2>1. round_total[r] \in Nat /\ fee_bps \in Nat
    BY DEF RInv, IInv, RotationTypeOK
  <2>2. fee \in Nat
    BY <2>1, PercentageType
  <2> HIDE DEF fee
  <2> QED
    BY <2>1, <2>2
<1> HIDE DEF fee, net
<1>3. CASE SettleEmpty(w)
  <2>1. UNCHANGED received
    BY <1>3, Zenon DEF SettleEmpty
  <2> QED
    BY <2>1 DEF ReceivedOK
<1>4. CASE SettleFunded(ms, w, r, net, fee)
  <2> DEFINE payout == PayoutTo(ms, ms[w].address, net, r)
  <2>1. received' = [a \in Address |->
           IF IsMember(ms, a) THEN received[a] + payout[a] ELSE received[a]]
    BY <1>4, Zenon DEF SettleFunded
  <2>2. /\ payout \in [Address -> Int]
        /\ \A a \in Address : PayoutType # "RANDOM" /\ a # ms[w].address => payout[a] = 0
    BY <1>2, PayoutsAreShares
  <2> HIDE DEF payout
  <2>3. ReceivedOK'
    BY <2>1, <2>2 DEF ReceivedOK
  <2>4. ASSUME PayoutType # "RANDOM", NEW i \in DOMAIN members, ~Unpaid(i)
        PROVE  received'[members[i].address] = received[members[i].address]
    <3>1. DOMAIN ms = DOMAIN members /\ \A j \in DOMAIN members : ms[j].address = members[j].address
      BY LenProperties DEF SameAddresses, RInv, IInv, RotationTypeOK
    <3>2. w \in DOMAIN members /\ Unpaid(w)
      BY <3>1, ResolveUnpaid
    <3>3. members[i].address # ms[w].address
      BY <2>4, <3>1, <3>2 DEF RInv, IInv, Roster
    <3>4. members[i].address \in Address
      BY MemberTypes DEF RInv, Member
    <3>5. payout[members[i].address] = 0 /\ received[members[i].address] \in Int
      BY <2>2, <2>4, <3>3, <3>4 DEF ReceivedOK
    <3> QED
      BY <2>1, <3>4, <3>5
  <2> QED
    BY <2>3, <2>4
<1> QED
  BY <1>1, <1>3, <1>4

LEMMA BatchTypes ==
    \A amounts \in BatchesOf(Amounts), recipients \in BatchesOf(Address) :
       /\ amounts \in Seq(Nat) /\ recipients \in Seq(Address)
<1>1. ASSUME NEW S, NEW a \in S, NEW b \in S  PROVE <<a>> \in Seq(S) /\ <<a, b>> \in Seq(S)
  OBVIOUS
<1>2. ASSUME NEW S  PROVE BatchesOf(S) \subseteq Seq(S)
  <2>1. ASSUME NEW s \in {<<a>> : a \in S}  PROVE s \in Seq(S)
    <3>1. PICK a \in S : s = <<a>>
      BY <2>1, Zenon
    <3> QED
      BY <1>1, <3>1, Zenon
  <2>2. ASSUME NEW s \in {<<a, b>> : a, b \in S}  PROVE s \in Seq(S)
    <3>1. PICK a \in S, b \in S : s = <<a, b>>
      BY <2>2
    <3>2. <<a, b>> \in Seq(S)
      OBVIOUS
    <3> QED
      BY <3>1, <3>2
  <2> QED
    BY <2>1, <2>2 DEF BatchesOf
<1>3. \A S \in SUBSET Nat : Seq(S) \subseteq Seq(Nat)
  <2>1. ASSUME NEW S \in SUBSET Nat, NEW s \in Seq(S)  PROVE s \in Seq(Nat)
    <3>1. Len(s) \in Nat /\ DOMAIN s = 1..Len(s) /\ \A k \in 1..Len(s) : s[k] \in Nat
      BY <2>1, ElementOfSeq, LenProperties
    <3>2. s = [k \in 1..Len(s) |-> s[k]]
      BY <2>1, LenProperties
    <3> QED
      BY <3>1, <3>2
  <2> QED
    BY <2>1
<1>4. Amounts \in SUBSET Nat
  BY BoundAssumption, SMTT(60)
<1> QED
  BY <1>2, <1>3, <1>4, Zenon

\* A batch pays members whose positions were not marked, and other addresses.
LEMMA BatchPaysUnpaid ==
    ASSUME RInv, ReceivedOK, NEW caller, NEW r, NEW recipients \in Seq(Address),
           NEW amounts \in Seq(Nat), BatchPayout(caller, recipients, amounts, r)
    PROVE  /\ ReceivedOK'
           /\ \A i \in DOMAIN members :
                 ~Unpaid(i) => received'[members[i].address] = received[members[i].address]
<1> DEFINE at == DOMAIN recipients
           fee == [k \in at |-> Percentage(amounts[k], fee_bps)]
           net == [k \in at |-> amounts[k] - fee[k]]
           To(a) == {k \in at : recipients[k] = a}
<1>1. /\ received' = [a \in Address |->
            IF IsMember(members, a) THEN received[a] + SumFunctionOnSet(net, To(a))
                                    ELSE received[a]]
      /\ Len(recipients) = Len(amounts)
      /\ \A k \in at : \A i \in MemberAt(members, recipients[k]) : Unpaid(i)
  BY Zenon DEF BatchPayout
<1>2. /\ at = 1..Len(recipients) /\ Len(recipients) \in Nat /\ DOMAIN amounts = at
      /\ IsFiniteSet(at)
  BY <1>1, LenProperties, FS_Interval
<1>3. fee_bps \in Nat
  BY DEF RInv, IInv
<1>4. ASSUME NEW k \in at  PROVE net[k] \in Int
  <2>1. amounts[k] \in Nat
    BY <1>2
  <2>2. fee[k] \in Nat
    BY <1>3, <2>1, PercentageType
  <2> HIDE DEF fee
  <2> QED
    BY <2>1, <2>2
<1> HIDE DEF fee, net
<1>5. ASSUME NEW a  PROVE SumFunctionOnSet(net, To(a)) \in Int
  <2>1. IsFiniteSet(To(a)) /\ \A k \in To(a) : net[k] \in Int
    BY <1>2, <1>4, FS_Subset
  <2> HIDE DEF To
  <2> QED
    BY <2>1, SumIsInteger
<1>6. ReceivedOK'
  <2> DEFINE paid == [a \in Address |-> SumFunctionOnSet(net, To(a))]
  <2>1. \A a \in Address : paid[a] \in Int
    BY <1>5
  <2>2. received' = [a \in Address |->
           IF IsMember(members, a) THEN received[a] + paid[a] ELSE received[a]]
    BY <1>1
  <2> HIDE DEF paid, To
  <2> QED
    BY <2>1, <2>2 DEF ReceivedOK
<1>7. ASSUME NEW i \in DOMAIN members, ~Unpaid(i)
      PROVE  received'[members[i].address] = received[members[i].address]
  <2>1. To(members[i].address) = {}
    BY <1>1, <1>7 DEF MemberAt
  <2>2. SumFunctionOnSet(net, To(members[i].address)) = 0
    BY <2>1, SumOfNothing
  <2>3. members[i].address \in Address
    BY MemberTypes DEF RInv, Member
  <2>4. received[members[i].address] \in Int
    BY <2>3 DEF ReceivedOK
  <2> HIDE DEF To
  <2> QED
    BY <1>1, <2>2, <2>3, <2>4
<1> QED
  BY <1>6, <1>7

LEMMA NextPaysUnpaid ==
    ASSUME RInv, BooksInv, ReceivedOK, [Next]_vars
    PROVE  /\ ReceivedOK'
           /\ PayoutType # "RANDOM" =>
                \A i \in DOMAIN members :
                   ~Unpaid(i) => received'[members[i].address] = received[members[i].address]
<1> DEFINE Fair == /\ ReceivedOK'
                   /\ PayoutType # "RANDOM" =>
                        \A i \in DOMAIN members : ~Unpaid(i) =>
                           received'[members[i].address] = received[members[i].address]
<1>1. ASSUME UNCHANGED received  PROVE Fair
  BY <1>1 DEF ReceivedOK
<1>2. RoundNext => Fair
  <2>1. ASSUME NEW m, NEW amount, NEW r, Contribute(m, amount, r)  PROVE UNCHANGED received
    BY <2>1, Zenon DEF Contribute, payoutVars
  <2>2. ASSUME NEW m, NEW r, SchedulePayout(m, r)  PROVE UNCHANGED received
    BY <2>2, Zenon DEF SchedulePayout, payoutVars
  <2>3. ASSUME NEW m, NEW r \in Rounds, TriggerPayout(m, r)  PROVE Fair
    <3>1. SettleRound(members, r)
      BY <2>3, Zenon DEF TriggerPayout
    <3>2. SameAddresses(members)
      BY DEF SameAddresses, RInv, IInv, RotationTypeOK
    <3> QED
      BY <3>1, <3>2, SettlePaysUnpaid
  <2>4. ASSUME NEW r \in Rounds, CheckContributionDeadline(r)  PROVE Fair
    <3>1. SettleRound(Swept(r), r)
      BY <2>4, Zenon DEF CheckContributionDeadline
    <3> QED
      BY <3>1, SweptKeepsAddresses, SettlePaysUnpaid DEF RInv
  <2>5. ASSUME NEW m, NEW recipients \in BatchesOf(Address), NEW amounts \in BatchesOf(Amounts),
               NEW r, BatchPayout(m, recipients, amounts, r)
        PROVE  Fair
    BY <2>5, BatchTypes, BatchPaysUnpaid
  <2> HIDE DEF Fair
  <2> QED
    BY <1>1, <2>1, <2>2, <2>3, <2>4, <2>5, Zenon DEF RoundNext
<1>3. ASSUME MemberNext  PROVE Fair
  BY <1>1, <1>3, MemberNextFrame DEF RInv, outsideRoster, payoutVars
<1>4. ASSUME BidNext  PROVE Fair
  BY <1>1, <1>4, BidNextFrame DEF outsideAuction, payoutVars
<1>5. ASSUME AdminNext  PROVE Fair
  BY <1>1, <1>5, AdminNextFrame DEF RInv, outsideAdmin, payoutVars
<1>6. ASSUME Tick  PROVE Fair
  BY <1>1, <1>6 DEF Tick, payoutVars
<1>8. ASSUME UNCHANGED vars  PROVE Fair
  BY <1>1, <1>8 DEF vars, payoutVars
<1> HIDE DEF Fair
<1>7. Fair
  <2>1. Next \/ UNCHANGED vars
    OBVIOUS
  <2> QED
    BY <2>1, <1>2, <1>3, <1>4, <1>5, <1>6, <1>8, Zenon DEF Next
<1> QED
  BY <1>7 DEF Fair

\* In every circle but the time-weighted ones, whose position is marked is given
\* nothing more, by the rotation or by a batch, before or after disputes and in
\* whatever order (trigger_payout_internal, batch_payout).
THEOREM PaidMembersReceiveNoMore == Spec => PaidPositionsReceiveNoMore
<1>1. Init => RInv /\ ReceivedOK
  <2>1. Init => received = [a \in Address |-> 0]
    BY Zenon DEF Init
  <2>2. Init => ReceivedOK
    BY <2>1 DEF ReceivedOK
  <2> QED
    BY <2>2, InitRefines
<1>2. RInv /\ [Next]_vars => RInv'
  BY NextRefines
<1>3. RInv /\ BooksInv /\ ReceivedOK /\ [Next]_vars =>
         /\ ReceivedOK'
         /\ [PayoutType # "RANDOM" =>
               \A i \in DOMAIN members :
                  ~Unpaid(i) => received'[members[i].address] = received[members[i].address]]_vars
  BY NextPaysUnpaid
<1> QED
  BY <1>1, <1>2, <1>3, BooksInvariant, PTL DEF Spec, PaidPositionsReceiveNoMore
=============================================================================
