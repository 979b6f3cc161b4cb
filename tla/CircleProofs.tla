---------------------------- MODULE CircleProofs ----------------------------
(***************************************************************************)
(* Theorems about the circle contract, for every value of the constants.   *)
(*                                                                         *)
(* Most entry points leave the rotation alone.  The lemmas of the first    *)
(* part say what each entry point may do to it at most, as one of a few    *)
(* kinds of step; the second part shows that each kind preserves the       *)
(* inductive invariant IInv; the theorems about the rotation follow.  The  *)
(* later parts each have an invariant of their own, for disputes, streaks, *)
(* votes and auctions.                                                     *)
(***************************************************************************)
EXTENDS Circle, FiniteSetTheorems, SequenceTheorems, DataTheorems, TLAPS

-----------------------------------------------------------------------------
(* The inductive invariant.                                                *)

\* Positions belong to one member each.
Roster ==
    /\ \A i, j \in DOMAIN members : members[i].address = members[j].address => i = j
    /\ Len(members) <= MaxMembers
    /\ circle.member_count = Len(members)

\* Every settled round paid a member whose position is marked since then.
Settlements ==
    /\ Len(settled) = circle.current_round
    /\ \A k \in DOMAIN settled : settled[k].round = k - 1
    /\ \A k \in DOMAIN settled : \E i \in DOMAIN members :
          members[i].address = settled[k].recipient /\ ~Unpaid(i)
    /\ \A j, k \in DOMAIN settled : settled[j].recipient = settled[k].recipient => j = k

Bitmap ==
    /\ circle.payout_bitmap \subseteq {Position(i) : i \in DOMAIN members}
    /\ circle.current_round <= Cardinality(circle.payout_bitmap)

IInv ==
    /\ RotationTypeOK
    /\ fee_bps \in 0..10000
    /\ Roster
    /\ Settlements
    /\ Bitmap

-----------------------------------------------------------------------------
(* Facts about sequences and arithmetic.                                   *)

LEMMA MapOverSeq ==
    ASSUME NEW S, NEW s \in Seq(S), NEW f \in [DOMAIN s -> S]
    PROVE  f \in Seq(S) /\ Len(f) = Len(s) /\ DOMAIN f = DOMAIN s
<1>1. Len(s) \in Nat /\ DOMAIN s = 1..Len(s)
  BY LenProperties
<1>2. f \in Seq(S)
  BY <1>1, SeqDef
<1>3. Len(f) \in Nat /\ DOMAIN f = 1..Len(f)
  BY <1>2, LenProperties
<1>4. Len(f) = Len(s)
  BY <1>1, <1>3
<1> QED
  BY <1>2, <1>4

LEMMA PercentageType ==
    ASSUME NEW amount \in Nat, NEW bps \in Nat
    PROVE  Percentage(amount, bps) \in Nat
BY DEF Percentage

-----------------------------------------------------------------------------
(* The first kind of step leaves the rotation alone, except that members   *)
(* may change their standing and the circle its status.                    *)

rotation == <<contributions, round_contributors, round_total, member_contributed, settled>>

SameAddresses(ms) ==
    /\ ms \in Seq(Member)
    /\ Len(ms) = Len(members)
    /\ \A i \in DOMAIN members : ms[i].address = members[i].address

StandingStep ==
    /\ circle' \in CircleRecord
    /\ circle'.current_round = circle.current_round
    /\ circle'.payout_bitmap = circle.payout_bitmap
    /\ circle'.member_count = circle.member_count
    /\ SameAddresses(members')
    /\ UNCHANGED rotation
    /\ fee_bps' \in 0..10000
    /\ now' \in Nat

\* The books of the rotation depend on the members' addresses only.
LEMMA BooksAreKept ==
    ASSUME IInv, SameAddresses(members'), UNCHANGED settled,
           circle'.current_round = circle.current_round,
           circle'.payout_bitmap = circle.payout_bitmap,
           circle'.member_count = circle.member_count
    PROVE  Roster' /\ Settlements' /\ Bitmap'
<1>1. DOMAIN members = 1..Len(members) /\ DOMAIN members' = 1..Len(members')
  BY LenProperties DEF IInv, RotationTypeOK, SameAddresses
<1>2. DOMAIN members' = DOMAIN members
  BY <1>1 DEF SameAddresses
<1>3. Roster'
  BY <1>2 DEF IInv, Roster, SameAddresses
<1>4. Settlements'
  BY <1>2 DEF IInv, Settlements, Unpaid, SameAddresses
<1>5. Bitmap'
  BY <1>2 DEF IInv, Bitmap
<1> QED
  BY <1>3, <1>4, <1>5

LEMMA StandingStepKeepsIInv ==
    ASSUME IInv, StandingStep
    PROVE  IInv'
<1>1. RotationTypeOK'
  BY DEF IInv, RotationTypeOK, StandingStep, SameAddresses, rotation
<1>2. Roster' /\ Settlements' /\ Bitmap'
  BY BooksAreKept DEF StandingStep, rotation
<1> QED
  BY <1>1, <1>2 DEF IInv, StandingStep

-----------------------------------------------------------------------------
(* Entry points that do not touch the rotation at all.                     *)

Untouched == UNCHANGED <<circle, members, rotation>>
Setting == Untouched /\ fee_bps' \in 0..10000 /\ now' \in Nat

LEMMA SettingIsStanding ==
    ASSUME IInv, Setting
    PROVE  StandingStep
BY DEF IInv, RotationTypeOK, Setting, Untouched, StandingStep, SameAddresses

\* Bids, refunds, Dutch auctions and votes.
LEMMA BidNextIsStanding ==
    ASSUME IInv, BidNext
    PROVE  StandingStep
<1>1. ASSUME NEW a, NEW bips, NEW r, PlaceBid(a, bips, r)  PROVE UNCHANGED outsideAuction
  BY <1>1, SMT DEF PlaceBid
<1>2. ASSUME NEW r, NEW limit, RefundLosingBids(r, limit)  PROVE UNCHANGED outsideAuction
  BY <1>2, Zenon DEF RefundLosingBids
<1>3. ASSUME NEW a, NEW r, NEW config, InitDutchAuction(a, r, config)
      PROVE  UNCHANGED outsideAuction
  BY <1>3, SMT DEF InitDutchAuction
<1>4. ASSUME NEW a, NEW r, DutchAuctionBid(a, r)  PROVE UNCHANGED outsideAuction
  BY <1>4, Zenon DEF DutchAuctionBid
<1>5. ASSUME NEW a, CancelAuction(a)  PROVE UNCHANGED outsideAuction
  BY <1>5, Zenon DEF CancelAuction
<1>6. ASSUME NEW a, NEW b, NEW r, VotePayout(a, b, r)  PROVE UNCHANGED outsideAuction
  BY <1>6, Zenon DEF VotePayout
<1>7. UNCHANGED outsideAuction
  BY <1>1, <1>2, <1>3, <1>4, <1>5, <1>6, Zenon DEF BidNext
<1>8. Setting
  BY <1>7 DEF Setting, Untouched, IInv, RotationTypeOK, outsideAuction, rotation,
              rosterVars, roundVars, payoutVars, configVars
<1> QED
  BY <1>8, SettingIsStanding

-----------------------------------------------------------------------------
(* Records of the circle and of its members.                               *)

LEMMA StatusUpdate ==
    ASSUME NEW c \in CircleRecord, NEW st \in CircleStatus
    PROVE  LET d == [c EXCEPT !.status = st]
           IN  /\ d \in CircleRecord
               /\ d.current_round = c.current_round /\ d.payout_bitmap = c.payout_bitmap
               /\ d.member_count = c.member_count /\ d.total_fees = c.total_fees
               /\ d.total_payouts = c.total_payouts
BY DEF CircleRecord

LEMMA StrikeUpdate ==
    ASSUME NEW m \in Member, NEW n \in Nat, NEW st \in MemberStatus
    PROVE  LET d == [m EXCEPT !.strikes = n, !.status = st]
           IN  d \in Member /\ d.address = m.address
<1> DEFINE struck == [m EXCEPT !.strikes = n]
<1>1. struck \in Member /\ struck.address = m.address
  BY DEF Member
<1>2. ASSUME NEW x \in Member
      PROVE  [x EXCEPT !.status = st] \in Member /\ [x EXCEPT !.status = st].address = x.address
  BY DEF Member
<1> QED
  BY <1>1, <1>2, Zenon

LEMMA MemberTypes ==
    ASSUME IInv, NEW i \in DOMAIN members
    PROVE  members[i] \in Member /\ members[i].strikes \in Nat
<1>1. members[i] \in Member
  BY LenProperties, ElementOfSeq DEF IInv, RotationTypeOK
<1> QED
  BY <1>1 DEF Member

LEMMA RestandingKeepsAddresses ==
    ASSUME IInv, NEW f, f = [i \in DOMAIN members |-> f[i]],
           \A i \in DOMAIN members :
              f[i] \in Member /\ f[i].address = members[i].address
    PROVE  SameAddresses(f)
<1>1. f \in [DOMAIN members -> Member]
  OBVIOUS
<1> QED
  BY <1>1, MapOverSeq DEF SameAddresses, IInv, RotationTypeOK

-----------------------------------------------------------------------------
(* Disputes change standings and the circle's status.                      *)

LEMMA RaiseDisputeIsStanding ==
    ASSUME IInv, NEW a, RaiseDispute(a)
    PROVE  StandingStep
<1>1. /\ circle' = [circle EXCEPT !.status = "DISPUTED"]
      /\ UNCHANGED <<rosterVars, configVars, outsideAdmin>>
  BY Zenon DEF RaiseDispute
<1>2. circle \in CircleRecord /\ "DISPUTED" \in CircleStatus
  BY DEF IInv, RotationTypeOK, CircleStatus
<1> QED
  BY <1>1, <1>2, StatusUpdate
     DEF StandingStep, SameAddresses, IInv, RotationTypeOK, rotation, rosterVars, configVars,
         outsideAdmin, roundVars, payoutVars

LEMMA ResolveDisputeIsStanding ==
    ASSUME IInv, NEW a, NEW resolution, ResolveDispute(a, resolution)
    PROVE  StandingStep
<1> DEFINE st == IF resolution = "REFUND" THEN "CANCELLED" ELSE "ACTIVE"
<1>1. /\ circle' = [circle EXCEPT !.status = st]
      /\ UNCHANGED <<configVars, outsideAdmin>>
  BY Zenon DEF ResolveDispute
<1>2. SameAddresses(members')
  <2>1. CASE UNCHANGED members
    BY <2>1 DEF SameAddresses, IInv, RotationTypeOK
  <2>2. ASSUME NEW b, Penalize(b)  PROVE SameAddresses(members')
    <3>1. members' = [i \in DOMAIN members |->
             IF members[i].address = b
             THEN [members[i] EXCEPT !.strikes = @ + 1, !.status = "DEFAULTED"]
             ELSE members[i]]
      BY <2>2, Zenon DEF Penalize
    <3>2. ASSUME NEW i \in DOMAIN members
          PROVE  members'[i] \in Member /\ members'[i].address = members[i].address
      <4>1. members[i].strikes + 1 \in Nat /\ "DEFAULTED" \in MemberStatus
        BY MemberTypes DEF MemberStatus
      <4> QED
        BY <3>1, <4>1, MemberTypes, StrikeUpdate, ZenonT(60)
    <3> QED
      BY <3>1, <3>2, RestandingKeepsAddresses, Zenon
  <2>3. CASE RefundMembers
    <3>1. members' = [i \in DOMAIN members |-> [members[i] EXCEPT !.total_contributions = 0]]
      BY <2>3, Zenon DEF RefundMembers
    <3>2. ASSUME NEW m \in Member
          PROVE  /\ [m EXCEPT !.total_contributions = 0] \in Member
                 /\ [m EXCEPT !.total_contributions = 0].address = m.address
      BY DEF Member
    <3>3. \A i \in DOMAIN members :
             members'[i] \in Member /\ members'[i].address = members[i].address
      BY <3>1, <3>2, MemberTypes, Zenon
    <3> QED
      BY <3>1, <3>3, RestandingKeepsAddresses, Zenon
  <2> QED
    BY <2>1, <2>2, <2>3, Zenon DEF ResolveDispute
<1>3. circle \in CircleRecord /\ st \in CircleStatus
  BY DEF IInv, RotationTypeOK, CircleStatus
<1> HIDE DEF st
<1> QED
  BY <1>1, <1>2, <1>3, StatusUpdate
     DEF StandingStep, IInv, RotationTypeOK, rotation, configVars, outsideAdmin, roundVars, payoutVars

LEMMA SetTokenIsStanding ==
    ASSUME IInv, NEW a, NEW t \in Token, SetToken(a, t)
    PROVE  StandingStep
<1>1. /\ circle' = [circle EXCEPT !.token = t]
      /\ UNCHANGED <<fee_bps, rosterVars, outsideAdmin>>
  BY Zenon DEF SetToken, unconfigured
<1>2. ASSUME NEW c \in CircleRecord
      PROVE  LET d == [c EXCEPT !.token = t]
             IN  /\ d \in CircleRecord
                 /\ d.current_round = c.current_round /\ d.payout_bitmap = c.payout_bitmap
                 /\ d.member_count = c.member_count
  BY DEF CircleRecord
<1>3. circle \in CircleRecord
  BY DEF IInv, RotationTypeOK
<1> QED
  BY <1>1, <1>2, <1>3
     DEF StandingStep, SameAddresses, IInv, RotationTypeOK, rotation, rosterVars,
         outsideAdmin, roundVars, payoutVars

LEMMA AdminNextIsStanding ==
    ASSUME IInv, AdminNext
    PROVE  StandingStep
<1> DEFINE Office == UNCHANGED <<circle, rosterVars, outsideAdmin>> /\ fee_bps' \in 0..10000
<1>1. fee_bps \in 0..10000 /\ FeeChoices \subseteq 0..10000
  BY BoundAssumption DEF IInv
<1>2. ASSUME NEW a, ClaimBonus(a) \/ Pause(a) \/ Unpause(a) \/ SetTreasury(a)  PROVE Office
  <2>1. ASSUME ClaimBonus(a)  PROVE UNCHANGED <<circle, rosterVars, outsideAdmin, fee_bps>>
    BY <2>1 DEF ClaimBonus, configVars
  <2>2. ASSUME Pause(a) \/ Unpause(a) \/ SetTreasury(a)
        PROVE  UNCHANGED <<circle, rosterVars, outsideAdmin, fee_bps>>
    BY <2>2 DEF Pause, Unpause, SetTreasury, unconfigured
  <2>3. UNCHANGED <<circle, rosterVars, outsideAdmin, fee_bps>>
    BY <1>2, <2>1, <2>2, Zenon
  <2> QED
    BY <1>1, <2>3
<1>3. ASSUME NEW a, NEW amount, WithdrawTreasury(a, amount)  PROVE Office
  BY <1>1, <1>3 DEF WithdrawTreasury, configVars
<1>4. ASSUME NEW a, NEW b, RegisterReferral(a, b)  PROVE Office
  BY <1>1, <1>4 DEF RegisterReferral, configVars
<1>5. ASSUME NEW a, NEW r, UpdateStreak(a, r)  PROVE Office
  BY <1>1, <1>5 DEF UpdateStreak, configVars
<1>6. ASSUME NEW a, NEW bps \in FeeChoices, SetFeeBps(a, bps)  PROVE Office
  BY <1>1, <1>6, SMTT(60) DEF SetFeeBps, unconfigured
<1>7. ASSUME NEW a, NEW allowed, SetAllowlist(a, allowed)  PROVE Office
  BY <1>1, <1>7 DEF SetAllowlist, unconfigured
<1>8. ASSUME NEW bps \in FeeChoices, ConfigureFromFactory(bps)  PROVE Office
  BY <1>1, <1>8, SMTT(60) DEF ConfigureFromFactory, unconfigured
<1>9. ASSUME Office  PROVE StandingStep
  <2>1. Setting
    BY <1>9 DEF Setting, Untouched, IInv, RotationTypeOK, outsideAdmin, rotation, rosterVars,
                roundVars, payoutVars
  <2> QED
    BY <2>1, SettingIsStanding
<1> HIDE DEF Office
<1> QED
  BY <1>2, <1>3, <1>4, <1>5, <1>6, <1>7, <1>8, <1>9, RaiseDisputeIsStanding,
     ResolveDisputeIsStanding, SetTokenIsStanding, Zenon DEF AdminNext

-----------------------------------------------------------------------------
(* Members who leave, are reported, or are sent home.                      *)

LEMMA ExitIsStanding ==
    ASSUME IInv, NEW m, Exit(m)
    PROVE  StandingStep
<1>1. /\ members' = [i \in DOMAIN members |->
            IF members[i].address = m THEN [members[i] EXCEPT !.status = "EXITED"]
                                      ELSE members[i]]
      /\ UNCHANGED <<circle, outsideRoster>>
  BY Zenon DEF Exit
<1>2. ASSUME NEW x \in Member
      PROVE  /\ [x EXCEPT !.status = "EXITED"] \in Member
             /\ [x EXCEPT !.status = "EXITED"].address = x.address
  BY DEF Member, MemberStatus
<1>3. \A i \in DOMAIN members :
         members'[i] \in Member /\ members'[i].address = members[i].address
  BY <1>1, <1>2, MemberTypes, Zenon
<1>4. SameAddresses(members')
  BY <1>1, <1>3, RestandingKeepsAddresses, Zenon
<1> QED
  BY <1>1, <1>4 DEF StandingStep, IInv, RotationTypeOK, outsideRoster, rotation, roundVars,
                    payoutVars, configVars

LEMMA ReportLateIsStanding ==
    ASSUME IInv, NEW late, NEW r, ReportLate(late, r)
    PROVE  StandingStep
<1> DEFINE Standing(m) == IF m.strikes + 2 >= MaxStrikes THEN "DEFAULTED" ELSE m.status
<1>1. members' = [i \in DOMAIN members |->
         IF members[i].address = late
         THEN [members[i] EXCEPT !.strikes = @ + 2, !.status = Standing(members[i])]
         ELSE members[i]]
  BY DEF ReportLate
<1>2. ASSUME NEW i \in DOMAIN members
      PROVE  members'[i] \in Member /\ members'[i].address = members[i].address
  <2>1. members[i].strikes + 2 \in Nat /\ Standing(members[i]) \in MemberStatus
    BY MemberTypes DEF Member, MemberStatus
  <2> HIDE DEF Standing
  <2> QED
    BY <1>1, <2>1, MemberTypes, StrikeUpdate, ZenonT(60)
<1>3. SameAddresses(members')
  <2> HIDE DEF Standing
  <2> QED
    BY <1>1, <1>2, RestandingKeepsAddresses, Zenon
<1>4. UNCHANGED <<circle, outsideRoster>>
  BY DEF ReportLate
<1> QED
  BY <1>3, <1>4 DEF StandingStep, IInv, RotationTypeOK, outsideRoster, rotation, roundVars,
                    payoutVars, configVars

LEMMA CancelCircleIsStanding ==
    ASSUME IInv, NEW m, CancelCircle(m)
    PROVE  StandingStep
<1>1. /\ circle' = [circle EXCEPT !.status = "CANCELLED"]
      /\ UNCHANGED <<rosterVars, outsideRoster>>
  BY Zenon DEF CancelCircle
<1>2. circle \in CircleRecord /\ "CANCELLED" \in CircleStatus
  BY DEF IInv, RotationTypeOK, CircleStatus
<1> QED
  BY <1>1, <1>2, StatusUpdate
     DEF StandingStep, SameAddresses, IInv, RotationTypeOK, outsideRoster, rotation, rosterVars,
         roundVars, payoutVars, configVars

-----------------------------------------------------------------------------
(* Members who join.                                                       *)

LEMMA StartWhenFullStep ==
    ASSUME IInv, NEW n \in Nat, StartWhenFull(n)
    PROVE  /\ circle' \in CircleRecord
           /\ circle'.current_round = circle.current_round
           /\ circle'.payout_bitmap = circle.payout_bitmap
           /\ circle'.total_fees = circle.total_fees
           /\ circle'.total_payouts = circle.total_payouts
           /\ circle'.member_count = n
<1>1. circle \in CircleRecord /\ now \in Nat
  BY DEF IInv, RotationTypeOK
<1>2. circle.status \in CircleStatus /\ circle.started_at \in Nat /\ "ACTIVE" \in CircleStatus
  BY <1>1 DEF CircleRecord, CircleStatus
<1>3. PICK st \in CircleStatus, t \in Nat :
         circle' = [circle EXCEPT !.member_count = n, !.status = st, !.started_at = t]
  BY <1>1, <1>2 DEF StartWhenFull
<1> DEFINE Like(d, e) == /\ d.current_round = e.current_round
                         /\ d.payout_bitmap = e.payout_bitmap
                         /\ d.total_fees = e.total_fees
                         /\ d.total_payouts = e.total_payouts
           counted == [circle EXCEPT !.member_count = n]
           started == [counted EXCEPT !.status = st]
           timed == [started EXCEPT !.started_at = t]
<1>4. circle' = timed
  BY <1>3, Zenon
<1>5. counted \in CircleRecord /\ Like(counted, circle) /\ counted.member_count = n
  BY <1>1 DEF CircleRecord
<1>6. ASSUME NEW x \in CircleRecord
      PROVE  LET y == [x EXCEPT !.status = st]
             IN  y \in CircleRecord /\ Like(y, x) /\ y.member_count = x.member_count
  BY DEF CircleRecord
<1>7. ASSUME NEW x \in CircleRecord
      PROVE  LET y == [x EXCEPT !.started_at = t]
             IN  y \in CircleRecord /\ Like(y, x) /\ y.member_count = x.member_count
  BY DEF CircleRecord
<1> HIDE DEF counted
<1>8. started \in CircleRecord /\ Like(started, circle) /\ started.member_count = n
  BY <1>5, <1>6, Zenon
<1> HIDE DEF started
<1>9. timed \in CircleRecord /\ Like(timed, circle) /\ timed.member_count = n
  BY <1>7, <1>8, Zenon
<1> QED
  BY <1>4, <1>9, Zenon

LEMMA EnrollmentKeepsIInv ==
    ASSUME IInv, NEW new \in Seq(Member),
           \A j \in DOMAIN new : ~IsMember(members, new[j].address),
           \A j, k \in DOMAIN new : new[j].address = new[k].address => j = k,
           Len(members) + Len(new) <= MaxMembers,
           members' = members \o new,
           StartWhenFull(Len(members) + Len(new)),
           UNCHANGED <<rotation, fee_bps, now>>
    PROVE  IInv'
<1>1. /\ members \in Seq(Member) /\ Len(members) \in Nat /\ Len(new) \in Nat
      /\ DOMAIN members = 1..Len(members) /\ DOMAIN new = 1..Len(new)
  BY LenProperties DEF IInv, RotationTypeOK
<1>2. /\ members' \in Seq(Member) /\ Len(members') = Len(members) + Len(new)
      /\ \A i \in 1..(Len(members) + Len(new)) :
            members'[i] = IF i <= Len(members) THEN members[i] ELSE new[i - Len(members)]
  BY <1>1, ConcatProperties
<1>3. DOMAIN members' = 1..(Len(members) + Len(new))
  BY <1>2, LenProperties
<1>4. \A i \in DOMAIN members : i \in DOMAIN members' /\ members'[i] = members[i]
  BY <1>1, <1>2, <1>3
<1>5. /\ circle' \in CircleRecord
      /\ circle'.current_round = circle.current_round
      /\ circle'.payout_bitmap = circle.payout_bitmap
      /\ circle'.member_count = Len(members')
  BY <1>1, <1>2, StartWhenFullStep
<1>6. RotationTypeOK'
  BY <1>2, <1>5 DEF IInv, RotationTypeOK, rotation
<1>7. Roster'
  <2>1. ASSUME NEW i \in DOMAIN members', NEW j \in DOMAIN members',
               members'[i].address = members'[j].address, i < j
        PROVE  FALSE
    <3>1. CASE j <= Len(members)
      BY <1>1, <1>3, <1>4, <2>1, <3>1 DEF IInv, Roster
    <3>2. CASE i <= Len(members) /\ ~(j <= Len(members))
      <4>1. i \in DOMAIN members /\ members'[i] = members[i]
        BY <1>1, <1>2, <1>3, <3>2
      <4>2. j - Len(members) \in DOMAIN new /\ members'[j] = new[j - Len(members)]
        BY <1>1, <1>2, <1>3, <3>2
      <4> QED
        BY <2>1, <4>1, <4>2 DEF IsMember, MemberAt
    <3>3. CASE ~(i <= Len(members))
      <4>1. i - Len(members) \in DOMAIN new /\ members'[i] = new[i - Len(members)]
        BY <1>1, <1>2, <1>3, <3>3
      <4>2. j - Len(members) \in DOMAIN new /\ members'[j] = new[j - Len(members)]
        BY <1>1, <1>2, <1>3, <2>1, <3>3
      <4> QED
        BY <1>1, <1>3, <2>1, <4>1, <4>2
    <3> QED
      BY <3>1, <3>2, <3>3
  <2> QED
    BY <1>1, <1>2, <1>3, <1>5, <2>1 DEF Roster
<1>8. Settlements'
  BY <1>4, <1>5 DEF IInv, Settlements, Unpaid, rotation
<1>9. Bitmap'
  BY <1>4, <1>5 DEF IInv, Bitmap
<1> QED
  BY <1>6, <1>7, <1>8, <1>9 DEF IInv

LEMMA NewMemberType == \A a \in Address : NewMember(a) \in Member /\ NewMember(a).address = a
BY DEF NewMember, Member, MemberStatus

LEMMA JoinKeepsIInv ==
    ASSUME IInv, NEW m \in Address, Join(m)
    PROVE  IInv'
<1> DEFINE new == <<NewMember(m)>>
<1>1. /\ members \in Seq(Member) /\ Len(members) \in Nat
      /\ new \in Seq(Member) /\ Len(new) = 1 /\ DOMAIN new = 1..1 /\ new[1].address = m
  BY NewMemberType, LenProperties DEF IInv, RotationTypeOK
<1>2. members' = members \o new /\ Len(members) + Len(new) <= MaxMembers
  <2>1. Append(members, NewMember(m)) = members \o new
    BY <1>1, NewMemberType, AppendIsConcat
  <2>2. Len(members) < MaxMembers /\ MaxMembers \in Nat
    BY ConfigAssumption DEF Join
  <2> QED
    BY <1>1, <2>1, <2>2 DEF Join
<1>3. StartWhenFull(Len(members) + Len(new))
  BY <1>1 DEF Join, IInv, Roster
<1>4. UNCHANGED <<rotation, fee_bps, now>>
  BY DEF Join, outsideRoster, rotation, roundVars, payoutVars, configVars
<1>5. \A j \in DOMAIN new : ~IsMember(members, new[j].address)
  BY <1>1 DEF Join
<1>6. \A j, k \in DOMAIN new : new[j].address = new[k].address => j = k
  BY <1>1
<1> HIDE DEF new
<1> QED
  BY <1>1, <1>2, <1>3, <1>4, <1>5, <1>6, EnrollmentKeepsIInv, Zenon

LEMMA BatchInviteKeepsIInv ==
    ASSUME IInv, NEW a, NEW invited \in Seq(Address), BatchInvite(a, invited)
    PROVE  IInv'
<1> DEFINE new == [i \in 1..Len(invited) |-> NewMember(invited[i])]
<1>1. Len(invited) \in Nat /\ DOMAIN invited = 1..Len(invited)
  BY LenProperties
<1>2. new \in [1..Len(invited) -> Member]
  BY <1>1, NewMemberType, ElementOfSeq
<1>3. new \in Seq(Member) /\ DOMAIN new = 1..Len(invited)
  BY <1>1, <1>2, SeqDef
<1>4. Len(new) = Len(invited)
  BY <1>1, <1>3, LenProperties
<1>5. \A j \in DOMAIN new : new[j].address = invited[j]
  BY <1>1, NewMemberType, ElementOfSeq
<1>6. /\ members' = members \o new
      /\ Len(members) + Len(new) <= MaxMembers
      /\ StartWhenFull(Len(members) + Len(new))
      /\ UNCHANGED outsideRoster
  BY <1>4 DEF BatchInvite
<1>7. \A j \in DOMAIN new : ~IsMember(members, new[j].address)
  BY <1>1, <1>3, <1>5 DEF BatchInvite
<1>8. \A j, k \in DOMAIN new : new[j].address = new[k].address => j = k
  BY <1>1, <1>3, <1>5 DEF BatchInvite
<1>9. UNCHANGED <<rotation, fee_bps, now>>
  BY <1>6 DEF outsideRoster, rotation, roundVars, payoutVars, configVars
<1> HIDE DEF new
<1> QED
  BY <1>3, <1>6, <1>7, <1>8, <1>9, EnrollmentKeepsIInv

-----------------------------------------------------------------------------
(* Contributions.                                                          *)

LEMMA ContributeKeepsIInv ==
    ASSUME IInv, NEW m \in Address, NEW amount, NEW r \in Rounds, Contribute(m, amount, r)
    PROVE  IInv'
<1> DEFINE entry == [member |-> m, round |-> r, amount |-> amount, timestamp |-> now,
                     on_time |-> OnTime]
<1>1. /\ amount = ContributionAmount
      /\ circle' = [circle EXCEPT !.total_fees = @ + LatePenalty(amount)]
      /\ contributions' = contributions \cup {entry}
      /\ member_contributed' = member_contributed \cup {<<m, r>>}
      /\ round_total' = [round_total EXCEPT ![r] = @ + amount]
      /\ round_contributors' = [round_contributors EXCEPT ![r] = @ \cup {m}]
      /\ UNCHANGED <<rosterVars, payoutVars, configVars, now>>
  BY Zenon DEF Contribute
<1>2. amount \in Nat /\ now \in Nat
  BY <1>1, ConfigAssumption DEF IInv, RotationTypeOK
<1>3. OnTime \in BOOLEAN
  BY Zenon DEF OnTime
<1>4. entry \in Contribution
  BY <1>1, <1>2, <1>3, Zenon DEF Contribution
<1>5. LatePenalty(amount) \in Nat
  BY <1>2, ConfigAssumption, PercentageType DEF LatePenalty
<1> HIDE DEF entry
<1>6. /\ circle' \in CircleRecord
      /\ circle'.current_round = circle.current_round
      /\ circle'.payout_bitmap = circle.payout_bitmap
      /\ circle'.member_count = circle.member_count
  <2>1. circle \in CircleRecord
    BY DEF IInv, RotationTypeOK
  <2>2. circle.total_fees + LatePenalty(amount) \in Int
    BY <1>5, <2>1 DEF CircleRecord
  <2>3. ASSUME NEW n \in Int
        PROVE  LET c == [circle EXCEPT !.total_fees = n]
               IN  /\ c \in CircleRecord
                   /\ c.current_round = circle.current_round
                   /\ c.payout_bitmap = circle.payout_bitmap
                   /\ c.member_count = circle.member_count
    BY <2>1 DEF CircleRecord
  <2> QED
    BY <1>1, <2>2, <2>3, Zenon
<1>7. /\ contributions' \subseteq Contribution
      /\ member_contributed' \subseteq Address \X Rounds
  BY <1>1, <1>4 DEF IInv, RotationTypeOK
<1>8. /\ round_total' \in [Rounds -> Nat]
      /\ round_contributors' \in [Rounds -> SUBSET Address]
  BY <1>1, <1>2 DEF IInv, RotationTypeOK
<1>9. UNCHANGED <<members, settled, fee_bps, now>>
  BY <1>1 DEF rosterVars, payoutVars, configVars
<1>10. RotationTypeOK'
  BY <1>6, <1>7, <1>8, <1>9 DEF IInv, RotationTypeOK
<1>11. SameAddresses(members')
  BY <1>9 DEF IInv, RotationTypeOK, SameAddresses
<1>12. Roster' /\ Settlements' /\ Bitmap'
  BY <1>6, <1>9, <1>11, BooksAreKept
<1> QED
  BY <1>9, <1>10, <1>12 DEF IInv

-----------------------------------------------------------------------------
(* The settlement of a round.                                              *)

LEMMA ResolveUnpaid ==
    ASSUME NEW ms, NEW r, NEW i \in Resolve(ms, r)
    PROVE  i \in DOMAIN ms /\ Unpaid(i)
<1>1. PayoutType \in {"RANDOM", "FIXED", "AUCTION", "VOTE"}
  BY ConfigAssumption DEF PayoutTypes
<1>2. CASE PayoutType = "RANDOM"
  BY <1>2, Zenon DEF Resolve, ResolveRandom, ActiveIn
<1>3. CASE PayoutType = "FIXED"
  BY <1>3 DEF Resolve, ResolveFixed, ActiveIn
<1>4. CASE PayoutType = "AUCTION"
  BY <1>4 DEF Resolve, ResolveAuction, ActiveIn
<1>5. CASE PayoutType = "VOTE"
  BY <1>5 DEF Resolve, ResolveVote, ActiveIn
<1> QED
  BY <1>1, <1>2, <1>3, <1>4, <1>5

\* What a settled round writes into the circle's record.
LEMMA CircleAfterFields ==
    ASSUME IInv, NEW i \in DOMAIN members, NEW net \in Int, NEW fee \in Int
    PROVE  /\ CircleAfter(i, net, fee) \in CircleRecord
           /\ CircleAfter(i, net, fee).current_round = circle.current_round + 1
           /\ CircleAfter(i, net, fee).payout_bitmap = circle.payout_bitmap \cup {Position(i)}
           /\ CircleAfter(i, net, fee).member_count = circle.member_count
           /\ CircleAfter(i, net, fee).total_fees = circle.total_fees + fee
           /\ CircleAfter(i, net, fee).total_payouts = circle.total_payouts + net
<1> DEFINE Like(d, e) == /\ d.current_round = e.current_round
                         /\ d.payout_bitmap = e.payout_bitmap
                         /\ d.member_count = e.member_count
           st == IF circle.current_round + 1 >= TotalRounds THEN "COMPLETED" ELSE circle.status
           marked == [circle EXCEPT !.payout_bitmap = @ \cup {Position(i)}]
           advanced == [marked EXCEPT !.current_round = circle.current_round + 1]
           paid == [advanced EXCEPT !.total_payouts = circle.total_payouts + net]
           charged == [paid EXCEPT !.total_fees = circle.total_fees + fee]
           closed == [charged EXCEPT !.status = st]
<1>1. /\ circle \in CircleRecord /\ circle.current_round + 1 \in Nat
      /\ circle.total_payouts + net \in Int /\ circle.total_fees + fee \in Int
      /\ st \in CircleStatus
  BY DEF IInv, RotationTypeOK, CircleRecord, CircleStatus
<1>2. Position(i) \in 0..(MaxMembers - 1)
  BY LenProperties, ConfigAssumption DEF Position, IInv, RotationTypeOK, Roster
<1>3. CircleAfter(i, net, fee) = closed
  BY Zenon DEF CircleAfter
<1> HIDE DEF st
<1>4. /\ marked \in CircleRecord /\ marked.current_round = circle.current_round
      /\ marked.payout_bitmap = circle.payout_bitmap \cup {Position(i)}
      /\ marked.member_count = circle.member_count
      /\ marked.total_fees = circle.total_fees
      /\ marked.total_payouts = circle.total_payouts
  BY <1>1, <1>2 DEF CircleRecord
<1>5. ASSUME NEW x \in CircleRecord, NEW n \in Nat
      PROVE  LET y == [x EXCEPT !.current_round = n]
             IN  /\ y \in CircleRecord /\ y.current_round = n
                 /\ y.payout_bitmap = x.payout_bitmap /\ y.member_count = x.member_count
                 /\ y.total_fees = x.total_fees /\ y.total_payouts = x.total_payouts
  BY DEF CircleRecord
<1>6. ASSUME NEW x \in CircleRecord, NEW n \in Int
      PROVE  /\ [x EXCEPT !.total_payouts = n] \in CircleRecord
             /\ Like([x EXCEPT !.total_payouts = n], x)
             /\ [x EXCEPT !.total_payouts = n].total_fees = x.total_fees
             /\ [x EXCEPT !.total_payouts = n].total_payouts = n
             /\ [x EXCEPT !.total_fees = n] \in CircleRecord
             /\ Like([x EXCEPT !.total_fees = n], x)
             /\ [x EXCEPT !.total_fees = n].total_fees = n
             /\ [x EXCEPT !.total_fees = n].total_payouts = x.total_payouts
  BY DEF CircleRecord
<1>7. ASSUME NEW x \in CircleRecord
      PROVE  /\ [x EXCEPT !.status = st] \in CircleRecord /\ Like([x EXCEPT !.status = st], x)
             /\ [x EXCEPT !.status = st].total_fees = x.total_fees
             /\ [x EXCEPT !.status = st].total_payouts = x.total_payouts
  BY <1>1 DEF CircleRecord
<1> HIDE DEF marked
<1>8. /\ advanced \in CircleRecord /\ advanced.current_round = circle.current_round + 1
      /\ advanced.payout_bitmap = marked.payout_bitmap
      /\ advanced.member_count = marked.member_count
      /\ advanced.total_fees = marked.total_fees
      /\ advanced.total_payouts = marked.total_payouts
  BY <1>1, <1>4, <1>5, Zenon
<1> HIDE DEF advanced
<1>9. paid \in CircleRecord /\ Like(paid, advanced) /\ paid.total_fees = advanced.total_fees
      /\ paid.total_payouts = circle.total_payouts + net
  BY <1>1, <1>6, <1>8, Zenon
<1> HIDE DEF paid
<1>10. /\ charged \in CircleRecord /\ Like(charged, paid)
       /\ charged.total_fees = circle.total_fees + fee
       /\ charged.total_payouts = paid.total_payouts
  BY <1>1, <1>6, <1>9, Zenon
<1> HIDE DEF charged
<1>11. /\ closed \in CircleRecord /\ Like(closed, charged)
       /\ closed.total_fees = charged.total_fees
       /\ closed.total_payouts = charged.total_payouts
  BY <1>7, <1>10, Zenon
<1> HIDE DEF closed
<1> QED
  BY <1>3, <1>4, <1>8, <1>9, <1>10, <1>11, Zenon

LEMMA PositionsAreFinite == IsFiniteSet(0..(MaxMembers - 1))
<1>1. 0 \in Int /\ MaxMembers - 1 \in Int
  BY ConfigAssumption
<1> QED
  BY <1>1, FS_Interval

\* The bitmap is a finite set.
LEMMA BitmapIsFinite ==
    ASSUME IInv
    PROVE  IsFiniteSet(circle.payout_bitmap) /\ Cardinality(circle.payout_bitmap) \in Nat
<1>1. circle.payout_bitmap \subseteq 0..(MaxMembers - 1)
  BY DEF IInv, RotationTypeOK, CircleRecord
<1> QED
  BY <1>1, PositionsAreFinite, FS_Subset, FS_CardinalityType

\* A settled round pays one member of the list it was resolved on.
LEMMA SettleEffects ==
    ASSUME IInv, NEW ms, NEW r \in Rounds, SettleRound(ms, r)
    PROVE  /\ r = circle.current_round
           /\ UNCHANGED <<roundVars, configVars, now>>
           /\ \E i \in Resolve(ms, r) : \E net, fee, amount, charge \in Int :
                 /\ circle' = CircleAfter(i, net, fee)
                 /\ settled' = Append(settled, [recipient |-> ms[i].address, round |-> r,
                                                amount |-> amount, fee |-> charge])
<1> DEFINE fee == Percentage(round_total[r], fee_bps)
           net == round_total[r] - fee
           amount == IF net > 0 THEN net ELSE 0
           charge == IF net > 0 THEN fee ELSE 0
<1>1. round_total[r] \in Nat /\ fee_bps \in Nat
  BY DEF IInv, RotationTypeOK
<1>2. fee \in Nat
  BY <1>1, PercentageType
<1>3. net \in Int /\ amount \in Int /\ charge \in Int
  BY <1>1, <1>2
<1>4. r = circle.current_round /\ UNCHANGED <<roundVars, configVars, now>>
  BY Zenon DEF SettleRound
<1>5. PICK i \in Resolve(ms, r) :
         /\ \/ net <= 0 /\ SettleEmpty(i)
            \/ net > 0 /\ SettleFunded(ms, i, r, net, fee)
         /\ settled' = Append(settled, [recipient |-> ms[i].address, round |-> r,
                                        amount |-> amount, fee |-> charge])
  BY Zenon DEF SettleRound
<1>6. SettleEmpty(i) => circle' = CircleAfter(i, 0, 0)
  BY Zenon DEF SettleEmpty
<1>7. SettleFunded(ms, i, r, net, fee) => circle' = CircleAfter(i, net, fee)
  BY Zenon DEF SettleFunded
<1>8. 0 \in Int /\ fee \in Int
  BY <1>2
<1> HIDE DEF fee, net, amount, charge
<1>9. \E n, f \in Int : circle' = CircleAfter(i, n, f)
  BY <1>3, <1>5, <1>6, <1>7, <1>8, Zenon
<1> QED
  BY <1>3, <1>4, <1>5, <1>9, Zenon

LEMMA SettleKeepsIInv ==
    ASSUME IInv, NEW ms, NEW r \in Rounds, SettleRound(ms, r),
           SameAddresses(ms), members' = ms
    PROVE  IInv'
<1>1. /\ r = circle.current_round
      /\ UNCHANGED <<roundVars, configVars, now>>
  BY SettleEffects
<1>2. PICK i \in Resolve(ms, r), net \in Int, fee \in Int, amount \in Int, charge \in Int :
         /\ circle' = CircleAfter(i, net, fee)
         /\ settled' = Append(settled, [recipient |-> ms[i].address, round |-> r,
                                        amount |-> amount, fee |-> charge])
  BY SettleEffects, Zenon
<1> DEFINE paid == [recipient |-> ms[i].address, round |-> r, amount |-> amount, fee |-> charge]
<1>3. i \in DOMAIN ms /\ Unpaid(i)
  BY ResolveUnpaid
<1>4. /\ DOMAIN ms = DOMAIN members /\ ms \in Seq(Member) /\ Len(ms) = Len(members)
      /\ \A j \in DOMAIN members : ms[j].address = members[j].address
  BY LenProperties DEF SameAddresses, IInv, RotationTypeOK
<1>5. /\ circle' \in CircleRecord
      /\ circle'.current_round = circle.current_round + 1
      /\ circle'.payout_bitmap = circle.payout_bitmap \cup {Position(i)}
      /\ circle'.member_count = circle.member_count
  <2>1. i \in DOMAIN members
    BY <1>3, <1>4
  <2>2. circle' = CircleAfter(i, net, fee)
    BY <1>2
  <2> QED
    BY <2>1, <2>2, CircleAfterFields
<1>6. paid \in Settlement
  <2>1. ms[i] \in Member
    BY <1>3, <1>4, ElementOfSeq, LenProperties
  <2>2. ms[i].address \in Address
    BY <2>1 DEF Member
  <2> QED
    BY <2>2, Zenon DEF Settlement
<1>7. paid.recipient = members[i].address /\ paid.round = circle.current_round
  BY <1>1, <1>3, <1>4
<1> HIDE DEF paid
<1>8. /\ settled \in Seq(Settlement) /\ Len(settled) = circle.current_round
      /\ Len(settled) \in Nat /\ DOMAIN settled = 1..Len(settled)
  BY LenProperties DEF IInv, RotationTypeOK, Settlements
<1>9. /\ settled' \in Seq(Settlement) /\ Len(settled') = Len(settled) + 1
      /\ \A k \in 1..Len(settled) : settled'[k] = settled[k]
      /\ settled'[Len(settled) + 1] = paid
  BY <1>2, <1>6, <1>8, AppendProperties DEF paid
<1>10. DOMAIN settled' = 1..(Len(settled) + 1)
  BY <1>9, LenProperties
<1>11. RotationTypeOK'
  BY <1>1, <1>4, <1>5, <1>9 DEF IInv, RotationTypeOK, roundVars
<1>12. Roster'
  BY <1>4, <1>5 DEF IInv, Roster
<1>13. Settlements'
  <2>1. Len(settled') = circle'.current_round
    BY <1>5, <1>8, <1>9
  <2>2. \A k \in DOMAIN settled' : settled'[k].round = k - 1
    BY <1>7, <1>8, <1>9, <1>10, SMTT(60) DEF IInv, Settlements
  <2>3. ASSUME NEW k \in DOMAIN settled'
        PROVE  \E j \in DOMAIN members' :
                  members'[j].address = settled'[k].recipient /\ Position(j) \in circle'.payout_bitmap
    <3>1. CASE k = Len(settled) + 1
      BY <1>3, <1>4, <1>5, <1>7, <1>9, <3>1
    <3>2. CASE k \in DOMAIN settled
      BY <1>4, <1>5, <1>8, <1>9, <3>2 DEF IInv, Settlements, Unpaid
    <3> QED
      BY <1>8, <1>10, <3>1, <3>2
  <2>4. ASSUME NEW k \in DOMAIN settled, settled[k].recipient = paid.recipient
        PROVE  FALSE
    BY <1>3, <1>4, <1>7, <2>4 DEF IInv, Settlements, Roster, Unpaid
  <2>5. ASSUME NEW j \in DOMAIN settled', NEW k \in DOMAIN settled',
               settled'[j].recipient = settled'[k].recipient
        PROVE  j = k
    <3>1. CASE j \in DOMAIN settled /\ k \in DOMAIN settled
      BY <1>8, <1>9, <2>5, <3>1 DEF IInv, Settlements
    <3>2. CASE j = Len(settled) + 1 \/ k = Len(settled) + 1
      BY <1>8, <1>9, <1>10, <2>4, <2>5, <3>2
    <3> QED
      BY <1>8, <1>10, <3>1, <3>2
  <2> QED
    BY <2>1, <2>2, <2>3, <2>5 DEF Settlements, Unpaid
<1>14. Bitmap'
  <2>1. Position(i) \notin circle.payout_bitmap
    BY <1>3 DEF Unpaid
  <2>2. Cardinality(circle'.payout_bitmap) = Cardinality(circle.payout_bitmap) + 1
    BY <1>5, <2>1, BitmapIsFinite, FS_AddElement, ZenonT(60)
  <2>3. circle'.payout_bitmap \subseteq {Position(j) : j \in DOMAIN members'}
    BY <1>3, <1>4, <1>5 DEF IInv, Bitmap
  <2>4. circle'.current_round <= Cardinality(circle'.payout_bitmap)
    BY <1>5, <1>8, <2>2, BitmapIsFinite DEF IInv, Bitmap
  <2> QED
    BY <2>3, <2>4 DEF Bitmap
<1> QED
  BY <1>1, <1>11, <1>12, <1>13, <1>14 DEF IInv, configVars

LEMMA TriggerPayoutKeepsIInv ==
    ASSUME IInv, NEW a, NEW r \in Rounds, TriggerPayout(a, r)
    PROVE  IInv'
<1>1. SettleRound(members, r) /\ UNCHANGED rosterVars
  BY Zenon DEF TriggerPayout
<1>2. members' = members
  BY <1>1 DEF rosterVars
<1>3. SameAddresses(members)
  BY DEF SameAddresses, IInv, RotationTypeOK
<1> QED
  BY <1>1, <1>2, <1>3, SettleKeepsIInv, Zenon

LEMMA SweptKeepsAddresses ==
    ASSUME IInv, NEW r \in Rounds
    PROVE  SameAddresses(Swept(r))
<1> DEFINE Standing(m) == IF m.strikes + 1 >= MaxStrikes THEN "DEFAULTED" ELSE m.status
<1>1. Swept(r) = [i \in DOMAIN members |->
         IF i \in Awaiting(members, r)
         THEN [members[i] EXCEPT !.strikes = @ + 1, !.status = Standing(members[i])]
         ELSE members[i]]
  BY DEF Swept
<1>2. ASSUME NEW i \in DOMAIN members
      PROVE  Swept(r)[i] \in Member /\ Swept(r)[i].address = members[i].address
  <2>1. members[i].strikes + 1 \in Nat /\ Standing(members[i]) \in MemberStatus
    BY MemberTypes DEF Member, MemberStatus
  <2> HIDE DEF Standing
  <2>2. CASE i \in Awaiting(members, r)
    <3> DEFINE struck == [members[i] EXCEPT !.strikes = members[i].strikes + 1,
                                            !.status = Standing(members[i])]
    <3>1. Swept(r)[i] = struck
      BY <1>1, <2>2, Zenon
    <3>2. struck \in Member /\ struck.address = members[i].address
      BY <2>1, MemberTypes, StrikeUpdate, Zenon
    <3> HIDE DEF struck
    <3> QED
      BY <3>1, <3>2, Zenon
  <2>3. CASE i \notin Awaiting(members, r)
    <3>1. Swept(r)[i] = members[i]
      BY <1>1, <2>3, Zenon
    <3> QED
      BY <3>1, MemberTypes, Zenon
  <2> QED
    BY <2>2, <2>3
<1> HIDE DEF Standing
<1> QED
  BY <1>1, <1>2, RestandingKeepsAddresses, Zenon

LEMMA CheckContributionDeadlineKeepsIInv ==
    ASSUME IInv, NEW r \in Rounds, CheckContributionDeadline(r)
    PROVE  IInv'
<1>1. SettleRound(Swept(r), r) /\ members' = Swept(r)
  BY Zenon DEF CheckContributionDeadline
<1> QED
  BY <1>1, SweptKeepsAddresses, SettleKeepsIInv, Zenon

LEMMA SchedulePayoutIsStanding ==
    ASSUME IInv, NEW a, NEW r, SchedulePayout(a, r)
    PROVE  StandingStep
<1>1. UNCHANGED <<circle, rosterVars, roundVars, payoutVars, configVars, now>>
  BY Zenon DEF SchedulePayout
<1>2. Setting
  BY <1>1 DEF Setting, Untouched, IInv, RotationTypeOK, rotation, rosterVars, roundVars,
              payoutVars, configVars
<1> QED
  BY <1>2, SettingIsStanding

\* batch_payout marks positions of members, so the bitmap only grows.
LEMMA BatchPayoutKeepsIInv ==
    ASSUME IInv, NEW a, NEW recipients, NEW amounts, NEW r,
           BatchPayout(a, recipients, amounts, r)
    PROVE  IInv'
<1> DEFINE marked == {Position(i) : i \in UNION {MemberAt(members, recipients[k]) :
                                                   k \in DOMAIN recipients}}
<1>1. /\ circle' = [circle EXCEPT !.payout_bitmap = @ \cup marked]
      /\ UNCHANGED <<rosterVars, roundVars, settled, configVars, now>>
  BY Zenon DEF BatchPayout
<1>2. marked \subseteq {Position(i) : i \in DOMAIN members}
  BY DEF MemberAt
<1>3. {Position(i) : i \in DOMAIN members} \subseteq 0..(MaxMembers - 1)
  BY LenProperties, ConfigAssumption DEF Position, IInv, RotationTypeOK, Roster
<1> HIDE DEF marked
<1>4. /\ circle' \in CircleRecord
      /\ circle'.current_round = circle.current_round
      /\ circle'.payout_bitmap = circle.payout_bitmap \cup marked
      /\ circle'.member_count = circle.member_count
  <2>1. circle \in CircleRecord
    BY DEF IInv, RotationTypeOK
  <2>2. circle.payout_bitmap \cup marked \in SUBSET (0..(MaxMembers - 1))
    BY <1>2, <1>3, <2>1 DEF CircleRecord
  <2>3. ASSUME NEW bits \in SUBSET (0..(MaxMembers - 1))
        PROVE  LET c == [circle EXCEPT !.payout_bitmap = bits]
               IN  /\ c \in CircleRecord
                   /\ c.current_round = circle.current_round
                   /\ c.payout_bitmap = bits
                   /\ c.member_count = circle.member_count
    BY <2>1 DEF CircleRecord
  <2> QED
    BY <1>1, <2>2, <2>3, Zenon
<1>5. UNCHANGED <<members, rotation, fee_bps, now>>
  BY <1>1 DEF rosterVars, roundVars, configVars, rotation
<1>6. RotationTypeOK' /\ Roster'
  BY <1>4, <1>5 DEF IInv, RotationTypeOK, Roster, rotation
<1>7. Settlements'
  BY <1>4, <1>5 DEF IInv, Settlements, Unpaid, rotation
<1>8. Bitmap'
  <2>1. IsFiniteSet(circle'.payout_bitmap)
    <3>1. circle'.payout_bitmap \in SUBSET (0..(MaxMembers - 1))
      BY <1>4 DEF CircleRecord
    <3> QED
      BY <3>1, PositionsAreFinite, FS_Subset
  <2>2. /\ Cardinality(circle'.payout_bitmap) \in Nat
        /\ Cardinality(circle.payout_bitmap) <= Cardinality(circle'.payout_bitmap)
    BY <1>4, <2>1, FS_Subset, FS_CardinalityType
  <2>3. circle.current_round \in Nat
    BY DEF IInv, RotationTypeOK, CircleRecord
  <2> QED
    BY <1>2, <1>4, <1>5, <2>2, <2>3, BitmapIsFinite DEF IInv, Bitmap
<1> QED
  BY <1>5, <1>6, <1>7, <1>8 DEF IInv

-----------------------------------------------------------------------------
(* The invariant holds initially and is preserved by every step.           *)

LEMMA InvitationTypes ==
    \A invited \in Invitations : invited \in Seq(Address)
<1>1. ASSUME NEW a \in Address, NEW b \in Address
      PROVE  <<a>> \in Seq(Address) /\ <<a, b>> \in Seq(Address)
  OBVIOUS
<1>2. ASSUME NEW invited \in Invitations
      PROVE  \E a, b \in Address : invited = <<a>> \/ invited = <<a, b>>
  BY <1>2 DEF Invitations
<1> QED
  BY <1>1, <1>2

LEMMA MemberNextKeepsIInv ==
    ASSUME IInv, MemberNext
    PROVE  IInv'
BY JoinKeepsIInv, BatchInviteKeepsIInv, ExitIsStanding, CancelCircleIsStanding,
   ReportLateIsStanding, StandingStepKeepsIInv, InvitationTypes, Zenon DEF MemberNext

LEMMA RoundNextKeepsIInv ==
    ASSUME IInv, RoundNext
    PROVE  IInv'
BY ContributeKeepsIInv, TriggerPayoutKeepsIInv, SchedulePayoutIsStanding,
   CheckContributionDeadlineKeepsIInv, BatchPayoutKeepsIInv, StandingStepKeepsIInv, Zenon
   DEF RoundNext

LEMMA TickKeepsIInv ==
    ASSUME IInv, Tick
    PROVE  IInv'
<1>1. Setting
  BY BoundAssumption, SMTT(60) DEF Tick, Setting, Untouched, IInv, RotationTypeOK, rotation, rosterVars,
     roundVars, payoutVars, configVars
<1> QED
  BY <1>1, SettingIsStanding, StandingStepKeepsIInv

LEMMA NextKeepsIInv ==
    ASSUME IInv, [Next]_vars
    PROVE  IInv'
<1>1. CASE UNCHANGED vars
  BY <1>1 DEF vars, IInv, RotationTypeOK, Roster, Settlements, Bitmap, Unpaid, rosterVars,
              roundVars, payoutVars, configVars
<1>2. CASE Next
  BY <1>2, MemberNextKeepsIInv, RoundNextKeepsIInv, BidNextIsStanding, AdminNextIsStanding,
     StandingStepKeepsIInv, TickKeepsIInv, Zenon DEF Next
<1> QED
  BY <1>1, <1>2

LEMMA InitIInv ==
    ASSUME Init
    PROVE  IInv
<1> DEFINE fresh == [status |-> "PENDING", current_round |-> 0, started_at |-> 0,
                     member_count |-> 0, payout_bitmap |-> {}, total_payouts |-> 0,
                     total_fees |-> 0, token |-> Token0]
<1>1. fresh \in CircleRecord
  BY AddressAssumption DEF CircleRecord, CircleStatus
<1>2. /\ circle = fresh /\ members = << >> /\ contributions = {}
      /\ round_contributors = [r \in Rounds |-> {}] /\ round_total = [r \in Rounds |-> 0]
      /\ member_contributed = {} /\ settled = << >> /\ now = 0
  BY Zenon DEF Init
<1>3. fee_bps \in 0..10000
  <2>1. fee_bps = 0 \/ fee_bps \in FeeChoices
    BY Zenon DEF Init
  <2>2. ASSUME NEW bps \in FeeChoices  PROVE bps \in 0..10000
    BY <2>2, BoundAssumption
  <2>3. CASE fee_bps = 0
    BY <2>3
  <2>4. CASE fee_bps \in FeeChoices
    BY <2>2, <2>4
  <2> QED
    BY <2>1, <2>3, <2>4
<1>4. /\ fresh.current_round = 0 /\ fresh.payout_bitmap = {} /\ fresh.member_count = 0
  OBVIOUS
<1> HIDE DEF fresh
<1>5. RotationTypeOK
  BY <1>1, <1>2 DEF RotationTypeOK
<1>6. Roster /\ Settlements
  BY <1>2, <1>4, ConfigAssumption DEF Roster, Settlements
<1>7. Bitmap
  BY <1>2, <1>4, FS_EmptySet DEF Bitmap
<1> QED
  BY <1>3, <1>5, <1>6, <1>7 DEF IInv

-----------------------------------------------------------------------------
(* Theorems about the rotation.                                            *)

\* The inductive invariant holds in every reachable state, of circles of every
\* size, payout type and configuration.
THEOREM RotationInvariant == Spec => []IInv
<1>1. Init => IInv
  BY InitIInv
<1>2. IInv /\ [Next]_vars => IInv'
  BY NextKeepsIInv
<1> QED
  BY <1>1, <1>2, PTL DEF Spec

\* The storage entries of the rotation always hold values of their types: rounds
\* stay numbers of rounds, and the payout bitmap names positions the circle has.
THEOREM RotationTypeCorrect == Spec => []RotationTypeOK
<1>1. IInv => RotationTypeOK
  BY DEF IInv
<1> QED
  BY <1>1, RotationInvariant, PTL

\* No member is ever the recipient of two settled rounds, and rounds are settled
\* one after the other (trigger_payout_internal and the payout bitmap).
THEOREM OneRotationPayout == Spec => []OnePayoutPerMember
<1>1. IInv => OnePayoutPerMember
  BY DEF IInv, Settlements, OnePayoutPerMember
<1> QED
  BY <1>1, RotationInvariant, PTL

\* The current round never outruns the positions that have been paid, and those
\* belong to members, of whom there are at most max_members.
THEOREM RoundsAreBounded == Spec => []RoundsWithinPositions
<1>1. IInv => RoundsWithinPositions
  BY DEF IInv, Roster, Bitmap, RoundsWithinPositions
<1> QED
  BY <1>1, RotationInvariant, PTL

-----------------------------------------------------------------------------
(* The pause switch.                                                       *)

\* What a paused circle keeps.
frozen == <<circle, rosterVars, roundVars, fee_ledger, scheduled, payoutVars, auctionVars,
            dispute, fee_bps, treasury, allowlist, sideVars, balance>>

LEMMA MemberNextNeedsUnpaused ==
    ASSUME MemberNext
    PROVE  ~paused
<1>1. ASSUME NEW m, Join(m) \/ Exit(m) \/ CancelCircle(m)  PROVE ~paused
  BY <1>1, Zenon DEF Join, Exit, CancelCircle
<1>2. ASSUME NEW m, NEW invited, BatchInvite(m, invited)  PROVE ~paused
  BY <1>2, Zenon DEF BatchInvite
<1>3. ASSUME NEW m, NEW r, ReportLate(m, r)  PROVE ~paused
  BY <1>3, Zenon DEF ReportLate
<1> QED
  BY <1>1, <1>2, <1>3, Zenon DEF MemberNext

LEMMA RoundNextNeedsUnpaused ==
    ASSUME RoundNext
    PROVE  ~paused
<1>1. ASSUME NEW m, NEW amount, NEW r, Contribute(m, amount, r)  PROVE ~paused
  BY <1>1, Zenon DEF Contribute
<1>2. ASSUME NEW m, NEW r, TriggerPayout(m, r) \/ SchedulePayout(m, r)  PROVE ~paused
  BY <1>2, Zenon DEF TriggerPayout, SchedulePayout
<1>3. ASSUME NEW r, CheckContributionDeadline(r)  PROVE ~paused
  BY <1>3, Zenon DEF CheckContributionDeadline
<1>4. ASSUME NEW m, NEW recipients, NEW amounts, NEW r, BatchPayout(m, recipients, amounts, r)
      PROVE  ~paused
  BY <1>4, Zenon DEF BatchPayout
<1> QED
  BY <1>1, <1>2, <1>3, <1>4, Zenon DEF RoundNext

LEMMA BidNextNeedsUnpaused ==
    ASSUME BidNext
    PROVE  ~paused
<1>1. ASSUME NEW a, NEW bips, NEW r, PlaceBid(a, bips, r)  PROVE ~paused
  BY <1>1 DEF PlaceBid
<1>2. ASSUME NEW r, NEW limit, RefundLosingBids(r, limit)  PROVE ~paused
  BY <1>2, Zenon DEF RefundLosingBids
<1>3. ASSUME NEW a, NEW r, NEW config, InitDutchAuction(a, r, config)  PROVE ~paused
  BY <1>3 DEF InitDutchAuction
<1>4. ASSUME NEW a, NEW r, DutchAuctionBid(a, r)  PROVE ~paused
  BY <1>4, Zenon DEF DutchAuctionBid
<1>5. ASSUME NEW a, CancelAuction(a)  PROVE ~paused
  BY <1>5, Zenon DEF CancelAuction
<1>6. ASSUME NEW a, NEW b, NEW r, VotePayout(a, b, r)  PROVE ~paused
  BY <1>6, Zenon DEF VotePayout
<1> QED
  BY <1>1, <1>2, <1>3, <1>4, <1>5, <1>6, Zenon DEF BidNext

\* The admin may only flip the switch of a paused circle.
LEMMA AdminNextFreezes ==
    ASSUME AdminNext, paused
    PROVE  UNCHANGED frozen
<1>1. ASSUME NEW a, Pause(a) \/ Unpause(a)  PROVE UNCHANGED frozen
  <2>1. UNCHANGED <<circle, fee_bps, treasury, allowlist, unconfigured>>
    BY <1>1, Zenon DEF Pause, Unpause
  <2> QED
    BY <2>1 DEF frozen, unconfigured, outsideAdmin
<1>2. ASSUME NEW a, RaiseDispute(a) \/ ClaimBonus(a) \/ SetTreasury(a)  PROVE FALSE
  BY <1>2, Zenon DEF RaiseDispute, ClaimBonus, SetTreasury
<1>3. ASSUME NEW a, NEW resolution, ResolveDispute(a, resolution)  PROVE FALSE
  BY <1>3, Zenon DEF ResolveDispute
<1>4. ASSUME NEW a, NEW amount, WithdrawTreasury(a, amount)  PROVE FALSE
  BY <1>4, Zenon DEF WithdrawTreasury
<1>5. ASSUME NEW a, NEW b, RegisterReferral(a, b)  PROVE FALSE
  BY <1>5, Zenon DEF RegisterReferral
<1>6. ASSUME NEW a, NEW r, UpdateStreak(a, r)  PROVE FALSE
  BY <1>6, Zenon DEF UpdateStreak
<1>7. ASSUME NEW a, NEW bps, SetFeeBps(a, bps)  PROVE FALSE
  BY <1>7 DEF SetFeeBps
<1>8. ASSUME NEW a, NEW allowed, SetAllowlist(a, allowed)  PROVE FALSE
  BY <1>8, Zenon DEF SetAllowlist
<1>9. ASSUME NEW a, NEW t, SetToken(a, t)  PROVE FALSE
  BY <1>9, Zenon DEF SetToken
<1>10. ASSUME NEW bps, ConfigureFromFactory(bps)  PROVE FALSE
  BY <1>10 DEF ConfigureFromFactory
<1> QED
  BY <1>1, <1>2, <1>3, <1>4, <1>5, <1>6, <1>7, <1>8, <1>9, <1>10, Zenon DEF AdminNext

\* Pausing stops every entry point but pause and unpause: nothing that the circle
\* stores or holds changes until the admin unpauses it (pause_circle is the
\* emergency stop of README.md; unpause_circle lets state-mutating operations
\* resume).
THEOREM PausedCircleIsFrozen == Spec => PauseFreezes
<1>1. ASSUME [Next]_vars, paused  PROVE UNCHANGED frozen
  <2>1. CASE UNCHANGED vars
    BY <2>1 DEF vars, frozen, configVars
  <2>2. CASE Next
    <3>1. CASE Tick
      BY <3>1 DEF Tick, frozen, configVars
    <3> QED
      BY <1>1, <2>2, <3>1, MemberNextNeedsUnpaused, RoundNextNeedsUnpaused,
         BidNextNeedsUnpaused, AdminNextFreezes, Zenon DEF Next
  <2> QED
    BY <1>1, <2>1, <2>2
<1>2. [Next]_vars => [paused => UNCHANGED frozen]_vars
  BY <1>1
<1> QED
  BY <1>2, PTL DEF Spec, PauseFreezes, frozen
-----------------------------------------------------------------------------
(* What each group of entry points leaves alone.                           *)

SameProgress ==
    /\ circle'.current_round = circle.current_round
    /\ circle'.payout_bitmap = circle.payout_bitmap
    /\ circle'.total_fees = circle.total_fees
    /\ circle'.total_payouts = circle.total_payouts

\* Joining, leaving, being reported and cancelling touch the roster and the status.
LEMMA MemberNextFrame ==
    ASSUME IInv, MemberNext
    PROVE  UNCHANGED outsideRoster /\ SameProgress
<1> DEFINE Quiet == UNCHANGED outsideRoster /\ SameProgress
<1>1. ASSUME NEW m, Join(m)  PROVE Quiet
  <2>1. UNCHANGED outsideRoster /\ StartWhenFull(circle.member_count + 1)
    BY <1>1, Zenon DEF Join
  <2>2. circle.member_count + 1 \in Nat
    BY DEF IInv, RotationTypeOK, CircleRecord
  <2> QED
    BY <2>1, <2>2, StartWhenFullStep DEF SameProgress
<1>2. ASSUME NEW m, NEW invited \in Seq(Address), BatchInvite(m, invited)  PROVE Quiet
  <2>1. UNCHANGED outsideRoster /\ StartWhenFull(Len(members) + Len(invited))
    BY <1>2, Zenon DEF BatchInvite
  <2>2. Len(members) + Len(invited) \in Nat
    BY LenProperties DEF IInv, RotationTypeOK
  <2> QED
    BY <2>1, <2>2, StartWhenFullStep DEF SameProgress
<1>3. ASSUME NEW m, Exit(m)  PROVE Quiet
  BY <1>3, Zenon DEF Exit, SameProgress
<1>4. ASSUME NEW m, NEW r, ReportLate(m, r)  PROVE Quiet
  BY <1>4, Zenon DEF ReportLate, SameProgress
<1>5. ASSUME NEW m, CancelCircle(m)  PROVE Quiet
  <2>1. circle' = [circle EXCEPT !.status = "CANCELLED"] /\ UNCHANGED outsideRoster
    BY <1>5, Zenon DEF CancelCircle
  <2>2. circle \in CircleRecord /\ "CANCELLED" \in CircleStatus
    BY DEF IInv, RotationTypeOK, CircleStatus
  <2> QED
    BY <2>1, <2>2, StatusUpdate DEF SameProgress
<1> HIDE DEF Quiet
<1>6. Quiet
  BY <1>1, <1>2, <1>3, <1>4, <1>5, InvitationTypes, Zenon DEF MemberNext
<1> QED
  BY <1>6 DEF Quiet

\* Bids, refunds and votes touch the auction's entries and the tokens only.
LEMMA BidNextFrame ==
    ASSUME BidNext
    PROVE  UNCHANGED <<outsideAuction, auction_winner>>
<1> DEFINE Quiet == UNCHANGED <<outsideAuction, auction_winner>>
<1>1. ASSUME NEW a, NEW bips, NEW r, PlaceBid(a, bips, r)  PROVE Quiet
  BY <1>1, SMT DEF PlaceBid
<1>2. ASSUME NEW r, NEW limit, RefundLosingBids(r, limit)  PROVE Quiet
  BY <1>2, Zenon DEF RefundLosingBids
<1>3. ASSUME NEW a, NEW r, NEW config, InitDutchAuction(a, r, config)  PROVE Quiet
  BY <1>3, SMT DEF InitDutchAuction
<1>4. ASSUME NEW a, NEW r, DutchAuctionBid(a, r)  PROVE Quiet
  BY <1>4, Zenon DEF DutchAuctionBid
<1>5. ASSUME NEW a, CancelAuction(a)  PROVE Quiet
  BY <1>5, Zenon DEF CancelAuction
<1>6. ASSUME NEW a, NEW b, NEW r, VotePayout(a, b, r)  PROVE Quiet
  BY <1>6, Zenon DEF VotePayout
<1> HIDE DEF Quiet
<1>7. Quiet
  BY <1>1, <1>2, <1>3, <1>4, <1>5, <1>6, Zenon DEF BidNext
<1> QED
  BY <1>7 DEF Quiet

\* Administration touches neither the rounds nor what they have recorded.
LEMMA AdminNextFrame ==
    ASSUME IInv, AdminNext
    PROVE  /\ UNCHANGED <<outsideAdmin, member_status, round_strikes>>
           /\ SameProgress
<1> DEFINE Quiet == /\ UNCHANGED <<outsideAdmin, member_status, round_strikes>>
                    /\ SameProgress
<1>1. circle \in CircleRecord
  BY DEF IInv, RotationTypeOK
<1>2. ASSUME NEW a, RaiseDispute(a)  PROVE Quiet
  <2>1. /\ circle' = [circle EXCEPT !.status = "DISPUTED"]
        /\ UNCHANGED <<rosterVars, outsideAdmin>>
    BY <1>2, Zenon DEF RaiseDispute
  <2> QED
    BY <1>1, <2>1, StatusUpdate DEF SameProgress, rosterVars, CircleStatus
<1>3. ASSUME NEW a, NEW resolution, ResolveDispute(a, resolution)  PROVE Quiet
  <2>1. /\ \/ circle' = [circle EXCEPT !.status = "CANCELLED"]
           \/ circle' = [circle EXCEPT !.status = "ACTIVE"]
        /\ UNCHANGED <<member_status, round_strikes, outsideAdmin>>
    BY <1>3, Zenon DEF ResolveDispute
  <2>2. PICK st \in CircleStatus : circle' = [circle EXCEPT !.status = st]
    BY <2>1 DEF CircleStatus
  <2> QED
    BY <1>1, <2>1, <2>2, StatusUpdate DEF SameProgress
<1>4. ASSUME NEW a, NEW t \in Token, SetToken(a, t)  PROVE Quiet
  <2>1. circle' = [circle EXCEPT !.token = t] /\ UNCHANGED <<rosterVars, outsideAdmin>>
    BY <1>4, Zenon DEF SetToken, unconfigured
  <2> QED
    BY <1>1, <2>1 DEF SameProgress, rosterVars, CircleRecord
<1>5. ASSUME NEW a, ClaimBonus(a)  PROVE Quiet
  BY <1>5 DEF ClaimBonus, SameProgress, rosterVars
<1>6. ASSUME NEW a, Pause(a) \/ Unpause(a) \/ SetTreasury(a)  PROVE Quiet
  BY <1>6 DEF Pause, Unpause, SetTreasury, unconfigured, SameProgress, rosterVars
<1>7. ASSUME NEW a, NEW amount, WithdrawTreasury(a, amount)  PROVE Quiet
  BY <1>7 DEF WithdrawTreasury, SameProgress, rosterVars
<1>8. ASSUME NEW a, NEW b, RegisterReferral(a, b) \/ UpdateStreak(a, b)  PROVE Quiet
  BY <1>8 DEF RegisterReferral, UpdateStreak, SameProgress, rosterVars
<1>9. ASSUME NEW a, NEW x, SetFeeBps(a, x) \/ SetAllowlist(a, x)  PROVE Quiet
  BY <1>9 DEF SetFeeBps, SetAllowlist, unconfigured, SameProgress, rosterVars
<1>10. ASSUME NEW bps, ConfigureFromFactory(bps)  PROVE Quiet
  BY <1>10 DEF ConfigureFromFactory, unconfigured, SameProgress, rosterVars
<1> HIDE DEF Quiet
<1>11. Quiet
  BY <1>2, <1>3, <1>4, <1>5, <1>6, <1>7, <1>8, <1>9, <1>10, Zenon DEF AdminNext
<1> QED
  BY <1>11 DEF Quiet

-----------------------------------------------------------------------------
(* Disputes.                                                               *)

LEMMA RoundNextNeedsRunning ==
    ASSUME RoundNext
    PROVE  Running
<1>1. ASSUME NEW m, NEW amount, NEW r, Contribute(m, amount, r)  PROVE Running
  BY <1>1, Zenon DEF Contribute
<1>2. ASSUME NEW m, NEW r, TriggerPayout(m, r) \/ SchedulePayout(m, r)  PROVE Running
  BY <1>2, Zenon DEF TriggerPayout, SettleRound, SchedulePayout
<1>3. ASSUME NEW r, CheckContributionDeadline(r)  PROVE Running
  BY <1>3, Zenon DEF CheckContributionDeadline
<1>4. ASSUME NEW m, NEW recipients, NEW amounts, NEW r, BatchPayout(m, recipients, amounts, r)
      PROVE  Running
  BY <1>4, Zenon DEF BatchPayout
<1> QED
  BY <1>1, <1>2, <1>3, <1>4, Zenon DEF RoundNext

\* Only a report strikes a member outside a round's sweep, and only while the
\* circle runs.
LEMMA StrikesNeedRunning ==
    ASSUME MemberNext, ~Running
    PROVE  UNCHANGED round_strikes
<1>1. ASSUME NEW m, Join(m) \/ Exit(m) \/ CancelCircle(m)  PROVE UNCHANGED round_strikes
  BY <1>1, Zenon DEF Join, Exit, CancelCircle, rosterVars
<1>2. ASSUME NEW m, NEW invited, BatchInvite(m, invited)  PROVE UNCHANGED round_strikes
  BY <1>2, Zenon DEF BatchInvite
<1>3. ASSUME NEW m, NEW r, ReportLate(m, r)  PROVE FALSE
  BY <1>3, Zenon DEF ReportLate
<1> QED
  BY <1>1, <1>2, <1>3, Zenon DEF MemberNext

\* What a dispute freezes.
progress == <<contributions, round_total, round_strikes, settled, received,
              circle.current_round, circle.payout_bitmap>>

LEMMA OnlyRunningCirclesProgress ==
    ASSUME IInv, [Next]_vars, ~Running
    PROVE  UNCHANGED progress
<1>1. CASE UNCHANGED vars
  BY <1>1 DEF vars, progress, rosterVars, roundVars, payoutVars
<1>2. CASE Tick
  BY <1>2 DEF Tick, progress, rosterVars, roundVars, payoutVars
<1>3. CASE MemberNext
  BY <1>3, MemberNextFrame, StrikesNeedRunning
     DEF progress, outsideRoster, roundVars, payoutVars, SameProgress
<1>4. CASE BidNext
  BY <1>4, BidNextFrame DEF progress, outsideAuction, rosterVars, roundVars, payoutVars
<1>5. CASE AdminNext
  BY <1>5, AdminNextFrame DEF progress, outsideAdmin, roundVars, payoutVars, SameProgress
<1> QED
  BY <1>1, <1>2, <1>3, <1>4, <1>5, RoundNextNeedsRunning, Zenon DEF Next

\* Whoever raises a dispute stops the rotation: until the admin resolves it, no
\* contribution is taken, no strike recorded, no round settled and no batch paid
\* (raise_dispute, "until dispute is resolved").
THEOREM DisputedCircleStandsStill == Spec => DisputeFreezesRounds
<1>1. IInv /\ [Next]_vars => [circle.status = "DISPUTED" => UNCHANGED progress]_vars
  BY OnlyRunningCirclesProgress DEF Running
<1> QED
  BY <1>1, RotationInvariant, PTL DEF Spec, DisputeFreezesRounds, progress

-----------------------------------------------------------------------------
(* Streaks.                                                                *)

Streak == [current : Nat, longest : Nat, last : Rounds]

\* Beside what StreaksBounded says, a record is never empty: otherwise a streak
\* that begins anew would exceed it.
StreakOK(s) ==
    /\ s \in Streak
    /\ 1 <= s.longest /\ s.current <= s.longest /\ s.longest <= s.last + 1

StreakInv ==
    /\ streaks \in [Address -> SUBSET Streak]
    /\ \A m \in Address : \A s \in streaks[m] : StreakOK(s)

LEMMA RoundTypes == \A r \in Rounds : r \in Nat
BY ConfigAssumption DEF Rounds

LEMMA StreakAfterIsOK ==
    ASSUME NEW S \in SUBSET Streak, \A s \in S : StreakOK(s), NEW r \in Rounds
    PROVE  StreakAfter(S, r) \in SUBSET Streak /\ \A s \in StreakAfter(S, r) : StreakOK(s)
<1> DEFINE first == [current |-> 1, longest |-> 1, last |-> r]
           more(x) == [current |-> x.current + 1,
                       longest |-> IF x.current + 1 > x.longest THEN x.current + 1 ELSE x.longest,
                       last |-> r]
           anew(x) == [x EXCEPT !.current = 1, !.last = r]
<1>1. r \in Nat
  BY RoundTypes
<1>2. StreakOK(first)
  BY <1>1 DEF StreakOK, Streak
<1>3. ASSUME NEW x \in S, r = x.last + 1  PROVE StreakOK(more(x))
  BY <1>1, <1>3 DEF StreakOK, Streak
<1>4. ASSUME NEW x \in S, r > x.last + 1  PROVE StreakOK(anew(x))
  <2>1. /\ x \in Streak /\ x.longest \in Nat /\ x.last \in Nat
        /\ 1 <= x.longest /\ x.longest <= x.last + 1
    BY RoundTypes DEF StreakOK, Streak
  <2> DEFINE one == [x EXCEPT !.current = 1]
  <2>2. one \in Streak /\ one.current = 1 /\ one.longest = x.longest
    BY <2>1 DEF Streak
  <2>3. ASSUME NEW y \in Streak
        PROVE  LET z == [y EXCEPT !.last = r]
               IN  /\ z \in Streak /\ z.last = r
                   /\ z.current = y.current /\ z.longest = y.longest
    BY DEF Streak
  <2>4. anew(x) = [one EXCEPT !.last = r]
    BY Zenon
  <2> HIDE DEF one
  <2>5. /\ anew(x) \in Streak /\ anew(x).last = r
        /\ anew(x).current = 1 /\ anew(x).longest = x.longest
    BY <2>2, <2>3, <2>4, Zenon
  <2> HIDE DEF anew
  <2> QED
    BY <1>1, <1>4, <2>1, <2>5 DEF StreakOK
<1>5. ASSUME NEW s \in StreakAfter(S, r)
      PROVE  \/ s = first
             \/ \E x \in S : \/ r = x.last + 1 /\ s = more(x)
                             \/ r > x.last + 1 /\ s = anew(x)
                             \/ s = x
  BY <1>5 DEF StreakAfter
<1> HIDE DEF first, more, anew
<1>6. ASSUME NEW s \in StreakAfter(S, r)  PROVE StreakOK(s)
  <2>1. CASE s = first
    BY <1>2, <2>1
  <2>2. ASSUME NEW x \in S, r = x.last + 1, s = more(x)  PROVE StreakOK(s)
    BY <1>3, <2>2
  <2>3. ASSUME NEW x \in S, r > x.last + 1, s = anew(x)  PROVE StreakOK(s)
    BY <1>4, <2>3
  <2> QED
    BY <1>5, <2>1, <2>2, <2>3, Zenon
<1> QED
  BY <1>6 DEF StreakOK

LEMMA OneStreakChanges ==
    ASSUME StreakInv, NEW m \in Address, NEW r \in Rounds,
           streaks' = [streaks EXCEPT ![m] = StreakAfter(@, r)]
    PROVE  StreakInv'
<1>1. /\ StreakAfter(streaks[m], r) \in SUBSET Streak
      /\ \A s \in StreakAfter(streaks[m], r) : StreakOK(s)
  BY StreakAfterIsOK, Zenon DEF StreakInv
<1>2. streaks' \in [Address -> SUBSET Streak]
  BY <1>1 DEF StreakInv
<1>3. \A a \in Address : streaks'[a] = IF a = m THEN StreakAfter(streaks[m], r) ELSE streaks[a]
  BY DEF StreakInv
<1> QED
  BY <1>1, <1>2, <1>3 DEF StreakInv

LEMMA NextKeepsStreaks ==
    ASSUME IInv, StreakInv, [Next]_vars
    PROVE  StreakInv'
<1>1. ASSUME UNCHANGED streaks  PROVE StreakInv'
  BY <1>1 DEF StreakInv
<1>2. CASE UNCHANGED vars \/ Tick
  BY <1>1, <1>2 DEF vars, Tick, sideVars
<1>3. CASE MemberNext \/ BidNext
  BY <1>1, <1>3, MemberNextFrame, BidNextFrame DEF outsideRoster, outsideAuction, sideVars
<1>4. CASE RoundNext
  <2>1. ASSUME NEW m \in Address, NEW amount, NEW r \in Rounds, Contribute(m, amount, r)
        PROVE  StreakInv'
    <3>1. \/ streaks' = [streaks EXCEPT ![m] = StreakAfter(@, r)]
          \/ streaks' = streaks
      BY <2>1, Zenon DEF Contribute
    <3> QED
      BY <1>1, <3>1, OneStreakChanges
  <2>2. ASSUME NEW m, NEW r, TriggerPayout(m, r)  PROVE UNCHANGED streaks
    BY <2>2, Zenon DEF TriggerPayout, SettleRound, sideVars
  <2>3. ASSUME NEW m, NEW r, SchedulePayout(m, r)  PROVE UNCHANGED streaks
    BY <2>3, Zenon DEF SchedulePayout, sideVars
  <2>4. ASSUME NEW r, CheckContributionDeadline(r)  PROVE UNCHANGED streaks
    BY <2>4, Zenon DEF CheckContributionDeadline, SettleRound, sideVars
  <2>5. ASSUME NEW m, NEW recipients, NEW amounts, NEW r, BatchPayout(m, recipients, amounts, r)
        PROVE  UNCHANGED streaks
    BY <2>5, Zenon DEF BatchPayout, sideVars
  <2> QED
    BY <1>1, <1>4, <2>1, <2>2, <2>3, <2>4, <2>5, Zenon DEF RoundNext
<1>5. CASE AdminNext
  <2>1. ASSUME NEW a \in Address, NEW r \in Rounds, UpdateStreak(a, r)  PROVE StreakInv'
    BY <2>1, OneStreakChanges, Zenon DEF UpdateStreak
  <2>2. ASSUME NEW a, RaiseDispute(a) \/ ClaimBonus(a)  PROVE UNCHANGED streaks
    BY <2>2, Zenon DEF RaiseDispute, ClaimBonus, sideVars
  <2>3. ASSUME NEW a, Pause(a) \/ Unpause(a) \/ SetTreasury(a)  PROVE UNCHANGED streaks
    BY <2>3, Zenon DEF Pause, Unpause, SetTreasury, unconfigured, sideVars
  <2>4. ASSUME NEW a, NEW resolution, ResolveDispute(a, resolution)  PROVE UNCHANGED streaks
    BY <2>4, Zenon DEF ResolveDispute, sideVars
  <2>5. ASSUME NEW a, NEW amount, WithdrawTreasury(a, amount)  PROVE UNCHANGED streaks
    BY <2>5, Zenon DEF WithdrawTreasury
  <2>6. ASSUME NEW a, NEW b, RegisterReferral(a, b)  PROVE UNCHANGED streaks
    BY <2>6, Zenon DEF RegisterReferral
  <2>7. ASSUME NEW a, NEW x, SetFeeBps(a, x) \/ SetAllowlist(a, x) \/ SetToken(a, x)
        PROVE  UNCHANGED streaks
    BY <2>7 DEF SetFeeBps, SetAllowlist, SetToken, unconfigured, sideVars
  <2>8. ASSUME NEW bps, ConfigureFromFactory(bps)  PROVE UNCHANGED streaks
    BY <2>8 DEF ConfigureFromFactory, unconfigured, sideVars
  <2> QED
    BY <1>1, <1>5, <2>1, <2>2, <2>3, <2>4, <2>5, <2>6, <2>7, <2>8, Zenon DEF AdminNext
<1> QED
  BY <1>2, <1>3, <1>4, <1>5, Zenon DEF Next

LEMMA StreakInvariant == Spec => []StreakInv
<1>1. Init => StreakInv
  BY DEF Init, StreakInv
<1>2. IInv /\ StreakInv /\ [Next]_vars => StreakInv'
  BY NextKeepsStreaks
<1> QED
  BY <1>1, <1>2, RotationInvariant, PTL DEF Spec

\* Whoever updates a streak, for whichever round and how often, no streak exceeds
\* its own record, and no record the number of rounds up to the last it counts
\* (update_streak_internal, called by contribute and by update_streak).
THEOREM StreaksStayBounded == Spec => []StreaksBounded
<1>1. StreakInv => StreaksBounded
  BY DEF StreakInv, StreakOK, StreaksBounded
<1> QED
  BY <1>1, StreakInvariant, PTL

-----------------------------------------------------------------------------
(* Settlements, bids and votes.  A step settles a round, or feeds its      *)
(* choice, or leaves both alone.                                           *)

Resting ==
    /\ UNCHANGED <<auctionVars, settled>>
    /\ circle'.current_round = circle.current_round
    /\ now <= now'

\* The round that was settled, what it paid in all, and to whom.
Settles(ms, r, i, amount, charge) ==
    /\ i \in Resolve(ms, r)
    /\ members[i].address \in Address /\ ms[i].address = members[i].address
    /\ amount + charge \in {0, round_total[r]}
    /\ settled' = Append(settled, [recipient |-> ms[i].address, round |-> r,
                                   amount |-> amount, fee |-> charge])
    /\ auction_winner' = IF PayoutType = "AUCTION"
                         THEN [auction_winner EXCEPT ![r] = ms[i].address]
                         ELSE auction_winner

Closing(ms, r) ==
    /\ r = circle.current_round /\ circle'.current_round = r + 1
    /\ UNCHANGED <<roundVars, bids, dutch, votes, now>>
    /\ \E i \in DOMAIN members, amount \in Int, charge \in Int :
          Settles(ms, r, i, amount, charge)

LEMMA SettlementCloses ==
    ASSUME IInv, NEW ms, NEW r \in Rounds, SettleRound(ms, r), SameAddresses(ms)
    PROVE  Closing(ms, r)
<1> DEFINE fee == Percentage(round_total[r], fee_bps)
           net == round_total[r] - fee
           amount == IF net > 0 THEN net ELSE 0
           charge == IF net > 0 THEN fee ELSE 0
<1>1. round_total[r] \in Nat /\ fee_bps \in Nat
  BY DEF IInv, RotationTypeOK
<1>2. fee \in Nat
  BY <1>1, PercentageType
<1>3. /\ net \in Int /\ amount \in Int /\ charge \in Int
      /\ amount + charge \in {0, round_total[r]}
  BY <1>1, <1>2
<1>4. r = circle.current_round /\ UNCHANGED <<roundVars, bids, dutch, votes, now>>
  BY Zenon DEF SettleRound
<1>5. PICK i \in Resolve(ms, r) :
         /\ \/ net <= 0 /\ SettleEmpty(i)
            \/ net > 0 /\ SettleFunded(ms, i, r, net, fee)
         /\ auction_winner' = IF PayoutType = "AUCTION"
                              THEN [auction_winner EXCEPT ![r] = ms[i].address]
                              ELSE auction_winner
         /\ settled' = Append(settled, [recipient |-> ms[i].address, round |-> r,
                                        amount |-> amount, fee |-> charge])
  BY Zenon DEF SettleRound
<1>6. SettleEmpty(i) => circle' = CircleAfter(i, 0, 0)
  BY Zenon DEF SettleEmpty
<1>7. SettleFunded(ms, i, r, net, fee) => circle' = CircleAfter(i, net, fee)
  BY Zenon DEF SettleFunded
<1>8. i \in DOMAIN members /\ members[i].address \in Address /\ ms[i].address = members[i].address
  <2>1. DOMAIN ms = DOMAIN members
    BY LenProperties DEF SameAddresses, IInv, RotationTypeOK
  <2>2. i \in DOMAIN members
    BY <2>1, ResolveUnpaid
  <2>3. members[i] \in Member
    BY <2>2, MemberTypes
  <2> QED
    BY <2>2, <2>3 DEF Member, SameAddresses
<1>9. 0 \in Int /\ fee \in Int
  BY <1>2
<1> HIDE DEF fee, net, amount, charge
<1>10. circle'.current_round = r + 1
  BY <1>3, <1>4, <1>5, <1>6, <1>7, <1>8, <1>9, CircleAfterFields
<1>11. Settles(ms, r, i, amount, charge)
  BY <1>3, <1>5, <1>8, Zenon DEF Settles
<1> QED
  BY <1>3, <1>4, <1>8, <1>10, <1>11, Zenon DEF Closing

LEMMA RoundNextFrame ==
    ASSUME IInv, RoundNext
    PROVE  Resting \/ \E r \in Rounds : \E ms : Closing(ms, r)
<1>1. circle \in CircleRecord /\ now <= now
  BY DEF IInv, RotationTypeOK
<1>2. ASSUME NEW m, NEW amount, NEW r, Contribute(m, amount, r)  PROVE Resting
  <2>1. /\ circle' = [circle EXCEPT !.total_fees = @ + LatePenalty(amount)]
        /\ UNCHANGED <<payoutVars, auctionVars, now>>
    BY <1>2, Zenon DEF Contribute
  <2> QED
    BY <1>1, <2>1 DEF Resting, payoutVars, CircleRecord
<1>3. ASSUME NEW m, NEW r, SchedulePayout(m, r)  PROVE Resting
  <2>1. UNCHANGED <<circle, payoutVars, auctionVars, now>>
    BY <1>3, Zenon DEF SchedulePayout
  <2> QED
    BY <1>1, <2>1 DEF Resting, payoutVars
<1>4. ASSUME NEW m, NEW recipients, NEW amounts, NEW r, BatchPayout(m, recipients, amounts, r)
      PROVE  Resting
  <2>1. PICK bits : /\ circle' = [circle EXCEPT !.payout_bitmap = bits]
                    /\ UNCHANGED <<settled, auctionVars, now>>
    BY <1>4, Zenon DEF BatchPayout
  <2> QED
    BY <1>1, <2>1 DEF Resting, CircleRecord
<1>5. ASSUME NEW m, NEW r \in Rounds, TriggerPayout(m, r)  PROVE Closing(members, r)
  <2>1. SettleRound(members, r)
    BY <1>5, Zenon DEF TriggerPayout
  <2>2. SameAddresses(members)
    BY DEF SameAddresses, IInv, RotationTypeOK
  <2> QED
    BY <2>1, <2>2, SettlementCloses
<1>6. ASSUME NEW r \in Rounds, CheckContributionDeadline(r)  PROVE Closing(Swept(r), r)
  <2>1. SettleRound(Swept(r), r)
    BY <1>6, Zenon DEF CheckContributionDeadline
  <2> QED
    BY <2>1, SweptKeepsAddresses, SettlementCloses
<1> QED
  BY <1>2, <1>3, <1>4, <1>5, <1>6, Zenon DEF RoundNext

LEMMA NextFrame ==
    ASSUME IInv, [Next]_vars
    PROVE  Resting \/ BidNext \/ \E r \in Rounds : \E ms : Closing(ms, r)
<1>1. now \in Nat
  BY DEF IInv, RotationTypeOK
<1>2. CASE UNCHANGED vars
  BY <1>1, <1>2 DEF vars, Resting, payoutVars
<1>3. CASE Tick
  BY <1>1, <1>3 DEF Tick, Resting, payoutVars
<1>4. CASE MemberNext
  BY <1>1, <1>4, MemberNextFrame DEF Resting, outsideRoster, payoutVars, SameProgress
<1>5. CASE AdminNext
  BY <1>1, <1>5, AdminNextFrame DEF Resting, outsideAdmin, payoutVars, SameProgress
<1> QED
  BY <1>2, <1>3, <1>4, <1>5, RoundNextFrame, Zenon DEF Next

\* A settlement is the last of the list; the others stay.
LEMMA SettledGrows ==
    ASSUME IInv, NEW ms, NEW r, NEW i, NEW amount \in Int, NEW charge \in Int,
           r = circle.current_round, r \in Rounds, Settles(ms, r, i, amount, charge)
    PROVE  \A k \in DOMAIN settled' :
              \/ k \in DOMAIN settled /\ settled'[k] = settled[k] /\ k - 1 < r
              \/ /\ k - 1 = r /\ settled'[k].round = r
                 /\ settled'[k].recipient = ms[i].address
                 /\ settled'[k].amount + settled'[k].fee \in {0, round_total[r]}
<1> DEFINE paid == [recipient |-> ms[i].address, round |-> r, amount |-> amount, fee |-> charge]
<1>1. /\ settled \in Seq(Settlement) /\ Len(settled) = r /\ Len(settled) \in Nat
      /\ DOMAIN settled = 1..Len(settled)
  BY LenProperties DEF IInv, RotationTypeOK, Settlements
<1>2. paid \in Settlement /\ settled' = Append(settled, paid)
  BY Zenon DEF Settles, Settlement
<1>3. /\ paid.round = r /\ paid.recipient = ms[i].address
      /\ paid.amount + paid.fee \in {0, round_total[r]}
  BY DEF Settles
<1> HIDE DEF paid
<1>4. /\ settled' \in Seq(Settlement) /\ Len(settled') = Len(settled) + 1
      /\ \A k \in 1..Len(settled) : settled'[k] = settled[k]
      /\ settled'[Len(settled) + 1] = paid
  BY <1>1, <1>2, AppendProperties
<1>5. DOMAIN settled' = 1..(Len(settled) + 1)
  BY <1>4, LenProperties
<1> QED
  BY <1>1, <1>3, <1>4, <1>5

-----------------------------------------------------------------------------
(* Votes.                                                                  *)

VoteInv ==
    /\ PayoutType # "VOTE" => votes = {}
    /\ WinnerKeepsTopTally

\* The rounds that were settled are those before the current one.
LEMMA SettledRoundsArePast ==
    ASSUME IInv, NEW k \in DOMAIN settled
    PROVE  settled[k].round < circle.current_round
<1>1. DOMAIN settled = 1..circle.current_round /\ circle.current_round \in Nat
  BY LenProperties DEF IInv, RotationTypeOK, Settlements, CircleRecord
<1>2. settled[k].round = k - 1
  BY DEF IInv, Settlements
<1> QED
  BY <1>1, <1>2

LEMMA VotePayoutKeepsVotes ==
    ASSUME IInv, VoteInv, NEW voter, NEW vote_for, NEW r, VotePayout(voter, vote_for, r)
    PROVE  VoteInv'
<1> DEFINE ballot == [voter |-> voter, vote_for |-> vote_for, round |-> r]
<1>1. /\ PayoutType = "VOTE" /\ r = circle.current_round
      /\ \A v \in votes : ~(v.voter = voter /\ v.round = r)
      /\ votes' = votes \cup {ballot} /\ UNCHANGED settled
  BY DEF VotePayout, outsideAuction, payoutVars
<1>2. ballot.voter = voter /\ ballot.round = r
  OBVIOUS
<1> HIDE DEF ballot
<1>3. ASSUME NEW a, NEW q, q # r
      PROVE  Cardinality({v \in votes' : v.round = q /\ v.vote_for = a}) = Tally(a, q)
  <2>1. {v \in votes' : v.round = q /\ v.vote_for = a}
           = {v \in votes : v.round = q /\ v.vote_for = a}
    BY <1>1, <1>2, <1>3
  <2> QED
    BY <2>1 DEF Tally
<1>4. \A k \in DOMAIN settled : settled[k].round # r
  <2>1. circle.current_round \in Nat
    BY DEF IInv, RotationTypeOK, CircleRecord
  <2>2. \A k \in DOMAIN settled : settled[k].round \in Int
    <3>1. \A k \in DOMAIN settled : settled[k].round = k - 1 /\ k \in Int
      BY LenProperties DEF IInv, RotationTypeOK, Settlements
    <3> QED
      BY <3>1
  <2> QED
    BY <1>1, <2>1, <2>2, SettledRoundsArePast
<1>5. ASSUME NEW k \in DOMAIN settled', NEW m \in Address
      PROVE  Cardinality({v \in votes' : v.round = settled'[k].round /\ v.vote_for = m})
                <= Cardinality({v \in votes' : /\ v.round = settled'[k].round
                                               /\ v.vote_for = settled'[k].recipient})
  <2>1. k \in DOMAIN settled /\ settled'[k] = settled[k] /\ settled[k].round # r
    BY <1>1, <1>4
  <2>2. Tally(m, settled[k].round) <= Tally(settled[k].recipient, settled[k].round)
    BY <2>1 DEF VoteInv, WinnerKeepsTopTally
  <2> QED
    BY <1>3, <2>1, <2>2
<1>6. \A v, w \in votes' : v.voter = w.voter /\ v.round = w.round => v = w
  BY <1>1, <1>2 DEF VoteInv, WinnerKeepsTopTally
<1>7. WinnerKeepsTopTally'
  BY <1>5, <1>6, Zenon DEF WinnerKeepsTopTally, Tally
<1> QED
  BY <1>1, <1>7 DEF VoteInv

LEMMA ClosingKeepsVotes ==
    ASSUME IInv, VoteInv, NEW ms, NEW r \in Rounds, Closing(ms, r)
    PROVE  VoteInv'
<1>1. r = circle.current_round /\ UNCHANGED votes
  BY DEF Closing
<1>2. PICK i \in DOMAIN members, amount \in Int, charge \in Int :
         Settles(ms, r, i, amount, charge)
  BY Zenon DEF Closing
<1>4. \A m \in Address : Tally(m, r) <= Tally(ms[i].address, r)
  <2>1. CASE PayoutType = "VOTE"
    BY <1>2, <2>1 DEF Settles, Resolve, ResolveVote
  <2>2. CASE PayoutType # "VOTE"
    <3>1. votes = {}
      BY <2>2 DEF VoteInv
    <3>2. \A a : Tally(a, r) = 0
      BY <3>1, FS_EmptySet DEF Tally
    <3> QED
      BY <3>2
  <2> QED
    BY <2>1, <2>2
<1>5. ASSUME NEW k \in DOMAIN settled', NEW m \in Address
      PROVE  Tally(m, settled'[k].round) <= Tally(settled'[k].recipient, settled'[k].round)
  <2>1. \/ k \in DOMAIN settled /\ settled'[k] = settled[k]
        \/ settled'[k].round = r /\ settled'[k].recipient = ms[i].address
    BY <1>1, <1>2, SettledGrows
  <2>2. CASE k \in DOMAIN settled /\ settled'[k] = settled[k]
    BY <2>2 DEF VoteInv, WinnerKeepsTopTally
  <2>3. CASE settled'[k].round = r /\ settled'[k].recipient = ms[i].address
    BY <1>4, <2>3
  <2> QED
    BY <2>1, <2>2, <2>3
<1>6. WinnerKeepsTopTally'
  BY <1>1, <1>5, Zenon DEF VoteInv, WinnerKeepsTopTally, Tally
<1> QED
  BY <1>1, <1>6 DEF VoteInv

LEMMA RestKeepsVotes ==
    ASSUME VoteInv, UNCHANGED <<votes, settled>>
    PROVE  VoteInv'
BY DEF VoteInv, WinnerKeepsTopTally, Tally

LEMMA NextKeepsVotes ==
    ASSUME IInv, VoteInv, [Next]_vars
    PROVE  VoteInv'
<1>1. CASE Resting
  BY <1>1, RestKeepsVotes DEF Resting, auctionVars
<1>2. CASE BidNext
  <2>1. ASSUME NEW a, NEW bips, NEW r, PlaceBid(a, bips, r)  PROVE UNCHANGED votes
    BY <2>1, SMT DEF PlaceBid
  <2>2. ASSUME NEW r, NEW limit, RefundLosingBids(r, limit)  PROVE UNCHANGED votes
    BY <2>2, Zenon DEF RefundLosingBids
  <2>3. ASSUME NEW a, NEW r, NEW config, InitDutchAuction(a, r, config)  PROVE UNCHANGED votes
    BY <2>3, SMT DEF InitDutchAuction
  <2>4. ASSUME NEW a, NEW r, DutchAuctionBid(a, r)  PROVE UNCHANGED votes
    BY <2>4, Zenon DEF DutchAuctionBid
  <2>5. ASSUME NEW a, CancelAuction(a)  PROVE UNCHANGED votes
    BY <2>5, Zenon DEF CancelAuction
  <2>6. UNCHANGED settled
    BY <1>2, BidNextFrame DEF outsideAuction, payoutVars
  <2>7. UNCHANGED votes => VoteInv'
    BY <2>6, RestKeepsVotes
  <2> QED
    BY <1>2, <2>1, <2>2, <2>3, <2>4, <2>5, <2>7, VotePayoutKeepsVotes, Zenon DEF BidNext
<1> QED
  BY <1>1, <1>2, NextFrame, ClosingKeepsVotes, Zenon

\* Whoever a settled round paid by vote has a tally that nobody exceeds, then and
\* ever after, and nobody has two votes in a round: votes are taken for the round
\* in progress only (vote_payout, resolve_vote).
THEOREM TopTallyStands == Spec => []WinnerKeepsTopTally
<1>1. Init => VoteInv
  BY DEF Init, VoteInv, WinnerKeepsTopTally
<1>2. IInv /\ VoteInv /\ [Next]_vars => VoteInv'
  BY NextKeepsVotes
<1>3. VoteInv => WinnerKeepsTopTally
  BY DEF VoteInv
<1> QED
  BY <1>1, <1>2, <1>3, RotationInvariant, PTL DEF Spec

-----------------------------------------------------------------------------
(* Auctions.                                                               *)

Discounts == 0..10000   \* in basis points
Bid == [bidder : Address, bips : Discounts, round : Rounds, deposit : {0, ContributionAmount}]
DutchConfig == [start_bips : Nat, floor_bips : Nat,
                decay_bips_per_ledger : Nat, expiry_ledgers : Nat]
DutchAuction == [config : DutchConfig, start_ledger : Nat, resolved : BOOLEAN]

\* A Dutch auction has begun, and its prices are discounts.
Priced(d) ==
    /\ d.config.floor_bips <= d.config.start_bips /\ d.config.start_bips <= 10000
    /\ d.start_ledger <= now

\* Winners are those of past rounds: so bids for the round in progress beat none.
AuctionTypeOK ==
    /\ bids \in Seq(Bid)
    /\ auction_winner \in [Rounds -> Address \cup {NoOne}]
    /\ dutch \in [Rounds -> SUBSET DutchAuction]
    /\ \A r \in Rounds : \A d \in dutch[r] : Priced(d)
    /\ \A r \in Rounds : auction_winner[r] # NoOne => r < circle.current_round

AuctionInv == AuctionTypeOK /\ WinnerKeepsTopBid /\ DutchClearsOnce

LEMMA BidTypes ==
    ASSUME AuctionTypeOK
    PROVE  /\ Len(bids) \in Nat /\ DOMAIN bids = 1..Len(bids)
           /\ \A k \in DOMAIN bids : bids[k] \in Bid
           /\ \A r : IsFiniteSet(BidsOf(r)) /\ Cardinality(BidsOf(r)) \in Nat
<1>1. /\ Len(bids) \in Nat /\ DOMAIN bids = 1..Len(bids)
      /\ \A k \in DOMAIN bids : bids[k] \in Bid
  BY LenProperties, ElementOfSeq DEF AuctionTypeOK
<1>2. IsFiniteSet(DOMAIN bids)
  BY <1>1, FS_Interval
<1>3. \A r : BidsOf(r) \subseteq DOMAIN bids
  BY DEF BidsOf
<1> QED
  BY <1>1, <1>2, <1>3, FS_Subset, FS_CardinalityType

\* Removing bids keeps the others, each once and in their order.
LEMMA WithoutKeepsTheRest ==
    ASSUME AuctionTypeOK, NEW ks \in SUBSET DOMAIN bids
    PROVE  /\ Without(ks) \in Seq(Bid)
           /\ \E from \in [DOMAIN Without(ks) -> DOMAIN bids \ ks] :
                 /\ \A j, k \in DOMAIN Without(ks) : from[j] = from[k] => j = k
                 /\ \A k \in DOMAIN Without(ks) : Without(ks)[k] = bids[from[k]]
                 /\ \A i \in DOMAIN bids \ ks : \E k \in DOMAIN Without(ks) : from[k] = i
<1> DEFINE R == DOMAIN bids \ ks
           m == Cardinality(R)
           from == [k \in 1..m |-> CHOOSE i \in DOMAIN bids : i \notin ks /\ Rank(R, i) = k]
<1>1. Len(bids) \in Nat /\ DOMAIN bids = 1..Len(bids) /\ \A k \in DOMAIN bids : bids[k] \in Bid
  BY BidTypes
<1>2. Len(bids) - Cardinality(ks) = m
  <2>1. IsFiniteSet(DOMAIN bids) /\ Cardinality(DOMAIN bids) = Len(bids)
    BY <1>1, FS_Interval, SMTT(60)
  <2>2. /\ IsFiniteSet(ks) /\ IsFiniteSet(R) /\ Cardinality(ks) \in Nat /\ m \in Nat
    BY <2>1, FS_Subset, FS_CardinalityType
  <2>3. R \cup ks = DOMAIN bids /\ R \cap ks = {}
    OBVIOUS
  <2> HIDE DEF R
  <2>4. Cardinality(R \cup ks) = Cardinality(R) + Cardinality(ks) - Cardinality(R \cap ks)
    BY <2>2, FS_Union
  <2>5. Cardinality(R \cap ks) = 0
    BY <2>3, FS_EmptySet
  <2>6. Len(bids) = Cardinality(R) + Cardinality(ks)
    <3>1. Cardinality(R) \in Nat /\ Cardinality(ks) \in Nat
      BY <2>2
    <3>2. Len(bids) = Cardinality(R) + Cardinality(ks) - 0
      BY <2>1, <2>3, <2>4, <2>5
    <3> QED
      BY <3>1, <3>2
  <2>7. Cardinality(R) \in Nat /\ Cardinality(ks) \in Nat /\ m = Cardinality(R)
    BY <2>2
  <2> HIDE DEF m
  <2> QED
    BY <2>6, <2>7
<1>3. /\ m \in Nat
      /\ \A i \in R : Rank(R, i) \in 1..m
      /\ \A i, k \in R : Rank(R, i) = Rank(R, k) => i = k
      /\ \A k \in 1..m : \E i \in R : Rank(R, i) = k
  BY <1>1, RanksNumberTheSet
<1>4. Without(ks) = [k \in 1..m |-> bids[from[k]]]
  <2>1. \A i : Cardinality({j \in DOMAIN bids \ ks : j <= i}) = Rank(R, i)
    BY DEF Rank
  <2>2. Without(ks) = [k \in 1..m |->
           bids[CHOOSE i \in DOMAIN bids :
                  i \notin ks /\ Cardinality({j \in DOMAIN bids \ ks : j <= i}) = k]]
    BY <1>2 DEF Without
  <2> HIDE DEF m
  <2>3. ASSUME NEW k \in 1..m
        PROVE  (CHOOSE i \in DOMAIN bids :
                  i \notin ks /\ Cardinality({j \in DOMAIN bids \ ks : j <= i}) = k) = from[k]
    <3>1. from[k] = CHOOSE i \in DOMAIN bids : i \notin ks /\ Rank(R, i) = k
      OBVIOUS
    <3> QED
      BY <2>1, <3>1, Zenon
  <2> HIDE DEF from, R
  <2> QED
    BY <2>2, <2>3
<1>5. ASSUME NEW k \in 1..m  PROVE from[k] \in R /\ Rank(R, from[k]) = k
  <2>1. \E i \in DOMAIN bids : i \notin ks /\ Rank(R, i) = k
    BY <1>3
  <2> HIDE DEF m
  <2>2. from[k] = CHOOSE i \in DOMAIN bids : i \notin ks /\ Rank(R, i) = k
    BY <1>5
  <2> HIDE DEF from
  <2>3. from[k] \in DOMAIN bids /\ from[k] \notin ks /\ Rank(R, from[k]) = k
    BY <2>1, <2>2
  <2> QED
    BY <2>3
<1>6. DOMAIN from = 1..m /\ from = [k \in 1..m |-> from[k]]
  OBVIOUS
<1> HIDE DEF from, m
<1>7. from \in [1..m -> R]
  BY <1>5, <1>6
<1>8. \A j, k \in 1..m : from[j] = from[k] => j = k
  BY <1>5
<1>9. \A i \in R : \E k \in 1..m : from[k] = i
  BY <1>3, <1>5
<1>10. \A k \in 1..m : Without(ks)[k] = bids[from[k]]
  BY <1>4
<1>11. Without(ks) \in [1..m -> Bid]
  BY <1>1, <1>4, <1>7
<1>12. Without(ks) \in Seq(Bid) /\ DOMAIN Without(ks) = 1..m
  BY <1>3, <1>11, SeqDef
<1>13. from \in [DOMAIN Without(ks) -> DOMAIN bids \ ks]
  BY <1>7, <1>12
<1>14. /\ \A j, k \in DOMAIN Without(ks) : from[j] = from[k] => j = k
       /\ \A k \in DOMAIN Without(ks) : Without(ks)[k] = bids[from[k]]
       /\ \A i \in DOMAIN bids \ ks : \E k \in DOMAIN Without(ks) : from[k] = i
  BY <1>8, <1>9, <1>10, <1>12
<1> HIDE DEF R
<1> QED
  BY <1>12, <1>13, <1>14, Zenon

\* Removing bids, but those of winners, takes nothing from what is known of them.
LEMMA RemovalKeepsAuctions ==
    ASSUME IInv, AuctionInv, NEW ks \in SUBSET DOMAIN bids, bids' = Without(ks),
           UNCHANGED <<auction_winner, dutch, now>>,
           circle'.current_round = circle.current_round,
           \A r \in Rounds, k \in ks :
              bids[k].round = r /\ auction_winner[r] # NoOne => bids[k].bidder # auction_winner[r]
    PROVE  AuctionInv'
<1>1. PICK from \in [DOMAIN bids' -> DOMAIN bids \ ks] :
         /\ \A j, k \in DOMAIN bids' : from[j] = from[k] => j = k
         /\ \A k \in DOMAIN bids' : bids'[k] = bids[from[k]]
         /\ \A i \in DOMAIN bids \ ks : \E k \in DOMAIN bids' : from[k] = i
  BY WithoutKeepsTheRest DEF AuctionInv
<1>2. AuctionTypeOK'
  BY WithoutKeepsTheRest DEF AuctionInv, AuctionTypeOK, Priced
<1>3. WinnerKeepsTopBid'
  <2>1. ASSUME NEW r \in Rounds, auction_winner[r] # NoOne
        PROVE  \E k \in BidsOf(r)' : /\ bids'[k].bidder = auction_winner[r]
                                     /\ \A j \in BidsOf(r)' : bids'[j].bips <= bids'[k].bips
    <3>1. PICK i \in BidsOf(r) : /\ bids[i].bidder = auction_winner[r]
                                 /\ \A j \in BidsOf(r) : bids[j].bips <= bids[i].bips
      BY <2>1 DEF AuctionInv, WinnerKeepsTopBid
    <3>2. i \in DOMAIN bids \ ks /\ bids[i].round = r
      BY <2>1, <3>1 DEF BidsOf
    <3>3. PICK k \in DOMAIN bids' : from[k] = i
      BY <1>1, <3>2
    <3>4. k \in BidsOf(r)' /\ bids'[k] = bids[i]
      BY <1>1, <3>2, <3>3 DEF BidsOf
    <3>5. \A j \in BidsOf(r)' : from[j] \in BidsOf(r) /\ bids'[j] = bids[from[j]]
      BY <1>1 DEF BidsOf
    <3> QED
      BY <3>1, <3>4, <3>5
  <2> QED
    BY <2>1 DEF WinnerKeepsTopBid
<1>4. DutchClearsOnce'
  <2>1. ASSUME NEW r \in Rounds, NEW d \in dutch[r]
        PROVE  /\ Cardinality(BidsOf(r)') <= (IF d.resolved THEN 1 ELSE 0)
               /\ \A k \in BidsOf(r)' : bids'[k].bips \in d.config.floor_bips .. d.config.start_bips
    <3>1. /\ Cardinality(BidsOf(r)) <= (IF d.resolved THEN 1 ELSE 0)
          /\ \A k \in BidsOf(r) : bids[k].bips \in d.config.floor_bips .. d.config.start_bips
      BY DEF AuctionInv, DutchClearsOnce
    <3>2. \A j \in BidsOf(r)' : from[j] \in BidsOf(r) /\ bids'[j] = bids[from[j]]
      BY <1>1 DEF BidsOf
    <3> DEFINE part == [j \in BidsOf(r)' |-> from[j]]
    <3>3. \A j, k \in BidsOf(r)' : from[j] = from[k] => j = k
      BY <1>1 DEF BidsOf
    <3>4. part \in Injection(BidsOf(r)', BidsOf(r))
      BY <3>2, <3>3 DEF Injection, IsInjective
    <3>5. Cardinality(BidsOf(r)') <= Cardinality(BidsOf(r))
      BY <3>4, BidTypes, FS_Injection DEF AuctionInv
    <3>6. Cardinality(BidsOf(r)') \in Nat /\ Cardinality(BidsOf(r)) \in Nat
      BY <1>2, BidTypes, FS_Injection, FS_CardinalityType, <3>4 DEF AuctionInv
    <3> QED
      BY <3>1, <3>2, <3>5, <3>6
  <2> QED
    BY <2>1 DEF DutchClearsOnce
<1> QED
  BY <1>2, <1>3, <1>4 DEF AuctionInv

\* A bid is the last of the list, and of the round in progress.
LEMMA BidIsLast ==
    ASSUME AuctionTypeOK, NEW bid \in Bid, bids' = Append(bids, bid)
    PROVE  /\ bids' \in Seq(Bid)
           /\ \A k \in DOMAIN bids : k \in DOMAIN bids' /\ bids'[k] = bids[k]
           /\ \A q : q # bid.round => BidsOf(q)' = BidsOf(q)
           /\ BidsOf(bid.round)' = BidsOf(bid.round) \cup {Len(bids) + 1}
           /\ bids'[Len(bids) + 1] = bid
<1>1. bids \in Seq(Bid) /\ Len(bids) \in Nat /\ DOMAIN bids = 1..Len(bids)
  BY BidTypes DEF AuctionTypeOK
<1>2. /\ bids' \in Seq(Bid) /\ Len(bids') = Len(bids) + 1
      /\ \A k \in 1..Len(bids) : bids'[k] = bids[k]
      /\ bids'[Len(bids) + 1] = bid
  BY <1>1, AppendProperties
<1>3. DOMAIN bids' = 1..(Len(bids) + 1)
  BY <1>2, LenProperties
<1>4. DOMAIN bids' = DOMAIN bids \cup {Len(bids) + 1}
  BY <1>1, <1>3
<1>5. \A k \in DOMAIN bids : k \in DOMAIN bids' /\ bids'[k] = bids[k]
  BY <1>1, <1>2, <1>4
<1>6. \A q : q # bid.round => BidsOf(q)' = BidsOf(q)
  BY <1>2, <1>4, <1>5 DEF BidsOf
<1>7. BidsOf(bid.round)' = BidsOf(bid.round) \cup {Len(bids) + 1}
  BY <1>2, <1>4, <1>5 DEF BidsOf
<1> QED
  BY <1>2, <1>5, <1>6, <1>7

LEMMA PlaceBidKeepsAuctions ==
    ASSUME IInv, AuctionInv, NEW bidder \in Address, NEW bips \in Bips, NEW r \in Rounds,
           PlaceBid(bidder, bips, r)
    PROVE  AuctionInv'
<1> DEFINE bid == [bidder |-> bidder, bips |-> bips, round |-> r, deposit |-> ContributionAmount]
<1>1. /\ r = circle.current_round /\ dutch[r] = {} /\ bids' = Append(bids, bid)
      /\ UNCHANGED <<auction_winner, dutch, circle, now>>
  BY DEF PlaceBid, outsideAuction
<1>2. bid \in Bid /\ bid.round = r
  BY BoundAssumption DEF Bid, Discounts
<1> HIDE DEF bid
<1>3. AuctionTypeOK' /\ AuctionTypeOK
  BY <1>1, <1>2, BidIsLast DEF AuctionInv, AuctionTypeOK, Priced
<1>4. circle.current_round \in Nat
  BY DEF IInv, RotationTypeOK, CircleRecord
<1>5. WinnerKeepsTopBid'
  <2>1. ASSUME NEW q \in Rounds, auction_winner[q] # NoOne  PROVE q # r
    BY <1>1, <1>4, <2>1 DEF AuctionInv, AuctionTypeOK
  <2> QED
    BY <1>1, <1>2, <1>3, <2>1, BidIsLast DEF AuctionInv, WinnerKeepsTopBid, BidsOf
<1>6. ASSUME NEW q \in Rounds, NEW d \in dutch[q]
      PROVE  /\ Cardinality(BidsOf(q)') <= (IF d.resolved THEN 1 ELSE 0)
             /\ \A k \in BidsOf(q)' : bids'[k].bips \in d.config.floor_bips .. d.config.start_bips
  <2>1. q # r
    BY <1>1
  <2>2. BidsOf(q)' = BidsOf(q) /\ \A k \in BidsOf(q) : bids'[k] = bids[k]
    BY <1>1, <1>2, <1>3, <2>1, BidIsLast DEF BidsOf
  <2> QED
    BY <2>2 DEF AuctionInv, DutchClearsOnce
<1>7. DutchClearsOnce'
  BY <1>1, <1>6 DEF DutchClearsOnce
<1> QED
  BY <1>3, <1>5, <1>7 DEF AuctionInv

LEMMA PriceIsInRange ==
    ASSUME NEW d \in DutchAuction, Priced(d), now \in Nat
    PROVE  /\ DecayedPrice(d) \in d.config.floor_bips .. d.config.start_bips
           /\ DecayedPrice(d) \in Discounts
<1>1. /\ d.config.start_bips \in Nat /\ d.config.floor_bips \in Nat
      /\ d.config.decay_bips_per_ledger \in Nat /\ d.start_ledger \in Nat
  BY DEF DutchAuction, DutchConfig
<1>2. now - d.start_ledger \in Nat
  BY <1>1 DEF Priced
<1>3. PICK fall \in Nat : fall = d.config.decay_bips_per_ledger * (now - d.start_ledger)
  BY <1>1, <1>2
<1>4. DecayedPrice(d) = IF d.config.start_bips - fall > d.config.floor_bips
                        THEN d.config.start_bips - fall ELSE d.config.floor_bips
  BY <1>3 DEF DecayedPrice
<1>5. d.config.floor_bips <= d.config.start_bips /\ d.config.start_bips <= 10000
  BY DEF Priced
<1>6. PICK high \in Nat : high = d.config.start_bips
  BY <1>1
<1>7. PICK low \in Nat : low = d.config.floor_bips
  BY <1>1
<1>8. PICK price \in Int : /\ price = DecayedPrice(d)
                           /\ price = IF high - fall > low THEN high - fall ELSE low
  BY <1>4, <1>6, <1>7
<1>9. low <= high /\ high <= 10000
  BY <1>5, <1>6, <1>7, SMTT(60)
<1>10. price \in low..high /\ price \in Discounts
  BY <1>8, <1>9 DEF Discounts
<1>11. DecayedPrice(d) \in low..high
  BY <1>8, <1>10
<1>12. DecayedPrice(d) \in Discounts
  BY <1>8, <1>10
<1> QED
  BY <1>6, <1>7, <1>11, <1>12

LEMMA DutchAuctionBidKeepsAuctions ==
    ASSUME IInv, AuctionInv, NEW bidder \in Address, NEW r \in Rounds,
           DutchAuctionBid(bidder, r)
    PROVE  AuctionInv'
<1>1. PICK d \in dutch[r] :
         /\ ~d.resolved
         /\ bids' = Append(bids, [bidder |-> bidder, bips |-> DecayedPrice(d), round |-> r,
                                  deposit |-> 0])
         /\ dutch' = [dutch EXCEPT ![r] = {[d EXCEPT !.resolved = TRUE]}]
  BY Zenon DEF DutchAuctionBid
<1>2. r = circle.current_round /\ UNCHANGED <<auction_winner, circle, now>>
  BY Zenon DEF DutchAuctionBid, outsideAuction
<1> DEFINE bid == [bidder |-> bidder, bips |-> DecayedPrice(d), round |-> r, deposit |-> 0]
           done == [d EXCEPT !.resolved = TRUE]
<1>3. AuctionTypeOK /\ d \in DutchAuction /\ Priced(d) /\ now \in Nat
  BY DEF AuctionInv, AuctionTypeOK, IInv, RotationTypeOK
<1>4. bid \in Bid /\ bid.round = r /\ bid.bips = DecayedPrice(d)
  BY <1>3, PriceIsInRange DEF Bid
<1>5. done \in DutchAuction /\ done.config = d.config /\ done.resolved
      /\ done.start_ledger = d.start_ledger
  BY <1>3 DEF DutchAuction
<1>6. Priced(done)
  BY <1>3, <1>5 DEF Priced
<1>7. bids' = Append(bids, bid) /\ dutch' = [dutch EXCEPT ![r] = {done}]
  BY <1>1
<1> HIDE DEF bid, done
<1>8. /\ dutch' \in [Rounds -> SUBSET DutchAuction]
      /\ \A q \in Rounds : dutch'[q] = IF q = r THEN {done} ELSE dutch[q]
  BY <1>3, <1>5, <1>7 DEF AuctionTypeOK
<1>9. \A q \in Rounds : \A e \in dutch'[q] : Priced(e)'
  BY <1>2, <1>3, <1>6, <1>8 DEF AuctionTypeOK, Priced
<1>10. AuctionTypeOK'
  BY <1>2, <1>3, <1>4, <1>7, <1>8, <1>9, BidIsLast DEF AuctionTypeOK
<1>11. circle.current_round \in Nat
  BY DEF IInv, RotationTypeOK, CircleRecord
<1>12. WinnerKeepsTopBid'
  <2>1. ASSUME NEW q \in Rounds, auction_winner[q] # NoOne  PROVE q # r
    BY <1>2, <1>3, <1>11, <2>1 DEF AuctionTypeOK
  <2> QED
    BY <1>2, <1>3, <1>4, <1>7, <2>1, BidIsLast DEF AuctionInv, WinnerKeepsTopBid, BidsOf
<1>13. BidsOf(r)' = {Len(bids) + 1} /\ bids'[Len(bids) + 1] = bid
  <2>1. Cardinality(BidsOf(r)) <= 0
    BY <1>1 DEF AuctionInv, DutchClearsOnce
  <2>2. BidsOf(r) = {}
    BY <1>3, <2>1, BidTypes, FS_EmptySet
  <2> QED
    BY <1>3, <1>4, <1>7, <2>2, BidIsLast
<1>14. DutchClearsOnce'
  <2>1. ASSUME NEW q \in Rounds, NEW e \in dutch'[q]
        PROVE  /\ Cardinality(BidsOf(q)') <= (IF e.resolved THEN 1 ELSE 0)
               /\ \A k \in BidsOf(q)' : bids'[k].bips \in e.config.floor_bips .. e.config.start_bips
    <3>1. CASE q = r
      <4>1. e = done
        BY <1>8, <2>1, <3>1
      <4>2. Cardinality(BidsOf(q)') = 1
        BY <1>13, <3>1, FS_Singleton
      <4>3. bid.bips \in d.config.floor_bips .. d.config.start_bips
        BY <1>3, <1>4, PriceIsInRange
      <4> QED
        BY <1>5, <1>13, <3>1, <4>1, <4>2, <4>3
    <3>2. CASE q # r
      <4>1. e \in dutch[q]
        BY <1>8, <2>1, <3>2
      <4>2. BidsOf(q)' = BidsOf(q) /\ \A k \in BidsOf(q) : bids'[k] = bids[k]
        BY <1>3, <1>4, <1>7, <3>2, BidIsLast DEF BidsOf
      <4> QED
        BY <4>1, <4>2 DEF AuctionInv, DutchClearsOnce
    <3> QED
      BY <3>1, <3>2
  <2> QED
    BY <2>1 DEF DutchClearsOnce
<1> QED
  BY <1>10, <1>12, <1>14 DEF AuctionInv

\* A configuration is written while the round has no bid.
LEMMA InitDutchAuctionKeepsAuctions ==
    ASSUME IInv, AuctionInv, NEW caller, NEW r \in Rounds, NEW config \in DutchConfigs,
           InitDutchAuction(caller, r, config)
    PROVE  AuctionInv'
<1> DEFINE d == [config |-> config, start_ledger |-> now, resolved |-> FALSE]
<1>1. /\ config.start_bips <= 10000 /\ config.floor_bips <= config.start_bips
      /\ BidsOf(r) = {} /\ dutch' = [dutch EXCEPT ![r] = {d}]
      /\ UNCHANGED <<bids, auction_winner, circle, now>>
  BY DEF InitDutchAuction, outsideAuction
<1>2. AuctionTypeOK /\ now \in Nat /\ config \in DutchConfig
  BY BoundAssumption DEF AuctionInv, IInv, RotationTypeOK, DutchConfig
<1>3. /\ d \in DutchAuction /\ d.config = config /\ d.start_ledger = now /\ ~d.resolved
  BY <1>2 DEF DutchAuction
<1>4. Priced(d)
  BY <1>1, <1>2, <1>3 DEF Priced
<1> HIDE DEF d
<1>5. /\ dutch' \in [Rounds -> SUBSET DutchAuction]
      /\ \A q \in Rounds : dutch'[q] = IF q = r THEN {d} ELSE dutch[q]
  BY <1>1, <1>2, <1>3 DEF AuctionTypeOK
<1>6. AuctionTypeOK'
  BY <1>1, <1>2, <1>4, <1>5 DEF AuctionTypeOK, Priced
<1>7. WinnerKeepsTopBid'
  BY <1>1 DEF AuctionInv, WinnerKeepsTopBid, BidsOf
<1>8. ASSUME NEW q \in Rounds, NEW e \in dutch'[q]
      PROVE  /\ Cardinality(BidsOf(q)) <= (IF e.resolved THEN 1 ELSE 0)
             /\ \A k \in BidsOf(q) : bids[k].bips \in e.config.floor_bips .. e.config.start_bips
  <2>1. CASE q = r
    <3>1. Cardinality(BidsOf(q)) = 0 /\ BidsOf(q) = {}
      BY <1>1, <2>1, FS_EmptySet
    <3> QED
      BY <3>1
  <2>2. CASE q # r
    BY <1>5, <1>8, <2>2 DEF AuctionInv, DutchClearsOnce
  <2> QED
    BY <2>1, <2>2
<1>9. BidsOf(0)' = BidsOf(0) /\ \A q \in Rounds : BidsOf(q)' = BidsOf(q)
  BY <1>1 DEF BidsOf
<1>10. DutchClearsOnce'
  BY <1>1, <1>8, <1>9 DEF DutchClearsOnce
<1> QED
  BY <1>6, <1>7, <1>10 DEF AuctionInv

\* Refunds take losing bids only, and a cancelled round has no winner yet.
LEMMA RefundLosingBidsKeepsAuctions ==
    ASSUME IInv, AuctionInv, NEW r \in Rounds, NEW limit, RefundLosingBids(r, limit)
    PROVE  AuctionInv'
<1>1. bids' = Without(RefundBatch(r, limit)) /\ UNCHANGED <<auction_winner, dutch, outsideAuction>>
  BY Zenon DEF RefundLosingBids
<1>2. /\ RefundBatch(r, limit) \subseteq DOMAIN bids
      /\ \A k \in RefundBatch(r, limit) :
            bids[k].round = r /\ bids[k].bidder # auction_winner[r]
  BY DEF RefundBatch, Losers, BidsOf
<1>3. UNCHANGED <<circle, now>>
  BY <1>1 DEF outsideAuction
<1> QED
  BY <1>1, <1>2, <1>3, RemovalKeepsAuctions

LEMMA CancelAuctionKeepsAuctions ==
    ASSUME IInv, AuctionInv, NEW caller, CancelAuction(caller)
    PROVE  AuctionInv'
<1> DEFINE ks == BidsOf(circle.current_round)
<1>1. bids' = Without(ks) /\ UNCHANGED <<auction_winner, dutch, outsideAuction>>
  BY Zenon DEF CancelAuction
<1>2. ks \subseteq DOMAIN bids /\ \A k \in ks : bids[k].round = circle.current_round
  BY DEF BidsOf
<1>3. circle.current_round \in Nat
  BY DEF IInv, RotationTypeOK, CircleRecord
<1>4. \A q \in Rounds : auction_winner[q] # NoOne => q # circle.current_round
  BY <1>3 DEF AuctionInv, AuctionTypeOK
<1>5. UNCHANGED <<circle, now>>
  BY <1>1 DEF outsideAuction
<1> HIDE DEF ks
<1> QED
  BY <1>1, <1>2, <1>4, <1>5, RemovalKeepsAuctions

LEMMA RestKeepsAuctions ==
    ASSUME AuctionInv, UNCHANGED <<bids, auction_winner, dutch>>, now \in Nat, now' \in Nat,
           circle'.current_round = circle.current_round, now <= now'
    PROVE  AuctionInv'
<1>1. \A r \in Rounds : \A d \in dutch[r] : Priced(d)'
  <2>1. ASSUME NEW r \in Rounds, NEW d \in dutch[r]  PROVE Priced(d)'
    <3>1. d.start_ledger \in Nat /\ Priced(d)
      BY <2>1 DEF AuctionInv, AuctionTypeOK, DutchAuction
    <3> QED
      BY <3>1 DEF Priced
  <2> QED
    BY <2>1
<1>2. AuctionTypeOK'
  BY <1>1 DEF AuctionInv, AuctionTypeOK
<1>3. WinnerKeepsTopBid' /\ DutchClearsOnce'
  BY DEF AuctionInv, WinnerKeepsTopBid, DutchClearsOnce, BidsOf
<1> QED
  BY <1>2, <1>3 DEF AuctionInv

\* The recipient of an auction round holds a winning bid.
LEMMA ClosingKeepsAuctions ==
    ASSUME IInv, AuctionInv, NEW ms, NEW r \in Rounds, Closing(ms, r)
    PROVE  AuctionInv'
<1>1. /\ r = circle.current_round /\ circle'.current_round = r + 1
      /\ UNCHANGED <<bids, dutch, now>>
  BY DEF Closing
<1>2. PICK i \in DOMAIN members, amount \in Int, charge \in Int :
         Settles(ms, r, i, amount, charge)
  BY Zenon DEF Closing
<1>3. /\ i \in Resolve(ms, r) /\ ms[i].address \in Address
      /\ auction_winner' = IF PayoutType = "AUCTION"
                           THEN [auction_winner EXCEPT ![r] = ms[i].address]
                           ELSE auction_winner
  BY <1>2 DEF Settles
<1>4. AuctionTypeOK /\ r \in Nat /\ \A q \in Rounds : q \in Nat
  BY RoundTypes DEF AuctionInv
<1>5. AuctionTypeOK'
  BY <1>1, <1>3, <1>4 DEF AuctionTypeOK, Priced
<1>6. ASSUME NEW q \in Rounds, auction_winner'[q] # NoOne
      PROVE  \E k \in BidsOf(q) : /\ bids[k].bidder = auction_winner'[q]
                                  /\ \A j \in BidsOf(q) : bids[j].bips <= bids[k].bips
  <2>1. CASE PayoutType = "AUCTION" /\ q = r
    <3>1. auction_winner'[q] = ms[i].address
      BY <1>3, <1>4, <2>1 DEF AuctionTypeOK
    <3>2. PICK k \in WinningBids(r) : bids[k].bidder = ms[i].address
      BY <1>3, <2>1 DEF Resolve, ResolveAuction
    <3>3. k \in BidsOf(r)
      BY <3>2 DEF WinningBids, BidsOf
    <3>5. \A j \in DOMAIN bids : bids[j] \in Bid
      BY <1>4, BidTypes
    <3>6. \A j \in DOMAIN bids : bids[j].bips \in Nat
      <4>1. Discounts \subseteq Nat
        BY DEF Discounts
      <4> QED
        BY <3>5, <4>1 DEF Bid
    <3>4. \A j \in BidsOf(r) : bids[j].bips <= bids[k].bips
      BY <3>2, <3>6 DEF WinningBids, BidsOf
    <3> QED
      BY <2>1, <3>1, <3>2, <3>3, <3>4
  <2>2. CASE ~(PayoutType = "AUCTION" /\ q = r)
    <3>1. auction_winner'[q] = auction_winner[q]
      BY <1>3, <1>4, <2>2 DEF AuctionTypeOK
    <3> QED
      BY <1>6, <3>1 DEF AuctionInv, WinnerKeepsTopBid
  <2> QED
    BY <2>1, <2>2
<1>7. WinnerKeepsTopBid'
  BY <1>1, <1>6 DEF WinnerKeepsTopBid, BidsOf
<1>8. DutchClearsOnce'
  BY <1>1 DEF AuctionInv, DutchClearsOnce, BidsOf
<1> QED
  BY <1>5, <1>7, <1>8 DEF AuctionInv

LEMMA NextKeepsAuctions ==
    ASSUME IInv, IInv', AuctionInv, [Next]_vars
    PROVE  AuctionInv'
<1>1. now \in Nat /\ now' \in Nat
  BY DEF IInv, RotationTypeOK
<1>2. CASE Resting
  BY <1>1, <1>2, RestKeepsAuctions DEF Resting, auctionVars
<1>3. CASE BidNext
  <2>1. ASSUME NEW a, NEW b, NEW r, VotePayout(a, b, r)  PROVE AuctionInv'
    <3>1. UNCHANGED <<bids, auction_winner, dutch, circle, now>>
      BY <2>1 DEF VotePayout, outsideAuction
    <3> QED
      BY <1>1, <3>1, RestKeepsAuctions
  <2> QED
    BY <1>3, <2>1, PlaceBidKeepsAuctions, RefundLosingBidsKeepsAuctions,
       InitDutchAuctionKeepsAuctions, DutchAuctionBidKeepsAuctions,
       CancelAuctionKeepsAuctions, Zenon DEF BidNext
<1> QED
  BY <1>2, <1>3, NextFrame, ClosingKeepsAuctions, Zenon

LEMMA AuctionInvariant == Spec => []AuctionInv
<1>1. ASSUME Init  PROVE AuctionInv
  <2>1. /\ bids = << >> /\ auction_winner = [r \in Rounds |-> NoOne]
        /\ dutch = [r \in Rounds |-> {}]
    BY <1>1 DEF Init
  <2>2. bids \in Seq(Bid)
    BY <2>1, EmptySeq
  <2> QED
    BY <2>1, <2>2 DEF AuctionInv, AuctionTypeOK, WinnerKeepsTopBid, DutchClearsOnce
<1>2. IInv /\ IInv' /\ AuctionInv /\ [Next]_vars => AuctionInv'
  BY NextKeepsAuctions
<1> QED
  BY <1>1, <1>2, RotationInvariant, PTL DEF Spec

\* The winner of a settled auction round keeps its bid, which none of the round
\* beats: refunds take the others, cancellations and new bids concern the round
\* in progress only (resolve_auction, refund_losing_bids, cancel_auction).
THEOREM WinnersKeepTopBids == Spec => []WinnerKeepsTopBid
<1>1. AuctionInv => WinnerKeepsTopBid
  BY DEF AuctionInv
<1> QED
  BY <1>1, AuctionInvariant, PTL

\* Whatever is configured again, cancelled or refunded, a round in Dutch mode has
\* the one bid that cleared it, at a price in its range, and none before
\* (init_dutch_auction, dutch_auction_bid, auction_bid).
THEOREM DutchAuctionsClearOnce == Spec => []DutchClearsOnce
<1>1. AuctionInv => DutchClearsOnce
  BY DEF AuctionInv
<1> QED
  BY <1>1, AuctionInvariant, PTL
=============================================================================
