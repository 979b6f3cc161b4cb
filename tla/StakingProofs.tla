---------------------------- MODULE StakingProofs ----------------------------
(***************************************************************************)
(* The staking contract's books: the list of stakers, the total and what   *)
(* each account is owed stay true of the positions for every number of     *)
(* stakers and every sequence of calls.                                    *)
(***************************************************************************)
EXTENDS Staking, DataTheorems

-----------------------------------------------------------------------------
(* The list that is left when an element is removed from one.              *)

Copies(g, list, u, n) ==
    g = [i \in 0..n |-> IF i = 0 THEN <<>>
                        ELSE IF list[i] = u THEN g[i - 1] ELSE Append(g[i - 1], list[i])]

LEMMA CopyExists ==
    ASSUME NEW list, NEW u, NEW n \in Nat
    PROVE  \E g : Copies(g, list, u, n)
<1> DEFINE Q == {k \in Nat : \E g : Copies(g, list, u, k)}
<1>1. 0 \in Q
  <2>1. Copies([i \in 0..0 |-> <<>>], list, u, 0)
    BY DEF Copies
  <2> QED
    BY <2>1
<1>2. ASSUME NEW k \in Nat, k \in Q  PROVE k + 1 \in Q
  <2>1. PICK g : Copies(g, list, u, k)
    BY <1>2
  <2> DEFINE next == IF list[k + 1] = u THEN g[k] ELSE Append(g[k], list[k + 1])
             h == [i \in 0..(k + 1) |-> IF i = k + 1 THEN next ELSE g[i]]
  <2>2. Copies(h, list, u, k + 1)
    <3>1. \A i \in 0..k : g[i] = IF i = 0 THEN <<>>
                                 ELSE IF list[i] = u THEN g[i - 1] ELSE Append(g[i - 1], list[i])
      BY <2>1 DEF Copies
    <3>2. \A i \in 0..(k + 1) : i # k + 1 => i \in 0..k
      OBVIOUS
    <3> HIDE DEF next
    <3>3. \A i \in 0..(k + 1) : i # 0 => h[i - 1] = g[i - 1]
      OBVIOUS
    <3>4. \A i \in 0..(k + 1) :
             h[i] = IF i = 0 THEN <<>>
                    ELSE IF list[i] = u THEN h[i - 1] ELSE Append(h[i - 1], list[i])
      BY <3>1, <3>2, <3>3 DEF next
    <3> HIDE DEF h
    <3>5. h = [i \in 0..(k + 1) |-> h[i]]
      BY DEF h
    <3> QED
      BY <3>4, <3>5 DEF Copies
  <2> QED
    BY <2>2
<1> HIDE DEF Q
<1>3. Nat \subseteq Q
  BY <1>1, <1>2, NaturalInduction
<1> QED
  BY <1>3 DEF Q

\* It has the others' elements, and none twice if none was there twice.
Elements(list) == {list[i] : i \in DOMAIN list}

LEMMA WithoutRemoves ==
    ASSUME NEW S, NEW list \in Seq(S), NEW u
    PROVE  /\ Without(list, u) \in Seq(S)
           /\ Elements(Without(list, u)) = Elements(list) \ {u}
           /\ IsInjective(list) => IsInjective(Without(list, u))
<1> DEFINE copy == CHOOSE g : Copies(g, list, u, Len(list))
           Upto(k) == {list[i] : i \in 1..k}
           Q == {k \in Nat : k <= Len(list) =>
                    /\ copy[k] \in Seq(S)
                    /\ Elements(copy[k]) = Upto(k) \ {u}
                    /\ IsInjective(list) => IsInjective(copy[k])}
<1>1. Len(list) \in Nat /\ DOMAIN list = 1..Len(list) /\ \A i \in 1..Len(list) : list[i] \in S
  OBVIOUS
<1>2. Without(list, u) = copy[Len(list)]
  BY DEF Without, Copies
<1>3. Copies(copy, list, u, Len(list))
  BY <1>1, CopyExists
<1> HIDE DEF copy
<1>4. 0 \in Q
  <2> SUFFICES /\ copy[0] \in Seq(S)
               /\ Elements(copy[0]) = Upto(0) \ {u}
               /\ IsInjective(list) => IsInjective(copy[0])
    OBVIOUS
  <2>1. copy[0] = <<>>
    BY <1>1, <1>3 DEF Copies
  <2>2. copy[0] \in Seq(S) /\ DOMAIN copy[0] = {}
    BY <2>1, EmptySeq
  <2>3. Elements(copy[0]) = {} /\ IsInjective(copy[0])
    BY <2>2 DEF Elements, IsInjective
  <2>4. Upto(0) \ {u} = {}
    OBVIOUS
  <2> HIDE DEF Upto
  <2> QED
    BY <2>2, <2>3, <2>4
<1>5. ASSUME NEW k \in Nat, k \in Q  PROVE k + 1 \in Q
  <2> SUFFICES ASSUME k + 1 <= Len(list)
               PROVE  /\ copy[k + 1] \in Seq(S)
                      /\ Elements(copy[k + 1]) = Upto(k + 1) \ {u}
                      /\ IsInjective(list) => IsInjective(copy[k + 1])
    OBVIOUS
  <2>1. copy[k + 1] = IF list[k + 1] = u THEN copy[k] ELSE Append(copy[k], list[k + 1])
    <3>1. k + 1 \in 0..Len(list) /\ k + 1 # 0 /\ (k + 1) - 1 = k
      BY <1>1
    <3>2. \A i \in 0..Len(list) :
             copy[i] = IF i = 0 THEN <<>>
                       ELSE IF list[i] = u THEN copy[i - 1] ELSE Append(copy[i - 1], list[i])
      BY <1>3 DEF Copies
    <3> QED
      BY <3>1, <3>2
  <2>2. /\ copy[k] \in Seq(S) /\ Elements(copy[k]) = Upto(k) \ {u}
        /\ IsInjective(list) => IsInjective(copy[k])
    BY <1>1, <1>5
  <2>3. Upto(k + 1) = Upto(k) \cup {list[k + 1]}
    OBVIOUS
  <2>4. CASE list[k + 1] = u
    BY <2>1, <2>2, <2>3, <2>4
  <2>5. CASE list[k + 1] # u
    <3> DEFINE c == copy[k]
               d == Append(c, list[k + 1])
    <3>1. copy[k + 1] = d /\ list[k + 1] \in S
      BY <1>1, <2>1, <2>5
    <3>2. /\ d \in Seq(S) /\ Len(c) \in Nat /\ DOMAIN c = 1..Len(c) /\ DOMAIN d = 1..(Len(c) + 1)
          /\ d[Len(c) + 1] = list[k + 1] /\ \A i \in 1..Len(c) : d[i] = c[i]
      BY <2>2, <3>1
    <3> HIDE DEF c, d
    <3>3. Elements(d) = Elements(c) \cup {list[k + 1]}
      BY <3>2 DEF Elements
    <3>4. ASSUME IsInjective(list)  PROVE IsInjective(d)
      <4>1. list[k + 1] \notin Upto(k)
        BY <1>1, <3>4 DEF IsInjective
      <4>2. IsInjective(c) /\ list[k + 1] \notin Elements(c)
        BY <2>2, <3>4, <4>1 DEF c
      <4> QED
        BY <3>2, <4>2 DEF IsInjective, Elements
    <3> QED
      BY <2>2, <2>3, <2>5, <3>1, <3>2, <3>3, <3>4 DEF c
  <2> QED
    BY <2>4, <2>5
<1>6. Upto(Len(list)) = Elements(list)
  BY <1>1 DEF Elements
<1> HIDE DEF Q
<1>7. Nat \subseteq Q
  BY <1>4, <1>5, NaturalInduction
<1>8. Len(list) \in Q
  BY <1>1, <1>7
<1> QED
  BY <1>1, <1>2, <1>6, <1>8 DEF Q

LEMMA AppendAdds ==
    ASSUME NEW S, NEW list \in Seq(S), NEW x \in S
    PROVE  /\ Append(list, x) \in Seq(S)
           /\ Elements(Append(list, x)) = Elements(list) \cup {x}
           /\ IsInjective(list) /\ x \notin Elements(list) => IsInjective(Append(list, x))
<1> DEFINE d == Append(list, x)
<1>1. /\ d \in Seq(S) /\ Len(list) \in Nat
      /\ DOMAIN list = 1..Len(list) /\ DOMAIN d = 1..(Len(list) + 1)
      /\ d[Len(list) + 1] = x /\ \A i \in 1..Len(list) : d[i] = list[i]
  OBVIOUS
<1> HIDE DEF d
<1>2. Elements(d) = Elements(list) \cup {x}
  BY <1>1 DEF Elements
<1>3. IsInjective(list) /\ x \notin Elements(list) => IsInjective(d)
  BY <1>1 DEF Elements, IsInjective
<1> QED
  BY <1>1, <1>2, <1>3 DEF d

\* A list without repetitions is as long as it has elements.
LEMMA LengthIsCardinality ==
    ASSUME NEW S, NEW list \in Seq(S), IsInjective(list)
    PROVE  Len(list) = Cardinality(Elements(list))
<1> DEFINE D == 1..Len(list)
<1>1. Len(list) \in Nat /\ DOMAIN list = D /\ list \in [D -> Elements(list)]
  BY DEF Elements
<1>2. list \in Surjection(D, Elements(list)) /\ list \in Injection(D, Elements(list))
  BY <1>1 DEF Elements, Surjection, Injection
<1>3. IsFiniteSet(D) /\ Cardinality(D) = Len(list)
  BY <1>1, FS_Interval
<1> QED
  BY <1>2, <1>3, FS_Surjection

-----------------------------------------------------------------------------
(* What a call does to the positions: it opens one, changes one or closes  *)
(* one, and the list of stakers and the total with it.                     *)

Position == [amount : Int, period : StakingPeriod, start_time : Nat, unlock_time : Nat,
             voting_power : Int]

PositionOK ==
    /\ DOMAIN stake \subseteq User
    /\ \A u \in DOMAIN stake : stake[u] \in Position /\ stake[u].start_time <= now
    /\ total_staked \in Int /\ staker_list \in Seq(User)

\* The rest of the state.
UnbondingEntry == [amount : Int, claimable_time : Nat]
NoticeEntry == [amount : Nat, until : Nat]

Entries(f, V) == DOMAIN f \subseteq User /\ \A u \in DOMAIN f : f[u] \in V

AccountsOK ==
    /\ admin \in User
    /\ Entries(unbonding, UnbondingEntry) /\ Entries(slash_notice, NoticeEntry)
    /\ notice_period \in Nat /\ staking_paused \in BOOLEAN
    /\ tokens \in [User \cup {Pool} -> Nat] /\ now \in Nat

LEMMA TypeInParts == PositionOK /\ AccountsOK => StakingTypeOK
BY DEF PositionOK, AccountsOK, StakingTypeOK, Position, Entries, UnbondingEntry,
       NoticeEntry

Opens(u, pos) ==
    /\ u \in User \ DOMAIN stake /\ pos \in Position /\ pos.start_time <= now'
    /\ stake' = Put(stake, u, pos) /\ total_staked' = total_staked + pos.amount
    /\ staker_list' = Append(staker_list, u)
Resizes(u, pos) ==
    /\ u \in DOMAIN stake /\ pos \in Position /\ pos.start_time <= now'
    /\ stake' = [stake EXCEPT ![u] = pos]
    /\ total_staked' = total_staked + pos.amount - stake[u].amount
    /\ UNCHANGED staker_list
Closes(u) ==
    /\ u \in DOMAIN stake /\ Deregister(u) /\ total_staked' = total_staked - stake[u].amount

PositionStep ==
    \/ \E u, pos : Opens(u, pos) \/ Resizes(u, pos)
    \/ \E u : Closes(u)
    \/ UNCHANGED positionVars

LEMMA MultiplierIsPositive == \A p \in StakingPeriod : multiplier(p) \in 1..5
BY DEF StakingPeriod, multiplier

LEMMA ResizedIsPosition ==
    ASSUME NEW pos \in Position, NEW amount \in Int
    PROVE  /\ Resized(pos, amount) \in Position
           /\ Resized(pos, amount).amount = amount
           /\ Resized(pos, amount).start_time = pos.start_time
           /\ Resized(pos, amount).unlock_time = pos.unlock_time
<1>1. multiplier(pos.period) \in Int /\ amount * multiplier(pos.period) \in Int
  BY MultiplierIsPositive DEF Position
<1> QED
  BY <1>1 DEF Resized, Position

\* The quotient by which a start moves.
LEMMA QuotientBounds ==
    ASSUME NEW x \in Nat, NEW y \in Nat, NEW z \in Nat, x <= z, z > 0
    PROVE  /\ (x * y) \div z \in Nat /\ (x * y) \div z <= y
           /\ z * ((x * y) \div z) <= x * y /\ x * y < z * ((x * y) \div z) + z
<1> DEFINE p == x * y
           q == p \div z
<1>1. p \in Nat /\ p <= z * y
  OBVIOUS
<1> HIDE DEF p
<1>2. q \in Int /\ z * q <= p /\ p < z * q + z
  BY <1>1
<1> HIDE DEF q
<1>3. q <= y
  <2>1. z * q <= z * y
    BY <1>1, <1>2
  <2> QED
    BY <1>2, <2>1
<1>4. 0 <= q
  <2>1. 0 < z * q + z
    BY <1>1, <1>2
  <2> QED
    BY <1>2, <2>1
<1> QED
  BY <1>2, <1>3, <1>4 DEF p, q

\* A top-up moves the start within the time gone by.
LEMMA StartStaysInThePast ==
    ASSUME now \in Nat, NEW pos \in Position, pos.start_time <= now,
           NEW amount \in Int, amount > pos.amount
    PROVE  EffectiveStart(pos, amount) \in Nat /\ EffectiveStart(pos, amount) <= now
<1>1. pos.amount \in Int /\ pos.start_time \in Nat
  BY DEF Position
<1>2. CASE amount <= 0 \/ (pos.amount < 0 /\ now > pos.start_time)
  BY <1>1, <1>2 DEF EffectiveStart
<1>3. CASE amount > 0 /\ pos.amount < 0 /\ now = pos.start_time
  <2>1. pos.amount * (now - pos.start_time) = 0
    BY <1>1, <1>3
  <2>2. 0 \div amount = 0
    BY <1>3
  <2> QED
    BY <1>1, <1>3, <2>1, <2>2 DEF EffectiveStart
<1>4. CASE amount > 0 /\ pos.amount >= 0
  <2> DEFINE y == now - pos.start_time
  <2>1. y \in Nat /\ y <= now /\ amount \in Nat /\ pos.amount \in Nat /\ pos.amount <= amount
    BY <1>1, <1>4
  <2>2. EffectiveStart(pos, amount) = now - ((pos.amount * y) \div amount)
    BY <1>1, <1>4 DEF EffectiveStart
  <2> HIDE DEF y
  <2>3. (pos.amount * y) \div amount \in Nat /\ (pos.amount * y) \div amount <= y
    BY <1>4, <2>1, QuotientBounds
  <2> QED
    BY <2>1, <2>2, <2>3
<1> QED
  BY <1>1, <1>2, <1>3, <1>4

LEMMA StakeOpens ==
    ASSUME PositionOK, AccountsOK, NEW u \in User, NEW amount \in StakeAmounts,
           NEW period \in Periods, Stake(u, amount, period)
    PROVE  PositionStep
<1> DEFINE pos == [amount |-> amount, period |-> period, start_time |-> now,
                   unlock_time |-> now + period * Month,
                   voting_power |-> amount * multiplier(period)]
<1>1. amount \in Int /\ period \in StakingPeriod /\ now \in Nat
  BY StakingAssumption DEF AccountsOK
<1>2. period \in Nat /\ multiplier(period) \in Int /\ Month \in Nat
  BY <1>1, MultiplierIsPositive, StakingAssumption DEF StakingPeriod
<1>3. now + period * Month \in Nat /\ amount * multiplier(period) \in Int
  BY <1>1, <1>2
<1>4. pos \in Position
  BY <1>1, <1>3 DEF Position
<1>5. Opens(u, pos)
  BY <1>1, <1>4 DEF Stake, Opens
<1> QED
  BY <1>5 DEF PositionStep

LEMMA TopUpResizes ==
    ASSUME PositionOK, AccountsOK, NEW u \in User, NEW amount \in StakeAmounts, TopUp(u, amount)
    PROVE  /\ amount \in Nat /\ u \in DOMAIN stake
           /\ Topped(stake[u], stake[u].amount + amount).amount = stake[u].amount + amount
           /\ Topped(stake[u], stake[u].amount + amount).unlock_time = stake[u].unlock_time
           /\ Topped(stake[u], stake[u].amount + amount).start_time
                 = EffectiveStart(stake[u], stake[u].amount + amount)
           /\ Resizes(u, Topped(stake[u], stake[u].amount + amount))
<1> DEFINE old == stake[u]
           sum == old.amount + amount
           pos == Topped(old, sum)
<1>1. amount \in Int /\ amount > 0 /\ u \in DOMAIN stake /\ now \in Nat
  BY StakingAssumption DEF TopUp, AccountsOK
<1>2. old \in Position /\ old.amount \in Int /\ old.start_time <= now
  BY <1>1 DEF PositionOK, Position
<1>3. sum \in Int /\ sum > old.amount
  BY <1>1, <1>2
<1> HIDE DEF sum, old
<1>4. EffectiveStart(old, sum) \in Nat /\ EffectiveStart(old, sum) <= now
  BY <1>1, <1>2, <1>3, StartStaysInThePast
<1>5. Resized(old, sum) \in Position /\ Resized(old, sum).amount = sum
      /\ Resized(old, sum).unlock_time = old.unlock_time
  BY <1>2, <1>3, ResizedIsPosition
<1>6. /\ pos \in Position /\ pos.amount = sum /\ pos.start_time = EffectiveStart(old, sum)
      /\ pos.unlock_time = old.unlock_time
  BY <1>4, <1>5 DEF Topped, Position
<1>7. /\ stake' = [stake EXCEPT ![u] = pos] /\ total_staked' = total_staked + amount
      /\ now' = now /\ staker_list' = staker_list
  BY <1>1 DEF TopUp, old, sum
<1>8. total_staked + amount = total_staked + sum - old.amount
  BY <1>1, <1>2 DEF PositionOK, sum
<1>9. Resizes(u, pos)
  BY <1>1, <1>4, <1>6, <1>7, <1>8 DEF Resizes, old
<1> QED
  BY <1>1, <1>6, <1>9 DEF old, sum

LEMMA SlashChanges ==
    ASSUME PositionOK, AccountsOK, NEW a, NEW u \in User, NEW shortfall \in StakeAmounts,
           Slash(a, u, shortfall)
    PROVE  PositionStep
<1> DEFINE old == stake[u]
           slashed == SlashAmount(old, shortfall)
           rest == old.amount - slashed
<1>1. shortfall \in Int /\ shortfall > 0 /\ u \in DOMAIN stake
  BY StakingAssumption DEF Slash
<1>2. old \in Position /\ old.amount \in Int /\ old.start_time <= now
  BY <1>1 DEF PositionOK, Position
<1>3. slashed \in Int /\ rest \in Int /\ now' = now
  BY <1>1, <1>2 DEF SlashAmount, Slash
<1>4. /\ total_staked' = total_staked - slashed
      /\ IF rest = 0 THEN Deregister(u)
         ELSE stake' = [stake EXCEPT ![u] = Resized(@, rest)] /\ UNCHANGED staker_list
  BY DEF Slash
<1> HIDE DEF slashed
<1>5. CASE rest = 0
  <2>1. slashed = old.amount
    BY <1>2, <1>3, <1>5
  <2>2. Closes(u)
    BY <1>1, <1>4, <1>5, <2>1 DEF Closes
  <2> QED
    BY <2>2 DEF PositionStep
<1>6. CASE rest # 0
  <2> DEFINE pos == Resized(old, rest)
  <2>1. total_staked - slashed = total_staked + rest - old.amount
    BY <1>2, <1>3 DEF PositionOK
  <2>2. stake' = [stake EXCEPT ![u] = pos] /\ staker_list' = staker_list
    BY <1>1, <1>4, <1>6
  <2> HIDE DEF rest, old
  <2>3. pos \in Position /\ pos.amount = rest /\ pos.start_time = old.start_time
    BY <1>2, <1>3, ResizedIsPosition
  <2>4. Resizes(u, pos)
    BY <1>1, <1>2, <1>3, <1>4, <2>1, <2>2, <2>3 DEF Resizes, old
  <2> QED
    BY <2>4 DEF PositionStep
<1> QED
  BY <1>5, <1>6

LEMMA ExecutionResizes ==
    ASSUME PositionOK, AccountsOK, NEW a, NEW u \in User, ExecuteSlash(a, u)
    PROVE  /\ u \in DOMAIN stake /\ slash_notice[u].amount \in Nat
           /\ Resized(stake[u], stake[u].amount - slash_notice[u].amount).amount
                 = stake[u].amount - slash_notice[u].amount
           /\ Resizes(u, Resized(stake[u], stake[u].amount - slash_notice[u].amount))
<1> DEFINE old == stake[u]
           slashed == slash_notice[u].amount
           rest == old.amount - slashed
           pos == Resized(old, rest)
<1>1. u \in DOMAIN stake /\ slashed \in Nat /\ now' = now
  BY DEF ExecuteSlash, AccountsOK, Entries, NoticeEntry
<1>2. old \in Position /\ old.amount \in Int /\ old.start_time <= now
  BY <1>1 DEF PositionOK, Position
<1>3. /\ stake' = [stake EXCEPT ![u] = pos] /\ staker_list' = staker_list
      /\ total_staked' = total_staked - slashed
  BY <1>1 DEF ExecuteSlash
<1>4. rest \in Int /\ total_staked - slashed = total_staked + rest - old.amount
  BY <1>1, <1>2 DEF PositionOK
<1> HIDE DEF rest, old
<1>5. pos \in Position /\ pos.amount = rest /\ pos.start_time = old.start_time
  BY <1>2, <1>4, ResizedIsPosition
<1>6. Resizes(u, pos)
  BY <1>1, <1>2, <1>3, <1>4, <1>5 DEF Resizes, old
<1> QED
  BY <1>1, <1>5, <1>6 DEF rest, old

LEMMA PositionsMove ==
    ASSUME PositionOK, AccountsOK, [StakingNext]_<<stakingVars, now>>
    PROVE  PositionStep
<1>1. ASSUME NEW u \in User, PositionNext(u)  PROVE PositionStep
  <2>1. ASSUME NEW amount \in StakeAmounts, NEW period \in Periods, Stake(u, amount, period)
        PROVE  PositionStep
    BY <2>1, StakeOpens
  <2>2. ASSUME NEW amount \in StakeAmounts, TopUp(u, amount)  PROVE PositionStep
    BY <2>2, TopUpResizes DEF PositionStep
  <2>3. CASE Unstake(u)
    BY <2>3 DEF Unstake, PositionStep, Closes
  <2>4. CASE Claim(u)
    BY <2>4 DEF Claim, PositionStep
  <2> QED
    BY <1>1, <2>1, <2>2, <2>3, <2>4 DEF PositionNext
<1>2. ASSUME NEW a \in User, SlashNext(a)  PROVE PositionStep
  <2>1. ASSUME NEW u \in User, NEW amount \in StakeAmounts, Slash(a, u, amount)
        PROVE  PositionStep
    BY <2>1, SlashChanges
  <2>2. ASSUME NEW u \in User, ExecuteSlash(a, u)  PROVE PositionStep
    BY <2>2, ExecutionResizes DEF PositionStep
  <2>3. ASSUME NEW u, NEW amount, CreateSlashNotice(a, u, amount)  PROVE PositionStep
    BY <2>3 DEF CreateSlashNotice, PositionStep
  <2>4. ASSUME NEW u, CancelSlash(a, u)  PROVE PositionStep
    BY <2>4 DEF CancelSlash, PositionStep
  <2>5. ASSUME NEW seconds, SetSlashNoticePeriod(a, seconds)  PROVE PositionStep
    BY <2>5 DEF SetSlashNoticePeriod, PositionStep
  <2> QED
    BY <1>2, <2>1, <2>2, <2>3, <2>4, <2>5 DEF SlashNext
<1>3. ASSUME NEW a \in User, ControlNext(a)  PROVE PositionStep
  BY <1>3 DEF ControlNext, UpdateAdmin, PauseStaking, UnpauseStaking, PositionStep
<1>4. CASE StakingTick \/ UNCHANGED <<stakingVars, now>>
  BY <1>4 DEF StakingTick, stakingVars, PositionStep
<1> QED
  BY <1>1, <1>2, <1>3, <1>4 DEF StakingNext

-----------------------------------------------------------------------------
(* The rest of the state keeps its type.                                   *)

LEMMA TransferKeepsBalances ==
    ASSUME AccountsOK, NEW from \in User \cup {Pool}, NEW to \in User \cup {Pool}, from # to,
           NEW amount \in Int, Transfer(from, to, amount)
    PROVE  /\ tokens' \in [User \cup {Pool} -> Nat]
           /\ tokens'[from] = tokens[from] - amount /\ tokens'[to] = tokens[to] + amount
           /\ \A x \in (User \cup {Pool}) \ {from, to} : tokens'[x] = tokens[x]
           /\ amount >= 0
BY DEF Transfer, AccountsOK

LEMMA PutKeepsEntries ==
    ASSUME NEW f, NEW V, Entries(f, V), NEW u \in User, NEW v \in V
    PROVE  Entries(Put(f, u, v), V)
BY DEF Put, Entries

LEMMA DropKeepsEntries ==
    ASSUME NEW f, NEW V, Entries(f, V), NEW u
    PROVE  /\ Entries(Drop(f, u), V) /\ DOMAIN Drop(f, u) = DOMAIN f \ {u}
           /\ \A x \in DOMAIN f \ {u} : Drop(f, u)[x] = f[x]
BY DEF Drop, Restrict, Entries

LEMMA AccountsStand ==
    ASSUME AccountsOK, tokens' \in [User \cup {Pool} -> Nat],
           UNCHANGED <<admin, unbonding, slash_notice, notice_period, staking_paused, now>>
    PROVE  AccountsOK'
BY DEF AccountsOK

LEMMA ClaimMoves ==
    ASSUME AccountsOK, NEW u \in User, Claim(u)
    PROVE  /\ u \in DOMAIN unbonding /\ unbonding[u].amount \in Nat
           /\ Pool # u /\ Transfer(Pool, u, unbonding[u].amount) /\ unbonding' = Drop(unbonding, u)
           /\ AccountsOK'
<1>1. u \in DOMAIN unbonding /\ Transfer(Pool, u, unbonding[u].amount)
  BY DEF Claim
<1>2. unbonding[u].amount \in Nat /\ Pool # u
  BY <1>1, StakingAssumption DEF AccountsOK, Transfer, Entries, UnbondingEntry
<1>3. tokens' \in [User \cup {Pool} -> Nat]
  <2>1. unbonding[u].amount \in Int /\ Pool \in User \cup {Pool} /\ u \in User \cup {Pool}
    BY <1>2
  <2> QED
    BY <1>1, <1>2, <2>1, TransferKeepsBalances
<1>4. unbonding' = Drop(unbonding, u)
  BY DEF Claim
<1>5. Entries(unbonding', UnbondingEntry)
  BY <1>4, DropKeepsEntries DEF AccountsOK
<1>6. UNCHANGED <<admin, slash_notice, notice_period, staking_paused, now>>
  BY DEF Claim, noticeVars, controlVars
<1> QED
  BY <1>1, <1>2, <1>3, <1>4, <1>5, <1>6 DEF AccountsOK

LEMMA UnstakeMoves ==
    ASSUME PositionOK, AccountsOK, NEW u \in User, Unstake(u)
    PROVE  AccountsOK'
<1> DEFINE entry == [amount |-> stake[u].amount, claimable_time |-> now + Unbonding]
<1>1. unbonding' = Put(unbonding, u, entry)
  BY DEF Unstake
<1>2. entry \in UnbondingEntry
  BY StakingAssumption, SMTT(60) DEF Unstake, PositionOK, Position, AccountsOK, UnbondingEntry
<1> HIDE DEF entry
<1>3. Entries(unbonding', UnbondingEntry)
  BY <1>1, <1>2, PutKeepsEntries DEF AccountsOK
<1>4. UNCHANGED <<admin, slash_notice, notice_period, staking_paused, tokens, now>>
  BY DEF Unstake, noticeVars, controlVars
<1> QED
  BY <1>3, <1>4 DEF AccountsOK

LEMMA NoticeMoves ==
    ASSUME AccountsOK, NEW a, NEW u \in User,
           \/ \E amount \in StakeAmounts : CreateSlashNotice(a, u, amount)
           \/ CancelSlash(a, u) \/ ExecuteSlash(a, u)
    PROVE  AccountsOK'
<1>1. UNCHANGED <<admin, unbonding, notice_period, staking_paused, tokens, now>>
  BY DEF CreateSlashNotice, CancelSlash, ExecuteSlash, controlVars
<1>2. Entries(slash_notice', NoticeEntry)
  <2>1. CASE slash_notice' = Drop(slash_notice, u)
    BY <2>1, DropKeepsEntries DEF AccountsOK
  <2>2. ASSUME NEW amount \in StakeAmounts, CreateSlashNotice(a, u, amount)
        PROVE  Entries(slash_notice', NoticeEntry)
    <3> DEFINE entry == [amount |-> amount, until |-> now + notice_period]
    <3>1. entry \in NoticeEntry /\ slash_notice' = Put(slash_notice, u, entry)
      BY <2>2, StakingAssumption DEF CreateSlashNotice, AccountsOK, NoticeEntry
    <3> HIDE DEF entry
    <3> QED
      BY <3>1, PutKeepsEntries DEF AccountsOK
  <2> QED
    BY <2>1, <2>2 DEF CancelSlash, ExecuteSlash
<1> QED
  BY <1>1, <1>2 DEF AccountsOK

LEMMA AccountsMove ==
    ASSUME PositionOK, AccountsOK, [StakingNext]_<<stakingVars, now>>
    PROVE  AccountsOK' /\ now <= now'
<1>1. now \in Nat
  BY DEF AccountsOK
<1>2. ASSUME NEW u \in User, PositionNext(u)  PROVE AccountsOK' /\ now' = now
  <2>1. ASSUME NEW amount \in StakeAmounts,
               (\E period \in Periods : Stake(u, amount, period)) \/ TopUp(u, amount)
        PROVE  AccountsOK' /\ now' = now
    <3>1. Transfer(u, Pool, amount) /\ amount \in Int /\ Pool # u
      BY <2>1, StakingAssumption DEF Stake, TopUp
    <3>2. tokens' \in [User \cup {Pool} -> Nat]
      BY <3>1, TransferKeepsBalances
    <3> QED
      BY <2>1, <3>2, AccountsStand DEF Stake, TopUp, noticeVars, controlVars
  <2>2. CASE Unstake(u) \/ Claim(u)
    BY <2>2, UnstakeMoves, ClaimMoves DEF Unstake, Claim
  <2> QED
    BY <1>2, <2>1, <2>2 DEF PositionNext
<1>3. ASSUME NEW a \in User, SlashNext(a)  PROVE AccountsOK' /\ now' = now
  <2>1. ASSUME NEW u \in User, NEW amount \in StakeAmounts, Slash(a, u, amount)
        PROVE  AccountsOK' /\ now' = now
    BY <2>1 DEF Slash, AccountsOK, noticeVars, controlVars
  <2>2. ASSUME NEW seconds \in Notices, SetSlashNoticePeriod(a, seconds)
        PROVE  AccountsOK' /\ now' = now
    BY <2>2, StakingAssumption DEF SetSlashNoticePeriod, AccountsOK, controlVars
  <2>3. ASSUME NEW u \in User,
               \/ \E amount \in StakeAmounts : CreateSlashNotice(a, u, amount)
               \/ CancelSlash(a, u) \/ ExecuteSlash(a, u)
        PROVE  AccountsOK' /\ now' = now
    BY <2>3, NoticeMoves DEF CreateSlashNotice, CancelSlash, ExecuteSlash
  <2> QED
    BY <1>3, <2>1, <2>2, <2>3 DEF SlashNext
<1>4. ASSUME NEW a \in User, ControlNext(a)  PROVE AccountsOK' /\ now' = now
  BY <1>4 DEF ControlNext, UpdateAdmin, PauseStaking, UnpauseStaking, AccountsOK, noticeVars
<1>5. CASE StakingTick \/ UNCHANGED <<stakingVars, now>>
  BY <1>5 DEF StakingTick, AccountsOK, stakingVars, noticeVars, controlVars
<1> QED
  BY <1>1, <1>2, <1>3, <1>4, <1>5 DEF StakingNext

-----------------------------------------------------------------------------
(* The list and the total follow the positions.                            *)

ListOK == Elements(staker_list) = DOMAIN stake /\ IsInjective(staker_list)

LEMMA PositionsKeepType ==
    ASSUME PositionOK, PositionStep, now \in Nat, now' \in Nat, now <= now'
    PROVE  PositionOK'
<1>1. \A u \in DOMAIN stake : stake[u].amount \in Int /\ stake[u].start_time \in Nat
                             /\ stake[u].start_time <= now'
  BY DEF PositionOK, Position
<1>2. ASSUME NEW u, NEW pos, Opens(u, pos)  PROVE PositionOK'
  <2>1. pos.amount \in Int /\ pos.start_time <= now' /\ pos \in Position /\ u \in User
    BY <1>2 DEF Opens, Position
  <2>2. staker_list' \in Seq(User)
    BY <1>2, <2>1, AppendAdds DEF Opens, PositionOK
  <2>3. /\ DOMAIN stake' = DOMAIN stake \cup {u}
        /\ \A v \in DOMAIN stake' : stake'[v] = IF v = u THEN pos ELSE stake[v]
    BY <1>2 DEF Opens, Put
  <2>4. total_staked' \in Int
    BY <1>2, <2>1 DEF Opens, PositionOK
  <2> QED
    BY <1>1, <2>1, <2>2, <2>3, <2>4 DEF PositionOK
<1>3. ASSUME NEW u, NEW pos, Resizes(u, pos)  PROVE PositionOK'
  <2>1. pos.amount \in Int /\ pos.start_time <= now' /\ pos \in Position /\ u \in DOMAIN stake
    BY <1>3 DEF Resizes, Position
  <2>2. total_staked' \in Int
    BY <1>1, <1>3, <2>1 DEF Resizes, PositionOK
  <2> QED
    BY <1>1, <1>3, <2>1, <2>2 DEF Resizes, PositionOK
<1>4. ASSUME NEW u, Closes(u)  PROVE PositionOK'
  <2>1. staker_list' \in Seq(User)
    BY <1>4, WithoutRemoves DEF Closes, Deregister, PositionOK
  <2>2. /\ DOMAIN stake' = DOMAIN stake \ {u}
        /\ \A v \in DOMAIN stake' : stake'[v] = stake[v]
    BY <1>4 DEF Closes, Deregister, Drop, Restrict
  <2>3. total_staked' \in Int
    BY <1>1, <1>4 DEF Closes, PositionOK
  <2> QED
    BY <1>1, <2>1, <2>2, <2>3 DEF PositionOK
<1>5. CASE UNCHANGED positionVars
  BY <1>1, <1>5 DEF PositionOK, positionVars
<1> QED
  BY <1>2, <1>3, <1>4, <1>5 DEF PositionStep

LEMMA PositionsKeepList ==
    ASSUME PositionOK, ListOK, PositionStep
    PROVE  ListOK'
<1>1. ASSUME NEW u, NEW pos, Opens(u, pos)  PROVE ListOK'
  <2>1. u \in User /\ u \notin Elements(staker_list) /\ staker_list' = Append(staker_list, u)
    BY <1>1 DEF Opens, ListOK
  <2>2. DOMAIN stake' = DOMAIN stake \cup {u}
    BY <1>1 DEF Opens, Put
  <2> QED
    BY <2>1, <2>2, AppendAdds DEF ListOK, PositionOK
<1>2. ASSUME NEW u, NEW pos, Resizes(u, pos)  PROVE ListOK'
  BY <1>2 DEF Resizes, ListOK
<1>3. ASSUME NEW u, Closes(u)  PROVE ListOK'
  <2>1. DOMAIN stake' = DOMAIN stake \ {u} /\ staker_list' = Without(staker_list, u)
    BY <1>3 DEF Closes, Deregister, Drop, Restrict
  <2> QED
    BY <2>1, WithoutRemoves DEF ListOK, PositionOK
<1>4. CASE UNCHANGED positionVars
  BY <1>4 DEF ListOK, positionVars
<1> QED
  BY <1>1, <1>2, <1>3, <1>4 DEF PositionStep

LEMMA StakeIsInteger ==
    ASSUME PositionOK, NEW u  PROVE StakeOf(u) \in Int
BY DEF PositionOK, Position, StakeOf

\* When one account's position changes, the total has to change as much.
LEMMA TotalFollows ==
    ASSUME PositionOK, PositionOK', TotalIsSum, NEW u \in User,
           \A v \in User \ {u} : StakeOf(v)' = StakeOf(v),
           total_staked' = total_staked + StakeOf(u)' - StakeOf(u)
    PROVE  TotalIsSum'
<1> DEFINE f == [v \in User |-> StakeOf(v)]
           g == [v \in User |-> StakeOf(v)']
<1>1. \A v \in User : f[v] \in Int /\ g[v] \in Int
  <2>1. \A v : StakeOf(v)' \in Int
    BY DEF PositionOK, Position, StakeOf
  <2> QED
    BY <2>1, StakeIsInteger
<1>2. \A v \in User \ {u} : g[v] = f[v]
  OBVIOUS
<1>3. total_staked = SumFunctionOnSet(f, User) /\ f[u] = StakeOf(u) /\ g[u] = StakeOf(u)'
  BY DEF TotalIsSum
<1> HIDE DEF f, g
<1>4. SumFunctionOnSet(g, User) = SumFunctionOnSet(f, User) + g[u] - f[u]
  BY <1>1, <1>2, StakingAssumption, SumOfChange
<1>5. total_staked' = SumFunctionOnSet(g, User)
  BY <1>3, <1>4
<1> QED
  BY <1>5 DEF TotalIsSum, g

LEMMA PositionsKeepTotal ==
    ASSUME PositionOK, PositionOK', TotalIsSum, PositionStep
    PROVE  TotalIsSum'
<1>1. ASSUME NEW u, NEW pos, Opens(u, pos)  PROVE TotalIsSum'
  <2>1. u \in User /\ StakeOf(u) = 0 /\ pos.amount \in Int /\ total_staked \in Int
    BY <1>1 DEF Opens, StakeOf, PositionOK, Position
  <2>2. StakeOf(u)' = pos.amount /\ \A v \in User \ {u} : StakeOf(v)' = StakeOf(v)
    BY <1>1 DEF Opens, StakeOf, Put
  <2>3. total_staked' = total_staked + StakeOf(u)' - StakeOf(u)
    BY <1>1, <2>1, <2>2 DEF Opens
  <2> QED
    BY <2>1, <2>2, <2>3, TotalFollows
<1>2. ASSUME NEW u, NEW pos, Resizes(u, pos)  PROVE TotalIsSum'
  <2>1. u \in User /\ StakeOf(u) = stake[u].amount
    BY <1>2 DEF Resizes, StakeOf, PositionOK
  <2>2. StakeOf(u)' = pos.amount /\ \A v \in User \ {u} : StakeOf(v)' = StakeOf(v)
    BY <1>2 DEF Resizes, StakeOf
  <2>3. total_staked' = total_staked + StakeOf(u)' - StakeOf(u)
    BY <1>2, <2>1, <2>2 DEF Resizes
  <2> QED
    BY <2>1, <2>2, <2>3, TotalFollows
<1>3. ASSUME NEW u, Closes(u)  PROVE TotalIsSum'
  <2>1. u \in User /\ StakeOf(u) = stake[u].amount /\ StakeOf(u) \in Int /\ total_staked \in Int
    BY <1>3, StakeIsInteger DEF Closes, StakeOf, PositionOK
  <2>2. StakeOf(u)' = 0 /\ \A v \in User \ {u} : StakeOf(v)' = StakeOf(v)
    BY <1>3 DEF Closes, Deregister, StakeOf, Drop, Restrict
  <2>3. total_staked' = total_staked + StakeOf(u)' - StakeOf(u)
    BY <1>3, <2>1, <2>2 DEF Closes
  <2> QED
    BY <2>1, <2>2, <2>3, TotalFollows
<1>4. CASE UNCHANGED positionVars
  BY <1>4 DEF TotalIsSum, positionVars, StakeOf
<1> QED
  BY <1>1, <1>2, <1>3, <1>4 DEF PositionStep

-----------------------------------------------------------------------------

BooksOK == PositionOK /\ AccountsOK /\ ListOK /\ TotalIsSum

LEMMA BooksStart == InitStaking => BooksOK
<1> SUFFICES ASSUME InitStaking  PROVE BooksOK
  OBVIOUS
<1>1. DOMAIN stake = {} /\ DOMAIN unbonding = {} /\ DOMAIN slash_notice = {}
  BY DEF InitStaking, Nothing
<1>2. staker_list \in Seq(User) /\ DOMAIN staker_list = {} /\ total_staked = 0
  BY EmptySeq DEF InitStaking
<1>3. PositionOK
  BY <1>1, <1>2 DEF PositionOK
<1>4. ListOK
  BY <1>1, <1>2 DEF ListOK, Elements, IsInjective
<1>5. TotalIsSum
  <2> DEFINE f == [u \in User |-> StakeOf(u)]
  <2>1. \A u \in User : f[u] = 0
    BY <1>1 DEF StakeOf
  <2> HIDE DEF f
  <2>2. SumFunctionOnSet(f, User) = 0
    BY <2>1, StakingAssumption, SumOfZeros
  <2> QED
    BY <1>2, <2>2 DEF TotalIsSum, f
<1>6. AccountsOK
  <2>1. tokens \in [User \cup {Pool} -> Nat]
    BY StakingAssumption DEF InitStaking
  <2>2. Entries(unbonding, UnbondingEntry) /\ Entries(slash_notice, NoticeEntry)
    BY <1>1 DEF Entries
  <2> QED
    BY <2>1, <2>2, StakingAssumption DEF InitStaking, AccountsOK
<1> QED
  BY <1>3, <1>4, <1>5, <1>6 DEF BooksOK

LEMMA BooksKept ==
    ASSUME BooksOK, [StakingNext]_<<stakingVars, now>>
    PROVE  BooksOK' /\ PositionStep
<1>1. PositionStep /\ AccountsOK' /\ now \in Nat /\ now' \in Nat /\ now <= now'
  BY PositionsMove, AccountsMove DEF BooksOK, AccountsOK
<1>2. PositionOK'
  BY <1>1, PositionsKeepType DEF BooksOK
<1>3. ListOK' /\ TotalIsSum'
  BY <1>1, <1>2, PositionsKeepList, PositionsKeepTotal DEF BooksOK
<1> QED
  BY <1>1, <1>2, <1>3 DEF BooksOK

LEMMA BooksImply == BooksOK => StakingTypeOK /\ StakersAreListed /\ TotalIsSum
<1> SUFFICES ASSUME BooksOK  PROVE StakingTypeOK /\ StakersAreListed /\ TotalIsSum
  OBVIOUS
<1>1. StakersAreListed
  BY LengthIsCardinality DEF BooksOK, ListOK, PositionOK, StakersAreListed, Elements
<1> QED
  BY <1>1, TypeInParts DEF BooksOK

\* Every entry of the contract has its type, whatever is slashed: amounts may turn
\* negative, start times never run ahead of the clock or below zero.
THEOREM StakingTypeCorrect == StakingSpec => []StakingTypeOK
BY BooksStart, BooksKept, BooksImply, PTL DEF StakingSpec

\* The list that get_all_stakers returns has every address with a position, and once.
THEOREM ListIsComplete == StakingSpec => []StakersAreListed
BY BooksStart, BooksKept, BooksImply, PTL DEF StakingSpec

\* The running total is the sum of the positions after every sequence of stakes, top-ups,
\* slashes, executed notices and unstakes, for every number of stakers.
THEOREM TotalIsTheSum == StakingSpec => []TotalIsSum
BY BooksStart, BooksKept, BooksImply, PTL DEF StakingSpec

-----------------------------------------------------------------------------
(* What the contract owes.  A call moves tokens between one account and    *)
(* the contract's, and what that account is owed grows by no more than it  *)
(* pays.                                                                   *)

Settles(u) ==
    /\ \A v \in User \ {u} : Owed(v)' = Owed(v) /\ tokens'[v] = tokens[v]
    /\ tokens'[Pool] - tokens[Pool] = tokens[u] - tokens'[u]
    /\ Owed(u)' - Owed(u) <= tokens[u] - tokens'[u]

SettlementStep == (\E u \in User : Settles(u)) \/ UNCHANGED <<stake, unbonding, tokens>>

LEMMA AmountsAreIntegers ==
    ASSUME PositionOK, AccountsOK, NEW u
    PROVE  StakeOf(u) \in Int /\ UnbondingOf(u) \in Int /\ Owed(u) \in Nat
<1>1. StakeOf(u) \in Int /\ UnbondingOf(u) \in Int
  BY StakeIsInteger DEF AccountsOK, Entries, UnbondingEntry, UnbondingOf
<1> QED
  BY <1>1 DEF Owed, Positive

LEMMA BalancesAreIntegers ==
    ASSUME AccountsOK
    PROVE  tokens[Pool] \in Nat /\ \A u \in User : tokens[u] \in Nat
BY DEF AccountsOK

\* What a call does to the accounts: a slash lowers a stake and moves nothing else, a
\* staker adds to its own, or takes it out in two calls.
Lowers(u) ==
    /\ UNCHANGED <<unbonding, tokens>>
    /\ \A v \in User \ {u} : StakeOf(v)' = StakeOf(v)
    /\ StakeOf(u)' \in Int
    /\ StakeOf(u)' <= StakeOf(u) \/ StakeOf(u)' <= 0
TopsUp(u, amount) ==
    /\ UNCHANGED unbonding /\ Transfer(u, Pool, amount)
    /\ \A v \in User \ {u} : StakeOf(v)' = StakeOf(v)
    /\ StakeOf(u)' = StakeOf(u) + amount

AccountStep ==
    \/ \E u \in User : Lowers(u) \/ Unstake(u) \/ Claim(u)
    \/ \E u \in User, amount \in Int : TopsUp(u, amount)
    \/ UNCHANGED <<stake, unbonding, tokens>>

LEMMA LoweringSettles ==
    ASSUME PositionOK, AccountsOK, NEW u \in User, Lowers(u)
    PROVE  Settles(u)
<1>1. \A v : UnbondingOf(v)' = UnbondingOf(v)
  BY DEF Lowers, UnbondingOf
<1>2. StakeOf(u) \in Int /\ UnbondingOf(u) \in Int
  BY AmountsAreIntegers
<1>3. Owed(u)' <= Owed(u) /\ Owed(u)' \in Int /\ Owed(u) \in Int
  BY <1>1, <1>2 DEF Lowers, Owed, Positive
<1>4. tokens[Pool] \in Nat /\ tokens[u] \in Nat
  BY BalancesAreIntegers
<1>5. \A v \in User \ {u} : Owed(v)' = Owed(v)
  BY <1>1 DEF Lowers, Owed
<1> QED
  BY <1>3, <1>4, <1>5 DEF Lowers, Settles

LEMMA DepositSettles ==
    ASSUME PositionOK, AccountsOK, NEW u \in User, NEW amount \in Int, TopsUp(u, amount)
    PROVE  Settles(u)
<1>1. \A v : UnbondingOf(v)' = UnbondingOf(v)
  BY DEF TopsUp, UnbondingOf
<1>2. StakeOf(u) \in Int /\ UnbondingOf(u) \in Int
  BY AmountsAreIntegers
<1>3. /\ tokens'[u] = tokens[u] - amount /\ tokens'[Pool] = tokens[Pool] + amount
      /\ \A v \in User \ {u} : tokens'[v] = tokens[v]
      /\ amount >= 0
  BY StakingAssumption, TransferKeepsBalances DEF TopsUp
<1>4. Owed(u)' - Owed(u) <= amount
  BY <1>1, <1>2, <1>3 DEF TopsUp, Owed, Positive
<1>5. tokens[Pool] \in Nat /\ tokens[u] \in Nat
  BY BalancesAreIntegers
<1>6. \A v \in User \ {u} : Owed(v)' = Owed(v)
  BY <1>1 DEF TopsUp, Owed
<1> QED
  BY <1>3, <1>4, <1>5, <1>6 DEF Settles

LEMMA UnstakeSettles ==
    ASSUME PositionOK, AccountsOK, NEW u \in User, Unstake(u)
    PROVE  Settles(u)
<1>1. /\ u \in DOMAIN stake /\ stake' = Drop(stake, u) /\ tokens' = tokens
      /\ unbonding' = Put(unbonding, u, [amount |-> stake[u].amount,
                                         claimable_time |-> now + Unbonding])
  BY DEF Unstake, Deregister
<1>2. StakeOf(u)' = 0 /\ UnbondingOf(u)' = StakeOf(u)
  BY <1>1 DEF StakeOf, UnbondingOf, Drop, Restrict, Put
<1>3. \A v \in User \ {u} : StakeOf(v)' = StakeOf(v) /\ UnbondingOf(v)' = UnbondingOf(v)
  BY <1>1 DEF StakeOf, UnbondingOf, Drop, Restrict, Put
<1>4. StakeOf(u) \in Int /\ UnbondingOf(u) \in Int
  BY AmountsAreIntegers
<1>5. Owed(u)' <= Owed(u) /\ Owed(u)' \in Int /\ Owed(u) \in Int
  BY <1>2, <1>4 DEF Owed, Positive
<1>6. tokens[Pool] \in Nat /\ tokens[u] \in Nat
  BY BalancesAreIntegers
<1>7. \A v \in User \ {u} : Owed(v)' = Owed(v)
  BY <1>3 DEF Owed
<1> QED
  BY <1>1, <1>5, <1>6, <1>7 DEF Settles

LEMMA ClaimSettles ==
    ASSUME PositionOK, AccountsOK, NEW u \in User, Claim(u)
    PROVE  Settles(u)
<1> DEFINE amount == unbonding[u].amount
<1>1. /\ u \in DOMAIN unbonding /\ amount \in Nat /\ Pool # u /\ Transfer(Pool, u, amount)
      /\ unbonding' = Drop(unbonding, u)
  BY ClaimMoves
<1>2. UnbondingOf(u) = amount /\ UnbondingOf(u)' = 0
  BY <1>1 DEF UnbondingOf, Drop, Restrict
<1>3. \A v \in User \ {u} : UnbondingOf(v)' = UnbondingOf(v)
  BY <1>1 DEF UnbondingOf, Drop, Restrict
<1>4. \A v : StakeOf(v)' = StakeOf(v)
  BY DEF Claim, positionVars, StakeOf
<1> HIDE DEF amount
<1>5. /\ tokens'[u] = tokens[u] + amount /\ tokens'[Pool] = tokens[Pool] - amount
      /\ \A v \in User \ {u} : tokens'[v] = tokens[v]
  BY <1>1, StakingAssumption, TransferKeepsBalances
<1>6. StakeOf(u) \in Int
  BY AmountsAreIntegers
<1>7. Owed(u)' - Owed(u) = -amount
  BY <1>1, <1>2, <1>4, <1>6 DEF Owed, Positive
<1>8. tokens[Pool] \in Nat /\ tokens[u] \in Nat
  BY BalancesAreIntegers
<1>9. \A v \in User \ {u} : Owed(v)' = Owed(v)
  BY <1>3, <1>4 DEF Owed
<1> QED
  BY <1>1, <1>5, <1>7, <1>8, <1>9 DEF Settles

LEMMA SlashLowers ==
    ASSUME PositionOK, AccountsOK, NEW a, NEW u \in User, NEW shortfall \in StakeAmounts,
           Slash(a, u, shortfall)
    PROVE  Lowers(u)
<1> DEFINE old == stake[u].amount
           rest == old - SlashAmount(stake[u], shortfall)
<1>1. u \in DOMAIN stake /\ shortfall \in Int /\ shortfall > 0 /\ old \in Int /\ StakeOf(u) = old
  BY StakingAssumption DEF Slash, PositionOK, Position, StakeOf
<1>2. rest \in Int /\ (rest = 0 \/ rest <= old)
  BY <1>1 DEF SlashAmount
<1>3. /\ IF rest = 0 THEN stake' = Drop(stake, u)
         ELSE stake' = [stake EXCEPT ![u] = Resized(stake[u], rest)]
      /\ UNCHANGED <<unbonding, tokens>>
  BY <1>1 DEF Slash, Deregister
<1>4. Resized(stake[u], rest).amount = rest
  BY <1>1, <1>2, ResizedIsPosition DEF PositionOK
<1> HIDE DEF rest, old
<1>5. StakeOf(u)' = rest /\ \A v \in User \ {u} : StakeOf(v)' = StakeOf(v)
  BY <1>1, <1>3, <1>4 DEF StakeOf, Drop, Restrict
<1> QED
  BY <1>1, <1>2, <1>3, <1>5 DEF Lowers

LEMMA ExecutionLowers ==
    ASSUME PositionOK, AccountsOK, NEW a, NEW u \in User, ExecuteSlash(a, u)
    PROVE  Lowers(u)
<1> DEFINE pos == Resized(stake[u], stake[u].amount - slash_notice[u].amount)
<1>1. /\ u \in DOMAIN stake /\ slash_notice[u].amount \in Nat
      /\ pos.amount = stake[u].amount - slash_notice[u].amount /\ Resizes(u, pos)
  BY ExecutionResizes
<1> HIDE DEF pos
<1>2. StakeOf(u)' = stake[u].amount - slash_notice[u].amount /\ StakeOf(u) = stake[u].amount
      /\ \A v \in User \ {u} : StakeOf(v)' = StakeOf(v)
  BY <1>1 DEF Resizes, StakeOf
<1>3. UNCHANGED <<unbonding, tokens>>
  BY DEF ExecuteSlash
<1>4. StakeOf(u) \in Int
  BY AmountsAreIntegers
<1> QED
  BY <1>1, <1>2, <1>3, <1>4 DEF Lowers

LEMMA AccountsChange ==
    ASSUME PositionOK, AccountsOK, [StakingNext]_<<stakingVars, now>>
    PROVE  AccountStep
<1>1. ASSUME NEW u \in User, PositionNext(u)  PROVE AccountStep
  <2>1. ASSUME NEW amount \in StakeAmounts, NEW period \in Periods, Stake(u, amount, period)
        PROVE  AccountStep
    <3>1. /\ u \notin DOMAIN stake /\ Transfer(u, Pool, amount) /\ amount \in Int
          /\ unbonding' = unbonding
      BY <2>1, StakingAssumption DEF Stake
    <3>2. /\ StakeOf(u) = 0 /\ StakeOf(u)' = amount
          /\ \A v \in User \ {u} : StakeOf(v)' = StakeOf(v)
      BY <2>1, <3>1 DEF Stake, StakeOf, Put
    <3> QED
      BY <3>1, <3>2 DEF AccountStep, TopsUp
  <2>2. ASSUME NEW amount \in StakeAmounts, TopUp(u, amount)  PROVE AccountStep
    <3> DEFINE pos == Topped(stake[u], stake[u].amount + amount)
    <3>1. /\ u \in DOMAIN stake /\ pos.amount = stake[u].amount + amount /\ Resizes(u, pos)
          /\ amount \in Nat
      BY <2>2, TopUpResizes
    <3>2. Transfer(u, Pool, amount) /\ unbonding' = unbonding
      BY <2>2 DEF TopUp
    <3> HIDE DEF pos
    <3>3. StakeOf(u)' = StakeOf(u) + amount /\ \A v \in User \ {u} : StakeOf(v)' = StakeOf(v)
      BY <3>1 DEF Resizes, StakeOf
    <3> QED
      BY <3>1, <3>2, <3>3 DEF AccountStep, TopsUp
  <2> QED
    BY <1>1, <2>1, <2>2 DEF PositionNext, AccountStep
<1>2. ASSUME NEW a \in User, SlashNext(a)  PROVE AccountStep
  <2>1. ASSUME NEW u \in User, NEW amount \in StakeAmounts,
               Slash(a, u, amount) \/ ExecuteSlash(a, u)
        PROVE  AccountStep
    BY <2>1, SlashLowers, ExecutionLowers DEF AccountStep
  <2>2. ASSUME NEW u, NEW amount, CreateSlashNotice(a, u, amount) \/ CancelSlash(a, u)
        PROVE  AccountStep
    BY <2>2 DEF CreateSlashNotice, CancelSlash, AccountStep, positionVars
  <2>3. ASSUME NEW seconds, SetSlashNoticePeriod(a, seconds)  PROVE AccountStep
    BY <2>3 DEF SetSlashNoticePeriod, AccountStep, positionVars
  <2>4. ASSUME NEW u \in User, ExecuteSlash(a, u)  PROVE AccountStep
    BY <2>4, ExecutionLowers DEF AccountStep
  <2> QED
    BY <1>2, <2>1, <2>2, <2>3, <2>4 DEF SlashNext
<1>3. ASSUME NEW a \in User, ControlNext(a)  PROVE AccountStep
  BY <1>3 DEF ControlNext, UpdateAdmin, PauseStaking, UnpauseStaking, AccountStep, positionVars
<1>4. CASE StakingTick \/ UNCHANGED <<stakingVars, now>>
  BY <1>4 DEF StakingTick, stakingVars, AccountStep, positionVars
<1> QED
  BY <1>1, <1>2, <1>3, <1>4 DEF StakingNext

LEMMA CallsSettle ==
    ASSUME PositionOK, AccountsOK, [StakingNext]_<<stakingVars, now>>
    PROVE  SettlementStep
BY AccountsChange, LoweringSettles, DepositSettles, UnstakeSettles, ClaimSettles
   DEF AccountStep, SettlementStep

\* The two parts of the property.
OwedWithinPaid == \A u \in User : Owed(u) <= Funds[u] - tokens[u]
PoolCovers == SumFunctionOnSet([u \in User |-> Owed(u)], User) <= tokens[Pool]

LEMMA PoolFollows ==
    ASSUME PositionOK, AccountsOK, PositionOK', AccountsOK', PoolCovers, SettlementStep
    PROVE  PoolCovers'
<1>1. CASE UNCHANGED <<stake, unbonding, tokens>>
  BY <1>1 DEF PoolCovers, Owed, StakeOf, UnbondingOf
<1>2. ASSUME NEW u \in User, Settles(u)  PROVE PoolCovers'
  <2> DEFINE f == [v \in User |-> Owed(v)]
             g == [v \in User |-> Owed(v)']
  <2>1. \A v \in User : Owed(v) \in Int
    BY AmountsAreIntegers
  <2>2. \A v \in User : Owed(v)' \in Int
    BY SMTT(60) DEF PositionOK, AccountsOK, Position, Entries, UnbondingEntry, Owed, Positive,
                    StakeOf, UnbondingOf
  <2>3. /\ \A v \in User : f[v] \in Int
        /\ \A v \in User : g[v] \in Int
        /\ \A v \in User \ {u} : g[v] = f[v]
        /\ f[u] = Owed(u) /\ g[u] = Owed(u)'
    BY <1>2, <2>1, <2>2 DEF Settles
  <2>4. SumFunctionOnSet(f, User) <= tokens[Pool] /\ (PoolCovers' <=> SumFunctionOnSet(g, User) <= tokens'[Pool])
    BY DEF PoolCovers
  <2> HIDE DEF f, g
  <2>5. SumFunctionOnSet(g, User) = SumFunctionOnSet(f, User) + g[u] - f[u]
    BY <2>3, StakingAssumption, SumOfChange
  <2>6. SumFunctionOnSet(f, User) \in Int
    BY <2>3, StakingAssumption, SumIsInteger
  <2>7. /\ tokens[Pool] \in Int /\ tokens'[Pool] \in Int
        /\ tokens[u] \in Int /\ tokens'[u] \in Int
    BY DEF AccountsOK
  <2>8. g[u] - f[u] <= tokens'[Pool] - tokens[Pool]
    BY <1>2, <2>3 DEF Settles
  <2> QED
    BY <2>3, <2>4, <2>5, <2>6, <2>7, <2>8
<1> QED
  BY <1>1, <1>2 DEF SettlementStep

LEMMA OwedFollows ==
    ASSUME PositionOK, AccountsOK, PositionOK', AccountsOK', OwedWithinPaid, SettlementStep
    PROVE  OwedWithinPaid'
<1>1. CASE UNCHANGED <<stake, unbonding, tokens>>
  BY <1>1 DEF OwedWithinPaid, Owed, StakeOf, UnbondingOf
<1>2. ASSUME NEW u \in User, Settles(u), NEW v \in User  PROVE Owed(v)' <= Funds[v] - tokens'[v]
  <2>1. Owed(v) <= Funds[v] - tokens[v] /\ Owed(v) \in Int /\ Funds[v] \in Int
    BY AmountsAreIntegers, StakingAssumption DEF OwedWithinPaid
  <2>2. Owed(v)' \in Int
    BY SMTT(60) DEF PositionOK, AccountsOK, Position, Entries, UnbondingEntry, Owed, Positive,
                    StakeOf, UnbondingOf
  <2>3. tokens[v] \in Int /\ tokens'[v] \in Int
    BY DEF AccountsOK
  <2>4. Owed(v)' - Owed(v) <= tokens[v] - tokens'[v]
    <3>1. CASE v = u
      BY <1>2, <3>1 DEF Settles
    <3>2. CASE v # u
      BY <1>2, <2>1, <2>3, <3>2 DEF Settles
    <3> QED
      BY <3>1, <3>2
  <2> QED
    BY <2>1, <2>2, <2>3, <2>4
<1> QED
  BY <1>1, <1>2 DEF SettlementStep, OwedWithinPaid

LEMMA NothingOwedAtStart ==
    ASSUME InitStaking
    PROVE  OwedWithinPaid /\ PoolCovers
<1>1. \A u : Owed(u) = 0
  BY DEF InitStaking, Nothing, Owed, Positive, StakeOf, UnbondingOf
<1>2. tokens[Pool] = 0 /\ \A u \in User : tokens[u] = Funds[u] /\ Funds[u] \in Nat
  BY StakingAssumption DEF InitStaking
<1>3. PoolCovers
  <2> DEFINE f == [u \in User |-> Owed(u)]
  <2>1. \A u \in User : f[u] = 0
    BY <1>1
  <2> HIDE DEF f
  <2>2. SumFunctionOnSet(f, User) = 0
    BY <2>1, StakingAssumption, SumOfZeros
  <2> QED
    BY <1>2, <2>2 DEF PoolCovers, f
<1> QED
  BY <1>1, <1>2, <1>3 DEF OwedWithinPaid

\* No claim is ever paid out of another's stake: whatever is staked, topped up, slashed,
\* unbonded over and claimed, each account is owed at most what it has in the contract,
\* whose own account covers all of it.
THEOREM ClaimsAreCovered == StakingSpec => []NobodyIsOwedMore
<1> DEFINE Inv == BooksOK /\ OwedWithinPaid /\ PoolCovers
<1>1. InitStaking => Inv
  BY BooksStart, NothingOwedAtStart
<1>2. Inv /\ [StakingNext]_<<stakingVars, now>> => Inv'
  <2> SUFFICES ASSUME Inv, [StakingNext]_<<stakingVars, now>>  PROVE Inv'
    OBVIOUS
  <2>1. BooksOK'
    BY BooksKept
  <2>2. SettlementStep
    BY CallsSettle DEF BooksOK
  <2> QED
    BY <2>1, <2>2, OwedFollows, PoolFollows DEF BooksOK
<1>3. Inv => NobodyIsOwedMore
  BY DEF OwedWithinPaid, PoolCovers, NobodyIsOwedMore
<1> QED
  BY <1>1, <1>2, <1>3, PTL DEF StakingSpec

-----------------------------------------------------------------------------
(* Top-ups.                                                                *)

NoneGrows == \A v \in DOMAIN stake \cap DOMAIN stake' : stake'[v].amount <= stake[v].amount

KeepsWeight ==
    \A u \in DOMAIN stake \cap DOMAIN stake' :
        0 <= stake[u].amount /\ stake[u].amount < stake'[u].amount =>
            /\ stake'[u].unlock_time = stake[u].unlock_time
            /\ Weight(stake'[u]) <= Weight(stake[u])
            /\ Weight(stake[u]) < Weight(stake'[u]) + stake'[u].amount

LEMMA SmallerKeepsWeight ==
    ASSUME PositionOK, PositionOK', NoneGrows  PROVE KeepsWeight
<1> SUFFICES ASSUME NEW u \in DOMAIN stake \cap DOMAIN stake', stake[u].amount < stake'[u].amount
             PROVE  FALSE
  BY DEF KeepsWeight
<1>1. stake[u].amount \in Int /\ stake'[u].amount \in Int
  BY DEF PositionOK, Position
<1> QED
  BY <1>1 DEF NoneGrows

\* A call that changes at most one position, and not to a larger one, enlarges none.
LEMMA ChangeOfOne ==
    ASSUME PositionOK, NEW u,
           \/ stake' = stake \/ stake' = Drop(stake, u)
           \/ u \in DOMAIN stake /\ (\E pos : stake' = [stake EXCEPT ![u] = pos]
                                               /\ pos.amount <= stake[u].amount)
           \/ u \notin DOMAIN stake /\ (\E pos : stake' = Put(stake, u, pos))
    PROVE  NoneGrows
<1>1. \A v \in DOMAIN stake : stake[v].amount \in Int
  BY DEF PositionOK, Position
<1>2. CASE stake' = stake \/ stake' = Drop(stake, u)
  BY <1>1, <1>2 DEF NoneGrows, Drop, Restrict
<1>3. ASSUME u \in DOMAIN stake, NEW pos, stake' = [stake EXCEPT ![u] = pos],
             pos.amount <= stake[u].amount
      PROVE  NoneGrows
  BY <1>1, <1>3 DEF NoneGrows
<1>4. ASSUME u \notin DOMAIN stake, NEW pos, stake' = Put(stake, u, pos)  PROVE NoneGrows
  BY <1>1, <1>4 DEF NoneGrows, Put
<1> QED
  BY <1>2, <1>3, <1>4

LEMMA SlashesShrink ==
    ASSUME PositionOK, AccountsOK, NEW a, NEW u \in User,
           ExecuteSlash(a, u) \/ (\E shortfall \in StakeAmounts : Slash(a, u, shortfall))
    PROVE  NoneGrows
<1>1. CASE ExecuteSlash(a, u)
  <2> DEFINE pos == Resized(stake[u], stake[u].amount - slash_notice[u].amount)
  <2>1. /\ u \in DOMAIN stake /\ slash_notice[u].amount \in Nat
        /\ pos.amount = stake[u].amount - slash_notice[u].amount
        /\ stake' = [stake EXCEPT ![u] = pos]
    BY <1>1, ExecutionResizes DEF Resizes
  <2> HIDE DEF pos
  <2>2. stake[u].amount \in Int
    BY <2>1 DEF PositionOK, Position
  <2>3. pos.amount <= stake[u].amount
    BY <2>1, <2>2
  <2> QED
    BY <2>1, <2>3, ChangeOfOne
<1>2. ASSUME NEW shortfall \in StakeAmounts, Slash(a, u, shortfall)  PROVE NoneGrows
  <2> DEFINE old == stake[u].amount
             rest == old - SlashAmount(stake[u], shortfall)
             pos == Resized(stake[u], rest)
  <2>1. u \in DOMAIN stake /\ shortfall \in Int /\ shortfall > 0 /\ old \in Int
    BY <1>2, StakingAssumption DEF Slash, PositionOK, Position
  <2>2. rest \in Int /\ (rest = 0 \/ rest <= old)
    BY <2>1 DEF SlashAmount
  <2>3. IF rest = 0 THEN stake' = Drop(stake, u) ELSE stake' = [stake EXCEPT ![u] = pos]
    BY <1>2, <2>1 DEF Slash, Deregister
  <2>4. pos.amount = rest
    BY <2>1, <2>2, ResizedIsPosition DEF PositionOK
  <2> HIDE DEF pos, rest
  <2> QED
    BY <2>1, <2>2, <2>3, <2>4, ChangeOfOne
<1> QED
  BY <1>1, <1>2

LEMMA TopUpWeighs ==
    ASSUME PositionOK, AccountsOK, NEW u \in User, NEW amount \in StakeAmounts, TopUp(u, amount)
    PROVE  KeepsWeight
<1> DEFINE old == stake[u]
           pos == Topped(old, old.amount + amount)
           sum == old.amount + amount
           y == now - old.start_time
<1>1. /\ u \in DOMAIN stake /\ pos.amount = sum /\ pos.unlock_time = old.unlock_time
      /\ pos.start_time = EffectiveStart(old, sum) /\ stake' = [stake EXCEPT ![u] = pos]
  BY TopUpResizes DEF Resizes
<1>2. /\ old.amount \in Int /\ old.start_time \in Nat /\ old.start_time <= now /\ now \in Nat
      /\ amount \in Int /\ amount > 0
  BY <1>1, StakingAssumption DEF PositionOK, Position, AccountsOK, TopUp
<1>3. ASSUME NEW v \in DOMAIN stake \cap DOMAIN stake', stake[v].amount < stake'[v].amount
      PROVE  v = u
  <2>1. stake[v].amount \in Int
    BY <1>3 DEF PositionOK, Position
  <2> HIDE DEF pos
  <2> QED
    BY <1>1, <1>3, <2>1
<1>4. ASSUME 0 <= old.amount
      PROVE  /\ Weight(pos) <= Weight(old)
             /\ Weight(old) < Weight(pos) + pos.amount
  <2> DEFINE q == (old.amount * y) \div sum
  <2>1. old.amount \in Nat /\ y \in Nat /\ sum \in Nat /\ old.amount <= sum /\ sum > 0
    BY <1>2, <1>4
  <2>2. pos.start_time = now - q
    BY <1>1, <1>2, <1>4, <2>1 DEF EffectiveStart
  <2> HIDE DEF pos, old, sum, y
  <2>3. q \in Nat /\ sum * q <= old.amount * y /\ old.amount * y < sum * q + sum
    BY <2>1, QuotientBounds
  <2> HIDE DEF q
  <2>4. now - pos.start_time = q
    BY <1>2, <2>2, <2>3
  <2>5. Weight(pos) = sum * q
    BY <1>1, <2>4 DEF Weight
  <2>6. Weight(old) = old.amount * y
    BY DEF Weight, y
  <2> QED
    BY <1>1, <2>3, <2>5, <2>6
<1> HIDE DEF pos
<1>5. stake'[u] = pos
  BY <1>1
<1> QED
  BY <1>1, <1>3, <1>4, <1>5 DEF KeepsWeight

LEMMA StepsKeepWeight ==
    ASSUME PositionOK, AccountsOK, PositionOK', [StakingNext]_<<stakingVars, now>>
    PROVE  KeepsWeight
<1>1. ASSUME NEW u \in User, PositionNext(u)  PROVE KeepsWeight
  <2>1. ASSUME NEW amount \in StakeAmounts, NEW period \in Periods, Stake(u, amount, period)
        PROVE  KeepsWeight
    BY <2>1, ChangeOfOne, SmallerKeepsWeight DEF Stake
  <2>2. ASSUME NEW amount \in StakeAmounts, TopUp(u, amount)  PROVE KeepsWeight
    BY <2>2, TopUpWeighs
  <2>3. CASE Unstake(u) \/ Claim(u)
    <3>1. stake' = stake \/ stake' = Drop(stake, u)
      BY <2>3 DEF Unstake, Claim, Deregister, positionVars
    <3>2. NoneGrows
      BY <3>1, ChangeOfOne
    <3> QED
      BY <3>2, SmallerKeepsWeight
  <2> QED
    BY <1>1, <2>1, <2>2, <2>3 DEF PositionNext
<1>2. ASSUME NEW a \in User, SlashNext(a)  PROVE KeepsWeight
  <2>1. ASSUME NEW u \in User,
               ExecuteSlash(a, u) \/ (\E shortfall \in StakeAmounts : Slash(a, u, shortfall))
        PROVE  KeepsWeight
    BY <2>1, SlashesShrink, SmallerKeepsWeight
  <2>2. ASSUME stake' = stake  PROVE KeepsWeight
    BY <2>2, ChangeOfOne, SmallerKeepsWeight
  <2> QED
    BY <1>2, <2>1, <2>2 DEF SlashNext, CreateSlashNotice, CancelSlash, SetSlashNoticePeriod,
                            positionVars
<1>3. ASSUME stake' = stake  PROVE KeepsWeight
  BY <1>3, ChangeOfOne, SmallerKeepsWeight
<1>4. ASSUME NEW a \in User, ControlNext(a)  PROVE stake' = stake
  BY <1>4 DEF ControlNext, UpdateAdmin, PauseStaking, UnpauseStaking, positionVars
<1>5. ASSUME StakingTick \/ UNCHANGED <<stakingVars, now>>  PROVE stake' = stake
  BY <1>5 DEF StakingTick, stakingVars, positionVars
<1> QED
  BY <1>1, <1>2, <1>3, <1>4, <1>5 DEF StakingNext

\* A top-up never buys a staker time: it keeps the time weight its stake had gathered, up
\* to the rounding of one second, and its unlock time; nothing else enlarges a position.
THEOREM TopUpsAreFair == StakingSpec => TopUpKeepsWeight
<1>1. BooksOK /\ [StakingNext]_<<stakingVars, now>> => BooksOK' /\ [KeepsWeight]_<<stakingVars, now>>
  BY BooksKept, StepsKeepWeight DEF BooksOK
<1> QED
  BY <1>1, BooksStart, PTL DEF StakingSpec, TopUpKeepsWeight, KeepsWeight
=============================================================================
