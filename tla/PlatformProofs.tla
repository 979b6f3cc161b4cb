--------------------------- MODULE PlatformProofs ---------------------------
(***************************************************************************)
(* Invariants of the contracts around the circles: the treasury's book is  *)
(* backed by its tokens, no draw of a round is refused as a replay, no     *)
(* organizer has more circles than its quota, the paged history is read    *)
(* back whole, and streaks stand for rounds that were paid.                *)
(***************************************************************************)
EXTENDS Platform, DataTheorems

-----------------------------------------------------------------------------
(* The treasury's book and the nonces of the draws.                        *)

\* The treasury's types are needed for the arithmetic of its books.
TreasuryTypeOK ==
    /\ treasury_token \in Currency
    /\ held \in [Currency -> Nat]
    /\ recorded \in Int /\ deposited \in Int /\ withdrawn \in Int

TreasuryInv == TreasuryTypeOK /\ BookIsBacked

LEMMA IncomeKeepsBook ==
    ASSUME TreasuryInv, NEW t \in Currency, NEW amount \in Sums,
           TransferIn(t, amount) \/ deposit(amount)
    PROVE  TreasuryInv'
<1>1. amount \in Int
  BY TreasuryAssumption
<1>2. CASE TransferIn(t, amount)
  BY <1>1, <1>2 DEF TransferIn, Receive, bookVars, TreasuryInv, TreasuryTypeOK, BookIsBacked
<1>3. CASE deposit(amount)
  BY <1>1, <1>3 DEF deposit, Receive, TreasuryInv, TreasuryTypeOK, BookIsBacked
<1> QED
  BY <1>2, <1>3

LEMMA ExpenseKeepsBook ==
    ASSUME TreasuryInv, NEW a \in TreasuryAdmins, NEW t \in Currency, NEW amount \in Sums,
           NEW away \in BOOLEAN,
           withdraw(a, amount, away) \/ rescue_tokens(a, t, amount, away)
    PROVE  TreasuryInv'
<1>1. amount \in Int
  BY TreasuryAssumption
<1>2. CASE withdraw(a, amount, away)
  BY <1>1, <1>2 DEF withdraw, PayOut, TreasuryInv, TreasuryTypeOK, BookIsBacked
<1>3. CASE rescue_tokens(a, t, amount, away)
  <2>1. /\ 0 < amount /\ amount <= held[t] /\ Debit(t, amount)
        /\ held' = [held EXCEPT ![t] = @ - amount] \/ held' = held
        /\ UNCHANGED <<deposited, withdrawn, treasury_token>>
    BY <1>3 DEF rescue_tokens, PayOut
  <2>2. CASE t = treasury_token
    BY <1>1, <2>1, <2>2 DEF Debit, TreasuryInv, TreasuryTypeOK, BookIsBacked
  <2>3. CASE t # treasury_token
    BY <1>1, <2>1, <2>3 DEF Debit, TreasuryInv, TreasuryTypeOK, BookIsBacked
  <2> QED
    BY <2>2, <2>3
<1> QED
  BY <1>2, <1>3

LEMMA AdministrationKeepsBook ==
    ASSUME TreasuryInv,
           \/ \E a \in TreasuryAdmins, t \in Currency : InitTreasury(a, t)
           \/ \E a \in TreasuryAdmins : PauseTreasury(a) \/ UnpauseTreasury(a)
    PROVE  TreasuryInv'
<1>1. ASSUME NEW a \in TreasuryAdmins, NEW t \in Currency, InitTreasury(a, t)
      PROVE  TreasuryInv'
  BY <1>1 DEF InitTreasury, TreasuryInv, TreasuryTypeOK, BookIsBacked
<1>2. ASSUME NEW a \in TreasuryAdmins, PauseTreasury(a) \/ UnpauseTreasury(a)
      PROVE  TreasuryInv'
  BY <1>2 DEF PauseTreasury, UnpauseTreasury, bookVars, TreasuryInv, TreasuryTypeOK, BookIsBacked
<1> QED
  BY <1>1, <1>2

LEMMA TreasuryStepKeepsBook ==
    ASSUME TreasuryInv, TreasuryNext \/ UNCHANGED treasuryVars
    PROVE  TreasuryInv'
<1>1. ASSUME NEW amount \in Sums, deposit(amount)  PROVE TreasuryInv'
  <2>1. treasury_token \in Currency
    BY DEF TreasuryInv, TreasuryTypeOK
  <2> QED
    BY <1>1, <2>1, IncomeKeepsBook
<1>2. ASSUME NEW t \in Currency, NEW amount \in Sums, TransferIn(t, amount)
      PROVE  TreasuryInv'
  BY <1>2, IncomeKeepsBook
<1>3. ASSUME NEW a \in TreasuryAdmins, NEW amount \in Sums, NEW away \in BOOLEAN,
             withdraw(a, amount, away)
      PROVE  TreasuryInv'
  <2>1. treasury_token \in Currency
    BY DEF TreasuryInv, TreasuryTypeOK
  <2> QED
    BY <1>3, <2>1, ExpenseKeepsBook
<1>4. ASSUME NEW a \in TreasuryAdmins, NEW t \in Currency, NEW amount \in Sums,
             NEW away \in BOOLEAN, rescue_tokens(a, t, amount, away)
      PROVE  TreasuryInv'
  BY <1>4, ExpenseKeepsBook
<1>5. CASE UNCHANGED treasuryVars
  BY <1>5 DEF treasuryVars, bookVars, TreasuryInv, TreasuryTypeOK, BookIsBacked
<1> QED
  BY <1>1, <1>2, <1>3, <1>4, <1>5, AdministrationKeepsBook DEF TreasuryNext, PayFee, PayPenalty

-----------------------------------------------------------------------------

\* The nonces used so far are below those of the current round, also when that is
\* beyond the last one.
DrawInv ==
    /\ nonce \in Int /\ next_round \in Nat
    /\ nonce < BaseNonce(next_round)

LEMMA NoncesOfNextRound ==
    ASSUME NEW r \in Nat
    PROVE  /\ BaseNonce(r) \in Nat
           /\ BaseNonce(r + 1) = BaseNonce(r) + Stride
BY VrfAssumption DEF BaseNonce

LEMMA DrawStepKeepsNonces ==
    ASSUME DrawInv, VrfNext \/ UNCHANGED vrfVars
    PROVE  DrawInv'
<1>1. /\ BaseNonce(next_round) \in Nat
      /\ BaseNonce(next_round + 1) = BaseNonce(next_round) + Stride
  BY NoncesOfNextRound DEF DrawInv
<1>2. ASSUME nonce' \in Int, next_round' = next_round + 1,
             nonce' < BaseNonce(next_round) + Stride
      PROVE  DrawInv'
  BY <1>1, <1>2 DEF DrawInv, BaseNonce
<1>3. ASSUME Draw  PROVE DrawInv'
  <2>1. nonce' = BaseNonce(next_round) + Places - 1 /\ next_round' = next_round + 1
    BY <1>3 DEF Draw, shuffle_positions
  <2>2. Places \in Nat /\ Stride \in Nat /\ Places <= Stride
    BY VrfAssumption
  <2> QED
    BY <1>1, <1>2, <2>1, <2>2
<1>4. ASSUME SkipDraw  PROVE DrawInv'
  <2>1. nonce' = nonce /\ next_round' = next_round + 1
    BY <1>4 DEF SkipDraw
  <2> QED
    BY <1>1, <1>2, <2>1, VrfAssumption DEF DrawInv
<1>5. ASSUME UNCHANGED drawVars  PROVE DrawInv'
  BY <1>5 DEF drawVars, DrawInv, BaseNonce
<1>6. ASSUME NEW a \in VrfCaller, NEW key \in Key, NEW delay \in Delays,
             propose_key_rotation(a, key, delay)
      PROVE  DrawInv'
  BY <1>5, <1>6 DEF propose_key_rotation
<1>7. ASSUME NEW a \in VrfCaller, activate_key_rotation(a)  PROVE DrawInv'
  BY <1>5, <1>7 DEF activate_key_rotation
<1>8. CASE UNCHANGED vrfVars
  BY <1>5, <1>8 DEF vrfVars
<1> QED
  BY <1>3, <1>4, <1>6, <1>7, <1>8 DEF VrfNext

-----------------------------------------------------------------------------

LEMMA InitialBooksAndNonces == Init => TreasuryInv /\ DrawInv
<1>1. TreasuryInit => TreasuryInv
  BY DEF TreasuryInit, TreasuryInv, TreasuryTypeOK, BookIsBacked
<1>2. VrfInit => DrawInv
  BY VrfAssumption DEF VrfInit, DrawInv, BaseNonce
<1> QED
  BY <1>1, <1>2 DEF Init

LEMMA PlatformStep ==
    ASSUME [Next]_platformVars
    PROVE  /\ TreasuryNext \/ UNCHANGED treasuryVars
           /\ VrfNext \/ UNCHANGED vrfVars
BY DEF Next, platformVars

\* The treasury never records more than it holds, nor more than its logs account
\* for, whatever circles pay it directly or through deposit_fee, whatever is
\* withdrawn or rescued, and however often it is initialized.
THEOREM TreasuryBookIsBacked == Spec => []BookIsBacked
<1>1. TreasuryInv /\ [Next]_platformVars => TreasuryInv'
  BY PlatformStep, TreasuryStepKeepsBook
<1>2. TreasuryInv => BookIsBacked
  BY DEF TreasuryInv
<1> QED
  BY <1>1, <1>2, InitialBooksAndNonces, PTL DEF Spec

\* The draw of the current round is never refused as a replay: resolve_random's
\* nonces of successive rounds do not overlap as long as a circle has no more
\* places than the stride.
THEOREM EveryRoundCanBeDrawn == Spec => []RoundsCanBeDrawn
<1>1. DrawInv /\ [Next]_platformVars => DrawInv'
  BY PlatformStep, DrawStepKeepsNonces
<1>2. DrawInv => RoundsCanBeDrawn
  BY DEF DrawInv, RoundsCanBeDrawn
<1> QED
  BY <1>1, <1>2, InitialBooksAndNonces, PTL DEF Spec

-----------------------------------------------------------------------------
(* The quota of the organizers.                                            *)

\* Before the first initialization there is no administrator, hence no deployment.
QuotaTypeOK ==
    /\ inits \in Nat
    /\ rate_limit \in [limit : Nat, period_secs : Nat]
    /\ circle_list \in Seq([circle : Configs, deployed_at : Nat])
    /\ now \in Nat
    /\ \A key \in DOMAIN period_count : period_count[key] \in Nat
    /\ inits = 0 => factory_admin = Nobody /\ circle_list = <<>> /\ DOMAIN period_count = {}

\* The counter of a period is the number of the deployments in it.
QuotaCounted ==
    inits = 1 /\ rate_limit.limit > 0 =>
        /\ rate_limit.period_secs > 0
        /\ \A organizer \in Caller, period \in Nat :
              /\ Cardinality(DeployedBy(organizer, period)) = CountOf(<<organizer, period>>)
              /\ CountOf(<<organizer, period>>) <= rate_limit.limit

QuotaInv == QuotaTypeOK /\ QuotaCounted

LEMMA QuotientIsNatural ==
    ASSUME NEW n \in Nat, NEW d \in Nat, d > 0
    PROVE  n \div d \in Nat
OBVIOUS

LEMMA ResetKeepsQuota ==
    ASSUME QuotaInv, UNCHANGED now, NEW a \in Caller, NEW fee,
           NEW limit \in Nat, NEW period \in Nat, Reset(a, fee, limit, period)
    PROVE  QuotaInv'
<1>1. /\ rate_limit' = [limit |-> limit, period_secs |-> period]
      /\ limit > 0 => period > 0
      /\ inits' = inits + 1
      /\ UNCHANGED <<period_count, circle_list, now>>
  BY DEF Reset, registryVars
<1>2. QuotaTypeOK'
  BY <1>1 DEF QuotaInv, QuotaTypeOK
<1>3. ASSUME inits' = 1, limit > 0, NEW organizer \in Caller, NEW p \in Nat
      PROVE  /\ DeployedBy(organizer, p)' = {}
             /\ CountOf(<<organizer, p>>)' = 0
  <2>1. circle_list = <<>> /\ DOMAIN period_count = {}
    BY <1>1, <1>3 DEF QuotaInv, QuotaTypeOK
  <2>2. DOMAIN circle_list' = {}
    BY <1>1, <2>1
  <2> QED
    BY <1>1, <2>1, <2>2 DEF DeployedBy, CountOf
<1>4. QuotaCounted'
  BY <1>1, <1>3, FS_EmptySet DEF QuotaCounted
<1> QED
  BY <1>2, <1>4 DEF QuotaInv

LEMMA DeployedByIsFinite ==
    ASSUME QuotaTypeOK, NEW organizer, NEW period
    PROVE  /\ IsFiniteSet(DeployedBy(organizer, period))
           /\ DeployedBy(organizer, period) \subseteq 1..Len(circle_list)
<1>1. Len(circle_list) \in Nat /\ DOMAIN circle_list = 1..Len(circle_list)
  BY LenProperties DEF QuotaTypeOK
<1>2. IsFiniteSet(1..Len(circle_list))
  BY <1>1, FS_Interval
<1> QED
  BY <1>1, <1>2, FS_Subset DEF DeployedBy

\* A deployment adds one to those of its organizer and period.
LEMMA DeploymentIsAdded ==
    ASSUME QuotaTypeOK, NEW config \in Configs, NEW organizer, NEW period,
           circle_list' = Append(circle_list, [circle |-> config, deployed_at |-> now]),
           rate_limit' = rate_limit
    PROVE  Cardinality(DeployedBy(organizer, period)') =
               IF config.organizer = organizer /\ now \div rate_limit.period_secs = period
               THEN Cardinality(DeployedBy(organizer, period)) + 1
               ELSE Cardinality(DeployedBy(organizer, period))
<1> DEFINE Entry == [circle : Configs, deployed_at : Nat]
           entry == [circle |-> config, deployed_at |-> now]
           n == Len(circle_list)
           Theirs == config.organizer = organizer /\ now \div rate_limit.period_secs = period
<1>1. entry \in Entry /\ circle_list \in Seq(Entry)
  BY DEF QuotaTypeOK
<1>2. /\ n \in Nat /\ Len(circle_list') = n + 1
      /\ DOMAIN circle_list = 1..n /\ DOMAIN circle_list' = 1..(n + 1)
      /\ \A i \in 1..n : circle_list'[i] = circle_list[i]
      /\ circle_list'[n + 1] = entry
  <2>1. circle_list' \in Seq(Entry) /\ Len(circle_list') = n + 1 /\ n \in Nat
    BY <1>1, AppendProperties, LenProperties
  <2>2. DOMAIN circle_list = 1..n /\ DOMAIN circle_list' = 1..(n + 1)
    BY <1>1, <2>1, LenProperties
  <2> QED
    BY <1>1, <2>1, <2>2, AppendProperties
<1> HIDE DEF n
<1>3. DeployedBy(organizer, period)' =
          DeployedBy(organizer, period) \cup (IF Theirs THEN {n + 1} ELSE {})
  <2>1. ASSUME NEW i \in 1..n
        PROVE  i \in DeployedBy(organizer, period)' <=> i \in DeployedBy(organizer, period)
    BY <1>2, <2>1 DEF DeployedBy
  <2>2. n + 1 \in DeployedBy(organizer, period)' <=> Theirs
    BY <1>2 DEF DeployedBy
  <2>3. /\ DeployedBy(organizer, period)' \subseteq 1..(n + 1)
        /\ DeployedBy(organizer, period) \subseteq 1..n
    BY <1>2 DEF DeployedBy
  <2> QED
    BY <1>2, <2>1, <2>2, <2>3
<1>4. IsFiniteSet(DeployedBy(organizer, period)) /\ n + 1 \notin DeployedBy(organizer, period)
  BY <1>2, DeployedByIsFinite DEF n
<1> QED
  BY <1>3, <1>4, FS_AddElement

\* The charge of a key counts it and leaves the others alone.
LEMMA ChargeCounts ==
    ASSUME QuotaTypeOK, NEW key, period_count' = With(period_count, key, CountOf(key) + 1)
    PROVE  /\ CountOf(key)' = CountOf(key) + 1
           /\ \A k : k # key => CountOf(k)' = CountOf(k)
           /\ \A k \in DOMAIN period_count' : period_count'[k] \in Nat
           /\ CountOf(key) \in Nat
<1>1. CountOf(key) \in Nat
  BY DEF QuotaTypeOK, CountOf
<1>2. /\ DOMAIN period_count' = DOMAIN period_count \cup {key}
      /\ period_count'[key] = CountOf(key) + 1
      /\ \A k \in DOMAIN period_count : k # key => period_count'[k] = period_count[k]
  BY DEF With
<1> QED
  BY <1>1, <1>2 DEF CountOf, QuotaTypeOK

LEMMA DeploymentKeepsQuota ==
    ASSUME QuotaInv, UNCHANGED now, NEW config \in Configs, DeployCircle(config)
    PROVE  QuotaInv'
<1>0. PICK key : key = <<config.organizer, now \div rate_limit.period_secs>>
  OBVIOUS
<1>1. /\ inits' = inits /\ rate_limit' = rate_limit /\ now' = now
      /\ circle_list' = Append(circle_list, [circle |-> config, deployed_at |-> now])
      /\ factory_admin # Nobody /\ factory_admin' = factory_admin
  BY DEF DeployCircle
<1>2. IF rate_limit.limit = 0 THEN period_count' = period_count
      ELSE /\ CountOf(key) < rate_limit.limit
           /\ period_count' = With(period_count, key, CountOf(key) + 1)
  BY <1>0 DEF DeployCircle, Charge
<1>3. QuotaTypeOK
  BY DEF QuotaInv
<1>4. ASSUME rate_limit.limit # 0
      PROVE  /\ CountOf(key)' = CountOf(key) + 1
             /\ \A k : k # key => CountOf(k)' = CountOf(k)
             /\ \A k \in DOMAIN period_count' : period_count'[k] \in Nat
             /\ CountOf(key) \in Nat
  BY <1>2, <1>3, <1>4, ChargeCounts
<1>5. QuotaTypeOK'
  <2>1. circle_list' \in Seq([circle : Configs, deployed_at : Nat])
    BY <1>1, AppendProperties DEF QuotaInv, QuotaTypeOK
  <2>2. \A k \in DOMAIN period_count' : period_count'[k] \in Nat
    BY <1>2, <1>4 DEF QuotaInv, QuotaTypeOK
  <2>3. inits # 0
    BY <1>1 DEF QuotaInv, QuotaTypeOK
  <2> QED
    BY <1>1, <2>1, <2>2, <2>3 DEF QuotaInv, QuotaTypeOK
<1>6. ASSUME inits = 1, rate_limit.limit > 0, NEW organizer \in Caller, NEW period \in Nat
      PROVE  /\ Cardinality(DeployedBy(organizer, period)') = CountOf(<<organizer, period>>)'
             /\ CountOf(<<organizer, period>>)' <= rate_limit.limit
  <2>1. /\ Cardinality(DeployedBy(organizer, period)) = CountOf(<<organizer, period>>)
        /\ CountOf(<<organizer, period>>) <= rate_limit.limit
    BY <1>6 DEF QuotaInv, QuotaCounted
  <2>2. rate_limit.limit \in Nat
    BY DEF QuotaInv, QuotaTypeOK
  <2>4. CASE key = <<organizer, period>>
    <3>1. Cardinality(DeployedBy(organizer, period)')
              = Cardinality(DeployedBy(organizer, period)) + 1
      BY <1>0, <1>1, <1>3, <2>4, DeploymentIsAdded
    <3> QED
      BY <1>2, <1>4, <1>6, <2>1, <2>2, <2>4, <3>1
  <2>5. CASE key # <<organizer, period>>
    <3>1. ~(config.organizer = organizer /\ now \div rate_limit.period_secs = period)
      BY <1>0, <2>5
    <3>2. Cardinality(DeployedBy(organizer, period)') = Cardinality(DeployedBy(organizer, period))
      BY <1>1, <1>3, <3>1, DeploymentIsAdded
    <3> QED
      BY <1>4, <1>6, <2>1, <2>5, <3>2
  <2> QED
    BY <2>4, <2>5
<1>7. QuotaCounted'
  BY <1>1, <1>6 DEF QuotaInv, QuotaCounted
<1> QED
  BY <1>5, <1>7 DEF QuotaInv

\* Whatever else happens leaves the list, the counters and the limit alone.
LEMMA StandingKeepsQuota ==
    ASSUME QuotaInv, UNCHANGED <<inits, rate_limit, circle_list, period_count, factory_admin>>,
           now' \in Nat
    PROVE  QuotaInv'
<1>1. QuotaTypeOK'
  BY DEF QuotaInv, QuotaTypeOK
<1>2. ASSUME NEW organizer, NEW period
      PROVE  /\ DeployedBy(organizer, period)' = DeployedBy(organizer, period)
             /\ CountOf(<<organizer, period>>)' = CountOf(<<organizer, period>>)
  BY DEF DeployedBy, CountOf
<1>3. QuotaCounted'
  BY <1>2 DEF QuotaInv, QuotaCounted
<1> QED
  BY <1>1, <1>3 DEF QuotaInv

LEMMA FactoryStepKeepsQuota ==
    ASSUME QuotaInv, [Next]_platformVars
    PROVE  QuotaInv'
<1>0. now \in Nat /\ Limits \subseteq Nat /\ Periods \subseteq Nat
  BY FactoryAssumption DEF QuotaInv, QuotaTypeOK
<1>1. ASSUME UNCHANGED factoryVars, UNCHANGED now \/ ClockTick  PROVE QuotaInv'
  <2>1. now' \in Nat
    BY <1>0, <1>1 DEF ClockTick
  <2> QED
    BY <1>1, <2>1, StandingKeepsQuota DEF factoryVars, registryVars
<1>2. ASSUME UNCHANGED now, NEW a \in Caller, NEW fee \in Fees, NEW limit \in Limits,
             NEW period \in Periods, InitFactory(a, fee, limit, period)
      PROVE  QuotaInv'
  BY <1>0, <1>2, ResetKeepsQuota DEF InitFactory
<1>3. ASSUME UNCHANGED now, NEW a \in Caller, NEW fee \in Fees, NEW t \in Treasuries,
             InitWithConfig(a, fee, t)
      PROVE  QuotaInv'
  <2>1. Reset(a, fee, 0, 0)
    BY <1>3 DEF InitWithConfig
  <2> QED
    BY <1>3, <2>1, ResetKeepsQuota
<1>4. ASSUME UNCHANGED now, NEW a \in Caller, NEW fee \in Fees, NEW t \in Treasuries,
             SetFactoryConfig(a, t, fee)
      PROVE  QuotaInv'
  <2>1. UNCHANGED <<inits, rate_limit, circle_list, period_count, factory_admin>>
    BY <1>4 DEF SetFactoryConfig, registryVars
  <2> QED
    BY <1>0, <1>4, <2>1, StandingKeepsQuota
<1>5. ASSUME UNCHANGED now, NEW a \in Caller, NEW fee \in Fees, SetFeeConfig(a, fee)
      PROVE  QuotaInv'
  <2>1. UNCHANGED <<inits, rate_limit, circle_list, period_count, factory_admin>>
    BY <1>5 DEF SetFeeConfig, registryVars
  <2> QED
    BY <1>0, <1>5, <2>1, StandingKeepsQuota
<1>6. ASSUME UNCHANGED now, NEW a \in Caller, PauseFactory(a) \/ UnpauseFactory(a)
      PROVE  QuotaInv'
  <2>1. UNCHANGED <<inits, rate_limit, circle_list, period_count, factory_admin>>
    BY <1>6 DEF PauseFactory, UnpauseFactory, registryVars
  <2> QED
    BY <1>0, <1>6, <2>1, StandingKeepsQuota
<1>7. ASSUME FactoryNext, UNCHANGED now  PROVE QuotaInv'
  BY <1>2, <1>3, <1>4, <1>5, <1>6, <1>7, DeploymentKeepsQuota DEF FactoryNext
<1>8. \/ FactoryNext /\ UNCHANGED now
      \/ UNCHANGED factoryVars /\ (UNCHANGED now \/ ClockTick)
  BY DEF Next, platformVars
<1> QED
  BY <1>1, <1>7, <1>8

\* No organizer has more circles in the registry for a period than the limit.
THEOREM QuotasHold == Spec => []QuotaHolds
<1>1. Init => QuotaInv
  <2>1. Init => QuotaTypeOK
    BY DEF Init, FactoryInit, ClockInit, QuotaTypeOK
  <2>2. Init => QuotaCounted
    BY DEF Init, FactoryInit, QuotaCounted
  <2> QED
    BY <2>1, <2>2 DEF QuotaInv
<1>2. QuotaInv /\ [Next]_platformVars => QuotaInv'
  BY FactoryStepKeepsQuota
<1>3. QuotaInv => QuotaHolds
  <2>1. ASSUME QuotaInv, NEW period \in 0..now  PROVE period \in Nat
    BY DEF QuotaInv, QuotaTypeOK
  <2> QED
    BY <2>1 DEF QuotaInv, QuotaCounted, QuotaHolds
<1> QED
  BY <1>1, <1>2, <1>3, PTL DEF Spec

-----------------------------------------------------------------------------
(* The history of activities and its pages.                                *)

Lesser(m, n) == IF m < n THEN m ELSE n

\* A book is the pages of a list: all of them full but for the last one.
PageEnd(p, list) == Lesser(p * PageSize, Len(list))
IsPaged(book, list) ==
    /\ (Len(book) - 1) * PageSize < Len(list) /\ Len(list) <= Len(book) * PageSize
    /\ \A p \in 1..Len(book) : book[p] = SubSeq(list, (p - 1) * PageSize + 1, PageEnd(p, list))

LEMMA PageArithmetic ==
    ASSUME NEW index \in Nat
    PROVE  \E q \in Nat, r \in Nat :
              /\ r < PageSize /\ index = q * PageSize + r
              /\ PageOf(index) = q + 1 /\ index % PageSize = r
<1>1. PageSize \in Nat \ {0}
  BY ReputationAssumption
<1>2. /\ index \div PageSize \in Nat /\ index % PageSize \in Nat /\ index % PageSize < PageSize
      /\ index = (index \div PageSize) * PageSize + (index % PageSize)
  BY <1>1, Division
<1> QED
  BY <1>2 DEF PageOf

\* What is in a book at an index is what is in its list there.
LEMMA PagedEntry ==
    ASSUME NEW S, NEW list \in Seq(S), NEW book \in Seq(Seq(S)), IsPaged(book, list),
           NEW index \in Nat, index < Len(list)
    PROVE  /\ PageOf(index) \in DOMAIN book
           /\ (index % PageSize) + 1 \in DOMAIN book[PageOf(index)]
           /\ book[PageOf(index)][(index % PageSize) + 1] = list[index + 1]
<1>1. PICK q \in Nat, r \in Nat :
              /\ r < PageSize /\ index = q * PageSize + r
              /\ PageOf(index) = q + 1 /\ index % PageSize = r
  BY PageArithmetic
<1>2. PageSize \in Nat \ {0}
  BY ReputationAssumption
<1>3. PICK n \in Nat, k \in Nat : n = Len(list) /\ k = Len(book)
  BY LenProperties
<1>4. PICK base \in Nat : base = q * PageSize
  BY <1>2
<1>5. /\ base <= index /\ r < PageSize /\ (q + 1) * PageSize = base + PageSize
      /\ index = base + r /\ index < n
  BY <1>1, <1>2, <1>3, <1>4
<1>6. q + 1 \in 1..k
  <2>1. n <= k * PageSize
    BY <1>3 DEF IsPaged
  <2>2. q * PageSize < k * PageSize
    <3>1. k * PageSize \in Int
      BY <1>2
    <3> QED
      BY <1>4, <1>5, <2>1, <3>1
  <2>3. q < k
    BY <1>2, <2>2, ProductsAreOrdered
  <2> QED
    BY <2>3
<1>7. PICK last \in Nat : last = PageEnd(q + 1, list)
  <2>1. PageEnd(q + 1, list) = IF base + PageSize < n THEN base + PageSize ELSE n
    BY <1>3, <1>5 DEF PageEnd, Lesser
  <2> QED
    BY <1>2, <2>1
<1>8. base + r + 1 <= last /\ last <= n
  BY <1>2, <1>3, <1>5, <1>7 DEF PageEnd, Lesser
<1>9. book[q + 1] = SubSeq(list, base + 1, last)
  <2>1. (q + 1) - 1 = q
    OBVIOUS
  <2> QED
    BY <1>3, <1>4, <1>6, <1>7, <2>1 DEF IsPaged
<1>10. \A i \in (base + 1)..last : list[i] \in S
  BY <1>3, <1>8, ElementOfSeq
<1>11. /\ SubSeq(list, base + 1, last) \in Seq(S)
       /\ Len(SubSeq(list, base + 1, last)) = last - base
       /\ \A i \in 1..(last - base) : SubSeq(list, base + 1, last)[i] = list[base + i]
  BY <1>8, <1>10, SubSeqProperties
<1>12. r + 1 \in 1..(last - base) /\ base + (r + 1) = index + 1
  BY <1>5, <1>8
<1>13. DOMAIN book = 1..k /\ DOMAIN book[q + 1] = 1..(last - base)
  BY <1>3, <1>9, <1>11, LenProperties
<1> QED
  BY <1>1, <1>6, <1>9, <1>11, <1>12, <1>13

LEMMA SingleEntry ==
    ASSUME NEW S, NEW list \in Seq(S), NEW i \in 1..Len(list)
    PROVE  SubSeq(list, i, i) = <<list[i]>>
<1>1. i \in Int /\ list[i] \in S /\ \A j \in i..i : list[j] \in S
  BY ElementOfSeq
<1>2. /\ SubSeq(list, i, i) \in Seq(S) /\ Len(SubSeq(list, i, i)) = 1
      /\ \A j \in 1..1 : SubSeq(list, i, i)[j] = list[i + j - 1]
  BY <1>1, SubSeqProperties
<1>3. <<list[i]>> \in Seq(S) /\ Len(<<list[i]>>) = 1
  BY <1>1
<1>4. \A j \in 1..1 : SubSeq(list, i, i)[j] = <<list[i]>>[j]
  BY <1>2
<1> QED
  BY <1>2, <1>3, <1>4, SeqEqual

\* An activity is added where the book ends.
LEMMA PagedAppend ==
    ASSUME NEW S, NEW list \in Seq(S), NEW book \in Seq(Seq(S)), IsPaged(book, list),
           NEW entry \in S
    PROVE  /\ Paged(book, Len(list), entry) \in Seq(Seq(S))
           /\ IsPaged(Paged(book, Len(list), entry), Append(list, entry))
<1> DEFINE longer == Append(list, entry)
           paged == Paged(book, Len(list), entry)
<1>1. PICK n \in Nat, k \in Nat : n = Len(list) /\ k = Len(book)
  BY LenProperties
<1>2. PICK q \in Nat, r \in Nat :
              /\ r < PageSize /\ n = q * PageSize + r
              /\ PageOf(n) = q + 1 /\ n % PageSize = r
  BY PageArithmetic
<1>3. PageSize \in Nat \ {0}
  BY ReputationAssumption
<1>4. /\ longer \in Seq(S) /\ Len(longer) = n + 1
      /\ \A i \in 1..n : longer[i] = list[i]
      /\ longer[n + 1] = entry
  BY <1>1, AppendProperties
<1>5. PICK base \in Nat : base = q * PageSize
  BY <1>3
<1>6. n = base + r /\ r < PageSize /\ (q + 1) * PageSize = base + PageSize
  BY <1>2, <1>3, <1>5
<1>7. (k - 1) * PageSize < n /\ n <= k * PageSize
  BY <1>1 DEF IsPaged
<1>8. DOMAIN book = 1..k
  BY <1>1, LenProperties
\* The pages before the one that the activity goes to stay as they are.
<1>9. ASSUME NEW p \in 1..k, p * PageSize <= n
      PROVE  book[p] = SubSeq(longer, (p - 1) * PageSize + 1, PageEnd(p, longer))
  <2>1. PICK first \in Nat, last \in Nat :
            first = (p - 1) * PageSize + 1 /\ last = p * PageSize
    BY <1>3
  <2>2. PageEnd(p, list) = last /\ PageEnd(p, longer) = last /\ last <= n
    BY <1>1, <1>4, <1>9, <2>1 DEF PageEnd, Lesser
  <2>3. SubSeq(longer, first, last) = SubSeq(list, first, last)
    <3>1. 1 <= first
      BY <1>3, <2>1
    <3> QED
      BY <1>1, <1>4, <2>2, <3>1, PartsAgree
  <2> QED
    BY <1>1, <2>1, <2>2, <2>3 DEF IsPaged
<1>10. CASE r = 0
  <2>1. k = q
    <3>1. (k - 1) * PageSize < q * PageSize /\ ~(k * PageSize < q * PageSize)
      BY <1>3, <1>5, <1>6, <1>7, <1>10
    <3>2. k - 1 < q /\ ~(k < q)
      BY <1>3, <3>1, ProductsAreOrdered
    <3> QED
      BY <3>2
  <2>2. paged = Append(book, <<entry>>)
    BY <1>1, <1>2, <1>8, <2>1 DEF Paged
  <2>3. <<entry>> \in Seq(S)
    OBVIOUS
  <2>4. /\ paged \in Seq(Seq(S)) /\ Len(paged) = k + 1
        /\ \A p \in 1..k : paged[p] = book[p]
        /\ paged[k + 1] = <<entry>>
    BY <1>1, <2>2, <2>3, AppendProperties
  <2>5. (k + 1) * PageSize = base + PageSize /\ k * PageSize = n
    BY <1>5, <1>6, <1>10, <2>1
  <2>6. ((k + 1) - 1) * PageSize < n + 1 /\ n + 1 <= (k + 1) * PageSize
    BY <1>3, <1>6, <1>10, <2>5
  <2>7. ASSUME NEW p \in 1..k
        PROVE  paged[p] = SubSeq(longer, (p - 1) * PageSize + 1, PageEnd(p, longer))
    <3>1. ~(k * PageSize < p * PageSize)
      BY <1>3, ProductsAreOrdered
    <3>2. p * PageSize <= n
      BY <1>3, <2>5, <3>1
    <3> QED
      BY <1>9, <2>4, <3>2
  <2>8. paged[k + 1] = SubSeq(longer, ((k + 1) - 1) * PageSize + 1, PageEnd(k + 1, longer))
    <3>1. PageEnd(k + 1, longer) = n + 1
      BY <1>3, <1>4, <1>6, <1>10, <2>5 DEF PageEnd, Lesser
    <3>2. SubSeq(longer, n + 1, n + 1) = <<entry>>
      <4>1. PICK i \in 1..Len(longer) : i = n + 1
        BY <1>4
      <4> QED
        BY <1>4, <4>1, SingleEntry
    <3>3. (k + 1) - 1 = k
      OBVIOUS
    <3> QED
      BY <2>4, <2>5, <3>1, <3>2, <3>3
  <2> HIDE DEF paged, longer
  <2>9. IsPaged(paged, longer)
    <3>1. \A p \in 1..(k + 1) : p \in 1..k \/ p = k + 1
      OBVIOUS
    <3> QED
      BY <1>4, <2>4, <2>6, <2>7, <2>8, <3>1 DEF IsPaged
  <2> QED
    BY <2>4, <2>9 DEF paged, longer
<1>11. CASE r # 0
  <2>1. k = q + 1
    <3>1. (k - 1) * PageSize < (q + 1) * PageSize /\ q * PageSize < k * PageSize
      <4>1. (k - 1) * PageSize \in Int /\ k * PageSize \in Int
        BY <1>3
      <4> QED
        BY <1>3, <1>5, <1>6, <1>7, <1>11, <4>1
    <3>2. k - 1 < q + 1 /\ q < k
      BY <1>3, <3>1, ProductsAreOrdered
    <3> QED
      BY <3>2
  <2>2. paged = [book EXCEPT ![k] = Append(@, entry)]
    <3>1. PageOf(n) = k /\ k \in DOMAIN book
      BY <1>2, <1>8, <2>1
    <3> QED
      BY <1>1, <3>1 DEF Paged
  <2>3. k \in 1..k /\ (k - 1) * PageSize = base /\ k * PageSize = base + PageSize
    BY <1>5, <1>6, <2>1
  <2>4. book[k] = SubSeq(list, base + 1, n)
    <3>1. PageEnd(k, list) = n
      BY <1>1, <1>3, <1>6, <2>3 DEF PageEnd, Lesser
    <3> QED
      BY <1>1, <2>3, <3>1 DEF IsPaged
  <2>5. book[k] \in Seq(S)
    BY <1>1, <2>3, ElementOfSeq
  <2>6. Append(book[k], entry) \in Seq(S)
    BY <2>5, AppendProperties
  <2>7. /\ paged \in Seq(Seq(S)) /\ Len(paged) = k
        /\ \A p \in 1..k : paged[p] = IF p = k THEN Append(book[k], entry) ELSE book[p]
    BY <1>1, <2>2, <2>3, <2>6, ExceptSeq
  <2>8. (k - 1) * PageSize < n + 1 /\ n + 1 <= k * PageSize
    BY <1>3, <1>6, <2>3
  <2>9. paged[k] = SubSeq(longer, (k - 1) * PageSize + 1, PageEnd(k, longer))
    <3>1. PageEnd(k, longer) = n + 1
      BY <1>3, <1>4, <1>6, <2>3, <2>8 DEF PageEnd, Lesser
    <3>2. SubSeq(longer, base + 1, n + 1) = SubSeq(longer, base + 1, n) \o <<entry>>
      <4>1. PICK first \in Nat, last \in Nat : first = base + 1 /\ last = n + 1
        OBVIOUS
      <4>2. first \in 1..last /\ last \in first..last /\ last - 1 = n
        BY <1>6, <4>1
      <4>3. SubSeq(longer, first, last) = SubSeq(longer, first, last - 1) \o <<longer[last]>>
        BY <1>4, <4>1, <4>2, SubSeqRecursiveSecond
      <4> QED
        BY <1>4, <4>1, <4>2, <4>3
    <3>3. SubSeq(longer, base + 1, n) = SubSeq(list, base + 1, n)
      <4>1. PICK first \in Nat : first = base + 1 /\ 1 <= first
        OBVIOUS
      <4> QED
        BY <1>1, <1>4, <4>1, PartsAgree
    <3>4. Append(book[k], entry) = book[k] \o <<entry>>
      BY <2>5, AppendIsConcat
    <3> QED
      BY <2>3, <2>4, <2>7, <3>1, <3>2, <3>3, <3>4
  <2>10. ASSUME NEW p \in 1..k, p # k
        PROVE  paged[p] = SubSeq(longer, (p - 1) * PageSize + 1, PageEnd(p, longer))
    <3>1. ~(q * PageSize < p * PageSize)
      BY <1>3, <2>1, <2>10, ProductsAreOrdered
    <3>2. p * PageSize <= n
      BY <1>3, <1>5, <1>6, <3>1
    <3> QED
      BY <1>9, <2>7, <2>10, <3>2
  <2> HIDE DEF paged, longer
  <2>11. IsPaged(paged, longer)
    BY <1>4, <2>7, <2>8, <2>9, <2>10 DEF IsPaged
  <2> QED
    BY <2>7, <2>11 DEF paged, longer
<1> QED
  BY <1>10, <1>11

Entry == [type : 0..5, impact : Impacts]
HistoryInv ==
    /\ history \in [Member -> Seq(Entry)]
    /\ pages \in [Member -> Seq(Seq(Entry))]
    /\ activity_count \in [Member -> Nat]
    /\ \A m \in Member : activity_count[m] = Len(history[m]) /\ IsPaged(pages[m], history[m])

LEMMA RecordKeepsHistory ==
    ASSUME HistoryInv, NEW m \in Member, NEW t \in 0..5, NEW impact \in Impacts,
           record(m, t, impact)
    PROVE  HistoryInv'
<1> DEFINE entry == [type |-> t, impact |-> impact]
<1>1. entry \in Entry
  BY DEF Entry
<1>2. /\ pages' = [pages EXCEPT ![m] = Paged(@, activity_count[m], entry)]
      /\ history' = [history EXCEPT ![m] = Append(@, entry)]
      /\ activity_count' = [activity_count EXCEPT ![m] = @ + 1]
  BY DEF record
<1> HIDE DEF entry
<1>3. PICK list \in Seq(Entry), book \in Seq(Seq(Entry)) : list = history[m] /\ book = pages[m]
  BY DEF HistoryInv
<1>4. IsPaged(book, list) /\ activity_count[m] = Len(list) /\ Len(list) \in Nat
  BY <1>3, LenProperties DEF HistoryInv
<1>5. /\ Paged(book, Len(list), entry) \in Seq(Seq(Entry))
      /\ IsPaged(Paged(book, Len(list), entry), Append(list, entry))
  BY <1>1, <1>4, PagedAppend
<1>6. Append(list, entry) \in Seq(Entry) /\ Len(Append(list, entry)) = Len(list) + 1
  BY <1>1, AppendProperties
<1>7. /\ pages' = [pages EXCEPT ![m] = Paged(book, Len(list), entry)]
      /\ history' = [history EXCEPT ![m] = Append(list, entry)]
      /\ activity_count' = [activity_count EXCEPT ![m] = Len(list) + 1]
  BY <1>2, <1>3, <1>4
<1>8. /\ history' \in [Member -> Seq(Entry)] /\ pages' \in [Member -> Seq(Seq(Entry))]
      /\ activity_count' \in [Member -> Nat]
  BY <1>4, <1>5, <1>6, <1>7 DEF HistoryInv
<1>9. ASSUME NEW x \in Member
      PROVE  activity_count'[x] = Len(history'[x]) /\ IsPaged(pages'[x], history'[x])
  <2>1. CASE x = m
    <3>1. /\ pages'[x] = Paged(book, Len(list), entry) /\ history'[x] = Append(list, entry)
          /\ activity_count'[x] = Len(list) + 1
      BY <1>7, <2>1 DEF HistoryInv
    <3> QED
      BY <1>5, <1>6, <3>1
  <2>2. CASE x # m
    <3>1. /\ pages'[x] = pages[x] /\ history'[x] = history[x]
          /\ activity_count'[x] = activity_count[x]
      BY <1>7, <2>2 DEF HistoryInv
    <3> QED
      BY <3>1 DEF HistoryInv
  <2> QED
    BY <2>1, <2>2
<1> QED
  BY <1>8, <1>9 DEF HistoryInv, IsPaged, PageEnd, Lesser

LEMMA ActivityIsRead ==
    ASSUME HistoryInv, NEW m \in Member, NEW index \in Nat, index < Len(history[m])
    PROVE  ActivityAt(m, index) = SubSeq(history[m], index + 1, index + 1)
<1>1. PICK list \in Seq(Entry), book \in Seq(Seq(Entry)) : list = history[m] /\ book = pages[m]
  BY DEF HistoryInv
<1>2. IsPaged(book, list) /\ Len(list) \in Nat /\ index < Len(list)
  BY <1>1, LenProperties DEF HistoryInv
<1>3. /\ PageOf(index) \in DOMAIN book
      /\ (index % PageSize) + 1 \in DOMAIN book[PageOf(index)]
      /\ book[PageOf(index)][(index % PageSize) + 1] = list[index + 1]
  BY <1>2, PagedEntry
<1>4. ActivityAt(m, index) = <<list[index + 1]>>
  BY <1>1, <1>3 DEF ActivityAt
<1>5. PICK i \in 1..Len(list) : i = index + 1
  BY <1>2
<1> QED
  BY <1>1, <1>4, <1>5, SingleEntry

\* A request returns its part of the history, which may be cut off or empty.
LEMMA RequestIsRead ==
    ASSUME HistoryInv, NEW m \in Member, NEW page \in Nat, NEW size \in Nat \ {0}
    PROVE  get_history(m, page, size) =
               SubSeq(history[m], Lesser(page * size, Len(history[m])) + 1,
                      Lesser((page + 1) * size, Len(history[m])))
<1>1. PICK list \in Seq(Entry) : list = history[m]
  BY DEF HistoryInv
<1>2. PICK n \in Nat : n = Len(list) /\ n = activity_count[m]
  BY <1>1, LenProperties DEF HistoryInv
<1>3. PICK start \in Nat : start = page * size
  OBVIOUS
<1>4. (page + 1) * size = start + size
  BY <1>3
<1>5. PICK last \in Nat : last = Lesser(start + size, n)
  BY DEF Lesser
<1> DEFINE read == [i \in 1..(last - start) |-> ActivityAt(m, start + i - 1)]
<1>6. get_history(m, page, size) = FlattenSeq(read)
  BY <1>2, <1>3, <1>5 DEF get_history, Lesser
<1>7. CASE start < n
  <2>1. PICK k \in Nat : k = last - start /\ k > 0 /\ start + k = last /\ last <= n
    BY <1>5, <1>7 DEF Lesser
  <2> DEFINE cut == [i \in 0..k |-> start + i]
  <2>2. cut \in [0..k -> 0..Len(list)]
    BY <1>2, <2>1
  <2>3. \A i \in 1..k : cut[i - 1] <= cut[i]
    OBVIOUS
  <2>4. Len(read) = k
    BY <2>1
  <2>5. ASSUME NEW i \in 1..k
        PROVE  read[i] = SubSeq(list, cut[i - 1] + 1, cut[i])
    <3>1. PICK index \in Nat : index = start + i - 1
      OBVIOUS
    <3>2. index < Len(history[m]) /\ index + 1 = start + i
      BY <1>1, <1>2, <2>1, <3>1
    <3>3. read[i] = SubSeq(list, index + 1, index + 1)
      BY <1>1, <2>1, <3>1, <3>2, ActivityIsRead
    <3>4. cut[i - 1] + 1 = index + 1 /\ cut[i] = index + 1
      BY <3>1, <3>2
    <3> QED
      BY <3>3, <3>4
  <2>6. cut[0] + 1 = start + 1 /\ cut[k] = last
    BY <2>1
  <2>7. Lesser(start, n) = start
    BY <1>7 DEF Lesser
  <2> HIDE DEF cut, read
  <2>8. FlattenSeq(read) = SubSeq(list, cut[0] + 1, cut[k])
    BY <2>1, <2>2, <2>3, <2>4, <2>5, PiecesFlatten
  <2> QED
    BY <1>1, <1>2, <1>3, <1>4, <1>5, <1>6, <2>6, <2>7, <2>8
<1>8. CASE start >= n
  <2>1. last = n /\ Lesser(start, n) = n /\ 1..(last - start) = {}
    BY <1>5, <1>8 DEF Lesser
  <2>2. read = <<>>
    BY <2>1
  <2>3. FlattenSeq(<<>>) = <<>>
    BY DEF FlattenSeq
  <2>4. SubSeq(list, n + 1, n) = <<>>
    BY SubSeqEmpty
  <2> QED
    BY <1>1, <1>2, <1>3, <1>4, <1>5, <1>6, <2>1, <2>2, <2>3, <2>4
<1> QED
  BY <1>7, <1>8

LEMMA HistoryIsRead == HistoryInv => HistoryIsWhole
<1> SUFFICES ASSUME HistoryInv, NEW m \in Member, NEW size \in 1..(Len(history[m]) + 1)
             PROVE  FlattenSeq([p \in 1..(Len(history[m]) + 1) |-> get_history(m, p - 1, size)])
                        = history[m]
  BY DEF HistoryIsWhole
<1>1. PICK list \in Seq(Entry) : list = history[m]
  BY DEF HistoryInv
<1>2. PICK n \in Nat : n = Len(list)
  BY <1>1, LenProperties
<1>3. size \in Nat \ {0}
  BY <1>1, <1>2
<1>4. PICK k \in Nat : k = n + 1
  OBVIOUS
<1> DEFINE read == [p \in 1..k |-> get_history(m, p - 1, size)]
           cut == [p \in 0..k |-> Lesser(p * size, n)]
<1>5. \A p \in 0..k : p * size \in Nat
  BY <1>3
<1>6. cut \in [0..k -> 0..Len(list)]
  BY <1>2, <1>5 DEF Lesser
<1>7. ASSUME NEW p \in 1..k
      PROVE  cut[p - 1] <= cut[p] /\ read[p] = SubSeq(list, cut[p - 1] + 1, cut[p])
  <2>1. PICK page \in Nat : page = p - 1 /\ p = page + 1 /\ page \in 0..k /\ p \in 0..k
    OBVIOUS
  <2>2. page * size \in Nat /\ (page + 1) * size = page * size + size
    BY <1>3
  <2>3. cut[p - 1] = Lesser(page * size, n) /\ cut[p] = Lesser((page + 1) * size, n)
    BY <2>1
  <2>4. Lesser(page * size, n) <= Lesser((page + 1) * size, n)
    BY <1>3, <2>2 DEF Lesser
  <2>5. read[p] = get_history(m, page, size)
    BY <2>1
  <2>6. get_history(m, page, size) =
            SubSeq(list, Lesser(page * size, n) + 1, Lesser((page + 1) * size, n))
    BY <1>1, <1>2, <1>3, RequestIsRead
  <2> QED
    BY <2>3, <2>4, <2>5, <2>6
<1>8. Len(read) = k /\ k > 0
  BY <1>4
<1>9. cut[0] = 0 /\ cut[k] = n
  <2>1. k <= k * size /\ n < k /\ k * size \in Nat
    BY <1>3, <1>4
  <2>2. Lesser(0 * size, n) = 0 /\ Lesser(k * size, n) = n
    BY <1>3, <2>1 DEF Lesser
  <2> QED
    BY <2>2
<1>10. FlattenSeq([p \in 1..(Len(history[m]) + 1) |-> get_history(m, p - 1, size)])
           = FlattenSeq(read)
  BY <1>1, <1>2, <1>4
<1> HIDE DEF read, cut
<1>11. FlattenSeq(read) = SubSeq(list, cut[0] + 1, cut[k])
  BY <1>6, <1>7, <1>8, PiecesFlatten
<1>12. SubSeq(list, 0 + 1, n) = list
  BY <1>2, SubSeqFull
<1> QED
  BY <1>1, <1>9, <1>10, <1>11, <1>12

LEMMA ReputationStepKeepsHistory ==
    ASSUME HistoryInv, ReputationNext \/ UNCHANGED reputationVars
    PROVE  HistoryInv'
<1>1. ASSUME UNCHANGED activityVars  PROVE HistoryInv'
  BY <1>1 DEF activityVars, HistoryInv, IsPaged, PageEnd, Lesser
<1>2. \/ \E m \in Member, t \in 0..5, impact \in Impacts : record(m, t, impact)
      \/ UNCHANGED activityVars
  BY DEF ReputationNext, reputationVars, record_on_time_payment, record_circle_completion,
         record_default, apply_inactivity_decay, InitRegistry, PauseRegistry, UnpauseRegistry
<1> QED
  BY <1>1, <1>2, RecordKeepsHistory

\* Whoever reads a user's activities page by page, in requests of whatever size, reads
\* what record_activity recorded: each once, in order, for every capacity of a page.
THEOREM HistoriesAreWhole == Spec => []HistoryIsWhole
<1>1. Init => HistoryInv
  <2>1. ASSUME ReputationInit  PROVE HistoryInv
    <3>1. /\ history = [m \in Member |-> <<>>] /\ pages = [m \in Member |-> <<>>]
          /\ activity_count = [m \in Member |-> 0]
      BY <2>1 DEF ReputationInit
    <3>2. PageSize \in Nat \ {0}
      BY ReputationAssumption
    <3>3. IsPaged(<<>>, <<>>)
      BY <3>2 DEF IsPaged
    <3> QED
      BY <3>1, <3>3 DEF HistoryInv
  <2> QED
    BY <2>1 DEF Init
<1>2. HistoryInv /\ [Next]_platformVars => HistoryInv'
  BY ReputationStepKeepsHistory DEF Next, platformVars
<1>3. HistoryInv => HistoryIsWhole
  BY HistoryIsRead
<1> QED
  BY <1>1, <1>2, <1>3, PTL DEF Spec

-----------------------------------------------------------------------------
(* The streaks.                                                            *)

\* What circles do: a circle's current round only grows, and contribute takes one
\* payment of a member in each.
ReportsInOrder ==
    \A m \in Member, club \in Club, volume \in Volumes, round \in PaidRounds :
        record_on_time_payment(m, club, volume, round) => InOrder(m, club, round)

\* The last round is the last that was paid; without it a streak of one could be
\* continued by a round long gone.
StreakOK(last, run, rounds) ==
    /\ last \in Nat /\ run \in Nat /\ rounds \subseteq Nat /\ IsFiniteSet(rounds)
    /\ \A r \in rounds : r <= last
    /\ run <= Cardinality(rounds)
    /\ (last - run + 2)..last \subseteq rounds
StreakInv ==
    /\ last_round \in [Member \X Club -> Nat]
    /\ streak \in [Member \X Club -> Nat]
    /\ paid \in [Member \X Club -> SUBSET Nat]
    /\ \A key \in Member \X Club : StreakOK(last_round[key], streak[key], paid[key])

LEMMA StreakGrows ==
    ASSUME NEW last, NEW run, NEW rounds, StreakOK(last, run, rounds),
           NEW round \in Nat, \A r \in rounds : r < round,
           NEW next, next = IF last = 0 \/ round = last + 1 THEN run + 1 ELSE 1
    PROVE  StreakOK(round, next, rounds \cup {round})
<1>1. /\ last \in Nat /\ run \in Nat /\ rounds \subseteq Nat /\ IsFiniteSet(rounds)
      /\ \A r \in rounds : r <= last
      /\ run <= Cardinality(rounds)
      /\ (last - run + 2)..last \subseteq rounds
  BY DEF StreakOK
<1>2. /\ IsFiniteSet(rounds \cup {round})
      /\ Cardinality(rounds \cup {round}) = Cardinality(rounds) + 1
      /\ Cardinality(rounds) \in Nat
  BY <1>1, FS_AddElement, FS_CardinalityType
<1>3. next \in Nat /\ next <= Cardinality(rounds \cup {round})
  BY <1>1, <1>2
<1>4. (round - next + 2)..round \subseteq rounds \cup {round}
  <2>1. CASE last = 0
    <3>1. rounds \subseteq {0}
      BY <1>1, <2>1
    <3>2. Cardinality(rounds) <= 1
      <4>1. IsFiniteSet({0}) /\ Cardinality({0}) = 1
        BY FS_Singleton
      <4> QED
        BY <3>1, <4>1, FS_Subset
    <3>3. next <= 2
      BY <1>1, <1>2, <2>1, <3>2
    <3> QED
      BY <1>3, <3>3
  <2>2. CASE last # 0 /\ round = last + 1
    <3>1. next = run + 1
      BY <2>2
    <3>2. \A r \in (round - next + 2)..round : r = round \/ r \in (last - run + 2)..last
      BY <1>1, <2>2, <3>1
    <3> QED
      BY <1>1, <3>2
  <2>3. CASE last # 0 /\ round # last + 1
    <3>1. next = 1
      BY <2>3
    <3> QED
      BY <3>1
  <2> QED
    BY <2>1, <2>2, <2>3
<1> QED
  BY <1>1, <1>2, <1>3, <1>4 DEF StreakOK

LEMMA PaymentKeepsStreaks ==
    ASSUME StreakInv, NEW m \in Member, NEW club \in Club, NEW volume, NEW round \in Nat,
           record_on_time_payment(m, club, volume, round), InOrder(m, club, round)
    PROVE  StreakInv'
<1>1. PICK key \in Member \X Club : key = <<m, club>>
  OBVIOUS
<1>2. PICK next : next = NextStreak(key, round)
  OBVIOUS
<1>3. /\ streak' = [streak EXCEPT ![key] = next]
      /\ last_round' = [last_round EXCEPT ![key] = round]
      /\ paid' = [paid EXCEPT ![key] = @ \cup {round}]
  BY <1>1, <1>2 DEF record_on_time_payment
<1>4. StreakOK(last_round[key], streak[key], paid[key])
  BY DEF StreakInv
<1>5. next = IF last_round[key] = 0 \/ round = last_round[key] + 1 THEN streak[key] + 1 ELSE 1
  BY <1>2 DEF NextStreak
<1>6. StreakOK(round, next, paid[key] \cup {round})
  BY <1>1, <1>4, <1>5, StreakGrows DEF InOrder
<1>7. next \in Nat /\ paid[key] \cup {round} \in SUBSET Nat
  BY <1>6 DEF StreakOK
<1>8. /\ last_round' \in [Member \X Club -> Nat]
      /\ streak' \in [Member \X Club -> Nat]
      /\ paid' \in [Member \X Club -> SUBSET Nat]
  BY <1>3, <1>7 DEF StreakInv
<1>9. ASSUME NEW k \in Member \X Club
      PROVE  StreakOK(last_round'[k], streak'[k], paid'[k])
  <2>1. CASE k = key
    <3>1. last_round'[k] = round /\ streak'[k] = next /\ paid'[k] = paid[key] \cup {round}
      BY <1>3, <2>1 DEF StreakInv
    <3> QED
      BY <1>6, <3>1
  <2>2. CASE k # key
    <3>1. last_round'[k] = last_round[k] /\ streak'[k] = streak[k] /\ paid'[k] = paid[k]
      BY <1>3, <2>2 DEF StreakInv
    <3> QED
      BY <3>1 DEF StreakInv
  <2> QED
    BY <2>1, <2>2
<1> QED
  BY <1>8, <1>9 DEF StreakInv

LEMMA ReputationStepKeepsStreaks ==
    ASSUME StreakInv, ReputationNext \/ UNCHANGED reputationVars, ReportsInOrder
    PROVE  StreakInv'
<1>1. ASSUME UNCHANGED <<last_round, streak, paid>>  PROVE StreakInv'
  BY <1>1 DEF StreakInv
<1>2. ASSUME NEW m \in Member, NEW t \in 0..5, NEW impact \in Impacts, record(m, t, impact)
      PROVE  StreakInv'
  BY <1>1, <1>2 DEF record, scoringVars
<1>3. ASSUME NEW m \in Member, NEW club \in Club, NEW volume \in Volumes,
             NEW round \in PaidRounds, record_on_time_payment(m, club, volume, round)
      PROVE  StreakInv'
  <2>1. InOrder(m, club, round)
    BY <1>3 DEF ReportsInOrder
  <2>2. round \in Nat
    BY ReputationAssumption
  <2> QED
    BY <1>3, <2>1, <2>2, PaymentKeepsStreaks
<1>4. ASSUME NEW m \in Member, record_circle_completion(m) \/ record_default(m)
      PROVE  StreakInv'
  BY <1>1, <1>4 DEF record_circle_completion, record_default
<1>5. ASSUME NEW m \in Member, NEW days \in Inactivity, apply_inactivity_decay(m, days)
      PROVE  StreakInv'
  BY <1>1, <1>5 DEF apply_inactivity_decay
<1>6. ASSUME NEW a \in Registrar, InitRegistry(a) \/ PauseRegistry(a) \/ UnpauseRegistry(a)
      PROVE  StreakInv'
  BY <1>1, <1>6 DEF InitRegistry, PauseRegistry, UnpauseRegistry, scoringVars
<1>7. CASE UNCHANGED reputationVars
  BY <1>1, <1>7 DEF reputationVars, scoringVars
<1> QED
  BY <1>2, <1>3, <1>4, <1>5, <1>6, <1>7 DEF ReputationNext

\* When payments are reported in order and once each, a streak stands for rounds that
\* were paid.  Reports out of order break it: the registry itself does not check them.
THEOREM StreaksStandForPayments ==
    Spec /\ [][ReportsInOrder]_platformVars => []StreaksAreEarned
<1>1. Init => StreakInv
  <2>1. ASSUME ReputationInit  PROVE StreakInv
    <3>1. /\ streak = [k \in Member \X Club |-> 0] /\ last_round = [k \in Member \X Club |-> 0]
          /\ paid = [k \in Member \X Club |-> {}]
      BY <2>1 DEF ReputationInit
    <3>2. StreakOK(0, 0, {})
      BY FS_EmptySet DEF StreakOK
    <3> QED
      BY <3>1, <3>2 DEF StreakInv
  <2> QED
    BY <2>1 DEF Init
<1>2. StreakInv /\ [Next]_platformVars /\ [ReportsInOrder]_platformVars => StreakInv'
  <2>1. ASSUME StreakInv, UNCHANGED platformVars  PROVE StreakInv'
    BY <2>1 DEF platformVars, reputationVars, scoringVars, StreakInv
  <2>2. ASSUME StreakInv, Next, ReportsInOrder  PROVE StreakInv'
    BY <2>2, ReputationStepKeepsStreaks DEF Next
  <2> QED
    BY <2>1, <2>2
<1>3. StreakInv => StreaksAreEarned
  BY DEF StreakInv, StreakOK, StreaksAreEarned
<1> QED
  BY <1>1, <1>2, <1>3, PTL DEF Spec
=============================================================================
