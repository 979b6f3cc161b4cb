---------------------------- MODULE CircleFactory ----------------------------
(***************************************************************************)
(* The factory (packages/circle-factory) and the settings it pushes into   *)
(* the circles it deploys.  A circle's address is derived from its         *)
(* configuration, so the configuration stands for the address too.         *)
(***************************************************************************)
EXTENDS Clock, Sequences, FiniteSets

CONSTANTS
    Caller, Nobody,    \* accounts that call the factory, and none
    Treasuries, Zero,  \* treasuries that the admin names, and the all-zero address
    Fees,              \* fee choices in basis points
    Configs,           \* circle configurations that organizers pass
    Limits, Periods    \* rate limits and the lengths of their periods

ASSUME FactoryAssumption ==
    /\ Nobody \notin Caller /\ Zero \in Treasuries
    /\ Fees \subseteq Int /\ Limits \subseteq Nat /\ Periods \subseteq Nat

VARIABLES
    factory_admin,     \* Admin; Nobody before init
    fee_config,        \* FeeConfig.fee_bps
    factory_config,    \* FactoryConfig: a set of at most one record
    rate_limit,        \* RateLimitConfig
    period_count,      \* OrganizerPeriodCount(organizer, period)
    circle_list,       \* CircleList
    circle_count,      \* CircleCount
    canonical,         \* CanonicalDeployment
    circle_settings,   \* what each circle was configured with by the factory
    factory_paused,
    inits              \* how often init ran

feeVars == <<fee_config, factory_config>>
registryVars == <<period_count, circle_list, canonical, circle_settings>>
factoryVars == <<feeVars, registryVars, factory_admin, rate_limit, circle_count, factory_paused, inits>>

FactoryInit ==
    /\ factory_admin = Nobody
    /\ fee_config = 0 /\ factory_config = {}
    /\ rate_limit = [limit |-> 0, period_secs |-> 0]
    /\ period_count = [key \in {} |-> 0]
    /\ circle_list = <<>> /\ circle_count = 0 /\ canonical = {}
    /\ circle_settings = [c \in {} |-> 0]
    /\ factory_paused = FALSE /\ inits = 0

-----------------------------------------------------------------------------

ValidFee(fee) == 0 <= fee /\ fee <= 10000
ValidSettings(config) == ValidFee(config.fee_bps) /\ config.treasury # Zero

ValidConfig(config) ==
    /\ config.max_members >= 2
    /\ config.contribution_amount > 0
    /\ config.total_rounds # 0
    /\ config.payout_type <= 3

CountOf(key) == IF key \in DOMAIN period_count THEN period_count[key] ELSE 0
With(f, k, v) == [x \in DOMAIN f \cup {k} |-> IF x = k THEN v ELSE f[x]]

\* init and init_with_config, whose rate limit is none, may be called again: then
\* the count restarts and the list, the quotas and the protocol config remain.
Reset(a, fee, limit, period) ==
    /\ ValidFee(fee)
    /\ limit > 0 => period > 0
    /\ factory_admin' = a
    /\ fee_config' = fee
    /\ circle_count' = 0
    /\ rate_limit' = [limit |-> limit, period_secs |-> period]
    /\ inits' = inits + 1
    /\ UNCHANGED <<registryVars, factory_paused>>

InitFactory(a, fee, limit, period) ==
    /\ Reset(a, fee, limit, period)
    /\ UNCHANGED factory_config

InitWithConfig(a, fee, t) ==
    /\ Reset(a, fee, 0, 0)
    /\ t # Zero
    /\ factory_config' = {[treasury |-> t, fee_bps |-> fee]}

SetFactoryConfig(a, t, fee) ==
    /\ a = factory_admin /\ ~factory_paused
    /\ ValidSettings([treasury |-> t, fee_bps |-> fee])
    /\ factory_config' = {[treasury |-> t, fee_bps |-> fee]}
    /\ fee_config' = fee
    /\ UNCHANGED <<registryVars, factory_admin, rate_limit, circle_count, factory_paused, inits>>

SetFeeConfig(a, fee) ==
    /\ ~factory_paused
    /\ a = factory_admin
    /\ ValidFee(fee)
    /\ fee_config' = fee
    /\ factory_config' = {[config EXCEPT !.fee_bps = fee] : config \in factory_config}
    /\ UNCHANGED <<registryVars, factory_admin, rate_limit, circle_count, factory_paused, inits>>

\* The organizer's quota for the period of this moment.
MutCharge(organizer) == period_count' = period_count   \* nothing is counted
Charge(organizer) ==
    IF rate_limit.limit = 0 THEN period_count' = period_count
    ELSE LET key == <<organizer, now \div rate_limit.period_secs>>
         IN  CountOf(key) < rate_limit.limit /\ period_count' = With(period_count, key, CountOf(key) + 1)

\* The circle accepts the settings because the factory has checked the same bounds.
DeployCircle(config) ==
    /\ ~factory_paused /\ factory_admin # Nobody
    /\ ValidConfig(config)
    /\ \E settings \in factory_config :
          /\ ValidSettings(settings)
          /\ circle_settings' = With(circle_settings, config, settings)
    /\ Charge(config.organizer)
    /\ config \notin canonical
    /\ canonical' = canonical \cup {config}
    /\ circle_list' = Append(circle_list, [circle |-> config, deployed_at |-> now])
    /\ circle_count' = circle_count + 1
    /\ UNCHANGED <<feeVars, factory_admin, rate_limit, factory_paused, inits>>

PauseFactory(a) ==
    /\ a = factory_admin
    /\ factory_paused' = TRUE
    /\ UNCHANGED <<feeVars, registryVars, factory_admin, rate_limit, circle_count, inits>>

UnpauseFactory(a) ==
    /\ a = factory_admin
    /\ factory_paused' = FALSE
    /\ UNCHANGED <<feeVars, registryVars, factory_admin, rate_limit, circle_count, inits>>

FactoryNext ==
    \/ \E a \in Caller, fee \in Fees, limit \in Limits, period \in Periods :
          InitFactory(a, fee, limit, period)
    \/ \E a \in Caller, fee \in Fees, t \in Treasuries :
          InitWithConfig(a, fee, t) \/ SetFactoryConfig(a, t, fee)
    \/ \E a \in Caller, fee \in Fees : SetFeeConfig(a, fee)
    \/ \E config \in Configs : DeployCircle(config)
    \/ \E a \in Caller : PauseFactory(a) \/ UnpauseFactory(a)

-----------------------------------------------------------------------------
(* Properties.                                                             *)

DeployedBy(organizer, period) ==
    {i \in DOMAIN circle_list :
        /\ circle_list[i].circle.organizer = organizer
        /\ circle_list[i].deployed_at \div rate_limit.period_secs = period}

\* The registry of circles shows no organizer above the limit in any period, for as
\* long as the factory keeps the limit it was first given; the counters that are
\* charged survive changes of configuration, failed deployments and pauses.
QuotaHolds ==
    inits = 1 /\ rate_limit.limit > 0 =>
        \A organizer \in Caller, period \in 0..now :
            Cardinality(DeployedBy(organizer, period)) <= rate_limit.limit
=============================================================================
