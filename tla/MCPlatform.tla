----------------------------- MODULE MCPlatform -----------------------------
(***************************************************************************)
(* The platform in four stories, each of which moves one contract while    *)
(* the others stay as they started; the treasury's begins once a circle    *)
(* that pays it has been deployed.                                         *)
(***************************************************************************)
EXTENDS Platform, TLC

CONSTANTS a, b, t1

MCConfigs ==
    {[organizer |-> o, name |-> n, max_members |-> 2, contribution_amount |-> 1,
      total_rounds |-> 2, payout_type |-> 0] : o \in {a}, n \in 1..3}
    \cup {[organizer |-> b, name |-> 1, max_members |-> 1, contribution_amount |-> 1,
           total_rounds |-> 2, payout_type |-> 0],
          [organizer |-> b, name |-> 1, max_members |-> 2, contribution_amount |-> 1,
           total_rounds |-> 2, payout_type |-> 0]}

TreasuryIdle == TreasuryInit /\ treasury_token = t1
ReputationIdle == ReputationInit
VrfIdle == VrfInit

FactoryStory ==
    /\ TreasuryIdle /\ ReputationIdle /\ VrfIdle
    /\ FactoryNext /\ inits' <= 2
    /\ UNCHANGED <<treasuryVars, reputationVars, vrfVars, now>>

TreasuryStory ==
    /\ ReputationIdle /\ VrfIdle /\ now = 0
    /\ inits = 1 /\ rate_limit.limit = 0 /\ ~factory_paused /\ factory_admin = a
    /\ Len(circle_list) = 1 /\ circle_list[1].circle.name = 1
    /\ TreasuryNext
    /\ deposited' <= MaxIncome
    /\ UNCHANGED <<factoryVars, reputationVars, vrfVars, now>>

ReputationStory ==
    /\ factory_admin = Nobody /\ VrfIdle /\ now = 0
    /\ \/ \E x \in Member, t \in 0..5, impact \in Impacts :
             /\ activity_count[x] < 5 /\ moi[x] + completions[x] + defaults[x] = 0
             /\ \A club \in Club : paid[<<x, club>>] = {}
             /\ record(x, t, impact)
       \/ /\ \A x \in Member : history[x] = <<>>
          /\ \/ \E x \in Member, club \in Club, volume \in Volumes, round \in PaidRounds :
                   InOrder(x, club, round) /\ record_on_time_payment(x, club, volume, round)
             \/ \E x \in Member : completions[x] + defaults[x] < 2
                                  /\ (record_circle_completion(x) \/ record_default(x))
             \/ \E x \in Member, days \in Inactivity : apply_inactivity_decay(x, days)
       \/ \E r \in Registrar : InitRegistry(r) \/ PauseRegistry(r) \/ UnpauseRegistry(r)
    /\ UNCHANGED <<factoryVars, treasuryVars, vrfVars, now>>

VrfStory ==
    /\ factory_admin = Nobody /\ ReputationIdle
    /\ VrfNext
    /\ UNCHANGED <<factoryVars, treasuryVars, reputationVars, now>>

MCNext ==
    \/ FactoryStory \/ TreasuryStory \/ ReputationStory \/ VrfStory
    \/ /\ TreasuryIdle /\ ReputationIdle /\ ClockTick
       /\ UNCHANGED <<factoryVars, treasuryVars, reputationVars, vrfVars>>

MCInit == Init /\ treasury_token = t1
MCSpec == MCInit /\ [][MCNext]_platformVars
=============================================================================
