--------------------------------- MODULE Vrf ---------------------------------
(***************************************************************************)
(* The random draw of a circle: the verifiable random function of          *)
(* packages/common, with its nonce against replays and its delayed key     *)
(* rotation, and the draw that resolve_random makes for a round.  A hash   *)
(* is any number.                                                          *)
(***************************************************************************)
EXTENDS Clock, Sequences

CONSTANTS
    Key, NoKey,        \* signing keys
    VrfCaller, VrfOwner,   \* accounts that call, and the one given to init_vrf
    Stride,            \* nonces per round: resolve_random starts at round * 1000
    Places,            \* max_members of the circle
    LastRound,         \* bound on the rounds drawn
    Delays             \* activation delays the owner chooses

ASSUME VrfAssumption ==
    /\ NoKey \notin Key /\ VrfOwner \in VrfCaller
    /\ Stride \in Nat /\ Places \in Nat \ {0} /\ LastRound \in Nat /\ Delays \subseteq Nat
    /\ Places <= Stride

VARIABLES
    active_key,        \* ADMIN_KEY
    pending,           \* PENDING_KEY and PENDING_AT_KEY: a set of at most one record
    nonce,             \* NONCE_KEY; negative when absent
    counter,           \* COUNTER_KEY
    order,             \* the positions of the last draw
    next_round         \* the circle's current round

rotationVars == <<active_key, pending>>
drawVars == <<nonce, counter, order, next_round>>
vrfVars == <<rotationVars, drawVars>>

\* A circle initializes its function in its constructor, with no key.
VrfInit ==
    /\ active_key = NoKey /\ pending = {}
    /\ nonce = -1 /\ counter = 0
    /\ order = <<>> /\ next_round = 0

-----------------------------------------------------------------------------

MutBaseNonce(round) == round   \* the nonces of successive rounds overlap
BaseNonce(round) == round * Stride

\* shuffle_positions evaluates one nonce per position, each above the last one,
\* and takes each output modulo n: the positions need not be distinct.
shuffle_positions(n, base) ==
    /\ base > nonce
    /\ nonce' = base + n - 1
    /\ counter' = counter + n
    /\ order' \in [1..n -> 0..(n - 1)]

\* A payout that needs the draw of its round; the circle then moves on.  A round
\* that is settled without a draw moves it on too.
Draw ==
    /\ next_round <= LastRound
    /\ shuffle_positions(Places, BaseNonce(next_round))
    /\ next_round' = next_round + 1
    /\ UNCHANGED rotationVars

SkipDraw ==
    /\ next_round <= LastRound
    /\ next_round' = next_round + 1
    /\ UNCHANGED <<nonce, counter, order, rotationVars>>

propose_key_rotation(caller, key, delay) ==
    /\ caller = VrfOwner
    /\ pending' = {[key |-> key, at |-> now + delay]}
    /\ UNCHANGED <<active_key, drawVars>>

activate_key_rotation(caller) ==
    /\ caller = VrfOwner
    /\ \E rotation \in pending :
          now >= rotation.at /\ active_key' = rotation.key
    /\ pending' = {}
    /\ UNCHANGED drawVars

VrfNext ==
    \/ Draw \/ SkipDraw
    \/ \E a \in VrfCaller, key \in Key, delay \in Delays : propose_key_rotation(a, key, delay)
    \/ \E a \in VrfCaller : activate_key_rotation(a)

-----------------------------------------------------------------------------
(* Properties.                                                             *)

\* Whatever was drawn before, the current round can be drawn: its nonces are all
\* above the last one used, so that a payout never fails as a replay.
RoundsCanBeDrawn == next_round <= LastRound => nonce < BaseNonce(next_round)
=============================================================================
