------------------------------ MODULE MCEscrow ------------------------------
(***************************************************************************)
(* Two parties and two swaps of a token whose administrator, one of them,  *)
(* freezes, claws back and restricts.                                      *)
(***************************************************************************)
EXTENDS EscrowSwap

CONSTANTS a, b

\* Two stories share the mints, which come first.  In the first nobody swaps, and
\* allowances, lists, switches and burns change; b's allowance for a stands for the
\* others, and only b is listed.  At most one account is frozen at a time.
FreezeNext ==
    \/ \E x \in {b, Escrow} : frozen = {} /\ Freeze(a, x)
    \/ \E x \in frozen : Unfreeze(a, x)

TokenStory ==
    \/ \E u, to \in User, amount \in TokenAmounts : TransferTokens(u, to, amount)
    \/ \E to \in Holder, amount \in TokenAmounts : TransferFrom(a, b, to, amount)
    \/ \E amount \in TokenAmounts, expiration \in Expiries : Approve(b, a, amount, expiration)
    \/ \E u \in User, amount \in TokenAmounts : Burn(u, amount)
    \/ \E amount \in TokenAmounts : BurnFrom(a, b, amount)
    \/ AddToAllowlist(a, b) \/ RemoveFromAllowlist(a, b)
    \/ \E enabled \in BOOLEAN : SetAllowlistMode(a, enabled)
    \/ \E u \in User : PauseToken(u) \/ UnpauseToken(u) \/ SetTokenAdmin(u, b)
    \/ \E amount \in TokenAmounts : AdminBurnFrom(a, b, amount) \/ Clawback(a, b, amount)
    \/ FreezeNext
    \/ TokenTick

\* In the second the tokens are swapped, and taken from b or from the escrow.
Untold == DOMAIN allowances = {} /\ allowlist = {} /\ ~allowlist_mode /\ token_admin = a /\ ~token_paused

SwapStory ==
    \/ \E u \in User : SwapNext(u)
    \/ /\ \/ \E x \in {b, Escrow}, amount \in TokenAmounts : Clawback(a, x, amount)
          \/ \E amount \in TokenAmounts : AdminBurnFrom(a, Escrow, amount)
          \/ FreezeNext
          \/ TokenTick /\ now = 0
       /\ UNCHANGED escrowVars

Minting ==
    /\ frozen = {} /\ swaps = <<>> /\ Untold /\ now = 0
    /\ \A x \in Holder : seized[x] = [clawback |-> 0, burn |-> 0]
    /\ \E u, x \in User, amount \in TokenAmounts : Mint(u, x, amount)
    /\ UNCHANGED escrowVars

MCNext ==
    \/ Minting
    \/ swaps = <<>> /\ TokenStory /\ UNCHANGED escrowVars
    \/ Untold /\ (swaps = <<>> => balances[a] = 1 /\ balances[b] = 2) /\ SwapStory

MCSpec == EscrowInit /\ [][MCNext]_allVars
=============================================================================
