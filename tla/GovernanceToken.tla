--------------------------- MODULE GovernanceToken ---------------------------
(***************************************************************************)
(* The governance token (packages/governance-token): a token with          *)
(* allowances that its administrator can freeze, claw back and restrict to *)
(* listed recipients.  A map from addresses to booleans is the set of the  *)
(* addresses it maps to true.  An entry point that returns Err changes     *)
(* nothing, so each one is an atomic action guarded by all it checks.      *)
(***************************************************************************)
EXTENDS Integers, FiniteSets, FiniteSetsExt, Functions

CONSTANTS
    User,              \* accounts that hold tokens and call the contracts
    Escrow, Contract,  \* the swap contract's account, and the token contract's own
    TokenAdmin0,       \* the administrator given to initialize
    TokenAmounts,      \* amounts that callers pass
    Expiries,          \* expiration ledgers that owners choose; 0 is never
    MaxSupply,         \* bound on the supply
    MaxTime            \* last ledger

Holder == User \cup {Escrow, Contract}

ASSUME TokenAssumption ==
    /\ IsFiniteSet(User) /\ Escrow \notin User /\ Contract \notin User /\ Escrow # Contract
    /\ TokenAdmin0 \in User
    /\ TokenAmounts \subseteq Int /\ Expiries \subseteq Nat
    /\ MaxSupply \in Nat /\ MaxTime \in Nat

VARIABLES
    token_admin,       \* "admin", replaced by set_admin
    balances,          \* "bal"
    total,             \* "total"
    allowances,        \* "alw": (owner, spender) -> amount and expiration ledger
    frozen,            \* "frz"
    allowlist_mode,    \* "alw_mode"
    allowlist,         \* "alw_list"
    token_paused,
    seized,            \* what the administrator took from each account, and how
    now                \* ledger sequence number; a ledger closes every time unit

ledgerVars == <<balances, total, seized>>
listVars == <<frozen, allowlist_mode, allowlist>>
switchVars == <<token_admin, token_paused>>
tokenVars == <<ledgerVars, listVars, switchVars, allowances>>

initialize ==
    /\ token_admin = TokenAdmin0
    /\ balances = [x \in Holder |-> 0] /\ total = 0
    /\ allowances = [key \in {} |-> 0]
    /\ frozen = {} /\ allowlist_mode = FALSE /\ allowlist = {}
    /\ token_paused = FALSE
    /\ seized = [x \in Holder |-> [clawback |-> 0, burn |-> 0]]
    /\ now = 0

-----------------------------------------------------------------------------
(* Helpers.  A definition named Mut... is a faulty form of the definition  *)
(* that follows it, with which a property must fail.                       *)

Moved(book, from, to, amount) ==
    [[book EXCEPT ![from] = @ - amount] EXCEPT ![to] = @ + amount]

\* Whether the sender, the recipient and the recipient's listing allow a transfer.
MutMovable(from, to) ==   \* the sender is not looked at
    to # Contract /\ to \notin frozen /\ (allowlist_mode => to \in allowlist)
Movable(from, to) ==
    /\ to # Contract
    /\ {from, to} \cap frozen = {}
    /\ allowlist_mode => to \in allowlist

\* What transfer checks beyond its authorization, with the balances in a book.
Transferable(book, from, to, amount) ==
    /\ ~token_paused /\ Movable(from, to)
    /\ 0 < amount /\ amount <= book[from]

IsExpirationValid(expiration) == expiration = 0 \/ now <= expiration
IsExpired(allowance) == allowance.expiration # 0 /\ allowance.expiration < now

ConsumeAllowance(from, spender, amount) ==
    LET key == <<from, spender>> IN
    /\ key \in DOMAIN allowances
    /\ ~IsExpired(allowances[key])
    /\ amount <= allowances[key].amount
    /\ allowances' = [allowances EXCEPT ![key].amount = @ - amount]

MutBurnBalance(from, amount) ==   \* the supply is left as it was
    /\ amount <= balances[from]
    /\ balances' = [balances EXCEPT ![from] = @ - amount] /\ total' = total
BurnBalance(from, amount) ==
    /\ amount <= balances[from]
    /\ balances' = [balances EXCEPT ![from] = @ - amount]
    /\ total' = total - amount

ByAdmin(a) == ~token_paused /\ a = token_admin

-----------------------------------------------------------------------------
(* Holders.                                                                *)

TransferTokens(from, to, amount) ==
    /\ Transferable(balances, from, to, amount)
    /\ balances' = Moved(balances, from, to, amount)
    /\ UNCHANGED <<total, seized, listVars, switchVars, allowances, now>>

TransferFrom(spender, from, to, amount) ==
    /\ Transferable(balances, from, to, amount)
    /\ ConsumeAllowance(from, spender, amount)
    /\ balances' = Moved(balances, from, to, amount)
    /\ UNCHANGED <<total, seized, listVars, switchVars, now>>

\* The allowance replaces the former one, and neither account's freeze matters.
Approve(owner, spender, amount, expiration) ==
    /\ ~token_paused
    /\ amount >= 0 /\ (amount > 0 => IsExpirationValid(expiration))
    /\ allowances' =
         [key \in DOMAIN allowances \cup {<<owner, spender>>} |->
            IF key = <<owner, spender>> THEN [amount |-> amount, expiration |-> expiration]
            ELSE allowances[key]]
    /\ UNCHANGED <<ledgerVars, listVars, switchVars, now>>

Burn(from, amount) ==
    /\ ~token_paused
    /\ from \notin frozen
    /\ amount > 0 /\ BurnBalance(from, amount)
    /\ UNCHANGED <<seized, listVars, switchVars, allowances, now>>

BurnFrom(spender, from, amount) ==
    /\ ~token_paused
    /\ amount > 0
    /\ from \notin frozen
    /\ ConsumeAllowance(from, spender, amount)
    /\ BurnBalance(from, amount)
    /\ UNCHANGED <<seized, listVars, switchVars, now>>

-----------------------------------------------------------------------------
(* The administrator.                                                      *)

Mint(a, to, amount) ==
    /\ ByAdmin(a)
    /\ to # Contract /\ to \notin frozen
    /\ 0 < amount /\ total + amount <= MaxSupply
    /\ balances' = [balances EXCEPT ![to] = @ + amount]
    /\ total' = total + amount
    /\ UNCHANGED <<seized, listVars, switchVars, allowances, now>>

AdminBurnFrom(a, from, amount) ==
    /\ ByAdmin(a)
    /\ from \notin frozen
    /\ amount > 0 /\ BurnBalance(from, amount)
    /\ seized' = [seized EXCEPT ![from].burn = @ + amount]
    /\ UNCHANGED <<listVars, switchVars, allowances, now>>

\* A frozen account is clawed back from like any other.
Clawback(a, from, amount) ==
    /\ ByAdmin(a)
    /\ amount > 0 /\ BurnBalance(from, amount)
    /\ seized' = [seized EXCEPT ![from].clawback = @ + amount]
    /\ UNCHANGED <<listVars, switchVars, allowances, now>>

Freeze(a, account) ==
    /\ ByAdmin(a)
    /\ frozen' = frozen \cup {account}
    /\ UNCHANGED <<ledgerVars, allowlist_mode, allowlist, switchVars, allowances, now>>

Unfreeze(a, account) ==
    /\ ByAdmin(a)
    /\ frozen' = frozen \ {account}
    /\ UNCHANGED <<ledgerVars, allowlist_mode, allowlist, switchVars, allowances, now>>

SetAllowlistMode(a, enabled) ==
    /\ ByAdmin(a)
    /\ allowlist_mode' = enabled
    /\ UNCHANGED <<ledgerVars, frozen, allowlist, switchVars, allowances, now>>

AddToAllowlist(a, account) ==
    /\ ByAdmin(a)
    /\ allowlist' = allowlist \cup {account}
    /\ UNCHANGED <<ledgerVars, frozen, allowlist_mode, switchVars, allowances, now>>

RemoveFromAllowlist(a, account) ==
    /\ ByAdmin(a)
    /\ allowlist' = allowlist \ {account}
    /\ UNCHANGED <<ledgerVars, frozen, allowlist_mode, switchVars, allowances, now>>

SetTokenAdmin(a, successor) ==
    /\ ByAdmin(a)
    /\ token_admin' = successor
    /\ UNCHANGED <<ledgerVars, listVars, token_paused, allowances, now>>

PauseToken(a) ==
    /\ a = token_admin
    /\ token_paused' = TRUE
    /\ UNCHANGED <<ledgerVars, listVars, token_admin, allowances, now>>

UnpauseToken(a) ==
    /\ a = token_admin
    /\ token_paused' = FALSE
    /\ UNCHANGED <<ledgerVars, listVars, token_admin, allowances, now>>

-----------------------------------------------------------------------------

HolderNext(u) ==
    \/ \E to \in Holder, amount \in TokenAmounts : TransferTokens(u, to, amount)
    \/ \E from, to \in Holder, amount \in TokenAmounts : TransferFrom(u, from, to, amount)
    \/ \E spender \in User, amount \in TokenAmounts \cup {0}, expiration \in Expiries :
          Approve(u, spender, amount, expiration)
    \/ \E amount \in TokenAmounts : Burn(u, amount)
    \/ \E from \in Holder, amount \in TokenAmounts : BurnFrom(u, from, amount)

SeizureNext(a) ==
    \/ \E x \in Holder, amount \in TokenAmounts : AdminBurnFrom(a, x, amount) \/ Clawback(a, x, amount)
    \/ \E x \in Holder : Freeze(a, x) \/ Unfreeze(a, x)

IssuerNext(a) ==
    \/ \E x \in Holder, amount \in TokenAmounts : Mint(a, x, amount)
    \/ \E x \in Holder : AddToAllowlist(a, x) \/ RemoveFromAllowlist(a, x)
    \/ \E enabled \in BOOLEAN : SetAllowlistMode(a, enabled)
    \/ \E successor \in User : SetTokenAdmin(a, successor)
    \/ PauseToken(a) \/ UnpauseToken(a)

TokenNext == \E u \in User : HolderNext(u) \/ SeizureNext(u) \/ IssuerNext(u)

TokenTick ==
    /\ now < MaxTime
    /\ now' = now + 1
    /\ UNCHANGED tokenVars

TokenSpec == initialize /\ [][TokenNext \/ TokenTick]_<<tokenVars, now>>

-----------------------------------------------------------------------------
(* Properties.                                                             *)

Allowance == [amount : Nat, expiration : Nat]

TokenTypeOK ==
    /\ token_admin \in User
    /\ balances \in [Holder -> Nat]
    /\ total \in Int
    /\ DOMAIN allowances \subseteq Holder \X Holder
    /\ \A key \in DOMAIN allowances : allowances[key] \in Allowance
    /\ frozen \subseteq Holder /\ allowlist \subseteq Holder
    /\ allowlist_mode \in BOOLEAN /\ token_paused \in BOOLEAN
    /\ seized \in [Holder -> [clawback : Nat, burn : Nat]]
    /\ now \in Nat

\* The supply, kept beside the balances by mints and four kinds of burn, is what
\* the accounts hold.
SupplyIsSum == total = SumFunctionOnSet(balances, Holder)

\* While an account is frozen its balance changes by clawbacks and by nothing else:
\* not by its own allowances, a swap it is a party of, a mint or another's burn.
Untouched(x) ==
    balances[x] - balances'[x] = seized'[x].clawback - seized[x].clawback
FrozenFundsStay == [][\A x \in frozen : Untouched(x)]_<<tokenVars, now>>
=============================================================================
