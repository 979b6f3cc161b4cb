------------------------------ MODULE Treasury ------------------------------
(***************************************************************************)
(* The treasury (packages/treasury): a recorded balance beside the tokens  *)
(* it holds.  Circles deposit their payout fees, which is recorded, and    *)
(* send late penalties and forfeited collateral by plain transfers, which  *)
(* is not.  The two logs are kept as the totals of their entries.          *)
(***************************************************************************)
EXTENDS Integers

CONSTANTS
    TreasuryAdmins,    \* accounts that may call init
    Currency,          \* tokens
    Sums,              \* amounts that callers pass
    MaxIncome          \* bound on what the treasury holds of a token

ASSUME TreasuryAssumption == Sums \subseteq Int /\ MaxIncome \in Nat

VARIABLES
    treasury_admin, treasury_token,
    recorded,          \* Balance
    deposited,         \* total of Deposits
    withdrawn,         \* total of Withdrawals
    treasury_paused,
    held               \* what the treasury owns of each token

bookVars == <<recorded, deposited, withdrawn>>
treasuryVars == <<bookVars, treasury_admin, treasury_token, treasury_paused, held>>

TreasuryInit ==
    /\ treasury_admin \in TreasuryAdmins /\ treasury_token \in Currency
    /\ recorded = 0 /\ deposited = 0 /\ withdrawn = 0
    /\ treasury_paused = FALSE
    /\ held = [t \in Currency |-> 0]

-----------------------------------------------------------------------------

\* A payment out of the treasury may go back to its own account.
PayOut(t, amount, away) ==
    /\ amount <= held[t]
    /\ held' = IF away THEN [held EXCEPT ![t] = @ - amount] ELSE held

Receive(t, amount) ==
    /\ 0 < amount /\ held[t] + amount <= MaxIncome
    /\ held' = [held EXCEPT ![t] = @ + amount]

\* init may be called again: the books start afresh beside the tokens held.
InitTreasury(a, t) ==
    /\ treasury_admin' = a /\ treasury_token' = t
    /\ recorded' = 0 /\ deposited' = 0 /\ withdrawn' = 0
    /\ UNCHANGED <<treasury_paused, held>>

\* The depositor is a circle, an account other than the treasury's own.
deposit(amount) ==
    /\ ~treasury_paused
    /\ Receive(treasury_token, amount)
    /\ recorded' = recorded + amount
    /\ deposited' = deposited + amount
    /\ UNCHANGED <<withdrawn, treasury_admin, treasury_token, treasury_paused>>

\* A transfer that does not go through deposit.
TransferIn(t, amount) ==
    /\ Receive(t, amount)
    /\ UNCHANGED <<bookVars, treasury_admin, treasury_token, treasury_paused>>

withdraw(a, amount, away) ==
    /\ ~treasury_paused
    /\ a = treasury_admin
    /\ 0 < amount /\ amount <= recorded
    /\ PayOut(treasury_token, amount, away)
    /\ recorded' = recorded - amount
    /\ withdrawn' = withdrawn + amount
    /\ UNCHANGED <<deposited, treasury_admin, treasury_token, treasury_paused>>

MutDebit(t, amount) == recorded' = recorded   \* a rescue leaves the books alone
Debit(t, amount) ==
    IF t = treasury_token THEN amount <= recorded /\ recorded' = recorded - amount
    ELSE recorded' = recorded

\* A rescue, only while paused, is not logged.
rescue_tokens(a, t, amount, away) ==
    /\ a = treasury_admin
    /\ treasury_paused
    /\ 0 < amount /\ Debit(t, amount)
    /\ PayOut(t, amount, away)
    /\ UNCHANGED <<deposited, withdrawn, treasury_admin, treasury_token, treasury_paused>>

PauseTreasury(a) ==
    /\ a = treasury_admin
    /\ treasury_paused' = TRUE
    /\ UNCHANGED <<bookVars, treasury_admin, treasury_token, held>>

UnpauseTreasury(a) ==
    /\ a = treasury_admin
    /\ treasury_paused' = FALSE
    /\ UNCHANGED <<bookVars, treasury_admin, treasury_token, held>>

-----------------------------------------------------------------------------
(* Properties.                                                             *)

\* Every recorded unit is held, and came in by a logged deposit and did not leave by
\* a logged withdrawal, through rescues, plain transfers, payments to itself and new
\* initializations with the same token or another.
BookIsBacked ==
    /\ 0 <= recorded /\ recorded <= held[treasury_token]
    /\ recorded <= deposited - withdrawn
=============================================================================
