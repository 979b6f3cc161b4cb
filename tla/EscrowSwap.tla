----------------------------- MODULE EscrowSwap -----------------------------
(***************************************************************************)
(* The escrow-swap contract (packages/escrow-swap) between the governance  *)
(* token and a plain one.  A swap that one of whose transfers the token    *)
(* contract refuses changes nothing, whichever transfer it was.  Who knows *)
(* the secret of a swap is the choice of who calls accept_swap.            *)
(***************************************************************************)
EXTENDS GovernanceToken, Sequences

CONSTANTS
    EscrowAdmin,       \* Admin
    Coins,             \* what each user holds of the plain token at the start
    SwapAmounts,       \* amounts that initiators name
    TimeLocks,         \* deadlines that initiators choose
    MaxSwaps           \* bound on the number of swaps

Token == {"gov", "coin"}

ASSUME EscrowAssumption ==
    /\ EscrowAdmin \in User /\ Coins \in Nat /\ MaxSwaps \in Nat
    /\ SwapAmounts \subseteq Int /\ TimeLocks \subseteq Nat

VARIABLES
    coin,              \* balances of the plain token
    swaps,             \* SwapRequests; a swap's id is one less than its position
    escrow_paused

escrowVars == <<swaps, escrow_paused, coin>>
allVars == <<tokenVars, escrowVars, now>>

EscrowInit ==
    /\ initialize
    /\ coin = [x \in Holder |-> IF x \in User THEN Coins ELSE 0]
    /\ swaps = <<>>
    /\ escrow_paused = FALSE

-----------------------------------------------------------------------------

\* The balances of both tokens; a transfer is refused or yields new balances.
Books == [t \in Token |-> IF t = "gov" THEN balances ELSE coin]
Accepts(books, t, from, to, amount) ==
    /\ 0 < amount /\ amount <= books[t][from]
    /\ t = "gov" => Transferable(books[t], from, to, amount)
Paid(books, t, from, to, amount) == [books EXCEPT ![t] = Moved(@, from, to, amount)]

\* Performs a sequence of transfers <<token, from, to, amount>>, all or none.
safe_transfers(moves) ==
    LET after[i \in 0..Len(moves)] ==
            IF i = 0 THEN Books
            ELSE Paid(after[i - 1], moves[i][1], moves[i][2], moves[i][3], moves[i][4])
    IN  /\ \A i \in 1..Len(moves) :
              Accepts(after[i - 1], moves[i][1], moves[i][2], moves[i][3], moves[i][4])
        /\ balances' = after[Len(moves)]["gov"]
        /\ coin' = after[Len(moves)]["coin"]
        /\ UNCHANGED <<total, seized, listVars, switchVars, allowances, now>>

Swaps == DOMAIN swaps
PartyOf(s, u) == u \in {s.initiator, s.responder}
SetStatus(id, status) == swaps' = [swaps EXCEPT ![id].status = status]

CreateSwap(initiator, responder, t, amount, price, time_lock) ==
    /\ ~escrow_paused /\ Len(swaps) < MaxSwaps
    /\ initiator # responder
    /\ amount > 0 /\ price > 0
    /\ now < time_lock
    /\ swaps' = Append(swaps, [initiator |-> initiator, responder |-> responder,
                               token_a |-> t[1], token_b |-> t[2],
                               initiator_amount |-> amount, responder_amount |-> price,
                               time_lock |-> time_lock, status |-> "PENDING"])
    /\ safe_transfers(<< <<t[1], initiator, Escrow, amount>> >>)
    /\ UNCHANGED escrow_paused

\* The caller gives the secret, which it may not have.
AcceptSwap(responder, id) ==
    /\ ~escrow_paused
    /\ swaps[id].status = "PENDING"
    /\ responder = swaps[id].responder
    /\ now < swaps[id].time_lock
    /\ SetStatus(id, "ACTIVE")
    /\ safe_transfers(<< <<swaps[id].token_b, responder, Escrow, swaps[id].responder_amount>> >>)
    /\ UNCHANGED escrow_paused

CompleteSwap(caller, id) ==
    LET s == swaps[id] IN
    /\ ~escrow_paused
    /\ s.status = "ACTIVE"
    /\ PartyOf(s, caller)
    /\ SetStatus(id, "COMPLETED")
    /\ safe_transfers(<< <<s.token_a, Escrow, s.responder, s.initiator_amount>>,
                         <<s.token_b, Escrow, s.initiator, s.responder_amount>> >>)
    /\ UNCHANGED escrow_paused

\* What goes back when a swap is cancelled: the responder's part once it is there.
MutReturned(s) ==   \* both parts, whether or not the swap was accepted
    << <<s.token_a, Escrow, s.initiator, s.initiator_amount>>,
       <<s.token_b, Escrow, s.responder, s.responder_amount>> >>
Returned(s) ==
    << <<s.token_a, Escrow, s.initiator, s.initiator_amount>> >> \o
    IF s.status = "ACTIVE" THEN << <<s.token_b, Escrow, s.responder, s.responder_amount>> >>
    ELSE <<>>

\* Neither the time lock nor the acceptance stops either party from cancelling.
CancelSwap(caller, id) ==
    /\ ~escrow_paused
    /\ swaps[id].status \in {"PENDING", "ACTIVE"}
    /\ PartyOf(swaps[id], caller)
    /\ SetStatus(id, "CANCELLED")
    /\ safe_transfers(Returned(swaps[id]))
    /\ UNCHANGED escrow_paused

PauseEscrow(a) ==
    /\ a = EscrowAdmin
    /\ escrow_paused' = TRUE
    /\ UNCHANGED <<tokenVars, swaps, coin, now>>

UnpauseEscrow(a) ==
    /\ a = EscrowAdmin
    /\ escrow_paused' = FALSE
    /\ UNCHANGED <<tokenVars, swaps, coin, now>>

-----------------------------------------------------------------------------

SwapNext(u) ==
    \/ \E v \in User, t \in Token \X Token, amount, price \in SwapAmounts, lock \in TimeLocks :
          CreateSwap(u, v, t, amount, price, lock)
    \/ \E id \in Swaps : AcceptSwap(u, id) \/ CompleteSwap(u, id) \/ CancelSwap(u, id)
    \/ PauseEscrow(u) \/ UnpauseEscrow(u)

EscrowNext ==
    \/ \E u \in User : SwapNext(u)
    \/ (TokenNext \/ TokenTick) /\ UNCHANGED escrowVars

EscrowSpec == EscrowInit /\ [][EscrowNext]_allVars

-----------------------------------------------------------------------------
(* Properties.                                                             *)

SwapRequest ==
    [initiator : User, responder : User, token_a : Token, token_b : Token,
     initiator_amount : Nat, responder_amount : Nat, time_lock : Nat,
     status : {"PENDING", "ACTIVE", "COMPLETED", "CANCELLED"}]

EscrowTypeOK ==
    /\ TokenTypeOK
    /\ coin \in [Holder -> Nat] /\ swaps \in Seq(SwapRequest) /\ escrow_paused \in BOOLEAN

\* What the parties of a swap have deposited of a token and not yet got out.
DepositOf(s, t) ==
    (IF s.token_a = t /\ s.status \in {"PENDING", "ACTIVE"} THEN s.initiator_amount ELSE 0)
    + (IF s.token_b = t /\ s.status = "ACTIVE" THEN s.responder_amount ELSE 0)

Deposits(t) == SumFunctionOnSet([id \in Swaps |-> DepositOf(swaps[id], t)], Swaps)
TakenFromEscrow(t) == IF t = "gov" THEN seized[Escrow].clawback + seized[Escrow].burn ELSE 0

\* The escrow can honour all its open swaps at once: it holds what their parties
\* deposited, less what the token's administrator took from it, however the two
\* parties' calls to complete and to cancel interleave.
EscrowCoversSwaps == \A t \in Token : Deposits(t) <= Books[t][Escrow] + TakenFromEscrow(t)
=============================================================================
