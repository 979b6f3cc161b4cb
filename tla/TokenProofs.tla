----------------------------- MODULE TokenProofs -----------------------------
(***************************************************************************)
(* Balances of the governance token are never negative and add up to its   *)
(* supply, and those of frozen accounts move by clawbacks only.  Each      *)
(* group of operations that has the same effect on the balances has a      *)
(* lemma.  The swap contract's account, which holds deposits of the token, *)
(* covers them: what the token's other operations can do to it comes first *)
(* and each call of the swap contract after that.                          *)
(***************************************************************************)
EXTENDS EscrowSwap, DataTheorems

\* What the type invariant says of the balances and of what was taken.
BooksOK ==
    /\ balances \in [Holder -> Nat] /\ total \in Int
    /\ seized \in [Holder -> [clawback : Nat, burn : Nat]]

ListsOK ==
    /\ token_admin \in User /\ token_paused \in BOOLEAN
    /\ frozen \subseteq Holder /\ allowlist \subseteq Holder /\ allowlist_mode \in BOOLEAN
    /\ now \in Nat

AllowancesOK ==
    /\ DOMAIN allowances \subseteq Holder \X Holder
    /\ \A key \in DOMAIN allowances : allowances[key] \in Allowance

LEMMA TypesInParts == TokenTypeOK <=> BooksOK /\ ListsOK /\ AllowancesOK
BY DEF TokenTypeOK, BooksOK, ListsOK, AllowancesOK

-----------------------------------------------------------------------------
(* What moves tokens.                                                      *)

\* A transfer keeps balances natural and those of other accounts as they are.
LEMMA TransferMoves ==
    ASSUME BooksOK, NEW from \in Holder, NEW to \in Holder, NEW amount \in Int,
           Transferable(balances, from, to, amount),
           balances' = Moved(balances, from, to, amount),
           UNCHANGED <<total, seized>>
    PROVE  /\ BooksOK'
           /\ \A x \in frozen : x \in Holder => Untouched(x)
<1>1. /\ from \notin frozen /\ to \notin frozen
      /\ 0 < amount /\ amount <= balances[from]
  BY DEF Transferable, Movable
<1>2. balances' = [[balances EXCEPT ![from] = @ - amount] EXCEPT ![to] = @ + amount]
  BY DEF Moved
<1>3. /\ balances' \in [Holder -> Nat]
      /\ \A x \in Holder : x # from /\ x # to => balances'[x] = balances[x]
  BY <1>1, <1>2 DEF BooksOK
<1>4. BooksOK'
  BY <1>3 DEF BooksOK
<1>5. ASSUME NEW x \in frozen, x \in Holder  PROVE Untouched(x)
  <2>1. balances'[x] = balances[x] /\ seized'[x] = seized[x]
    BY <1>1, <1>3, <1>5
  <2>2. balances[x] \in Int /\ seized[x].clawback \in Int
    BY <1>5 DEF BooksOK
  <2> QED
    BY <2>1, <2>2 DEF Untouched
<1> QED
  BY <1>4, <1>5

\* A burn that is recorded as no clawback touches no frozen account.
LEMMA BurnTakes ==
    ASSUME BooksOK, NEW from \in Holder, NEW amount \in Int,
           from \notin frozen, amount > 0, BurnBalance(from, amount),
           seized' \in [Holder -> [clawback : Nat, burn : Nat]],
           \A x \in Holder : x # from => seized'[x] = seized[x]
    PROVE  /\ BooksOK'
           /\ \A x \in frozen : x \in Holder => Untouched(x)
<1>1. /\ amount <= balances[from] /\ total' = total - amount
      /\ balances' = [balances EXCEPT ![from] = @ - amount]
  BY DEF BurnBalance
<1>2. /\ balances' \in [Holder -> Nat] /\ total' \in Int
      /\ \A x \in Holder : x # from => balances'[x] = balances[x]
  BY <1>1 DEF BooksOK
<1>3. BooksOK'
  BY <1>2 DEF BooksOK
<1>4. ASSUME NEW x \in frozen, x \in Holder  PROVE Untouched(x)
  <2>1. balances'[x] = balances[x] /\ seized'[x] = seized[x]
    BY <1>2, <1>4
  <2>2. balances[x] \in Int /\ seized[x].clawback \in Int
    BY <1>4 DEF BooksOK
  <2> QED
    BY <2>1, <2>2 DEF Untouched
<1> QED
  BY <1>3, <1>4

\* Steps that move nothing.
LEMMA BooksStand ==
    ASSUME BooksOK, UNCHANGED ledgerVars
    PROVE  /\ BooksOK'
           /\ \A x \in frozen : x \in Holder => Untouched(x)
<1>1. BooksOK'
  BY DEF BooksOK, ledgerVars
<1>2. ASSUME NEW x \in frozen, x \in Holder  PROVE Untouched(x)
  <2>1. balances' = balances /\ seized' = seized
    BY DEF ledgerVars
  <2>2. balances[x] \in Int /\ seized[x].clawback \in Int
    BY <1>2 DEF BooksOK
  <2> QED
    BY <2>1, <2>2 DEF Untouched
<1> QED
  BY <1>1, <1>2

-----------------------------------------------------------------------------
(* The step, action by action.                                             *)

StepOK == TokenTypeOK' /\ \A x \in frozen : Untouched(x)

LEMMA StepInParts ==
    ASSUME TokenTypeOK, BooksOK', ListsOK', AllowancesOK',
           \A x \in frozen : x \in Holder => Untouched(x)
    PROVE  StepOK
BY TypesInParts DEF StepOK, TokenTypeOK, BooksOK, ListsOK, AllowancesOK

LEMMA ListsStand ==
    ASSUME ListsOK, UNCHANGED <<listVars, switchVars, now>>
    PROVE  ListsOK'
BY DEF ListsOK, listVars, switchVars

LEMMA AllowancesStand ==
    ASSUME AllowancesOK, UNCHANGED allowances
    PROVE  AllowancesOK'
BY DEF AllowancesOK

LEMMA ConsumptionKeepsAllowances ==
    ASSUME AllowancesOK, NEW from, NEW spender, NEW amount \in Int, amount > 0,
           ConsumeAllowance(from, spender, amount)
    PROVE  AllowancesOK'
<1> DEFINE key == <<from, spender>>
<1>1. /\ key \in DOMAIN allowances /\ amount <= allowances[key].amount
      /\ allowances' = [allowances EXCEPT ![key].amount = @ - amount]
  BY DEF ConsumeAllowance
<1>2. allowances[key] \in Allowance
  BY <1>1 DEF AllowancesOK
<1>3. DOMAIN allowances' = DOMAIN allowances
  BY <1>1
<1>4. ASSUME NEW k \in DOMAIN allowances  PROVE allowances'[k] \in Allowance
  <2>1. CASE k = key
    <3>1. allowances'[k] = [allowances[key] EXCEPT !.amount = @ - amount]
      BY <1>1, <2>1
    <3> QED
      BY <1>1, <1>2, <3>1 DEF Allowance
  <2>2. CASE k # key
    BY <1>1, <1>4, <2>2 DEF AllowancesOK
  <2> QED
    BY <2>1, <2>2
<1> QED
  BY <1>3, <1>4 DEF AllowancesOK

LEMMA TransferIsSafe ==
    ASSUME TokenTypeOK, NEW from \in Holder, NEW to \in Holder, NEW amount \in TokenAmounts,
           \/ TransferTokens(from, to, amount)
           \/ \E spender \in User : TransferFrom(spender, from, to, amount)
    PROVE  StepOK
<1>1. BooksOK /\ ListsOK /\ AllowancesOK /\ amount \in Int
  BY TypesInParts, TokenAssumption
<1>2. /\ Transferable(balances, from, to, amount)
      /\ balances' = Moved(balances, from, to, amount)
      /\ UNCHANGED <<total, seized, listVars, switchVars, now>>
  BY DEF TransferTokens, TransferFrom
<1>3. /\ BooksOK'
      /\ \A x \in frozen : x \in Holder => Untouched(x)
  BY <1>1, <1>2, TransferMoves
<1>4. ListsOK'
  BY <1>1, <1>2, ListsStand
<1>5. AllowancesOK'
  <2>1. amount > 0
    BY <1>1, <1>2 DEF Transferable
  <2>2. CASE TransferTokens(from, to, amount)
    BY <1>1, <2>2, AllowancesStand DEF TransferTokens
  <2>3. ASSUME NEW spender \in User, TransferFrom(spender, from, to, amount)
        PROVE  AllowancesOK'
    BY <1>1, <2>1, <2>3, ConsumptionKeepsAllowances DEF TransferFrom
  <2> QED
    BY <2>2, <2>3
<1> QED
  BY <1>3, <1>4, <1>5, StepInParts

LEMMA ApprovalIsSafe ==
    ASSUME TokenTypeOK, NEW owner \in User, NEW spender \in User,
           NEW amount \in TokenAmounts \cup {0}, NEW expiration \in Expiries,
           Approve(owner, spender, amount, expiration)
    PROVE  StepOK
<1> DEFINE key == <<owner, spender>>
           entry == [amount |-> amount, expiration |-> expiration]
<1>1. BooksOK /\ ListsOK /\ AllowancesOK
  BY TypesInParts
<1>2. UNCHANGED <<ledgerVars, listVars, switchVars, now>>
  BY DEF Approve
<1>3. /\ BooksOK'
      /\ \A x \in frozen : x \in Holder => Untouched(x)
  BY <1>1, <1>2, BooksStand
<1>4. ListsOK'
  BY <1>1, <1>2, ListsStand
<1>5. AllowancesOK'
  <2>1. /\ DOMAIN allowances' = DOMAIN allowances \cup {key}
        /\ \A k \in DOMAIN allowances' :
              allowances'[k] = IF k = key THEN entry ELSE allowances[k]
    BY DEF Approve
  <2>2. entry \in Allowance /\ key \in Holder \X Holder
    BY TokenAssumption DEF Approve, Allowance, Holder
  <2> HIDE DEF key, entry
  <2> QED
    BY <1>1, <2>1, <2>2 DEF AllowancesOK
<1> QED
  BY <1>3, <1>4, <1>5, StepInParts

LEMMA BurnIsSafe ==
    ASSUME TokenTypeOK, NEW from \in Holder, NEW amount \in TokenAmounts,
           \/ Burn(from, amount)
           \/ \E spender \in User : BurnFrom(spender, from, amount)
           \/ \E a \in User : AdminBurnFrom(a, from, amount)
    PROVE  StepOK
<1>1. BooksOK /\ ListsOK /\ AllowancesOK /\ amount \in Int
  BY TypesInParts, TokenAssumption
<1>2. /\ from \notin frozen /\ amount > 0 /\ BurnBalance(from, amount)
      /\ UNCHANGED <<listVars, switchVars, now>>
  BY DEF Burn, BurnFrom, AdminBurnFrom
<1>3. /\ seized' \in [Holder -> [clawback : Nat, burn : Nat]]
      /\ \A x \in Holder : x # from => seized'[x] = seized[x]
  <2>1. CASE seized' = seized
    BY <1>1, <2>1 DEF BooksOK
  <2>2. CASE seized' = [seized EXCEPT ![from].burn = @ + amount]
    <3>1. seized[from] \in [clawback : Nat, burn : Nat]
      BY <1>1 DEF BooksOK
    <3>2. [seized[from] EXCEPT !.burn = @ + amount] \in [clawback : Nat, burn : Nat]
      BY <1>1, <1>2, <3>1
    <3> QED
      BY <1>1, <2>2, <3>2 DEF BooksOK
  <2> QED
    BY <2>1, <2>2 DEF Burn, BurnFrom, AdminBurnFrom
<1>4. /\ BooksOK'
      /\ \A x \in frozen : x \in Holder => Untouched(x)
  BY <1>1, <1>2, <1>3, BurnTakes
<1>5. ListsOK'
  BY <1>1, <1>2, ListsStand
<1>6. AllowancesOK'
  <2>1. CASE UNCHANGED allowances
    BY <1>1, <2>1, AllowancesStand
  <2>2. ASSUME NEW spender \in User, ConsumeAllowance(from, spender, amount)
        PROVE  AllowancesOK'
    BY <1>1, <1>2, <2>2, ConsumptionKeepsAllowances
  <2> QED
    BY <2>1, <2>2 DEF Burn, BurnFrom, AdminBurnFrom
<1> QED
  BY <1>4, <1>5, <1>6, StepInParts

\* A clawback is recorded for the account it takes from, which may be frozen.
LEMMA ClawbackIsSafe ==
    ASSUME TokenTypeOK, NEW a \in User, NEW from \in Holder, NEW amount \in TokenAmounts,
           Clawback(a, from, amount)
    PROVE  StepOK
<1>1. BooksOK /\ ListsOK /\ AllowancesOK /\ amount \in Int
  BY TypesInParts, TokenAssumption
<1>2. /\ amount > 0 /\ amount <= balances[from] /\ total' = total - amount
      /\ balances' = [balances EXCEPT ![from] = @ - amount]
      /\ seized' = [seized EXCEPT ![from].clawback = @ + amount]
      /\ UNCHANGED <<listVars, switchVars, allowances, now>>
  BY DEF Clawback, BurnBalance
<1>3. seized[from] \in [clawback : Nat, burn : Nat]
  BY <1>1 DEF BooksOK
<1>4. [seized[from] EXCEPT !.clawback = @ + amount] \in [clawback : Nat, burn : Nat]
  BY <1>1, <1>2, <1>3
<1>5. BooksOK'
  BY <1>1, <1>2, <1>4 DEF BooksOK
<1>6. ASSUME NEW x \in frozen, x \in Holder  PROVE Untouched(x)
  <2>1. balances[x] \in Int /\ seized[x].clawback \in Int
    BY <1>1, <1>6 DEF BooksOK
  <2>2. CASE x = from
    <3>1. /\ balances'[x] = balances[x] - amount
          /\ seized'[x] = [seized[x] EXCEPT !.clawback = @ + amount]
      BY <1>1, <1>2, <1>6, <2>2 DEF BooksOK
    <3>2. seized'[x].clawback = seized[x].clawback + amount
      BY <1>3, <2>2, <3>1
    <3> QED
      BY <1>1, <2>1, <3>1, <3>2 DEF Untouched
  <2>3. CASE x # from
    BY <1>1, <1>2, <1>6, <2>1, <2>3 DEF BooksOK, Untouched
  <2> QED
    BY <2>2, <2>3
<1>7. ListsOK' /\ AllowancesOK'
  BY <1>1, <1>2, ListsStand, AllowancesStand
<1> QED
  BY <1>5, <1>6, <1>7, StepInParts

LEMMA MintIsSafe ==
    ASSUME TokenTypeOK, NEW a \in User, NEW to \in Holder, NEW amount \in TokenAmounts,
           Mint(a, to, amount)
    PROVE  StepOK
<1>1. BooksOK /\ ListsOK /\ AllowancesOK /\ amount \in Int
  BY TypesInParts, TokenAssumption
<1>2. /\ amount > 0 /\ to \notin frozen /\ total' = total + amount
      /\ balances' = [balances EXCEPT ![to] = @ + amount]
      /\ UNCHANGED <<seized, listVars, switchVars, allowances, now>>
  BY DEF Mint
<1>3. BooksOK'
  BY <1>1, <1>2 DEF BooksOK
<1>4. ASSUME NEW x \in frozen, x \in Holder  PROVE Untouched(x)
  BY <1>1, <1>2, <1>4 DEF BooksOK, Untouched
<1>5. ListsOK' /\ AllowancesOK'
  BY <1>1, <1>2, ListsStand, AllowancesStand
<1> QED
  BY <1>3, <1>4, <1>5, StepInParts

\* Freezes, the allowlist, the administrator, the pause and the clock.
LEMMA AdministrationIsSafe ==
    ASSUME TokenTypeOK, UNCHANGED <<ledgerVars, allowances>>, ListsOK'
    PROVE  StepOK
BY TypesInParts, StepInParts, BooksStand, AllowancesStand

LEMMA AdministrationKeepsLists ==
    ASSUME ListsOK,
           \/ \E a \in User, x \in Holder :
                 \/ Freeze(a, x) \/ Unfreeze(a, x)
                 \/ AddToAllowlist(a, x) \/ RemoveFromAllowlist(a, x)
           \/ \E a \in User, enabled \in BOOLEAN : SetAllowlistMode(a, enabled)
           \/ \E a \in User, successor \in User : SetTokenAdmin(a, successor)
           \/ \E a \in User : PauseToken(a) \/ UnpauseToken(a)
           \/ TokenTick
    PROVE  ListsOK' /\ UNCHANGED <<ledgerVars, allowances>>
<1>1. ASSUME NEW a \in User, NEW x \in Holder, Freeze(a, x) \/ Unfreeze(a, x)
      PROVE  ListsOK' /\ UNCHANGED <<ledgerVars, allowances>>
  BY <1>1 DEF Freeze, Unfreeze, ListsOK, switchVars
<1>2. ASSUME NEW a \in User, NEW x \in Holder, AddToAllowlist(a, x) \/ RemoveFromAllowlist(a, x)
      PROVE  ListsOK' /\ UNCHANGED <<ledgerVars, allowances>>
  BY <1>2 DEF AddToAllowlist, RemoveFromAllowlist, ListsOK, switchVars
<1>3. ASSUME NEW a \in User, NEW enabled \in BOOLEAN, SetAllowlistMode(a, enabled)
      PROVE  ListsOK' /\ UNCHANGED <<ledgerVars, allowances>>
  BY <1>3 DEF SetAllowlistMode, ListsOK, switchVars
<1>4. ASSUME NEW a \in User, NEW successor \in User, SetTokenAdmin(a, successor)
      PROVE  ListsOK' /\ UNCHANGED <<ledgerVars, allowances>>
  BY <1>4 DEF SetTokenAdmin, ListsOK, listVars
<1>5. ASSUME NEW a \in User, PauseToken(a) \/ UnpauseToken(a)
      PROVE  ListsOK' /\ UNCHANGED <<ledgerVars, allowances>>
  BY <1>5 DEF PauseToken, UnpauseToken, ListsOK, listVars
<1>6. CASE TokenTick
  BY <1>6 DEF TokenTick, ListsOK, tokenVars, listVars, switchVars
<1> QED
  BY <1>1, <1>2, <1>3, <1>4, <1>5, <1>6

LEMMA HolderStepIsSafe ==
    ASSUME TokenTypeOK, NEW u \in User, HolderNext(u)
    PROVE  StepOK
<1>1. u \in Holder
  BY DEF Holder
<1>2. ASSUME NEW to \in Holder, NEW amount \in TokenAmounts, TransferTokens(u, to, amount)
      PROVE  StepOK
  BY <1>1, <1>2, TransferIsSafe
<1>3. ASSUME NEW from \in Holder, NEW to \in Holder, NEW amount \in TokenAmounts,
             TransferFrom(u, from, to, amount)
      PROVE  StepOK
  BY <1>3, TransferIsSafe
<1>4. ASSUME NEW spender \in User, NEW amount \in TokenAmounts \cup {0},
             NEW expiration \in Expiries, Approve(u, spender, amount, expiration)
      PROVE  StepOK
  BY <1>4, ApprovalIsSafe
<1>5. ASSUME NEW amount \in TokenAmounts, Burn(u, amount)
      PROVE  StepOK
  BY <1>1, <1>5, BurnIsSafe
<1>6. ASSUME NEW from \in Holder, NEW amount \in TokenAmounts, BurnFrom(u, from, amount)
      PROVE  StepOK
  BY <1>6, BurnIsSafe
<1> QED
  BY <1>2, <1>3, <1>4, <1>5, <1>6 DEF HolderNext

LEMMA AdminStepIsSafe ==
    ASSUME TokenTypeOK, NEW a \in User, SeizureNext(a) \/ IssuerNext(a)
    PROVE  StepOK
<1>1. ASSUME NEW x \in Holder, NEW amount \in TokenAmounts,
             \/ AdminBurnFrom(a, x, amount)
             \/ Clawback(a, x, amount)
             \/ Mint(a, x, amount)
      PROVE  StepOK
  BY <1>1, BurnIsSafe, ClawbackIsSafe, MintIsSafe
<1>2. ASSUME NEW x \in Holder,
             \/ Freeze(a, x) \/ Unfreeze(a, x)
             \/ AddToAllowlist(a, x) \/ RemoveFromAllowlist(a, x)
      PROVE  StepOK
  BY <1>2, TypesInParts, AdministrationKeepsLists, AdministrationIsSafe
<1>3. ASSUME NEW enabled \in BOOLEAN, SetAllowlistMode(a, enabled)
      PROVE  StepOK
  BY <1>3, TypesInParts, AdministrationKeepsLists, AdministrationIsSafe
<1>4. ASSUME NEW successor \in User, SetTokenAdmin(a, successor)
      PROVE  StepOK
  BY <1>4, TypesInParts, AdministrationKeepsLists, AdministrationIsSafe
<1>5. CASE PauseToken(a) \/ UnpauseToken(a)
  BY <1>5, TypesInParts, AdministrationKeepsLists, AdministrationIsSafe
<1> QED
  BY <1>1, <1>2, <1>3, <1>4, <1>5 DEF SeizureNext, IssuerNext

LEMMA TokenStepIsSafe ==
    ASSUME TokenTypeOK, [TokenNext \/ TokenTick]_<<tokenVars, now>>
    PROVE  TokenTypeOK' /\ [\A x \in frozen : Untouched(x)]_<<tokenVars, now>>
<1>1. ASSUME NEW u \in User, HolderNext(u)  PROVE StepOK
  BY <1>1, HolderStepIsSafe
<1>2. ASSUME NEW u \in User, SeizureNext(u) \/ IssuerNext(u)  PROVE StepOK
  BY <1>2, AdminStepIsSafe
<1>3. ASSUME TokenTick  PROVE StepOK
  BY <1>3, TypesInParts, AdministrationKeepsLists, AdministrationIsSafe
<1>4. CASE UNCHANGED <<tokenVars, now>>
  BY <1>4 DEF tokenVars, ledgerVars, listVars, switchVars, TokenTypeOK
<1>5. ASSUME StepOK
      PROVE  TokenTypeOK' /\ [\A x \in frozen : Untouched(x)]_<<tokenVars, now>>
  BY <1>5 DEF StepOK
<1> QED
  BY <1>1, <1>2, <1>3, <1>4, <1>5 DEF TokenNext

LEMMA InitialTokenTypes == initialize => TokenTypeOK
<1> SUFFICES ASSUME initialize  PROVE TokenTypeOK
  OBVIOUS
<1>1. BooksOK
  BY DEF initialize, BooksOK
<1>2. ListsOK
  BY TokenAssumption DEF initialize, ListsOK
<1>3. AllowancesOK
  <2>1. DOMAIN allowances = {}
    BY DEF initialize
  <2> QED
    BY <2>1 DEF AllowancesOK
<1> QED
  BY <1>1, <1>2, <1>3, TypesInParts

-----------------------------------------------------------------------------
(* The supply.                                                             *)

LEMMA HoldersAreFinite == IsFiniteSet(Holder)
<1>1. IsFiniteSet({}) /\ IsFiniteSet({Escrow})
  BY FS_EmptySet, FS_Singleton
<1>2. IsFiniteSet({Escrow} \cup {Contract})
  BY <1>1, FS_Singleton, FS_Union
<1>3. {Escrow, Contract} = {Escrow} \cup {Contract}
  OBVIOUS
<1> QED
  BY <1>2, <1>3, TokenAssumption, FS_Union DEF Holder

\* What a step does to the balances, whichever entry point it is.
Pays(from, to, amount) == balances' = Moved(balances, from, to, amount) /\ UNCHANGED total
Issues(to, amount) == balances' = [balances EXCEPT ![to] = @ + amount] /\ total' = total + amount

LEMMA LedgerSteps ==
    ASSUME [TokenNext \/ TokenTick]_<<tokenVars, now>>
    PROVE  \/ \E from, to \in Holder, amount \in TokenAmounts : Pays(from, to, amount)
           \/ \E from \in Holder, amount \in TokenAmounts : BurnBalance(from, amount)
           \/ \E to \in Holder, amount \in TokenAmounts : Issues(to, amount)
           \/ UNCHANGED <<balances, total>>
<1> DEFINE Goal ==
             \/ \E from, to \in Holder, amount \in TokenAmounts : Pays(from, to, amount)
             \/ \E from \in Holder, amount \in TokenAmounts : BurnBalance(from, amount)
             \/ \E to \in Holder, amount \in TokenAmounts : Issues(to, amount)
             \/ UNCHANGED <<balances, total>>
<1>1. ASSUME NEW u \in User, HolderNext(u)  PROVE Goal
  <2>1. u \in Holder
    BY DEF Holder
  <2>2. ASSUME NEW from \in Holder, NEW to \in Holder, NEW amount \in TokenAmounts,
               TransferTokens(from, to, amount) \/ TransferFrom(u, from, to, amount)
        PROVE  Goal
    BY <2>2 DEF TransferTokens, TransferFrom, Pays
  <2>3. ASSUME NEW from \in Holder, NEW amount \in TokenAmounts,
               Burn(from, amount) \/ BurnFrom(u, from, amount)
        PROVE  Goal
    BY <2>3 DEF Burn, BurnFrom
  <2>4. ASSUME NEW spender \in User, NEW amount \in TokenAmounts \cup {0},
               NEW expiration \in Expiries, Approve(u, spender, amount, expiration)
        PROVE  Goal
    BY <2>4 DEF Approve, ledgerVars
  <2> HIDE DEF Goal
  <2> QED
    BY <1>1, <2>1, <2>2, <2>3, <2>4 DEF HolderNext
<1>2. ASSUME NEW a \in User, SeizureNext(a)  PROVE Goal
  BY <1>2 DEF SeizureNext, AdminBurnFrom, Clawback, Freeze, Unfreeze, ledgerVars
<1>3. ASSUME NEW a \in User, IssuerNext(a)  PROVE Goal
  BY <1>3 DEF IssuerNext, Mint, Issues, AddToAllowlist, RemoveFromAllowlist, SetAllowlistMode,
              SetTokenAdmin, PauseToken, UnpauseToken, ledgerVars
<1>4. ASSUME TokenTick \/ UNCHANGED <<tokenVars, now>>  PROVE Goal
  BY <1>4 DEF TokenTick, tokenVars, ledgerVars
<1> HIDE DEF Goal
<1>5. Goal
  BY <1>1, <1>2, <1>3, <1>4 DEF TokenNext
<1> QED
  BY <1>5 DEF Goal

LEMMA SupplyStep ==
    ASSUME TokenTypeOK, TokenTypeOK', SupplyIsSum, [TokenNext \/ TokenTick]_<<tokenVars, now>>
    PROVE  SupplyIsSum'
<1>1. balances \in [Holder -> Nat] /\ balances' \in [Holder -> Nat] /\ total \in Int
  BY DEF TokenTypeOK
<1>2. SumFunctionOnSet(balances, Holder) \in Int
  BY <1>1, HoldersAreFinite, SumIsInteger
<1>3. ASSUME NEW from \in Holder, NEW to \in Holder, NEW amount \in TokenAmounts,
             Pays(from, to, amount)
      PROVE  SupplyIsSum'
  <2>1. amount \in Int
    BY TokenAssumption
  <2>2. CASE from = to
    <3>1. \A x \in Holder : balances'[x] = balances[x]
      BY <1>1, <1>3, <2>1, <2>2 DEF Pays, Moved
    <3>2. SumFunctionOnSet(balances', Holder) = SumFunctionOnSet(balances, Holder)
      BY <3>1, HoldersAreFinite, SumsAgree
    <3> QED
      BY <1>3, <3>2 DEF SupplyIsSum, Pays
  <2>3. CASE from # to
    <3>1. /\ \A x \in Holder \ {from, to} : balances'[x] = balances[x]
          /\ balances'[from] = balances[from] - amount
          /\ balances'[to] = balances[to] + amount
      BY <1>1, <1>3, <2>1, <2>3 DEF Pays, Moved
    <3>2. balances'[from] + balances'[to] = balances[from] + balances[to]
      BY <1>1, <2>1, <3>1
    <3>3. SumFunctionOnSet(balances', Holder) = SumFunctionOnSet(balances, Holder)
      BY <1>1, <2>3, <3>1, <3>2, HoldersAreFinite, SumOfExchange
    <3> QED
      BY <1>3, <3>3 DEF SupplyIsSum, Pays
  <2> QED
    BY <2>2, <2>3
<1>4. ASSUME NEW x \in Holder, NEW amount \in Int,
             balances' = [balances EXCEPT ![x] = @ + amount], total' = total + amount
      PROVE  SupplyIsSum'
  <2>1. /\ \A y \in Holder \ {x} : balances'[y] = balances[y]
        /\ balances'[x] = balances[x] + amount
    BY <1>1, <1>4
  <2>2. SumFunctionOnSet(balances', Holder)
            = SumFunctionOnSet(balances, Holder) + balances'[x] - balances[x]
    BY <1>1, <2>1, HoldersAreFinite, SumOfChange
  <2>3. SumFunctionOnSet(balances', Holder) = SumFunctionOnSet(balances, Holder) + amount
    BY <1>1, <1>2, <2>1, <2>2
  <2> QED
    BY <1>4, <2>3 DEF SupplyIsSum
<1>5. ASSUME NEW from \in Holder, NEW amount \in TokenAmounts, BurnBalance(from, amount)
      PROVE  SupplyIsSum'
  <2>1. amount \in Int /\ -amount \in Int
    BY TokenAssumption
  <2>2. balances' = [balances EXCEPT ![from] = @ + (-amount)] /\ total' = total + (-amount)
    BY <1>1, <1>5, <2>1 DEF BurnBalance
  <2> QED
    BY <1>4, <2>1, <2>2
<1>6. ASSUME NEW to \in Holder, NEW amount \in TokenAmounts, Issues(to, amount)
      PROVE  SupplyIsSum'
  BY <1>4, <1>6, TokenAssumption DEF Issues
<1>7. CASE UNCHANGED <<balances, total>>
  BY <1>7 DEF SupplyIsSum
<1> QED
  BY <1>3, <1>5, <1>6, <1>7, LedgerSteps

LEMMA InitialSupply == initialize => SupplyIsSum
<1> SUFFICES ASSUME initialize  PROVE SupplyIsSum
  OBVIOUS
<1>1. \A x \in Holder : balances[x] = 0
  BY DEF initialize
<1>2. SumFunctionOnSet(balances, Holder) = 0
  BY <1>1, HoldersAreFinite, SumOfZeros
<1> QED
  BY <1>2 DEF initialize, SupplyIsSum

-----------------------------------------------------------------------------

\* In every state of the token no balance and no allowance is negative, although
\* every subtraction of the code is guarded by a check of its own.
THEOREM TokenTypeCorrect == TokenSpec => []TokenTypeOK
BY InitialTokenTypes, TokenStepIsSafe, PTL DEF TokenSpec

\* No operation of the token changes the balance of an account that is frozen but a
\* clawback from it (validate_non_frozen in every other entry point).
THEOREM FrozenFundsAreSafe == TokenSpec => FrozenFundsStay
BY TokenTypeCorrect, TokenStepIsSafe, PTL DEF TokenSpec, FrozenFundsStay

\* The supply that the contract keeps is what the accounts hold, however mints, the
\* four kinds of burn and transfers, an account's to itself included, interleave.
THEOREM SupplyIsBacked == TokenSpec => []SupplyIsSum
BY TokenTypeCorrect, InitialSupply, SupplyStep, PTL DEF TokenSpec

-----------------------------------------------------------------------------
(* What the swap contract's transfers do to its account.                   *)

Ledgers == [Token -> [Holder -> Nat]]

LEMMA BooksAreLedgers == EscrowTypeOK => Books \in Ledgers
BY DEF EscrowTypeOK, TokenTypeOK, Books, Ledgers, Token

LEMMA PaidIn ==
    ASSUME NEW B \in Ledgers, NEW t \in Token, NEW from \in User, NEW amount \in Int,
           Accepts(B, t, from, Escrow, amount)
    PROVE  /\ Paid(B, t, from, Escrow, amount) \in Ledgers
           /\ \A k \in Token : Paid(B, t, from, Escrow, amount)[k][Escrow]
                                   = B[k][Escrow] + IF k = t THEN amount ELSE 0
<1> DEFINE moved == Moved(B[t], from, Escrow, amount)
<1>1. from \in Holder /\ Escrow \in Holder /\ from # Escrow
  BY TokenAssumption DEF Holder
<1>2. 0 < amount /\ amount <= B[t][from] /\ B[t] \in [Holder -> Nat]
  BY DEF Accepts, Ledgers
<1>3. moved \in [Holder -> Nat] /\ moved[Escrow] = B[t][Escrow] + amount
  BY <1>1, <1>2 DEF Moved
<1>4. Paid(B, t, from, Escrow, amount) = [B EXCEPT ![t] = moved]
  BY DEF Paid
<1> HIDE DEF moved
<1> QED
  BY <1>1, <1>3, <1>4 DEF Ledgers

LEMMA PaidOut ==
    ASSUME NEW B \in Ledgers, NEW t \in Token, NEW to \in User, NEW amount \in Int,
           Accepts(B, t, Escrow, to, amount)
    PROVE  /\ Paid(B, t, Escrow, to, amount) \in Ledgers
           /\ \A k \in Token : Paid(B, t, Escrow, to, amount)[k][Escrow]
                                   = B[k][Escrow] - IF k = t THEN amount ELSE 0
<1> DEFINE moved == Moved(B[t], Escrow, to, amount)
<1>1. to \in Holder /\ Escrow \in Holder /\ to # Escrow
  BY TokenAssumption DEF Holder
<1>2. 0 < amount /\ amount <= B[t][Escrow] /\ B[t] \in [Holder -> Nat]
  BY DEF Accepts, Ledgers
<1>3. moved \in [Holder -> Nat] /\ moved[Escrow] = B[t][Escrow] - amount
  BY <1>1, <1>2 DEF Moved
<1>4. Paid(B, t, Escrow, to, amount) = [B EXCEPT ![t] = moved]
  BY DEF Paid
<1> HIDE DEF moved
<1> QED
  BY <1>1, <1>3, <1>4 DEF Ledgers

\* The balances that follow are those of the two books.
Becomes(B) == balances' = B["gov"] /\ coin' = B["coin"]

LEMMA BecomesBooks ==
    ASSUME NEW B \in Ledgers, Becomes(B)
    PROVE  Books' = B /\ balances' \in [Holder -> Nat] /\ coin' \in [Holder -> Nat]
BY DEF Becomes, Books, Ledgers, Token

LEMMA OneTransfer ==
    ASSUME NEW t, NEW from, NEW to, NEW amount,
           safe_transfers(<< <<t, from, to, amount>> >>)
    PROVE  /\ Accepts(Books, t, from, to, amount)
           /\ Becomes(Paid(Books, t, from, to, amount))
           /\ UNCHANGED <<total, seized, listVars, switchVars, allowances, now>>
<1> DEFINE moves == << <<t, from, to, amount>> >>
           Step(g) == [i \in 0..Len(moves) |->
                          IF i = 0 THEN Books
                          ELSE Paid(g[i - 1], moves[i][1], moves[i][2], moves[i][3], moves[i][4])]
           after == CHOOSE g : g = Step(g)
           witness == [i \in 0..1 |-> IF i = 0 THEN Books ELSE Paid(Books, t, from, to, amount)]
<1>1. /\ \A i \in 1..Len(moves) :
            Accepts(after[i - 1], moves[i][1], moves[i][2], moves[i][3], moves[i][4])
      /\ balances' = after[Len(moves)]["gov"] /\ coin' = after[Len(moves)]["coin"]
      /\ UNCHANGED <<total, seized, listVars, switchVars, allowances, now>>
  BY DEF safe_transfers
<1>2. Len(moves) = 1 /\ moves[1] = <<t, from, to, amount>>
  OBVIOUS
<1> HIDE DEF moves
<1>3. \A g : Step(g) = [i \in 0..1 |-> IF i = 0 THEN Books ELSE Paid(g[0], t, from, to, amount)]
  BY <1>2
<1> HIDE DEF Step, witness
<1>4. witness = Step(witness)
  <2>1. Step(witness) = [i \in 0..1 |-> IF i = 0 THEN Books
                                      ELSE Paid(witness[0], t, from, to, amount)]
    BY <1>3
  <2>2. witness[0] = Books
    BY DEF witness
  <2> QED
    BY <2>1, <2>2 DEF witness
<1>5. after = Step(after)
  BY <1>4
<1> HIDE DEF after
<1>6. after[0] = Books /\ after[1] = Paid(Books, t, from, to, amount)
  BY <1>3, <1>5
<1> QED
  BY <1>1, <1>2, <1>6 DEF Becomes

LEMMA TwoTransfers ==
    ASSUME NEW t, NEW from, NEW to, NEW amount, NEW t2, NEW from2, NEW to2, NEW amount2,
           safe_transfers(<< <<t, from, to, amount>>, <<t2, from2, to2, amount2>> >>)
    PROVE  \E mid : /\ Accepts(Books, t, from, to, amount)
                    /\ mid = Paid(Books, t, from, to, amount)
                    /\ Accepts(mid, t2, from2, to2, amount2)
                    /\ Becomes(Paid(mid, t2, from2, to2, amount2))
                    /\ UNCHANGED <<total, seized, listVars, switchVars, allowances, now>>
<1> DEFINE moves == << <<t, from, to, amount>>, <<t2, from2, to2, amount2>> >>
           Step(g) == [i \in 0..Len(moves) |->
                          IF i = 0 THEN Books
                          ELSE Paid(g[i - 1], moves[i][1], moves[i][2], moves[i][3], moves[i][4])]
           after == CHOOSE g : g = Step(g)
           mid == Paid(Books, t, from, to, amount)
           last == Paid(mid, t2, from2, to2, amount2)
           witness == [i \in 0..2 |-> IF i = 0 THEN Books ELSE IF i = 1 THEN mid ELSE last]
<1>1. /\ \A i \in 1..Len(moves) :
            Accepts(after[i - 1], moves[i][1], moves[i][2], moves[i][3], moves[i][4])
      /\ balances' = after[Len(moves)]["gov"] /\ coin' = after[Len(moves)]["coin"]
      /\ UNCHANGED <<total, seized, listVars, switchVars, allowances, now>>
  BY DEF safe_transfers
<1>2. /\ Len(moves) = 2
      /\ moves[1] = <<t, from, to, amount>> /\ moves[2] = <<t2, from2, to2, amount2>>
  OBVIOUS
<1> HIDE DEF moves
<1>3. \A g : Step(g) = [i \in 0..2 |-> IF i = 0 THEN Books
                                     ELSE IF i = 1 THEN Paid(g[0], t, from, to, amount)
                                     ELSE Paid(g[1], t2, from2, to2, amount2)]
  BY <1>2
<1> HIDE DEF Step, witness
<1>4. witness = Step(witness)
  <2>1. Step(witness) = [i \in 0..2 |-> IF i = 0 THEN Books
                                      ELSE IF i = 1 THEN Paid(witness[0], t, from, to, amount)
                                      ELSE Paid(witness[1], t2, from2, to2, amount2)]
    BY <1>3
  <2>2. witness[0] = Books /\ witness[1] = mid
    BY DEF witness
  <2> QED
    BY <2>1, <2>2 DEF witness
<1>5. after = Step(after)
  BY <1>4
<1> HIDE DEF after
<1>6. after[0] = Books /\ after[1] = mid /\ after[2] = last
  BY <1>3, <1>5
<1> QED
  BY <1>1, <1>2, <1>6 DEF Becomes

-----------------------------------------------------------------------------
(* What the open swaps' deposits change by.                                *)

SwapsOK == swaps \in Seq(SwapRequest)

LEMMA DepositIsNatural ==
    ASSUME NEW s \in SwapRequest, NEW t  PROVE DepositOf(s, t) \in Nat
BY DEF SwapRequest, DepositOf

LEMMA DepositsAreIntegers ==
    ASSUME SwapsOK, NEW t
    PROVE  IsFiniteSet(Swaps) /\ Deposits(t) \in Int
<1>1. IsFiniteSet(Swaps)
  <2>1. Swaps = 1..Len(swaps) /\ Len(swaps) \in Nat
    BY DEF SwapsOK, Swaps
  <2> QED
    BY <2>1, FS_Interval
<1>2. \A id \in Swaps : [i \in Swaps |-> DepositOf(swaps[i], t)][id] \in Int
  BY DepositIsNatural DEF SwapsOK, Swaps
<1> QED
  BY <1>1, <1>2, SumIsInteger DEF Deposits

LEMMA DepositsAfterCreation ==
    ASSUME SwapsOK, NEW t, NEW s \in SwapRequest, swaps' = Append(swaps, s)
    PROVE  SwapsOK' /\ Deposits(t)' = Deposits(t) + DepositOf(s, t)
<1> DEFINE f == [i \in Swaps |-> DepositOf(swaps[i], t)]
           g == [i \in Swaps' |-> DepositOf(swaps'[i], t)]
           new == Len(swaps) + 1
<1>1. /\ Swaps = 1..Len(swaps) /\ Swaps' = Swaps \cup {new} /\ new \notin Swaps
      /\ swaps'[new] = s /\ \A i \in Swaps : swaps'[i] = swaps[i]
      /\ SwapsOK'
  BY DEF SwapsOK, Swaps
<1>2. \A i \in Swaps \cup {new} : g[i] \in Int
  BY <1>1, DepositIsNatural DEF SwapsOK, Swaps
<1>3. IsFiniteSet(Swaps)
  BY DepositsAreIntegers
<1> HIDE DEF f, g, new
<1>4. SumFunctionOnSet(g, Swaps \cup {new}) = SumFunctionOnSet(g, Swaps) + g[new]
  <2>1. new \notin Swaps
    BY <1>1
  <2> QED
    BY <1>2, <1>3, <2>1, SumWith
<1>5. SumFunctionOnSet(g, Swaps) = SumFunctionOnSet(f, Swaps)
  <2>1. \A i \in Swaps : g[i] = f[i]
    BY <1>1 DEF f, g
  <2> QED
    BY <1>3, <2>1, SumsAgree
<1>6. g[new] = DepositOf(s, t)
  BY <1>1 DEF g
<1>7. Deposits(t)' = SumFunctionOnSet(g, Swaps') /\ Deposits(t) = SumFunctionOnSet(f, Swaps)
  BY DEF Deposits, f, g
<1> QED
  BY <1>1, <1>4, <1>5, <1>6, <1>7

LEMMA DepositsAfterStatus ==
    ASSUME SwapsOK, NEW t, NEW id \in Swaps,
           NEW status \in {"PENDING", "ACTIVE", "COMPLETED", "CANCELLED"}, SetStatus(id, status)
    PROVE  /\ SwapsOK'
           /\ Deposits(t)' = Deposits(t) + DepositOf([swaps[id] EXCEPT !.status = status], t)
                                - DepositOf(swaps[id], t)
<1> DEFINE f == [i \in Swaps |-> DepositOf(swaps[i], t)]
           g == [i \in Swaps' |-> DepositOf(swaps'[i], t)]
<1>1. swaps[id] \in SwapRequest /\ [swaps[id] EXCEPT !.status = status] \in SwapRequest
  <2>1. swaps[id] \in SwapRequest
    BY DEF SwapsOK, Swaps
  <2> QED
    BY <2>1 DEF SwapRequest
<1>2. /\ Swaps' = Swaps /\ SwapsOK'
      /\ swaps'[id] = [swaps[id] EXCEPT !.status = status]
      /\ \A i \in Swaps \ {id} : swaps'[i] = swaps[i]
  BY <1>1 DEF SwapsOK, Swaps, SetStatus
<1>3. /\ \A i \in Swaps : f[i] \in Int
      /\ \A i \in Swaps : g[i] \in Int
      /\ \A i \in Swaps \ {id} : g[i] = f[i]
  BY <1>2, DepositIsNatural DEF SwapsOK, Swaps
<1> HIDE DEF f, g
<1>4. SumFunctionOnSet(g, Swaps) = SumFunctionOnSet(f, Swaps) + g[id] - f[id]
  BY <1>3, DepositsAreIntegers, SumOfChange
<1>5. g[id] = DepositOf([swaps[id] EXCEPT !.status = status], t) /\ f[id] = DepositOf(swaps[id], t)
  BY <1>2 DEF f, g
<1>6. Deposits(t)' = SumFunctionOnSet(g, Swaps) /\ Deposits(t) = SumFunctionOnSet(f, Swaps)
  BY <1>2 DEF Deposits, f, g
<1> QED
  BY <1>2, <1>4, <1>5, <1>6

-----------------------------------------------------------------------------
(* The escrow covers its open swaps.  Nobody but the swap contract and the *)
(* token's administrator takes from its account, because only users give   *)
(* allowances.                                                             *)

OwnersApprove == \A key \in DOMAIN allowances : key[1] \in User
EscrowInv == EscrowTypeOK /\ OwnersApprove /\ EscrowCoversSwaps

\* What the account and the administrator's takings from it add up to.
Backing(t) == Books[t][Escrow] + TakenFromEscrow(t)

LEMMA BackingIsInteger ==
    ASSUME EscrowTypeOK, NEW t \in Token  PROVE Backing(t) \in Int
<1>1. Escrow \in Holder
  BY DEF Holder
<1>2. Books[t][Escrow] \in Int
  BY <1>1, BooksAreLedgers DEF Ledgers
<1>3. seized[Escrow].clawback \in Int /\ seized[Escrow].burn \in Int
  BY <1>1 DEF EscrowTypeOK, TokenTypeOK
<1> QED
  BY <1>2, <1>3 DEF Backing, TakenFromEscrow

\* While the administrator takes nothing, the backing moves with the account.
LEMMA BackingStep ==
    ASSUME EscrowTypeOK, NEW k \in Token, NEW d \in Int, UNCHANGED seized,
           Books'[k][Escrow] = Books[k][Escrow] + d
    PROVE  Backing(k)' = Backing(k) + d
<1>1. Escrow \in Holder
  BY DEF Holder
<1>2. Books[k][Escrow] \in Int
  BY <1>1, BooksAreLedgers DEF Ledgers
<1>3. seized[Escrow].clawback \in Int /\ seized[Escrow].burn \in Int
  BY <1>1 DEF EscrowTypeOK, TokenTypeOK
<1> QED
  BY <1>2, <1>3 DEF Backing, TakenFromEscrow

LEMMA CreationIsCovered ==
    ASSUME EscrowInv, NEW initiator \in User, NEW responder \in User, NEW t \in Token \X Token,
           NEW amount \in SwapAmounts, NEW price \in SwapAmounts, NEW time_lock \in TimeLocks,
           CreateSwap(initiator, responder, t, amount, price, time_lock)
    PROVE  EscrowInv'
<1> DEFINE s == [initiator |-> initiator, responder |-> responder,
                 token_a |-> t[1], token_b |-> t[2],
                 initiator_amount |-> amount, responder_amount |-> price,
                 time_lock |-> time_lock, status |-> "PENDING"]
           B == Paid(Books, t[1], initiator, Escrow, amount)
<1>1. /\ amount \in Int /\ price \in Int /\ time_lock \in Nat /\ t[1] \in Token /\ t[2] \in Token
      /\ amount > 0 /\ price > 0
  BY EscrowAssumption DEF CreateSwap
<1>2. s \in SwapRequest /\ swaps' = Append(swaps, s) /\ escrow_paused' = escrow_paused
  BY <1>1 DEF CreateSwap, SwapRequest
<1>3. /\ Accepts(Books, t[1], initiator, Escrow, amount) /\ Becomes(B)
      /\ UNCHANGED <<total, seized, listVars, switchVars, allowances, now>>
  BY OneTransfer DEF CreateSwap
<1>4. Books \in Ledgers /\ SwapsOK
  BY BooksAreLedgers DEF EscrowInv, EscrowTypeOK, SwapsOK
<1>5. /\ B \in Ledgers
      /\ \A k \in Token : B[k][Escrow] = Books[k][Escrow] + IF k = t[1] THEN amount ELSE 0
  BY <1>1, <1>3, <1>4, PaidIn
<1> HIDE DEF s, B
<1>6. Books' = B /\ balances' \in [Holder -> Nat] /\ coin' \in [Holder -> Nat]
  BY <1>3, <1>5, BecomesBooks
<1>7. EscrowTypeOK' /\ OwnersApprove'
  BY <1>2, <1>3, <1>4, <1>6, DepositsAfterCreation
  DEF EscrowInv, EscrowTypeOK, TokenTypeOK, OwnersApprove, listVars, switchVars, SwapsOK
<1>8. ASSUME NEW k \in Token  PROVE Deposits(k)' <= Backing(k)'
  <2>1. Deposits(k)' = Deposits(k) + DepositOf(s, k)
    BY <1>2, <1>4, DepositsAfterCreation
  <2>2. DepositOf(s, k) = IF k = t[1] THEN amount ELSE 0
    BY <1>1 DEF DepositOf, s
  <2>3. Backing(k)' = Backing(k) + IF k = t[1] THEN amount ELSE 0
    <3>1. Books'[k][Escrow] = Books[k][Escrow] + IF k = t[1] THEN amount ELSE 0
      BY <1>5, <1>6
    <3> QED
      BY <1>1, <1>3, <1>4, <3>1, BackingStep DEF EscrowInv
  <2>4. Deposits(k) <= Backing(k) /\ Deposits(k) \in Int /\ Backing(k) \in Int
    BY <1>4, BackingIsInteger, DepositsAreIntegers DEF EscrowInv, EscrowCoversSwaps, Backing
  <2> QED
    BY <1>1, <2>1, <2>2, <2>3, <2>4
<1> QED
  BY <1>7, <1>8 DEF EscrowInv, EscrowCoversSwaps, Backing

\* A call that pays out or takes in and gives a swap a new status is covered when the
\* account changes by what the swap's deposit changes by.
LEMMA StatusIsCovered ==
    ASSUME EscrowInv, NEW id \in Swaps, NEW B \in Ledgers, Becomes(B),
           NEW status \in {"PENDING", "ACTIVE", "COMPLETED", "CANCELLED"}, SetStatus(id, status),
           UNCHANGED <<total, seized, listVars, switchVars, allowances, now, escrow_paused>>,
           \A k \in Token : B[k][Escrow] = Books[k][Escrow]
               + (DepositOf([swaps[id] EXCEPT !.status = status], k) - DepositOf(swaps[id], k))
    PROVE  EscrowInv'
<1> DEFINE s == swaps[id]
           s2 == [s EXCEPT !.status = status]
           change(k) == DepositOf(s2, k) - DepositOf(s, k)
<1>1. SwapsOK /\ s \in SwapRequest /\ s2 \in SwapRequest
  <2>1. SwapsOK /\ s \in SwapRequest
    BY DEF EscrowInv, EscrowTypeOK, SwapsOK, Swaps
  <2> HIDE DEF s
  <2> QED
    BY <2>1 DEF SwapRequest
<1>2. \A k \in Token : DepositOf(s, k) \in Nat /\ DepositOf(s2, k) \in Nat
  BY <1>1, DepositIsNatural
<1>3. Books' = B /\ balances' \in [Holder -> Nat] /\ coin' \in [Holder -> Nat]
  BY BecomesBooks
<1>4. EscrowTypeOK' /\ OwnersApprove'
  BY <1>1, <1>3, DepositsAfterStatus
  DEF EscrowInv, EscrowTypeOK, TokenTypeOK, OwnersApprove, listVars, switchVars, SwapsOK
<1>5. ASSUME NEW k \in Token  PROVE Deposits(k)' <= Backing(k)'
  <2>1. Deposits(k)' = Deposits(k) + DepositOf(s2, k) - DepositOf(s, k)
    BY <1>1, DepositsAfterStatus
  <2> HIDE DEF s, s2
  <2>2. change(k) \in Int
    BY <1>2
  <2>3. Books'[k][Escrow] = Books[k][Escrow] + change(k)
    BY <1>3 DEF s, s2
  <2> HIDE DEF change
  <2>4. Backing(k)' = Backing(k) + change(k)
    BY <2>2, <2>3, BackingStep DEF EscrowInv
  <2>5. Deposits(k) <= Backing(k) /\ Deposits(k) \in Int /\ Backing(k) \in Int
    BY <1>1, BackingIsInteger, DepositsAreIntegers DEF EscrowInv, EscrowCoversSwaps, Backing
  <2> QED
    BY <1>2, <2>1, <2>4, <2>5 DEF change
<1> QED
  BY <1>4, <1>5 DEF EscrowInv, EscrowCoversSwaps, Backing

\* What a swap's parties are and name.
LEMMA PartiesOfSwaps ==
    ASSUME EscrowInv, NEW id \in Swaps
    PROVE  /\ swaps[id] \in SwapRequest
           /\ swaps[id].initiator \in User /\ swaps[id].responder \in User
           /\ swaps[id].token_a \in Token /\ swaps[id].token_b \in Token
           /\ swaps[id].initiator_amount \in Nat /\ swaps[id].responder_amount \in Nat
<1>1. swaps[id] \in SwapRequest
  BY DEF EscrowInv, EscrowTypeOK, Swaps
<1> QED
  BY <1>1 DEF SwapRequest

LEMMA AcceptanceIsCovered ==
    ASSUME EscrowInv, NEW responder \in User, NEW id \in Swaps, AcceptSwap(responder, id)
    PROVE  EscrowInv'
<1> DEFINE s == swaps[id]
           s2 == [s EXCEPT !.status = "ACTIVE"]
           B == Paid(Books, s.token_b, responder, Escrow, s.responder_amount)
<1>1. /\ s \in SwapRequest /\ s.token_b \in Token /\ s.responder_amount \in Nat
      /\ Books \in Ledgers /\ s.status = "PENDING"
  BY PartiesOfSwaps, BooksAreLedgers DEF EscrowInv, AcceptSwap
<1>2. /\ SetStatus(id, "ACTIVE") /\ escrow_paused' = escrow_paused
      /\ Accepts(Books, s.token_b, responder, Escrow, s.responder_amount) /\ Becomes(B)
      /\ UNCHANGED <<total, seized, listVars, switchVars, allowances, now>>
  BY OneTransfer DEF AcceptSwap
<1>3. /\ B \in Ledgers
      /\ \A k \in Token : B[k][Escrow] = Books[k][Escrow]
                                + IF k = s.token_b THEN s.responder_amount ELSE 0
  BY <1>1, <1>2, PaidIn
<1> HIDE DEF s, B
<1>4. \A k \in Token : DepositOf(s2, k) - DepositOf(s, k)
                           = IF k = s.token_b THEN s.responder_amount ELSE 0
  BY <1>1 DEF DepositOf, SwapRequest
<1>5. \A k \in Token : B[k][Escrow] = Books[k][Escrow] + (DepositOf(s2, k) - DepositOf(s, k))
  BY <1>3, <1>4
<1> QED
  BY <1>2, <1>3, <1>5, StatusIsCovered DEF s

\* Both deposits leave the account.
LEMMA BothPaidOut ==
    ASSUME EscrowInv, NEW id \in Swaps, swaps[id].status = "ACTIVE",
           NEW status \in {"COMPLETED", "CANCELLED"}, SetStatus(id, status),
           NEW to \in User, NEW to2 \in User, UNCHANGED escrow_paused,
           safe_transfers(<< <<swaps[id].token_a, Escrow, to, swaps[id].initiator_amount>>,
                             <<swaps[id].token_b, Escrow, to2, swaps[id].responder_amount>> >>)
    PROVE  EscrowInv'
<1> DEFINE s == swaps[id]
           s2 == [s EXCEPT !.status = status]
<1>1. /\ s \in SwapRequest /\ s.token_a \in Token /\ s.token_b \in Token
      /\ s.initiator_amount \in Nat /\ s.responder_amount \in Nat /\ Books \in Ledgers
      /\ s.status = "ACTIVE"
  BY PartiesOfSwaps, BooksAreLedgers DEF EscrowInv
<1>2. PICK mid : /\ Accepts(Books, s.token_a, Escrow, to, s.initiator_amount)
                 /\ mid = Paid(Books, s.token_a, Escrow, to, s.initiator_amount)
                 /\ Accepts(mid, s.token_b, Escrow, to2, s.responder_amount)
                 /\ Becomes(Paid(mid, s.token_b, Escrow, to2, s.responder_amount))
                 /\ UNCHANGED <<total, seized, listVars, switchVars, allowances, now>>
  BY TwoTransfers
<1> DEFINE B == Paid(mid, s.token_b, Escrow, to2, s.responder_amount)
<1>3. /\ mid \in Ledgers
      /\ \A k \in Token : mid[k][Escrow] = Books[k][Escrow]
                                - IF k = s.token_a THEN s.initiator_amount ELSE 0
  BY <1>1, <1>2, PaidOut
<1>4. /\ B \in Ledgers
      /\ \A k \in Token : B[k][Escrow] = mid[k][Escrow]
                                - IF k = s.token_b THEN s.responder_amount ELSE 0
  BY <1>1, <1>2, <1>3, PaidOut
<1>5. Becomes(B)
  BY <1>2
<1> HIDE DEF s, B
<1>6. \A k \in Token : DepositOf(s2, k) - DepositOf(s, k)
                           = - (IF k = s.token_a THEN s.initiator_amount ELSE 0)
                             - (IF k = s.token_b THEN s.responder_amount ELSE 0)
  BY <1>1 DEF DepositOf, SwapRequest
<1>7. \A k \in Token : Books[k][Escrow] \in Int
  BY <1>1 DEF Ledgers, Holder
<1>8. \A k \in Token : B[k][Escrow] = Books[k][Escrow] + (DepositOf(s2, k) - DepositOf(s, k))
  BY <1>1, <1>3, <1>4, <1>6, <1>7
<1> QED
  BY <1>2, <1>4, <1>5, <1>8, StatusIsCovered, ZenonT(60) DEF s

LEMMA CancellationIsCovered ==
    ASSUME EscrowInv, NEW caller \in User, NEW id \in Swaps, CancelSwap(caller, id)
    PROVE  EscrowInv'
<1> DEFINE s == swaps[id]
           s2 == [s EXCEPT !.status = "CANCELLED"]
           B == Paid(Books, s.token_a, Escrow, s.initiator, s.initiator_amount)
<1>1. /\ s \in SwapRequest /\ s.token_a \in Token /\ s.initiator_amount \in Nat
      /\ s.initiator \in User /\ s.responder \in User /\ Books \in Ledgers
  BY PartiesOfSwaps, BooksAreLedgers DEF EscrowInv
<1>2. /\ SetStatus(id, "CANCELLED") /\ escrow_paused' = escrow_paused
      /\ s.status \in {"PENDING", "ACTIVE"} /\ safe_transfers(Returned(s))
  BY DEF CancelSwap
<1>3. CASE s.status = "ACTIVE"
  <2>1. Returned(s) = << <<s.token_a, Escrow, s.initiator, s.initiator_amount>>,
                         <<s.token_b, Escrow, s.responder, s.responder_amount>> >>
    BY <1>3, TwoElements DEF Returned
  <2> QED
    BY <1>1, <1>2, <1>3, <2>1, BothPaidOut
<1>4. CASE s.status = "PENDING"
  <2>1. Returned(s) = << <<s.token_a, Escrow, s.initiator, s.initiator_amount>> >>
    BY <1>4 DEF Returned
  <2>2. /\ Accepts(Books, s.token_a, Escrow, s.initiator, s.initiator_amount) /\ Becomes(B)
        /\ UNCHANGED <<total, seized, listVars, switchVars, allowances, now>>
    BY <1>2, <2>1, OneTransfer
  <2>3. /\ B \in Ledgers
        /\ \A k \in Token : B[k][Escrow] = Books[k][Escrow]
                                  - IF k = s.token_a THEN s.initiator_amount ELSE 0
    BY <1>1, <2>2, PaidOut
  <2> HIDE DEF s, B
  <2>4. \A k \in Token : DepositOf(s2, k) - DepositOf(s, k)
                             = - (IF k = s.token_a THEN s.initiator_amount ELSE 0)
    BY <1>1, <1>4 DEF DepositOf, SwapRequest
  <2>5. \A k \in Token : Books[k][Escrow] \in Int
    BY <1>1 DEF Ledgers, Holder
  <2>6. \A k \in Token : B[k][Escrow] = Books[k][Escrow] + (DepositOf(s2, k) - DepositOf(s, k))
    BY <1>1, <2>3, <2>4, <2>5
  <2> QED
    BY <1>2, <2>2, <2>3, <2>6, StatusIsCovered DEF s
<1> QED
  BY <1>2, <1>3, <1>4

LEMMA SwapStepIsCovered ==
    ASSUME EscrowInv, NEW u \in User, SwapNext(u)
    PROVE  EscrowInv'
<1>1. ASSUME NEW v \in User, NEW t \in Token \X Token, NEW amount \in SwapAmounts,
             NEW price \in SwapAmounts, NEW lock \in TimeLocks,
             CreateSwap(u, v, t, amount, price, lock)
      PROVE  EscrowInv'
  BY <1>1, CreationIsCovered
<1>2. ASSUME NEW id \in Swaps, CompleteSwap(u, id)  PROVE EscrowInv'
  BY <1>2, BothPaidOut, PartiesOfSwaps DEF CompleteSwap
<1>3. ASSUME NEW id \in Swaps, AcceptSwap(u, id) \/ CancelSwap(u, id)  PROVE EscrowInv'
  BY <1>3, AcceptanceIsCovered, CancellationIsCovered
<1>4. CASE PauseEscrow(u) \/ UnpauseEscrow(u)
  BY <1>4 DEF PauseEscrow, UnpauseEscrow, EscrowInv, EscrowTypeOK, TokenTypeOK, OwnersApprove,
              EscrowCoversSwaps, Books, TakenFromEscrow, Deposits, Swaps, tokenVars, ledgerVars,
              listVars, switchVars
<1> QED
  BY <1>1, <1>2, <1>3, <1>4 DEF SwapNext

\* Nothing but the administrator's seizures takes from the swap contract's account.
LEMMA TokenStepsLeaveEscrow ==
    ASSUME EscrowTypeOK, OwnersApprove, TokenNext \/ TokenTick
    PROVE  /\ OwnersApprove'
           /\ balances[Escrow] + TakenFromEscrow("gov") <= balances'[Escrow] + TakenFromEscrow("gov")'
<1> DEFINE Gain == balances[Escrow] + TakenFromEscrow("gov")
                       <= balances'[Escrow] + TakenFromEscrow("gov")'
           Good == OwnersApprove' /\ Gain
<1>1. Escrow \in Holder /\ Escrow \notin User /\ User \subseteq Holder
  BY TokenAssumption DEF Holder
<1>2. /\ balances \in [Holder -> Nat] /\ balances[Escrow] \in Nat
      /\ seized \in [Holder -> [clawback : Nat, burn : Nat]]
      /\ seized[Escrow].clawback \in Nat /\ seized[Escrow].burn \in Nat
  BY <1>1 DEF EscrowTypeOK, TokenTypeOK
<1>3. ASSUME seized'[Escrow] = seized[Escrow], balances'[Escrow] >= balances[Escrow],
             balances'[Escrow] \in Int
      PROVE  Gain
  BY <1>2, <1>3 DEF TakenFromEscrow
<1>4. ASSUME NEW from \in User, NEW to \in Holder, NEW amount \in TokenAmounts,
             Transferable(balances, from, to, amount), balances' = Moved(balances, from, to, amount),
             UNCHANGED seized
      PROVE  Gain
  <2>1. amount \in Int /\ 0 < amount /\ from # Escrow /\ from \in Holder
    BY <1>1, <1>4, TokenAssumption DEF Transferable
  <2>2. balances'[Escrow] = IF to = Escrow THEN balances[Escrow] + amount ELSE balances[Escrow]
    BY <1>1, <1>2, <1>4, <2>1 DEF Moved
  <2> QED
    BY <1>2, <1>3, <1>4, <2>1, <2>2
<1>5. ASSUME NEW from \in User, NEW amount, BurnBalance(from, amount), UNCHANGED seized
      PROVE  Gain
  <2>1. balances'[Escrow] = balances[Escrow]
    BY <1>1, <1>2, <1>5 DEF BurnBalance
  <2> QED
    BY <1>2, <1>3, <1>5, <2>1
<1>6. ASSUME UNCHANGED <<balances, seized>>  PROVE Gain
  BY <1>2, <1>3, <1>6
<1>7. ASSUME NEW from, NEW spender, NEW amount, ConsumeAllowance(from, spender, amount)
      PROVE  OwnersApprove' /\ from \in User
  BY <1>7 DEF ConsumeAllowance, OwnersApprove
<1>8. ASSUME NEW u \in User, HolderNext(u)  PROVE Good
  <2>1. ASSUME NEW to \in Holder, NEW amount \in TokenAmounts, TransferTokens(u, to, amount)
        PROVE  Good
    BY <1>4, <2>1 DEF TransferTokens, OwnersApprove
  <2>2. ASSUME NEW from \in Holder, NEW to \in Holder, NEW amount \in TokenAmounts,
               TransferFrom(u, from, to, amount)
        PROVE  Good
    BY <1>4, <1>7, <2>2 DEF TransferFrom
  <2>3. ASSUME NEW spender \in User, NEW amount, NEW expiration, Approve(u, spender, amount, expiration)
        PROVE  Good
    <3>1. OwnersApprove'
      BY <2>3 DEF Approve, OwnersApprove
    <3> QED
      BY <1>6, <2>3, <3>1 DEF Approve, ledgerVars
  <2>4. ASSUME NEW amount \in TokenAmounts, Burn(u, amount)  PROVE Good
    BY <1>5, <2>4 DEF Burn, OwnersApprove
  <2>5. ASSUME NEW from \in Holder, NEW amount \in TokenAmounts, BurnFrom(u, from, amount)
        PROVE  Good
    BY <1>5, <1>7, <2>5 DEF BurnFrom
  <2> HIDE DEF Good
  <2> QED
    BY <1>8, <2>1, <2>2, <2>3, <2>4, <2>5 DEF HolderNext
<1>9. ASSUME NEW a \in User, SeizureNext(a)  PROVE Good
  <2>1. ASSUME NEW x \in Holder, NEW amount \in TokenAmounts, BurnBalance(x, amount),
               \/ seized' = [seized EXCEPT ![x].burn = @ + amount]
               \/ seized' = [seized EXCEPT ![x].clawback = @ + amount]
        PROVE  Gain
    <3>1. amount \in Int /\ balances[x] \in Nat /\ seized[x] \in [clawback : Nat, burn : Nat]
      BY <1>2, TokenAssumption
    <3>2. CASE x = Escrow
      <4>1. balances'[Escrow] = balances[Escrow] - amount
        BY <1>1, <1>2, <2>1, <3>2 DEF BurnBalance
      <4>2. seized'[Escrow].clawback + seized'[Escrow].burn
              = seized[Escrow].clawback + seized[Escrow].burn + amount
        BY <1>1, <1>2, <2>1, <3>1, <3>2
      <4> QED
        BY <1>2, <3>1, <4>1, <4>2 DEF TakenFromEscrow
    <3>3. CASE x # Escrow
      <4>1. balances'[Escrow] = balances[Escrow] /\ seized'[Escrow] = seized[Escrow]
        BY <1>1, <1>2, <2>1, <3>3 DEF BurnBalance
      <4> QED
        BY <1>2, <1>3, <4>1
    <3> QED
      BY <3>2, <3>3
  <2>2. ASSUME NEW x \in Holder, NEW amount \in TokenAmounts,
               AdminBurnFrom(a, x, amount) \/ Clawback(a, x, amount)
        PROVE  Good
    BY <2>1, <2>2 DEF AdminBurnFrom, Clawback, OwnersApprove
  <2>3. ASSUME NEW x \in Holder, Freeze(a, x) \/ Unfreeze(a, x)  PROVE Good
    BY <1>6, <2>3 DEF Freeze, Unfreeze, OwnersApprove, ledgerVars
  <2> HIDE DEF Good
  <2> QED
    BY <1>9, <2>2, <2>3 DEF SeizureNext
<1>10. ASSUME NEW a \in User, IssuerNext(a)  PROVE Good
  <2>1. ASSUME NEW x \in Holder, NEW amount \in TokenAmounts, Mint(a, x, amount)  PROVE Good
    <3>1. amount \in Int /\ 0 < amount
      BY <2>1, TokenAssumption DEF Mint
    <3>2. balances'[Escrow] = IF x = Escrow THEN balances[Escrow] + amount ELSE balances[Escrow]
      BY <1>1, <1>2, <2>1 DEF Mint
    <3> QED
      BY <1>2, <1>3, <2>1, <3>1, <3>2 DEF Mint, OwnersApprove
  <2>2. CASE UNCHANGED <<ledgerVars, allowances>>
    BY <1>6, <2>2 DEF OwnersApprove, ledgerVars
  <2> HIDE DEF Good, Gain
  <2> QED
    BY <1>10, <2>1, <2>2 DEF IssuerNext, AddToAllowlist, RemoveFromAllowlist, SetAllowlistMode,
                             SetTokenAdmin, PauseToken, UnpauseToken
<1>11. ASSUME TokenTick  PROVE Good
  BY <1>6, <1>11 DEF TokenTick, OwnersApprove, tokenVars, ledgerVars
<1> HIDE DEF Good
<1>12. Good
  BY <1>8, <1>9, <1>10, <1>11 DEF TokenNext
<1> QED
  BY <1>12 DEF Good

LEMMA TokenStepIsCovered ==
    ASSUME EscrowInv, TokenNext \/ TokenTick, UNCHANGED escrowVars
    PROVE  EscrowInv'
<1>1. TokenTypeOK'
  BY TokenStepIsSafe DEF EscrowInv, EscrowTypeOK
<1>2. /\ OwnersApprove'
      /\ balances[Escrow] + TakenFromEscrow("gov") <= balances'[Escrow] + TakenFromEscrow("gov")'
  BY TokenStepsLeaveEscrow DEF EscrowInv
<1>3. EscrowTypeOK'
  BY <1>1 DEF EscrowInv, EscrowTypeOK, escrowVars
<1>4. SwapsOK /\ \A k \in Token : Deposits(k)' = Deposits(k)
  BY DEF EscrowInv, EscrowTypeOK, SwapsOK, escrowVars, Deposits, Swaps
<1>5. Escrow \in Holder
  BY DEF Holder
<1>6. Deposits("gov")' <= Backing("gov")'
  <2>1. Deposits("gov") <= Backing("gov") /\ Deposits("gov") \in Int /\ Backing("gov") \in Int
    BY <1>4, BackingIsInteger, DepositsAreIntegers
    DEF EscrowInv, EscrowCoversSwaps, Backing, Token
  <2>2. balances'[Escrow] \in Int /\ TakenFromEscrow("gov")' \in Int
    BY <1>1, <1>5 DEF TokenTypeOK, TakenFromEscrow
  <2>3. /\ Backing("gov") = balances[Escrow] + TakenFromEscrow("gov")
        /\ Backing("gov")' = balances'[Escrow] + TakenFromEscrow("gov")'
    BY DEF Backing, Books, Token
  <2> QED
    BY <1>2, <1>4, <2>1, <2>2, <2>3 DEF Token
<1>7. Deposits("coin")' <= Backing("coin")'
  BY <1>4 DEF EscrowInv, EscrowCoversSwaps, Backing, Books, Token, TakenFromEscrow, escrowVars
<1> QED
  BY <1>2, <1>3, <1>6, <1>7 DEF EscrowInv, EscrowCoversSwaps, Backing, Token

LEMMA EscrowStep ==
    ASSUME EscrowInv, [EscrowNext]_allVars  PROVE EscrowInv'
<1>1. ASSUME NEW u \in User, SwapNext(u)  PROVE EscrowInv'
  BY <1>1, SwapStepIsCovered
<1>2. CASE (TokenNext \/ TokenTick) /\ UNCHANGED escrowVars
  BY <1>2, TokenStepIsCovered
<1>3. CASE UNCHANGED allVars
  BY <1>3 DEF allVars, tokenVars, escrowVars, ledgerVars, listVars, switchVars, EscrowInv,
              EscrowTypeOK, TokenTypeOK, OwnersApprove, EscrowCoversSwaps, Books, TakenFromEscrow,
              Deposits, Swaps
<1> QED
  BY <1>1, <1>2, <1>3 DEF EscrowNext

LEMMA EscrowStart == EscrowInit => EscrowInv
<1> SUFFICES ASSUME EscrowInit  PROVE EscrowInv
  OBVIOUS
<1>1. TokenTypeOK
  BY InitialTokenTypes DEF EscrowInit
<1>2. EscrowTypeOK /\ OwnersApprove
  <2>1. coin \in [Holder -> Nat]
    BY EscrowAssumption DEF EscrowInit
  <2>2. OwnersApprove
    BY DEF EscrowInit, OwnersApprove, initialize
  <2>3. swaps \in Seq(SwapRequest) /\ escrow_paused \in BOOLEAN
    BY EmptySeq DEF EscrowInit
  <2> QED
    BY <1>1, <2>1, <2>2, <2>3 DEF EscrowTypeOK
<1>3. Swaps = {}
  BY DEF EscrowInit, Swaps
<1>4. Escrow \in Holder /\ Escrow \notin User
  BY TokenAssumption DEF Holder
<1>5. ASSUME NEW t \in Token  PROVE Deposits(t) <= Books[t][Escrow] + TakenFromEscrow(t)
  <2>1. Deposits(t) = 0
    BY <1>3, SumOfNothing DEF Deposits
  <2>2. Books[t][Escrow] = 0 /\ TakenFromEscrow(t) = 0
    BY <1>4 DEF EscrowInit, initialize, Books, TakenFromEscrow, Token
  <2> QED
    BY <2>1, <2>2
<1> QED
  BY <1>2, <1>5 DEF EscrowInv, EscrowCoversSwaps

\* The escrow holds, of both tokens, what the parties of its open swaps deposited, less
\* what the token's administrator took: for every number of swaps and users, however
\* creations, acceptances, completions, cancellations and the token's own calls interleave.
THEOREM SwapsAreCovered == EscrowSpec => []EscrowCoversSwaps
<1>1. EscrowInv => EscrowCoversSwaps
  BY DEF EscrowInv
<1> QED
  BY <1>1, EscrowStart, EscrowStep, PTL DEF EscrowSpec

-----------------------------------------------------------------------------
(* What holds of the token holds beside the swap contract too, which pays  *)
(* through the same transfers as everybody.                                *)

\* The token's books hold as much together, and those of frozen accounts are the same.
SameFunds(A, B) ==
    /\ SumFunctionOnSet(B["gov"], Holder) = SumFunctionOnSet(A["gov"], Holder)
    /\ \A x \in frozen : x \in Holder => B["gov"][x] = A["gov"][x]

LEMMA PaidKeepsFunds ==
    ASSUME NEW B \in Ledgers, NEW t \in Token, NEW from \in Holder, NEW to \in Holder, from # to,
           NEW amount \in Int, Accepts(B, t, from, to, amount)
    PROVE  Paid(B, t, from, to, amount) \in Ledgers /\ SameFunds(B, Paid(B, t, from, to, amount))
<1> DEFINE moved == Moved(B[t], from, to, amount)
           C == Paid(B, t, from, to, amount)
<1>1. 0 < amount /\ amount <= B[t][from] /\ B[t] \in [Holder -> Nat]
  BY DEF Accepts, Ledgers
<1>2. /\ moved \in [Holder -> Nat]
      /\ moved[from] = B[t][from] - amount /\ moved[to] = B[t][to] + amount
      /\ \A x \in Holder \ {from, to} : moved[x] = B[t][x]
  BY <1>1 DEF Moved
<1>3. C = [B EXCEPT ![t] = moved]
  BY DEF Paid
<1> HIDE DEF moved, C
<1>4. C \in Ledgers /\ C[t] = moved /\ \A k \in Token : k # t => C[k] = B[k]
  BY <1>2, <1>3 DEF Ledgers
<1>5. CASE t = "gov"
  <2>1. moved[from] + moved[to] = B[t][from] + B[t][to]
    BY <1>1, <1>2
  <2>2. SumFunctionOnSet(moved, Holder) = SumFunctionOnSet(B[t], Holder)
    BY <1>1, <1>2, <2>1, HoldersAreFinite, SumOfExchange
  <2>3. from \notin frozen /\ to \notin frozen
    BY <1>5 DEF Accepts, Transferable, Movable
  <2> QED
    BY <1>2, <1>4, <1>5, <2>2, <2>3 DEF SameFunds, C
<1>6. CASE t # "gov"
  BY <1>4, <1>6 DEF SameFunds, Token, C
<1> QED
  BY <1>5, <1>6

LEMMA SwapKeepsFunds ==
    ASSUME EscrowInv, NEW u \in User, SwapNext(u)
    PROVE  /\ SupplyIsSum => SupplyIsSum'
           /\ \A x \in frozen : Untouched(x)
<1> DEFINE Good == (SupplyIsSum => SupplyIsSum') /\ \A x \in frozen : Untouched(x)
<1>1. /\ Escrow \in Holder /\ Escrow \notin User /\ User \subseteq Holder /\ Books \in Ledgers
      /\ frozen \subseteq Holder
      /\ balances \in [Holder -> Nat] /\ seized \in [Holder -> [clawback : Nat, burn : Nat]]
  BY TokenAssumption, BooksAreLedgers DEF Holder, EscrowInv, EscrowTypeOK, TokenTypeOK
<1>2. ASSUME NEW B \in Ledgers, SameFunds(Books, B), Becomes(B), UNCHANGED <<total, seized>>
      PROVE  Good
  <2>1. SupplyIsSum => SupplyIsSum'
    BY <1>2 DEF SupplyIsSum, SameFunds, Becomes, Books, Token
  <2>2. ASSUME NEW x \in frozen  PROVE Untouched(x)
    <3>1. x \in Holder /\ balances'[x] = balances[x] /\ seized' = seized
      BY <1>1, <1>2, <2>2 DEF SameFunds, Becomes, Books, Token
    <3>2. balances[x] \in Int /\ seized[x].clawback \in Int
      BY <1>1, <3>1
    <3> QED
      BY <3>1, <3>2 DEF Untouched
  <2> QED
    BY <2>1, <2>2
<1> HIDE DEF Good
<1>3. ASSUME NEW t \in Token, NEW from \in Holder, NEW to \in Holder, from # to, NEW amount \in Int,
             safe_transfers(<< <<t, from, to, amount>> >>)
      PROVE  Good
  BY <1>1, <1>2, <1>3, OneTransfer, PaidKeepsFunds
<1>4. ASSUME NEW t \in Token, NEW from \in Holder, NEW to \in Holder, from # to, NEW amount \in Int,
             NEW t2 \in Token, NEW to2 \in Holder, from # to2, NEW amount2 \in Int,
             safe_transfers(<< <<t, from, to, amount>>, <<t2, from, to2, amount2>> >>)
      PROVE  Good
  <2>1. PICK mid : /\ Accepts(Books, t, from, to, amount)
                   /\ mid = Paid(Books, t, from, to, amount)
                   /\ Accepts(mid, t2, from, to2, amount2)
                   /\ Becomes(Paid(mid, t2, from, to2, amount2))
                   /\ UNCHANGED <<total, seized, listVars, switchVars, allowances, now>>
    BY <1>4, TwoTransfers
  <2>2. mid \in Ledgers /\ SameFunds(Books, mid)
    BY <1>1, <1>4, <2>1, PaidKeepsFunds
  <2>3. /\ Paid(mid, t2, from, to2, amount2) \in Ledgers
        /\ SameFunds(mid, Paid(mid, t2, from, to2, amount2))
    BY <1>4, <2>1, <2>2, PaidKeepsFunds
  <2>4. SameFunds(Books, Paid(mid, t2, from, to2, amount2))
    BY <2>2, <2>3 DEF SameFunds
  <2> QED
    BY <1>2, <2>1, <2>3, <2>4
<1>5. ASSUME NEW v \in User, NEW t \in Token \X Token, NEW amount \in SwapAmounts,
             NEW price \in SwapAmounts, NEW lock \in TimeLocks,
             CreateSwap(u, v, t, amount, price, lock)
      PROVE  Good
  BY <1>1, <1>3, <1>5, EscrowAssumption DEF CreateSwap
<1>6. ASSUME NEW id \in Swaps, AcceptSwap(u, id)  PROVE Good
  BY <1>1, <1>3, <1>6, PartiesOfSwaps DEF AcceptSwap
<1>7. ASSUME NEW id \in Swaps, CompleteSwap(u, id)  PROVE Good
  <2>1. /\ swaps[id].token_a \in Token /\ swaps[id].token_b \in Token
        /\ swaps[id].initiator \in Holder /\ swaps[id].responder \in Holder
        /\ swaps[id].initiator # Escrow /\ swaps[id].responder # Escrow
        /\ swaps[id].initiator_amount \in Int /\ swaps[id].responder_amount \in Int
    BY <1>1, <1>7, PartiesOfSwaps
  <2> QED
    BY <1>1, <1>4, <1>7, <2>1 DEF CompleteSwap
<1>8. ASSUME NEW id \in Swaps, CancelSwap(u, id)  PROVE Good
  <2> DEFINE s == swaps[id]
  <2>1. /\ s.token_a \in Token /\ s.token_b \in Token /\ s.initiator \in Holder
        /\ s.responder \in Holder /\ s.initiator # Escrow /\ s.responder # Escrow
        /\ s.initiator_amount \in Int /\ s.responder_amount \in Int
        /\ safe_transfers(Returned(s))
    BY <1>1, <1>8, PartiesOfSwaps DEF CancelSwap
  <2> HIDE DEF s
  <2>2. CASE s.status = "ACTIVE"
    <3>1. Returned(s) = << <<s.token_a, Escrow, s.initiator, s.initiator_amount>>,
                           <<s.token_b, Escrow, s.responder, s.responder_amount>> >>
      BY <2>2, TwoElements DEF Returned
    <3> QED
      BY <1>1, <1>4, <2>1, <3>1
  <2>3. CASE s.status # "ACTIVE"
    <3>1. Returned(s) = << <<s.token_a, Escrow, s.initiator, s.initiator_amount>> >>
      BY <2>3 DEF Returned
    <3> QED
      BY <1>1, <1>3, <2>1, <3>1
  <2> QED
    BY <2>2, <2>3
<1>9. ASSUME PauseEscrow(u) \/ UnpauseEscrow(u)  PROVE Good
  <2>1. UNCHANGED <<balances, coin, total, seized>>
    BY <1>9 DEF PauseEscrow, UnpauseEscrow, tokenVars, ledgerVars
  <2>2. SameFunds(Books, Books) /\ Becomes(Books)
    BY <2>1 DEF SameFunds, Becomes, Books, Token
  <2> QED
    BY <1>1, <1>2, <2>1, <2>2
<1>10. Good
  BY <1>5, <1>6, <1>7, <1>8, <1>9 DEF SwapNext
<1> QED
  BY <1>10 DEF Good

LEMMA EscrowKeepsFunds ==
    ASSUME EscrowInv, EscrowInv', [EscrowNext]_allVars
    PROVE  /\ SupplyIsSum => SupplyIsSum'
           /\ [\A x \in frozen : Untouched(x)]_<<tokenVars, now>>
<1>1. TokenTypeOK /\ TokenTypeOK'
  BY DEF EscrowInv, EscrowTypeOK
<1>2. CASE TokenNext \/ TokenTick
  BY <1>1, <1>2, SupplyStep, TokenStepIsSafe
<1>3. ASSUME NEW u \in User, SwapNext(u)
      PROVE  (SupplyIsSum => SupplyIsSum') /\ \A x \in frozen : Untouched(x)
  BY <1>3, SwapKeepsFunds
<1>4. CASE UNCHANGED allVars
  BY <1>4 DEF allVars, tokenVars, ledgerVars, SupplyIsSum
<1> QED
  BY <1>2, <1>3, <1>4 DEF EscrowNext

\* The supply is backed and frozen funds stay with swaps under way: no swap creates or
\* destroys tokens, and none pays a frozen party or takes from one.
THEOREM SwapsKeepTheSupply == EscrowSpec => []SupplyIsSum
<1>1. EscrowInit => SupplyIsSum
  BY InitialSupply DEF EscrowInit
<1> QED
  BY <1>1, EscrowStart, EscrowStep, EscrowKeepsFunds, PTL DEF EscrowSpec

THEOREM SwapsKeepFrozenFunds == EscrowSpec => FrozenFundsStay
BY EscrowStart, EscrowStep, EscrowKeepsFunds, PTL DEF EscrowSpec, FrozenFundsStay
=============================================================================
