SPECIFICATION MCSpec
CONSTANTS
    a = a  b = b
    User = {a, b}  Escrow = escrow  Contract = contract  TokenAdmin0 = a
    TokenAmounts = {1, 2}  Expiries = {0, 1}  MaxSupply = 3  MaxTime = 2
    EscrowAdmin = b  Coins = 2  SwapAmounts = {1, 2}  TimeLocks = {1}  MaxSwaps = 2
INVARIANTS SupplyIsSum EscrowCoversSwaps
PROPERTIES FrozenFundsStay
