SPECIFICATION StakingSpec
CONSTANTS
    User = {a, b}  Pool = pool
    Month = 1  Unbonding = 1  MinStake = 2
    Notices = {0}  DefaultNotice = 1
    StakeAmounts = {1, 2}  Periods = {1, 3}  Funds <- MCFunds  MaxTime = 2
INVARIANTS StakersAreListed TotalIsSum NobodyIsOwedMore
PROPERTIES TopUpKeepsWeight
SYMMETRY StakerSymmetry
