SPECIFICATION GovernanceSpec
CONSTANTS
    a = a  b = b  c = c
    User = {a, b, c}  Pool = pool  GovAdmin = a
    Month = 1  Unbonding = 2  MinStake = 2
    Notices = {}  DefaultNotice = 1
    StakeAmounts = {2}  Periods = {1}  Funds <- MCFunds  MaxTime = 4
    Config0 <- MCConfig0  Configs <- MCConfigs
    Deposits = {1}  ConfigTimelock = 1  ExecutionWindow = 1  MaxProposals = 1
INVARIANTS TypeOK DelegationsAgree TalliesAreSums IndexAgrees VotesBackedByTokens
PROPERTIES ExecutionIsReviewed VotesStand
