SPECIFICATION FairSpec
CONSTANTS
    Address = {o, a, b}
    Self = Self  Treasury = Treasury  NoOne = NoOne
    Organizer = o  Admin = o
    Token = {tok}  Token0 = tok
    ContributionAmount = 2  MaxMembers = 2  TotalRounds = 2  PayoutType = "RANDOM"
    Deadline = 1  Grace = 1  Collateral = 0  PenaltyBps = 0  MaxStrikes = 3
    MinDuration = 0  MaxWithdrawal = 0  DailyLimit = 0  DaySeconds = 1
    Wallet = 10  Amounts = {2}  FeeChoices = {5000}
    Bips = {}  DutchConfigs = {}
    MaxTime = 5  StrikeBound = 2
PROPERTIES CircleCompletes
CHECK_DEADLOCK FALSE
