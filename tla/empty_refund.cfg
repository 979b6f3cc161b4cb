SPECIFICATION DisputeSpec
CONSTANTS
    Address = {o, a, b}
    Self = Self  Treasury = Treasury  NoOne = NoOne
    Organizer = o  Admin = o
    Token = {tok}  Token0 = tok
    ContributionAmount = 2  MaxMembers = 2  TotalRounds = 2  PayoutType = "RANDOM"
    Deadline = 1  Grace = 0  Collateral = 1  PenaltyBps = 0  MaxStrikes = 2
    MinDuration = 0  MaxWithdrawal = 0  DailyLimit = 0  DaySeconds = 1
    Wallet = 6  Amounts = {2}  FeeChoices = {0}
    Bips = {}  DutchConfigs = {}
    MaxTime = 2  StrikeBound = 2
PROPERTIES RefundReturnsContributions
CHECK_DEADLOCK FALSE
