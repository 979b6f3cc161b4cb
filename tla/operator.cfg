SPECIFICATION OperatorSpec
CONSTANTS
    Address = {o, a, b}
    Self = Self  Treasury = Treasury  NoOne = NoOne
    Organizer = o  Admin = o
    Token = {tok, tok2}  Token0 = tok
    ContributionAmount = 2  MaxMembers = 2  TotalRounds = 2  PayoutType = "FIXED"
    Deadline = 1  Grace = 0  Collateral = 7  PenaltyBps = 0  MaxStrikes = 2
    MinDuration = 0  MaxWithdrawal = 2  DailyLimit = 3  DaySeconds = 2
    Wallet = 11  Amounts = {1, 2, 3}  FeeChoices = {0, 5000}
    Bips = {}  DutchConfigs = {}
    MaxTime = 2  StrikeBound = 2
  
PROPERTIES DisputeFreezesRounds PaidPositionsReceiveNoMore PauseFreezes
CHECK_DEADLOCK FALSE
SYMMETRY PlayerSymmetry
