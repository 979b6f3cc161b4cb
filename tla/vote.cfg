SPECIFICATION VoteSpec
CONSTANTS
    Address = {o, a, b, c}
    Self = Self  Treasury = Treasury  NoOne = NoOne
    Organizer = o  Admin = o
    Token = {tok}  Token0 = tok
    ContributionAmount = 2  MaxMembers = 3  TotalRounds = 2  PayoutType = "VOTE"
    Deadline = 0  Grace = 0  Collateral = 0  PenaltyBps = 0  MaxStrikes = 1
    MinDuration = 0  MaxWithdrawal = 0  DailyLimit = 0  DaySeconds = 1
    Wallet = 6  Amounts = {2}  FeeChoices = {}
    Bips = {}  DutchConfigs = {}
    MaxTime = 0  StrikeBound = 0
INVARIANTS WinnerKeepsTopTally
CHECK_DEADLOCK FALSE
SYMMETRY MemberSymmetry
