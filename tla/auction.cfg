SPECIFICATION AuctionSpec
CONSTANTS
    Address = {o, a, b}
    Self = Self  Treasury = Treasury  NoOne = NoOne
    Organizer = o  Admin = o
    Token = {tok}  Token0 = tok
    ContributionAmount = 2  MaxMembers = 2  TotalRounds = 2  PayoutType = "AUCTION"
    Deadline = 0  Grace = 0  Collateral = 0  PenaltyBps = 0  MaxStrikes = 1
    MinDuration = 0  MaxWithdrawal = 0  DailyLimit = 0  DaySeconds = 1
    Wallet = 4  Amounts = {2}  FeeChoices = {}
    Bips = {1, 2}  DutchConfigs <- DutchChoices
    MaxTime = 2  StrikeBound = 0
INVARIANTS WinnerKeepsTopBid DutchClearsOnce
PROPERTIES RefundsReturnDeposits
CHECK_DEADLOCK FALSE
SYMMETRY MemberSymmetry
