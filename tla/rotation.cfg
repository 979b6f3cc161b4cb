SPECIFICATION RotationSpec
CONSTANTS
    Address = {a, b, c}
    Self = Self  Treasury = Treasury  NoOne = NoOne
    Organizer = a  Admin = a
    Token = {tok}  Token0 = tok
    ContributionAmount = 2  MaxMembers = 3  TotalRounds = 3  PayoutType = "FIXED"
    Deadline = 0  Grace = 0  Collateral = 1  PenaltyBps = 0  MaxStrikes = 1
    MinDuration = 0  MaxWithdrawal = 0  DailyLimit = 0  DaySeconds = 1
    Wallet = 10  Amounts = {1, 2}  FeeChoices = {0, 5000, 10000}
    Bips = {}  DutchConfigs = {}
    MaxTime = 0  StrikeBound = 0
INVARIANTS OnePayoutPerMember RoundsWithinPositions CachesAgree SettledRoundsAreClosed EscrowCovers
PROPERTIES IsRosca
CHECK_DEADLOCK FALSE
