SPECIFICATION MCSpec
CONSTANTS
    a = a  b = b  t1 = t1
    MaxTime = 2
    Caller = {a, b}  Nobody = nobody  Treasuries = {treasury, zero}  Zero = zero
    Fees = {500, 10001}  Configs <- MCConfigs  Limits = {0, 1, 2}  Periods = {0, 2}
    TreasuryAdmins = {a}  Currency = {t1, t2}  Sums = {1, 2}  MaxIncome = 3
    Member = {m}  Club = {club, club2}  Registrar = {a}  PageSize = 2
    Impacts = {300, 1001}  Volumes = {1}  PaidRounds = {0, 1, 2, 3}  Inactivity = {60}
    Key = {k1}  NoKey = nokey  VrfCaller = {a, b}  VrfOwner = a
    Stride = 3  Places = 2  LastRound = 3  Delays = {0, 1}
    ThisTreasury = treasury
INVARIANTS QuotaHolds  HistoryIsWhole StreaksAreEarned RoundsCanBeDrawn
