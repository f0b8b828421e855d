SPECIFICATION Spec
CONSTANTS
    Accounts = {"alice", "bob"}
    Markets = {"inj", "btc"}
    Launched = {"inj"}
    Quote = "usdt"
    ProtocolSupply = 1
    CreatorSupply = 3
    NoticePeriod = 1
    BatchingWindow = 1
    DecScale = 2
    Deposits = {3}
    Redemptions = {2}
    Deficits = {3}
    Surpluses = {1}
    BalanceDeltas <- MCBalanceDeltas
    MaxTime = 3
    MaxShareDenoms = 2
    MaxShares = 8
    MaxSchedules = 2
    MaxMarketOps = 2
INVARIANTS FundsBacked SharesAccounted 
PROPERTIES NoDilution RedemptionsComplete
