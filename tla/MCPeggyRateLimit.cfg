SPECIFICATION Spec
CONSTANTS
    usdt = usdt
    Tokens = {usdt}
    NoLimit = NoLimit
    Limits <- TwoLimits
    Prices = {0, 1}
    Amounts = {1, 2}
    maxRecordsToPrune = 1
    MaxHeight = 4
    MaxBatches = 2
    MaxDeposits = 2
    MaxLimitChanges = 3
INVARIANTS NetOutflowMatchesRecords RecordsAreTheFlows OutflowWithinLimit
PROPERTY LeftoversShrink
