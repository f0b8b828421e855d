SPECIFICATION Spec
CONSTANTS
    inj = inj
    usdt = usdt
    Tokens = {inj, usdt}
    Native = inj
    InitialSupply = 1
    Amounts = {1}
    Fees = {0, 1}
    SupplyCap = 2
    OutgoingTxBatchSize = 2
    AverageBlockTime = 3
    AverageEthereumBlockTime = 2
    TargetBatchTimeout = 1
    MaxTxs = 2
    MaxEvents = 3
    MaxEthHeight = 3
    MaxBlocks = 3
    MaxRedeploys = 1
INVARIANTS PoolPartition Backed MintAmountCoversPool  ExecutionFindsBatch
