SPECIFICATION Spec
CONSTANTS
    alice = alice
    bob = bob
    carol = carol
    Traders = {alice, bob, carol}
    Liquidator = "liquidator"
    Unit = 10
    Quantities = {10, 30}
    Prices = {20, 40}
    Leverages = {1, 4}
    SettlementPrices = {0, 60}
    FundingSteps <- MCFundingSteps
    InitialMarginRatio = 2
    MaintenanceMarginRatio = 1
    LiquidatorRewardShareRate = 3
    Deposit = 60
    FundBalances = {0}
    MaxFills = 2
    MaxMoves = 1
SYMMETRY Symmetry
INVARIANT SettledInFull
CHECK_DEADLOCK FALSE
