SPECIFICATION Spec
CONSTANTS
    d = d
    n = n
    relayer = relayer
    auction = auction
    Traders <- MCTraders
    Default <- MCDefault
    Relayer = relayer
    Auction = auction
    Coin <- MCCoin
    Prices <- MCPrices
    Quantities = {1}
    Kinds = {"postOnly", "market"}
    InitFunds <- MCInitFunds
    Rates <- MCRates
    RelayerShare = 5
    AtomicMultiplier = 2
    MaxOrders = 4
    MaxUpdates = 0
    MarketPanics = {"beside"}
    LimitPanics = FALSE
INVARIANT AvailableWithinTotal
