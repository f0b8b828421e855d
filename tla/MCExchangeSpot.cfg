SPECIFICATION Spec
CONSTANTS
    d = d
    n = n
    relayer = relayer
    auction = auction
    Traders <- MCTraders
    Default <- MCDefault
    Relayer = relayer
    Auction = auction
    Coin <- MCCoin
    Prices <- MCPrices
    Quantities = {1, 2}
    Kinds = {"limit", "postOnly", "market", "atomic"}
    InitFunds <- MCInitFunds
    Rates <- MCRates
    RelayerShare = 5
    AtomicMultiplier = 2
    MaxOrders = 3
    MaxUpdates = 1
    MarketPanics = {"alone"}
    LimitPanics = TRUE
INVARIANTS HoldsMatchOrders DepositsBacked BookNotCrossed LevelsMatchBook AuctionIsOptimal 
