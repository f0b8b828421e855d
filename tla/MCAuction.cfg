SPECIFICATION Spec
CONSTANTS
    alice = alice
    bob = bob
    usdt = usdt
    uinj = uinj
    Accounts = {alice, bob}
    NoOne = NoOne
    Denoms = {uinj, usdt}
    INJ = uinj
    Restrictable <- MCRestrictable
    GenesisVouchers <- MCGenesisVouchers
    Funds = 12
    BidAmounts = {5, 6}
    ParamSets <- MCParamSets
    RateDen = 10
    DecScale = 2
    BlockTimes = {1, 3}
    MaxTime = 7
    MaxAccruals = 2
    MaxChanges = 1
INVARIANTS ClaimsBacked LosersPayNothing
PROPERTIES AnnouncedBasketDelivered VouchersRedeemable
