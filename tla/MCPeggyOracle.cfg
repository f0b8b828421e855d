SPECIFICATION FairSpec
CONSTANTS
    v1 = v1
    v2 = v2
    v3 = v3
    deposit = deposit
    withdraw = withdraw
    Validators <- MCValidators
    Byzantine <- MCByzantine
    Payloads <- MCPayloads
    Heights = {1}
    PowerMaps <- MCPowerMaps
    MaxFutureClaims = 2
    MaxEvents = 2
    MaxStakingChanges = 2
    MaxRedeploys = 1
INVARIANT OneVotePerNonce
PROPERTIES DeliversEvents EventuallyApplied
