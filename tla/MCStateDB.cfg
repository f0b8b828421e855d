SPECIFICATION HSpec
CONSTANTS
    contract = contract
    fresh = fresh
    Addresses = {contract, fresh}
    Keys = {1}
    Values = {0, 2}
    Codes = {2}
    Nonces = {1}
    Amounts = {1}
    InitialAccounts <- MCInitialAccounts
    InitialNative <- MCInitialNative
    MaxJournal = 2
    MaxSnapshots = 2
 
PROPERTIES  CommitStoresView
CHECK_DEADLOCK FALSE
