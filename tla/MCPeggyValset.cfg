SPECIFICATION Spec
CONSTANTS
    v1 = v1
    v2 = v2
    Validators = {v1, v2}
    Powers = {1, 50}
    PowerCeiling = 1000
    SignedValsetsWindow = 1
    UnbondSlashingValsetsWindow = 1
    maxRecordsToClean = 1
    MaxHeight = 4
    MaxUnjails = 1
SYMMETRY Symmetry
INVARIANTS LatestIsRelayable LatestFollowsStaking MembersAnswer
PROPERTY SignersNotJailed
CHECK_DEADLOCK FALSE
