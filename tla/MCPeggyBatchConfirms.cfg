SPECIFICATION ConfirmsSpec
CONSTANTS
    v1 = v1
    v2 = v2
    Signers = {v1, v2}
    SignedBatchesWindow = 1
    maxRecordsToClean = 1
    MaxHeight = 4
    MaxBatches = 2
SYMMETRY Symmetry
PROPERTIES BatchSignersNotJailed LateJoinersNotJailed
CHECK_DEADLOCK FALSE
