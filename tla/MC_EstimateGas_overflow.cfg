\* int64 scaled to 22 bits so that TLC can evaluate every intermediate
\* product; bytom's consensus rates.
CONSTANTS
    W = 22
    StorageGasRate = 1
    VMGasRate = 200
    Templates <- MCLargeTemplates
SPECIFICATION Spec
\* A call returns once.
CHECK_DEADLOCK FALSE
INVARIANT EstimateIsRoundedCost
