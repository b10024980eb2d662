SPECIFICATION Spec
CONSTANTS
    MaxDeal = 3
    MaxFaults = 2
CHECK_DEADLOCK FALSE
PROPERTY AttestedIsClaimed
