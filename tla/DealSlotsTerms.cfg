SPECIFICATION Spec
CONSTANTS
    MaxDeal = 2
    MaxFaults = 0
CHECK_DEADLOCK FALSE
INVARIANT SubmittedTermsAreSigned
