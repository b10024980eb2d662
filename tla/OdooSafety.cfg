CONSTANTS
    Requests = {r1, r2}
    Offers = {o1}
    Tokens = {t1, t2}
    OdooKey = odoo
    WalletKey = wallet
    Keys <- MCKeys
    Challenges <- MCChallenges
    NoKey = NoKey
    None = None
    MaxActions = 1
    MaxFaults = 1
SPECIFICATION Spec
SYMMETRY OdooSymmetry
CHECK_DEADLOCK FALSE
INVARIANTS
    ClearedRowKnowsOutcome
    ConfirmedRowRecoverable
    SessionsOfOperator
PROPERTIES
    OneOperationPerDeal
    OperatorIsPermanent
