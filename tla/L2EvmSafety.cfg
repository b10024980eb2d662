SPECIFICATION Spec
CONSTANTS
    Requests = {1, 2, 3}
    Connectors = {c1, c2}
    Documents = {d1}
    None = none
CHECK_DEADLOCK FALSE
INVARIANTS
    RecordsOfExecuted
    ApprovalsAccounted
PROPERTIES
    ChainKeepsLedgerPromise
    EveryRequestEnds
