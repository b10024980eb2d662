CONSTANTS
    Submission = {s1, s2}
    Req = {r1, r2}
    Doc = {d1, d2}
    Key = {k1}
    Rev = {v1}
    MinistryKey = k1
    MaxClock = 0
    MaxRestarts = 1
    Faulty = {"broker-ministry", "broker-agent", "agent-l2", "prover", "broker"}
    MaxOutages = 1
    Null = Null
SPECIFICATION Spec
CHECK_DEADLOCK FALSE
SYMMETRY PipelineSymmetry
INVARIANTS
    OnlyApprovedSettles
    SettledOnce
    OneRecordPerDocument
    ApprovedIsRecorded
PROPERTIES
    OutcomeIsFinal
    RevocationHolds
