CONSTANTS
    Submission = {s1}
    Req = {r1, r2}
    Doc = {d1}
    Key = {k1}
    Rev = {v1}
    MinistryKey = k1
    MaxClock = 1
    MaxRestarts = 1
    Faulty = {"broker-ministry", "broker-agent", "agent-l2", "prover", "broker"}
    MaxOutages = 1
    Null = Null
SPECIFICATION FairSpec
CHECK_DEADLOCK FALSE
PROPERTIES
    PipelineCompletes
    HistoryKept
    RequestsAnswered
