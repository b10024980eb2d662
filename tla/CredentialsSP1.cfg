SPECIFICATION Spec
CONSTANTS
    Owners <- MCOwners
    kind <- MCKind
    Ministry = "ministry"
    Agent = "agent"
    Passphrases = {p1, p2}
    NoPassphrase = none
    MaxKeys = 1
    DocumentIds = {d1, d2}
    Bodies = {b1}
    HolderDid = did
    OtherHolder = other
    Requests = {r1}
    MaxIssued = 2
    Cuts = {1, 2}
    MaxRecords = 1
    SP1 = TRUE
    PROOF_MODE = "sp1"
SYMMETRY CredentialsSymmetry
CHECK_DEADLOCK FALSE
INVARIANT IssuedIsProvable
