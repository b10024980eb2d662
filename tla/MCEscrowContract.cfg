CONSTANTS
    Address = {aS, aB}
    Salt = {s1, s2}
    Nonce = {n1}
    Color = {native, other}
    Amount = {1, 2}
    SecretKey = {kC, kX}
    Memo = {m1}
    Duration = {0, 2, 6}
    Tolerance = 1
    MaxUint64 = 6
    MaxTime = 4
    Nil = Nil
SPECIFICATION ChainSpec
INVARIANTS
    ChainTypeOK
    DepositMatchesTerms
    FundsConserved
    PaidToEntitledParty
    AttestationWindow
    AlwaysResolvable
PROPERTIES
    TermsImmutable
    KeepsPromise
CHECK_DEADLOCK FALSE
