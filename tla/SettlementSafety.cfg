CONSTANTS
    Nil = Nil
    aS = aS
    aB = aB
    sS = sS
    Address <- MCAddress
    Salt <- MCSalt
    Memo <- MCMemo
    Nonce = {n1}
    Color = {native}
    Amount = {1}
    SecretKey = {kC, kX}
    Duration = {1}
    Tolerance = 1
    MaxUint64 = 9
    MaxTime = 2
    SellerWallet = aS
    BuyerWallet = aB
    SellerSalt = sS
    DealNonce = n1
    NativeColor = native
    DealAmount = 1
    LockId = {l1, l2}
    ProposeCall = proposal
    Manual = {}
    ClockSkew = 1
    MaxLockTime = 1
    MayCrash = {"seller", "buyer"}
    MaxFaults = 1
    MaxRotations = 1
CHECK_DEADLOCK FALSE
SPECIFICATION Spec
SYMMETRY LockSymmetry
INVARIANTS
    ConfirmedIsOnChain
    RejectedNeverRan
    OneLockAtATime
    SellerCanBePaid
    LockedUnderPinnedKey
