SPECIFICATION SyncSpec
CONSTANTS
    Wallet = {w1, w2}
    NoWallet = NoWallet
    RideRequest = {ride1}
    NoRequest = NoRequest
    OfferId = {o1}
    Handler = {h1}
    TxHash = {t1, t2}
    NoTx = NoTx
    Poller = {p1}
INVARIANTS
    DriverIsTheChains
PROPERTIES
    ConfirmationsKept
    AppliedOnce
SYMMETRY SyncSymmetry
CHECK_DEADLOCK FALSE
