SPECIFICATION HistorySpec
CONSTANTS
    Wallet = {w1, w2}
    NoWallet = NoWallet
    RideRequest = {ride1, ride2}
    NoRequest = NoRequest
    OfferId = {o1, o2}
    Handler = {h1}
INVARIANTS
    SelectionAgrees
PROPERTIES
    ImplementsMatching
SYMMETRY Symmetry
CHECK_DEADLOCK FALSE
