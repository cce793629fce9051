SPECIFICATION RatingSpec
CONSTANTS
    Wallet = {w1, w2}
    NoWallet = NoWallet
    RideRequest = {ride1, ride2}
    NoRequest = NoRequest
    OfferId = {}
    Handler = {}
    Rater = {r1, r2, r3}
    Stars = {1, 5}
INVARIANTS
    AverageIsMean
PROPERTIES
    RatedWhenDriven
    ImplementsLedger
    RatingEnds
CHECK_DEADLOCK FALSE
