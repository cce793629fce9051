SPECIFICATION Spec
CONSTANTS
    own = own
    rid = rid
    drv = drv
    oth = oth
    NoAccount = NoAccount
    Account = {own, rid, drv}
    Contract = {rid, drv}
    Deployer = own
    IdHash = {h1}
    DriverCandidate = {drv}
    UserCandidate = {rid}
    Backend = {b1, b2}
    NewOwner = {drv, NoAccount}
    DRIVER_MIN_DEPOSIT = 2
    CEILING_BOND_PERCENT = 100
    delayThreshold = 0
    surchargePerSecond = 1
    WordSize = 256
    Fare = {2}
    Value = {2}
    Eta = {1}
    Payout = {0, 3}
    Stars = {5}
    MaxRides = 2
    MaxOffers = 2
    MaxBalance = 8
    MaxTime = 0
INVARIANTS
    Solvent
    EveryRideSigned
    BusyIsStaked
    RatingsAddUp
PROPERTIES
    ImplementsEscrow
CHECK_DEADLOCK FALSE
