SPECIFICATION Spec
CONSTANTS
    own = own
    rid = rid
    drv = drv
    oth = oth
    NoAccount = NoAccount
    Account = {own, rid, drv}
    Contract <- NoContract
    Deployer = own
    IdHash = {h1}
    DriverCandidate = {rid, drv}
    UserCandidate = {rid, drv}
    Backend = {b1}
    NewOwner = {}
    DRIVER_MIN_DEPOSIT = 2
    CEILING_BOND_PERCENT = 100
    delayThreshold = 1
    surchargePerSecond = 254
    WordSize = 256
    Fare = {2}
    Value = {2}
    Eta = {1, 255}
    Payout = {0, 3, 5}
    Stars = {5}
    MaxRides = 1
    MaxOffers = 2
    MaxBalance = 6
    MaxTime = 4
INVARIANTS
    PayoutWithinEscrow
    ExitOpen
    IdPerDriver
CHECK_DEADLOCK FALSE
