SPECIFICATION Spec
CONSTANTS
    Account = {a, b}
    NoAccount = NoAccount
    Query = {here, typed}
    CurrentLocation = here
    Place = {p}
    Spot = {s}
    None = None
    MaxInFlight = 2
    Amount = {1}
    MaxDeposit = 1
    MinDeposit = 1
    Unknown = Unknown
    Props = {v1, v2, v3}
    Nothing = Nothing
    Ride = {r1, r2}
    Position = {x, y}
    MaxRouting = 3
    Driver = {d1, d2}
    Distance = {12344, 12345}
    Duration = {3004, 3005}
    MaxToasts = 4
INVARIANTS
    ListedIsPresent
    BookedIsNamed
    MapIsPresent
    SumIsRight
    ApproachOnlyToPickup
    FareFollowsEstimate
    DismissedIsLeaving
PROPERTIES
    OnlyForPresent
