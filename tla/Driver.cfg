SPECIFICATION DriverSpec
CONSTANTS
    Request = {r1, r2}
    NoRequest = NoRequest
    MaxRides = 2
    MaxInFlight = 1
INVARIANTS
    StartedIsStarted
    NoRidesWhileBusy
PROPERTIES
    DriverSees
