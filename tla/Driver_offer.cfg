SPECIFICATION DriverSpec
CONSTANTS
    Request = {r1}
    NoRequest = NoRequest
    MaxRides = 1
    MaxInFlight = 1
INVARIANTS
    OfferCanBeAccepted
