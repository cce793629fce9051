SPECIFICATION StartSpec
CONSTANTS
    Request = {r1}
    NoRequest = NoRequest
    MaxRides = 1
    MaxInFlight = 1
PROPERTIES
    StartReachesTheChain
