SPECIFICATION RideSpec
CONSTANTS
    Request = {r1, r2}
    OfferId = {o1, o2}
    Driver = {d1}
    NoRequest = NoRequest
    NoOffer = NoOffer
    NoDriver = NoDriver
    MaxNonce = 1
    MaxInFlight = 1
    MaxRows = 3
INVARIANTS
    PaidOnceToChosen
    AcceptedIsPaid
    OffersOfThisRide
PROPERTIES
    PageFollows
