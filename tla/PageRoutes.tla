------------------------------ MODULE PageRoutes ------------------------------
(***************************************************************************)
(* The two routes DriverPage.tsx draws for the active ride: from the       *)
(* driver to the pickup while the rider has yet to pay, and from the       *)
(* pickup to the destination.                                              *)
(*                                                                         *)
(* The ride and its status are DriverPage's, the position LocationContext's*)
(* and here either may change at any time.  A fetch of a route lives on    *)
(* when its effect is cleaned up; fetches answer in any order.  A route    *)
(* stands for what it was asked for; fetches that differ in nothing are    *)
(* one.                                                                    *)
(* Bound: MaxRouting fetches under way.                                    *)
(***************************************************************************)
EXTENDS Integers, FiniteSets

CONSTANTS
    Ride,                 \* rides the driver may be selected for
    Position,             \* positions of the driver
    None,                 \* null
    MaxRouting

RoutesAssumption == None \notin Ride \cup Position /\ MaxRouting \in Nat

VARIABLES
    activeRide,           \* DriverPage's myRide
    driverAt,             \* lat and lng of LocationContext
    approachRoute, rideRoute,
    routing               \* fetches under way

routesVars == <<activeRide, driverAt, approachRoute, rideRoute, routing>>

Status     == {"DRIVER_SELECTED", "ONCHAIN_ACCEPTED", "STARTED"}
ActiveRide == [id : Ride, status : Status]
NoRide     == [id |-> None, status |-> "none"]
Leg        == [from : Position \cup {"pickup"}, ride : Ride]
Routing    == [leg : Leg, live : BOOLEAN]

RoutesInit ==
    /\ activeRide = NoRide /\ driverAt = None
    /\ approachRoute = None /\ rideRoute = None /\ routing = {}

Approach(ride, at) == [from |-> at, ride |-> ride.id]
Trip(ride)         == [from |-> "pickup", ride |-> ride.id]

\* The rider has selected the driver, whose position is known.
Approaching(ride, at) == ride.status = "DRIVER_SELECTED" /\ at # None

\* The clean-up of the effect.
Kept(fetches) == fetches
Dropped(fetches) == {[f EXCEPT !.live = FALSE] : f \in fetches}

Fetched(legs) == {[leg |-> l, live |-> TRUE] : l \in legs}

\* The effect, with the ride and the position it now depends on.
RoutesEffect(ride, at) ==
    IF ride = NoRide
    THEN approachRoute' = None /\ rideRoute' = None /\ routing' = Dropped(routing)
    ELSE /\ UNCHANGED rideRoute
         /\ IF Approaching(ride, at)
            THEN /\ routing' = Dropped(routing) \cup Fetched({Trip(ride), Approach(ride, at)})
                 /\ UNCHANGED approachRoute
            ELSE /\ routing' = Dropped(routing) \cup Fetched({Trip(ride)})
                 /\ approachRoute' = None

-----------------------------------------------------------------------------
RideBecomes(ride) ==
    /\ ride # activeRide
    /\ activeRide' = ride
    /\ RoutesEffect(ride, driverAt)
    /\ UNCHANGED driverAt

\* The button "Locate me" asks for the position again.
Recentered(at) ==
    /\ at # driverAt
    /\ driverAt' = at
    /\ RoutesEffect(activeRide, at)
    /\ UNCHANGED activeRide

\* fetchOsrmRoute answers with a route or with null; only a live fetch is heard.
RouteAnswers(f, found) ==
    LET heard == f.live /\ found IN
    /\ routing' = routing \ {f}
    /\ rideRoute' = IF heard /\ f.leg.from = "pickup" THEN f.leg ELSE rideRoute
    /\ approachRoute' = IF heard /\ f.leg.from # "pickup" THEN f.leg ELSE approachRoute
    /\ UNCHANGED <<activeRide, driverAt>>

RoutesStep ==
    \/ \E ride \in ActiveRide \cup {NoRide} : RideBecomes(ride)
    \/ \E at \in Position : Recentered(at)
    \/ \E f \in routing, found \in BOOLEAN : RouteAnswers(f, found)

RoutesNext == RoutesStep /\ Cardinality(routing') <= MaxRouting

RoutesSpec == RoutesInit /\ [][RoutesNext]_routesVars

-----------------------------------------------------------------------------
RoutesTypeOK ==
    /\ activeRide \in ActiveRide \cup {NoRide}
    /\ driverAt \in Position \cup {None}
    /\ {approachRoute, rideRoute} \subseteq Leg \cup {None}
    /\ routing \subseteq Routing

(***************************************************************************)
(* The way to the pickup is drawn only while the driver is selected and    *)
(* not yet paid, and no route once there is no ride: whichever route       *)
(* arrives after the ride has moved on.                                    *)
(***************************************************************************)
ApproachOnlyToPickup ==
    /\ approachRoute # None => Approaching(activeRide, driverAt)
    /\ rideRoute # None => activeRide # NoRide

(***************************************************************************)
(* A route that arrives after the ride, its status or the position has     *)
(* changed changes nothing: a route only ever becomes one of the ride and  *)
(* the position of that moment, or is cleared.                             *)
(***************************************************************************)
RoutesOnlyForPresent ==
    [][/\ approachRoute' # approachRoute =>
             approachRoute' \in {None, Approach(activeRide', driverAt')}
       /\ rideRoute' # rideRoute => rideRoute' \in {None, Trip(activeRide')}
      ]_routesVars
=============================================================================
