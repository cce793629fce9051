------------------------------- MODULE MCBrowser -------------------------------
(***************************************************************************)
(* Seven parts of the frontend in one run of TLC.  They share no state, so *)
(* one of them moves in each behaviour.                                    *)
(***************************************************************************)

CONSTANTS Account, NoAccount,
          Query, CurrentLocation, Place, Spot, None, MaxInFlight,
          Amount, MaxDeposit, MinDeposit, Unknown,
          Props, Nothing,
          Ride, Position, MaxRouting,
          Driver, Distance, Duration,
          MaxToasts

VARIABLES address, walletProvider, isOnSepolia, ethBalance, balanceFetches, activity
VARIABLES text, coords, search, position, quote, routeLoading, quoting, publish
VARIABLES provider, located, script, map, busy, props, markers, drawn, queued, dropped
VARIABLES driver, onChain, depositedWei, reading, registering, registrations, depositing,
          withdrawing, exact
VARIABLES activeRide, driverAt, approachRoute, rideRoute, routing
VARIABLES rideType, ceiling, quoted, ride, dialog, fares, payment
VARIABLES count, toasts, toastTimeouts, dismissed, toaster
VARIABLE focus            \* the part that moves

viewVars   == <<address, walletProvider, isOnSepolia, ethBalance, balanceFetches, activity>>
formVars   == <<text, coords, search, position, quote, routeLoading, quoting, publish>>
mapVars    == <<provider, located, script, map, busy, props, markers, drawn, queued, dropped>>
panelsVars == <<driver, onChain, depositedWei, reading, registering, registrations,
                depositing, withdrawing, exact>>
routesVars == <<activeRide, driverAt, approachRoute, rideRoute, routing>>
faresVars  == <<rideType, ceiling, quoted, ride, dialog, fares, payment>>
toastVars  == <<count, toasts, toastTimeouts, dismissed, toaster>>
vars       == <<viewVars, formVars, mapVars, panelsVars, routesVars, faresVars, toastVars,
                focus>>

View   == INSTANCE AccountViews
Form   == INSTANCE BookingForm
Map    == INSTANCE MapView
Panel  == INSTANCE DriverPanels
Routes == INSTANCE PageRoutes
Fare   == INSTANCE Fares
Notes  == INSTANCE Toasts

ASSUME BrowserAssumption ==
    /\ View!ViewsAssumption /\ Form!FormAssumption /\ Map!MapAssumption
    /\ Panel!PanelsAssumption /\ Routes!RoutesAssumption /\ Fare!FaresAssumption
    /\ Notes!ToastsAssumption

Init ==
    /\ focus \in {"view", "form", "map", "panel", "routes", "fares", "toasts"}
    /\ View!ViewsInit /\ Form!FormInit /\ Map!MapInit
    /\ Panel!PanelsInit /\ Routes!RoutesInit /\ Fare!FaresInit
    /\ Notes!ToastsInit
    /\ focus # "map" => provider = "google"

\* The parts that do not move.
Idle ==
    /\ UNCHANGED focus
    /\ focus # "view"   => UNCHANGED viewVars
    /\ focus # "form"   => UNCHANGED formVars
    /\ focus # "map"    => UNCHANGED mapVars
    /\ focus # "panel"  => UNCHANGED panelsVars
    /\ focus # "routes" => UNCHANGED routesVars
    /\ focus # "fares"  => UNCHANGED faresVars
    /\ focus # "toasts" => UNCHANGED toastVars

Next ==
    /\ \/ focus = "view"   /\ View!ViewsNext
       \/ focus = "form"   /\ Form!FormNext
       \/ focus = "map"    /\ Map!MapNext
       \/ focus = "panel"  /\ Panel!PanelsNext
       \/ focus = "routes" /\ Routes!RoutesNext
       \/ focus = "fares"  /\ Fare!FaresNext
       \/ focus = "toasts" /\ Notes!ToastsNext
    /\ Idle

Spec == Init /\ [][Next]_vars

\* The properties of the parts, under the names the modules give them.
ListedIsPresent      == View!ListedIsPresent
BookedIsNamed        == Form!BookedIsNamed
MapIsPresent         == Map!MapIsPresent
SumIsRight           == Panel!SumIsRight
ApproachOnlyToPickup == Routes!ApproachOnlyToPickup
FareFollowsEstimate  == Fare!FareFollowsEstimate
DismissedIsLeaving   == Notes!DismissedIsLeaving

\* An answer that arrives after what it was asked for has changed is not heard,
\* in any of the three effects that fetch.
OnlyForPresent ==
    View!ViewsOnlyForPresent /\ Form!QuoteOnlyForPresent /\ Routes!RoutesOnlyForPresent
=============================================================================
