--------------------------------- MODULE Fares ---------------------------------
(***************************************************************************)
(* From the estimate RidePage.tsx shows to the sum acceptRide takes: the   *)
(* rider publishes the trip, drivers compute their fares from it anew      *)
(* (DriverPage.tsx), the rider picks one, and the backend prepares the     *)
(* payment (tx/service.py).                                                *)
(*                                                                         *)
(* Distances are in decimetres and durations in tenths of a second, as the *)
(* router gives them; the ride keeps whole metres and seconds.  Fares are  *)
(* in units of a third of 10^8 wei, so that every rate is an integer;      *)
(* binary fractions are not modelled.  When things may be done is          *)
(* modelled in BookingForm, RidePage and DriverPage.                       *)
(* Bound: one ride, and one offer of each driver.                          *)
(***************************************************************************)
EXTENDS Integers

CONSTANTS
    Driver,
    Distance, Duration,   \* what the router may answer
    None                  \* null

VARIABLES
    rideType, ceiling,    \* the rider's choices
    quoted,               \* distance and duration of the route found last
    ride,                 \* the ride published, with the estimate shown then (history)
    dialog,               \* each driver's offer dialog
    fares,                \* the fare each driver has offered
    payment               \* what the rider's wallet is asked to send

faresVars == <<rideType, ceiling, quoted, ride, dialog, fares, payment>>

RideType == {"solo", "shared"}
Quote    == [distance : Distance, duration : Duration]
Trip     == [metres : Nat, seconds : Nat, type : RideType, estimate : Nat]
Dialog   == [open : BOOLEAN, surcharge : BOOLEAN]

FaresAssumption ==
    /\ Distance \subseteq Nat /\ Duration \subseteq Nat
    /\ None \notin Nat \cup Quote \cup Trip

FaresInit ==
    /\ rideType = "solo" /\ ceiling = FALSE /\ quoted = None /\ ride = None
    /\ dialog = [d \in Driver |-> [open |-> FALSE, surcharge |-> FALSE]]
    /\ fares = [d \in Driver |-> None]
    /\ payment = None

\* Math.round of tenths.
Rounded(n) == (n + 5) \div 10

baseFare     == 24000000  \* 0.0008 ETH
perDecimetre == 1050      \* 0.00035 ETH a kilometre
perTenth     == 4000      \* 0.00008 ETH a minute

\* RidePage's estimate; a shared ride is to cost 70 %.
rawFare(q) == baseFare + perDecimetre * q.distance + perTenth * q.duration
fareEth(q, type) == IF type = "shared" THEN (7 * rawFare(q)) \div 10 ELSE rawFare(q)

\* The card "Trip Estimate".
Estimate == IF quoted = None THEN None ELSE fareEth(quoted, rideType)

computeBaseFareWithoutTime(r) == baseFare + 10 * perDecimetre * r.metres
\* DriverPage's fare, which knows nothing of shared rides.
computeBaseFareEth(r) ==
    baseFare + 10 * perDecimetre * r.metres + 10 * perTenth * r.seconds

Surcharged(fare) == (12 * fare) \div 10

-----------------------------------------------------------------------------
(***************************************************************************)
(* The rider's form.                                                       *)
(***************************************************************************)

\* The quote follows the places and the rider's position, also after publishing.
QuoteBecomes(q) ==
    /\ quoted' = q
    /\ UNCHANGED <<rideType, ceiling, ride, dialog, fares, payment>>

setRideType(type) ==
    /\ ride = None
    /\ rideType' = type
    /\ UNCHANGED <<ceiling, quoted, ride, dialog, fares, payment>>

setCeiling ==
    /\ ride = None
    /\ ceiling' = ~ ceiling
    /\ UNCHANGED <<rideType, quoted, ride, dialog, fares, payment>>

\* Neither the fare is sent (but for a tenth of it, a tip nobody reads) nor the ceiling.
publishRide ==
    /\ ride = None /\ Estimate # None
    /\ ride' = [metres |-> Rounded(quoted.distance), seconds |-> Rounded(quoted.duration),
                type |-> rideType, estimate |-> Estimate]
    /\ UNCHANGED <<rideType, ceiling, quoted, dialog, fares, payment>>

-----------------------------------------------------------------------------
(***************************************************************************)
(* The drivers' dialogs.                                                   *)
(***************************************************************************)

openOfferDialog(d) ==
    /\ ride # None /\ fares[d] = None /\ ~ dialog[d].open
    /\ dialog' = [dialog EXCEPT ![d] = [open |-> TRUE, surcharge |-> FALSE]]
    /\ UNCHANGED <<rideType, ceiling, quoted, ride, fares, payment>>

closeOfferDialog(d) ==
    /\ dialog[d].open
    /\ dialog' = [dialog EXCEPT ![d].open = FALSE]
    /\ UNCHANGED <<rideType, ceiling, quoted, ride, fares, payment>>

toggleSurcharge(d) ==
    /\ dialog[d].open
    /\ dialog' = [dialog EXCEPT ![d].surcharge = ~ @]
    /\ UNCHANGED <<rideType, ceiling, quoted, ride, fares, payment>>

submitOffer(d) ==
    LET base == computeBaseFareEth(ride) IN
    /\ dialog[d].open
    /\ fares' = [fares EXCEPT ![d] = IF dialog[d].surcharge THEN Surcharged(base) ELSE base]
    /\ dialog' = [dialog EXCEPT ![d].open = FALSE]
    /\ UNCHANGED <<rideType, ceiling, quoted, ride, payment>>

-----------------------------------------------------------------------------
(***************************************************************************)
(* The payment.                                                            *)
(***************************************************************************)

\* The list's fare is the offer's; the rider's own estimate stands in for none.
ListedFare(d) == IF fares[d] # None THEN fares[d] ELSE Estimate

\* The offer was signed without a ceiling, so there is no bond to add.
prepare_accept_ride(d) ==
    /\ fares[d] # None /\ payment = None
    /\ payment' = [driver |-> d, sum |-> fares[d]]
    /\ UNCHANGED <<rideType, ceiling, quoted, ride, dialog, fares>>

FaresNext ==
    \/ \E q \in Quote \cup {None} : QuoteBecomes(q)
    \/ \E type \in RideType : setRideType(type)
    \/ setCeiling \/ publishRide
    \/ \E d \in Driver :
          \/ openOfferDialog(d) \/ closeOfferDialog(d) \/ toggleSurcharge(d)
          \/ submitOffer(d) \/ prepare_accept_ride(d)

FaresSpec == FaresInit /\ [][FaresNext]_faresVars

-----------------------------------------------------------------------------
FaresTypeOK ==
    /\ rideType \in RideType /\ ceiling \in BOOLEAN
    /\ quoted \in Quote \cup {None}
    /\ ride \in Trip \cup {None}
    /\ dialog \in [Driver -> Dialog]
    /\ fares \in [Driver -> Nat \cup {None}]
    /\ payment \in [driver : Driver, sum : Nat] \cup {None}

\* What rounding to whole metres and seconds can make of a fare.
Slack == 5 * perDecimetre + 5 * perTenth + 2

Near(fare, other) == fare - other <= Slack /\ other - fare <= Slack

\* A sum a driver may ask of a rider who was told this estimate.
Asked(sum, estimate) == Near(sum, estimate) \/ Near((10 * sum) \div 12, estimate)

(***************************************************************************)
(* For a solo ride, what a driver asks, computed anew from the published   *)
(* ride, and what the rider's wallet is then asked to send, are within a   *)
(* rounding of the estimate the rider published with, or of that and a     *)
(* fifth, whatever the page's own estimate has become since.  A shared     *)
(* ride is left out because it is not so: the estimate is discounted       *)
(* (RidePage.tsx:90), and no driver's fare is (DriverPage.tsx:231-238).    *)
(***************************************************************************)
FareFollowsEstimate ==
    ride # None /\ ride.type = "solo" =>
        /\ \A d \in Driver : fares[d] # None => Asked(fares[d], ride.estimate)
        /\ payment # None => Asked(payment.sum, ride.estimate)
=============================================================================
