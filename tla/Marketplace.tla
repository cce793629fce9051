----------------------------- MODULE Marketplace -----------------------------
(***************************************************************************)
(* backend/app/marketplace, and the two writers of ride_requests outside   *)
(* it, in backend/app/location and backend/app/chain_sync: riders post     *)
(* ride requests, drivers make offers, the rider selects one, and events   *)
(* of the chain report what became of the ride.                            *)
(*                                                                         *)
(* A method that runs in a transaction on the ride's row (FOR UPDATE) is   *)
(* one action; a request that is refused, or finds its work done, is no    *)
(* step.  create_offer has no transaction: each of its statements is a     *)
(* step, and other requests run in between.                                *)
(*                                                                         *)
(* Abstracted: coordinates, fares, tips, signatures, timestamps, the       *)
(* inserts into users, and the GPS positions but for whether one triggers  *)
(* the automatic completion.                                               *)
(***************************************************************************)
EXTENDS Integers, FiniteSets

CONSTANTS
    Wallet,               \* wallets with a session
    NoWallet,             \* NULL
    RideRequest,          \* ids of the ride requests that may be posted
    NoRequest,
    OfferId,              \* ids of the offers that may be made
    Handler               \* bound: create_offer requests in progress at a time

ASSUME MarketAssumption == NoWallet \notin Wallet /\ NoRequest \notin RideRequest

VARIABLES
    ride_requests,
    driver_offers,
    posting               \* where each create_offer request is

marketVars == <<ride_requests, driver_offers, posting>>

ACTIVE_DRIVER_RIDE_STATUSES == {"DRIVER_SELECTED", "ONCHAIN_ACCEPTED", "STARTED"}
COMPLETABLE_RIDE_STATUSES   == ACTIVE_DRIVER_RIDE_STATUSES
CANCELLABLE_STATUSES        == {"OPEN"} \cup ACTIVE_DRIVER_RIDE_STATUSES
DISPUTABLE_STATUSES         == {"STARTED"}
AUTO_COMPLETE_STATUSES      == {"STARTED", "ONCHAIN_ACCEPTED"}

\* The statuses an event of the chain may report.
ReportedStatus == {"ONCHAIN_ACCEPTED", "STARTED", "COMPLETED", "CANCELLED", "DISPUTED"}

\* "Absent" is the status of a row that has not been inserted.
RideStatus  == CANCELLABLE_STATUSES \cup {"Absent", "COMPLETED", "CANCELLED", "DISPUTED"}
OfferStatus == {"Absent", "PENDING", "SELECTED", "REJECTED"}

NoRide  == [rider |-> NoWallet, driver |-> NoWallet, status |-> "Absent"]
NoOffer == [ride |-> NoRequest, driver |-> NoWallet, status |-> "Absent"]

RideRow  == {NoRide} \cup [rider : Wallet, driver : Wallet \cup {NoWallet},
                           status : RideStatus \ {"Absent"}]
OfferRow == {NoOffer} \cup [ride : RideRequest, driver : Wallet,
                            status : OfferStatus \ {"Absent"}]

\* A create_offer request and the statement it executes next.
Idle    == [ride |-> NoRequest, driver |-> NoWallet, next |-> "ride"]
Posting == {Idle} \cup [ride : RideRequest, driver : Wallet, next : {"duplicates", "insert"}]

MarketInit ==
    /\ ride_requests = [id \in RideRequest |-> NoRide]
    /\ driver_offers = [o \in OfferId |-> NoOffer]
    /\ posting = [h \in Handler |-> Idle]

-----------------------------------------------------------------------------
SetRideStatus(id, status) ==
    ride_requests' = [ride_requests EXCEPT ![id].status = status]

Party(a, ride) == a = ride.rider \/ a = ride.driver

create_ride(a, id) ==
    /\ ride_requests[id].status = "Absent"
    /\ ride_requests' = [ride_requests EXCEPT
           ![id] = [rider |-> a, driver |-> NoWallet, status |-> "OPEN"]]
    /\ UNCHANGED <<driver_offers, posting>>

(***************************************************************************)
(* create_offer, statement by statement.                                   *)
(***************************************************************************)

ReadRide(h, d, id) ==
    /\ posting[h] = Idle
    /\ ride_requests[id].status = "OPEN"
    /\ posting' = [posting EXCEPT ![h] = [ride |-> id, driver |-> d, next |-> "duplicates"]]
    /\ UNCHANGED <<ride_requests, driver_offers>>

HasPending(id, d) ==
    \E o \in OfferId : driver_offers[o] = [ride |-> id, driver |-> d, status |-> "PENDING"]

ReadDuplicates(h) ==
    /\ posting[h].next = "duplicates"
    /\ posting' = [posting EXCEPT ![h] =
           IF HasPending(@.ride, @.driver) THEN Idle ELSE [@ EXCEPT !.next = "insert"]]
    /\ UNCHANGED <<ride_requests, driver_offers>>

InsertOffer(h, o) ==
    /\ posting[h].next = "insert"
    /\ driver_offers[o].status = "Absent"
    /\ driver_offers' = [driver_offers EXCEPT
           ![o] = [ride |-> posting[h].ride, driver |-> posting[h].driver, status |-> "PENDING"]]
    /\ posting' = [posting EXCEPT ![h] = Idle]
    /\ UNCHANGED ride_requests

\* The process stops: the requests in progress are gone, the rows stay.
Restart ==
    /\ posting' = [h \in Handler |-> Idle]
    /\ UNCHANGED <<ride_requests, driver_offers>>

(***************************************************************************)
(* Transactions on one ride.                                               *)
(***************************************************************************)

SelectableAgain(ride) == ride.status \in {"OPEN", "DRIVER_SELECTED"}
Selectable(ride) == ride.status = "OPEN"

\* What the offers of ride id become when offer o is selected.
Decided(o, id) ==
    [x \in OfferId |->
        IF driver_offers[x].ride = id /\ driver_offers[x].status = "PENDING"
        THEN [driver_offers[x] EXCEPT !.status = IF x = o THEN "SELECTED" ELSE "REJECTED"]
        ELSE driver_offers[x]]

select_driver(a, id, o) ==
    /\ ride_requests[id].rider = a
    /\ Selectable(ride_requests[id])
    /\ driver_offers[o].ride = id
    /\ driver_offers[o].status = "PENDING"
    /\ driver_offers' = Decided(o, id)
    /\ ride_requests' = [ride_requests EXCEPT
           ![id].status = "DRIVER_SELECTED", ![id].driver = driver_offers[o].driver]
    /\ UNCHANGED posting

Completable(ride) == ride.status \in COMPLETABLE_RIDE_STATUSES

complete_ride(a, id) ==
    /\ ride_requests[id].driver = a
    /\ Completable(ride_requests[id])
    /\ SetRideStatus(id, "COMPLETED")
    /\ UNCHANGED <<driver_offers, posting>>

onchain_accept(a, id) ==
    /\ ride_requests[id].rider = a
    /\ ride_requests[id].status = "DRIVER_SELECTED"
    /\ SetRideStatus(id, "ONCHAIN_ACCEPTED")
    /\ UNCHANGED <<driver_offers, posting>>

CancellableFinished(ride) == ride.status \notin {"Absent", "CANCELLED"}
Cancellable(ride) == ride.status \in CANCELLABLE_STATUSES

\* Neither the offers nor the ride on the chain are touched.
cancel_ride(a, id) ==
    /\ Cancellable(ride_requests[id])
    /\ Party(a, ride_requests[id])
    /\ SetRideStatus(id, "CANCELLED")
    /\ UNCHANGED <<driver_offers, posting>>

dispute_ride(a, id) ==
    /\ Party(a, ride_requests[id])
    /\ ride_requests[id].status \in DISPUTABLE_STATUSES
    /\ SetRideStatus(id, "DISPUTED")
    /\ UNCHANGED <<driver_offers, posting>>

\* A position near the drop-off at walking speed completes the ride.
add_location(a, id) ==
    /\ ride_requests[id].driver = a
    /\ ride_requests[id].status \in AUTO_COMPLETE_STATUSES
    /\ SetRideStatus(id, "COMPLETED")
    /\ UNCHANGED <<driver_offers, posting>>

(***************************************************************************)
(* The webhook of chain_sync: UPDATE ... WHERE id, whatever the status.    *)
(***************************************************************************)

\* COALESCE: the driver stays unless the event names one.
ReportedBlank(row, status, d) ==
    [row EXCEPT !.status = status, !.driver = d]
Reported(row, status, d) ==
    [row EXCEPT !.status = status, !.driver = IF d = NoWallet THEN @ ELSE d]

apply_ride_state_from_event(id, status, d) ==
    /\ ride_requests[id].status # "Absent"
    /\ ride_requests' = [ride_requests EXCEPT ![id] = Reported(@, status, d)]
    /\ UNCHANGED <<driver_offers, posting>>

-----------------------------------------------------------------------------
Offering ==
    \E h \in Handler :
        \/ \E d \in Wallet, id \in RideRequest : ReadRide(h, d, id)
        \/ ReadDuplicates(h)
        \/ \E o \in OfferId : InsertOffer(h, o)

RideTransaction(a, id) ==
    \/ create_ride(a, id)
    \/ \E o \in OfferId : select_driver(a, id, o)
    \/ complete_ride(a, id)
    \/ onchain_accept(a, id)
    \/ cancel_ride(a, id)
    \/ dispute_ride(a, id)
    \/ add_location(a, id)

Reporting(id) ==
    \E status \in ReportedStatus, d \in Wallet \cup {NoWallet} :
        apply_ride_state_from_event(id, status, d)

MarketNext ==
    \/ \E a \in Wallet, id \in RideRequest : RideTransaction(a, id)
    \/ \E id \in RideRequest : Reporting(id)
    \/ Offering
    \/ Restart

MarketSpec == MarketInit /\ [][MarketNext]_marketVars

-----------------------------------------------------------------------------
(***************************************************************************)
(* Properties                                                              *)
(***************************************************************************)

\* Every row has its columns' types.
MarketTypeOK ==
    /\ ride_requests \in [RideRequest -> RideRow]
    /\ driver_offers \in [OfferId -> OfferRow]
    /\ posting \in [Handler -> Posting]

\* The two tables tell the same story, with offers arriving and events of the chain
\* reporting at any moment of a selection: at most one offer for a ride is SELECTED,
\* none is turned down without one, a ride open to offers has neither a SELECTED
\* offer nor a driver, and one whose driver was selected has that offer's driver.
SelectedFor(id) ==
    {o \in OfferId : driver_offers[o].ride = id /\ driver_offers[o].status = "SELECTED"}
SelectionAgrees ==
    \A id \in RideRequest :
        /\ \A o, p \in SelectedFor(id) : o = p
        /\ SelectedFor(id) = {} =>
              \A o \in OfferId : driver_offers[o].ride = id => driver_offers[o].status = "PENDING"
        /\ ride_requests[id].status = "OPEN" =>
              SelectedFor(id) = {} /\ ride_requests[id].driver = NoWallet
        /\ ride_requests[id].status = "DRIVER_SELECTED" =>
              \E o \in SelectedFor(id) : driver_offers[o].driver = ride_requests[id].driver

=============================================================================
