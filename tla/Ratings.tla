------------------------------- MODULE Ratings -------------------------------
(***************************************************************************)
(* backend/app/ratings: the rider of a completed ride rates its driver.    *)
(* rate_ride is one transaction that first locks the row of the ride, then *)
(* the row of the driver, and computes the driver's new average from what  *)
(* that row says.  It is modelled in the steps between which it may wait   *)
(* for a lock; what it inserts is visible to others when it commits.       *)
(*                                                                         *)
(* A driver's row that does not exist is locked by inserting it: INSERT    *)
(* ... ON CONFLICT waits for another insertion in progress, and returns    *)
(* the row that one committed.                                             *)
(*                                                                         *)
(* Abstracted: review hashes; the float average is a fraction, exact.      *)
(***************************************************************************)
EXTENDS Marketplace, Functions

CONSTANTS
    Rater,                \* bound: rate_ride requests in progress at a time
    Stars                 \* bound: the ratings given

ASSUME RatingAssumption == Stars \subseteq 1..5

VARIABLES
    ride_ratings,
    drivers,
    rating                \* where each rate_ride request is

ratingVars   == <<ride_ratings, drivers, rating>>
feedbackVars == <<marketVars, ratingVars>>

NoRating  == [driver |-> NoWallet, stars |-> 0]
NotRated  == [num |-> 0, den |-> 1, count |-> 0]      \* rating_avg is num / den
NoRequestInProgress ==
    [ride |-> NoRequest, driver |-> NoWallet, stars |-> 0, old |-> NotRated, next |-> "ride"]

RatingInit ==
    /\ MarketInit
    /\ ride_ratings = [id \in RideRequest |-> NoRating]
    /\ drivers = [d \in Wallet |-> NotRated]
    /\ rating = [r \in Rater |-> NoRequestInProgress]

-----------------------------------------------------------------------------
\* Row locks: a request holds its ride's row from its first statement, and its
\* driver's from the one that reads it.
NeverHeld(id) == FALSE
RideHeld(id) == \E r \in Rater : rating[r].ride = id

DriverFreeAlways(d) == TRUE
DriverFreeOfAll(d)  == \A r, s \in Rater : rating[r].driver = d /\ rating[s].driver = d => r = s
DriverFree(d) == \A r \in Rater : ~ (rating[r].next = "update" /\ rating[r].driver = d)

\* new_avg = (old_avg * old_count + rating) / new_count
NewAverage(old, stars) ==
    [num   |-> old.num * old.count + stars * old.den,
     den   |-> old.den * (old.count + 1),
     count |-> old.count + 1]

\* The one look for an earlier rating of the ride.
NeverRefused(id) == TRUE
Unrated(id) == ride_ratings[id] = NoRating

\* The ride's row is locked, the request passes the checks, the rating is inserted.
LockRide(r, a, id, stars) ==
    /\ rating[r] = NoRequestInProgress
    /\ ~ RideHeld(id)
    /\ ride_requests[id].rider = a
    /\ ride_requests[id].status = "COMPLETED"
    /\ ride_requests[id].driver # NoWallet
    /\ Unrated(id)
    /\ rating' = [rating EXCEPT ![r] = [ride |-> id, driver |-> ride_requests[id].driver,
                                        stars |-> stars, old |-> NotRated, next |-> "driver"]]
    /\ UNCHANGED <<marketVars, ride_ratings, drivers>>

LockDriver(r) ==
    /\ rating[r].next = "driver"
    /\ DriverFree(rating[r].driver)
    /\ rating' = [rating EXCEPT ![r].old = drivers[rating[r].driver], ![r].next = "update"]
    /\ UNCHANGED <<marketVars, ride_ratings, drivers>>

Commit(r) ==
    LET q == rating[r] IN
    /\ q.next = "update"
    /\ drivers' = [drivers EXCEPT ![q.driver] = NewAverage(q.old, q.stars)]
    /\ ride_ratings' = [ride_ratings EXCEPT ![q.ride] = [driver |-> q.driver, stars |-> q.stars]]
    /\ rating' = [rating EXCEPT ![r] = NoRequestInProgress]
    /\ UNCHANGED marketVars

\* A statement fails: nothing is kept.
Abort(r) ==
    /\ rating[r] # NoRequestInProgress
    /\ rating' = [rating EXCEPT ![r] = NoRequestInProgress]
    /\ UNCHANGED <<marketVars, ride_ratings, drivers>>

RestartService ==
    /\ Restart
    /\ rating' = [r \in Rater |-> NoRequestInProgress]
    /\ UNCHANGED <<ride_ratings, drivers>>

\* The row of a ride being rated is locked against the marketplace's transactions
\* and the webhook's UPDATE; the foreign key of an offer's insertion waits for it too.
Elsewhere ==
    /\ \/ \E id \in RideRequest :
             /\ ~ RideHeld(id)
             /\ (\E a \in Wallet : RideTransaction(a, id)) \/ Reporting(id)
       \/ Offering /\ \A o \in OfferId : driver_offers'[o] # driver_offers[o] =>
                                             ~ RideHeld(driver_offers'[o].ride)
    /\ UNCHANGED ratingVars

RatingNext ==
    \/ Elsewhere
    \/ \E r \in Rater :
          \/ \E a \in Wallet, id \in RideRequest, stars \in Stars : LockRide(r, a, id, stars)
          \/ LockDriver(r)
          \/ Commit(r)
          \/ Abort(r)
    \/ RestartService

\* The process runs its requests, and PostgreSQL serves the waiters of a row in
\* the order they came: one that waits for a row that is free again and again
\* gets it.
RatingFairness ==
    \A r \in Rater : /\ SF_feedbackVars(LockDriver(r))
                     /\ WF_feedbackVars(Commit(r))

RatingSpec == RatingInit /\ [][RatingNext]_feedbackVars /\ RatingFairness

-----------------------------------------------------------------------------
(***************************************************************************)
(* Properties                                                              *)
(***************************************************************************)

\* A driver's average is the mean of the ratings in ride_ratings, and the count
\* their number, however the ratings of the driver's rides run into each other
\* and fail.
RatedFor(d) == {id \in RideRequest : ride_ratings[id].driver = d}
StarsGiven == [id \in RideRequest |-> ride_ratings[id].stars]
AverageIsMean ==
    \A d \in Wallet :
        /\ drivers[d].count = Cardinality(RatedFor(d))
        /\ drivers[d].num * drivers[d].count =
              drivers[d].den * SumFunctionOnSet(StarsGiven, RatedFor(d))

\* A rating is for the driver who drove: it is kept for a ride without one, at a
\* moment when the ride is completed and that driver's, however long the request
\* waited since it read the row; and no later event of the chain, which may reopen
\* the ride or name another driver, changes or removes it.
RatedWhenDriven ==
    [][\A id \in RideRequest : ride_ratings'[id] # ride_ratings[id] =>
          /\ ride_ratings[id] = NoRating
          /\ ride_requests[id].status = "COMPLETED"
          /\ ride_requests[id].driver = ride_ratings'[id].driver]_feedbackVars

\* Whatever runs between the statements of a rating, the ratings act one after
\* another: each is a step of the ledger, and nothing else changes the ledger.
Ledger == INSTANCE RatingLedger WITH
    Ride <- RideRequest, Driver <- Wallet, Nobody <- NoWallet, Grade <- Stars,
    book <- ride_ratings, average <- drivers
ImplementsLedger == Ledger!LedgerSpec

\* No rating waits for ever: rows are locked in one order, ride before driver.
RatingEnds == \A r \in Rater : rating[r] # NoRequestInProgress ~> rating[r] = NoRequestInProgress

=============================================================================
