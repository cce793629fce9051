-------------------------- MODULE MarketplaceProofs --------------------------
(***************************************************************************)
(* Proofs about the marketplace, for every number of wallets, rides,       *)
(* offers and requests in progress.                                        *)
(***************************************************************************)
EXTENDS MarketMatching, TLAPS

\* Until a driver is selected a ride has none.
OpenIsUnmatched ==
    \A id \in RideRequest :
        ride_requests[id].status \in {"Absent", "OPEN"} => ride_requests[id].driver = NoWallet

\* An offer being made is for a ride that was posted.
OffersFollowRides ==
    \A h \in Handler :
        posting[h].next # "ride" => ride_requests[posting[h].ride].status # "Absent"

\* A row of a ride, seen from its columns.
LEMMA RideRowFacts ==
    ASSUME NEW row \in RideRow
    PROVE  /\ row.rider \in Wallet \cup {NoWallet}
           /\ row.driver \in Wallet \cup {NoWallet}
           /\ row.status \in RideStatus
           /\ row.status = "Absent" <=> row = NoRide
           /\ row.status # "Absent" => row.rider \in Wallet
BY DEF RideRow, NoRide, RideStatus, CANCELLABLE_STATUSES, ACTIVE_DRIVER_RIDE_STATUSES

\* The row of a posted ride keeps its type when its status is set.
LEMMA StatusSet ==
    ASSUME NEW row \in RideRow, row.status # "Absent",
           NEW status \in RideStatus \ {"Absent"}
    PROVE  /\ [row EXCEPT !.status = status] \in RideRow
           /\ [row EXCEPT !.status = status].status = status
           /\ [row EXCEPT !.status = status].driver = row.driver
           /\ [row EXCEPT !.status = status].rider = row.rider
BY DEF RideRow, NoRide

\* So does it when an event of the chain reports a status and, maybe, a driver.
LEMMA ReportedFacts ==
    ASSUME NEW row \in RideRow, row.status # "Absent",
           NEW status \in ReportedStatus, NEW d \in Wallet \cup {NoWallet}
    PROVE  /\ Reported(row, status, d) \in RideRow
           /\ Reported(row, status, d).status = status
           /\ Reported(row, status, d).driver = IF d = NoWallet THEN row.driver ELSE d
           /\ Reported(row, status, d).rider = row.rider
           /\ status \in RideStatus \ {"Absent", "OPEN", "DRIVER_SELECTED"}
<1>1. status \in RideStatus \ {"Absent", "OPEN", "DRIVER_SELECTED"}
  BY DEF ReportedStatus, RideStatus, CANCELLABLE_STATUSES, ACTIVE_DRIVER_RIDE_STATUSES
<1>2. row \in [rider : Wallet, driver : Wallet \cup {NoWallet}, status : RideStatus \ {"Absent"}]
  BY DEF RideRow, NoRide
<1>3. PICK driver \in Wallet \cup {NoWallet} : driver = IF d = NoWallet THEN row.driver ELSE d
  BY <1>2
<1>4. Reported(row, status, d) = [row EXCEPT !.status = status, !.driver = driver]
  BY <1>3 DEF Reported
<1>5. /\ Reported(row, status, d) \in
            [rider : Wallet, driver : Wallet \cup {NoWallet}, status : RideStatus \ {"Absent"}]
      /\ Reported(row, status, d).status = status
      /\ Reported(row, status, d).driver = driver
      /\ Reported(row, status, d).rider = row.rider
  BY <1>1, <1>2, <1>4
<1> QED
  BY <1>1, <1>3, <1>5 DEF RideRow

\* A row of an offer, seen from its columns.
LEMMA OfferRowFacts ==
    ASSUME NEW row \in OfferRow
    PROVE  /\ row.status \in OfferStatus
           /\ row.ride \in RideRequest \cup {NoRequest}
           /\ row.driver \in Wallet \cup {NoWallet}
           /\ row.status = "Absent" <=> row = NoOffer
           /\ row.status # "Absent" => row.ride \in RideRequest /\ row.driver \in Wallet
           /\ row.ride \in RideRequest => row.status # "Absent"
BY MarketAssumption DEF OfferRow, NoOffer, OfferStatus

\* An offer that was made keeps its type, ride and driver when its status is set.
LEMMA OfferStatusSet ==
    ASSUME NEW row \in OfferRow, row.status # "Absent",
           NEW status \in OfferStatus \ {"Absent"}
    PROVE  /\ [row EXCEPT !.status = status] \in OfferRow
           /\ [row EXCEPT !.status = status].status = status
           /\ [row EXCEPT !.status = status].ride = row.ride
           /\ [row EXCEPT !.status = status].driver = row.driver
BY DEF OfferRow, NoOffer

\* A create_offer request past its first statement names a ride and a driver.
LEMMA PostingFacts ==
    ASSUME NEW p \in Posting
    PROVE  /\ p.next \in {"ride", "duplicates", "insert"}
           /\ p.next = "ride" <=> p = Idle
           /\ p.next # "ride" => /\ p.ride \in RideRequest /\ p.driver \in Wallet
                                 /\ [p EXCEPT !.next = "insert"] \in Posting
                                 /\ [p EXCEPT !.next = "insert"].ride = p.ride
                                 /\ [p EXCEPT !.next = "insert"].next = "insert"
BY DEF Posting, Idle

-----------------------------------------------------------------------------
(***************************************************************************)
(* What a step does to the rides.                                          *)
(***************************************************************************)

\* A transaction that sets the status of a matched or posted ride.
Restatus(id, status) ==
    /\ ride_requests[id].status # "Absent"
    /\ SetRideStatus(id, status)
    /\ UNCHANGED <<driver_offers, posting>>

\* Each transaction posts a ride, selects its driver, or sets its status; the
\* status of a ride without a driver is only ever set to CANCELLED.
LEMMA TransactionCases ==
    ASSUME MarketTypeOK, NEW a \in Wallet, NEW id \in RideRequest,
           RideTransaction(a, id)
    PROVE  \/ create_ride(a, id)
           \/ \E o \in OfferId : select_driver(a, id, o)
           \/ /\ ride_requests[id].status \in CANCELLABLE_STATUSES
              /\ Restatus(id, "CANCELLED")
           \/ /\ ride_requests[id].driver \in Wallet
              /\ ride_requests[id].status \in ACTIVE_DRIVER_RIDE_STATUSES
              /\ Restatus(id, "COMPLETED")
           \/ \E status \in {"ONCHAIN_ACCEPTED", "STARTED", "DISPUTED"} :
                 /\ ride_requests[id].status \in ACTIVE_DRIVER_RIDE_STATUSES
                 /\ Restatus(id, status)
<1>1. CASE create_ride(a, id)
  BY <1>1
<1>2. CASE \E o \in OfferId : select_driver(a, id, o)
  BY <1>2
<1>3. CASE complete_ride(a, id)
  BY <1>3 DEF complete_ride, Completable, COMPLETABLE_RIDE_STATUSES, Restatus,
              ACTIVE_DRIVER_RIDE_STATUSES
<1>4. CASE onchain_accept(a, id)
  BY <1>4 DEF onchain_accept, Restatus, ACTIVE_DRIVER_RIDE_STATUSES
<1>5. CASE cancel_ride(a, id)
  BY <1>5 DEF cancel_ride, Cancellable, Restatus, CANCELLABLE_STATUSES,
              ACTIVE_DRIVER_RIDE_STATUSES
<1>6. CASE dispute_ride(a, id)
  BY <1>6 DEF dispute_ride, Restatus, DISPUTABLE_STATUSES, ACTIVE_DRIVER_RIDE_STATUSES
<1>7. CASE add_location(a, id)
  BY <1>7 DEF add_location, Restatus, AUTO_COMPLETE_STATUSES, ACTIVE_DRIVER_RIDE_STATUSES
<1> QED
  BY <1>1, <1>2, <1>3, <1>4, <1>5, <1>6, <1>7 DEF RideTransaction

-----------------------------------------------------------------------------
(***************************************************************************)
(* Type correctness, with the two facts about posted rides.                *)
(***************************************************************************)

Posted == MarketTypeOK /\ OpenIsUnmatched /\ OffersFollowRides

\* It holds of the empty tables.
LEMMA InitPosted == MarketInit => Posted
BY DEF MarketInit, Posted, MarketTypeOK, RideRow, OfferRow, Posting, NoRide, NoOffer, Idle,
       OpenIsUnmatched, OffersFollowRides

\* Setting the status of a posted ride keeps it.
LEMMA RestatusPosted ==
    ASSUME Posted, NEW id \in RideRequest, NEW status \in RideStatus \ {"Absent", "OPEN"},
           Restatus(id, status)
    PROVE  /\ Posted'
           /\ ride_requests' = [ride_requests EXCEPT ![id].status = status]
           /\ ride_requests'[id].status = status
           /\ ride_requests'[id].driver = ride_requests[id].driver
           /\ \A x \in RideRequest \ {id} : ride_requests'[x] = ride_requests[x]
<1> USE DEF Posted, MarketTypeOK
<1> DEFINE row == [ride_requests[id] EXCEPT !.status = status]
<1>1. /\ ride_requests' = [ride_requests EXCEPT ![id] = row]
      /\ ride_requests' = [ride_requests EXCEPT ![id].status = status]
      /\ ride_requests[id] \in RideRow
      /\ ride_requests[id].status # "Absent"
      /\ UNCHANGED <<driver_offers, posting>>
  BY DEF Restatus, SetRideStatus
<1>2. /\ row \in RideRow /\ row.status = status /\ row.driver = ride_requests[id].driver
  BY <1>1, StatusSet
<1> HIDE DEF row
<1>3. /\ ride_requests' \in [RideRequest -> RideRow]
      /\ ride_requests'[id] = row
      /\ \A x \in RideRequest \ {id} : ride_requests'[x] = ride_requests[x]
  BY <1>1, <1>2
<1>4. MarketTypeOK'
  BY <1>1, <1>3
<1>5. OpenIsUnmatched'
  BY <1>2, <1>3 DEF OpenIsUnmatched
<1>6. OffersFollowRides'
  <2> SUFFICES ASSUME NEW h \in Handler, posting[h].next # "ride"
               PROVE  ride_requests'[posting[h].ride].status # "Absent"
    BY <1>1 DEF OffersFollowRides
  <2>1. posting[h].ride \in RideRequest
    BY PostingFacts
  <2> QED
    BY <2>1, <1>2, <1>3 DEF OffersFollowRides
<1> QED
  BY <1>1, <1>2, <1>3, <1>4, <1>5, <1>6

\* What the report of an event does to its ride's row.
LEMMA ReportFacts ==
    ASSUME Posted, NEW id \in RideRequest, Reporting(id)
    PROVE  /\ Posted'
           /\ ride_requests[id].status # "Absent"
           /\ ride_requests'[id].status \in ReportedStatus
           /\ ride_requests'[id].driver \in {ride_requests[id].driver} \cup Wallet
           /\ \A x \in RideRequest \ {id} : ride_requests'[x] = ride_requests[x]
           /\ UNCHANGED <<driver_offers, posting>>
<1> USE DEF Posted, MarketTypeOK
<1>1. PICK status \in ReportedStatus, d \in Wallet \cup {NoWallet} :
         apply_ride_state_from_event(id, status, d)
  BY DEF Reporting
<1> DEFINE row == Reported(ride_requests[id], status, d)
<1>2. /\ ride_requests' = [ride_requests EXCEPT ![id] = row]
      /\ ride_requests[id] \in RideRow
      /\ ride_requests[id].status # "Absent"
      /\ UNCHANGED <<driver_offers, posting>>
  BY <1>1 DEF apply_ride_state_from_event
<1>3. /\ row \in RideRow
      /\ row.status = status
      /\ row.status \notin {"Absent", "OPEN"}
      /\ row.driver \in {ride_requests[id].driver} \cup Wallet
  BY <1>2, ReportedFacts
<1> HIDE DEF row
<1>4. /\ ride_requests' \in [RideRequest -> RideRow]
      /\ ride_requests'[id] = row
      /\ \A x \in RideRequest \ {id} : ride_requests'[x] = ride_requests[x]
  BY <1>2, <1>3
<1>5. MarketTypeOK' /\ OpenIsUnmatched'
  BY <1>2, <1>3, <1>4 DEF OpenIsUnmatched
<1>6. OffersFollowRides'
  <2> SUFFICES ASSUME NEW h \in Handler, posting[h].next # "ride"
               PROVE  ride_requests'[posting[h].ride].status # "Absent"
    BY <1>2 DEF OffersFollowRides
  <2>1. posting[h].ride \in RideRequest
    BY PostingFacts
  <2> QED
    BY <2>1, <1>3, <1>4 DEF OffersFollowRides
<1> QED
  BY <1>2, <1>3, <1>4, <1>5, <1>6

\* Posting a ride keeps it.
LEMMA CreatePosted ==
    ASSUME Posted, NEW a \in Wallet, NEW id \in RideRequest, create_ride(a, id)
    PROVE  Posted'
<1> USE DEF Posted, MarketTypeOK
<1> DEFINE row == [rider |-> a, driver |-> NoWallet, status |-> "OPEN"]
<1>1. /\ ride_requests' = [ride_requests EXCEPT ![id] = row]
      /\ UNCHANGED <<driver_offers, posting>>
  BY DEF create_ride
<1>2. row \in RideRow /\ row.driver = NoWallet /\ row.status = "OPEN"
  BY DEF RideRow, RideStatus, CANCELLABLE_STATUSES
<1> HIDE DEF row
<1>3. /\ ride_requests' \in [RideRequest -> RideRow]
      /\ ride_requests'[id] = row
      /\ \A x \in RideRequest \ {id} : ride_requests'[x] = ride_requests[x]
  BY <1>1, <1>2
<1>4. MarketTypeOK' /\ OpenIsUnmatched'
  BY <1>1, <1>2, <1>3 DEF OpenIsUnmatched
<1>5. OffersFollowRides'
  <2> SUFFICES ASSUME NEW h \in Handler, posting[h].next # "ride"
               PROVE  ride_requests'[posting[h].ride].status # "Absent"
    BY <1>1 DEF OffersFollowRides
  <2>1. posting[h].ride \in RideRequest
    BY PostingFacts
  <2> QED
    BY <2>1, <1>2, <1>3 DEF OffersFollowRides
<1> QED
  BY <1>4, <1>5

\* What selecting an offer does to the rows of its ride and of the offers.
LEMMA SelectFacts ==
    ASSUME Posted, NEW a \in Wallet, NEW id \in RideRequest, NEW o \in OfferId,
           select_driver(a, id, o)
    PROVE  /\ Posted'
           /\ ride_requests[id].status = "OPEN"
           /\ ride_requests[id].driver = NoWallet
           /\ ride_requests'[id].status = "DRIVER_SELECTED"
           /\ ride_requests'[id].driver = driver_offers[o].driver
           /\ driver_offers[o].driver \in Wallet
           /\ driver_offers[o].ride = id
           /\ \A x \in RideRequest \ {id} : ride_requests'[x] = ride_requests[x]
           /\ driver_offers' = Decided(o, id)
           /\ \A x \in OfferId : /\ driver_offers'[x].ride = driver_offers[x].ride
                                 /\ driver_offers'[x].driver = driver_offers[x].driver
           /\ posting' = posting
<1> USE DEF Posted, MarketTypeOK
<1> DEFINE row == [ride_requests[id] EXCEPT !.status = "DRIVER_SELECTED",
                                            !.driver = driver_offers[o].driver]
<1>1. /\ ride_requests' = [ride_requests EXCEPT ![id] = row]
      /\ ride_requests[id].status = "OPEN"
      /\ driver_offers[o].status = "PENDING"
      /\ driver_offers[o].ride = id
      /\ driver_offers' = Decided(o, id)
      /\ posting' = posting
  BY DEF select_driver, Selectable
<1>2. driver_offers[o].driver \in Wallet
  BY <1>1, OfferRowFacts
<1>3. row \in RideRow /\ row.status = "DRIVER_SELECTED" /\ row.driver = driver_offers[o].driver
  <2>1. ride_requests[id] \in RideRow /\ ride_requests[id] # NoRide
    BY <1>1, RideRowFacts
  <2> QED
    BY <1>2, <2>1 DEF RideRow, RideStatus, CANCELLABLE_STATUSES, ACTIVE_DRIVER_RIDE_STATUSES
<1> HIDE DEF row
<1>4. /\ ride_requests' \in [RideRequest -> RideRow]
      /\ ride_requests'[id] = row
      /\ \A x \in RideRequest \ {id} : ride_requests'[x] = ride_requests[x]
  BY <1>1, <1>3
<1>5. \A x \in OfferId : /\ driver_offers'[x] \in OfferRow
                         /\ driver_offers'[x].ride = driver_offers[x].ride
                         /\ driver_offers'[x].driver = driver_offers[x].driver
  <2> SUFFICES ASSUME NEW x \in OfferId
               PROVE  /\ driver_offers'[x] \in OfferRow
                      /\ driver_offers'[x].ride = driver_offers[x].ride
                      /\ driver_offers'[x].driver = driver_offers[x].driver
    OBVIOUS
  <2>1. driver_offers[x] \in OfferRow
    OBVIOUS
  <2>2. CASE driver_offers[x].ride = id /\ driver_offers[x].status = "PENDING"
    <3>1. driver_offers'[x] = [driver_offers[x] EXCEPT
                                  !.status = IF x = o THEN "SELECTED" ELSE "REJECTED"]
      BY <1>1, <2>2 DEF Decided
    <3>2. (IF x = o THEN "SELECTED" ELSE "REJECTED") \in OfferStatus \ {"Absent"}
      BY DEF OfferStatus
    <3> QED
      BY <2>1, <2>2, <3>1, <3>2, OfferStatusSet
  <2>3. CASE ~ (driver_offers[x].ride = id /\ driver_offers[x].status = "PENDING")
    BY <1>1, <2>1, <2>3 DEF Decided
  <2> QED
    BY <2>2, <2>3
<1>6. driver_offers' \in [OfferId -> OfferRow]
  BY <1>1, <1>5 DEF Decided
<1>7. MarketTypeOK'
  BY <1>1, <1>4, <1>6
<1>8. OpenIsUnmatched' /\ ride_requests[id].driver = NoWallet
  BY <1>1, <1>3, <1>4 DEF OpenIsUnmatched
<1>9. OffersFollowRides'
  <2> SUFFICES ASSUME NEW h \in Handler, posting[h].next # "ride"
               PROVE  ride_requests'[posting[h].ride].status # "Absent"
    BY <1>1 DEF OffersFollowRides
  <2>1. posting[h].ride \in RideRequest
    BY PostingFacts
  <2> QED
    BY <2>1, <1>3, <1>4 DEF OffersFollowRides
<1> QED
  BY <1>1, <1>2, <1>3, <1>4, <1>5, <1>7, <1>8, <1>9

\* Inserting an offer keeps it, and says what the new row is.
LEMMA InsertFacts ==
    ASSUME Posted, NEW h \in Handler, NEW o \in OfferId, InsertOffer(h, o)
    PROVE  /\ Posted'
           /\ posting[h].ride \in RideRequest
           /\ posting[h].driver \in Wallet
           /\ ride_requests[posting[h].ride].status # "Absent"
           /\ driver_offers[o] = NoOffer
           /\ driver_offers'[o] = [ride |-> posting[h].ride, driver |-> posting[h].driver,
                                   status |-> "PENDING"]
           /\ \A x \in OfferId \ {o} : driver_offers'[x] = driver_offers[x]
           /\ ride_requests' = ride_requests
<1> USE DEF Posted, MarketTypeOK
<1> DEFINE row == [ride |-> posting[h].ride, driver |-> posting[h].driver, status |-> "PENDING"]
<1>1. /\ posting[h].next = "insert"
      /\ driver_offers[o].status = "Absent"
      /\ driver_offers' = [driver_offers EXCEPT ![o] = row]
      /\ posting' = [posting EXCEPT ![h] = Idle]
      /\ ride_requests' = ride_requests
  BY DEF InsertOffer
<1>2. /\ posting[h].ride \in RideRequest
      /\ posting[h].driver \in Wallet
      /\ ride_requests[posting[h].ride].status # "Absent"
      /\ driver_offers[o] = NoOffer
  BY <1>1, PostingFacts, OfferRowFacts DEF OffersFollowRides
<1>3. row \in OfferRow
  BY <1>2 DEF OfferRow, OfferStatus
<1>4. row = [ride |-> posting[h].ride, driver |-> posting[h].driver, status |-> "PENDING"]
  OBVIOUS
<1> HIDE DEF row
<1>5. /\ driver_offers' \in [OfferId -> OfferRow]
      /\ driver_offers'[o] = row
      /\ \A x \in OfferId \ {o} : driver_offers'[x] = driver_offers[x]
  BY <1>1, <1>3
<1>6. posting' \in [Handler -> Posting]
  BY <1>1 DEF Posting
<1>7. OffersFollowRides'
  BY <1>1 DEF OffersFollowRides, Idle
<1> QED
  BY <1>1, <1>2, <1>4, <1>5, <1>6, <1>7 DEF OpenIsUnmatched

\* So do the reads of create_offer, which touch no table.
LEMMA ReadsPosted ==
    ASSUME Posted, NEW h \in Handler,
           \/ \E d \in Wallet, id \in RideRequest : ReadRide(h, d, id)
           \/ ReadDuplicates(h)
    PROVE  Posted' /\ ride_requests' = ride_requests /\ driver_offers' = driver_offers
<1> USE DEF Posted, MarketTypeOK
<1>1. /\ ride_requests' = ride_requests
      /\ driver_offers' = driver_offers
  BY DEF ReadRide, ReadDuplicates
<1>2. SUFFICES ASSUME NEW p \in Posting, posting' = [posting EXCEPT ![h] = p],
                      p.next # "ride" => ride_requests[p.ride].status # "Absent"
               PROVE  posting' \in [Handler -> Posting] /\ OffersFollowRides'
  <2>1. CASE \E d \in Wallet, id \in RideRequest : ReadRide(h, d, id)
    <3>1. PICK d \in Wallet, id \in RideRequest : ReadRide(h, d, id)
      BY <2>1
    <3> DEFINE p == [ride |-> id, driver |-> d, next |-> "duplicates"]
    <3>2. p \in Posting /\ posting' = [posting EXCEPT ![h] = p] /\ p.ride = id
      BY <3>1 DEF ReadRide, Posting
    <3>3. ride_requests[id].status # "Absent"
      BY <3>1 DEF ReadRide
    <3> HIDE DEF p
    <3> QED
      BY <1>1, <1>2, <3>2, <3>3 DEF OpenIsUnmatched
  <2>2. CASE ReadDuplicates(h)
    <3> DEFINE p == IF HasPending(posting[h].ride, posting[h].driver) THEN Idle
                    ELSE [posting[h] EXCEPT !.next = "insert"]
    <3>1. posting' = [posting EXCEPT ![h] = p] /\ posting[h].next = "duplicates"
      BY <2>2 DEF ReadDuplicates
    <3>2. /\ p \in Posting
          /\ p.next # "ride" => ride_requests[p.ride].status # "Absent"
      BY <3>1, PostingFacts DEF OffersFollowRides, Idle, Posting
    <3> HIDE DEF p
    <3> QED
      BY <1>1, <1>2, <3>1, <3>2 DEF OpenIsUnmatched
  <2> QED
    BY <2>1, <2>2
<1>3. /\ posting' \in [Handler -> Posting]
      /\ posting'[h] = p
      /\ \A x \in Handler \ {h} : posting'[x] = posting[x]
  BY <1>2
<1> QED
  BY <1>1, <1>2, <1>3 DEF OffersFollowRides

\* Every step keeps it.
LEMMA NextPosted == Posted /\ [MarketNext]_marketVars => Posted'
<1> SUFFICES ASSUME Posted, [MarketNext]_marketVars
             PROVE  Posted'
  OBVIOUS
<1>1. CASE \E a \in Wallet, id \in RideRequest : RideTransaction(a, id)
  <2>1. PICK a \in Wallet, id \in RideRequest : RideTransaction(a, id)
    BY <1>1
  <2>2. {"ONCHAIN_ACCEPTED", "STARTED", "DISPUTED", "COMPLETED", "CANCELLED"} \subseteq
           RideStatus \ {"Absent", "OPEN"}
    BY DEF RideStatus, CANCELLABLE_STATUSES, ACTIVE_DRIVER_RIDE_STATUSES
  <2>3. MarketTypeOK
    BY DEF Posted
  <2> QED
    BY <2>1, <2>2, <2>3, TransactionCases, CreatePosted, SelectFacts, RestatusPosted
<1>5. CASE \E id \in RideRequest : Reporting(id)
  BY <1>5, ReportFacts
<1>2. CASE Offering
  BY <1>2, ReadsPosted, InsertFacts DEF Offering
<1>3. CASE Restart
  BY <1>3 DEF Restart, Posted, MarketTypeOK, OpenIsUnmatched, OffersFollowRides, Posting, Idle
<1>4. CASE UNCHANGED marketVars
  BY <1>4 DEF marketVars, Posted, MarketTypeOK, OpenIsUnmatched, OffersFollowRides
<1> QED
  BY <1>1, <1>2, <1>3, <1>4, <1>5 DEF MarketNext

\* Every reachable state has it.
LEMMA AlwaysPosted == MarketSpec => []Posted
BY InitPosted, NextPosted, PTL DEF MarketSpec

\* Every row of the two tables has its columns' types, and so has every
\* create_offer request in progress: none refers to a ride or a wallet that is
\* not there, whatever stops it.
THEOREM MarketTypeCorrect == MarketSpec => []MarketTypeOK
<1>1. Posted => MarketTypeOK
  BY DEF Posted
<1> QED
  BY <1>1, AlwaysPosted, PTL

-----------------------------------------------------------------------------
(***************************************************************************)
(* The tables agree on the selection.                                      *)
(***************************************************************************)

\* SelectionAgrees, of one ride; a ride not posted yet counts as open.
Agrees(id) ==
    /\ \A o, p \in SelectedFor(id) : o = p
    /\ SelectedFor(id) = {} =>
          \A o \in OfferId : driver_offers[o].ride = id => driver_offers[o].status = "PENDING"
    /\ ride_requests[id].status \in {"Absent", "OPEN"} =>
          SelectedFor(id) = {} /\ ride_requests[id].driver = NoWallet
    /\ ride_requests[id].status = "DRIVER_SELECTED" =>
          \E o \in SelectedFor(id) : driver_offers[o].driver = ride_requests[id].driver

\* A step that leaves a ride's row and all offers alone keeps it.
LEMMA AgreesKept ==
    ASSUME NEW id \in RideRequest, Agrees(id),
           ride_requests'[id] = ride_requests[id],
           driver_offers' = driver_offers
    PROVE  Agrees(id)'
BY DEF Agrees, SelectedFor

\* So does one that takes the ride past its selection, whatever driver it names.
LEMMA AgreesRestated ==
    ASSUME NEW id \in RideRequest, Agrees(id),
           ride_requests'[id].status \notin {"Absent", "OPEN", "DRIVER_SELECTED"},
           driver_offers' = driver_offers
    PROVE  Agrees(id)'
BY DEF Agrees, SelectedFor

\* A new offer is pending and disturbs no selection.
LEMMA InsertSelectsNone ==
    ASSUME Posted, NEW id \in RideRequest, NEW h \in Handler, NEW o \in OfferId,
           InsertOffer(h, o)
    PROVE  /\ driver_offers'[o].status = "PENDING"
           /\ \A x \in OfferId \ {o} : driver_offers'[x] = driver_offers[x]
           /\ ride_requests' = ride_requests
           /\ SelectedFor(id)' = SelectedFor(id)
           /\ o \notin SelectedFor(id)
<1>1. /\ driver_offers[o] = NoOffer
      /\ driver_offers'[o] = [ride |-> posting[h].ride, driver |-> posting[h].driver,
                              status |-> "PENDING"]
      /\ \A x \in OfferId \ {o} : driver_offers'[x] = driver_offers[x]
      /\ ride_requests' = ride_requests
  BY InsertFacts, Zenon
<1>2. driver_offers'[o].status = "PENDING"
  BY <1>1
<1>3. NoOffer.status = "Absent"
  BY DEF NoOffer
<1>4. SelectedFor(id)' = SelectedFor(id) /\ o \notin SelectedFor(id)
  BY <1>1, <1>2, <1>3 DEF SelectedFor
<1> QED
  BY <1>1, <1>2, <1>4

LEMMA AgreesInsert ==
    ASSUME Posted, NEW id \in RideRequest, Agrees(id),
           NEW h \in Handler, NEW o \in OfferId, InsertOffer(h, o)
    PROVE  Agrees(id)'
<1>1. /\ driver_offers'[o].status = "PENDING"
      /\ \A x \in OfferId \ {o} : driver_offers'[x] = driver_offers[x]
      /\ ride_requests' = ride_requests
      /\ SelectedFor(id)' = SelectedFor(id)
      /\ o \notin SelectedFor(id)
  BY InsertSelectsNone
<1>2. SelectedFor(id) \subseteq OfferId
  BY DEF SelectedFor
<1>3. ride_requests'[id].status = "DRIVER_SELECTED" =>
         \E p \in SelectedFor(id) : driver_offers'[p].driver = ride_requests[id].driver
  BY <1>1, <1>2 DEF Agrees
<1> QED
  BY <1>1, <1>3 DEF Agrees

\* Selecting an offer of the ride selects that one; selecting one of another
\* ride leaves the ride's offers alone.
LEMMA SelectSelects ==
    ASSUME Posted, NEW id \in RideRequest, Agrees(id),
           NEW a \in Wallet, NEW x \in RideRequest, NEW o \in OfferId, select_driver(a, x, o)
    PROVE  /\ id = x => SelectedFor(id)' = {o}
           /\ id # x =>
                 /\ ride_requests'[id] = ride_requests[id]
                 /\ SelectedFor(id)' = SelectedFor(id)
                 /\ \A y \in OfferId : driver_offers[y].ride = id =>
                                           driver_offers'[y] = driver_offers[y]
<1>1. /\ ride_requests[x].status = "OPEN"
      /\ driver_offers[o].ride = x
      /\ \A y \in RideRequest \ {x} : ride_requests'[y] = ride_requests[y]
      /\ driver_offers' = Decided(o, x)
      /\ \A y \in OfferId : driver_offers'[y].ride = driver_offers[y].ride
  BY SelectFacts
<1>2. CASE id = x
  <2>1. \A y \in OfferId : driver_offers[y].ride = x => driver_offers[y].status = "PENDING"
    BY <1>1, <1>2 DEF Agrees
  <2>2. ASSUME NEW y \in OfferId, driver_offers[y].ride = x
        PROVE  driver_offers'[y].status = IF y = o THEN "SELECTED" ELSE "REJECTED"
    <3>1. driver_offers[y] \in OfferRow /\ driver_offers[y].status = "PENDING"
      BY <2>1, <2>2 DEF Posted, MarketTypeOK
    <3>2. driver_offers'[y] =
             [driver_offers[y] EXCEPT !.status = IF y = o THEN "SELECTED" ELSE "REJECTED"]
      BY <1>1, <2>2, <3>1 DEF Decided
    <3>3. (IF y = o THEN "SELECTED" ELSE "REJECTED") \in OfferStatus \ {"Absent"}
      BY DEF OfferStatus
    <3> QED
      BY <3>1, <3>2, <3>3, OfferStatusSet
  <2>3. SelectedFor(id)' = {o}
    BY <1>1, <1>2, <2>2 DEF SelectedFor
  <2> QED
    BY <1>2, <2>3
<1>3. CASE id # x
  <2>1. \A y \in OfferId : driver_offers[y].ride = id => driver_offers'[y] = driver_offers[y]
    BY <1>1, <1>3 DEF Decided
  <2>2. SelectedFor(id)' = SelectedFor(id)
    BY <1>1, <2>1 DEF SelectedFor
  <2> QED
    BY <1>1, <1>3, <2>1, <2>2
<1> QED
  BY <1>2, <1>3

\* Both keep it.
LEMMA AgreesSelect ==
    ASSUME Posted, NEW id \in RideRequest, Agrees(id),
           NEW a \in Wallet, NEW x \in RideRequest, NEW o \in OfferId, select_driver(a, x, o)
    PROVE  Agrees(id)'
<1>1. /\ ride_requests'[x].status = "DRIVER_SELECTED"
      /\ ride_requests'[x].driver = driver_offers[o].driver
      /\ \A y \in OfferId : /\ driver_offers'[y].ride = driver_offers[y].ride
                            /\ driver_offers'[y].driver = driver_offers[y].driver
  BY SelectFacts
<1>2. CASE id = x
  <2>1. SelectedFor(id)' = {o}
    BY <1>2, SelectSelects
  <2> QED
    BY <1>1, <1>2, <2>1 DEF Agrees
<1>3. CASE id # x
  <2>1. /\ ride_requests'[id] = ride_requests[id]
        /\ SelectedFor(id)' = SelectedFor(id)
        /\ \A y \in OfferId : driver_offers[y].ride = id => driver_offers'[y] = driver_offers[y]
    BY <1>3, SelectSelects
  <2>2. SelectedFor(id) \subseteq OfferId
    BY DEF SelectedFor
  <2> QED
    BY <1>1, <2>1, <2>2 DEF Agrees
<1> QED
  BY <1>2, <1>3

\* Every step keeps the agreement on every ride.
LEMMA NextAgrees ==
    ASSUME Posted, [MarketNext]_marketVars, NEW id \in RideRequest, Agrees(id)
    PROVE  Agrees(id)'
<1>1. CASE \E a \in Wallet, x \in RideRequest : RideTransaction(a, x)
  <2>1. PICK a \in Wallet, x \in RideRequest : RideTransaction(a, x)
    BY <1>1
  <2>2. MarketTypeOK
    BY DEF Posted
  <2>3. CASE create_ride(a, x)
    <3>1. ride_requests[x].status = "Absent" /\ driver_offers' = driver_offers
      BY <2>3 DEF create_ride
    <3>2. CASE id = x
      <4>1. ride_requests'[id].status = "OPEN" /\ ride_requests'[id].driver = NoWallet
        BY <2>2, <2>3, <3>2 DEF create_ride, MarketTypeOK
      <4>2. SelectedFor(id)' = SelectedFor(id) /\ SelectedFor(id) = {}
        BY <3>1, <3>2 DEF Agrees, SelectedFor
      <4> QED
        BY <3>1, <4>1, <4>2 DEF Agrees
    <3>3. CASE id # x
      <4>1. ride_requests'[id] = ride_requests[id]
        BY <2>2, <2>3, <3>3 DEF create_ride, MarketTypeOK
      <4> QED
        BY <3>1, <4>1, AgreesKept
    <3> QED
      BY <3>2, <3>3
  <2>4. CASE \E o \in OfferId : select_driver(a, x, o)
    BY <2>4, AgreesSelect
  <2>5. CASE \E status \in ReportedStatus : Restatus(x, status)
    <3>1. PICK status \in ReportedStatus : Restatus(x, status)
      BY <2>5
    <3>2. status \in RideStatus \ {"Absent", "OPEN", "DRIVER_SELECTED"}
      BY DEF ReportedStatus, RideStatus, CANCELLABLE_STATUSES, ACTIVE_DRIVER_RIDE_STATUSES
    <3>3. /\ ride_requests'[x].status = status
          /\ \A y \in RideRequest \ {x} : ride_requests'[y] = ride_requests[y]
      BY <3>1, <3>2, RestatusPosted
    <3>4. driver_offers' = driver_offers
      BY <3>1 DEF Restatus
    <3> QED
      BY <3>2, <3>3, <3>4, AgreesKept, AgreesRestated
  <2>6. {"ONCHAIN_ACCEPTED", "STARTED", "DISPUTED", "COMPLETED", "CANCELLED"} \subseteq
           ReportedStatus
    BY DEF ReportedStatus
  <2> QED
    BY <2>1, <2>2, <2>3, <2>4, <2>5, <2>6, TransactionCases
<1>4. CASE \E x \in RideRequest : Reporting(x)
  <2>1. PICK x \in RideRequest : Reporting(x)
    BY <1>4
  <2>2. /\ ride_requests'[x].status \in ReportedStatus
        /\ \A y \in RideRequest \ {x} : ride_requests'[y] = ride_requests[y]
        /\ driver_offers' = driver_offers
    BY <2>1, ReportFacts
  <2>3. ride_requests'[x].status \notin {"Absent", "OPEN", "DRIVER_SELECTED"}
    BY <2>2 DEF ReportedStatus
  <2> QED
    BY <2>2, <2>3, AgreesKept, AgreesRestated
<1>2. CASE Offering
  <2>1. PICK h \in Handler :
           \/ \E d \in Wallet, x \in RideRequest : ReadRide(h, d, x)
           \/ ReadDuplicates(h)
           \/ \E o \in OfferId : InsertOffer(h, o)
    BY <1>2 DEF Offering
  <2>2. CASE \E o \in OfferId : InsertOffer(h, o)
    BY <2>2, AgreesInsert
  <2>3. CASE ride_requests' = ride_requests /\ driver_offers' = driver_offers
    BY <2>3, AgreesKept
  <2> QED
    BY <2>1, <2>2, <2>3, ReadsPosted
<1>3. CASE Restart \/ UNCHANGED marketVars
  <2>1. ride_requests' = ride_requests /\ driver_offers' = driver_offers
    BY <1>3 DEF Restart, marketVars
  <2> QED
    BY <2>1, AgreesKept
<1> QED
  BY <1>1, <1>2, <1>3, <1>4 DEF MarketNext

\* Whatever offers arrive while the rider decides, whatever requests stop in the
\* middle, and whatever events of the chain are reported at any moment: at most one
\* offer for a ride is SELECTED, none is turned down without one, a ride open to
\* offers has neither a SELECTED offer nor a driver, and while the selection is all
\* that is known of a ride its driver is the SELECTED offer's.
THEOREM TablesAgree == MarketSpec => []SelectionAgrees
<1> DEFINE AllAgree == \A id \in RideRequest : Agrees(id)
<1>1. MarketInit => AllAgree
  BY MarketAssumption DEF MarketInit, Agrees, SelectedFor, NoRide, NoOffer
<1>2. Posted /\ AllAgree /\ [MarketNext]_marketVars => AllAgree'
  BY NextAgrees
<1>3. AllAgree => SelectionAgrees
  BY DEF Agrees, SelectionAgrees
<1> HIDE DEF AllAgree
<1> QED
  BY <1>1, <1>2, <1>3, AlwaysPosted, PTL DEF MarketSpec

-----------------------------------------------------------------------------
(***************************************************************************)
(* The marketplace implements RideMatching.                                *)
(***************************************************************************)

\* What an event said of a ride is said of one past its selection.
ToldIsPosted ==
    /\ told \in [RideRequest -> BOOLEAN]
    /\ \A id \in RideRequest : ride_requests[id].status \in {"Absent", "OPEN"} => ~ told[id]

HistoryInv == Posted /\ (\A id \in RideRequest : Agrees(id)) /\ ToldIsPosted

\* What RideMatching sees of ride id, when its row stays and the offers do.
LEMMA NothingChanges ==
    ASSUME NEW id \in RideRequest, ride_requests'[id] = ride_requests[id],
           driver_offers' = driver_offers, told'[id] = told[id]
    PROVE  UNCHANGED RM(id)!matchingVars
<1>1. /\ StageOf(ride_requests[id])' = StageOf(ride_requests[id])
      /\ Applicants(id)' = Applicants(id)
      /\ Chosen(id)' = Chosen(id)
  BY DEF StageOf, Applicants, Chosen, SelectedFor
<1> QED
  BY <1>1 DEF RM!matchingVars

\* The stage of each status.
LEMMA Stages ==
    ASSUME NEW row
    PROVE  /\ row.status = "Absent" => StageOf(row) = "None"
           /\ row.status = "OPEN" => StageOf(row) = "Open"
           /\ row.status = "COMPLETED" => StageOf(row) = "Done"
           /\ row.status = "CANCELLED" => StageOf(row) = "CalledOff"
           /\ row.status \in ACTIVE_DRIVER_RIDE_STATUSES \cup {"DISPUTED"} =>
                 StageOf(row) = "Matched"
BY DEF StageOf, ACTIVE_DRIVER_RIDE_STATUSES

\* A posted ride has a stage.
LEMMA PostedHasStage ==
    ASSUME Posted, NEW id \in RideRequest, ride_requests[id].status # "Absent"
    PROVE  StageOf(ride_requests[id]) # "None"
<1>1. ride_requests[id] \in RideRow
  BY DEF Posted, MarketTypeOK
<1> QED
  BY <1>1, RideRowFacts DEF StageOf, RideStatus

\* A request that sets the status of a posted ride ends the ride or carries it on.
LEMMA RestatusMatches ==
    ASSUME Posted, NEW id \in RideRequest, NEW status,
           \/ status = "CANCELLED" /\ ride_requests[id].status \in CANCELLABLE_STATUSES
           \/ status = "COMPLETED" /\ ride_requests[id].status \in ACTIVE_DRIVER_RIDE_STATUSES
           \/ /\ status \in {"ONCHAIN_ACCEPTED", "STARTED", "DISPUTED"}
              /\ ride_requests[id].status \in ACTIVE_DRIVER_RIDE_STATUSES,
           Restatus(id, status), told'[id] = FALSE
    PROVE  RM(id)!MatchingNext
<1>1. status \in RideStatus \ {"Absent", "OPEN"}
  BY DEF RideStatus, CANCELLABLE_STATUSES, ACTIVE_DRIVER_RIDE_STATUSES
<1>2. /\ ride_requests'[id].status = status
      /\ ride_requests'[id].driver = ride_requests[id].driver
      /\ driver_offers' = driver_offers
  BY <1>1, RestatusPosted DEF Restatus
<1>3. Applicants(id)' = Applicants(id) /\ Chosen(id)' = Chosen(id)
  BY <1>2 DEF Applicants, Chosen, SelectedFor
<1>4. StageOf(ride_requests[id])' = StageOf(ride_requests'[id])
  BY DEF StageOf
<1>5. CASE status \in {"CANCELLED", "COMPLETED"}
  <2>1. /\ StageOf(ride_requests[id]) \in {"Open", "Matched"}
        /\ StageOf(ride_requests'[id]) \in {"Done", "CalledOff"}
        /\ StageOf(ride_requests[id]) = "Open" => StageOf(ride_requests'[id]) = "CalledOff"
    BY <1>2, <1>5, Stages DEF CANCELLABLE_STATUSES, ACTIVE_DRIVER_RIDE_STATUSES
  <2>2. RM(id)!End
    BY <1>2, <1>3, <1>4, <2>1 DEF RM!End
  <2> QED
    BY <2>2 DEF RM!MatchingNext
<1>6. CASE status \in {"ONCHAIN_ACCEPTED", "STARTED", "DISPUTED"}
  <2>1. /\ StageOf(ride_requests[id]) = "Matched"
        /\ StageOf(ride_requests'[id]) = "Matched"
    BY <1>2, <1>6, Stages DEF ACTIVE_DRIVER_RIDE_STATUSES
  <2>2. RM(id)!Carry
    BY <1>2, <1>3, <1>4, <2>1 DEF RM!Carry
  <2> QED
    BY <2>2 DEF RM!MatchingNext
<1> QED
  BY <1>5, <1>6

\* A new row of ride_requests is a post.
LEMMA CreateMatches ==
    ASSUME HistoryInv, NEW a \in Wallet, NEW id \in RideRequest, create_ride(a, id),
           told'[id] = FALSE
    PROVE  RM(id)!MatchingNext
<1>1. /\ ride_requests[id].status = "Absent"
      /\ ride_requests[id].driver = NoWallet
      /\ ride_requests'[id].status = "OPEN"
      /\ ride_requests'[id].driver = NoWallet
      /\ driver_offers' = driver_offers
      /\ told[id] = FALSE
  BY DEF create_ride, HistoryInv, Posted, MarketTypeOK, OpenIsUnmatched, ToldIsPosted
<1>2. Applicants(id)' = Applicants(id) /\ Chosen(id)' = Chosen(id)
  BY <1>1 DEF Applicants, Chosen, SelectedFor
<1>3. /\ StageOf(ride_requests[id]) = "None"
      /\ StageOf(ride_requests[id])' = "Open"
  BY <1>1 DEF StageOf
<1>4. RM(id)!Post
  BY <1>1, <1>2, <1>3 DEF RM!Post
<1> QED
  BY <1>4 DEF RM!MatchingNext

\* The selection of an offer is a match with a driver who applied.
LEMMA SelectMatches ==
    ASSUME HistoryInv, NEW a \in Wallet, NEW id \in RideRequest, NEW o \in OfferId,
           select_driver(a, id, o), told'[id] = FALSE
    PROVE  RM(id)!MatchingNext
<1>0. Posted /\ Agrees(id)
  BY DEF HistoryInv
<1>1. PICK d \in Wallet : d = driver_offers[o].driver
  BY <1>0, SelectFacts
<1>2. /\ ride_requests[id].status = "OPEN"
      /\ ride_requests'[id].status = "DRIVER_SELECTED"
      /\ ride_requests'[id].driver = d
      /\ driver_offers[o].ride = id
      /\ \A x \in OfferId : /\ driver_offers'[x].ride = driver_offers[x].ride
                            /\ driver_offers'[x].driver = driver_offers[x].driver
  BY <1>0, <1>1, SelectFacts
<1>3. d \in Applicants(id) /\ Applicants(id)' = Applicants(id)
  BY <1>1, <1>2 DEF Applicants
<1>4. SelectedFor(id)' = {o}
  BY <1>0, SelectSelects
<1>5. Chosen(id)' = d
  BY <1>1, <1>2, <1>4 DEF Chosen
<1>6. told[id] = FALSE
  BY <1>2 DEF HistoryInv, ToldIsPosted
<1>7. /\ StageOf(ride_requests[id]) = "Open"
      /\ StageOf(ride_requests[id])' = "Matched"
  BY <1>2 DEF StageOf
<1>8. RM(id)!Match(d)
  BY <1>2, <1>3, <1>5, <1>6, <1>7 DEF RM!Match
<1> QED
  BY <1>8 DEF RM!MatchingNext

\* The selection of an offer for another ride is not seen.
LEMMA SelectElsewhere ==
    ASSUME HistoryInv, NEW a \in Wallet, NEW id \in RideRequest, NEW o \in OfferId,
           NEW x \in RideRequest, x # id, select_driver(a, x, o), told'[id] = told[id]
    PROVE  UNCHANGED RM(id)!matchingVars
<1>0. Posted /\ Agrees(id)
  BY DEF HistoryInv
<1>1. /\ ride_requests'[id] = ride_requests[id]
      /\ SelectedFor(id)' = SelectedFor(id)
  BY <1>0, SelectSelects
<1>2. \A y \in OfferId : /\ driver_offers'[y].ride = driver_offers[y].ride
                         /\ driver_offers'[y].driver = driver_offers[y].driver
  BY <1>0, SelectFacts
<1>3. Applicants(id)' = Applicants(id)
  BY <1>2 DEF Applicants
<1>4. SelectedFor(id) \subseteq OfferId
  BY DEF SelectedFor
<1>5. Chosen(id)' = Chosen(id)
  BY <1>1, <1>2, <1>4 DEF Chosen
<1>6. StageOf(ride_requests[id])' = StageOf(ride_requests[id])
  BY <1>1 DEF StageOf
<1> QED
  BY <1>1, <1>3, <1>5, <1>6 DEF RM!matchingVars

\* The insertion of an offer is an application, whatever became of the ride
\* since create_offer read it.
LEMMA InsertMatches ==
    ASSUME HistoryInv, NEW id \in RideRequest, NEW h \in Handler, NEW o \in OfferId,
           InsertOffer(h, o), told' = told
    PROVE  RM(id)!MatchingNext \/ UNCHANGED RM(id)!matchingVars
<1>0. Posted
  BY DEF HistoryInv
<1>1. PICK x \in RideRequest, d \in Wallet : x = posting[h].ride /\ d = posting[h].driver
  BY <1>0, InsertFacts
<1>2. /\ ride_requests[x].status # "Absent"
      /\ driver_offers[o] = NoOffer
      /\ driver_offers'[o] = [ride |-> x, driver |-> d, status |-> "PENDING"]
      /\ \A y \in OfferId \ {o} : driver_offers'[y] = driver_offers[y]
      /\ ride_requests' = ride_requests
  BY <1>0, <1>1, InsertFacts, Zenon
<1>3. /\ driver_offers'[o].ride = x
      /\ driver_offers'[o].driver = d
      /\ driver_offers[o].ride \notin RideRequest
  BY <1>2, MarketAssumption DEF NoOffer
<1>4. SelectedFor(id)' = SelectedFor(id) /\ SelectedFor(id) \subseteq OfferId \ {o}
  <2>1. SelectedFor(id) \subseteq OfferId
    BY DEF SelectedFor
  <2> QED
    BY <1>0, <2>1, InsertSelectsNone
<1>5. Chosen(id)' = Chosen(id)
  BY <1>2, <1>4 DEF Chosen
<1>6. StageOf(ride_requests[id])' = StageOf(ride_requests[id])
  BY <1>2 DEF StageOf
<1>7. CASE id = x
  <2>1. Applicants(id)' = Applicants(id) \cup {d}
    BY <1>2, <1>3, <1>7 DEF Applicants
  <2>2. StageOf(ride_requests[id]) # "None"
    BY <1>0, <1>2, <1>7, PostedHasStage
  <2>3. RM(id)!Apply(d)
    BY <1>2, <1>5, <1>6, <2>1, <2>2 DEF RM!Apply
  <2> QED
    BY <2>3 DEF RM!MatchingNext
<1>8. CASE id # x
  <2>1. Applicants(id)' = Applicants(id)
    BY <1>2, <1>3, <1>8 DEF Applicants
  <2> QED
    BY <1>2, <1>5, <1>6, <2>1 DEF RM!matchingVars
<1> QED
  BY <1>7, <1>8

\* What an event reports of a ride, the chain may.
LEMMA ReportMatches ==
    ASSUME Posted, NEW id \in RideRequest, Reporting(id), told'[id] = TRUE
    PROVE  RM(id)!MatchingNext
<1>1. /\ ride_requests[id].status # "Absent"
      /\ ride_requests'[id].status \in ReportedStatus
      /\ ride_requests'[id].driver \in {ride_requests[id].driver} \cup Wallet
      /\ driver_offers' = driver_offers
  BY ReportFacts
<1>2. Applicants(id)' = Applicants(id) /\ Chosen(id)' = Chosen(id)
  BY <1>1 DEF Applicants, Chosen, SelectedFor
<1>3. StageOf(ride_requests[id]) # "None"
  BY <1>1, PostedHasStage
<1>4. StageOf(ride_requests[id])' \in {"Matched", "Done", "CalledOff"}
  BY <1>1 DEF StageOf, ReportedStatus
<1>5. RM(id)!Report
  BY <1>1, <1>2, <1>3, <1>4 DEF RM!Report
<1> QED
  BY <1>5 DEF RM!MatchingNext

\* Every step is, for each ride, a step of RideMatching or not seen.
LEMMA NextMatches ==
    ASSUME HistoryInv, [HistoryNext]_historyVars, NEW id \in RideRequest
    PROVE  RM(id)!MatchingNext \/ UNCHANGED RM(id)!matchingVars
<1>0. Posted /\ MarketTypeOK /\ told \in [RideRequest -> BOOLEAN]
  BY DEF HistoryInv, Posted, ToldIsPosted
<1>1. ASSUME NEW a \in Wallet, NEW x \in RideRequest, RideTransaction(a, x),
             told' = [told EXCEPT ![x] = FALSE]
      PROVE  RM(id)!MatchingNext \/ UNCHANGED RM(id)!matchingVars
  <2>1. CASE id = x
    <3>1. told'[id] = FALSE
      BY <1>0, <1>1, <2>1
    <3> QED
      BY <1>0, <1>1, <2>1, <3>1, TransactionCases, CreateMatches, SelectMatches, RestatusMatches
  <2>2. CASE id # x
    <3>1. told'[id] = told[id]
      BY <1>0, <1>1, <2>2
    <3>2. CASE \E o \in OfferId : select_driver(a, x, o)
      BY <2>2, <3>1, <3>2, SelectElsewhere
    <3>3. CASE create_ride(a, x)
      <4>1. ride_requests'[id] = ride_requests[id] /\ driver_offers' = driver_offers
        BY <1>0, <2>2, <3>3 DEF create_ride, MarketTypeOK
      <4> QED
        BY <3>1, <4>1, NothingChanges
    <3>4. CASE \E status : Restatus(x, status)
      <4>1. ride_requests'[id] = ride_requests[id] /\ driver_offers' = driver_offers
        BY <1>0, <2>2, <3>4 DEF Restatus, SetRideStatus, MarketTypeOK
      <4> QED
        BY <3>1, <4>1, NothingChanges
    <3> QED
      BY <1>0, <1>1, <3>2, <3>3, <3>4, TransactionCases
  <2> QED
    BY <2>1, <2>2
<1>2. ASSUME NEW x \in RideRequest, Reporting(x), told' = [told EXCEPT ![x] = TRUE]
      PROVE  RM(id)!MatchingNext \/ UNCHANGED RM(id)!matchingVars
  <2>1. CASE id = x
    BY <1>0, <1>2, <2>1, ReportMatches
  <2>2. CASE id # x
    BY <1>0, <1>2, <2>2, ReportFacts, NothingChanges
  <2> QED
    BY <2>1, <2>2
<1>3. CASE Offering /\ UNCHANGED told
  <2>1. CASE ride_requests' = ride_requests /\ driver_offers' = driver_offers
    BY <1>3, <2>1, NothingChanges
  <2> QED
    BY <1>0, <1>3, <2>1, ReadsPosted, InsertMatches DEF Offering
<1>4. CASE (Restart \/ UNCHANGED marketVars) /\ UNCHANGED told
  BY <1>4, NothingChanges DEF Restart, marketVars
<1> QED
  BY <1>1, <1>2, <1>3, <1>4 DEF HistoryNext, historyVars

\* The steps with the history are steps of the marketplace.
LEMMA HistoryIsMarket == [HistoryNext]_historyVars => [MarketNext]_marketVars
BY DEF HistoryNext, historyVars, MarketNext

\* Only a ride that was posted is told of, and it does not open again.
LEMMA NextTold ==
    ASSUME Posted, ToldIsPosted, [HistoryNext]_historyVars
    PROVE  ToldIsPosted'
<1> USE DEF ToldIsPosted
<1>1. ASSUME NEW a \in Wallet, NEW x \in RideRequest, RideTransaction(a, x),
             told' = [told EXCEPT ![x] = FALSE]
      PROVE  ToldIsPosted'
  <2>1. MarketTypeOK
    BY DEF Posted
  <2>2. \A id \in RideRequest \ {x} : ride_requests'[id] = ride_requests[id]
    <3>1. CASE \E o \in OfferId : select_driver(a, x, o)
      BY <3>1, SelectFacts
    <3>2. CASE create_ride(a, x)
      BY <2>1, <3>2 DEF create_ride, MarketTypeOK
    <3>3. CASE \E status : Restatus(x, status)
      BY <2>1, <3>3 DEF Restatus, SetRideStatus, MarketTypeOK
    <3> QED
      BY <1>1, <2>1, <3>1, <3>2, <3>3, TransactionCases
  <2> QED
    BY <1>1, <2>2
<1>2. ASSUME NEW x \in RideRequest, Reporting(x), told' = [told EXCEPT ![x] = TRUE]
      PROVE  ToldIsPosted'
  <2>1. /\ ride_requests'[x].status \notin {"Absent", "OPEN"}
        /\ \A id \in RideRequest \ {x} : ride_requests'[id] = ride_requests[id]
    BY <1>2, ReportFacts DEF ReportedStatus
  <2> QED
    BY <1>2, <2>1
<1>3. CASE (Offering \/ Restart \/ UNCHANGED marketVars) /\ UNCHANGED told
  BY <1>3 DEF Offering, ReadRide, ReadDuplicates, InsertOffer, Restart, marketVars
<1> QED
  BY <1>1, <1>2, <1>3 DEF HistoryNext, historyVars

\* The marketplace keeps what RideMatching promises of each ride: with any number of
\* drivers offering, cancelling and finishing at once, and the chain reporting any
\* status at any time, a ride is matched at most once, with a driver who offered and
\* stays the chosen one; a request ends it only if it has not ended, be it that an
\* event has reopened it; and no event opens it to offers again.
THEOREM MarketImplementsMatching == HistorySpec => ImplementsMatching
<1> DEFINE Matching == \A id \in RideRequest : RM(id)!MatchingInit
           Steps == \A id \in RideRequest : [RM(id)!MatchingNext]_(RM(id)!matchingVars)
<1>1. HistoryInit => HistoryInv /\ Matching
  <2> SUFFICES ASSUME HistoryInit PROVE HistoryInv /\ Matching
    OBVIOUS
  <2>1. Posted
    BY InitPosted DEF HistoryInit
  <2>2. \A id \in RideRequest : Agrees(id)
    BY MarketAssumption DEF HistoryInit, MarketInit, Agrees, SelectedFor, NoRide, NoOffer
  <2>3. ToldIsPosted
    BY DEF HistoryInit, ToldIsPosted
  <2>4. ASSUME NEW id \in RideRequest
        PROVE  RM(id)!MatchingInit
    <3>1. ride_requests[id] = NoRide /\ \A o \in OfferId : driver_offers[o] = NoOffer
      BY DEF HistoryInit, MarketInit
    <3>2. StageOf(ride_requests[id]) = "None" /\ ride_requests[id].driver = NoWallet
      BY <3>1 DEF StageOf, NoRide
    <3>3. Applicants(id) = {} /\ Chosen(id) = NoWallet
      BY <3>1, MarketAssumption DEF Applicants, Chosen, SelectedFor, NoOffer
    <3>4. told[id] = FALSE
      BY DEF HistoryInit
    <3> QED
      BY <3>2, <3>3, <3>4 DEF RM!MatchingInit
  <2> QED
    BY <2>1, <2>2, <2>3, <2>4 DEF HistoryInv
<1>2. HistoryInv /\ [HistoryNext]_historyVars => HistoryInv'
  BY NextPosted, NextAgrees, NextTold, HistoryIsMarket DEF HistoryInv
<1>3. HistoryInv /\ [HistoryNext]_historyVars => Steps
  BY NextMatches
<1> HIDE DEF Matching, Steps
<1>4. HistorySpec => Matching /\ [][Steps]_historyVars
  BY <1>1, <1>2, <1>3, PTL DEF HistorySpec
<1> QED
  BY <1>4 DEF ImplementsMatching, Matching, Steps

=============================================================================
