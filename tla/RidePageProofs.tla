---------------------------- MODULE RidePageProofs ----------------------------
(***************************************************************************)
(* Proofs about the rider's page, for every number of requests, offers,    *)
(* drivers, and polls and picks in flight.                                 *)
(***************************************************************************)
EXTENDS RidePage, TLAPS

\* What the page and its requests know of a ride.
Known(r)     == r \in Request /\ rides[r].status # "Absent"
Chosen(r, o) == r \in Request /\ o \in OfferId /\ rides[r].offer = o
Paid(r)      == r \in Request /\ rides[r].offer \in OfferId /\ payments[rides[r].offer] = 1

\* The statuses that mean the driver's escrow was paid.
AcceptedStatus == {"ONCHAIN_ACCEPTED", "STARTED"}

\* A status the page may believe of a ride, at any later time.
Claim(r, status) ==
    /\ Known(r) /\ status \in RideStatus
    /\ status \in AcceptedStatus => Paid(r)

-----------------------------------------------------------------------------
(***************************************************************************)
(* The invariant: of the backend and the contract, and of the page.        *)
(***************************************************************************)

RideHolds(r) ==
    /\ rides[r] \in Row
    /\ rides[r].offer = NoOffer <=> rides[r].status \in {"Absent", "OPEN"}
    /\ rides[r].offer # NoOffer => offers[rides[r].offer].ride = r
    /\ rides[r].status \in AcceptedStatus => Paid(r)

\* An offer was signed over a nonce its driver has had.
OfferHolds(o) ==
    /\ offers[o] \in OfferRow
    /\ offers[o] # NoRow =>
          /\ offers[o].ride \in Request /\ offers[o].driver \in Driver
          /\ offers[o].nonce <= driverNonces[offers[o].driver]

\* An offer that was paid is the chosen one, and its nonce is used up.
PaymentHolds(o) ==
    /\ payments[o] \in {0, 1}
    /\ payments[o] = 1 =>
          /\ Chosen(offers[o].ride, o)
          /\ offers[o].nonce < driverNonces[offers[o].driver]

\* The offers an acceptRide was sent for that is not mined.
Pending == {o \in OfferId : mempool[o] > 0}

ServerInv ==
    /\ rides \in [Request -> Row] /\ offers \in [OfferId -> OfferRow]
    /\ driverNonces \in [Driver -> Nat] /\ payments \in [OfferId -> Nat]
    /\ live \subseteq OfferId /\ mempool \in [OfferId -> Nat] /\ registered \in BOOLEAN
    /\ \A r \in Request : RideHolds(r)
    /\ \A o \in OfferId : OfferHolds(o) /\ PaymentHolds(o)
    /\ \A o \in Pending : Chosen(offers[o].ride, o)

ActiveHolds ==
    /\ shownOffers \subseteq OfferId
    /\ activeRide # Nothing =>
          /\ activeRide \in Shown
          /\ Claim(activeRide.id, activeRide.status)
          /\ activeRide.status = "OPEN" => shownOffers \subseteq OffersFor(activeRide.id)

PollHolds(p) == p \in Poll /\ Claim(p.id, p.status) /\ p.offers \subseteq OffersFor(p.id)
PickHolds(p) == p \in Pick /\ Known(p.ride)
PollsHold    == \A p \in polls : PollHolds(p)
PicksHold    == \A p \in picks : PickHolds(p)
PublishHolds == publishing \in {"no", "asked"} \/ Known(publishing)

PayHolds ==
    /\ pay \in Pay
    /\ pay.at # "idle" => Known(pay.ride)
    /\ pay.at \notin {"idle", "prepare"} => Chosen(pay.ride, pay.offer)
    /\ pay.at \in {"record", "notify"} => Paid(pay.ride)

ViewHolds == signedIn \in BOOLEAN /\ view \in {"away", "gate", "page", "crashed"}

PageInv == ActiveHolds /\ PollsHold /\ PicksHold /\ PublishHolds /\ PayHolds /\ ViewHolds

IInv == ServerInv /\ PageInv

-----------------------------------------------------------------------------
(***************************************************************************)
(* What the page knows stays true: no step takes it back.                  *)
(***************************************************************************)

Grows ==
    \A r \in Request :
        /\ Known(r) => Known(r)'
        /\ Paid(r) => Paid(r)'
        /\ \A o \in OfferId : /\ Chosen(r, o) => Chosen(r, o)'
                              /\ offers[o].ride = r => offers'[o].ride = r

\* Nothing the page knows of changes.
LEMMA GrowsIfSame ==
    ASSUME UNCHANGED <<rides, offers, payments>>
    PROVE  Grows
BY DEF Grows, Known, Paid, Chosen

\* What may be believed of a ride may be believed later.
LEMMA ClaimsGrow ==
    ASSUME Grows
    PROVE  /\ \A r \in Request : \A status : Claim(r, status) => Claim(r, status)'
           /\ \A r \in Request : \A s : s \subseteq OffersFor(r) => s \subseteq OffersFor(r)'
BY DEF Grows, Claim, OffersFor, Known

\* The page's parts, in a step that leaves them alone.
LEMMA ActiveKept ==
    ASSUME Grows, ActiveHolds, UNCHANGED <<activeRide, shownOffers>>
    PROVE  ActiveHolds'
<1>1. CASE activeRide = Nothing
  BY <1>1 DEF ActiveHolds
<1>2. CASE activeRide # Nothing
  <2>1. activeRide.id \in Request
    BY <1>2 DEF ActiveHolds, Shown
  <2>2. PICK r, status, s : r \in Request /\
           r = activeRide.id /\ status = activeRide.status /\ s = shownOffers
    BY <2>1
  <2>3. Claim(r, status) /\ (status = "OPEN" => s \subseteq OffersFor(r))
    BY <1>2, <2>2 DEF ActiveHolds
  <2>4. Claim(r, status)' /\ (status = "OPEN" => s \subseteq OffersFor(r)')
    BY <2>2, <2>3, ClaimsGrow
  <2> QED
    BY <1>2, <2>2, <2>4 DEF ActiveHolds
<1> QED
  BY <1>1, <1>2

\* A poll's answer stays good on its way.
LEMMA PollsGrow ==
    ASSUME Grows, NEW p, PollHolds(p)
    PROVE  PollHolds(p)'
<1>1. p.id \in Request
  BY DEF PollHolds, Poll
<1> QED
  BY <1>1, ClaimsGrow DEF PollHolds

\* So does a pick's.
LEMMA PicksGrow ==
    ASSUME Grows, NEW p, PickHolds(p)
    PROVE  PickHolds(p)'
BY DEF PickHolds, Grows, Known

\* And the published request's.
LEMMA PublishKept ==
    ASSUME Grows, PublishHolds, UNCHANGED publishing
    PROVE  PublishHolds'
BY DEF PublishHolds, Grows, Known

\* And that of a payment in progress.
LEMMA PayKept ==
    ASSUME Grows, PayHolds, UNCHANGED pay
    PROVE  PayHolds'
BY DEF PayHolds, Grows, Known, Chosen, Paid

\* The polls that are still on their way, cancelled or not.
LEMMA PollsKept ==
    ASSUME Grows, PollsHold, NEW kept, kept \subseteq polls,
           \/ polls' = kept
           \/ polls' = {[p EXCEPT !.live = FALSE] : p \in kept}
    PROVE  PollsHold'
<1>1. \A p \in kept : PollHolds(p)'
  BY PollsGrow DEF PollsHold
<1>2. ASSUME NEW p, PollHolds(p)'
      PROVE  PollHolds([p EXCEPT !.live = FALSE])'
  <2> DEFINE q == [p EXCEPT !.live = FALSE]
  <2>1. q \in Poll /\ q.id = p.id /\ q.status = p.status /\ q.offers = p.offers
    BY <1>2 DEF PollHolds, Poll
  <2> HIDE DEF q
  <2>2. PollHolds(q)'
    BY <1>2, <2>1 DEF PollHolds
  <2> QED
    BY <2>2 DEF q
<1> QED
  BY <1>1, <1>2 DEF PollsHold

\* The picks, whether the page they were made on is still there or not.
LEMMA PicksKept ==
    ASSUME Grows, PicksHold, NEW kept, kept \subseteq picks,
           \/ picks' = kept
           \/ picks' = {[p EXCEPT !.here = FALSE] : p \in kept}
    PROVE  PicksHold'
<1>1. \A p \in kept : PickHolds(p)'
  BY PicksGrow DEF PicksHold
<1>2. ASSUME NEW p, PickHolds(p)'
      PROVE  PickHolds([p EXCEPT !.here = FALSE])'
  <2> DEFINE q == [p EXCEPT !.here = FALSE]
  <2>1. q \in Pick /\ q.ride = p.ride
    BY <1>2 DEF PickHolds, Pick
  <2> HIDE DEF q
  <2>2. PickHolds(q)'
    BY <1>2, <2>1 DEF PickHolds
  <2> QED
    BY <2>2 DEF q
<1> QED
  BY <1>1, <1>2 DEF PicksHold

\* The page is told of a ride, and cancels the polls of another.
LEMMA Activated ==
    ASSUME Grows, PollsHold, NEW a, Activate(a),
           a = Nothing \/ (a \in Shown /\ Claim(a.id, a.status)'),
           shownOffers' \subseteq OfferId,
           a # Nothing /\ a.status = "OPEN" => shownOffers' \subseteq OffersFor(a.id)'
    PROVE  ActiveHolds' /\ PollsHold'
<1>1. activeRide' = a
  BY DEF Activate
<1>2. ActiveHolds'
  BY <1>1 DEF ActiveHolds
<1>3. PollsHold'
  BY PollsKept DEF Activate
<1> QED
  BY <1>2, <1>3

-----------------------------------------------------------------------------
(***************************************************************************)
(* The backend and the contract.                                           *)
(***************************************************************************)

\* The page alone changes, or a transaction is sent, or the rider registers.
LEMMA ServerSame ==
    ASSUME ServerInv, UNCHANGED <<rides, offers, driverNonces, payments>>,
           live' \subseteq live, registered' \in BOOLEAN,
           mempool' \in [OfferId -> Nat],
           Pending' \subseteq Pending \cup {o \in OfferId : Chosen(offers[o].ride, o)}
    PROVE  ServerInv' /\ Grows
<1>1. \A r \in Request : RideHolds(r)'
  BY DEF ServerInv, RideHolds, Paid
<1>2. \A o \in OfferId : OfferHolds(o)' /\ PaymentHolds(o)'
  BY DEF ServerInv, OfferHolds, PaymentHolds, Chosen
<1>3. \A o \in Pending' : Chosen(offers[o].ride, o)'
  BY DEF ServerInv, Chosen
<1> QED
  BY <1>1, <1>2, <1>3, GrowsIfSame DEF ServerInv

\* A ride's row is written, keeping the offer that was chosen.
LEMMA RideWritten ==
    ASSUME ServerInv, NEW r \in Request, NEW row \in Row,
           rides' = [rides EXCEPT ![r] = row],
           UNCHANGED <<offers, driverNonces, payments, live, mempool, registered>>,
           row.status # "Absent",
           row.offer = NoOffer <=> row.status = "OPEN",
           rides[r].offer # NoOffer => row.offer = rides[r].offer,
           row.offer # NoOffer => offers[row.offer].ride = r,
           row.status \in AcceptedStatus => row.offer \in OfferId /\ payments[row.offer] = 1
    PROVE  ServerInv' /\ Grows
<1>1. /\ rides' \in [Request -> Row]
      /\ rides'[r] = row
      /\ \A x \in Request \ {r} : rides'[x] = rides[x]
  BY DEF ServerInv
<1>2. Grows
  BY <1>1, RidePageAssumption DEF Grows, Known, Paid, Chosen
<1>3. \A x \in Request : RideHolds(x)'
  BY <1>1 DEF ServerInv, RideHolds, Paid
<1>4. \A x \in Request, o \in OfferId : Chosen(x, o) => Chosen(x, o)'
  BY <1>2 DEF Grows
<1>5. \A o \in OfferId : OfferHolds(o)' /\ PaymentHolds(o)'
  <2> SUFFICES ASSUME NEW o \in OfferId PROVE OfferHolds(o)' /\ PaymentHolds(o)'
    OBVIOUS
  <2>1. OfferHolds(o)'
    BY DEF ServerInv, OfferHolds
  <2>2. PaymentHolds(o)'
    BY <1>4 DEF ServerInv, PaymentHolds, Chosen
  <2> QED
    BY <2>1, <2>2
<1>6. \A o \in Pending' : Chosen(offers[o].ride, o)'
  BY <1>4 DEF ServerInv, Chosen, Pending
<1> QED
  BY <1>1, <1>2, <1>3, <1>5, <1>6 DEF ServerInv

\* A driver makes an offer for a ride.
LEMMA OfferWritten ==
    ASSUME ServerInv, NEW o \in OfferId, NEW r \in Request, NEW d \in Driver,
           OfferArrives(o, r, d)
    PROVE  ServerInv' /\ Grows
<1> DEFINE row == [ride |-> r, driver |-> d, nonce |-> driverNonces[d]]
<1>1. /\ offers' = [offers EXCEPT ![o] = row]
      /\ offers[o] = NoRow
      /\ UNCHANGED <<rides, driverNonces, payments, live, registered, mempool>>
  BY DEF OfferArrives, contractVars
<1>2. /\ row \in OfferRow /\ row.ride = r /\ row.driver = d
      /\ row.nonce = driverNonces[d] /\ driverNonces[d] \in Nat
  BY DEF ServerInv, OfferRow
<1> HIDE DEF row
<1>3. /\ offers' \in [OfferId -> OfferRow]
      /\ offers'[o] = row
      /\ \A x \in OfferId \ {o} : offers'[x] = offers[x]
  BY <1>1, <1>2 DEF ServerInv
<1>4. offers[o].ride \notin Request
  BY <1>1, RidePageAssumption DEF NoRow
<1>5. Grows
  BY <1>1, <1>3, <1>4 DEF Grows, Known, Paid, Chosen
<1>6. \A x \in Request : RideHolds(x)'
  <2> SUFFICES ASSUME NEW x \in Request PROVE RideHolds(x)'
    OBVIOUS
  <2>1. rides[x].offer # NoOffer => offers'[rides[x].offer].ride = x
    <3> SUFFICES ASSUME rides[x].offer # NoOffer PROVE offers'[rides[x].offer].ride = x
      OBVIOUS
    <3>1. rides[x].offer \in OfferId /\ offers[rides[x].offer].ride = x
      BY DEF ServerInv, RideHolds, Row
    <3>2. rides[x].offer # o
      BY <1>4, <3>1
    <3> QED
      BY <1>3, <3>1, <3>2
  <2> QED
    BY <1>1, <2>1 DEF ServerInv, RideHolds, Paid
<1>7. \A x \in OfferId : OfferHolds(x)' /\ PaymentHolds(x)'
  <2> SUFFICES ASSUME NEW x \in OfferId PROVE OfferHolds(x)' /\ PaymentHolds(x)'
    OBVIOUS
  <2>1. OfferHolds(x)'
    BY <1>1, <1>2, <1>3 DEF ServerInv, OfferHolds
  <2>2. PaymentHolds(x)'
    BY <1>1, <1>3, <1>4 DEF ServerInv, PaymentHolds, Chosen
  <2> QED
    BY <2>1, <2>2
<1>8. \A x \in Pending' : Chosen(offers[x].ride, x)'
  BY <1>1, <1>3, <1>4 DEF ServerInv, Chosen, Pending
<1> QED
  BY <1>1, <1>3, <1>5, <1>6, <1>7, <1>8 DEF ServerInv

\* A driver's nonce moves on, by a ride of another rider.
LEMMA NonceMoves ==
    ASSUME ServerInv, NEW d \in Driver, DriverRidesElsewhere(d)
    PROVE  ServerInv' /\ Grows
<1>1. /\ driverNonces' = [driverNonces EXCEPT ![d] = driverNonces[d] + 1]
      /\ UNCHANGED <<rides, offers, payments, live, registered, mempool>>
  BY DEF DriverRidesElsewhere, backendVars
<1>2. /\ driverNonces' \in [Driver -> Nat]
      /\ \A x \in Driver : driverNonces[x] \in Nat /\ driverNonces[x] <= driverNonces'[x]
  BY <1>1 DEF ServerInv
<1>3. \A x \in OfferId : OfferHolds(x)' /\ PaymentHolds(x)'
  <2> SUFFICES ASSUME NEW x \in OfferId PROVE OfferHolds(x)' /\ PaymentHolds(x)'
    OBVIOUS
  <2>1. offers[x].nonce \in Nat
    BY DEF ServerInv, OfferRow
  <2>2. OfferHolds(x)'
    BY <1>1, <1>2, <2>1 DEF ServerInv, OfferHolds
  <2>3. PaymentHolds(x)'
    <3>1. payments[x] = 1 => offers[x] # NoRow
      BY RidePageAssumption DEF ServerInv, PaymentHolds, Chosen, NoRow
    <3> QED
      BY <1>1, <1>2, <2>1, <3>1 DEF ServerInv, PaymentHolds, OfferHolds, Chosen
  <2> QED
    BY <2>2, <2>3
<1>4. \A r \in Request : RideHolds(r)'
  BY <1>1 DEF ServerInv, RideHolds, Paid
<1>5. \A o \in Pending' : Chosen(offers[o].ride, o)'
  BY <1>1 DEF ServerInv, Chosen, Pending
<1> QED
  BY <1>1, <1>2, <1>3, <1>4, <1>5, GrowsIfSame DEF ServerInv

\* A transaction is mined: the offer is paid if it was not, for the nonce moves on.
LEMMA MinedFacts ==
    ASSUME ServerInv, NEW o \in OfferId, Mined(o)
    PROVE  /\ ServerInv' /\ Grows
           /\ CanAccept(o) => payments'[o] = 1
           /\ Chosen(offers[o].ride, o) /\ UNCHANGED <<rides, offers>>
<1> DEFINE d == offers[o].driver
<1>1. /\ o \in OfferId /\ Chosen(offers[o].ride, o)
      /\ mempool' \in [OfferId -> Nat] /\ Pending' \subseteq Pending
      /\ UNCHANGED <<rides, offers, registered>>
  <2>1. /\ mempool[o] > 0
        /\ mempool' = [mempool EXCEPT ![o] = mempool[o] - 1]
        /\ UNCHANGED <<rides, offers, registered>>
        /\ mempool \in [OfferId -> Nat]
    BY DEF ServerInv, Mined, backendVars
  <2>2. /\ mempool' \in [OfferId -> Nat]
        /\ \A x \in OfferId : mempool'[x] > 0 => mempool[x] > 0
    BY <2>1
  <2>3. o \in Pending
    BY <2>1 DEF Pending
  <2> QED
    BY <2>1, <2>2, <2>3 DEF ServerInv, Pending
<1>2. CASE ~ CanAccept(o)
  BY <1>1, <1>2, ServerSame DEF Mined, ServerInv
<1>3. CASE CanAccept(o)
  <2>1. /\ driverNonces' = [driverNonces EXCEPT ![d] = driverNonces[d] + 1]
        /\ payments' = [payments EXCEPT ![o] = payments[o] + 1]
        /\ live' = live \cup {o}
        /\ driverNonces[d] = offers[o].nonce
    BY <1>3 DEF Mined, CanAccept
  <2>2. d \in Driver /\ offers[o].nonce \in Nat
    BY <1>1, RidePageAssumption DEF ServerInv, OfferHolds, Chosen, NoRow, OfferRow
  <2>3. payments[o] = 0
    BY <1>1, <2>1, <2>2 DEF ServerInv, PaymentHolds
  <2> HIDE DEF d
  <2>4. /\ payments' \in [OfferId -> Nat]
        /\ payments'[o] = 1
        /\ \A x \in OfferId \ {o} : payments'[x] = payments[x]
    BY <1>1, <2>1, <2>3 DEF ServerInv
  <2>5. /\ driverNonces' \in [Driver -> Nat]
        /\ driverNonces'[d] = offers[o].nonce + 1
        /\ \A x \in Driver : driverNonces[x] \in Nat /\ driverNonces[x] <= driverNonces'[x]
    BY <2>1, <2>2 DEF ServerInv
  <2>6. Grows
    BY <1>1, <2>3, <2>4 DEF Grows, Known, Paid, Chosen
  <2>7. \A r \in Request : RideHolds(r)'
    BY <1>1, <2>6 DEF ServerInv, RideHolds, Grows
  <2>8. \A x \in OfferId : OfferHolds(x)' /\ PaymentHolds(x)'
    <3> SUFFICES ASSUME NEW x \in OfferId PROVE OfferHolds(x)' /\ PaymentHolds(x)'
      OBVIOUS
    <3>1. offers[x].nonce \in Nat
      BY DEF ServerInv, OfferRow
    <3>2. OfferHolds(x)'
      BY <1>1, <2>5, <3>1 DEF ServerInv, OfferHolds
    <3>3. CASE x = o
      <4>1. Chosen(offers[o].ride, o)'
        BY <1>1 DEF Chosen
      <4>2. offers[o].nonce < driverNonces'[offers[o].driver]
        BY <2>2, <2>5 DEF d
      <4> QED
        BY <1>1, <2>4, <3>2, <3>3, <4>1, <4>2 DEF PaymentHolds
    <3>4. CASE x # o
      <4>1. payments[x] = 1 => offers[x] # NoRow
        BY RidePageAssumption DEF ServerInv, PaymentHolds, Chosen, NoRow
      <4> QED
        BY <1>1, <2>4, <2>5, <3>1, <3>2, <3>4, <4>1
        DEF ServerInv, PaymentHolds, OfferHolds, Chosen
    <3> QED
      BY <3>2, <3>3, <3>4
  <2>9. \A x \in Pending' : Chosen(offers[x].ride, x)'
    BY <1>1 DEF ServerInv, Chosen
  <2> QED
    BY <1>1, <2>1, <2>4, <2>5, <2>6, <2>7, <2>8, <2>9 DEF ServerInv
<1> QED
  BY <1>2, <1>3

\* The backend selects the offer that was picked.
LEMMA PickServedFacts ==
    ASSUME ServerInv, NEW p, PickHolds(p), PickServed(p)
    PROVE  ServerInv' /\ Grows
<1> DEFINE row == [status |-> "DRIVER_SELECTED", offer |-> p.offer]
<1>1. /\ rides' = [rides EXCEPT ![p.ride] = row]
      /\ rides[p.ride].status = "OPEN" /\ offers[p.offer].ride = p.ride
      /\ UNCHANGED <<offers, driverNonces, payments, live, mempool, registered>>
  BY DEF PickServed, contractVars
<1>2. p.ride \in Request /\ p.offer \in OfferId
  BY DEF PickHolds, Pick
<1>3. row \in Row /\ row.status = "DRIVER_SELECTED" /\ row.offer = p.offer
  BY <1>2 DEF Row, RideStatus
<1> HIDE DEF row
<1>4. rides[p.ride].offer = NoOffer
  BY <1>1, <1>2 DEF ServerInv, RideHolds
<1>5. row.offer # NoOffer
  BY <1>2, <1>3, RidePageAssumption
<1>6. row.status \notin AcceptedStatus
  BY <1>3 DEF AcceptedStatus
<1> QED
  BY <1>1, <1>2, <1>3, <1>4, <1>5, <1>6, RideWritten

\* The backend is told of a request, or of what became of a ride.
LEMMA StatusWritten ==
    ASSUME ServerInv, NEW r \in Request, NEW status \in RideStatus \ {"OPEN", "DRIVER_SELECTED"},
           rides[r].status \notin {"Absent", "OPEN"},
           status \in AcceptedStatus => Paid(r),
           rides' = [rides EXCEPT ![r].status = status],
           UNCHANGED <<offers, driverNonces, payments, live, mempool, registered>>
    PROVE  ServerInv' /\ Grows
<1> DEFINE row == [rides[r] EXCEPT !.status = status]
<1>1. /\ rides' = [rides EXCEPT ![r] = row]
      /\ row \in Row /\ row.status = status /\ row.offer = rides[r].offer
  BY DEF ServerInv, Row
<1>2. /\ rides[r].offer # NoOffer /\ offers[rides[r].offer].ride = r
  BY DEF ServerInv, RideHolds
<1>3. row.status # "OPEN" /\ row.status # "Absent"
  BY <1>1 DEF RideStatus
<1>4. row.status \in AcceptedStatus => row.offer \in OfferId /\ payments[row.offer] = 1
  BY <1>1 DEF Paid
<1> HIDE DEF row
<1>5. /\ row.offer = NoOffer <=> row.status = "OPEN"
      /\ rides[r].offer # NoOffer => row.offer = rides[r].offer
      /\ row.offer # NoOffer => offers[row.offer].ride = r
      /\ row \in Row
  BY <1>1, <1>2, <1>3
<1>6. rides' = [rides EXCEPT ![r] = row]
  BY <1>1
<1> QED
  BY <1>3, <1>4, <1>5, <1>6, RideWritten

-----------------------------------------------------------------------------
(***************************************************************************)
(* The steps of the page.                                                  *)
(***************************************************************************)

\* Coming, going and reloading.
LEMMA Visiting ==
    ASSUME IInv, OpenPage \/ LeavePage \/ Reload \/ \E s \in BOOLEAN : SignedInBecomes(s)
    PROVE  IInv'
<1>1. ServerInv' /\ Grows
  BY ServerSame DEF IInv, ServerInv, Pending, OpenPage, LeavePage, Reload, SignedInBecomes, backendVars,
                    contractVars
<1>2. ViewHolds'
  BY DEF IInv, PageInv, ViewHolds, OpenPage, LeavePage, Reload, SignedInBecomes, Unmount
<1>3. CASE UNCHANGED <<activeRide, shownOffers, publishing, polls, picks, pay>>
  <2>1. PollsHold' /\ PicksHold'
    BY <1>1, <1>3, PollsKept, PicksKept DEF IInv, PageInv
  <2> QED
    BY <1>1, <1>2, <1>3, <2>1, ActiveKept, PublishKept, PayKept DEF IInv, PageInv
<1>4. CASE \E to \in {"away", "crashed"} : Unmount(to)
  <2>1. /\ Activate(Nothing) /\ shownOffers' = {} /\ publishing' = "no"
        /\ picks' = {[p EXCEPT !.here = FALSE] : p \in picks}
        /\ pay' = IF pay.at = "idle" THEN NotPaying ELSE [pay EXCEPT !.here = FALSE]
    BY <1>4 DEF Unmount
  <2>2. ActiveHolds' /\ PollsHold'
    BY <1>1, <2>1, Activated DEF IInv, PageInv
  <2>3. PicksHold'
    BY <1>1, <2>1, PicksKept DEF IInv, PageInv
  <2>4. PayHolds'
    <3>1. PICK p : p = pay'
      OBVIOUS
    <3>2. p \in Pay /\ p.at = pay.at
      BY <2>1, <3>1 DEF IInv, PageInv, PayHolds, Pay, NotPaying
    <3>3. pay.at # "idle" => p.ride = pay.ride /\ p.offer = pay.offer
      BY <2>1, <3>1 DEF IInv, PageInv, PayHolds, Pay
    <3> QED
      BY <1>1, <3>1, <3>2, <3>3 DEF IInv, PageInv, PayHolds, Grows, Known, Chosen, Paid
  <2>5. PublishHolds'
    BY <2>1 DEF PublishHolds
  <2> QED
    BY <1>1, <1>2, <2>2, <2>3, <2>4, <2>5 DEF IInv, PageInv
<1>5. CASE Reload
  BY <1>1, <1>2, <1>5
  DEF Reload, IInv, PageInv, ActiveHolds, PollsHold, PicksHold, PublishHolds, PayHolds, NotPaying, Pay
<1> QED
  BY <1>3, <1>4, <1>5 DEF OpenPage, LeavePage, SignedInBecomes

\* Publishing.
LEMMA Publishing ==
    ASSUME IInv,
           \/ publishRide \/ PublishAnswered \/ PublishFails
           \/ \E r \in Request : PublishServed(r)
    PROVE  IInv'
<1>1. ServerInv' /\ Grows
  <2>1. CASE publishRide \/ PublishAnswered \/ PublishFails
    BY <2>1, ServerSame DEF IInv, ServerInv, Pending, publishRide, PublishAnswered, PublishFails,
                            backendVars, contractVars
  <2>2. CASE \E r \in Request : PublishServed(r)
    <3>1. PICK r \in Request : PublishServed(r)
      BY <2>2
    <3> DEFINE row == [rides[r] EXCEPT !.status = "OPEN"]
    <3>2. /\ rides' = [rides EXCEPT ![r] = row]
          /\ rides[r] = Absent
          /\ UNCHANGED <<offers, driverNonces, payments, live, mempool, registered>>
      BY <3>1 DEF PublishServed, contractVars
    <3>3. row \in Row /\ row.status = "OPEN" /\ row.offer = NoOffer /\ rides[r].offer = NoOffer
      BY <3>2 DEF Row, RideStatus, Absent
    <3>4. row.status \notin AcceptedStatus
      BY <3>3 DEF AcceptedStatus
    <3> HIDE DEF row
    <3> QED
      BY <3>2, <3>3, <3>4, RideWritten DEF IInv
  <2> QED
    BY <2>1, <2>2
<1>2. UNCHANGED <<signedIn, view, picks, pay>>
  BY DEF publishRide, PublishAnswered, PublishFails, PublishServed
<1>3. PicksHold' /\ PayHolds' /\ ViewHolds'
  BY <1>1, <1>2, PicksKept, PayKept DEF IInv, PageInv, ViewHolds
<1>4. CASE publishRide \/ PublishFails \/ \E r \in Request : PublishServed(r)
  <2>1. UNCHANGED <<activeRide, shownOffers, polls>>
    BY <1>4 DEF publishRide, PublishFails, PublishServed
  <2>2. PublishHolds'
    BY <1>4 DEF publishRide, PublishFails, PublishServed, PublishHolds, Known, IInv, ServerInv,
                Row, Absent
  <2> QED
    BY <1>1, <1>3, <2>1, <2>2, ActiveKept, PollsKept DEF IInv, PageInv
<1>5. CASE PublishAnswered
  <2> DEFINE a == [id |-> publishing, status |-> "OPEN"]
  <2>1. Activate(a) /\ shownOffers' = {} /\ publishing' = "no"
        /\ publishing \in Request /\ rides' = rides
    BY <1>5 DEF PublishAnswered, backendVars
  <2>2. Known(publishing)
    BY <2>1, RidePageAssumption DEF IInv, PageInv, PublishHolds
  <2>3. a \in Shown /\ a.id = publishing /\ a.status = "OPEN"
    BY <2>1 DEF Shown, RideStatus
  <2> HIDE DEF a
  <2>4. PICK x : x = a
    OBVIOUS
  <2>5. x \in Shown /\ Claim(x.id, x.status)'
    BY <2>1, <2>2, <2>3, <2>4 DEF Claim, Known, RideStatus, AcceptedStatus
  <2>6. ActiveHolds' /\ PollsHold'
    BY <1>1, <2>1, <2>4, <2>5, Activated DEF IInv, PageInv
  <2>7. PublishHolds'
    BY <2>1 DEF PublishHolds
  <2> QED
    BY <1>1, <1>3, <2>6, <2>7 DEF IInv, PageInv
<1> QED
  BY <1>4, <1>5

\* Watching a request, and dropping it.
LEMMA Watching ==
    ASSUME IInv,
           \/ PollServed \/ cancelRide \/ BookAnother
           \/ \E p \in polls : PollAnswers(p) \/ PollFails(p)
    PROVE  IInv'
<1>1. /\ UNCHANGED <<rides, offers, driverNonces, payments, live, registered, mempool>>
      /\ UNCHANGED <<signedIn, view, publishing, picks, pay>>
  BY DEF PollServed, cancelRide, BookAnother, PollAnswers, PollFails, backendVars, contractVars
<1>2. ServerInv' /\ Grows
  BY <1>1, ServerSame DEF IInv, ServerInv, Pending
<1>3. PicksHold' /\ PayHolds' /\ ViewHolds' /\ PublishHolds'
  BY <1>1, <1>2, PicksKept, PayKept, PublishKept DEF IInv, PageInv, ViewHolds
<1>4. CASE PollServed
  <2> DEFINE p == [id |-> activeRide.id, status |-> rides[activeRide.id].status,
                   offers |-> OffersFor(activeRide.id), live |-> TRUE]
  <2>1. /\ polls' = polls \cup {p} /\ activeRide # Nothing
        /\ UNCHANGED <<activeRide, shownOffers>>
    BY <1>4 DEF PollServed
  <2>2. /\ activeRide.id \in Request /\ Known(activeRide.id)
    BY <2>1 DEF IInv, PageInv, ActiveHolds, Shown, Claim
  <2>3. /\ rides[activeRide.id].status \in RideStatus
        /\ OffersFor(activeRide.id) \subseteq OfferId
        /\ rides[activeRide.id].status \in AcceptedStatus => Paid(activeRide.id)
    BY <2>2 DEF IInv, ServerInv, RideHolds, Known, Row, OffersFor
  <2>4. /\ p \in Poll /\ p.id = activeRide.id /\ p.status = rides[activeRide.id].status
        /\ p.offers = OffersFor(activeRide.id)
    BY <2>2, <2>3 DEF Poll
  <2>5. PICK q : q = p
    OBVIOUS
  <2> HIDE DEF p
  <2>6. PollHolds(q)
    BY <2>2, <2>3, <2>4, <2>5 DEF PollHolds, Claim
  <2>7. PollsHold'
    BY <1>2, <2>1, <2>5, <2>6, PollsGrow DEF IInv, PageInv, PollsHold
  <2> QED
    BY <1>2, <1>3, <2>1, <2>7, ActiveKept DEF IInv, PageInv
<1>5. CASE cancelRide \/ BookAnother
  <2>1. Activate(Nothing) /\ shownOffers' \subseteq OfferId
    BY <1>5 DEF cancelRide, BookAnother, IInv, PageInv, ActiveHolds
  <2> QED
    BY <1>2, <1>3, <2>1, Activated DEF IInv, PageInv
<1>6. ASSUME NEW p \in polls, PollAnswers(p) \/ PollFails(p)
      PROVE  IInv'
  <2>1. polls' = polls \ {p}
    BY <1>6 DEF PollAnswers, PollFails
  <2>2. PollsHold'
    BY <1>2, <2>1, PollsKept DEF IInv, PageInv
  <2>3. CASE UNCHANGED <<activeRide, shownOffers>>
    BY <1>2, <1>3, <2>2, <2>3, ActiveKept DEF IInv, PageInv
  <2>4. CASE activeRide' = [id |-> p.id, status |-> p.status] /\ shownOffers' = p.offers
    <3>1. PollHolds(p)'
      BY <1>2, PollsGrow DEF IInv, PageInv, PollsHold
    <3>2. /\ activeRide' \in Shown /\ activeRide'.id = p.id /\ activeRide'.status = p.status
          /\ shownOffers' \subseteq OfferId
      BY <2>4, <3>1 DEF PollHolds, Poll, Shown
    <3>3. ActiveHolds'
      BY <2>4, <3>1, <3>2 DEF ActiveHolds, PollHolds
    <3> QED
      BY <1>2, <1>3, <2>2, <3>3 DEF IInv, PageInv
  <2> QED
    BY <1>6, <2>3, <2>4 DEF PollAnswers, PollFails
<1> QED
  BY <1>4, <1>5, <1>6

\* Picking an offer.
LEMMA Picking ==
    ASSUME IInv,
           \/ \E o \in OfferId : pickOffer(o)
           \/ \E p \in picks : PickServed(p) \/ PickAnswered(p) \/ PickFails(p)
    PROVE  IInv'
<1>1. ServerInv' /\ Grows
  <2>1. CASE \E o \in OfferId : pickOffer(o)
    BY <2>1, ServerSame DEF IInv, ServerInv, Pending, pickOffer, backendVars, contractVars
  <2>2. CASE \E p \in picks : PickAnswered(p) \/ PickFails(p)
    BY <2>2, ServerSame DEF IInv, ServerInv, Pending, PickAnswered, PickFails, backendVars, contractVars
  <2>3. CASE \E p \in picks : PickServed(p)
    BY <2>3, PickServedFacts DEF IInv, PageInv, PicksHold
  <2> QED
    BY <2>1, <2>2, <2>3
<1>2. UNCHANGED <<signedIn, view, shownOffers, publishing, pay>>
  BY DEF pickOffer, PickServed, PickAnswered, PickFails
<1>3. PayHolds' /\ ViewHolds' /\ PublishHolds'
  BY <1>1, <1>2, PayKept, PublishKept DEF IInv, PageInv, ViewHolds
<1>4. CASE UNCHANGED <<activeRide, polls>>
  <2>1. ActiveHolds' /\ PollsHold'
    BY <1>1, <1>2, <1>4, ActiveKept, PollsKept DEF IInv, PageInv
  <2>2. PicksHold'
    <3>1. CASE \E o \in OfferId : pickOffer(o)
      <4>1. PICK o \in OfferId : pickOffer(o)
        BY <3>1
      <4> DEFINE p == [ride |-> activeRide.id, offer |-> o, served |-> FALSE, here |-> TRUE]
      <4>2. picks' = picks \cup {p} /\ activeRide.status = "OPEN"
        BY <4>1 DEF pickOffer, Pickable, searching
      <4>3. activeRide.id \in Request /\ Known(activeRide.id)
        BY <4>2 DEF IInv, PageInv, ActiveHolds, Shown, Claim, Nothing
      <4>4. p \in Pick /\ p.ride = activeRide.id
        BY <4>3 DEF Pick
      <4>5. PICK q : q = p
        OBVIOUS
      <4> HIDE DEF p
      <4>6. PickHolds(q)
        BY <4>3, <4>4, <4>5 DEF PickHolds
      <4> QED
        BY <1>1, <4>2, <4>5, <4>6, PicksGrow DEF IInv, PageInv, PicksHold
    <3>2. ASSUME NEW p \in picks, PickAnswered(p) \/ PickFails(p)
          PROVE  PicksHold'
      <4>1. picks' = picks \ {p}
        BY <3>2 DEF PickAnswered, PickFails
      <4> QED
        BY <1>1, <4>1, PicksKept DEF IInv, PageInv
    <3>3. ASSUME NEW p \in picks, PickServed(p)
          PROVE  PicksHold'
      <4> DEFINE q == [p EXCEPT !.served = TRUE]
      <4>1. picks' = (picks \ {p}) \cup {q}
        BY <3>3 DEF PickServed
      <4>2. PickHolds(p)
        BY DEF IInv, PageInv, PicksHold
      <4>3. q \in Pick /\ q.ride = p.ride
        BY <4>2 DEF PickHolds, Pick
      <4> HIDE DEF q
      <4>4. PickHolds(q)
        BY <4>2, <4>3 DEF PickHolds
      <4> QED
        BY <1>1, <4>1, <4>4, PicksGrow DEF IInv, PageInv, PicksHold
    <3> QED
      BY <3>1, <3>2, <3>3
  <2> QED
    BY <1>1, <1>3, <2>1, <2>2 DEF IInv, PageInv
<1>5. ASSUME NEW p \in picks, PickAnswered(p), p.here
      PROVE  IInv'
  <2> DEFINE a == [id |-> p.ride, status |-> "DRIVER_SELECTED"]
  <2>1. Activate(a) /\ picks' = picks \ {p}
    BY <1>5 DEF PickAnswered
  <2>2. PickHolds(p)'
    BY <1>1, PicksGrow DEF IInv, PageInv, PicksHold
  <2>3. a \in Shown /\ a.id = p.ride /\ a.status = "DRIVER_SELECTED"
    BY <2>2 DEF PickHolds, Pick, Shown, RideStatus
  <2> HIDE DEF a
  <2>4. Claim(a.id, a.status)'
    BY <2>2, <2>3 DEF Claim, PickHolds, RideStatus, AcceptedStatus
  <2>5. ActiveHolds' /\ PollsHold'
    <3>1. shownOffers' \subseteq OfferId
      BY <1>2 DEF IInv, PageInv, ActiveHolds
    <3> QED
      BY <1>1, <2>1, <2>3, <2>4, <3>1, Activated DEF IInv, PageInv
  <2>6. PicksHold'
    BY <1>1, <2>1, PicksKept DEF IInv, PageInv
  <2> QED
    BY <1>1, <1>3, <2>5, <2>6 DEF IInv, PageInv
<1> QED
  BY <1>4, <1>5 DEF pickOffer, PickServed, PickAnswered, PickFails

\* acceptRideOnChain, up to the wallet.
LEMMA PayingKeeps ==
    ASSUME IInv, ServerInv', Grows, NEW p, Paying(p),
           p \in Pay,
           p.at # "idle" => Known(p.ride)',
           p.at \notin {"idle", "prepare"} => Chosen(p.ride, p.offer)',
           p.at \in {"record", "notify"} => Paid(p.ride)'
    PROVE  IInv'
<1>1. UNCHANGED <<signedIn, view, activeRide, shownOffers, publishing, polls, picks>> /\ pay' = p
  BY DEF Paying
<1>2. PayHolds'
  BY <1>1 DEF PayHolds
<1>3. ActiveHolds' /\ PollsHold' /\ PicksHold' /\ PublishHolds' /\ ViewHolds'
  BY <1>1, ActiveKept, PollsKept, PicksKept, PublishKept DEF IInv, PageInv, ViewHolds
<1> QED
  BY <1>2, <1>3 DEF IInv, PageInv

\* A payment goes on, or is given up.
LEMMA PayMoves ==
    ASSUME IInv,
           \/ acceptRideOnChain \/ PayPrepared \/ PayRegistered \/ PaySent
           \/ PayRecorded \/ PayFails
    PROVE  IInv'
<1>1. /\ UNCHANGED <<rides, offers, driverNonces, payments, live>>
      /\ registered' \in BOOLEAN
      /\ mempool' \in [OfferId -> Nat]
      /\ Pending' \subseteq Pending \cup {o \in OfferId : Chosen(offers[o].ride, o)}
  <2>1. CASE ~ PaySent
    BY <2>1 DEF acceptRideOnChain, PayPrepared, PayRegistered, PayRecorded, PayFails, backendVars,
                contractVars, IInv, ServerInv, Pending
  <2>2. CASE PaySent
    <3>1. /\ UNCHANGED <<rides, offers, driverNonces, payments, live, registered>>
          /\ mempool' = [mempool EXCEPT ![pay.offer] = mempool[pay.offer] + 1]
          /\ pay.at = "send"
      BY <2>2 DEF PaySent, backendVars, contractVars
    <3>2. Chosen(pay.ride, pay.offer)
      BY <3>1 DEF IInv, PageInv, PayHolds
    <3>3. pay.offer \in OfferId /\ offers[pay.offer].ride = pay.ride
      BY <3>2, RidePageAssumption DEF Chosen, IInv, ServerInv, RideHolds
    <3>4. /\ mempool' \in [OfferId -> Nat]
          /\ \A x \in OfferId \ {pay.offer} : mempool'[x] = mempool[x]
      BY <3>1, <3>3 DEF IInv, ServerInv
    <3> QED
      BY <3>1, <3>2, <3>3, <3>4 DEF IInv, ServerInv, Pending
  <2> QED
    BY <2>1, <2>2
<1>2. ServerInv' /\ Grows
  BY <1>1, ServerSame DEF IInv
<1>3. CASE PayFails
  <2>1. Paying(NotPaying) /\ NotPaying \in Pay /\ NotPaying.at = "idle"
    BY <1>3 DEF PayFails, NotPaying, Pay
  <2> QED
    BY <1>2, <2>1, PayingKeeps
<1>4. CASE acceptRideOnChain
  <2>1. /\ Paying([NotPaying EXCEPT !.at = "prepare", !.ride = activeRide.id])
        /\ activeRide.status = "DRIVER_SELECTED"
    BY <1>4 DEF acceptRideOnChain, accepted
  <2>2. activeRide.id \in Request /\ Known(activeRide.id)
    BY <2>1 DEF IInv, PageInv, ActiveHolds, Shown, Claim, Nothing
  <2>3. PICK p : p = [NotPaying EXCEPT !.at = "prepare", !.ride = activeRide.id]
    OBVIOUS
  <2>4. p \in Pay /\ p.at = "prepare" /\ p.ride = activeRide.id
    BY <2>2, <2>3 DEF NotPaying, Pay
  <2>5. Known(p.ride)'
    BY <1>1, <2>2, <2>4 DEF Known
  <2> QED
    BY <1>2, <2>1, <2>3, <2>4, <2>5, PayingKeeps
<1>5. CASE PayPrepared
  <2>1. /\ Paying([pay EXCEPT !.at = "register", !.offer = rides[pay.ride].offer])
        /\ pay.at = "prepare" /\ rides[pay.ride].status = "DRIVER_SELECTED"
    BY <1>5 DEF PayPrepared
  <2>2. pay \in Pay /\ Known(pay.ride)
    BY <2>1 DEF IInv, PageInv, PayHolds
  <2>3. rides[pay.ride].offer \in OfferId
    BY <2>1, <2>2 DEF Known, IInv, ServerInv, RideHolds, Row
  <2>4. PICK p : p = [pay EXCEPT !.at = "register", !.offer = rides[pay.ride].offer]
    OBVIOUS
  <2>5. p \in Pay /\ p.at = "register" /\ p.ride = pay.ride /\ p.offer = rides[pay.ride].offer
    BY <2>2, <2>3, <2>4 DEF Pay
  <2>6. Known(p.ride)' /\ Chosen(p.ride, p.offer)'
    BY <1>1, <2>2, <2>3, <2>5 DEF Known, Chosen
  <2> QED
    BY <1>2, <2>1, <2>4, <2>5, <2>6, PayingKeeps
<1>6. ASSUME NEW at \in {"send", "mining", "notify"}, Paying([pay EXCEPT !.at = at]),
             pay.at \notin {"idle", "prepare"}, at = "notify" => pay.at = "record"
      PROVE  IInv'
  <2>1. /\ pay \in Pay /\ Known(pay.ride) /\ Chosen(pay.ride, pay.offer)
        /\ at = "notify" => Paid(pay.ride)
    BY <1>6 DEF IInv, PageInv, PayHolds
  <2>2. PICK p : p = [pay EXCEPT !.at = at]
    OBVIOUS
  <2>3. p \in Pay /\ p.at = at /\ p.ride = pay.ride /\ p.offer = pay.offer
    BY <2>1, <2>2 DEF Pay
  <2>4. /\ Known(p.ride)' /\ Chosen(p.ride, p.offer)'
        /\ at = "notify" => Paid(p.ride)'
    BY <1>1, <2>1, <2>3 DEF Known, Chosen, Paid
  <2> QED
    BY <1>2, <1>6, <2>2, <2>3, <2>4, PayingKeeps
<1> QED
  BY <1>3, <1>4, <1>5, <1>6 DEF PayRegistered, PaySent, PayRecorded

\* The backend and the page are told that the ride was paid for.
LEMMA NotifiedKeeps ==
    ASSUME IInv, PayNotified
    PROVE  IInv'
<1>1. /\ pay.at = "notify" /\ rides[pay.ride].status \in {"DRIVER_SELECTED", "ONCHAIN_ACCEPTED"}
      /\ rides' = [rides EXCEPT ![pay.ride].status = "ONCHAIN_ACCEPTED"]
      /\ pay' = NotPaying
      /\ UNCHANGED <<offers, driverNonces, payments, live, registered, mempool>>
      /\ UNCHANGED <<signedIn, view, shownOffers, publishing, picks>>
  BY DEF PayNotified, contractVars
<1>2. PICK r \in Request : r = pay.ride /\ Paid(r)
  BY <1>1 DEF IInv, PageInv, PayHolds, Known
<1>3. ServerInv' /\ Grows
  BY <1>1, <1>2, StatusWritten DEF IInv, RideStatus
<1>4. PicksHold' /\ PublishHolds' /\ ViewHolds'
  BY <1>1, <1>3, PicksKept, PublishKept DEF IInv, PageInv, ViewHolds
<1>5. PayHolds'
  BY <1>1 DEF PayHolds, NotPaying, Pay
<1>6. ActiveHolds' /\ PollsHold'
  <2>1. CASE pay.here
    <3> DEFINE a == [id |-> r, status |-> "ONCHAIN_ACCEPTED"]
    <3>1. Activate(a)
      BY <1>2, <2>1 DEF PayNotified
    <3>2. a \in Shown /\ a.id = r /\ a.status = "ONCHAIN_ACCEPTED"
      BY DEF Shown, RideStatus
    <3> HIDE DEF a
    <3>3. Known(r)' /\ Paid(r)'
      BY <1>1, <1>2, <1>3 DEF Grows, Known, IInv, PageInv, PayHolds
    <3>4. Claim(a.id, a.status)'
      BY <3>2, <3>3 DEF Claim, RideStatus
    <3>5. shownOffers' \subseteq OfferId
      BY <1>1 DEF IInv, PageInv, ActiveHolds
    <3> QED
      BY <1>3, <3>1, <3>2, <3>4, <3>5, Activated DEF IInv, PageInv
  <2>2. CASE ~ pay.here
    <3>1. UNCHANGED <<activeRide, polls>>
      BY <2>2 DEF PayNotified
    <3> QED
      BY <1>1, <1>3, <3>1, ActiveKept, PollsKept DEF IInv, PageInv
  <2> QED
    BY <2>1, <2>2
<1> QED
  BY <1>3, <1>4, <1>5, <1>6 DEF IInv, PageInv

\* A transaction that is mined moves on the payment that waits for it.
LEMMA MinedKeeps ==
    ASSUME IInv, NEW o \in OfferId, Mined(o)
    PROVE  IInv'
<1>1. /\ ServerInv' /\ Grows
      /\ CanAccept(o) => payments'[o] = 1
      /\ UNCHANGED <<rides, offers>>
      /\ o \in OfferId
  BY MinedFacts DEF IInv, ServerInv
<1>2. Paying(IF pay.at # "mining" \/ pay.offer # o \/ mempool[o] > 1 THEN pay
             ELSE IF CanAccept(o) THEN [pay EXCEPT !.at = "record"] ELSE NotPaying)
  BY DEF Mined
<1>3. CASE Paying(pay)
  <2>1. UNCHANGED <<signedIn, view, activeRide, shownOffers, publishing, polls, picks, pay>>
    BY <1>3 DEF Paying
  <2> QED
    BY <1>1, <2>1, ActiveKept, PollsKept, PicksKept, PublishKept, PayKept
    DEF IInv, PageInv, ViewHolds
<1>4. CASE Paying(NotPaying)
  <2>1. NotPaying \in Pay /\ NotPaying.at = "idle"
    BY DEF NotPaying, Pay
  <2> QED
    BY <1>1, <1>4, <2>1, PayingKeeps
<1>5. CASE Paying([pay EXCEPT !.at = "record"]) /\ pay.at = "mining" /\ pay.offer = o /\ CanAccept(o)
  <2>1. pay \in Pay /\ Known(pay.ride) /\ Chosen(pay.ride, pay.offer)
    BY <1>5 DEF IInv, PageInv, PayHolds
  <2>2. PICK p : p = [pay EXCEPT !.at = "record"]
    OBVIOUS
  <2>3. p \in Pay /\ p.at = "record" /\ p.ride = pay.ride /\ p.offer = o
    BY <1>5, <2>1, <2>2 DEF Pay
  <2>4. Known(p.ride)' /\ Chosen(p.ride, p.offer)' /\ Paid(p.ride)'
    BY <1>1, <1>5, <2>1, <2>3 DEF Known, Chosen, Paid
  <2> QED
    BY <1>1, <1>5, <2>2, <2>3, <2>4, PayingKeeps
<1> QED
  BY <1>2, <1>3, <1>4, <1>5

\* The rest of the environment, and the button at the head of the page, change no
\* part of the page.
LEMMA EnvironmentKeeps ==
    ASSUME IInv,
           \/ registerOnChain
           \/ \E o \in OfferId, r \in Request, d \in Driver : OfferArrives(o, r, d)
           \/ \E d \in Driver : DriverRidesElsewhere(d)
           \/ \E o \in OfferId : RideEndsOnChain(o)
           \/ \E r \in Request, status \in {"COMPLETED", "CANCELLED", "DISPUTED"} :
                 BackendMoves(r, status)
           \/ \E r \in Request, status \in RideStatus \ {"OPEN", "DRIVER_SELECTED"} :
                 WebhookReports(r, status)
           \/ UNCHANGED rideVars
    PROVE  IInv'
<1>1. UNCHANGED pageVars
  BY DEF registerOnChain, OfferArrives, DriverRidesElsewhere, RideEndsOnChain, BackendMoves,
         WebhookReports, rideVars
<1>2. ServerInv' /\ Grows
  <2>1. CASE registerOnChain \/ (\E o \in OfferId : RideEndsOnChain(o)) \/ UNCHANGED rideVars
    <3>1. /\ UNCHANGED <<rides, offers, driverNonces, payments, mempool>>
          /\ live' \subseteq live /\ registered' \in BOOLEAN
          /\ mempool' \in [OfferId -> Nat] /\ Pending' = Pending
      BY <2>1 DEF Pending, IInv, ServerInv, registerOnChain, RideEndsOnChain, rideVars, backendVars, contractVars
    <3> QED
      BY <3>1, ServerSame DEF IInv
  <2>2. CASE \E r \in Request, status \in {"COMPLETED", "CANCELLED", "DISPUTED"} :
                 BackendMoves(r, status)
    <3>1. PICK r \in Request, status \in {"COMPLETED", "CANCELLED", "DISPUTED"} :
             BackendMoves(r, status)
      BY <2>2
    <3>2. /\ rides' = [rides EXCEPT ![r].status = status]
          /\ UNCHANGED <<offers, driverNonces, payments, live, mempool, registered>>
          /\ rides[r].status \in {"DRIVER_SELECTED", "ONCHAIN_ACCEPTED", "STARTED"}
      BY <3>1 DEF BackendMoves, contractVars
    <3> QED
      BY <3>2, StatusWritten DEF IInv, AcceptedStatus, RideStatus
  <2>3. CASE \E r \in Request, status \in RideStatus \ {"OPEN", "DRIVER_SELECTED"} :
                 WebhookReports(r, status)
    <3>1. PICK r \in Request, status \in RideStatus \ {"OPEN", "DRIVER_SELECTED"} :
             WebhookReports(r, status)
      BY <2>3
    <3>2. /\ rides' = [rides EXCEPT ![r].status = status]
          /\ UNCHANGED <<offers, driverNonces, payments, live, mempool, registered>>
          /\ rides[r].offer # NoOffer /\ payments[rides[r].offer] > 0
      BY <3>1 DEF WebhookReports, contractVars
    <3>3. rides[r].offer \in OfferId /\ payments[rides[r].offer] \in {0, 1}
      BY <3>2 DEF IInv, ServerInv, RideHolds, PaymentHolds, Row
    <3>4. Paid(r) /\ rides[r].status \notin {"Absent", "OPEN"}
      BY <3>2, <3>3 DEF Paid, IInv, ServerInv, RideHolds
    <3> QED
      BY <3>2, <3>4, StatusWritten DEF IInv
  <2> QED
    BY <2>1, <2>2, <2>3, OfferWritten, NonceMoves DEF IInv
<1>3. UNCHANGED <<signedIn, view, activeRide, shownOffers, publishing, polls, picks, pay>>
  BY <1>1 DEF pageVars
<1> QED
  BY <1>2, <1>3, ActiveKept, PollsKept, PicksKept, PublishKept, PayKept DEF IInv, PageInv, ViewHolds

\* Every step keeps the invariant.
LEMMA NextKeeps == IInv /\ [RideNext]_rideVars => IInv'
BY Visiting, Publishing, Watching, Picking, PayMoves, NotifiedKeeps, MinedKeeps, EnvironmentKeeps
DEF RideNext, PageNext, Environment

\* The first state has it.
LEMMA InitHolds == RideInit => IInv
<1> SUFFICES ASSUME RideInit PROVE IInv
  OBVIOUS
<1>1. ServerInv
  BY RidePageAssumption
  DEF RideInit, ServerInv, Pending, RideHolds, OfferHolds, PaymentHolds, Row, OfferRow, Absent, NoRow,
      AcceptedStatus
<1>2. PageInv
  BY DEF RideInit, PageInv, ActiveHolds, PollsHold, PicksHold, PublishHolds, PayHolds, ViewHolds,
         NotPaying, Pay
<1> QED
  BY <1>1, <1>2 DEF IInv

\* Every reachable state has it.
LEMMA AlwaysIInv == RideSpec => []IInv
BY InitHolds, NextKeeps, PTL DEF RideSpec

-----------------------------------------------------------------------------
(***************************************************************************)
(* The theorems.                                                           *)
(***************************************************************************)

\* Whatever comes late or is cut off, the page, the backend's rows and the requests
\* between them have their types: an answer always finds the ride it is about.
THEOREM RideTypeCorrect == RideSpec => []RideTypeOK
<1>1. IInv => RideTypeOK
  BY DEF IInv, ServerInv, PageInv, ActiveHolds, PollsHold, PollHolds, PicksHold, PickHolds,
         PublishHolds, Known, PayHolds, ViewHolds, RideTypeOK
<1> QED
  BY <1>1, AlwaysIInv, PTL

\* With any number of picks and payments, and whatever fails after the transaction or is
\* mined after a reload: a request is paid for at most once, with the offer picked.
THEOREM PaidOnce == RideSpec => []PaidOnceToChosen
<1>1. IInv => PaidOnceToChosen
  BY DEF IInv, ServerInv, PaymentHolds, Chosen, PaidOnceToChosen
<1> QED
  BY <1>1, AlwaysIInv, PTL

\* The backend and the page call a ride accepted on the chain only when its escrow was
\* paid, however late the answers that say so.
THEOREM AcceptedPaid == RideSpec => []AcceptedIsPaid
<1>1. IInv => AcceptedIsPaid
  BY DEF IInv, ServerInv, RideHolds, PageInv, ActiveHolds, Claim, Paid, AcceptedStatus, Nothing,
         AcceptedIsPaid, inProgress
<1> QED
  BY <1>1, AlwaysIInv, PTL

\* The offers listed while the page asks for a pick are offers for the ride it shows.
THEOREM OffersAreOfTheRide == RideSpec => []OffersOfThisRide
<1>1. IInv => OffersOfThisRide
  BY DEF IInv, PageInv, ActiveHolds, Nothing, OffersOfThisRide, searching
<1> QED
  BY <1>1, AlwaysIInv, PTL

=============================================================================
