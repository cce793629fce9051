------------------------------- MODULE RidePage -------------------------------
(***************************************************************************)
(* frontend/src/pages/RidePage.tsx: a rider publishes a request, watches   *)
(* the offers, picks a driver and accepts the ride on the chain; with what *)
(* it needs of the backend (Marketplace, tx/service.py) and of the         *)
(* contract (acceptRide in Carpool).                                       *)
(*                                                                         *)
(* The handlers are cut at their awaits and run on when the page is left:  *)
(* what they set then is lost.  A transaction that was sent may be mined   *)
(* even after the page is reloaded.  The component returns early, before   *)
(* some of its hooks, while nobody is signed in: a change of               *)
(* isAuthenticated while it is mounted makes React throw, and no error     *)
(* boundary keeps the application.                                         *)
(*                                                                         *)
(* The rider is one account; drivers, other riders and the webhook are the *)
(* environment.  Drivers sign their offers as acceptRide hashes them,      *)
(* which DriverPage does not.  The webhook is told of what happened on the *)
(* chain, so of rides that were paid for, in any order and again and       *)
(* again.  The two requests of a poll are answered together.               *)
(* Bounds: MaxRows requests and offers together; DriverRidesElsewhere up   *)
(* to MaxNonce; MaxInFlight polls, as many picks, and two more             *)
(* acceptRide of an offer sent and not mined; one acceptRideOnChain at a   *)
(* time.                                                                   *)
(***************************************************************************)
EXTENDS Integers, FiniteSets

CONSTANTS
    Request,              \* ride requests the rider may publish
    OfferId,              \* offers drivers may make
    Driver,
    NoRequest, NoOffer, NoDriver,
    MaxNonce, MaxInFlight, MaxRows

ASSUME RidePageAssumption ==
    /\ NoRequest \notin Request /\ NoOffer \notin OfferId /\ NoDriver \notin Driver
    /\ "no" \notin Request /\ "asked" \notin Request
    /\ MaxNonce \in Nat /\ MaxInFlight \in Nat /\ MaxRows \in Nat

VARIABLES
    rides, offers,            \* backend: the rider's requests, the offers for them
    driverNonces, payments,   \* contract: nonces, and how often an offer was accepted
    live,                     \* contract: offers whose ride is under way
    registered,               \* contract: the rider is a user
    mempool,                  \* how many acceptRide of an offer are sent and not mined
    signedIn,                 \* isAuthenticated
    view,                     \* what is mounted
    activeRide, shownOffers, publishing,
    polls, picks,             \* requests whose answers are on their way
    pay                       \* where acceptRideOnChain is

backendVars  == <<rides, offers>>
contractVars == <<driverNonces, payments, live, registered>>
pageVars     == <<signedIn, view, activeRide, shownOffers, publishing, polls, picks, pay>>
rideVars     == <<backendVars, contractVars, mempool, pageVars>>

RideStatus == {"OPEN", "DRIVER_SELECTED", "ONCHAIN_ACCEPTED", "STARTED", "COMPLETED", "CANCELLED",
               "DISPUTED"}
Row        == [status : RideStatus \cup {"Absent"}, offer : OfferId \cup {NoOffer}]
OfferRow   == [ride : Request \cup {NoRequest}, driver : Driver \cup {NoDriver}, nonce : Nat]
Shown      == [id : Request, status : RideStatus]
Poll       == [id : Request, status : RideStatus, offers : SUBSET OfferId, live : BOOLEAN]
Pick       == [ride : Request, offer : OfferId, served : BOOLEAN, here : BOOLEAN]
Pay        == [at : {"idle", "prepare", "register", "send", "mining", "record", "notify"},
               ride : Request \cup {NoRequest}, offer : OfferId \cup {NoOffer}, here : BOOLEAN]

Absent  == [status |-> "Absent", offer |-> NoOffer]
NoRow   == [ride |-> NoRequest, driver |-> NoDriver, nonce |-> 0]
Nothing == [id |-> NoRequest, status |-> "none"]
NotPaying == [at |-> "idle", ride |-> NoRequest, offer |-> NoOffer, here |-> TRUE]

RideInit ==
    /\ rides = [r \in Request |-> Absent] /\ offers = [o \in OfferId |-> NoRow]
    /\ driverNonces = [d \in Driver |-> 0] /\ payments = [o \in OfferId |-> 0]
    /\ live = {} /\ registered \in BOOLEAN /\ mempool = [o \in OfferId |-> 0]
    /\ signedIn = FALSE /\ view = "away"
    /\ activeRide = Nothing /\ shownOffers = {} /\ publishing = "no"
    /\ polls = {} /\ picks = {} /\ pay = NotPaying

\* How many requests and offers the backend holds.  Which of the unused ids a new one
\* gets makes no difference.
Rows == Cardinality({r \in Request : rides[r] # Absent})
            + Cardinality({o \in OfferId : offers[o] # NoRow})

OffersFor(r) == {o \in OfferId : offers[o].ride = r}
Busy(d)      == \E o \in live : offers[o].driver = d

CanAcceptAnyNonce(o) == registered /\ ~ Busy(offers[o].driver)
\* acceptRide, for the payload of an offer and sent by the rider.
CanAccept(o) ==
    /\ registered
    /\ ~ Busy(offers[o].driver)
    /\ driverNonces[offers[o].driver] = offers[o].nonce

\* The cards the page shows, by the status of its ride.
FormCard    == view = "page" /\ activeRide = Nothing
searching   == activeRide.status = "OPEN"
accepted    == activeRide.status = "DRIVER_SELECTED"
inProgress  == activeRide.status \in {"ONCHAIN_ACCEPTED", "STARTED"}
completed   == activeRide.status = "COMPLETED"
Pickable(o) == searching /\ o \in shownOffers

\* setActiveRide: the polls of another ride are cancelled.
Activate(a) ==
    /\ activeRide' = a
    /\ polls' = IF a.id = activeRide.id THEN polls ELSE {[p EXCEPT !.live = FALSE] : p \in polls}

\* The component is unmounted, in whatever way.
Unmount(to) ==
    /\ view' = to
    /\ Activate(Nothing)
    /\ shownOffers' = {} /\ publishing' = "no"
    /\ picks' = {[p EXCEPT !.here = FALSE] : p \in picks}
    /\ pay' = IF pay.at = "idle" THEN NotPaying ELSE [pay EXCEPT !.here = FALSE]

-----------------------------------------------------------------------------
(***************************************************************************)
(* Getting to the page and away from it.                                   *)
(***************************************************************************)

OpenPage ==
    /\ view = "away"
    /\ view' = IF signedIn THEN "page" ELSE "gate"
    /\ UNCHANGED <<backendVars, contractVars, mempool, signedIn, activeRide, shownOffers,
                   publishing, polls, picks, pay>>

LeavePage ==
    /\ view \in {"page", "gate"}
    /\ Unmount("away")
    /\ UNCHANGED <<backendVars, contractVars, mempool, signedIn>>

SignedInBecomes(s) ==
    /\ s # signedIn
    /\ signedIn' = s
    /\ IF view \in {"page", "gate"}
       THEN Unmount("crashed")
       ELSE UNCHANGED <<view, activeRide, shownOffers, publishing, polls, picks, pay>>
    /\ UNCHANGED <<backendVars, contractVars, mempool>>

\* Handlers are gone; nobody is signed in until the session is restored.
Reload ==
    /\ view' = "away" /\ signedIn' = FALSE
    /\ activeRide' = Nothing /\ shownOffers' = {} /\ publishing' = "no"
    /\ polls' = {} /\ picks' = {} /\ pay' = NotPaying
    /\ UNCHANGED <<backendVars, contractVars, mempool>>

-----------------------------------------------------------------------------
(***************************************************************************)
(* Publishing a request and watching it.                                   *)
(***************************************************************************)

publishRide ==
    /\ FormCard /\ publishing = "no"
    /\ publishing' = "asked"
    /\ UNCHANGED <<backendVars, contractVars, mempool, signedIn, view, activeRide, shownOffers,
                   polls, picks, pay>>

PublishServed(r) ==
    /\ publishing = "asked" /\ rides[r] = Absent /\ Rows < MaxRows
    /\ r = CHOOSE x \in Request : rides[x] = Absent
    /\ rides' = [rides EXCEPT ![r].status = "OPEN"]
    /\ publishing' = r
    /\ UNCHANGED <<offers, contractVars, mempool, signedIn, view, activeRide, shownOffers,
                   polls, picks, pay>>

PublishAnsweredKeepingOffers ==
    /\ publishing \in Request
    /\ Activate([id |-> publishing, status |-> "OPEN"])
    /\ publishing' = "no"
    /\ UNCHANGED <<backendVars, contractVars, mempool, signedIn, view, shownOffers, picks, pay>>

PublishAnswered ==
    /\ publishing \in Request
    /\ Activate([id |-> publishing, status |-> "OPEN"])
    /\ shownOffers' = {} /\ publishing' = "no"
    /\ UNCHANGED <<backendVars, contractVars, mempool, signedIn, view, picks, pay>>

PublishFails ==
    /\ publishing # "no"
    /\ publishing' = "no"
    /\ UNCHANGED <<backendVars, contractVars, mempool, signedIn, view, activeRide, shownOffers,
                   polls, picks, pay>>

PollServedWhileOpen ==
    /\ activeRide.status = "OPEN" /\ Cardinality(polls) < MaxInFlight
    /\ polls' = polls \cup {[id |-> activeRide.id, status |-> rides[activeRide.id].status,
                             offers |-> OffersFor(activeRide.id), live |-> TRUE]}
    /\ UNCHANGED <<backendVars, contractVars, mempool, signedIn, view, activeRide, shownOffers,
                   publishing, picks, pay>>

PollServed ==
    /\ activeRide # Nothing /\ Cardinality(polls) < MaxInFlight
    /\ polls' = polls \cup {[id |-> activeRide.id, status |-> rides[activeRide.id].status,
                             offers |-> OffersFor(activeRide.id), live |-> TRUE]}
    /\ UNCHANGED <<backendVars, contractVars, mempool, signedIn, view, activeRide, shownOffers,
                   publishing, picks, pay>>

PollAnswers(p) ==
    /\ polls' = polls \ {p}
    /\ IF p.live
       THEN activeRide' = [id |-> p.id, status |-> p.status] /\ shownOffers' = p.offers
       ELSE UNCHANGED <<activeRide, shownOffers>>
    /\ UNCHANGED <<backendVars, contractVars, mempool, signedIn, view, publishing, picks, pay>>

PollFails(p) ==
    /\ polls' = polls \ {p}
    /\ UNCHANGED <<backendVars, contractVars, mempool, signedIn, view, activeRide, shownOffers,
                   publishing, picks, pay>>

\* "Cancel": the request is forgotten here and stays in the backend.  setTxHash does not
\* exist, so what follows it never runs.
cancelRide ==
    /\ searching \/ accepted
    /\ Activate(Nothing)
    /\ shownOffers' = {}
    /\ UNCHANGED <<backendVars, contractVars, mempool, signedIn, view, publishing, picks, pay>>

BookAnother ==
    /\ completed
    /\ Activate(Nothing)
    /\ UNCHANGED <<backendVars, contractVars, mempool, signedIn, view, shownOffers, publishing,
                   picks, pay>>

-----------------------------------------------------------------------------
(***************************************************************************)
(* Picking an offer: only the button of the offer in progress is disabled. *)
(***************************************************************************)

pickOffer(o) ==
    /\ Pickable(o) /\ Cardinality(picks) < MaxInFlight
    /\ picks' = picks \cup {[ride |-> activeRide.id, offer |-> o, served |-> FALSE, here |-> TRUE]}
    /\ UNCHANGED <<backendVars, contractVars, mempool, signedIn, view, activeRide, shownOffers,
                   publishing, polls, pay>>

\* select_driver.
PickServed(p) ==
    /\ ~ p.served
    /\ rides[p.ride].status = "OPEN" /\ offers[p.offer].ride = p.ride
    /\ rides' = [rides EXCEPT ![p.ride] = [status |-> "DRIVER_SELECTED", offer |-> p.offer]]
    /\ picks' = (picks \ {p}) \cup {[p EXCEPT !.served = TRUE]}
    /\ UNCHANGED <<offers, contractVars, mempool, signedIn, view, activeRide, shownOffers,
                   publishing, polls, pay>>

\* The answer brings back a request that was cancelled here meanwhile.
PickAnswered(p) ==
    /\ p.served
    /\ picks' = picks \ {p}
    /\ IF p.here THEN Activate([id |-> p.ride, status |-> "DRIVER_SELECTED"])
                 ELSE UNCHANGED <<activeRide, polls>>
    /\ UNCHANGED <<backendVars, contractVars, mempool, signedIn, view, shownOffers, publishing, pay>>

PickFails(p) ==
    /\ picks' = picks \ {p}
    /\ UNCHANGED <<backendVars, contractVars, mempool, signedIn, view, activeRide, shownOffers,
                   publishing, polls, pay>>

-----------------------------------------------------------------------------
(***************************************************************************)
(* acceptRideOnChain.                                                      *)
(***************************************************************************)

Paying(p) ==
    /\ pay' = p
    /\ UNCHANGED <<signedIn, view, activeRide, shownOffers, publishing, polls, picks>>

acceptRideOnChain ==
    /\ accepted /\ pay.at = "idle"
    /\ Paying([NotPaying EXCEPT !.at = "prepare", !.ride = activeRide.id])
    /\ UNCHANGED <<backendVars, contractVars, mempool>>

\* prepare_accept_ride hands out the selected offer with the nonce it was signed over.
PayPrepared ==
    /\ pay.at = "prepare" /\ rides[pay.ride].status = "DRIVER_SELECTED"
    /\ Paying([pay EXCEPT !.at = "register", !.offer = rides[pay.ride].offer])
    /\ UNCHANGED <<backendVars, contractVars, mempool>>

\* registerUser is sent and mined, unless the rider is a user already.
PayRegistered ==
    /\ pay.at = "register"
    /\ registered' = TRUE
    /\ Paying([pay EXCEPT !.at = "send"])
    /\ UNCHANGED <<backendVars, driverNonces, payments, live, mempool>>

\* The gas estimate runs acceptRide first: what would revert is not sent.  One that
\* was sent before, from a page reloaded since, may still be on its way.
PaySent ==
    /\ pay.at = "send" /\ CanAccept(pay.offer) /\ mempool[pay.offer] <= MaxInFlight
    /\ mempool' = [mempool EXCEPT ![pay.offer] = @ + 1]
    /\ Paying([pay EXCEPT !.at = "mining"])
    /\ UNCHANGED <<backendVars, contractVars>>

\* acceptRide is mined, the one sent first before the others: the page waits for the
\* one it sent last.  If it reverts, tx.wait throws.
Mined(o) ==
    /\ mempool[o] > 0
    /\ mempool' = [mempool EXCEPT ![o] = @ - 1]
    /\ IF CanAccept(o)
       THEN /\ driverNonces' = [driverNonces EXCEPT ![offers[o].driver] = @ + 1]
            /\ payments' = [payments EXCEPT ![o] = @ + 1]
            /\ live' = live \cup {o}
       ELSE UNCHANGED <<driverNonces, payments, live>>
    /\ Paying(IF pay.at # "mining" \/ pay.offer # o \/ mempool[o] > 1 THEN pay
              ELSE IF CanAccept(o) THEN [pay EXCEPT !.at = "record"] ELSE NotPaying)
    /\ UNCHANGED <<backendVars, registered>>

PayRecorded ==
    /\ pay.at = "record"
    /\ Paying([pay EXCEPT !.at = "notify"])
    /\ UNCHANGED <<backendVars, contractVars, mempool>>

PayNotifiedEarly ==
    /\ pay.at \in {"mining", "record", "notify"}
    /\ rides[pay.ride].status \in {"DRIVER_SELECTED", "ONCHAIN_ACCEPTED"}
    /\ rides' = [rides EXCEPT ![pay.ride].status = "ONCHAIN_ACCEPTED"]
    /\ IF pay.here THEN Activate([id |-> pay.ride, status |-> "ONCHAIN_ACCEPTED"])
                   ELSE UNCHANGED <<activeRide, polls>>
    /\ pay' = NotPaying
    /\ UNCHANGED <<offers, contractVars, mempool, signedIn, view, shownOffers, publishing, picks>>

\* onchain_accept, which also accepts a ride the webhook has accepted already.
PayNotified ==
    /\ pay.at = "notify" /\ rides[pay.ride].status \in {"DRIVER_SELECTED", "ONCHAIN_ACCEPTED"}
    /\ rides' = [rides EXCEPT ![pay.ride].status = "ONCHAIN_ACCEPTED"]
    /\ IF pay.here THEN Activate([id |-> pay.ride, status |-> "ONCHAIN_ACCEPTED"])
                   ELSE UNCHANGED <<activeRide, polls>>
    /\ pay' = NotPaying
    /\ UNCHANGED <<offers, contractVars, mempool, signedIn, view, shownOffers, publishing, picks>>

\* A request fails or is refused, the wallet rejects, the transaction would revert.
PayFails ==
    /\ pay.at # "idle"
    /\ Paying(NotPaying)
    /\ UNCHANGED <<backendVars, contractVars, mempool>>

\* The button "Register on Blockchain" at the head of the page, shown to registered riders
\* too: registerUser reverts for them.
RegisterShown == view = "page"

registerOnChain ==
    /\ RegisterShown /\ ~ registered
    /\ registered' = TRUE
    /\ UNCHANGED <<backendVars, driverNonces, payments, live, mempool, pageVars>>

-----------------------------------------------------------------------------
(***************************************************************************)
(* Drivers, other riders and the webhook.                                  *)
(***************************************************************************)

OfferArrives(o, r, d) ==
    /\ offers[o] = NoRow /\ rides[r].status = "OPEN" /\ Rows < MaxRows
    /\ o = CHOOSE x \in OfferId : offers[x] = NoRow
    /\ offers' = [offers EXCEPT ![o] = [ride |-> r, driver |-> d, nonce |-> driverNonces[d]]]
    /\ UNCHANGED <<rides, contractVars, mempool, pageVars>>

\* A ride of the driver for another rider is accepted and over.  Before the driver's
\* first offer here it would only shift the numbers.
DriverRidesElsewhere(d) ==
    /\ ~ Busy(d) /\ driverNonces[d] < MaxNonce
    /\ \E o \in OfferId : offers[o].driver = d
    /\ driverNonces' = [driverNonces EXCEPT ![d] = @ + 1]
    /\ UNCHANGED <<backendVars, payments, live, registered, mempool, pageVars>>

\* The ride is completed or cancelled on the chain.
RideEndsOnChain(o) ==
    /\ o \in live
    /\ live' = live \ {o}
    /\ UNCHANGED <<backendVars, driverNonces, payments, registered, mempool, pageVars>>

\* The driver's requests, and the rider's from elsewhere, about a request with a driver.
BackendMoves(r, status) ==
    /\ CASE status = "DISPUTED" -> rides[r].status = "STARTED"
         [] status \in {"COMPLETED", "CANCELLED"} ->
                rides[r].status \in {"DRIVER_SELECTED", "ONCHAIN_ACCEPTED", "STARTED"}
    /\ rides' = [rides EXCEPT ![r].status = status]
    /\ UNCHANGED <<offers, contractVars, mempool, pageVars>>

\* An event of the chain is ingested: its status replaces whatever the row says.
WebhookReports(r, status) ==
    /\ rides[r].offer # NoOffer /\ payments[rides[r].offer] > 0
    /\ rides' = [rides EXCEPT ![r].status = status]
    /\ UNCHANGED <<offers, contractVars, mempool, pageVars>>

Environment ==
    \/ \E o \in OfferId, r \in Request, d \in Driver : OfferArrives(o, r, d)
    \/ \E d \in Driver : DriverRidesElsewhere(d)
    \/ \E o \in OfferId : RideEndsOnChain(o)
    \/ \E r \in Request, status \in {"COMPLETED", "CANCELLED", "DISPUTED"} :
          BackendMoves(r, status)
    \/ \E r \in Request, status \in RideStatus \ {"OPEN", "DRIVER_SELECTED"} :
          WebhookReports(r, status)
    \/ \E o \in OfferId : Mined(o)

PageNext ==
    \/ OpenPage \/ LeavePage \/ Reload
    \/ \E s \in BOOLEAN : SignedInBecomes(s)
    \/ publishRide \/ PublishAnswered \/ PublishFails
    \/ \E r \in Request : PublishServed(r)
    \/ PollServed
    \/ \E p \in polls : PollAnswers(p) \/ PollFails(p)
    \/ cancelRide \/ BookAnother
    \/ \E o \in OfferId : pickOffer(o)
    \/ \E p \in picks : PickServed(p) \/ PickAnswered(p) \/ PickFails(p)
    \/ acceptRideOnChain \/ PayPrepared \/ PayRegistered \/ PaySent
    \/ PayRecorded \/ PayNotified \/ PayFails
    \/ registerOnChain

RideNext == PageNext \/ Environment

\* The interval polls as long as there is a ride, and the network does not fail for ever.
Polling ==
    /\ WF_rideVars(PollServed)
    /\ SF_rideVars(\E p \in polls : PollAnswers(p))

RideSpec == RideInit /\ [][RideNext]_rideVars /\ Polling

-----------------------------------------------------------------------------
RideTypeOK ==
    /\ rides \in [Request -> Row] /\ offers \in [OfferId -> OfferRow]
    /\ driverNonces \in [Driver -> Nat]
    /\ payments \in [OfferId -> Nat]
    /\ live \subseteq OfferId /\ mempool \in [OfferId -> Nat] /\ registered \in BOOLEAN
    /\ signedIn \in BOOLEAN /\ view \in {"away", "gate", "page", "crashed"}
    /\ activeRide \in Shown \cup {Nothing} /\ shownOffers \subseteq OfferId
    /\ publishing \in {"no", "asked"} \cup Request
    /\ polls \subseteq Poll /\ picks \subseteq Pick /\ pay \in Pay

(***************************************************************************)
(* A rider pays for a request at most once, and only with the offer that   *)
(* was picked: whatever fails after the transaction, whatever is pressed   *)
(* again, and whatever is mined after a reload.                            *)
(***************************************************************************)
PaidOnceToChosen ==
    \A o \in OfferId : payments[o] > 0 =>
        payments[o] = 1 /\ rides[offers[o].ride].offer = o

(***************************************************************************)
(* The backend calls a request accepted on the chain only when the picked  *)
(* driver's escrow was paid; no answer that comes late or twice makes it   *)
(* so.  Nor does the page tell a rider that "funds are held in escrow" of  *)
(* a ride that was not paid for.                                           *)
(***************************************************************************)
AcceptedIsPaid ==
    /\ \A r \in Request : rides[r].status = "ONCHAIN_ACCEPTED" => payments[rides[r].offer] = 1
    /\ inProgress => payments[rides[activeRide.id].offer] = 1

(***************************************************************************)
(* While the page asks the rider to pick an offer, the offers it lists     *)
(* were made for the request it shows, whichever requests came before and  *)
(* whichever of their polls is still to answer.                            *)
(***************************************************************************)
OffersOfThisRide ==
    searching => shownOffers \subseteq OffersFor(activeRide.id)
(***************************************************************************)
(* The page follows the backend: whatever is written over the status of a  *)
(* ride it is watching, by whichever party or event and in whatever order, *)
(* if the status settles then the page comes to show it, or turns to       *)
(* something else.                                                         *)
(***************************************************************************)
PageFollows ==
    \A r \in Request :
        <>[][rides'[r] = rides[r]]_rides =>
            []<>(activeRide.id = r => activeRide.status = rides[r].status)
=============================================================================
