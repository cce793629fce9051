------------------------------ MODULE DriverPage ------------------------------
(***************************************************************************)
(* frontend/src/pages/DriverPage.tsx: a driver goes online, offers rides,  *)
(* and starts, completes or cancels the ride selected; with what it needs  *)
(* of the backend (marketplace, tx/service.py) and of the contract.        *)
(*                                                                         *)
(* The handlers are cut at their awaits.  A ride accepted on the chain has *)
(* an id there that the page looks up by rider and driver.  Three things   *)
(* the page does never get through, and are modelled as they fail: the     *)
(* offer it signs leaves out the contract's address, which acceptRide      *)
(* hashes; startRide is called with five arguments of six, which ethers    *)
(* refuses; and the answer of /tx/complete-ride has onchainRideId where    *)
(* the page compares onChainRideId.                                        *)
(*                                                                         *)
(* The driver is one account, and one rider posts all requests; riders,    *)
(* the webhook and other programs of the driver are the environment.       *)
(* An answer that comes after its effect was cleaned up is dropped; here   *)
(* it is dropped at the clean-up.                                          *)
(* Bounds: MaxRides rides on the chain; MaxInFlight answers of each poll   *)
(* on their way; one handler of the page's buttons at a time.              *)
(***************************************************************************)
EXTENDS Integers, FiniteSets, Sequences

CONSTANTS
    Request,              \* ids of ride requests
    NoRequest,
    MaxRides,             \* bound: rides on the chain
    MaxInFlight           \* bound: answers of a poll on their way

ASSUME DriverPageAssumption ==
    NoRequest \notin Request /\ MaxRides \in Nat /\ MaxInFlight \in Nat

VARIABLES
    rides,                \* backend: status of each request; selected means this driver
    updated,              \* backend: the active ones in the order of updated_at, latest first
    offered,              \* backend: the driver's offer for each request
    chain,                \* contract: the pair's rides
    signedIn,             \* isAuthenticated
    online, pendingRides, myRide, myOffers,
    handler,              \* the offer dialog or the handler that runs, and its ride
    activePolls, openPolls               \* answers on their way

serverVars == <<rides, updated, offered, chain>>
pollVars   == <<activePolls, openPolls>>
driverVars == <<serverVars, signedIn, online, pendingRides, myRide, myOffers,
                handler, pollVars>>

ACTIVE_DRIVER_RIDE_STATUSES == {"DRIVER_SELECTED", "ONCHAIN_ACCEPTED", "STARTED"}
RideStatus   == ACTIVE_DRIVER_RIDE_STATUSES \cup {"Absent", "OPEN", "CLOSED"}
MaybeRequest == Request \cup {NoRequest}
MyRide       == [id : Request, status : ACTIVE_DRIVER_RIDE_STATUSES]
NoRide       == [id |-> NoRequest, status |-> "none"]
ChainRide    == [request : Request, status : {"ACCEPTED", "STARTED", "OVER"}]
Handler      == [at : {"idle", "dialog", "read", "sign", "posted", "start", "complete", "cancel"},
                 ride : MaybeRequest, nonce : 0..MaxRides]

\* What the page signs of an offer, and what acceptRide recovers the signer from.
signedFields == <<"rider", "driver", "fare", "ceiling", "nonce", "chain">>
hashedFields == <<"contract", "rider", "driver", "fare", "ceiling", "nonce", "chain">>
Offer        == [nonce : 0..MaxRides, signed : {signedFields, hashedFields}]
NoOffer      == [nonce |-> 0, signed |-> <<>>]

Idle         == [at |-> "idle", ride |-> NoRequest, nonce |-> 0]

DriverInit ==
    /\ rides = [r \in Request |-> "Absent"] /\ updated = <<>>
    /\ offered = [r \in Request |-> NoOffer] /\ chain = <<>>
    /\ signedIn = FALSE /\ online = FALSE
    /\ pendingRides = {} /\ myRide = NoRide /\ myOffers = {}
    /\ handler = Idle
    /\ activePolls = {} /\ openPolls = {}

driverNonce == Len(chain)
LiveRides   == {i \in 1..Len(chain) : chain[i].status # "OVER"}

\* get_driver_active_ride: the ride whose row was written last, among the active ones.
ActiveRide ==
    IF updated = <<>> THEN NoRide ELSE [id |-> updated[1], status |-> rides[updated[1]]]

OpenRides == {r \in Request : rides[r] = "OPEN"}

\* The active rides without r, in their order.
OthersThan(r) ==
    IF \E i \in 1..Len(updated) : updated[i] = r
    THEN LET i == CHOOSE i \in 1..Len(updated) : updated[i] = r
         IN  SubSeq(updated, 1, i - 1) \o SubSeq(updated, i + 1, Len(updated))
    ELSE updated

SetStatus(r, status) ==
    /\ rides' = [rides EXCEPT ![r] = status]
    /\ updated' = IF status \in ACTIVE_DRIVER_RIDE_STATUSES THEN <<r>> \o OthersThan(r)
                                                           ELSE OthersThan(r)

-----------------------------------------------------------------------------
(***************************************************************************)
(* What the page shows, and so what can be pressed.                        *)
(***************************************************************************)

\* A connected and authenticated account; everybody else is asked to connect.
PageShown == signedIn

\* The card of the active ride has "Cancel ride" in every status, "Start Ride" for a
\* ride accepted on the chain and "Complete Ride" for one that has started.
RideShown     == PageShown /\ myRide # NoRide
StartShown    == RideShown /\ myRide.status = "ONCHAIN_ACCEPTED"
CompleteShown == RideShown /\ myRide.status = "STARTED"

\* The list of open rides is there while the driver is online and has no ride; "Send
\* offer" is disabled for a ride this page has offered.
ListShown    == PageShown /\ online /\ myRide = NoRide
Offerable(r) == ListShown /\ r \in pendingRides /\ r \notin myOffers

\* The dialog covers the page: no other button can be pressed while it is open.
DialogShown == PageShown /\ handler.at = "dialog"

-----------------------------------------------------------------------------
\* The clean-up of an effect: what its fetches answer is dropped.
Kept(fetches) == fetches
Cancelled(fetches) == {}

\* The effect of the poll of open rides, after myRide, online or isAuthenticated has
\* changed: it starts again, or stops and forgets what it showed.
OpenEffect(ride, isOnline, auth) ==
    IF ride = myRide /\ isOnline = online /\ auth = signedIn
    THEN UNCHANGED <<openPolls, pendingRides>>
    ELSE /\ openPolls' = Cancelled(openPolls)
         /\ pendingRides' = IF auth /\ isOnline /\ ride = NoRide THEN pendingRides ELSE {}

Show(ride, isOnline) ==
    /\ myRide' = ride /\ online' = isOnline
    /\ OpenEffect(ride, isOnline, signedIn)
    /\ UNCHANGED signedIn

Page == <<signedIn, online, pendingRides, myRide, openPolls>>

\* A handler of the page starts for a ride, or goes on; others are the page's effects.
Continues(h) ==
    /\ handler' = h
    /\ UNCHANGED <<Page, activePolls>>

Begins(at, ride) ==
    /\ handler.at = "idle"
    /\ Continues([Idle EXCEPT !.at = at, !.ride = ride])
    /\ UNCHANGED <<serverVars, myOffers>>

-----------------------------------------------------------------------------
(***************************************************************************)
(* The session and the polls.                                              *)
(***************************************************************************)

SignedInBecomes(s) ==
    /\ s # signedIn
    /\ signedIn' = s
    /\ myRide' = IF s THEN myRide ELSE NoRide
    /\ activePolls' = Cancelled(activePolls)
    /\ OpenEffect(myRide', online, s)
    /\ UNCHANGED <<serverVars, online, myOffers, handler>>

ActivePollServedOnline ==
    /\ signedIn /\ online /\ Cardinality(activePolls) < MaxInFlight
    /\ activePolls' = activePolls \cup {ActiveRide}
    /\ UNCHANGED <<serverVars, Page, myOffers, handler>>

ActivePollServed ==
    /\ signedIn /\ Cardinality(activePolls) < MaxInFlight
    /\ activePolls' = activePolls \cup {ActiveRide}
    /\ UNCHANGED <<serverVars, Page, myOffers, handler>>

\* A ride started here is not taken back by an answer that has not heard of it.
Merged(ride) ==
    IF myRide = [id |-> ride.id, status |-> "STARTED"] /\ ride.status = "ONCHAIN_ACCEPTED"
    THEN myRide ELSE ride

ActivePollAnswers(p) ==
    /\ activePolls' = activePolls \ {p}
    /\ Show(Merged(p), online /\ p = NoRide)
    /\ UNCHANGED <<serverVars, myOffers, handler>>

ActivePollFails(p) ==
    /\ activePolls' = activePolls \ {p}
    /\ UNCHANGED <<serverVars, Page, myOffers, handler>>

OpenPollServed ==
    /\ signedIn /\ online /\ myRide = NoRide /\ Cardinality(openPolls) < MaxInFlight
    /\ openPolls' = openPolls \cup {OpenRides}
    /\ UNCHANGED <<serverVars, signedIn, online, pendingRides, myRide, activePolls,
                   myOffers, handler>>

OpenPollAnswers(p) ==
    /\ openPolls' = openPolls \ {p}
    /\ pendingRides' = p
    /\ UNCHANGED <<serverVars, signedIn, online, myRide, activePolls, myOffers,
                   handler>>

\* The button "Online", disabled while there is a ride.
ToggleOnline ==
    /\ PageShown /\ ~ RideShown
    /\ Show(myRide, ~ online)
    /\ UNCHANGED <<serverVars, activePolls, myOffers, handler>>

-----------------------------------------------------------------------------
(***************************************************************************)
(* Offers.                                                                 *)
(***************************************************************************)

openOfferDialog(r) == Offerable(r) /\ Begins("dialog", r)

closeOfferDialog ==
    /\ DialogShown
    /\ Continues(Idle)
    /\ UNCHANGED <<serverVars, myOffers>>

submitOffer ==
    /\ DialogShown
    /\ Continues([handler EXCEPT !.at = "read"])
    /\ UNCHANGED <<serverVars, myOffers>>

SubmitReadsNonce ==
    /\ handler.at = "read"
    /\ Continues([handler EXCEPT !.at = "sign", !.nonce = driverNonce])
    /\ UNCHANGED <<serverVars, myOffers>>

\* create_offer: the backend takes any signature over any nonce for a ride that is open,
\* but not a second pending offer of the driver.
MayOffer(r) == rides[r] = "OPEN" /\ offered[r] = NoOffer

SubmitPosted ==
    /\ handler.at = "sign" /\ MayOffer(handler.ride)
    /\ offered' = [offered EXCEPT ![handler.ride] =
           [nonce |-> handler.nonce, signed |-> signedFields]]
    /\ Continues([handler EXCEPT !.at = "posted"])
    /\ UNCHANGED <<rides, updated, chain, myOffers>>

SubmitAnswered ==
    /\ handler.at = "posted"
    /\ myOffers' = myOffers \cup {handler.ride}
    /\ Continues(Idle)
    /\ UNCHANGED serverVars

\* The wallet refuses or a request fails: the dialog stays open.
SubmitFails ==
    /\ handler.at \in {"read", "sign", "posted"}
    /\ Continues([Idle EXCEPT !.at = "dialog", !.ride = handler.ride])
    /\ UNCHANGED <<serverVars, myOffers>>

-----------------------------------------------------------------------------
(***************************************************************************)
(* The ride.                                                               *)
(***************************************************************************)

startRideOnChain    == StartShown /\ Begins("start", myRide.id)
completeRideOnChain == CompleteShown /\ Begins("complete", myRide.id)
cancelActiveRide    == RideShown /\ Begins("cancel", myRide.id)

\* No ride is found, a call fails, or the wallet refuses.
HandlerFails ==
    /\ handler.at \in {"start", "cancel"}
    /\ Continues(Idle)
    /\ UNCHANGED <<serverVars, myOffers>>

\* No ride is found or it is not started, the backend refuses, or the wallet does.
CompleteFails ==
    /\ handler.at = "complete"
    /\ Continues(Idle)
    /\ UNCHANGED <<serverVars, myOffers>>

\* resolveOnChainRideId: the newest ride of rider and driver that is not over.
Resolved == CHOOSE i \in LiveRides : \A j \in LiveRides : j <= i

\* The ride the page shows by now is marked, if it shows one.
ShowStarted == Show(IF myRide = NoRide THEN NoRide ELSE [myRide EXCEPT !.status = "STARTED"], online)

MarkStarted ==
    /\ ShowStarted
    /\ handler' = Idle
    /\ UNCHANGED <<serverVars, activePolls, myOffers>>

StartAssumesStarted == handler.at = "start" /\ LiveRides # {} /\ MarkStarted

StartFindsStarted ==
    /\ handler.at = "start" /\ LiveRides # {} /\ chain[Resolved].status = "STARTED"
    /\ MarkStarted

\* The inputs startRide has in the page's ABI, and the arguments the page calls it with:
\* ethers refuses a call that no fragment of the name fits.
startRideInputs    == 6
startRideArguments == 5

StartIsCalled ==
    /\ handler.at = "start" /\ LiveRides # {} /\ chain[Resolved].status = "ACCEPTED"
    /\ handler' = Idle
    /\ IF startRideArguments = startRideInputs
       THEN /\ chain' = [chain EXCEPT ![Resolved].status = "STARTED"]
            /\ ShowStarted
       ELSE UNCHANGED <<chain, Page>>
    /\ UNCHANGED <<rides, updated, offered, activePolls, myOffers>>

\* The fields of the answer of /tx/complete-ride, and the one the page compares with the
\* id it has looked up: "Backend returned mismatched on-chain ride ID."
answeredFields == {"contractAddress", "functionName", "args", "msgValueWei", "rideId",
                   "onchainRideId", "chainId"}
comparedField  == "onChainRideId"

\* The contract would be called, the transaction recorded, and the backend told; a
\* failure of the last is ignored.
CompleteIsCalled ==
    /\ handler.at = "complete" /\ LiveRides # {} /\ chain[Resolved].status = "STARTED"
    /\ handler' = Idle
    /\ IF comparedField \in answeredFields
       THEN /\ chain' = [chain EXCEPT ![Resolved].status = "OVER"]
            /\ IF rides[handler.ride] \in ACTIVE_DRIVER_RIDE_STATUSES
               THEN SetStatus(handler.ride, "CLOSED")
               ELSE UNCHANGED <<rides, updated>>
            /\ Show(NoRide, online)
       ELSE UNCHANGED <<chain, rides, updated, Page>>
    /\ UNCHANGED <<offered, activePolls, myOffers>>

\* cancel_ride in the backend, and nothing on the chain.  Whatever ride the page shows
\* when the answer comes is taken off it.
CancelServed ==
    /\ handler.at = "cancel" /\ rides[handler.ride] \in ACTIVE_DRIVER_RIDE_STATUSES
    /\ SetStatus(handler.ride, "CLOSED")
    /\ Show(NoRide, online)
    /\ handler' = Idle
    /\ UNCHANGED <<offered, chain, activePolls, myOffers>>

-----------------------------------------------------------------------------
(***************************************************************************)
(* The rider, the webhook, and other programs that hold the driver's key.  *)
(***************************************************************************)

Outside == <<signedIn, online, pendingRides, myRide, myOffers, handler, pollVars>>

RiderPosts(r) ==
    /\ rides[r] = "Absent"
    /\ SetStatus(r, "OPEN")
    /\ UNCHANGED <<offered, chain, Outside>>

RiderSelects(r) ==
    /\ rides[r] = "OPEN" /\ offered[r] # NoOffer
    /\ SetStatus(r, "DRIVER_SELECTED")
    /\ UNCHANGED <<offered, chain, Outside>>

\* Another program of the driver offers a ride, and signs as the contract hashes.
ProgramOffers(r) ==
    /\ MayOffer(r)
    /\ offered' = [offered EXCEPT ![r] = [nonce |-> driverNonce, signed |-> hashedFields]]
    /\ UNCHANGED <<rides, updated, chain, Outside>>

\* The signature recovers the driver, for the nonce the contract has now.
Recovers(o) == o.signed = hashedFields /\ o.nonce = driverNonce

\* acceptRide: the driver is free, and the offer's signature recovers the driver.
RiderAccepts(r) ==
    /\ rides[r] = "DRIVER_SELECTED" /\ LiveRides = {} /\ Len(chain) < MaxRides
    /\ Recovers(offered[r])
    /\ chain' = Append(chain, [request |-> r, status |-> "ACCEPTED"])
    /\ UNCHANGED <<rides, updated, offered, Outside>>

\* onchain_accept by the rider's page.
RiderNotifies(r) ==
    /\ rides[r] = "DRIVER_SELECTED" /\ \E i \in 1..Len(chain) : chain[i].request = r
    /\ SetStatus(r, "ONCHAIN_ACCEPTED")
    /\ UNCHANGED <<offered, chain, Outside>>

ChainMoves(i, status) ==
    /\ \/ status = "STARTED" /\ chain[i].status = "ACCEPTED"
       \/ status = "OVER" /\ chain[i].status # "OVER"
    /\ chain' = [chain EXCEPT ![i].status = status]
    /\ UNCHANGED <<rides, updated, offered, Outside>>

\* What the webhook may tell of ride i: what has happened to it, now or earlier.  A ride
\* that has started may be disputed, and one that is over may have been started.
Reportable(i) ==
    {"ONCHAIN_ACCEPTED"} \cup (IF chain[i].status = "ACCEPTED" THEN {} ELSE {"STARTED", "CLOSED"})

\* It does so again and in any order, and writes it over whatever the row says.
WebhookReports(i, status) ==
    /\ status \in Reportable(i)
    /\ SetStatus(chain[i].request, status)
    /\ UNCHANGED <<offered, chain, Outside>>

-----------------------------------------------------------------------------
Server ==
    \/ \E r \in Request : RiderPosts(r) \/ ProgramOffers(r) \/ RiderSelects(r)
                            \/ RiderAccepts(r) \/ RiderNotifies(r)
    \/ \E i \in 1..Len(chain) :
          \/ \E status \in RideStatus : WebhookReports(i, status)
          \/ \E status \in {"STARTED", "OVER"} : ChainMoves(i, status)

DriverNext ==
    \/ Server
    \/ \E s \in BOOLEAN : SignedInBecomes(s)
    \/ ActivePollServed \/ OpenPollServed
    \/ \E p \in activePolls : ActivePollAnswers(p) \/ ActivePollFails(p)
    \/ \E p \in openPolls : OpenPollAnswers(p)
    \/ ToggleOnline
    \/ \E r \in Request : openOfferDialog(r)
    \/ closeOfferDialog
    \/ submitOffer \/ SubmitReadsNonce \/ SubmitPosted \/ SubmitAnswered \/ SubmitFails
    \/ startRideOnChain \/ StartFindsStarted \/ StartIsCalled
    \/ completeRideOnChain \/ CompleteIsCalled \/ CompleteFails
    \/ cancelActiveRide \/ CancelServed \/ HandlerFails

\* The interval polls while somebody is signed in, and the network does not fail for ever.
DriverPolling ==
    /\ WF_driverVars(ActivePollServed)
    /\ SF_driverVars(\E p \in activePolls : ActivePollAnswers(p))

DriverSpec == DriverInit /\ [][DriverNext]_driverVars /\ DriverPolling

\* A driver who presses "Start Ride" again and again, with a wallet and a chain that
\* answer in the end.
Starting ==
    /\ WF_driverVars(HandlerFails)
    /\ SF_driverVars(startRideOnChain)
    /\ SF_driverVars(StartIsCalled)

StartSpec == DriverSpec /\ Starting

-----------------------------------------------------------------------------
DriverTypeOK ==
    /\ rides \in [Request -> RideStatus] /\ updated \in Seq(Request)
    /\ offered \in [Request -> Offer \cup {NoOffer}] /\ chain \in Seq(ChainRide)
    /\ signedIn \in BOOLEAN /\ online \in BOOLEAN
    /\ pendingRides \subseteq Request /\ myRide \in MyRide \cup {NoRide}
    /\ myOffers \subseteq Request
    /\ handler \in Handler
    /\ activePolls \subseteq MyRide \cup {NoRide} /\ openPolls \subseteq SUBSET Request

(***************************************************************************)
(* "Complete Ride" is offered only when some ride of this rider and driver *)
(* has started on the chain: the page's own STARTED, which polls do not    *)
(* take back, is never invented.                                           *)
(***************************************************************************)
StartedIsStarted ==
    myRide.status = "STARTED" =>
        \E i \in 1..Len(chain) : chain[i].status \in {"STARTED", "OVER"}

(***************************************************************************)
(* The page never lists open rides while it shows an active one, nor to a  *)
(* driver who is offline or signed out, whichever of the two polls answers *)
(* last.                                                                   *)
(***************************************************************************)
NoRidesWhileBusy ==
    pendingRides # {} => signedIn /\ online /\ myRide = NoRide

(***************************************************************************)
(* A driver who stays signed in while some ride of his is active comes to  *)
(* see an active ride, and sees one again whenever the page has lost it.   *)
(***************************************************************************)
DriverSees ==
    <>[](signedIn /\ ActiveRide # NoRide) => []<>(myRide # NoRide)

\* The page says "Start Ride" of a ride that is accepted on the chain and not started.
StartIsDue ==
    /\ StartShown
    /\ LiveRides # {} /\ chain[Resolved].status = "ACCEPTED"

(***************************************************************************)
(* "Start the ride first, then complete it at drop-off", says the page: a  *)
(* driver who presses the button again and again gets the ride started.    *)
(***************************************************************************)
StartReachesTheChain == []<>(~ StartIsDue)

(***************************************************************************)
(* The page signs an offer "so the rider's on-chain acceptRide call can    *)
(* recover this signer": when the rider has selected an offer made with    *)
(* this page over the present nonce, and the driver is free, acceptRide    *)
(* goes through.                                                           *)
(***************************************************************************)
OfferCanBeAccepted ==
    \A r \in Request :
        /\ rides[r] = "DRIVER_SELECTED" /\ LiveRides = {}
        /\ offered[r] = [nonce |-> driverNonce, signed |-> signedFields]
        => Recovers(offered[r])
=============================================================================
