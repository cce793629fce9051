--------------------------- MODULE DriverPageProofs ---------------------------
(***************************************************************************)
(* Proofs about the driver's page, for every number of requests, rides on  *)
(* the chain and answers on their way.                                     *)
(***************************************************************************)
EXTENDS DriverPage, SequenceTheorems, TLAPS

\* Some ride of the pair has started on the chain.
SomeStarted == \E i \in 1..Len(chain) : chain[i].status \in {"STARTED", "OVER"}

\* What the proof needs to know of the servers: rows and rides have their types, the
\* backend has not invented a start, and the driver has one ride at a time.
ServersHold ==
    /\ rides \in [Request -> RideStatus]
    /\ updated \in Seq(Request)
    /\ chain \in Seq(ChainRide)
    /\ \A r \in Request : rides[r] = "STARTED" => SomeStarted
    /\ \A i, j \in LiveRides : i = j

\* Nor has an answer on its way, or the page.
RideHolds(ride) ==
    /\ ride = NoRide \/ ride.id \in Request
    /\ ride.status = "STARTED" => SomeStarted
StartsHold ==
    /\ RideHolds(myRide)
    /\ \A p \in activePolls : RideHolds(p)

\* A cancellation is of a ride.
HandlerAt    == {"idle", "dialog", "read", "sign", "posted", "start", "complete", "cancel"}
HandlerShape == [at : HandlerAt, ride : MaybeRequest, nonce : Nat]
CancelHolds ==
    /\ handler \in HandlerShape
    /\ handler.at = "cancel" => handler.ride \in Request

\* The list of open rides, and the answers that would fill it, are there only while
\* the list may be shown.
Listing == signedIn /\ online /\ myRide = NoRide
ListHolds ==
    /\ signedIn \in BOOLEAN /\ online \in BOOLEAN
    /\ pendingRides # {} => Listing
    /\ openPolls # {} => Listing

IInv == ServersHold /\ StartsHold /\ ListHolds /\ CancelHolds

-----------------------------------------------------------------------------
\* The servers as they were.
LEMMA ServersSame ==
    ASSUME ServersHold, UNCHANGED <<rides, updated, chain>>
    PROVE  ServersHold' /\ (SomeStarted => SomeStarted')
BY DEF ServersHold, SomeStarted, LiveRides

\* The ride whose row was written last is one of the requests, if there is one.
LEMMA ActiveRideHolds ==
    ASSUME ServersHold
    PROVE  RideHolds(ActiveRide)
<1>1. CASE updated = <<>>
  BY <1>1 DEF ActiveRide, NoRide, RideHolds
<1>2. CASE updated # <<>>
  <2>1. updated[1] \in Request
    BY <1>2 DEF ServersHold
  <2> QED
    BY <1>2, <2>1 DEF ActiveRide, ServersHold, RideHolds
<1> QED
  BY <1>1, <1>2

\* A row is written.
LEMMA StatusWritten ==
    ASSUME ServersHold, NEW r \in Request, NEW status \in RideStatus, SetStatus(r, status),
           UNCHANGED chain, status = "STARTED" => SomeStarted
    PROVE  ServersHold' /\ (SomeStarted => SomeStarted')
<1>1. rides' = [rides EXCEPT ![r] = status]
  BY DEF SetStatus
<1>2. OthersThan(r) \in Seq(Request)
  <2>1. CASE \E i \in 1..Len(updated) : updated[i] = r
    <3> DEFINE i == CHOOSE i \in 1..Len(updated) : updated[i] = r
    <3>1. i \in 1..Len(updated)
      BY <2>1
    <3>2. OthersThan(r) = SubSeq(updated, 1, i - 1) \o SubSeq(updated, i + 1, Len(updated))
      BY <2>1 DEF OthersThan
    <3> HIDE DEF i
    <3> QED
      BY <3>1, <3>2 DEF ServersHold
  <2>2. CASE ~ \E i \in 1..Len(updated) : updated[i] = r
    BY <2>2 DEF OthersThan, ServersHold
  <2> QED
    BY <2>1, <2>2
<1>3. updated' \in Seq(Request)
  <2>1. <<r>> \o OthersThan(r) \in Seq(Request)
    BY <1>2
  <2> QED
    BY <1>2, <2>1 DEF SetStatus
<1>4. \A x \in Request : rides'[x] = "STARTED" => SomeStarted
  BY <1>1 DEF ServersHold
<1> QED
  BY <1>1, <1>3, <1>4 DEF ServersHold, SomeStarted, LiveRides

\* The effect of the poll of open rides keeps the list hidden where it must be.
LEMMA EffectKeeps ==
    ASSUME ListHolds, NEW ride, NEW isOnline \in BOOLEAN, NEW auth \in BOOLEAN,
           OpenEffect(ride, isOnline, auth),
           myRide' = ride, online' = isOnline, signedIn' = auth
    PROVE  ListHolds'
<1>1. CASE ride = myRide /\ isOnline = online /\ auth = signedIn
  <2>1. UNCHANGED <<openPolls, pendingRides, myRide, online, signedIn>>
    BY <1>1 DEF OpenEffect
  <2> QED
    BY <2>1 DEF ListHolds, Listing
<1>2. CASE ~ (ride = myRide /\ isOnline = online /\ auth = signedIn)
  <2>1. /\ openPolls' = {}
        /\ pendingRides' = IF auth /\ isOnline /\ ride = NoRide THEN pendingRides ELSE {}
    BY <1>2 DEF OpenEffect, Cancelled
  <2>2. pendingRides' # {} => auth /\ isOnline /\ ride = NoRide
    BY <2>1
  <2> QED
    BY <2>1, <2>2 DEF ListHolds, Listing
<1> QED
  BY <1>1, <1>2

\* The page shows a ride that has started only if one has.
LEMMA Shows ==
    ASSUME IInv, NEW ride, NEW isOnline \in BOOLEAN, Show(ride, isOnline),
           RideHolds(ride), activePolls' \subseteq activePolls, CancelHolds',
           ServersHold', SomeStarted => SomeStarted'
    PROVE  IInv'
<1>1. ListHolds'
  BY EffectKeeps DEF Show, IInv, ListHolds
<1>2. StartsHold'
  BY DEF Show, IInv, StartsHold, RideHolds
<1> QED
  BY <1>1, <1>2 DEF IInv

\* A step that leaves the page's variables alone.
LEMMA PageSame ==
    ASSUME IInv, UNCHANGED <<signedIn, online, pendingRides, myRide, openPolls>>,
           \A p \in activePolls' : p \in activePolls \/ RideHolds(p),
           CancelHolds', ServersHold', SomeStarted => SomeStarted'
    PROVE  IInv'
BY DEF IInv, StartsHold, RideHolds, ListHolds, Listing

-----------------------------------------------------------------------------
(***************************************************************************)
(* The rider, the webhook and other programs.                              *)
(***************************************************************************)

\* The chain moves a ride on, or has a new one.
LEMMA ChainSteps ==
    ASSUME ServersHold,
           \/ \E r \in Request : RiderAccepts(r)
           \/ \E i \in 1..Len(chain), status \in {"STARTED", "OVER"} : ChainMoves(i, status)
    PROVE  ServersHold' /\ (SomeStarted => SomeStarted')
<1>1. CASE \E r \in Request : RiderAccepts(r)
  <2>1. PICK r \in Request : RiderAccepts(r)
    BY <1>1
  <2> DEFINE ride == [request |-> r, status |-> "ACCEPTED"]
  <2>2. chain' = Append(chain, ride) /\ UNCHANGED <<rides, updated>>
    BY <2>1 DEF RiderAccepts
  <2>3. ride \in ChainRide
    BY DEF ChainRide
  <2> HIDE DEF ride
  <2>4. /\ chain' \in Seq(ChainRide) /\ Len(chain') = Len(chain) + 1 /\ Len(chain) \in Nat
        /\ \A i \in 1..Len(chain) : chain'[i] = chain[i]
    BY <2>2, <2>3 DEF ServersHold
  <2>5. SomeStarted => SomeStarted'
    BY <2>4 DEF SomeStarted
  <2>6. \A i, j \in LiveRides' : i = j
    BY <2>1, <2>4 DEF RiderAccepts, LiveRides
  <2> QED
    BY <2>2, <2>4, <2>5, <2>6 DEF ServersHold
<1>2. CASE \E i \in 1..Len(chain), status \in {"STARTED", "OVER"} : ChainMoves(i, status)
  <2>1. PICK i \in 1..Len(chain), status \in {"STARTED", "OVER"} : ChainMoves(i, status)
    BY <1>2
  <2> DEFINE ride == [chain[i] EXCEPT !.status = status]
  <2>2. chain' = [chain EXCEPT ![i] = ride] /\ UNCHANGED <<rides, updated>>
    BY <2>1 DEF ChainMoves
  <2>3. chain[i] \in ChainRide
    BY DEF ServersHold
  <2>4. ride \in ChainRide /\ ride.status = status
    BY <2>3 DEF ChainRide
  <2> HIDE DEF ride
  <2>5. chain' \in Seq(ChainRide) /\ Len(chain') = Len(chain) /\ chain'[i] = ride
    BY <2>2, <2>4 DEF ServersHold
  <2>6. SomeStarted'
    BY <2>4, <2>5 DEF SomeStarted
  <2>7. LiveRides' \subseteq LiveRides
    <3>1. chain[i].status # "OVER"
      BY <2>1 DEF ChainMoves
    <3>2. \A j \in 1..Len(chain) : j # i => chain'[j] = chain[j]
      BY <2>2
    <3> QED
      BY <2>5, <3>1, <3>2 DEF LiveRides
  <2> QED
    BY <2>2, <2>5, <2>6, <2>7 DEF ServersHold
<1> QED
  BY <1>1, <1>2

\* Whatever the servers do, nothing has started that has not.
LEMMA ServerSteps ==
    ASSUME ServersHold, Server
    PROVE  ServersHold' /\ (SomeStarted => SomeStarted')
<1>1. ASSUME NEW r \in Request, RiderPosts(r) \/ RiderSelects(r) \/ RiderNotifies(r)
      PROVE  ServersHold' /\ (SomeStarted => SomeStarted')
  <2>1. /\ \E status \in {"OPEN", "DRIVER_SELECTED", "ONCHAIN_ACCEPTED"} : SetStatus(r, status)
        /\ chain' = chain
    BY <1>1 DEF RiderPosts, RiderSelects, RiderNotifies
  <2>2. {"OPEN", "DRIVER_SELECTED", "ONCHAIN_ACCEPTED"} \subseteq RideStatus \ {"STARTED"}
    BY DEF RideStatus, ACTIVE_DRIVER_RIDE_STATUSES
  <2> QED
    BY <2>1, <2>2, StatusWritten
<1>2. ASSUME NEW r \in Request, ProgramOffers(r)
      PROVE  ServersHold' /\ (SomeStarted => SomeStarted')
  BY <1>2, ServersSame DEF ProgramOffers
<1>3. ASSUME NEW i \in 1..Len(chain), NEW status \in RideStatus, WebhookReports(i, status)
      PROVE  ServersHold' /\ (SomeStarted => SomeStarted')
  <2>1. PICK r : r = chain[i].request
    OBVIOUS
  <2>2. r \in Request
    <3>1. chain[i] \in ChainRide
      BY DEF ServersHold
    <3> QED
      BY <2>1, <3>1 DEF ChainRide
  <2>3. SetStatus(r, status) /\ chain' = chain
    BY <1>3, <2>1 DEF WebhookReports
  <2>4. status = "STARTED" => SomeStarted
    <3>1. chain[i] \in ChainRide
      BY DEF ServersHold
    <3> QED
      BY <1>3, <3>1 DEF WebhookReports, Reportable, SomeStarted, ChainRide
  <2> QED
    BY <2>2, <2>3, <2>4, StatusWritten
<1> QED
  BY <1>1, <1>2, <1>3, ChainSteps DEF Server

\* And they leave the page alone.
LEMMA ServerKeeps ==
    ASSUME IInv, Server
    PROVE  IInv'
<1>1. UNCHANGED <<signedIn, online, pendingRides, myRide, openPolls, activePolls>>
  BY DEF Server, RiderPosts, ProgramOffers, RiderSelects, RiderAccepts, RiderNotifies,
         WebhookReports, ChainMoves, Outside, pollVars
<1>2. CancelHolds'
  BY DEF IInv, CancelHolds, Server, RiderPosts, ProgramOffers, RiderSelects, RiderAccepts,
         RiderNotifies, WebhookReports, ChainMoves, Outside
<1> QED
  BY <1>1, <1>2, ServerSteps, PageSame DEF IInv

-----------------------------------------------------------------------------
(***************************************************************************)
(* The page.                                                               *)
(***************************************************************************)

\* Signing in and out, and the polls.
LEMMA PollSteps ==
    ASSUME IInv,
           \/ \E s \in BOOLEAN : SignedInBecomes(s)
           \/ ActivePollServed \/ OpenPollServed
           \/ \E p \in activePolls : ActivePollAnswers(p) \/ ActivePollFails(p)
           \/ \E p \in openPolls : OpenPollAnswers(p)
           \/ ToggleOnline
    PROVE  IInv'
<1>1. ServersHold' /\ (SomeStarted => SomeStarted')
  BY ServersSame DEF IInv, SignedInBecomes, ActivePollServed, OpenPollServed, ActivePollAnswers,
                     ActivePollFails, OpenPollAnswers, ToggleOnline, serverVars
<1>0. CancelHolds'
  BY DEF IInv, CancelHolds, SignedInBecomes, ActivePollServed, OpenPollServed, ActivePollAnswers,
         ActivePollFails, OpenPollAnswers, ToggleOnline
<1>2. CASE \E s \in BOOLEAN : SignedInBecomes(s)
  <2>1. PICK s \in BOOLEAN : SignedInBecomes(s)
    BY <1>2
  <2>2. /\ signedIn' = s /\ online' = online /\ activePolls' = {}
        /\ myRide' = myRide \/ myRide' = NoRide
        /\ OpenEffect(myRide', online, s)
    BY <2>1 DEF SignedInBecomes, Cancelled
  <2>3. PICK ride : ride = myRide'
    OBVIOUS
  <2>4. ListHolds'
    <3>1. OpenEffect(ride, online, s) /\ online \in BOOLEAN
      BY <2>2, <2>3 DEF IInv, ListHolds
    <3> QED
      BY <2>2, <2>3, <3>1, EffectKeeps DEF IInv
  <2>5. StartsHold'
    BY <1>1, <2>2 DEF IInv, StartsHold, RideHolds, NoRide
  <2> QED
    BY <1>0, <1>1, <2>4, <2>5 DEF IInv
<1>3. CASE ActivePollServed \/ \E p \in activePolls : ActivePollFails(p)
  <2>1. /\ UNCHANGED <<signedIn, online, pendingRides, myRide, openPolls>>
        /\ activePolls' \subseteq activePolls \cup {ActiveRide}
    BY <1>3 DEF ActivePollServed, ActivePollFails, Page
  <2>2. \A p \in activePolls' : p \in activePolls \/ RideHolds(p)
    BY <2>1, ActiveRideHolds DEF IInv
  <2> QED
    BY <1>0, <1>1, <2>1, <2>2, PageSame
<1>4. CASE \E p \in activePolls : ActivePollAnswers(p)
  <2>1. PICK p \in activePolls : ActivePollAnswers(p)
    BY <1>4
  <2>2. Show(Merged(p), online /\ p = NoRide) /\ activePolls' \subseteq activePolls
    BY <2>1 DEF ActivePollAnswers
  <2>3. RideHolds(Merged(p))
    BY DEF Merged, IInv, StartsHold
  <2>4. (online /\ p = NoRide) \in BOOLEAN
    OBVIOUS
  <2> QED
    BY <1>0, <1>1, <2>2, <2>3, <2>4, Shows
<1>5. CASE OpenPollServed \/ \E p \in openPolls : OpenPollAnswers(p)
  <2>1. StartsHold'
    BY <1>1, <1>5 DEF OpenPollServed, OpenPollAnswers, IInv, StartsHold, RideHolds
  <2>2. ListHolds'
    BY <1>5 DEF OpenPollServed, OpenPollAnswers, IInv, ListHolds, Listing
  <2> QED
    BY <1>0, <1>1, <2>1, <2>2 DEF IInv
<1>6. CASE ToggleOnline
  <2>1. /\ Show(myRide, ~ online) /\ activePolls' = activePolls
        /\ (~ online) \in BOOLEAN /\ RideHolds(myRide)
    BY <1>6 DEF ToggleOnline, IInv, StartsHold, ListHolds
  <2> QED
    BY <1>0, <1>1, <2>1, Shows
<1> QED
  BY <1>2, <1>3, <1>4, <1>5, <1>6

\* A handler that goes on, or opens and closes the dialog, changes no other variable the
\* invariant reads.
LEMMA HandlerSteps ==
    ASSUME IInv,
           \/ \E r \in Request : openOfferDialog(r)
           \/ closeOfferDialog
           \/ submitOffer \/ SubmitReadsNonce \/ SubmitPosted \/ SubmitAnswered \/ SubmitFails
           \/ startRideOnChain \/ completeRideOnChain \/ CompleteFails
           \/ cancelActiveRide \/ HandlerFails
    PROVE  IInv'
<1>1. /\ \E h : Continues(h)
      /\ UNCHANGED <<rides, updated, chain>>
  <2>1. CASE (\E r \in Request : openOfferDialog(r)) \/ startRideOnChain
               \/ completeRideOnChain \/ cancelActiveRide
    BY <2>1 DEF openOfferDialog, startRideOnChain, completeRideOnChain, cancelActiveRide, Begins,
                serverVars
  <2>2. CASE closeOfferDialog \/ submitOffer \/ SubmitReadsNonce \/ SubmitAnswered
    BY <2>2 DEF closeOfferDialog, submitOffer, SubmitReadsNonce, SubmitAnswered, serverVars
  <2>3. CASE SubmitPosted \/ SubmitFails \/ CompleteFails \/ HandlerFails
    BY <2>3 DEF SubmitPosted, SubmitFails, CompleteFails, HandlerFails, serverVars
  <2> QED
    BY <2>1, <2>2, <2>3
<1>2. UNCHANGED <<signedIn, online, pendingRides, myRide, openPolls, activePolls>>
  BY <1>1 DEF Continues, Page
<1>3. ServersHold' /\ (SomeStarted => SomeStarted')
  BY <1>1, ServersSame DEF IInv
<1>4. CancelHolds'
  <2>0. Len(chain) \in Nat /\ handler \in HandlerShape /\ Idle \in HandlerShape /\ Idle.at = "idle"
    BY DEF IInv, ServersHold, CancelHolds, HandlerShape, HandlerAt, Idle, MaybeRequest
  <2>1. ASSUME NEW at \in HandlerAt, NEW r \in Request, Begins(at, r)
        PROVE  CancelHolds'
    <3>1. handler' = [Idle EXCEPT !.at = at, !.ride = r]
      BY <2>1 DEF Begins, Continues
    <3> QED
      BY <2>0, <3>1 DEF CancelHolds, HandlerShape, MaybeRequest
  <2>2. CASE \E r \in Request : openOfferDialog(r)
    BY <2>1, <2>2 DEF openOfferDialog, HandlerAt
  <2>3. CASE startRideOnChain \/ completeRideOnChain \/ cancelActiveRide
    <3>1. PICK r : r = myRide.id
      OBVIOUS
    <3>2. r \in Request
      BY <2>3, <3>1 DEF startRideOnChain, completeRideOnChain, cancelActiveRide, StartShown,
                        CompleteShown, RideShown, IInv, StartsHold, RideHolds
    <3>3. Begins("start", r) \/ Begins("complete", r) \/ Begins("cancel", r)
      BY <2>3, <3>1 DEF startRideOnChain, completeRideOnChain, cancelActiveRide
    <3> QED
      BY <2>1, <3>2, <3>3 DEF HandlerAt
  <2>4. CASE closeOfferDialog \/ SubmitAnswered \/ CompleteFails \/ HandlerFails
    BY <2>0, <2>4 DEF closeOfferDialog, SubmitAnswered, CompleteFails, HandlerFails, Continues,
                      CancelHolds
  <2>5. CASE SubmitFails
    <3>1. handler' = [Idle EXCEPT !.at = "dialog", !.ride = handler.ride]
      BY <2>5 DEF SubmitFails, Continues
    <3> QED
      BY <2>0, <3>1 DEF CancelHolds, HandlerShape, HandlerAt
  <2>6. CASE submitOffer \/ SubmitReadsNonce \/ SubmitPosted
    <3>1. \/ handler' = [handler EXCEPT !.at = "read"]
          \/ handler' = [handler EXCEPT !.at = "sign", !.nonce = Len(chain)]
          \/ handler' = [handler EXCEPT !.at = "posted"]
      BY <2>6 DEF submitOffer, SubmitReadsNonce, SubmitPosted, Continues, driverNonce
    <3> QED
      BY <2>0, <3>1 DEF CancelHolds, HandlerShape, HandlerAt
  <2> QED
    BY <2>2, <2>3, <2>4, <2>5, <2>6
<1> QED
  BY <1>2, <1>3, <1>4, PageSame

\* The ride is found started on the chain, and marked: it may be another the page
\* shows by now, but one has started.
LEMMA FindsStarted ==
    ASSUME IInv, StartFindsStarted
    PROVE  IInv'
<1> DEFINE ride == IF myRide = NoRide THEN NoRide ELSE [myRide EXCEPT !.status = "STARTED"]
<1>1. /\ Show(ride, online) /\ activePolls' = activePolls
      /\ UNCHANGED <<rides, updated, chain>>
      /\ LiveRides # {} /\ chain[Resolved].status = "STARTED"
      /\ handler' = Idle
  BY DEF StartFindsStarted, MarkStarted, ShowStarted, serverVars
<1>2. Resolved \in LiveRides
  <2>1. PICK i \in LiveRides : \A j \in LiveRides : j = i
    BY <1>1 DEF IInv, ServersHold
  <2>2. i \in Int /\ \A j \in LiveRides : j <= i
    BY <2>1 DEF LiveRides
  <2> QED
    BY <2>2 DEF Resolved
<1>3. SomeStarted
  BY <1>1, <1>2 DEF SomeStarted, LiveRides
<1>4. ServersHold' /\ (SomeStarted => SomeStarted')
  BY <1>1, ServersSame DEF IInv
<1>5. online \in BOOLEAN
  BY DEF IInv, ListHolds
<1>6. RideHolds(ride)
  BY <1>3 DEF RideHolds, IInv, StartsHold, MyRide
<1>7. CancelHolds'
  BY <1>1 DEF CancelHolds, HandlerShape, HandlerAt, Idle, MaybeRequest
<1> HIDE DEF ride
<1> QED
  BY <1>1, <1>4, <1>5, <1>6, <1>7, Shows

\* The calls the page does never get through, and the cancellation in the backend.
LEMMA CallsKeep ==
    ASSUME IInv, StartIsCalled \/ CompleteIsCalled \/ CancelServed
    PROVE  IInv'
<1>0. CancelHolds'
  BY DEF StartIsCalled, CompleteIsCalled, CancelServed, CancelHolds, HandlerShape, HandlerAt, Idle, MaybeRequest
<1>1. CASE StartIsCalled
  <2>1. UNCHANGED <<rides, updated, chain, Page, activePolls>>
    BY <1>1 DEF StartIsCalled, startRideArguments, startRideInputs
  <2> QED
    BY <1>0, <2>1, ServersSame, PageSame DEF Page, IInv
<1>2. CASE CompleteIsCalled
  <2>1. UNCHANGED <<rides, updated, chain, Page, activePolls>>
    BY <1>2 DEF CompleteIsCalled, comparedField, answeredFields
  <2> QED
    BY <1>0, <2>1, ServersSame, PageSame DEF Page, IInv
<1>3. CASE CancelServed
  <2>1. /\ SetStatus(handler.ride, "CLOSED") /\ Show(NoRide, online)
        /\ UNCHANGED <<chain, activePolls>>
        /\ rides[handler.ride] \in ACTIVE_DRIVER_RIDE_STATUSES
    BY <1>3 DEF CancelServed
  <2>2. PICK r : r = handler.ride
    OBVIOUS
  <2>3. r \in Request
    BY <1>3, <2>2 DEF IInv, CancelHolds, CancelServed
  <2>4. "CLOSED" \in RideStatus
    BY DEF RideStatus
  <2>5. ServersHold' /\ (SomeStarted => SomeStarted')
    BY <2>1, <2>2, <2>3, <2>4, StatusWritten DEF IInv
  <2>6. RideHolds(NoRide) /\ online \in BOOLEAN
    BY DEF RideHolds, NoRide, IInv, ListHolds
  <2> QED
    BY <1>0, <2>1, <2>5, <2>6, Shows
<1> QED
  BY <1>1, <1>2, <1>3

\* Every step keeps the invariant.
LEMMA NextKeeps == IInv /\ [DriverNext]_driverVars => IInv'
<1> SUFFICES ASSUME IInv, [DriverNext]_driverVars PROVE IInv'
  OBVIOUS
<1>1. CASE UNCHANGED driverVars
  BY <1>1, ServersSame, PageSame DEF driverVars, serverVars, pollVars, IInv, CancelHolds
<1> QED
  BY <1>1, ServerKeeps, PollSteps, HandlerSteps, FindsStarted, CallsKeep DEF DriverNext

\* The first state has it.
LEMMA InitHolds == DriverInit => IInv
<1> SUFFICES ASSUME DriverInit PROVE IInv
  OBVIOUS
<1>1. ServersHold
  BY DEF DriverInit, ServersHold, RideStatus, LiveRides
<1>2. StartsHold /\ ListHolds /\ CancelHolds
  BY DEF DriverInit, StartsHold, RideHolds, ListHolds, CancelHolds, HandlerShape, HandlerAt, Idle, NoRide,
         MaybeRequest
<1> QED
  BY <1>1, <1>2 DEF IInv

\* Every reachable state has it.
LEMMA AlwaysIInv == DriverSpec => []IInv
BY InitHolds, NextKeeps, PTL DEF DriverSpec

-----------------------------------------------------------------------------
\* "Complete Ride" is never offered before some ride of the pair has started on the
\* chain, whatever the page marked for itself and whichever answer came last.
THEOREM StartIsNotInvented == DriverSpec => []StartedIsStarted
<1>1. IInv => StartedIsStarted
  BY DEF IInv, StartsHold, RideHolds, SomeStarted, StartedIsStarted
<1> QED
  BY <1>1, AlwaysIInv, PTL

\* With any number of answers on their way, open rides are never listed to a driver who
\* has a ride, is offline or has signed out.
THEOREM ListOnlyWhenFree == DriverSpec => []NoRidesWhileBusy
<1>1. IInv => NoRidesWhileBusy
  BY DEF IInv, ListHolds, Listing, NoRidesWhileBusy
<1> QED
  BY <1>1, AlwaysIInv, PTL

-----------------------------------------------------------------------------
(***************************************************************************)
(* The types of the page.  They need what the order of the active rides is *)
(* in the backend: each of them once, and no other, so that the ride the   *)
(* poll answers with is an active one.                                     *)
(***************************************************************************)

\* x is in the sequence s.
Has(s, x) == \E i \in 1..Len(s) : s[i] = x

\* No ride is in it twice.
Once(s) == \A i, j \in 1..Len(s) : s[i] = s[j] => i = j

UpdatedHolds ==
    /\ updated \in Seq(Request) /\ Once(updated)
    /\ \A r \in Request : Has(updated, r) <=> rides[r] \in ACTIVE_DRIVER_RIDE_STATUSES

\* Without the element at k, a sequence without repetitions has the others.
LEMMA WithoutOne ==
    ASSUME NEW S, NEW s \in Seq(S), Once(s), NEW k \in 1..Len(s)
    PROVE  LET t == SubSeq(s, 1, k - 1) \o SubSeq(s, k + 1, Len(s))
           IN  /\ t \in Seq(S) /\ Once(t)
               /\ \A x : Has(t, x) <=> Has(s, x) /\ x # s[k]
<1> DEFINE a == SubSeq(s, 1, k - 1)
           b == SubSeq(s, k + 1, Len(s))
           t == a \o b
<1>0. Len(s) \in Nat /\ k \in Nat /\ 1 <= k /\ k <= Len(s)
  OBVIOUS
<1>1. a \in Seq(S) /\ Len(a) = k - 1 /\ \A i \in 1..(k - 1) : a[i] = s[i]
  BY <1>0
<1>2. b \in Seq(S) /\ Len(b) = Len(s) - k /\ \A i \in 1..(Len(s) - k) : b[i] = s[i + k]
  BY <1>0
<1> HIDE DEF a, b
<1>3. /\ t \in Seq(S) /\ Len(t) = Len(s) - 1
      /\ \A i \in 1..(Len(s) - 1) : t[i] = IF i < k THEN s[i] ELSE s[i + 1]
  <2>1. Len(a) \in Nat /\ Len(b) \in Nat /\ Len(a) + Len(b) = Len(s) - 1
    BY <1>0, <1>1, <1>2
  <2>2. /\ t \in Seq(S) /\ Len(t) = Len(a) + Len(b)
        /\ \A i \in 1..(Len(a) + Len(b)) : t[i] = IF i <= Len(a) THEN a[i] ELSE b[i - Len(a)]
    BY <1>1, <1>2, ConcatProperties
  <2>3. ASSUME NEW i \in 1..(Len(s) - 1)
        PROVE  t[i] = IF i < k THEN s[i] ELSE s[i + 1]
    <3>1. CASE i < k
      BY <1>0, <1>1, <2>1, <2>2, <3>1
    <3>2. CASE ~ (i < k)
      <4>1. i - (k - 1) \in 1..(Len(s) - k) /\ i - (k - 1) + k = i + 1 /\ ~ (i <= k - 1)
        BY <1>0, <3>2
      <4>2. b[i - (k - 1)] = s[i + 1]
        BY <1>2, <4>1
      <4>3. t[i] = b[i - (k - 1)]
        BY <1>1, <2>1, <2>2, <4>1
      <4> QED
        BY <3>2, <4>2, <4>3
    <3> QED
      BY <3>1, <3>2
  <2> QED
    BY <2>1, <2>2, <2>3
<1> HIDE DEF t
<1>4. Once(t)
  <2>1. ASSUME NEW i \in 1..Len(t), NEW j \in 1..Len(t), t[i] = t[j]
        PROVE  i = j
    <3>1. PICK x \in 1..Len(s) : t[i] = s[x] /\ x = IF i < k THEN i ELSE i + 1
      BY <1>0, <1>3
    <3>2. PICK y \in 1..Len(s) : t[j] = s[y] /\ y = IF j < k THEN j ELSE j + 1
      BY <1>0, <1>3
    <3>3. x = y
      BY <2>1, <3>1, <3>2 DEF Once
    <3> QED
      BY <1>0, <1>3, <3>1, <3>2, <3>3
  <2> QED
    BY <2>1 DEF Once
<1>5. ASSUME NEW x, Has(s, x), x # s[k]
      PROVE  Has(t, x)
  <2>1. PICK i \in 1..Len(s) : s[i] = x /\ i # k
    BY <1>5 DEF Has
  <2>2. CASE i < k
    BY <1>0, <1>3, <2>1, <2>2 DEF Has
  <2>3. CASE i > k
    <3>1. i - 1 \in 1..(Len(s) - 1) /\ ~ (i - 1 < k) /\ (i - 1) + 1 = i
      BY <1>0, <2>1, <2>3
    <3>2. t[i - 1] = x
      BY <1>3, <2>1, <3>1
    <3> QED
      BY <1>3, <3>1, <3>2 DEF Has
  <2> QED
    BY <2>1, <2>2, <2>3
<1>6. ASSUME NEW x, Has(t, x)
      PROVE  Has(s, x) /\ x # s[k]
  <2>1. PICK i \in 1..(Len(s) - 1) : t[i] = x
    BY <1>3, <1>6 DEF Has
  <2>2. \E j \in 1..Len(s) : j # k /\ s[j] = x
    BY <1>0, <1>3, <2>1
  <2> QED
    BY <2>2 DEF Has, Once
<1> QED
  BY <1>3, <1>4, <1>5, <1>6 DEF t, a, b

\* The active rides without r.
LEMMA OthersFacts ==
    ASSUME UpdatedHolds, NEW r \in Request
    PROVE  /\ OthersThan(r) \in Seq(Request) /\ Once(OthersThan(r))
           /\ \A x : Has(OthersThan(r), x) <=> Has(updated, x) /\ x # r
<1>1. CASE Has(updated, r)
  <2> DEFINE k == CHOOSE i \in 1..Len(updated) : updated[i] = r
  <2>1. k \in 1..Len(updated) /\ updated[k] = r
    BY <1>1 DEF Has
  <2>2. OthersThan(r) = SubSeq(updated, 1, k - 1) \o SubSeq(updated, k + 1, Len(updated))
    BY <1>1 DEF OthersThan, Has
  <2> HIDE DEF k
  <2> QED
    BY <2>1, <2>2, WithoutOne DEF UpdatedHolds
<1>2. CASE ~ Has(updated, r)
  BY <1>2 DEF OthersThan, Has, UpdatedHolds
<1> QED
  BY <1>1, <1>2

\* A row is written: the ride goes to the front, or leaves.
LEMMA RowWritten ==
    ASSUME UpdatedHolds, rides \in [Request -> RideStatus], NEW r \in Request,
           NEW status \in RideStatus, SetStatus(r, status)
    PROVE  UpdatedHolds'
<1> DEFINE rest == OthersThan(r)
<1>1. rest \in Seq(Request) /\ Once(rest) /\ \A x : Has(rest, x) <=> Has(updated, x) /\ x # r
  BY OthersFacts
<1>2. /\ rides' = [rides EXCEPT ![r] = status]
      /\ updated' = IF status \in ACTIVE_DRIVER_RIDE_STATUSES THEN <<r>> \o rest ELSE rest
  BY DEF SetStatus
<1> HIDE DEF rest
<1>3. \A x \in Request : Has(updated, x) <=> rides[x] \in ACTIVE_DRIVER_RIDE_STATUSES
  BY DEF UpdatedHolds
<1>4. CASE status \in ACTIVE_DRIVER_RIDE_STATUSES
  <2> DEFINE all == <<r>> \o rest
  <2>1. /\ all \in Seq(Request) /\ Len(all) = Len(rest) + 1 /\ all[1] = r
        /\ \A i \in 1..Len(rest) : all[i + 1] = rest[i]
    BY <1>1
  <2>2. Len(rest) \in Nat /\ updated' = all
    BY <1>1, <1>2, <1>4
  <2> HIDE DEF all
  <2>3. \A i \in 1..Len(all) : i = 1 \/ (i - 1 \in 1..Len(rest) /\ all[i] = rest[i - 1])
    <3>1. ASSUME NEW i \in 1..Len(all), i # 1
          PROVE  i - 1 \in 1..Len(rest) /\ all[i] = rest[i - 1]
      <4>1. i - 1 \in 1..Len(rest) /\ (i - 1) + 1 = i
        BY <2>1, <2>2, <3>1
      <4> QED
        BY <2>1, <4>1
    <3> QED
      BY <3>1
  <2>4. ASSUME NEW x PROVE Has(all, x) <=> x = r \/ Has(rest, x)
    <3>1. Has(all, x) => x = r \/ Has(rest, x)
      BY <2>1, <2>3 DEF Has
    <3>2. x = r => Has(all, x)
      BY <2>1, <2>2 DEF Has
    <3>3. Has(rest, x) => Has(all, x)
      <4>1. ASSUME NEW i \in 1..Len(rest), rest[i] = x
            PROVE  Has(all, x)
        <5>1. i + 1 \in 1..Len(all) /\ all[i + 1] = x
          BY <2>1, <2>2, <4>1
        <5> QED
          BY <5>1 DEF Has
      <4> QED
        BY <4>1 DEF Has
    <3> QED
      BY <3>1, <3>2, <3>3
  <2>5. Once(all)
    <3>1. \A i \in 1..Len(rest) : rest[i] # r
      BY <1>1 DEF Has
    <3>2. ASSUME NEW i \in 1..Len(all), NEW j \in 1..Len(all), all[i] = all[j]
          PROVE  i = j
      <4>1. CASE i # 1 /\ j # 1
        <5>1. i - 1 = j - 1
          BY <1>1, <2>3, <3>2, <4>1 DEF Once
        <5> QED
          BY <5>1
      <4>2. CASE i = 1 \/ j = 1
        BY <2>1, <2>3, <3>1, <3>2, <4>2
      <4> QED
        BY <4>1, <4>2
    <3> QED
      BY <3>2 DEF Once
  <2>6. \A x \in Request : Has(all, x) <=> rides'[x] \in ACTIVE_DRIVER_RIDE_STATUSES
    BY <1>1, <1>2, <1>3, <1>4, <2>4
  <2> QED
    BY <2>1, <2>2, <2>5, <2>6 DEF UpdatedHolds
<1>5. CASE status \notin ACTIVE_DRIVER_RIDE_STATUSES
  <2>1. updated' = rest
    BY <1>2, <1>5
  <2>2. \A x \in Request : Has(rest, x) <=> rides'[x] \in ACTIVE_DRIVER_RIDE_STATUSES
    BY <1>1, <1>2, <1>3, <1>5
  <2> QED
    BY <1>1, <2>1, <2>2 DEF UpdatedHolds
<1> QED
  BY <1>4, <1>5

\* The variables the page has, and the offers and rides it reads.
HandlerTypes ==
    /\ handler \in Handler
    /\ handler.at # "idle" => handler.ride \in Request
ListTypes == pendingRides \subseteq Request /\ openPolls \subseteq SUBSET Request
RideTypes ==
    myRide \in MyRide \cup {NoRide} /\ activePolls \subseteq MyRide \cup {NoRide}
OfferTypes ==
    /\ offered \in [Request -> Offer \cup {NoOffer}] /\ myOffers \subseteq Request
    /\ Len(chain) <= MaxRides

TypeInv == IInv /\ UpdatedHolds /\ HandlerTypes /\ ListTypes /\ RideTypes /\ OfferTypes

\* The poll answers with an active ride, if there is one.
LEMMA ActiveRideTyped ==
    ASSUME UpdatedHolds
    PROVE  ActiveRide \in MyRide \cup {NoRide}
<1>1. CASE updated = <<>>
  BY <1>1 DEF ActiveRide
<1>2. CASE updated # <<>>
  <2>1. 1 \in 1..Len(updated) /\ updated[1] \in Request
    BY <1>2 DEF UpdatedHolds
  <2>2. rides[updated[1]] \in ACTIVE_DRIVER_RIDE_STATUSES
    BY <2>1 DEF UpdatedHolds, Has
  <2> QED
    BY <1>2, <2>1, <2>2 DEF ActiveRide, MyRide
<1> QED
  BY <1>1, <1>2

\* Rows are written by the rider, by the webhook, and by a cancellation.
LEMMA UpdatedKeeps ==
    ASSUME TypeInv, [DriverNext]_driverVars
    PROVE  UpdatedHolds'
<1>1. ASSUME NEW r \in Request,
             \E status \in RideStatus : SetStatus(r, status)
      PROVE  UpdatedHolds'
  BY <1>1, RowWritten DEF TypeInv, IInv, ServersHold
<1>2. CASE UNCHANGED <<rides, updated>>
  BY <1>2 DEF TypeInv, UpdatedHolds
<1>3. CASE Server
  <2>1. {"OPEN", "DRIVER_SELECTED", "ONCHAIN_ACCEPTED", "STARTED", "CLOSED"} \subseteq RideStatus
    BY DEF RideStatus, ACTIVE_DRIVER_RIDE_STATUSES
  <2>2. ASSUME NEW i \in 1..Len(chain), NEW status \in RideStatus, WebhookReports(i, status)
        PROVE  UpdatedHolds'
    <3>1. chain[i] \in ChainRide
      BY DEF TypeInv, IInv, ServersHold
    <3>2. PICK r \in Request : r = chain[i].request
      BY <3>1 DEF ChainRide
    <3> QED
      BY <1>1, <2>1, <2>2, <3>2 DEF WebhookReports
  <2>3. ASSUME NEW r \in Request, RiderPosts(r) \/ RiderSelects(r) \/ RiderNotifies(r)
        PROVE  UpdatedHolds'
    BY <1>1, <2>1, <2>3 DEF RiderPosts, RiderSelects, RiderNotifies
  <2> QED
    BY <1>2, <1>3, <2>2, <2>3 DEF Server, ProgramOffers, RiderAccepts, ChainMoves
<1>4. CASE CancelServed
  <2>1. PICK r \in Request : r = handler.ride
    BY <1>4 DEF CancelServed, TypeInv, IInv, CancelHolds
  <2>2. "CLOSED" \in RideStatus
    BY DEF RideStatus
  <2> QED
    BY <1>1, <1>4, <2>1, <2>2 DEF CancelServed
<1>5. CASE CompleteIsCalled
  BY <1>2, <1>5 DEF CompleteIsCalled, comparedField, answeredFields
<1>6. CASE \/ \E r \in Request : openOfferDialog(r)
           \/ closeOfferDialog
           \/ submitOffer \/ SubmitReadsNonce \/ SubmitPosted \/ SubmitAnswered \/ SubmitFails
           \/ startRideOnChain \/ completeRideOnChain \/ CompleteFails
           \/ cancelActiveRide \/ HandlerFails
  BY <1>2, <1>6 DEF openOfferDialog, closeOfferDialog, submitOffer, SubmitReadsNonce, SubmitPosted,
        SubmitAnswered, SubmitFails, startRideOnChain, completeRideOnChain, CompleteFails,
        cancelActiveRide, HandlerFails, Begins, serverVars
<1>7. CASE \/ \E s \in BOOLEAN : SignedInBecomes(s)
           \/ ActivePollServed \/ OpenPollServed
           \/ \E p \in activePolls : ActivePollAnswers(p) \/ ActivePollFails(p)
           \/ \E p \in openPolls : OpenPollAnswers(p)
           \/ ToggleOnline \/ StartFindsStarted \/ StartIsCalled
  BY <1>2, <1>7 DEF SignedInBecomes, ActivePollServed, OpenPollServed, ActivePollAnswers,
        ActivePollFails, OpenPollAnswers, ToggleOnline, StartFindsStarted, StartIsCalled,
        MarkStarted, serverVars
<1>8. CASE UNCHANGED driverVars
  BY <1>2, <1>8 DEF driverVars, serverVars
<1> QED
  BY <1>3, <1>4, <1>5, <1>6, <1>7, <1>8 DEF DriverNext

\* A handler names a request, and has read a nonce of a ride there may be.
LEMMA HandlerTyped ==
    ASSUME TypeInv, [DriverNext]_driverVars
    PROVE  HandlerTypes'
<1>0. /\ handler \in Handler /\ (handler.at # "idle" => handler.ride \in Request)
      /\ Idle \in Handler /\ Idle.at = "idle" /\ Len(chain) \in 0..MaxRides
  <2>1. MaxRides \in Nat /\ 0 \in 0..MaxRides
    BY DriverPageAssumption
  <2>2. Len(chain) \in Nat
    BY DEF TypeInv, IInv, ServersHold
  <2> QED
    BY <2>1, <2>2 DEF TypeInv, HandlerTypes, OfferTypes, Handler, Idle, MaybeRequest
<1>1. ASSUME NEW at \in {"dialog", "start", "complete", "cancel"}, NEW r \in Request, Begins(at, r)
      PROVE  HandlerTypes'
  <2>1. handler' = [Idle EXCEPT !.at = at, !.ride = r]
    BY <1>1 DEF Begins, Continues
  <2> QED
    BY <1>0, <2>1 DEF HandlerTypes, Handler, MaybeRequest
<1>2. CASE handler' = handler \/ handler' = Idle
  BY <1>0, <1>2 DEF HandlerTypes
<1>3. CASE \E r \in Request : openOfferDialog(r)
  BY <1>1, <1>3 DEF openOfferDialog
<1>4. CASE startRideOnChain \/ completeRideOnChain \/ cancelActiveRide
  <2>1. PICK r : r = myRide.id
    OBVIOUS
  <2>2. r \in Request
    BY <1>4, <2>1 DEF startRideOnChain, completeRideOnChain, cancelActiveRide, StartShown,
                      CompleteShown, RideShown, TypeInv, IInv, StartsHold, RideHolds
  <2>3. Begins("start", r) \/ Begins("complete", r) \/ Begins("cancel", r)
    BY <1>4, <2>1 DEF startRideOnChain, completeRideOnChain, cancelActiveRide
  <2> QED
    BY <1>1, <2>2, <2>3
<1>5. CASE submitOffer \/ SubmitReadsNonce \/ SubmitPosted \/ SubmitFails
  <2>1. handler.at # "idle"
    BY <1>5 DEF submitOffer, SubmitReadsNonce, SubmitPosted, SubmitFails, DialogShown
  <2>2. \/ handler' = [handler EXCEPT !.at = "read"]
        \/ handler' = [handler EXCEPT !.at = "sign", !.nonce = Len(chain)]
        \/ handler' = [handler EXCEPT !.at = "posted"]
        \/ handler' = [Idle EXCEPT !.at = "dialog", !.ride = handler.ride]
    BY <1>5 DEF submitOffer, SubmitReadsNonce, SubmitPosted, SubmitFails, Continues, driverNonce
  <2> QED
    BY <1>0, <2>1, <2>2 DEF HandlerTypes, Handler, MaybeRequest
<1>6. CASE \/ closeOfferDialog \/ SubmitAnswered \/ CompleteFails \/ HandlerFails
           \/ StartFindsStarted \/ StartIsCalled \/ CompleteIsCalled \/ CancelServed
  BY <1>2, <1>6 DEF closeOfferDialog, SubmitAnswered, CompleteFails, HandlerFails,
        StartFindsStarted, MarkStarted, StartIsCalled, CompleteIsCalled, CancelServed, Continues
<1>7. CASE \/ Server
           \/ \E s \in BOOLEAN : SignedInBecomes(s)
           \/ ActivePollServed \/ OpenPollServed
           \/ \E p \in activePolls : ActivePollAnswers(p) \/ ActivePollFails(p)
           \/ \E p \in openPolls : OpenPollAnswers(p)
           \/ ToggleOnline \/ UNCHANGED driverVars
  BY <1>2, <1>7 DEF Server, RiderPosts, ProgramOffers, RiderSelects, RiderAccepts, RiderNotifies,
        WebhookReports, ChainMoves, Outside, SignedInBecomes, ActivePollServed, OpenPollServed,
        ActivePollAnswers, ActivePollFails, OpenPollAnswers, ToggleOnline, driverVars
<1> QED
  BY <1>3, <1>4, <1>5, <1>6, <1>7 DEF DriverNext

\* The list shows open rides, and its effect shows what it showed or nothing.
LEMMA ListTyped ==
    ASSUME TypeInv, [DriverNext]_driverVars
    PROVE  ListTypes'
<1>1. CASE UNCHANGED <<pendingRides, openPolls>>
  BY <1>1 DEF TypeInv, ListTypes
<1>2. ASSUME NEW ride, NEW isOnline, NEW auth, OpenEffect(ride, isOnline, auth)
      PROVE  ListTypes'
  BY <1>2 DEF OpenEffect, Cancelled, TypeInv, ListTypes
<1>3. CASE OpenPollServed \/ \E p \in openPolls : OpenPollAnswers(p)
  BY <1>3 DEF OpenPollServed, OpenPollAnswers, OpenRides, TypeInv, ListTypes
<1>4. CASE \E s \in BOOLEAN : SignedInBecomes(s)
  <2>1. \E ride : ride = myRide' /\ \E s \in BOOLEAN : OpenEffect(ride, online, s)
    BY <1>4 DEF SignedInBecomes
  <2> QED
    BY <1>2, <2>1
<1>5. ASSUME NEW ride, NEW isOnline, Show(ride, isOnline)
      PROVE  ListTypes'
  BY <1>2, <1>5 DEF Show
<1>6. CASE \/ \E p \in activePolls : ActivePollAnswers(p)
           \/ ToggleOnline \/ StartFindsStarted \/ CancelServed
  BY <1>5, <1>6 DEF ActivePollAnswers, ToggleOnline, StartFindsStarted, MarkStarted, ShowStarted,
        CancelServed
<1>7. CASE StartIsCalled \/ CompleteIsCalled
  BY <1>1, <1>7 DEF StartIsCalled, startRideArguments, startRideInputs, CompleteIsCalled,
        comparedField, answeredFields, Page
<1>8. CASE \/ Server \/ ActivePollServed \/ \E p \in activePolls : ActivePollFails(p)
           \/ UNCHANGED driverVars
  BY <1>1, <1>8 DEF Server, RiderPosts, ProgramOffers, RiderSelects, RiderAccepts, RiderNotifies,
        WebhookReports, ChainMoves, Outside, ActivePollServed, ActivePollFails, Page, driverVars,
        pollVars
<1>9. CASE \/ \E r \in Request : openOfferDialog(r)
           \/ closeOfferDialog
           \/ submitOffer \/ SubmitReadsNonce \/ SubmitPosted \/ SubmitAnswered \/ SubmitFails
           \/ startRideOnChain \/ completeRideOnChain \/ CompleteFails
           \/ cancelActiveRide \/ HandlerFails
  BY <1>1, <1>9 DEF openOfferDialog, closeOfferDialog, submitOffer, SubmitReadsNonce, SubmitPosted,
        SubmitAnswered, SubmitFails, startRideOnChain, completeRideOnChain, CompleteFails,
        cancelActiveRide, HandlerFails, Begins, Continues, Page
<1> QED
  BY <1>3, <1>4, <1>6, <1>7, <1>8, <1>9 DEF DriverNext

\* The page shows no ride, or one that is active.
LEMMA RideTyped ==
    ASSUME TypeInv, [DriverNext]_driverVars
    PROVE  RideTypes'
<1>0. /\ myRide \in MyRide \cup {NoRide} /\ activePolls \subseteq MyRide \cup {NoRide}
      /\ ActiveRide \in MyRide \cup {NoRide}
  BY ActiveRideTyped DEF TypeInv, RideTypes
<1>1. CASE UNCHANGED <<myRide, activePolls>>
  BY <1>0, <1>1 DEF RideTypes
<1>2. ASSUME NEW ride \in MyRide \cup {NoRide}, NEW isOnline, Show(ride, isOnline),
             activePolls' \subseteq activePolls
      PROVE  RideTypes'
  BY <1>0, <1>2 DEF Show, RideTypes
<1>3. CASE \E s \in BOOLEAN : SignedInBecomes(s)
  BY <1>0, <1>3 DEF SignedInBecomes, Cancelled, RideTypes
<1>4. CASE ActivePollServed \/ \E p \in activePolls : ActivePollFails(p)
  BY <1>0, <1>4 DEF ActivePollServed, ActivePollFails, Page, RideTypes
<1>5. CASE \E p \in activePolls : ActivePollAnswers(p)
  <2>1. PICK p \in activePolls : ActivePollAnswers(p)
    BY <1>5
  <2>2. Merged(p) \in MyRide \cup {NoRide}
    BY <1>0 DEF Merged
  <2> QED
    BY <1>2, <2>1, <2>2 DEF ActivePollAnswers
<1>6. CASE ToggleOnline
  BY <1>0, <1>2, <1>6 DEF ToggleOnline
<1>7. CASE StartFindsStarted
  <2>1. (IF myRide = NoRide THEN NoRide ELSE [myRide EXCEPT !.status = "STARTED"])
           \in MyRide \cup {NoRide}
    BY <1>0 DEF MyRide, ACTIVE_DRIVER_RIDE_STATUSES
  <2> QED
    BY <1>2, <1>7, <2>1 DEF StartFindsStarted, MarkStarted, ShowStarted
<1>8. CASE CancelServed
  BY <1>2, <1>8 DEF CancelServed
<1>9. CASE StartIsCalled \/ CompleteIsCalled
  BY <1>1, <1>9 DEF StartIsCalled, startRideArguments, startRideInputs, CompleteIsCalled,
        comparedField, answeredFields, Page
<1>10. CASE \/ Server \/ OpenPollServed \/ \E p \in openPolls : OpenPollAnswers(p)
            \/ UNCHANGED driverVars
  BY <1>1, <1>10 DEF Server, RiderPosts, ProgramOffers, RiderSelects, RiderAccepts, RiderNotifies,
        WebhookReports, ChainMoves, Outside, OpenPollServed, OpenPollAnswers, driverVars, pollVars
<1>11. CASE \/ \E r \in Request : openOfferDialog(r)
            \/ closeOfferDialog
            \/ submitOffer \/ SubmitReadsNonce \/ SubmitPosted \/ SubmitAnswered \/ SubmitFails
            \/ startRideOnChain \/ completeRideOnChain \/ CompleteFails
            \/ cancelActiveRide \/ HandlerFails
  BY <1>1, <1>11 DEF openOfferDialog, closeOfferDialog, submitOffer, SubmitReadsNonce, SubmitPosted,
        SubmitAnswered, SubmitFails, startRideOnChain, completeRideOnChain, CompleteFails,
        cancelActiveRide, HandlerFails, Begins, Continues, Page
<1> QED
  BY <1>3, <1>4, <1>5, <1>6, <1>7, <1>8, <1>9, <1>10, <1>11 DEF DriverNext

\* Offers are for requests, over nonces there may be; a ride is added to the chain only
\* within the bound.
LEMMA OfferTyped ==
    ASSUME TypeInv, [DriverNext]_driverVars
    PROVE  OfferTypes'
<1>0. /\ offered \in [Request -> Offer \cup {NoOffer}] /\ myOffers \subseteq Request
      /\ Len(chain) \in Nat /\ Len(chain) <= MaxRides /\ MaxRides \in Nat
      /\ chain \in Seq(ChainRide)
      /\ handler.nonce \in 0..MaxRides /\ (handler.at # "idle" => handler.ride \in Request)
  BY DriverPageAssumption DEF TypeInv, IInv, ServersHold, OfferTypes, HandlerTypes, Handler
<1>1. CASE UNCHANGED <<offered, myOffers, chain>>
  BY <1>0, <1>1 DEF OfferTypes
<1>2. CASE SubmitPosted \/ \E r \in Request : ProgramOffers(r)
  <2>1. \E r \in Request, nonce \in 0..MaxRides, signed \in {signedFields, hashedFields} :
           offered' = [offered EXCEPT ![r] = [nonce |-> nonce, signed |-> signed]]
    BY <1>0, <1>2 DEF SubmitPosted, ProgramOffers, driverNonce
  <2>2. UNCHANGED <<chain, myOffers>>
    BY <1>2 DEF SubmitPosted, ProgramOffers, Outside
  <2> QED
    BY <1>0, <2>1, <2>2 DEF OfferTypes, Offer
<1>3. CASE SubmitAnswered
  BY <1>0, <1>3 DEF SubmitAnswered, OfferTypes, serverVars
<1>4. CASE \E r \in Request : RiderAccepts(r)
  <2>1. PICK r \in Request : RiderAccepts(r)
    BY <1>4
  <2>2. Len(chain') = Len(chain) + 1
    BY <1>0, <2>1 DEF RiderAccepts
  <2>3. Len(chain) < MaxRides /\ UNCHANGED <<offered, myOffers>>
    BY <2>1 DEF RiderAccepts, Outside
  <2> QED
    BY <1>0, <2>2, <2>3 DEF OfferTypes
<1>5. CASE \E i \in 1..Len(chain), status \in {"STARTED", "OVER"} : ChainMoves(i, status)
  <2>1. Len(chain') = Len(chain)
    BY <1>0, <1>5 DEF ChainMoves
  <2> QED
    BY <1>0, <1>5, <2>1 DEF ChainMoves, Outside, OfferTypes
<1>6. CASE \/ \E r \in Request : RiderPosts(r) \/ RiderSelects(r) \/ RiderNotifies(r)
           \/ \E i \in 1..Len(chain), status \in RideStatus : WebhookReports(i, status)
  BY <1>1, <1>6 DEF RiderPosts, RiderSelects, RiderNotifies, WebhookReports, Outside
<1>7. CASE \/ \E s \in BOOLEAN : SignedInBecomes(s)
           \/ ActivePollServed \/ OpenPollServed
           \/ \E p \in activePolls : ActivePollAnswers(p) \/ ActivePollFails(p)
           \/ \E p \in openPolls : OpenPollAnswers(p)
           \/ ToggleOnline \/ StartFindsStarted
  BY <1>1, <1>7 DEF SignedInBecomes, ActivePollServed, OpenPollServed, ActivePollAnswers,
        ActivePollFails, OpenPollAnswers, ToggleOnline, StartFindsStarted, MarkStarted, serverVars
<1>8. CASE StartIsCalled \/ CompleteIsCalled \/ CancelServed \/ UNCHANGED driverVars
  BY <1>1, <1>8 DEF StartIsCalled, startRideArguments, startRideInputs, CompleteIsCalled,
        comparedField, answeredFields, CancelServed, driverVars, serverVars
<1>9. CASE \/ \E r \in Request : openOfferDialog(r)
           \/ closeOfferDialog
           \/ submitOffer \/ SubmitReadsNonce \/ SubmitFails
           \/ startRideOnChain \/ completeRideOnChain \/ CompleteFails
           \/ cancelActiveRide \/ HandlerFails
  BY <1>1, <1>9 DEF openOfferDialog, closeOfferDialog, submitOffer, SubmitReadsNonce, SubmitFails,
        startRideOnChain, completeRideOnChain, CompleteFails, cancelActiveRide, HandlerFails,
        Begins, serverVars
<1> QED
  BY <1>2, <1>3, <1>4, <1>5, <1>6, <1>7, <1>8, <1>9 DEF DriverNext, Server

\* Nothing is posted, offered or shown at first.
LEMMA TypesBegin == DriverInit => TypeInv
<1> SUFFICES ASSUME DriverInit PROVE TypeInv
  OBVIOUS
<1>1. UpdatedHolds
  BY DEF DriverInit, UpdatedHolds, Once, Has, ACTIVE_DRIVER_RIDE_STATUSES
<1>2. HandlerTypes
  BY DriverPageAssumption DEF DriverInit, HandlerTypes, Handler, Idle, MaybeRequest
<1>3. ListTypes /\ RideTypes /\ OfferTypes
  BY DriverPageAssumption DEF DriverInit, ListTypes, RideTypes, OfferTypes
<1> QED
  BY <1>1, <1>2, <1>3, InitHolds DEF TypeInv

\* With two polls, a handler and the backend's writes in any order every variable keeps
\* its type: no poll answers with a ride that is not active, and no handler runs for
\* none.
THEOREM DriverTypeCorrect == DriverSpec => []DriverTypeOK
<1>1. TypeInv /\ [DriverNext]_driverVars => TypeInv'
  BY NextKeeps, UpdatedKeeps, HandlerTyped, ListTyped, RideTyped, OfferTyped DEF TypeInv
<1>2. TypeInv => DriverTypeOK
  BY DEF TypeInv, IInv, ServersHold, ListHolds, UpdatedHolds, HandlerTypes, ListTypes, RideTypes,
         OfferTypes, DriverTypeOK
<1> QED
  BY <1>1, <1>2, TypesBegin, PTL DEF DriverSpec

=============================================================================
