--------------------------- MODULE MarketMatching ---------------------------
(***************************************************************************)
(* The marketplace implements RideMatching.  A ride in dispute is matched: *)
(* its requests have no way out of a dispute.  The rows do not say whether *)
(* a request or an event of the chain wrote them last: a history variable  *)
(* does.                                                                   *)
(***************************************************************************)
EXTENDS Marketplace

VARIABLE told             \* history: a ride's row is what an event said of it

historyVars == <<marketVars, told>>

HistoryInit == MarketInit /\ told = [id \in RideRequest |-> FALSE]

HistoryNext ==
    \/ \E a \in Wallet, id \in RideRequest :
          RideTransaction(a, id) /\ told' = [told EXCEPT ![id] = FALSE]
    \/ \E id \in RideRequest : Reporting(id) /\ told' = [told EXCEPT ![id] = TRUE]
    \/ (Offering \/ Restart) /\ UNCHANGED told

HistorySpec == HistoryInit /\ [][HistoryNext]_historyVars

StageOf(ride) ==
    CASE ride.status = "Absent"    -> "None"
      [] ride.status = "OPEN"      -> "Open"
      [] ride.status = "COMPLETED" -> "Done"
      [] ride.status = "CANCELLED" -> "CalledOff"
      [] OTHER                     -> "Matched"

Applicants(id) ==
    {d \in Wallet : \E o \in OfferId : driver_offers[o].ride = id /\ driver_offers[o].driver = d}

\* The driver of the offer that was selected, if one was.
Chosen(id) ==
    IF SelectedFor(id) = {} THEN NoWallet
    ELSE driver_offers[CHOOSE o \in SelectedFor(id) : TRUE].driver

RM(id) == INSTANCE RideMatching WITH
    Person     <- Wallet,
    Nobody     <- NoWallet,
    stage      <- StageOf(ride_requests[id]),
    applicants <- Applicants(id),
    chosen     <- Chosen(id),
    partner    <- ride_requests[id].driver,
    told       <- told[id]

\* Whatever requests run between the statements of another, and whatever the chain
\* reports meanwhile: a ride request is matched once, with a driver who offered and
\* stays chosen; a request of the marketplace ends it only if it has not ended; and
\* no event opens it to offers again.
\* (\A id \in RideRequest : RM(id)!MatchingSpec, with the quantifier inside [].)
ImplementsMatching ==
    /\ \A id \in RideRequest : RM(id)!MatchingInit
    /\ [][\A id \in RideRequest : [RM(id)!MatchingNext]_(RM(id)!matchingVars)]_historyVars

=============================================================================
