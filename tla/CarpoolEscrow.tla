---------------------------- MODULE CarpoolEscrow ----------------------------
(***************************************************************************)
(* Carpool implements RideEscrow.  A ride's phase is read off its status;  *)
(* deposits, withdrawals, ratings, starting a trip and registration are    *)
(* steps the escrow does not see.                                          *)
(***************************************************************************)
EXTENDS Carpool

PhaseOf(r) ==
    CASE r.status = "Requested"               -> "None"
      [] r.status \in {"Accepted", "Started"} -> "Open"
      [] r.status = "Disputed"                -> "Frozen"
      [] r.status = "Cancelled"               -> "Refunded"
      [] r.status = "Completed"               -> "Settled"

RE == INSTANCE RideEscrow WITH
    Party   <- Account,
    NoParty <- NoAccount,
    Amount  <- {fare + Bond(fare, ceiling) : fare \in Fare, ceiling \in BOOLEAN},
    phase   <- [id \in RideId |-> PhaseOf(rides[id])],
    rider   <- [id \in RideId |-> rides[id].user],
    driver  <- [id \in RideId |-> rides[id].driver],
    amount  <- [id \in RideId |-> Escrow(rides[id])],
    share   <- [id \in RideId |-> rides[id].finalFare]

\* Every behaviour of the contract, callbacks into it included, is a behaviour
\* of the escrow: an escrow opens once, closes once and is never overpaid.
ImplementsEscrow == RE!EscrowSpec

=============================================================================
