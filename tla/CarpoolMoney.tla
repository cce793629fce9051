---------------------------- MODULE CarpoolMoney ----------------------------
(***************************************************************************)
(* What Carpool's totals must add up to: the ether it holds, and the       *)
(* ratings of a driver.                                                    *)
(***************************************************************************)
EXTENDS Carpool, Functions

\* What the contract still holds of a ride.
Held(r) == IF Live(r) THEN Escrow(r) ELSE 0

Collateral == SumFunction([a \in Account |-> drivers[a].amtDeposited])
Owed       == SumFunction(pendingWithdrawals)
Escrowed   == SumFunction([id \in RideId |-> Held(rides[id])])

\* The contract holds exactly the collateral, the pull balances and the escrow
\* of the live rides, also while a withdrawal's call is running: every account
\* can always be paid, and no wei is lost in it.
Solvent == balance = Collateral + Owed + Escrowed

\* The rating total and count of a driver are those of the driver's rated
\* rides, each counted once.
RatedRides(d) == {id \in RidesOf(d) : rides[id].rating # 0}
StarsOf == [id \in RideId |-> rides[id].rating]
RatingsAddUp ==
    \A d \in Account :
        /\ drivers[d].ratingCount = Cardinality(RatedRides(d))
        /\ drivers[d].rating = SumFunctionOnSet(StarsOf, RatedRides(d))

=============================================================================
