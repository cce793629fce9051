------------------------------- MODULE Carpool -------------------------------
(***************************************************************************)
(* contracts/src/Carpool.sol: the settlement contract.  One action per     *)
(* external function; the function's require()s are the guards, and a call *)
(* that reverts is no step.  The call a withdrawal makes to its recipient  *)
(* is a window of its own (Withdraw ... WithdrawReturn) in which accounts  *)
(* that have code may call back into every function that does not carry    *)
(* nonReentrant.                                                           *)
(*                                                                         *)
(* Abstracted: the coordinates, the document and review hashes (written,   *)
(* never read), the counters of User (never written after registration)    *)
(* and the events.                                                         *)
(***************************************************************************)
EXTENDS Integers, FiniteSets

CONSTANTS
    Account,              \* addresses that call the contract
    NoAccount,            \* address(0)
    Contract,             \* the accounts that have code, so get control when paid
    Deployer,             \* the owner the constructor is given
    IdHash,               \* identity hashes the owner registers drivers under
    DriverCandidate,      \* accounts the owner may register as drivers
    UserCandidate,        \* accounts that may register as riders
    Backend,              \* values of the backend address
    NewOwner,             \* what ownership may pass to; NoAccount is renouncing it
    DRIVER_MIN_DEPOSIT,
    CEILING_BOND_PERCENT,
    delayThreshold,
    surchargePerSecond,
    WordSize,             \* 2^256: uint256 is 0 .. WordSize - 1
    Fare,                 \* fares drivers sign
    Value,                \* wei of a deposit or of a collateral withdrawal
    Eta,                  \* estimated times drivers enter
    Payout,               \* payouts the owner names when resolving a dispute
    Stars,                \* ratings riders give
    MaxRides,             \* bound: rides ever created
    MaxOffers,            \* bound: signatures ever given
    MaxBalance,           \* bound: the ether there is
    MaxTime               \* bound: the last block's timestamp

ASSUME AccountAssumption ==
    /\ NoAccount \notin Account
    /\ Contract \subseteq Account
    /\ DriverCandidate \subseteq Account
    /\ UserCandidate \subseteq Account
    /\ Deployer \in Account
    /\ NewOwner \subseteq Account \cup {NoAccount}

ASSUME NumberAssumption ==
    /\ DRIVER_MIN_DEPOSIT \in Nat
    /\ CEILING_BOND_PERCENT \in 0..100
    /\ delayThreshold \in Nat
    /\ surchargePerSecond \in Nat
    /\ WordSize \in Nat \ {0}
    /\ Fare \subseteq Nat
    /\ Value \subseteq Nat
    /\ Eta \subseteq Nat
    /\ Payout \subseteq Nat
    /\ Stars \subseteq Nat
    /\ MaxRides \in Nat
    /\ MaxOffers \in Nat
    /\ MaxBalance \in Nat
    /\ MaxTime \in Nat

\* There are finitely many addresses, less than 2^256 wei in existence, and the
\* owner may resolve a dispute with no payout.
ASSUME MoneyAssumption ==
    /\ IsFiniteSet(Account)
    /\ MaxBalance < WordSize
    /\ 0 \in Payout

VARIABLES
    owner,                \* Ownable
    backend,
    nextRideId,
    idsHashUsed,
    drivers,
    driverNonces,
    rides,
    users,                \* registered riders
    pendingWithdrawals,
    balance,              \* wei the contract holds
    entered,              \* whose withdraw() is waiting for its call to return
    offers,               \* acceptRide signatures drivers have given off-chain
    now                   \* block.timestamp

money     == <<pendingWithdrawals, balance>>
registry  == <<owner, backend, idsHashUsed, users>>
matching  == <<nextRideId, driverNonces>>
vars == <<owner, backend, nextRideId, idsHashUsed, drivers, driverNonces, rides,
          users, pendingWithdrawals, balance, entered, offers, now>>

RideId == 0..(MaxRides - 1)

DriverStatus == {"Verified", "Active", "Suspended", "Banned"}
RideStatus   == {"Requested", "Accepted", "Started", "Completed",
                 "Cancelled", "Disputed"}

Driver == [driverAddress : Account \cup {NoAccount}, status : DriverStatus,
           isOnRide : BOOLEAN, rating : Nat, ratingCount : Nat, amtDeposited : Nat]

Ride == [user : Account \cup {NoAccount}, driver : Account \cup {NoAccount},
         status : RideStatus, fare : Nat, finalFare : Nat, ceilingBond : Nat,
         startTime : Nat, endTime : Nat, estimatedTime : Nat, rating : Nat]

Offer == [rider : Account, driver : Account, fare : Nat, ceiling : BOOLEAN, nonce : Nat]

\* What an unwritten entry of each mapping reads as.
NoDriver == [driverAddress |-> NoAccount, status |-> "Verified", isOnRide |-> FALSE,
             rating |-> 0, ratingCount |-> 0, amtDeposited |-> 0]
NoRide   == [user |-> NoAccount, driver |-> NoAccount, status |-> "Requested",
             fare |-> 0, finalFare |-> 0, ceilingBond |-> 0, startTime |-> 0,
             endTime |-> 0, estimatedTime |-> 0, rating |-> 0]

Init ==
    /\ owner = Deployer
    /\ backend \in Backend
    /\ nextRideId = 0
    /\ idsHashUsed = {}
    /\ drivers = [a \in Account |-> NoDriver]
    /\ driverNonces = [a \in Account |-> 0]
    /\ rides = [id \in RideId |-> NoRide]
    /\ users = {}
    /\ pendingWithdrawals = [a \in Account |-> 0]
    /\ balance = 0
    /\ entered = NoAccount
    /\ offers = {}
    /\ now = 0

-----------------------------------------------------------------------------
(***************************************************************************)
(* Modifiers and arithmetic.  A definition that stands just before another *)
(* with the same parameters (FinalFareUncapped, StaysBusy ...) is that     *)
(* other with a slip in it: the slips are used nowhere, they are what the  *)
(* properties must be able to tell from the code.                          *)
(***************************************************************************)

\* While a withdrawal's call runs, only accounts with code can make calls.
MayCall(a)      == entered = NoAccount \/ a \in Contract
nonReentrant    == entered = NoAccount
onlyOwner(a)    == a = owner
rideExists(id)  == rides[id].user # NoAccount
onlyActiveDriver(a) == drivers[a].status = "Active"
Registered(d)   == drivers[d].driverAddress # NoAccount
IsPartyDriverOnly(a, r) == a = r.driver
IsParty(a, r)   == a = r.user \/ a = r.driver
CancellableCompleted(r) == r.status \in {"Started", "Accepted", "Completed"}
CancellableDisputed(r)  == r.status \in {"Started", "Accepted", "Disputed"}
Cancellable(r)  == r.status \in {"Started", "Accepted"}
MayUnlockBusy(a) == Registered(a)
MayUnlock(a)    == Registered(a) /\ ~drivers[a].isOnRide

\* Checked arithmetic reverts when the result leaves uint256.
Fits(n) == n < WordSize

\* Ether attached to a call arrives with it.
Receive(v) == /\ balance + v <= MaxBalance
              /\ balance' = balance + v

Bond(fare, ceiling) == IF ceiling THEN (fare * CEILING_BOND_PERCENT) \div 100 ELSE 0

DueWithoutBond(fare, ceiling) == fare
Due(fare, ceiling) == fare + Bond(fare, ceiling)

Escrow(r) == r.fare + r.ceilingBond

\* The time limit is a checked addition, the surcharge wraps.
TimeLimit(r) == r.estimatedTime + delayThreshold
Surcharged(r, endTime) ==
    LET actualTime == (endTime - r.startTime) % WordSize IN
    IF actualTime > TimeLimit(r)
    THEN (r.fare + (actualTime - TimeLimit(r)) * surchargePerSecond) % WordSize
    ELSE r.fare
FinalFareUncapped(r, endTime) == Surcharged(r, endTime)
FinalFareFromBond(r, endTime) ==
    IF Surcharged(r, endTime) > r.ceilingBond THEN r.ceilingBond ELSE Surcharged(r, endTime)
FinalFare(r, endTime) ==
    IF Surcharged(r, endTime) > Escrow(r) THEN Escrow(r) ELSE Surcharged(r, endTime)

\* Two credits to the pull balances, which may go to one account.
CreditLastOnly(a, x, b, y) ==
    pendingWithdrawals' =
        [c \in Account |-> pendingWithdrawals[c] + IF c = b THEN y ELSE IF c = a THEN x ELSE 0]
CreditFits(a, x, b, y) ==
    /\ Fits(pendingWithdrawals[a] + x)
    /\ Fits(pendingWithdrawals[b] + y + IF a = b THEN x ELSE 0)
Credit(a, x, b, y) ==
    /\ CreditFits(a, x, b, y)
    /\ pendingWithdrawals' =
         [c \in Account |-> pendingWithdrawals[c] + (IF c = a THEN x ELSE 0)
                                                  + (IF c = b THEN y ELSE 0)]

\* A driver's nonce moves on with every ride accepted.
SpendNothing(d) == UNCHANGED driverNonces
SpendNonce(d)   == driverNonces' = [driverNonces EXCEPT ![d] = @ + 1]

\* What the functions write into the record of a driver and of a ride.
NewDriverBlank(d) == NoDriver
NewDriver(d) == [NoDriver EXCEPT !.driverAddress = d]
Staked(dr, deposited, status) == [dr EXCEPT !.amtDeposited = deposited, !.status = status]
StaysIdle(dr) == dr
MakeBusy(dr) == [dr EXCEPT !.isOnRide = TRUE]
StaysBusy(dr) == dr
MakeFree(dr) == [dr EXCEPT !.isOnRide = FALSE]
AddRating(dr, stars) == [dr EXCEPT !.rating = @ + stars, !.ratingCount = @ + 1]

Accept(r, u, d, fare, bond) == [r EXCEPT !.user = u, !.driver = d, !.fare = fare,
                                         !.ceilingBond = bond, !.status = "Accepted"]
Start(r, t, eta)     == [r EXCEPT !.status = "Started", !.startTime = t,
                                  !.estimatedTime = eta]
Complete(r, pay, t)  == [r EXCEPT !.status = "Completed", !.finalFare = pay, !.endTime = t]
SetStatus(r, status) == [r EXCEPT !.status = status]
SetNoRating(r, stars) == r
SetRating(r, stars)  == [r EXCEPT !.rating = stars]

-----------------------------------------------------------------------------
(***************************************************************************)
(* Administration                                                          *)
(***************************************************************************)

\* OpenZeppelin's transferOwnership and renounceOwnership.
transferOwnership(a, new) ==
    /\ MayCall(a)
    /\ onlyOwner(a)
    /\ owner' = new
    /\ UNCHANGED <<backend, idsHashUsed, users, matching, drivers, rides, money,
                   entered, offers, now>>

setBackend(a, new) ==
    /\ MayCall(a)
    /\ onlyOwner(a)
    /\ backend' = new
    /\ UNCHANGED <<owner, idsHashUsed, users, matching, drivers, rides, money,
                   entered, offers, now>>

registerDriver(a, d, id) ==
    /\ MayCall(a)
    /\ onlyOwner(a)
    /\ ~Registered(d)
    /\ id \notin idsHashUsed
    /\ idsHashUsed' = idsHashUsed \cup {id}
    /\ drivers' = [drivers EXCEPT ![d] = NewDriver(d)]
    /\ UNCHANGED <<owner, backend, users, matching, rides, money, entered, offers, now>>

(***************************************************************************)
(* Collateral                                                              *)
(***************************************************************************)

depositDriverCollateral(a, v) ==
    LET deposited == drivers[a].amtDeposited + v IN
    /\ nonReentrant
    /\ Registered(a)
    /\ drivers[a].status # "Banned"
    /\ v > 0
    /\ Fits(deposited)
    /\ Receive(v)
    /\ drivers' = [drivers EXCEPT ![a] =
           Staked(@, deposited, IF @.status = "Verified" /\ deposited >= DRIVER_MIN_DEPOSIT
                                THEN "Active" ELSE @.status)]
    /\ UNCHANGED <<registry, matching, rides, pendingWithdrawals, entered, offers, now>>

reactivateDriver(a, v) ==
    LET deposited == drivers[a].amtDeposited + v IN
    /\ nonReentrant
    /\ drivers[a].status = "Suspended"
    /\ v > 0
    /\ Fits(deposited)
    /\ deposited >= DRIVER_MIN_DEPOSIT
    /\ Receive(v)
    /\ drivers' = [drivers EXCEPT ![a] = Staked(@, deposited, "Active")]
    /\ UNCHANGED <<registry, matching, rides, pendingWithdrawals, entered, offers, now>>

withdrawCollateral(a, v) ==
    LET left == drivers[a].amtDeposited - v IN
    /\ nonReentrant
    /\ MayUnlock(a)
    /\ v > 0
    /\ left >= 0
    /\ Credit(a, v, a, 0)
    /\ drivers' = [drivers EXCEPT ![a] =
           Staked(@, left, IF @.status = "Active" /\ left < DRIVER_MIN_DEPOSIT
                           THEN "Suspended" ELSE @.status)]
    /\ UNCHANGED <<registry, matching, rides, balance, entered, offers, now>>

(***************************************************************************)
(* Pull payments.  The balance is zeroed before the recipient is called; a *)
(* recipient that has code keeps control until WithdrawReturn.  A call     *)
(* that fails undoes the whole transaction and is no step.                 *)
(***************************************************************************)

Withdraw(a) ==
    /\ nonReentrant
    /\ pendingWithdrawals[a] > 0
    /\ pendingWithdrawals[a] <= balance
    /\ pendingWithdrawals' = [pendingWithdrawals EXCEPT ![a] = 0]
    /\ balance' = balance - pendingWithdrawals[a]
    /\ entered' = IF a \in Contract THEN a ELSE NoAccount
    /\ UNCHANGED <<registry, matching, drivers, rides, offers, now>>

WithdrawReturn ==
    /\ entered # NoAccount
    /\ entered' = NoAccount
    /\ UNCHANGED <<registry, matching, drivers, rides, money, offers, now>>

(***************************************************************************)
(* Rides                                                                   *)
(***************************************************************************)

registerUser(a) ==
    /\ MayCall(a)
    /\ a \notin users
    /\ users' = users \cup {a}
    /\ UNCHANGED <<owner, backend, idsHashUsed, matching, drivers, rides, money,
                   entered, offers, now>>

\* A driver signs an offer off-chain, over the nonce the chain shows at the time.
SignOffer(d, rider, fare, ceiling) ==
    LET offer == [rider |-> rider, driver |-> d, fare |-> fare, ceiling |-> ceiling,
                  nonce |-> driverNonces[d]] IN
    /\ nonReentrant
    /\ Cardinality(offers) < MaxOffers
    /\ offers' = offers \cup {offer}
    /\ UNCHANGED <<registry, matching, drivers, rides, money, entered, now>>

\* payable, and not nonReentrant.  The signature recovers the driver exactly
\* when the driver signed this offer under the present nonce.
acceptRide(a, d, fare, ceiling) ==
    LET offer == [rider |-> a, driver |-> d, fare |-> fare, ceiling |-> ceiling,
                  nonce |-> driverNonces[d]] IN
    /\ MayCall(a)
    /\ a \in users
    /\ Registered(d)
    /\ drivers[d].status = "Active"
    /\ ~drivers[d].isOnRide
    /\ fare > 0
    /\ offer \in offers
    /\ ceiling => Fits(fare * CEILING_BOND_PERCENT)
    /\ Fits(fare + Bond(fare, ceiling))
    /\ nextRideId < MaxRides
    /\ Receive(Due(fare, ceiling))
    /\ SpendNonce(d)
    /\ drivers' = [drivers EXCEPT ![d] = MakeBusy(@)]
    /\ nextRideId' = nextRideId + 1
    /\ rides' = [rides EXCEPT ![nextRideId] = Accept(@, a, d, fare, Bond(fare, ceiling))]
    /\ UNCHANGED <<registry, pendingWithdrawals, entered, offers, now>>

startRide(a, id, eta) ==
    /\ MayCall(a)
    /\ onlyActiveDriver(a)
    /\ rideExists(id)
    /\ a = rides[id].driver
    /\ rides[id].status = "Accepted"
    /\ eta > 0
    /\ rides' = [rides EXCEPT ![id] = Start(@, now, eta)]
    /\ UNCHANGED <<registry, matching, drivers, money, entered, offers, now>>

completeRide(a, id) ==
    LET r == rides[id]
        finalFare == FinalFare(r, now) IN
    /\ nonReentrant
    /\ onlyActiveDriver(a)
    /\ rideExists(id)
    /\ a = r.driver
    /\ r.status = "Started"
    /\ Fits(TimeLimit(r))
    /\ Fits(Escrow(r))
    /\ Credit(r.driver, finalFare, r.user, Escrow(r) - finalFare)
    /\ rides' = [rides EXCEPT ![id] = Complete(@, finalFare, now)]
    /\ drivers' = [drivers EXCEPT ![r.driver] = MakeFree(@)]
    /\ UNCHANGED <<registry, matching, balance, entered, offers, now>>

\* What cancelRide requires.
MayCancel(a, id) ==
    LET r == rides[id] IN
    /\ nonReentrant
    /\ rideExists(id)
    /\ IsParty(a, r)
    /\ Cancellable(r)
    /\ Fits(Escrow(r))
    /\ CreditFits(r.user, Escrow(r), r.user, 0)

cancelRide(a, id) ==
    LET r == rides[id] IN
    /\ MayCancel(a, id)
    /\ Credit(r.user, Escrow(r), r.user, 0)
    /\ rides' = [rides EXCEPT ![id] = SetStatus(@, "Cancelled")]
    /\ drivers' = [drivers EXCEPT ![r.driver] = MakeFree(@)]
    /\ UNCHANGED <<registry, matching, balance, entered, offers, now>>

disputeRide(a, id) ==
    /\ nonReentrant
    /\ rideExists(id)
    /\ IsParty(a, rides[id])
    /\ rides[id].status = "Started"
    /\ rides' = [rides EXCEPT ![id] = SetStatus(@, "Disputed")]
    /\ UNCHANGED <<registry, matching, drivers, money, entered, offers, now>>

\* What resolveDispute requires.
MayResolve(a, id, payout) ==
    LET r == rides[id] IN
    /\ nonReentrant
    /\ onlyOwner(a)
    /\ r.status = "Disputed"
    /\ Fits(Escrow(r))
    /\ payout <= Escrow(r)
    /\ CreditFits(r.driver, payout, r.user, Escrow(r) - payout)

resolveDispute(a, id, payout) ==
    LET r == rides[id] IN
    /\ MayResolve(a, id, payout)
    /\ Credit(r.driver, payout, r.user, Escrow(r) - payout)
    /\ rides' = [rides EXCEPT ![id] = Complete(@, payout, now)]
    /\ drivers' = [drivers EXCEPT ![r.driver] = MakeFree(@)]
    /\ UNCHANGED <<registry, matching, balance, entered, offers, now>>

rateDriver(a, id, stars) ==
    LET r == rides[id] IN
    /\ MayCall(a)
    /\ rideExists(id)
    /\ stars \in 1..5
    /\ a = r.user
    /\ r.status = "Completed"
    /\ r.rating = 0
    /\ Fits(drivers[r.driver].rating + stars)
    /\ rides' = [rides EXCEPT ![id] = SetRating(@, stars)]
    /\ drivers' = [drivers EXCEPT ![r.driver] = AddRating(@, stars)]
    /\ UNCHANGED <<registry, matching, money, entered, offers, now>>

\* The next block.
Tick ==
    /\ nonReentrant
    /\ now < MaxTime
    /\ now' = now + 1
    /\ UNCHANGED <<registry, matching, drivers, rides, money, entered, offers>>

-----------------------------------------------------------------------------
Administer(a) ==
    \/ \E new \in NewOwner : transferOwnership(a, new)
    \/ \E new \in Backend : setBackend(a, new)
    \/ \E d \in DriverCandidate, id \in IdHash : registerDriver(a, d, id)

ManageCollateral(a) ==
    \E v \in Value : \/ depositDriverCollateral(a, v)
                     \/ reactivateDriver(a, v)
                     \/ withdrawCollateral(a, v)

Travel(a, id) ==
    \/ \E eta \in Eta : startRide(a, id, eta)
    \/ completeRide(a, id)
    \/ cancelRide(a, id)
    \/ disputeRide(a, id)
    \/ \E payout \in Payout : resolveDispute(a, id, payout)
    \/ \E stars \in Stars : rateDriver(a, id, stars)

Match(a) ==
    \/ a \in UserCandidate /\ registerUser(a)
    \/ \E d \in DriverCandidate, fare \in Fare, ceiling \in BOOLEAN :
          \/ acceptRide(a, d, fare, ceiling)
          \/ a \in UserCandidate /\ SignOffer(d, a, fare, ceiling)

Next ==
    \/ \E a \in Account : \/ Administer(a)
                          \/ ManageCollateral(a)
                          \/ Match(a)
                          \/ \E id \in RideId : Travel(a, id)
                          \/ Withdraw(a)
    \/ WithdrawReturn
    \/ Tick

Spec == Init /\ [][Next]_vars

-----------------------------------------------------------------------------
(***************************************************************************)
(* Properties                                                              *)
(***************************************************************************)

\* Every variable has its type: no deposit, balance or count ever goes below
\* zero.
TypeOK ==
    /\ owner \in Account \cup {NoAccount}
    /\ backend \in Backend
    /\ nextRideId \in 0..MaxRides
    /\ idsHashUsed \subseteq IdHash
    /\ drivers \in [Account -> Driver]
    /\ driverNonces \in [Account -> Nat]
    /\ rides \in [RideId -> Ride]
    /\ users \subseteq Account
    /\ pendingWithdrawals \in [Account -> Nat]
    /\ balance \in Nat
    /\ entered \in Account \cup {NoAccount}
    /\ offers \subseteq Offer
    /\ now \in Nat

\* The contract still holds this ride's escrow.
Live(r) == r.status \in {"Accepted", "Started", "Disputed"}
Closed(r) == r.status \in {"Completed", "Cancelled"}

\* isOnRide is TRUE exactly while a ride of that driver is live, so a finished
\* ride always frees its driver and an unfinished one never does.
BusyMeansLive ==
    \A d \in Account :
        drivers[d].isOnRide <=> \E id \in RideId : rides[id].driver = d /\ Live(rides[id])

\* No driver serves two rides at a time, whatever offers are outstanding.
OneRideAtATime ==
    \A i, j \in RideId :
        Live(rides[i]) /\ Live(rides[j]) /\ rides[i].driver = rides[j].driver => i = j

\* A driver on a ride is Active and has the minimum collateral locked, so
\* onlyActiveDriver never keeps the driver of a live ride from starting or
\* completing it, however deposits and withdrawals interleave with rides.
BusyIsStaked ==
    \A d \in Account : drivers[d].isOnRide =>
        /\ drivers[d].status = "Active"
        /\ drivers[d].amtDeposited >= DRIVER_MIN_DEPOSIT

\* The nonce of a driver is the number of rides the driver has ever had.
RidesOf(d) == {id \in RideId : rides[id].driver = d}
NonceCountsRides ==
    \A d \in Account : driverNonces[d] = Cardinality(RidesOf(d))

\* Every ride stands on a signature of its own: the driver signed this rider,
\* this fare and this ceiling choice under the nonce that numbers the ride
\* among the driver's rides.  No signature is ever used for a second ride.
EarlierRides(id) == {j \in 0..(id - 1) : rides[j].driver = rides[id].driver}
EveryRideSigned ==
    \A id \in RideId : rides[id].user # NoAccount =>
        \E ceiling \in BOOLEAN :
            /\ rides[id].ceilingBond = Bond(rides[id].fare, ceiling)
            /\ [rider |-> rides[id].user, driver |-> rides[id].driver,
                fare |-> rides[id].fare, ceiling |-> ceiling,
                nonce |-> Cardinality(EarlierRides(id))] \in offers

\* Each identity hash is spent on one driver: as many are used as drivers exist.
IdPerDriver == Cardinality(idsHashUsed) = Cardinality({d \in Account : Registered(d)})

\* The driver of a completed ride never gets more than its escrow.
PayoutWithinEscrow ==
    \A id \in RideId :
        rides[id].status = "Completed" => rides[id].finalFare <= Escrow(rides[id])

\* No surcharge this deployment can compute reaches the word size.
SurchargeFits ==
    \A fare \in Fare : fare + MaxTime * surchargePerSecond < WordSize

\* However late the trip, a driver who completes it is paid at least the fare,
\* and exactly the fare when the rider posted no bond.
FareKept ==
    [][SurchargeFits =>
        \A id \in RideId :
            rides[id].status = "Started" /\ rides'[id].status = "Completed" =>
                /\ rides'[id].finalFare >= rides[id].fare
                /\ rides[id].ceilingBond = 0 => rides'[id].finalFare = rides[id].fare]_vars

\* A ride that closes pays its whole escrow to its rider and driver in that
\* step, and the pull balances of everybody else stay as they are.
Gain(a) == pendingWithdrawals'[a] - pendingWithdrawals[a]
EscrowPaidOut ==
    [][\A id \in RideId : Live(rides[id]) /\ ~Live(rides'[id]) =>
          LET u == rides[id].user
              d == rides[id].driver IN
          /\ Gain(u) + (IF d = u THEN 0 ELSE Gain(d)) = Escrow(rides[id])
          /\ Gain(u) >= 0 /\ Gain(d) >= 0
          /\ \A a \in Account \ {u, d} : Gain(a) = 0]_vars

\* A closed ride stays as it was settled: only its rating may still be
\* written, once.
ClosedIsFinal ==
    [][\A id \in RideId : Closed(rides[id]) =>
          \/ rides'[id] = rides[id]
          \/ rides[id].rating = 0 /\ rides'[id] = [rides[id] EXCEPT !.rating = rides'[id].rating]]_vars

\* Money is never stuck in a ride: a cancellation by the rider of an accepted or
\* started ride passes every require, whatever estimated time the driver entered,
\* and while there is an owner some resolution of a disputed ride does.
ExitOpen ==
    nonReentrant => \A id \in RideId :
        /\ rides[id].status \in {"Accepted", "Started"} => MayCancel(rides[id].user, id)
        /\ rides[id].status = "Disputed" /\ owner # NoAccount =>
              \E payout \in Payout : MayResolve(owner, id, payout)

=============================================================================
