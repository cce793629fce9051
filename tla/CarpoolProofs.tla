---------------------------- MODULE CarpoolProofs ----------------------------
(***************************************************************************)
(* Theorems about Carpool, for every set of accounts, every fare and every *)
(* value of the deployment's parameters.                                   *)
(***************************************************************************)
EXTENDS CarpoolEscrow, CarpoolMoney, Sums

USE AccountAssumption, NumberAssumption

(***************************************************************************)
(* Arithmetic of a settlement.                                             *)
(***************************************************************************)

\* A bond is a natural number.
LEMMA BondType ==
    ASSUME NEW fare \in Nat, NEW ceiling \in BOOLEAN
    PROVE  Bond(fare, ceiling) \in Nat
  <1>1. fare * CEILING_BOND_PERCENT \in Nat
    OBVIOUS
  <1>2. (fare * CEILING_BOND_PERCENT) \div 100 \in Nat
    BY <1>1
  <1>. QED  BY <1>2 DEF Bond

\* The final fare is a natural number within the escrow, surcharge wrapped or not.
LEMMA FinalFareWithinEscrow ==
    ASSUME NEW r \in Ride, NEW t \in Nat
    PROVE  FinalFare(r, t) \in 0..Escrow(r)
  <1>. DEFINE actual == (t - r.startTime) % WordSize
              late   == (r.fare + (actual - TimeLimit(r)) * surchargePerSecond) % WordSize
  <1>1. r.fare \in Nat /\ r.ceilingBond \in Nat /\ r.startTime \in Nat /\ TimeLimit(r) \in Nat
    BY DEF Ride, TimeLimit
  <1>2. actual \in Nat
    BY <1>1
  <1>3. (actual - TimeLimit(r)) * surchargePerSecond \in Int
    BY <1>1, <1>2
  <1>4. late \in Nat
    BY <1>1, <1>3
  <1>5. Surcharged(r, t) \in Nat
    BY <1>1, <1>4 DEF Surcharged
  <1>. QED  BY <1>1, <1>5 DEF FinalFare, Escrow

\* A credit leaves the pull balances natural numbers.
LEMMA CreditType ==
    ASSUME pendingWithdrawals \in [Account -> Nat],
           NEW a, NEW b, NEW x \in Nat, NEW y \in Nat, Credit(a, x, b, y)
    PROVE  pendingWithdrawals' \in [Account -> Nat]
  BY DEF Credit

\* The empty entry of rides is a ride.
LEMMA NoRideType == NoRide \in Ride
  BY DEF NoRide, Ride, RideStatus

\* The empty entry of drivers is a driver's record.
LEMMA NoDriverType == NoDriver \in Driver
  BY DEF NoDriver, Driver, DriverStatus

\* So is the record registerDriver writes.
LEMMA NewDriverType == ASSUME NEW d \in Account PROVE NewDriver(d) \in Driver
  BY DEF NewDriver, NoDriver, Driver, DriverStatus

(***************************************************************************)
(* What the record updates keep.                                           *)
(***************************************************************************)

\* Two records of a driver with the same ratings in them.
SameRating(dr, old) == dr.rating = old.rating /\ dr.ratingCount = old.ratingCount

\* A change of deposit and status leaves the rest of a driver's record alone.
LEMMA StakedFacts ==
    ASSUME NEW dr \in Driver, NEW n \in Nat, NEW s \in DriverStatus
    PROVE  /\ Staked(dr, n, s) \in Driver
           /\ Staked(dr, n, s).isOnRide = dr.isOnRide
           /\ Staked(dr, n, s).amtDeposited = n
           /\ Staked(dr, n, s).status = s
           /\ Staked(dr, n, s).driverAddress = dr.driverAddress
           /\ SameRating(Staked(dr, n, s), dr)
  BY DEF Staked, Driver, SameRating

\* isOnRide is all that taking or leaving a ride changes.
LEMMA MakeBusyFacts ==
    ASSUME NEW dr \in Driver
    PROVE  /\ MakeBusy(dr) \in Driver
           /\ MakeBusy(dr).isOnRide = TRUE
           /\ MakeBusy(dr).amtDeposited = dr.amtDeposited
           /\ MakeBusy(dr).status = dr.status
           /\ MakeBusy(dr).driverAddress = dr.driverAddress
           /\ SameRating(MakeBusy(dr), dr)
  BY DEF MakeBusy, Driver, SameRating

\* Leaving a ride: the same, the other way.
LEMMA MakeFreeFacts ==
    ASSUME NEW dr \in Driver
    PROVE  /\ MakeFree(dr) \in Driver
           /\ MakeFree(dr).isOnRide = FALSE
           /\ MakeFree(dr).amtDeposited = dr.amtDeposited
           /\ MakeFree(dr).status = dr.status
           /\ MakeFree(dr).driverAddress = dr.driverAddress
           /\ SameRating(MakeFree(dr), dr)
  BY DEF MakeFree, Driver, SameRating

\* A rating changes neither status, deposit nor isOnRide.
LEMMA AddRatingFacts ==
    ASSUME NEW dr \in Driver, NEW n \in Nat
    PROVE  /\ AddRating(dr, n) \in Driver
           /\ AddRating(dr, n).isOnRide = dr.isOnRide
           /\ AddRating(dr, n).amtDeposited = dr.amtDeposited
           /\ AddRating(dr, n).status = dr.status
           /\ AddRating(dr, n).driverAddress = dr.driverAddress
           /\ AddRating(dr, n).rating = dr.rating + n
           /\ AddRating(dr, n).ratingCount = dr.ratingCount + 1
  <1>1. dr.rating + n \in Nat /\ dr.ratingCount + 1 \in Nat
    BY DEF Driver
  <1>. QED  BY <1>1 DEF AddRating, Driver

\* What acceptRide writes into a ride.
LEMMA AcceptFacts ==
    ASSUME NEW r \in Ride, NEW u \in Account, NEW d \in Account,
           NEW fare \in Nat, NEW bond \in Nat
    PROVE  LET s == Accept(r, u, d, fare, bond) IN
           /\ s \in Ride
           /\ s.user = u /\ s.driver = d /\ s.status = "Accepted"
           /\ s.fare = fare /\ s.ceilingBond = bond /\ s.rating = r.rating
  BY DEF Accept, Ride, RideStatus

\* Starting a ride keeps its parties and its money.
LEMMA StartFacts ==
    ASSUME NEW r \in Ride, NEW t \in Nat, NEW eta \in Nat
    PROVE  LET s == Start(r, t, eta) IN
           /\ s \in Ride
           /\ s.user = r.user /\ s.driver = r.driver /\ s.status = "Started"
           /\ s.fare = r.fare /\ s.ceilingBond = r.ceilingBond /\ s.finalFare = r.finalFare
           /\ s.rating = r.rating
  BY DEF Start, Ride, RideStatus

\* Completing a ride keeps its parties and its escrow.
LEMMA CompleteFacts ==
    ASSUME NEW r \in Ride, NEW pay \in Nat, NEW t \in Nat
    PROVE  LET s == Complete(r, pay, t) IN
           /\ s \in Ride
           /\ s.user = r.user /\ s.driver = r.driver /\ s.status = "Completed"
           /\ s.fare = r.fare /\ s.ceilingBond = r.ceilingBond /\ s.finalFare = pay
           /\ s.rating = r.rating
  BY DEF Complete, Ride, RideStatus

\* A change of status is nothing else.
LEMMA SetStatusFacts ==
    ASSUME NEW r \in Ride, NEW status \in RideStatus
    PROVE  LET s == SetStatus(r, status) IN
           /\ s \in Ride
           /\ s.user = r.user /\ s.driver = r.driver /\ s.status = status
           /\ s.fare = r.fare /\ s.ceilingBond = r.ceilingBond /\ s.finalFare = r.finalFare
           /\ s.rating = r.rating
  BY DEF SetStatus, Ride

\* Rating a ride keeps its status, parties and money.
LEMMA SetRatingFacts ==
    ASSUME NEW r \in Ride, NEW stars \in Nat
    PROVE  LET s == SetRating(r, stars) IN
           /\ s \in Ride
           /\ s.user = r.user /\ s.driver = r.driver /\ s.status = r.status
           /\ s.fare = r.fare /\ s.ceilingBond = r.ceilingBond /\ s.finalFare = r.finalFare
           /\ s.rating = stars
  BY DEF SetRating, Ride

(***************************************************************************)
(* Type correctness.                                                       *)
(***************************************************************************)

\* The deployed contract is well typed.
LEMMA InitTypeOK == Init => TypeOK
  BY NoRideType, NoDriverType DEF Init, TypeOK

\* Every call, callbacks included, keeps it so.
LEMMA NextTypeOK == TypeOK /\ [Next]_vars => TypeOK'
  <1>. SUFFICES ASSUME TypeOK, [Next]_vars
                PROVE  TypeOK'
    OBVIOUS
  <1>. USE DEF TypeOK, registry, matching, money
  <1>1. ASSUME NEW a \in Account, NEW new \in NewOwner, transferOwnership(a, new)
        PROVE  TypeOK'
    BY <1>1 DEF transferOwnership
  <1>2. ASSUME NEW a \in Account, NEW new \in Backend, setBackend(a, new)
        PROVE  TypeOK'
    BY <1>2 DEF setBackend
  <1>3. ASSUME NEW a \in Account, NEW d \in DriverCandidate, NEW id \in IdHash,
               registerDriver(a, d, id)
        PROVE  TypeOK'
    BY <1>3, NewDriverType DEF registerDriver
  <1>4. ASSUME NEW a \in Account, NEW v \in Value, depositDriverCollateral(a, v)
        PROVE  TypeOK'
    <2>. DEFINE n == drivers[a].amtDeposited + v
                s == IF drivers[a].status = "Verified" /\ n >= DRIVER_MIN_DEPOSIT
                     THEN "Active" ELSE drivers[a].status
    <2>1. drivers[a] \in Driver /\ n \in Nat /\ s \in DriverStatus
      BY DEF Driver, DriverStatus
    <2>2. Staked(drivers[a], n, s) \in Driver
      BY <2>1, StakedFacts
    <2>3. drivers' = [drivers EXCEPT ![a] = Staked(drivers[a], n, s)]
      BY <1>4 DEF depositDriverCollateral
    <2>. QED  BY <1>4, <2>2, <2>3 DEF depositDriverCollateral, Receive
  <1>5. ASSUME NEW a \in Account, NEW v \in Value, reactivateDriver(a, v)
        PROVE  TypeOK'
    <2>1. drivers[a] \in Driver /\ drivers[a].amtDeposited + v \in Nat /\ "Active" \in DriverStatus
      BY DEF Driver, DriverStatus
    <2>2. Staked(drivers[a], drivers[a].amtDeposited + v, "Active") \in Driver
      BY <2>1, StakedFacts
    <2>. QED  BY <1>5, <2>2 DEF reactivateDriver, Receive
  <1>6. ASSUME NEW a \in Account, NEW v \in Value, withdrawCollateral(a, v)
        PROVE  TypeOK'
    <2>1. v \in Nat /\ 0 \in Nat
      OBVIOUS
    <2>2. pendingWithdrawals' \in [Account -> Nat]
      BY <1>6, <2>1, CreditType DEF withdrawCollateral
    <2>. DEFINE n == drivers[a].amtDeposited - v
                s == IF drivers[a].status = "Active" /\ n < DRIVER_MIN_DEPOSIT
                     THEN "Suspended" ELSE drivers[a].status
    <2>3. drivers[a] \in Driver /\ n \in Nat /\ s \in DriverStatus
      BY <1>6 DEF withdrawCollateral, MayUnlock, Driver, DriverStatus
    <2>4. Staked(drivers[a], n, s) \in Driver
      BY <2>3, StakedFacts
    <2>5. drivers' = [drivers EXCEPT ![a] = Staked(drivers[a], n, s)]
      BY <1>6 DEF withdrawCollateral
    <2>6. drivers' \in [Account -> Driver]
      BY <2>4, <2>5
    <2>7. UNCHANGED <<registry, matching, rides, balance, entered, offers, now>>
      BY <1>6 DEF withdrawCollateral
    <2>. HIDE DEF n, s
    <2>. QED  BY <2>2, <2>6, <2>7
  <1>7. ASSUME NEW a \in Account, Withdraw(a)
        PROVE  TypeOK'
    BY <1>7 DEF Withdraw
  <1>8. CASE WithdrawReturn
    BY <1>8 DEF WithdrawReturn
  <1>9. ASSUME NEW a \in Account, registerUser(a)
        PROVE  TypeOK'
    BY <1>9 DEF registerUser
  <1>10. ASSUME NEW a \in Account, NEW d \in DriverCandidate, NEW fare \in Fare,
                NEW ceiling \in BOOLEAN, SignOffer(d, a, fare, ceiling)
         PROVE  TypeOK'
    BY <1>10 DEF SignOffer, Offer
  <1>11. ASSUME NEW a \in Account, NEW d \in DriverCandidate, NEW fare \in Fare,
                NEW ceiling \in BOOLEAN, acceptRide(a, d, fare, ceiling)
         PROVE  TypeOK'
    <2>. DEFINE r == Accept(rides[nextRideId], a, d, fare, Bond(fare, ceiling))
    <2>1. Bond(fare, ceiling) \in Nat /\ fare \in Nat /\ d \in Account
      BY BondType
    <2>2. drivers' = [drivers EXCEPT ![d] = MakeBusy(drivers[d])]
      BY <1>11 DEF acceptRide
    <2>3. drivers' \in [Account -> Driver]
      BY <2>1, <2>2, MakeBusyFacts
    <2>4. nextRideId \in RideId /\ rides[nextRideId] \in Ride
      BY <1>11 DEF acceptRide, RideId
    <2>5. r \in Ride
      BY <2>1, <2>4, AcceptFacts
    <2>6. rides' = [rides EXCEPT ![nextRideId] = r]
      BY <1>11 DEF acceptRide
    <2>7. rides' \in [RideId -> Ride]
      BY <2>5, <2>6
    <2>8. driverNonces' \in [Account -> Nat] /\ nextRideId' \in 0..MaxRides /\ balance' \in Nat
      BY <1>11, <2>1 DEF acceptRide, Receive, SpendNonce, Due
    <2>. QED  BY <1>11, <2>3, <2>7, <2>8 DEF acceptRide
  <1>12. ASSUME NEW a \in Account, NEW id \in RideId, NEW eta \in Eta, startRide(a, id, eta)
         PROVE  TypeOK'
    BY <1>12, StartFacts DEF startRide
  <1>13. ASSUME NEW a \in Account, NEW id \in RideId, completeRide(a, id)
         PROVE  TypeOK'
    <2>. DEFINE r == rides[id]
    <2>1. FinalFare(r, now) \in Nat /\ Escrow(r) - FinalFare(r, now) \in Nat
      BY FinalFareWithinEscrow DEF Escrow, Ride
    <2>2. pendingWithdrawals' \in [Account -> Nat]
      BY <1>13, <2>1, CreditType DEF completeRide
    <2>3. rides' \in [RideId -> Ride]
      BY <1>13, <2>1, CompleteFacts DEF completeRide
    <2>4. drivers' \in [Account -> Driver]
      BY <1>13, MakeFreeFacts DEF completeRide
    <2>. QED  BY <1>13, <2>2, <2>3, <2>4 DEF completeRide
  <1>14. ASSUME NEW a \in Account, NEW id \in RideId, cancelRide(a, id)
         PROVE  TypeOK'
    <2>1. Escrow(rides[id]) \in Nat /\ 0 \in Nat
      BY DEF Escrow, Ride
    <2>2. pendingWithdrawals' \in [Account -> Nat]
      BY <1>14, <2>1, CreditType DEF cancelRide
    <2>3. rides' \in [RideId -> Ride]
      BY <1>14, SetStatusFacts DEF cancelRide, RideStatus
    <2>4. drivers' \in [Account -> Driver]
      BY <1>14, MakeFreeFacts DEF cancelRide
    <2>. QED  BY <1>14, <2>2, <2>3, <2>4 DEF cancelRide
  <1>15. ASSUME NEW a \in Account, NEW id \in RideId, disputeRide(a, id)
         PROVE  TypeOK'
    BY <1>15, SetStatusFacts DEF disputeRide, RideStatus
  <1>16. ASSUME NEW a \in Account, NEW id \in RideId, NEW payout \in Payout,
                resolveDispute(a, id, payout)
         PROVE  TypeOK'
    <2>1. payout \in Nat /\ Escrow(rides[id]) - payout \in Nat
      BY <1>16 DEF resolveDispute, MayResolve, Escrow, Ride
    <2>2. pendingWithdrawals' \in [Account -> Nat]
      BY <1>16, <2>1, CreditType DEF resolveDispute
    <2>3. rides' \in [RideId -> Ride]
      BY <1>16, <2>1, CompleteFacts DEF resolveDispute
    <2>4. drivers' \in [Account -> Driver]
      BY <1>16, MakeFreeFacts DEF resolveDispute
    <2>. QED  BY <1>16, <2>2, <2>3, <2>4 DEF resolveDispute
  <1>17. ASSUME NEW a \in Account, NEW id \in RideId, NEW stars \in Stars,
                rateDriver(a, id, stars)
         PROVE  TypeOK'
    <2>1. rides' \in [RideId -> Ride]
      BY <1>17, SetRatingFacts DEF rateDriver
    <2>2. drivers' \in [Account -> Driver]
      BY <1>17, AddRatingFacts DEF rateDriver
    <2>. QED  BY <1>17, <2>1, <2>2 DEF rateDriver
  <1>18. CASE Tick
    BY <1>18 DEF Tick
  <1>19. CASE UNCHANGED vars
    BY <1>19 DEF vars
  <1>. QED
    BY <1>1, <1>2, <1>3, <1>4, <1>5, <1>6, <1>7, <1>8, <1>9, <1>10, <1>11, <1>12,
       <1>13, <1>14, <1>15, <1>16, <1>17, <1>18, <1>19
       DEF Next, Administer, ManageCollateral, Match, Travel

\* No balance, deposit or count ever leaves its range, whoever calls what.
THEOREM TypeCorrect == Spec => []TypeOK
  BY InitTypeOK, NextTypeOK, PTL DEF Spec

(***************************************************************************)
(* The state of a driver's record.                                         *)
(***************************************************************************)

\* Only a registered driver has left Verified, an Active one has the minimum
\* deposited, and only an Active one is on a ride.
DriversSound ==
    \A d \in Account :
        /\ drivers[d].status # "Verified" => Registered(d)
        /\ drivers[d].status = "Active" => drivers[d].amtDeposited >= DRIVER_MIN_DEPOSIT
        /\ drivers[d].isOnRide => drivers[d].status = "Active"

\* It holds when nobody is registered.
LEMMA InitDriversSound == Init => DriversSound
  BY DEF Init, DriversSound, NoDriver

\* Every call keeps the records of the drivers sound.
LEMMA NextDriversSound == TypeOK /\ DriversSound /\ [Next]_vars => DriversSound'
  <1>. SUFFICES ASSUME TypeOK, DriversSound, [Next]_vars
                PROVE  DriversSound'
    OBVIOUS
  <1>0. /\ drivers \in [Account -> Driver] /\ rides \in [RideId -> Ride]
        /\ DriverCandidate \subseteq Account /\ Value \subseteq Nat /\ Stars \subseteq Nat
    BY DEF TypeOK
  <1>. USE DEF DriversSound, Registered
  <1>1. CASE UNCHANGED drivers
    BY <1>1
  <1>2. ASSUME NEW a \in Account, NEW d \in DriverCandidate, NEW id \in IdHash,
               registerDriver(a, d, id)
        PROVE  DriversSound'
    <2>1. /\ NewDriver(d).status = "Verified" /\ NewDriver(d).isOnRide = FALSE
      BY DEF NewDriver, NoDriver
    <2>. QED  BY <1>0, <1>2, <2>1 DEF registerDriver
  <1>3. ASSUME NEW a \in Account, NEW n \in Nat, NEW s \in DriverStatus,
               drivers' = [drivers EXCEPT ![a] = Staked(drivers[a], n, s)],
               s # "Verified" => Registered(a),
               s = "Active" => n >= DRIVER_MIN_DEPOSIT,
               drivers[a].isOnRide => s = "Active"
        PROVE  DriversSound'
    <2>1. /\ Staked(drivers[a], n, s).isOnRide = drivers[a].isOnRide
          /\ Staked(drivers[a], n, s).amtDeposited = n
          /\ Staked(drivers[a], n, s).status = s
          /\ Staked(drivers[a], n, s).driverAddress = drivers[a].driverAddress
      BY <1>0, StakedFacts
    <2>. QED  BY <1>0, <1>3, <2>1
  <1>4. ASSUME NEW d \in Account, NEW dr \in Driver,
               drivers' = [drivers EXCEPT ![d] = dr],
               dr.driverAddress = drivers[d].driverAddress,
               dr.status = drivers[d].status,
               dr.amtDeposited = drivers[d].amtDeposited,
               dr.isOnRide => drivers[d].isOnRide \/ drivers[d].status = "Active"
        PROVE  DriversSound'
    BY <1>0, <1>4
  <1>5. ASSUME NEW a \in Account, NEW v \in Value, depositDriverCollateral(a, v)
        PROVE  DriversSound'
    <2>. DEFINE n == drivers[a].amtDeposited + v
                s == IF drivers[a].status = "Verified" /\ n >= DRIVER_MIN_DEPOSIT
                     THEN "Active" ELSE drivers[a].status
    <2>1. n \in Nat /\ n >= drivers[a].amtDeposited /\ s \in DriverStatus
      BY <1>0 DEF Driver, DriverStatus
    <2>2. /\ drivers' = [drivers EXCEPT ![a] = Staked(drivers[a], n, s)]
          /\ Registered(a)
      BY <1>5 DEF depositDriverCollateral
    <2>3. s = "Active" => n >= DRIVER_MIN_DEPOSIT
      BY <1>0, <2>1 DEF Driver
    <2>4. drivers[a].isOnRide => s = "Active"
      OBVIOUS
    <2>. HIDE DEF n, s
    <2>. QED  BY <1>3, <2>1, <2>2, <2>3, <2>4
  <1>6. ASSUME NEW a \in Account, NEW v \in Value, reactivateDriver(a, v)
        PROVE  DriversSound'
    <2>. DEFINE n == drivers[a].amtDeposited + v
    <2>1. n \in Nat /\ "Active" \in DriverStatus
      BY <1>0 DEF Driver, DriverStatus
    <2>2. /\ drivers' = [drivers EXCEPT ![a] = Staked(drivers[a], n, "Active")]
          /\ Registered(a) /\ n >= DRIVER_MIN_DEPOSIT
      BY <1>6 DEF reactivateDriver
    <2>. HIDE DEF n
    <2>. QED  BY <1>3, <2>1, <2>2
  <1>7. ASSUME NEW a \in Account, NEW v \in Value, withdrawCollateral(a, v)
        PROVE  DriversSound'
    <2>. DEFINE n == drivers[a].amtDeposited - v
                s == IF drivers[a].status = "Active" /\ n < DRIVER_MIN_DEPOSIT
                     THEN "Suspended" ELSE drivers[a].status
    <2>1. n \in Nat /\ s \in DriverStatus
      BY <1>0, <1>7 DEF withdrawCollateral, Driver, DriverStatus
    <2>2. /\ drivers' = [drivers EXCEPT ![a] = Staked(drivers[a], n, s)]
          /\ Registered(a) /\ ~drivers[a].isOnRide
      BY <1>7 DEF withdrawCollateral, MayUnlock
    <2>3. s = "Active" => n >= DRIVER_MIN_DEPOSIT
      BY <2>1
    <2>. HIDE DEF n, s
    <2>. QED  BY <1>3, <2>1, <2>2, <2>3
  <1>8. ASSUME NEW a \in Account, NEW d \in DriverCandidate, NEW fare \in Fare,
               NEW ceiling \in BOOLEAN, acceptRide(a, d, fare, ceiling)
        PROVE  DriversSound'
    <2>1. /\ drivers' = [drivers EXCEPT ![d] = MakeBusy(drivers[d])]
          /\ drivers[d].status = "Active"
      BY <1>8 DEF acceptRide
    <2>. QED  BY <1>0, <1>4, <2>1, MakeBusyFacts
  <1>9. ASSUME NEW d \in Account \cup {NoAccount},
               drivers' = [drivers EXCEPT ![d] = MakeFree(drivers[d])]
        PROVE  DriversSound'
    <2>1. CASE d \in Account
      BY <1>0, <1>4, <1>9, <2>1, MakeFreeFacts
    <2>2. CASE d \notin Account
      BY <1>0, <1>9, <2>2
    <2>. QED  BY <2>1, <2>2
  <1>10. ASSUME NEW a \in Account, NEW id \in RideId, NEW stars \in Stars,
                rateDriver(a, id, stars)
         PROVE  DriversSound'
    <2>. DEFINE d == rides[id].driver
    <2>1. drivers' = [drivers EXCEPT ![d] = AddRating(drivers[d], stars)]
      BY <1>10 DEF rateDriver
    <2>2. CASE d \in Account
      BY <1>0, <1>4, <2>1, <2>2, AddRatingFacts, SMTT(30)
    <2>3. CASE d \notin Account
      BY <1>0, <2>1, <2>3
    <2>. QED  BY <2>2, <2>3
  <1>11. ASSUME NEW a \in Account, NEW id \in RideId,
                \/ completeRide(a, id)
                \/ cancelRide(a, id)
                \/ \E payout \in Payout : resolveDispute(a, id, payout)
         PROVE  DriversSound'
    <2>1. rides[id].driver \in Account \cup {NoAccount}
      BY <1>0 DEF Ride
    <2>2. drivers' = [drivers EXCEPT ![rides[id].driver] = MakeFree(drivers[rides[id].driver])]
      BY <1>11 DEF completeRide, cancelRide, resolveDispute
    <2>. QED  BY <1>9, <2>1, <2>2
  <1>12. CASE \E a \in Account :
                \/ \E new \in NewOwner : transferOwnership(a, new)
                \/ \E new \in Backend : setBackend(a, new)
                \/ registerUser(a)
                \/ \E d \in DriverCandidate, fare \in Fare, ceiling \in BOOLEAN :
                      SignOffer(d, a, fare, ceiling)
                \/ Withdraw(a)
                \/ \E id \in RideId, eta \in Eta : startRide(a, id, eta)
                \/ \E id \in RideId : disputeRide(a, id)
    BY <1>1, <1>12 DEF transferOwnership, setBackend, registerUser, SignOffer, Withdraw,
                       startRide, disputeRide
  <1>13. CASE WithdrawReturn \/ Tick \/ UNCHANGED vars
    BY <1>1, <1>13 DEF WithdrawReturn, Tick, vars
  <1>. QED
    BY <1>2, <1>5, <1>6, <1>7, <1>8, <1>10, <1>11, <1>12, <1>13
       DEF Next, Administer, ManageCollateral, Match, Travel

\* A driver on a ride is Active with the minimum locked, at every moment.
THEOREM BusyDriversAreStaked == Spec => []BusyIsStaked
  <1>1. Init => TypeOK /\ DriversSound
    BY InitTypeOK, InitDriversSound
  <1>2. TypeOK /\ DriversSound /\ [Next]_vars => TypeOK' /\ DriversSound'
    BY NextTypeOK, NextDriversSound
  <1>3. DriversSound => BusyIsStaked
    BY DEF DriversSound, BusyIsStaked
  <1>. QED  BY <1>1, <1>2, <1>3, PTL DEF Spec

(***************************************************************************)
(* Rides.  Every step does one of four things to the rides: nothing, move  *)
(* one ride along while it stays as live as it was, open the next ride, or *)
(* close a live one.  The invariants below are proved against these four.  *)
(***************************************************************************)

\* Ride ids are given out in order, and a ride that has one has its parties.
RidesAllocated ==
    \A id \in RideId :
        /\ id >= nextRideId => rides[id] = NoRide
        /\ id < nextRideId => /\ rides[id].user \in Account
                              /\ rides[id].driver \in Account
                              /\ rides[id].status # "Requested"

\* The step neither occupies nor frees driver d.
SameBusy(d) == drivers'[d].isOnRide = drivers[d].isOnRide

\* The step changes no other ride.
OthersSame(id) == \A other \in RideId \ {id} : rides'[other] = rides[other]

\* The step changes no ride and frees or occupies nobody.
Quiet ==
    /\ rides' = rides /\ UNCHANGED matching /\ offers \subseteq offers'
    /\ \A d \in Account : SameBusy(d)

\* The step leaves ride id its parties and its money, and pays no more than that.
Keeps(id) ==
    /\ rides'[id].user = rides[id].user /\ rides'[id].driver = rides[id].driver
    /\ rides'[id].fare = rides[id].fare /\ rides'[id].ceilingBond = rides[id].ceilingBond
    /\ rides[id].status # "Requested" /\ rides'[id].status # "Requested"
    /\ rides'[id].status = "Completed" =>
          \/ rides[id].status = "Completed" /\ rides'[id].finalFare = rides[id].finalFare
          \/ rides'[id].finalFare <= Escrow(rides[id])
    /\ OthersSame(id) /\ UNCHANGED <<matching, offers>>

\* Ride id moves along and stays as live as it was.
Advance(id) ==
    /\ Keeps(id)
    /\ Live(rides'[id]) = Live(rides[id])
    /\ \A d \in Account : SameBusy(d)

\* x goes to the driver of a closing ride, the rest of its escrow to its rider.
PaysOut(r, x) ==
    pendingWithdrawals' =
        [c \in Account |-> pendingWithdrawals[c] + (IF c = r.driver THEN x ELSE 0)
                                                + (IF c = r.user THEN Escrow(r) - x ELSE 0)]

\* Ride id closes: its escrow is handed out and its driver is free.
Close(id) ==
    /\ Keeps(id)
    /\ \E x \in 0..Escrow(rides[id]) : PaysOut(rides[id], x)
    /\ Live(rides[id]) /\ ~Live(rides'[id])
    /\ rides[id].driver \in Account => ~drivers'[rides[id].driver].isOnRide
    /\ \A d \in Account \ {rides[id].driver} : SameBusy(d)

\* The next ride begins, on an offer its driver signed.
Begin(u, d, fare, ceiling) ==
    /\ nextRideId \in RideId /\ nextRideId' = nextRideId + 1
    /\ ~drivers[d].isOnRide /\ drivers'[d].isOnRide
    /\ \A other \in Account \ {d} : SameBusy(other)
    /\ rides'[nextRideId].user = u /\ rides'[nextRideId].driver = d
    /\ rides'[nextRideId].fare = fare
    /\ rides'[nextRideId].ceilingBond = Bond(fare, ceiling)
    /\ rides'[nextRideId].status = "Accepted"
    /\ OthersSame(nextRideId)
    /\ driverNonces' = [driverNonces EXCEPT ![d] = @ + 1]
    /\ offers' = offers
    /\ [rider |-> u, driver |-> d, fare |-> fare, ceiling |-> ceiling,
        nonce |-> driverNonces[d]] \in offers

\* The four kinds of steps.
RideStep ==
    \/ Quiet
    \/ \E id \in RideId : Advance(id) \/ Close(id)
    \/ \E u, d \in Account, fare \in Fare, ceiling \in BOOLEAN : Begin(u, d, fare, ceiling)

\* Every step of the contract is one of the four.
LEMMA NextRideStep == TypeOK /\ DriversSound /\ [Next]_vars => RideStep
  <1>. SUFFICES ASSUME TypeOK, DriversSound, [Next]_vars
                PROVE  RideStep
    OBVIOUS
  <1>0. /\ drivers \in [Account -> Driver] /\ rides \in [RideId -> Ride]
        /\ DriverCandidate \subseteq Account /\ Value \subseteq Nat /\ Stars \subseteq Nat
        /\ Fare \subseteq Nat /\ Eta \subseteq Nat /\ Payout \subseteq Nat /\ now \in Nat
    BY DEF TypeOK
  <1>1. CASE UNCHANGED <<drivers, rides, matching, offers>>
    <2>. QED  BY <1>1 DEF RideStep, Quiet, SameBusy
  <1>2. ASSUME NEW a \in Account, NEW d \in DriverCandidate, NEW fare \in Fare,
               NEW ceiling \in BOOLEAN, SignOffer(d, a, fare, ceiling)
        PROVE  RideStep
    BY <1>2 DEF RideStep, Quiet, SameBusy, SignOffer
  <1>3. ASSUME NEW a \in Account, NEW d \in DriverCandidate, NEW id \in IdHash,
               registerDriver(a, d, id)
        PROVE  RideStep
    <2>1. ~drivers[d].isOnRide
      BY <1>0, <1>3 DEF registerDriver, DriversSound, Driver
    <2>2. NewDriver(d).isOnRide = FALSE
      BY DEF NewDriver, NoDriver
    <2>3. drivers[d].isOnRide = FALSE
      BY <1>0, <2>1 DEF Driver
    <2>4. \A e \in Account : SameBusy(e)
      BY <1>0, <1>3, <2>2, <2>3 DEF registerDriver, SameBusy
    <2>. QED  BY <1>3, <2>4 DEF RideStep, Quiet, registerDriver
  <1>4. ASSUME NEW a \in Account, NEW v \in Value,
               \/ depositDriverCollateral(a, v)
               \/ reactivateDriver(a, v)
               \/ withdrawCollateral(a, v)
        PROVE  RideStep
    <2>1. PICK n \in Int, s \in DriverStatus :
             drivers' = [drivers EXCEPT ![a] = Staked(drivers[a], n, s)]
      BY <1>0, <1>4 DEF depositDriverCollateral, reactivateDriver, withdrawCollateral,
                        Driver, DriverStatus
    <2>2. Staked(drivers[a], n, s).isOnRide = drivers[a].isOnRide
      BY <1>0 DEF Staked, Driver
    <2>3. \A d \in Account : SameBusy(d)
      BY <1>0, <2>1, <2>2 DEF SameBusy
    <2>. QED
      BY <1>4, <2>3 DEF RideStep, Quiet, depositDriverCollateral, reactivateDriver,
                        withdrawCollateral
  <1>5. ASSUME NEW u \in Account, NEW d \in DriverCandidate, NEW fare \in Fare,
               NEW ceiling \in BOOLEAN, acceptRide(u, d, fare, ceiling)
        PROVE  RideStep
    <2>. DEFINE bond == Bond(fare, ceiling)
                r == Accept(rides[nextRideId], u, d, fare, bond)
    <2>1. bond \in Nat /\ fare \in Nat /\ d \in Account
      BY <1>0, BondType
    <2>2. nextRideId \in RideId /\ rides[nextRideId] \in Ride
      BY <1>0, <1>5 DEF acceptRide, RideId, TypeOK
    <2>. HIDE DEF bond
    <2>3. /\ r.user = u /\ r.driver = d /\ r.status = "Accepted"
          /\ r.fare = fare /\ r.ceilingBond = bond
      BY <2>1, <2>2 DEF Accept, Ride
    <2>4. rides' = [rides EXCEPT ![nextRideId] = r]
      BY <1>5 DEF acceptRide, bond
    <2>5. rides'[nextRideId] = r /\ OthersSame(nextRideId)
      BY <1>0, <2>2, <2>4 DEF OthersSame
    <2>6. drivers' = [drivers EXCEPT ![d] = MakeBusy(drivers[d])] /\ ~drivers[d].isOnRide
      BY <1>5 DEF acceptRide
    <2>7. MakeBusy(drivers[d]).isOnRide = TRUE
      BY <1>0, <2>1, MakeBusyFacts
    <2>8. /\ drivers'[d].isOnRide
          /\ \A other \in Account \ {d} : SameBusy(other)
      BY <1>0, <2>1, <2>6, <2>7 DEF SameBusy
    <2>9. /\ nextRideId' = nextRideId + 1
          /\ driverNonces' = [driverNonces EXCEPT ![d] = @ + 1]
          /\ offers' = offers
          /\ [rider |-> u, driver |-> d, fare |-> fare, ceiling |-> ceiling,
              nonce |-> driverNonces[d]] \in offers
      BY <1>5 DEF acceptRide, SpendNonce
    <2>. HIDE DEF r
    <2>10. Begin(u, d, fare, ceiling)
      BY <2>2, <2>3, <2>5, <2>6, <2>8, <2>9 DEF Begin, bond
    <2>. QED  BY <2>1, <2>10 DEF RideStep
  <1>6. ASSUME NEW id \in RideId, NEW r \in Ride,
               rides' = [rides EXCEPT ![id] = r],
               r.user = rides[id].user, r.driver = rides[id].driver,
               r.fare = rides[id].fare, r.ceilingBond = rides[id].ceilingBond,
               rides[id].status # "Requested", r.status # "Requested",
               r.status = "Completed" =>
                  \/ rides[id].status = "Completed" /\ r.finalFare = rides[id].finalFare
                  \/ r.finalFare <= Escrow(rides[id]),
               UNCHANGED <<matching, offers>>
        PROVE  Keeps(id) /\ rides'[id] = r
    BY <1>0, <1>6 DEF Keeps, OthersSame
  <1>7. ASSUME NEW a \in Account, NEW id \in RideId, NEW eta \in Eta, startRide(a, id, eta)
        PROVE  RideStep
    <2>. DEFINE r == Start(rides[id], now, eta)
    <2>1. /\ r \in Ride /\ r.user = rides[id].user /\ r.driver = rides[id].driver
          /\ r.status = "Started"
          /\ r.fare = rides[id].fare /\ r.ceilingBond = rides[id].ceilingBond
      BY <1>0, StartFacts
    <2>2. /\ rides' = [rides EXCEPT ![id] = r] /\ rides[id].status = "Accepted"
          /\ UNCHANGED <<matching, offers, drivers>>
      BY <1>7 DEF startRide
    <2>. HIDE DEF r
    <2>3. Keeps(id) /\ rides'[id] = r
      BY <1>6, <2>1, <2>2
    <2>. QED  BY <2>1, <2>2, <2>3 DEF RideStep, Advance, Live, SameBusy
  <1>8. ASSUME NEW a \in Account, NEW id \in RideId, disputeRide(a, id)
        PROVE  RideStep
    <2>. DEFINE r == SetStatus(rides[id], "Disputed")
    <2>1. /\ r \in Ride /\ r.user = rides[id].user /\ r.driver = rides[id].driver
          /\ r.status = "Disputed"
          /\ r.fare = rides[id].fare /\ r.ceilingBond = rides[id].ceilingBond
      BY <1>0, SetStatusFacts DEF RideStatus
    <2>2. /\ rides' = [rides EXCEPT ![id] = r] /\ rides[id].status = "Started"
          /\ UNCHANGED <<matching, offers, drivers>>
      BY <1>8 DEF disputeRide
    <2>. HIDE DEF r
    <2>3. Keeps(id) /\ rides'[id] = r
      BY <1>6, <2>1, <2>2
    <2>. QED  BY <2>1, <2>2, <2>3 DEF RideStep, Advance, Live, SameBusy
  <1>9. ASSUME NEW a \in Account, NEW id \in RideId, NEW stars \in Stars,
               rateDriver(a, id, stars)
        PROVE  RideStep
    <2>. DEFINE r == SetRating(rides[id], stars)
                d == rides[id].driver
    <2>1. /\ r \in Ride /\ r.user = rides[id].user /\ r.driver = d
          /\ r.status = rides[id].status /\ r.finalFare = rides[id].finalFare
          /\ r.fare = rides[id].fare /\ r.ceilingBond = rides[id].ceilingBond
      BY <1>0, SetRatingFacts
    <2>2. /\ rides' = [rides EXCEPT ![id] = r] /\ rides[id].status = "Completed"
          /\ UNCHANGED <<matching, offers>>
          /\ drivers' = [drivers EXCEPT ![d] = AddRating(drivers[d], stars)]
      BY <1>9 DEF rateDriver
    <2>3. d \in Account => AddRating(drivers[d], stars).isOnRide = drivers[d].isOnRide
      BY <1>0, AddRatingFacts
    <2>4. \A e \in Account : SameBusy(e)
      BY <1>0, <2>2, <2>3 DEF SameBusy
    <2>. HIDE DEF r
    <2>5. Keeps(id) /\ rides'[id] = r
      BY <1>6, <2>1, <2>2
    <2>. QED  BY <2>1, <2>2, <2>4, <2>5 DEF RideStep, Advance, Live
  <1>10. ASSUME NEW id \in RideId, NEW r \in Ride,
                rides' = [rides EXCEPT ![id] = r],
                r.user = rides[id].user, r.driver = rides[id].driver,
                r.fare = rides[id].fare, r.ceilingBond = rides[id].ceilingBond,
                Live(rides[id]), r.status \in {"Completed", "Cancelled"},
                r.status = "Completed" => r.finalFare <= Escrow(rides[id]),
                \E x \in 0..Escrow(rides[id]) : PaysOut(rides[id], x),
                drivers' = [drivers EXCEPT ![r.driver] = MakeFree(drivers[r.driver])],
                UNCHANGED <<matching, offers>>
         PROVE  RideStep
    <2>1. Keeps(id) /\ rides'[id] = r
      BY <1>6, <1>10 DEF Live
    <2>2. r.driver \in Account => MakeFree(drivers[r.driver]).isOnRide = FALSE
      BY <1>0, MakeFreeFacts
    <2>3. /\ r.driver \in Account => ~drivers'[r.driver].isOnRide
          /\ \A d \in Account \ {r.driver} : SameBusy(d)
      BY <1>0, <1>10, <2>2 DEF SameBusy
    <2>4. Close(id)
      BY <1>10, <2>1, <2>3 DEF Close, Live
    <2>. QED  BY <2>4 DEF RideStep
  <1>11. ASSUME NEW a \in Account, NEW id \in RideId, cancelRide(a, id)
         PROVE  RideStep
    <2>. DEFINE r == SetStatus(rides[id], "Cancelled")
    <2>1. /\ r \in Ride /\ r.user = rides[id].user /\ r.driver = rides[id].driver
          /\ r.status = "Cancelled"
          /\ r.fare = rides[id].fare /\ r.ceilingBond = rides[id].ceilingBond
      BY <1>0, SetStatusFacts DEF RideStatus
    <2>2. /\ rides' = [rides EXCEPT ![id] = r] /\ Live(rides[id])
          /\ drivers' = [drivers EXCEPT ![rides[id].driver] = MakeFree(drivers[rides[id].driver])]
          /\ UNCHANGED <<matching, offers>>
      BY <1>11 DEF cancelRide, MayCancel, Cancellable, Live
    <2>3. Escrow(rides[id]) \in Nat
      BY <1>0 DEF Escrow, Ride
    <2>4. 0 \in 0..Escrow(rides[id]) /\ PaysOut(rides[id], 0)
      BY <1>11, <2>3 DEF cancelRide, Credit, PaysOut, TypeOK
    <2>5. \E x \in 0..Escrow(rides[id]) : PaysOut(rides[id], x)
      BY <2>4
    <2>. HIDE DEF r
    <2>6. /\ r.status \in {"Completed", "Cancelled"} /\ r.status # "Completed"
          /\ drivers' = [drivers EXCEPT ![r.driver] = MakeFree(drivers[r.driver])]
      BY <2>1, <2>2
    <2>. QED  BY <1>10, <2>1, <2>2, <2>5, <2>6
  <1>12. ASSUME NEW id \in RideId, NEW pay \in 0..Escrow(rides[id]),
                PaysOut(rides[id], pay),
                rides' = [rides EXCEPT ![id] = Complete(rides[id], pay, now)],
                rides[id].status \in {"Started", "Disputed"},
                drivers' = [drivers EXCEPT ![rides[id].driver] = MakeFree(drivers[rides[id].driver])],
                UNCHANGED <<matching, offers>>
         PROVE  RideStep
    <2>. DEFINE r == Complete(rides[id], pay, now)
    <2>1. /\ r \in Ride /\ r.user = rides[id].user /\ r.driver = rides[id].driver
          /\ r.status = "Completed" /\ r.finalFare <= Escrow(rides[id])
          /\ r.fare = rides[id].fare /\ r.ceilingBond = rides[id].ceilingBond
      BY <1>0, CompleteFacts
    <2>2. rides' = [rides EXCEPT ![id] = r] /\ Live(rides[id])
      BY <1>12 DEF Live
    <2>. HIDE DEF r
    <2>. QED  BY <1>10, <1>12, <2>1, <2>2
  <1>13. ASSUME NEW a \in Account, NEW id \in RideId, completeRide(a, id)
         PROVE  RideStep
    <2>1. FinalFare(rides[id], now) \in 0..Escrow(rides[id])
      BY <1>0, FinalFareWithinEscrow
    <2>2. PaysOut(rides[id], FinalFare(rides[id], now))
      BY <1>13 DEF completeRide, Credit, PaysOut
    <2>. QED  BY <1>12, <1>13, <2>1, <2>2 DEF completeRide
  <1>14. ASSUME NEW a \in Account, NEW id \in RideId, NEW payout \in Payout,
                resolveDispute(a, id, payout)
         PROVE  RideStep
    <2>0. Escrow(rides[id]) \in Nat /\ payout \in Nat /\ payout <= Escrow(rides[id])
      BY <1>0, <1>14 DEF resolveDispute, MayResolve, Escrow, Ride
    <2>1. payout \in 0..Escrow(rides[id])
      BY <2>0
    <2>2. PaysOut(rides[id], payout)
      BY <1>14 DEF resolveDispute, Credit, PaysOut
    <2>. QED  BY <1>12, <1>14, <2>1, <2>2 DEF resolveDispute, MayResolve
  <1>15. CASE \/ \E a \in Account :
                  \/ \E new \in NewOwner : transferOwnership(a, new)
                  \/ \E new \in Backend : setBackend(a, new)
                  \/ registerUser(a)
                  \/ Withdraw(a)
              \/ WithdrawReturn
              \/ Tick
              \/ UNCHANGED vars
    BY <1>1, <1>15 DEF transferOwnership, setBackend, registerUser, Withdraw, WithdrawReturn,
                       Tick, vars, matching
  <1>. QED
    BY <1>2, <1>3, <1>4, <1>5, <1>7, <1>8, <1>9, <1>11, <1>13, <1>14, <1>15
       DEF Next, Administer, ManageCollateral, Match, Travel

\* No ride is allocated at first.
LEMMA InitRidesAllocated == Init => RidesAllocated
  BY DEF Init, RidesAllocated, RideId

\* Steps allocate the rides in order.
LEMMA StepRidesAllocated == TypeOK /\ RidesAllocated /\ RideStep => RidesAllocated'
  <1>. SUFFICES ASSUME TypeOK, RidesAllocated, RideStep
                PROVE  RidesAllocated'
    OBVIOUS
  <1>. USE DEF RidesAllocated, RideId
  <1>0. nextRideId \in Nat
    BY DEF TypeOK
  <1>1. CASE Quiet
    BY <1>1 DEF Quiet, matching
  <1>2. ASSUME NEW id \in RideId, Keeps(id)
        PROVE  RidesAllocated'
    <2>1. id < nextRideId
      BY <1>0, <1>2 DEF Keeps, NoRide
    <2>. QED  BY <1>0, <1>2, <2>1 DEF Keeps, OthersSame, matching
  <1>3. ASSUME NEW u \in Account, NEW d \in Account, NEW fare, NEW ceiling,
               Begin(u, d, fare, ceiling)
        PROVE  RidesAllocated'
    BY <1>0, <1>3 DEF Begin, OthersSame
  <1>. QED  BY <1>1, <1>2, <1>3 DEF RideStep, Advance, Close

(***************************************************************************)
(* One ride per driver at a time.                                          *)
(***************************************************************************)

\* The inductive invariant about rides: isOnRide is true to the live rides, which
\* needs that no driver has two of them, and the other way round.
RidesSound == TypeOK /\ DriversSound /\ RidesAllocated /\ BusyMeansLive /\ OneRideAtATime

\* It holds initially.
LEMMA InitRidesSound == Init => RidesSound
  <1>1. Init => BusyMeansLive /\ OneRideAtATime
    BY DEF Init, BusyMeansLive, OneRideAtATime, NoDriver, NoRide, Live
  <1>. QED
    BY <1>1, InitTypeOK, InitDriversSound, InitRidesAllocated DEF RidesSound

\* Every step keeps it.
LEMMA NextRidesSound == RidesSound /\ [Next]_vars => RidesSound'
  <1>. SUFFICES ASSUME RidesSound, [Next]_vars
                PROVE  RidesSound'
    OBVIOUS
  <1>0. TypeOK /\ DriversSound /\ RidesAllocated /\ BusyMeansLive /\ OneRideAtATime
    BY DEF RidesSound
  <1>1. TypeOK' /\ DriversSound' /\ RideStep
    BY <1>0, NextTypeOK, NextDriversSound, NextRideStep
  <1>2. RidesAllocated'
    BY <1>0, <1>1, StepRidesAllocated
  <1>3. BusyMeansLive' /\ OneRideAtATime'
    <2>1. CASE Quiet
      BY <1>0, <2>1 DEF Quiet, BusyMeansLive, OneRideAtATime, SameBusy
    <2>2. ASSUME NEW id \in RideId, Advance(id)
          PROVE  BusyMeansLive' /\ OneRideAtATime'
      <3>1. \A i \in RideId : /\ rides'[i].driver = rides[i].driver
                              /\ Live(rides'[i]) = Live(rides[i])
        BY <2>2 DEF Advance, Keeps, OthersSame
      <3>. QED  BY <1>0, <2>2, <3>1 DEF Advance, BusyMeansLive, OneRideAtATime, SameBusy
    <2>3. ASSUME NEW id \in RideId, Close(id)
          PROVE  BusyMeansLive' /\ OneRideAtATime'
      <3>1. /\ \A i \in RideId : rides'[i].driver = rides[i].driver
            /\ \A i \in RideId \ {id} : Live(rides'[i]) = Live(rides[i])
            /\ Live(rides[id]) /\ ~Live(rides'[id])
        BY <2>3 DEF Close, Keeps, OthersSame
      <3>2. OneRideAtATime'
        BY <1>0, <3>1 DEF OneRideAtATime
      <3>3. ASSUME NEW d \in Account
            PROVE  drivers'[d].isOnRide <=>
                   \E i \in RideId : rides'[i].driver = d /\ Live(rides'[i])
        <4>1. CASE d = rides[id].driver
          BY <1>0, <2>3, <3>1, <4>1 DEF Close, OneRideAtATime
        <4>2. CASE d # rides[id].driver
          BY <1>0, <2>3, <3>1, <4>2 DEF Close, BusyMeansLive, SameBusy
        <4>. QED  BY <4>1, <4>2
      <3>. QED  BY <3>2, <3>3 DEF BusyMeansLive
    <2>4. ASSUME NEW u \in Account, NEW e \in Account, NEW fare \in Fare,
                 NEW ceiling \in BOOLEAN, Begin(u, e, fare, ceiling)
          PROVE  BusyMeansLive' /\ OneRideAtATime'
      <3>1. /\ nextRideId \in RideId
            /\ rides'[nextRideId].driver = e /\ Live(rides'[nextRideId])
            /\ \A i \in RideId \ {nextRideId} : rides'[i] = rides[i]
        BY <2>4 DEF Begin, OthersSame, Live
      <3>2. ~Live(rides[nextRideId])
        BY <1>0, <3>1 DEF RidesAllocated, NoRide, Live, RideId
      <3>3. \A i \in RideId : ~(rides[i].driver = e /\ Live(rides[i]))
        BY <1>0, <2>4 DEF Begin, BusyMeansLive
      <3>4. OneRideAtATime'
        BY <1>0, <3>1, <3>3 DEF OneRideAtATime
      <3>5. ASSUME NEW d \in Account
            PROVE  drivers'[d].isOnRide <=>
                   \E i \in RideId : rides'[i].driver = d /\ Live(rides'[i])
        <4>1. CASE d = e
          BY <2>4, <3>1, <4>1 DEF Begin
        <4>2. CASE d # e
          BY <1>0, <2>4, <3>1, <3>2, <4>2 DEF Begin, BusyMeansLive, SameBusy
        <4>. QED  BY <4>1, <4>2
      <3>. QED  BY <3>4, <3>5 DEF BusyMeansLive
    <2>. QED  BY <1>1, <2>1, <2>2, <2>3, <2>4 DEF RideStep
  <1>. QED  BY <1>1, <1>2, <1>3 DEF RidesSound

\* So it always holds.
LEMMA RidesAlwaysSound == Spec => []RidesSound
  BY InitRidesSound, NextRidesSound, PTL DEF Spec

\* isOnRide tells the truth: it is set exactly while the driver has a live ride.
THEOREM BusyFlagIsTrue == Spec => []BusyMeansLive
  <1>1. RidesSound => BusyMeansLive
    BY DEF RidesSound
  <1>. QED  BY <1>1, RidesAlwaysSound, PTL

\* A driver never has two live rides, with any number of signed offers about.
THEOREM NoDoubleBooking == Spec => []OneRideAtATime
  <1>1. RidesSound => OneRideAtATime
    BY DEF RidesSound
  <1>. QED  BY <1>1, RidesAlwaysSound, PTL

(***************************************************************************)
(* Signatures and nonces.                                                  *)
(***************************************************************************)

\* A driver has finitely many rides, so counting them means something.
LEMMA RidesOfFinite == ASSUME NEW d PROVE IsFiniteSet(RidesOf(d))
  <1>1. IsFiniteSet(RideId)
    BY FS_Interval DEF RideId
  <1>. QED  BY <1>1, FS_Subset DEF RidesOf

\* The inductive invariant about signatures: a ride's nonce is the number of
\* earlier rides of its driver because the driver's nonce counts them all.
Signed == RidesSound /\ NonceCountsRides /\ EveryRideSigned

\* It holds initially.
LEMMA InitSigned == Init => Signed
  <1>. SUFFICES ASSUME Init PROVE Signed
    OBVIOUS
  <1>1. \A d \in Account : RidesOf(d) = {}
    BY DEF Init, NoRide, RidesOf
  <1>2. NonceCountsRides
    BY <1>1, FS_EmptySet DEF NonceCountsRides, Init
  <1>3. EveryRideSigned
    BY DEF Init, NoRide, EveryRideSigned
  <1>. QED  BY <1>2, <1>3, InitRidesSound DEF Signed

\* While the parties and the money of every ride stay, so do nonces and signatures.
LEMMA KeepSigned ==
    ASSUME NonceCountsRides, EveryRideSigned, UNCHANGED matching, offers \subseteq offers',
           \A id \in RideId : /\ rides'[id].user = rides[id].user
                              /\ rides'[id].driver = rides[id].driver
                              /\ rides'[id].fare = rides[id].fare
                              /\ rides'[id].ceilingBond = rides[id].ceilingBond
    PROVE  NonceCountsRides' /\ EveryRideSigned'
  <1>1. \A d \in Account : RidesOf(d)' = RidesOf(d)
    BY DEF RidesOf
  <1>2. NonceCountsRides'
    BY <1>1 DEF NonceCountsRides, matching
  <1>3. ASSUME NEW id \in RideId
        PROVE  EarlierRides(id)' = EarlierRides(id)
    BY DEF EarlierRides, RideId
  <1>4. EveryRideSigned'
    BY <1>3 DEF EveryRideSigned
  <1>. QED  BY <1>2, <1>4

\* Every step keeps it.
LEMMA NextSigned == Signed /\ [Next]_vars => Signed'
  <1>. SUFFICES ASSUME Signed, [Next]_vars
                PROVE  Signed'
    OBVIOUS
  <1>0. /\ RidesSound /\ TypeOK /\ DriversSound /\ RidesAllocated
        /\ NonceCountsRides /\ EveryRideSigned
    BY DEF Signed, RidesSound
  <1>1. RidesSound' /\ RideStep
    BY <1>0, NextRidesSound, NextRideStep
  <1>2. CASE Quiet
    BY <1>0, <1>1, <1>2, KeepSigned DEF Quiet, Signed
  <1>3. ASSUME NEW id \in RideId, Keeps(id)
        PROVE  Signed'
    <2>1. \A other \in RideId : /\ rides'[other].user = rides[other].user
                                /\ rides'[other].driver = rides[other].driver
                                /\ rides'[other].fare = rides[other].fare
                                /\ rides'[other].ceilingBond = rides[other].ceilingBond
      BY <1>3 DEF Keeps, OthersSame
    <2>2. UNCHANGED matching /\ offers \subseteq offers'
      BY <1>3 DEF Keeps
    <2>. QED  BY <1>0, <1>1, <2>1, <2>2, KeepSigned DEF Signed
  <1>4. ASSUME NEW u \in Account, NEW e \in Account, NEW fare \in Fare,
               NEW ceiling \in BOOLEAN, Begin(u, e, fare, ceiling)
        PROVE  Signed'
    <2>0. PICK n \in RideId : n = nextRideId
      BY <1>4 DEF Begin
    <2>1. /\ n \in Nat
          /\ rides'[n].user = u /\ rides'[n].driver = e
          /\ rides'[n].fare = fare /\ rides'[n].ceilingBond = Bond(fare, ceiling)
          /\ \A id \in RideId \ {n} : rides'[id] = rides[id]
      BY <1>4, <2>0 DEF Begin, OthersSame, RideId
    <2>2. \A id \in RideId : id >= n => rides[id].driver = NoAccount /\ rides[id].user = NoAccount
      BY <1>0, <2>0 DEF RidesAllocated, NoRide
    <2>3. \A id \in RideId : id \in Nat /\ 0..(id - 1) \subseteq RideId
      BY DEF RideId
    <2>4. n \notin RidesOf(e) /\ RidesOf(e)' = RidesOf(e) \cup {n}
      BY <2>1, <2>2, <2>3 DEF RidesOf
    <2>5. Cardinality(RidesOf(e)') = Cardinality(RidesOf(e)) + 1
      BY <2>4, FS_AddElement, RidesOfFinite
    <2>6. ASSUME NEW d \in Account \ {e}
          PROVE  RidesOf(d)' = RidesOf(d)
      <3>1. rides[n].driver # d /\ rides'[n].driver # d
        BY <2>1, <2>2
      <3>2. \A i \in RideId : rides'[i].driver = d <=> rides[i].driver = d
        BY <2>1, <3>1
      <3>. QED  BY <3>2 DEF RidesOf
    <2>7. NonceCountsRides'
      BY <1>0, <1>4, <2>5, <2>6 DEF NonceCountsRides, Begin, TypeOK
    <2>8. EarlierRides(n)' = RidesOf(e)
      <3>1. \A i \in RideId : i \in 0..(n - 1) <=> i < n
        BY <2>1, <2>3
      <3>2. \A i \in RideId : i \in 0..(n - 1) => rides'[i] = rides[i]
        BY <2>1, <3>1
      <3>3. \A i \in RideId : rides[i].driver = e => i \in 0..(n - 1)
        BY <2>1, <2>2, <2>3, <3>1
      <3>. QED  BY <2>1, <2>3, <3>2, <3>3 DEF EarlierRides, RidesOf
    <2>9. Cardinality(EarlierRides(n)') = driverNonces[e]
      BY <1>0, <2>8 DEF NonceCountsRides
    <2>10. [rider |-> rides'[n].user, driver |-> rides'[n].driver, fare |-> rides'[n].fare,
            ceiling |-> ceiling, nonce |-> Cardinality(EarlierRides(n)')] \in offers'
      BY <1>4, <2>1, <2>9 DEF Begin
    <2>11. ASSUME NEW id \in RideId \ {n}, rides'[id].user # NoAccount
           PROVE  EarlierRides(id)' = EarlierRides(id)
      <3>0. id \in Nat /\ rides[id].user # NoAccount
        BY <2>1, <2>3, <2>11
      <3>1. id < n
        <4>1. ~ (id >= n)
          BY <2>2, <3>0
        <4>. QED  BY <2>1, <3>0, <4>1
      <3>2. \A j \in 0..(id - 1) : j \in RideId /\ j # n
        BY <2>1, <2>3, <3>1
      <3>3. \A j \in 0..(id - 1) : rides'[j] = rides[j]
        BY <2>1, <3>2
      <3>4. rides'[id] = rides[id]
        BY <2>1
      <3>. QED  BY <3>3, <3>4 DEF EarlierRides
    <2>12. ASSUME NEW id \in RideId, rides'[id].user # NoAccount
           PROVE  \E c \in BOOLEAN :
                     /\ rides'[id].ceilingBond = Bond(rides'[id].fare, c)
                     /\ [rider |-> rides'[id].user, driver |-> rides'[id].driver,
                         fare |-> rides'[id].fare, ceiling |-> c,
                         nonce |-> Cardinality(EarlierRides(id)')] \in offers'
      <3>1. CASE id = n
        BY <2>1, <2>10, <3>1
      <3>2. CASE id # n
        BY <1>0, <1>4, <2>1, <2>11, <2>12, <3>2 DEF EveryRideSigned, Begin
      <3>. QED  BY <3>1, <3>2
    <2>13. EveryRideSigned'
      BY <2>12 DEF EveryRideSigned
    <2>. QED  BY <1>1, <2>7, <2>13 DEF Signed
  <1>. QED  BY <1>1, <1>2, <1>3, <1>4 DEF RideStep, Advance, Close

\* So it always holds.
LEMMA AlwaysSigned == Spec => []Signed
  BY InitSigned, NextSigned, PTL DEF Spec

\* A driver's nonce counts the driver's rides: a signature dies with the first
\* ride accepted after it was given.
THEOREM NoncesCountRides == Spec => []NonceCountsRides
  <1>1. Signed => NonceCountsRides
    BY DEF Signed
  <1>. QED  BY <1>1, AlwaysSigned, PTL

\* No ride exists without a signature of its driver over exactly its terms, and
\* no signature has two rides.
THEOREM RidesAreSigned == Spec => []EveryRideSigned
  <1>1. Signed => EveryRideSigned
    BY DEF Signed
  <1>. QED  BY <1>1, AlwaysSigned, PTL

(***************************************************************************)
(* Settlement.                                                             *)
(***************************************************************************)

\* Whatever the clock, the surcharge or the owner's decision, a completed ride
\* pays its driver at most what its rider put in.
THEOREM NeverOverpaid == Spec => []PayoutWithinEscrow
  <1>1. Init => PayoutWithinEscrow
    BY DEF Init, PayoutWithinEscrow, NoRide
  <1>2. RidesSound /\ PayoutWithinEscrow /\ [Next]_vars => PayoutWithinEscrow'
    <2>. SUFFICES ASSUME RidesSound, PayoutWithinEscrow, [Next]_vars
                  PROVE  PayoutWithinEscrow'
      OBVIOUS
    <2>1. RideStep
      BY NextRideStep DEF RidesSound
    <2>2. ASSUME NEW id \in RideId, Keeps(id)
          PROVE  PayoutWithinEscrow'
      BY <2>2 DEF Keeps, OthersSame, PayoutWithinEscrow, Escrow
    <2>3. ASSUME NEW u, NEW d, NEW fare, NEW ceiling, Begin(u, d, fare, ceiling)
          PROVE  PayoutWithinEscrow'
      BY <2>3 DEF Begin, OthersSame, PayoutWithinEscrow
    <2>. QED  BY <2>1, <2>2, <2>3 DEF RideStep, Quiet, Advance, Close, PayoutWithinEscrow
  <1>. QED  BY <1>1, <1>2, RidesAlwaysSound, PTL DEF Spec

\* Closing a ride hands out its escrow to the wei, to its two parties only.
THEOREM EscrowIsPaidOut == Spec => EscrowPaidOut
  <1>1. ASSUME RidesSound, [Next]_vars, NEW id \in RideId,
               Live(rides[id]), ~Live(rides'[id])
        PROVE  LET u == rides[id].user
                   d == rides[id].driver IN
               /\ Gain(u) + (IF d = u THEN 0 ELSE Gain(d)) = Escrow(rides[id])
               /\ Gain(u) >= 0 /\ Gain(d) >= 0
               /\ \A a \in Account \ {u, d} : Gain(a) = 0
    <2>1. TypeOK /\ RidesAllocated /\ RideStep
      BY <1>1, NextRideStep DEF RidesSound
    <2>2. rides[id].user \in Account /\ rides[id].driver \in Account
      BY <1>1, <2>1 DEF RidesAllocated, RideId, Live, NoRide, TypeOK
    <2>3. Close(id)
      <3>1. ASSUME NEW other \in RideId, Close(other)
            PROVE  Close(id)
        BY <1>1, <3>1 DEF Close, Keeps, OthersSame
      <3>2. ASSUME NEW other \in RideId, Advance(other)
            PROVE  FALSE
        BY <1>1, <3>2 DEF Advance, Keeps, OthersSame
      <3>3. ASSUME NEW u, NEW d, NEW fare, NEW ceiling, Begin(u, d, fare, ceiling)
            PROVE  FALSE
        BY <1>1, <3>3 DEF Begin, OthersSame, Live
      <3>. QED  BY <1>1, <2>1, <3>1, <3>2, <3>3 DEF RideStep, Quiet
    <2>4. PICK x \in 0..Escrow(rides[id]) : PaysOut(rides[id], x)
      BY <2>3 DEF Close
    <2>5. Escrow(rides[id]) \in Nat /\ pendingWithdrawals \in [Account -> Nat]
      BY <2>1 DEF Escrow, Ride, TypeOK
    <2>. QED  BY <2>2, <2>4, <2>5 DEF PaysOut, Gain
  <1>2. RidesSound /\ [Next]_vars =>
           [\A id \in RideId : Live(rides[id]) /\ ~Live(rides'[id]) =>
              LET u == rides[id].user
                  d == rides[id].driver IN
              /\ Gain(u) + (IF d = u THEN 0 ELSE Gain(d)) = Escrow(rides[id])
              /\ Gain(u) >= 0 /\ Gain(d) >= 0
              /\ \A a \in Account \ {u, d} : Gain(a) = 0]_vars
    BY <1>1
  <1>. QED  BY <1>2, RidesAlwaysSound, PTL DEF Spec, EscrowPaidOut

\* A closed ride is changed by no function but rateDriver, which writes only its
\* rating, and only while it has none: a ride is never paid out or reopened again.
THEOREM ClosedRidesAreFinal == Spec => ClosedIsFinal
  <1>1. ASSUME RidesSound, [Next]_vars, NEW id \in RideId, Closed(rides[id])
        PROVE  \/ rides'[id] = rides[id]
               \/ /\ rides[id].rating = 0
                  /\ rides'[id] = [rides[id] EXCEPT !.rating = rides'[id].rating]
    <2>1. /\ rides \in [RideId -> Ride] /\ RidesAllocated
          /\ rides[id].status \in {"Completed", "Cancelled"}
      BY <1>1 DEF RidesSound, TypeOK, Closed
    <2>2. CASE rides' = rides
      BY <2>2
    <2>3. ASSUME NEW x \in RideId, NEW r, rides' = [rides EXCEPT ![x] = r],
                 rides[x].status \in {"Accepted", "Started", "Disputed"}
          PROVE  rides'[id] = rides[id]
      BY <2>1, <2>3
    <2>4. ASSUME NEW a \in Account, NEW d \in DriverCandidate, NEW fare \in Fare,
                 NEW ceiling \in BOOLEAN, acceptRide(a, d, fare, ceiling)
          PROVE  rides'[id] = rides[id]
      <3>1. rides' = [rides EXCEPT ![nextRideId] =
                         Accept(rides[nextRideId], a, d, fare, Bond(fare, ceiling))]
        BY <2>4 DEF acceptRide
      <3>2. id # nextRideId
        BY <2>1 DEF RidesAllocated, RideId, NoRide
      <3>. QED  BY <2>1, <3>1, <3>2
    <2>5. ASSUME NEW a \in Account, NEW x \in RideId, NEW eta \in Eta, startRide(a, x, eta)
          PROVE  rides'[id] = rides[id]
      BY <2>3, <2>5 DEF startRide
    <2>6. ASSUME NEW a \in Account, NEW x \in RideId, completeRide(a, x)
          PROVE  rides'[id] = rides[id]
      BY <2>3, <2>6 DEF completeRide
    <2>7. ASSUME NEW a \in Account, NEW x \in RideId, cancelRide(a, x)
          PROVE  rides'[id] = rides[id]
      BY <2>3, <2>7 DEF cancelRide, MayCancel, Cancellable
    <2>8. ASSUME NEW a \in Account, NEW x \in RideId, disputeRide(a, x)
          PROVE  rides'[id] = rides[id]
      BY <2>3, <2>8 DEF disputeRide
    <2>9. ASSUME NEW a \in Account, NEW x \in RideId, NEW payout \in Payout,
                 resolveDispute(a, x, payout)
          PROVE  rides'[id] = rides[id]
      BY <2>3, <2>9 DEF resolveDispute, MayResolve
    <2>10. ASSUME NEW a \in Account, NEW x \in RideId, NEW stars \in Stars,
                  rateDriver(a, x, stars)
           PROVE  \/ rides'[id] = rides[id]
                  \/ /\ rides[id].rating = 0
                     /\ rides'[id] = [rides[id] EXCEPT !.rating = rides'[id].rating]
      <3>1. /\ rides' = [rides EXCEPT ![x] = SetRating(rides[x], stars)]
            /\ rides[x].rating = 0
        BY <2>10 DEF rateDriver
      <3>2. CASE x = id
        <4>1. rides'[id] = [rides[id] EXCEPT !.rating = stars]
          BY <2>1, <3>1, <3>2 DEF SetRating
        <4>2. rides'[id].rating = stars
          BY <2>1, <4>1 DEF Ride
        <4>. QED  BY <3>1, <3>2, <4>1, <4>2
      <3>. QED  BY <2>1, <3>1, <3>2
    <2>11. ASSUME NEW a \in Account,
                  \/ Administer(a)
                  \/ ManageCollateral(a)
                  \/ registerUser(a) \/ Withdraw(a)
                  \/ \E d \in DriverCandidate, fare \in Fare, ceiling \in BOOLEAN :
                        SignOffer(d, a, fare, ceiling)
           PROVE  rides' = rides
      BY <2>11 DEF Administer, ManageCollateral, transferOwnership, setBackend, registerUser,
                   registerDriver, depositDriverCollateral, reactivateDriver,
                   withdrawCollateral, Withdraw, SignOffer
    <2>12. CASE WithdrawReturn \/ Tick \/ UNCHANGED vars
      BY <2>12 DEF WithdrawReturn, Tick, vars
    <2>. QED
      BY <1>1, <2>4, <2>5, <2>6, <2>7, <2>8, <2>9, <2>10, <2>11, <2>12
         DEF Next, Match, Travel, Administer, ManageCollateral
  <1>2. RidesSound /\ [Next]_vars =>
           [\A id \in RideId : Closed(rides[id]) =>
              \/ rides'[id] = rides[id]
              \/ rides[id].rating = 0 /\ rides'[id] = [rides[id] EXCEPT !.rating = rides'[id].rating]]_vars
    BY <1>1
  <1>. QED  BY <1>2, RidesAlwaysSound, PTL DEF Spec, ClosedIsFinal

(***************************************************************************)
(* The registry.                                                           *)
(***************************************************************************)

RegisteredDrivers == {d \in Account : Registered(d)}

\* Only registerDriver registers a driver or spends an identity, and it does both.
LEMMA RegistryStep ==
    ASSUME TypeOK, [Next]_vars
    PROVE  \/ UNCHANGED <<idsHashUsed, RegisteredDrivers>>
           \/ \E id, d : /\ id \notin idsHashUsed /\ idsHashUsed' = idsHashUsed \cup {id}
                         /\ d \notin RegisteredDrivers
                         /\ RegisteredDrivers' = RegisteredDrivers \cup {d}
  <1>0. /\ drivers \in [Account -> Driver] /\ rides \in [RideId -> Ride]
        /\ DriverCandidate \subseteq Account /\ Value \subseteq Nat /\ Stars \subseteq Nat
    BY DEF TypeOK
  <1>1. ASSUME NEW a \in Account, NEW d \in DriverCandidate, NEW id \in IdHash,
               registerDriver(a, d, id)
        PROVE  /\ id \notin idsHashUsed /\ idsHashUsed' = idsHashUsed \cup {id}
               /\ d \notin RegisteredDrivers
               /\ RegisteredDrivers' = RegisteredDrivers \cup {d}
    <2>1. NewDriver(d).driverAddress = d /\ d # NoAccount /\ d \in Account
      BY <1>0 DEF NewDriver, NoDriver
    <2>2. /\ id \notin idsHashUsed /\ idsHashUsed' = idsHashUsed \cup {id}
          /\ ~ Registered(d) /\ drivers' = [drivers EXCEPT ![d] = NewDriver(d)]
      BY <1>1 DEF registerDriver
    <2>3. \A b \in Account : Registered(b)' <=> b = d \/ Registered(b)
      BY <1>0, <2>1, <2>2 DEF Registered
    <2>. QED  BY <2>1, <2>2, <2>3 DEF RegisteredDrivers
  <1>2. ASSUME idsHashUsed' = idsHashUsed, NEW d,
               \/ drivers' = drivers
               \/ \E dr : /\ drivers' = [drivers EXCEPT ![d] = dr]
                          /\ d \in Account => dr.driverAddress = drivers[d].driverAddress
        PROVE  UNCHANGED <<idsHashUsed, RegisteredDrivers>>
    <2>1. \A b \in Account : Registered(b)' <=> Registered(b)
      BY <1>0, <1>2 DEF Registered
    <2>. QED  BY <1>2, <2>1 DEF RegisteredDrivers
  <1>3. ASSUME NEW a \in Account, NEW n \in Nat, NEW s \in DriverStatus,
               idsHashUsed' = idsHashUsed,
               drivers' = [drivers EXCEPT ![a] = Staked(drivers[a], n, s)]
        PROVE  UNCHANGED <<idsHashUsed, RegisteredDrivers>>
    <2>1. Staked(drivers[a], n, s).driverAddress = drivers[a].driverAddress
      BY <1>0, StakedFacts
    <2>. QED  BY <1>2, <1>3, <2>1
  <1>4. ASSUME NEW a \in Account, NEW v \in Value,
               \/ depositDriverCollateral(a, v) \/ reactivateDriver(a, v)
               \/ withdrawCollateral(a, v)
        PROVE  UNCHANGED <<idsHashUsed, RegisteredDrivers>>
    <2>1. drivers[a] \in Driver /\ drivers[a].status \in DriverStatus
          /\ "Active" \in DriverStatus /\ "Suspended" \in DriverStatus
      BY <1>0 DEF Driver, DriverStatus
    <2>2. CASE depositDriverCollateral(a, v)
      <3>. DEFINE n == drivers[a].amtDeposited + v
                  s == IF drivers[a].status = "Verified" /\ n >= DRIVER_MIN_DEPOSIT
                       THEN "Active" ELSE drivers[a].status
      <3>1. n \in Nat /\ s \in DriverStatus
        BY <1>0, <2>1 DEF Driver
      <3>2. drivers' = [drivers EXCEPT ![a] = Staked(drivers[a], n, s)]
            /\ idsHashUsed' = idsHashUsed
        BY <2>2 DEF depositDriverCollateral, registry
      <3>. HIDE DEF n, s
      <3>. QED  BY <1>3, <3>1, <3>2
    <2>3. CASE reactivateDriver(a, v)
      <3>1. drivers[a].amtDeposited + v \in Nat
        BY <1>0, <2>1 DEF Driver
      <3>2. drivers' = [drivers EXCEPT ![a] = Staked(drivers[a], drivers[a].amtDeposited + v, "Active")]
            /\ idsHashUsed' = idsHashUsed
        BY <2>3 DEF reactivateDriver, registry
      <3>. QED  BY <1>3, <2>1, <3>1, <3>2
    <2>4. CASE withdrawCollateral(a, v)
      <3>. DEFINE n == drivers[a].amtDeposited - v
                  s == IF drivers[a].status = "Active" /\ n < DRIVER_MIN_DEPOSIT
                       THEN "Suspended" ELSE drivers[a].status
      <3>1. n \in Nat /\ s \in DriverStatus
        BY <1>0, <2>1, <2>4 DEF withdrawCollateral, Driver
      <3>2. drivers' = [drivers EXCEPT ![a] = Staked(drivers[a], n, s)]
            /\ idsHashUsed' = idsHashUsed
        BY <2>4 DEF withdrawCollateral, registry
      <3>. HIDE DEF n, s
      <3>. QED  BY <1>3, <3>1, <3>2
    <2>. QED  BY <1>4, <2>2, <2>3, <2>4
  <1>5. ASSUME NEW a \in Account, NEW d \in DriverCandidate, NEW fare \in Fare,
               NEW ceiling \in BOOLEAN, acceptRide(a, d, fare, ceiling)
        PROVE  UNCHANGED <<idsHashUsed, RegisteredDrivers>>
    <2>1. drivers' = [drivers EXCEPT ![d] = MakeBusy(drivers[d])] /\ idsHashUsed' = idsHashUsed
      BY <1>5 DEF acceptRide, registry
    <2>2. MakeBusy(drivers[d]).driverAddress = drivers[d].driverAddress
      BY <1>0, MakeBusyFacts
    <2>. QED  BY <1>2, <2>1, <2>2
  <1>6. ASSUME NEW a \in Account, NEW id \in RideId,
               \/ completeRide(a, id)
               \/ cancelRide(a, id)
               \/ \E payout \in Payout : resolveDispute(a, id, payout)
        PROVE  UNCHANGED <<idsHashUsed, RegisteredDrivers>>
    <2>. DEFINE d == rides[id].driver
    <2>1. drivers' = [drivers EXCEPT ![d] = MakeFree(drivers[d])] /\ idsHashUsed' = idsHashUsed
      BY <1>6 DEF completeRide, cancelRide, resolveDispute, registry
    <2>. HIDE DEF d
    <2>2. d \in Account => MakeFree(drivers[d]).driverAddress = drivers[d].driverAddress
      BY <1>0, MakeFreeFacts
    <2>. QED  BY <1>2, <2>1, <2>2
  <1>7. ASSUME NEW a \in Account, NEW id \in RideId, NEW stars \in Stars,
               rateDriver(a, id, stars)
        PROVE  UNCHANGED <<idsHashUsed, RegisteredDrivers>>
    <2>. DEFINE d == rides[id].driver
    <2>1. drivers' = [drivers EXCEPT ![d] = AddRating(drivers[d], stars)]
          /\ idsHashUsed' = idsHashUsed
      BY <1>7 DEF rateDriver, registry
    <2>. HIDE DEF d
    <2>2. d \in Account => AddRating(drivers[d], stars).driverAddress = drivers[d].driverAddress
      BY <1>0, AddRatingFacts
    <2>. QED  BY <1>2, <2>1, <2>2
  <1>8. CASE \E a \in Account :
                \/ \E new \in NewOwner : transferOwnership(a, new)
                \/ \E new \in Backend : setBackend(a, new)
                \/ registerUser(a)
                \/ \E d \in DriverCandidate, fare \in Fare, ceiling \in BOOLEAN :
                      SignOffer(d, a, fare, ceiling)
                \/ Withdraw(a)
                \/ \E id \in RideId, eta \in Eta : startRide(a, id, eta)
                \/ \E id \in RideId : disputeRide(a, id)
    BY <1>2, <1>8 DEF transferOwnership, setBackend, registerUser, SignOffer, Withdraw,
                      startRide, disputeRide, registry
  <1>9. CASE WithdrawReturn \/ Tick \/ UNCHANGED vars
    BY <1>2, <1>9 DEF WithdrawReturn, Tick, vars, registry
  <1>. QED
    BY <1>1, <1>4, <1>5, <1>6, <1>7, <1>8, <1>9
       DEF Next, Administer, ManageCollateral, Match, Travel

\* As many identities are spent as drivers are registered, both finitely many.
RegistryCounts ==
    IsFiniteSet(idsHashUsed) /\ IsFiniteSet(RegisteredDrivers) /\ IdPerDriver

\* Each identity is spent on one driver: whoever calls registerDriver, in
\* whatever order, no driver is registered without one or under two.
THEOREM IdentityPerDriver == Spec => []IdPerDriver
  <1>1. Init => TypeOK /\ RegistryCounts
    <2>. SUFFICES ASSUME Init PROVE RegistryCounts
      BY InitTypeOK
    <2>1. idsHashUsed = {} /\ RegisteredDrivers = {}
      BY DEF Init, RegisteredDrivers, Registered, NoDriver
    <2>. QED  BY <2>1, FS_EmptySet DEF RegistryCounts, IdPerDriver, RegisteredDrivers
  <1>2. TypeOK /\ RegistryCounts /\ [Next]_vars => TypeOK' /\ RegistryCounts'
    <2>. SUFFICES ASSUME TypeOK, RegistryCounts, [Next]_vars PROVE RegistryCounts'
      BY NextTypeOK
    <2>. USE DEF RegistryCounts
    <2>1. IdPerDriver <=> Cardinality(idsHashUsed) = Cardinality(RegisteredDrivers)
      BY DEF IdPerDriver, RegisteredDrivers
    <2>2. IdPerDriver' <=> Cardinality(idsHashUsed') = Cardinality(RegisteredDrivers')
      BY DEF IdPerDriver, RegisteredDrivers
    <2>3. CASE UNCHANGED <<idsHashUsed, RegisteredDrivers>>
      BY <2>1, <2>2, <2>3
    <2>4. ASSUME NEW id, NEW d, id \notin idsHashUsed, idsHashUsed' = idsHashUsed \cup {id},
                 d \notin RegisteredDrivers, RegisteredDrivers' = RegisteredDrivers \cup {d}
          PROVE  RegistryCounts'
      <3>1. /\ IsFiniteSet(idsHashUsed') /\ IsFiniteSet(RegisteredDrivers')
            /\ Cardinality(idsHashUsed') = Cardinality(idsHashUsed) + 1
            /\ Cardinality(RegisteredDrivers') = Cardinality(RegisteredDrivers) + 1
        BY <2>4, FS_AddElement
      <3>. QED  BY <2>1, <2>2, <3>1
    <2>. QED  BY <2>3, <2>4, RegistryStep
  <1>3. RegistryCounts => IdPerDriver
    BY DEF RegistryCounts
  <1>. QED  BY <1>1, <1>2, <1>3, PTL DEF Spec

(***************************************************************************)
(* The functions that write a ride, with what they need to have found.     *)
(***************************************************************************)

\* A step writes no ride, or is one of the seven functions that write one.
LEMMA RideWrites ==
    ASSUME [Next]_vars
    PROVE  \/ rides' = rides
           \/ \E a \in Account, d \in DriverCandidate, fare \in Fare, ceiling \in BOOLEAN :
                 acceptRide(a, d, fare, ceiling)
           \/ \E a \in Account, id \in RideId :
                 \/ \E eta \in Eta : startRide(a, id, eta)
                 \/ completeRide(a, id)
                 \/ cancelRide(a, id)
                 \/ disputeRide(a, id)
                 \/ \E payout \in Payout : resolveDispute(a, id, payout)
                 \/ \E stars \in Stars : rateDriver(a, id, stars)
  <1>1. ASSUME NEW a \in Account,
               \/ Administer(a)
               \/ ManageCollateral(a)
               \/ registerUser(a) \/ Withdraw(a)
               \/ \E d \in DriverCandidate, fare \in Fare, ceiling \in BOOLEAN :
                     SignOffer(d, a, fare, ceiling)
        PROVE  rides' = rides
    BY <1>1 DEF Administer, ManageCollateral, transferOwnership, setBackend, registerUser,
                registerDriver, depositDriverCollateral, reactivateDriver,
                withdrawCollateral, Withdraw, SignOffer
  <1>2. CASE WithdrawReturn \/ Tick \/ UNCHANGED vars
    BY <1>2 DEF WithdrawReturn, Tick, vars
  <1>. QED  BY <1>1, <1>2 DEF Next, Match, Travel

(***************************************************************************)
(* The fare of a completed ride.                                           *)
(***************************************************************************)

\* A trip that is under way has a fare that was agreed, and began in the past.
TripsTimed ==
    /\ now <= MaxTime
    /\ \A id \in RideId :
          /\ rides[id].status # "Requested" => rides[id].fare \in Fare
          /\ rides[id].status = "Started" => rides[id].startTime <= now

\* A remainder is no more than what was divided.
LEMMA RemainderBelow ==
    ASSUME NEW n \in Nat
    PROVE  n % WordSize \in 0..n
  BY SMT

\* A surcharge that fits is not lost: the fare is its least.
LEMMA SurchargedAtLeastFare ==
    ASSUME SurchargeFits, NEW r \in Ride, NEW t \in Nat, t <= MaxTime,
           r.startTime <= t, r.fare \in Fare
    PROVE  Surcharged(r, t) >= r.fare
  <1>. DEFINE actual == (t - r.startTime) % WordSize
              late   == actual - TimeLimit(r)
  <1>1. /\ r.fare \in Nat /\ r.startTime \in Nat /\ TimeLimit(r) \in Nat
        /\ MaxTime \in Nat /\ surchargePerSecond \in Nat
    BY DEF Ride, TimeLimit
  <1>2. t - r.startTime \in Nat /\ t - r.startTime <= MaxTime
    BY <1>1
  <1>3. actual \in Nat /\ actual <= MaxTime
    BY <1>1, <1>2, RemainderBelow
  <1>. HIDE DEF actual
  <1>4. CASE actual > TimeLimit(r)
    <2>1. late \in Nat /\ late <= MaxTime
      BY <1>1, <1>3, <1>4
    <2>. HIDE DEF late
    <2>2. /\ late * surchargePerSecond \in Nat
          /\ MaxTime * surchargePerSecond \in Nat
          /\ late * surchargePerSecond <= MaxTime * surchargePerSecond
      <3>1. PICK k \in Nat : MaxTime = late + k
        BY <1>1, <2>1
      <3>2. late * surchargePerSecond \in Nat /\ k * surchargePerSecond \in Nat
        BY <1>1, <2>1
      <3>3. MaxTime * surchargePerSecond = late * surchargePerSecond + k * surchargePerSecond
        BY <1>1, <2>1, <3>1
      <3>. QED  BY <3>2, <3>3
    <2>3. r.fare + MaxTime * surchargePerSecond < WordSize
      BY DEF SurchargeFits
    <2>4. (r.fare + late * surchargePerSecond) % WordSize = r.fare + late * surchargePerSecond
      <3>. DEFINE n == r.fare + late * surchargePerSecond
      <3>1. n \in Nat /\ n < WordSize /\ WordSize \in Nat
        BY <1>1, <2>2, <2>3
      <3>. HIDE DEF n
      <3>2. n % WordSize = n
        BY <3>1
      <3>. QED  BY <3>2 DEF n
    <2>5. Surcharged(r, t) = r.fare + late * surchargePerSecond
      BY <1>4, <2>4 DEF Surcharged, actual, late
    <2>. QED  BY <1>1, <2>2, <2>5
  <1>5. CASE ~ (actual > TimeLimit(r))
    BY <1>1, <1>5 DEF Surcharged, actual
  <1>. QED  BY <1>4, <1>5

\* Every step keeps it.
LEMMA NextTripsTimed ==
    ASSUME RidesSound, TripsTimed, [Next]_vars
    PROVE  TripsTimed'
  <1>. USE DEF TripsTimed
  <1>0. /\ rides \in [RideId -> Ride] /\ RidesAllocated /\ now \in Nat
        /\ Fare \subseteq Nat /\ Eta \subseteq Nat /\ Stars \subseteq Nat /\ Payout \subseteq Nat
        /\ DriverCandidate \subseteq Account /\ MaxTime \in Nat
    BY DEF RidesSound, TypeOK
  <1>1. CASE rides' = rides
    <2>1. now' = now \/ (now < MaxTime /\ now' = now + 1)
      <3>1. CASE Tick
        BY <3>1 DEF Tick
      <3>2. CASE WithdrawReturn \/ UNCHANGED vars
        BY <3>2 DEF WithdrawReturn, vars
      <3>3. ASSUME NEW a \in Account, Administer(a) \/ ManageCollateral(a) \/ Withdraw(a)
            PROVE  now' = now
        BY <3>3 DEF Administer, ManageCollateral, transferOwnership, setBackend, registerDriver,
                    depositDriverCollateral, reactivateDriver, withdrawCollateral, Withdraw
      <3>4. ASSUME NEW a \in Account, Match(a)
            PROVE  now' = now
        BY <3>4 DEF Match, registerUser, acceptRide, SignOffer
      <3>5. ASSUME NEW a \in Account, NEW id \in RideId, Travel(a, id)
            PROVE  now' = now
        BY <3>5 DEF Travel, startRide, completeRide, cancelRide, disputeRide, resolveDispute,
                    rateDriver
      <3>. QED  BY <3>1, <3>2, <3>3, <3>4, <3>5 DEF Next
    <2>2. \A id \in RideId : rides[id].startTime \in Nat
      BY <1>0 DEF Ride
    <2>. QED  BY <1>0, <1>1, <2>1, <2>2
  <1>2. ASSUME NEW x \in RideId, NEW r \in Ride, rides' = [rides EXCEPT ![x] = r], now' = now,
               r.fare = rides[x].fare, rides[x].status # "Requested",
               r.status = "Started" => r.startTime <= now
        PROVE  TripsTimed'
    BY <1>0, <1>2
  <1>3. ASSUME NEW a \in Account, NEW d \in DriverCandidate, NEW fare \in Fare,
               NEW ceiling \in BOOLEAN, acceptRide(a, d, fare, ceiling)
        PROVE  TripsTimed'
    <2>. DEFINE r == Accept(rides[nextRideId], a, d, fare, Bond(fare, ceiling))
    <2>1. /\ rides' = [rides EXCEPT ![nextRideId] = r] /\ now' = now
          /\ nextRideId < MaxRides
      BY <1>3 DEF acceptRide
    <2>2. nextRideId \in RideId
      BY <2>1 DEF RidesSound, TypeOK, RideId
    <2>3. Bond(fare, ceiling) \in Nat
      BY <1>0, BondType
    <2>4. r.fare = fare /\ r.status = "Accepted"
      BY <1>0, <2>2, <2>3, AcceptFacts
    <2>. QED  BY <1>0, <2>1, <2>2, <2>4
  <1>4. ASSUME NEW a \in Account, NEW x \in RideId, NEW eta \in Eta, startRide(a, x, eta)
        PROVE  TripsTimed'
    <2>1. /\ rides' = [rides EXCEPT ![x] = Start(rides[x], now, eta)] /\ now' = now
          /\ rides[x].status = "Accepted"
      BY <1>4 DEF startRide
    <2>2. Start(rides[x], now, eta).startTime = now
      BY <1>0 DEF Start, Ride
    <2>3. /\ Start(rides[x], now, eta) \in Ride
          /\ Start(rides[x], now, eta).fare = rides[x].fare
      BY <1>0, StartFacts
    <2>. QED  BY <1>0, <1>2, <2>1, <2>2, <2>3
  <1>5. ASSUME NEW a \in Account, NEW x \in RideId, completeRide(a, x)
        PROVE  TripsTimed'
    <2>1. /\ rides' = [rides EXCEPT ![x] = Complete(rides[x], FinalFare(rides[x], now), now)]
          /\ now' = now /\ rides[x].status = "Started"
      BY <1>5 DEF completeRide
    <2>2. FinalFare(rides[x], now) \in Nat
      BY <1>0, FinalFareWithinEscrow DEF Escrow, Ride
    <2>. QED  BY <1>0, <1>2, <2>1, <2>2, CompleteFacts, SMTT(30)
  <1>6. ASSUME NEW a \in Account, NEW x \in RideId, cancelRide(a, x)
        PROVE  TripsTimed'
    <2>1. /\ rides' = [rides EXCEPT ![x] = SetStatus(rides[x], "Cancelled")] /\ now' = now
          /\ rides[x].status \in {"Started", "Accepted"} /\ "Cancelled" \in RideStatus
      BY <1>6 DEF cancelRide, MayCancel, Cancellable, RideStatus
    <2>. QED  BY <1>0, <1>2, <2>1, SetStatusFacts
  <1>7. ASSUME NEW a \in Account, NEW x \in RideId, disputeRide(a, x)
        PROVE  TripsTimed'
    <2>1. /\ rides' = [rides EXCEPT ![x] = SetStatus(rides[x], "Disputed")] /\ now' = now
          /\ rides[x].status = "Started" /\ "Disputed" \in RideStatus
      BY <1>7 DEF disputeRide, RideStatus
    <2>. QED  BY <1>0, <1>2, <2>1, SetStatusFacts
  <1>8. ASSUME NEW a \in Account, NEW x \in RideId, NEW payout \in Payout,
               resolveDispute(a, x, payout)
        PROVE  TripsTimed'
    <2>1. /\ rides' = [rides EXCEPT ![x] = Complete(rides[x], payout, now)] /\ now' = now
          /\ rides[x].status = "Disputed"
      BY <1>8 DEF resolveDispute, MayResolve
    <2>. QED  BY <1>0, <1>2, <2>1, CompleteFacts
  <1>9. ASSUME NEW a \in Account, NEW x \in RideId, NEW stars \in Stars, rateDriver(a, x, stars)
        PROVE  TripsTimed'
    <2>1. /\ rides' = [rides EXCEPT ![x] = SetRating(rides[x], stars)] /\ now' = now
          /\ rides[x].status = "Completed"
      BY <1>9 DEF rateDriver
    <2>. QED  BY <1>0, <1>2, <2>1, SetRatingFacts
  <1>. QED  BY <1>1, <1>3, <1>4, <1>5, <1>6, <1>7, <1>8, <1>9, RideWrites

\* A driver who completes a trip is paid at least the fare, and exactly the fare
\* when there is no bond, provided only that no surcharge reaches the word size.
THEOREM FareIsKept == Spec => FareKept
  <1>1. Init => TripsTimed
    BY DEF Init, TripsTimed, NoRide
  <1>2. ASSUME RidesSound, TripsTimed, [Next]_vars, SurchargeFits, NEW id \in RideId,
               rides[id].status = "Started", rides'[id].status = "Completed"
        PROVE  /\ rides'[id].finalFare >= rides[id].fare
               /\ rides[id].ceilingBond = 0 => rides'[id].finalFare = rides[id].fare
    <2>0. rides \in [RideId -> Ride] /\ RidesAllocated /\ now \in Nat
      BY <1>2 DEF RidesSound, TypeOK
    <2>1. PICK a \in Account : completeRide(a, id)
      <3>1. rides' # rides
        BY <1>2
      <3>2. \A a \in Account : \A d, fare, ceiling : ~ acceptRide(a, d, fare, ceiling)
        <4>. SUFFICES ASSUME NEW a \in Account, NEW d, NEW fare, NEW ceiling,
                             acceptRide(a, d, fare, ceiling)
                      PROVE  FALSE
          OBVIOUS
        <4>1. rides' = [rides EXCEPT ![nextRideId] =
                           Accept(rides[nextRideId], a, d, fare, Bond(fare, ceiling))]
          BY DEF acceptRide
        <4>2. id # nextRideId
          BY <1>2, <2>0 DEF RidesAllocated, RideId, NoRide
        <4>. QED  BY <1>2, <2>0, <4>1, <4>2
      <3>3. ASSUME NEW x \in RideId, NEW r, rides' = [rides EXCEPT ![x] = r],
                   x = id => r.status # "Completed" \/ rides[x].status # "Started"
            PROVE  FALSE
        BY <1>2, <2>0, <3>3
      <3>4. ASSUME NEW a \in Account, NEW x \in RideId
            PROVE  /\ \A eta \in Eta : ~ startRide(a, x, eta)
                   /\ ~ cancelRide(a, x)
                   /\ ~ disputeRide(a, x)
                   /\ \A payout \in Payout : ~ resolveDispute(a, x, payout)
                   /\ \A stars \in Stars : ~ rateDriver(a, x, stars)
        <4>1. ASSUME NEW eta \in Eta, startRide(a, x, eta) PROVE FALSE
          BY <2>0, <3>3, <4>1 DEF startRide
        <4>2. ASSUME cancelRide(a, x) PROVE FALSE
          <5>1. SetStatus(rides[x], "Cancelled").status = "Cancelled"
            BY <2>0, SetStatusFacts DEF RideStatus
          <5>. QED  BY <3>3, <4>2, <5>1 DEF cancelRide
        <4>3. ASSUME disputeRide(a, x) PROVE FALSE
          <5>1. SetStatus(rides[x], "Disputed").status = "Disputed"
            BY <2>0, SetStatusFacts DEF RideStatus
          <5>. QED  BY <3>3, <4>3, <5>1 DEF disputeRide
        <4>4. ASSUME NEW payout \in Payout, resolveDispute(a, x, payout) PROVE FALSE
          BY <3>3, <4>4 DEF resolveDispute, MayResolve
        <4>5. ASSUME NEW stars \in Stars, rateDriver(a, x, stars) PROVE FALSE
          BY <3>3, <4>5 DEF rateDriver
        <4>. QED  BY <4>1, <4>2, <4>3, <4>4, <4>5
      <3>5. ASSUME NEW a \in Account, NEW x \in RideId, completeRide(a, x)
            PROVE  x = id
        BY <3>3, <3>5 DEF completeRide
      <3>. QED  BY <1>2, <3>1, <3>2, <3>4, <3>5, RideWrites
    <2>. DEFINE r == rides[id]
    <2>2. rides' = [rides EXCEPT ![id] = Complete(r, FinalFare(r, now), now)]
      BY <2>1 DEF completeRide
    <2>3. FinalFare(r, now) \in 0..Escrow(r) /\ Escrow(r) = r.fare + r.ceilingBond
      BY <2>0, FinalFareWithinEscrow DEF Escrow
    <2>4. r \in Ride /\ r.fare \in Nat /\ r.ceilingBond \in Nat
      BY <2>0 DEF Ride
    <2>5. rides'[id].finalFare = FinalFare(r, now)
      <3>1. FinalFare(r, now) \in Nat
        BY <2>3, <2>4
      <3>2. Complete(r, FinalFare(r, now), now).finalFare = FinalFare(r, now)
        <4>. DEFINE pay == FinalFare(r, now)
        <4>1. pay \in Nat /\ r \in Ride /\ now \in Nat
          BY <2>0, <2>4, <3>1
        <4>. HIDE DEF pay, r
        <4>2. Complete(r, pay, now).finalFare = pay
          BY <4>1, CompleteFacts
        <4>. QED  BY <4>2 DEF pay
      <3>. QED  BY <2>0, <2>2, <3>2
    <2>6. Surcharged(r, now) >= r.fare
      BY <1>2, <2>0, <2>4, SurchargedAtLeastFare DEF TripsTimed
    <2>7. FinalFare(r, now) >= r.fare
      BY <2>3, <2>4, <2>6 DEF FinalFare
    <2>. QED  BY <2>3, <2>4, <2>5, <2>7
  <1>3. RidesSound /\ TripsTimed /\ [Next]_vars =>
           [SurchargeFits =>
              \A id \in RideId :
                 rides[id].status = "Started" /\ rides'[id].status = "Completed" =>
                    /\ rides'[id].finalFare >= rides[id].fare
                    /\ rides[id].ceilingBond = 0 => rides'[id].finalFare = rides[id].fare]_vars
    BY <1>2
  <1>4. RidesSound /\ TripsTimed /\ [Next]_vars => TripsTimed'
    BY NextTripsTimed
  <1>. QED  BY <1>1, <1>3, <1>4, RidesAlwaysSound, PTL DEF Spec, FareKept

(***************************************************************************)
(* Carpool implements RideEscrow.                                          *)
(***************************************************************************)

\* What RideEscrow sees of the rides.
PhaseSeen  == [id \in RideId |-> PhaseOf(rides[id])]
RiderSeen  == [id \in RideId |-> rides[id].user]
DriverSeen == [id \in RideId |-> rides[id].driver]
AmountSeen == [id \in RideId |-> Escrow(rides[id])]
ShareSeen  == [id \in RideId |-> rides[id].finalFare]

\* The phase of each status.
LEMMA Phases ==
    ASSUME NEW r
    PROVE  /\ r.status = "Requested" => PhaseOf(r) = "None"
           /\ r.status \in {"Accepted", "Started"} => PhaseOf(r) = "Open"
           /\ r.status = "Disputed" => PhaseOf(r) = "Frozen"
           /\ r.status = "Cancelled" => PhaseOf(r) = "Refunded"
           /\ r.status = "Completed" => PhaseOf(r) = "Settled"
  BY DEF PhaseOf

\* Writing one ride changes what is seen of that ride only.
LEMMA OneRideSeen ==
    ASSUME rides \in [RideId -> Ride], NEW x \in RideId, NEW r,
           rides' = [rides EXCEPT ![x] = r]
    PROVE  /\ PhaseSeen' = [PhaseSeen EXCEPT ![x] = PhaseOf(r)]
           /\ RiderSeen' = [RiderSeen EXCEPT ![x] = r.user]
           /\ DriverSeen' = [DriverSeen EXCEPT ![x] = r.driver]
           /\ AmountSeen' = [AmountSeen EXCEPT ![x] = Escrow(r)]
           /\ ShareSeen' = [ShareSeen EXCEPT ![x] = r.finalFare]
  <1>1. \A id \in RideId : rides'[id] = IF id = x THEN r ELSE rides[id]
    OBVIOUS
  <1>2. \A id \in RideId : PhaseOf(rides[id])' = PhaseOf(rides'[id])
    BY DEF PhaseOf
  <1>3. PhaseSeen' = [PhaseSeen EXCEPT ![x] = PhaseOf(r)]
    BY <1>1, <1>2 DEF PhaseSeen
  <1>4. RiderSeen' = [RiderSeen EXCEPT ![x] = r.user]
    BY <1>1 DEF RiderSeen
  <1>5. DriverSeen' = [DriverSeen EXCEPT ![x] = r.driver]
    BY <1>1 DEF DriverSeen
  <1>6. AmountSeen' = [AmountSeen EXCEPT ![x] = Escrow(r)]
    BY <1>1 DEF AmountSeen, Escrow
  <1>7. ShareSeen' = [ShareSeen EXCEPT ![x] = r.finalFare]
    BY <1>1 DEF ShareSeen
  <1>. QED  BY <1>3, <1>4, <1>5, <1>6, <1>7

\* A ride that keeps its parties and its money is seen only by its phase.
LEMMA MoneyKeptSeen ==
    ASSUME rides \in [RideId -> Ride], NEW x \in RideId, NEW r,
           rides' = [rides EXCEPT ![x] = r],
           r.user = rides[x].user, r.driver = rides[x].driver,
           r.fare = rides[x].fare, r.ceilingBond = rides[x].ceilingBond
    PROVE  UNCHANGED <<RiderSeen, DriverSeen, AmountSeen>>
  <1>1. /\ RiderSeen' = [RiderSeen EXCEPT ![x] = r.user]
        /\ DriverSeen' = [DriverSeen EXCEPT ![x] = r.driver]
        /\ AmountSeen' = [AmountSeen EXCEPT ![x] = Escrow(r)]
    BY OneRideSeen
  <1>2. Escrow(r) = Escrow(rides[x])
    BY DEF Escrow
  <1>3. /\ RiderSeen' = [RiderSeen EXCEPT ![x] = rides[x].user]
        /\ DriverSeen' = [DriverSeen EXCEPT ![x] = rides[x].driver]
        /\ AmountSeen' = [AmountSeen EXCEPT ![x] = Escrow(rides[x])]
    BY <1>1, <1>2
  <1>. QED  BY <1>3 DEF RiderSeen, DriverSeen, AmountSeen

\* Rides as they were: RideEscrow sees nothing.
LEMMA NothingSeen ==
    ASSUME rides' = rides
    PROVE  UNCHANGED RE!escrowVars
  BY DEF RE!escrowVars, PhaseOf, Escrow

\* A ride whose phase and share are the same: RideEscrow sees nothing.
LEMMA StutterSeen ==
    ASSUME UNCHANGED <<PhaseSeen, RiderSeen, DriverSeen, AmountSeen, ShareSeen>>
    PROVE  UNCHANGED RE!escrowVars
  BY DEF RE!escrowVars, PhaseSeen, RiderSeen, DriverSeen, AmountSeen, ShareSeen

\* The amounts an escrow may hold.
EscrowAmounts == {fare + Bond(fare, ceiling) : fare \in Fare, ceiling \in BOOLEAN}

\* The actions of RideEscrow, in the contract's terms: an escrow opens.
LEMMA OpenStep ==
    ASSUME NEW x \in RideId, NEW u \in Account, NEW d \in Account, NEW n \in EscrowAmounts,
           PhaseSeen[x] = "None",
           \A other \in RideId :
               ~ (PhaseSeen[other] \in {"Open", "Frozen"} /\ DriverSeen[other] = d),
           PhaseSeen' = [PhaseSeen EXCEPT ![x] = "Open"],
           RiderSeen' = [RiderSeen EXCEPT ![x] = u],
           DriverSeen' = [DriverSeen EXCEPT ![x] = d],
           AmountSeen' = [AmountSeen EXCEPT ![x] = n],
           UNCHANGED ShareSeen
    PROVE  RE!EscrowNext
  <1>1. RE!Open(x, u, d, n)
    BY DEF RE!Open, RE!Serving, PhaseSeen, RiderSeen, DriverSeen, AmountSeen, ShareSeen
  <1>. QED  BY <1>1 DEF RE!EscrowNext, EscrowAmounts

\* A dispute freezes it.
LEMMA FreezeStep ==
    ASSUME NEW x \in RideId, PhaseSeen[x] = "Open",
           PhaseSeen' = [PhaseSeen EXCEPT ![x] = "Frozen"],
           UNCHANGED <<RiderSeen, DriverSeen, AmountSeen, ShareSeen>>
    PROVE  RE!EscrowNext
  <1>1. RE!Freeze(x)
    BY DEF RE!Freeze, PhaseSeen, RiderSeen, DriverSeen, AmountSeen, ShareSeen
  <1>. QED  BY <1>1 DEF RE!EscrowNext

\* A cancellation refunds it.
LEMMA RefundStep ==
    ASSUME NEW x \in RideId, PhaseSeen[x] = "Open",
           PhaseSeen' = [PhaseSeen EXCEPT ![x] = "Refunded"],
           UNCHANGED <<RiderSeen, DriverSeen, AmountSeen, ShareSeen>>
    PROVE  RE!EscrowNext
  <1>1. RE!Refund(x)
    BY DEF RE!Refund, PhaseSeen, RiderSeen, DriverSeen, AmountSeen, ShareSeen
  <1>. QED  BY <1>1 DEF RE!EscrowNext

\* A completion or a decision settles it.
LEMMA SettleStep ==
    ASSUME NEW x \in RideId, NEW n \in 0..AmountSeen[x], PhaseSeen[x] \in {"Open", "Frozen"},
           PhaseSeen' = [PhaseSeen EXCEPT ![x] = "Settled"],
           ShareSeen' = [ShareSeen EXCEPT ![x] = n],
           UNCHANGED <<RiderSeen, DriverSeen, AmountSeen>>
    PROVE  RE!EscrowNext
  <1>1. RE!Settle(x, n)
    BY DEF RE!Settle, PhaseSeen, RiderSeen, DriverSeen, AmountSeen, ShareSeen
  <1>2. n \in 0..([id \in RideId |-> Escrow(rides[id])][x])
    BY DEF AmountSeen
  <1>. QED  BY <1>1, <1>2 DEF RE!EscrowNext

\* The escrow of a ride that closes with a share for its driver.
LEMMA CompletionSettles ==
    ASSUME rides \in [RideId -> Ride], NEW x \in RideId, NEW pay \in Nat, NEW t \in Nat,
           pay <= Escrow(rides[x]), rides[x].status \in {"Started", "Disputed"},
           rides' = [rides EXCEPT ![x] = Complete(rides[x], pay, t)]
    PROVE  RE!EscrowNext
  <1>. DEFINE r == Complete(rides[x], pay, t)
  <1>1. /\ r.user = rides[x].user /\ r.driver = rides[x].driver
        /\ r.fare = rides[x].fare /\ r.ceilingBond = rides[x].ceilingBond
        /\ r.status = "Completed" /\ r.finalFare = pay
    BY CompleteFacts
  <1>2. rides' = [rides EXCEPT ![x] = r]
    OBVIOUS
  <1>. HIDE DEF r
  <1>3. UNCHANGED <<RiderSeen, DriverSeen, AmountSeen>>
    BY <1>1, <1>2, MoneyKeptSeen
  <1>4. /\ PhaseSeen' = [PhaseSeen EXCEPT ![x] = PhaseOf(r)]
        /\ ShareSeen' = [ShareSeen EXCEPT ![x] = pay]
    BY <1>1, <1>2, OneRideSeen
  <1>5. PhaseOf(r) = "Settled" /\ PhaseOf(rides[x]) \in {"Open", "Frozen"}
    BY <1>1, Phases
  <1>6. PhaseSeen[x] \in {"Open", "Frozen"} /\ AmountSeen[x] = Escrow(rides[x])
    BY <1>5 DEF PhaseSeen, AmountSeen
  <1>7. pay \in 0..AmountSeen[x]
    BY <1>6 DEF Escrow, Ride
  <1>8. PhaseSeen' = [PhaseSeen EXCEPT ![x] = "Settled"]
    BY <1>4, <1>5
  <1>. QED  BY <1>3, <1>4, <1>6, <1>7, <1>8, SettleStep

\* An accepted ride opens an escrow: its driver serves no other, for the flag is true.
LEMMA AcceptOpens ==
    ASSUME RidesSound, NEW a \in Account, NEW d \in DriverCandidate, NEW fare \in Fare,
           NEW ceiling \in BOOLEAN, acceptRide(a, d, fare, ceiling)
    PROVE  RE!EscrowNext
  <1>0. /\ rides \in [RideId -> Ride] /\ RidesAllocated /\ BusyMeansLive
        /\ Fare \subseteq Nat /\ DriverCandidate \subseteq Account
        /\ nextRideId \in 0..MaxRides
    BY DEF RidesSound, TypeOK
  <1>. DEFINE x == nextRideId
              n == fare + Bond(fare, ceiling)
              r == Accept(rides[x], a, d, fare, Bond(fare, ceiling))
  <1>1. rides' = [rides EXCEPT ![x] = r] /\ x < MaxRides /\ ~ drivers[d].isOnRide
    BY DEF acceptRide
  <1>2. x \in RideId
    BY <1>0, <1>1 DEF RideId
  <1>3. rides[x] = NoRide
    BY <1>0, <1>2 DEF RidesAllocated
  <1>4. Bond(fare, ceiling) \in Nat
    BY <1>0, BondType
  <1>5. /\ r.user = a /\ r.driver = d /\ r.status = "Accepted"
        /\ r.fare = fare /\ r.ceilingBond = Bond(fare, ceiling)
    <2>. DEFINE q == rides[x]
                bond == Bond(fare, ceiling)
    <2>1. q \in Ride /\ d \in Account /\ fare \in Nat /\ bond \in Nat
      BY <1>0, <1>2, <1>4
    <2>2. r = Accept(q, a, d, fare, bond)
      OBVIOUS
    <2>. HIDE DEF x, q, bond, r
    <2>3. LET s == Accept(q, a, d, fare, bond) IN
          /\ s \in Ride
          /\ s.user = a /\ s.driver = d /\ s.status = "Accepted"
          /\ s.fare = fare /\ s.ceilingBond = bond
      BY ONLY <2>1, a \in Account, AcceptFacts
    <2>. QED  BY <2>2, <2>3 DEF bond
  <1>6. r.finalFare = rides[x].finalFare
    BY <1>3 DEF Accept, NoRide
  <1>. HIDE DEF x, r
  <1>7. PhaseOf(r) = "Open" /\ PhaseOf(rides[x]) = "None" /\ Escrow(r) = n
    BY <1>3, <1>5, Phases DEF NoRide, Escrow
  <1>. HIDE DEF n
  <1>8. /\ PhaseSeen' = [PhaseSeen EXCEPT ![x] = "Open"]
        /\ RiderSeen' = [RiderSeen EXCEPT ![x] = a]
        /\ DriverSeen' = [DriverSeen EXCEPT ![x] = d]
        /\ AmountSeen' = [AmountSeen EXCEPT ![x] = n]
        /\ ShareSeen' = [ShareSeen EXCEPT ![x] = rides[x].finalFare]
    <2>1. rides' = [rides EXCEPT ![x] = r]
      BY <1>1
    <2>2. /\ PhaseSeen' = [PhaseSeen EXCEPT ![x] = PhaseOf(r)]
          /\ RiderSeen' = [RiderSeen EXCEPT ![x] = r.user]
          /\ DriverSeen' = [DriverSeen EXCEPT ![x] = r.driver]
          /\ AmountSeen' = [AmountSeen EXCEPT ![x] = Escrow(r)]
          /\ ShareSeen' = [ShareSeen EXCEPT ![x] = r.finalFare]
      BY <1>0, <1>2, <2>1, OneRideSeen
    <2>. QED  BY <1>5, <1>6, <1>7, <2>2
  <1>9. ShareSeen' = ShareSeen
    BY <1>8 DEF ShareSeen
  <1>10. PhaseSeen[x] = "None"
    BY <1>2, <1>7 DEF PhaseSeen
  <1>11. ASSUME NEW other \in RideId, PhaseSeen[other] \in {"Open", "Frozen"},
                DriverSeen[other] = d
         PROVE  FALSE
    <2>1. PhaseOf(rides[other]) \in {"Open", "Frozen"} /\ rides[other].driver = d
      BY <1>11 DEF PhaseSeen, DriverSeen
    <2>2. rides[other].status \in RideStatus
      BY <1>0 DEF Ride
    <2>3. Live(rides[other])
      BY <2>1, <2>2, Phases DEF Live, RideStatus
    <2>. QED  BY <1>0, <1>1, <2>1, <2>3 DEF BusyMeansLive
  <1>12. n \in EscrowAmounts /\ d \in Account
    BY <1>0 DEF EscrowAmounts, n
  <1>. QED  BY <1>2, <1>8, <1>9, <1>10, <1>11, <1>12, OpenStep

\* A ride that changes its status only.
LEMMA StatusSeen ==
    ASSUME rides \in [RideId -> Ride], NEW x \in RideId, NEW r,
           rides' = [rides EXCEPT ![x] = r],
           r.user = rides[x].user, r.driver = rides[x].driver, r.fare = rides[x].fare,
           r.ceilingBond = rides[x].ceilingBond, r.finalFare = rides[x].finalFare
    PROVE  /\ PhaseSeen' = [PhaseSeen EXCEPT ![x] = PhaseOf(r)]
           /\ PhaseSeen[x] = PhaseOf(rides[x])
           /\ PhaseOf(r) = PhaseOf(rides[x]) => UNCHANGED PhaseSeen
           /\ UNCHANGED <<RiderSeen, DriverSeen, AmountSeen, ShareSeen>>
  <1>1. UNCHANGED <<RiderSeen, DriverSeen, AmountSeen>>
    BY MoneyKeptSeen
  <1>2. /\ PhaseSeen' = [PhaseSeen EXCEPT ![x] = PhaseOf(r)]
        /\ ShareSeen' = [ShareSeen EXCEPT ![x] = r.finalFare]
    BY OneRideSeen
  <1>3. ShareSeen' = ShareSeen
    BY <1>2 DEF ShareSeen
  <1>4. PhaseSeen[x] = PhaseOf(rides[x])
    BY DEF PhaseSeen
  <1>5. PhaseOf(r) = PhaseOf(rides[x]) => UNCHANGED PhaseSeen
    BY <1>2, <1>4 DEF PhaseSeen
  <1>. QED  BY <1>1, <1>2, <1>3, <1>4, <1>5

\* Every step is a step of RideEscrow or is not seen.
LEMMA NextEscrow ==
    ASSUME RidesSound, [Next]_vars
    PROVE  RE!EscrowNext \/ UNCHANGED RE!escrowVars
  <1>0. /\ rides \in [RideId -> Ride] /\ now \in Nat
        /\ Eta \subseteq Nat /\ Stars \subseteq Nat /\ Payout \subseteq Nat
    BY DEF RidesSound, TypeOK
  <1>1. CASE rides' = rides
    BY <1>1, NothingSeen
  <1>2. ASSUME NEW a \in Account, NEW x \in RideId, NEW eta \in Eta, startRide(a, x, eta)
        PROVE  UNCHANGED RE!escrowVars
    <2>. DEFINE r == Start(rides[x], now, eta)
    <2>1. rides' = [rides EXCEPT ![x] = r] /\ rides[x].status = "Accepted"
      BY <1>2 DEF startRide
    <2>2. /\ r.user = rides[x].user /\ r.driver = rides[x].driver /\ r.fare = rides[x].fare
          /\ r.ceilingBond = rides[x].ceilingBond /\ r.finalFare = rides[x].finalFare
          /\ r.status = "Started"
      BY <1>0, StartFacts
    <2>. HIDE DEF r
    <2>3. PhaseOf(r) = PhaseOf(rides[x])
      BY <2>1, <2>2, Phases
    <2>. QED  BY <1>0, <2>1, <2>2, <2>3, StatusSeen, StutterSeen
  <1>3. ASSUME NEW a \in Account, NEW x \in RideId, completeRide(a, x)
        PROVE  RE!EscrowNext
    <2>1. /\ rides' = [rides EXCEPT ![x] = Complete(rides[x], FinalFare(rides[x], now), now)]
          /\ rides[x].status = "Started"
      BY <1>3 DEF completeRide
    <2>2. FinalFare(rides[x], now) \in 0..Escrow(rides[x]) /\ Escrow(rides[x]) \in Nat
      BY <1>0, FinalFareWithinEscrow DEF Escrow, Ride
    <2>3. FinalFare(rides[x], now) \in Nat /\ FinalFare(rides[x], now) <= Escrow(rides[x])
      BY <2>2
    <2>. QED  BY <1>0, <2>1, <2>3, CompletionSettles
  <1>4. ASSUME NEW a \in Account, NEW x \in RideId, cancelRide(a, x)
        PROVE  RE!EscrowNext
    <2>. DEFINE r == SetStatus(rides[x], "Cancelled")
    <2>1. rides' = [rides EXCEPT ![x] = r] /\ rides[x].status \in {"Started", "Accepted"}
      BY <1>4 DEF cancelRide, MayCancel, Cancellable
    <2>2. /\ r.user = rides[x].user /\ r.driver = rides[x].driver /\ r.fare = rides[x].fare
          /\ r.ceilingBond = rides[x].ceilingBond /\ r.finalFare = rides[x].finalFare
          /\ r.status = "Cancelled"
      BY <1>0, SetStatusFacts DEF RideStatus
    <2>. HIDE DEF r
    <2>3. PhaseOf(r) = "Refunded" /\ PhaseOf(rides[x]) = "Open"
      BY <2>1, <2>2, Phases
    <2>4. /\ PhaseSeen' = [PhaseSeen EXCEPT ![x] = PhaseOf(r)]
          /\ PhaseSeen[x] = PhaseOf(rides[x])
          /\ UNCHANGED <<RiderSeen, DriverSeen, AmountSeen, ShareSeen>>
      BY <1>0, <2>1, <2>2, StatusSeen
    <2>5. PhaseSeen' = [PhaseSeen EXCEPT ![x] = "Refunded"] /\ PhaseSeen[x] = "Open"
      BY <2>3, <2>4
    <2>. QED  BY <2>4, <2>5, RefundStep
  <1>5. ASSUME NEW a \in Account, NEW x \in RideId, disputeRide(a, x)
        PROVE  RE!EscrowNext
    <2>. DEFINE r == SetStatus(rides[x], "Disputed")
    <2>1. rides' = [rides EXCEPT ![x] = r] /\ rides[x].status = "Started"
      BY <1>5 DEF disputeRide
    <2>2. /\ r.user = rides[x].user /\ r.driver = rides[x].driver /\ r.fare = rides[x].fare
          /\ r.ceilingBond = rides[x].ceilingBond /\ r.finalFare = rides[x].finalFare
          /\ r.status = "Disputed"
      BY <1>0, SetStatusFacts DEF RideStatus
    <2>. HIDE DEF r
    <2>3. PhaseOf(r) = "Frozen" /\ PhaseOf(rides[x]) = "Open"
      BY <2>1, <2>2, Phases
    <2>4. /\ PhaseSeen' = [PhaseSeen EXCEPT ![x] = PhaseOf(r)]
          /\ PhaseSeen[x] = PhaseOf(rides[x])
          /\ UNCHANGED <<RiderSeen, DriverSeen, AmountSeen, ShareSeen>>
      BY <1>0, <2>1, <2>2, StatusSeen
    <2>5. PhaseSeen' = [PhaseSeen EXCEPT ![x] = "Frozen"] /\ PhaseSeen[x] = "Open"
      BY <2>3, <2>4
    <2>. QED  BY <2>4, <2>5, FreezeStep
  <1>6. ASSUME NEW a \in Account, NEW x \in RideId, NEW payout \in Payout,
               resolveDispute(a, x, payout)
        PROVE  RE!EscrowNext
    <2>1. /\ rides' = [rides EXCEPT ![x] = Complete(rides[x], payout, now)]
          /\ rides[x].status = "Disputed" /\ payout <= Escrow(rides[x])
      BY <1>6 DEF resolveDispute, MayResolve
    <2>. QED  BY <1>0, <2>1, CompletionSettles
  <1>7. ASSUME NEW a \in Account, NEW x \in RideId, NEW stars \in Stars, rateDriver(a, x, stars)
        PROVE  UNCHANGED RE!escrowVars
    <2>. DEFINE r == SetRating(rides[x], stars)
    <2>1. rides' = [rides EXCEPT ![x] = r]
      BY <1>7 DEF rateDriver
    <2>2. /\ r.user = rides[x].user /\ r.driver = rides[x].driver /\ r.fare = rides[x].fare
          /\ r.ceilingBond = rides[x].ceilingBond /\ r.finalFare = rides[x].finalFare
          /\ r.status = rides[x].status
      BY <1>0, SetRatingFacts
    <2>. HIDE DEF r
    <2>3. PhaseOf(r) = PhaseOf(rides[x])
      BY <2>2 DEF PhaseOf
    <2>. QED  BY <1>0, <2>1, <2>2, <2>3, StatusSeen, StutterSeen
  <1>. QED  BY <1>1, <1>2, <1>3, <1>4, <1>5, <1>6, <1>7, RideWrites, AcceptOpens

\* The contract keeps what RideEscrow promises, callbacks into it included: an
\* escrow opens once and closes once, a driver serves one at a time, and what
\* the driver is paid was in it.
THEOREM CarpoolImplementsEscrow == Spec => ImplementsEscrow
  <1>1. Init => RE!EscrowInit
    <2>. SUFFICES ASSUME Init PROVE RE!EscrowInit
      OBVIOUS
    <2>1. \A id \in RideId : /\ rides[id].user = NoAccount /\ rides[id].driver = NoAccount
                             /\ Escrow(rides[id]) = 0 /\ rides[id].finalFare = 0
                             /\ PhaseOf(rides[id]) = "None"
      BY Phases DEF Init, NoRide, Escrow
    <2>. QED  BY <2>1 DEF RE!EscrowInit
  <1>2. RidesSound /\ [Next]_vars => [RE!EscrowNext]_(RE!escrowVars)
    BY NextEscrow
  <1>. QED  BY <1>1, <1>2, RidesAlwaysSound, PTL DEF Spec, ImplementsEscrow, RE!EscrowSpec

(***************************************************************************)
(* The books: balance = Collateral + Owed + Escrowed is inductive together *)
(* with the type invariants.  A step moves at most one account's deposit, two *)
(* pull balances and one ride, and the lemmas below say what that does to  *)
(* each of the three sums.                                                 *)
(***************************************************************************)

\* A ride that is stored has a rider and a driver; the next one is blank.
LEMMA StoredRides ==
    ASSUME TypeOK, RidesAllocated
    PROVE  /\ \A id \in RideId : rides[id].status # "Requested" =>
                 rides[id].user \in Account /\ rides[id].driver \in Account
           /\ nextRideId \in RideId => rides[nextRideId] = NoRide
  <1>1. ASSUME NEW id \in RideId, rides[id].status # "Requested"
        PROVE  rides[id].user \in Account /\ rides[id].driver \in Account
    <2>1. rides[id] # NoRide
      BY <1>1 DEF NoRide
    <2>2. id \in Nat /\ nextRideId \in Nat
      BY DEF TypeOK, RideId
    <2>. QED  BY <2>1, <2>2 DEF RidesAllocated
  <1>2. nextRideId \in Nat
    BY DEF TypeOK
  <1>3. nextRideId >= nextRideId
    BY <1>2
  <1>. QED  BY <1>1, <1>3 DEF RidesAllocated

\* What the totals add up.
Deposits == [a \in Account |-> drivers[a].amtDeposited]
Stakes   == [id \in RideId |-> Held(rides[id])]

\* There are finitely many accounts and rides.
LEMMA FinitelyMany == IsFiniteSet(Account) /\ IsFiniteSet(RideId)
  <1>1. IsFiniteSet(RideId)
    BY FS_Interval DEF RideId
  <1>. QED  BY <1>1, MoneyAssumption

\* The totals as sums over them.
Totals ==
    /\ Collateral = SumFunctionOnSet(Deposits, Account)
    /\ Owed = SumFunctionOnSet(pendingWithdrawals, Account)
    /\ Escrowed = SumFunctionOnSet(Stakes, RideId)
    /\ \A a \in Account : Deposits[a] = drivers[a].amtDeposited /\ Deposits[a] \in Nat
    /\ \A a \in Account : pendingWithdrawals[a] \in Nat
    /\ \A id \in RideId : Stakes[id] = Held(rides[id]) /\ Stakes[id] \in Nat

\* They are the sums of natural numbers.
LEMMA TotalsAre == TypeOK => Totals
  <1>. SUFFICES ASSUME TypeOK PROVE Totals
    OBVIOUS
  <1>. USE DEF TypeOK
  <1>1. Collateral = SumFunctionOnSet(Deposits, Account)
    BY DEF Collateral, SumFunction, Deposits
  <1>2. Owed = SumFunctionOnSet(pendingWithdrawals, Account)
    BY DEF Owed, SumFunction
  <1>3. Escrowed = SumFunctionOnSet(Stakes, RideId)
    BY DEF Escrowed, SumFunction, Stakes
  <1>4. \A a \in Account : Deposits[a] = drivers[a].amtDeposited /\ Deposits[a] \in Nat
    BY DEF Deposits, Driver
  <1>5. \A id \in RideId : Stakes[id] = Held(rides[id]) /\ Stakes[id] \in Nat
    BY DEF Stakes, Held, Escrow, Ride
  <1>. QED  BY <1>1, <1>2, <1>3, <1>4, <1>5 DEF Totals

\* So they are before a step and after it.
LEMMA TotalsStep == TypeOK /\ TypeOK' => Totals /\ Totals'
  BY TotalsAre, PTL

\* Each total is a natural number.
TotalsTyped == Collateral \in Nat /\ Owed \in Nat /\ Escrowed \in Nat

\* The totals are that where the variables have their types.
LEMMA TotalsType == TypeOK => TotalsTyped
  <1>. SUFFICES ASSUME TypeOK PROVE TotalsTyped
    OBVIOUS
  <1>. QED  BY TotalsAre, FinitelyMany, SumType DEF Totals, TotalsTyped

\* So they are before a step and after it.
LEMMA TotalsTypeStep == TypeOK /\ TypeOK' => TotalsTyped /\ TotalsTyped'
  BY TotalsType, PTL

\* The collateral follows the deposit of the one driver whose deposit changes.
LEMMA CollateralMoves ==
    ASSUME TypeOK, TypeOK', NEW a \in Account,
           \A b \in Account \ {a} : drivers'[b].amtDeposited = drivers[b].amtDeposited
    PROVE  Collateral' + drivers[a].amtDeposited = Collateral + drivers'[a].amtDeposited
  <1>1. Totals /\ Totals'
    BY TotalsStep
  <1>. QED  BY <1>1, FinitelyMany, SumChange DEF Totals

\* Where no deposit changes it stays.
LEMMA CollateralStays ==
    ASSUME TypeOK, TypeOK',
           \A b \in Account : drivers'[b].amtDeposited = drivers[b].amtDeposited
    PROVE  Collateral' = Collateral
  <1>1. Totals /\ Totals'
    BY TotalsStep
  <1>. QED  BY <1>1, FinitelyMany, SumSame DEF Totals

\* The escrow follows the one ride that changes.
LEMMA EscrowMoves ==
    ASSUME TypeOK, TypeOK', NEW id \in RideId, OthersSame(id)
    PROVE  Escrowed' + Held(rides[id]) = Escrowed + Held(rides'[id])
  <1>1. Totals /\ Totals'
    BY TotalsStep
  <1>2. \A x \in RideId \ {id} : Held(rides'[x]) = Held(rides[x])
    BY DEF OthersSame
  <1>. QED  BY <1>1, <1>2, FinitelyMany, SumChange DEF Totals

\* Where no ride's escrow changes it stays.
LEMMA EscrowStays ==
    ASSUME TypeOK, TypeOK', \A id \in RideId : Held(rides'[id]) = Held(rides[id])
    PROVE  Escrowed' = Escrowed
  <1>1. Totals /\ Totals'
    BY TotalsStep
  <1>. QED  BY <1>1, FinitelyMany, SumSame DEF Totals

\* x is credited to a and y to b, as Credit writes it.
Credited(a, x, b, y) ==
    pendingWithdrawals' =
        [c \in Account |-> pendingWithdrawals[c] + (IF c = a THEN x ELSE 0)
                                                 + (IF c = b THEN y ELSE 0)]

\* What is credited to two accounts, which may be one, is owed.
LEMMA OwedGrows ==
    ASSUME TypeOK, NEW a \in Account, NEW b \in Account, NEW x \in Nat, NEW y \in Nat,
           Credited(a, x, b, y)
    PROVE  Owed' = Owed + x + y
  <1>. DEFINE first == [c \in Account |-> pendingWithdrawals[c] + (IF c = a THEN x ELSE 0)]
              both  == [c \in Account |-> first[c] + (IF c = b THEN y ELSE 0)]
              total(f) == SumFunctionOnSet(f, Account)
  <1>1. \A c \in Account : pendingWithdrawals[c] \in Nat
    BY DEF TypeOK
  <1>2. /\ \A c \in Account : first[c] \in Nat /\ both[c] \in Nat
        /\ first[a] = pendingWithdrawals[a] + x
        /\ \A c \in Account \ {a} : first[c] = pendingWithdrawals[c]
        /\ both[b] = first[b] + y
        /\ \A c \in Account \ {b} : both[c] = first[c]
    BY <1>1
  <1>3. pendingWithdrawals' = both
    BY DEF Credited
  <1>4. Owed = total(pendingWithdrawals) /\ Owed' = total(both)
    BY <1>3 DEF Owed, SumFunction, TypeOK
  <1>. HIDE DEF first, both
  <1>5. total(first) + pendingWithdrawals[a] = total(pendingWithdrawals) + first[a]
    BY <1>1, <1>2, FinitelyMany, SumChange
  <1>6. total(both) + first[b] = total(first) + both[b]
    BY <1>2, FinitelyMany, SumChange
  <1>7. total(pendingWithdrawals) \in Nat /\ total(first) \in Nat /\ total(both) \in Nat
    BY <1>1, <1>2, FinitelyMany, SumType
  <1>. HIDE DEF total
  <1>. QED  BY <1>1, <1>2, <1>4, <1>5, <1>6, <1>7

\* Paying an account off takes what it was owed away.
LEMMA OwedCleared ==
    ASSUME TypeOK, NEW a \in Account,
           pendingWithdrawals' = [pendingWithdrawals EXCEPT ![a] = 0]
    PROVE  Owed' + pendingWithdrawals[a] = Owed
  <1>. DEFINE cleared == [pendingWithdrawals EXCEPT ![a] = 0]
              total(f) == SumFunctionOnSet(f, Account)
  <1>1. \A c \in Account : pendingWithdrawals[c] \in Nat
    BY DEF TypeOK
  <1>2. /\ \A c \in Account : cleared[c] \in Nat
        /\ cleared[a] = 0
        /\ \A c \in Account \ {a} : cleared[c] = pendingWithdrawals[c]
    BY <1>1 DEF TypeOK
  <1>3. pendingWithdrawals' = cleared
    OBVIOUS
  <1>4. Owed = total(pendingWithdrawals) /\ Owed' = total(cleared)
    BY <1>3 DEF Owed, SumFunction, TypeOK
  <1>. HIDE DEF cleared
  <1>5. total(cleared) + pendingWithdrawals[a] = total(pendingWithdrawals) + cleared[a]
    BY <1>1, <1>2, FinitelyMany, SumChange
  <1>6. total(pendingWithdrawals) \in Nat /\ total(cleared) \in Nat
    BY <1>1, <1>2, FinitelyMany, SumType
  <1>. HIDE DEF total
  <1>. QED  BY <1>1, <1>2, <1>4, <1>5, <1>6

\* Only a registered driver has a deposit.
DepositsRegistered == \A d \in Account : ~ Registered(d) => drivers[d].amtDeposited = 0

\* The contract's money: it is what it owes, and no more than there is.
Balanced == DepositsRegistered /\ Solvent /\ balance <= MaxBalance
MoneySound == RidesSound /\ Balanced

\* The contract starts with nothing.
LEMMA InitMoneySound == Init => MoneySound
  <1>. SUFFICES ASSUME Init PROVE MoneySound
    OBVIOUS
  <1>1. RidesSound /\ TypeOK
    BY InitRidesSound DEF RidesSound
  <1>2. DepositsRegistered
    BY DEF Init, DepositsRegistered, NoDriver
  <1>3. /\ \A a \in Account : Deposits[a] = 0 /\ pendingWithdrawals[a] = 0
        /\ \A id \in RideId : Stakes[id] = 0
    BY DEF Init, Deposits, Stakes, Held, Live, NoRide, NoDriver
  <1>4. Collateral = 0 /\ Owed = 0 /\ Escrowed = 0
    BY <1>1, <1>3, TotalsAre, FinitelyMany, SumOfZeros DEF Totals
  <1>. QED  BY <1>1, <1>2, <1>4 DEF MoneySound, Balanced, Solvent, Init

\* A driver's record changes as little as its deposit.
LEMMA DepositKept ==
    ASSUME TypeOK, TypeOK', DepositsRegistered, NEW d, NEW dr,
           drivers' = [drivers EXCEPT ![d] = dr],
           d \in Account => /\ dr.amtDeposited = drivers[d].amtDeposited
                            /\ dr.driverAddress = drivers[d].driverAddress
    PROVE  Collateral' = Collateral /\ DepositsRegistered'
  <1>1. drivers \in [Account -> Driver]
    BY DEF TypeOK
  <1>2. \A b \in Account : /\ drivers'[b].amtDeposited = drivers[b].amtDeposited
                           /\ drivers'[b].driverAddress = drivers[b].driverAddress
    BY <1>1
  <1>. QED  BY <1>2, CollateralStays DEF DepositsRegistered, Registered

\* A deposit changes: so does the collateral.
LEMMA DepositChanged ==
    ASSUME TypeOK, TypeOK', DepositsRegistered, NEW a \in Account, NEW n \in Nat,
           NEW s \in DriverStatus, Registered(a),
           drivers' = [drivers EXCEPT ![a] = Staked(drivers[a], n, s)]
    PROVE  Collateral' + drivers[a].amtDeposited = Collateral + n /\ DepositsRegistered'
  <1>1. drivers \in [Account -> Driver]
    BY DEF TypeOK
  <1>2. /\ Staked(drivers[a], n, s).amtDeposited = n
        /\ Staked(drivers[a], n, s).driverAddress = drivers[a].driverAddress
    BY <1>1, StakedFacts
  <1>3. /\ drivers'[a].amtDeposited = n
        /\ \A b \in Account \ {a} : drivers'[b].amtDeposited = drivers[b].amtDeposited
        /\ \A b \in Account : drivers'[b].driverAddress = drivers[b].driverAddress
    BY <1>1, <1>2
  <1>4. Collateral' + drivers[a].amtDeposited = Collateral + n
    BY <1>3, CollateralMoves
  <1>5. DepositsRegistered'
    BY <1>3 DEF DepositsRegistered, Registered
  <1>. QED  BY <1>4, <1>5

\* A ride that closes turns what was held of it into what is owed.
LEMMA SettlementBalances ==
    ASSUME RidesSound, DepositsRegistered, TypeOK', NEW id \in RideId, NEW r,
           NEW x \in 0..Escrow(rides[id]), Live(rides[id]), r.status \in {"Completed", "Cancelled"},
           rides' = [rides EXCEPT ![id] = r],
           PaysOut(rides[id], x),
           drivers' = [drivers EXCEPT ![rides[id].driver] = MakeFree(drivers[rides[id].driver])]
    PROVE  /\ Collateral' + Owed' + Escrowed' = Collateral + Owed + Escrowed
           /\ DepositsRegistered'
  <1>0. TypeOK /\ RidesAllocated /\ drivers \in [Account -> Driver] /\ rides \in [RideId -> Ride]
    BY DEF RidesSound, TypeOK
  <1>1. rides[id].user \in Account /\ rides[id].driver \in Account
    BY <1>0, StoredRides DEF Live
  <1>2. Escrow(rides[id]) \in Nat /\ x \in Nat /\ Escrow(rides[id]) - x \in Nat
    BY <1>0 DEF Escrow, Ride
  <1>3. Owed' = Owed + Escrow(rides[id])
    <2>1. Credited(rides[id].driver, x, rides[id].user, Escrow(rides[id]) - x)
      BY DEF PaysOut, Credited
    <2>2. Owed' = Owed + x + (Escrow(rides[id]) - x)
      BY <1>0, <1>1, <1>2, <2>1, OwedGrows
    <2>. QED  BY <1>0, <1>2, <2>2, TotalsType DEF TotalsTyped
  <1>4. Escrowed' + Escrow(rides[id]) = Escrowed
    <2>1. OthersSame(id) /\ rides'[id] = r
      BY <1>0 DEF OthersSame
    <2>2. Held(rides[id]) = Escrow(rides[id]) /\ Held(rides'[id]) = 0
      BY <2>1 DEF Held, Live
    <2>3. Escrowed' + Held(rides[id]) = Escrowed + Held(rides'[id])
      BY <1>0, <2>1, EscrowMoves
    <2>. QED  BY <1>0, <2>2, <2>3, TotalsTypeStep DEF TotalsTyped
  <1>5. Collateral' = Collateral /\ DepositsRegistered'
    <2>1. /\ MakeFree(drivers[rides[id].driver]).amtDeposited = drivers[rides[id].driver].amtDeposited
          /\ MakeFree(drivers[rides[id].driver]).driverAddress = drivers[rides[id].driver].driverAddress
      BY <1>0, <1>1, MakeFreeFacts
    <2>. QED  BY <1>0, <2>1, DepositKept
  <1>. QED  BY <1>0, <1>2, <1>3, <1>4, <1>5, TotalsTypeStep DEF TotalsTyped

\* Every step keeps the books balanced.
LEMMA NextBalanced == MoneySound /\ [Next]_vars => Balanced'
  <1>. SUFFICES ASSUME MoneySound, [Next]_vars
                PROVE  Balanced'
    OBVIOUS
  <1>0. /\ RidesSound /\ TypeOK /\ DriversSound /\ RidesAllocated /\ DepositsRegistered
        /\ drivers \in [Account -> Driver] /\ rides \in [RideId -> Ride] /\ now \in Nat
        /\ pendingWithdrawals \in [Account -> Nat]
        /\ Eta \subseteq Nat /\ Payout \subseteq Nat /\ Stars \subseteq Nat
    BY DEF MoneySound, Balanced, RidesSound, TypeOK
  <1>1. RidesSound' /\ TypeOK'
    <2>1. RidesSound'
      BY <1>0, NextRidesSound
    <2>. QED  BY <2>1 DEF RidesSound
  <1>2. /\ balance = Collateral + Owed + Escrowed /\ balance <= MaxBalance
        /\ balance \in Nat /\ balance' \in Nat
        /\ Collateral \in Nat /\ Owed \in Nat /\ Escrowed \in Nat
        /\ Collateral' \in Nat /\ Owed' \in Nat /\ Escrowed' \in Nat
    <2>1. balance = Collateral + Owed + Escrowed /\ balance <= MaxBalance
      BY DEF MoneySound, Balanced, Solvent
    <2>2. balance \in Nat /\ balance' \in Nat
      BY <1>0, <1>1 DEF TypeOK
    <2>3. TotalsTyped /\ TotalsTyped'
      BY <1>0, <1>1, TotalsTypeStep
    <2>. QED  BY <2>1, <2>2, <2>3 DEF TotalsTyped
  <1>3. ASSUME balance' <= MaxBalance, DepositsRegistered',
               balance' = Collateral' + Owed' + Escrowed'
        PROVE  Balanced'
    BY <1>3 DEF Balanced, Solvent
  <1>4. ASSUME rides' = rides
        PROVE  Escrowed' = Escrowed
    <2>1. \A id \in RideId : Held(rides'[id]) = Held(rides[id])
      BY <1>4
    <2>. QED  BY <1>0, <1>1, <2>1, EscrowStays
  <1>5. ASSUME drivers' = drivers
        PROVE  Collateral' = Collateral /\ DepositsRegistered'
    <2>1. Collateral' = Collateral
      BY <1>0, <1>1, <1>5, CollateralStays
    <2>. QED  BY <1>0, <1>5, <2>1 DEF DepositsRegistered, Registered
  <1>6. ASSUME pendingWithdrawals' = pendingWithdrawals
        PROVE  Owed' = Owed
    BY <1>6 DEF Owed
  <1>7. CASE UNCHANGED <<drivers, rides, pendingWithdrawals, balance>>
    BY <1>2, <1>3, <1>4, <1>5, <1>6, <1>7
  <1>8. ASSUME NEW a \in Account, NEW d \in DriverCandidate, NEW id \in IdHash,
               registerDriver(a, d, id)
        PROVE  Balanced'
    <2>1. /\ drivers' = [drivers EXCEPT ![d] = NewDriver(d)] /\ ~ Registered(d)
          /\ UNCHANGED <<rides, pendingWithdrawals, balance>>
      BY <1>8 DEF registerDriver, money
    <2>2. NewDriver(d).amtDeposited = 0 /\ drivers[d].amtDeposited = 0 /\ d \in Account
      BY <1>0, <2>1 DEF NewDriver, NoDriver, DepositsRegistered
    <2>3. /\ \A b \in Account : drivers'[b].amtDeposited = drivers[b].amtDeposited
          /\ \A b \in Account \ {d} : drivers'[b] = drivers[b]
          /\ drivers'[d].amtDeposited = 0
      BY <1>0, <2>1, <2>2
    <2>4. Collateral' = Collateral
      BY <1>0, <1>1, <2>3, CollateralStays
    <2>5. DepositsRegistered'
      BY <1>0, <2>3 DEF DepositsRegistered, Registered
    <2>. QED  BY <1>2, <1>3, <1>4, <1>6, <2>1, <2>4, <2>5
  <1>9. ASSUME NEW a \in Account, NEW v \in Nat, NEW s \in DriverStatus, Registered(a),
               drivers' = [drivers EXCEPT ![a] = Staked(drivers[a], drivers[a].amtDeposited + v, s)],
               Receive(v), UNCHANGED <<rides, pendingWithdrawals>>
        PROVE  Balanced'
    <2>1. drivers[a].amtDeposited \in Nat /\ drivers[a].amtDeposited + v \in Nat
      BY <1>0 DEF Driver
    <2>2. Collateral' + drivers[a].amtDeposited = Collateral + (drivers[a].amtDeposited + v)
          /\ DepositsRegistered'
      BY <1>0, <1>1, <1>9, <2>1, DepositChanged
    <2>3. balance' = balance + v /\ balance' <= MaxBalance
      BY <1>9 DEF Receive
    <2>4. Escrowed' = Escrowed /\ Owed' = Owed
      BY <1>4, <1>6, <1>9
    <2>5. Collateral' = Collateral + v
      BY ONLY <1>2, <2>1, <2>2, v \in Nat
    <2>6. balance' = Collateral' + Owed' + Escrowed'
      BY ONLY <1>2, <2>3, <2>4, <2>5, v \in Nat
    <2>. QED  BY <1>3, <2>2, <2>3, <2>6
  <1>10. ASSUME NEW a \in Account, NEW v \in Value, depositDriverCollateral(a, v)
         PROVE  Balanced'
    <2>. DEFINE s == IF drivers[a].status = "Verified" /\ drivers[a].amtDeposited + v >= DRIVER_MIN_DEPOSIT
                     THEN "Active" ELSE drivers[a].status
    <2>1. s \in DriverStatus /\ v \in Nat
      BY <1>0 DEF Driver, DriverStatus
    <2>2. /\ drivers' = [drivers EXCEPT ![a] = Staked(drivers[a], drivers[a].amtDeposited + v, s)]
          /\ Registered(a) /\ Receive(v) /\ UNCHANGED <<rides, pendingWithdrawals>>
      BY <1>10 DEF depositDriverCollateral
    <2>. HIDE DEF s
    <2>. QED  BY <1>9, <2>1, <2>2
  <1>11. ASSUME NEW a \in Account, NEW v \in Value, reactivateDriver(a, v)
         PROVE  Balanced'
    <2>1. /\ drivers' = [drivers EXCEPT ![a] = Staked(drivers[a], drivers[a].amtDeposited + v, "Active")]
          /\ drivers[a].status = "Suspended" /\ Receive(v) /\ UNCHANGED <<rides, pendingWithdrawals>>
      BY <1>11 DEF reactivateDriver
    <2>2. Registered(a) /\ "Active" \in DriverStatus /\ v \in Nat
      BY <1>0, <2>1 DEF DriversSound, DriverStatus
    <2>. QED  BY <1>9, <2>1, <2>2
  <1>12. ASSUME NEW a \in Account, NEW v \in Value, withdrawCollateral(a, v)
         PROVE  Balanced'
    <2>. DEFINE n == drivers[a].amtDeposited - v
                s == IF drivers[a].status = "Active" /\ n < DRIVER_MIN_DEPOSIT
                     THEN "Suspended" ELSE drivers[a].status
    <2>1. n \in Nat /\ s \in DriverStatus /\ v \in Nat /\ drivers[a].amtDeposited \in Nat
      BY <1>0, <1>12 DEF withdrawCollateral, Driver, DriverStatus
    <2>2. /\ drivers' = [drivers EXCEPT ![a] = Staked(drivers[a], n, s)]
          /\ Registered(a) /\ UNCHANGED <<rides, balance>> /\ Credited(a, v, a, 0)
      BY <1>12 DEF withdrawCollateral, MayUnlock, Credit, Credited
    <2>3. Collateral' + drivers[a].amtDeposited = Collateral + n /\ DepositsRegistered'
      <3>. HIDE DEF n, s
      <3>. QED  BY <1>0, <1>1, <2>1, <2>2, DepositChanged
    <2>4. Owed' = Owed + v
      <3>1. Owed' = Owed + v + 0
        BY <1>0, <2>1, <2>2, OwedGrows
      <3>. QED  BY ONLY <1>2, <2>1, <3>1
    <2>5. n + v = drivers[a].amtDeposited
      BY <2>1
    <2>. HIDE DEF n, s
    <2>6. Escrowed' = Escrowed /\ balance' = balance
      BY <1>4, <2>2
    <2>7. Collateral' + v = Collateral
      BY ONLY <1>2, <2>1, <2>3, <2>5
    <2>8. balance' = Collateral' + Owed' + Escrowed'
      <3>1. balance = (Collateral' + v) + Owed + Escrowed
        BY <1>2, <2>1, <2>7
      <3>2. v \in Nat
        BY <2>1
      <3>3. Collateral' \in Nat
        BY <1>2
      <3>4. Owed \in Nat
        BY <1>2
      <3>5. Escrowed \in Nat
        BY <1>2
      <3>6. balance = Collateral' + (Owed + v) + Escrowed
        BY ONLY <3>1, <3>2, <3>3, <3>4, <3>5
      <3>. QED  BY <2>4, <2>6, <3>6
    <2>. QED  BY <1>2, <1>3, <2>3, <2>6, <2>8
  <1>13. ASSUME NEW a \in Account, Withdraw(a)
         PROVE  Balanced'
    <2>1. /\ pendingWithdrawals' = [pendingWithdrawals EXCEPT ![a] = 0]
          /\ balance' = balance - pendingWithdrawals[a] /\ UNCHANGED <<drivers, rides>>
      BY <1>13 DEF Withdraw
    <2>2. Owed' + pendingWithdrawals[a] = Owed
      BY <1>0, <2>1, OwedCleared
    <2>3. pendingWithdrawals[a] \in Nat
      BY <1>0
    <2>. QED  BY <1>2, <1>3, <1>4, <1>5, <2>1, <2>2, <2>3
  <1>14. ASSUME NEW a \in Account, NEW d \in DriverCandidate, NEW fare \in Fare,
                NEW ceiling \in BOOLEAN, acceptRide(a, d, fare, ceiling)
         PROVE  Balanced'
    <2>. DEFINE bond == Bond(fare, ceiling)
                r == Accept(rides[nextRideId], a, d, fare, bond)
    <2>1. bond \in Nat /\ fare \in Nat /\ d \in Account
      BY BondType
    <2>2. nextRideId \in RideId /\ rides[nextRideId] \in Ride
      BY <1>0, <1>14 DEF acceptRide, RideId, TypeOK
    <2>3. /\ rides' = [rides EXCEPT ![nextRideId] = r]
          /\ drivers' = [drivers EXCEPT ![d] = MakeBusy(drivers[d])]
          /\ balance' = balance + (fare + bond) /\ balance' <= MaxBalance
          /\ pendingWithdrawals' = pendingWithdrawals
      BY <1>14 DEF acceptRide, Receive, Due
    <2>. HIDE DEF bond
    <2>4. r.status = "Accepted" /\ r.fare = fare /\ r.ceilingBond = bond
      BY <2>1, <2>2 DEF Accept, Ride
    <2>5. Held(rides[nextRideId]) = 0
      BY <1>0, <2>2, StoredRides DEF NoRide, Held, Live
    <2>. HIDE DEF r
    <2>6. rides'[nextRideId] = r /\ OthersSame(nextRideId)
      BY <1>0, <2>2, <2>3 DEF OthersSame
    <2>7. Held(r) = fare + bond
      BY <2>4 DEF Held, Live, Escrow
    <2>8. Escrowed' = Escrowed + (fare + bond)
      <3>1. Escrowed' + Held(rides[nextRideId]) = Escrowed + Held(rides'[nextRideId])
        BY <1>0, <1>1, <2>2, <2>6, EscrowMoves
      <3>2. Escrowed' + 0 = Escrowed + (fare + bond)
        BY <2>5, <2>6, <2>7, <3>1
      <3>3. Escrowed \in Nat
        BY <1>2
      <3>4. Escrowed' \in Nat
        BY <1>2
      <3>5. fare + bond \in Nat
        BY <2>1
      <3>. QED  BY ONLY <3>2, <3>3, <3>4, <3>5
    <2>9. Collateral' = Collateral /\ DepositsRegistered'
      <3>1. /\ MakeBusy(drivers[d]).amtDeposited = drivers[d].amtDeposited
            /\ MakeBusy(drivers[d]).driverAddress = drivers[d].driverAddress
        BY <1>0, <2>1, MakeBusyFacts
      <3>. QED  BY <1>0, <1>1, <2>3, <3>1, DepositKept
    <2>10. Owed' = Owed
      BY <1>6, <2>3
    <2>11. balance' = Collateral' + Owed' + Escrowed'
      <3>1. balance' = balance + (fare + bond) /\ Escrowed' = Escrowed + (fare + bond)
        BY ONLY <1>2, <2>1, <2>3, <2>8
      <3>2. Collateral' = Collateral /\ Owed' = Owed
        BY <2>9, <2>10
      <3>. QED  BY ONLY <1>2, <2>1, <3>1, <3>2
    <2>. QED  BY <1>3, <2>3, <2>9, <2>11
  <1>15. ASSUME NEW id \in RideId, NEW r \in Ride, rides' = [rides EXCEPT ![id] = r],
                r.fare = rides[id].fare, r.ceilingBond = rides[id].ceilingBond,
                Live(r) <=> Live(rides[id])
         PROVE  Escrowed' = Escrowed
    <2>1. Held(r) = Held(rides[id])
      BY <1>15 DEF Held, Escrow
    <2>2. \A x \in RideId : Held(rides'[x]) = Held(rides[x])
      BY <1>0, <1>15, <2>1
    <2>. QED  BY <1>0, <1>1, <2>2, EscrowStays
  <1>16. ASSUME NEW a \in Account, NEW id \in RideId, NEW eta \in Eta, startRide(a, id, eta)
         PROVE  Balanced'
    <2>. DEFINE r == Start(rides[id], now, eta)
    <2>1. /\ r \in Ride /\ r.status = "Started"
          /\ r.fare = rides[id].fare /\ r.ceilingBond = rides[id].ceilingBond
      BY ONLY <1>0, id \in RideId, eta \in Eta, StartFacts
    <2>2. /\ rides' = [rides EXCEPT ![id] = r] /\ rides[id].status = "Accepted"
          /\ UNCHANGED <<drivers, pendingWithdrawals, balance>>
      BY <1>16 DEF startRide, money
    <2>. HIDE DEF r
    <2>3. Escrowed' = Escrowed
      <3>1. Live(r) <=> Live(rides[id])
        BY <2>1, <2>2 DEF Live
      <3>. QED  BY <1>15, <2>1, <2>2, <3>1
    <2>. QED  BY <1>2, <1>3, <1>5, <1>6, <2>2, <2>3
  <1>17. ASSUME NEW a \in Account, NEW id \in RideId, disputeRide(a, id)
         PROVE  Balanced'
    <2>. DEFINE r == SetStatus(rides[id], "Disputed")
    <2>1. /\ r \in Ride /\ r.status = "Disputed"
          /\ r.fare = rides[id].fare /\ r.ceilingBond = rides[id].ceilingBond
      BY <1>0, SetStatusFacts DEF RideStatus
    <2>2. /\ rides' = [rides EXCEPT ![id] = r] /\ rides[id].status = "Started"
          /\ UNCHANGED <<drivers, pendingWithdrawals, balance>>
      BY <1>17 DEF disputeRide, money
    <2>. HIDE DEF r
    <2>3. Escrowed' = Escrowed
      <3>1. Live(r) <=> Live(rides[id])
        BY <2>1, <2>2 DEF Live
      <3>. QED  BY <1>15, <2>1, <2>2, <3>1
    <2>. QED  BY <1>2, <1>3, <1>5, <1>6, <2>2, <2>3
  <1>18. ASSUME NEW a \in Account, NEW id \in RideId, NEW stars \in Stars,
                rateDriver(a, id, stars)
         PROVE  Balanced'
    <2>. DEFINE r == SetRating(rides[id], stars)
                d == rides[id].driver
    <2>1. /\ r \in Ride /\ r.status = rides[id].status
          /\ r.fare = rides[id].fare /\ r.ceilingBond = rides[id].ceilingBond
      BY <1>0, SetRatingFacts
    <2>2. /\ rides' = [rides EXCEPT ![id] = r]
          /\ drivers' = [drivers EXCEPT ![d] = AddRating(drivers[d], stars)]
          /\ UNCHANGED <<pendingWithdrawals, balance>>
      BY <1>18 DEF rateDriver, money
    <2>3. d \in Account => /\ AddRating(drivers[d], stars).amtDeposited = drivers[d].amtDeposited
                           /\ AddRating(drivers[d], stars).driverAddress = drivers[d].driverAddress
      BY <1>0, AddRatingFacts
    <2>. HIDE DEF r
    <2>4. Escrowed' = Escrowed
      BY <1>15, <2>1, <2>2 DEF Live
    <2>5. Collateral' = Collateral /\ DepositsRegistered'
      BY <1>0, <1>1, <2>2, <2>3, DepositKept
    <2>. QED  BY <1>2, <1>3, <1>6, <2>2, <2>4, <2>5
  <1>19. ASSUME NEW id \in RideId, NEW r, NEW x \in 0..Escrow(rides[id]),
                Live(rides[id]), r.status \in {"Completed", "Cancelled"},
                rides' = [rides EXCEPT ![id] = r],
                PaysOut(rides[id], x),
                drivers' = [drivers EXCEPT ![rides[id].driver] = MakeFree(drivers[rides[id].driver])],
                balance' = balance
         PROVE  Balanced'
    <2>1. /\ Collateral' + Owed' + Escrowed' = Collateral + Owed + Escrowed
          /\ DepositsRegistered'
      BY <1>0, <1>1, <1>19, SettlementBalances
    <2>. QED  BY <1>2, <1>3, <1>19, <2>1
  <1>20. ASSUME NEW a \in Account, NEW id \in RideId, completeRide(a, id)
         PROVE  Balanced'
    <2>. DEFINE pay == FinalFare(rides[id], now)
                r == Complete(rides[id], pay, now)
    <2>1. pay \in 0..Escrow(rides[id]) /\ Escrow(rides[id]) \in Nat
      BY <1>0, FinalFareWithinEscrow DEF Escrow, Ride
    <2>2. /\ rides' = [rides EXCEPT ![id] = r] /\ Live(rides[id]) /\ PaysOut(rides[id], pay)
          /\ drivers' = [drivers EXCEPT ![rides[id].driver] = MakeFree(drivers[rides[id].driver])]
          /\ balance' = balance
      BY <1>20 DEF completeRide, Credit, PaysOut, Live
    <2>. HIDE DEF pay
    <2>3. r.status = "Completed"
      BY <1>0, <2>1, CompleteFacts
    <2>. HIDE DEF r
    <2>. QED  BY <1>19, <2>1, <2>2, <2>3
  <1>21. ASSUME NEW a \in Account, NEW id \in RideId, cancelRide(a, id)
         PROVE  Balanced'
    <2>. DEFINE r == SetStatus(rides[id], "Cancelled")
    <2>1. Escrow(rides[id]) \in Nat /\ 0 \in 0..Escrow(rides[id])
      BY <1>0 DEF Escrow, Ride
    <2>2. /\ rides' = [rides EXCEPT ![id] = r] /\ Live(rides[id])
          /\ drivers' = [drivers EXCEPT ![rides[id].driver] = MakeFree(drivers[rides[id].driver])]
          /\ balance' = balance
      BY <1>21 DEF cancelRide, MayCancel, Cancellable, Live
    <2>3. PaysOut(rides[id], 0)
      BY <1>0, <1>21, <2>1 DEF cancelRide, Credit, PaysOut
    <2>4. r.status = "Cancelled"
      BY <1>0, SetStatusFacts DEF RideStatus
    <2>. HIDE DEF r
    <2>. QED  BY <1>19, <2>1, <2>2, <2>3, <2>4
  <1>22. ASSUME NEW a \in Account, NEW id \in RideId, NEW payout \in Payout,
                resolveDispute(a, id, payout)
         PROVE  Balanced'
    <2>. DEFINE r == Complete(rides[id], payout, now)
    <2>1. Escrow(rides[id]) \in Nat /\ payout \in Nat
      BY <1>0 DEF Escrow, Ride
    <2>2. /\ rides' = [rides EXCEPT ![id] = r] /\ Live(rides[id]) /\ PaysOut(rides[id], payout)
          /\ drivers' = [drivers EXCEPT ![rides[id].driver] = MakeFree(drivers[rides[id].driver])]
          /\ balance' = balance /\ payout <= Escrow(rides[id])
      BY <1>22 DEF resolveDispute, MayResolve, Credit, PaysOut, Live
    <2>3. r.status = "Completed"
      BY <1>0, <2>1, CompleteFacts
    <2>. HIDE DEF r
    <2>4. payout \in 0..Escrow(rides[id])
      BY <2>1, <2>2
    <2>. QED  BY <1>19, <2>2, <2>3, <2>4
  <1>23. CASE \/ \E a \in Account :
                  \/ \E new \in NewOwner : transferOwnership(a, new)
                  \/ \E new \in Backend : setBackend(a, new)
                  \/ registerUser(a)
                  \/ \E d \in DriverCandidate, fare \in Fare, ceiling \in BOOLEAN :
                        SignOffer(d, a, fare, ceiling)
              \/ WithdrawReturn
              \/ Tick
              \/ UNCHANGED vars
    BY <1>7, <1>23 DEF transferOwnership, setBackend, registerUser, SignOffer, WithdrawReturn,
                       Tick, vars, money
  <1>. QED
    BY <1>8, <1>10, <1>11, <1>12, <1>13, <1>14, <1>16, <1>17, <1>18, <1>20, <1>21, <1>22, <1>23
       DEF Next, Administer, ManageCollateral, Match, Travel

\* So they always are.
LEMMA AlwaysMoneySound == Spec => []MoneySound
  <1>1. MoneySound /\ [Next]_vars => MoneySound'
    BY NextRidesSound, NextBalanced DEF MoneySound
  <1>. QED  BY <1>1, InitMoneySound, PTL DEF Spec

\* The contract's ether is, to the wei, the collateral, the pull balances and
\* the escrow of the live rides: no deposit, settlement, fine or refund creates
\* or strands any, not even while the call of a withdrawal is running.
THEOREM AlwaysSolvent == Spec => []Solvent
  <1>1. MoneySound => Solvent
    BY DEF MoneySound, Balanced
  <1>. QED  BY <1>1, AlwaysMoneySound, PTL

(***************************************************************************)
(* The ratings: a driver's total and count are those of the rated rides it *)
(* drove.  Whoever drives is registered, so a registration, which resets the *)
(* record, finds no rated ride.                                            *)
(***************************************************************************)

\* Whoever drives is registered.
DriversRegistered ==
    \A id \in RideId : rides[id].driver \in Account => Registered(rides[id].driver)

RatingsSound == RidesSound /\ DriversRegistered /\ RatingsAddUp

\* The step rates nobody and strikes no driver from the register.
RecordsKept ==
    \A d \in Account :
        SameRating(drivers'[d], drivers[d]) /\ (Registered(d) => Registered(d)')

\* The step rates no ride, and gives no rated ride to another driver.
RatesNone ==
    \A id \in RideId :
        /\ rides'[id].rating = rides[id].rating
        /\ \/ rides'[id].driver = rides[id].driver
           \/ rides[id].rating = 0 /\ Registered(rides'[id].driver)

\* A driver's rated rides are finitely many.
LEMMA RatedRidesFinite ==
    ASSUME NEW d
    PROVE  IsFiniteSet(RatedRides(d))
  BY RidesOfFinite, FS_Subset DEF RatedRides

\* The value a rated ride adds.
LEMMA StarsOfRide == TypeOK => \A id \in RideId : StarsOf[id] = rides[id].rating /\ StarsOf[id] \in Nat
  BY DEF TypeOK, StarsOf, Ride

\* The same before a step and after it.
LEMMA StarsOfRideStep ==
    TypeOK /\ TypeOK' =>
        \A id \in RideId : /\ StarsOf[id] = rides[id].rating /\ StarsOf[id] \in Nat
                           /\ StarsOf'[id] = rides'[id].rating /\ StarsOf'[id] \in Nat
  <1>1. TypeOK' => \A id \in RideId : StarsOf'[id] = rides'[id].rating /\ StarsOf'[id] \in Nat
    BY DEF TypeOK, StarsOf, Ride
  <1>. QED  BY <1>1, StarsOfRide

\* Where nobody is rated the totals stay.
LEMMA RatingsStay ==
    ASSUME TypeOK, TypeOK', DriversRegistered, RatingsAddUp, RecordsKept, RatesNone
    PROVE  DriversRegistered' /\ RatingsAddUp'
  <1>1. DriversRegistered'
    BY DEF DriversRegistered, RecordsKept, RatesNone
  <1>2. ASSUME NEW d \in Account
        PROVE  /\ RatedRides(d)' = RatedRides(d)
               /\ SumFunctionOnSet(StarsOf', RatedRides(d)) = SumFunctionOnSet(StarsOf, RatedRides(d))
    <2>1. \A id \in RideId : id \in RatedRides(d)' <=> id \in RatedRides(d)
      BY DEF RatedRides, RidesOf, RatesNone
    <2>2. RatedRides(d)' = RatedRides(d)
      BY <2>1 DEF RatedRides, RidesOf
    <2>3. \A id \in RatedRides(d) : StarsOf[id] \in Nat /\ StarsOf'[id] = StarsOf[id]
      BY StarsOfRideStep DEF RatedRides, RidesOf, RatesNone
    <2>. QED  BY <2>2, <2>3, RatedRidesFinite, SumSame
  <1>3. RatingsAddUp'
    BY <1>2 DEF RatingsAddUp, RecordsKept, SameRating
  <1>. QED  BY <1>1, <1>3

\* A rating enters the total and the count of the ride's driver, and no other's.
LEMMA RatingCounts ==
    ASSUME TypeOK, TypeOK', DriversRegistered, RatingsAddUp, NEW id \in RideId, NEW stars \in 1..5,
           rides[id].rating = 0, rides[id].driver \in Account,
           OthersSame(id), rides'[id].driver = rides[id].driver, rides'[id].rating = stars,
           drivers' = [drivers EXCEPT ![rides[id].driver] = AddRating(drivers[rides[id].driver], stars)]
    PROVE  DriversRegistered' /\ RatingsAddUp'
  <1>. DEFINE d == rides[id].driver
              S == RatedRides(d)
  <1>0. drivers \in [Account -> Driver] /\ stars \in Nat /\ stars # 0
    BY DEF TypeOK
  <1>1. /\ AddRating(drivers[d], stars).driverAddress = drivers[d].driverAddress
        /\ AddRating(drivers[d], stars).rating = drivers[d].rating + stars
        /\ AddRating(drivers[d], stars).ratingCount = drivers[d].ratingCount + 1
    BY <1>0, AddRatingFacts
  <1>2. /\ \A e \in Account : drivers'[e].driverAddress = drivers[e].driverAddress
        /\ drivers'[d].rating = drivers[d].rating + stars
        /\ drivers'[d].ratingCount = drivers[d].ratingCount + 1
        /\ \A e \in Account \ {d} : drivers'[e] = drivers[e]
    BY <1>0, <1>1
  <1>3. \A x \in RideId : rides'[x].driver = rides[x].driver
    BY DEF OthersSame
  <1>4. DriversRegistered'
    BY <1>2, <1>3 DEF DriversRegistered, Registered
  <1>5. ASSUME NEW e \in Account
        PROVE  RatedRides(e)' = IF e = d THEN S \cup {id} ELSE RatedRides(e)
    <2>1. ASSUME NEW x \in RideId
          PROVE  x \in RatedRides(e)' <=> x \in RatedRides(e) \/ (e = d /\ x = id)
      BY <1>0, <1>3 DEF RatedRides, RidesOf, OthersSame
    <2>. QED  BY <2>1 DEF RatedRides, RidesOf
  <1>6. id \notin S /\ \A x \in RatedRides(d) : x \in RideId /\ x # id
    BY DEF RatedRides, RidesOf
  <1>7. ASSUME NEW e \in Account
        PROVE  SumFunctionOnSet(StarsOf', RatedRides(e)) = SumFunctionOnSet(StarsOf, RatedRides(e))
    <2>1. \A x \in RatedRides(e) : StarsOf[x] \in Nat /\ StarsOf'[x] = StarsOf[x]
      BY StarsOfRideStep DEF RatedRides, RidesOf, OthersSame
    <2>. QED  BY <2>1, RatedRidesFinite, SumSame
  <1>8. SumFunctionOnSet(StarsOf', S \cup {id}) = stars + SumFunctionOnSet(StarsOf', S)
    <2>1. \A x \in S \cup {id} : StarsOf'[x] \in Nat
      BY <1>6, StarsOfRideStep
    <2>2. StarsOf'[id] = stars
      BY StarsOfRideStep
    <2>3. IsFiniteSet(S)
      BY RatedRidesFinite
    <2>. HIDE DEF S
    <2>. QED  BY <1>6, <2>1, <2>2, <2>3, SumAdd
  <1>9. Cardinality(S \cup {id}) = Cardinality(S) + 1
    <2>1. IsFiniteSet(S)
      BY RatedRidesFinite
    <2>. HIDE DEF S
    <2>. QED  BY <1>6, <2>1, FS_AddElement
  <1>10. ASSUME NEW e \in Account
         PROVE  /\ drivers'[e].ratingCount = Cardinality(RatedRides(e)')
                /\ drivers'[e].rating = SumFunctionOnSet(StarsOf', RatedRides(e)')
    <2>1. /\ drivers[e].ratingCount = Cardinality(RatedRides(e))
          /\ drivers[e].rating = SumFunctionOnSet(StarsOf, RatedRides(e))
      BY DEF RatingsAddUp
    <2>2. CASE e # d
      BY <1>2, <1>5, <1>7, <2>1, <2>2
    <2>3. CASE e = d
      <3>1. SumFunctionOnSet(StarsOf', RatedRides(e)') = stars + drivers[e].rating
        BY <1>5, <1>7, <1>8, <2>1, <2>3
      <3>2. Cardinality(RatedRides(e)') = drivers[e].ratingCount + 1
        BY <1>5, <1>9, <2>1, <2>3
      <3>3. drivers[d].rating \in Nat
        BY <1>0 DEF Driver
      <3>. QED  BY <1>0, <1>2, <2>3, <3>1, <3>2, <3>3
    <2>. QED  BY <2>2, <2>3
  <1>11. RatingsAddUp'
    BY <1>10 DEF RatingsAddUp
  <1>. QED  BY <1>4, <1>11

\* The contract starts with no rating.
LEMMA InitRatingsSound == Init => RatingsSound
  <1>. SUFFICES ASSUME Init PROVE RatingsSound
    OBVIOUS
  <1>1. RidesSound
    BY InitRidesSound
  <1>2. DriversRegistered
    BY DEF Init, DriversRegistered, NoRide
  <1>3. \A d \in Account : RatedRides(d) = {}
    BY DEF Init, RatedRides, RidesOf, NoRide
  <1>4. RatingsAddUp
    BY <1>3, FS_EmptySet, SumEmpty DEF RatingsAddUp, Init, NoDriver
  <1>. QED  BY <1>1, <1>2, <1>4 DEF RatingsSound

\* Every step keeps the totals.
LEMMA NextRatings == RatingsSound /\ [Next]_vars => DriversRegistered' /\ RatingsAddUp'
  <1>. SUFFICES ASSUME RatingsSound, [Next]_vars
                PROVE  DriversRegistered' /\ RatingsAddUp'
    OBVIOUS
  <1>0. /\ RidesSound /\ TypeOK /\ DriversSound /\ RidesAllocated /\ DriversRegistered /\ RatingsAddUp
        /\ drivers \in [Account -> Driver] /\ rides \in [RideId -> Ride] /\ now \in Nat
        /\ Eta \subseteq Nat /\ Payout \subseteq Nat /\ Stars \subseteq Nat
    BY DEF RatingsSound, RidesSound, TypeOK
  <1>1. TypeOK'
    BY <1>0, NextTypeOK
  <1>2. ASSUME RecordsKept, RatesNone
        PROVE  DriversRegistered' /\ RatingsAddUp'
    BY <1>0, <1>1, <1>2, RatingsStay
  <1>3. ASSUME rides' = rides PROVE RatesNone
    BY <1>3 DEF RatesNone
  <1>4. ASSUME drivers' = drivers PROVE RecordsKept
    BY <1>4 DEF RecordsKept, SameRating, Registered
  <1>5. ASSUME NEW d, NEW dr, drivers' = [drivers EXCEPT ![d] = dr],
               d \in Account => /\ SameRating(dr, drivers[d])
                                /\ dr.driverAddress = drivers[d].driverAddress
        PROVE  RecordsKept
    <2>1. \A e \in Account : drivers'[e] = IF e = d THEN dr ELSE drivers[e]
      BY <1>0, <1>5
    <2>. QED  BY <1>5, <2>1 DEF RecordsKept, SameRating, Registered
  <1>6. ASSUME NEW id \in RideId, NEW r, rides' = [rides EXCEPT ![id] = r],
               r.rating = rides[id].rating,
               \/ r.driver = rides[id].driver
               \/ rides[id].rating = 0 /\ Registered(r.driver)
        PROVE  RatesNone
    <2>1. \A x \in RideId : rides'[x] = IF x = id THEN r ELSE rides[x]
      BY <1>0, <1>6
    <2>2. ASSUME NEW x \in RideId
          PROVE  /\ rides'[x].rating = rides[x].rating
                 /\ \/ rides'[x].driver = rides[x].driver
                    \/ rides[x].rating = 0 /\ Registered(rides'[x].driver)
      <3>1. CASE x = id
        BY <1>6, <2>1, <3>1
      <3>2. CASE x # id
        BY <2>1, <3>2
      <3>. QED  BY <3>1, <3>2
    <2>. QED  BY <2>2 DEF RatesNone
  <1>7. ASSUME NEW a \in Account, NEW d \in DriverCandidate, NEW id \in IdHash,
               registerDriver(a, d, id)
        PROVE  DriversRegistered' /\ RatingsAddUp'
    <2>1. /\ drivers' = [drivers EXCEPT ![d] = NewDriver(d)] /\ ~ Registered(d) /\ rides' = rides
          /\ d \in Account
      BY <1>7 DEF registerDriver
    <2>2. NewDriver(d).rating = 0 /\ NewDriver(d).ratingCount = 0 /\ NewDriver(d).driverAddress = d
      BY DEF NewDriver, NoDriver
    <2>3. RatedRides(d) = {}
      BY <1>0, <2>1 DEF RatedRides, RidesOf, DriversRegistered
    <2>4. drivers[d].ratingCount = 0 /\ drivers[d].rating = 0
      BY <1>0, <2>1, <2>3, FS_EmptySet, SumEmpty DEF RatingsAddUp
    <2>5. RecordsKept
      <3>1. \A e \in Account : drivers'[e] = IF e = d THEN NewDriver(d) ELSE drivers[e]
        BY <1>0, <2>1
      <3>. QED  BY <2>1, <2>2, <2>4, <3>1 DEF RecordsKept, SameRating, Registered
    <2>. QED  BY <1>2, <1>3, <2>1, <2>5
  <1>8. ASSUME NEW a \in Account, NEW v \in Value,
               \/ depositDriverCollateral(a, v) \/ reactivateDriver(a, v)
               \/ withdrawCollateral(a, v)
        PROVE  DriversRegistered' /\ RatingsAddUp'
    <2>1. PICK n \in Nat, s \in DriverStatus :
             drivers' = [drivers EXCEPT ![a] = Staked(drivers[a], n, s)]
      <3>1. drivers[a].amtDeposited \in Nat /\ drivers[a].status \in DriverStatus /\ v \in Nat
            /\ "Active" \in DriverStatus /\ "Suspended" \in DriverStatus
        BY <1>0 DEF Driver, DriverStatus
      <3>2. CASE depositDriverCollateral(a, v)
        <4>1. drivers[a].amtDeposited + v \in Nat
          BY <3>1
        <4>. QED  BY <3>1, <3>2, <4>1 DEF depositDriverCollateral
      <3>3. CASE reactivateDriver(a, v)
        <4>1. drivers[a].amtDeposited + v \in Nat
          BY <3>1
        <4>. QED  BY <3>1, <3>3, <4>1 DEF reactivateDriver
      <3>4. CASE withdrawCollateral(a, v)
        <4>1. drivers[a].amtDeposited - v \in Nat
          BY <3>1, <3>4 DEF withdrawCollateral
        <4>. QED  BY <3>1, <3>4, <4>1 DEF withdrawCollateral
      <3>. QED  BY <1>8, <3>2, <3>3, <3>4
    <2>2. /\ SameRating(Staked(drivers[a], n, s), drivers[a])
          /\ Staked(drivers[a], n, s).driverAddress = drivers[a].driverAddress
      BY <1>0, StakedFacts
    <2>3. rides' = rides
      BY <1>8 DEF depositDriverCollateral, reactivateDriver, withdrawCollateral
    <2>. QED  BY <1>2, <1>3, <1>5, <2>1, <2>2, <2>3
  <1>9. ASSUME NEW a \in Account, NEW d \in DriverCandidate, NEW fare \in Fare,
               NEW ceiling \in BOOLEAN, acceptRide(a, d, fare, ceiling)
        PROVE  DriversRegistered' /\ RatingsAddUp'
    <2>. DEFINE bond == Bond(fare, ceiling)
                r == Accept(rides[nextRideId], a, d, fare, bond)
    <2>1. bond \in Nat /\ fare \in Nat /\ d \in Account
      BY BondType
    <2>2. nextRideId \in RideId /\ rides[nextRideId] \in Ride
      BY <1>0, <1>9 DEF acceptRide, RideId, TypeOK
    <2>3. /\ rides' = [rides EXCEPT ![nextRideId] = r]
          /\ drivers' = [drivers EXCEPT ![d] = MakeBusy(drivers[d])]
          /\ Registered(d)
      BY <1>9 DEF acceptRide
    <2>. HIDE DEF bond
    <2>4. r.driver = d /\ r.rating = rides[nextRideId].rating
      BY <2>1, <2>2 DEF Accept, Ride
    <2>5. rides[nextRideId].rating = 0
      BY <1>0, <2>2, StoredRides DEF NoRide
    <2>. HIDE DEF r
    <2>6. RatesNone
      BY <1>6, <2>2, <2>3, <2>4, <2>5
    <2>7. /\ SameRating(MakeBusy(drivers[d]), drivers[d])
          /\ MakeBusy(drivers[d]).driverAddress = drivers[d].driverAddress
      BY <1>0, <2>1, MakeBusyFacts
    <2>. QED  BY <1>2, <1>5, <2>3, <2>6, <2>7
  <1>10. ASSUME NEW a \in Account, NEW id \in RideId, NEW eta \in Eta, startRide(a, id, eta)
         PROVE  DriversRegistered' /\ RatingsAddUp'
    <2>. DEFINE r == Start(rides[id], now, eta)
    <2>1. r.driver = rides[id].driver /\ r.rating = rides[id].rating
      BY ONLY <1>0, id \in RideId, eta \in Eta, StartFacts
    <2>2. rides' = [rides EXCEPT ![id] = r] /\ drivers' = drivers
      BY <1>10 DEF startRide
    <2>. HIDE DEF r
    <2>. QED  BY <1>2, <1>4, <1>6, <2>1, <2>2
  <1>11. ASSUME NEW a \in Account, NEW id \in RideId, disputeRide(a, id)
         PROVE  DriversRegistered' /\ RatingsAddUp'
    <2>. DEFINE r == SetStatus(rides[id], "Disputed")
    <2>1. r.driver = rides[id].driver /\ r.rating = rides[id].rating
      BY <1>0, SetStatusFacts DEF RideStatus
    <2>2. rides' = [rides EXCEPT ![id] = r] /\ drivers' = drivers
      BY <1>11 DEF disputeRide
    <2>. HIDE DEF r
    <2>. QED  BY <1>2, <1>4, <1>6, <2>1, <2>2
  <1>12. ASSUME NEW id \in RideId, NEW r, rides' = [rides EXCEPT ![id] = r],
                r.driver = rides[id].driver, r.rating = rides[id].rating,
                drivers' = [drivers EXCEPT ![rides[id].driver] = MakeFree(drivers[rides[id].driver])]
         PROVE  DriversRegistered' /\ RatingsAddUp'
    <2>. DEFINE d == rides[id].driver
    <2>1. d \in Account => /\ SameRating(MakeFree(drivers[d]), drivers[d])
                           /\ MakeFree(drivers[d]).driverAddress = drivers[d].driverAddress
      BY <1>0, MakeFreeFacts
    <2>2. drivers' = [drivers EXCEPT ![d] = MakeFree(drivers[d])]
      BY <1>12
    <2>3. RatesNone
      BY <1>6, <1>12
    <2>. HIDE DEF d
    <2>. QED  BY <1>2, <1>5, <2>1, <2>2, <2>3
  <1>13. ASSUME NEW a \in Account, NEW id \in RideId, completeRide(a, id)
         PROVE  DriversRegistered' /\ RatingsAddUp'
    <2>. DEFINE pay == FinalFare(rides[id], now)
                r == Complete(rides[id], pay, now)
    <2>1. pay \in Nat
      BY <1>0, FinalFareWithinEscrow DEF Escrow, Ride
    <2>2. /\ rides' = [rides EXCEPT ![id] = r]
          /\ drivers' = [drivers EXCEPT ![rides[id].driver] = MakeFree(drivers[rides[id].driver])]
      BY <1>13 DEF completeRide
    <2>. HIDE DEF pay
    <2>3. r.driver = rides[id].driver /\ r.rating = rides[id].rating
      BY ONLY <1>0, <2>1, id \in RideId, CompleteFacts
    <2>. HIDE DEF r
    <2>. QED  BY <1>12, <2>2, <2>3
  <1>14. ASSUME NEW a \in Account, NEW id \in RideId, cancelRide(a, id)
         PROVE  DriversRegistered' /\ RatingsAddUp'
    <2>. DEFINE r == SetStatus(rides[id], "Cancelled")
    <2>1. r.driver = rides[id].driver /\ r.rating = rides[id].rating
      BY <1>0, SetStatusFacts DEF RideStatus
    <2>2. /\ rides' = [rides EXCEPT ![id] = r]
          /\ drivers' = [drivers EXCEPT ![rides[id].driver] = MakeFree(drivers[rides[id].driver])]
      BY <1>14 DEF cancelRide
    <2>. HIDE DEF r
    <2>. QED  BY <1>12, <2>1, <2>2
  <1>15. ASSUME NEW a \in Account, NEW id \in RideId, NEW payout \in Payout,
                resolveDispute(a, id, payout)
         PROVE  DriversRegistered' /\ RatingsAddUp'
    <2>. DEFINE r == Complete(rides[id], payout, now)
    <2>1. r.driver = rides[id].driver /\ r.rating = rides[id].rating
      BY ONLY <1>0, payout \in Payout, id \in RideId, CompleteFacts
    <2>2. /\ rides' = [rides EXCEPT ![id] = r]
          /\ drivers' = [drivers EXCEPT ![rides[id].driver] = MakeFree(drivers[rides[id].driver])]
      BY <1>15 DEF resolveDispute
    <2>. HIDE DEF r
    <2>. QED  BY <1>12, <2>1, <2>2
  <1>16. ASSUME NEW a \in Account, NEW id \in RideId, NEW stars \in Stars,
                rateDriver(a, id, stars)
         PROVE  DriversRegistered' /\ RatingsAddUp'
    <2>. DEFINE r == SetRating(rides[id], stars)
                d == rides[id].driver
    <2>1. /\ rides' = [rides EXCEPT ![id] = r] /\ rides[id].rating = 0 /\ stars \in 1..5
          /\ drivers' = [drivers EXCEPT ![d] = AddRating(drivers[d], stars)]
          /\ rides[id].status = "Completed"
      BY <1>16 DEF rateDriver
    <2>2. d \in Account
      BY <1>0, <2>1, StoredRides
    <2>3. r.driver = d /\ r.rating = stars
      BY <1>0, SetRatingFacts
    <2>. HIDE DEF r
    <2>4. rides'[id] = r /\ OthersSame(id)
      BY <1>0, <2>1 DEF OthersSame
    <2>5. rides'[id].driver = d /\ rides'[id].rating = stars
      BY <2>3, <2>4
    <2>. QED  BY <1>0, <1>1, <2>1, <2>2, <2>4, <2>5, RatingCounts
  <1>17. ASSUME rides' = rides, drivers' = drivers
         PROVE  DriversRegistered' /\ RatingsAddUp'
    BY <1>2, <1>3, <1>4, <1>17
  <1>18. CASE \/ \E a \in Account :
                  \/ \E new \in NewOwner : transferOwnership(a, new)
                  \/ \E new \in Backend : setBackend(a, new)
                  \/ registerUser(a) \/ Withdraw(a)
                  \/ \E d \in DriverCandidate, fare \in Fare, ceiling \in BOOLEAN :
                        SignOffer(d, a, fare, ceiling)
              \/ WithdrawReturn
              \/ Tick
              \/ UNCHANGED vars
    BY <1>17, <1>18 DEF transferOwnership, setBackend, registerUser, SignOffer, Withdraw,
                        WithdrawReturn, Tick, vars
  <1>. QED
    BY <1>7, <1>8, <1>9, <1>10, <1>11, <1>13, <1>14, <1>15, <1>16, <1>18
       DEF Next, Administer, ManageCollateral, Match, Travel

\* rateDriver counts each rated ride once, for the driver who drove it, however
\* ratings, rides and registrations interleave.
THEOREM RatingsAreCounted == Spec => []RatingsAddUp
  <1>1. RatingsSound /\ [Next]_vars => RatingsSound'
    BY NextRidesSound, NextRatings DEF RatingsSound
  <1>2. RatingsSound => RatingsAddUp
    BY DEF RatingsSound
  <1>. QED  BY <1>1, <1>2, InitRatingsSound, PTL DEF Spec

(***************************************************************************)
(* The ways out of an escrow: the totals bound every sum that a credit     *)
(* computes, so it fits a word wherever all the ether there is does.       *)
(***************************************************************************)

\* What is owed to one account and what is held of one ride are together within
\* what the contract has.
LEMMA WithinBalance ==
    ASSUME MoneySound, NEW a \in Account, NEW id \in RideId
    PROVE  /\ pendingWithdrawals[a] \in Nat
           /\ Held(rides[id]) \in Nat
           /\ pendingWithdrawals[a] + Held(rides[id]) <= MaxBalance
  <1>1. TypeOK /\ balance = Collateral + Owed + Escrowed /\ balance <= MaxBalance
    BY DEF MoneySound, RidesSound, Balanced, Solvent
  <1>2. Totals /\ TotalsTyped
    BY <1>1, TotalsAre, TotalsType
  <1>3. pendingWithdrawals[a] \in Nat /\ pendingWithdrawals[a] <= Owed
    BY <1>2, FinitelyMany, SumBounds DEF Totals
  <1>4. Held(rides[id]) \in Nat /\ Held(rides[id]) <= Escrowed
    BY <1>2, FinitelyMany, SumBounds DEF Totals
  <1>. QED  BY <1>1, <1>2, <1>3, <1>4 DEF TotalsTyped

\* A ride's escrow can always be released: the checked arithmetic of a
\* cancellation, or of a resolution in the rider's favour, never reverts.
THEOREM ExitsStayOpen == Spec => []ExitOpen
  <1>1. ASSUME MoneySound, owner \in Account \cup {NoAccount}, nonReentrant, NEW id \in RideId
        PROVE  /\ rides[id].status \in {"Accepted", "Started"} => MayCancel(rides[id].user, id)
               /\ rides[id].status = "Disputed" /\ owner # NoAccount =>
                     \E payout \in Payout : MayResolve(owner, id, payout)
    <2>0. TypeOK /\ RidesAllocated /\ rides[id] \in Ride
      BY <1>1 DEF MoneySound, RidesSound, TypeOK
    <2>. SUFFICES ASSUME Live(rides[id])
                  PROVE  /\ rides[id].status \in {"Accepted", "Started"} => MayCancel(rides[id].user, id)
                         /\ rides[id].status = "Disputed" /\ owner # NoAccount =>
                               \E payout \in Payout : MayResolve(owner, id, payout)
      BY DEF Live
    <2>1. rides[id].user \in Account /\ rides[id].driver \in Account
      BY <2>0, StoredRides DEF Live
    <2>2. Held(rides[id]) = Escrow(rides[id]) /\ Escrow(rides[id]) \in Nat
      BY <2>0 DEF Held, Escrow, Ride
    <2>3. /\ pendingWithdrawals[rides[id].user] \in Nat
          /\ pendingWithdrawals[rides[id].user] + Escrow(rides[id]) <= MaxBalance
      BY <1>1, <2>1, <2>2, WithinBalance
    <2>4. /\ pendingWithdrawals[rides[id].driver] \in Nat
          /\ pendingWithdrawals[rides[id].driver] + Escrow(rides[id]) <= MaxBalance
      BY <1>1, <2>1, <2>2, WithinBalance
    <2>5. /\ Fits(Escrow(rides[id]))
          /\ Fits(pendingWithdrawals[rides[id].user] + Escrow(rides[id]))
          /\ Fits(pendingWithdrawals[rides[id].driver])
      BY <2>2, <2>3, <2>4, MoneyAssumption DEF Fits
    <2>6. ASSUME rides[id].status \in {"Accepted", "Started"}
          PROVE  MayCancel(rides[id].user, id)
      <3>1. CreditFits(rides[id].user, Escrow(rides[id]), rides[id].user, 0)
        BY <2>2, <2>3, <2>5 DEF CreditFits, Fits
      <3>. QED  BY <1>1, <2>1, <2>5, <2>6, <3>1 DEF MayCancel, rideExists, IsParty, Cancellable
    <2>7. ASSUME rides[id].status = "Disputed"
          PROVE  MayResolve(owner, id, 0)
      <3>1. CreditFits(rides[id].driver, 0, rides[id].user, Escrow(rides[id]) - 0)
        BY <2>2, <2>3, <2>4, <2>5 DEF CreditFits, Fits
      <3>. QED  BY <1>1, <2>2, <2>5, <2>7, <3>1 DEF MayResolve, onlyOwner
    <2>. QED  BY <2>6, <2>7, MoneyAssumption
  <1>2. MoneySound => ExitOpen
    BY <1>1 DEF ExitOpen, MoneySound, RidesSound, TypeOK
  <1>. QED  BY <1>2, AlwaysMoneySound, PTL

=============================================================================
