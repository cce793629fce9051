# A verification project for nChainRide

TLA+ models of nChainRide, the TLC runs that check them on small instances,
and TLAPS proofs of what matters most for every instance.

## 1. Inventory: the system and its parts

A rider posts a ride request in the backend, drivers answer with signed
offers, the rider selects one and pays fare and bond into a contract; the
driver starts and completes the trip on the chain, and the contract splits the
money. The same ride lives in three places: the contract, the backend's
database, and the state of two React pages. They learn of each other through
transactions, a webhook, polls, and what the pages report.

| part | state it keeps | operations | hard behaviours | what makes it correct |
|---|---|---|---|---|
| `contracts/src/Carpool.sol` | rides, drivers, nonces, pull balances, ether | registration, collateral, acceptRide .. resolveDispute, rateDriver, withdraw | re-entrancy, replayed signatures, wrapped arithmetic, a cached busy flag | it can always pay what it owes; a ride's escrow is paid out once and whole; one ride per driver; no money is stuck |
| `backend/app/marketplace` | `ride_requests`, `driver_offers` | create_ride, create_offer, select_driver, complete, cancel, dispute, onchain_accept | requests interleave; create_offer has no transaction; the webhook writes the same rows | a ride is matched once, a request ends only what has not ended, and the tables agree |
| `backend/app/location` | `ride_locations`, writes `ride_requests` | add_location (may complete the ride) | races with cancel and complete | as above |
| `backend/app/ratings` | `ride_ratings`, `drivers` | rate_ride | row locks, read-modify-write of an average, rollback | the average is the mean; a rating is of who drove the completed ride; no deadlock |
| `backend/app/chain_sync`, `tx` | `chain_events`, `tx_records`, writes `ride_requests` | ingest_events, get_tx_status, record_tx, prepare_* | events repeated, reordered, batched; slow RPC answers; overwrites | an event counts once; the driver it names stays; the time of a confirmation is kept |
| `backend/app/auth` | `auth_nonces`, `sessions` | create_nonce, verify, me, logout | statements without a transaction, requests seen twice, restarts, expiry | every session rests on its wallet's signature |
| `frontend/.../WalletContext` | wallet, token, `localStorage` | sign-in, restore, disconnect, balance, network | the wallet's account changes at any await | a settled page acts for the account it shows |
| `RidePage` | the ride shown, offers, places, quote | publish, poll, pick, pay, register, cancel | late answers, reloads between sending and recording | a ride is paid once, to the driver picked; the page follows the ride |
| `DriverPage` | online, the rides listed, the active ride, collateral | two polls, offer, start, complete, cancel, deposit | two polls and a handler in any order | the page invents no start and does not lose a ride |
| `LocationSearch`, `LocationContext`, `lib/routing` | texts, results, positions, routes | search, details, geolocation, routes | answers out of order, cancelled effects | what is shown is of the present place, ride and position |
| `MapView*` | the map object, updates that wait | create, update, style load | updates before the style has loaded | the map draws the present route |
| `ActivityPage`, `NetworkBanner`, `use-toast` | lists, a store with timers | fetch, change feed, dismiss | late answers; one listener that mounts late | lists are of the account shown |
| `backend/app/admin`, `treasury`, `reviews`, `pricing`, `maps` | none but the chain's | registration, signing, uploads, estimates, lookups | time-out and retry of a registration | |

Calls: pages -> backend (HTTP), pages -> contract (wallet transactions),
contract -> webhook -> `chain_sync` (events), `chain_sync` -> RPC (receipts),
`admin` -> contract. Shared state inside the backend is the row of a ride,
which marketplace, location, ratings and chain_sync all read or write; shared
state inside the frontend is the session of `WalletContext`.

`PROJECT.json` lists every component with its status, and every hazard at the
line where it bites.

## 2. Plan, and where it stands

1. `Carpool` with its abstract specification `RideEscrow` (refined through
   `CarpoolEscrow`), its sums (`CarpoolMoney`, with `Sums` for the proofs) and
   proofs, the refinement's among them. Done.
2. `Marketplace` (with location's write) with `RideMatching` (refined through
   `MarketMatching`) and proofs. Done.
3. `ChainSync`, which extends `Marketplace` by the chain, the webhook and the
   transaction records; `Ratings`, which extends it by the rating transactions,
   with its abstract specification `RatingLedger`; both with proofs. Done.
4. `Sessions`: the backend's authentication and `WalletContext` composed, with
   proofs. Done.
5. `RidePage` and `DriverPage`: each page composed with what it meets of the
   backend and the contract, with proofs. Done.
6. The parts of the frontend that fetch, time, cache and round, composed in
   `MCBrowser`, with proofs. Done.
7. Left: the nonces and fees of `admin/service.py` (they need a model of the RPC
   node's pool that the repository does not give); both pages in one model with one backend (each
   has the other as environment now; together they exceed what TLC can
   enumerate).

## 3. The modules and the code

Names are the code's: an action has the name of the function or method it
models, a variable that of the storage variable, table or React state.
`PROJECT.json` "map" gives the lines of every definition. A refused request
and a call that reverts are no steps.

### Carpool (contracts/src/Carpool.sol)

One action per external function, `require`s as guards. What a function writes
into a record is an operator of its own (`Accept`, `Complete`, `MakeFree`, ...),
so the proofs can speak of it. The `require`s of the two ways out of an escrow
are operators too (`MayCancel`, `MayResolve`): the actions have them as guards,
and `ExitOpen` says that they hold.

* **Re-entrancy.** `withdraw` lowers balance and claim, then calls its
  recipient. `Withdraw(a)` does both and, if `a` is one of the accounts with
  code (`Contract`), leaves `entered = a`; until `WithdrawReturn` accounts with
  code may call (`MayCall`) whatever does not carry `nonReentrant`. A failing
  call reverts the whole transaction. Accounts with code that also sign offers
  are those with delegated code (EIP-7702).
* **Signatures.** `SignOffer` adds the tuple a driver signs to `offers`;
  `acceptRide` needs the tuple with the *present* nonce to be there, which is
  what `ECDSA.recover(...) == driver` decides.
* **Arithmetic.** `WordSize` stands for 2^256. Checked additions that overflow
  disable the action (`Fits`); the surcharge of `completeRide` is in an
  `unchecked` block and wraps.
* **Left out.** Coordinates, document and review hashes, events, the counters
  of `User` that nothing reads, and ether forced in without a call.

`RideEscrow` is what the contract promises about one ride: opened once, closed
once, a driver in one at a time, a share within the amount. `CarpoolEscrow`
maps ride statuses to its phases.

### Marketplace (backend/app/marketplace, and location's write)

A method whose statements run in one transaction on the ride's row (`FOR
UPDATE`) is one action. `create_offer` is not: `ReadRide`, `ReadDuplicates`
and `InsertOffer` are its three statements, with any other request in between,
and `Handler` is the number of such requests in progress. `Restart` loses
them. `add_location` appears as what it does to the ride: with a position near
the drop-off it may complete it. `apply_ride_state_from_event` is the webhook's
write to a ride: `UPDATE .. WHERE id`, so any status an event maps to
(`ReportedStatus`) over whatever the row of a posted ride says, and the driver it
names, if it names one. Here the chain may report anything; `ChainSync` puts a
chain behind it.

`RideMatching` says what the marketplace promises about one ride: it is posted,
applied for, matched once with an applicant who stays chosen, and a request
carries it further or ends it only if it has not ended. An application may arrive
after the match, and the chain may report a matched, done or called-off ride at
any moment (`Report`), an ended one included; but no report opens it to offers
again. The rows do not tell who wrote them last, so `MarketMatching` has a
history variable for it, `told`, that no guard reads.

### ChainSync (backend/app/chain_sync, record_tx)

The chain is reduced to one status per request and the table `Call` of which
statuses each function of `Carpool.sol` accepts and leads to; transactions are
sent, and mined in any order, with success or reverted. Nothing ties them to the
backend but that they are about a posted ride: one that is OPEN here, or has
another driver, may be accepted there (tests/test_chain_sync.py:68-103 has such
an event). `ingest_events` takes a batch of one or two events of mined
transactions, each delivered with or without its request's id and with or without
its driver, any number of times, and with any status for the record.
`get_tx_status` is two steps, the read and the write after the RPC answered; a
poll may also come back empty. `record_tx` stores what a client says of any hash.
Abstracted: block numbers, log indexes (one mapped event per transaction),
payloads, `onchain_ride_id`; a record's status, any string in the code, is
`submitted`, `confirmed`, or `failed` from a receipt.

### Ratings (backend/app/ratings)

`rate_ride` is one transaction that may wait twice, for the ride's row and for
the driver's: `LockRide`, `LockDriver`, `Commit`, and `Abort` for a rollback.
While a rating holds the ride's row, the marketplace's transactions and the
webhook's update of it wait.
A driver's row that does not exist is locked by its insertion, as `ON CONFLICT`
does. The float average is an exact fraction.

`RatingLedger` is what ratings promise, with no requests and no locks: one
after another, one a ride, each making its driver's average the mean of all that
driver has and changing nobody else's.

### Sessions (backend/app/auth, WalletContext.tsx, lib/api/auth.ts)

`verify_nonce_signature` is cut between its statements (`VerifyRead`,
`VerifyMark`, `VerifyInsert`, `VerifyAnswer`); a request stays on the wire, so
it may be seen twice or after the page is gone, and `BackendRestart` may fall
anywhere. `authenticateWallet` is `AutoAuth` (or `Connect`), `LoginNonce`,
`LoginSign`, the verification, `LoginMe`; `restore` and `disconnect` are cut at
their awaits too. The wallet's account (`selected`) changes at any moment, and
reaches the page by an event (`AddressArrives`). The effect that signs in runs
before the next render: `Show` is what one render does, effects included.

### RidePage (RidePage.tsx, with what it meets)

`publishRide`, the poll, `pickOffer` and `acceptRideOnChain` are cut at their
awaits, each with the step of the backend (`...Served`), the answer, and the
failure that loses it. A payment goes prepare, register the user if needed,
send, mined or not, record, notify; `Reload` and `LeavePage` may fall between
any two. `Environment` is the drivers, other riders, the chain and the webhook.
`WebhookReports` writes any status an event maps to over whatever the row says,
as often as it likes, once the ride has been paid for: the one assumption is that
the provider tells only of rides that exist on the chain (`ChainSync` does without
it). `mempool` counts, since a page that was reloaded may send an acceptRide while
the one before is not mined.
The component returns before some of its hooks when nobody is signed in, so a
change of `isAuthenticated` while it is mounted makes React throw: the view
`crashed`.

### DriverPage (DriverPage.tsx, with what it meets)

Two polls, the switch, the offer dialog, starting, completing and cancelling,
with requests and contract rides as the environment. Three calls of this page
never get through and are modelled as they fail: the offer signs six of the
seven fields, `startRide` gets five of six arguments, and `/tx/complete-ride`
answers `onchainRideId` where the page compares `onChainRideId`. So the ride is
started by `ChainMoves`, as another program of the driver may. `WebhookReports`
repeats and reorders what has happened to a ride of the chain (`Reportable`), and
writes it over whatever the row says.

### The parts MCBrowser composes

They share no state; a behaviour of `MCBrowser` moves one of them (`focus`).

* `AccountViews`: the balance, ActivityPage's list, NetworkBanner. An effect
  cleaned up keeps its fetch in flight, with its flag cleared (`Dropped`).
* `BookingForm`: the two search boxes with timer, search and details, the
  position, the quote of the places chosen, the publish button, with what it
  books: the place chosen or else the rider's position.
* `MapView`: when the map object exists, the properties it was told, and the
  updates queued until the style has loaded, for both providers. A browser without
  geolocation has no position and no spinner either.
* `PageRoutes`: DriverPage's routes to the pickup and of the ride.
* `DriverPanels`: registration, with the backend's broadcast that may be mined
  after its answer has given up, and the collateral the page sums by itself.
* `Fares`: the estimate, the request's rounded columns, the offer's fare and
  ceiling, and what the wallet is asked to send. Distances are in decimetres,
  durations in tenths of a second, fares in thirds of 10^8 wei, so that each
  rounding of the code is a rounding of the model.
* `Toasts`: the store with its limit, timers and one listener. The filter of
  REMOVE_TOAST is a recursive function, so that it can be proved about.

### Slips

A definition that stands just before another with the same parameters
(`FinalFareUncapped` before `FinalFare`, `Kept` before `Dropped`) is
that other with a plausible mistake. No specification uses them. Each is what
one property has to catch when it takes the other's place (`PROJECT.json`
"mutants"). `OnlyForPresent` has three parts, and `Kept` in place of `Dropped`
breaks it in each of `AccountViews`, `BookingForm` and `PageRoutes`; one is
listed.

## 4. The runs

| run | bounds | shows |
|---|---|---|
| `Carpool_trips` | 2 rides, 3 accounts of which one may be rider and driver, 3 block times | busy flags true to rides; no double booking; nonces count; escrows paid out whole, at least the fare to a driver who completes; closed rides final |
| `Carpool_extremes` | 1 ride, 2 who may drive it, 5 block times, a surcharge that wraps, a time limit that overflows | payouts within the escrow; a way out of every ride; one identity per driver |
| `Carpool_reentry` | 2 rides, rider and driver are accounts with code, re-entrant windows, ownership moves | ether held covers collateral, balances and escrow; one signature per ride; busy drivers staked; ratings add up; implements `RideEscrow` |
| `Market` | 2 wallets, 2 rides, 2 offers, 1 create_offer in progress, any event of any posted ride | tables agree on every selection; implements `RideMatching` |
| `Chain` | 2 wallets, 1 ride, 1 offer, 2 transactions, 1 poll, batches of 2 | the time of a confirmation kept; the driver an event named stays; an event acts on its first delivery only |
| `Ratings` | 2 wallets, 2 rides, 3 ratings at once, stars 1 and 5; no offers, drivers come from events | averages are means; a rating is of the driver of a completed ride; ratings end; implements `RatingLedger` |
| `Sessions` | 2 accounts, 2 nonces, 2 tokens, 2 verifications in progress | every session rests on its wallet's signature; a page at rest is signed in as the account it shows |
| `Browser` | 2 of what changes under a fetch (account, query, ride, position), 2 fetches in flight, 3 routes, 3 map updates, 4 toasts, distances and durations on both sides of a rounding | what is shown is of the present account, ride and route; what is booked is what the boxes name or the rider's position; fares of solo rides agree; dismissed toasts leave |
| `Ride` | 2 requests in a row, 2 offers, 1 driver, 1 poll or pick in flight, 3 rows | paid once and to the driver chosen; the backend told of an acceptance only when there is one; the page follows |
| `Driver` | 2 requests, 2 rides on the chain, 1 answer of each poll | the page shows STARTED only if the chain started a ride of the pair; no open rides beside an active one; an active ride comes into view |
| `Driver_start`, `Driver_offer` | 1 request | **violated**, section 5 |

**Why the bounds are enough.** Every hazard needs at most two actors on one
object or one actor on two. Two rides are what a nonce, a double booking or a
driver's average can get wrong. A request between two of its statements meets
every transaction of the marketplace, so one `create_offer` in progress is enough
beside them; two offers are the one selected and the one that arrives late; three
ratings are two of one driver and one that comes after or waits for the same
ride. Two transactions are an acceptance and a call that follows it, so two events
to reorder, repeat or batch, and with one ride and any driver on the chain a
selection here that the chain contradicts.
A page that mixes up what it shows does so with the thing before or after, so
two accounts, requests or positions do, and an answer that overtakes one other.
`WordSize` is 256, above the product fare * 100 that `acceptRide` computes for
the bond, so that rides with a bond occur, and small enough for the surcharge of
`Carpool_extremes` to wrap and its time limit to overflow. Rides do not
interact but through a driver or a balance. `Fares` takes 12344 and 12345
decimetres, 3004 and 3005 tenths of a second: the neighbours at which the
rounding to metres and seconds turns.

The bounds themselves are named: `MaxRides`, `MaxOffers`, `MaxBalance`,
`MaxTime`, `MaxNonce`, `MaxInFlight`, `MaxRows`, `MaxRouting`, `MaxDeposit`,
`MaxToasts`, and the sizes of the constant sets. Each appears in guards only.

**Deadlock** is not checked in the runs of `Carpool`, `Market`, `Chain` and
`Ratings`: those instances stop when their rides, offers, blocks or transactions
are used up. **Symmetry** is used in `Market`, `Chain` and `Sessions`, whose
properties are invariants and `[][...]` formulas; no run with liveness uses it.

**Fairness.** It is stated where the code's own scheduling gives it, and never
of what a user does (with one exception, `Starting`).

* `RatingFairness`: `WF` of `Commit`, since a request that waits for nothing is
  run by the server; `SF` of `LockDriver`, since PostgreSQL serves the waiters of
  a row in order. `Abort` is not fair: nothing relies on failures.
* `Polling` (`RidePage`) and `DriverPolling` (`DriverPage`): `setInterval` asks
  again as long as the page shows a ride, or the driver is signed in; the
  backend serves what it is asked (`WF`), and the network does not lose every
  answer for ever (`SF` of some answer being handled).
* `Starting` (`StartSpec`, the run `Driver_start` only): the driver presses
  "Start Ride" again and again, and a call that was made returns or fails. It is
  there to show that not even this starts the ride.

## 5. The findings

Two runs end in a violation of what the repository says of itself.

* **`Driver_offer`.** The page signs six fields (`DriverPage.tsx:523`); the
  contract recovers the signer from seven, its own address first
  (`Carpool.sol:279`, contracts/README.md:11). So `acceptRide` reverts for every
  offer made with this page. `RidePage` therefore takes its offers from any
  program of a driver that signs as the contract asks.
* **`Driver_start`.** `startRideOnChain` passes five arguments
  (`DriverPage.tsx:281`) through an ABI with six inputs (`DriverPage.tsx:259`),
  so ethers refuses the call before anything is sent.

Met while modelling, and part of the models, without a run of their own:

* `acceptRide` is payable and not `nonReentrant`, though contracts/README.md:14
  says all ETH-touching functions are. `Carpool_reentry` shows that nothing is
  lost by it.
* `create_offer` leaves pending offers behind a selection (context.MD:184) and
  admits two pending offers of one driver, which it means to refuse
  (marketplace/service.py:117).
* The backend's ride status is written by events in their order of arrival and
  by HTTP requests, with no look at the status it replaces
  (chain_sync/service.py:118-131), so it is not the chain's (context.MD:329). TLC
  finds the two harms in a few steps: `RideAccepted` delivered after
  `RideStarted` leaves the ride ONCHAIN_ACCEPTED, and the late event of a ride
  that was cancelled or completed here reopens it, after which a request may end
  it again. What does hold: only the first delivery of an event does so
  (`AppliedOnce`), and no event opens a ride to offers (`ImplementsMatching`).
* `record_tx` takes any status string for any hash (tx/schemas.py:32), and
  overwrites a confirmed record with the client's word (context.MD:252); the
  webhook writes the provider's. So a record's status shows who wrote last. What
  survives is the time of the confirmation (`ConfirmationsKept`).
* Two verifications of one nonce may both pass and open two sessions
  (context.MD:285 asks for one-time use). Both are of the wallet that signed,
  which is what `SessionsAreSigned` says.
* `completeRide` of the page never gets through: the backend answers
  `onchainRideId` (tx/schemas.py:84), the page reads `onChainRideId`
  (DriverPage.tsx:350).
* RidePage returns before hooks when nobody is signed in (RidePage.tsx:202), so
  losing or gaining the session while it is mounted makes React throw.
* RidePage's estimate multiplies shared rides by 0.7 (RidePage.tsx:90);
  DriverPage, "using same formula as RidePage" (DriverPage.tsx:230), does not. The
  rider of a shared ride is asked for 10/7 of the estimate. `FareFollowsEstimate`
  is therefore about solo rides only.
* A pickup that is typed and not selected has no coordinates (RidePage.tsx:390),
  and is published under the typed text at the rider's position
  (RidePage.tsx:56-57, 150-153). `BookedIsNamed` says that this is the only other
  place a pickup can be booked at; and the drop-off is always the place named.
* A ride cancelled on the driver's page stays accepted on the chain, and the page
  takes a later ride of the pair for it (DriverPage.tsx:468). `StartedIsStarted`
  says no more than that some ride of the pair was started.
* `cancelRide` of RidePage is local only, and fails at an undeclared name after
  it has cleared the ride (RidePage.tsx:179); the answer to a driver's cancel
  removes whichever ride the page shows by then (DriverPage.tsx:468). Both are
  modelled as they are.

## 6. The proofs

All are for every value of the constants that the named `ASSUME`s admit
(`AccountAssumption`, `NumberAssumption`, `MoneyAssumption`,
`MarketAssumption`, `ChainAssumption`, `RatingAssumption`, `SessionsAssumption`,
`RidePageAssumption`, `DriverPageAssumption`, `BrowserAssumption`): distinct
null values, numbers where the code has numbers, a bond of at most the fare.
`MoneyAssumption` says that there are finitely many accounts, that all the ether
there is fits a word (it is far below 2^256 wei), and that an owner who
resolves a dispute may choose to give the driver nothing.

Every invariant and every action property of the passing runs is stated by a
theorem here, and so are the three refinements. Each module proves one inductive
invariant as a conjunction of named parts, one step per action, and takes the
properties from it.

**`Sums`.** What the fold over a finite set does when an element is added, taken
away or changes its value. The provers cannot use an induction theorem, which
takes a predicate as its parameter. So the subsets on which a statement fails
are looked at instead: among those of a finite set one is minimal
(`MinimalSubset`, by the well-foundedness of the strict subset ordering), and a
minimal one leads to a contradiction. `SumIsCount` shows in this way that a sum
is the cardinality of a set, `Units`, that does not depend on the order in which
the fold takes the elements. `SumAdd`, `SumChange`, `SumBounds` and the others
follow from it by the library's theorems on cardinality.

**`CarpoolProofs`**, in the order of the module.

* `TypeCorrect` needs `FinalFareWithinEscrow`, since a payout above the escrow
  would make a refund negative. `DriversSound` (only Active drivers are on
  rides, and Active means staked) is inductive and gives `BusyDriversAreStaked`.
* `NextRideStep` shows that every step does one of four things to the rides:
  nothing (`Quiet`), `Advance`, `Close` or `Begin`; the rest is argued about
  those four. `RidesSound` is the inductive invariant behind `BusyFlagIsTrue` and
  `NoDoubleBooking`: neither is inductive alone, for a free driver has no live
  ride only if the flag is true, and the flag stays true when a ride closes only
  if there was no second.
* `Signed` adds that a driver's nonce is the number of the driver's rides, so
  that `RidesAreSigned` can number each ride by the rides before it;
  `NoncesCountRides` counts the same set. `RegistryCounts` gives
  `IdentityPerDriver`.
* `NeverOverpaid` and `EscrowIsPaidOut` follow from what `Close` pays;
  `FareIsKept` needs `TripsTimed` besides, that a started trip has its fare
  agreed and its start not after the present block. `ClosedRidesAreFinal` goes
  through the functions: each asks for a live ride or takes the next free id,
  which `RidesSound` says no ride has.
* `CarpoolImplementsEscrow` maps each step to an opening, a closing, a freeze or
  a stutter of `RideEscrow`; the opening is where `BusyMeansLive` is needed, for
  the escrow wants a driver who serves no other.
* `AlwaysSolvent`: `MoneySound` is `RidesSound` with `Balanced`, which adds to
  `Solvent` that nobody unregistered has a deposit (registration overwrites the
  record, and would lose it) and that the ether is within `MaxBalance`. A step
  moves at most one deposit, two pull balances and one ride; a lemma for each of
  the three sums says by how much (`CollateralMoves`, `OwedGrows`,
  `EscrowMoves`, ...), and `SettlementBalances` puts them together for the
  functions that close a ride.
* `ExitsStayOpen`: since the three sums are the balance, a pull balance and the
  escrow of a ride are together within it (`WithinBalance`), so the checked
  additions of a cancellation, or of a resolution that refunds the rider, cannot
  overflow. It is the one theorem that says something is *possible*; that is why
  it speaks of the guards.
* `RatingsAreCounted`: `RatingsSound` adds that whoever drives a ride is
  registered (`DriversRegistered`). Without it `RatingsAddUp` is not inductive,
  for a registration sets a driver's total and count to zero.

**`MarketplaceProofs`.** `Posted` (types, no driver before a selection, offers
in progress are for posted rides) is inductive. `TablesAgree` adds `Agrees` of
each ride. `MarketImplementsMatching` is about `HistorySpec`, the marketplace with
`told`, whose steps are the marketplace's (`HistoryIsMarket`); it shows that every
action is a `Post`, an `Apply`, a `Match`, a `Carry`, an `End`, a `Report` or not
seen. It needs `TablesAgree`, for a ride that is open must have nobody chosen, and
that an open ride was never told of.

**`BackendProofs`**, `ChainSync` first. `SyncIInv` takes `Posted` over from the
marketplace and adds types, that a transaction sent is about a posted ride
(`SentPosted`), that a ride accepted on the chain has a driver there
(`ChainDrivers`), that an ingested event is of a transaction that succeeded and
its ride past its selection (`EventsMined`), `DriverIsTheChains`, and that a
confirmed record has its time (`RecordsKept`). A batch is followed event by event:
`Midway` says what holds of the tables between two of them, and `IngestOne` that
each keeps it. `ConfirmationsAreKept`, `DriverAgrees` and `EventsActOnce` are read
off it; the last needs `TransactionGoesOn`, that a request of the marketplace only
takes a ride forward. `TablesAgreeWithEvents` shows that the marketplace's
`SelectionAgrees` holds with the webhook's batches in place of its single reports.

Then `Ratings`. `RatingIInv`: a rating that has its ride's row is for a ride
that is completed and its driver's (`InProgressIsDriven`, kept because nothing
writes a row that is held), and a rating about to commit knows the driver's
present row and is the only one of that driver (`HoldsPresent`).
`RatingTypeCorrect` says that no average ever has the denominator 0.
`RatingsAreOfDrivers` is the run's action property, and `AveragesArePresent` says
that no update is lost. `AverageIInv` adds what the means need: that the ride of a
rating in progress has none in the table and is no other rating's
(`RatesUnrated`), so that a commit adds one ride to the driver's and one number
to the sum. `AveragesAreMeans` follows. `RatingsImplementLedger` maps `Commit` to
`Rate` and every other step to a stutter; it is where the row locks are shown to
make concurrent ratings serial. `RatingsLeaveMarket` shows that a behaviour with
ratings is one of the marketplace, so `MarketKeptWhileRating` has the tables agree
here too.

**`SessionsProofs`.** `IInv` has the types, what a verification and the page
still hold between their awaits (`VerifyHolds`, `PageHolds`), the sessions'
signatures with the part of one that a verification has established already
(`SessionsAreSigned`, `Verified`), and which token goes with which wallet while a
sign-in is under way (`Own`). `SettledPageIsOwn` is what `Own` says of a page at
rest.

**`RidePageProofs`.** `ServerInv /\ PageInv`. What the page and its requests in
flight know of a ride (`Known`, `Chosen`, `Paid`) is never taken back (`Grows`),
so each step of the environment keeps what the page has in hand, and each step
of the page only copies it. That the offer paid is the ride's chosen one and its
nonce is used up (`PaymentHolds`) is why a second payment reverts.

**`DriverPageProofs`.** `StartIsNotInvented`: no row, no answer in flight and no
ride on the page is STARTED unless some ride of the pair has started on the
chain (`ServersHold`, `StartsHold`). `ListOnlyWhenFree`: the list and the answers
that would fill it exist only while it may be shown (`ListHolds`).
`DriverTypeCorrect` needs more than the types, that the list `updated` has every
active ride of the backend once and no other (`UpdatedHolds`): else the poll
could answer with a ride that is over.

**`BrowserProofs`.** One invariant for each part, shown inductive for that
part's steps and kept by the others, which leave its variables alone.
`BookingsAreNamed` rests on what is inductive, that a box with coordinates shows
the text of that place (`PlaceChosenIsNamed`). `FaresAgree` is arithmetic over
every distance and duration of a solo ride, where the run has two of each.
`LateAnswersUnheard` is the action property of the three effects that fetch: the
balance, the rides listed, the quote and the routes. `DismissedToastsLeave` needs `NotesInv`: a dismissed toast still in
the list has its timer, the list is within its limit, and its ids are among those
given out. The limit is 1, so a list is empty or one toast and what the filter
leaves can be computed without induction.

**Only model-checked**: `RatingEnds`, `PageFollows` and `DriverSees`, which are
liveness under fairness, out of the provers' reach; and the properties of the two
runs that end in a violation.

No module declares a RECURSIVE operator.

## 7. Not modelled

* Of `admin/service.py`, a pipeline of calls to one RPC node with no state but the
  chain's, the choice of nonce and fees: what can go wrong there depends on the
  node's pool of pending transactions, of which the repository says nothing. The
  broadcast, the minute it waits and its answers are in `DriverPanels`, the
  contract's side in `Carpool`.
* `treasury`, `reviews`, `pricing` and `maps` keep no state: a signer no contract
  function asks for, an upload, an estimate no page asks for, and a proxy.
* `refreshSession` of WalletContext, which nothing calls; the `prepare_*`
  methods no page calls.
* HTTP headers, bodies, error texts, the connection pool, settings.
* The application's shell and `components/ui` (generated), the Supabase
  migrations (a store nothing writes), the contract tests and reports.
* What two open tabs do to each other's `localStorage`, and a clock that differs
  between backend and browser.
