---------------------------- MODULE BackendProofs ----------------------------
(***************************************************************************)
(* Proofs about what the backend builds on its marketplace: first the      *)
(* synchronisation with the chain, then the ratings, for every number of   *)
(* wallets, rides, offers, transactions and requests.                      *)
(***************************************************************************)
EXTENDS ChainSync, Ratings, MarketplaceProofs, Sums

(***************************************************************************)
(* The synchronisation with the chain.                                     *)
(***************************************************************************)

\* The types of the variables ChainSync adds.
ChainRide    == [status : ChainStatus, driver : Wallet \cup {NoWallet}]
ChainType    == chain \in [RideRequest -> ChainRide]
SentTx       == [ride : RideRequest, driver : Wallet \cup {NoWallet}, call : CallName,
                 result : TxResult \ {"Unsent"}]
TxsType      == txs \in [TxHash -> {Unsent} \cup SentTx]
EventsType   == chain_events \subseteq [tx : TxHash, linked : BOOLEAN, named : BOOLEAN]
TxRecord     == [status : {"none", "failed"} \cup RecordStatus, confirmed_at : BOOLEAN]
RecordsType  == tx_records \in [TxHash -> TxRecord]
PollingType  == polling \in [Poller -> TxHash \cup {NoTx}]
OwnTypes     == ChainType /\ TxsType /\ EventsType /\ RecordsType /\ PollingType

\* A transaction sent is about a posted ride, and is an acceptRide or names no driver.
SentPosted ==
    \A t \in TxHash : txs[t].result # "Unsent" =>
        /\ ride_requests[txs[t].ride].status # "Absent"
        /\ txs[t].call = "acceptRide" <=> txs[t].driver # NoWallet

\* A ride that was accepted on the chain has a driver there, and no other transaction
\* about it succeeds before that.
ChainDrivers ==
    /\ \A id \in RideRequest : chain[id].status # "Requested" => chain[id].driver \in Wallet
    /\ \A t \in TxHash : txs[t].result = "Success" => chain[txs[t].ride].status # "Requested"

\* An event ingested is one of a transaction that succeeded; the ride it was linked
\* to is past its selection.
EventsMined ==
    \A e \in chain_events :
        /\ txs[e.tx].result = "Success"
        /\ e.named => e.linked
        /\ e.linked => ride_requests[txs[e.tx].ride].status \notin {"Absent", "OPEN"}

\* A record that says confirmed has the time of it, and an ingested event a record.
RecordsKept ==
    /\ \A t \in TxHash : tx_records[t].status = "confirmed" => tx_records[t].confirmed_at
    /\ \A e \in chain_events : tx_records[e.tx].status # "none"

ChainInv == SentPosted /\ ChainDrivers /\ EventsMined /\ DriverIsTheChains
SyncIInv == Posted /\ OwnTypes /\ ChainInv /\ RecordsKept

-----------------------------------------------------------------------------
(***************************************************************************)
(* What the marketplace's own requests do to the rides.                    *)
(***************************************************************************)

\* Progress, status by status.
LEMMA ProgressFacts ==
    /\ Progress["Absent"] = 0 /\ Progress["OPEN"] = 1 /\ Progress["DRIVER_SELECTED"] = 2
    /\ Progress["ONCHAIN_ACCEPTED"] = 3 /\ Progress["STARTED"] = 4
    /\ Progress["COMPLETED"] = 5 /\ Progress["CANCELLED"] = 5 /\ Progress["DISPUTED"] = 5
BY DEF Progress

\* A transaction takes a ride forward, never to STARTED, and changes its driver only
\* in the selection.
LEMMA TransactionGoesOn ==
    ASSUME Posted, NEW a \in Wallet, NEW id \in RideRequest, RideTransaction(a, id),
           NEW x \in RideRequest, ride_requests'[x] # ride_requests[x]
    PROVE  GoesOn(ride_requests[x], ride_requests'[x])
<1> USE DEF Posted, MarketTypeOK
<1>1. CASE create_ride(a, id)
  <2>1. /\ x = id
        /\ ride_requests[x].status = "Absent" /\ ride_requests[x].driver = NoWallet
        /\ ride_requests'[x].status = "OPEN" /\ ride_requests'[x].driver = NoWallet
    BY <1>1 DEF create_ride, OpenIsUnmatched
  <2> QED
    BY <2>1, ProgressFacts DEF GoesOn
<1>2. CASE \E o \in OfferId : select_driver(a, id, o)
  <2>1. /\ x = id
        /\ ride_requests[x].status = "OPEN"
        /\ ride_requests'[x].status = "DRIVER_SELECTED"
    BY <1>2, SelectFacts
  <2> QED
    BY <2>1, ProgressFacts DEF GoesOn
<1>3. ASSUME NEW status \in {"ONCHAIN_ACCEPTED", "DISPUTED", "COMPLETED", "CANCELLED"},
             ride_requests[id].status # "Absent",
             SetRideStatus(id, status),
             Progress[ride_requests[id].status] < Progress[status]
      PROVE  GoesOn(ride_requests[x], ride_requests'[x])
  <2> DEFINE row == [ride_requests[id] EXCEPT !.status = status]
  <2>1. ride_requests' = [ride_requests EXCEPT ![id] = row]
    BY <1>3 DEF SetRideStatus
  <2>2. status \in RideStatus \ {"Absent"}
    BY DEF RideStatus, CANCELLABLE_STATUSES, ACTIVE_DRIVER_RIDE_STATUSES
  <2>3. row.status = status /\ row.driver = ride_requests[id].driver
    BY <1>3, <2>2, StatusSet
  <2> HIDE DEF row
  <2>4. x = id /\ ride_requests'[x] = row
    BY <2>1
  <2> QED
    BY <1>3, <2>3, <2>4 DEF GoesOn
<1>4. CASE \/ complete_ride(a, id) \/ onchain_accept(a, id) \/ cancel_ride(a, id)
           \/ dispute_ride(a, id) \/ add_location(a, id)
  <2>1. PICK status \in {"ONCHAIN_ACCEPTED", "DISPUTED", "COMPLETED", "CANCELLED"} :
              /\ SetRideStatus(id, status)
              /\ status = "ONCHAIN_ACCEPTED" => ride_requests[id].status = "DRIVER_SELECTED"
              /\ ride_requests[id].status \in
                    {"OPEN", "DRIVER_SELECTED", "ONCHAIN_ACCEPTED", "STARTED"}
    BY <1>4 DEF complete_ride, onchain_accept, cancel_ride, dispute_ride, add_location,
                Completable, COMPLETABLE_RIDE_STATUSES, Cancellable, CANCELLABLE_STATUSES,
                ACTIVE_DRIVER_RIDE_STATUSES, DISPUTABLE_STATUSES, AUTO_COMPLETE_STATUSES
  <2>2. Progress[ride_requests[id].status] < Progress[status]
    BY <2>1, ProgressFacts
  <2> QED
    BY <2>1, <2>2, <1>3
<1> QED
  BY <1>1, <1>2, <1>4 DEF RideTransaction

\* Seen from the chain: a posted ride stays posted, and one past its selection stays
\* past it and keeps its driver.
RidesGoOn ==
    \A id \in RideRequest :
        /\ ride_requests[id].status # "Absent" => ride_requests'[id].status # "Absent"
        /\ ride_requests[id].status \notin {"Absent", "OPEN"} =>
              /\ ride_requests'[id].status \notin {"Absent", "OPEN"}
              /\ ride_requests'[id].driver = ride_requests[id].driver

LEMMA GoingOn ==
    ASSUME Posted, Posted', NEW id \in RideRequest,
           GoesOn(ride_requests[id], ride_requests'[id])
    PROVE  /\ ride_requests'[id].status # "Absent"
           /\ ride_requests[id].status \notin {"Absent", "OPEN"} =>
                 /\ ride_requests'[id].status # "OPEN"
                 /\ ride_requests'[id].driver = ride_requests[id].driver
<1>1. ride_requests[id] \in RideRow /\ ride_requests'[id] \in RideRow
  BY DEF Posted, MarketTypeOK
<1>2. /\ ride_requests[id].status \in RideStatus
      /\ ride_requests'[id].status \in RideStatus
  BY <1>1, RideRowFacts
<1> QED
  BY <1>2, ProgressFacts DEF GoesOn, RideStatus, CANCELLABLE_STATUSES,
                             ACTIVE_DRIVER_RIDE_STATUSES

\* Every step of the marketplace but a report is such a step.
LEMMA MarketGoesOn ==
    ASSUME Posted,
           \/ \E a \in Wallet, id \in RideRequest : RideTransaction(a, id)
           \/ Offering \/ Restart \/ UNCHANGED marketVars
    PROVE  /\ Posted' /\ RidesGoOn
           /\ \A x \in RideRequest : ride_requests'[x] # ride_requests[x] =>
                 GoesOn(ride_requests[x], ride_requests'[x])
<1>1. Posted'
  BY NextPosted DEF MarketNext
<1>2. \A x \in RideRequest : ride_requests'[x] # ride_requests[x] =>
         GoesOn(ride_requests[x], ride_requests'[x])
  <2>1. CASE \E a \in Wallet, id \in RideRequest : RideTransaction(a, id)
    BY <2>1, TransactionGoesOn
  <2>2. CASE Offering
    BY <2>2, ReadsPosted, InsertFacts DEF Offering
  <2>3. CASE Restart \/ UNCHANGED marketVars
    BY <2>3 DEF Restart, marketVars
  <2> QED
    BY <2>1, <2>2, <2>3
<1>3. RidesGoOn
  BY <1>1, <1>2, GoingOn DEF RidesGoOn
<1> QED
  BY <1>1, <1>2, <1>3

\* Where rides go on so, what ChainSync knows of them stays true.
LEMMA ChainInvKept ==
    ASSUME OwnTypes, ChainInv, RidesGoOn, UNCHANGED <<chain, txs, chain_events>>
    PROVE  ChainInv'
<1>1. \A t \in TxHash : txs[t].result # "Unsent" => txs[t].ride \in RideRequest
  BY DEF OwnTypes, TxsType, SentTx, Unsent
<1>2. \A e \in chain_events : e.tx \in TxHash /\ txs[e.tx].ride \in RideRequest
  BY <1>1 DEF ChainInv, EventsMined, OwnTypes, EventsType
<1>3. SentPosted' /\ ChainDrivers'
  BY <1>1 DEF ChainInv, SentPosted, ChainDrivers, RidesGoOn
<1>4. EventsMined' /\ DriverIsTheChains'
  BY <1>2 DEF ChainInv, EventsMined, DriverIsTheChains, RidesGoOn
<1> QED
  BY <1>3, <1>4 DEF ChainInv

-----------------------------------------------------------------------------
(***************************************************************************)
(* The webhook.                                                            *)
(***************************************************************************)

\* The row of a ride, as the ingestion of events leaves it: as it was, or as a first
\* delivery says, with the driver it had or the chain's.
New(events) == events \ chain_events
Untouched(id, row, events) ==
    /\ row = ride_requests[id]
    /\ \A e \in New(events) : txs[e.tx].ride = id => ~ e.linked
Touched(id, row, events) ==
    /\ \E e \in New(events) :
          /\ \A seen \in chain_events : seen.tx # e.tx
          /\ e.linked
          /\ txs[e.tx].ride = id
          /\ row.status = EVENT_TO_RIDE_STATUS[txs[e.tx].call]
    /\ row.driver \in {ride_requests[id].driver, chain[id].driver}
    /\ (\E e \in New(events) : e.named /\ txs[e.tx].ride = id) => row.driver = chain[id].driver

\* A record, as it was and as it is written.
RecordGoesOn(old, new) ==
    /\ old.status = "confirmed" \/ old.confirmed_at => new.confirmed_at
    /\ old.status # "none" => new.status # "none"
    /\ new.status = "confirmed" => new.confirmed_at

\* What holds of the tables in the middle of a batch.
Midway(events, records, rides) ==
    /\ chain_events \subseteq events
    /\ New(events) \subseteq Delivery
    /\ records \in [TxHash -> TxRecord]
    /\ \A t \in TxHash : RecordGoesOn(tx_records[t], records[t])
    /\ \A e \in events : records[e.tx].status # "none"
    /\ rides \in [RideRequest -> RideRow]
    /\ \A id \in RideRequest : Untouched(id, rides[id], events) \/ Touched(id, rides[id], events)

\* Writing a status to a record takes it on.
LEMMA UpsertGoesOn ==
    ASSUME NEW record \in TxRecord, NEW status \in RecordStatus
    PROVE  /\ Upserted(record, status) \in TxRecord
           /\ Upserted(record, status).status # "none"
           /\ \A old \in TxRecord : RecordGoesOn(old, record) =>
                                       RecordGoesOn(old, Upserted(record, status))
<1>1. /\ Upserted(record, status).status = status
      /\ Upserted(record, status).confirmed_at =
            (status = "confirmed" \/ record.confirmed_at)
      /\ Upserted(record, status) \in TxRecord
  BY DEF Upserted, TxRecord
<1>2. status # "none"
  BY DEF RecordStatus
<1> QED
  BY <1>1, <1>2 DEF RecordGoesOn

\* A batch begins with the tables as stored.
LEMMA BatchBegins ==
    ASSUME SyncIInv
    PROVE  Midway(Stored.events, Stored.records, Stored.rides)
BY DEF SyncIInv, Midway, New, Stored, RecordGoesOn, Untouched, OwnTypes, RecordsType,
       RecordsKept, Posted, MarketTypeOK

\* The status an event leads to is one that may be reported.
LEMMA EventStatus ==
    ASSUME NEW call \in CallName
    PROVE  EVENT_TO_RIDE_STATUS[call] \in ReportedStatus
BY DEF EVENT_TO_RIDE_STATUS, CallName, Call, ReportedStatus

LEMMA ReportedIsPast ==
    ASSUME NEW status \in ReportedStatus
    PROVE  status \notin {"Absent", "OPEN", "DRIVER_SELECTED"}
BY DEF ReportedStatus

\* What is delivered is the event of a transaction about a posted ride that has a
\* driver on the chain.
LEMMA DeliveryFacts ==
    ASSUME SyncIInv, NEW e \in Delivery
    PROVE  /\ e.tx \in TxHash
           /\ e.named => e.linked
           /\ e \in [tx : TxHash, linked : BOOLEAN, named : BOOLEAN]
           /\ txs[e.tx].result = "Success"
           /\ txs[e.tx].ride \in RideRequest
           /\ txs[e.tx].call \in CallName
           /\ ride_requests[txs[e.tx].ride].status # "Absent"
           /\ chain[txs[e.tx].ride].driver \in Wallet
<1>1. /\ e.tx \in TxHash
      /\ e.named => e.linked
      /\ e \in [tx : TxHash, linked : BOOLEAN, named : BOOLEAN]
      /\ txs[e.tx].result = "Success"
  BY DEF Delivery
<1>2. txs[e.tx] \in SentTx
  BY <1>1 DEF SyncIInv, OwnTypes, TxsType, Unsent
<1>3. txs[e.tx].ride \in RideRequest /\ txs[e.tx].call \in CallName
  BY <1>2 DEF SentTx
<1> QED
  BY <1>1, <1>3 DEF SyncIInv, ChainInv, SentPosted, ChainDrivers

\* One event, delivered at any point of a batch: its ride's row.
LEMMA IngestRow ==
    ASSUME SyncIInv, NEW events, NEW row \in RideRow, NEW e \in Delivery,
           \A x \in events : x.tx # e.tx, chain_events \subseteq events, New(events) \subseteq Delivery,
           Untouched(txs[e.tx].ride, row, events) \/ Touched(txs[e.tx].ride, row, events),
           e.linked
    PROVE  /\ Applied(row, e) \in RideRow
           /\ Touched(txs[e.tx].ride, Applied(row, e), events \cup {e})
<1> DEFINE id == txs[e.tx].ride
           status == EVENT_TO_RIDE_STATUS[txs[e.tx].call]
           d == IF e.named THEN chain[id].driver ELSE NoWallet
           new == Applied(row, e)
<1>1. /\ id \in RideRequest
      /\ ride_requests[id].status # "Absent"
      /\ chain[id].driver \in Wallet
      /\ status \in ReportedStatus
      /\ e.named \in BOOLEAN
  BY DeliveryFacts, EventStatus
<1>2. row.status # "Absent"
  <2>1. CASE Untouched(id, row, events)
    BY <1>1, <2>1 DEF Untouched
  <2>2. CASE Touched(id, row, events)
    <3>1. PICK x \in New(events) : row.status = EVENT_TO_RIDE_STATUS[txs[x.tx].call]
      BY <2>2 DEF Touched
    <3> QED
      BY <3>1, DeliveryFacts, EventStatus, ReportedIsPast
  <2> QED
    BY <2>1, <2>2
<1>3. d \in Wallet \cup {NoWallet}
  BY <1>1
<1>4. new = Reported(row, status, d)
  BY DEF Applied
<1>5. /\ new \in RideRow
      /\ new.status = status
      /\ new.driver = IF d = NoWallet THEN row.driver ELSE d
  <2> HIDE DEF status, d, new
  <2> QED
    BY <1>1, <1>2, <1>3, <1>4, ReportedFacts
<1>6. new.driver = IF e.named THEN chain[id].driver ELSE row.driver
  BY <1>1, <1>5, MarketAssumption
<1>7. row.driver \in {ride_requests[id].driver, chain[id].driver}
  BY DEF Untouched, Touched
<1>8. e \in New(events \cup {e}) /\ New(events) \subseteq New(events \cup {e})
  BY DEF New
<1>9. \A seen \in chain_events : seen.tx # e.tx
  OBVIOUS
<1>10. ASSUME NEW x \in New(events \cup {e}), x.named, txs[x.tx].ride = id
       PROVE  new.driver = chain[id].driver
  <2>1. CASE x = e
    BY <1>6, <1>10, <2>1
  <2>2. CASE x \in New(events)
    <3>1. x.linked
      BY <1>10, <2>2, DeliveryFacts
    <3>2. row.driver = chain[id].driver
      BY <1>10, <2>2, <3>1 DEF Untouched, Touched
    <3> QED
      BY <1>6, <3>2
  <2> QED
    BY <2>1, <2>2 DEF New
<1>11. Touched(id, new, events \cup {e})
  <2> HIDE DEF new
  <2> QED
    BY <1>5, <1>6, <1>7, <1>8, <1>9, <1>10 DEF Touched
<1> QED
  BY <1>5, <1>11

\* An event of another ride leaves a row as it was.
LEMMA IngestElsewhere ==
    ASSUME SyncIInv, NEW events, NEW id \in RideRequest, NEW row, NEW e \in Delivery,
           txs[e.tx].ride = id => ~ e.linked,
           Untouched(id, row, events) \/ Touched(id, row, events)
    PROVE  Untouched(id, row, events \cup {e}) \/ Touched(id, row, events \cup {e})
<1>1. New(events) \subseteq New(events \cup {e}) /\ New(events \cup {e}) \subseteq New(events) \cup {e}
  BY DEF New
<1>2. CASE Untouched(id, row, events)
  BY <1>1, <1>2 DEF Untouched
<1>3. CASE Touched(id, row, events)
  <2>1. PICK x \in New(events) :
          /\ \A seen \in chain_events : seen.tx # x.tx
          /\ x.linked
          /\ txs[x.tx].ride = id
          /\ row.status = EVENT_TO_RIDE_STATUS[txs[x.tx].call]
    BY <1>3 DEF Touched
  <2>2. row.driver \in {ride_requests[id].driver, chain[id].driver}
    BY <1>3 DEF Touched
  <2>3. ASSUME NEW y \in New(events \cup {e}), y.named, txs[y.tx].ride = id
        PROVE  row.driver = chain[id].driver
    <3>1. y # e
      BY <2>3, DeliveryFacts
    <3> QED
      BY <1>1, <1>3, <2>3, <3>1 DEF Touched
  <2> QED
    BY <1>1, <2>1, <2>2, <2>3 DEF Touched
<1> QED
  BY <1>2, <1>3

\* One event, delivered at any point of a batch.
LEMMA IngestOne ==
    ASSUME SyncIInv, NEW db, Midway(db.events, db.records, db.rides), NEW e \in Delivery,
           NEW status \in RecordStatus, NEW after, after = Ingest(db, e, status)
    PROVE  Midway(after.events, after.records, after.rides)
<1> DEFINE ride == txs[e.tx].ride
<1>1. e.tx \in TxHash /\ ride \in RideRequest /\ e.linked \in BOOLEAN
  BY DeliveryFacts
<1>2. CASE ~ IsNew(db, e)
  BY <1>2 DEF Ingest
<1>3. CASE IsNew(db, e)
  <2>1. /\ after.events = db.events \cup {e}
        /\ after.records = [db.records EXCEPT ![e.tx] = Upserted(@, status)]
        /\ after.rides = IF e.linked THEN [db.rides EXCEPT ![ride] = Applied(@, e)]
                                     ELSE db.rides
    BY <1>3 DEF Ingest
  <2>2. \A x \in db.events : x.tx # e.tx
    BY <1>3 DEF IsNew
  <2>3. chain_events \subseteq after.events /\ New(after.events) \subseteq Delivery
    BY <2>1 DEF Midway, New
  <2>4. /\ after.records \in [TxHash -> TxRecord]
        /\ \A t \in TxHash : RecordGoesOn(tx_records[t], after.records[t])
        /\ \A x \in after.events : after.records[x.tx].status # "none"
    <3> DEFINE record == Upserted(db.records[e.tx], status)
    <3>1. /\ db.records \in [TxHash -> TxRecord]
          /\ tx_records \in [TxHash -> TxRecord]
          /\ \A t \in TxHash : RecordGoesOn(tx_records[t], db.records[t])
          /\ \A x \in db.events : db.records[x.tx].status # "none"
      BY DEF Midway, SyncIInv, OwnTypes, RecordsType
    <3>2. record \in TxRecord /\ record.status # "none" /\ RecordGoesOn(tx_records[e.tx], record)
      BY <1>1, <3>1, UpsertGoesOn
    <3>3. after.records = [db.records EXCEPT ![e.tx] = record]
      BY <2>1
    <3> HIDE DEF record
    <3> QED
      BY <1>1, <2>1, <2>2, <3>1, <3>2, <3>3
  <2>5. CASE ~ e.linked
    <3>1. after.rides = db.rides
      BY <2>1, <2>5
    <3>2. \A id \in RideRequest : Untouched(id, after.rides[id], after.events)
                                  \/ Touched(id, after.rides[id], after.events)
      BY <2>1, <2>5, <3>1, IngestElsewhere DEF Midway
    <3> QED
      BY <2>3, <2>4, <3>1, <3>2 DEF Midway
  <2>6. CASE e.linked
    <3> DEFINE row == Applied(db.rides[ride], e)
    <3>1. after.rides = [db.rides EXCEPT ![ride] = row]
      BY <2>1, <2>6
    <3>2. row \in RideRow /\ Touched(ride, row, after.events)
      <4>1. /\ db.rides[ride] \in RideRow
            /\ chain_events \subseteq db.events /\ New(db.events) \subseteq Delivery
            /\ Untouched(ride, db.rides[ride], db.events) \/ Touched(ride, db.rides[ride], db.events)
        BY <1>1 DEF Midway
      <4>2. row \in RideRow /\ Touched(ride, row, db.events \cup {e})
        <5> HIDE DEF row
        <5> QED
          BY <2>2, <2>6, <4>1, IngestRow DEF row
      <4> QED
        BY <2>1, <4>2
    <3> HIDE DEF row
    <3>3. /\ after.rides \in [RideRequest -> RideRow]
          /\ after.rides[ride] = row
          /\ \A id \in RideRequest \ {ride} : after.rides[id] = db.rides[id]
      BY <1>1, <3>1, <3>2 DEF Midway
    <3>4. ASSUME NEW id \in RideRequest
          PROVE  Untouched(id, after.rides[id], after.events)
                 \/ Touched(id, after.rides[id], after.events)
      <4>1. CASE id = ride
        BY <3>2, <3>3, <4>1
      <4>2. CASE id # ride
        <5>1. /\ after.rides[id] = db.rides[id]
              /\ Untouched(id, db.rides[id], db.events) \/ Touched(id, db.rides[id], db.events)
          BY <3>3, <4>2 DEF Midway
        <5>2. txs[e.tx].ride = id => ~ e.linked
          BY <4>2
        <5>3. Untouched(id, db.rides[id], db.events \cup {e})
              \/ Touched(id, db.rides[id], db.events \cup {e})
          BY <5>1, <5>2, IngestElsewhere
        <5> QED
          BY <2>1, <5>1, <5>3
      <4> QED
        BY <4>1, <4>2
    <3> QED
      BY <2>3, <2>4, <3>3, <3>4 DEF Midway
  <2> QED
    BY <2>5, <2>6
<1> QED
  BY <1>2, <1>3

\* A whole batch.
LEMMA BatchFacts ==
    ASSUME SyncIInv, ingest_events
    PROVE  /\ Midway(chain_events', tx_records', ride_requests')
           /\ UNCHANGED <<driver_offers, posting, chain, txs, polling>>
<1>1. PICK e \in Delivery, s \in RecordStatus :
         \/ Store(Ingest(Stored, e, s))
         \/ \E f \in Delivery : Store(Ingest(Ingest(Stored, e, s), f, s))
  BY DEF ingest_events
<1> DEFINE one == Ingest(Stored, e, s)
<1>2. Midway(one.events, one.records, one.rides)
  BY BatchBegins, IngestOne
<1>3. CASE Store(one)
  BY <1>2, <1>3 DEF Store
<1>4. CASE \E f \in Delivery : Store(Ingest(one, f, s))
  <2>1. PICK f \in Delivery : Store(Ingest(one, f, s))
    BY <1>4
  <2> DEFINE two == Ingest(one, f, s)
  <2> HIDE DEF one
  <2>2. Midway(two.events, two.records, two.rides)
    BY <1>2, IngestOne
  <2> HIDE DEF two
  <2>3. Store(two)
    BY <2>1 DEF two
  <2> QED
    BY <2>2, <2>3 DEF Store
<1> QED
  BY <1>1, <1>3, <1>4

\* What it does to a ride: nothing, or what the first delivery of an event says.
LEMMA BatchRow ==
    ASSUME SyncIInv, ingest_events, NEW id \in RideRequest
    PROVE  \/ /\ ride_requests'[id] = ride_requests[id]
              /\ \A e \in New(chain_events') : txs[e.tx].ride = id => ~ e.linked
           \/ /\ FirstDelivery(id)
              /\ ride_requests'[id].status \in ReportedStatus
              /\ ride_requests'[id].driver \in {ride_requests[id].driver, chain[id].driver}
              /\ \A e \in New(chain_events') :
                    e.named /\ txs[e.tx].ride = id => ride_requests'[id].driver = chain[id].driver
<1>1. Midway(chain_events', tx_records', ride_requests')
  BY BatchFacts
<1>2. CASE Untouched(id, ride_requests'[id], chain_events')
  BY <1>2 DEF Untouched
<1>3. CASE Touched(id, ride_requests'[id], chain_events')
  <2>1. PICK e \in New(chain_events') :
          /\ \A seen \in chain_events : seen.tx # e.tx
          /\ e.linked
          /\ txs[e.tx].ride = id
          /\ ride_requests'[id].status = EVENT_TO_RIDE_STATUS[txs[e.tx].call]
    BY <1>3 DEF Touched
  <2>2. FirstDelivery(id)
    BY <2>1 DEF FirstDelivery, New
  <2>3. e \in Delivery
    BY <1>1 DEF Midway
  <2>4. ride_requests'[id].status \in ReportedStatus
    BY <2>1, <2>3, DeliveryFacts, EventStatus
  <2> QED
    BY <1>3, <2>2, <2>4 DEF Touched
<1> QED
  BY <1>1, <1>2, <1>3 DEF Midway

\* The tables stay sound.
LEMMA BatchPosted ==
    ASSUME SyncIInv, ingest_events
    PROVE  Posted'
<1>1. /\ ride_requests' \in [RideRequest -> RideRow]
      /\ UNCHANGED <<driver_offers, posting>>
  BY BatchFacts DEF Midway
<1>2. \A id \in RideRequest :
         \/ ride_requests'[id] = ride_requests[id]
         \/ ride_requests'[id].status \notin {"Absent", "OPEN"}
  BY BatchRow, ReportedIsPast
<1>3. MarketTypeOK'
  BY <1>1 DEF SyncIInv, Posted, MarketTypeOK
<1>4. OpenIsUnmatched'
  BY <1>2 DEF SyncIInv, Posted, OpenIsUnmatched
<1>5. OffersFollowRides'
  <2> SUFFICES ASSUME NEW h \in Handler, posting[h].next # "ride"
               PROVE  ride_requests'[posting[h].ride].status # "Absent"
    BY <1>1 DEF OffersFollowRides
  <2>1. posting[h].ride \in RideRequest
    BY PostingFacts DEF SyncIInv, Posted, MarketTypeOK
  <2>2. ride_requests[posting[h].ride].status # "Absent"
    BY DEF SyncIInv, Posted, OffersFollowRides
  <2> QED
    BY <2>1, <2>2, <1>2
<1> QED
  BY <1>3, <1>4, <1>5 DEF Posted

\* So does what ChainSync knows of rides, transactions and records.
LEMMA BatchKeeps ==
    ASSUME SyncIInv, ingest_events
    PROVE  SyncIInv'
<1>1. /\ Midway(chain_events', tx_records', ride_requests')
      /\ UNCHANGED <<driver_offers, posting, chain, txs, polling>>
  BY BatchFacts
<1>2. New(chain_events') \subseteq Delivery /\ chain_events' \subseteq chain_events \cup New(chain_events')
  BY <1>1 DEF Midway, New
<1>3. \A e \in chain_events' : /\ e \in [tx : TxHash, linked : BOOLEAN, named : BOOLEAN]
                               /\ txs[e.tx].result = "Success"
                               /\ e.named => e.linked
  BY <1>2, DeliveryFacts DEF SyncIInv, ChainInv, EventsMined, OwnTypes, EventsType
<1>4. OwnTypes'
  BY <1>1, <1>3 DEF SyncIInv, OwnTypes, ChainType, TxsType, EventsType, RecordsType, PollingType,
                    Midway
<1>5. RecordsKept'
  BY <1>1 DEF RecordsKept, Midway, RecordGoesOn
<1>6. \A t \in TxHash : txs[t].result # "Unsent" => txs[t].ride \in RideRequest
  BY DEF SyncIInv, OwnTypes, TxsType, SentTx, Unsent
<1>7. \A id \in RideRequest :
         /\ ride_requests[id].status # "Absent" => ride_requests'[id].status # "Absent"
         /\ ride_requests[id].status \notin {"Absent", "OPEN"} =>
               ride_requests'[id].status \notin {"Absent", "OPEN"}
  BY BatchRow, ReportedIsPast
<1>8. SentPosted'
  BY <1>1, <1>6, <1>7 DEF SyncIInv, ChainInv, SentPosted
<1>9. ChainDrivers'
  BY <1>1 DEF SyncIInv, ChainInv, ChainDrivers
<1>10. EventsMined' /\ DriverIsTheChains'
  <2> SUFFICES ASSUME NEW e \in chain_events'
               PROVE  /\ e.linked => ride_requests'[txs[e.tx].ride].status \notin {"Absent", "OPEN"}
                      /\ e.named => ride_requests'[txs[e.tx].ride].driver = chain[txs[e.tx].ride].driver
    BY <1>1, <1>3 DEF EventsMined, DriverIsTheChains
  <2> DEFINE id == txs[e.tx].ride
  <2>1. id \in RideRequest /\ (e.named => e.linked)
    BY <1>3, <1>6
  <2>2. CASE e \in chain_events
    <3>1. /\ e.linked => ride_requests[id].status \notin {"Absent", "OPEN"}
          /\ e.named => ride_requests[id].driver = chain[id].driver
      BY <2>2 DEF SyncIInv, ChainInv, EventsMined, DriverIsTheChains
    <3> HIDE DEF id
    <3> QED
      BY <1>7, <2>1, <3>1, BatchRow DEF id
  <2>3. CASE e \in New(chain_events')
    <3>1. CASE e.linked
      <4>1. /\ ride_requests'[id].status \in ReportedStatus
            /\ e.named => ride_requests'[id].driver = chain[id].driver
        BY <2>1, <2>3, <3>1, BatchRow
      <4> QED
        BY <4>1, ReportedIsPast
    <3>2. CASE ~ e.linked
      BY <2>1, <3>2
    <3> QED
      BY <3>1, <3>2
  <2> QED
    BY <1>2, <2>2, <2>3
<1> QED
  BY <1>4, <1>5, <1>8, <1>9, <1>10, BatchPosted DEF SyncIInv, ChainInv

-----------------------------------------------------------------------------
(***************************************************************************)
(* The other steps of ChainSync.                                           *)
(***************************************************************************)

\* A wallet sends a transaction about a posted ride.
LEMMA SendKeeps ==
    ASSUME SyncIInv, NEW t \in TxHash, NEW id \in RideRequest, NEW call \in CallName,
           NEW d \in Wallet \cup {NoWallet}, Send(t, id, call, d)
    PROVE  SyncIInv'
<1> DEFINE sent == [ride |-> id, driver |-> d, call |-> call, result |-> "Pending"]
<1>1. /\ txs' = [txs EXCEPT ![t] = sent]
      /\ txs[t].result = "Unsent"
      /\ ride_requests[id].status # "Absent"
      /\ call = "acceptRide" <=> d # NoWallet
      /\ UNCHANGED <<marketVars, chain, chain_events, tx_records, polling>>
  BY DEF Send
<1>2. /\ sent \in SentTx /\ sent.ride = id /\ sent.driver = d /\ sent.call = call
      /\ sent.result = "Pending"
  BY DEF SentTx, TxResult
<1> HIDE DEF sent
<1>3. /\ TxsType'
      /\ txs'[t] = sent
      /\ \A x \in TxHash \ {t} : txs'[x] = txs[x]
  BY <1>1, <1>2 DEF SyncIInv, OwnTypes, TxsType
<1>4. \A e \in chain_events : e.tx \in TxHash \ {t}
  BY <1>1 DEF SyncIInv, ChainInv, EventsMined, OwnTypes, EventsType
<1>5. SentPosted' /\ ChainDrivers'
  BY <1>1, <1>2, <1>3 DEF SyncIInv, ChainInv, SentPosted, ChainDrivers, marketVars
<1>6. EventsMined' /\ DriverIsTheChains'
  BY <1>1, <1>3, <1>4 DEF SyncIInv, ChainInv, EventsMined, DriverIsTheChains, marketVars
<1>7. OwnTypes' /\ RecordsKept'
  BY <1>1, <1>3 DEF SyncIInv, OwnTypes, ChainType, EventsType, RecordsType, PollingType, RecordsKept
<1>8. Posted'
  BY <1>1 DEF SyncIInv, Posted, MarketTypeOK, OpenIsUnmatched, OffersFollowRides, marketVars
<1> QED
  BY <1>5, <1>6, <1>7, <1>8 DEF SyncIInv, ChainInv

\* What a call needs and leads to.
LEMMA CallFacts ==
    ASSUME NEW call \in CallName
    PROVE  /\ Call[call].to \in ChainStatus \ {"Requested"}
           /\ "Requested" \in Call[call].from <=> call = "acceptRide"
           /\ call = "acceptRide" => Call[call].from = {"Requested"}
<1>1. Call[call].to \in ChainStatus
  BY DEF ChainStatus
<1> QED
  BY <1>1 DEF Call, CallName

\* The chain executes it, or reverts it; an accepted ride's driver stays.
LEMMA MineKeeps ==
    ASSUME SyncIInv, NEW t \in TxHash, Mine(t)
    PROVE  SyncIInv'
<1> DEFINE id == txs[t].ride
           to == Call[txs[t].call].to
           d  == IF txs[t].driver = NoWallet THEN chain[id].driver ELSE txs[t].driver
<1>1. /\ txs[t].result = "Pending"
      /\ UNCHANGED <<marketVars, chain_events, tx_records, polling>>
      /\ \/ /\ chain[id].status \in Call[txs[t].call].from
            /\ txs' = [txs EXCEPT ![t].result = "Success"]
            /\ chain' = [chain EXCEPT ![id].status = to, ![id].driver = d]
         \/ /\ txs' = [txs EXCEPT ![t].result = "Reverted"]
            /\ UNCHANGED chain
  BY DEF Mine
<1>2. /\ txs[t] \in SentTx
      /\ id \in RideRequest
      /\ txs[t].call \in CallName
      /\ txs[t].driver \in Wallet \cup {NoWallet}
      /\ ride_requests[id].status # "Absent"
      /\ txs[t].call = "acceptRide" <=> txs[t].driver # NoWallet
  BY <1>1 DEF SyncIInv, OwnTypes, TxsType, SentTx, Unsent, ChainInv, SentPosted
<1>3. PICK result \in {"Success", "Reverted"} : txs' = [txs EXCEPT ![t].result = result]
  BY <1>1
<1> DEFINE row == [txs[t] EXCEPT !.result = result]
<1>4. /\ row \in SentTx
      /\ row.ride = txs[t].ride
      /\ row.driver = txs[t].driver
      /\ row.call = txs[t].call
      /\ row.result = result
      /\ txs' = [txs EXCEPT ![t] = row]
  BY <1>2, <1>3 DEF SentTx, TxResult
<1> HIDE DEF row
<1>5. /\ TxsType'
      /\ txs'[t] = row
      /\ \A x \in TxHash \ {t} : txs'[x] = txs[x]
  BY <1>4 DEF SyncIInv, OwnTypes, TxsType
\* The ride on the chain: as it was, or accepted with a driver, and kept.
<1>6. /\ ChainType'
      /\ \A x \in RideRequest \ {id} : chain'[x] = chain[x]
      /\ chain[id].status # "Requested" =>
            chain'[id].status # "Requested" /\ chain'[id].driver = chain[id].driver
      /\ chain'[id].status # "Requested" => chain'[id].driver \in Wallet
      /\ txs'[t].result = "Success" => chain'[id].status # "Requested"
  <2>1. chain \in [RideRequest -> ChainRide] /\ chain[id] \in ChainRide
    BY <1>2 DEF SyncIInv, OwnTypes, ChainType
  <2>2. chain[id].status # "Requested" => chain[id].driver \in Wallet
    BY <1>2 DEF SyncIInv, ChainInv, ChainDrivers
  <2>3. CASE UNCHANGED chain /\ txs' = [txs EXCEPT ![t].result = "Reverted"]
    <3>1. txs'[t].result = "Reverted"
      BY <1>2, <2>3 DEF SyncIInv, OwnTypes, TxsType, SentTx
    <3> QED
      BY <2>1, <2>2, <2>3, <3>1 DEF ChainType
  <2>4. CASE /\ chain[id].status \in Call[txs[t].call].from
             /\ chain' = [chain EXCEPT ![id].status = to, ![id].driver = d]
    <3>1. to \in ChainStatus /\ to # "Requested"
      BY <1>2, CallFacts
    <3>2. d \in Wallet /\ (chain[id].status # "Requested" => d = chain[id].driver)
      BY <1>2, <2>2, <2>4, CallFacts
    <3> HIDE DEF to, d
    <3>3. /\ chain'[id] = [chain[id] EXCEPT !.status = to, !.driver = d]
          /\ \A x \in RideRequest \ {id} : chain'[x] = chain[x]
          /\ chain' \in [RideRequest -> ChainRide]
      BY <1>2, <2>1, <2>4, <3>1, <3>2 DEF ChainRide
    <3>4. chain'[id].status = to /\ chain'[id].driver = d
      BY <2>1, <3>3 DEF ChainRide
    <3> QED
      BY <3>1, <3>2, <3>3, <3>4 DEF ChainType
  <2> QED
    BY <1>1, <2>3, <2>4
<1>7. \A e \in chain_events : /\ e.tx \in TxHash \ {t}
                              /\ txs[e.tx].ride \in RideRequest
                              /\ chain[txs[e.tx].ride].status # "Requested"
  <2> SUFFICES ASSUME NEW e \in chain_events
               PROVE  /\ e.tx \in TxHash \ {t}
                      /\ txs[e.tx].ride \in RideRequest
                      /\ chain[txs[e.tx].ride].status # "Requested"
    OBVIOUS
  <2>1. e.tx \in TxHash /\ txs[e.tx].result = "Success"
    BY DEF SyncIInv, ChainInv, EventsMined, OwnTypes, EventsType
  <2>2. txs[e.tx] \in SentTx
    BY <2>1 DEF SyncIInv, OwnTypes, TxsType, Unsent
  <2> QED
    BY <1>1, <2>1, <2>2 DEF SentTx, SyncIInv, ChainInv, ChainDrivers
<1>8. SentPosted'
  BY <1>1, <1>2, <1>4, <1>5 DEF SyncIInv, ChainInv, SentPosted, marketVars
<1>9. ChainDrivers'
  <2>1. \A x \in RideRequest : chain'[x].status # "Requested" => chain'[x].driver \in Wallet
    BY <1>6 DEF SyncIInv, ChainInv, ChainDrivers
  <2>2. ASSUME NEW x \in TxHash, txs'[x].result = "Success"
        PROVE  chain'[txs'[x].ride].status # "Requested"
    <3>1. CASE x = t
      BY <1>4, <1>5, <1>6, <2>2, <3>1
    <3>2. CASE x # t
      <4>1. txs'[x] = txs[x] /\ txs[x].ride \in RideRequest
        BY <1>5, <2>2, <3>2 DEF SyncIInv, OwnTypes, TxsType, SentTx, Unsent
      <4>2. chain[txs[x].ride].status # "Requested"
        BY <2>2, <4>1 DEF SyncIInv, ChainInv, ChainDrivers
      <4> QED
        BY <1>6, <4>1, <4>2
    <3> QED
      BY <3>1, <3>2
  <2> QED
    BY <2>1, <2>2 DEF ChainDrivers
<1>10. EventsMined'
  BY <1>1, <1>5, <1>7 DEF SyncIInv, ChainInv, EventsMined, marketVars
<1>11. DriverIsTheChains'
  <2>1. \A x \in RideRequest : chain[x].status # "Requested" => chain'[x].driver = chain[x].driver
    BY <1>6
  <2> QED
    BY <1>1, <1>5, <1>7, <2>1 DEF SyncIInv, ChainInv, DriverIsTheChains, marketVars
<1>12. OwnTypes' /\ RecordsKept'
  BY <1>1, <1>5, <1>6 DEF SyncIInv, OwnTypes, EventsType, RecordsType, PollingType, RecordsKept
<1>13. Posted'
  BY <1>1 DEF SyncIInv, Posted, MarketTypeOK, OpenIsUnmatched, OffersFollowRides, marketVars
<1> QED
  BY <1>8, <1>9, <1>10, <1>11, <1>12, <1>13 DEF SyncIInv, ChainInv

\* What writes records only, or a request that waits for a receipt, leaves the rest.
LEMMA RecordStep ==
    ASSUME SyncIInv, UNCHANGED <<marketVars, chain, txs, chain_events>>, PollingType',
           tx_records' \in [TxHash -> TxRecord],
           \A t \in TxHash : RecordGoesOn(tx_records[t], tx_records'[t])
    PROVE  SyncIInv'
<1>1. Posted'
  BY DEF SyncIInv, Posted, MarketTypeOK, OpenIsUnmatched, OffersFollowRides, marketVars
<1>2. OwnTypes'
  BY DEF SyncIInv, OwnTypes, ChainType, TxsType, EventsType, RecordsType
<1>3. RidesGoOn
  BY DEF RidesGoOn, marketVars
<1>4. ChainInv'
  BY <1>3, ChainInvKept DEF SyncIInv
<1>5. RecordsKept'
  BY DEF SyncIInv, RecordsKept, RecordGoesOn, OwnTypes, EventsType
<1> QED
  BY <1>1, <1>2, <1>4, <1>5 DEF SyncIInv

\* A client records any transaction, with any status.
LEMMA RecordTxFacts ==
    ASSUME SyncIInv, NEW t \in TxHash, NEW status \in RecordStatus, record_tx(t, status)
    PROVE  /\ SyncIInv'
           /\ \A x \in TxHash : RecordGoesOn(tx_records[x], tx_records'[x])
<1> DEFINE record == Upserted(tx_records[t], status)
<1>1. /\ tx_records' = [tx_records EXCEPT ![t] = record]
      /\ UNCHANGED <<marketVars, chain, txs, chain_events, polling>>
  BY DEF record_tx
<1>2. /\ tx_records \in [TxHash -> TxRecord]
      /\ \A x \in TxHash : RecordGoesOn(tx_records[x], tx_records[x])
  BY DEF SyncIInv, OwnTypes, RecordsType, RecordsKept, RecordGoesOn
<1>3. record \in TxRecord /\ RecordGoesOn(tx_records[t], record)
  BY <1>2, UpsertGoesOn
<1> HIDE DEF record
<1>4. /\ tx_records' \in [TxHash -> TxRecord]
      /\ \A x \in TxHash : RecordGoesOn(tx_records[x], tx_records'[x])
  BY <1>1, <1>2, <1>3
<1>5. PollingType'
  BY <1>1 DEF SyncIInv, OwnTypes, PollingType
<1> QED
  BY <1>1, <1>4, <1>5, RecordStep

\* A request for a status reads the record, and writes what the receipt says or
\* gives up.
LEMMA PollFacts ==
    ASSUME SyncIInv, NEW p \in Poller,
           (\E t \in TxHash : PollRead(p, t)) \/ PollWrite(p) \/ PollNothing(p)
    PROVE  /\ SyncIInv'
           /\ \A x \in TxHash : RecordGoesOn(tx_records[x], tx_records'[x])
<1>1. PollingType' /\ UNCHANGED <<marketVars, chain, txs, chain_events>>
  BY DEF SyncIInv, OwnTypes, PollingType, PollRead, PollWrite, PollNothing
<1>2. /\ tx_records \in [TxHash -> TxRecord]
      /\ \A x \in TxHash : RecordGoesOn(tx_records[x], tx_records[x])
  BY DEF SyncIInv, OwnTypes, RecordsType, RecordsKept, RecordGoesOn
<1>3. /\ tx_records' \in [TxHash -> TxRecord]
      /\ \A x \in TxHash : RecordGoesOn(tx_records[x], tx_records'[x])
  <2>1. CASE tx_records' = tx_records
    BY <1>2, <2>1
  <2>2. CASE PollWrite(p)
    <3> DEFINE t == polling[p]
               record == [status |-> IF txs[t].result = "Success" THEN "confirmed" ELSE "failed",
                          confirmed_at |-> TRUE]
    <3>1. t \in TxHash /\ tx_records' = [tx_records EXCEPT ![t] = record]
      BY <2>2 DEF PollWrite, SyncIInv, OwnTypes, PollingType
    <3>2. record \in TxRecord /\ RecordGoesOn(tx_records[t], record)
      BY DEF TxRecord, RecordStatus, RecordGoesOn
    <3> HIDE DEF t, record
    <3> QED
      BY <1>2, <3>1, <3>2
  <2> QED
    BY <2>1, <2>2 DEF PollRead, PollNothing
<1> QED
  BY <1>1, <1>3, RecordStep

\* The marketplace's steps, and a restart, leave what ChainSync adds alone, but for
\* the requests a restart ends.
LEMMA MarketKeeps ==
    ASSUME SyncIInv,
           \/ \E a \in Wallet, id \in RideRequest : RideTransaction(a, id) /\ UNCHANGED chainVars
           \/ Offering /\ UNCHANGED chainVars
           \/ RestartAll
           \/ UNCHANGED syncVars
    PROVE  SyncIInv'
<1>1. Posted' /\ RidesGoOn
  BY MarketGoesOn DEF SyncIInv, RestartAll, syncVars
<1>2. UNCHANGED <<chain, txs, chain_events, tx_records>>
  BY DEF chainVars, RestartAll, syncVars
<1>3. OwnTypes' /\ RecordsKept'
  BY <1>2 DEF SyncIInv, OwnTypes, ChainType, TxsType, EventsType, RecordsType, PollingType,
              chainVars, RestartAll, syncVars, RecordsKept
<1>4. ChainInv'
  BY <1>1, <1>2, ChainInvKept DEF SyncIInv
<1> QED
  BY <1>1, <1>3, <1>4 DEF SyncIInv

\* Every step keeps the invariant.
LEMMA SyncNextKeeps == SyncIInv /\ [SyncNext]_syncVars => SyncIInv'
BY BatchKeeps, MarketKeeps, SendKeeps, MineKeeps, RecordTxFacts, PollFacts DEF SyncNext

\* The empty tables and a chain without transactions have it.
LEMMA SyncInitHolds == SyncInit => SyncIInv
<1> SUFFICES ASSUME SyncInit PROVE SyncIInv
  OBVIOUS
<1>1. Posted
  BY InitPosted DEF SyncInit
<1>2. OwnTypes
  BY DEF SyncInit, OwnTypes, ChainType, ChainRide, ChainStatus, TxsType, EventsType, RecordsType,
         PollingType, TxRecord, NoRecord
<1>3. ChainInv /\ RecordsKept
  BY DEF SyncInit, ChainInv, SentPosted, ChainDrivers, EventsMined, DriverIsTheChains, RecordsKept,
         Unsent, NoRecord
<1> QED
  BY <1>1, <1>2, <1>3 DEF SyncIInv

\* Every reachable state has the invariant.
LEMMA AlwaysSynced == SyncSpec => []SyncIInv
BY SyncInitHolds, SyncNextKeeps, PTL DEF SyncSpec

-----------------------------------------------------------------------------
(***************************************************************************)
(* The theorems.                                                           *)
(***************************************************************************)

\* Whatever the order in which events arrive and requests stop, every table, every
\* record and every transaction has its type, and an event belongs to one of the
\* transactions that were sent.
THEOREM SyncTypeCorrect == SyncSpec => []SyncTypeOK
<1>1. SyncIInv => SyncTypeOK
  BY DEF SyncIInv, SyncTypeOK, Posted, OwnTypes, ChainType, ChainRide, TxsType, SentTx, EventsType,
         RecordsType, TxRecord, PollingType
<1> QED
  BY <1>1, AlwaysSynced, PTL

\* Any number of clients, deliveries and slow RPC answers overwrite each other's
\* records, with whatever statuses they like: the time of a confirmation is never
\* lost, and an ingested event has left a record.
THEOREM ConfirmationsAreKept == SyncSpec => ConfirmationsKept
<1> DEFINE Kept ==
      /\ \A t \in TxHash :
             tx_records[t].status = "confirmed" \/ tx_records[t].confirmed_at =>
                tx_records'[t].confirmed_at
      /\ \A e \in chain_events' : tx_records'[e.tx].status # "none"
<1>1. SyncIInv /\ [SyncNext]_syncVars => [Kept]_syncVars
  <2> SUFFICES ASSUME SyncIInv, [SyncNext]_syncVars PROVE Kept
    OBVIOUS
  <2>1. RecordsKept'
    BY SyncNextKeeps DEF SyncIInv
  <2>2. ASSUME NEW t \in TxHash
        PROVE  tx_records[t].status = "confirmed" \/ tx_records[t].confirmed_at =>
                  tx_records'[t].confirmed_at
    <3>1. CASE \A x \in TxHash : RecordGoesOn(tx_records[x], tx_records'[x])
      BY <3>1 DEF RecordGoesOn
    <3>2. CASE ingest_events
      BY <3>1, <3>2, BatchFacts DEF Midway
    <3>3. CASE tx_records' = tx_records
      BY <3>3 DEF SyncIInv, RecordsKept
    <3> QED
      BY <3>1, <3>2, <3>3, RecordTxFacts, PollFacts
         DEF SyncNext, chainVars, syncVars, Send, Mine, RestartAll
  <2> QED
    BY <2>1, <2>2 DEF RecordsKept
<1> QED
  BY <1>1, AlwaysSynced, PTL DEF SyncSpec, ConfirmationsKept

\* Whoever was selected, once an event has told the driver of the chain's ride, the
\* driver the backend shows is that one, whatever the chain and the backend do after
\* it, in any order.
THEOREM DriverAgrees == SyncSpec => []DriverIsTheChains
<1>1. SyncIInv => DriverIsTheChains
  BY DEF SyncIInv, ChainInv
<1> QED
  BY <1>1, AlwaysSynced, PTL

\* No step touches an offer of a ride whose driver it changes, but a selection does.
LEMMA SyncAgrees ==
    ASSUME SyncIInv, [SyncNext]_syncVars, NEW id \in RideRequest, Agrees(id)
    PROVE  Agrees(id)'
<1>1. CASE ingest_events
  <2>1. UNCHANGED driver_offers
    BY <1>1, BatchFacts
  <2> QED
    BY <1>1, <2>1, BatchRow, ReportedIsPast, AgreesKept, AgreesRestated
<1>2. CASE [MarketNext]_marketVars
  BY <1>2, NextAgrees DEF SyncIInv
<1> QED
  BY <1>1, <1>2
     DEF SyncNext, Send, Mine, record_tx, PollRead, PollWrite, PollNothing, RestartAll,
         MarketNext, syncVars

\* The chain accepts rides at any time and with any driver, and its events come
\* repeated, reordered and batched as they may: the two tables still agree on what was
\* selected.
THEOREM TablesAgreeWithEvents == SyncSpec => []SelectionAgrees
<1> DEFINE AllAgree == \A id \in RideRequest : Agrees(id)
<1>1. SyncInit => AllAgree
  BY MarketAssumption DEF SyncInit, MarketInit, Agrees, SelectedFor, NoRide, NoOffer
<1>2. SyncIInv /\ AllAgree /\ [SyncNext]_syncVars => AllAgree'
  BY SyncAgrees
<1>3. AllAgree => SelectionAgrees
  BY DEF Agrees, SelectionAgrees
<1> HIDE DEF AllAgree
<1> QED
  BY <1>1, <1>2, <1>3, AlwaysSynced, PTL DEF SyncSpec

\* Delivered any number of times and in any order, an event acts once: a step that sets
\* a ride back, reopens it after its end, starts it, or changes its driver after the
\* selection is one that ingests an event of the ride for the first time, and leaves
\* the ride in the status that event reports.
THEOREM EventsActOnce == SyncSpec => AppliedOnce
<1> DEFINE Once ==
      \A id \in RideRequest :
          ride_requests'[id] # ride_requests[id] =>
             FirstDelivery(id) \/ GoesOn(ride_requests[id], ride_requests'[id])
<1>1. SyncIInv /\ [SyncNext]_syncVars => [Once]_syncVars
  <2> SUFFICES ASSUME SyncIInv, [SyncNext]_syncVars, NEW id \in RideRequest,
                      ride_requests'[id] # ride_requests[id]
               PROVE  FirstDelivery(id) \/ GoesOn(ride_requests[id], ride_requests'[id])
    OBVIOUS
  <2>1. CASE ingest_events
    BY <2>1, BatchRow
  <2>2. CASE \/ \E a \in Wallet, x \in RideRequest : RideTransaction(a, x)
             \/ Offering \/ Restart
    BY <2>2, MarketGoesOn DEF SyncIInv
  <2>3. CASE UNCHANGED marketVars
    BY <2>3 DEF marketVars
  <2> QED
    BY <2>1, <2>2, <2>3
       DEF SyncNext, Send, Mine, record_tx, PollRead, PollWrite, PollNothing, RestartAll, syncVars
<1> QED
  BY <1>1, AlwaysSynced, PTL DEF SyncSpec, AppliedOnce

-----------------------------------------------------------------------------
(***************************************************************************)
(* Ratings: a rating is for the driver who drove, and an average is what   *)
(* the ratings given say it is, however the requests overlap.              *)
(***************************************************************************)

Average == [num : Nat, den : Nat \ {0}, count : Nat]

RatingRequest ==
    [ride : RideRequest \cup {NoRequest}, driver : Wallet \cup {NoWallet}, stars : Nat,
     old : Average, next : {"ride", "driver", "update"}]

RatingTypeOK ==
    /\ ride_ratings \in [RideRequest -> [driver : Wallet \cup {NoWallet}, stars : Nat]]
    /\ drivers \in [Wallet -> Average]
    /\ rating \in [Rater -> RatingRequest]

\* The ride is over and was d's.
DrivenBy(id, d) ==
    ride_requests[id].status = "COMPLETED" /\ ride_requests[id].driver = d

\* A request that has its ride's row is about a ride that is over, and about the
\* driver of it.
InProgressIsDriven ==
    \A r \in Rater : rating[r].next # "ride" =>
        /\ rating[r].ride \in RideRequest
        /\ rating[r].driver \in Wallet
        /\ DrivenBy(rating[r].ride, rating[r].driver)

\* A request about to commit knows the driver's present row, and no other is
\* about to commit one of that driver: the lock of the driver's row.
HoldsPresent ==
    \A r \in Rater : rating[r].next = "update" =>
        /\ rating[r].old = drivers[rating[r].driver]
        /\ \A s \in Rater \ {r} :
              rating[s].next = "update" => rating[s].driver # rating[r].driver

RatingIInv == Posted /\ RatingTypeOK /\ InProgressIsDriven /\ HoldsPresent

-----------------------------------------------------------------------------
\* A transaction on one ride leaves the rows of the others.
LEMMA OthersRest ==
    ASSUME Posted, NEW a \in Wallet, NEW id \in RideRequest, RideTransaction(a, id),
           NEW x \in RideRequest \ {id}
    PROVE  ride_requests'[x] = ride_requests[x]
<1>1. MarketTypeOK
  BY DEF Posted
<1>2. CASE create_ride(a, id)
  BY <1>1, <1>2 DEF create_ride, MarketTypeOK
<1>3. CASE \E o \in OfferId : select_driver(a, id, o)
  BY <1>3, SelectFacts
<1>4. CASE \E status \in RideStatus \ {"Absent", "OPEN"} : Restatus(id, status)
  BY <1>4, RestatusPosted
<1>5. {"ONCHAIN_ACCEPTED", "STARTED", "DISPUTED", "COMPLETED", "CANCELLED"} \subseteq
         RideStatus \ {"Absent", "OPEN"}
  BY DEF RideStatus, CANCELLABLE_STATUSES, ACTIVE_DRIVER_RIDE_STATUSES
<1> QED
  BY <1>1, <1>2, <1>3, <1>4, <1>5, TransactionCases

\* What runs elsewhere leaves the row of a ride being rated: the request holds it.
LEMMA HeldRest ==
    ASSUME Posted, Elsewhere, NEW r \in Rater, rating[r].ride \in RideRequest
    PROVE  ride_requests'[rating[r].ride] = ride_requests[rating[r].ride]
<1>1. CASE \E id \in RideRequest :
              ~ RideHeld(id) /\ ((\E a \in Wallet : RideTransaction(a, id)) \/ Reporting(id))
  <2>1. PICK id \in RideRequest :
           ~ RideHeld(id) /\ ((\E a \in Wallet : RideTransaction(a, id)) \/ Reporting(id))
    BY <1>1
  <2>2. rating[r].ride \in RideRequest \ {id}
    BY <2>1 DEF RideHeld
  <2> QED
    BY <2>1, <2>2, OthersRest, ReportFacts
<1>2. CASE Offering
  BY <1>2 DEF Offering, ReadRide, ReadDuplicates, InsertOffer
<1> QED
  BY <1>1, <1>2 DEF Elsewhere

\* The requests that are not in progress.
LEMMA RestingRequest ==
    /\ NoRequestInProgress \in RatingRequest
    /\ NoRequestInProgress.next = "ride"
    /\ NotRated \in Average
BY DEF NoRequestInProgress, RatingRequest, NotRated, Average

\* Writing a rating into the average keeps the row's type.
LEMMA NewAverageTyped ==
    ASSUME NEW old \in Average, NEW stars \in Nat
    PROVE  NewAverage(old, stars) \in Average
<1>1. old.num \in Nat /\ old.den \in Nat \ {0} /\ old.count \in Nat
  BY DEF Average
<1>2. /\ old.num * old.count \in Nat
      /\ stars * old.den \in Nat
  BY <1>1
<1>3. old.den * (old.count + 1) \in Nat \ {0}
  <2> DEFINE d == old.den
             c == old.count
  <2>1. d \in Nat /\ d >= 1 /\ c \in Nat
    BY <1>1
  <2> HIDE DEF d, c
  <2>2. d * c \in Nat /\ d * (c + 1) = d * c + d
    BY <2>1
  <2> QED
    BY <2>1, <2>2 DEF d, c
<1> QED
  BY <1>1, <1>2, <1>3 DEF NewAverage, Average

\* The empty tables.
LEMMA InitRating == RatingInit => RatingIInv
<1> SUFFICES ASSUME RatingInit PROVE RatingIInv
  OBVIOUS
<1>1. Posted
  BY InitPosted DEF RatingInit
<1>2. RatingTypeOK
  BY RestingRequest DEF RatingInit, RatingTypeOK, NoRating
<1>3. InProgressIsDriven /\ HoldsPresent
  BY RestingRequest DEF RatingInit, InProgressIsDriven, HoldsPresent
<1> QED
  BY <1>1, <1>2, <1>3 DEF RatingIInv

-----------------------------------------------------------------------------
(***************************************************************************)
(* One lemma for each kind of step.                                        *)
(***************************************************************************)

\* A step of the marketplace alone, that leaves the rows that are held.
LEMMA ElsewhereKeeps ==
    ASSUME RatingIInv, [MarketNext]_marketVars, UNCHANGED <<ride_ratings, drivers>>,
           \/ /\ UNCHANGED rating
              /\ \A r \in Rater : rating[r].ride \in RideRequest =>
                    ride_requests'[rating[r].ride] = ride_requests[rating[r].ride]
           \/ rating' = [r \in Rater |-> NoRequestInProgress]
    PROVE  RatingIInv'
<1>1. Posted'
  BY NextPosted DEF RatingIInv
<1>2. RatingTypeOK'
  BY RestingRequest DEF RatingIInv, RatingTypeOK
<1>3. InProgressIsDriven'
  BY RestingRequest DEF RatingIInv, InProgressIsDriven, DrivenBy
<1>4. HoldsPresent'
  BY RestingRequest DEF RatingIInv, HoldsPresent
<1> QED
  BY <1>1, <1>2, <1>3, <1>4 DEF RatingIInv

\* The marketplace's rows keep their types while it rests.
LEMMA MarketRests ==
    ASSUME Posted, UNCHANGED marketVars
    PROVE  Posted'
BY DEF Posted, MarketTypeOK, OpenIsUnmatched, OffersFollowRides, marketVars

\* A request takes its ride's row.
LEMMA LockRideKeeps ==
    ASSUME RatingIInv, NEW r \in Rater, NEW a \in Wallet, NEW id \in RideRequest,
           NEW stars \in Stars, LockRide(r, a, id, stars)
    PROVE  RatingIInv'
<1> DEFINE q == [ride |-> id, driver |-> ride_requests[id].driver, stars |-> stars,
                 old |-> NotRated, next |-> "driver"]
<1>1. /\ rating' = [rating EXCEPT ![r] = q]
      /\ UNCHANGED <<marketVars, ride_ratings, drivers>>
      /\ ride_requests[id].status = "COMPLETED"
      /\ ride_requests[id].driver # NoWallet
  BY DEF LockRide
<1>2. ride_requests[id].driver \in Wallet
  BY <1>1, RideRowFacts DEF RatingIInv, Posted, MarketTypeOK
<1>3. q \in RatingRequest
  BY <1>2, RatingAssumption, RestingRequest DEF RatingRequest
<1>4. /\ ride_requests' = ride_requests
      /\ \A s \in Rater : rating'[s] = IF s = r THEN q ELSE rating[s]
  BY <1>1 DEF RatingIInv, RatingTypeOK, marketVars
<1>5. Posted'
  BY <1>1, MarketRests DEF RatingIInv
<1>6. RatingTypeOK'
  BY <1>1, <1>3 DEF RatingIInv, RatingTypeOK
<1>7. InProgressIsDriven'
  BY <1>1, <1>2, <1>4 DEF RatingIInv, InProgressIsDriven, DrivenBy
<1>8. HoldsPresent'
  BY <1>1, <1>4 DEF RatingIInv, HoldsPresent
<1> QED
  BY <1>5, <1>6, <1>7, <1>8 DEF RatingIInv

\* A request takes its driver's row and reads it.
LEMMA LockDriverKeeps ==
    ASSUME RatingIInv, NEW r \in Rater, LockDriver(r)
    PROVE  RatingIInv'
<1> DEFINE q == [rating[r] EXCEPT !.old = drivers[rating[r].driver], !.next = "update"]
<1>1. /\ rating[r].next = "driver"
      /\ DriverFree(rating[r].driver)
      /\ UNCHANGED <<marketVars, ride_ratings, drivers>>
  BY DEF LockDriver
<1>2. rating[r] \in RatingRequest
  BY DEF RatingIInv, RatingTypeOK
<1>3. rating' = [rating EXCEPT ![r] = q]
  BY DEF LockDriver
<1>4. rating[r].driver \in Wallet /\ drivers[rating[r].driver] \in Average
  BY <1>1 DEF RatingIInv, RatingTypeOK, InProgressIsDriven
<1>5. /\ q \in RatingRequest
      /\ q.ride = rating[r].ride
      /\ q.driver = rating[r].driver
      /\ q.old = drivers[rating[r].driver]
      /\ q.next = "update"
  BY <1>2, <1>4 DEF RatingRequest
<1> HIDE DEF q
<1>6. /\ ride_requests' = ride_requests
      /\ \A s \in Rater : rating'[s] = IF s = r THEN q ELSE rating[s]
  BY <1>1, <1>3 DEF RatingIInv, RatingTypeOK, marketVars
<1>7. Posted'
  BY <1>1, MarketRests DEF RatingIInv
<1>8. RatingTypeOK'
  BY <1>1, <1>3, <1>5 DEF RatingIInv, RatingTypeOK
<1>9. InProgressIsDriven'
  BY <1>1, <1>5, <1>6 DEF RatingIInv, InProgressIsDriven, DrivenBy
<1>10. HoldsPresent'
  <2>1. \A s \in Rater \ {r} :
           rating[s].next = "update" => rating[s].driver # rating[r].driver
    BY <1>1 DEF DriverFree
  <2> QED
    BY <1>1, <1>5, <1>6, <2>1 DEF RatingIInv, HoldsPresent
<1> QED
  BY <1>7, <1>8, <1>9, <1>10 DEF RatingIInv

\* A request writes the average and its rating.
LEMMA CommitKeeps ==
    ASSUME RatingIInv, NEW r \in Rater, Commit(r)
    PROVE  RatingIInv'
<1> DEFINE new == NewAverage(rating[r].old, rating[r].stars)
           row == [driver |-> rating[r].driver, stars |-> rating[r].stars]
<1>1. /\ rating[r].next = "update"
      /\ drivers' = [drivers EXCEPT ![rating[r].driver] = new]
      /\ ride_ratings' = [ride_ratings EXCEPT ![rating[r].ride] = row]
      /\ rating' = [rating EXCEPT ![r] = NoRequestInProgress]
      /\ UNCHANGED marketVars
  BY DEF Commit
<1>2. /\ rating[r].ride \in RideRequest
      /\ rating[r].driver \in Wallet
      /\ DrivenBy(rating[r].ride, rating[r].driver)
  BY <1>1 DEF RatingIInv, InProgressIsDriven
<1>3. rating[r].stars \in Nat /\ rating[r].old \in Average
  BY DEF RatingIInv, RatingTypeOK, RatingRequest
<1>4. new \in Average
  BY <1>3, NewAverageTyped
<1> HIDE DEF new
<1>5. /\ ride_requests' = ride_requests
      /\ \A s \in Rater : rating'[s] = IF s = r THEN NoRequestInProgress ELSE rating[s]
      /\ \A id \in RideRequest :
            ride_ratings'[id] = IF id = rating[r].ride THEN row ELSE ride_ratings[id]
      /\ \A d \in Wallet : d # rating[r].driver => drivers'[d] = drivers[d]
  BY <1>1, <1>2 DEF RatingIInv, RatingTypeOK, marketVars
<1>6. Posted'
  BY <1>1, MarketRests DEF RatingIInv
<1>7. RatingTypeOK'
  BY <1>1, <1>2, <1>3, <1>4, RestingRequest DEF RatingIInv, RatingTypeOK
<1>8. InProgressIsDriven'
  BY <1>5, RestingRequest DEF RatingIInv, InProgressIsDriven, DrivenBy
<1>9. HoldsPresent'
  <2>1. ASSUME NEW s \in Rater, rating'[s].next = "update"
        PROVE  /\ rating'[s] = rating[s]
               /\ s # r
               /\ rating[s].driver \in Wallet
               /\ rating[s].driver # rating[r].driver
    BY <2>1, <1>1, <1>5, RestingRequest DEF RatingIInv, HoldsPresent, InProgressIsDriven
  <2> QED
    BY <2>1, <1>5 DEF RatingIInv, HoldsPresent
<1> QED
  BY <1>6, <1>7, <1>8, <1>9 DEF RatingIInv

\* A statement of a request failed.
LEMMA AbortKeeps ==
    ASSUME RatingIInv, NEW r \in Rater, Abort(r)
    PROVE  RatingIInv'
<1>1. /\ rating' = [rating EXCEPT ![r] = NoRequestInProgress]
      /\ UNCHANGED <<marketVars, ride_ratings, drivers>>
  BY DEF Abort
<1>2. /\ ride_requests' = ride_requests
      /\ \A s \in Rater : rating'[s] = IF s = r THEN NoRequestInProgress ELSE rating[s]
  BY <1>1 DEF RatingIInv, RatingTypeOK, marketVars
<1>3. Posted'
  BY <1>1, MarketRests DEF RatingIInv
<1>4. RatingTypeOK'
  BY <1>1, RestingRequest DEF RatingIInv, RatingTypeOK
<1>5. InProgressIsDriven' /\ HoldsPresent'
  BY <1>1, <1>2, RestingRequest DEF RatingIInv, InProgressIsDriven, HoldsPresent, DrivenBy
<1> QED
  BY <1>3, <1>4, <1>5 DEF RatingIInv

-----------------------------------------------------------------------------
\* Every step is one of these.
LEMMA NextRating == RatingIInv /\ [RatingNext]_feedbackVars => RatingIInv'
<1> SUFFICES ASSUME RatingIInv, [RatingNext]_feedbackVars
             PROVE  RatingIInv'
  OBVIOUS
<1>1. CASE Elsewhere
  <2>1. MarketNext
    BY <1>1 DEF Elsewhere, MarketNext
  <2>2. UNCHANGED <<ride_ratings, drivers>> /\ UNCHANGED rating
    BY <1>1 DEF Elsewhere, ratingVars
  <2>3. \A r \in Rater : rating[r].ride \in RideRequest =>
           ride_requests'[rating[r].ride] = ride_requests[rating[r].ride]
    BY <1>1, HeldRest DEF RatingIInv
  <2> QED
    BY <2>1, <2>2, <2>3, ElsewhereKeeps
<1>2. CASE \E r \in Rater :
              \/ \E a \in Wallet, id \in RideRequest, stars \in Stars : LockRide(r, a, id, stars)
              \/ LockDriver(r)
              \/ Commit(r)
              \/ Abort(r)
  BY <1>2, LockRideKeeps, LockDriverKeeps, CommitKeeps, AbortKeeps
<1>3. CASE RestartService
  <2>1. MarketNext
    BY <1>3 DEF RestartService, MarketNext
  <2> QED
    BY <1>3, <2>1, ElsewhereKeeps DEF RestartService
<1>4. CASE UNCHANGED feedbackVars
  BY <1>4, ElsewhereKeeps DEF feedbackVars, ratingVars, marketVars
<1> QED
  BY <1>1, <1>2, <1>3, <1>4 DEF RatingNext

\* Every reachable state has it.
LEMMA AlwaysRating == RatingSpec => []RatingIInv
BY InitRating, NextRating, PTL DEF RatingSpec

\* The tables' rows and the requests keep their types; no average has a zero
\* denominator (rate_ride divides by a count that is at least one).
THEOREM RatingTypeCorrect == RatingSpec => []RatingTypeOK
<1>1. RatingIInv => RatingTypeOK
  BY DEF RatingIInv
<1> QED
  BY <1>1, AlwaysRating, PTL

\* No rating is lost: a request that is about to write an average computed it
\* from the driver's present row, and is the only one about to write it.
THEOREM AveragesArePresent == RatingSpec => []HoldsPresent
<1>1. RatingIInv => HoldsPresent
  BY DEF RatingIInv
<1> QED
  BY <1>1, AlwaysRating, PTL

-----------------------------------------------------------------------------
(***************************************************************************)
(* The average: the fraction in a driver's row is the mean of the driver's *)
(* ratings.  A commit adds the rating of a ride that had none, because the *)
(* request holds the ride's row from the moment it found none, and adds it *)
(* to the average of all the others, because it holds the driver's.        *)
(***************************************************************************)

\* A ride being rated has no rating, and one request at a time rates it.
RatesUnrated ==
    \A r \in Rater : rating[r].next # "ride" =>
        /\ rating[r].stars \in Stars
        /\ ride_ratings[rating[r].ride] = NoRating
        /\ \A s \in Rater \ {r} :
              rating[s].next # "ride" => rating[s].ride # rating[r].ride

\* Driver d's row adds up.
Mean(d) ==
    /\ IsFiniteSet(RatedFor(d))
    /\ drivers[d].count = Cardinality(RatedFor(d))
    /\ drivers[d].num * drivers[d].count =
          drivers[d].den * SumFunctionOnSet(StarsGiven, RatedFor(d))

AverageIInv == RatingIInv /\ RatesUnrated /\ \A d \in Wallet : Mean(d)

\* The empty tables.
LEMMA InitAverage == RatingInit => AverageIInv
<1> SUFFICES ASSUME RatingInit PROVE AverageIInv
  OBVIOUS
<1>1. RatingIInv
  BY InitRating
<1>2. RatesUnrated
  BY RestingRequest DEF RatingInit, RatesUnrated
<1>3. ASSUME NEW d \in Wallet PROVE Mean(d)
  <2>1. RatedFor(d) = {}
    BY MarketAssumption DEF RatingInit, RatedFor, NoRating
  <2>2. drivers[d].num = 0 /\ drivers[d].den = 1 /\ drivers[d].count = 0
    BY DEF RatingInit, NotRated
  <2> QED
    BY <2>1, <2>2, FS_EmptySet, SumEmpty DEF Mean
<1> QED
  BY <1>1, <1>2, <1>3 DEF AverageIInv

\* Where no rating is inserted no average changes.
LEMMA MeansRest ==
    ASSUME \A d \in Wallet : Mean(d), UNCHANGED <<ride_ratings, drivers>>
    PROVE  (\A d \in Wallet : Mean(d))'
<1>1. ASSUME NEW d \in Wallet
      PROVE  RatedFor(d)' = RatedFor(d) /\ StarsGiven' = StarsGiven
  BY DEF RatedFor, StarsGiven
<1> QED
  BY <1>1 DEF Mean

\* The arithmetic of NewAverage: an average of n ratings and one more.
LEMMA OneMore ==
    ASSUME NEW old \in Average, NEW stars \in Nat, NEW sum \in Nat,
           old.num * old.count = old.den * sum
    PROVE  /\ NewAverage(old, stars).count = old.count + 1
           /\ NewAverage(old, stars).num * (old.count + 1) =
                 NewAverage(old, stars).den * (sum + stars)
<1> DEFINE n == old.num
           d == old.den
           c == old.count
<1>1. n \in Nat /\ d \in Nat /\ c \in Nat /\ n * c = d * sum
  BY DEF Average
<1>2. /\ NewAverage(old, stars).num = n * c + stars * d
      /\ NewAverage(old, stars).den = d * (c + 1)
      /\ NewAverage(old, stars).count = c + 1
  BY DEF NewAverage
<1> HIDE DEF n, d, c
<1>3. n * c + stars * d = d * (sum + stars)
  BY <1>1
<1>4. (d * (sum + stars)) * (c + 1) = (d * (c + 1)) * (sum + stars)
  BY <1>1
<1>5. NewAverage(old, stars).num * (c + 1) = NewAverage(old, stars).den * (sum + stars)
  BY <1>2, <1>3, <1>4
<1> QED
  BY <1>2, <1>5 DEF c

\* A commit counts its rating in the mean of its driver.
LEMMA CommitAverages ==
    ASSUME AverageIInv, NEW r \in Rater, Commit(r)
    PROVE  (\A d \in Wallet : Mean(d))'
<1> DEFINE ride  == rating[r].ride
           who   == rating[r].driver
           stars == rating[r].stars
<1>1. /\ rating[r].next = "update"
      /\ drivers' = [drivers EXCEPT ![who] = NewAverage(rating[r].old, stars)]
      /\ ride_ratings' = [ride_ratings EXCEPT ![ride] = [driver |-> who, stars |-> stars]]
  BY DEF Commit
<1>2. ride \in RideRequest /\ who \in Wallet
  BY <1>1 DEF AverageIInv, RatingIInv, InProgressIsDriven
<1>3. /\ stars \in Nat /\ drivers[who] \in Average /\ drivers \in [Wallet -> Average]
      /\ ride_ratings \in [RideRequest -> [driver : Wallet \cup {NoWallet}, stars : Nat]]
  BY <1>2 DEF AverageIInv, RatingIInv, RatingTypeOK, RatingRequest
<1>4. rating[r].old = drivers[who]
  BY <1>1 DEF AverageIInv, RatingIInv, HoldsPresent
<1>5. ride_ratings[ride].driver = NoWallet
  BY <1>1 DEF AverageIInv, RatesUnrated, NoRating
<1>6. \A id \in RideRequest :
         /\ StarsGiven[id] = ride_ratings[id].stars
         /\ StarsGiven[id] \in Nat
         /\ StarsGiven'[id] = IF id = ride THEN stars ELSE StarsGiven[id]
         /\ ride_ratings'[id].driver = IF id = ride THEN who ELSE ride_ratings[id].driver
  BY <1>1, <1>2, <1>3 DEF StarsGiven
<1> HIDE DEF ride, who, stars
<1>7. ASSUME NEW d \in Wallet
      PROVE  /\ ride \notin RatedFor(d)
             /\ RatedFor(d)' = IF d = who THEN RatedFor(d) \cup {ride} ELSE RatedFor(d)
  <2>1. ride \notin RatedFor(d)
    BY <1>5, MarketAssumption DEF RatedFor
  <2>2. ASSUME NEW id \in RideRequest
        PROVE  id \in RatedFor(d)' <=> id \in RatedFor(d) \/ (d = who /\ id = ride)
    BY <1>6, <2>1, <1>5, MarketAssumption DEF RatedFor
  <2> QED
    BY <1>2, <2>1, <2>2 DEF RatedFor
<1>8. ASSUME NEW d \in Wallet
      PROVE  /\ IsFiniteSet(RatedFor(d))
             /\ SumFunctionOnSet(StarsGiven', RatedFor(d)) = SumFunctionOnSet(StarsGiven, RatedFor(d))
             /\ SumFunctionOnSet(StarsGiven, RatedFor(d)) \in Nat
  <2>1. IsFiniteSet(RatedFor(d))
    BY DEF AverageIInv, Mean
  <2>2. \A id \in RatedFor(d) : StarsGiven[id] \in Nat /\ StarsGiven'[id] = StarsGiven[id]
    BY <1>6, <1>7 DEF RatedFor
  <2> QED
    BY <2>1, <2>2, SumSame, SumType
<1>9. ASSUME NEW d \in Wallet, d # who
      PROVE  Mean(d)'
  <2>1. drivers'[d] = drivers[d] /\ RatedFor(d)' = RatedFor(d)
    BY <1>1, <1>3, <1>7, <1>9
  <2> QED
    BY <1>8, <2>1 DEF Mean, AverageIInv
<1>10. ASSUME NEW d \in Wallet, d = who
       PROVE  Mean(d)'
  <2> DEFINE S == RatedFor(d)
  <2>1. /\ RatedFor(d)' = S \cup {ride} /\ ride \notin S /\ IsFiniteSet(S)
        /\ SumFunctionOnSet(StarsGiven', S) = SumFunctionOnSet(StarsGiven, S)
        /\ SumFunctionOnSet(StarsGiven, S) \in Nat
    BY <1>2, <1>7, <1>8, <1>10
  <2>2. \A id \in S \cup {ride} : StarsGiven'[id] \in Nat
    BY <1>2, <1>3, <1>6 DEF RatedFor
  <2>3. StarsGiven'[ride] = stars
    BY <1>2, <1>6
  <2>4. /\ drivers[d].count = Cardinality(S)
        /\ drivers[d].num * drivers[d].count =
              drivers[d].den * SumFunctionOnSet(StarsGiven, S)
    BY DEF AverageIInv, Mean
  <2> HIDE DEF S
  <2>5. /\ IsFiniteSet(S \cup {ride})
        /\ Cardinality(S \cup {ride}) = Cardinality(S) + 1
    BY <2>1, FS_AddElement
  <2>6. SumFunctionOnSet(StarsGiven', S \cup {ride}) = stars + SumFunctionOnSet(StarsGiven', S)
    BY <2>1, <2>2, <2>3, SumAdd
  <2> DEFINE sum == SumFunctionOnSet(StarsGiven, S)
             new == NewAverage(drivers[d], stars)
  <2>7. SumFunctionOnSet(StarsGiven', S \cup {ride}) = sum + stars
    BY <1>3, <2>1, <2>6
  <2>8. drivers'[d] = new
    BY <1>1, <1>2, <1>3, <1>4, <1>10
  <2>9. new.count = drivers[d].count + 1 /\ new.num * (drivers[d].count + 1) = new.den * (sum + stars)
    <3> HIDE DEF sum
    <3>1. sum \in Nat /\ drivers[d].num * drivers[d].count = drivers[d].den * sum
      BY <2>1, <2>4 DEF sum
    <3> QED
      BY <1>3, <1>10, <3>1, OneMore
  <2> HIDE DEF sum, new
  <2> QED
    BY <2>1, <2>4, <2>5, <2>7, <2>8, <2>9 DEF Mean
<1> QED
  BY <1>9, <1>10

\* A request goes on rating a ride nobody else has rated or rates.
LEMMA StepRatesUnrated ==
    ASSUME AverageIInv, NEW r \in Rater,
           \/ \E a \in Wallet, id \in RideRequest, stars \in Stars : LockRide(r, a, id, stars)
           \/ LockDriver(r)
           \/ Commit(r)
           \/ Abort(r)
    PROVE  RatesUnrated'
<1>0. rating \in [Rater -> RatingRequest] /\ RatesUnrated
      /\ ride_ratings \in [RideRequest -> [driver : Wallet \cup {NoWallet}, stars : Nat]]
  BY DEF AverageIInv, RatingIInv, RatingTypeOK
<1>1. CASE \E a \in Wallet, id \in RideRequest, stars \in Stars : LockRide(r, a, id, stars)
  <2>1. PICK a \in Wallet, id \in RideRequest, stars \in Stars : LockRide(r, a, id, stars)
    BY <1>1
  <2>2. /\ ride_ratings' = ride_ratings /\ ride_ratings[id] = NoRating
        /\ \A s \in Rater : rating[s].ride # id
    BY <2>1 DEF LockRide, RideHeld, Unrated
  <2>3. /\ rating'[r].ride = id /\ rating'[r].stars \in Stars
        /\ \A s \in Rater \ {r} : rating'[s] = rating[s]
    BY <1>0, <2>1 DEF LockRide
  <2> QED
    BY <1>0, <2>2, <2>3 DEF RatesUnrated
<1>2. CASE LockDriver(r)
  <2>1. ride_ratings' = ride_ratings /\ rating[r].next = "driver"
    BY <1>2 DEF LockDriver
  <2>2. /\ rating'[r].ride = rating[r].ride /\ rating'[r].stars = rating[r].stars
        /\ \A s \in Rater \ {r} : rating'[s] = rating[s]
    BY <1>0, <1>2 DEF LockDriver, RatingRequest
  <2> QED
    BY <1>0, <2>1, <2>2 DEF RatesUnrated
<1>3. CASE Commit(r)
  <2>1. /\ rating[r].next = "update"
        /\ rating'[r].next = "ride"
        /\ \A s \in Rater \ {r} : rating'[s] = rating[s]
    BY <1>0, <1>3, RestingRequest DEF Commit
  <2>2. \A id : id # rating[r].ride => ride_ratings'[id] = ride_ratings[id]
    BY <1>0, <1>3 DEF Commit
  <2> QED
    BY <1>0, <2>1, <2>2 DEF RatesUnrated
<1>4. CASE Abort(r)
  <2>1. /\ ride_ratings' = ride_ratings /\ rating'[r].next = "ride"
        /\ \A s \in Rater \ {r} : rating'[s] = rating[s]
    BY <1>0, <1>4, RestingRequest DEF Abort
  <2> QED
    BY <1>0, <2>1 DEF RatesUnrated
<1> QED
  BY <1>1, <1>2, <1>3, <1>4

\* Every step keeps it.
LEMMA NextAverage == AverageIInv /\ [RatingNext]_feedbackVars => AverageIInv'
<1> SUFFICES ASSUME AverageIInv, [RatingNext]_feedbackVars
             PROVE  AverageIInv'
  OBVIOUS
<1>1. RatingIInv'
  BY NextRating DEF AverageIInv
<1>2. CASE \/ Elsewhere \/ RestartService \/ UNCHANGED feedbackVars
  <2>1. UNCHANGED <<ride_ratings, drivers>>
    BY <1>2 DEF Elsewhere, RestartService, feedbackVars, ratingVars
  <2>2. rating' = rating \/ rating' = [r \in Rater |-> NoRequestInProgress]
    BY <1>2 DEF Elsewhere, RestartService, feedbackVars, ratingVars
  <2>3. RatesUnrated'
    BY <2>1, <2>2, RestingRequest DEF AverageIInv, RatesUnrated
  <2> QED
    BY <1>1, <2>1, <2>3, MeansRest DEF AverageIInv
<1>3. CASE \E r \in Rater :
              \/ \E a \in Wallet, id \in RideRequest, stars \in Stars : LockRide(r, a, id, stars)
              \/ LockDriver(r)
              \/ Commit(r)
              \/ Abort(r)
  <2>1. PICK r \in Rater :
              \/ \E a \in Wallet, id \in RideRequest, stars \in Stars : LockRide(r, a, id, stars)
              \/ LockDriver(r)
              \/ Commit(r)
              \/ Abort(r)
    BY <1>3
  <2>2. RatesUnrated'
    BY <2>1, StepRatesUnrated
  <2>3. (\A d \in Wallet : Mean(d))'
    <3>1. Commit(r) \/ UNCHANGED <<ride_ratings, drivers>>
      BY <2>1 DEF LockRide, LockDriver, Abort
    <3> QED
      BY <3>1, CommitAverages, MeansRest DEF AverageIInv
  <2> QED
    BY <1>1, <2>2, <2>3 DEF AverageIInv
<1> QED
  BY <1>2, <1>3 DEF RatingNext

\* A driver's average is the mean of the ratings in ride_ratings, and the count
\* their number, however many requests rate the driver's rides at once, fail, or
\* are cut off by a restart.
THEOREM AveragesAreMeans == RatingSpec => []AverageIsMean
<1>1. AverageIInv => AverageIsMean
  BY DEF AverageIInv, AverageIsMean, Mean
<1> QED
  BY <1>1, InitAverage, NextAverage, PTL DEF RatingSpec

\* A rating is kept only for a ride without one, while that ride is completed and
\* its driver is the one rated, however long the request waited for its rows and
\* whatever the chain reported meanwhile; once kept, nothing changes or removes it.
THEOREM RatingsAreOfDrivers == RatingSpec => RatedWhenDriven
<1> DEFINE Driven ==
      \A id \in RideRequest : ride_ratings'[id] # ride_ratings[id] =>
         /\ ride_ratings[id] = NoRating
         /\ ride_requests[id].status = "COMPLETED"
         /\ ride_requests[id].driver = ride_ratings'[id].driver
<1>1. AverageIInv /\ [RatingNext]_feedbackVars => [Driven]_feedbackVars
  <2> SUFFICES ASSUME AverageIInv, [RatingNext]_feedbackVars,
                      NEW id \in RideRequest, ride_ratings'[id] # ride_ratings[id]
               PROVE  /\ ride_ratings[id] = NoRating
                      /\ ride_requests[id].status = "COMPLETED"
                      /\ ride_requests[id].driver = ride_ratings'[id].driver
    OBVIOUS
  <2>1. PICK r \in Rater : Commit(r)
    BY DEF RatingNext, Elsewhere, RestartService, LockRide, LockDriver, Abort,
           feedbackVars, ratingVars
  <2>2. /\ rating[r].next = "update"
        /\ ride_ratings' = [ride_ratings EXCEPT ![rating[r].ride] =
                               [driver |-> rating[r].driver, stars |-> rating[r].stars]]
    BY <2>1 DEF Commit
  <2>3. /\ id = rating[r].ride
        /\ ride_ratings'[id].driver = rating[r].driver
    BY <2>2 DEF AverageIInv, RatingIInv, RatingTypeOK
  <2>4. ride_ratings[id] = NoRating
    BY <2>2, <2>3 DEF AverageIInv, RatesUnrated
  <2>5. DrivenBy(id, rating[r].driver)
    BY <2>2, <2>3 DEF AverageIInv, RatingIInv, InProgressIsDriven
  <2> QED
    BY <2>3, <2>4, <2>5 DEF DrivenBy
<1> QED
  BY <1>1, InitAverage, NextAverage, PTL DEF RatingSpec, RatedWhenDriven

\* To the marketplace a rating is not there: every behaviour with ratings in it, their
\* locks and roll-backs included, is one of the marketplace.
THEOREM RatingsLeaveMarket == RatingSpec => MarketSpec
<1>1. RatingInit => MarketInit
  BY DEF RatingInit
<1>2. [RatingNext]_feedbackVars => [MarketNext]_marketVars
  BY DEF RatingNext, Elsewhere, RestartService, LockRide, LockDriver, Commit, Abort,
         MarketNext, feedbackVars
<1> QED
  BY <1>1, <1>2, PTL DEF RatingSpec, MarketSpec

\* So its tables agree on every selection while rides are rated, and while the chain
\* reports what became of them.
THEOREM MarketKeptWhileRating == RatingSpec => []SelectionAgrees
  BY RatingsLeaveMarket, TablesAgree, PTL

\* Ratings that run at the same time act as if they came one after another: a
\* commit is one rating of the ledger, made of the driver's present average, and
\* whatever else a request does, failing or being cut off included, leaves the
\* ledger as it was.
THEOREM RatingsImplementLedger == RatingSpec => ImplementsLedger
<1>1. RatingInit => Ledger!LedgerInit
  BY DEF RatingInit, Ledger!LedgerInit, NoRating, NotRated
<1>2. AverageIInv /\ [RatingNext]_feedbackVars => [Ledger!LedgerNext]_(Ledger!ledgerVars)
  <2> SUFFICES ASSUME AverageIInv, [RatingNext]_feedbackVars
               PROVE  [Ledger!LedgerNext]_(Ledger!ledgerVars)
    OBVIOUS
  <2>1. ASSUME NEW r \in Rater, Commit(r)
        PROVE  Ledger!LedgerNext
    <3>1. PICK ride \in RideRequest, who \in Wallet, stars \in Stars :
             /\ ride = rating[r].ride /\ who = rating[r].driver /\ stars = rating[r].stars
             /\ ride_ratings[ride] = NoRating
      BY <2>1 DEF AverageIInv, RatingIInv, InProgressIsDriven, RatesUnrated, Commit
    <3>2. /\ ride_ratings' = [ride_ratings EXCEPT ![ride] = [driver |-> who, stars |-> stars]]
          /\ \A e \in Wallet \ {who} : drivers'[e] = drivers[e]
      BY <2>1, <3>1 DEF Commit, AverageIInv, RatingIInv, RatingTypeOK
    <3>3. Mean(who)'
      BY <2>1, CommitAverages
    <3>4. Ledger!IsMean(who)'
      <4>1. \A S : Ledger!Cardinality(S) = Cardinality(S)
        BY DEF Ledger!Cardinality, Cardinality
      <4>2. \A f, S : Ledger!SumFunctionOnSet(f, S) = SumFunctionOnSet(f, S)
        BY DEF Ledger!SumFunctionOnSet, SumFunctionOnSet, Ledger!FoldFunctionOnSet,
               FoldFunctionOnSet, Ledger!MapThenFoldSet, MapThenFoldSet
      <4> QED
        BY <3>3, <4>1, <4>2 DEF Ledger!IsMean, Ledger!GradesOf, Mean, RatedFor, StarsGiven
    <3>5. Ledger!Rate(ride, who, stars)
      BY <3>1, <3>2, <3>4 DEF Ledger!Rate, NoRating
    <3> QED
      BY <3>5 DEF Ledger!LedgerNext
  <2>2. \/ \E r \in Rater : Commit(r)
        \/ UNCHANGED <<ride_ratings, drivers>>
    BY DEF RatingNext, Elsewhere, RestartService, LockRide, LockDriver, Abort,
           feedbackVars, ratingVars
  <2> QED
    BY <2>1, <2>2 DEF Ledger!ledgerVars
<1> QED
  BY <1>1, <1>2, InitAverage, NextAverage, PTL
     DEF RatingSpec, ImplementsLedger, Ledger!LedgerSpec

=============================================================================
