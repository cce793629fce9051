------------------------------ MODULE ChainSync ------------------------------
(***************************************************************************)
(* backend/app/chain_sync and record_tx of backend/app/tx: how the backend *)
(* learns what its rides did on the chain.  The chain itself is the        *)
(* lifecycle of Carpool.sol, one ride per request: transactions are sent,  *)
(* and mined in any order, with success or reverted.  Who accepts a ride   *)
(* on the chain, with which driver and when, is not tied to what was       *)
(* selected here.  The provider may deliver the event of a mined           *)
(* transaction at any time, in any order, in batches, and more than once.  *)
(*                                                                         *)
(* Abstracted: block numbers, payloads, onchain_ride_id, actions, wallets  *)
(* of transactions, the log index (each transaction here emits one event   *)
(* that the backend maps), and the statuses of records, any string in the  *)
(* code, to three of them.                                                 *)
(***************************************************************************)
EXTENDS Marketplace

CONSTANTS
    TxHash,
    NoTx,
    Poller                \* bound: get_tx_status requests waiting for the RPC at a time

ASSUME ChainAssumption == NoTx \notin TxHash

VARIABLES
    chain,                \* each request's ride in Carpool: its status, its driver
    txs,                  \* the transactions sent to Carpool
    chain_events,         \* the deliveries ingested, as they came
    tx_records,
    polling               \* the record each waiting get_tx_status has read

chainVars == <<chain, txs, chain_events, tx_records, polling>>
syncVars  == <<marketVars, chainVars>>

\* A call of the contract: the statuses it is accepted in, the one it leads to.
Call == [acceptRide     |-> [from |-> {"Requested"}, to |-> "Accepted"],
         startRide      |-> [from |-> {"Accepted"}, to |-> "Started"],
         completeRide   |-> [from |-> {"Started"}, to |-> "Completed"],
         cancelRide     |-> [from |-> {"Started", "Accepted"}, to |-> "Cancelled"],
         disputeRide    |-> [from |-> {"Started"}, to |-> "Disputed"],
         resolveDispute |-> [from |-> {"Disputed"}, to |-> "Completed"]]

\* What the backend makes of the event of a call.
EVENT_TO_RIDE_STATUS ==
    [acceptRide     |-> "ONCHAIN_ACCEPTED",
     startRide      |-> "STARTED",
     completeRide   |-> "COMPLETED",
     cancelRide     |-> "CANCELLED",
     disputeRide    |-> "DISPUTED",
     resolveDispute |-> "COMPLETED"]

NoCall    == "none"
CallName  == DOMAIN Call
TxResult  == {"Unsent", "Pending", "Success", "Reverted"}
Unsent    == [ride |-> NoRequest, driver |-> NoWallet, call |-> NoCall, result |-> "Unsent"]
NoRecord  == [status |-> "none", confirmed_at |-> FALSE]

ChainStatus  == {"Requested"} \cup {Call[c].to : c \in CallName}
RecordStatus == {"submitted", "confirmed"}

SyncInit ==
    /\ MarketInit
    /\ chain = [id \in RideRequest |-> [status |-> "Requested", driver |-> NoWallet]]
    /\ txs = [t \in TxHash |-> Unsent]
    /\ chain_events = {}
    /\ tx_records = [t \in TxHash |-> NoRecord]
    /\ polling = [p \in Poller |-> NoTx]

-----------------------------------------------------------------------------
(***************************************************************************)
(* The chain                                                               *)
(***************************************************************************)

\* A call about a request that was posted, at any time; acceptRide names any driver.
Send(t, id, call, d) ==
    /\ txs[t].result = "Unsent"
    /\ ride_requests[id].status # "Absent"
    /\ (call = "acceptRide") <=> (d # NoWallet)
    /\ txs' = [txs EXCEPT ![t] = [ride |-> id, driver |-> d, call |-> call, result |-> "Pending"]]
    /\ UNCHANGED <<marketVars, chain, chain_events, tx_records, polling>>

Mine(t) ==
    LET id   == txs[t].ride
        call == Call[txs[t].call] IN
    /\ txs[t].result = "Pending"
    /\ IF chain[id].status \in call.from
       THEN /\ txs' = [txs EXCEPT ![t].result = "Success"]
            /\ chain' = [chain EXCEPT
                  ![id].status = call.to,
                  ![id].driver = IF txs[t].driver = NoWallet THEN @ ELSE txs[t].driver]
       ELSE /\ txs' = [txs EXCEPT ![t].result = "Reverted"]
            /\ UNCHANGED chain
    /\ UNCHANGED <<marketVars, chain_events, tx_records, polling>>

-----------------------------------------------------------------------------
(***************************************************************************)
(* ingest_events: one transaction for the whole batch, one event after the *)
(* other.  An event is delivered with the request it belongs to (linked)   *)
(* or without, and with the driver of the ride (named) or without.  The    *)
(* delivery also has a status for the record of the transaction: the       *)
(* provider's, or else "confirmed" (bounds: two events to a batch, and one *)
(* status for both).                                                       *)
(***************************************************************************)

Delivery ==
    {e \in [tx : {t \in TxHash : txs[t].result = "Success"}, linked : BOOLEAN, named : BOOLEAN] :
        e.named => e.linked}

\* INSERT ... ON CONFLICT DO NOTHING: an event ingested before is skipped.
NeverIngested(db, e) == TRUE
IsNew(db, e) == \A seen \in db.events : seen.tx # e.tx

\* What the event says became of its ride's row.
Applied(row, e) ==
    Reported(row, EVENT_TO_RIDE_STATUS[txs[e.tx].call],
             IF e.named THEN chain[txs[e.tx].ride].driver ELSE NoWallet)

\* Both upserts of tx_records: the status is overwritten, COALESCE keeps the time.
UpsertedAnew(record, status) ==
    [status |-> status, confirmed_at |-> status = "confirmed"]
Upserted(record, status) ==
    [status |-> status, confirmed_at |-> status = "confirmed" \/ record.confirmed_at]

Ingest(db, e, status) ==
    IF IsNew(db, e)
    THEN [events  |-> db.events \cup {e},
          records |-> [db.records EXCEPT ![e.tx] = Upserted(@, status)],
          rides   |-> IF e.linked THEN [db.rides EXCEPT ![txs[e.tx].ride] = Applied(@, e)]
                                  ELSE db.rides]
    ELSE db

Store(db) ==
    /\ chain_events' = db.events
    /\ tx_records' = db.records
    /\ ride_requests' = db.rides
    /\ UNCHANGED <<driver_offers, posting, chain, txs, polling>>

Stored == [events |-> chain_events, records |-> tx_records, rides |-> ride_requests]

ingest_events ==
    \E e \in Delivery, s \in RecordStatus :
        \/ Store(Ingest(Stored, e, s))
        \/ \E f \in Delivery : e.tx # f.tx /\ Store(Ingest(Ingest(Stored, e, s), f, s))

-----------------------------------------------------------------------------
(***************************************************************************)
(* Transaction records                                                     *)
(***************************************************************************)

\* Any signed-in wallet may record any hash, with any status.
record_tx(t, status) ==
    /\ tx_records' = [tx_records EXCEPT ![t] = Upserted(@, status)]
    /\ UNCHANGED <<marketVars, chain, txs, chain_events, polling>>

\* get_tx_status reads the record, then asks the RPC for the receipt.
PollRead(p, t) ==
    /\ polling[p] = NoTx
    /\ tx_records[t].status \in {"submitted", "pending"}
    /\ polling' = [polling EXCEPT ![p] = t]
    /\ UNCHANGED <<marketVars, chain, txs, chain_events, tx_records>>

\* eth_getTransactionReceipt: none before the transaction is mined.
HasReceipt(t) == txs[t].result \in {"Success", "Reverted"}

PollWrite(p) ==
    LET t == polling[p] IN
    /\ t # NoTx
    /\ HasReceipt(t)
    /\ tx_records' = [tx_records EXCEPT
           ![t] = [status |-> IF txs[t].result = "Success" THEN "confirmed" ELSE "failed",
                   confirmed_at |-> TRUE]]
    /\ polling' = [polling EXCEPT ![p] = NoTx]
    /\ UNCHANGED <<marketVars, chain, txs, chain_events>>

\* No receipt yet, or the RPC failed: the record stays as it is.
PollNothing(p) ==
    /\ polling[p] # NoTx
    /\ polling' = [polling EXCEPT ![p] = NoTx]
    /\ UNCHANGED <<marketVars, chain, txs, chain_events, tx_records>>

RestartAll ==
    /\ Restart
    /\ polling' = [p \in Poller |-> NoTx]
    /\ UNCHANGED <<chain, txs, chain_events, tx_records>>

-----------------------------------------------------------------------------
SyncNext ==
    \/ \E a \in Wallet, id \in RideRequest : RideTransaction(a, id) /\ UNCHANGED chainVars
    \/ Offering /\ UNCHANGED chainVars
    \/ \E t \in TxHash :
          \/ \E id \in RideRequest, call \in CallName, d \in Wallet \cup {NoWallet} :
                Send(t, id, call, d)
          \/ Mine(t)
          \/ \E status \in RecordStatus : record_tx(t, status)
          \/ \E p \in Poller : PollRead(p, t)
    \/ ingest_events
    \/ \E p \in Poller : PollWrite(p) \/ PollNothing(p)
    \/ RestartAll

SyncSpec == SyncInit /\ [][SyncNext]_syncVars

-----------------------------------------------------------------------------
(***************************************************************************)
(* Properties                                                              *)
(***************************************************************************)

\* Every variable has its type.
SyncTypeOK ==
    /\ MarketTypeOK
    /\ chain \in [RideRequest -> [status : ChainStatus, driver : Wallet \cup {NoWallet}]]
    /\ txs \in [TxHash -> {Unsent} \cup [ride : RideRequest, driver : Wallet \cup {NoWallet},
                                         call : CallName, result : TxResult \ {"Unsent"}]]
    /\ chain_events \subseteq [tx : TxHash, linked : BOOLEAN, named : BOOLEAN]
    /\ tx_records \in [TxHash -> [status : {"none", "failed"} \cup RecordStatus, confirmed_at : BOOLEAN]]
    /\ polling \in [Poller -> TxHash \cup {NoTx}]

\* Clients, the webhook and slow RPC answers overwrite each other's status of a
\* transaction in any order; but a transaction whose record was ever "confirmed" or
\* had a receipt keeps the time of it, and an ingested event has left a record.
ConfirmationsKept ==
    [][/\ \A t \in TxHash :
             tx_records[t].status = "confirmed" \/ tx_records[t].confirmed_at =>
                tx_records'[t].confirmed_at
       /\ \A e \in chain_events' : tx_records'[e.tx].status # "none"]_syncVars

\* How far a ride has come.
Progress == [Absent |-> 0, OPEN |-> 1, DRIVER_SELECTED |-> 2, ONCHAIN_ACCEPTED |-> 3,
             STARTED |-> 4, COMPLETED |-> 5, CANCELLED |-> 5, DISPUTED |-> 5]

\* An event is applied once.  Only the step that ingests an event for the first time
\* may set its ride back, reopen it after its end, start it, or change its driver
\* after the selection, and then to the status the event reports: an event delivered
\* again, in whatever batch and after whatever requests, does none of this.
FirstDelivery(id) ==
    \E e \in chain_events' :
        /\ \A seen \in chain_events : seen.tx # e.tx
        /\ e.linked
        /\ txs[e.tx].ride = id
        /\ ride_requests'[id].status = EVENT_TO_RIDE_STATUS[txs[e.tx].call]
GoesOn(old, new) ==
    /\ Progress[old.status] < Progress[new.status]
    /\ new.status # "STARTED"
    /\ new.driver # old.driver => new.status = "DRIVER_SELECTED"
AppliedOnce ==
    [][\A id \in RideRequest :
          ride_requests'[id] # ride_requests[id] =>
             FirstDelivery(id) \/ GoesOn(ride_requests[id], ride_requests'[id])]_syncVars

\* Once an event has told the backend the driver of the chain's ride, the driver it
\* shows is that one, whoever was selected here: no event without a driver, and no
\* later selection, takes it back.
DriverIsTheChains ==
    \A e \in chain_events : e.named =>
        ride_requests[txs[e.tx].ride].driver = chain[txs[e.tx].ride].driver

=============================================================================
