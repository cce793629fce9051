----------------------------- MODULE RideEscrow -----------------------------
(***************************************************************************)
(* What the settlement contract promises about one ride, whatever else     *)
(* happens around it: a rider and a driver put an amount into escrow, the  *)
(* escrow is opened once and closed once, a driver has at most one open    *)
(* escrow, and closing it gives the driver a share that never exceeds it.  *)
(* A refund gives the driver nothing and is possible until the escrow is   *)
(* frozen by a dispute.                                                    *)
(***************************************************************************)
EXTENDS Integers

CONSTANTS RideId, Party, NoParty,
          Amount            \* what an escrow may hold

VARIABLES phase, rider, driver, amount, share

escrowVars == <<phase, rider, driver, amount, share>>

Phase == {"None", "Open", "Frozen", "Refunded", "Settled"}

EscrowTypeOK ==
    /\ phase \in [RideId -> Phase]
    /\ rider \in [RideId -> Party \cup {NoParty}]
    /\ driver \in [RideId -> Party \cup {NoParty}]
    /\ amount \in [RideId -> Amount \cup {0}]
    /\ share \in [RideId -> Nat]

EscrowInit ==
    /\ phase = [id \in RideId |-> "None"]
    /\ rider = [id \in RideId |-> NoParty]
    /\ driver = [id \in RideId |-> NoParty]
    /\ amount = [id \in RideId |-> 0]
    /\ share = [id \in RideId |-> 0]

Serving(d, id) == phase[id] \in {"Open", "Frozen"} /\ driver[id] = d

Open(id, u, d, n) ==
    /\ phase[id] = "None"
    /\ \A other \in RideId : ~Serving(d, other)
    /\ phase' = [phase EXCEPT ![id] = "Open"]
    /\ rider' = [rider EXCEPT ![id] = u]
    /\ driver' = [driver EXCEPT ![id] = d]
    /\ amount' = [amount EXCEPT ![id] = n]
    /\ UNCHANGED share

Freeze(id) ==
    /\ phase[id] = "Open"
    /\ phase' = [phase EXCEPT ![id] = "Frozen"]
    /\ UNCHANGED <<rider, driver, amount, share>>

Refund(id) ==
    /\ phase[id] = "Open"
    /\ phase' = [phase EXCEPT ![id] = "Refunded"]
    /\ UNCHANGED <<rider, driver, amount, share>>

Settle(id, n) ==
    /\ phase[id] \in {"Open", "Frozen"}
    /\ n \in 0..amount[id]
    /\ phase' = [phase EXCEPT ![id] = "Settled"]
    /\ share' = [share EXCEPT ![id] = n]
    /\ UNCHANGED <<rider, driver, amount>>

EscrowNext ==
    \E id \in RideId :
        \/ \E u, d \in Party, n \in Amount : Open(id, u, d, n)
        \/ Freeze(id)
        \/ Refund(id)
        \/ \E n \in 0..amount[id] : Settle(id, n)

EscrowSpec == EscrowInit /\ [][EscrowNext]_escrowVars

=============================================================================
