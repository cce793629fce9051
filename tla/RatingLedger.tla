---------------------------- MODULE RatingLedger ----------------------------
(***************************************************************************)
(* What the ratings promise, with no requests and no locks: the ratings of *)
(* the rides come one after another, no ride gets a second one, and each   *)
(* makes its driver's average the mean of all that driver has, and nobody  *)
(* else's any different.                                                   *)
(***************************************************************************)
EXTENDS Integers, FiniteSets, Functions

CONSTANTS Ride, Driver, Nobody, Grade

VARIABLES book, average

ledgerVars == <<book, average>>

GradesOf(d) == {id \in Ride : book[id].driver = d}

\* The average is a fraction.
IsMean(d) ==
    /\ average[d].count = Cardinality(GradesOf(d))
    /\ average[d].num * average[d].count =
          average[d].den * SumFunctionOnSet([id \in Ride |-> book[id].stars], GradesOf(d))

LedgerInit ==
    /\ book = [id \in Ride |-> [driver |-> Nobody, stars |-> 0]]
    /\ \A d \in Driver : average[d].count = 0

Rate(id, d, stars) ==
    /\ book[id].driver = Nobody
    /\ book' = [book EXCEPT ![id] = [driver |-> d, stars |-> stars]]
    /\ IsMean(d)'
    /\ \A e \in Driver \ {d} : average'[e] = average[e]

LedgerNext == \E id \in Ride, d \in Driver, stars \in Grade : Rate(id, d, stars)

LedgerSpec == LedgerInit /\ [][LedgerNext]_ledgerVars

=============================================================================
