---------------------------- MODULE RideMatching ----------------------------
(***************************************************************************)
(* What the marketplace promises about one ride request.  Its own requests *)
(* match a ride at most once, with a person who applied, and end only what *)
(* has not ended.  The chain may report anything of a posted ride at any   *)
(* time, and name its partner; but no report opens a ride again, and who   *)
(* was chosen stays chosen.                                                *)
(***************************************************************************)
CONSTANTS Person, Nobody

VARIABLES
    stage,
    applicants,
    chosen,               \* who was matched with the request
    partner,              \* who takes part, as far as is known
    told                  \* the stage is what the chain reported last

matchingVars == <<stage, applicants, chosen, partner, told>>

MatchingInit ==
    /\ stage = "None"
    /\ applicants = {}
    /\ chosen = Nobody
    /\ partner = Nobody
    /\ told = FALSE

Post ==
    /\ stage = "None"
    /\ stage' = "Open"
    /\ UNCHANGED <<applicants, chosen, partner, told>>

\* An application may arrive after the match or the end: it was on its way.
Apply(d) ==
    /\ stage # "None"
    /\ applicants' = applicants \cup {d}
    /\ UNCHANGED <<stage, chosen, partner, told>>

Match(d) ==
    /\ stage = "Open"
    /\ d \in applicants
    /\ stage' = "Matched"
    /\ chosen' = d
    /\ partner' = d
    /\ UNCHANGED <<applicants, told>>

\* A request carries a matched ride further, or ends one that has not ended; an
\* open one it can only call off.
Carry ==
    /\ stage = "Matched"
    /\ told' = FALSE
    /\ UNCHANGED <<stage, applicants, chosen, partner>>

End ==
    /\ stage \in {"Open", "Matched"}
    /\ stage' \in {"Done", "CalledOff"}
    /\ stage = "Open" => stage' = "CalledOff"
    /\ told' = FALSE
    /\ UNCHANGED <<applicants, chosen, partner>>

\* The chain's word on a ride: it may name who takes part.
Report ==
    /\ stage # "None"
    /\ stage' \in {"Matched", "Done", "CalledOff"}
    /\ partner' \in {partner} \cup Person
    /\ told' = TRUE
    /\ UNCHANGED <<applicants, chosen>>

MatchingNext ==
    \/ Post
    \/ \E d \in Person : Apply(d) \/ Match(d)
    \/ Carry
    \/ End
    \/ Report

MatchingSpec == MatchingInit /\ [][MatchingNext]_matchingVars

=============================================================================
