----------------------------- MODULE BrowserProofs -----------------------------
(***************************************************************************)
(* Proofs about the parts of the pages MCBrowser puts together, for every  *)
(* value of their constants and any number of requests in flight.          *)
(***************************************************************************)
EXTENDS Integers, MCBrowser, SequenceTheorems, TLAPS

-----------------------------------------------------------------------------
(***************************************************************************)
(* BookingForm.  The invariant: a place chosen is the one its box names,   *)
(* and a route fetch that will be heard is for the places chosen.          *)
(***************************************************************************)

PresentPair == [from |-> Form!effectivePickup(coords, position), to |-> coords["dropoff"]]

\* A place chosen is the one its box names; a pickup outlives "Current Location".
PlaceChosenIsNamed ==
    \A f \in Form!Field : coords[f] # None =>
        text[f] = coords[f] \/ (f = "pickup" /\ text[f] = CurrentLocation)

FormInv ==
    /\ Form!FormTypeOK
    /\ PlaceChosenIsNamed
    /\ \A q \in quoting : q.live => q.pair = PresentPair

LEMMA FormInitial ==
  ASSUME Form!FormInit, Form!FormAssumption
  PROVE  FormInv
<1>1. Form!NoSearch \in Form!Search
  BY DEF Form!NoSearch, Form!Search
<1>2. text \in [Form!Field -> Form!Text] /\ coords \in [Form!Field -> Place \cup {None}]
  BY DEF Form!FormInit, Form!FormAssumption, Form!Text
<1>3. \A f \in Form!Field : coords[f] = None
  BY DEF Form!FormInit
<1> QED
  BY <1>1, <1>2, <1>3 DEF Form!FormInit, FormInv, Form!FormTypeOK, PlaceChosenIsNamed

\* The effect of the quote, after any change of the places or the position.
LEMMA QuoteEffectHolds ==
  ASSUME FormInv, Form!QuoteEffect(coords', position'),
         coords' \in [Form!Field -> Place \cup {None}], position' \in Spot \cup {None}
  PROVE  /\ quote' \in Form!Pair \cup {Form!NoPair} /\ routeLoading' \in BOOLEAN
         /\ quoting' \subseteq Form!Quoting
         /\ \A q \in quoting' : q.live => q.pair = PresentPair'
         /\ quote' \in {quote, Form!NoPair}
<1>1. \A q \in Form!Dropped(quoting) : q \in Form!Quoting /\ q.live = FALSE
  BY DEF Form!Dropped, Form!Quoting, FormInv, Form!FormTypeOK
<1>2. CASE PresentPair' = PresentPair
  BY <1>2 DEF Form!QuoteEffect, PresentPair, FormInv, Form!FormTypeOK
<1>3. CASE PresentPair' # PresentPair /\ None \in {PresentPair'.from, PresentPair'.to}
  BY <1>1, <1>3 DEF Form!QuoteEffect, PresentPair, FormInv, Form!FormTypeOK
<1>4. CASE PresentPair' # PresentPair /\ None \notin {PresentPair'.from, PresentPair'.to}
  <2>1. PresentPair' \in Form!Pair
    BY <1>4 DEF PresentPair, Form!effectivePickup, Form!Pair, Form!Field
  <2>2. quoting' = Form!Dropped(quoting) \cup {[pair |-> PresentPair', live |-> TRUE]}
        /\ routeLoading' = TRUE /\ quote' = quote
    BY <1>4 DEF Form!QuoteEffect, PresentPair
  <2>3. [pair |-> PresentPair', live |-> TRUE] \in Form!Quoting
    BY <2>1 DEF Form!Quoting
  <2>4. [pair |-> PresentPair', live |-> TRUE].pair = PresentPair'
    OBVIOUS
  <2>5. \A q \in quoting' : q.live => q.pair = PresentPair'
    BY <1>1, <2>2, <2>4
  <2>6. quoting' \subseteq Form!Quoting
    BY <1>1, <2>2, <2>3
  <2> QED BY <2>2, <2>5, <2>6 DEF FormInv, Form!FormTypeOK
<1> QED BY <1>2, <1>3, <1>4

LEMMA FormKept == FormInv /\ UNCHANGED formVars => FormInv'
  BY DEF FormInv, formVars, Form!FormTypeOK, PlaceChosenIsNamed, PresentPair, Form!effectivePickup

\* A change of the places shown, of the boxes, or of neither.
LEMMA ShowHolds ==
  ASSUME FormInv, NEW f \in Form!Field, NEW t \in Form!Text, NEW c,
         c \in [Form!Field -> Place \cup {None}],
         Form!Show(f, t, c), search' \in [Form!Field -> Form!Search],
         \A g \in Form!Field : g # f => c[g] = coords[g],
         c[f] # None => c[f] = t \/ (f = "pickup" /\ t = CurrentLocation)
  PROVE  FormInv'
<1>1. coords' = c /\ position' = position /\ text' = [text EXCEPT ![f] = t]
      /\ publish' = publish /\ Form!QuoteEffect(coords', position')
  BY DEF Form!Show
<1>2. coords' \in [Form!Field -> Place \cup {None}] /\ position' \in Spot \cup {None}
      /\ text' \in [Form!Field -> Form!Text] /\ publish' \in {"form", "posting", "riding"}
  BY <1>1 DEF FormInv, Form!FormTypeOK
<1>3. /\ quote' \in Form!Pair \cup {Form!NoPair} /\ routeLoading' \in BOOLEAN
      /\ quoting' \subseteq Form!Quoting
      /\ \A q \in quoting' : q.live => q.pair = PresentPair'
  BY <1>1, <1>2, QuoteEffectHolds
<1>4. PlaceChosenIsNamed'
  BY <1>1 DEF FormInv, Form!FormTypeOK, PlaceChosenIsNamed
<1> QED BY <1>2, <1>3, <1>4 DEF FormInv, Form!FormTypeOK

LEMMA SearchedHolds ==
  ASSUME FormInv, NEW f \in Form!Field, NEW s \in Form!Search, Form!Searched(f, s)
  PROVE  FormInv'
  BY DEF FormInv, Form!FormTypeOK, PlaceChosenIsNamed, PresentPair, Form!effectivePickup,
         Form!Searched

\* RidePage's onChange or onSelect of a box.
LEMMA ChangeHolds ==
  ASSUME FormInv, NEW f \in Form!Field, NEW t \in Form!Text,
         Form!Show(f, t, Form!Changed(f, t)), search' \in [Form!Field -> Form!Search]
  PROVE  FormInv'
<1> DEFINE c == Form!Changed(f, t)
<1>1. /\ c \in [Form!Field -> Place \cup {None}]
      /\ \A g \in Form!Field : g # f => c[g] = coords[g]
      /\ c[f] # None => f = "pickup" /\ t = CurrentLocation
  BY DEF FormInv, Form!FormTypeOK, Form!Changed
<1>2. Form!Show(f, t, c)
  OBVIOUS
<1> HIDE DEF c
<1> QED BY <1>1, <1>2, ShowHolds

LEMMA SearchTyped ==
  ASSUME FormInv, NEW f \in Form!Field
  PROVE  search[f] \in Form!Search
  BY DEF FormInv, Form!FormTypeOK

LEMMA TypeHolds ==
  ASSUME FormInv, Form!FormAssumption, NEW f \in Form!Field, NEW t \in Query \cup {None},
         Form!Type(f, t)
  PROVE  FormInv'
<1>1. Form!Scheduled(search[f], t) \in Form!Search
  BY SearchTyped DEF Form!Scheduled, Form!Search
<1>2. search' \in [Form!Field -> Form!Search]
  BY <1>1 DEF Form!Type, FormInv, Form!FormTypeOK
<1>3. t \in Form!Text
  BY DEF Form!Text
<1>4. Form!Show(f, t, Form!Changed(f, t))
  BY DEF Form!Type
<1> QED BY <1>2, <1>3, <1>4, ChangeHolds

LEMMA ClearHolds ==
  ASSUME FormInv, NEW f \in Form!Field, Form!Clear(f)
  PROVE  FormInv'
<1>1. search' \in [Form!Field -> Form!Search]
  <2> DEFINE s == [search[f] EXCEPT !.results = None, !.open = FALSE]
  <2>1. s \in Form!Search
    BY SearchTyped DEF Form!Search
  <2>2. search' = [search EXCEPT ![f] = s]
    BY DEF Form!Clear, FormInv, Form!FormTypeOK
  <2> HIDE DEF s
  <2> QED BY <2>1, <2>2 DEF FormInv, Form!FormTypeOK
<1>2. None \in Form!Text
  BY DEF Form!Text
<1>4. Form!Show(f, None, Form!Changed(f, None))
  BY DEF Form!Clear
<1> QED BY <1>1, <1>2, <1>4, ChangeHolds

LEMMA SelectHolds ==
  ASSUME FormInv, NEW f \in Form!Field, NEW p \in Place, Form!handleSelect(f, p)
  PROVE  FormInv'
<1>1. search' \in [Form!Field -> Form!Search]
  <2> DEFINE s == [search[f] EXCEPT !.open = FALSE, !.loading = TRUE, !.details = @ \cup {p}]
  <2>1. s \in Form!Search
    BY SearchTyped DEF Form!Search
  <2>2. search' = [search EXCEPT ![f] = s]
    BY DEF Form!handleSelect
  <2> HIDE DEF s
  <2> QED BY <2>1, <2>2 DEF FormInv, Form!FormTypeOK
<1>2. p \in Form!Text
  BY DEF Form!Text
<1>4. Form!Show(f, p, Form!Changed(f, p))
  BY DEF Form!handleSelect
<1> QED BY <1>1, <1>2, <1>4, ChangeHolds

LEMMA DetailsHold ==
  ASSUME FormInv, NEW f \in Form!Field, NEW p \in search[f].details, Form!DetailsAnswer(f, p)
  PROVE  FormInv'
<1>1. search' \in [Form!Field -> Form!Search]
  <2> DEFINE s == [search[f] EXCEPT !.details = @ \ {p}, !.loading = FALSE]
  <2>1. s \in Form!Search
    BY SearchTyped DEF Form!Search
  <2>2. search' = [search EXCEPT ![f] = s]
    BY DEF Form!DetailsAnswer
  <2> HIDE DEF s
  <2> QED BY <2>1, <2>2 DEF FormInv, Form!FormTypeOK
<1>2. p \in Place /\ p \in Form!Text
  BY SearchTyped DEF Form!Search, Form!Text
<1>3. /\ [coords EXCEPT ![f] = p] \in [Form!Field -> Place \cup {None}]
      /\ \A g \in Form!Field : g # f => [coords EXCEPT ![f] = p][g] = coords[g]
      /\ [coords EXCEPT ![f] = p][f] = p
  BY <1>2 DEF FormInv, Form!FormTypeOK
<1>4. Form!Show(f, p, [coords EXCEPT ![f] = p])
  BY DEF Form!DetailsAnswer
<1> QED BY <1>1, <1>2, <1>3, <1>4, ShowHolds

LEMMA FormStepHolds == FormInv /\ Form!FormAssumption /\ Form!FormStep => FormInv'
<1> SUFFICES ASSUME FormInv, Form!FormAssumption, Form!FormStep
             PROVE  FormInv'
  OBVIOUS
<1>1. ASSUME NEW f \in Form!Field, NEW t \in Query \cup {None}, Form!Type(f, t) PROVE FormInv'
  BY <1>1, TypeHolds
<1>2. ASSUME NEW f \in Form!Field,
             Form!TimerFires(f) \/ Form!Focus(f) \/ Form!ClickOutside(f)
               \/ (\E q \in search[f].searches : Form!SearchFails(f, q))
               \/ (\E q \in search[f].searches, found \in BOOLEAN : Form!SearchAnswers(f, q, found))
               \/ (\E p \in search[f].details : Form!DetailsFail(f, p))
      PROVE  FormInv'
  <2>1. search[f] \in Form!Search
    BY <1>2, SearchTyped
  <2>2. CASE Form!TimerFires(f)
    <3>1. [search[f] EXCEPT !.timer = None, !.searches = @ \cup {search[f].timer}] \in Form!Search
      BY <2>1, <2>2 DEF Form!TimerFires, Form!Search
    <3> QED BY <1>2, <2>2, <3>1, SearchedHolds DEF Form!TimerFires
  <2>3. CASE Form!Focus(f)
    <3>1. [search[f] EXCEPT !.open = TRUE] \in Form!Search
      BY <2>1 DEF Form!Search
    <3> QED BY <1>2, <2>3, <3>1, SearchedHolds DEF Form!Focus
  <2>4. CASE Form!ClickOutside(f)
    <3>1. [search[f] EXCEPT !.open = FALSE] \in Form!Search
      BY <2>1 DEF Form!Search
    <3> QED BY <1>2, <2>4, <3>1, SearchedHolds DEF Form!ClickOutside
  <2>5. ASSUME NEW q \in search[f].searches, Form!SearchFails(f, q) PROVE FormInv'
    <3>1. [search[f] EXCEPT !.searches = @ \ {q}, !.loading = FALSE, !.results = None]
             \in Form!Search
      BY <2>1 DEF Form!Search
    <3> QED BY <1>2, <2>5, <3>1, SearchedHolds DEF Form!SearchFails
  <2>6. ASSUME NEW q \in search[f].searches, NEW found \in BOOLEAN,
               Form!SearchAnswers(f, q, found)
        PROVE  FormInv'
    <3>1. [search[f] EXCEPT !.searches = @ \ {q}, !.loading = FALSE,
                            !.open = found, !.results = IF found THEN q ELSE None] \in Form!Search
      BY <2>1, <2>6 DEF Form!Search
    <3> QED BY <1>2, <2>6, <3>1, SearchedHolds DEF Form!SearchAnswers
  <2>7. ASSUME NEW p \in search[f].details, Form!DetailsFail(f, p) PROVE FormInv'
    <3>1. [search[f] EXCEPT !.details = @ \ {p}, !.loading = FALSE] \in Form!Search
      BY <2>1 DEF Form!Search
    <3> QED BY <1>2, <2>7, <3>1, SearchedHolds DEF Form!DetailsFail
  <2> QED BY <1>2, <2>2, <2>3, <2>4, <2>5, <2>6, <2>7
<1>3. ASSUME NEW f \in Form!Field, Form!Clear(f) PROVE FormInv'
  BY <1>3, ClearHolds
<1>4. ASSUME NEW f \in Form!Field, NEW p \in Place, Form!handleSelect(f, p) PROVE FormInv'
  BY <1>4, SelectHolds
<1>5. ASSUME NEW f \in Form!Field, NEW p \in search[f].details, Form!DetailsAnswer(f, p)
      PROVE  FormInv'
  BY <1>5, DetailsHold
<1>6. ASSUME NEW spot \in Spot, Form!PositionArrives(spot) PROVE FormInv'
  <2>1. position' \in Spot \cup {None} /\ coords' \in [Form!Field -> Place \cup {None}]
        /\ Form!QuoteEffect(coords', position')
    BY <1>6 DEF Form!PositionArrives, FormInv, Form!FormTypeOK
  <2>2. /\ quote' \in Form!Pair \cup {Form!NoPair} /\ routeLoading' \in BOOLEAN
        /\ quoting' \subseteq Form!Quoting
        /\ \A q \in quoting' : q.live => q.pair = PresentPair'
    BY <2>1, QuoteEffectHolds
  <2>3. PlaceChosenIsNamed'
    BY <1>6 DEF Form!PositionArrives, FormInv, PlaceChosenIsNamed
  <2> QED BY <1>6, <2>1, <2>2, <2>3 DEF Form!PositionArrives, FormInv, Form!FormTypeOK
<1>7. ASSUME NEW q \in quoting, NEW found \in BOOLEAN, Form!QuoteAnswers(q, found) PROVE FormInv'
  BY <1>7 DEF Form!QuoteAnswers, FormInv, Form!FormTypeOK, PlaceChosenIsNamed, PresentPair,
              Form!effectivePickup, Form!Quoting
<1>8. ASSUME Form!publishRide \/ \E ok \in BOOLEAN : Form!PublishAnswers(ok) PROVE FormInv'
  BY <1>8 DEF Form!publishRide, Form!PublishAnswers, FormInv, Form!FormTypeOK,
              PlaceChosenIsNamed, PresentPair, Form!effectivePickup
<1> QED BY <1>1, <1>2, <1>3, <1>4, <1>5, <1>6, <1>7, <1>8 DEF Form!FormStep

\* What may be booked: a pickup that was not chosen is the rider's position.
LEMMA BookedShown ==
  ASSUME FormInv
  PROVE  Form!BookedIsNamed
<1> SUFFICES ASSUME Form!PublishEnabled
             PROVE  /\ text["dropoff"] = coords["dropoff"]
                    /\ \/ Form!effectivePickup(coords, position) \in {text["pickup"], position}
                       \/ text["pickup"] = CurrentLocation
  BY DEF Form!BookedIsNamed
<1>1. text["dropoff"] = coords["dropoff"]
  BY DEF FormInv, PlaceChosenIsNamed, Form!Field, Form!PublishEnabled
<1>2. coords["pickup"] # None =>
          text["pickup"] = coords["pickup"] \/ text["pickup"] = CurrentLocation
  BY DEF FormInv, PlaceChosenIsNamed, Form!Field
<1> QED BY <1>1, <1>2 DEF Form!effectivePickup

\* Only the route of the places chosen is heard.
LEMMA QuoteHeard ==
  ASSUME FormInv, [Form!FormStep]_formVars
  PROVE  quote' # quote => quote' \in {Form!NoPair, PresentPair}
<1>1. ASSUME NEW f, NEW t, NEW c, Form!Show(f, t, c)
      PROVE  quote' \in {quote, Form!NoPair}
  BY <1>1 DEF Form!Show, Form!QuoteEffect
<1>2. ASSUME NEW spot, Form!PositionArrives(spot)
      PROVE  quote' \in {quote, Form!NoPair}
  BY <1>2 DEF Form!PositionArrives, Form!QuoteEffect
<1>3. ASSUME NEW q \in quoting, NEW found \in BOOLEAN, Form!QuoteAnswers(q, found)
      PROVE  quote' \in {quote, PresentPair}
  BY <1>3 DEF Form!QuoteAnswers, FormInv
<1>4. ASSUME NEW f, NEW x, Form!Searched(f, x)
      PROVE  quote' = quote
  BY <1>4 DEF Form!Searched
<1>5. CASE \E f \in Form!Field :
             \/ \E t \in Query \cup {None} : Form!Type(f, t)
             \/ Form!Clear(f)
             \/ \E p \in Place : Form!handleSelect(f, p)
             \/ \E p \in search[f].details : Form!DetailsAnswer(f, p)
  BY <1>1, <1>5 DEF Form!Type, Form!Clear, Form!handleSelect, Form!DetailsAnswer
<1>6. CASE \E f \in Form!Field :
             \/ Form!TimerFires(f) \/ Form!Focus(f) \/ Form!ClickOutside(f)
             \/ \E q \in search[f].searches : Form!SearchFails(f, q)
             \/ \E q \in search[f].searches, found \in BOOLEAN : Form!SearchAnswers(f, q, found)
             \/ \E p \in search[f].details : Form!DetailsFail(f, p)
  BY <1>4, <1>6 DEF Form!TimerFires, Form!Focus, Form!ClickOutside, Form!SearchFails,
                    Form!SearchAnswers, Form!DetailsFail
<1>7. CASE UNCHANGED formVars \/ Form!publishRide \/ \E ok \in BOOLEAN : Form!PublishAnswers(ok)
  BY <1>7 DEF formVars, Form!publishRide, Form!PublishAnswers
<1> QED BY <1>2, <1>3, <1>5, <1>6, <1>7 DEF Form!FormStep

-----------------------------------------------------------------------------
(***************************************************************************)
(* PageRoutes.  The invariant: a fetch that will be heard is one the       *)
(* effect makes for the ride and the position of now.                      *)
(***************************************************************************)

RoutesInv ==
    /\ Routes!RoutesTypeOK
    /\ Routes!ApproachOnlyToPickup
    /\ \A f \in routing : f.live =>
          /\ activeRide # Routes!NoRide
          /\ \/ f.leg = Routes!Trip(activeRide)
             \/ /\ Routes!Approaching(activeRide, driverAt)
                /\ f.leg = Routes!Approach(activeRide, driverAt)

LEMMA RoutesInitial == Routes!RoutesInit => RoutesInv
  BY DEF Routes!RoutesInit, RoutesInv, Routes!RoutesTypeOK, Routes!ApproachOnlyToPickup

LEMMA RoutesKept == RoutesInv /\ UNCHANGED routesVars => RoutesInv'
  BY DEF RoutesInv, routesVars, Routes!RoutesTypeOK, Routes!ApproachOnlyToPickup,
         Routes!Approaching, Routes!Approach, Routes!Trip

\* The effect, after any change of the ride or the position.
LEMMA RoutesEffectHolds ==
  ASSUME RoutesInv, Routes!RoutesAssumption,
         Routes!RoutesEffect(activeRide', driverAt'),
         activeRide' \in Routes!ActiveRide \cup {Routes!NoRide},
         driverAt' \in Position \cup {None}
  PROVE  RoutesInv'
<1>1. \A f \in Routes!Dropped(routing) : f \in Routes!Routing /\ f.live = FALSE
  BY DEF Routes!Dropped, Routes!Routing, RoutesInv, Routes!RoutesTypeOK
<1>2. CASE activeRide' = Routes!NoRide
  <2>1. approachRoute' = None /\ rideRoute' = None /\ routing' = Routes!Dropped(routing)
    BY <1>2 DEF Routes!RoutesEffect
  <2> QED BY <1>1, <1>2, <2>1 DEF RoutesInv, Routes!RoutesTypeOK, Routes!ApproachOnlyToPickup
<1>3. CASE activeRide' # Routes!NoRide
  <2> DEFINE due == IF Routes!Approaching(activeRide', driverAt')
                     THEN {Routes!Trip(activeRide'), Routes!Approach(activeRide', driverAt')}
                     ELSE {Routes!Trip(activeRide')}
  <2>1. /\ routing' = Routes!Dropped(routing) \cup Routes!Fetched(due)
        /\ rideRoute' = rideRoute
        /\ approachRoute' \in {approachRoute, None}
        /\ approachRoute' # None => Routes!Approaching(activeRide', driverAt')
    BY <1>3 DEF Routes!RoutesEffect
  <2>2. due \subseteq Routes!Leg
    BY <1>3 DEF Routes!Approaching, Routes!Trip, Routes!Approach, Routes!Leg, Routes!ActiveRide
  <2>3. \A l \in due : \/ l = Routes!Trip(activeRide')
                        \/ /\ Routes!Approaching(activeRide', driverAt')
                           /\ l = Routes!Approach(activeRide', driverAt')
    OBVIOUS
  <2> HIDE DEF due
  <2>4. \A f \in Routes!Fetched(due) : f \in Routes!Routing /\ f.leg \in due
    <3> SUFFICES ASSUME NEW l \in due
                 PROVE  /\ [leg |-> l, live |-> TRUE] \in Routes!Routing
                        /\ [leg |-> l, live |-> TRUE].leg \in due
      BY DEF Routes!Fetched
    <3> QED BY <2>2 DEF Routes!Routing
  <2>5. routing' \subseteq Routes!Routing
    BY <1>1, <2>1, <2>4
  <2>6. \A f \in routing' : f.live => f.leg \in due
    BY <1>1, <2>1, <2>4
  <2>7. Routes!RoutesTypeOK'
    BY <2>1, <2>5 DEF RoutesInv, Routes!RoutesTypeOK
  <2>8. Routes!ApproachOnlyToPickup'
    BY <1>3, <2>1 DEF Routes!ApproachOnlyToPickup
  <2> QED BY <1>3, <2>3, <2>6, <2>7, <2>8 DEF RoutesInv
<1> QED BY <1>2, <1>3

LEMMA RoutesStepHolds ==
  ASSUME RoutesInv, Routes!RoutesAssumption, Routes!RoutesStep
  PROVE  RoutesInv'
<1>1. ASSUME NEW ride_ \in Routes!ActiveRide \cup {Routes!NoRide}, Routes!RideBecomes(ride_)
      PROVE  RoutesInv'
  <2>1. activeRide' = ride_ /\ driverAt' = driverAt
        /\ Routes!RoutesEffect(activeRide', driverAt')
    BY <1>1 DEF Routes!RideBecomes
  <2> QED BY <1>1, <2>1, RoutesEffectHolds DEF RoutesInv, Routes!RoutesTypeOK
<1>2. ASSUME NEW at \in Position, Routes!Recentered(at) PROVE RoutesInv'
  <2>1. driverAt' = at /\ activeRide' = activeRide
        /\ Routes!RoutesEffect(activeRide', driverAt')
    BY <1>2 DEF Routes!Recentered
  <2> QED BY <1>2, <2>1, RoutesEffectHolds DEF RoutesInv, Routes!RoutesTypeOK
<1>3. ASSUME NEW f \in routing, NEW found \in BOOLEAN, Routes!RouteAnswers(f, found)
      PROVE  RoutesInv'
  <2>1. f.leg \in Routes!Leg
    BY DEF RoutesInv, Routes!RoutesTypeOK, Routes!Routing
  <2>2. /\ routing' = routing \ {f} /\ activeRide' = activeRide /\ driverAt' = driverAt
        /\ rideRoute' \in {rideRoute, f.leg} /\ approachRoute' \in {approachRoute, f.leg}
        /\ rideRoute' # rideRoute => f.live
        /\ approachRoute' # approachRoute => f.live /\ f.leg.from # "pickup"
    BY <1>3 DEF Routes!RouteAnswers
  <2>3. Routes!Trip(activeRide).from = "pickup"
    BY DEF Routes!Trip
  <2>4. Routes!RoutesTypeOK'
    BY <2>1, <2>2 DEF RoutesInv, Routes!RoutesTypeOK
  <2>5. Routes!ApproachOnlyToPickup'
    BY <2>2, <2>3 DEF RoutesInv, Routes!ApproachOnlyToPickup, Routes!Approaching
  <2>6. \A g \in routing' : g.live =>
          /\ activeRide' # Routes!NoRide
          /\ \/ g.leg = Routes!Trip(activeRide')
             \/ /\ Routes!Approaching(activeRide', driverAt')
                /\ g.leg = Routes!Approach(activeRide', driverAt')
    BY <2>2 DEF RoutesInv
  <2> QED
    BY <2>4, <2>5, <2>6 DEF RoutesInv
<1> QED BY <1>1, <1>2, <1>3 DEF Routes!RoutesStep

\* Only routes of the ride and the position of now are heard.
LEMMA RoutesHeard ==
  ASSUME RoutesInv, [Routes!RoutesStep]_routesVars
  PROVE  /\ approachRoute' # approachRoute =>
               approachRoute' \in {None, Routes!Approach(activeRide', driverAt')}
         /\ rideRoute' # rideRoute => rideRoute' \in {None, Routes!Trip(activeRide')}
<1>1. ASSUME NEW f \in routing, NEW found \in BOOLEAN, Routes!RouteAnswers(f, found)
      PROVE  /\ approachRoute' # approachRoute =>
                   approachRoute' = Routes!Approach(activeRide', driverAt')
             /\ rideRoute' # rideRoute => rideRoute' = Routes!Trip(activeRide')
  BY <1>1 DEF Routes!RouteAnswers, RoutesInv, Routes!Approach, Routes!Trip
<1>2. ASSUME NEW r, NEW at, Routes!RoutesEffect(r, at)
      PROVE  approachRoute' \in {approachRoute, None} /\ rideRoute' \in {rideRoute, None}
  BY <1>2 DEF Routes!RoutesEffect
<1>3. CASE \/ \E r \in Routes!ActiveRide \cup {Routes!NoRide} : Routes!RideBecomes(r)
           \/ \E at \in Position : Routes!Recentered(at)
  BY <1>2, <1>3 DEF Routes!RideBecomes, Routes!Recentered
<1>4. CASE UNCHANGED routesVars
  BY <1>4 DEF routesVars
<1> QED BY <1>1, <1>3, <1>4 DEF Routes!RoutesStep

-----------------------------------------------------------------------------
(***************************************************************************)
(* AccountViews.  The invariant: a fetch that will be heard is for the     *)
(* account and the role of now, and a list that is neither loading nor     *)
(* failed is theirs.                                                       *)
(***************************************************************************)

ViewsInv ==
    /\ View!ViewsTypeOK
    /\ \A f \in balanceFetches : f.live => f.account = address
    /\ \A f \in activity.fetches : f.live =>
          activity.mounted /\ f.account = address /\ f.role = activity.role
    /\ activity.mounted /\ address # NoAccount /\ ~ activity.loading /\ ~ activity.failed =>
          activity.rides = [account |-> address, role |-> activity.role]

LEMMA ViewsInitial ==
  ASSUME View!ViewsInit
  PROVE  ViewsInv
<1>1. /\ activity \in View!Activity /\ activity.fetches = {} /\ activity.loading = TRUE
  BY DEF View!ViewsInit, View!Unmounted, View!NoRides, View!Activity, View!Rides, View!Role,
         View!MaybeAccount
<1> QED BY <1>1 DEF View!ViewsInit, ViewsInv, View!ViewsTypeOK, View!MaybeAccount

LEMMA ViewsKept == ViewsInv /\ UNCHANGED viewVars => ViewsInv'
  BY DEF ViewsInv, viewVars, View!ViewsTypeOK

LEMMA ListedHolds == ViewsInv => View!ListedIsPresent
  BY DEF ViewsInv, View!ListedIsPresent, View!RidesListed, View!ActivityShown

\* The balance: its half of the invariant, and what is heard.
BalanceInv ==
    /\ ethBalance \in View!MaybeAccount /\ balanceFetches \subseteq View!BalanceFetch
    /\ \A f \in balanceFetches : f.live => f.account = address

LEMMA BalanceEffectHolds ==
  ASSUME BalanceInv, NEW known, View!BalanceEffect(address', known),
         address' \in View!MaybeAccount
  PROVE  BalanceInv' /\ ethBalance' \in {ethBalance, NoAccount}
<1>1. \A f \in View!Dropped(balanceFetches) : f \in View!BalanceFetch /\ f.live = FALSE
  BY DEF View!Dropped, View!BalanceFetch, BalanceInv
<1>2. CASE address' = NoAccount \/ ~ known
  BY <1>1, <1>2 DEF View!BalanceEffect, BalanceInv, View!MaybeAccount
<1>3. CASE address' # NoAccount /\ known
  <2> DEFINE fetch == [account |-> address', live |-> TRUE]
  <2>1. fetch \in View!BalanceFetch /\ fetch.account = address'
    BY <1>3 DEF View!BalanceFetch, View!MaybeAccount
  <2>2. balanceFetches' = View!Dropped(balanceFetches) \cup {fetch} /\ ethBalance' = ethBalance
    BY <1>3 DEF View!BalanceEffect
  <2> HIDE DEF fetch
  <2> QED BY <1>1, <2>1, <2>2 DEF BalanceInv
<1> QED BY <1>2, <1>3

\* The list: its half.
ListInv ==
    /\ activity \in View!Activity
    /\ \A f \in activity.fetches : f.live =>
          activity.mounted /\ f.account = address /\ f.role = activity.role
    /\ activity.mounted /\ address # NoAccount /\ ~ activity.loading /\ ~ activity.failed =>
          activity.rides = [account |-> address, role |-> activity.role]

LEMMA FetchingHolds ==
  ASSUME NEW page \in View!Activity, NEW a \in Account, page.mounted,
         address' = a, activity' = View!Fetching(page, a),
         \A f \in page.fetches : f.live => f.account = a /\ f.role = page.role
  PROVE  ListInv' /\ activity'.rides = page.rides
<1> DEFINE fetch == [account |-> a, role |-> page.role, live |-> TRUE]
<1>1. fetch \in View!RidesFetch /\ fetch.account = a /\ fetch.role = page.role
  BY DEF View!RidesFetch, View!Activity
<1>2. /\ activity' \in View!Activity
      /\ activity'.fetches = page.fetches \cup {fetch}
      /\ activity'.mounted = page.mounted /\ activity'.role = page.role
      /\ activity'.loading = TRUE /\ activity'.rides = page.rides
  BY <1>1 DEF View!Fetching, View!Activity
<1> HIDE DEF fetch
<1> QED BY <1>1, <1>2 DEF ListInv

LEMMA CleanedUp ==
  ASSUME NEW page \in View!Activity
  PROVE  /\ View!Dropped(page.fetches) \subseteq View!RidesFetch
         /\ \A f \in View!Dropped(page.fetches) : f.live = FALSE
  BY DEF View!Dropped, View!RidesFetch, View!Activity

LEMMA RidesEffectHolds ==
  ASSUME NEW page \in View!Activity, NEW a \in View!MaybeAccount,
         address' = a, activity' = View!RidesEffect(page, a)
  PROVE  ListInv' /\ activity'.rides = page.rides
<1> DEFINE cleaned == [page EXCEPT !.fetches = View!Dropped(page.fetches), !.failed = FALSE]
<1>1. /\ cleaned \in View!Activity /\ cleaned.fetches = View!Dropped(page.fetches)
      /\ cleaned.rides = page.rides /\ cleaned.mounted = page.mounted
  BY CleanedUp DEF View!Activity
<1>2. activity' = IF page.mounted /\ a # NoAccount THEN View!Fetching(cleaned, a) ELSE cleaned
  BY DEF View!RidesEffect
<1> HIDE DEF cleaned
<1>3. CASE page.mounted /\ a # NoAccount
  BY <1>1, <1>2, <1>3, CleanedUp, FetchingHolds DEF View!MaybeAccount
<1>4. CASE ~ (page.mounted /\ a # NoAccount)
  BY <1>1, <1>2, <1>4, CleanedUp DEF ListInv
<1> QED BY <1>3, <1>4

LEMMA ViewsStepHolds ==
  ASSUME ViewsInv, View!ViewsAssumption, View!ViewsNext
  PROVE  /\ ViewsInv'
         /\ ethBalance' # ethBalance => ethBalance' \in {NoAccount, address'}
         /\ activity'.rides # activity.rides =>
               activity'.rides \in {View!NoRides, [account |-> address', role |-> activity'.role]}
<1> DEFINE Heard ==
        /\ ethBalance' # ethBalance => ethBalance' \in {NoAccount, address'}
        /\ activity'.rides # activity.rides =>
              activity'.rides \in {View!NoRides, [account |-> address', role |-> activity'.role]}
<1>0. BalanceInv /\ ListInv /\ address \in View!MaybeAccount /\ walletProvider \in BOOLEAN
      /\ isOnSepolia \in BOOLEAN /\ activity \in View!Activity
  BY DEF ViewsInv, View!ViewsTypeOK, BalanceInv, ListInv
<1>c. ASSUME BalanceInv', ListInv', address' \in View!MaybeAccount, walletProvider' \in BOOLEAN,
             isOnSepolia' \in BOOLEAN
      PROVE  ViewsInv'
  BY <1>c DEF ViewsInv, View!ViewsTypeOK, BalanceInv, ListInv
<1>a. ASSUME UNCHANGED <<address, ethBalance, balanceFetches>> PROVE BalanceInv'
  BY <1>0, <1>a DEF BalanceInv
<1>b. ASSUME UNCHANGED <<address, activity>> PROVE ListInv'
  BY <1>0, <1>b DEF ListInv
<1>1. ASSUME NEW a \in View!MaybeAccount, View!AddressBecomes(a) PROVE ViewsInv' /\ Heard
  <2>1. /\ address' = a /\ walletProvider' \in BOOLEAN /\ isOnSepolia' = isOnSepolia
        /\ View!BalanceEffect(address', walletProvider')
        /\ activity' = View!RidesEffect(activity, a)
    BY <1>0, <1>1 DEF View!AddressBecomes
  <2>2. BalanceInv' /\ ethBalance' \in {ethBalance, NoAccount}
    BY <1>0, <1>1, <2>1, BalanceEffectHolds
  <2>3. ListInv' /\ activity'.rides = activity.rides
    BY <1>0, <1>1, <2>1, RidesEffectHolds
  <2> QED BY <1>0, <1>1, <2>1, <2>2, <2>3, <1>c
<1>2. ASSUME NEW known \in BOOLEAN, View!ProviderBecomes(known) PROVE ViewsInv' /\ Heard
  <2>1. /\ address' = address /\ walletProvider' = known /\ isOnSepolia' = isOnSepolia
        /\ View!BalanceEffect(address', known) /\ activity' = activity
    BY <1>2 DEF View!ProviderBecomes
  <2>2. BalanceInv' /\ ethBalance' \in {ethBalance, NoAccount}
    BY <1>0, <2>1, BalanceEffectHolds
  <2> QED BY <1>0, <1>b, <2>1, <2>2, <1>c
<1>3. CASE View!BalanceTick
  <2> DEFINE fetch == [account |-> address, live |-> TRUE]
  <2>1. fetch \in View!BalanceFetch /\ fetch.account = address
    BY <1>0, <1>3 DEF View!BalanceFetch, View!MaybeAccount, View!BalanceTick
  <2>2. /\ balanceFetches' = balanceFetches \cup {fetch}
        /\ UNCHANGED <<address, walletProvider, isOnSepolia, ethBalance, activity>>
    BY <1>3 DEF View!BalanceTick
  <2> HIDE DEF fetch
  <2>3. BalanceInv'
    BY <1>0, <2>1, <2>2 DEF BalanceInv
  <2> QED BY <1>0, <1>b, <2>2, <2>3, <1>c
<1>4. ASSUME NEW f \in balanceFetches, View!BalanceAnswers(f) \/ View!BalanceFails(f)
      PROVE  ViewsInv' /\ Heard
  <2>1. /\ balanceFetches' = balanceFetches \ {f}
        /\ ethBalance' = ethBalance \/ (f.live /\ ethBalance' = f.account)
        /\ UNCHANGED <<address, walletProvider, isOnSepolia, activity>>
    BY <1>4 DEF View!BalanceAnswers, View!BalanceFails
  <2>2. f.account \in View!MaybeAccount /\ (f.live => f.account = address)
    BY <1>0 DEF BalanceInv, View!BalanceFetch, View!MaybeAccount
  <2>3. BalanceInv'
    BY <1>0, <2>1, <2>2 DEF BalanceInv
  <2> QED BY <1>0, <1>b, <2>1, <2>2, <2>3, <1>c
<1>5. CASE View!OpenActivity
  <2> DEFINE page == [activity EXCEPT !.mounted = TRUE]
  <2>1. page \in View!Activity /\ page.rides = activity.rides
    BY <1>0 DEF View!Activity
  <2>2. /\ activity' = View!RidesEffect(page, address)
        /\ UNCHANGED <<address, walletProvider, isOnSepolia, ethBalance, balanceFetches>>
    BY <1>5 DEF View!OpenActivity
  <2> HIDE DEF page
  <2>3. ListInv' /\ activity'.rides = page.rides
    BY <1>0, <2>1, <2>2, RidesEffectHolds
  <2> QED BY <1>0, <1>a, <2>1, <2>2, <2>3, <1>c
<1>6. CASE View!LeaveActivity
  <2>1. /\ activity' = View!Unmounted(View!Dropped(activity.fetches))
        /\ UNCHANGED <<address, walletProvider, isOnSepolia, ethBalance, balanceFetches>>
    BY <1>6 DEF View!LeaveActivity
  <2>2. /\ activity' \in View!Activity /\ ~ activity'.mounted
        /\ activity'.fetches = View!Dropped(activity.fetches)
        /\ activity'.rides = View!NoRides
    BY <1>0, <2>1, CleanedUp
       DEF View!Unmounted, View!Activity, View!NoRides, View!Rides, View!Role, View!MaybeAccount
  <2>3. ListInv'
    BY <1>0, <2>2, CleanedUp DEF ListInv
  <2> QED BY <1>0, <1>a, <2>1, <2>2, <2>3, <1>c
<1>7. ASSUME NEW role \in View!Role, View!ChooseRole(role) PROVE ViewsInv' /\ Heard
  <2> DEFINE page == [activity EXCEPT !.role = role]
  <2>1. page \in View!Activity /\ page.rides = activity.rides
    BY <1>0 DEF View!Activity
  <2>2. /\ activity' = View!RidesEffect(page, address)
        /\ UNCHANGED <<address, walletProvider, isOnSepolia, ethBalance, balanceFetches>>
    BY <1>7 DEF View!ChooseRole
  <2> HIDE DEF page
  <2>3. ListInv' /\ activity'.rides = page.rides
    BY <1>0, <2>1, <2>2, RidesEffectHolds
  <2> QED BY <1>0, <1>a, <2>1, <2>2, <2>3, <1>c
<1>8. CASE View!RidesChange
  <2>1. /\ activity' = View!Fetching(activity, address) /\ activity.mounted /\ address \in Account
        /\ UNCHANGED <<address, walletProvider, isOnSepolia, ethBalance, balanceFetches>>
    BY <1>0, <1>8 DEF View!RidesChange, View!ActivityShown, View!MaybeAccount
  <2>2. ListInv' /\ activity'.rides = activity.rides
    BY <1>0, <2>1, FetchingHolds DEF ListInv
  <2> QED BY <1>0, <1>a, <2>1, <2>2, <1>c
<1>9. ASSUME NEW f \in activity.fetches, NEW ok \in BOOLEAN, View!RidesAnswer(f, ok)
      PROVE  ViewsInv' /\ Heard
  <2>1. f \in View!RidesFetch
    BY <1>0 DEF View!Activity
  <2>2. /\ activity'.fetches = activity.fetches \ {f}
        /\ activity'.loading = (activity.loading /\ ~ f.live)
        /\ activity'.failed = (activity.failed \/ (f.live /\ ~ ok))
        /\ activity'.rides = IF f.live /\ ok THEN [account |-> f.account, role |-> f.role]
                                             ELSE activity.rides
        /\ activity'.mounted = activity.mounted /\ activity'.role = activity.role
        /\ UNCHANGED <<address, walletProvider, isOnSepolia, ethBalance, balanceFetches>>
    BY <1>0, <1>9 DEF View!RidesAnswer, View!Activity
  <2>3. activity' \in View!Activity
    BY <1>0, <1>9, <2>1 DEF View!RidesAnswer, View!Activity, View!RidesFetch, View!Rides,
                            View!MaybeAccount
  <2>4. ListInv'
    BY <1>0, <2>2, <2>3 DEF ListInv
  <2> QED BY <1>0, <1>a, <2>2, <2>4, <1>c DEF ListInv
<1>10. CASE View!switchToSepolia \/ View!WalletSwitchesNetwork
  <2>1. isOnSepolia' \in BOOLEAN
        /\ UNCHANGED <<address, walletProvider, ethBalance, balanceFetches, activity>>
    BY <1>10 DEF View!switchToSepolia, View!WalletSwitchesNetwork
  <2> QED BY <1>0, <1>a, <1>b, <2>1, <1>c
<1> QED
  BY <1>1, <1>2, <1>3, <1>4, <1>5, <1>6, <1>7, <1>8, <1>9, <1>10 DEF View!ViewsNext

-----------------------------------------------------------------------------
(***************************************************************************)
(* MapView.  The invariant: a map that has been told nothing yet, or       *)
(* Google's before onLoad, counts as one whose last update was dropped.    *)
(***************************************************************************)

MapInv ==
    /\ Map!MapTypeOK
    /\ Map!MapIsPresent
    /\ map = "none" \/ (map = "created" /\ provider = "google") => dropped

LEMMA MapInitial == Map!MapInit => MapInv
  BY DEF Map!MapInit, MapInv, Map!MapTypeOK, Map!MapIsPresent

LEMMA MapKept == MapInv /\ UNCHANGED mapVars => MapInv'
  BY DEF MapInv, mapVars, Map!MapTypeOK, Map!MapIsPresent, Map!MarkersShown

LEMMA MapStepHolds ==
  ASSUME MapInv, Map!MapNext
  PROVE  MapInv'
<1> USE DEF MapInv, Map!MapTypeOK, Map!MapIsPresent, Map!MarkersShown, Map!fixed
<1>1. ASSUME NEW p \in Props, Map!OpenPage(p) PROVE MapInv'
  BY <1>1 DEF Map!OpenPage, Map!Mount
<1>2. ASSUME NEW p \in Props, Map!NewProps(p) PROVE MapInv'
  <2>1. CASE provider = "google"
    BY <1>2, <2>1 DEF Map!NewProps, Map!Tell, Map!TellGoogle
  <2>2. CASE provider = "maplibre"
    BY <1>2, <2>2 DEF Map!NewProps, Map!Tell, Map!TellMapLibre
  <2> QED BY <2>1, <2>2
<1>3. CASE Map!LeavePage
  BY <1>3 DEF Map!LeavePage
<1>4. CASE Map!PositionArrives
  <2>1. CASE provider = "google"
    BY <1>4, <2>1 DEF Map!PositionArrives, Map!SpinnerGone
  <2>2. CASE provider = "maplibre"
    BY <1>4, <2>2 DEF Map!PositionArrives, Map!SpinnerGone, Map!Tell, Map!TellMapLibre
  <2> QED BY <2>1, <2>2
<1>5. ASSUME NEW result \in {"loaded", "error"}, Map!ScriptLoads(result) PROVE MapInv'
  BY <1>5 DEF Map!ScriptLoads
<1>6. CASE Map!GoogleMapLoads
  BY <1>6 DEF Map!GoogleMapLoads
<1>7. CASE Map!StyleLoads
  BY <1>7 DEF Map!StyleLoads
<1>8. CASE Map!StyleTurns
  BY <1>8 DEF Map!StyleTurns
<1>9. CASE Map!GeolocationUnsupported
  BY <1>9 DEF Map!GeolocationUnsupported, Map!SpinnerGone
<1> QED BY <1>1, <1>2, <1>3, <1>4, <1>5, <1>6, <1>7, <1>8, <1>9 DEF Map!MapNext

-----------------------------------------------------------------------------
(***************************************************************************)
(* DriverPanels.  The invariant: a sum that was read, and that no transfer *)
(* crossed since, is the deposit, and none of that account's transfers is  *)
(* still to be added.                                                      *)
(***************************************************************************)

TransferHolds(t) == t \in Panel!Transfer /\ (t.at # "idle" => t.account \in Account)

ReadingHolds(f) ==
    f.exact /\ f.sum # Unknown =>
        /\ f.sum = onChain[f.account].deposit
        /\ ~ Panel!Mined(depositing, f.account) /\ ~ Panel!Mined(withdrawing, f.account)

SumHolds ==
    exact => /\ driver \in Account /\ depositedWei \in Int
             /\ depositedWei = onChain[driver].deposit
                                   - Panel!Pending(depositing) + Panel!Pending(withdrawing)

PanelsInv ==
    /\ Panel!PanelsTypeOK
    /\ TransferHolds(depositing) /\ TransferHolds(withdrawing)
    /\ \A f \in reading : ReadingHolds(f)
    /\ SumHolds

LEMMA PanelsInitial ==
  ASSUME Panel!PanelsInit, Panel!PanelsAssumption
  PROVE  PanelsInv
<1>1. onChain \in [Account -> Panel!OnChain]
  BY DEF Panel!PanelsInit, Panel!OnChain
<1>2. TransferHolds(Panel!NoTransfer)
  BY DEF TransferHolds, Panel!Transfer, Panel!NoTransfer
<1> QED
  BY <1>1, <1>2 DEF Panel!PanelsInit, PanelsInv, Panel!PanelsTypeOK, SumHolds, TransferHolds

LEMMA PanelsKept == PanelsInv /\ UNCHANGED panelsVars => PanelsInv'
  BY DEF PanelsInv, panelsVars, Panel!PanelsTypeOK, ReadingHolds, SumHolds, Panel!Mined,
         Panel!Pending

LEMMA SumShown ==
  ASSUME PanelsInv, Panel!PanelsAssumption
  PROVE  Panel!SumIsRight
<1>1. Panel!Pending(depositing) \in Nat /\ Panel!Pending(withdrawing) \in Nat
  BY DEF PanelsInv, Panel!PanelsTypeOK, Panel!Transfer, Panel!Pending
<1>2. exact => onChain[driver].deposit \in Nat
  BY DEF PanelsInv, Panel!PanelsTypeOK, Panel!OnChain, SumHolds
<1>3. CASE exact
  BY <1>1, <1>2, <1>3 DEF PanelsInv, SumHolds, Panel!SumIsRight, Panel!Sufficient,
                          Panel!PanelsAssumption
<1> QED BY <1>3 DEF Panel!SumIsRight

\* A step that changes none of what a reading or the sum depends on.
LEMMA PanelsQuiet ==
  ASSUME PanelsInv, UNCHANGED <<driver, onChain, depositedWei, exact>>,
         depositing' = depositing
           \/ (Panel!Pending(depositing)' = 0 /\ Panel!Pending(depositing) = 0
               /\ \A a \in Account : ~ Panel!Mined(depositing, a)'),
         withdrawing' = withdrawing
           \/ (Panel!Pending(withdrawing)' = 0 /\ Panel!Pending(withdrawing) = 0
               /\ \A a \in Account : ~ Panel!Mined(withdrawing, a)'),
         TransferHolds(depositing)', TransferHolds(withdrawing)',
         reading' \subseteq reading, registering' \in Account \cup {NoAccount},
         registrations' \subseteq Account
  PROVE  PanelsInv'
<1>1. Panel!PanelsTypeOK'
  BY DEF PanelsInv, Panel!PanelsTypeOK, TransferHolds
<1>2. \A f \in reading' : ReadingHolds(f)'
  <2> SUFFICES ASSUME NEW f \in reading' PROVE ReadingHolds(f)'
    OBVIOUS
  <2>1. f \in reading /\ f.account \in Account /\ ReadingHolds(f)
    BY DEF PanelsInv, Panel!PanelsTypeOK, Panel!Reading
  <2> QED BY <2>1 DEF ReadingHolds, Panel!Mined
<1>3. SumHolds'
  <2>1. Panel!Pending(depositing)' = Panel!Pending(depositing)
        /\ Panel!Pending(withdrawing)' = Panel!Pending(withdrawing)
    BY DEF Panel!Pending, Panel!Mined
  <2> QED BY <2>1 DEF PanelsInv, SumHolds
<1> QED BY <1>1, <1>2, <1>3 DEF PanelsInv

\* A transfer of account a is mined.
LEMMA CrossedHolds ==
  ASSUME PanelsInv, NEW a \in Account, reading' = Panel!Crossed(a),
         \A b \in Account : b # a => /\ onChain'[b] = onChain[b]
                                     /\ Panel!Mined(depositing, b)' = Panel!Mined(depositing, b)
                                     /\ Panel!Mined(withdrawing, b)' = Panel!Mined(withdrawing, b)
  PROVE  reading' \subseteq Panel!Reading /\ \A f \in reading' : ReadingHolds(f)'
<1> SUFFICES ASSUME NEW f \in reading
             PROVE  LET g == [f EXCEPT !.exact = f.exact /\ (f.account # a \/ f.sum = Unknown)]
                    IN  g \in Panel!Reading /\ ReadingHolds(g)'
  BY DEF Panel!Crossed
<1> DEFINE g == [f EXCEPT !.exact = f.exact /\ (f.account # a \/ f.sum = Unknown)]
<1>1. f \in Panel!Reading /\ ReadingHolds(f)
  BY DEF PanelsInv, Panel!PanelsTypeOK
<1>2. /\ g \in Panel!Reading /\ g.account = f.account /\ g.sum = f.sum
      /\ g.exact = (f.exact /\ (f.account # a \/ f.sum = Unknown))
  BY <1>1 DEF Panel!Reading
<1>3. g.account \in Account
  BY <1>2 DEF Panel!Reading
<1> HIDE DEF g
<1>4. ReadingHolds(g)'
  BY <1>1, <1>2, <1>3 DEF ReadingHolds
<1> QED BY <1>2, <1>4 DEF g

LEMMA PanelsStepHolds ==
  ASSUME PanelsInv, Panel!PanelsAssumption, Panel!PanelsNext
  PROVE  PanelsInv'
<1>0. /\ TransferHolds(depositing) /\ TransferHolds(withdrawing)
      /\ driver \in Account \cup {NoAccount} /\ registering \in Account \cup {NoAccount}
      /\ NoAccount \notin Account /\ reading \subseteq Panel!Reading
      /\ onChain \in [Account -> Panel!OnChain] /\ depositedWei \in Int \cup {Unknown}
      /\ exact \in BOOLEAN /\ (\A f \in reading : ReadingHolds(f)) /\ SumHolds
  BY DEF PanelsInv, Panel!PanelsTypeOK, Panel!PanelsAssumption
<1>a. TransferHolds(Panel!NoTransfer) /\ Panel!NoTransfer.at = "idle"
  BY DEF TransferHolds, Panel!Transfer, Panel!NoTransfer
<1>b. registrations' \subseteq Account
  <2>1. registrations' \subseteq registrations \cup ({registering} \ {NoAccount})
    BY DEF Panel!PanelsNext, Panel!DriverBecomes, Panel!ReadingServed, Panel!ReadingAnswers,
           Panel!ReadingFails, Panel!registerOnChain, Panel!RegisterSent,
           Panel!RegistrationMined, Panel!RegisterAnswers, Panel!depositCollateral,
           Panel!withdrawCollateral, Panel!DepositMined, Panel!DepositAdded,
           Panel!DepositFails, Panel!WithdrawalMined, Panel!WithdrawalSubtracted,
           Panel!WithdrawalFails
  <2> QED BY <1>0, <2>1 DEF PanelsInv, Panel!PanelsTypeOK
<1>1. ASSUME NEW a \in Account \cup {NoAccount}, Panel!DriverBecomes(a) PROVE PanelsInv'
  <2> DEFINE f == [account |-> a, sum |-> Unknown, exact |-> TRUE]
  <2>1. /\ driver' = a /\ exact' = FALSE
        /\ reading' = reading \/ (a \in Account /\ reading' = reading \cup {f})
        /\ UNCHANGED <<onChain, depositedWei, registering, depositing, withdrawing>>
    BY <1>1 DEF Panel!DriverBecomes
  <2>2. a \in Account => f \in Panel!Reading /\ f.sum = Unknown
    BY DEF Panel!Reading
  <2> HIDE DEF f
  <2>3. reading' \subseteq Panel!Reading /\ \A g \in reading' : ReadingHolds(g)'
    BY <1>0, <2>1, <2>2 DEF ReadingHolds, Panel!Mined
  <2> QED BY <1>0, <1>b, <1>1, <2>1, <2>3 DEF PanelsInv, Panel!PanelsTypeOK, SumHolds, TransferHolds
<1>2. ASSUME NEW f \in reading, Panel!ReadingServed(f) PROVE PanelsInv'
  <2> DEFINE g == [f EXCEPT !.sum = onChain[f.account].deposit,
                            !.exact = ~ Panel!Mined(depositing, f.account)
                                      /\ ~ Panel!Mined(withdrawing, f.account)]
  <2>1. /\ reading' = (reading \ {f}) \cup {g}
        /\ UNCHANGED <<driver, onChain, depositedWei, registering, depositing, withdrawing, exact>>
    BY <1>2 DEF Panel!ReadingServed
  <2>2. f.account \in Account /\ onChain[f.account].deposit \in Nat /\ f \in Panel!Reading
    BY <1>0 DEF Panel!Reading, Panel!OnChain
  <2>3. /\ g \in Panel!Reading /\ g.account = f.account /\ g.sum = onChain[f.account].deposit
        /\ g.exact = (~ Panel!Mined(depositing, f.account) /\ ~ Panel!Mined(withdrawing, f.account))
    BY <2>2 DEF Panel!Reading, Panel!Mined
  <2> HIDE DEF g
  <2>4. reading' \subseteq Panel!Reading /\ \A h \in reading' : ReadingHolds(h)'
    BY <1>0, <2>1, <2>3 DEF ReadingHolds, Panel!Mined
  <2>5. SumHolds'
    BY <1>0, <2>1 DEF SumHolds, Panel!Pending, Panel!Mined
  <2> QED BY <1>0, <1>b, <2>1, <2>4, <2>5 DEF PanelsInv, Panel!PanelsTypeOK, TransferHolds
<1>3. ASSUME NEW f \in reading, Panel!ReadingAnswers(f) PROVE PanelsInv'
  <2>1. /\ f.sum # Unknown /\ reading' = reading \ {f} /\ depositedWei' = f.sum
        /\ exact' = (f.exact /\ f.account = driver)
        /\ UNCHANGED <<driver, onChain, registering, depositing, withdrawing>>
    BY <1>3 DEF Panel!ReadingAnswers
  <2>2. /\ f.sum \in Nat /\ f.account \in Account /\ f.exact \in BOOLEAN
    BY <1>0, <2>1 DEF Panel!Reading
  <2>3. ASSUME exact' PROVE SumHolds'
    <3>1. f.exact /\ f.account = driver /\ driver \in Account
      BY <2>1, <2>2, <2>3
    <3>2. /\ f.sum = onChain[driver].deposit
          /\ ~ Panel!Mined(depositing, driver) /\ ~ Panel!Mined(withdrawing, driver)
      BY <1>0, <2>1, <3>1 DEF ReadingHolds
    <3>3. Panel!Pending(depositing)' = 0 /\ Panel!Pending(withdrawing)' = 0
      BY <2>1, <3>2 DEF Panel!Pending, Panel!Mined
    <3> QED BY <2>1, <2>2, <3>1, <3>2, <3>3 DEF SumHolds
  <2>4. \A h \in reading' : ReadingHolds(h)'
    BY <1>0, <2>1 DEF ReadingHolds, Panel!Mined
  <2>5. SumHolds'
    BY <2>3 DEF SumHolds
  <2> QED BY <1>0, <1>b, <2>1, <2>2, <2>4, <2>5 DEF PanelsInv, Panel!PanelsTypeOK, TransferHolds
<1>4. ASSUME NEW f \in reading, Panel!ReadingFails(f) PROVE PanelsInv'
  <2>1. /\ reading' \subseteq reading /\ registering' = registering
        /\ UNCHANGED <<driver, onChain, depositedWei, exact, depositing, withdrawing>>
    BY <1>4 DEF Panel!ReadingFails
  <2> QED BY <1>0, <1>b, <2>1, PanelsQuiet DEF TransferHolds
<1>5. CASE Panel!registerOnChain
  <2>1. /\ reading' \subseteq reading /\ registering' = driver
        /\ UNCHANGED <<driver, onChain, depositedWei, exact, depositing, withdrawing>>
    BY <1>5 DEF Panel!registerOnChain
  <2> QED BY <1>0, <1>b, <2>1, PanelsQuiet DEF TransferHolds
<1>6. ASSUME NEW ok \in BOOLEAN, Panel!RegisterAnswers(ok) PROVE PanelsInv'
  <2>1. /\ reading' \subseteq reading /\ registering' = NoAccount
        /\ UNCHANGED <<driver, onChain, depositedWei, exact, depositing, withdrawing>>
    BY <1>6 DEF Panel!RegisterAnswers
  <2> QED BY <1>0, <1>b, <2>1, PanelsQuiet DEF TransferHolds
<1>7. CASE Panel!RegisterSent
  <2>1. /\ reading' \subseteq reading /\ registering' = registering
        /\ UNCHANGED <<driver, onChain, depositedWei, exact, depositing, withdrawing>>
    BY <1>7 DEF Panel!RegisterSent
  <2> QED BY <1>0, <1>b, <2>1, PanelsQuiet DEF TransferHolds
<1>8. ASSUME NEW c \in registrations, Panel!RegistrationMined(c) PROVE PanelsInv'
  <2>1. /\ onChain' = [onChain EXCEPT ![c].registered = TRUE]
        /\ UNCHANGED <<driver, depositedWei, reading, registering, depositing, withdrawing, exact>>
    BY <1>8 DEF Panel!RegistrationMined
  <2>2. /\ onChain' \in [Account -> Panel!OnChain]
        /\ \A a \in Account : onChain'[a].deposit = onChain[a].deposit
    BY <1>0, <2>1 DEF Panel!OnChain
  <2>3. \A f \in reading' : ReadingHolds(f)'
    BY <1>0, <2>1, <2>2 DEF ReadingHolds, Panel!Mined, Panel!Reading
  <2>4. SumHolds'
    BY <1>0, <2>1, <2>2 DEF SumHolds, Panel!Pending, Panel!Mined
  <2> QED BY <1>0, <1>b, <2>1, <2>2, <2>3, <2>4 DEF PanelsInv, Panel!PanelsTypeOK, TransferHolds
<1>9. ASSUME NEW v \in Amount, Panel!depositCollateral(v) PROVE PanelsInv'
  <2>1. /\ driver \in Account /\ depositing.at = "idle"
        /\ depositing' = [at |-> "sent", account |-> driver, value |-> v]
        /\ UNCHANGED <<driver, onChain, depositedWei, reading, registering, withdrawing, exact>>
    BY <1>0, <1>9, <1>a DEF Panel!depositCollateral, Panel!DepositShown
  <2>2. v \in Nat
    BY DEF Panel!PanelsAssumption
  <2>3. TransferHolds(depositing)' /\ depositing'.at = "sent"
    BY <2>1, <2>2 DEF TransferHolds, Panel!Transfer
  <2>4. Panel!Pending(depositing)' = 0 /\ Panel!Pending(depositing) = 0
        /\ \A a \in Account : ~ Panel!Mined(depositing, a)'
    BY <2>1, <2>3 DEF Panel!Pending, Panel!Mined
  <2> QED BY <1>0, <1>b, <2>1, <2>3, <2>4, PanelsQuiet DEF TransferHolds
<1>10. ASSUME NEW v \in Amount, Panel!withdrawCollateral(v) PROVE PanelsInv'
  <2>1. /\ driver \in Account /\ withdrawing.at = "idle"
        /\ withdrawing' = [at |-> "sent", account |-> driver, value |-> v]
        /\ UNCHANGED <<driver, onChain, depositedWei, reading, registering, depositing, exact>>
    BY <1>0, <1>10, <1>a DEF Panel!withdrawCollateral, Panel!WithdrawShown
  <2>2. v \in Nat
    BY DEF Panel!PanelsAssumption
  <2>3. TransferHolds(withdrawing)' /\ withdrawing'.at = "sent"
    BY <2>1, <2>2 DEF TransferHolds, Panel!Transfer
  <2>4. Panel!Pending(withdrawing)' = 0 /\ Panel!Pending(withdrawing) = 0
        /\ \A a \in Account : ~ Panel!Mined(withdrawing, a)'
    BY <2>1, <2>3 DEF Panel!Pending, Panel!Mined
  <2> QED BY <1>0, <1>b, <2>1, <2>3, <2>4, PanelsQuiet DEF TransferHolds
<1>11. CASE Panel!DepositMined
  <2> DEFINE a == depositing.account
  <2>1. /\ depositing.at = "sent" /\ a \in Account /\ depositing.value \in Nat
        /\ onChain[a].deposit \in Nat
    BY <1>0, <1>11 DEF Panel!DepositMined, TransferHolds, Panel!Transfer, Panel!OnChain
  <2>2. /\ onChain' = [onChain EXCEPT ![a].deposit = @ + depositing.value]
        /\ depositing' = [depositing EXCEPT !.at = "mined"] /\ reading' = Panel!Crossed(a)
        /\ UNCHANGED <<driver, depositedWei, registering, withdrawing, exact>>
    BY <1>11 DEF Panel!DepositMined
  <2>3. /\ TransferHolds(depositing)' /\ depositing'.at = "mined" /\ depositing'.account = a
        /\ depositing'.value = depositing.value
    BY <1>0, <2>1, <2>2 DEF TransferHolds, Panel!Transfer
  <2>4. /\ onChain' \in [Account -> Panel!OnChain]
        /\ onChain'[a].deposit = onChain[a].deposit + depositing.value
        /\ \A b \in Account : b # a => onChain'[b] = onChain[b]
    BY <1>0, <2>1, <2>2 DEF Panel!OnChain
  <2> HIDE DEF a
  <2>5. \A b \in Account : b # a =>
           /\ Panel!Mined(depositing, b)' = Panel!Mined(depositing, b)
           /\ Panel!Mined(withdrawing, b)' = Panel!Mined(withdrawing, b)
    BY <2>1, <2>2, <2>3 DEF Panel!Mined
  <2>6. reading' \subseteq Panel!Reading /\ \A f \in reading' : ReadingHolds(f)'
    BY <2>1, <2>2, <2>4, <2>5, CrossedHolds
  <2>7. ASSUME exact PROVE SumHolds'
    <3>1. driver \in Account /\ Panel!Pending(depositing) = 0
          /\ Panel!Pending(withdrawing)' = Panel!Pending(withdrawing)
          /\ Panel!Pending(withdrawing) \in Nat /\ onChain[driver].deposit \in Nat
      BY <1>0, <2>1, <2>2, <2>7
         DEF SumHolds, Panel!Pending, Panel!Mined, TransferHolds, Panel!Transfer, Panel!OnChain
    <3>2. Panel!Pending(depositing)' = IF driver = a THEN depositing.value ELSE 0
      BY <2>2, <2>3 DEF Panel!Pending, Panel!Mined
    <3>3. onChain'[driver].deposit = IF driver = a THEN onChain[driver].deposit + depositing.value
                                                   ELSE onChain[driver].deposit
      BY <2>4, <3>1
    <3>4. depositedWei = onChain[driver].deposit + Panel!Pending(withdrawing)
      BY <1>0, <2>7, <3>1 DEF SumHolds
    <3> QED BY <1>0, <2>1, <2>2, <2>7, <3>1, <3>2, <3>3, <3>4 DEF SumHolds
  <2>8. SumHolds'
    BY <2>2, <2>7 DEF SumHolds
  <2> QED BY <1>0, <1>b, <2>2, <2>3, <2>4, <2>6, <2>8 DEF PanelsInv, Panel!PanelsTypeOK, TransferHolds
<1>12. CASE Panel!WithdrawalMined
  <2> DEFINE a == withdrawing.account
  <2>1. /\ withdrawing.at = "sent" /\ a \in Account /\ withdrawing.value \in Nat
        /\ onChain[a].deposit \in Nat /\ onChain[a].deposit >= withdrawing.value
    BY <1>0, <1>12 DEF Panel!WithdrawalMined, TransferHolds, Panel!Transfer, Panel!OnChain
  <2>2. /\ onChain' = [onChain EXCEPT ![a].deposit = @ - withdrawing.value]
        /\ withdrawing' = [withdrawing EXCEPT !.at = "mined"] /\ reading' = Panel!Crossed(a)
        /\ UNCHANGED <<driver, depositedWei, registering, depositing, exact>>
    BY <1>12 DEF Panel!WithdrawalMined
  <2>3. /\ TransferHolds(withdrawing)' /\ withdrawing'.at = "mined" /\ withdrawing'.account = a
        /\ withdrawing'.value = withdrawing.value
    BY <1>0, <2>1, <2>2 DEF TransferHolds, Panel!Transfer
  <2>4. /\ onChain' \in [Account -> Panel!OnChain]
        /\ onChain'[a].deposit = onChain[a].deposit - withdrawing.value
        /\ \A b \in Account : b # a => onChain'[b] = onChain[b]
    <3>1. onChain[a].deposit - withdrawing.value \in Nat
      BY <2>1
    <3> QED BY <1>0, <2>1, <2>2, <3>1 DEF Panel!OnChain
  <2> HIDE DEF a
  <2>5. \A b \in Account : b # a =>
           /\ Panel!Mined(depositing, b)' = Panel!Mined(depositing, b)
           /\ Panel!Mined(withdrawing, b)' = Panel!Mined(withdrawing, b)
    BY <2>1, <2>2, <2>3 DEF Panel!Mined
  <2>6. reading' \subseteq Panel!Reading /\ \A f \in reading' : ReadingHolds(f)'
    BY <2>1, <2>2, <2>4, <2>5, CrossedHolds
  <2>7. ASSUME exact PROVE SumHolds'
    <3>1. driver \in Account /\ Panel!Pending(withdrawing) = 0
          /\ Panel!Pending(depositing)' = Panel!Pending(depositing)
          /\ Panel!Pending(depositing) \in Nat /\ onChain[driver].deposit \in Nat
      BY <1>0, <2>1, <2>2, <2>7
         DEF SumHolds, Panel!Pending, Panel!Mined, TransferHolds, Panel!Transfer, Panel!OnChain
    <3>2. Panel!Pending(withdrawing)' = IF driver = a THEN withdrawing.value ELSE 0
      BY <2>2, <2>3 DEF Panel!Pending, Panel!Mined
    <3>3. onChain'[driver].deposit = IF driver = a THEN onChain[driver].deposit - withdrawing.value
                                                   ELSE onChain[driver].deposit
      BY <2>4, <3>1
    <3>4. depositedWei = onChain[driver].deposit - Panel!Pending(depositing)
      BY <1>0, <2>7, <3>1 DEF SumHolds
    <3> QED BY <1>0, <2>1, <2>2, <2>7, <3>1, <3>2, <3>3, <3>4 DEF SumHolds
  <2>8. SumHolds'
    BY <2>2, <2>7 DEF SumHolds
  <2> QED BY <1>0, <1>b, <2>2, <2>3, <2>4, <2>6, <2>8 DEF PanelsInv, Panel!PanelsTypeOK, TransferHolds
<1>13. CASE Panel!DepositAdded
  <2>1. /\ depositing.at = "mined" /\ depositing.value \in Nat /\ depositing.account \in Account
        /\ depositedWei' = (IF depositedWei = Unknown THEN 0 ELSE depositedWei) + depositing.value
        /\ exact' = (exact /\ depositing.account = driver) /\ depositing' = Panel!NoTransfer
        /\ UNCHANGED <<driver, onChain, reading, registering, withdrawing>>
    BY <1>0, <1>13 DEF Panel!DepositAdded, TransferHolds, Panel!Transfer
  <2>2. depositedWei' \in Int
    BY <1>0, <2>1
  <2>3. \A f \in reading' : ReadingHolds(f)'
    BY <1>0, <1>a, <2>1 DEF ReadingHolds, Panel!Mined
  <2>4. ASSUME exact' PROVE SumHolds'
    <3>1. /\ driver \in Account /\ depositedWei \in Int /\ onChain[driver].deposit \in Nat
          /\ Panel!Pending(depositing) = depositing.value /\ Panel!Pending(depositing)' = 0
          /\ Panel!Pending(withdrawing) \in Nat
          /\ Panel!Pending(withdrawing)' = Panel!Pending(withdrawing)
      BY <1>0, <1>a, <2>1, <2>4
         DEF SumHolds, Panel!Pending, Panel!Mined, TransferHolds, Panel!Transfer, Panel!OnChain
    <3>2. depositedWei' = depositedWei + depositing.value
      BY <2>1, <3>1 DEF Panel!PanelsAssumption
    <3> QED BY <1>0, <2>1, <2>2, <2>4, <3>1, <3>2 DEF SumHolds
  <2>5. SumHolds'
    BY <2>4 DEF SumHolds
  <2> QED
    BY <1>0, <1>b, <1>a, <2>1, <2>2, <2>3, <2>5 DEF PanelsInv, Panel!PanelsTypeOK, TransferHolds
<1>14. CASE Panel!WithdrawalSubtracted
  <2>1. /\ withdrawing.at = "mined" /\ withdrawing.value \in Nat /\ withdrawing.account \in Account
        /\ depositedWei' = (IF depositedWei = Unknown THEN Unknown
                                                      ELSE depositedWei - withdrawing.value)
        /\ exact' = (exact /\ withdrawing.account = driver) /\ withdrawing' = Panel!NoTransfer
        /\ UNCHANGED <<driver, onChain, reading, registering, depositing>>
    BY <1>0, <1>14 DEF Panel!WithdrawalSubtracted, TransferHolds, Panel!Transfer
  <2>2. depositedWei' \in Int \cup {Unknown}
    BY <1>0, <2>1
  <2>3. \A f \in reading' : ReadingHolds(f)'
    BY <1>0, <1>a, <2>1 DEF ReadingHolds, Panel!Mined
  <2>4. ASSUME exact' PROVE SumHolds'
    <3>1. /\ driver \in Account /\ depositedWei \in Int /\ onChain[driver].deposit \in Nat
          /\ Panel!Pending(withdrawing) = withdrawing.value /\ Panel!Pending(withdrawing)' = 0
          /\ Panel!Pending(depositing) \in Nat
          /\ Panel!Pending(depositing)' = Panel!Pending(depositing)
      BY <1>0, <1>a, <2>1, <2>4
         DEF SumHolds, Panel!Pending, Panel!Mined, TransferHolds, Panel!Transfer, Panel!OnChain
    <3>2. depositedWei' = depositedWei - withdrawing.value
      BY <2>1, <3>1 DEF Panel!PanelsAssumption
    <3> QED BY <1>0, <2>1, <2>2, <2>4, <3>1, <3>2 DEF SumHolds
  <2>5. SumHolds'
    BY <2>4 DEF SumHolds
  <2> QED
    BY <1>0, <1>b, <1>a, <2>1, <2>2, <2>3, <2>5 DEF PanelsInv, Panel!PanelsTypeOK, TransferHolds
<1>15. CASE Panel!DepositFails
  <2>1. /\ depositing.at = "sent" /\ depositing' = Panel!NoTransfer
        /\ UNCHANGED <<driver, onChain, depositedWei, reading, registering, withdrawing, exact>>
    BY <1>15 DEF Panel!DepositFails
  <2>2. Panel!Pending(depositing)' = 0 /\ Panel!Pending(depositing) = 0
        /\ \A a \in Account : ~ Panel!Mined(depositing, a)'
    BY <1>a, <2>1 DEF Panel!Pending, Panel!Mined
  <2> QED BY <1>0, <1>b, <1>a, <2>1, <2>2, PanelsQuiet DEF TransferHolds
<1>16. CASE Panel!WithdrawalFails
  <2>1. /\ withdrawing.at = "sent" /\ withdrawing' = Panel!NoTransfer
        /\ UNCHANGED <<driver, onChain, depositedWei, reading, registering, depositing, exact>>
    BY <1>16 DEF Panel!WithdrawalFails
  <2>2. Panel!Pending(withdrawing)' = 0 /\ Panel!Pending(withdrawing) = 0
        /\ \A a \in Account : ~ Panel!Mined(withdrawing, a)'
    BY <1>a, <2>1 DEF Panel!Pending, Panel!Mined
  <2> QED BY <1>0, <1>b, <1>a, <2>1, <2>2, PanelsQuiet DEF TransferHolds
<1> QED
  BY <1>1, <1>2, <1>3, <1>4, <1>5, <1>6, <1>7, <1>8, <1>9, <1>10, <1>11, <1>12, <1>13, <1>14,
     <1>15, <1>16
     DEF Panel!PanelsNext

-----------------------------------------------------------------------------
(***************************************************************************)
(* Fares.  The invariant: the estimate a ride was published with is the    *)
(* drivers' base fare up to the rounding of the distance and the duration, *)
(* and a fare is the base fare or that and a fifth.                        *)
(***************************************************************************)

\* The formula of the form, before and after the discount.
Discounted(fare, type) == IF type = "shared" THEN (7 * fare) \div 10 ELSE fare

EstimateHolds(r) ==
    \E raw \in Nat :
        /\ r.estimate = Discounted(raw, r.type)
        /\ Fare!computeBaseFareEth(r) - raw <= 25250
        /\ raw - Fare!computeBaseFareEth(r) <= 25250

FaresInv ==
    /\ Fare!FaresTypeOK
    /\ ride # None => EstimateHolds(ride)
    /\ \A d \in Driver :
          /\ dialog[d].open => ride # None /\ fares[d] = None
          /\ fares[d] # None =>
                /\ ride # None
                /\ fares[d] \in {Fare!computeBaseFareEth(ride),
                                 Fare!Surcharged(Fare!computeBaseFareEth(ride))}
    /\ payment # None => fares[payment.driver] # None /\ payment.sum = fares[payment.driver]

\* Rounding, in the units of the fares.
LEMMA RoundedNear ==
  ASSUME NEW n \in Nat
  PROVE  /\ Fare!Rounded(n) \in Nat
         /\ 10 * Fare!Rounded(n) - n <= 5 /\ n - 10 * Fare!Rounded(n) <= 5
  BY DEF Fare!Rounded

LEMMA BaseIsRaw ==
  ASSUME NEW x \in Nat, NEW t \in Nat, NEW m \in Nat, NEW u \in Nat,
         10 * m - x <= 5, x - 10 * m <= 5, 10 * u - t <= 5, t - 10 * u <= 5
  PROVE  LET raw  == 24000000 + 1050 * x + 4000 * t
             base == 24000000 + 10 * 1050 * m + 10 * 4000 * u
         IN  base - raw <= 25250 /\ raw - base <= 25250
  OBVIOUS

\* The surcharge, taken off again.
LEMMA SurchargeUndone ==
  ASSUME NEW b \in Nat
  PROVE  /\ Fare!Surcharged(b) \in Nat
         /\ (10 * Fare!Surcharged(b)) \div 12 \in Nat
         /\ (10 * Fare!Surcharged(b)) \div 12 <= b
         /\ b - (10 * Fare!Surcharged(b)) \div 12 <= 2
  BY DEF Fare!Surcharged

LEMMA BaseTyped ==
  ASSUME NEW r \in Fare!Trip
  PROVE  Fare!computeBaseFareEth(r) \in Nat
  BY DEF Fare!Trip, Fare!computeBaseFareEth, Fare!baseFare, Fare!perDecimetre, Fare!perTenth

LEMMA FareShown ==
  ASSUME FaresInv
  PROVE  Fare!FareFollowsEstimate
<1> SUFFICES ASSUME ride # None, ride.type = "solo"
             PROVE  /\ \A d \in Driver : fares[d] # None => Fare!Asked(fares[d], ride.estimate)
                    /\ payment # None => Fare!Asked(payment.sum, ride.estimate)
  BY DEF Fare!FareFollowsEstimate
<1>1. ASSUME NEW d \in Driver, fares[d] # None
      PROVE  Fare!Asked(fares[d], ride.estimate)
  <2> DEFINE base == Fare!computeBaseFareEth(ride)
  <2>1. ride \in Fare!Trip /\ EstimateHolds(ride) /\ fares[d] \in {base, Fare!Surcharged(base)}
    BY <1>1 DEF FaresInv, Fare!FaresTypeOK
  <2>2. PICK raw \in Nat : ride.estimate = Discounted(raw, ride.type)
                           /\ base - raw <= 25250 /\ raw - base <= 25250
    BY <2>1 DEF EstimateHolds
  <2>3. base \in Nat /\ ride.estimate = raw
    BY <2>1, <2>2, BaseTyped DEF Discounted
  <2> HIDE DEF base
  <2>4. CASE fares[d] = base
    BY <2>2, <2>3, <2>4 DEF Fare!Asked, Fare!Near, Fare!Slack, Fare!perDecimetre, Fare!perTenth
  <2>5. CASE fares[d] = Fare!Surcharged(base)
    <3> DEFINE less == (10 * Fare!Surcharged(base)) \div 12
    <3>1. less \in Nat /\ less <= base /\ base - less <= 2
      BY <2>3, SurchargeUndone
    <3>2. (10 * fares[d]) \div 12 = less
      BY <2>5
    <3> HIDE DEF less
    <3>3. less - raw <= 25252 /\ raw - less <= 25252
      BY <2>2, <2>3, <3>1
    <3>4. Fare!Near(less, raw)
      BY <3>3 DEF Fare!Near, Fare!Slack, Fare!perDecimetre, Fare!perTenth
    <3> QED BY <2>3, <3>2, <3>4 DEF Fare!Asked
  <2> QED BY <2>1, <2>4, <2>5
<1>2. payment # None => Fare!Asked(payment.sum, ride.estimate)
  <2>1. payment # None => /\ payment.driver \in Driver /\ fares[payment.driver] # None
                          /\ payment.sum = fares[payment.driver]
    BY DEF FaresInv, Fare!FaresTypeOK
  <2> QED BY <1>1, <2>1
<1> QED BY <1>1, <1>2

LEMMA FaresInitial ==
  ASSUME Fare!FaresInit, Fare!FaresAssumption
  PROVE  FaresInv
<1>1. /\ dialog \in [Driver -> Fare!Dialog] /\ fares \in [Driver -> Nat \cup {None}]
      /\ \A d \in Driver : ~ dialog[d].open /\ fares[d] = None
  BY DEF Fare!FaresInit, Fare!Dialog
<1> QED BY <1>1 DEF Fare!FaresInit, FaresInv, Fare!FaresTypeOK, Fare!RideType

LEMMA FaresKept == FaresInv /\ UNCHANGED faresVars => FaresInv'
  BY DEF FaresInv, faresVars, Fare!FaresTypeOK, EstimateHolds, Discounted, Fare!computeBaseFareEth,
         Fare!Surcharged

\* A step of the form alone, before the ride or after.
LEMMA FaresQuiet ==
  ASSUME FaresInv, UNCHANGED <<ride, dialog, fares, payment>>,
         rideType' \in Fare!RideType, ceiling' \in BOOLEAN, quoted' \in Fare!Quote \cup {None}
  PROVE  FaresInv'
  BY DEF FaresInv, Fare!FaresTypeOK, EstimateHolds, Discounted, Fare!computeBaseFareEth,
         Fare!Surcharged

\* A step of one driver's dialog and fare.
LEMMA DialogHolds ==
  ASSUME FaresInv, NEW d \in Driver, NEW open \in BOOLEAN, NEW fare \in Nat \cup {None},
         UNCHANGED <<rideType, ceiling, quoted, ride, payment>>,
         dialog' \in [Driver -> Fare!Dialog], dialog'[d].open = open,
         \A e \in Driver : e # d => dialog'[e] = dialog[e],
         fares' = [fares EXCEPT ![d] = fare],
         ride # None, fares[d] # None => fare = fares[d],
         open => fare = None,
         fare # None => fare \in {Fare!computeBaseFareEth(ride),
                                  Fare!Surcharged(Fare!computeBaseFareEth(ride))}
  PROVE  FaresInv'
<1>2. /\ fares' \in [Driver -> Nat \cup {None}] /\ fares'[d] = fare
      /\ \A e \in Driver : e # d => dialog'[e] = dialog[e] /\ fares'[e] = fares[e]
  BY DEF FaresInv, Fare!FaresTypeOK
<1>3. Fare!FaresTypeOK'
  BY <1>2 DEF FaresInv, Fare!FaresTypeOK
<1>4. Fare!computeBaseFareEth(ride)' = Fare!computeBaseFareEth(ride)
      /\ Fare!Surcharged(Fare!computeBaseFareEth(ride))'
            = Fare!Surcharged(Fare!computeBaseFareEth(ride))
  BY DEF Fare!computeBaseFareEth, Fare!Surcharged
<1>5. ride' # None => EstimateHolds(ride)'
  BY <1>4 DEF FaresInv, EstimateHolds, Discounted
<1>6. \A e \in Driver :
          /\ dialog'[e].open => ride' # None /\ fares'[e] = None
          /\ fares'[e] # None =>
                /\ ride' # None
                /\ fares'[e] \in {Fare!computeBaseFareEth(ride),
                                  Fare!Surcharged(Fare!computeBaseFareEth(ride))}
  BY <1>2 DEF FaresInv
<1>7. payment' # None => fares'[payment'.driver] # None /\ payment'.sum = fares'[payment'.driver]
  <2>1. payment # None => payment.driver \in Driver
    BY DEF FaresInv, Fare!FaresTypeOK
  <2> QED BY <1>2, <2>1 DEF FaresInv
<1> QED BY <1>3, <1>4, <1>5, <1>6, <1>7 DEF FaresInv

LEMMA FaresStepHolds ==
  ASSUME FaresInv, Fare!FaresAssumption, Fare!FaresNext
  PROVE  FaresInv'
<1>0. Fare!FaresTypeOK
  BY DEF FaresInv
<1>1. ASSUME NEW q \in Fare!Quote \cup {None}, Fare!QuoteBecomes(q) PROVE FaresInv'
  BY <1>0, <1>1, FaresQuiet DEF Fare!QuoteBecomes, Fare!FaresTypeOK
<1>2. ASSUME NEW type \in Fare!RideType, Fare!setRideType(type) PROVE FaresInv'
  BY <1>0, <1>2, FaresQuiet DEF Fare!setRideType, Fare!FaresTypeOK
<1>3. CASE Fare!setCeiling
  BY <1>0, <1>3, FaresQuiet DEF Fare!setCeiling, Fare!FaresTypeOK
<1>4. CASE Fare!publishRide
  <2> DEFINE x == quoted.distance
             t == quoted.duration
             raw == Fare!rawFare(quoted)
             trip == [metres |-> Fare!Rounded(x), seconds |-> Fare!Rounded(t),
                      type |-> rideType, estimate |-> Fare!Estimate]
  <2>1. /\ ride = None /\ quoted # None /\ ride' = trip
        /\ Fare!Estimate = Fare!fareEth(quoted, rideType)
        /\ UNCHANGED <<rideType, ceiling, quoted, dialog, fares, payment>>
    BY <1>4 DEF Fare!publishRide, Fare!Estimate
  <2>2. x \in Nat /\ t \in Nat
    BY <1>0, <2>1 DEF Fare!FaresTypeOK, Fare!Quote, Fare!FaresAssumption
  <2>3. raw = 24000000 + 1050 * x + 4000 * t
    BY DEF Fare!rawFare, Fare!baseFare, Fare!perDecimetre, Fare!perTenth
  <2>4. /\ trip.metres = Fare!Rounded(x) /\ trip.seconds = Fare!Rounded(t)
        /\ trip.type = rideType /\ trip.estimate = Discounted(raw, rideType)
    BY <2>1 DEF Fare!fareEth, Discounted
  <2>5. /\ Fare!Rounded(x) \in Nat /\ Fare!Rounded(t) \in Nat
        /\ 10 * Fare!Rounded(x) - x <= 5 /\ x - 10 * Fare!Rounded(x) <= 5
        /\ 10 * Fare!Rounded(t) - t <= 5 /\ t - 10 * Fare!Rounded(t) <= 5
    BY <2>2, RoundedNear
  <2>6. raw \in Nat /\ Discounted(raw, rideType) \in Nat
    BY <2>2, <2>3 DEF Discounted
  <2>7. Fare!Estimate = Discounted(raw, rideType)
    BY <2>1 DEF Fare!fareEth, Discounted
  <2>8. trip \in Fare!Trip
    BY <1>0, <2>5, <2>6, <2>7 DEF Fare!Trip, Fare!FaresTypeOK
  <2>9. Fare!computeBaseFareEth(trip)
           = 24000000 + 10 * 1050 * Fare!Rounded(x) + 10 * 4000 * Fare!Rounded(t)
    BY <2>4 DEF Fare!computeBaseFareEth, Fare!baseFare, Fare!perDecimetre, Fare!perTenth
  <2>10. /\ Fare!computeBaseFareEth(trip) - raw <= 25250
         /\ raw - Fare!computeBaseFareEth(trip) <= 25250
    BY <2>2, <2>3, <2>5, <2>9, BaseIsRaw
  <2>11. EstimateHolds(trip)
    BY <2>4, <2>6, <2>10 DEF EstimateHolds
  <2> HIDE DEF trip, raw, x, t
  <2>12. EstimateHolds(ride)'
    BY <2>1, <2>11 DEF EstimateHolds, Discounted, Fare!computeBaseFareEth
  <2>13. \A d \in Driver : ~ dialog[d].open /\ fares[d] = None
    BY <1>0, <2>1 DEF FaresInv, Fare!FaresTypeOK, Fare!Dialog
  <2>14. payment # None => fares[payment.driver] # None /\ payment.sum = fares[payment.driver]
    BY DEF FaresInv
  <2>15. Fare!FaresTypeOK'
    BY <1>0, <2>1, <2>8 DEF Fare!FaresTypeOK
  <2> QED BY <2>1, <2>12, <2>13, <2>14, <2>15 DEF FaresInv
<1>5. ASSUME NEW d \in Driver, \/ Fare!openOfferDialog(d) \/ Fare!closeOfferDialog(d)
                               \/ Fare!toggleSurcharge(d) \/ Fare!submitOffer(d)
      PROVE  FaresInv'
  <2>1. /\ dialog[d] \in Fare!Dialog /\ fares[d] \in Nat \cup {None}
        /\ dialog \in [Driver -> Fare!Dialog] /\ fares \in [Driver -> Nat \cup {None}]
        /\ fares = [fares EXCEPT ![d] = fares[d]]
    BY <1>0 DEF Fare!FaresTypeOK
  <2>2. dialog[d].open \in BOOLEAN /\ dialog[d].surcharge \in BOOLEAN
    BY <2>1 DEF Fare!Dialog
  <2>3. dialog[d].open => ride # None /\ fares[d] = None
    BY DEF FaresInv
  <2>4. fares[d] # None =>
           fares[d] \in {Fare!computeBaseFareEth(ride),
                         Fare!Surcharged(Fare!computeBaseFareEth(ride))}
    BY DEF FaresInv
  <2>5. CASE Fare!openOfferDialog(d)
    <3>1. /\ ride # None /\ fares[d] = None
          /\ dialog' \in [Driver -> Fare!Dialog] /\ dialog'[d].open = TRUE
          /\ \A e \in Driver : e # d => dialog'[e] = dialog[e]
          /\ fares' = [fares EXCEPT ![d] = fares[d]]
          /\ UNCHANGED <<rideType, ceiling, quoted, ride, payment>>
      BY <2>1, <2>5 DEF Fare!openOfferDialog, Fare!Dialog
    <3> QED BY <2>1, <3>1, DialogHolds
  <2>6. CASE Fare!closeOfferDialog(d)
    <3>1. /\ dialog[d].open
          /\ dialog' \in [Driver -> Fare!Dialog] /\ dialog'[d].open = FALSE
          /\ \A e \in Driver : e # d => dialog'[e] = dialog[e]
          /\ fares' = [fares EXCEPT ![d] = fares[d]]
          /\ UNCHANGED <<rideType, ceiling, quoted, ride, payment>>
      BY <2>1, <2>6 DEF Fare!closeOfferDialog, Fare!Dialog
    <3> QED BY <2>1, <2>2, <2>3, <2>4, <3>1, DialogHolds
  <2>7. CASE Fare!toggleSurcharge(d)
    <3>1. /\ dialog[d].open
          /\ dialog' \in [Driver -> Fare!Dialog] /\ dialog'[d].open = TRUE
          /\ \A e \in Driver : e # d => dialog'[e] = dialog[e]
          /\ fares' = [fares EXCEPT ![d] = fares[d]]
          /\ UNCHANGED <<rideType, ceiling, quoted, ride, payment>>
      BY <2>1, <2>7 DEF Fare!toggleSurcharge, Fare!Dialog
    <3> QED BY <2>1, <2>2, <2>3, <2>4, <3>1, DialogHolds
  <2>8. CASE Fare!submitOffer(d)
    <3> DEFINE base == Fare!computeBaseFareEth(ride)
               fare == IF dialog[d].surcharge THEN Fare!Surcharged(base) ELSE base
    <3>1. /\ dialog[d].open
          /\ dialog' \in [Driver -> Fare!Dialog] /\ dialog'[d].open = FALSE
          /\ \A e \in Driver : e # d => dialog'[e] = dialog[e]
          /\ fares' = [fares EXCEPT ![d] = fare]
          /\ UNCHANGED <<rideType, ceiling, quoted, ride, payment>>
      BY <2>1, <2>8 DEF Fare!submitOffer, Fare!Dialog
    <3>2. ride \in Fare!Trip
      BY <1>0, <2>3, <3>1 DEF Fare!FaresTypeOK
    <3>3. base \in Nat /\ Fare!Surcharged(base) \in Nat
      BY <3>2, BaseTyped, SurchargeUndone
    <3>4. fare \in Nat \cup {None} /\ fare \in {base, Fare!Surcharged(base)}
      BY <3>3
    <3> HIDE DEF fare
    <3> QED BY <2>2, <2>3, <3>1, <3>4, DialogHolds
  <2> QED BY <1>5, <2>5, <2>6, <2>7, <2>8
<1>6. ASSUME NEW d \in Driver, Fare!prepare_accept_ride(d) PROVE FaresInv'
  <2> DEFINE paid == [driver |-> d, sum |-> fares[d]]
  <2>1. /\ fares[d] # None /\ payment' = paid
        /\ UNCHANGED <<rideType, ceiling, quoted, ride, dialog, fares>>
    BY <1>6 DEF Fare!prepare_accept_ride
  <2>2. paid \in [driver : Driver, sum : Nat] /\ paid.driver = d /\ paid.sum = fares[d]
    BY <1>0, <2>1 DEF Fare!FaresTypeOK
  <2> HIDE DEF paid
  <2>3. Fare!FaresTypeOK'
    BY <1>0, <2>1, <2>2 DEF Fare!FaresTypeOK
  <2> QED
    BY <2>1, <2>2, <2>3 DEF FaresInv, EstimateHolds, Discounted, Fare!computeBaseFareEth,
                            Fare!Surcharged
<1> QED
  BY <1>1, <1>2, <1>3, <1>4, <1>5, <1>6 DEF Fare!FaresNext

-----------------------------------------------------------------------------
(***************************************************************************)
(* Toasts.  The invariant: at most TOAST_LIMIT toasts are in the store,    *)
(* none of them newer than the counter, those of them that were dismissed  *)
(* have a timer, and what the Toaster read is the store unless it missed a *)
(* change, whether it listens yet or not.                                  *)
(***************************************************************************)

NotesInv ==
    /\ Notes!ToastsTypeOK
    /\ toaster \in [listens : BOOLEAN, shown : Seq(Notes!Toast), missed : BOOLEAN]
    /\ Len(toasts) <= Notes!TOAST_LIMIT
    /\ Notes!Ids(toasts) \subseteq 1..count
    /\ dismissed \subseteq 1..count
    /\ dismissed \cap Notes!Ids(toasts) \subseteq toastTimeouts
    /\ toaster.shown = toasts \/ toaster.missed

\* The empty store.
LEMMA NotesInitial ==
  ASSUME Notes!ToastsInit, Notes!ToastsAssumption
  PROVE  NotesInv
<1>1. Len(toasts) = 0 /\ toasts \in Seq(Notes!Toast) /\ Notes!Ids(toasts) = {}
  BY DEF Notes!ToastsInit, Notes!Ids
<1> QED
  BY <1>1 DEF Notes!ToastsInit, NotesInv, Notes!ToastsTypeOK, Notes!ToastsAssumption,
              Notes!TOAST_LIMIT

\* A store of no toast, or of one.
LEMMA StoreOfOne ==
  ASSUME NEW ts \in Seq(Notes!Toast), Len(ts) <= Notes!TOAST_LIMIT
  PROVE  \/ Len(ts) = 0 /\ ts = <<>> /\ Notes!Ids(ts) = {}
         \/ Len(ts) = 1 /\ ts = <<ts[1]>> /\ ts[1] \in Notes!Toast /\ Notes!Ids(ts) = {ts[1].id}
<1>1. Len(ts) = 0 \/ Len(ts) = 1
  <2>1. Len(ts) \in Nat
    BY LenProperties
  <2>2. Len(ts) <= 1
    BY DEF Notes!TOAST_LIMIT
  <2> QED
    BY <2>1, <2>2
<1>2. CASE Len(ts) = 0
  BY <1>2, EmptySeq DEF Notes!Ids
<1>3. CASE Len(ts) = 1
  <2>1. ts[1] \in Notes!Toast /\ ts = <<ts[1]>>
    BY <1>3
  <2>2. Notes!Ids(ts) = {ts[1].id}
    BY <1>3 DEF Notes!Ids
  <2> QED
    BY <1>3, <2>1, <2>2
<1> QED
  BY <1>1, <1>2, <1>3

\* ADD_TOAST puts the new toast in front and cuts the rest off.
LEMMA AddToastIs ==
  ASSUME NEW id, NEW ts \in Seq(Notes!Toast), toasts = ts
  PROVE  Notes!AddToast(id) = <<[id |-> id, open |-> TRUE]>>
<1> DEFINE new == [id |-> id, open |-> TRUE]
           all == <<new>> \o ts
           Any == Notes!Toast \cup {new}
<1>1. all \in Seq(Any) /\ Len(all) \in Nat /\ Len(all) >= 1 /\ all[1] = new
  <2>1. <<new>> \in Seq(Any) /\ ts \in Seq(Any) /\ Len(<<new>>) = 1 /\ Len(ts) \in Nat
    OBVIOUS
  <2> HIDE DEF Any, new
  <2> QED
    BY <2>1
<1>2. Notes!AddToast(id) = SubSeq(all, 1, 1)
  <2>1. Notes!AddToast(id) = SubSeq(all, 1, IF Len(all) < 1 THEN Len(all) ELSE 1)
    BY DEF Notes!AddToast, Notes!TOAST_LIMIT
  <2> HIDE DEF all
  <2> QED
    BY <1>1, <2>1
<1> HIDE DEF all, Any
<1>3. SubSeq(all, 1, 1) = <<all[1]>>
  <2> DEFINE sub == SubSeq(all, 1, 1)
  <2>1. \A i \in 1..1 : all[i] \in Any
    BY <1>1
  <2>2. sub \in Seq(Any) /\ Len(sub) = 1 /\ sub[1] = all[1]
    BY <2>1, SubSeqProperties
  <2>3. \A s \in Seq(Any) : Len(s) = 1 => s = <<s[1]>>
    OBVIOUS
  <2> HIDE DEF sub
  <2>4. sub = <<sub[1]>>
    BY <2>2, <2>3
  <2>5. sub = <<all[1]>>
    BY <2>2, <2>4
  <2> QED
    BY <2>5 DEF sub
<1> QED
  BY <1>1, <1>2, <1>3

\* The equation of REMOVE_TOAST's filter.
Keeps(id, kept) ==
    kept = [n \in 0..Len(toasts) |->
               IF n = 0 THEN <<>>
               ELSE IF toasts[n].id = id THEN kept[n - 1] ELSE Append(kept[n - 1], toasts[n])]

\* REMOVE_TOAST leaves no toast of that id, and adds none.
LEMMA RemoveToastIs ==
  ASSUME NEW id, toasts \in Seq(Notes!Toast), Len(toasts) <= Notes!TOAST_LIMIT
  PROVE  Notes!RemoveToast(id) =
            IF Len(toasts) = 0 \/ toasts[1].id = id THEN <<>> ELSE <<toasts[1]>>
<1> DEFINE f == [n \in 0..Len(toasts) |->
                    IF n = 0 \/ toasts[n].id = id THEN <<>> ELSE <<toasts[n]>>]
           k == CHOOSE kept : Keeps(id, kept)
<1>1. Len(toasts) = 0 \/ Len(toasts) = 1
  BY StoreOfOne
<1>2. Keeps(id, f)
  <2>1. ASSUME NEW n \in 0..Len(toasts)
        PROVE  f[n] = IF n = 0 THEN <<>>
                      ELSE IF toasts[n].id = id THEN f[n - 1] ELSE Append(f[n - 1], toasts[n])
    <3>1. f[0] = <<>>
      BY <1>1
    <3>2. n # 0 => n = 1 /\ n - 1 = 0
      <4> HIDE DEF f, k
      <4>1. CASE Len(toasts) = 0
        BY <4>1
      <4>2. CASE Len(toasts) = 1
        BY <4>2
      <4> QED
        BY <1>1, <4>1, <4>2
    <3>3. n # 0 => f[n] = IF toasts[1].id = id THEN <<>> ELSE <<toasts[1]>>
      BY <3>2
    <3>4. Append(<<>>, toasts[1]) = <<toasts[1]>>
      OBVIOUS
    <3> HIDE DEF f
    <3> QED
      BY <3>1, <3>2, <3>3, <3>4
  <2>2. f = [n \in 0..Len(toasts) |-> f[n]]
    OBVIOUS
  <2> HIDE DEF f
  <2> QED
    BY <2>1, <2>2 DEF Keeps
<1>3. Keeps(id, k)
  <2> HIDE DEF f
  <2> QED
    BY <1>2
<1>4. Notes!RemoveToast(id) = k[Len(toasts)]
  BY DEF Notes!RemoveToast, Keeps
<1> HIDE DEF k
<1>5. k[0] = <<>>
  BY <1>1, <1>3 DEF Keeps
<1>6. CASE Len(toasts) = 1
  <2>1. k[1] = IF toasts[1].id = id THEN k[0] ELSE Append(k[0], toasts[1])
    BY <1>3, <1>6 DEF Keeps
  <2>2. Append(<<>>, toasts[1]) = <<toasts[1]>>
    OBVIOUS
  <2> QED
    BY <1>4, <1>5, <1>6, <2>1, <2>2
<1>7. CASE Len(toasts) = 0
  BY <1>4, <1>5, <1>7
<1> QED
  BY <1>1, <1>6, <1>7

\* UPDATE_TOAST and DISMISS_TOAST change toasts in place.
LEMMA InPlace ==
  ASSUME toasts \in Seq(Notes!Toast), NEW ts \in [1..Len(toasts) -> Notes!Toast],
         \A i \in 1..Len(toasts) : ts[i].id = toasts[i].id
  PROVE  ts \in Seq(Notes!Toast) /\ Len(ts) = Len(toasts) /\ Notes!Ids(ts) = Notes!Ids(toasts)
<1>1. Len(toasts) \in Nat
  BY LenProperties
<1>2. ts \in Seq(Notes!Toast) /\ Len(ts) = Len(toasts)
  BY <1>1
<1> QED
  BY <1>2 DEF Notes!Ids

\* A dispatch tells the Toaster, or is missed by it.
LEMMA DispatchShows ==
  ASSUME NotesInv, NEW ts \in Seq(Notes!Toast), Notes!dispatch(ts)
  PROVE  /\ toaster' \in [listens : BOOLEAN, shown : Seq(Notes!Toast), missed : BOOLEAN]
         /\ toaster'.shown = toasts' \/ toaster'.missed
BY DEF NotesInv, Notes!dispatch

\* What is left to show of a step that dispatches.
LEMMA DispatchHolds ==
  ASSUME NotesInv, Notes!ToastsAssumption, NEW ts \in Seq(Notes!Toast), Notes!dispatch(ts),
         Len(ts) <= Notes!TOAST_LIMIT, count' \in 0..MaxToasts,
         Notes!Ids(ts) \subseteq 1..count',
         dismissed' \subseteq 1..count', toastTimeouts' \subseteq 1..MaxToasts,
         dismissed' \cap Notes!Ids(ts) \subseteq toastTimeouts'
  PROVE  NotesInv'
<1>1. toasts' = ts
  BY DEF Notes!dispatch
<1>2. /\ toaster' \in [listens : BOOLEAN, shown : Seq(Notes!Toast), missed : BOOLEAN]
      /\ toaster'.shown = toasts' \/ toaster'.missed
  BY DispatchShows
<1>3. Notes!Ids(toasts)' = Notes!Ids(ts)
  BY <1>1 DEF Notes!Ids
<1>4. dismissed' \subseteq 1..MaxToasts
  <2>1. count' <= MaxToasts /\ count' \in Int /\ MaxToasts \in Int
    BY DEF Notes!ToastsAssumption
  <2>2. 1..count' \subseteq 1..MaxToasts
    BY <2>1
  <2> QED
    BY <2>2
<1>5. Notes!ToastsTypeOK'
  BY <1>1, <1>2, <1>4 DEF Notes!ToastsTypeOK
<1>6. (dismissed \cap Notes!Ids(toasts) \subseteq toastTimeouts)'
  BY <1>3
<1>7. Len(toasts)' <= Notes!TOAST_LIMIT'
  BY <1>1 DEF Notes!TOAST_LIMIT
<1> QED
  BY <1>2, <1>3, <1>5, <1>6, <1>7 DEF NotesInv

\* Every step keeps the invariant.
LEMMA NotesStepHolds ==
  ASSUME NotesInv, Notes!ToastsAssumption, [Notes!ToastsNext]_(Notes!toastVars)
  PROVE  NotesInv'
<1>0. /\ toasts \in Seq(Notes!Toast) /\ Len(toasts) <= Notes!TOAST_LIMIT
      /\ count \in 0..MaxToasts /\ MaxToasts \in Nat
      /\ toastTimeouts \subseteq 1..MaxToasts /\ dismissed \subseteq 1..count
      /\ Notes!Ids(toasts) \subseteq 1..count
      /\ dismissed \cap Notes!Ids(toasts) \subseteq toastTimeouts
  BY DEF NotesInv, Notes!ToastsTypeOK, Notes!ToastsAssumption
<1>1. 1..count \subseteq 1..MaxToasts
  BY <1>0
<1>2. CASE Notes!toast
  <2> DEFINE ts == <<[id |-> count', open |-> TRUE]>>
  <2>1. count' = count + 1 /\ count' \in 1..MaxToasts /\ UNCHANGED <<toastTimeouts, dismissed>>
    BY <1>0, <1>2 DEF Notes!toast
  <2>2. Notes!dispatch(ts)
    BY <1>0, <1>2, AddToastIs DEF Notes!toast
  <2>3. [id |-> count', open |-> TRUE] \in Notes!Toast
    BY <2>1 DEF Notes!Toast
  <2>4. ts \in Seq(Notes!Toast) /\ Len(ts) = 1 /\ ts[1].id = count'
    BY <2>3
  <2> HIDE DEF ts
  <2>5. Notes!Ids(ts) = {count'} /\ Len(ts) <= Notes!TOAST_LIMIT
    BY <2>4 DEF Notes!Ids, Notes!TOAST_LIMIT
  <2>6. count' \notin dismissed /\ 1..count \subseteq 1..count' /\ count' \in 1..count'
    BY <1>0, <2>1
  <2>7. count' \in 0..MaxToasts /\ dismissed' \subseteq 1..count'
    BY <1>0, <2>1, <2>6
  <2> QED
    BY <1>0, <2>1, <2>2, <2>4, <2>5, <2>6, <2>7, DispatchHolds
<1>3. ASSUME NEW id \in 1..count, NEW open \in BOOLEAN, Notes!update(id, open)
      PROVE  NotesInv'
  <2> DEFINE ts == Notes!UpdateToast(id, open)
  <2>1. [id |-> id, open |-> open] \in Notes!Toast
    BY <1>1 DEF Notes!Toast
  <2>2. ts \in [1..Len(toasts) -> Notes!Toast] /\ \A i \in 1..Len(toasts) : ts[i].id = toasts[i].id
    BY <1>0, <2>1 DEF Notes!UpdateToast
  <2>3. Notes!dispatch(ts) /\ UNCHANGED <<count, toastTimeouts, dismissed>>
    BY <1>3 DEF Notes!update
  <2> HIDE DEF ts
  <2> QED
    BY <1>0, <2>2, <2>3, InPlace, DispatchHolds
<1>4. ASSUME NEW ids \in SUBSET (1..count), Notes!dismiss(ids)
      PROVE  NotesInv'
  <2> DEFINE ts == Notes!DismissToasts(ids)
  <2>1. ts \in [1..Len(toasts) -> Notes!Toast] /\ \A i \in 1..Len(toasts) : ts[i].id = toasts[i].id
    <3>1. ASSUME NEW i \in 1..Len(toasts)
          PROVE  /\ toasts[i] \in Notes!Toast
                 /\ [toasts[i] EXCEPT !.open = FALSE] \in Notes!Toast
                 /\ [toasts[i] EXCEPT !.open = FALSE].id = toasts[i].id
      <4>1. toasts[i] \in Notes!Toast
        BY <1>0
      <4> QED
        BY <4>1 DEF Notes!Toast
    <3> QED
      BY <3>1 DEF Notes!DismissToasts
  <2>2. /\ Notes!dispatch(ts) /\ count' = count
        /\ toastTimeouts' = toastTimeouts \cup ids /\ dismissed' = dismissed \cup ids
    BY <1>4 DEF Notes!dismiss, Notes!addToRemoveQueue
  <2> HIDE DEF ts
  <2> QED
    BY <1>0, <1>1, <2>1, <2>2, InPlace, DispatchHolds
<1>5. ASSUME NEW id \in toastTimeouts, Notes!TimerFires(id)
      PROVE  NotesInv'
  <2> DEFINE ts == Notes!RemoveToast(id)
  <2>1. Notes!dispatch(ts) /\ toastTimeouts' = toastTimeouts \ {id} /\ UNCHANGED <<count, dismissed>>
    BY <1>5 DEF Notes!TimerFires
  <2>2. ts = IF Len(toasts) = 0 \/ toasts[1].id = id THEN <<>> ELSE <<toasts[1]>>
    BY <1>0, RemoveToastIs
  <2> HIDE DEF ts
  <2>3. /\ ts \in Seq(Notes!Toast) /\ Len(ts) <= Notes!TOAST_LIMIT
        /\ Notes!Ids(ts) \subseteq Notes!Ids(toasts) \ {id}
    <3>1. CASE ts = <<>>
      BY <3>1 DEF Notes!Ids, Notes!TOAST_LIMIT
    <3>2. CASE ts # <<>>
      <4>1. ts = <<toasts[1]>> /\ Len(toasts) # 0 /\ toasts[1].id # id
        BY <2>2, <3>2
      <4>2. ts = toasts /\ Notes!Ids(toasts) = {toasts[1].id}
        BY <1>0, <4>1, StoreOfOne
      <4> QED
        BY <1>0, <4>1, <4>2
    <3> QED
      BY <3>1, <3>2
  <2> QED
    BY <1>0, <2>1, <2>3, DispatchHolds
<1>6. CASE Notes!ToasterListens
  <2>1. UNCHANGED <<count, toasts, toastTimeouts, dismissed>>
    BY <1>6 DEF Notes!ToasterListens
  <2> QED
    BY <1>6, <2>1 DEF Notes!ToasterListens, NotesInv, Notes!ToastsTypeOK, Notes!Ids
<1>7. CASE UNCHANGED Notes!toastVars
  BY <1>7 DEF Notes!toastVars, NotesInv, Notes!ToastsTypeOK, Notes!Ids
<1> QED
  BY <1>0, <1>2, <1>3, <1>4, <1>5, <1>6, <1>7 DEF Notes!ToastsNext

\* The Toaster is up to date, or missed a change, also before it listens.
LEMMA NotesShown ==
  ASSUME NotesInv
  PROVE  Notes!DismissedIsLeaving
BY DEF NotesInv, Notes!DismissedIsLeaving

-----------------------------------------------------------------------------
(***************************************************************************)
(* The parts together: one moves, the others stand still.                  *)
(***************************************************************************)

BrowserInv == FormInv /\ RoutesInv /\ ViewsInv /\ MapInv /\ PanelsInv /\ FaresInv /\ NotesInv

LEMMA BrowserInitial == Init => BrowserInv
  BY BrowserAssumption, FormInitial, RoutesInitial, ViewsInitial, MapInitial, PanelsInitial,
     FaresInitial, NotesInitial
     DEF Init, BrowserInv

\* What each part does in a step of the whole.
LEMMA PartSteps ==
  ASSUME [Next]_vars
  PROVE  /\ [View!ViewsNext]_viewVars /\ [Form!FormStep]_formVars /\ [Map!MapNext]_mapVars
         /\ [Panel!PanelsNext]_panelsVars /\ [Routes!RoutesStep]_routesVars
         /\ [Fare!FaresNext]_faresVars /\ [Notes!ToastsNext]_toastVars
<1>1. CASE UNCHANGED vars
  BY <1>1 DEF vars
<1>2. CASE Next
  <2>1. /\ View!ViewsNext \/ UNCHANGED viewVars
        /\ Form!FormNext \/ UNCHANGED formVars
        /\ Map!MapNext \/ UNCHANGED mapVars
        /\ Panel!PanelsNext \/ UNCHANGED panelsVars
        /\ Routes!RoutesNext \/ UNCHANGED routesVars
        /\ Fare!FaresNext \/ UNCHANGED faresVars
        /\ Notes!ToastsNext \/ UNCHANGED toastVars
    BY <1>2 DEF Next, Idle
  <2> QED BY <2>1 DEF Form!FormNext, Routes!RoutesNext
<1> QED BY <1>1, <1>2

LEMMA BrowserStepHolds == BrowserInv /\ [Next]_vars => BrowserInv'
<1> SUFFICES ASSUME BrowserInv, [Next]_vars
             PROVE  BrowserInv'
  OBVIOUS
<1>1. FormInv'
  BY BrowserAssumption, PartSteps, FormStepHolds, FormKept DEF BrowserInv
<1>2. RoutesInv'
  BY BrowserAssumption, PartSteps, RoutesStepHolds, RoutesKept DEF BrowserInv
<1>3. ViewsInv'
  BY BrowserAssumption, PartSteps, ViewsStepHolds, ViewsKept DEF BrowserInv
<1>4. MapInv'
  BY PartSteps, MapStepHolds, MapKept DEF BrowserInv
<1>5. PanelsInv'
  BY BrowserAssumption, PartSteps, PanelsStepHolds, PanelsKept DEF BrowserInv
<1>6. FaresInv'
  BY BrowserAssumption, PartSteps, FaresStepHolds, FaresKept DEF BrowserInv
<1>7. NotesInv'
  BY BrowserAssumption, PartSteps, NotesStepHolds DEF BrowserInv, toastVars, Notes!toastVars
<1> QED BY <1>1, <1>2, <1>3, <1>4, <1>5, <1>6, <1>7 DEF BrowserInv

LEMMA BrowserInvHolds == Spec => []BrowserInv
  BY BrowserInitial, BrowserStepHolds, PTL DEF Spec

LEMMA PartsShown ==
  BrowserInv => /\ BookedIsNamed /\ ApproachOnlyToPickup /\ ListedIsPresent /\ MapIsPresent
                /\ SumIsRight /\ FareFollowsEstimate /\ DismissedIsLeaving
<1> SUFFICES ASSUME BrowserInv
             PROVE  /\ BookedIsNamed /\ ApproachOnlyToPickup /\ ListedIsPresent /\ MapIsPresent
                    /\ SumIsRight /\ FareFollowsEstimate /\ DismissedIsLeaving
  OBVIOUS
<1>1. Form!BookedIsNamed /\ Routes!ApproachOnlyToPickup /\ Map!MapIsPresent
  BY BookedShown DEF BrowserInv, FormInv, RoutesInv, MapInv
<1>2. View!ListedIsPresent /\ Panel!SumIsRight /\ Fare!FareFollowsEstimate
  BY BrowserAssumption, ListedHolds, SumShown, FareShown DEF BrowserInv
<1>3. Notes!DismissedIsLeaving
  BY NotesShown DEF BrowserInv
<1> QED BY <1>1, <1>2, <1>3 DEF BookedIsNamed, ApproachOnlyToPickup, ListedIsPresent,
                                MapIsPresent, SumIsRight, FareFollowsEstimate,
                                DismissedIsLeaving

\* Each part's variables have their types: nothing is shown, queued, timed or paid that
\* could not have been asked for.
PartsTyped ==
  /\ View!ViewsTypeOK /\ Form!FormTypeOK /\ Map!MapTypeOK /\ Panel!PanelsTypeOK
  /\ Routes!RoutesTypeOK /\ Fare!FaresTypeOK /\ Notes!ToastsTypeOK

(***************************************************************************)
(* Timers, fetches and effects in any order leave every variable of every  *)
(* part its type; the fares are whole numbers throughout.                  *)
(***************************************************************************)
THEOREM BrowserTypeCorrect == Spec => []PartsTyped
<1>1. BrowserInv => PartsTyped
  BY DEF BrowserInv, ViewsInv, FormInv, MapInv, PanelsInv, RoutesInv, FaresInv, NotesInv, PartsTyped
<1> QED BY <1>1, BrowserInvHolds, PTL

(***************************************************************************)
(* However many searches and place details are still to answer, a ride can *)
(* only be booked to the place the drop-off box names, and from the place  *)
(* the pickup box names or the rider's position (LocationSearch, RidePage: *)
(* a pickup that was typed but not selected is booked at that position).   *)
(* Only under "Current Location" may it be a place chosen earlier.         *)
(***************************************************************************)
THEOREM BookingsAreNamed == Spec => []BookedIsNamed
  BY BrowserInvHolds, PartsShown, PTL

(***************************************************************************)
(* The way to the pickup is drawn only while it is to be driven, and no    *)
(* route without a ride (DriverPage's route effect).                       *)
(***************************************************************************)
THEOREM RoutesAreOfTheRide == Spec => []ApproachOnlyToPickup
  BY BrowserInvHolds, PartsShown, PTL

(***************************************************************************)
(* ActivityPage lists rides of the account and role it is for, unless a    *)
(* request for them failed.                                                *)
(***************************************************************************)
THEOREM ListIsOfTheAccount == Spec => []ListedIsPresent
  BY BrowserInvHolds, PartsShown, PTL

(***************************************************************************)
(* Both maps show what the page passes now, unless the last update found   *)
(* no map to tell (MapViewMapLibre, MapViewGoogle).                        *)
(***************************************************************************)
THEOREM MapsArePresent == Spec => []MapIsPresent
  BY BrowserInvHolds, PartsShown, PTL

(***************************************************************************)
(* The collateral the panel keeps by itself is the deposit on the chain,   *)
(* but for confirmations it has not heard (DriverPage's deposit panel).    *)
(***************************************************************************)
THEOREM PanelIsExact == Spec => []SumIsRight
  BY BrowserInvHolds, PartsShown, PTL

(***************************************************************************)
(* For a solo ride of any distance and duration, a driver's fare and the   *)
(* payment are the rider's estimate, or that and a fifth, up to the        *)
(* rounding of metres and seconds (fareEth and computeBaseFareEth).        *)
(***************************************************************************)
THEOREM FaresAgree == Spec => []FareFollowsEstimate
  BY BrowserInvHolds, PartsShown, PTL

(***************************************************************************)
(* A toast that was dismissed has a timer for as long as it is in the      *)
(* store, so no sequence of dismissals, updates and newer toasts leaves it *)
(* there for good; the Toaster shows the store, or missed a change before  *)
(* its effect ran (reducer, addToRemoveQueue and useToast).                *)
(***************************************************************************)
THEOREM DismissedToastsLeave == Spec => []DismissedIsLeaving
  BY BrowserInvHolds, PartsShown, PTL

(***************************************************************************)
(* An answer to what is no longer asked for changes neither the balance    *)
(* and the list, nor the quote, nor the routes.                            *)
(***************************************************************************)
THEOREM LateAnswersUnheard == Spec => OnlyForPresent
<1>1. BrowserInv /\ [Next]_vars =>
        [/\ ethBalance' # ethBalance => ethBalance' \in {NoAccount, address'}
         /\ activity'.rides # activity.rides =>
               activity'.rides \in {View!NoRides, [account |-> address', role |-> activity'.role]}
        ]_(View!viewVars)
  BY BrowserAssumption, PartSteps, ViewsStepHolds DEF BrowserInv, viewVars, View!viewVars
<1>2. BrowserInv /\ [Next]_vars =>
        [quote' # quote =>
            quote' \in {Form!NoPair, [from |-> Form!effectivePickup(coords, position),
                                      to |-> coords["dropoff"]]}]_(Form!formVars)
  BY PartSteps, QuoteHeard DEF BrowserInv, PresentPair, formVars, Form!formVars
<1>3. BrowserInv /\ [Next]_vars =>
        [/\ approachRoute' # approachRoute =>
               approachRoute' \in {None, Routes!Approach(activeRide', driverAt')}
         /\ rideRoute' # rideRoute => rideRoute' \in {None, Routes!Trip(activeRide')}
        ]_(Routes!routesVars)
  BY PartSteps, RoutesHeard DEF BrowserInv, routesVars, Routes!routesVars
<1>4. Spec => View!ViewsOnlyForPresent
  BY <1>1, BrowserInvHolds, PTL DEF Spec, View!ViewsOnlyForPresent
<1>5. Spec => Form!QuoteOnlyForPresent
  BY <1>2, BrowserInvHolds, PTL DEF Spec, Form!QuoteOnlyForPresent
<1>6. Spec => Routes!RoutesOnlyForPresent
  BY <1>3, BrowserInvHolds, PTL DEF Spec, Routes!RoutesOnlyForPresent
<1> QED
  BY <1>4, <1>5, <1>6 DEF OnlyForPresent
=============================================================================
