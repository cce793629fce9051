------------------------------ MODULE BookingForm ------------------------------
(***************************************************************************)
(* The form of RidePage: two LocationSearch boxes, the position of         *)
(* LocationContext, the quote for the pair of places chosen, and the       *)
(* button that publishes the request.                                      *)
(*                                                                         *)
(* Timers, searches, place details and routes are in flight until they     *)
(* answer, in any order.  Requests of one kind for the same thing that     *)
(* differ in nothing are one.  A place stands for its coordinates, its     *)
(* description and its label; a list of results for the query it answers.  *)
(* What a cancelled route fetch finds is dropped, but for the spinner.     *)
(* Bounds: MaxInFlight timers and requests under way; one ride is          *)
(* published, whose later life is in RidePage.                             *)
(***************************************************************************)
EXTENDS Integers, FiniteSets

CONSTANTS
    Query,                \* texts of three letters or more a user may type
    CurrentLocation,      \* the text "Current Location"
    Place,                \* places the backend's maps API knows
    Spot,                 \* positions geolocation may report, or its fallback
    MaxInFlight,          \* bound: timers and requests under way at a time
    None                  \* null, and a text of fewer than three letters

FormAssumption ==
    /\ CurrentLocation \in Query
    /\ MaxInFlight \in Nat
    /\ None \notin Query \cup Place \cup Spot
    /\ Place \cap (Query \cup Spot) = {}

VARIABLES
    text, coords,         \* RidePage: what each box shows and the place chosen
    search,               \* the state of each LocationSearch
    position,             \* LocationContext
    quote,                \* the pair of places distance, duration and route are of
    routeLoading, quoting,
    publish               \* publishRide, and whether the form is shown

formVars == <<text, coords, search, position, quote, routeLoading, quoting, publish>>

Field  == {"pickup", "dropoff"}
Text   == Query \cup Place \cup {None}
Search == [results : Query \cup {None}, open : BOOLEAN, loading : BOOLEAN,
           timer : Query \cup {None}, searches : SUBSET Query, details : SUBSET Place]
Pair   == [from : Place \cup Spot, to : Place]
NoPair == [from |-> None, to |-> None]
Quoting == [pair : Pair, live : BOOLEAN]

NoSearch == [results |-> None, open |-> FALSE, loading |-> FALSE, timer |-> None,
             searches |-> {}, details |-> {}]

FormInit ==
    /\ text = [f \in Field |-> IF f = "pickup" THEN CurrentLocation ELSE None]
    /\ coords = [f \in Field |-> None]
    /\ search = [f \in Field |-> NoSearch]
    /\ position = None
    /\ quote = NoPair /\ routeLoading = FALSE /\ quoting = {}
    /\ publish = "form"

effectivePickup(c, p) == IF c["pickup"] # None THEN c["pickup"] ELSE p

\* The clean-up of the quote effect.
Kept(fetches) == fetches
Dropped(fetches) == {[q EXCEPT !.live = FALSE] : q \in fetches}

\* The quote effect, with the places and position it now depends on.
QuoteEffect(c, p) ==
    LET pair   == [from |-> effectivePickup(c, p), to |-> c["dropoff"]]
        before == [from |-> effectivePickup(coords, position), to |-> coords["dropoff"]]
        dropped == Dropped(quoting)
    IN  IF pair = before
        THEN UNCHANGED <<quote, routeLoading, quoting>>
        ELSE IF None \in {pair.from, pair.to}
        THEN quote' = NoPair /\ quoting' = dropped /\ UNCHANGED routeLoading
        ELSE /\ routeLoading' = TRUE
             /\ quoting' = dropped \cup {[pair |-> pair, live |-> TRUE]}
             /\ UNCHANGED quote

\* RidePage's onChange and onSelect of box f.
ChangedTextOnly(f, t) == coords
Changed(f, t) ==
    [coords EXCEPT ![f] = IF f = "pickup" /\ t = CurrentLocation THEN @ ELSE None]

Show(f, t, c) ==
    /\ text' = [text EXCEPT ![f] = t]
    /\ coords' = c
    /\ QuoteEffect(c, position)
    /\ UNCHANGED <<position, publish>>

Searched(f, s) ==
    /\ search' = [search EXCEPT ![f] = s]
    /\ UNCHANGED <<text, coords, position, quote, routeLoading, quoting, publish>>

FormShown    == publish \in {"form", "posting"}
ListShown(f) == FormShown /\ search[f].open /\ search[f].results # None

\* fareEth, which is computed from the quote's distance and duration.
FareKnown      == quote # NoPair
PublishEnabled == publish = "form" /\ coords["dropoff"] # None /\ FareKnown

\* search: a short text empties the list, a longer one sets the timer again.
Scheduled(s, t) ==
    IF t = None
    THEN [s EXCEPT !.results = None, !.open = FALSE, !.loading = FALSE, !.timer = None]
    ELSE [s EXCEPT !.loading = TRUE, !.timer = t]

-----------------------------------------------------------------------------
(***************************************************************************)
(* LocationSearch.                                                         *)
(***************************************************************************)

Type(f, t) ==
    /\ FormShown
    /\ Show(f, t, Changed(f, t))
    /\ search' = [search EXCEPT ![f] = Scheduled(@, t)]

TimerFires(f) ==
    /\ search[f].timer # None
    /\ Searched(f, [search[f] EXCEPT !.timer = None, !.searches = @ \cup {search[f].timer}])

SearchAnswers(f, q, found) ==
    Searched(f, [search[f] EXCEPT !.searches = @ \ {q}, !.loading = FALSE,
                                  !.open = found, !.results = IF found THEN q ELSE None])

\* The list is emptied and stays open if it was.
SearchFails(f, q) ==
    Searched(f, [search[f] EXCEPT !.searches = @ \ {q}, !.loading = FALSE, !.results = None])

Focus(f) ==
    /\ FormShown /\ search[f].results # None
    /\ Searched(f, [search[f] EXCEPT !.open = TRUE])

ClickOutside(f) ==
    Searched(f, [search[f] EXCEPT !.open = FALSE])

\* The button that empties the box is there only while nothing is loading.
Clear(f) ==
    /\ FormShown /\ ~ search[f].loading /\ text[f] # None
    /\ Show(f, None, Changed(f, None))
    /\ search' = [search EXCEPT ![f].results = None, ![f].open = FALSE]

handleSelect(f, p) ==
    /\ ListShown(f)
    /\ Show(f, p, Changed(f, p))
    /\ search' = [search EXCEPT ![f].open = FALSE, ![f].loading = TRUE,
                                ![f].details = @ \cup {p}]

\* The details of a place, whatever was typed since it was selected.
DetailsAnswer(f, p) ==
    /\ Show(f, p, [coords EXCEPT ![f] = p])
    /\ search' = [search EXCEPT ![f].details = @ \ {p}, ![f].loading = FALSE]

DetailsFail(f, p) ==
    Searched(f, [search[f] EXCEPT !.details = @ \ {p}, !.loading = FALSE])

-----------------------------------------------------------------------------
(***************************************************************************)
(* LocationContext, the quote and the request.                             *)
(***************************************************************************)

\* getCurrentPosition succeeds, or fails and a default is taken.  DriverPage can ask
\* again, and the answer may come once RidePage is open.
PositionArrives(spot) ==
    /\ position # spot
    /\ position' = spot
    /\ QuoteEffect(coords, spot)
    /\ UNCHANGED <<text, coords, search, publish>>

\* fetchOsrmRoute gives null when it fails or finds no route.
QuoteAnswers(q, found) ==
    /\ routeLoading' = FALSE
    /\ quoting' = quoting \ {q}
    /\ quote' = IF q.live /\ found THEN q.pair ELSE quote
    /\ UNCHANGED <<text, coords, search, position, publish>>

\* The button waits for a quote, not for the quote of the places shown.
publishRide ==
    /\ PublishEnabled /\ effectivePickup(coords, position) # None
    /\ publish' = "posting"
    /\ UNCHANGED <<text, coords, search, position, quote, routeLoading, quoting>>

\* createRide fails, or the ride is published and the boxes are unmounted.
PublishAnswers(ok) ==
    /\ publish = "posting"
    /\ publish' = IF ok THEN "riding" ELSE "form"
    /\ UNCHANGED <<text, coords, search, position, quote, routeLoading, quoting>>

InFlight(f) == Cardinality(search[f].searches) + Cardinality(search[f].details)
                   + (IF search[f].timer = None THEN 0 ELSE 1)
Bounded == InFlight("pickup") + InFlight("dropoff") + Cardinality(quoting) <= MaxInFlight

FormStep ==
    \/ \E f \in Field :
          \/ \E t \in Query \cup {None} : Type(f, t)
          \/ TimerFires(f) \/ Focus(f) \/ ClickOutside(f) \/ Clear(f)
          \/ \E q \in search[f].searches : SearchFails(f, q)
          \/ \E q \in search[f].searches, found \in BOOLEAN : SearchAnswers(f, q, found)
          \/ \E p \in Place : handleSelect(f, p)
          \/ \E p \in search[f].details : DetailsAnswer(f, p) \/ DetailsFail(f, p)
    \/ \E spot \in Spot : PositionArrives(spot)
    \/ \E q \in quoting, found \in BOOLEAN : QuoteAnswers(q, found)
    \/ publishRide
    \/ \E ok \in BOOLEAN : PublishAnswers(ok)

FormNext == FormStep /\ Bounded'

FormSpec == FormInit /\ [][FormNext]_formVars

-----------------------------------------------------------------------------
FormTypeOK ==
    /\ text \in [Field -> Text]
    /\ coords \in [Field -> Place \cup {None}]
    /\ search \in [Field -> Search]
    /\ position \in Spot \cup {None}
    /\ quote \in Pair \cup {NoPair}
    /\ routeLoading \in BOOLEAN
    /\ quoting \subseteq Quoting
    /\ publish \in {"form", "posting", "riding"}

(***************************************************************************)
(* What the button would publish is what the boxes say, however late the   *)
(* details of a place arrive: the drop-off is the place its box names, and *)
(* the pickup the place its box names or else the rider's position.  That  *)
(* position is booked under whatever pickup was typed and not selected, or *)
(* whose details are late or failed (RidePage.tsx:56-57, 150-153, 390); a  *)
(* pickup chosen earlier outlives the text "Current Location".             *)
(***************************************************************************)
BookedIsNamed ==
    PublishEnabled =>
        /\ text["dropoff"] = coords["dropoff"]
        /\ \/ effectivePickup(coords, position) \in {text["pickup"], position}
           \/ text["pickup"] = CurrentLocation

(***************************************************************************)
(* A route that arrives after a place has changed changes nothing: the     *)
(* quote only ever becomes that of the places chosen at that moment, or    *)
(* is cleared because one is missing.                                      *)
(***************************************************************************)
QuoteOnlyForPresent ==
    [][quote' # quote =>
          quote' \in {NoPair, [from |-> effectivePickup(coords, position),
                               to |-> coords["dropoff"]]}]_formVars
=============================================================================
