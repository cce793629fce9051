-------------------------------- MODULE MapView --------------------------------
(***************************************************************************)
(* The map of RidePage and DriverPage: MapViewMapLibre.tsx or              *)
(* MapViewGoogle.tsx, chosen by MapView.tsx, with LocationContext.         *)
(*                                                                         *)
(* Points and routes are what the page passes, one value of Props.  What   *)
(* React renders itself (the Google map's lines and markers) follows the   *)
(* props by construction; what effects do to the map object may not: the   *)
(* markers and lines of MapLibre, and the bounds of both.                  *)
(***************************************************************************)

CONSTANTS
    Props,                \* points and routes a page may pass
    Nothing               \* an empty map

MapAssumption == Nothing \notin Props

VARIABLES
    provider,             \* VITE_MAP_PROVIDER
    located,              \* LocationContext: loading, has coordinates, or cannot have any
    script,               \* useJsApiLoader, for Google
    map,                  \* mapRef.current, and whether its load event has fired
    busy,                 \* ~ map.isStyleLoaded()
    props,
    markers, drawn,       \* what the map object has been told
    queued,               \* the props of the last closure that waits for "load"
    dropped               \* history: the last update found nobody to tell

mapVars == <<provider, located, script, map, busy, props, markers, drawn, queued, dropped>>
fixed   == <<provider, located, script>>

\* The spinner, or an error, in place of the map.
SpinnerMapLibre == located = "loading"
SpinnerGoogle   == located = "loading" \/ script # "loaded"
Spinner == IF provider = "google" THEN SpinnerGoogle ELSE SpinnerMapLibre

\* Google's markers are children of the map that React renders with it.
MarkersShown == IF provider = "google" THEN props ELSE markers

\* What MapView does when it mounts.  MapLibre's map is made now or never.
Mount(p) ==
    /\ props' = p
    /\ map' = IF Spinner THEN "none" ELSE "created"
    /\ busy' = TRUE
    /\ markers' = IF Spinner \/ provider = "google" THEN Nothing ELSE p
    /\ drawn' = Nothing
    /\ queued' = IF Spinner \/ provider = "google" THEN Nothing ELSE p
    /\ dropped' = (Spinner \/ provider = "google")

MapInit ==
    /\ provider \in {"google", "maplibre"}
    /\ located = "loading" /\ script = "loading"
    /\ map = "gone" /\ busy = TRUE /\ props = Nothing
    /\ markers = Nothing /\ drawn = Nothing /\ queued = Nothing /\ dropped = FALSE

-----------------------------------------------------------------------------
\* MapLibre's two effects.  Before "load" the sources do not exist, and after it the
\* event does not come again.
TellMapLibre(p) ==
    IF map = "none"
    THEN dropped' = TRUE /\ UNCHANGED <<markers, drawn, queued>>
    ELSE /\ markers' = p
         /\ drawn'   = IF map = "loaded" /\ ~ busy THEN p ELSE drawn
         /\ queued'  = IF map = "created" /\ busy THEN p ELSE queued
         /\ dropped' = ((map = "loaded") <=> busy)

\* Google's effect fits the bounds if onLoad has given it the map.
TellGoogle(p) ==
    /\ drawn' = IF map = "loaded" THEN p ELSE drawn
    /\ dropped' = (map # "loaded")
    /\ UNCHANGED <<markers, queued>>

Tell(p) == IF provider = "google" THEN TellGoogle(p) ELSE TellMapLibre(p)

OpenPage(p) ==
    /\ map = "gone"
    /\ Mount(p)
    /\ UNCHANGED fixed

LeavePage ==
    /\ map # "gone"
    /\ map' = "gone" /\ busy' = TRUE
    /\ markers' = Nothing /\ drawn' = Nothing /\ queued' = Nothing
    /\ props' = Nothing /\ dropped' = FALSE
    /\ UNCHANGED fixed

NewProps(p) ==
    /\ map # "gone" /\ p # props
    /\ props' = p
    /\ Tell(p)
    /\ UNCHANGED <<fixed, map, busy>>

\* The spinner makes way: a GoogleMap is mounted; MapLibre's container stays empty.
SpinnerGone ==
    IF map = "none" /\ provider = "google" /\ script = "loaded" THEN "created" ELSE map

\* MapLibre's effects depend on the position, Google's fit does not.
\* DriverPage can ask for the position again.
PositionArrives ==
    /\ located # "unsupported" /\ located' = "found"
    /\ map' = SpinnerGone
    /\ IF map # "gone" /\ provider = "maplibre"
       THEN Tell(props)
       ELSE UNCHANGED <<markers, drawn, queued, dropped>>
    /\ UNCHANGED <<provider, script, busy, props>>

\* A browser without geolocation: no coordinates, and no spinner either.
GeolocationUnsupported ==
    /\ located = "loading" /\ located' = "unsupported"
    /\ map' = SpinnerGone
    /\ UNCHANGED <<provider, script, busy, props, markers, drawn, queued, dropped>>

ScriptLoads(result) ==
    /\ provider = "google" /\ script = "loading"
    /\ script' = result
    /\ map' = IF map = "none" /\ located # "loading" /\ result = "loaded" THEN "created" ELSE map
    /\ UNCHANGED <<provider, located, busy, props, markers, drawn, queued, dropped>>

\* onLoad of the GoogleMap sets a ref: nothing renders, nothing is fitted.
GoogleMapLoads ==
    /\ provider = "google" /\ map = "created"
    /\ map' = "loaded"
    /\ UNCHANGED <<fixed, busy, props, markers, drawn, queued, dropped>>

StyleLoadsNoQueue ==
    /\ provider = "maplibre" /\ map = "created"
    /\ map' = "loaded"
    /\ queued' = Nothing
    /\ UNCHANGED <<fixed, busy, props, markers, drawn, dropped>>

\* The sources are added, and then the closures that wait run in their order.
StyleLoads ==
    /\ provider = "maplibre" /\ map = "created"
    /\ map' = "loaded"
    /\ drawn' = queued /\ queued' = Nothing
    /\ UNCHANGED <<fixed, busy, props, markers, dropped>>

\* Tiles and sources start and finish loading.
StyleTurns ==
    /\ provider = "maplibre" /\ map \in {"created", "loaded"}
    /\ busy' = ~ busy
    /\ UNCHANGED <<fixed, map, props, markers, drawn, queued, dropped>>

MapNext ==
    \/ \E p \in Props : OpenPage(p) \/ NewProps(p)
    \/ LeavePage
    \/ PositionArrives \/ GeolocationUnsupported
    \/ \E result \in {"loaded", "error"} : ScriptLoads(result)
    \/ GoogleMapLoads \/ StyleLoads \/ StyleTurns

MapSpec == MapInit /\ [][MapNext]_mapVars

-----------------------------------------------------------------------------
MapTypeOK ==
    /\ provider \in {"google", "maplibre"}
    /\ located \in {"loading", "found", "unsupported"} /\ busy \in BOOLEAN /\ dropped \in BOOLEAN
    /\ script \in {"loading", "loaded", "error"}
    /\ map \in {"gone", "none", "created", "loaded"}
    /\ {props, markers, drawn, queued} \subseteq Props \cup {Nothing}

(***************************************************************************)
(* Unless its last update was dropped, the map shows what the page passes  *)
(* now: updates made before the style has loaded are drawn when it has,    *)
(* the latest of them last, and no earlier route comes back.               *)
(***************************************************************************)
MapIsPresent ==
    /\ map \in {"created", "loaded"} /\ ~ dropped =>
          IF map = "created" /\ provider = "maplibre" THEN queued = props ELSE drawn = props
    /\ map \in {"created", "loaded"} => MarkersShown = props
=============================================================================
