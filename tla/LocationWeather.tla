---------------------------- MODULE LocationWeather ----------------------------
(***************************************************************************)
(* LocationService (src/src/system/location_service.cpp), WeatherService   *)
(* (src/src/system/weather_service.cpp) and the wiring between them        *)
(* (src/src/app/application_services.cpp), on top of HttpClient.           *)
(*                                                                         *)
(* LocationService owns "where am I": the position of the IP address, the  *)
(* geocoded address, or the manual coordinates.  Every change is pushed to *)
(* WeatherService, which keeps a forecast for it.  Both remember which     *)
(* request they wait for and ignore any other answer, both keep their last *)
(* result in a cache file, and both answer a failure by trying again later.*)
(*                                                                         *)
(* An answer is known by the place it is about.  A place stands for a pair *)
(* of valid coordinates with its label.  Error texts are left out: no state*)
(* below depends on them, since every step that leaves a service without   *)
(* a result also clears its error.                                         *)
(***************************************************************************)
EXTENDS HttpClient

CONSTANTS
  Address,   \* the addresses a user may enter
  Here,      \* the place IP geolocation finds
  Manual,    \* the place of the manual coordinates
  Settings,  \* the [location] sections the user switches between
  LocationCall, WeatherCall,  \* the calls each service may have open at once
  OtherCall, \* calls of a client that has several URLs for one file
  OtherUrls, \* those URLs, in order
  Paced      \* TRUE: nothing is switched while an answer it affects is awaited, the
             \* weather not without a published place if it has a cache, and its other
             \* settings not while a wrong forecast is shown

Place == Address \cup {Here, Manual}

ASSUME LocationWeatherAssumption ==
  /\ Place \subseteq Url
  /\ Here \notin Address /\ Manual \notin Address
  /\ {"geolocate", "geocode", "forecast", "art"} \subseteq Dest
  /\ LocationCall \cup WeatherCall \cup OtherCall \subseteq Call
  /\ LocationCall \cap WeatherCall = {}
  /\ (LocationCall \cup WeatherCall) \cap OtherCall = {}
  /\ OtherUrls \in Seq(Url)
  /\ Settings \subseteq [auto : BOOLEAN, address : Address \cup {None}, manual : BOOLEAN]
  /\ Paced \in BOOLEAN

VARIABLES
  config,        \* LocationService::m_config
  loc,           \* the other members of LocationService
  weather,       \* the members of WeatherService
  locationCache, \* location.json
  weatherCache   \* the saved snapshot

vars == <<httpVars, config, loc, weather, locationCache, weatherCache>>

\* m_nextRefreshAt: in the past, after a retry delay, or after a refresh interval.
\* LocationService never tells its two delays apart.
Due == {"now", "retry", "refresh"}

\* place is None exactly when m_resolved is FALSE; awaits is the call whose
\* serial equals m_requestSerial, None when clearResolved() has bumped it or the
\* call has been answered.
Location == [place : Place \cup {None}, auto : BOOLEAN, address : Address \cup {None},
             kind : {"None", "Geolocate", "Geocode"}, awaits : LocationCall \cup {None},
             queued : BOOLEAN, due : {"now", "later"}]

\* label: the place a forecast is shown and saved under; own: it is for that place.
Snapshot == [label : Place, own : BOOLEAN]

\* place is None exactly when m_hasLocation is FALSE.
Weather == [enabled : BOOLEAN, place : Place \cup {None}, snapshot : Snapshot \cup {None},
            fetching : BOOLEAN, awaits : WeatherCall \cup {None}, queued : BOOLEAN, due : Due]

TypeOK ==
  /\ HttpTypeOK
  /\ config \in Settings
  /\ loc \in Location
  /\ weather \in Weather
  /\ locationCache \in [auto : BOOLEAN, address : Address \cup {None}, place : Place] \cup {None}
  /\ weatherCache \in Snapshot \cup {None}

-----------------------------------------------------------------------------
(* What LocationService publishes, and what the weather makes of it.       *)

NetworkResolution(cf) == cf.auto \/ cf.address # None

\* resolvedLocation()
Published(cf, l) ==
  IF l.place # None THEN l.place
  ELSE IF NetworkResolution(cf) \/ ~cf.manual THEN None ELSE Manual

\* WeatherService::clearState()
Cleared(w) == [w EXCEPT !.awaits = None, !.fetching = FALSE, !.snapshot = None, !.due = "now"]

\* WeatherService::requestRefresh()
Requested(w) == [w EXCEPT !.queued = TRUE, !.due = "now"]

\* Mutant: a lost position leaves the old one in force.
MutSetLocation(w, p) ==
  IF p = None \/ w.place = p THEN w ELSE Requested([w EXCEPT !.place = p])

\* WeatherService::setLocation()
SetLocation(w, p) ==
  IF p = None
    THEN IF w.place # None \/ w.snapshot # None THEN Cleared([w EXCEPT !.place = None]) ELSE w
    ELSE IF w.place # p THEN Requested([w EXCEPT !.place = p]) ELSE w

\* notifyChanged() of LocationService: the callback of the application is
\* pushLocation(), which hands the published place to the weather.
PushLocation(cf, l) == weather' = SetLocation(weather, Published(cf, l))

\* Mutant: the request under way is superseded, but still counts as open.
MutClearResolved(l) ==
  [l EXCEPT !.place = None, !.auto = FALSE, !.address = None, !.awaits = None, !.due = "now"]

\* LocationService::clearResolved()
ClearResolved(l) ==
  [l EXCEPT !.place = None, !.auto = FALSE, !.address = None, !.kind = "None", !.awaits = None,
            !.due = "now"]

\* LocationService::loadCache(): only a result for the same setting is taken.
LoadLocation(cf, l) ==
  IF /\ locationCache # None
     /\ locationCache.auto = cf.auto
     /\ cf.auto \/ locationCache.address = cf.address
    THEN [l EXCEPT !.place = locationCache.place, !.auto = locationCache.auto,
                   !.address = locationCache.address, !.due = "later"]
    ELSE l

\* WeatherService::loadCache(): clears first, then takes the place of the cache.
LoadWeather(w, due) ==
  IF weatherCache = None THEN Cleared(w)
  ELSE [Cleared(w) EXCEPT !.snapshot = weatherCache, !.place = weatherCache.label, !.due = due]

NewLocation ==
  [place |-> None, auto |-> FALSE, address |-> None, kind |-> "None", awaits |-> None,
   queued |-> FALSE, due |-> "now"]

NewWeather(on) ==
  [enabled |-> on, place |-> None, snapshot |-> None, fetching |-> FALSE, awaits |-> None,
   queued |-> FALSE, due |-> "now"]

\* initialize() of both services, then the first pushLocation().
Initialized(cf, on) ==
  LET cached == LoadLocation(cf, NewLocation)
      l == IF NetworkResolution(cf) /\ cached.place = None
             THEN [cached EXCEPT !.queued = TRUE] ELSE cached
  IN  [loc |-> l,
       weather |-> SetLocation(Requested(LoadWeather(NewWeather(on), "now")), Published(cf, l))]

Init ==
  /\ HttpInit
  /\ locationCache = None
  /\ weatherCache = None
  /\ config \in Settings
  /\ \E on \in BOOLEAN :
       /\ loc = Initialized(config, on).loc
       /\ weather = Initialized(config, on).weather

\* The shell is killed and started again: only the files survive.
Restart ==
  /\ transfers' = [h \in Handle |-> None]
  /\ activeByDest' = [d \in Dest |-> None]
  /\ running' = [calls |-> {}, answer |-> None]
  /\ deferred' = {}
  /\ pending' = [c \in Call |-> None]
  /\ loc' = Initialized(config, weather.enabled).loc
  /\ weather' = Initialized(config, weather.enabled).weather
  /\ UNCHANGED <<config, locationCache, weatherCache>>

-----------------------------------------------------------------------------
(* LocationService.                                                        *)

\* The address in the URL is the answer's place.
Ask(kind, url, d) ==
  \E c \in LocationCall :
    /\ Download(c, <<url>>, d)
    /\ loc' = [loc EXCEPT !.queued = FALSE, !.kind = kind, !.awaits = c]
    /\ UNCHANGED weather

NeedsGeocode ==
  \/ loc.place = None
  \/ loc.auto
  \/ loc.address # config.address

\* tick()
LocationTick ==
  /\ AtRest
  /\ loc.kind = "None"
  /\ \/ /\ ~NetworkResolution(config)
        /\ loc.queued \/ loc.place # None
        /\ loc' = [(IF loc.place # None THEN ClearResolved(loc) ELSE loc) EXCEPT !.queued = FALSE]
        /\ IF loc.place # None THEN PushLocation(config, loc') ELSE UNCHANGED weather
        /\ UNCHANGED httpVars
     \/ /\ NetworkResolution(config)
        /\ loc.queued \/ loc.due = "now"
        /\ \/ config.auto /\ Ask("Geolocate", Here, "geolocate")
           \/ ~config.auto /\ NeedsGeocode /\ Ask("Geocode", config.address, "geocode")
           \/ /\ ~config.auto /\ ~NeedsGeocode
              /\ loc' = [loc EXCEPT !.queued = FALSE, !.due = "later"]
              /\ UNCHANGED <<httpVars, weather>>
  /\ UNCHANGED <<config, locationCache, weatherCache>>

\* No geocoding and no forecast is under way.
NothingAwaited == activeByDest["geocode"] = None /\ activeByDest["forecast"] = None

\* onConfigReload() with another [location] section.
NewSettings(cf) ==
  IF <<cf.auto, cf.address>> = <<config.auto, config.address>> THEN loc
  ELSE IF NetworkResolution(cf) THEN [loc EXCEPT !.queued = TRUE, !.due = "now"]
  ELSE ClearResolved(loc)

ChangeLocationSettings(cf) ==
  /\ AtRest
  /\ cf # config
  /\ Paced => NothingAwaited
  /\ config' = cf
  /\ loc' = NewSettings(cf)
  /\ IF \/ <<cf.auto, cf.address>> # <<config.auto, config.address>>
        \/ ~NetworkResolution(cf) /\ cf.manual # config.manual
       THEN PushLocation(cf, loc')
       ELSE UNCHANGED weather
  /\ UNCHANGED <<httpVars, locationCache, weatherCache>>

\* Mutant: the kind of the answer is taken from the configuration of now.
MutResolved(c, place) ==
  [loc EXCEPT !.kind = "None", !.awaits = None, !.place = place, !.auto = config.auto,
              !.address = config.address, !.due = "later"]

\* What an answer taken as such leaves behind: the position is filed under the
\* address that is configured now.
Resolved(c, place) ==
  [loc EXCEPT !.kind = "None", !.awaits = None, !.place = place, !.auto = pending[c].dest = "geolocate",
              !.address = config.address, !.due = "later"]

\* scheduleRetryAfterFailure()
LocationRetries ==
  [loc EXCEPT !.kind = "None", !.awaits = None, !.queued = FALSE, !.due = "later"]

\* handleResponse(); an answer that cannot be parsed counts as a failure.
LocationAnswered(c) ==
  /\ Answer(c)
  /\ c \in LocationCall
  /\ \/ /\ loc.awaits # c
        /\ UNCHANGED <<loc, weather, locationCache>>
     \/ /\ loc.awaits = c
        /\ loc' = LocationRetries
        /\ PushLocation(config, loc')
        /\ UNCHANGED locationCache
     \/ /\ loc.awaits = c
        /\ running.answer # None
        /\ loc' = Resolved(c, running.answer)
        /\ locationCache' = [auto |-> loc'.auto, address |-> loc'.address, place |-> loc'.place]
        /\ PushLocation(config, loc')
  /\ UNCHANGED <<config, weatherCache>>

-----------------------------------------------------------------------------
(* WeatherService.                                                         *)

\* tick() and startWeatherFetch()
WeatherTick ==
  /\ AtRest
  /\ weather.enabled /\ ~weather.fetching
  /\ \/ /\ weather.place = None
        /\ weather.queued \/ weather.snapshot # None
        /\ weather' = [(IF weather.snapshot # None THEN Cleared(weather) ELSE weather)
                         EXCEPT !.queued = FALSE]
        /\ UNCHANGED httpVars
     \/ /\ weather.place # None
        /\ weather.queued \/ weather.due = "now"
        /\ \E c \in WeatherCall :
             /\ Download(c, <<weather.place>>, "forecast")
             /\ weather' = [weather EXCEPT !.queued = FALSE, !.fetching = TRUE, !.awaits = c]
  /\ UNCHANGED <<config, loc, locationCache, weatherCache>>

\* Mutant: a failure waits for the refresh interval, as a success does.
MutWeatherRetries ==
  [weather EXCEPT !.fetching = FALSE, !.awaits = None, !.queued = FALSE, !.due = "refresh"]

WeatherRetries == [weather EXCEPT !.fetching = FALSE, !.awaits = None, !.queued = FALSE, !.due = "retry"]

\* The forecast is filed under the place that is current now.
Forecast(c) ==
  [weather EXCEPT !.fetching = FALSE, !.awaits = None, !.due = "refresh",
                  !.snapshot = [label |-> weather.place,
                                own |-> running.answer = weather.place]]

\* handleWeatherResponse(); an answer that cannot be parsed counts as a failure.
WeatherAnswered(c) ==
  /\ Answer(c)
  /\ c \in WeatherCall
  /\ \/ /\ weather.awaits # c \/ ~weather.enabled
        /\ UNCHANGED <<weather, weatherCache>>
     \/ /\ weather.awaits = c /\ weather.enabled
        /\ weather' = WeatherRetries
        /\ UNCHANGED weatherCache
     \/ /\ weather.awaits = c /\ weather.enabled
        /\ running.answer # None
        /\ weather' = Forecast(c)
        /\ weatherCache' = weather'.snapshot
  /\ UNCHANGED <<config, loc, locationCache>>

\* The forecast shown is not for the current place.
WrongForecast ==
  /\ weather.snapshot # None
  /\ ~weather.snapshot.own \/ weather.snapshot.label # weather.place

\* onConfigReload() that switches the weather off or on, or changes another of
\* its settings; fetchedAt plus the interval may have passed by then.
DisableWeather ==
  /\ weather.enabled
  /\ weather' = Cleared([weather EXCEPT !.enabled = FALSE])

EnableWeather ==
  /\ ~weather.enabled
  /\ Paced => /\ NothingAwaited
              /\ weatherCache # None => Published(config, loc) # None
  /\ \E due \in {"now", "refresh"} :
       weather' = Requested(LoadWeather([weather EXCEPT !.enabled = TRUE], due))

OtherWeatherSettings ==
  /\ weather.enabled
  /\ Paced => ~WrongForecast
  /\ \/ weather.snapshot = None /\ weather' = Requested(weather)
     \/ /\ weather.snapshot # None
        /\ \E due \in {"now", "refresh"} : weather' = [weather EXCEPT !.due = due]

ChangeWeatherSettings ==
  /\ AtRest
  /\ DisableWeather \/ EnableWeather \/ OtherWeatherSettings
  /\ UNCHANGED <<httpVars, config, loc, locationCache, weatherCache>>

\* The machine wakes up: the application asks for a fresh forecast.
Resume ==
  /\ AtRest
  /\ weather' = Requested(weather)
  /\ UNCHANGED <<httpVars, config, loc, locationCache, weatherCache>>

-----------------------------------------------------------------------------
(* The other client, the clock and the main loop.                          *)

\* A client with several URLs for one file, as the album covers of mpris_art.cpp.
OtherAsks ==
  /\ \E c \in OtherCall : Download(c, OtherUrls, "art")
  /\ UNCHANGED <<config, loc, weather, locationCache, weatherCache>>

OtherAnswered(c) ==
  /\ Answer(c)
  /\ c \in OtherCall
  /\ UNCHANGED <<config, loc, weather, locationCache, weatherCache>>

\* A deadline passes.
LocationDeadline ==
  /\ AtRest
  /\ loc.due # "now"
  /\ loc' = [loc EXCEPT !.due = "now"]
  /\ UNCHANGED <<httpVars, config, weather, locationCache, weatherCache>>

WeatherDeadline ==
  /\ AtRest
  /\ weather.due # "now"
  /\ weather' = [weather EXCEPT !.due = "now"]
  /\ UNCHANGED <<httpVars, config, loc, locationCache, weatherCache>>

Dispatch ==
  /\ \/ \E h \in Handle, ok \in BOOLEAN : Finish(h, ok)
     \/ \E c \in Call : RunDeferred(c) \/ TryNext(c)
  /\ UNCHANGED <<config, loc, weather, locationCache, weatherCache>>

Answered == \E c \in Call : LocationAnswered(c) \/ WeatherAnswered(c) \/ OtherAnswered(c)

Next ==
  \/ Dispatch
  \/ Answered
  \/ LocationTick
  \/ WeatherTick
  \/ OtherAsks
  \/ LocationDeadline
  \/ WeatherDeadline
  \/ \E cf \in Settings : ChangeLocationSettings(cf)
  \/ ChangeWeatherSettings
  \/ Resume
  \/ Restart

Spec == Init /\ [][Next]_vars

-----------------------------------------------------------------------------
(* Properties.                                                             *)

\* A service that has a request open waits for a call that will still be answered
\* (HeldOnce says where it is).  tick() does nothing while a request is open, so a
\* service that waited for an answer already given, dropped by a clear or handed
\* to somebody else would never look anything up again.
RequestAwaited ==
  /\ loc.kind # "None" =>
       /\ loc.awaits \in Outstanding
       /\ pending[loc.awaits] =
            [dest |-> IF loc.kind = "Geolocate" THEN "geolocate" ELSE "geocode", rest |-> <<>>]
  /\ weather.fetching =>
       /\ weather.enabled
       /\ weather.awaits \in Outstanding
       /\ pending[weather.awaits] = [dest |-> "forecast", rest |-> <<>>]

\* A position filed under an address is the position of that address, in memory
\* and in the cache, and one found automatically is where the machine is: answers
\* of superseded requests, shared transfers and, except while an address is being
\* geocoded (Paced), changes of the settings in between never file a position under
\* another name.
IsOfItsAddress(l) ==
  \/ l.auto /\ l.place = Here
  \/ ~l.auto /\ l.address \in {l.place, None}

LocationOfItsAddress ==
  /\ loc.place # None => IsOfItsAddress(loc)
  /\ locationCache # None => IsOfItsAddress(locationCache)

\* "Address geocoding is stable once resolved; idle until the address changes."
\* (location_service.cpp:26): with a resolved position, no request open and none
\* queued, the service rests, and it rests only at the position of its address.
RestsOnlyAtItsAddress ==
  loc.place # None /\ loc.kind = "None" /\ ~loc.queued => IsOfItsAddress(loc)

WeatherAtLocation == weather.place = Published(config, loc)

\* Neither service moves.
PlacesStay == UNCHANGED <<weather.place, Published(config, loc)>>

\* Switched on again, the weather has taken the place of its saved forecast.
TakesCachedPlace ==
  /\ ~weather.enabled /\ weather'.enabled
  /\ weatherCache # None /\ weather'.place = weatherCache.label
  /\ UNCHANGED Published(config, loc)

\* The weather is asked for the place that the location service publishes, after
\* caches were read at a start, positions lost, settings switched and answers shared.
\* Only one thing takes it elsewhere: switched on again, it reads its cache and
\* goes where the saved forecast is for (weather_service.cpp:480), however far the
\* published place has moved meanwhile.  Then it stays there, and the next change of
\* the published place brings it back.
WeatherFollowsLocation ==
  WeatherAtLocation /\ [][WeatherAtLocation' \/ PlacesStay \/ TakesCachedPlace]_vars

\* A forecast that is shown for another place than the current one, or under the
\* name of another place than it was asked for, is about to be replaced: a request
\* is queued or open, or one has failed and is due again within the retry delay.
\* Under Paced: a forecast never joins a transfer that an earlier one has left, and
\* no other setting of the weather puts the retry off.
WrongForecastPursued ==
  weather.enabled /\ weather.place # None /\ WrongForecast
    => weather.queued \/ weather.fetching \/ weather.due # "refresh"
=============================================================================
