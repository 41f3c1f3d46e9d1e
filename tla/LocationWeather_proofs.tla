------------------------ MODULE LocationWeather_proofs ------------------------
(***************************************************************************)
(* The safety of the location and the weather, for any settings, addresses *)
(* and open calls.  The types depend on who waits for what, so they come in*)
(* one invariant, Basics: types, the downloads of HttpClient (whose steps  *)
(* HttpClient_proofs has proved), what each call is for, and that the open *)
(* requests of both services will be answered.  The properties follow, the *)
(* position of an address and the pursuit of a wrong forecast for settings *)
(* that change while nothing they affect is awaited (Paced).               *)
(***************************************************************************)
EXTENDS LocationWeather, HttpClient_proofs

USE NoneAssumption, LocationWeatherAssumption

-----------------------------------------------------------------------------
(* What the operations return.                                             *)

Section == [auto : BOOLEAN, address : Address \cup {None}, manual : BOOLEAN]

\* Places are URLs, and None is not a place.
LEMMA Places ==
    /\ Place \subseteq Url
    /\ Here \in Place /\ Manual \in Place /\ Address \subseteq Place
    /\ None \notin Place
    /\ Settings \subseteq Section
  BY DEF Place, Section

\* The published place is a place or None.
LEMMA PublishedTypes ==
    ASSUME NEW cf \in Section, NEW l \in Location
    PROVE  Published(cf, l) \in Place \cup {None}
  BY Places DEF Published, Location

\* The operations of WeatherService return a weather.
LEMMA WeatherTypes ==
    ASSUME NEW w \in Weather
    PROVE  /\ Cleared(w) \in Weather
           /\ Requested(w) \in Weather
           /\ \A p \in Place \cup {None} : SetLocation(w, p) \in Weather
  <1>1. \A v \in Weather : Cleared(v) \in Weather
    BY DEF Cleared, Weather, Due
  <1>2. \A v \in Weather : Requested(v) \in Weather
    BY DEF Requested, Weather, Due
  <1>3. ASSUME NEW p \in Place \cup {None}
        PROVE  [w EXCEPT !.place = p] \in Weather
    BY <1>3 DEF Weather
  <1>4. [w EXCEPT !.place = None] \in Weather
    BY DEF Weather
  <1>5. QED BY <1>1, <1>2, <1>3, <1>4 DEF SetLocation

\* The saved snapshot is read into a weather.
LEMMA LoadWeatherTypes ==
    ASSUME NEW w \in Weather, NEW due \in Due, weatherCache \in Snapshot \cup {None}
    PROVE  LoadWeather(w, due) \in Weather
  <1>1. Cleared(w) \in Weather
    BY WeatherTypes
  <1>2. CASE weatherCache # None
    <2>1. weatherCache.label \in Place
      BY <1>2 DEF Snapshot
    <2>2. QED BY <1>1, <1>2, <2>1 DEF LoadWeather, Weather
  <1>3. QED BY <1>1, <1>2 DEF LoadWeather

\* The operations of LocationService return a location.
LEMMA LocationTypes ==
    ASSUME NEW l \in Location
    PROVE  /\ ClearResolved(l) \in Location
           /\ [l EXCEPT !.queued = TRUE] \in Location
           /\ [l EXCEPT !.queued = TRUE, !.due = "now"] \in Location
  BY DEF ClearResolved, Location

CachedLocation == [auto : BOOLEAN, address : Address \cup {None}, place : Place]

\* Both services start as the right type.
LEMMA InitializedTypes ==
    ASSUME NEW cf \in Section, NEW on \in BOOLEAN,
           locationCache \in CachedLocation \cup {None},
           weatherCache \in Snapshot \cup {None}
    PROVE  /\ Initialized(cf, on).loc \in Location
           /\ Initialized(cf, on).weather \in Weather
  <1> DEFINE cached == LoadLocation(cf, NewLocation)
             l == IF NetworkResolution(cf) /\ cached.place = None
                    THEN [cached EXCEPT !.queued = TRUE] ELSE cached
             w == Requested(LoadWeather(NewWeather(on), "now"))
  <1>1. NewLocation \in Location /\ NewWeather(on) \in Weather
    BY DEF NewLocation, NewWeather, Location, Weather, Due
  <1>2. cached \in Location
    <2>1. CASE locationCache # None
      <3>1. /\ locationCache.place \in Place
            /\ locationCache.auto \in BOOLEAN
            /\ locationCache.address \in Address \cup {None}
        BY <2>1 DEF CachedLocation
      <3>2. QED BY <1>1, <2>1, <3>1 DEF LoadLocation, Location
    <2>2. QED BY <1>1, <2>1 DEF LoadLocation
  <1>3. l \in Location
    BY <1>2, LocationTypes
  <1>4. w \in Weather
    BY <1>1, LoadWeatherTypes, WeatherTypes DEF Due
  <1>5. SetLocation(w, Published(cf, l)) \in Weather
    BY <1>3, <1>4, PublishedTypes, WeatherTypes
  <1>6. /\ Initialized(cf, on).loc = l
        /\ Initialized(cf, on).weather = SetLocation(w, Published(cf, l))
    BY DEF Initialized
  <1> HIDE DEF l, w
  <1>7. QED BY <1>3, <1>5, <1>6

-----------------------------------------------------------------------------
(* What each call is for.                                                  *)

\* The answer a file is for: where the machine is, or the position of the address,
\* which is still the configured one when the settings are Paced.
Fits(d, u) ==
  /\ d = "geolocate" => u = Here
  /\ d = "geocode" => u \in Address /\ (Paced => u = config.address)

\* A call and the file of its service; only the other client has a URL to go back to.
Purpose(c) ==
  \/ /\ c \in LocationCall
     /\ pending[c].dest \in {"geolocate", "geocode"}
     /\ pending[c].rest = <<>>
  \/ c \in WeatherCall /\ pending[c].dest = "forecast" /\ pending[c].rest = <<>>
  \/ c \in OtherCall /\ pending[c].dest = "art"

\* Through transfers shared and tried again, each callback runs with an answer that
\* fits its own file.
Aims ==
  /\ \A c \in Call : pending[c] # None => Purpose(c)
  /\ \A c \in Call, h \in Handle : In(c, h) => pending[c].dest = transfers[h].dest
  /\ \A h \in Handle : transfers[h] # None => Fits(transfers[h].dest, transfers[h].url)
  /\ \A c \in Call : c \in running.calls /\ running.answer # None
       => Fits(pending[c].dest, running.answer)

\* What the services ask for.
Wanted(c, urls, d) ==
  \/ /\ c \in LocationCall
     /\ \/ d = "geolocate" /\ urls = <<Here>>
        \/ d = "geocode" /\ config.address \in Address /\ urls = <<config.address>>
  \/ c \in WeatherCall /\ d = "forecast" /\ weather.place \in Place /\ urls = <<weather.place>>
  \/ c \in OtherCall /\ d = "art"

\* A step of the services that leaves HttpClient alone.
Aside == UNCHANGED httpVars /\ (config' = config \/ (AtRest /\ (Paced => NothingAwaited)))

\* A step seen from HttpClient.
HttpPart ==
  \/ Aside
  \/ /\ config' = config
     /\ \/ \E c \in Call, urls \in Seq(Url), d \in Dest : Wanted(c, urls, d) /\ Download(c, urls, d)
        \/ \E h \in Handle, ok \in BOOLEAN : Finish(h, ok)
        \/ \E c \in Call : RunDeferred(c) \/ TryNext(c) \/ Answer(c)
        \/ HttpInit'

\* A request of a service is a download of HttpClient.
LEMMA AskIsDownload ==
    ASSUME NEW c \in LocationCall \cup WeatherCall, NEW u \in Url, NEW d \in Dest,
           Wanted(c, <<u>>, d), Download(c, <<u>>, d), config' = config
    PROVE  HttpPart
  <1>1. c \in Call /\ <<u>> \in Seq(Url)
    OBVIOUS
  <1>2. QED BY <1>1 DEF HttpPart

\* Every step of the system is one of those.
LEMMA NextInHttp == ASSUME TypeOK, Next PROVE HttpPart
  <1>1. CASE Dispatch
    BY <1>1 DEF Dispatch, HttpPart
  <1>2. CASE Answered
    BY <1>2 DEF Answered, LocationAnswered, WeatherAnswered, OtherAnswered, HttpPart
  <1>3. CASE LocationTick
    <2>1. config' = config
      BY <1>3 DEF LocationTick
    <2>2. CASE UNCHANGED httpVars
      BY <2>1, <2>2 DEF HttpPart, Aside
    <2>3. CASE Ask("Geolocate", Here, "geolocate")
      <3>1. PICK c \in LocationCall : Download(c, <<Here>>, "geolocate")
        BY <2>3 DEF Ask
      <3>2. Wanted(c, <<Here>>, "geolocate")
        BY DEF Wanted
      <3>3. QED BY <2>1, <3>1, <3>2, AskIsDownload, Places
    <2>4. CASE NetworkResolution(config) /\ ~config.auto /\ Ask("Geocode", config.address, "geocode")
      <3>1. config.address \in Address
        BY <2>4, Places DEF NetworkResolution, TypeOK, Section
      <3>2. PICK c \in LocationCall : Download(c, <<config.address>>, "geocode")
        BY <2>4 DEF Ask
      <3>3. Wanted(c, <<config.address>>, "geocode")
        BY <3>1 DEF Wanted
      <3>4. QED BY <2>1, <3>1, <3>2, <3>3, AskIsDownload, Places
    <2>5. QED BY <1>3, <2>2, <2>3, <2>4 DEF LocationTick
  <1>4. CASE WeatherTick
    <2>1. config' = config
      BY <1>4 DEF WeatherTick
    <2>2. CASE UNCHANGED httpVars
      BY <2>1, <2>2 DEF HttpPart, Aside
    <2>3. ASSUME weather.place # None,
                 NEW c \in WeatherCall, Download(c, <<weather.place>>, "forecast")
          PROVE  HttpPart
      <3>1. weather.place \in Place
        BY <2>3 DEF TypeOK, Weather
      <3>2. Wanted(c, <<weather.place>>, "forecast")
        BY <3>1 DEF Wanted
      <3>3. QED BY <2>1, <2>3, <3>1, <3>2, AskIsDownload, Places
    <2>4. QED BY <1>4, <2>2, <2>3 DEF WeatherTick
  <1>5. CASE OtherAsks
    <2>1. PICK c \in OtherCall : Download(c, OtherUrls, "art")
      BY <1>5 DEF OtherAsks
    <2>2. c \in Call /\ Wanted(c, OtherUrls, "art") /\ config' = config
      BY <1>5 DEF Wanted, OtherAsks
    <2>3. QED BY <2>1, <2>2 DEF HttpPart
  <1>6. CASE Restart
    BY <1>6 DEF Restart, HttpInit, HttpPart
  <1>7. CASE LocationDeadline \/ WeatherDeadline \/ ChangeWeatherSettings \/ Resume
    BY <1>7 DEF LocationDeadline, WeatherDeadline, ChangeWeatherSettings, Resume, HttpPart, Aside
  <1>8. CASE \E cf \in Settings : ChangeLocationSettings(cf)
    BY <1>8 DEF ChangeLocationSettings, HttpPart, Aside
  <1>9. QED BY <1>1, <1>2, <1>3, <1>4, <1>5, <1>6, <1>7, <1>8 DEF Next

\* The steps of HttpClient among them, whose effect HttpClient_proofs has proved.
LEMMA HttpKept ==
    ASSUME HttpTypeOK, DownloadsShared, HttpPart
    PROVE  HttpTypeOK' /\ DownloadsShared'
  <1>1. HttpNext \/ UNCHANGED httpVars
    BY DEF HttpPart, Aside, HttpNext
  <1>2. QED BY <1>1, HttpStep

-----------------------------------------------------------------------------
(* Every answer fits.                                                      *)

\* What fits still fits: the settings only change while no callback runs and, when
\* Paced, no address is looked up.
LEMMA FitsKept ==
    ASSUME config' = config, NEW d, NEW u, Fits(d, u)
    PROVE  Fits(d, u)'
  BY DEF Fits

\* The steps of the services leave every answer where it is.
LEMMA AsideAims == ASSUME HttpTypeOK, OneWriter, Aims, Aside PROVE Aims'
  <1>1. UNCHANGED <<pending, transfers, running>>
    BY DEF Aside, httpVars
  <1>2. \A c \in Call : pending'[c] # None => Purpose(c)'
    BY <1>1 DEF Aims, Purpose
  <1>3. \A c \in Call, h \in Handle : In(c, h)' => pending'[c].dest = transfers'[h].dest
    BY <1>1 DEF Aims, In
  <1>4. ASSUME NEW h \in Handle, transfers[h] # None
        PROVE  Fits(transfers[h].dest, transfers[h].url)'
    <2>1. Fits(transfers[h].dest, transfers[h].url)
      BY <1>4 DEF Aims
    <2>2. CASE config' = config
      BY <1>1, <2>1, <2>2 DEF Fits
    <2>3. CASE Paced => NothingAwaited
      <3>1. Paced => transfers[h].dest # "geocode"
        BY <1>4, <2>3 DEF NothingAwaited, OneWriter, Active
      <3>2. QED BY <1>1, <2>1, <3>1 DEF Fits
    <2>4. QED BY <2>2, <2>3 DEF Aside
  <1>5. ASSUME NEW c \in Call, c \in running.calls, running.answer # None
        PROVE  Fits(pending[c].dest, running.answer)'
    <2>1. config' = config
      BY <1>5 DEF Aside, AtRest
    <2>2. QED BY <1>1, <1>5, <2>1 DEF Aims, Fits
  <1>6. QED BY <1>1, <1>2, <1>3, <1>4, <1>5 DEF Aims

\* An attempt at a URL that fits its file keeps the aims of the transfers.
LEMMA AttemptAims ==
    ASSUME HttpTypeOK, OneWriter, Aims, config' = config,
           NEW c \in Call, NEW u \in Url, NEW d \in Dest, Fetch(c, u, d), Fits(d, u),
           \A h \in Handle : ~In(c, h),
           pending'[c].dest = d,
           \A x \in Call : x # c => pending'[x] = pending[x]
    PROVE  /\ \A x \in Call, h \in Handle : In(x, h)' => pending'[x].dest = transfers'[h].dest
           /\ \A h \in Handle : transfers'[h] # None => Fits(transfers[h].dest, transfers[h].url)'
  <1>1. ASSUME NEW x \in Call, NEW h \in Handle, In(x, h)'
        PROVE  pending'[x].dest = transfers'[h].dest
    <2>1. transfers'[h] # None
      BY <1>1 DEF In
    <2>2. \/ transfers'[h].dest = transfers[h].dest /\ (In(x, h) \/ (x = c /\ transfers[h].dest = d))
          \/ transfers'[h].dest = d /\ x = c
      BY <1>1, <2>1, FetchAims
    <2>3. CASE x = c
      BY <2>2, <2>3
    <2>4. CASE x # c
      BY <2>2, <2>4 DEF Aims
    <2>5. QED BY <2>3, <2>4
  <1>2. ASSUME NEW h \in Handle, transfers'[h] # None
        PROVE  Fits(transfers[h].dest, transfers[h].url)'
    BY <1>2, FetchAims DEF Aims, Fits
  <1>3. QED BY <1>1, <1>2

\* Every step keeps what the calls are for.
LEMMA AimsKept ==
    ASSUME HttpTypeOK, DownloadsShared, Aims, HttpPart
    PROVE  Aims'
  <1> OneWriter /\ HoldsEach
    BY HeldOnceIsHoldsEach DEF DownloadsShared
  <1>1. CASE Aside
    BY <1>1, AsideAims
  <1>2. ASSUME config' = config, NEW c \in Call, NEW urls \in Seq(Url), NEW d \in Dest,
               Wanted(c, urls, d), Download(c, urls, d)
        PROVE  Aims'
    <2> DEFINE r == IF urls = <<>> THEN <<>> ELSE Tail(urls)
    <2>1. r \in Seq(Url)
      BY TailTypes
    <2>2. pending'[c] = [dest |-> d, rest |-> r] /\ \A x \in Call : x # c => pending'[x] = pending[x]
      BY <1>2 DEF Download, HttpTypeOK
    <2>3. pending'[c].dest = d /\ pending'[c].rest = r
      BY <2>2
    <2>4. c \notin OtherCall => r = <<>>
      <3>1. \A u \in Url : Tail(<<u>>) = <<>>
        OBVIOUS
      <3>2. c \notin OtherCall => urls = <<>> \/ \E u \in Url : urls = <<u>>
        BY <1>2, Places DEF Wanted
      <3>3. QED BY <3>1, <3>2
    <2>5. Purpose(c)'
      BY <1>2, <2>3, <2>4 DEF Wanted, Purpose
    <2>6. \A x \in Call : pending'[x] # None => Purpose(x)'
      BY <2>2, <2>5 DEF Aims, Purpose
    <2>7. running' = running /\ running.calls = {}
      BY <1>2 DEF Download, AtRest
    <2>8. \A h \in Handle : ~In(c, h)
      BY <1>2 DEF Download, Outstanding, HoldsEach
    <2>9. CASE urls = <<>>
      <3>1. transfers' = transfers
        BY <1>2, <2>9 DEF Download, Refused
      <3>2. QED BY <1>2, <2>2, <2>6, <2>7, <2>8, <3>1 DEF Aims, In, Fits
    <2>10. CASE urls # <<>>
      <3>1. Fetch(c, Head(urls), d) /\ Head(urls) \in Url
        BY <1>2, <2>10, TailTypes DEF Download
      <3>2. Fits(d, Head(urls))
        BY <1>2, Places DEF Wanted, Fits
      <3>3. QED BY <1>2, <2>2, <2>3, <2>6, <2>7, <2>8, <3>1, <3>2, AttemptAims DEF Aims
    <2>11. QED BY <2>9, <2>10
  <1>3. ASSUME config' = config, NEW h \in Handle, NEW ok \in BOOLEAN, Finish(h, ok)
        PROVE  Aims'
    <2>1. /\ pending' = pending
          /\ transfers'[h] = None
          /\ \A g \in Handle : g # h => transfers'[g] = transfers[g]
          /\ running'.calls = transfers[h].callbacks
          /\ running'.answer = IF ok THEN transfers[h].url ELSE None
      BY <1>3 DEF Finish, HttpTypeOK
    <2>2. \A x \in Call : x \in running'.calls => In(x, h)
      BY <1>3, <2>1 DEF Finish, In
    <2>3. \A x \in Call : x \in running.calls' /\ running'.answer # None
             => Fits(pending[x].dest, running.answer)'
      BY <1>3, <2>1, <2>2 DEF Aims, Fits, Finish
    <2>4. QED BY <1>3, <2>1, <2>3 DEF Aims, In, Fits, Purpose
  <1>4. ASSUME config' = config, NEW c \in Call, RunDeferred(c)
        PROVE  Aims'
    BY <1>4 DEF RunDeferred, Aims, In, Fits, Purpose
  <1>5. ASSUME config' = config, NEW c \in Call, TryNext(c)
        PROVE  Aims'
    <2>1. c \in running.calls /\ pending[c] \in Pending /\ pending[c].rest # <<>>
      BY <1>5 DEF TryNext, HoldsEach, HttpTypeOK
    <2>2. pending[c] # None
      BY <2>1
    <2>3. c \in OtherCall /\ pending[c].dest = "art"
      BY <2>1, <2>2 DEF Aims, Purpose
    <2>4. pending'[c] = [pending[c] EXCEPT !.rest = Tail(pending[c].rest)]
          /\ \A x \in Call : x # c => pending'[x] = pending[x]
      BY <1>5 DEF TryNext, HttpTypeOK
    <2>5. pending'[c].dest = "art"
      BY <2>1, <2>3, <2>4 DEF Pending
    <2>6. \A x \in Call : pending'[x] # None => Purpose(x)'
      BY <2>3, <2>4, <2>5 DEF Aims, Purpose
    <2>7. /\ running.calls' = running.calls \ {c}
          /\ running'.answer # None => running'.answer = running.answer
      BY <1>5 DEF TryNext, WithoutCall
    <2>8. \A x \in Call : x \in running.calls' /\ running'.answer # None
             => Fits(pending[x].dest, running.answer)'
      BY <1>5, <2>4, <2>7 DEF Aims, Fits
    <2>9. Head(pending[c].rest) \in Url
      BY <2>1, TailTypes DEF Pending
    <2>10. Fits("art", Head(pending[c].rest))
      BY DEF Fits
    <2>11. Fetch(c, Head(pending[c].rest), "art")
      BY <1>5, <2>3 DEF TryNext
    <2>12. \A h \in Handle : ~In(c, h)
      BY <2>1 DEF HoldsEach
    <2>13. QED BY <1>5, <2>4, <2>5, <2>6, <2>8, <2>9, <2>10, <2>11, <2>12, AttemptAims DEF Aims
  <1>6. ASSUME config' = config, NEW c \in Call, Answer(c)
        PROVE  Aims'
    <2>1. /\ pending'[c] = None
          /\ \A x \in Call : x # c => pending'[x] = pending[x]
          /\ transfers' = transfers
          /\ running.calls' = running.calls \ {c}
          /\ running'.answer # None => running'.answer = running.answer
      BY <1>6 DEF Answer, WithoutCall, HttpTypeOK
    <2>2. \A h \in Handle : ~In(c, h)
      BY <1>6 DEF Answer, HoldsEach
    <2>3. \A x \in Call, h \in Handle : In(x, h)' => In(x, h) /\ x # c
      BY <2>1, <2>2 DEF In
    <2>4. QED BY <1>6, <2>1, <2>3 DEF Aims, Fits, Purpose
  <1>7. CASE HttpInit'
    BY <1>7 DEF HttpInit, Aims, In
  <1>8. QED BY <1>1, <1>2, <1>3, <1>4, <1>5, <1>6, <1>7 DEF HttpPart

-----------------------------------------------------------------------------
(* The open requests.                                                      *)

\* An open request of a service is a call that HttpClient still owes an answer,
\* for the file the service reads.
LocationWaits ==
  /\ loc.awaits # None <=> loc.kind # "None"
  /\ loc.kind # "None" =>
       /\ loc.awaits \in Outstanding
       /\ pending[loc.awaits] =
            [dest |-> IF loc.kind = "Geolocate" THEN "geolocate" ELSE "geocode", rest |-> <<>>]

WeatherWaits ==
  /\ weather.awaits # None <=> weather.fetching
  /\ weather.fetching =>
       /\ weather.enabled /\ weather.place # None
       /\ weather.awaits \in Outstanding
       /\ pending[weather.awaits] = [dest |-> "forecast", rest |-> <<>>]

\* The services, their files and their open requests.
Services ==
  /\ config \in Settings
  /\ loc \in Location
  /\ weather \in Weather
  /\ locationCache \in CachedLocation \cup {None}
  /\ weatherCache \in Snapshot \cup {None}
  /\ LocationWaits
  /\ WeatherWaits

\* Types and all that they depend on.
Basics == HttpTypeOK /\ DownloadsShared /\ Aims /\ Services

\* The types are among them.
LEMMA BasicTypes == Services /\ HttpTypeOK => TypeOK
  BY DEF Services, TypeOK, CachedLocation

\* The operations of WeatherService either keep its open request or have none.
LEMMA WeatherRequestKept ==
    ASSUME NEW w \in Weather, NEW p \in Place \cup {None}
    PROVE  LET v == SetLocation(w, p) IN
           /\ v.place = p
           /\ v.enabled = w.enabled
           /\ \/ v.awaits = None /\ ~v.fetching
              \/ v.awaits = w.awaits /\ v.fetching = w.fetching /\ (p # None \/ w.place = None)
  BY Places DEF SetLocation, Cleared, Requested, Weather

\* The caches hold no request.
LEMMA InitializedWaits ==
    ASSUME NEW cf \in Section, NEW on \in BOOLEAN,
           locationCache \in CachedLocation \cup {None},
           weatherCache \in Snapshot \cup {None}
    PROVE  LET i == Initialized(cf, on) IN
           /\ i.loc.awaits = None /\ i.loc.kind = "None"
           /\ i.weather.awaits = None /\ ~i.weather.fetching
           /\ i.weather.place = Published(cf, i.loc)
  <1> DEFINE cached == LoadLocation(cf, NewLocation)
             l == IF NetworkResolution(cf) /\ cached.place = None
                    THEN [cached EXCEPT !.queued = TRUE] ELSE cached
             loaded == LoadWeather(NewWeather(on), "now")
             w == Requested(loaded)
  <1>1. NewLocation \in Location /\ NewWeather(on) \in Weather
    BY DEF NewLocation, NewWeather, Location, Weather, Due
  <1>2. cached.awaits = None /\ cached.kind = "None"
    BY DEF LoadLocation, NewLocation
  <1>3. l.awaits = None /\ l.kind = "None"
    <2>1. cached \in Location
      <3>1. locationCache # None => /\ locationCache.place \in Place
                                    /\ locationCache.auto \in BOOLEAN
                                    /\ locationCache.address \in Address \cup {None}
        BY DEF CachedLocation
      <3>2. QED BY <1>1, <3>1 DEF LoadLocation, Location
    <2>2. QED BY <1>2, <2>1 DEF Location
  <1>4. loaded \in Weather /\ w \in Weather
    BY <1>1, LoadWeatherTypes, WeatherTypes DEF Due
  <1>5. loaded.awaits = None /\ loaded.fetching = FALSE
    BY DEF LoadWeather, Cleared, NewWeather
  <1>6. w.awaits = None /\ w.fetching = FALSE
    BY <1>4, <1>5 DEF Requested, Weather
  <1>7. /\ Initialized(cf, on).loc = l
        /\ Initialized(cf, on).weather = SetLocation(w, Published(cf, l))
    BY DEF Initialized
  <1>8. l \in Location
    BY <1>7, InitializedTypes
  <1> HIDE DEF l, w
  <1>9. QED BY <1>3, <1>4, <1>6, <1>7, <1>8, PublishedTypes, WeatherRequestKept

\* A call with nothing left to try is held until it is answered.
LEMMA WaitingCallKept ==
    ASSUME HttpTypeOK, NEW c \in Call, c \in Outstanding, pending[c].rest = <<>>,
           \/ UNCHANGED pending
           \/ \E x \in Call, urls \in Seq(Url), d \in Dest : Download(x, urls, d)
           \/ \E x \in Call : TryNext(x)
           \/ \E x \in Call \ {c} : Answer(x)
    PROVE  pending'[c] = pending[c] /\ c \in Outstanding'
  <1>1. pending'[c] = pending[c]
    <2>1. ASSUME NEW x \in Call, NEW urls \in Seq(Url), NEW d \in Dest, Download(x, urls, d)
          PROVE  pending'[c] = pending[c]
      BY <2>1 DEF Download, HttpTypeOK
    <2>2. ASSUME NEW x \in Call, TryNext(x)
          PROVE  pending'[c] = pending[c]
      BY <2>2 DEF TryNext, HttpTypeOK
    <2>3. ASSUME NEW x \in Call \ {c}, Answer(x)
          PROVE  pending'[c] = pending[c]
      BY <2>3 DEF Answer, HttpTypeOK
    <2>4. QED BY <2>1, <2>2, <2>3
  <1>2. QED BY <1>1 DEF Outstanding

\* The open requests of both services are such calls.
LEMMA AwaitedCalls ==
    ASSUME Services
    PROVE  /\ loc.awaits # None => /\ loc.awaits \in LocationCall /\ loc.awaits \in Outstanding
                                   /\ pending[loc.awaits].rest = <<>>
           /\ weather.awaits # None => /\ weather.awaits \in WeatherCall /\ weather.awaits \in Outstanding
                                       /\ pending[weather.awaits].rest = <<>>
  <1>1. loc.awaits \in LocationCall \cup {None} /\ weather.awaits \in WeatherCall \cup {None}
    BY DEF Services, Location, Weather
  <1>2. QED BY <1>1 DEF Services, LocationWaits, WeatherWaits

\* A request that stays open, and one that is not open any more, are awaited.
LEMMA LocationWaitsOn ==
    ASSUME LocationWaits,
           \/ loc'.awaits = None /\ loc'.kind = "None"
           \/ /\ loc'.awaits = loc.awaits /\ loc'.kind = loc.kind
              /\ loc.awaits # None => /\ loc.awaits \in Outstanding'
                                      /\ pending'[loc.awaits] = pending[loc.awaits]
    PROVE  LocationWaits'
  BY DEF LocationWaits

\* The same for the weather.
LEMMA WeatherWaitsOn ==
    ASSUME WeatherWaits,
           \/ weather'.awaits = None /\ ~weather'.fetching
           \/ /\ weather'.awaits = weather.awaits /\ weather'.fetching = weather.fetching
              /\ weather'.enabled = weather.enabled
              /\ weather.place # None => weather'.place # None
              /\ weather.awaits # None => /\ weather.awaits \in Outstanding'
                                          /\ pending'[weather.awaits] = pending[weather.awaits]
    PROVE  WeatherWaits'
  BY DEF WeatherWaits

\* What the publication of a place does to the weather.
LEMMA PushKeeps ==
    ASSUME weather \in Weather, WeatherWaits,
           NEW p \in Place \cup {None}, weather' = SetLocation(weather, p),
           weather.awaits # None => /\ weather.awaits \in Outstanding'
                                    /\ pending'[weather.awaits] = pending[weather.awaits]
    PROVE  weather' \in Weather /\ WeatherWaits'
  <1>1. weather' \in Weather
    BY WeatherTypes
  <1>2. /\ weather'.place = p
        /\ weather'.enabled = weather.enabled
        /\ \/ weather'.awaits = None /\ ~weather'.fetching
           \/ /\ weather'.awaits = weather.awaits /\ weather'.fetching = weather.fetching
              /\ p # None \/ weather.place = None
    BY WeatherRequestKept
  <1>3. QED BY <1>1, <1>2, WeatherWaitsOn

-----------------------------------------------------------------------------
(* Every step keeps the services in order.                                 *)

\* Steps of HttpClient alone and of the other client.
LEMMA OthersKeepServices ==
    ASSUME HttpTypeOK, Services,
           \/ Dispatch
           \/ OtherAsks
           \/ \E c \in Call : OtherAnswered(c)
           \/ UNCHANGED vars
    PROVE  Services'
  <1>1. UNCHANGED <<config, loc, weather, locationCache, weatherCache>>
    BY DEF Dispatch, OtherAsks, OtherAnswered, vars
  <1>2. \/ UNCHANGED pending
        \/ \E x \in Call, urls \in Seq(Url), d \in Dest : Download(x, urls, d)
        \/ \E x \in Call : TryNext(x)
        \/ \E x \in OtherCall : Answer(x)
    BY DEF Dispatch, OtherAsks, OtherAnswered, Finish, RunDeferred, vars, httpVars
  <1>3. ASSUME NEW c \in LocationCall \cup WeatherCall, c \in Outstanding, pending[c].rest = <<>>
        PROVE  pending'[c] = pending[c] /\ c \in Outstanding'
    <2>1. c \in Call /\ OtherCall \subseteq Call \ {c}
      OBVIOUS
    <2>2. QED BY <1>2, <1>3, <2>1, WaitingCallKept
  <1>4. LocationWaits'
    BY <1>1, <1>3, AwaitedCalls, LocationWaitsOn DEF Services
  <1>5. WeatherWaits'
    BY <1>1, <1>3, AwaitedCalls, WeatherWaitsOn DEF Services
  <1>6. QED BY <1>1, <1>4, <1>5 DEF Services

\* While HttpClient keeps its calls, an unchanged service still waits for its own.
LEMMA QuietCalls ==
    ASSUME Services, UNCHANGED httpVars
    PROVE  /\ loc.awaits # None => /\ loc.awaits \in Outstanding'
                                   /\ pending'[loc.awaits] = pending[loc.awaits]
           /\ weather.awaits # None => /\ weather.awaits \in Outstanding'
                                       /\ pending'[weather.awaits] = pending[weather.awaits]
  BY AwaitedCalls DEF httpVars, Outstanding

\* tick() of LocationService.
LEMMA LocationTickKeeps ==
    ASSUME HttpTypeOK, Services, LocationTick
    PROVE  Services'
  <1>1. /\ UNCHANGED <<config, locationCache, weatherCache>>
        /\ config \in Section /\ loc.kind = "None" /\ loc.awaits = None
    BY Places DEF LocationTick, Services, LocationWaits
  <1> DEFINE l == [(IF loc.place # None THEN ClearResolved(loc) ELSE loc) EXCEPT !.queued = FALSE]
  <1>2. ASSUME UNCHANGED httpVars, loc' = l, \/ PushLocation(config, loc')
                                             \/ UNCHANGED weather
        PROVE  Services'
    <2>1. l \in Location /\ l.kind = "None" /\ l.awaits = None
      <3> DEFINE m == IF loc.place # None THEN ClearResolved(loc) ELSE loc
      <3>1. m \in Location
        BY LocationTypes DEF Services
      <3>2. m.kind = "None" /\ m.awaits = None
        <4>1. ClearResolved(loc).kind = "None" /\ ClearResolved(loc).awaits = None
          BY DEF ClearResolved, Services, Location
        <4>2. QED BY <1>1, <4>1
      <3>3. l = [m EXCEPT !.queued = FALSE]
        OBVIOUS
      <3> HIDE DEF m
      <3>4. QED BY <3>1, <3>2, <3>3 DEF Location
    <2>2. loc' \in Location /\ loc'.kind = "None" /\ loc'.awaits = None
      BY <1>2, <2>1
    <2>3. Published(config, loc') \in Place \cup {None}
      BY <1>1, <2>2, PublishedTypes
    <2>4. weather' \in Weather /\ WeatherWaits'
      <3>1. CASE PushLocation(config, loc')
        BY <1>2, <2>3, <3>1, QuietCalls, PushKeeps DEF Services, PushLocation
      <3>2. CASE UNCHANGED weather
        BY <1>2, <3>2, QuietCalls, WeatherWaitsOn DEF Services
      <3>3. QED BY <1>2, <3>1, <3>2
    <2>5. LocationWaits'
      BY <2>2, LocationWaitsOn DEF Services
    <2>6. QED BY <1>1, <2>2, <2>4, <2>5 DEF Services
  <1>3. ASSUME UNCHANGED <<httpVars, weather>>, loc' = [loc EXCEPT !.queued = FALSE, !.due = "later"]
        PROVE  Services'
    <2>1. loc' \in Location /\ loc'.kind = "None" /\ loc'.awaits = None
      BY <1>1, <1>3 DEF Services, Location
    <2>2. QED BY <1>1, <1>3, <2>1, QuietCalls, LocationWaitsOn, WeatherWaitsOn DEF Services
  <1>4. ASSUME NEW k \in {"Geolocate", "Geocode"}, NEW u \in Url,
               Ask(k, u, IF k = "Geolocate" THEN "geolocate" ELSE "geocode")
        PROVE  Services'
    <2> DEFINE d == IF k = "Geolocate" THEN "geolocate" ELSE "geocode"
    <2>1. PICK c \in LocationCall :
            /\ Download(c, <<u>>, d)
            /\ loc' = [loc EXCEPT !.queued = FALSE, !.kind = k, !.awaits = c]
            /\ UNCHANGED weather
      BY <1>4 DEF Ask
    <2>2. loc' \in Location /\ loc'.kind = k /\ loc'.awaits = c
      BY <2>1 DEF Services, Location
    <2>3. <<u>> \in Seq(Url) /\ Tail(<<u>>) = <<>> /\ <<u>> # <<>> /\ d \in Dest /\ c \in Call
      OBVIOUS
    <2>4. pending'[c] = [dest |-> d, rest |-> <<>>]
      BY <2>1, <2>3 DEF Download, HttpTypeOK
    <2>5. [dest |-> d, rest |-> <<>>] \in Pending
      BY <2>3, EmptySeq DEF Pending
    <2>6. c \in Outstanding'
      BY <2>3, <2>4, <2>5 DEF Outstanding
    <2>7. LocationWaits'
      BY <2>2, <2>3, <2>4, <2>6 DEF LocationWaits
    <2>8. weather.awaits # None => /\ weather.awaits \in Outstanding'
                                   /\ pending'[weather.awaits] = pending[weather.awaits]
      BY <2>1, <2>3, AwaitedCalls, WaitingCallKept
    <2>9. WeatherWaits'
      BY <2>1, <2>8, WeatherWaitsOn DEF Services
    <2>10. QED BY <1>1, <2>1, <2>2, <2>7, <2>9 DEF Services
  <1>5. CASE config.auto /\ Ask("Geolocate", Here, "geolocate")
    <2>1. Here \in Url /\ "geolocate" = IF "Geolocate" = "Geolocate" THEN "geolocate" ELSE "geocode"
      BY Places
    <2>2. QED BY <1>4, <1>5, <2>1
  <1>6. CASE NetworkResolution(config) /\ ~config.auto /\ Ask("Geocode", config.address, "geocode")
    <2>1. config.address \in Url
      BY <1>1, <1>6, Places DEF NetworkResolution, Section
    <2>2. "geocode" = IF "Geocode" = "Geolocate" THEN "geolocate" ELSE "geocode"
      OBVIOUS
    <2>3. QED BY <1>4, <1>6, <2>1, <2>2
  <1>7. QED BY <1>2, <1>3, <1>5, <1>6 DEF LocationTick

\* onConfigReload() of LocationService.
LEMMA SettingsKeep ==
    ASSUME HttpTypeOK, Services, NEW cf \in Settings, ChangeLocationSettings(cf)
    PROVE  Services'
  <1>1. /\ UNCHANGED <<httpVars, locationCache, weatherCache>>
        /\ config' = cf /\ cf \in Section /\ loc' = NewSettings(cf)
    BY Places DEF ChangeLocationSettings
  <1>2. /\ loc' \in Location
        /\ \/ loc'.awaits = None /\ loc'.kind = "None"
           \/ loc'.awaits = loc.awaits /\ loc'.kind = loc.kind
    <2>1. ClearResolved(loc).kind = "None" /\ ClearResolved(loc).awaits = None
      BY DEF ClearResolved, Services, Location
    <2>2. /\ [loc EXCEPT !.queued = TRUE, !.due = "now"].kind = loc.kind
          /\ [loc EXCEPT !.queued = TRUE, !.due = "now"].awaits = loc.awaits
      BY DEF Services, Location
    <2>3. QED BY <1>1, <2>1, <2>2, LocationTypes DEF NewSettings, Services
  <1>3. LocationWaits'
    BY <1>1, <1>2, QuietCalls, LocationWaitsOn DEF Services
  <1>4. weather' \in Weather /\ WeatherWaits'
    <2>1. CASE PushLocation(cf, loc')
      <3>1. Published(cf, loc') \in Place \cup {None}
        BY <1>1, <1>2, PublishedTypes
      <3>2. QED BY <1>1, <2>1, <3>1, QuietCalls, PushKeeps DEF Services, PushLocation
    <2>2. CASE UNCHANGED weather
      BY <1>1, <2>2, QuietCalls, WeatherWaitsOn DEF Services
    <2>3. QED BY <2>1, <2>2 DEF ChangeLocationSettings
  <1>5. QED BY <1>1, <1>2, <1>3, <1>4 DEF Services

\* The answer a service takes as its own ends the wait of its own call, and that
\* of no other call.
LEMMA AnswerKeeps ==
    ASSUME HttpTypeOK, Services, NEW c \in Call, Answer(c)
    PROVE  /\ loc.awaits # None /\ loc.awaits # c
                => loc.awaits \in Outstanding' /\ pending'[loc.awaits] = pending[loc.awaits]
           /\ weather.awaits # None /\ weather.awaits # c
                => weather.awaits \in Outstanding' /\ pending'[weather.awaits] = pending[weather.awaits]
  BY AwaitedCalls, WaitingCallKept

\* The place of an answer that LocationService takes.
LEMMA AnswerIsPlace ==
    ASSUME HttpTypeOK, DownloadsShared, Aims, Services,
           NEW c \in LocationCall, Answer(c), running.answer # None
    PROVE  /\ running.answer \in Place
           /\ pending[c].dest = "geolocate" => running.answer = Here
           /\ pending[c].dest # "geolocate" => /\ running.answer \in Address
                                               /\ Paced => running.answer = config.address
  <1>1. c \in Call /\ c \in running.calls /\ c \in Outstanding
    BY HeldOnceIsHoldsEach DEF Answer, DownloadsShared, HoldsEach, Outstanding
  <1>2. pending[c].dest \in {"geolocate", "geocode"}
    BY <1>1 DEF Aims, Purpose, Outstanding
  <1>3. Fits(pending[c].dest, running.answer)
    BY <1>1 DEF Aims
  <1>4. QED BY <1>2, <1>3, Places DEF Fits

\* handleResponse() of LocationService.
LEMMA LocationAnswerKeeps ==
    ASSUME HttpTypeOK, DownloadsShared, Aims, Services, NEW c \in Call, LocationAnswered(c)
    PROVE  Services'
  <1>1. /\ Answer(c) /\ c \in LocationCall /\ UNCHANGED <<config, weatherCache>>
        /\ config \in Section
    BY Places DEF LocationAnswered, Services
  <1>2. weather.awaits # None => /\ weather.awaits \in Outstanding'
                                 /\ pending'[weather.awaits] = pending[weather.awaits]
    BY <1>1, AnswerKeeps, AwaitedCalls
  <1>3. CASE loc.awaits # c /\ UNCHANGED <<loc, weather, locationCache>>
    <2>1. LocationWaits'
      BY <1>1, <1>3, AnswerKeeps, LocationWaitsOn DEF Services
    <2>2. QED BY <1>1, <1>2, <1>3, <2>1, WeatherWaitsOn DEF Services
  <1>4. ASSUME loc' \in Location, loc'.kind = "None", loc'.awaits = None,
               PushLocation(config, loc'),
               locationCache' \in CachedLocation \cup {None}
        PROVE  Services'
    <2>1. LocationWaits'
      BY <1>4, LocationWaitsOn DEF Services
    <2>2. Published(config, loc') \in Place \cup {None}
      BY <1>1, <1>4, PublishedTypes
    <2>3. weather' \in Weather /\ WeatherWaits'
      BY <1>2, <1>4, <2>2, PushKeeps DEF Services, PushLocation
    <2>4. QED BY <1>1, <1>4, <2>1, <2>3 DEF Services
  <1>5. CASE loc' = LocationRetries /\ PushLocation(config, loc') /\ UNCHANGED locationCache
    <2>1. loc' \in Location /\ loc'.kind = "None" /\ loc'.awaits = None
      BY <1>5 DEF LocationRetries, Services, Location
    <2>2. QED BY <1>4, <1>5, <2>1 DEF Services
  <1>6. CASE /\ running.answer # None
             /\ loc' = Resolved(c, running.answer)
             /\ locationCache' = [auto |-> loc'.auto, address |-> loc'.address, place |-> loc'.place]
             /\ PushLocation(config, loc')
    <2>1. running.answer \in Place
      BY <1>1, <1>6, AnswerIsPlace
    <2>2. config.address \in Address \cup {None} /\ (pending[c].dest = "geolocate") \in BOOLEAN
      BY <1>1 DEF Section
    <2>3. /\ loc' \in Location /\ loc'.kind = "None" /\ loc'.awaits = None
          /\ loc'.place = running.answer
      BY <1>6, <2>1, <2>2 DEF Resolved, Services, Location
    <2>4. locationCache' \in CachedLocation
      BY <1>6, <2>1, <2>3 DEF CachedLocation, Location
    <2>5. QED BY <1>4, <1>6, <2>3, <2>4
  <1>7. QED BY <1>3, <1>5, <1>6 DEF LocationAnswered

\* tick() of WeatherService.
LEMMA WeatherTickKeeps ==
    ASSUME HttpTypeOK, Services, WeatherTick
    PROVE  Services'
  <1>1. /\ UNCHANGED <<config, loc, locationCache, weatherCache>>
        /\ weather.enabled /\ ~weather.fetching /\ weather.awaits = None
    BY DEF WeatherTick, Services, WeatherWaits
  <1> DEFINE v == IF weather.snapshot # None THEN Cleared(weather) ELSE weather
  <1>2. CASE UNCHANGED httpVars /\ weather' = [v EXCEPT !.queued = FALSE]
    <2>1. v \in Weather /\ v.awaits = None /\ v.fetching = FALSE
      <3>1. Cleared(weather) \in Weather /\ Cleared(weather).awaits = None
            /\ Cleared(weather).fetching = FALSE
        BY WeatherTypes DEF Cleared, Services, Weather
      <3>2. weather.fetching = FALSE
        BY <1>1 DEF Services, Weather
      <3>3. QED BY <1>1, <3>1, <3>2 DEF Services
    <2> HIDE DEF v
    <2>2. weather' \in Weather /\ weather'.awaits = None /\ weather'.fetching = FALSE
      BY <1>2, <2>1 DEF Weather
    <2>3. QED BY <1>1, <1>2, <2>2, QuietCalls, WeatherWaitsOn, LocationWaitsOn DEF Services
  <1>3. ASSUME weather.place # None, NEW c \in WeatherCall,
               Download(c, <<weather.place>>, "forecast"),
               weather' = [weather EXCEPT !.queued = FALSE, !.fetching = TRUE, !.awaits = c]
        PROVE  Services'
    <2>1. /\ weather' \in Weather
          /\ weather'.enabled /\ weather'.fetching /\ weather'.awaits = c
          /\ weather'.place = weather.place
      BY <1>1, <1>3 DEF Services, Weather
    <2>2. weather.place \in Url
      BY <1>3, Places DEF Services, Weather
    <2>3. \A u \in Url : <<u>> \in Seq(Url) /\ Tail(<<u>>) = <<>> /\ <<u>> # <<>>
      OBVIOUS
    <2>4. c \in Call /\ "forecast" \in Dest
      OBVIOUS
    <2>5. pending'[c] = [dest |-> "forecast", rest |-> <<>>]
      BY <1>3, <2>2, <2>3, <2>4 DEF Download, HttpTypeOK
    <2>6. [dest |-> "forecast", rest |-> <<>>] \in Pending
      BY <2>4, EmptySeq DEF Pending
    <2>7. c \in Outstanding'
      BY <2>4, <2>5, <2>6 DEF Outstanding
    <2>8. WeatherWaits'
      BY <1>3, <2>1, <2>4, <2>5, <2>7 DEF WeatherWaits
    <2>9. loc.awaits # None => loc.awaits \in Outstanding' /\ pending'[loc.awaits] = pending[loc.awaits]
      BY <1>3, <2>2, <2>3, <2>4, AwaitedCalls, WaitingCallKept
    <2>10. LocationWaits'
      BY <1>1, <2>9, LocationWaitsOn DEF Services
    <2>11. QED BY <1>1, <2>1, <2>8, <2>10 DEF Services
  <1>4. QED BY <1>2, <1>3 DEF WeatherTick

\* handleWeatherResponse()
LEMMA WeatherAnswerKeeps ==
    ASSUME HttpTypeOK, Services, NEW c \in Call, WeatherAnswered(c)
    PROVE  Services'
  <1>1. Answer(c) /\ c \in WeatherCall /\ UNCHANGED <<config, loc, locationCache>>
    BY DEF WeatherAnswered
  <1>2. loc.awaits # None => loc.awaits \in Outstanding' /\ pending'[loc.awaits] = pending[loc.awaits]
    BY <1>1, AnswerKeeps, AwaitedCalls
  <1>3. LocationWaits'
    BY <1>1, <1>2, LocationWaitsOn DEF Services
  <1>4. CASE (weather.awaits # c \/ ~weather.enabled) /\ UNCHANGED <<weather, weatherCache>>
    <2>1. weather.awaits # c
      BY <1>1, <1>4 DEF Services, WeatherWaits
    <2>2. WeatherWaits'
      BY <1>1, <1>4, <2>1, AnswerKeeps, WeatherWaitsOn DEF Services
    <2>3. QED BY <1>1, <1>3, <1>4, <2>2 DEF Services
  <1>5. CASE weather' = WeatherRetries /\ UNCHANGED weatherCache
    <2>1. weather' \in Weather /\ weather'.awaits = None /\ weather'.fetching = FALSE
      BY <1>5 DEF WeatherRetries, Services, Weather, Due
    <2>2. QED BY <1>1, <1>3, <1>5, <2>1, WeatherWaitsOn DEF Services
  <1>6. CASE weather.awaits = c /\ weather' = Forecast(c) /\ weatherCache' = weather'.snapshot
    <2>1. weather.place \in Place
      BY <1>1, <1>6 DEF Services, Weather, WeatherWaits
    <2>2. [label |-> weather.place, own |-> running.answer = weather.place] \in Snapshot
      BY <2>1 DEF Snapshot
    <2>3. weather' \in Weather /\ weather'.awaits = None /\ weather'.fetching = FALSE
      BY <1>6, <2>2 DEF Forecast, Services, Weather, Due
    <2>4. weatherCache' \in Snapshot \cup {None}
      BY <1>6, <2>3 DEF Weather
    <2>5. QED BY <1>1, <1>3, <2>3, <2>4, WeatherWaitsOn DEF Services
  <1>7. QED BY <1>4, <1>5, <1>6 DEF WeatherAnswered

\* onConfigReload() of WeatherService, the wake-up and the deadlines.
LEMMA QuietStepsKeep ==
    ASSUME HttpTypeOK, Services,
           ChangeWeatherSettings \/ Resume \/ LocationDeadline \/ WeatherDeadline
    PROVE  Services'
  <1>1. UNCHANGED <<httpVars, config, locationCache, weatherCache>>
    BY DEF ChangeWeatherSettings, Resume, LocationDeadline, WeatherDeadline
  <1>2. CASE LocationDeadline
    <2>1. loc' \in Location /\ loc'.awaits = loc.awaits /\ loc'.kind = loc.kind /\ weather' = weather
      BY <1>2 DEF LocationDeadline, Services, Location
    <2>2. QED BY <1>1, <2>1, QuietCalls, LocationWaitsOn, WeatherWaitsOn DEF Services
  <1>3. ASSUME loc' = loc, weather' \in Weather,
               \/ weather'.awaits = None /\ ~weather'.fetching
               \/ /\ weather'.awaits = weather.awaits /\ weather'.fetching = weather.fetching
                  /\ weather'.enabled = weather.enabled /\ weather'.place = weather.place
        PROVE  Services'
    BY <1>1, <1>3, QuietCalls, LocationWaitsOn, WeatherWaitsOn DEF Services
  <1>4. \A due \in Due : [weather EXCEPT !.due = due] \in Weather
    BY DEF Services, Weather
  <1>5. CASE WeatherDeadline
    <2>1. weather' \in Weather
      BY <1>4, <1>5 DEF WeatherDeadline, Due
    <2>2. QED BY <1>3, <1>5, <2>1 DEF WeatherDeadline, Services, Weather
  <1>6. CASE weather' = Requested(weather) /\ loc' = loc
    <2>1. weather' \in Weather
      BY <1>6, WeatherTypes DEF Services
    <2>2. QED BY <1>3, <1>6, <2>1 DEF Requested, Services, Weather
  <1>7. CASE Resume
    BY <1>6, <1>7 DEF Resume
  <1>8. CASE DisableWeather /\ loc' = loc
    <2>1. [weather EXCEPT !.enabled = FALSE] \in Weather
      BY DEF Services, Weather
    <2>2. weather' \in Weather
      BY <1>8, <2>1, WeatherTypes DEF DisableWeather
    <2>3. weather'.awaits = None /\ weather'.fetching = FALSE
      BY <1>8, <2>1 DEF DisableWeather, Cleared, Weather
    <2>4. QED BY <1>3, <1>8, <2>2, <2>3
  <1>9. CASE EnableWeather /\ loc' = loc
    <2> DEFINE w == [weather EXCEPT !.enabled = TRUE]
    <2>1. PICK due \in Due : weather' = Requested(LoadWeather(w, due))
      BY <1>9 DEF EnableWeather, Due
    <2>2. w \in Weather
      BY DEF Services, Weather
    <2> HIDE DEF w
    <2>3. LoadWeather(w, due) \in Weather
      BY <2>2, LoadWeatherTypes DEF Services
    <2>4. LoadWeather(w, due).awaits = None /\ LoadWeather(w, due).fetching = FALSE
      BY <2>2 DEF LoadWeather, Cleared, Weather
    <2>5. weather' \in Weather
      BY <2>1, <2>3, WeatherTypes
    <2>6. weather'.awaits = None /\ weather'.fetching = FALSE
      BY <2>1, <2>3, <2>4 DEF Requested, Weather
    <2>7. QED BY <1>3, <1>9, <2>5, <2>6
  <1>10. CASE OtherWeatherSettings /\ loc' = loc
    <2>1. CASE weather' = Requested(weather)
      BY <1>6, <1>10, <2>1
    <2>2. CASE \E due \in {"now", "refresh"} : weather' = [weather EXCEPT !.due = due]
      <3>1. PICK due \in Due : weather' = [weather EXCEPT !.due = due]
        BY <2>2 DEF Due
      <3>2. QED BY <1>3, <1>4, <1>10, <3>1 DEF Services, Weather
    <2>3. QED BY <1>10, <2>1, <2>2 DEF OtherWeatherSettings
  <1>11. CASE ChangeWeatherSettings
    BY <1>8, <1>9, <1>10, <1>11 DEF ChangeWeatherSettings
  <1>12. QED BY <1>2, <1>5, <1>7, <1>11

\* A restart.
LEMMA RestartKeeps == ASSUME Services, Restart PROVE Services'
  <1>1. /\ loc' = Initialized(config, weather.enabled).loc
        /\ weather' = Initialized(config, weather.enabled).weather
        /\ UNCHANGED <<config, locationCache, weatherCache>>
        /\ config \in Section /\ weather.enabled \in BOOLEAN
    BY Places DEF Restart, Services, Weather
  <1>2. loc' \in Location /\ weather' \in Weather
    BY <1>1, InitializedTypes DEF Services
  <1>3. /\ loc'.awaits = None /\ loc'.kind = "None"
        /\ weather'.awaits = None /\ ~weather'.fetching
    BY <1>1, InitializedWaits DEF Services
  <1>4. QED BY <1>1, <1>2, <1>3 DEF Services, LocationWaits, WeatherWaits

-----------------------------------------------------------------------------
(* Types, shared downloads and open requests.                              *)

\* The system starts with empty files and no request.
LEMMA BasicsInitially == Init => Basics
  <1> SUFFICES ASSUME Init PROVE Basics
    OBVIOUS
  <1>1. HttpTypeOK /\ DownloadsShared
    BY HttpInitShared DEF Init
  <1>2. Aims
    BY DEF Init, HttpInit, Aims, In
  <1>3. PICK on \in BOOLEAN : /\ loc = Initialized(config, on).loc
                              /\ weather = Initialized(config, on).weather
    BY DEF Init
  <1>4. config \in Section /\ locationCache = None /\ weatherCache = None
    BY Places DEF Init
  <1>5. loc \in Location /\ weather \in Weather
    BY <1>3, <1>4, InitializedTypes
  <1>6. loc.awaits = None /\ loc.kind = "None" /\ weather.awaits = None /\ ~weather.fetching
    BY <1>3, <1>4, InitializedWaits
  <1>7. QED BY <1>1, <1>2, <1>4, <1>5, <1>6 DEF Basics, Services, LocationWaits, WeatherWaits, Init

\* Every step keeps them.
LEMMA BasicsKept == Basics /\ [Next]_vars => Basics'
  <1> SUFFICES ASSUME Basics, [Next]_vars PROVE Basics'
    OBVIOUS
  <1> USE DEF Basics
  <1>1. CASE Next
    <2>1. HttpPart
      BY <1>1, BasicTypes, NextInHttp
    <2>2. HttpTypeOK' /\ DownloadsShared'
      BY <2>1, HttpKept
    <2>3. Aims'
      BY <2>1, AimsKept
    <2>4. Services'
      <3>1. CASE Dispatch \/ OtherAsks
        BY <3>1, OthersKeepServices
      <3>2. CASE Answered
        BY <3>2, LocationAnswerKeeps, WeatherAnswerKeeps, OthersKeepServices DEF Answered
      <3>3. CASE LocationTick
        BY <3>3, LocationTickKeeps
      <3>4. CASE WeatherTick
        BY <3>4, WeatherTickKeeps
      <3>5. CASE LocationDeadline \/ WeatherDeadline \/ ChangeWeatherSettings \/ Resume
        BY <3>5, QuietStepsKeep
      <3>6. CASE \E cf \in Settings : ChangeLocationSettings(cf)
        BY <3>6, SettingsKeep
      <3>7. CASE Restart
        BY <3>7, RestartKeeps
      <3>8. QED BY <1>1, <3>1, <3>2, <3>3, <3>4, <3>5, <3>6, <3>7 DEF Next
    <2>5. QED BY <2>2, <2>3, <2>4
  <1>2. CASE UNCHANGED vars
    <2>1. Aside
      BY <1>2 DEF vars, Aside
    <2>2. HttpPart
      BY <2>1 DEF HttpPart
    <2>3. Services'
      BY <1>2, OthersKeepServices
    <2>4. QED BY <2>2, <2>3, HttpKept, AimsKept
  <1>3. QED BY <1>1, <1>2

\* The basics hold at every moment.
THEOREM BasicsAlways == Spec => []Basics
  BY BasicsInitially, BasicsKept, PTL DEF Spec

\* Type correctness, for any settings, addresses and open calls.
THEOREM ServiceTypes == Spec => []TypeOK
  <1>1. Basics => TypeOK
    BY BasicTypes DEF Basics
  <1>2. QED BY <1>1, BasicsAlways, PTL

\* Each completion callback of HttpClient runs exactly once and no file has two
\* writers, for any number of clients, files and transfers.
THEOREM DownloadsStayShared == Spec => []DownloadsShared
  <1>1. Basics => DownloadsShared
    BY DEF Basics
  <1>2. QED BY <1>1, BasicsAlways, PTL

\* No service ever waits for an answer that will not come.
THEOREM RequestsAreAwaited == Spec => []RequestAwaited
  <1>1. Basics => RequestAwaited
    BY DEF Basics, Services, LocationWaits, WeatherWaits, RequestAwaited
  <1>2. QED BY <1>1, BasicsAlways, PTL

-----------------------------------------------------------------------------
(* Positions of their addresses.                                           *)

\* What is resolved is of its address.
LEMMA ResolvedIsOwn ==
    ASSUME Paced, Basics, NEW c \in Call, LocationAnswered(c), loc' = Resolved(c, running.answer),
           running.answer # None
    PROVE  /\ IsOfItsAddress(loc') /\ loc'.place # None
           /\ loc'.auto \/ loc'.address \in Address
  <1> USE DEF Basics
  <1>1. Answer(c) /\ c \in LocationCall
    BY DEF LocationAnswered
  <1>2. /\ running.answer \in Place
        /\ pending[c].dest = "geolocate" => running.answer = Here
        /\ pending[c].dest # "geolocate" => running.answer \in Address /\ running.answer = config.address
    BY <1>1, AnswerIsPlace
  <1>3. /\ loc'.place = running.answer
        /\ loc'.auto = (pending[c].dest = "geolocate")
        /\ loc'.address = config.address
    BY DEF Resolved, Services, Location
  <1>4. QED BY <1>2, <1>3, Places DEF IsOfItsAddress

\* LocationService starts from its cache or from nothing.
LEMMA InitializedLocation ==
    ASSUME NEW cf \in Section, NEW on \in BOOLEAN,
           locationCache \in CachedLocation \cup {None}
    PROVE  LET l == Initialized(cf, on).loc IN
           \/ l.place = None
           \/ /\ locationCache # None
              /\ l.place = locationCache.place
              /\ l.auto = locationCache.auto
              /\ l.address = locationCache.address
              /\ locationCache.auto = cf.auto
              /\ cf.auto \/ locationCache.address = cf.address
  <1> DEFINE cached == LoadLocation(cf, NewLocation)
             l == IF NetworkResolution(cf) /\ cached.place = None
                    THEN [cached EXCEPT !.queued = TRUE] ELSE cached
  <1>1. Initialized(cf, on).loc = l
    BY DEF Initialized
  <1>2. NewLocation \in Location /\ NewLocation.place = None
    BY DEF NewLocation, Location
  <1>3. locationCache # None => /\ locationCache.place \in Place
                                /\ locationCache.auto \in BOOLEAN
                                /\ locationCache.address \in Address \cup {None}
    BY DEF CachedLocation
  <1>4. cached \in Location
    BY <1>2, <1>3 DEF LoadLocation, Location
  <1>5. CASE cached = NewLocation
    <2>1. l.place = None
      BY <1>2, <1>4, <1>5 DEF Location
    <2>2. QED BY <1>1, <2>1
  <1>6. CASE cached # NewLocation
    <2>1. /\ locationCache # None
          /\ locationCache.auto = cf.auto
          /\ cf.auto \/ locationCache.address = cf.address
          /\ cached = [NewLocation EXCEPT !.place = locationCache.place, !.auto = locationCache.auto,
                                          !.address = locationCache.address, !.due = "later"]
      BY <1>6 DEF LoadLocation
    <2>2. /\ cached.place = locationCache.place
          /\ cached.auto = locationCache.auto
          /\ cached.address = locationCache.address
      BY <1>2, <1>3, <2>1 DEF Location
    <2>3. l = cached
      BY <1>3, <2>1, <2>2, Places
    <2>4. QED BY <1>1, <2>1, <2>2, <2>3
  <1>7. QED BY <1>5, <1>6

\* The position in memory only comes from an answer, from the cache, or stays.
LEMMA PositionSteps ==
    ASSUME Basics, [Next]_vars
    PROVE  \/ /\ locationCache' = locationCache
              /\ \/ loc'.place = None
                 \/ loc'.place = loc.place /\ loc'.auto = loc.auto /\ loc'.address = loc.address
           \/ /\ locationCache' = locationCache
              /\ loc' = Initialized(config, weather.enabled).loc
              /\ UNCHANGED config
           \/ \E c \in Call : /\ LocationAnswered(c)
                              /\ running.answer # None
                              /\ loc' = Resolved(c, running.answer)
                              /\ locationCache' = [auto |-> loc'.auto, address |-> loc'.address,
                                                   place |-> loc'.place]
  <1> DEFINE Stays == /\ locationCache' = locationCache
                      /\ \/ loc'.place = None
                         \/ loc'.place = loc.place /\ loc'.auto = loc.auto /\ loc'.address = loc.address
  <1>1. loc \in Location
    BY DEF Basics, Services
  <1>2. ClearResolved(loc).place = None
    BY <1>1 DEF ClearResolved, Location
  <1>3. CASE Dispatch \/ WeatherTick \/ OtherAsks \/ WeatherDeadline \/ ChangeWeatherSettings \/ Resume
                \/ UNCHANGED vars
    BY <1>3 DEF Dispatch, WeatherTick, OtherAsks, WeatherDeadline, ChangeWeatherSettings, Resume, vars
  <1>4. CASE LocationDeadline
    BY <1>1, <1>4 DEF LocationDeadline, Location
  <1>5. CASE LocationTick
    <2>1. locationCache' = locationCache
      BY <1>5 DEF LocationTick
    <2>2. CASE loc' = [(IF loc.place # None THEN ClearResolved(loc) ELSE loc) EXCEPT !.queued = FALSE]
      <3>1. CASE loc.place # None
        <4>1. ClearResolved(loc) \in Location
          BY <1>1, LocationTypes
        <4>2. loc'.place = None
          BY <1>2, <2>2, <3>1, <4>1 DEF Location
        <4>3. QED BY <2>1, <4>2
      <3>2. CASE loc.place = None
        BY <1>1, <2>1, <2>2, <3>2 DEF Location
      <3>3. QED BY <3>1, <3>2
    <2>3. CASE loc' = [loc EXCEPT !.queued = FALSE, !.due = "later"]
      BY <1>1, <2>1, <2>3 DEF Location
    <2>4. ASSUME NEW k, NEW c, loc' = [loc EXCEPT !.queued = FALSE, !.kind = k, !.awaits = c]
          PROVE  Stays
      BY <1>1, <2>1, <2>4 DEF Location
    <2>5. QED BY <1>5, <2>2, <2>3, <2>4 DEF LocationTick, Ask
  <1>6. ASSUME NEW cf \in Settings, ChangeLocationSettings(cf)
        PROVE  Stays
    BY <1>1, <1>2, <1>6 DEF ChangeLocationSettings, NewSettings, Location
  <1>7. ASSUME NEW c \in Call, LocationAnswered(c)
        PROVE  \/ Stays
               \/ /\ running.answer # None
                  /\ loc' = Resolved(c, running.answer)
                  /\ locationCache' = [auto |-> loc'.auto, address |-> loc'.address, place |-> loc'.place]
    BY <1>1, <1>7 DEF LocationAnswered, LocationRetries, Location
  <1>8. ASSUME NEW c \in Call, WeatherAnswered(c) \/ OtherAnswered(c)
        PROVE  Stays
    BY <1>8 DEF WeatherAnswered, OtherAnswered
  <1>9. CASE Restart
    BY <1>9 DEF Restart
  <1>10. QED BY <1>3, <1>4, <1>5, <1>6, <1>7, <1>8, <1>9 DEF Next, Answered

\* Positions stay those of their addresses.
LEMMA OwnKept ==
    ASSUME Paced, Basics, LocationOfItsAddress, [Next]_vars
    PROVE  LocationOfItsAddress'
  <1>1. CASE /\ locationCache' = locationCache
             /\ \/ loc'.place = None
                \/ loc'.place = loc.place /\ loc'.auto = loc.auto /\ loc'.address = loc.address
    BY <1>1 DEF LocationOfItsAddress, IsOfItsAddress
  <1>2. CASE locationCache' = locationCache /\ loc' = Initialized(config, weather.enabled).loc
    <2>1. /\ config \in Section /\ weather.enabled \in BOOLEAN
          /\ locationCache \in CachedLocation \cup {None}
      BY Places DEF Basics, Services, Weather
    <2>2. QED BY <1>2, <2>1, InitializedLocation DEF LocationOfItsAddress, IsOfItsAddress
  <1>3. ASSUME NEW c \in Call, LocationAnswered(c), running.answer # None,
               loc' = Resolved(c, running.answer),
               locationCache' = [auto |-> loc'.auto, address |-> loc'.address, place |-> loc'.place]
        PROVE  LocationOfItsAddress'
    <2>1. IsOfItsAddress(loc')
      BY <1>3, ResolvedIsOwn
    <2>2. IsOfItsAddress(locationCache')
      BY <1>3, <2>1 DEF IsOfItsAddress
    <2>3. QED BY <2>1, <2>2 DEF LocationOfItsAddress, IsOfItsAddress
  <1>4. QED BY <1>1, <1>2, <1>3, PositionSteps

\* At the start there is no position.
LEMMA OwnInitially == Init => LocationOfItsAddress
  <1> SUFFICES ASSUME Init PROVE LocationOfItsAddress
    OBVIOUS
  <1>1. PICK on \in BOOLEAN : loc = Initialized(config, on).loc
    BY DEF Init
  <1>2. config \in Section /\ locationCache = None
    BY Places DEF Init
  <1>3. loc.place = None
    BY <1>1, <1>2, InitializedLocation
  <1>4. QED BY <1>2, <1>3 DEF LocationOfItsAddress

\* For any addresses and any settings that are switched while no address is looked
\* up, a position is never filed under another address, in memory or in the cache.
THEOREM PositionsAreOwn == Paced /\ Spec => []LocationOfItsAddress
  <1>1. CASE Paced
    <2>1. Basics /\ LocationOfItsAddress /\ [Next]_vars => LocationOfItsAddress'
      BY <1>1, OwnKept
    <2>2. QED BY <2>1, OwnInitially, BasicsAlways, PTL DEF Spec
  <1>2. QED BY <1>1

-----------------------------------------------------------------------------
(* The weather follows the location.                                       *)

\* The place is all that matters of a location.
LEMMA PublishedPlace ==
    ASSUME NEW cf, NEW l, NEW m, m.place = l.place
    PROVE  Published(cf, m) = Published(cf, l)
  BY DEF Published

\* What a step does to the two places.
Follows ==
  \/ WeatherAtLocation'
  \/ PlacesStay
  \/ TakesCachedPlace /\ (Paced => Published(config, loc) # None)

\* Every step hands a new position on; only switching the weather on goes elsewhere.
LEMMA FollowSteps == ASSUME Basics, [Next]_vars PROVE Follows
  <1> USE DEF Basics
  <1>1. config \in Section /\ loc \in Location /\ weather \in Weather
    BY Places DEF Services
  <1>2. Services'
    BY BasicsKept
  <1>3. loc' \in Location /\ weather' \in Weather /\ config' \in Section
    BY <1>2, Places DEF Services
  <1>4. ASSUME NEW cf \in Section, config' = cf, weather' = SetLocation(weather, Published(cf, loc'))
        PROVE  Follows
    <2>1. Published(cf, loc') \in Place \cup {None}
      BY <1>3, PublishedTypes
    <2>2. weather'.place = Published(cf, loc')
      BY <1>1, <1>4, <2>1, WeatherRequestKept
    <2>3. QED BY <1>4, <2>2 DEF WeatherAtLocation, Follows
  <1>5. ASSUME config' = config, loc'.place = loc.place, weather'.place = weather.place
        PROVE  Follows
    <2>1. Published(config, loc') = Published(config, loc)
      BY <1>5, PublishedPlace
    <2>2. QED BY <1>5, <2>1 DEF PlacesStay, Follows
  <1>6. CASE Dispatch \/ OtherAsks \/ UNCHANGED vars
    BY <1>5, <1>6 DEF Dispatch, OtherAsks, vars
  <1>7. ASSUME NEW c \in Call, LocationAnswered(c)
        PROVE  Follows
    BY <1>1, <1>4, <1>5, <1>7 DEF LocationAnswered, PushLocation
  <1>8. ASSUME NEW c \in Call, WeatherAnswered(c)
        PROVE  Follows
    <2>1. weather'.place = weather.place
      BY <1>1, <1>8 DEF WeatherAnswered, WeatherRetries, Forecast, Weather
    <2>2. QED BY <1>5, <1>8, <2>1 DEF WeatherAnswered
  <1>9. ASSUME NEW c \in Call, OtherAnswered(c)
        PROVE  Follows
    BY <1>5, <1>9 DEF OtherAnswered
  <1>10. CASE LocationTick
    <2>1. config' = config
      BY <1>10 DEF LocationTick
    <2>2. CASE PushLocation(config, loc')
      BY <1>1, <1>4, <2>1, <2>2 DEF PushLocation
    <2>3. CASE weather' = weather /\ loc.place = None /\ loc' = [loc EXCEPT !.queued = FALSE]
      BY <1>1, <1>5, <2>1, <2>3 DEF Location
    <2>4. CASE weather' = weather /\ loc' = [loc EXCEPT !.queued = FALSE, !.due = "later"]
      BY <1>1, <1>5, <2>1, <2>4 DEF Location
    <2>5. ASSUME NEW k, NEW c, weather' = weather,
                 loc' = [loc EXCEPT !.queued = FALSE, !.kind = k, !.awaits = c]
          PROVE  Follows
      BY <1>1, <1>5, <2>1, <2>5 DEF Location
    <2>6. QED BY <1>10, <2>2, <2>3, <2>4, <2>5 DEF LocationTick, Ask
  <1>11. CASE WeatherTick
    <2>1. config' = config /\ loc' = loc
      BY <1>11 DEF WeatherTick
    <2>2. Cleared(weather) \in Weather /\ Cleared(weather).place = weather.place
      BY <1>1, WeatherTypes DEF Cleared, Weather
    <2>3. weather'.place = weather.place
      <3> DEFINE v == IF weather.snapshot # None THEN Cleared(weather) ELSE weather
      <3>1. v \in Weather /\ v.place = weather.place
        BY <1>1, <2>2
      <3> HIDE DEF v
      <3>2. CASE weather' = [v EXCEPT !.queued = FALSE]
        BY <3>1, <3>2 DEF Weather
      <3>3. ASSUME NEW c, weather' = [weather EXCEPT !.queued = FALSE, !.fetching = TRUE, !.awaits = c]
            PROVE  weather'.place = weather.place
        BY <1>1, <3>3 DEF Weather
      <3>4. QED BY <1>11, <3>2, <3>3 DEF WeatherTick, v
    <2>4. QED BY <1>5, <2>1, <2>3
  <1>12. ASSUME NEW cf \in Settings, ChangeLocationSettings(cf)
         PROVE  Follows
    <2>1. config' = cf /\ cf \in Section /\ loc' = NewSettings(cf)
      BY <1>12, Places DEF ChangeLocationSettings
    <2>2. CASE PushLocation(cf, loc')
      BY <1>4, <2>1, <2>2 DEF PushLocation
    <2>3. CASE /\ weather' = weather
               /\ <<cf.auto, cf.address>> = <<config.auto, config.address>>
               /\ NetworkResolution(cf) \/ cf.manual = config.manual
      <3>1. loc' = loc
        BY <2>1, <2>3 DEF NewSettings
      <3>2. Published(cf, loc) = Published(config, loc)
        BY <2>3 DEF Published, NetworkResolution
      <3>3. QED BY <2>1, <2>3, <3>1, <3>2 DEF PlacesStay, Follows
    <2>4. QED BY <1>12, <2>2, <2>3 DEF ChangeLocationSettings
  <1>13. CASE ChangeWeatherSettings
    <2>1. config' = config /\ loc' = loc
      BY <1>13 DEF ChangeWeatherSettings
    <2>2. CASE DisableWeather
      <3>1. weather'.place = weather.place
        BY <1>1, <2>2 DEF DisableWeather, Cleared, Weather
      <3>2. QED BY <1>5, <2>1, <3>1
    <2>3. CASE EnableWeather
      <3> DEFINE w == [weather EXCEPT !.enabled = TRUE]
      <3>1. PICK due \in Due : weather' = Requested(LoadWeather(w, due))
        BY <2>3 DEF EnableWeather, Due
      <3>2. w \in Weather /\ w.place = weather.place
        BY <1>1 DEF Weather
      <3> HIDE DEF w
      <3>3. LoadWeather(w, due) \in Weather
        BY <3>2, LoadWeatherTypes DEF Services
      <3>4. weather'.place = LoadWeather(w, due).place /\ weather'.enabled = LoadWeather(w, due).enabled
        BY <3>1, <3>3 DEF Requested, Weather
      <3>5. CASE weatherCache = None
        <4>1. weather'.place = weather.place
          BY <3>2, <3>4, <3>5 DEF LoadWeather, Cleared, Weather
        <4>2. QED BY <1>5, <2>1, <4>1
      <3>6. CASE weatherCache # None
        <4>1. LoadWeather(w, due).place = weatherCache.label /\ LoadWeather(w, due).enabled
          BY <3>2, <3>6 DEF LoadWeather, Cleared, Weather, w
        <4>2. ~weather.enabled /\ (Paced => Published(config, loc) # None)
          BY <2>3, <3>6 DEF EnableWeather
        <4>3. UNCHANGED Published(config, loc)
          BY <2>1
        <4>4. QED BY <3>4, <3>6, <4>1, <4>2, <4>3 DEF TakesCachedPlace, Follows
      <3>7. QED BY <3>5, <3>6
    <2>4. CASE OtherWeatherSettings
      <3>1. weather'.place = weather.place
        BY <1>1, <2>4 DEF OtherWeatherSettings, Requested, Weather
      <3>2. QED BY <1>5, <2>1, <3>1
    <2>5. QED BY <1>13, <2>2, <2>3, <2>4 DEF ChangeWeatherSettings
  <1>14. CASE Resume
    BY <1>1, <1>5, <1>14 DEF Resume, Requested, Weather
  <1>15. CASE LocationDeadline
    BY <1>1, <1>5, <1>15 DEF LocationDeadline, Location
  <1>16. CASE WeatherDeadline
    BY <1>1, <1>5, <1>16 DEF WeatherDeadline, Weather
  <1>17. CASE Restart
    BY <1>1, <1>17, InitializedWaits DEF Restart, Services, Weather, WeatherAtLocation, Follows
  <1>18. QED BY <1>6, <1>7, <1>8, <1>9, <1>10, <1>11, <1>12, <1>13, <1>14, <1>15, <1>16, <1>17 DEF Next, Answered

\* The first pushLocation() sets the place.
LEMMA FollowInitially == Init => WeatherAtLocation
  <1> SUFFICES ASSUME Init PROVE WeatherAtLocation
    OBVIOUS
  <1>1. PICK on \in BOOLEAN : /\ loc = Initialized(config, on).loc
                              /\ weather = Initialized(config, on).weather
    BY DEF Init
  <1>2. config \in Section /\ locationCache = None /\ weatherCache = None
    BY Places DEF Init
  <1>3. QED BY <1>1, <1>2, InitializedWaits DEF WeatherAtLocation

\* For any settings, switched at any moment, the weather is asked for the place that
\* LocationService publishes, except between a switch-on that reads a cache of another
\* place and the next place that is published.
THEOREM WeatherFollows == Spec => WeatherFollowsLocation
  <1>1. Basics /\ [Next]_vars => [WeatherAtLocation' \/ PlacesStay \/ TakesCachedPlace]_vars
    BY FollowSteps DEF Follows
  <1>2. QED BY <1>1, FollowInitially, BasicsAlways, PTL DEF Spec, WeatherFollowsLocation

\* Switched on with a published place only, the weather has none that was lost.
NoLostPlace == Published(config, loc) = None => weather.place = None

\* Every step keeps it.
LEMMA NoLostKept ==
    ASSUME Paced, Basics, NoLostPlace, [Next]_vars
    PROVE  NoLostPlace'
  BY FollowSteps DEF Follows, NoLostPlace, WeatherAtLocation, PlacesStay, TakesCachedPlace

-----------------------------------------------------------------------------
(* A wrong forecast is replaced.                                           *)

\* With the settings of no network, there is no position to be found, and the cache
\* never holds one that such settings would take.
Unresolved ==
  /\ ~NetworkResolution(config) => loc.place = None /\ loc.awaits = None
  /\ locationCache # None => locationCache.auto \/ locationCache.address \in Address

\* Every step keeps it: a position is looked up only for settings of the network.
LEMMA UnresolvedKept ==
    ASSUME Paced, Basics, Unresolved, [Next]_vars
    PROVE  Unresolved'
  <1> USE DEF Basics
  <1>1. config \in Section /\ loc \in Location
    BY Places DEF Services
  <1>2. ClearResolved(loc).place = None /\ ClearResolved(loc).awaits = None
    BY <1>1 DEF ClearResolved, Location
  <1>3. ASSUME config' = config, locationCache' = locationCache,
               ~NetworkResolution(config) => loc'.place = None /\ loc'.awaits = None
        PROVE  Unresolved'
    BY <1>3 DEF Unresolved
  <1>4. CASE Dispatch \/ WeatherTick \/ OtherAsks \/ WeatherDeadline \/ ChangeWeatherSettings \/ Resume
                \/ UNCHANGED vars
    BY <1>3, <1>4 DEF Unresolved, Dispatch, WeatherTick, OtherAsks, WeatherDeadline,
                      ChangeWeatherSettings, Resume, vars
  <1>5. CASE LocationDeadline
    BY <1>1, <1>3, <1>5 DEF Unresolved, LocationDeadline, Location
  <1>6. CASE LocationTick
    <2>1. CASE NetworkResolution(config)
      BY <1>3, <1>6, <2>1 DEF LocationTick
    <2>2. CASE ~NetworkResolution(config)
      <3>1. loc.place = None /\ loc.awaits = None /\ loc' = [loc EXCEPT !.queued = FALSE]
        BY <1>6, <2>2 DEF LocationTick, Unresolved
      <3>2. loc'.place = None /\ loc'.awaits = None
        BY <1>1, <3>1 DEF Location
      <3>3. QED BY <1>3, <1>6, <3>2 DEF LocationTick
    <2>3. QED BY <2>1, <2>2
  <1>7. ASSUME NEW cf \in Settings, ChangeLocationSettings(cf)
        PROVE  Unresolved'
    <2>1. config' = cf /\ locationCache' = locationCache /\ loc' = NewSettings(cf)
      BY <1>7 DEF ChangeLocationSettings
    <2>2. CASE <<cf.auto, cf.address>> = <<config.auto, config.address>>
      BY <2>1, <2>2 DEF NewSettings, NetworkResolution, Unresolved
    <2>3. CASE NetworkResolution(cf)
      BY <2>1, <2>3 DEF Unresolved
    <2>4. CASE /\ <<cf.auto, cf.address>> # <<config.auto, config.address>>
               /\ ~NetworkResolution(cf)
      BY <1>2, <2>1, <2>4 DEF NewSettings, Unresolved
    <2>5. QED BY <2>2, <2>3, <2>4
  <1>8. ASSUME NEW c \in Call, LocationAnswered(c)
        PROVE  Unresolved'
    <2>1. c # None
      OBVIOUS
    <2>2. loc.awaits = c => NetworkResolution(config)
      BY <2>1 DEF Unresolved
    <2>3. CASE UNCHANGED <<loc, locationCache>>
      BY <1>3, <1>8, <2>3 DEF LocationAnswered, Unresolved
    <2>4. CASE loc.awaits = c /\ UNCHANGED locationCache
      BY <1>3, <1>8, <2>2, <2>4 DEF LocationAnswered
    <2>5. CASE /\ loc.awaits = c /\ running.answer # None /\ loc' = Resolved(c, running.answer)
               /\ locationCache' = [auto |-> loc'.auto, address |-> loc'.address, place |-> loc'.place]
      <3>1. loc'.auto \/ loc'.address \in Address
        BY <1>8, <2>5, ResolvedIsOwn
      <3>2. locationCache'.auto \/ locationCache'.address \in Address
        BY <2>5, <3>1
      <3>3. config' = config
        BY <1>8 DEF LocationAnswered
      <3>4. QED BY <2>2, <2>5, <3>2, <3>3 DEF Unresolved
    <2>6. QED BY <1>8, <2>3, <2>4, <2>5 DEF LocationAnswered
  <1>9. ASSUME NEW c \in Call, WeatherAnswered(c) \/ OtherAnswered(c)
        PROVE  Unresolved'
    BY <1>3, <1>9 DEF Unresolved, WeatherAnswered, OtherAnswered
  <1>10. CASE Restart
    <2>1. /\ config' = config /\ locationCache' = locationCache
          /\ loc' = Initialized(config, weather.enabled).loc
          /\ weather.enabled \in BOOLEAN
      BY <1>10 DEF Restart, Services, Weather
    <2>2. locationCache \in CachedLocation \cup {None} /\ weatherCache \in Snapshot \cup {None}
      BY DEF Services
    <2>3. loc'.awaits = None
      BY <1>1, <2>1, <2>2, InitializedWaits
    <2>4. \/ loc'.place = None
          \/ /\ locationCache # None
             /\ locationCache.auto = config.auto
             /\ config.auto \/ locationCache.address = config.address
      BY <1>1, <2>1, <2>2, InitializedLocation
    <2>5. ~NetworkResolution(config) => loc'.place = None
      BY <2>4, Places DEF NetworkResolution, Unresolved
    <2>6. QED BY <1>3, <2>1, <2>3, <2>5
  <1>11. QED BY <1>4, <1>5, <1>6, <1>7, <1>8, <1>9, <1>10 DEF Next, Answered

\* A running transfer of a forecast is the one the weather waits for.
ForecastInSight ==
  weather.enabled /\ activeByDest["forecast"] # None
    => weather.fetching /\ In(weather.awaits, activeByDest["forecast"])

\* Unless a request is queued, what is under way is for the current place.
ForecastForPlace ==
  weather.enabled /\ weather.fetching /\ ~weather.queued =>
    /\ activeByDest["forecast"] # None => transfers[activeByDest["forecast"]].url = weather.place
    /\ weather.awaits \in running.calls /\ running.answer # None => running.answer = weather.place

Pursuit ==
  Unresolved /\ NoLostPlace /\ ForecastInSight /\ ForecastForPlace /\ WrongForecastPursued

\* Another file's attempt leaves the transfer of the forecast alone.
LEMMA FetchElsewhere ==
    ASSUME HttpTypeOK, DownloadsShared,
           NEW c \in Call, NEW u \in Url, NEW d \in Dest, d # "forecast", Fetch(c, u, d),
           activeByDest'["forecast"] # None
    PROVE  /\ activeByDest'["forecast"] = activeByDest["forecast"]
           /\ transfers'[activeByDest["forecast"]].url = transfers[activeByDest["forecast"]].url
           /\ \A x \in Call : In(x, activeByDest["forecast"]) => In(x, activeByDest["forecast"])'
  <1> DEFINE f == activeByDest["forecast"]
  <1>1. activeByDest'["forecast"] = f
    BY DEF Fetch, Refused, Join, Start, HttpTypeOK
  <1>2. f \in Handle /\ transfers[f] \in Transfer /\ transfers[f].dest = "forecast"
    BY <1>1 DEF DownloadsShared, OneWriter, Active, HttpTypeOK
  <1>3. OneWriter
    BY DEF DownloadsShared
  <1>4. transfers'[f] # None
    <2>1. OneWriter'
      BY <1>3, FetchWrites
    <2>2. QED BY <1>1, <2>1 DEF OneWriter, Active
  <1>5. transfers'[f].url = transfers[f].url
    BY <1>2, <1>3, <1>4, FetchAims
  <1>6. \A x \in Call : In(x, f) => In(x, f)'
    <2>1. \A x \in Call, g \in Handle : In(x, g) => In(x, g)'
      BY <1>3, FetchHolds
    <2>2. QED BY <1>1, <1>2, <2>1 DEF In
  <1>7. QED BY <1>1, <1>5, <1>6

\* What a step of HttpClient that is not a request for a forecast does to it: the
\* transfer stays, or ends and its callbacks run with its answer.
ForecastStep ==
  /\ activeByDest'["forecast"] # None =>
       /\ activeByDest'["forecast"] = activeByDest["forecast"]
       /\ transfers'[activeByDest["forecast"]].url = transfers[activeByDest["forecast"]].url
       /\ \A x \in Call : In(x, activeByDest["forecast"]) => In(x, activeByDest["forecast"])'
  /\ \A x \in WeatherCall : x \in Outstanding /\ x \in running'.calls /\ running'.answer # None
       => \/ x \in running.calls /\ running'.answer = running.answer
          \/ /\ activeByDest["forecast"] # None
             /\ running'.answer = transfers[activeByDest["forecast"]].url

\* So do all of them.
LEMMA ForecastSteps ==
    ASSUME HttpTypeOK, DownloadsShared, Aims,
           \/ UNCHANGED httpVars
           \/ Dispatch
           \/ \E c \in Call : Answer(c)
           \/ \E c \in Call, urls \in Seq(Url), d \in Dest \ {"forecast"} : Download(c, urls, d)
    PROVE  ForecastStep
  <1> OneWriter /\ HoldsEach
    BY HeldOnceIsHoldsEach DEF DownloadsShared
  <1>1. ASSUME UNCHANGED <<transfers, activeByDest>>,
               \/ running'.calls \subseteq running.calls /\ (running'.answer # None => running'.answer = running.answer)
               \/ running'.answer = None
        PROVE  ForecastStep
    BY <1>1 DEF ForecastStep, In
  <1>2. ASSUME NEW c \in Call, Answer(c)
        PROVE  ForecastStep
    BY <1>1, <1>2 DEF Answer, WithoutCall
  <1>3. ASSUME NEW c \in Call, RunDeferred(c)
        PROVE  ForecastStep
    BY <1>1, <1>3 DEF RunDeferred
  <1>4. ASSUME NEW c \in Call, NEW urls \in Seq(Url), NEW d \in Dest \ {"forecast"}, Download(c, urls, d)
        PROVE  ForecastStep
    <2>1. running' = running
      BY <1>4 DEF Download
    <2>2. CASE urls = <<>>
      BY <1>1, <1>4, <2>1, <2>2 DEF Download, Refused
    <2>3. CASE urls # <<>>
      <3>1. Fetch(c, Head(urls), d) /\ Head(urls) \in Url
        BY <1>4, <2>3, TailTypes DEF Download
      <3>2. QED BY <2>1, <3>1, FetchElsewhere DEF ForecastStep
    <2>4. QED BY <2>2, <2>3
  <1>5. ASSUME NEW c \in Call, TryNext(c)
        PROVE  ForecastStep
    <2>1. c \in running.calls /\ pending[c] \in Pending /\ pending[c].rest # <<>>
      BY <1>5 DEF TryNext, HoldsEach, HttpTypeOK
    <2>2. pending[c].dest = "art" /\ pending[c].dest \in Dest
      BY <2>1 DEF Aims, Purpose, Pending
    <2>3. Head(pending[c].rest) \in Url
      BY <2>1, TailTypes DEF Pending
    <2>4. /\ running.calls' \subseteq running.calls
          /\ running'.answer # None => running'.answer = running.answer
      BY <1>5 DEF TryNext, WithoutCall
    <2>5. Fetch(c, Head(pending[c].rest), pending[c].dest)
      BY <1>5 DEF TryNext
    <2>6. QED BY <2>2, <2>3, <2>4, <2>5, FetchElsewhere DEF ForecastStep
  <1>6. ASSUME NEW h \in Handle, NEW ok \in BOOLEAN, Finish(h, ok)
        PROVE  ForecastStep
    <2> DEFINE f == activeByDest["forecast"]
    <2>1. /\ transfers[h] \in Transfer
          /\ \A g \in Handle : g # h => transfers'[g] = transfers[g]
          /\ activeByDest' = [activeByDest EXCEPT ![transfers[h].dest] = None]
          /\ running'.calls = transfers[h].callbacks
          /\ running'.answer = IF ok THEN transfers[h].url ELSE None
      BY <1>6 DEF Finish, HttpTypeOK
    <2>2. transfers[h].dest \in Dest /\ activeByDest[transfers[h].dest] = h
      BY <1>6, <2>1 DEF Finish, OneWriter, Active, Transfer
    <2>3. ASSUME activeByDest'["forecast"] # None
          PROVE  /\ activeByDest'["forecast"] = f /\ transfers'[f] = transfers[f]
      <3>1. transfers[h].dest # "forecast" /\ activeByDest'["forecast"] = f
        BY <2>1, <2>2, <2>3 DEF HttpTypeOK
      <3>2. f \in Handle /\ f # h
        BY <2>1, <2>3, <3>1 DEF OneWriter, Active
      <3>3. QED BY <2>1, <3>1, <3>2
    <2>4. ASSUME NEW x \in WeatherCall, x \in Outstanding, x \in running'.calls, running'.answer # None
          PROVE  f # None /\ running'.answer = transfers[f].url
      <3>1. In(x, h) /\ x \in Call
        BY <1>6, <2>1, <2>4 DEF In, Finish
      <3>2. transfers[h].dest = "forecast"
        BY <2>4, <3>1 DEF Aims, Purpose, Outstanding
      <3>3. f = h
        BY <2>2, <3>2
      <3>4. QED BY <2>1, <2>4, <3>3
    <2>5. QED BY <2>3, <2>4 DEF ForecastStep, In
  <1>7. CASE UNCHANGED httpVars
    BY <1>1, <1>7 DEF httpVars
  <1>8. QED BY <1>2, <1>3, <1>4, <1>5, <1>6, <1>7 DEF Dispatch

\* While the weather waits for the same call, what is under way stays in sight and
\* for the current place, or a new request is queued.
LEMMA SightKept ==
    ASSUME HttpTypeOK, Services, ForecastInSight, ForecastForPlace, ForecastStep,
           weather'.enabled = weather.enabled,
           weather'.fetching = weather.fetching,
           weather'.awaits = weather.awaits,
           weather'.queued \/ (weather'.queued = weather.queued /\ weather'.place = weather.place)
    PROVE  ForecastInSight' /\ ForecastForPlace'
  <1>1. weather.fetching => weather.awaits \in WeatherCall /\ weather.awaits \in Outstanding
    BY AwaitedCalls DEF Services, WeatherWaits
  <1>2. ForecastInSight'
    BY <1>1 DEF ForecastInSight, ForecastStep
  <1>3. ForecastForPlace'
    BY <1>1 DEF ForecastForPlace, ForecastStep
  <1>4. QED BY <1>2, <1>3

\* Without a request there is nothing to see.
LEMMA NoSight ==
    ASSUME ~weather'.fetching, activeByDest'["forecast"] = None \/ ~weather'.enabled
    PROVE  ForecastInSight' /\ ForecastForPlace'
  BY DEF ForecastInSight, ForecastForPlace

\* The weather itself, in a step that keeps its request open: what is wrong is
\* pursued as before, or a request is queued.
LEMMA PursuedOn ==
    ASSUME WrongForecastPursued,
           \/ weather'.queued \/ weather'.fetching \/ weather'.due # "refresh"
           \/ weather'.place = None
           \/ weather'.snapshot = None
           \/ /\ weather'.enabled = weather.enabled
              /\ weather'.place = weather.place
              /\ weather'.snapshot = weather.snapshot
              /\ weather'.queued = weather.queued
              /\ weather'.fetching = weather.fetching
              /\ weather'.due = weather.due
    PROVE  WrongForecastPursued'
  BY DEF WrongForecastPursued, WrongForecast

\* What the publication of a place leaves of a wrong forecast.
LEMMA SetLocationPursues ==
    ASSUME NEW w \in Weather, NEW p \in Place \cup {None}
    PROVE  LET v == SetLocation(w, p) IN
           /\ p # None => v.fetching = w.fetching /\ v.awaits = w.awaits /\ v.enabled = w.enabled
           /\ p = w.place /\ p # None => v = w
           /\ p # w.place /\ p # None => v.queued
           /\ p = None => v.place = None
  BY Places DEF SetLocation, Cleared, Requested, Weather

\* A new place is handed to the weather: a lost position is none that a running
\* transfer is for.
LEMMA PushPursues ==
    ASSUME HttpTypeOK, Services, ForecastInSight, ForecastForPlace, ForecastStep, WrongForecastPursued,
           NEW p \in Place \cup {None}, weather' = SetLocation(weather, p),
           p = None => activeByDest["forecast"] = None \/ weather.place = None
    PROVE  ForecastInSight' /\ ForecastForPlace' /\ WrongForecastPursued'
  <1>1. weather \in Weather
    BY DEF Services
  <1>2. CASE p # None
    <2>1. /\ weather'.fetching = weather.fetching /\ weather'.awaits = weather.awaits
          /\ weather'.enabled = weather.enabled
          /\ weather'.queued \/ weather' = weather
      BY <1>1, <1>2, SetLocationPursues
    <2>2. QED BY <2>1, SightKept, PursuedOn
  <1>3. CASE p = None
    <2>1. weather'.place = None /\ weather'.enabled = weather.enabled
      BY <1>1, <1>3, SetLocationPursues, WeatherRequestKept
    <2>2. weather.fetching => weather.place # None
      BY DEF Services, WeatherWaits
    <2>3. weather.enabled /\ activeByDest["forecast"] # None => weather.fetching
      BY DEF ForecastInSight
    <2>4. activeByDest["forecast"] = None \/ ~weather.enabled
      BY <1>3, <2>2, <2>3
    <2>5. activeByDest'["forecast"] = None \/ ~weather'.enabled
      BY <2>1, <2>4 DEF ForecastStep
    <2>6. ~weather'.fetching
      <3>1. CASE weather.place # None \/ weather.snapshot # None
        BY <1>1, <1>3, <3>1 DEF SetLocation, Cleared, Weather
      <3>2. CASE weather.place = None /\ weather.snapshot = None
        <4>1. weather' = weather
          BY <1>3, <3>2 DEF SetLocation
        <4>2. QED BY <2>2, <3>2, <4>1
      <3>3. QED BY <3>1, <3>2
    <2>7. QED BY <2>1, <2>5, <2>6, NoSight, PursuedOn
  <1>4. QED BY <1>2, <1>3

\* The first forecast is requested at once, whatever the caches held.
LEMMA InitializedQueued ==
    ASSUME NEW cf \in Section, NEW on \in BOOLEAN,
           locationCache \in CachedLocation \cup {None},
           weatherCache \in Snapshot \cup {None}
    PROVE  LET w == Initialized(cf, on).weather IN w.queued \/ w.place = None
  <1> DEFINE l == Initialized(cf, on).loc
             w == Requested(LoadWeather(NewWeather(on), "now"))
  <1>1. NewWeather(on) \in Weather
    BY DEF NewWeather, Weather, Due
  <1>2. LoadWeather(NewWeather(on), "now") \in Weather
    BY <1>1, LoadWeatherTypes DEF Due
  <1>3. w \in Weather /\ w.queued = TRUE
    BY <1>2, WeatherTypes DEF Requested, Weather
  <1>4. l \in Location /\ Published(cf, l) \in Place \cup {None}
    BY InitializedTypes, PublishedTypes
  <1>5. Initialized(cf, on).weather = SetLocation(w, Published(cf, l))
    BY DEF Initialized
  <1> HIDE DEF w, l
  <1>6. QED BY <1>3, <1>4, <1>5, SetLocationPursues

\* Every step keeps the pursuit.
LEMMA PursuitKept ==
    ASSUME Paced, Basics, Pursuit, [Next]_vars
    PROVE  Pursuit'
  <1> USE DEF Basics
  <1>1. Unresolved' /\ NoLostPlace'
    BY UnresolvedKept, NoLostKept DEF Pursuit
  <1>2. /\ config \in Section /\ loc \in Location /\ weather \in Weather
        /\ ForecastInSight /\ ForecastForPlace /\ WrongForecastPursued /\ Unresolved /\ NoLostPlace
    BY Places DEF Services, Pursuit
  <1> DEFINE Goal == ForecastInSight' /\ ForecastForPlace' /\ WrongForecastPursued'
  <1> SUFFICES Goal
    BY <1>1 DEF Pursuit
  <1>3. ASSUME ForecastStep, weather' = weather PROVE Goal
    BY <1>2, <1>3, SightKept, PursuedOn
  <1>4. UNCHANGED httpVars => ForecastStep
    BY ForecastSteps
  <1>5. \A c \in Call : Answer(c) => ForecastStep
    BY ForecastSteps
  <1>6. CASE Dispatch \/ UNCHANGED vars
    BY <1>3, <1>6, ForecastSteps DEF Dispatch, vars
  <1>7. CASE OtherAsks
    <2>1. PICK c \in Call : Download(c, OtherUrls, "art")
      BY <1>7 DEF OtherAsks
    <2>2. ForecastStep
      BY <2>1, ForecastSteps
    <2>3. QED BY <1>3, <1>7, <2>2 DEF OtherAsks
  <1>8. ASSUME NEW c \in Call, LocationAnswered(c)
        PROVE  Goal
    <2>1. ForecastStep /\ config' = config
      BY <1>5, <1>8 DEF LocationAnswered
    <2>2. CASE weather' = weather
      BY <1>3, <2>1, <2>2
    <2>3. CASE loc.awaits = c /\ loc' = LocationRetries /\ PushLocation(config, loc')
      <3>1. loc' \in Location /\ loc'.place = loc.place
        BY <1>2, <2>3 DEF LocationRetries, Location
      <3>2. Published(config, loc') = Published(config, loc)
        BY <3>1, PublishedPlace
      <3>3. Published(config, loc') \in Place \cup {None}
        BY <1>2, <3>1, PublishedTypes
      <3>4. Published(config, loc') = None => weather.place = None
        BY <1>2, <3>2 DEF NoLostPlace
      <3>5. QED BY <1>2, <2>1, <2>3, <3>3, <3>4, PushPursues DEF PushLocation
    <2>4. CASE running.answer # None /\ loc' = Resolved(c, running.answer) /\ PushLocation(config, loc')
      <3>1. running.answer \in Place
        BY <1>8, <2>4, AnswerIsPlace DEF LocationAnswered
      <3>2. loc'.place = running.answer
        BY <1>2, <2>4 DEF Resolved, Location
      <3>3. Published(config, loc') = running.answer
        BY <3>1, <3>2, Places DEF Published
      <3>4. weather' = SetLocation(weather, running.answer)
        BY <2>4, <3>3 DEF PushLocation
      <3>5. QED BY <1>2, <2>1, <2>4, <3>1, <3>4, PushPursues
    <2>5. QED BY <1>8, <2>2, <2>3, <2>4 DEF LocationAnswered
  <1>9. ASSUME NEW c \in Call, WeatherAnswered(c)
        PROVE  Goal
    <2>1. Answer(c) /\ c \in WeatherCall /\ ForecastStep
      BY <1>5, <1>9 DEF WeatherAnswered
    <2>2. CASE weather' = weather
      BY <1>3, <2>1, <2>2
    <2>3. ASSUME weather.awaits = c, ~weather'.fetching
          PROVE  ForecastInSight' /\ ForecastForPlace'
      <3>1. c \in running.calls /\ \A h \in Handle : ~In(c, h)
        BY <2>1, HeldOnceIsHoldsEach DEF Answer, DownloadsShared, HoldsEach
      <3>2. activeByDest["forecast"] \in Handle \cup {None}
        BY DEF HttpTypeOK
      <3>3. weather.enabled => activeByDest["forecast"] = None
        BY <1>2, <2>3, <3>1, <3>2 DEF ForecastInSight
      <3>4. activeByDest' = activeByDest /\ weather.enabled
        BY <2>1, <2>3 DEF Answer, Services, WeatherWaits
      <3>5. QED BY <2>3, <3>3, <3>4, NoSight
    <2>4. CASE weather.awaits = c /\ weather' = WeatherRetries
      <3>1. ~weather'.fetching /\ weather'.due = "retry"
        BY <1>2, <2>4 DEF WeatherRetries, Weather
      <3>2. QED BY <1>2, <2>3, <2>4, <3>1, PursuedOn
    <2>5. CASE /\ weather.awaits = c /\ weather.enabled
               /\ running.answer # None /\ weather' = Forecast(c)
      <3>1. weather.place \in Place /\ weather.fetching /\ c \in running.calls
        BY <1>2, <2>1, <2>5 DEF Services, WeatherWaits, Weather, Answer
      <3>2. [label |-> weather.place, own |-> running.answer = weather.place] \in Snapshot
        BY <3>1 DEF Snapshot
      <3>3. /\ ~weather'.fetching
            /\ weather'.queued = weather.queued
            /\ weather'.place = weather.place
            /\ weather'.snapshot.label = weather.place
            /\ weather'.snapshot.own = (running.answer = weather.place)
        BY <1>2, <2>5, <3>2 DEF Forecast, Weather
      <3>4. ~weather.queued => running.answer = weather.place
        BY <1>2, <2>5, <3>1 DEF ForecastForPlace
      <3>5. WrongForecastPursued'
        BY <3>3, <3>4 DEF WrongForecastPursued, WrongForecast
      <3>6. QED BY <2>3, <2>5, <3>3, <3>5
    <2>6. QED BY <1>9, <2>2, <2>4, <2>5 DEF WeatherAnswered
  <1>10. ASSUME NEW c \in Call, OtherAnswered(c)
         PROVE  Goal
    BY <1>3, <1>5, <1>10 DEF OtherAnswered
  <1>11. CASE LocationTick
    <2>1. CASE UNCHANGED httpVars
      <3>1. weather' = weather
        BY <1>2, <1>11, <2>1 DEF LocationTick, Unresolved, Ask
      <3>2. QED BY <1>3, <1>4, <2>1, <3>1
    <2>2. ASSUME NEW k, NEW u \in Url, NEW d \in Dest \ {"forecast"}, Ask(k, u, d)
          PROVE  Goal
      <3>1. PICK c \in Call : Download(c, <<u>>, d) /\ weather' = weather
        BY <2>2 DEF Ask
      <3>2. <<u>> \in Seq(Url)
        OBVIOUS
      <3>3. QED BY <1>3, <3>1, <3>2, ForecastSteps
    <2>3. CASE config.auto /\ Ask("Geolocate", Here, "geolocate")
      <3>1. Here \in Url /\ "geolocate" \in Dest \ {"forecast"}
        BY Places
      <3>2. QED BY <2>2, <2>3, <3>1
    <2>4. CASE NetworkResolution(config) /\ ~config.auto /\ Ask("Geocode", config.address, "geocode")
      <3>1. config.address \in Url /\ "geocode" \in Dest \ {"forecast"}
        BY <1>2, <2>4, Places DEF NetworkResolution, Section
      <3>2. QED BY <2>2, <2>4, <3>1
    <2>5. QED BY <1>11, <2>1, <2>3, <2>4 DEF LocationTick
  <1>12. CASE WeatherTick
    <2>1. /\ weather.enabled /\ ~weather.fetching /\ activeByDest["forecast"] = None
          /\ running.calls = {}
      BY <1>2, <1>12 DEF WeatherTick, ForecastInSight, AtRest
    <2> DEFINE v == IF weather.snapshot # None THEN Cleared(weather) ELSE weather
    <2>2. CASE UNCHANGED httpVars /\ weather.place = None /\ weather' = [v EXCEPT !.queued = FALSE]
      <3>1. v \in Weather /\ v.fetching = FALSE /\ v.place = None
        <4>1. /\ Cleared(weather) \in Weather
              /\ Cleared(weather).fetching = FALSE
              /\ Cleared(weather).place = weather.place
          BY <1>2, WeatherTypes DEF Cleared, Weather
        <4>2. weather.fetching = FALSE
          BY <1>2, <2>1 DEF Weather
        <4>3. QED BY <1>2, <2>2, <4>1, <4>2
      <3> HIDE DEF v
      <3>2. weather'.fetching = FALSE /\ weather'.place = None
        BY <2>2, <3>1 DEF Weather
      <3>3. activeByDest'["forecast"] = None
        BY <2>1, <2>2 DEF httpVars
      <3>4. QED BY <1>2, <3>2, <3>3, NoSight, PursuedOn
    <2>3. ASSUME weather.place # None, NEW c \in WeatherCall,
                 Download(c, <<weather.place>>, "forecast"),
                 weather' = [weather EXCEPT !.queued = FALSE, !.fetching = TRUE, !.awaits = c]
          PROVE  Goal
      <3>1. weather.place \in Url /\ c \in Call /\ "forecast" \in Dest
        BY <1>2, <2>3, Places DEF Weather
      <3>2. \A u \in Url : <<u>> # <<>> /\ Head(<<u>>) = u
        OBVIOUS
      <3>3. Fetch(c, weather.place, "forecast") /\ running' = running
        BY <2>3, <3>1, <3>2 DEF Download
      <3>4. weather'.fetching = TRUE /\ weather'.awaits = c /\ weather'.place = weather.place
        BY <1>2, <2>3 DEF Weather
      <3>5. activeByDest'["forecast"] # None
              => /\ transfers'[activeByDest'["forecast"]] # None
                 /\ transfers'[activeByDest'["forecast"]].url = weather.place
                 /\ transfers'[activeByDest'["forecast"]].callbacks = {c}
        <4>1. ~Join(c, "forecast")
          BY <2>1 DEF Join, Joins
        <4>2. CASE Start(c, weather.place, "forecast")
          <5>1. PICK h \in Handle \ Active :
                  /\ transfers' = [transfers EXCEPT ![h] = [dest |-> "forecast", url |-> weather.place,
                                                            callbacks |-> {c}]]
                  /\ activeByDest' = [activeByDest EXCEPT !["forecast"] = h]
            BY <4>2 DEF Start
          <5>2. /\ activeByDest'["forecast"] = h
                /\ transfers'[h] = [dest |-> "forecast", url |-> weather.place, callbacks |-> {c}]
            BY <3>1, <5>1 DEF HttpTypeOK
          <5>3. [dest |-> "forecast", url |-> weather.place, callbacks |-> {c}] \in Transfer
            BY <3>1 DEF Transfer
          <5>4. transfers'[h] # None
            BY <5>2, <5>3
          <5>5. transfers'[h].url = weather.place /\ transfers'[h].callbacks = {c}
            BY <5>2
          <5>6. QED BY <5>2, <5>4, <5>5
        <4>3. CASE activeByDest' = activeByDest
          BY <2>1, <4>3
        <4>4. CASE activeByDest' = [activeByDest EXCEPT !["forecast"] = None]
          <5>1. activeByDest'["forecast"] = None
            BY <3>1, <4>4 DEF HttpTypeOK
          <5>2. QED BY <5>1
        <4>5. QED BY <3>3, <4>1, <4>2, <4>3, <4>4 DEF Fetch
      <3>6. ForecastInSight'
        BY <3>4, <3>5 DEF ForecastInSight, In
      <3>7. ForecastForPlace'
        BY <2>1, <3>3, <3>4, <3>5 DEF ForecastForPlace
      <3>8. QED BY <1>2, <3>4, <3>6, <3>7, PursuedOn
    <2>4. QED BY <1>12, <2>2, <2>3 DEF WeatherTick
  <1>13. ASSUME NEW cf \in Settings, ChangeLocationSettings(cf)
         PROVE  Goal
    <2>1. activeByDest["forecast"] = None /\ ForecastStep
      BY <1>4, <1>13 DEF ChangeLocationSettings, NothingAwaited
    <2>2. CASE PushLocation(cf, loc')
      <3>1. Published(cf, loc') \in Place \cup {None}
        <4>1. loc' \in Location
          BY BasicsKept DEF Services
        <4>2. QED BY <4>1, PublishedTypes, Places
      <3>2. QED BY <1>2, <2>1, <2>2, <3>1, PushPursues DEF PushLocation
    <2>3. CASE weather' = weather
      BY <1>3, <2>1, <2>3
    <2>4. QED BY <1>13, <2>2, <2>3 DEF ChangeLocationSettings
  <1>14. CASE weather' = Requested(weather) /\ UNCHANGED httpVars
    <2>1. /\ weather'.queued
          /\ weather'.enabled = weather.enabled
          /\ weather'.fetching = weather.fetching
          /\ weather'.awaits = weather.awaits
      BY <1>2, <1>14 DEF Requested, Weather
    <2>2. QED BY <1>2, <1>4, <1>14, <2>1, SightKept, PursuedOn
  <1>15. ASSUME UNCHANGED httpVars, NEW due \in Due, weather' = [weather EXCEPT !.due = due],
                due # "refresh" \/ ~WrongForecast
         PROVE  Goal
    <2>1. /\ weather'.queued = weather.queued
          /\ weather'.enabled = weather.enabled
          /\ weather'.fetching = weather.fetching
          /\ weather'.awaits = weather.awaits
          /\ weather'.place = weather.place
          /\ weather'.snapshot = weather.snapshot
          /\ weather'.due = due
      BY <1>2, <1>15 DEF Weather
    <2>2. WrongForecastPursued'
      BY <1>15, <2>1 DEF WrongForecastPursued, WrongForecast
    <2>3. QED BY <1>2, <1>4, <1>15, <2>1, <2>2, SightKept
  <1>16. CASE ChangeWeatherSettings
    <2>1. UNCHANGED httpVars
      BY <1>16 DEF ChangeWeatherSettings
    <2>2. CASE DisableWeather
      <3>1. [weather EXCEPT !.enabled = FALSE] \in Weather
        BY <1>2 DEF Weather
      <3>2. weather'.fetching = FALSE /\ weather'.enabled = FALSE /\ weather'.snapshot = None
        BY <1>2, <2>2, <3>1 DEF DisableWeather, Cleared, Weather
      <3>3. QED BY <1>2, <3>2, NoSight, PursuedOn
    <2>3. CASE EnableWeather
      <3> DEFINE w == [weather EXCEPT !.enabled = TRUE]
      <3>1. PICK due \in Due : weather' = Requested(LoadWeather(w, due))
        BY <2>3 DEF EnableWeather, Due
      <3>2. w \in Weather
        BY <1>2 DEF Weather
      <3> HIDE DEF w
      <3>3. LoadWeather(w, due) \in Weather
        BY <3>2, LoadWeatherTypes DEF Services
      <3>4. LoadWeather(w, due).fetching = FALSE
        BY <3>2 DEF LoadWeather, Cleared, Weather
      <3>5. weather'.fetching = FALSE /\ weather'.queued = TRUE
        BY <3>1, <3>3, <3>4 DEF Requested, Weather
      <3>6. activeByDest'["forecast"] = None
        BY <2>1, <2>3 DEF EnableWeather, NothingAwaited, httpVars
      <3>7. QED BY <1>2, <3>5, <3>6, NoSight, PursuedOn
    <2>4. CASE OtherWeatherSettings
      <3>1. CASE weather' = Requested(weather)
        BY <1>14, <2>1, <3>1
      <3>2. CASE \E due \in {"now", "refresh"} : weather' = [weather EXCEPT !.due = due]
        BY <1>15, <2>1, <2>4, <3>2 DEF Due, OtherWeatherSettings
      <3>3. QED BY <2>4, <3>1, <3>2 DEF OtherWeatherSettings
    <2>5. QED BY <1>16, <2>2, <2>3, <2>4 DEF ChangeWeatherSettings
  <1>17. CASE Resume
    BY <1>14, <1>17 DEF Resume
  <1>18. CASE LocationDeadline
    BY <1>3, <1>4, <1>18 DEF LocationDeadline
  <1>19. CASE WeatherDeadline
    BY <1>15, <1>19 DEF WeatherDeadline, Due
  <1>20. CASE Restart
    <2>1. /\ weather' = Initialized(config, weather.enabled).weather /\ weather.enabled \in BOOLEAN
          /\ locationCache \in CachedLocation \cup {None} /\ weatherCache \in Snapshot \cup {None}
      BY <1>2, <1>20 DEF Restart, Services, Weather
    <2>2. weather'.queued \/ weather'.place = None
      BY <1>2, <2>1, InitializedQueued
    <2>3. ~weather'.fetching
      BY <1>2, <2>1, InitializedWaits
    <2>4. activeByDest'["forecast"] = None
      BY <1>20 DEF Restart
    <2>5. QED BY <1>2, <2>2, <2>3, <2>4, NoSight, PursuedOn
  <1>21. QED BY <1>1, <1>6, <1>7, <1>8, <1>9, <1>10, <1>11, <1>12, <1>13, <1>16, <1>17, <1>18, <1>19, <1>20 DEF Next, Answered

\* The start has no transfer, and its first request is queued.
LEMMA PursuitInitially == Init => Pursuit
  <1> SUFFICES ASSUME Init PROVE Pursuit
    OBVIOUS
  <1>1. PICK on \in BOOLEAN : /\ loc = Initialized(config, on).loc
                              /\ weather = Initialized(config, on).weather
    BY DEF Init
  <1>2. config \in Section /\ locationCache = None /\ weatherCache = None
    BY Places DEF Init
  <1>3. loc.place = None /\ loc.awaits = None /\ ~weather.fetching
    BY <1>1, <1>2, InitializedLocation, InitializedWaits
  <1>4. weather.queued \/ weather.place = None
    BY <1>1, <1>2, InitializedQueued
  <1>5. activeByDest["forecast"] = None
    BY DEF Init, HttpInit
  <1>6. NoLostPlace
    BY FollowInitially DEF NoLostPlace, WeatherAtLocation
  <1>7. QED BY <1>2, <1>3, <1>4, <1>5, <1>6
          DEF Pursuit, Unresolved, ForecastInSight, ForecastForPlace, WrongForecastPursued

\* A forecast for another place than the current one is about to be replaced, for
\* any number of places and calls, through shared transfers and late answers.
THEOREM WrongForecastsEnd == Paced /\ Spec => []WrongForecastPursued
  <1>1. CASE Paced
    <2>1. Basics /\ Pursuit /\ [Next]_vars => Pursuit'
      BY <1>1, PursuitKept
    <2>2. Spec => []Pursuit
      BY <2>1, PursuitInitially, BasicsAlways, PTL DEF Spec
    <2>3. Pursuit => WrongForecastPursued
      BY DEF Pursuit
    <2>4. QED BY <2>2, <2>3, PTL
  <1>2. QED BY <1>1
=============================================================================
