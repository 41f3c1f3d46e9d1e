--------------------------- MODULE MCLocationWeather ---------------------------
(* Instances of LocationWeather for TLC.                                   *)
EXTENDS LocationWeather, TLC

Files == {"geolocate", "geocode", "forecast", "art"}
Places == Place \cup {"cover", "thumbnail"}
Covers == <<"cover", "thumbnail">>
Calls == LocationCall \cup WeatherCall \cup OtherCall

At(a) == [auto |-> FALSE, address |-> a, manual |-> FALSE]
Automatic == [auto |-> TRUE, address |-> None, manual |-> FALSE]
Coordinates == [auto |-> FALSE, address |-> None, manual |-> TRUE]
Off == [auto |-> FALSE, address |-> None, manual |-> FALSE]

AllSettings == {At(a) : a \in Address} \cup {Automatic, Coordinates, Off}

\* Handles, the calls of one service and the addresses only differ by name.
Interchangeable == Permutations(Handle) \cup Permutations(LocationCall) \cup Permutations(Address)
=============================================================================
