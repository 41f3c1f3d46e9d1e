SPECIFICATION Spec
CONSTANTS
  None = None
  Dest <- Files
  Url <- Places
  Call <- Calls
  Handle = {h1, h2}
  Address = {oslo, rome}
  Here = "here"
  Manual = "manual"
  Settings <- AllSettings
  LocationCall = {l1, l2}
  WeatherCall = {w1}
  OtherCall = {o1}
  OtherUrls <- Covers
  Paced = TRUE
SYMMETRY Interchangeable
INVARIANTS DownloadsShared RequestAwaited LocationOfItsAddress WrongForecastPursued
PROPERTY WeatherFollowsLocation
CHECK_DEADLOCK FALSE
