SPECIFICATION Spec
CONSTANTS
  None = None
  Dest <- Files
  Url <- Places
  Call <- Calls
  Handle = {h1, h2}
  Address = {oslo, rome}
  Here = "here"
  Manual = "manual"
  Settings <- AllSettings
  LocationCall = {l1, l2}
  WeatherCall = {w1}
  OtherCall = {}
  OtherUrls <- Covers
  Paced = FALSE
SYMMETRY Interchangeable
INVARIANT RestsOnlyAtItsAddress
CHECK_DEADLOCK FALSE
