\* A hold is released on PostgreSQL, by processes that are served.
SPECIFICATION FairSpec
CONSTANTS
  w1 = w1  w2 = w2  w3 = w3
  h1 = h1  h2 = h2
  x1 = x1
  r1 = r1  r2 = r2  r3 = r3
  NoHold = NoHold  NoRevision = NoRevision  NoDate = NoDate
  Workers = {w1, w2}
  Holds = {h1}
  Dates <- TwoNights
  Nights <- OneStay
  Rooms <- OneStayRooms
  OtaBookings = {}
  Revisions = {}
  BookingOf <- NoFunction
  At <- NoFunction
  Wants <- NoFunction
  Cancels <- NoFunction
  Capacities = {1, 3}
  Blocks = {0, 1}
  ScalarMax = FALSE
  Crashes = FALSE
PROPERTIES
  ReleaseDeletesLocks
CHECK_DEADLOCK FALSE
