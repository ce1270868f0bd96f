\* Three processes, two competing stays on two nights, every request kind but OTA, on a
\* database that has the two-argument max() releaseHold calls.
SPECIFICATION Spec
CONSTANTS
  w1 = w1  w2 = w2  w3 = w3
  h1 = h1  h2 = h2
  x1 = x1
  r1 = r1  r2 = r2  r3 = r3
  NoHold = NoHold  NoRevision = NoRevision  NoDate = NoDate
  Workers = {w1, w2, w3}
  Holds = {h1, h2}
  Dates <- TwoNights
  Nights <- FullStays
  Rooms <- TwoRooms
  OtaBookings = {}
  Revisions = {}
  BookingOf <- NoFunction
  At <- NoFunction
  Wants <- NoFunction
  Cancels <- NoFunction
  Capacities = {1, 3}
  Blocks = {0, 1}
  ScalarMax = TRUE
  Crashes = TRUE
INVARIANTS
  TypeOK BookingKeepsStock OneBookingPerHold HoldsNeverDeadlock
PROPERTIES
  NoResurrection CancelledIsFinal
SYMMETRY WorkerSymmetry
CHECK_DEADLOCK FALSE
