\* One stay competing with the revisions of an imported booking, on processes that do not die.
SPECIFICATION FairSpec
CONSTANTS
  w1 = w1  w2 = w2  w3 = w3
  h1 = h1  h2 = h2
  x1 = x1
  r1 = r1  r2 = r2  r3 = r3
  NoHold = NoHold  NoRevision = NoRevision  NoDate = NoDate
  Workers = {w1, w2}
  Holds = {h1}
  Dates <- TwoNights
  Nights <- OneStay
  Rooms <- OneStayRooms
  OtaBookings = {x1}
  Revisions = {r1, r2, r3}
  BookingOf <- RevBooking
  At <- RevAt
  Wants <- RevWants
  Cancels <- RevCancels
  Capacities = {1, 2}
  Blocks = {0, 1}
  ScalarMax = FALSE
  Crashes = FALSE
INVARIANTS
  NoOverbooking DailyInventoryCheck ReservedLedger
PROPERTIES
  RevisionsAdvance RequestsEnd
CHECK_DEADLOCK FALSE
