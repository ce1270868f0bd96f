\* One run at a time, no death: only a recomputation that fails once.
SPECIFICATION Spec
CONSTANTS
  w1 = w1  w2 = w2  b1 = b1  b2 = b2  r1 = r1  r2 = r2  r3 = r3  r4 = r4
  NoRevision = NoRevision
  Workers = {w1}
  Bookings = {b1, b2}
  Revisions = {r1, r2, r4}
  AckOutcomes = {"accepted", "unanswered", "refused", "rejected"}
  MaxDeaths = 0
  BookingOf <- FeedBooking
  At <- FeedAt
  CheckIn <- FeedCheckIn
  CheckOut <- FeedCheckOut
  Cancels <- FeedCancels
  Nights <- ThreeNights
INVARIANTS
  AvailabilityFollows
CHECK_DEADLOCK FALSE
