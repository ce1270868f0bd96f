\* Two overlapping runs read a feed with an import, a move and a cancellation.
SPECIFICATION FairSpec
CONSTANTS
  w1 = w1  w2 = w2  b1 = b1  b2 = b2  r1 = r1  r2 = r2  r3 = r3  r4 = r4
  NoRevision = NoRevision
  Workers = {w1, w2}
  Bookings = {b1}
  Revisions = {r1, r2, r3}
  AckOutcomes = {"accepted", "unanswered", "refused", "rejected"}
  MaxDeaths = 1
  BookingOf <- FeedBooking
  At <- FeedAt
  CheckIn <- FeedCheckIn
  CheckOut <- FeedCheckOut
  Cancels <- FeedCancels
  Nights <- ThreeNights
INVARIANTS
  NoNightForgotten
PROPERTIES
  ImplementsImport ResolvedOnlyAcked EveryRevisionAnswered
CHECK_DEADLOCK FALSE
