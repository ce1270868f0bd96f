---------------------------- MODULE MCBookingFeed ----------------------------
(* Small instances of BookingFeed for TLC. *)
EXTENDS BookingFeed, TLC

CONSTANTS w1, w2, b1, b2, r1, r2, r3, r4

ThreeNights == 1 .. 3

\* A stay of night 1 moves to night 3 and is cancelled; another booking takes night 2.
OfB1 == {r1, r2, r3}
FeedBooking == [r \in Revisions |-> IF r \in OfB1 THEN b1 ELSE b2]
FeedAt == [r \in Revisions |-> CASE r = r1 -> 1 [] r = r2 -> 2 [] r = r4 -> 3 [] OTHER -> 4]
FeedCheckIn == [r \in Revisions |-> CASE r = r1 -> 1 [] r = r4 -> 2 [] OTHER -> 3]
FeedCheckOut == [r \in Revisions |-> FeedCheckIn[r] + 1]
FeedCancels == [r \in Revisions |-> r = r3]
=============================================================================
