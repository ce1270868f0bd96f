---------------------------- MODULE MCHoldBooking ----------------------------
(* Small instances of HoldBooking for TLC. *)
EXTENDS HoldBooking, TLC

CONSTANTS w1, w2, w3, h1, h2, x1, r1, r2, r3

TwoNights == {1, 2}

\* Both stays overlap on every night; one asks for one room, the other for two.
FullStays == (h1 :> {1, 2}) @@ (h2 :> {1, 2})
OneStay == h1 :> {1, 2}
OneStayRooms == h1 :> 1
TwoRooms == (h1 :> 1) @@ (h2 :> 2)

\* A booking is imported, moved to the other night, and cancelled; insertedAt of
\* the second and third revisions is the same instant.
RevBooking == (r1 :> x1) @@ (r2 :> x1) @@ (r3 :> x1)
RevAt == (r1 :> 1) @@ (r2 :> 2) @@ (r3 :> 2)
RevWants == (r1 :> (1 :> 1 @@ 2 :> 1)) @@ (r2 :> (1 :> 0 @@ 2 :> 1))
            @@ (r3 :> (1 :> 0 @@ 2 :> 0))
RevCancels == (r1 :> FALSE) @@ (r2 :> FALSE) @@ (r3 :> TRUE)

NoFunction == [r \in {} |-> 0]

WorkerSymmetry == Permutations(Workers)
=============================================================================
