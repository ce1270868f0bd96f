-------------------------- MODULE HoldBookingProofs --------------------------
(***************************************************************************)
(* Proofs about HoldBooking, for every set of workers, nights, holds,      *)
(* imported bookings and revisions that satisfies DataAssumption.          *)
(*                                                                         *)
(* Base is inductive whatever the database makes of releaseHold: it says   *)
(* what an open transaction has checked and locked, and that two open      *)
(* transactions never have locked the same row, key or advisory lock.  On  *)
(* PostgreSQL (~ScalarMax) it carries ReservedLedger, from which the stock *)
(* properties follow by counting.                                          *)
(***************************************************************************)
EXTENDS HoldBooking, FiniteSetTheorems, TLAPS

\* What a request record guarantees by itself.
Local(r) ==
  /\ r.op = "idle" => r = Idle
  /\ r.step = "insert" => r.op = "hold" /\ r.hold \in Holds /\ r.wrote = {}
  /\ r.step \in {"check", "update"} =>
       /\ r.op = "hold" /\ r.hold \in Holds /\ r.hold \notin holdRows
       /\ r.todo \cup r.wrote = Nights[r.hold]
       /\ \A d \in r.wrote : reserved[d] + Rooms[r.hold] <= total[d]
  /\ r.step = "update" => r.next \in r.todo
  /\ r.step = "decrement" =>
       /\ r.op = "release" /\ r.hold \in Holds
       /\ r.todo # {} => r.next \in r.todo
       /\ ~ScalarMax => r.todo # {} /\ r.wrote = {}
  /\ r.step \in {"consume", "mark", "drop"} =>
       r.op \in {"confirm", "cancel"} /\ r.hold \in holdRows /\ r.wrote = {}
  /\ r.step \in {"mark", "drop"} => bookings[r.hold] > 0
  /\ r.step = "drop" => status[r.hold] = "cancelled"
  /\ r.step = "rows" =>
       /\ r.op = "revision" /\ r.rev \in Revisions
       /\ r.todo # {} => r.next \in r.todo
       /\ r.todo \cup r.wrote = TouchedNights(r.rev)
       /\ \A d \in r.wrote :
            /\ reserved[d] + Desired(r.rev, d) >= ota[BookingOf[r.rev]][d]
            /\ reserved[d] + Desired(r.rev, d) <= total[d] + ota[BookingOf[r.rev]][d]
  /\ r.op = "revision" => r.step = "rows"

\* What two requests served at the same time guarantee of each other.
Apart(q, r) ==
  /\ q.wrote \cap r.wrote = {}
  /\ q.step \in {"check", "update"} /\ r.step \in {"check", "update"} => q.hold # r.hold
  /\ q.op = "revision" /\ r.op = "revision" => BookingOf[q.rev] # BookingOf[r.rev]

Requests ==
  /\ \A w \in Workers : Local(req[w])
  /\ \A v, w \in Workers : v # w => Apart(req[v], req[w])

\* Lock rows and bookings belong to holds that were granted; the stock of a hold
\* is on hold, then booked once, then gone.
Granted == \A h \in Holds :
  /\ h \notin holdRows => lock[h] = "none" /\ bookings[h] = 0
  /\ lock[h] = "held" => bookings[h] = 0
  /\ lock[h] = "booked" => bookings[h] > 0
  /\ bookings[h] <= 1
  /\ bookings[h] = 0 <=> status[h] = "none"
  /\ status[h] = "confirmed" => lock[h] = "booked"

Base == TypeOK /\ Requests /\ DailyInventoryCheck /\ Granted

dataVars == <<total, reserved, ext, holdRows, lock, expired, bookings, status,
              ota, otaRev>>

-----------------------------------------------------------------------------
\* A step that only changes one request keeps Base when the new record does.
LEMMA ServeBase ==
  ASSUME Base, NEW w \in Workers, NEW r \in Request, Serve(w, r),
         UNCHANGED dataVars, Local(r),
         \A v \in Workers \ {w} : Apart(req[v], r)
  PROVE  Base'
<1> USE DEF Base, Serve, dataVars
<1>1. req' \in [Workers -> Request] /\ TypeOK'
  BY DEF TypeOK
<1>2. /\ req'[w] = r
      /\ \A v \in Workers \ {w} : req'[v] = req[v]
  BY DEF TypeOK
<1>3. ASSUME NEW v \in Workers PROVE Local(req[v])'
  <2>1. Local(req'[v])
    BY <1>2 DEF Requests
  <2> QED BY <2>1 DEF Local, TouchedNights, Desired
<1>4. ASSUME NEW u \in Workers, NEW v \in Workers, u # v PROVE Apart(req'[u], req'[v])
  <2>1. \A q \in Request : Apart(q, r) => Apart(r, q)
    BY DEF Apart
  <2>2. req[u] \in Request /\ req[v] \in Request
    BY DEF TypeOK
  <2> QED BY <2>1, <2>2, <1>2, <1>4 DEF Requests
<1>5. Requests'
  BY <1>3, <1>4 DEF Requests, Apart
<1>6. DailyInventoryCheck' /\ Granted'
  BY DEF DailyInventoryCheck, Granted
<1> QED BY <1>1, <1>5, <1>6

\* Every count a transaction reads is a natural number.
LEMMA CountsAreNat ==
  ASSUME Base, NEW d \in Dates
  PROVE  /\ reserved[d] \in Nat /\ total[d] \in Nat /\ ext[d] \in Nat
         /\ \A r \in Revisions : Desired(r, d) \in Nat /\ ota[BookingOf[r]][d] \in Nat
<1> USE DataAssumption
<1>1. reserved[d] \in Nat /\ total[d] \in Nat /\ ext[d] \in Nat
  BY DEF Base, TypeOK
<1>2. ASSUME NEW r \in Revisions
      PROVE  Desired(r, d) \in Nat /\ ota[BookingOf[r]][d] \in Nat
  <2>1. Wants[r] \in [Dates -> Nat] /\ BookingOf[r] \in OtaBookings
    OBVIOUS
  <2> QED BY <2>1 DEF Base, TypeOK, Desired
<1> QED BY <1>1, <1>2

\* Ending a request keeps Base: the empty record locks nothing.
LEMMA FinishBase ==
  ASSUME Base, NEW w \in Workers, Finish(w), UNCHANGED dataVars
  PROVE  Base'
<1>1. Idle \in Request
  BY DEF Idle, Request, Ops, Steps
<1>2. Local(Idle)
  BY DEF Local, Idle
<1>3. \A v \in Workers \ {w} : Apart(req[v], Idle)
  BY DEF Apart, Idle
<1> QED BY <1>1, <1>2, <1>3, ServeBase DEF Finish
-----------------------------------------------------------------------------
(* The steps that change nothing but a request, one lemma per endpoint. *)

LEMMA HoldBase ==
  ASSUME Base, NEW w \in Workers,
         \/ \E h \in Holds : FindActiveHold(w, h)
         \/ InsertHold(w) \/ CheckNight(w) \/ UpdateNight(w)
  PROVE  Base'
<1> USE DataAssumption
<1>0. req[w] \in Request /\ Local(req[w])
      /\ \A v \in Workers \ {w} : req[v] \in Request /\ Apart(req[v], req[w])
  BY DEF Base, TypeOK, Requests
<1>1. CASE \E h \in Holds : FindActiveHold(w, h)
  <2> PICK h \in Holds : FindActiveHold(w, h)
    BY <1>1
  <2> DEFINE r == [Idle EXCEPT !.op = "hold", !.step = "insert", !.hold = h]
  <2>1. r \in Request /\ Local(r)
    BY DEF Request, Idle, Ops, Steps, Local
  <2>2. \A v \in Workers \ {w} : Apart(req[v], r)
    BY DEF Apart, Idle
  <2>3. Serve(w, r) /\ UNCHANGED dataVars
    BY DEF FindActiveHold, dataVars, inventoryVars, bookingVars, otaVars
  <2> QED BY <2>1, <2>2, <2>3, ServeBase
<1>2. CASE InsertHold(w)
  <2> DEFINE h == req[w].hold
             r == [req[w] EXCEPT !.step = "check", !.todo = Nights[h]]
  <2>1. UNCHANGED dataVars
    BY <1>2 DEF InsertHold, dataVars, inventoryVars, bookingVars, otaVars
  <2>2. CASE h \in holdRows
    BY <1>2, <2>1, <2>2, FinishBase DEF InsertHold
  <2>3. CASE h \notin holdRows
    <3>1. h \in Holds /\ req[w].op = "hold" /\ req[w].wrote = {}
      BY <1>0, <1>2 DEF InsertHold, Local
    <3>2. r \in Request /\ Local(r)
      BY <1>0, <2>3, <3>1 DEF Request, Steps, Local
    <3>3. \A v \in Workers \ {w} : Apart(req[v], r)
      BY <1>0, <1>2, <3>1 DEF InsertHold, KeyPending, Apart, Request
    <3>4. Serve(w, r)
      BY <1>2, <2>3 DEF InsertHold
    <3> QED BY <2>1, <3>2, <3>3, <3>4, ServeBase
  <2> QED BY <2>2, <2>3
<1>3. CASE CheckNight(w)
  <2>1. UNCHANGED dataVars
    BY <1>3 DEF CheckNight, dataVars, inventoryVars, bookingVars, otaVars
  <2>2. PICK d \in req[w].todo :
          IF Sellable(d, Rooms[req[w].hold])
            THEN Serve(w, [req[w] EXCEPT !.step = "update", !.next = d])
            ELSE Finish(w)
    BY <1>3 DEF CheckNight
  <2> DEFINE r == [req[w] EXCEPT !.step = "update", !.next = d]
  <2>3. CASE Finish(w)
    BY <2>1, <2>3, FinishBase
  <2>4. CASE Serve(w, r)
    <3>1. r \in Request /\ Local(r)
      BY <1>0, <1>3 DEF CheckNight, Request, Steps, Local
    <3>2. \A v \in Workers \ {w} : Apart(req[v], r)
      BY <1>0, <1>3 DEF CheckNight, Apart, Request
    <3> QED BY <2>1, <2>4, <3>1, <3>2, ServeBase
  <2> QED BY <2>2, <2>3, <2>4
<1>4. CASE UpdateNight(w)
  <2> DEFINE d == req[w].next
             r == [req[w] EXCEPT !.step = "check", !.todo = @ \ {d},
                                 !.next = NoDate, !.wrote = @ \cup {d}]
  <2>1. UNCHANGED dataVars
    BY <1>4 DEF UpdateNight, dataVars, inventoryVars, bookingVars, otaVars
  <2>2. CASE Finish(w)
    BY <2>1, <2>2, FinishBase
  <2>3. CASE Serve(w, r) /\ Increments(d, Rooms[req[w].hold])
    <3>1. d \in Dates /\ d \in req[w].todo /\ req[w].hold \in Holds
      BY <1>0, <1>4 DEF UpdateNight, Local, Request
    <3>2. reserved[d] + Rooms[req[w].hold] <= total[d]
      BY <2>3, <3>1 DEF Increments, Base, TypeOK
    <3>3. r \in Request
      BY <1>0, <3>1 DEF Request, Steps
    <3>4. Local(r)
      BY <1>0, <1>4, <3>1, <3>2 DEF UpdateNight, Request, Local
    <3>5. \A v \in Workers \ {w} : Apart(req[v], r)
      BY <1>0, <1>4 DEF UpdateNight, RowFree, Apart, Request
    <3> QED BY <2>1, <2>3, <3>3, <3>4, <3>5, ServeBase
  <2> QED BY <1>4, <2>2, <2>3 DEF UpdateNight
<1> QED BY <1>1, <1>2, <1>3, <1>4
LEMMA ReleaseConfirmCancelBase ==
  ASSUME Base, NEW w \in Workers,
         \/ \E h \in Holds : ReadHoldLocks(w, h) \/ ReadHold(w, h) \/ LoadBooking(w, h)
         \/ DecrementNight(w)
  PROVE  Base'
<1> USE DataAssumption
<1>0. req[w] \in Request /\ Local(req[w])
      /\ \A v \in Workers \ {w} : req[v] \in Request /\ Apart(req[v], req[w])
  BY DEF Base, TypeOK, Requests
<1>1. ASSUME NEW h \in Holds, ReadHoldLocks(w, h) PROVE Base'
  <2> PICK n \in Nights[h] :
        Serve(w, [Idle EXCEPT !.op = "release", !.step = "decrement", !.hold = h,
                              !.todo = Nights[h], !.next = n])
    BY <1>1 DEF ReadHoldLocks
  <2> DEFINE r == [Idle EXCEPT !.op = "release", !.step = "decrement", !.hold = h,
                               !.todo = Nights[h], !.next = n]
  <2>1. Nights[h] \in SUBSET Dates /\ n \in Dates
    OBVIOUS
  <2>2. r \in Request /\ Local(r)
    BY <2>1 DEF Request, Idle, Ops, Steps, Local
  <2>3. \A v \in Workers \ {w} : Apart(req[v], r)
    BY DEF Apart, Idle
  <2>4. UNCHANGED dataVars
    BY <1>1 DEF ReadHoldLocks, dataVars, inventoryVars, bookingVars, otaVars
  <2> QED BY <2>2, <2>3, <2>4, ServeBase
<1>2. ASSUME NEW h \in Holds, ReadHold(w, h) \/ LoadBooking(w, h) PROVE Base'
  <2>0. h \in holdRows
    <3>1. lock[h] = "held" \/ bookings[h] > 0
      BY <1>2 DEF ReadHold, LoadBooking
    <3>2. h \notin holdRows => lock[h] = "none" /\ bookings[h] = 0
      BY DEF Base, Granted
    <3> QED BY <3>1, <3>2
  <2>1. PICK o \in {"confirm", "cancel"}, s \in {"consume", "mark"} :
          /\ Serve(w, [Idle EXCEPT !.op = o, !.step = s, !.hold = h])
          /\ s = "mark" => bookings[h] > 0
    BY <1>2 DEF ReadHold, LoadBooking
  <2> DEFINE r == [Idle EXCEPT !.op = o, !.step = s, !.hold = h]
  <2>2. r \in Request /\ Local(r)
    BY <2>0, <2>1 DEF Request, Idle, Ops, Steps, Local
  <2>3. \A v \in Workers \ {w} : Apart(req[v], r)
    BY DEF Apart, Idle
  <2>4. UNCHANGED dataVars
    BY <1>2 DEF ReadHold, LoadBooking, dataVars, inventoryVars, bookingVars, otaVars
  <2> QED BY <2>1, <2>2, <2>3, <2>4, ServeBase
<1>3. CASE DecrementNight(w)
  <2>1. UNCHANGED dataVars
    BY <1>3 DEF DecrementNight, dataVars, inventoryVars, bookingVars, otaVars
  <2>2. CASE Finish(w)
    BY <2>1, <2>2, FinishBase
  <2>3. CASE ScalarMax /\ RowFree(req[w].next) /\ Advance(w, req[w].next)
    <3> DEFINE d == req[w].next
               rest == req[w].todo \ {d}
    <3>1. PICK n \in (IF rest = {} THEN {NoDate} ELSE rest) :
            Serve(w, [req[w] EXCEPT !.todo = rest, !.next = n, !.wrote = @ \cup {d}])
      BY <2>3 DEF Advance
    <3> DEFINE r == [req[w] EXCEPT !.todo = rest, !.next = n, !.wrote = @ \cup {d}]
    <3>2. d \in Dates /\ d \in req[w].todo
      BY <1>0, <1>3 DEF DecrementNight, Local, Request
    <3>3. r \in Request
      BY <1>0, <3>2 DEF Request
    <3>4. Local(r)
      BY <1>0, <1>3, <2>3 DEF DecrementNight, Request, Local
    <3>5. \A v \in Workers \ {w} : Apart(req[v], r)
      BY <1>0, <2>3 DEF RowFree, Apart, Request
    <3> QED BY <2>1, <3>1, <3>3, <3>4, <3>5, ServeBase
  <2> QED BY <1>3, <2>2, <2>3 DEF DecrementNight
<1> QED BY <1>1, <1>2, <1>3

LEMMA RevisionBase ==
  ASSUME Base, NEW w \in Workers,
         \/ \E r \in Revisions : BeginRevision(w, r)
         \/ ReserveRow(w)
  PROVE  Base'
<1> USE DataAssumption
<1>0. req[w] \in Request /\ Local(req[w])
      /\ \A v \in Workers \ {w} : req[v] \in Request /\ Apart(req[v], req[w])
  BY DEF Base, TypeOK, Requests
<1>1. ASSUME NEW rv \in Revisions, BeginRevision(w, rv) PROVE Base'
  <2> DEFINE T == TouchedNights(rv)
  <2>1. PICK n \in (IF T = {} THEN {NoDate} ELSE T) :
          Serve(w, [Idle EXCEPT !.op = "revision", !.step = "rows", !.rev = rv,
                                !.todo = T, !.next = n])
    BY <1>1 DEF BeginRevision
  <2> DEFINE r == [Idle EXCEPT !.op = "revision", !.step = "rows", !.rev = rv,
                               !.todo = T, !.next = n]
  <2>2. T \in SUBSET Dates
    BY DEF TouchedNights
  <2>3. r \in Request /\ Local(r)
    <3> HIDE DEF T
    <3>1. r \in Request
      BY <2>2 DEF Request, Idle, Ops, Steps
    <3>2. r.rev = rv /\ r.todo = T /\ r.next = n /\ r.wrote = {}
          /\ r.step = "rows" /\ r.op = "revision"
      BY DEF Idle
    <3>3. r.todo \cup r.wrote = TouchedNights(rv)
      BY <3>2 DEF T
    <3> QED BY <3>1, <3>2, <3>3 DEF Local
  <2>4. \A v \in Workers \ {w} : Apart(req[v], r)
    BY <1>1 DEF BeginRevision, RevisionPending, Apart, Idle
  <2>5. UNCHANGED dataVars
    BY <1>1 DEF BeginRevision, dataVars, inventoryVars, bookingVars, otaVars
  <2> QED BY <2>1, <2>3, <2>4, <2>5, ServeBase
<1>2. CASE ReserveRow(w)
  <2> DEFINE d == req[w].next
             rv == req[w].rev
             rest == req[w].todo \ {d}
  <2>1. UNCHANGED dataVars
    BY <1>2 DEF ReserveRow, dataVars, inventoryVars, bookingVars, otaVars
  <2>2. CASE Finish(w)
    BY <2>1, <2>2, FinishBase
  <2>3. CASE Fits(rv, d) /\ Advance(w, d)
    <3>1. PICK n \in (IF rest = {} THEN {NoDate} ELSE rest) :
            Serve(w, [req[w] EXCEPT !.todo = rest, !.next = n, !.wrote = @ \cup {d}])
      BY <2>3 DEF Advance
    <3> DEFINE r == [req[w] EXCEPT !.todo = rest, !.next = n, !.wrote = @ \cup {d}]
    <3>2. d \in Dates /\ d \in req[w].todo /\ rv \in Revisions
      BY <1>0, <1>2 DEF ReserveRow, Local, Request
    <3>3. r \in Request
      BY <1>0, <3>2 DEF Request
    <3>4. /\ reserved[d] + Desired(rv, d) >= ota[BookingOf[rv]][d]
          /\ reserved[d] + Desired(rv, d) <= total[d] + ota[BookingOf[rv]][d]
      <4> HIDE DEF d, rv, rest
      <4>1. reserved[d] \in Nat /\ total[d] \in Nat /\ ext[d] \in Nat
            /\ ota[BookingOf[rv]][d] \in Nat /\ Desired(rv, d) \in Nat
        BY <3>2, CountsAreNat
      <4> QED BY <2>3, <4>1 DEF Fits
    <3>5. Local(r)
      <4>1. r.op = "revision" /\ r.step = "rows" /\ r.rev = rv /\ r.todo = rest
            /\ r.next = n /\ r.wrote = req[w].wrote \cup {d}
        BY <1>0, <1>2 DEF ReserveRow, Local, Request
      <4>2. r.todo \cup r.wrote = TouchedNights(rv)
        BY <1>0, <1>2, <3>2, <4>1 DEF ReserveRow, Local
      <4>3. \A e \in r.wrote :
              /\ reserved[e] + Desired(rv, e) >= ota[BookingOf[rv]][e]
              /\ reserved[e] + Desired(rv, e) <= total[e] + ota[BookingOf[rv]][e]
        BY <1>0, <1>2, <3>4, <4>1 DEF ReserveRow, Local
      <4>4. r.todo # {} => r.next \in r.todo
        BY <4>1
      <4> HIDE DEF r
      <4> QED BY <3>2, <4>1, <4>2, <4>3, <4>4 DEF Local
    <3>6. \A v \in Workers \ {w} : Apart(req[v], r)
      BY <1>0, <1>2 DEF ReserveRow, RowFree, Apart, Request
    <3> QED BY <2>1, <3>1, <3>3, <3>5, <3>6, ServeBase
  <2> QED BY <1>2, <2>2, <2>3 DEF ReserveRow
<1> QED BY <1>1, <1>2
-----------------------------------------------------------------------------
(* The steps that commit something. *)

\* A commit leaves what another request has checked as it was: the rows that
\* request has locked, its key, its imported booking and its booking.
LEMMA LocalStays ==
  ASSUME NEW q \in Request, Local(q), holdRows \subseteq holdRows',
         q.step \in {"check", "update"} => q.hold \notin holdRows',
         \A d \in q.wrote : reserved'[d] = reserved[d] /\ total'[d] = total[d],
         q.step = "rows" => ota'[BookingOf[q.rev]] = ota[BookingOf[q.rev]],
         \A g \in holdRows : /\ bookings[g] > 0 => bookings'[g] > 0
                             /\ status[g] = "cancelled" => status'[g] = "cancelled"
  PROVE  Local(q)'
<1>1. CASE q.op = "idle"
  BY <1>1 DEF Local, Idle
<1>2. CASE q.step \in {"insert", "check", "update", "decrement"}
  BY <1>2 DEF Local
<1>3. CASE q.step \in {"consume", "mark", "drop"}
  BY <1>3 DEF Local
<1>4. CASE q.step = "rows"
  BY <1>4 DEF Local, TouchedNights, Desired
<1>5. q.op = "idle" => q.step = "idle"
  BY DEF Local, Idle
<1>6. q.step \in Steps
  BY DEF Request
<1>7. CASE q.step = "idle"
  BY <1>7 DEF Local, Idle
<1> QED BY <1>1, <1>2, <1>3, <1>4, <1>6, <1>7 DEF Steps

\* When a request ends, only what the others have checked is left to show.
LEMMA FinishRequests ==
  ASSUME Base, NEW w \in Workers, Finish(w),
         \A v \in Workers \ {w} : \A q \in Request : q = req[v] => Local(q)'
  PROVE  Requests' /\ req' \in [Workers -> Request]
<1>1. Idle \in Request
  BY DEF Idle, Request, Ops, Steps
<1>2. req'[w] = Idle /\ req' \in [Workers -> Request]
      /\ \A v \in Workers \ {w} : req'[v] = req[v] /\ req[v] \in Request
  BY <1>1 DEF Finish, Serve, Base, TypeOK
<1>3. Local(Idle)'
  BY DEF Local, Idle
<1>4. ASSUME NEW v \in Workers PROVE Local(req[v])'
  <2>1. CASE v = w
    <3>1. req'[v] = Idle
      BY <2>1, <1>2
    <3> QED BY <3>1, <1>3 DEF Local, TouchedNights, Desired
  <2>2. CASE v # w
    <3>1. req'[v] = req[v] /\ \A q \in Request : q = req[v] => Local(q)'
      BY <2>2, <1>2
    <3> QED BY <2>2, <3>1, <1>2 DEF Local, TouchedNights, Desired
  <2> QED BY <2>1, <2>2
<1>5. ASSUME NEW u \in Workers, NEW v \in Workers, u # v PROVE Apart(req'[u], req'[v])
  <2>1. Apart(Idle, req'[v]) /\ Apart(req'[u], Idle)
    BY DEF Apart, Idle
  <2> QED BY <2>1, <1>2, <1>5 DEF Base, Requests
<1> QED BY <1>2, <1>4, <1>5 DEF Requests, Apart

LEMMA CommitHoldBase ==
  ASSUME Base, NEW w \in Workers, CommitHold(w)
  PROVE  Base'
<1> USE DataAssumption
<1> DEFINE h == req[w].hold
<1>0. req[w] \in Request /\ Local(req[w]) /\ req[w].step = "check" /\ req[w].todo = {}
  BY DEF Base, TypeOK, Requests, CommitHold
<1>1. /\ h \in Holds /\ h \notin holdRows /\ req[w].wrote = Nights[h]
      /\ Rooms[h] \in Nat \ {0} /\ req[w].step = "check"
      /\ \A d \in req[w].wrote : reserved[d] + Rooms[h] <= total[d]
  BY <1>0 DEF Local
<1>2. \A d \in Dates : reserved'[d] = IF d \in req[w].wrote THEN reserved[d] + Rooms[h]
                                                            ELSE reserved[d]
  BY DEF CommitHold
<1>3. ASSUME NEW v \in Workers \ {w}, NEW q \in Request, q = req[v] PROVE Local(q)'
  <2>1. Local(q) /\ Apart(q, req[w])
    BY <1>3 DEF Base, Requests
  <2>2. \A d \in q.wrote : d \in Dates /\ reserved'[d] = reserved[d]
    BY <2>1, <1>2 DEF Apart, Request
  <2>3. q.step \in {"check", "update"} => q.hold \notin holdRows'
    BY <2>1, <1>1 DEF Apart, CommitHold, Local
  <2>4. UNCHANGED <<total, ota, bookings, status>> /\ holdRows \subseteq holdRows'
    BY DEF CommitHold, otaVars, bookingVars
  <2> QED BY <2>1, <2>2, <2>3, <2>4, LocalStays
<1>4. Requests' /\ req' \in [Workers -> Request]
  BY <1>3, FinishRequests DEF CommitHold
<1>5. TypeOK'
  BY <1>1, <1>4 DEF Base, TypeOK, CommitHold, bookingVars, otaVars
<1>6. DailyInventoryCheck'
  BY <1>1, <1>2 DEF Base, DailyInventoryCheck, CommitHold
<1>7. Granted'
  BY <1>1 DEF Base, TypeOK, Granted, CommitHold, bookingVars
<1> QED BY <1>4, <1>5, <1>6, <1>7 DEF Base

LEMMA DeleteHoldLocksBase ==
  ASSUME Base, NEW w \in Workers, DeleteHoldLocks(w)
  PROVE  Base'
<1> USE DataAssumption
<1> DEFINE h == req[w].hold
<1>1. req[w] \in Request /\ h \in Holds /\ Rooms[h] \in Nat \ {0}
  BY DEF Base, TypeOK, Requests, DeleteHoldLocks, Local
<1>2. \A d \in Dates : /\ reserved'[d] \in Nat /\ reserved'[d] <= reserved[d]
                       /\ d \notin req[w].wrote => reserved'[d] = reserved[d]
  <2>1. \A d \in Dates : reserved[d] \in Nat
    BY DEF Base, TypeOK
  <2>2. \A d \in Dates : reserved'[d] = IF d \in req[w].wrote
                            THEN Decreased(reserved[d], Rooms[h]) ELSE reserved[d]
    BY DEF DeleteHoldLocks
  <2>3. \A m, n \in Nat : Decreased(m, n) \in Nat /\ Decreased(m, n) <= m
    BY DEF Decreased
  <2>4. ASSUME NEW d \in Dates
        PROVE  /\ reserved'[d] \in Nat /\ reserved'[d] <= reserved[d]
               /\ d \notin req[w].wrote => reserved'[d] = reserved[d]
    <3>1. Rooms[h] \in Nat /\ reserved[d] \in Nat
      BY <1>1, <2>1
    <3>2. /\ Decreased(reserved[d], Rooms[h]) \in Nat
          /\ Decreased(reserved[d], Rooms[h]) <= reserved[d]
      BY <3>1, <2>3
    <3>3. CASE d \in req[w].wrote
      <4>1. reserved'[d] = Decreased(reserved[d], Rooms[h])
        BY <3>3, <2>2
      <4> QED BY <3>2, <3>3, <4>1
    <3>4. CASE d \notin req[w].wrote
      <4>1. reserved'[d] = reserved[d]
        BY <3>4, <2>2
      <4> QED BY <3>1, <4>1
    <3> QED BY <3>3, <3>4
  <2> QED BY <2>4
<1>3. ASSUME NEW v \in Workers \ {w}, NEW q \in Request, q = req[v] PROVE Local(q)'
  <2>1. Local(q) /\ Apart(q, req[w])
    BY <1>3 DEF Base, Requests
  <2>2. \A d \in q.wrote : d \in Dates /\ reserved'[d] = reserved[d]
    BY <2>1, <1>2 DEF Apart, Request
  <2>3. UNCHANGED <<total, ota, holdRows, bookings, status>>
    BY DEF DeleteHoldLocks, otaVars, bookingVars
  <2>4. q.step \in {"check", "update"} => q.hold \notin holdRows'
    BY <2>1, <2>3 DEF Local
  <2> QED BY <2>1, <2>2, <2>3, <2>4, LocalStays
<1>4. Requests' /\ req' \in [Workers -> Request]
  BY <1>3, FinishRequests DEF DeleteHoldLocks
<1>5. TypeOK'
  <2>1. reserved' \in [Dates -> Nat]
    BY <1>2 DEF DeleteHoldLocks
  <2>2. lock' \in [Holds -> {"none", "held", "booked"}]
    BY <1>1 DEF Base, TypeOK, DeleteHoldLocks, AfterDelete
  <2> QED BY <1>4, <2>1, <2>2 DEF Base, TypeOK, DeleteHoldLocks, bookingVars, otaVars
<1>6. DailyInventoryCheck'
  BY <1>2 DEF Base, TypeOK, DailyInventoryCheck, DeleteHoldLocks
<1>7. Granted'
  BY <1>1 DEF Base, TypeOK, Granted, DeleteHoldLocks, AfterDelete, bookingVars
<1> QED BY <1>4, <1>5, <1>6, <1>7 DEF Base

LEMMA CommitRevisionBase ==
  ASSUME Base, NEW w \in Workers, CommitRevision(w)
  PROVE  Base'
<1> USE DataAssumption
<1> DEFINE r == req[w].rev
           x == BookingOf[r]
<1>1. /\ req[w] \in Request /\ req[w].op = "revision" /\ r \in Revisions
      /\ x \in OtaBookings /\ req[w].wrote \in SUBSET Dates
      /\ \A d \in req[w].wrote : /\ reserved[d] + Desired(r, d) >= ota[x][d]
                                 /\ reserved[d] + Desired(r, d) <= total[d] + ota[x][d]
  BY DEF Base, TypeOK, Requests, CommitRevision, Local, Request
<1> HIDE DEF r, x
<1>2. \A d \in Dates : /\ reserved[d] \in Nat /\ total[d] \in Nat
                       /\ Desired(r, d) \in Nat /\ ota[x][d] \in Nat
  BY <1>1, CountsAreNat DEF x
<1>3. \A d \in Dates : reserved'[d] = IF d \in req[w].wrote
                         THEN (reserved[d] + Desired(r, d)) - ota[x][d] ELSE reserved[d]
  BY DEF CommitRevision, r, x
<1>4. \A d \in Dates : reserved'[d] \in Nat /\ (reserved[d] <= total[d] => reserved'[d] <= total[d])
  BY <1>1, <1>2, <1>3
<1>5. \A y \in OtaBookings \ {x} : ota'[y] = ota[y]
  BY DEF CommitRevision, r, x, Base, TypeOK
<1>6. ASSUME NEW v \in Workers \ {w}, NEW q \in Request, q = req[v] PROVE Local(q)'
  <2>1. Local(q) /\ Apart(q, req[w])
    BY <1>6 DEF Base, Requests
  <2>2. \A d \in q.wrote : d \in Dates /\ reserved'[d] = reserved[d]
    BY <2>1, <1>3 DEF Apart, Request
  <2>3. UNCHANGED <<total, holdRows, bookings, status>>
    BY DEF CommitRevision, bookingVars
  <2>4. q.step = "rows" => ota'[BookingOf[q.rev]] = ota[BookingOf[q.rev]]
    BY <1>1, <1>5, <2>1 DEF Local, Apart, r, x
  <2>5. q.step \in {"check", "update"} => q.hold \notin holdRows'
    BY <2>1, <2>3 DEF Local
  <2> QED BY <2>1, <2>2, <2>3, <2>4, <2>5, LocalStays
<1>7. Requests' /\ req' \in [Workers -> Request]
  BY <1>6, FinishRequests DEF CommitRevision
<1>8. TypeOK'
  <2>1. reserved' \in [Dates -> Nat]
    BY <1>4 DEF CommitRevision
  <2>2. ota' \in [OtaBookings -> [Dates -> Nat]]
    <3>1. [d \in Dates |-> Desired(r, d)] \in [Dates -> Nat]
      BY <1>2
    <3> QED BY <1>1, <3>1 DEF Base, TypeOK, CommitRevision, r, x
  <2>3. otaRev' \in [OtaBookings -> Revisions \cup {NoRevision}]
    BY <1>1 DEF Base, TypeOK, CommitRevision, r, x
  <2> QED BY <1>7, <2>1, <2>2, <2>3 DEF Base, TypeOK, CommitRevision, bookingVars
<1>9. DailyInventoryCheck' /\ Granted'
  BY <1>4 DEF Base, DailyInventoryCheck, Granted, CommitRevision, bookingVars
<1> QED BY <1>7, <1>8, <1>9 DEF Base
LEMMA ConfirmCancelCommitBase ==
  ASSUME Base, NEW w \in Workers,
         ConsumeHold(w) \/ MarkCancelled(w) \/ DropBookingLocks(w)
  PROVE  Base'
<1> USE DataAssumption
<1> DEFINE h == req[w].hold
<1>0. req[w] \in Request /\ Local(req[w])
  BY DEF Base, TypeOK, Requests
<1>1. /\ req[w].step \in {"consume", "mark", "drop"}
      /\ req[w].op \in {"confirm", "cancel"} /\ req[w].wrote = {}
      /\ h \in holdRows /\ h \in Holds
      /\ req[w].step # "consume" => bookings[h] > 0
      /\ req[w].step = "drop" => status[h] = "cancelled"
  BY <1>0 DEF ConsumeHold, MarkCancelled, DropBookingLocks, Local, Base, TypeOK
<1> HIDE DEF h
<1>2. UNCHANGED <<total, reserved, ext, holdRows, expired, ota, otaRev>>
  BY DEF ConsumeHold, MarkCancelled, DropBookingLocks, inventoryVars, otaVars
<1>3. /\ lock' \in [Holds -> {"none", "held", "booked"}]
      /\ bookings' \in [Holds -> Nat]
      /\ status' \in [Holds -> {"none", "confirmed", "cancelled"}]
      /\ Granted'
  <2>1. CASE ConsumeHold(w)
    <3>1. CASE Consumes(h)
      <4>1. /\ lock' = [lock EXCEPT ![h] = "booked"]
            /\ bookings' = [bookings EXCEPT ![h] = @ + 1]
            /\ status' = [status EXCEPT ![h] = "confirmed"]
        BY <2>1, <3>1 DEF h, ConsumeHold
      <4>2. bookings[h] = 0 /\ bookings'[h] = 1 /\ lock'[h] = "booked"
            /\ status'[h] = "confirmed"
        BY <3>1, <4>1, <1>1 DEF Consumes, Base, TypeOK, Granted
      <4>3. \A g \in Holds \ {h} : /\ lock'[g] = lock[g] /\ bookings'[g] = bookings[g]
                                   /\ status'[g] = status[g]
        BY <4>1 DEF Base, TypeOK
      <4>4. Granted'
        BY <4>2, <4>3, <1>1, <1>2 DEF Base, Granted
      <4> QED BY <4>1, <4>4, <1>1 DEF Base, TypeOK
    <3>2. CASE ~Consumes(h)
      BY <2>1, <3>2, <1>2 DEF h, ConsumeHold, Base, TypeOK, Granted
    <3> QED BY <3>1, <3>2
  <2>2. CASE MarkCancelled(w)
    <3>1. req[w].step = "mark" /\ UNCHANGED <<lock, bookings>>
          /\ status' = [status EXCEPT ![h] = "cancelled"]
      BY <2>2 DEF h, MarkCancelled
    <3> QED BY <3>1, <1>1, <1>2 DEF Base, TypeOK, Granted
  <2>3. CASE DropBookingLocks(w)
    <3>1. req[w].step = "drop" /\ UNCHANGED <<bookings, status>>
          /\ lock' = [lock EXCEPT ![h] = IF @ = "booked" THEN "none" ELSE @]
      BY <2>3 DEF h, DropBookingLocks, bookingVars
    <3> QED BY <3>1, <1>1, <1>2 DEF Base, TypeOK, Granted
  <2> QED BY <2>1, <2>2, <2>3
<1>4. \A g \in Holds : /\ bookings[g] > 0 => bookings'[g] > 0
                       /\ status[g] = "cancelled" => status'[g] = "cancelled"
  BY <1>1 DEF h, ConsumeHold, Consumes, MarkCancelled, DropBookingLocks, bookingVars,
              Base, TypeOK, Granted
<1>5. holdRows \subseteq Holds
  BY DEF Base, TypeOK
<1>6. ASSUME NEW q \in Request, Local(q) PROVE Local(q)'
  <2>1. q.step \in {"check", "update"} => q.hold \notin holdRows'
    BY <1>2, <1>6 DEF Local
  <2> QED BY <1>2, <1>4, <1>5, <1>6, <2>1, LocalStays
<1>7. Requests' /\ req' \in [Workers -> Request]
  <2>1. CASE Finish(w)
    <3>1. \A v \in Workers \ {w} : \A q \in Request : q = req[v] => Local(q)'
      BY <1>6 DEF Base, Requests
    <3> QED BY <2>1, <3>1, FinishRequests
  <2>2. CASE MarkCancelled(w)
    <3> PICK r \in Request : r = [req[w] EXCEPT !.step = "drop"]
      BY <1>0 DEF Request, Steps
    <3>1. r.wrote = {} /\ r.step = "drop" /\ r.op \in {"confirm", "cancel"} /\ r.hold = h
      BY <1>0, <1>1 DEF h, Request
    <3>2. /\ req'[w] = r /\ req' \in [Workers -> Request]
          /\ \A v \in Workers \ {w} : req'[v] = req[v] /\ req[v] \in Request
      BY <2>2 DEF MarkCancelled, Serve, Base, TypeOK
    <3>3. status'[r.hold] = "cancelled" /\ bookings'[r.hold] > 0 /\ r.hold \in holdRows'
      BY <2>2, <1>1, <1>2, <3>1 DEF h, MarkCancelled, Base, TypeOK
    <3>4. Local(r)'
      BY <3>1, <3>3 DEF Local
    <3>5. ASSUME NEW v \in Workers PROVE Local(req[v])'
      <4>1. CASE v = w
        BY <4>1, <3>2, <3>4 DEF Local, TouchedNights, Desired
      <4>2. CASE v # w
        <5>1. req'[v] = req[v] /\ \A q \in Request : q = req[v] => Local(q)'
          BY <4>2, <3>2, <1>6 DEF Base, Requests
        <5> QED BY <5>1, <4>2, <3>2 DEF Local, TouchedNights, Desired
      <4> QED BY <4>1, <4>2
    <3>6. \A q \in Request : Apart(q, r) /\ Apart(r, q)
      BY <3>1 DEF Apart
    <3>7. ASSUME NEW u \in Workers, NEW v \in Workers, u # v PROVE Apart(req'[u], req'[v])
      <4>1. req[u] \in Request /\ req[v] \in Request /\ Apart(req[u], req[v])
        BY <3>7 DEF Base, TypeOK, Requests
      <4>2. CASE u = w
        <5>1. req'[u] = r /\ req'[v] = req[v]
          BY <4>2, <3>2, <3>7
        <5>2. Apart(r, req[v]) /\ Apart(req[u], r)
          BY <4>1, <3>6
        <5> QED BY <5>1, <5>2
      <4>3. CASE v = w
        <5>1. req'[v] = r /\ req'[u] = req[u]
          BY <4>3, <3>2, <3>7
        <5>2. Apart(r, req[v]) /\ Apart(req[u], r)
          BY <4>1, <3>6
        <5> QED BY <5>1, <5>2
      <4>4. CASE u # w /\ v # w
        <5>1. req'[v] = req[v] /\ req'[u] = req[u]
          BY <4>4, <3>2
        <5> QED BY <5>1, <4>1
      <4> QED BY <4>2, <4>3, <4>4
    <3>8. Requests'
      BY <3>5, <3>7 DEF Requests, Apart
    <3> QED BY <3>2, <3>8
  <2> QED BY <2>1, <2>2 DEF ConsumeHold, DropBookingLocks
<1>8. DailyInventoryCheck'
  BY <1>2 DEF Base, DailyInventoryCheck
<1> QED BY <1>2, <1>3, <1>7, <1>8 DEF Base, TypeOK

LEMMA EnvironmentBase ==
  ASSUME Base, Environment
  PROVE  Base'
<1> USE DataAssumption
<1>1. ASSUME NEW h \in Holds, Expire(h) PROVE Base'
  BY <1>1 DEF Base, TypeOK, Requests, Local, Apart, TouchedNights, Desired, Granted,
              DailyInventoryCheck, Expire, inventoryVars, bookingVars, otaVars
<1>2. ASSUME NEW d \in Dates, NEW n \in Blocks, SyncCalendar(d, n) PROVE Base'
  BY <1>2 DEF Base, TypeOK, Requests, Local, Apart, TouchedNights, Desired, Granted,
              DailyInventoryCheck, SyncCalendar, bookingVars, otaVars
<1>3. ASSUME NEW d \in Dates, NEW n \in Capacities, SetCapacity(d, n) PROVE Base'
  <2>1. UNCHANGED <<reserved, ext, holdRows, lock, expired, bookings, status, ota, otaRev, req>>
    BY <1>3 DEF SetCapacity, bookingVars, otaVars
  <2>2. /\ total' \in [Dates -> Nat] /\ reserved[d] <= total'[d]
        /\ \A e \in Dates \ {d} : total'[e] = total[e]
    BY <1>3 DEF SetCapacity, Base, TypeOK
  <2>3. ASSUME NEW v \in Workers PROVE Local(req[v])'
    <3>1. req[v] \in Request /\ Local(req[v]) /\ req'[v] = req[v]
      BY <2>1 DEF Base, TypeOK, Requests
    <3>2. \A e \in req[v].wrote : total'[e] = total[e]
      BY <3>1, <2>2, <1>3 DEF SetCapacity, RowFree, Request
    <3> QED BY <2>1, <3>1, <3>2 DEF Local, TouchedNights, Desired
  <2>4. Requests'
    BY <2>1, <2>3 DEF Base, Requests, Apart
  <2>5. DailyInventoryCheck'
    BY <2>1, <2>2 DEF Base, DailyInventoryCheck
  <2> QED BY <2>1, <2>2, <2>4, <2>5 DEF Base, TypeOK, Granted
<1> QED BY <1>1, <1>2, <1>3 DEF Environment

-----------------------------------------------------------------------------
LEMMA InitBase == Init => Base
<1> SUFFICES ASSUME Init PROVE Base
  OBVIOUS
<1> USE DataAssumption
<1>1. Idle \in Request
  BY DEF Idle, Request, Ops, Steps
<1>2. TypeOK
  BY <1>1 DEF Init, TypeOK
<1>3. Local(Idle) /\ Apart(Idle, Idle)
  BY DEF Local, Apart, Idle
<1>4. Requests
  BY <1>3 DEF Init, Requests
<1>5. DailyInventoryCheck
  <2>1. \A d \in Dates : total[d] \in Nat /\ reserved[d] = 0
    BY <1>2 DEF Init, TypeOK
  <2> QED BY <2>1 DEF DailyInventoryCheck
<1>6. Granted
  BY DEF Init, Granted
<1> QED BY <1>2, <1>4, <1>5, <1>6 DEF Base

LEMMA NextBase == Base /\ [Next]_vars => Base'
<1> SUFFICES ASSUME Base, [Next]_vars PROVE Base'
  OBVIOUS
<1>1. CASE UNCHANGED vars
  BY <1>1 DEF vars, Base, TypeOK, Requests, Local, Apart, TouchedNights, Desired,
              Granted, DailyInventoryCheck
<1>2. ASSUME NEW w \in Workers, Begin(w) PROVE Base'
  BY <1>2, HoldBase, ReleaseConfirmCancelBase, RevisionBase DEF Begin
<1>3. ASSUME NEW w \in Workers, Step(w) PROVE Base'
  BY <1>3, HoldBase, ReleaseConfirmCancelBase, RevisionBase, CommitHoldBase,
     DeleteHoldLocksBase, CommitRevisionBase, ConfirmCancelCommitBase DEF Step
<1>4. ASSUME NEW w \in Workers, DeadlockVictim(w) \/ Crash(w) PROVE Base'
  BY <1>4, FinishBase DEF DeadlockVictim, Crash, dataVars, inventoryVars, bookingVars, otaVars
<1>5. CASE Environment
  BY <1>5, EnvironmentBase
<1> QED BY <1>1, <1>2, <1>3, <1>4, <1>5 DEF Next

THEOREM BaseInvariant == Spec => []Base
<1> QED BY InitBase, NextBase, PTL DEF Spec
-----------------------------------------------------------------------------
(***************************************************************************)
(* What the runs check, for every value of the constants.                  *)
(***************************************************************************)

\* Every reachable state is well typed.
THEOREM TypeCorrect == Spec => []TypeOK
<1>1. Base => TypeOK
  BY DEF Base
<1> QED BY <1>1, BaseInvariant, PTL

\* The CHECK constraint of DailyInventory holds at every commit: the rows a
\* transaction has checked stay locked until it commits.
THEOREM CheckConstraintHolds == Spec => []DailyInventoryCheck
<1>1. Base => DailyInventoryCheck
  BY DEF Base
<1> QED BY <1>1, BaseInvariant, PTL

\* A hold is booked at most once, however many processes confirm it.
THEOREM ConfirmedOnce == Spec => []OneBookingPerHold
<1>1. Base => OneBookingPerHold
  BY DEF Base, Granted, OneBookingPerHold
<1> QED BY <1>1, BaseInvariant, PTL

\* A booking that is not cancelled keeps its stock.
THEOREM BookingStockKept == Spec => []BookingKeepsStock
<1>1. Base => BookingKeepsStock
  <2> SUFFICES ASSUME Base, NEW h \in Holds
               PROVE  /\ status[h] = "confirmed" => lock[h] = "booked"
                      /\ lock[h] = "booked" => status[h] # "none"
    BY DEF BookingKeepsStock
  <2>1. bookings[h] \in Nat
    BY DEF Base, TypeOK
  <2> QED BY <2>1 DEF Base, Granted
<1> QED BY <1>1, BaseInvariant, PTL

\* A hold whose stock was given back never gets it again.
THEOREM GrantedOnce == Spec => NoResurrection
<1> DEFINE A == \A h \in Holds : h \in holdRows /\ lock[h] = "none" => lock'[h] = "none"
<1>1. Base /\ [Next]_vars => [A]_vars
  <2> SUFFICES ASSUME Base, Next, NEW h \in Holds, h \in holdRows, lock[h] = "none"
               PROVE  lock'[h] = "none"
    OBVIOUS
  <2>1. lock' = lock => lock'[h] = "none"
    OBVIOUS
  <2>2. ASSUME NEW w \in Workers, Begin(w) \/ DeadlockVictim(w) \/ Crash(w) PROVE lock' = lock
    BY <2>2 DEF Begin, FindActiveHold, ReadHoldLocks, ReadHold, LoadBooking, BeginRevision,
                DeadlockVictim, Crash
  <2>3. CASE Environment
    BY <2>3, <2>1 DEF Environment, Expire, SetCapacity, SyncCalendar
  <2>4. ASSUME NEW w \in Workers, Step(w) PROVE lock'[h] = "none"
    <3>1. CASE CommitHold(w)
      <4>1. req[w].hold \notin holdRows
        BY <3>1 DEF CommitHold, Base, Requests, Local
      <4> QED BY <3>1, <4>1 DEF CommitHold, Base, TypeOK
    <3>2. CASE DeleteHoldLocks(w)
      BY <3>2 DEF DeleteHoldLocks, AfterDelete, Base, TypeOK
    <3>3. CASE ConsumeHold(w)
      BY <3>3 DEF ConsumeHold, Consumes, Base, TypeOK
    <3>4. CASE DropBookingLocks(w)
      BY <3>4 DEF DropBookingLocks, Base, TypeOK
    <3>5. CASE \/ InsertHold(w) \/ CheckNight(w) \/ UpdateNight(w) \/ DecrementNight(w)
               \/ MarkCancelled(w) \/ ReserveRow(w) \/ CommitRevision(w)
      BY <3>5, <2>1 DEF InsertHold, CheckNight, UpdateNight, DecrementNight, MarkCancelled,
                        ReserveRow, CommitRevision
    <3> QED BY <2>4, <3>1, <3>2, <3>3, <3>4, <3>5 DEF Step
  <2> QED BY <2>1, <2>2, <2>3, <2>4 DEF Next
<1>2. Spec => [][Next]_vars
  BY DEF Spec
<1>3. Spec => [][A]_vars
  BY <1>1, <1>2, BaseInvariant, PTL
<1> QED BY <1>3 DEF NoResurrection

\* A cancelled booking is never confirmed again.
THEOREM CancelledForGood == Spec => CancelledIsFinal
<1> DEFINE A == \A h \in Holds : status[h] = "cancelled" => status'[h] = "cancelled"
<1>1. Base /\ [Next]_vars => [A]_vars
  <2> SUFFICES ASSUME Base, Next, NEW h \in Holds, status[h] = "cancelled"
               PROVE  status'[h] = "cancelled"
    OBVIOUS
  <2>1. status' = status => status'[h] = "cancelled"
    OBVIOUS
  <2>2. ASSUME NEW w \in Workers, ConsumeHold(w) PROVE status'[h] = "cancelled"
    <3>1. lock[h] = "held" => bookings[h] = 0
      BY DEF Base, Granted
    <3>2. bookings[h] # 0
      BY DEF Base, Granted
    <3> QED BY <2>2, <3>1, <3>2 DEF ConsumeHold, Consumes, Base, TypeOK
  <2>3. ASSUME NEW w \in Workers, MarkCancelled(w) PROVE status'[h] = "cancelled"
    BY <2>3 DEF MarkCancelled, Base, TypeOK
  <2>4. ASSUME NEW w \in Workers, Step(w), ~ConsumeHold(w), ~MarkCancelled(w)
        PROVE  status' = status
    BY <2>4 DEF Step, InsertHold, CheckNight, UpdateNight, CommitHold, DecrementNight,
                DeleteHoldLocks, DropBookingLocks, ReserveRow, CommitRevision, bookingVars
  <2>5. ASSUME NEW w \in Workers, Begin(w) \/ DeadlockVictim(w) \/ Crash(w)
        PROVE  status' = status
    BY <2>5 DEF Begin, FindActiveHold, ReadHoldLocks, ReadHold, LoadBooking, BeginRevision,
                DeadlockVictim, Crash, bookingVars
  <2>6. Environment => status' = status
    BY DEF Environment, Expire, SetCapacity, SyncCalendar, bookingVars
  <2> QED BY <2>1, <2>2, <2>3, <2>4, <2>5, <2>6 DEF Next
<1>2. Spec => [][Next]_vars
  BY DEF Spec
<1>3. Spec => [][A]_vars
  BY <1>1, <1>2, BaseInvariant, PTL
<1> QED BY <1>3 DEF CancelledIsFinal
-----------------------------------------------------------------------------
(* The order in which a hold locks the rows of its nights. *)

\* A hold has locked the first nights of the stay and waits for the next one.
InOrder(r) ==
  /\ r.step \in {"check", "update"} => \A d \in r.wrote, e \in r.todo : d < e
  /\ r.step = "update" => \A e \in r.todo : r.next <= e

HoldsInOrder == \A w \in Workers : InOrder(req[w])

LEMMA IdleInOrder == InOrder(Idle)
BY DEF InOrder, Idle

\* A statement that begins or ends a request, or is not about a hold's nights.
LEMMA OtherStatements ==
  ASSUME Base, NEW w \in Workers,
         \/ Begin(w) \/ DeadlockVictim(w) \/ Crash(w)
         \/ Step(w) /\ ~InsertHold(w) /\ ~CheckNight(w) /\ ~UpdateNight(w)
  PROVE  /\ \A v \in Workers \ {w} : req'[v] = req[v]
         /\ req'[w].step \notin {"check", "update"}
<1>0. req \in [Workers -> Request]
  BY DEF Base, TypeOK
<1>1. ASSUME NEW h \in Holds, FindActiveHold(w, h) \/ ReadHoldLocks(w, h) \/ ReadHold(w, h) \/ LoadBooking(w, h)
      PROVE  (\A v \in Workers \ {w} : req'[v] = req[v]) /\ req'[w].step \notin {"check", "update"}
  BY <1>0, <1>1 DEF FindActiveHold, ReadHoldLocks, ReadHold, LoadBooking, Serve, Idle
<1>2. ASSUME NEW r \in Revisions, BeginRevision(w, r)
      PROVE  (\A v \in Workers \ {w} : req'[v] = req[v]) /\ req'[w].step \notin {"check", "update"}
  BY <1>0, <1>2 DEF BeginRevision, Serve, Idle
<1>3. CASE Finish(w)
  BY <1>0, <1>3 DEF Finish, Serve, Idle
<1>4. ASSUME NEW d, Advance(w, d), req[w].step \in {"decrement", "rows"}
      PROVE  (\A v \in Workers \ {w} : req'[v] = req[v]) /\ req'[w].step \notin {"check", "update"}
  <2>1. PICK n : req' = [req EXCEPT ![w] = [req[w] EXCEPT !.todo = req[w].todo \ {d}, !.next = n,
                                                          !.wrote = @ \cup {d}]]
    BY <1>4 DEF Advance, Serve
  <2> QED BY <1>0, <1>4, <2>1 DEF Request
<1>5. CASE MarkCancelled(w)
  BY <1>0, <1>5 DEF MarkCancelled, Serve, Request
<1> QED BY <1>1, <1>2, <1>3, <1>4, <1>5 DEF Begin, DeadlockVictim, Crash, Step, CommitHold,
  DecrementNight, DeleteHoldLocks, ConsumeHold, DropBookingLocks, ReserveRow, CommitRevision

LEMMA OrderStep == ASSUME Base, HoldsInOrder, [Next]_vars PROVE HoldsInOrder'
<1> USE DEF HoldsInOrder
<1>0. /\ req \in [Workers -> Request]
      /\ \A w \in Workers : req[w] \in Request /\ Local(req[w]) /\ InOrder(req[w])
  BY DEF Base, TypeOK, Requests
<1>1. ASSUME NEW w \in Workers, \A v \in Workers \ {w} : req'[v] = req[v], InOrder(req'[w])
      PROVE  HoldsInOrder'
  <2>1. \A v \in Workers : InOrder(req'[v])
    BY <1>0, <1>1
  <2> QED BY <2>1 DEF InOrder
<1>2. ASSUME NEW w \in Workers, InsertHold(w) PROVE HoldsInOrder'
  <2>1. req[w].wrote = {}
    BY <1>0, <1>2 DEF InsertHold, Local
  <2> DEFINE r == [req[w] EXCEPT !.step = "check", !.todo = Nights[req[w].hold]]
  <2>2. req' = [req EXCEPT ![w] = r] \/ req' = [req EXCEPT ![w] = Idle]
    BY <1>2 DEF InsertHold, Finish, Serve
  <2>3. InOrder(r)
    <3>1. r.step = "check" /\ r.wrote = {}
      BY <1>0, <2>1 DEF Request
    <3> QED BY <3>1 DEF InOrder
  <2> HIDE DEF r
  <2> QED BY <1>0, <1>1, <2>2, <2>3, IdleInOrder
<1>3. ASSUME NEW w \in Workers, CheckNight(w) PROVE HoldsInOrder'
  <2>1. PICK d \in req[w].todo : /\ \A e \in req[w].todo : d <= e
                                 /\ \/ req' = [req EXCEPT ![w] = [req[w] EXCEPT !.step = "update", !.next = d]]
                                    \/ req' = [req EXCEPT ![w] = Idle]
    BY <1>3 DEF CheckNight, Finish, Serve
  <2> DEFINE r == [req[w] EXCEPT !.step = "update", !.next = d]
  <2>2. InOrder(r)
    <3>1. r.step = "update" /\ r.next = d /\ r.todo = req[w].todo /\ r.wrote = req[w].wrote
      BY <1>0 DEF Request
    <3> QED BY <1>0, <1>3, <2>1, <3>1 DEF CheckNight, InOrder
  <2> HIDE DEF r
  <2>3. req' = [req EXCEPT ![w] = r] \/ req' = [req EXCEPT ![w] = Idle]
    BY <2>1 DEF r
  <2> QED BY <1>0, <1>1, <2>2, <2>3, IdleInOrder
<1>4. ASSUME NEW w \in Workers, UpdateNight(w) PROVE HoldsInOrder'
  <2> DEFINE d == req[w].next
             r == [req[w] EXCEPT !.step = "check", !.todo = @ \ {d}, !.next = NoDate, !.wrote = @ \cup {d}]
  <2>1. req' = [req EXCEPT ![w] = r] \/ req' = [req EXCEPT ![w] = Idle]
    BY <1>4 DEF UpdateNight, Finish, Serve
  <2>2. \A e \in req[w].todo \ {d} : d < e
    <3>1. req[w].todo \subseteq Nat /\ d \in Nat
      BY <1>0, <1>4, DataAssumption DEF Request, UpdateNight, Local
    <3> QED BY <1>0, <1>4, <3>1 DEF UpdateNight, InOrder
  <2>3. \A c \in req[w].wrote, e \in req[w].todo : c < e
    BY <1>0, <1>4 DEF UpdateNight, InOrder
  <2>4. r.step = "check" /\ r.todo = req[w].todo \ {d} /\ r.wrote = req[w].wrote \cup {d}
    BY <1>0 DEF Request
  <2> HIDE DEF d, r
  <2>5. InOrder(r)
    BY <2>2, <2>3, <2>4 DEF InOrder
  <2> QED BY <1>0, <1>1, <2>1, <2>5, IdleInOrder
<1>5. ASSUME NEW w \in Workers, Begin(w) \/ Step(w) \/ DeadlockVictim(w) \/ Crash(w) PROVE HoldsInOrder'
  <2>1. CASE InsertHold(w) \/ CheckNight(w) \/ UpdateNight(w)
    BY <1>2, <1>3, <1>4, <2>1
  <2>2. CASE ~InsertHold(w) /\ ~CheckNight(w) /\ ~UpdateNight(w)
    <3>1. /\ \A v \in Workers \ {w} : req'[v] = req[v]
          /\ req'[w].step \notin {"check", "update"}
      BY <1>5, <2>2, OtherStatements
    <3>2. InOrder(req'[w])
      BY <3>1 DEF InOrder
    <3> QED BY <1>1, <3>1, <3>2
  <2> QED BY <2>1, <2>2
<1>6. ASSUME UNCHANGED req PROVE HoldsInOrder'
  BY <1>6 DEF InOrder
<1> QED BY <1>5, <1>6 DEF Next, Environment, Expire, SetCapacity, SyncCalendar, vars

\* In a nonempty set of workers that each wait for a date some worker waits for one no
\* other's date comes after.
LEMMA LastWaiting ==
  ASSUME NEW S, S # {}, NEW next \in [S -> Dates]
  PROVE  \E v \in S : \A w \in S : ~(next[v] < next[w])
<1> DEFINE Later(d) == {e \in Dates : d < e}
           T == {Later(next[v]) : v \in S}
           R == StrictSubsetOrdering(Dates)
<1>1. \A d \in Dates : Later(d) \in FiniteSubsetsOf(Dates)
  <2>1. FiniteSubsetsOf(Dates) = SUBSET Dates
    BY DataAssumption, FS_FiniteSubsetsOfFinite
  <2> QED BY <2>1
<1>2. T \subseteq FiniteSubsetsOf(Dates) /\ T # {}
  BY <1>1
<1>3. IsWellFoundedOn(R, FiniteSubsetsOf(Dates))
  BY FS_StrictSubsetOrderingWellFounded
<1>4. \E x \in T : \A y \in T : <<y, x>> \notin R
  <2> HIDE DEF T, R
  <2> QED BY <1>2, <1>3, WFMin
<1>5. PICK v \in S : \A w \in S : <<Later(next[w]), Later(next[v])>> \notin R
  BY <1>4
<1>6. ASSUME NEW w \in S, next[v] < next[w] PROVE FALSE
  <2>1. /\ next[v] \in Nat /\ next[w] \in Nat /\ next[w] \in Dates
        /\ \A e \in Dates : e \in Nat
    BY DataAssumption
  <2>2. Later(next[w]) \subseteq Later(next[v])
    <3>1. \A e \in Dates : next[w] < e => next[v] < e
      BY <1>6, <2>1
    <3> QED BY <3>1
  <2>3. next[w] \in Later(next[v]) /\ next[w] \notin Later(next[w])
    <3>1. ~(next[w] < next[w])
      BY <2>1
    <3> QED BY <1>6, <2>1, <3>1
  <2>4. <<Later(next[w]), Later(next[v])>> \in R
    BY <2>2, <2>3 DEF StrictSubsetOrdering
  <2> QED BY <1>5, <2>4
<1> QED BY <1>6

\* Holds never wait for each other in a circle, however many there are and however their
\* stays overlap: datesInRange returns the nights in order, so a hold waits for a later
\* night than any it has locked.
THEOREM NoDeadlockOfHolds == Spec => []HoldsNeverDeadlock
<1>1. Init => HoldsInOrder
  BY DEF Init, HoldsInOrder, InOrder, Idle
<1>2. Base /\ HoldsInOrder => HoldsNeverDeadlock
  <2> SUFFICES ASSUME Base, HoldsInOrder, NEW S \in SUBSET {w \in Workers : req[w].op = "hold"},
                      Deadlocked(S)
               PROVE  FALSE
    BY DEF HoldsNeverDeadlock
  <2> DEFINE next == [w \in S |-> req[w].next]
  <2>1. \A v \in S : v \in Workers /\ req[v] \in Request /\ Local(req[v]) /\ InOrder(req[v])
    BY DEF Base, TypeOK, Requests, HoldsInOrder
  <2>2. \A v \in S : req[v].step = "update"
    BY <2>1 DEF Deadlocked, WaitsFor, Local
  <2>3. \A v \in S : next[v] \in req[v].todo /\ next[v] \in Dates
    BY <2>1, <2>2 DEF Local, Request
  <2>4. \A v \in S : \E w \in S : next[v] < next[w]
    <3> SUFFICES ASSUME NEW v \in S PROVE \E w \in S : next[v] < next[w]
      OBVIOUS
    <3>1. PICK w \in S : next[v] \in req[w].wrote
      BY DEF Deadlocked, WaitsFor
    <3> QED BY <2>1, <2>2, <2>3, <3>1 DEF InOrder
  <2>5. \E v \in S : \A w \in S : ~(next[v] < next[w])
    <3>1. S # {}
      BY DEF Deadlocked
    <3>2. next \in [S -> Dates]
      BY <2>3
    <3> HIDE DEF next
    <3> QED BY <3>1, <3>2, LastWaiting
  <2> QED BY <2>4, <2>5
<1> QED BY <1>1, <1>2, OrderStep, BaseInvariant, PTL DEF Spec

-----------------------------------------------------------------------------
(* The order in which the revisions of a booking are applied. *)

\* A revision that is being applied is still not stale.
RevisionsCurrent ==
  \A w \in Workers : req[w].op = "revision" => req[w].rev \in Revisions /\ ~Stale(req[w].rev)

\* Requests that go on, end or begin with anything but a revision.
LEMMA RevisionOrOther ==
  ASSUME Base, NEW w \in Workers, Begin(w) \/ Step(w) \/ DeadlockVictim(w) \/ Crash(w)
  PROVE  /\ \A v \in Workers \ {w} : req'[v] = req[v]
         /\ req'[w].op = "revision" =>
              \/ req[w].op = "revision" /\ req'[w].rev = req[w].rev
              \/ req'[w].rev \in Revisions /\ ~Stale(req'[w].rev)
         /\ \/ otaRev' = otaRev
            \/ CommitRevision(w)
<1>0. req \in [Workers -> Request] /\ req[w] \in Request
  BY DEF Base, TypeOK
<1> DEFINE Kept == req'[w].op = "revision" =>
                     \/ req[w].op = "revision" /\ req'[w].rev = req[w].rev
                     \/ req'[w].rev \in Revisions /\ ~Stale(req'[w].rev)
           Others == \A v \in Workers \ {w} : req'[v] = req[v]
<1>1. ASSUME NEW h \in Holds, FindActiveHold(w, h) \/ ReadHoldLocks(w, h) \/ ReadHold(w, h) \/ LoadBooking(w, h)
      PROVE  Kept /\ Others
  BY <1>0, <1>1 DEF FindActiveHold, ReadHoldLocks, ReadHold, LoadBooking, Serve, Idle
<1>2. ASSUME NEW r \in Revisions, BeginRevision(w, r)
      PROVE  Kept /\ Others
  <2>1. PICK n : req' = [req EXCEPT ![w] = [Idle EXCEPT !.op = "revision", !.step = "rows", !.rev = r,
                                                       !.todo = TouchedNights(r), !.next = n]]
    BY <1>2 DEF BeginRevision, Serve
  <2>2. req'[w].rev = r
    BY <1>0, <2>1 DEF Idle
  <2> QED BY <1>0, <1>2, <2>1, <2>2 DEF BeginRevision
<1>3. ASSUME Finish(w) PROVE Kept /\ Others
  BY <1>0, <1>3 DEF Finish, Serve, Idle
<1>4. ASSUME NEW d, Advance(w, d) PROVE Kept /\ Others
  <2>1. PICK n : req' = [req EXCEPT ![w] = [req[w] EXCEPT !.todo = req[w].todo \ {d}, !.next = n,
                                                          !.wrote = @ \cup {d}]]
    BY <1>4 DEF Advance, Serve
  <2> QED BY <1>0, <2>1 DEF Request
<1>5. ASSUME InsertHold(w) \/ CheckNight(w) \/ UpdateNight(w) \/ MarkCancelled(w), ~Finish(w)
      PROVE  Kept /\ Others
  <2>1. req[w].op # "revision"
    BY <1>5 DEF InsertHold, CheckNight, UpdateNight, MarkCancelled, Base, Requests, Local
  <2>2. ASSUME InsertHold(w) PROVE req'[w].op = req[w].op /\ Others
    BY <1>0, <1>5, <2>2 DEF InsertHold, Serve, Request
  <2>3. ASSUME CheckNight(w) PROVE req'[w].op = req[w].op /\ Others
    BY <1>0, <1>5, <2>3, ZenonT(30) DEF CheckNight, Serve, Request
  <2>4. ASSUME UpdateNight(w) PROVE req'[w].op = req[w].op /\ Others
    BY <1>0, <1>5, <2>4 DEF UpdateNight, Serve, Request
  <2>5. ASSUME MarkCancelled(w) PROVE req'[w].op = req[w].op /\ Others
    BY <1>0, <1>5, <2>5 DEF MarkCancelled, Serve, Request
  <2> QED BY <1>5, <2>1, <2>2, <2>3, <2>4, <2>5
<1>6. Kept /\ Others
  BY <1>1, <1>2, <1>3, <1>4, <1>5 DEF Begin, DeadlockVictim, Crash, Step, CommitHold,
    DecrementNight, DeleteHoldLocks, ConsumeHold, DropBookingLocks, ReserveRow, CommitRevision
<1>7. CommitRevision(w) \/ otaRev' = otaRev
  BY DEF Begin, FindActiveHold, ReadHoldLocks, ReadHold, LoadBooking, BeginRevision, DeadlockVictim,
    Crash, Step, InsertHold, CheckNight, UpdateNight, CommitHold, DecrementNight, DeleteHoldLocks,
    ConsumeHold, MarkCancelled, DropBookingLocks, ReserveRow, otaVars
<1> QED BY <1>6, <1>7

LEMMA RevisionsStep == ASSUME Base, RevisionsCurrent, [Next]_vars PROVE RevisionsCurrent'
<1>1. ASSUME NEW w \in Workers, Begin(w) \/ Step(w) \/ DeadlockVictim(w) \/ Crash(w) PROVE RevisionsCurrent'
  <2>1. CASE otaRev' = otaRev
    BY <1>1, <2>1, RevisionOrOther DEF RevisionsCurrent, Stale
  <2>2. CASE CommitRevision(w)
    <3>1. req'[w] = Idle /\ \A v \in Workers \ {w} : req'[v] = req[v]
      BY <2>2 DEF CommitRevision, Finish, Serve, Base, TypeOK
    <3>2. req[w].op = "revision"
      BY <2>2 DEF CommitRevision, Base, Requests, Local
    <3>3. ASSUME NEW v \in Workers, req'[v].op = "revision"
          PROVE  (req[v].rev \in Revisions /\ ~Stale(req[v].rev))'
      <4>1. v # w /\ req'[v] = req[v]
        BY <3>1, <3>3 DEF Idle
      <4>2. BookingOf[req[v].rev] # BookingOf[req[w].rev]
        BY <3>2, <3>3, <4>1 DEF Base, Requests, Apart
      <4>3. otaRev'[BookingOf[req[v].rev]] = otaRev[BookingOf[req[v].rev]]
        BY <2>2, <4>2 DEF CommitRevision, Base, TypeOK
      <4> QED BY <3>3, <4>1, <4>3 DEF RevisionsCurrent, Stale
    <3> QED BY <3>3 DEF RevisionsCurrent
  <2> QED BY <1>1, <2>1, <2>2, RevisionOrOther
<1> QED BY <1>1 DEF Next, Environment, Expire, SetCapacity, SyncCalendar, vars, otaVars,
  RevisionsCurrent, Stale

\* An imported booking never goes back to an older revision: the advisory lock keeps what
\* persistBookingRevision has read of the booking true until it commits.
THEOREM BookingsOnlyAdvance == Spec => RevisionsAdvance
<1> DEFINE A == \A x \in OtaBookings : otaRev[x] # NoRevision =>
                  /\ otaRev'[x] # NoRevision
                  /\ At[otaRev'[x]] >= At[otaRev[x]]
<1>1. Init => RevisionsCurrent
  BY DEF Init, RevisionsCurrent, Idle
<1>2. Base /\ RevisionsCurrent /\ [Next]_vars => [A]_vars
  <2> SUFFICES ASSUME Base, RevisionsCurrent, Next, NEW x \in OtaBookings, otaRev[x] # NoRevision
               PROVE  otaRev'[x] # NoRevision /\ At[otaRev'[x]] >= At[otaRev[x]]
    OBVIOUS
  <2>0. otaRev \in [OtaBookings -> Revisions \cup {NoRevision}] /\ \A r \in Revisions : At[r] \in Nat
    BY DataAssumption DEF Base, TypeOK
  <2>1. ASSUME otaRev' = otaRev PROVE otaRev'[x] # NoRevision /\ At[otaRev'[x]] >= At[otaRev[x]]
    BY <2>0, <2>1
  <2>2. ASSUME NEW w \in Workers, CommitRevision(w)
        PROVE  otaRev'[x] # NoRevision /\ At[otaRev'[x]] >= At[otaRev[x]]
    <3> DEFINE r == req[w].rev
    <3>1. r \in Revisions /\ ~Stale(r)
      BY <2>2 DEF CommitRevision, RevisionsCurrent, Base, Requests, Local
    <3>2. CASE x = BookingOf[r]
      <4>1. otaRev'[x] = r
        BY <2>0, <2>2, <3>2 DEF CommitRevision
      <4>2. ~(At[otaRev[x]] > At[r])
        BY <3>1, <3>2 DEF Stale
      <4> HIDE DEF r
      <4>3. At[otaRev[x]] \in Nat /\ At[r] \in Nat
        BY <2>0, <3>1
      <4> QED BY <3>1, <4>1, <4>2, <4>3, DataAssumption
    <3>3. CASE x # BookingOf[r]
      BY <2>0, <2>1, <2>2, <3>3 DEF CommitRevision
    <3> QED BY <3>2, <3>3
  <2>3. Environment => otaRev' = otaRev
    BY DEF Environment, Expire, SetCapacity, SyncCalendar, otaVars
  <2> QED BY <2>1, <2>2, <2>3, RevisionOrOther DEF Next
<1>3. Spec => [][Next]_vars
  BY DEF Spec
<1>4. Spec => [](Base /\ RevisionsCurrent)
  BY <1>1, RevisionsStep, InitBase, NextBase, PTL DEF Spec
<1>5. Spec => [][A]_vars
  BY <1>2, <1>3, <1>4, PTL
<1> QED BY <1>5 DEF RevisionsAdvance

-----------------------------------------------------------------------------
(* Counting units of stock. *)

\* The units of one owner are as many as its quantity.
LEMMA StockCardinality ==
  ASSUME NEW o, NEW n \in Nat
  PROVE  IsFiniteSet(Stock(o, n)) /\ Cardinality(Stock(o, n)) = n
<1>1. IsFiniteSet({o}) /\ Cardinality({o}) = 1
  BY FS_Singleton
<1>2. IsFiniteSet(1 .. n) /\ Cardinality(1 .. n) = n
  BY FS_Interval
<1>3. /\ IsFiniteSet({o} \X (1 .. n))
      /\ Cardinality({o} \X (1 .. n)) = Cardinality({o}) * Cardinality(1 .. n)
  BY <1>1, <1>2, FS_Product
<1>4. Cardinality({o}) * Cardinality(1 .. n) = 1 * n
  BY <1>1, <1>2
<1> QED BY <1>3, <1>4 DEF Stock

\* Giving units to an owner that has none adds their number.
LEMMA AddStock ==
  ASSUME NEW R, IsFiniteSet(R), NEW o, NEW n \in Nat, \A e \in R : e[1] # o
  PROVE  /\ IsFiniteSet(R \cup Stock(o, n))
         /\ Cardinality(R \cup Stock(o, n)) = Cardinality(R) + n
<1>1. R \cap Stock(o, n) = {}
  BY DEF Stock
<1>2. IsFiniteSet(Stock(o, n)) /\ Cardinality(Stock(o, n)) = n
  BY StockCardinality
<1>3. /\ IsFiniteSet(R \cup Stock(o, n))
      /\ Cardinality(R \cup Stock(o, n)) =
           Cardinality(R) + Cardinality(Stock(o, n)) - Cardinality(R \cap Stock(o, n))
  BY <1>2, FS_Union
<1>4. Cardinality({}) = 0
  BY FS_EmptySet
<1>5. Cardinality(R) \in Nat
  BY FS_CardinalityType
<1>6. Cardinality(R \cap Stock(o, n)) = 0
  BY <1>1, <1>4
<1> QED BY <1>2, <1>3, <1>5, <1>6

\* Finitely many owners have finitely many units.
LEMMA UnionFinite ==
  ASSUME NEW S, IsFiniteSet(S), NEW q \in [S -> Nat]
  PROVE  IsFiniteSet(UNION {Stock(o, q[o]) : o \in S})
<1> DEFINE T == {Stock(o, q[o]) : o \in S}
           f == [o \in S |-> Stock(o, q[o])]
<1>1. f \in Surjection(S, T)
  BY DEF Surjection
<1>2. IsFiniteSet(T)
  BY <1>1, FS_Surjection
<1>3. \A t \in T : IsFiniteSet(t)
  BY StockCardinality
<1> QED BY <1>2, <1>3, FS_UNION

LEMMA HoldStockFinite ==
  ASSUME NEW hs \in SUBSET Holds, NEW d
  PROVE  IsFiniteSet(HoldStock(hs, d)) /\ \A e \in HoldStock(hs, d) : e[1] \in hs
<1> USE DataAssumption
<1> DEFINE S == {g \in hs : d \in Nights[g]}
           q == [g \in S |-> Rooms[g]]
<1>1. IsFiniteSet(S)
  BY FS_Subset
<1>2. q \in [S -> Nat]
  OBVIOUS
<1>3. IsFiniteSet(UNION {Stock(o, q[o]) : o \in S})
  <2> HIDE DEF q, S
  <2> QED BY <1>1, <1>2, UnionFinite
<1>4. UNION {Stock(o, q[o]) : o \in S} = HoldStock(hs, d)
  BY DEF HoldStock
<1>5. \A e \in HoldStock(hs, d) : e[1] \in hs
  BY DEF HoldStock, Stock
<1> QED BY <1>3, <1>4, <1>5

\* One owner's units apart from the others'.
LEMMA UnionSplits ==
  ASSUME NEW S, NEW x \in S, NEW q
  PROVE  UNION {Stock(o, q[o]) : o \in S}
           = (UNION {Stock(o, q[o]) : o \in S \ {x}}) \cup Stock(x, q[x])
OBVIOUS

\* The imported stock without, and with, one imported booking.
OthersStock(x, d) == UNION {Stock(y, ota[y][d]) : y \in OtaBookings \ {x}}

LEMMA AllOtaStockFinite ==
  ASSUME TypeOK, NEW d \in Dates
  PROVE  IsFiniteSet(OtaStock(d)) /\ \A e \in OtaStock(d) : e[1] \in OtaBookings
<1> USE DataAssumption
<1> DEFINE q == [y \in OtaBookings |-> ota[y][d]]
<1>1. q \in [OtaBookings -> Nat]
  BY DEF TypeOK
<1>2. IsFiniteSet(UNION {Stock(o, q[o]) : o \in OtaBookings})
  <2> HIDE DEF q
  <2> QED BY <1>1, UnionFinite
<1>3. UNION {Stock(o, q[o]) : o \in OtaBookings} = OtaStock(d)
  BY DEF OtaStock
<1>4. \A e \in OtaStock(d) : e[1] \in OtaBookings
  BY DEF OtaStock, Stock
<1> QED BY <1>2, <1>3, <1>4

LEMMA OtaStockSplits ==
  ASSUME TypeOK, NEW x \in OtaBookings, NEW d \in Dates
  PROVE  /\ IsFiniteSet(OthersStock(x, d))
         /\ \A e \in OthersStock(x, d) : e[1] \in OtaBookings \ {x}
         /\ OtaStock(d) = OthersStock(x, d) \cup Stock(x, ota[x][d])
<1> USE DataAssumption
<1> DEFINE S == OtaBookings \ {x}
           q == [y \in S |-> ota[y][d]]
<1>1. IsFiniteSet(S)
  BY FS_Subset
<1>2. q \in [S -> Nat] /\ ota[x][d] \in Nat
  BY DEF TypeOK
<1>3. IsFiniteSet(UNION {Stock(o, q[o]) : o \in S})
  <2> HIDE DEF q, S
  <2> QED BY <1>1, <1>2, UnionFinite
<1>4. UNION {Stock(o, q[o]) : o \in S} = OthersStock(x, d)
  BY DEF OthersStock
<1>5. OtaStock(d) = OthersStock(x, d) \cup Stock(x, ota[x][d])
  BY DEF OtaStock, OthersStock
<1>6. \A e \in OthersStock(x, d) : e[1] \in OtaBookings \ {x}
  BY DEF OthersStock, Stock
<1> QED BY <1>3, <1>4, <1>5, <1>6
-----------------------------------------------------------------------------
(* The ledger: reservedCount counts the granted units, and no other. *)

Ledger == \A d \in Dates : reserved[d] = Cardinality(HoldStock(holdRows, d) \cup OtaStock(d))

LEMMA LedgerUnchanged ==
  Ledger /\ UNCHANGED <<reserved, holdRows, ota>> => Ledger'
BY DEF Ledger, HoldStock, OtaStock

LEMMA CommitHoldLedger ==
  ASSUME Base, Ledger, NEW w \in Workers, CommitHold(w)
  PROVE  Ledger'
<1> USE DataAssumption
<1> DEFINE h == req[w].hold
<1>0. req[w] \in Request /\ Local(req[w]) /\ req[w].step = "check" /\ req[w].todo = {}
  BY DEF Base, TypeOK, Requests, CommitHold
<1>1. /\ h \in Holds /\ h \notin holdRows /\ req[w].wrote = Nights[h] /\ Rooms[h] \in Nat
  BY <1>0 DEF Local
<1>2. /\ holdRows' = holdRows \cup {h} /\ ota' = ota
      /\ reserved' = [d \in Dates |-> IF d \in Nights[h] THEN reserved[d] + Rooms[h]
                                                         ELSE reserved[d]]
  BY <1>1 DEF CommitHold, otaVars
<1> HIDE DEF h
<1>3. holdRows \in SUBSET Holds /\ TypeOK
  BY DEF Base, TypeOK
<1>4. ASSUME NEW d \in Dates
      PROVE  reserved'[d] = Cardinality(HoldStock(holdRows', d) \cup OtaStock(d))
  <2> DEFINE R == HoldStock(holdRows, d) \cup OtaStock(d)
  <2>1. reserved[d] = Cardinality(R)
    BY DEF Ledger
  <2>2. CASE d \notin Nights[h]
    <3>1. HoldStock(holdRows', d) = HoldStock(holdRows, d)
      BY <1>2, <2>2 DEF HoldStock
    <3> QED BY <1>2, <2>1, <2>2, <3>1
  <2>3. CASE d \in Nights[h]
    <3>1. HoldStock(holdRows', d) = HoldStock(holdRows, d) \cup Stock(h, Rooms[h])
      BY <1>2, <2>3 DEF HoldStock
    <3>2. HoldStock(holdRows', d) \cup OtaStock(d) = R \cup Stock(h, Rooms[h])
      BY <3>1
    <3>3. IsFiniteSet(R)
      <4>1. IsFiniteSet(HoldStock(holdRows, d))
        BY <1>3, HoldStockFinite
      <4>2. IsFiniteSet(OtaStock(d))
        BY <1>3, AllOtaStockFinite
      <4> QED BY <4>1, <4>2, FS_Union
    <3>4. \A e \in R : e[1] # h
      <4>1. \A e \in HoldStock(holdRows, d) : e[1] \in holdRows
        BY <1>3, HoldStockFinite
      <4>2. \A e \in OtaStock(d) : e[1] \in OtaBookings
        BY <1>3, AllOtaStockFinite
      <4>3. h \notin OtaBookings
        BY <1>1
      <4> QED BY <1>1, <4>1, <4>2, <4>3
    <3>5. Cardinality(R \cup Stock(h, Rooms[h])) = Cardinality(R) + Rooms[h]
      <4> HIDE DEF R
      <4> QED BY <1>1, <3>3, <3>4, AddStock
    <3>6. reserved'[d] = reserved[d] + Rooms[h]
      BY <1>2, <2>3
    <3> QED BY <2>1, <3>2, <3>5, <3>6
  <2> QED BY <2>2, <2>3
<1>5. \A d \in Dates : OtaStock(d)' = OtaStock(d)
  BY <1>2 DEF OtaStock
<1>6. \A d \in Dates : HoldStock(holdRows, d)' = HoldStock(holdRows', d)
  BY DEF HoldStock
<1> QED BY <1>4, <1>5, <1>6 DEF Ledger

LEMMA CommitRevisionLedger ==
  ASSUME Base, Ledger, NEW w \in Workers, CommitRevision(w)
  PROVE  Ledger'
<1> USE DataAssumption
<1> DEFINE r == req[w].rev
           x == BookingOf[r]
<1>0. req[w] \in Request /\ Local(req[w]) /\ req[w].step = "rows" /\ req[w].todo = {} /\ TypeOK
  BY DEF Base, TypeOK, Requests, CommitRevision
<1>1. /\ r \in Revisions /\ x \in OtaBookings /\ req[w].wrote = TouchedNights(r)
  BY <1>0 DEF Local
<1> HIDE DEF r
<1>2. /\ holdRows' = holdRows
      /\ ota'[x] = [d \in Dates |-> Desired(r, d)]
      /\ \A y \in OtaBookings \ {x} : ota'[y] = ota[y]
  BY <1>0, <1>1 DEF CommitRevision, r, TypeOK
<1>3. \A d \in Dates : /\ Desired(r, d) \in Nat /\ ota[x][d] \in Nat /\ reserved[d] \in Nat
                       /\ ota'[x][d] = Desired(r, d)
  BY <1>1, <1>2, CountsAreNat
<1>4. ASSUME NEW d \in Dates
      PROVE  reserved'[d] = (reserved[d] + Desired(r, d)) - ota[x][d]
  <2>1. CASE d \in req[w].wrote
    BY <2>1 DEF CommitRevision, r
  <2>2. CASE d \notin req[w].wrote
    <3>1. Desired(r, d) = 0 /\ ota[x][d] = 0
      BY <1>1, <1>3, <2>2 DEF TouchedNights
    <3>2. reserved'[d] = reserved[d]
      BY <2>2 DEF CommitRevision
    <3> QED BY <1>3, <3>1, <3>2
  <2> QED BY <2>1, <2>2
<1> HIDE DEF x
<1>5. ASSUME NEW d \in Dates
      PROVE  reserved'[d] = Cardinality(HoldStock(holdRows, d) \cup OtaStock(d)')
  <2> DEFINE R == HoldStock(holdRows, d) \cup OthersStock(x, d)
  <2>1. /\ OtaStock(d) = OthersStock(x, d) \cup Stock(x, ota[x][d])
        /\ IsFiniteSet(OthersStock(x, d))
        /\ \A e \in OthersStock(x, d) : e[1] \in OtaBookings \ {x}
    BY <1>0, <1>1, OtaStockSplits
  <2>2. OtaStock(d)' = OthersStock(x, d) \cup Stock(x, Desired(r, d))
    <3> DEFINE q == [y \in OtaBookings |-> ota'[y][d]]
    <3>1. OtaStock(d)' = UNION {Stock(y, q[y]) : y \in OtaBookings}
      BY DEF OtaStock
    <3>2. \A y \in OtaBookings \ {x} : q[y] = ota[y][d]
      BY <1>2
    <3>3. q[x] = Desired(r, d)
      BY <1>1, <1>3
    <3> HIDE DEF q
    <3>4. UNION {Stock(y, q[y]) : y \in OtaBookings}
            = (UNION {Stock(y, q[y]) : y \in OtaBookings \ {x}}) \cup Stock(x, q[x])
      BY <1>1, UnionSplits
    <3>5. UNION {Stock(y, q[y]) : y \in OtaBookings \ {x}} = OthersStock(x, d)
      BY <3>2 DEF OthersStock
    <3>6. Stock(x, q[x]) = Stock(x, Desired(r, d))
      BY <3>3
    <3> QED BY <3>1, <3>4, <3>5, <3>6
  <2>3. IsFiniteSet(HoldStock(holdRows, d)) /\ \A e \in HoldStock(holdRows, d) : e[1] \in Holds
    <3>1. holdRows \in SUBSET Holds
      BY <1>0 DEF TypeOK
    <3> QED BY <3>1, HoldStockFinite
  <2>4. IsFiniteSet(R) /\ \A e \in R : e[1] # x
    <3>1. IsFiniteSet(R)
      BY <2>1, <2>3, FS_Union
    <3>2. x \notin Holds
      BY <1>1
    <3> QED BY <2>1, <2>3, <3>1, <3>2
  <2>5. /\ HoldStock(holdRows, d) \cup OtaStock(d) = R \cup Stock(x, ota[x][d])
        /\ HoldStock(holdRows, d) \cup OtaStock(d)' = R \cup Stock(x, Desired(r, d))
    BY <2>1, <2>2
  <2>6. /\ Cardinality(R \cup Stock(x, ota[x][d])) = Cardinality(R) + ota[x][d]
        /\ Cardinality(R \cup Stock(x, Desired(r, d))) = Cardinality(R) + Desired(r, d)
        /\ Cardinality(R) \in Nat
    <3> HIDE DEF R
    <3> QED BY <1>3, <2>4, AddStock, FS_CardinalityType
  <2>7. reserved[d] = Cardinality(R) + ota[x][d]
    BY <2>5, <2>6 DEF Ledger
  <2>8. reserved'[d] = Cardinality(R) + Desired(r, d)
    BY <1>3, <1>4, <2>6, <2>7 DEF x
  <2> QED BY <2>5, <2>6, <2>8
<1>6. \A d \in Dates : HoldStock(holdRows, d)' = HoldStock(holdRows, d)
  BY <1>2 DEF HoldStock
<1> QED BY <1>5, <1>6 DEF Ledger

LEMMA NextLedger ==
  ASSUME ~ScalarMax, Base, Ledger, [Next]_vars
  PROVE  Ledger'
<1> USE LedgerUnchanged
<1>1. CASE UNCHANGED vars
  BY <1>1 DEF vars
<1>2. ASSUME NEW w \in Workers, Begin(w) \/ DeadlockVictim(w) \/ Crash(w) PROVE Ledger'
  BY <1>2 DEF Begin, FindActiveHold, ReadHoldLocks, ReadHold, LoadBooking, BeginRevision,
              DeadlockVictim, Crash, inventoryVars, otaVars
<1>3. CASE Environment
  BY <1>3 DEF Environment, Expire, SetCapacity, SyncCalendar, inventoryVars, otaVars
<1>4. ASSUME NEW w \in Workers, Step(w) PROVE Ledger'
  <2>1. ~DeleteHoldLocks(w)
    \* Without a scalar max the release never gets past its first UPDATE.
    BY DEF DeleteHoldLocks, Base, Requests, Local
  <2>2. CASE \/ InsertHold(w) \/ CheckNight(w) \/ UpdateNight(w) \/ DecrementNight(w)
             \/ ConsumeHold(w) \/ MarkCancelled(w) \/ DropBookingLocks(w) \/ ReserveRow(w)
    BY <2>2 DEF InsertHold, CheckNight, UpdateNight, DecrementNight, ConsumeHold,
                MarkCancelled, DropBookingLocks, ReserveRow, inventoryVars, otaVars
  <2> QED BY <1>4, <2>1, <2>2, CommitHoldLedger, CommitRevisionLedger DEF Step
<1> QED BY <1>1, <1>2, <1>3, <1>4 DEF Next

LEMMA InitLedger ==
  ASSUME Init
  PROVE  Ledger
<1>1. ASSUME NEW d \in Dates PROVE HoldStock(holdRows, d) \cup OtaStock(d) = {}
  <2>1. HoldStock(holdRows, d) = {}
    BY DEF Init, HoldStock
  <2>2. \A x \in OtaBookings : ota[x][d] = 0
    BY DEF Init
  <2>3. \A x \in OtaBookings : Stock(x, 0) = {}
    BY DEF Stock
  <2>4. OtaStock(d) = {}
    BY <2>2, <2>3 DEF OtaStock
  <2> QED BY <2>1, <2>4
<1>2. Cardinality({}) = 0
  BY FS_EmptySet
<1> QED BY <1>1, <1>2 DEF Ledger, Init

\* The ledger: on PostgreSQL, which has no two-argument max(), reservedCount is the
\* units of the holds ever granted plus the imported bookings' current locks; no
\* interleaving of holdInventory, releaseHold, the confirmation, the cancellation
\* and persistBookingRevision loses or doubles a unit.
THEOREM LedgerExact ==
  ASSUME ~ScalarMax
  PROVE  Spec => []ReservedLedger
<1>1. Init => Base /\ Ledger
  BY InitBase, InitLedger
<1>2. Base /\ Ledger /\ [Next]_vars => (Base /\ Ledger)'
  BY NextBase, NextLedger
<1>3. Ledger => ReservedLedger
  BY DEF Ledger, ReservedLedger
<1> QED BY <1>1, <1>2, <1>3, PTL DEF Spec

\* A locked unit is a granted unit, so the ledger covers it.
LEMMA LockedIsCounted ==
  ASSUME Base, Ledger
  PROVE  ReservedCoversLocks /\ NoOverbooking
<1> USE DataAssumption
<1>1. ASSUME NEW d \in Dates
      PROVE  Cardinality(LockedStock(d)) <= reserved[d] /\ reserved[d] <= total[d]
                /\ Cardinality(LockedStock(d)) \in Nat
  <2> DEFINE G == HoldStock(holdRows, d) \cup OtaStock(d)
  <2>1. TypeOK /\ holdRows \in SUBSET Holds
    BY DEF Base, TypeOK
  <2>2. IsFiniteSet(G)
    BY <2>1, HoldStockFinite, AllOtaStockFinite, FS_Union
  <2>3. LockedStock(d) \subseteq G
    <3>1. {h \in Holds : lock[h] # "none"} \subseteq holdRows
      BY DEF Base, Granted
    <3> QED BY <3>1 DEF LockedStock, HoldStock
  <2>4. /\ Cardinality(LockedStock(d)) <= Cardinality(G)
        /\ IsFiniteSet(LockedStock(d))
    <3> HIDE DEF G
    <3> QED BY <2>2, <2>3, FS_Subset
  <2>5. reserved[d] = Cardinality(G)
    BY DEF Ledger
  <2>6. reserved[d] <= total[d]
    BY DEF Base, DailyInventoryCheck
  <2> QED BY <2>4, <2>5, <2>6, FS_CardinalityType
<1>2. \A d \in Dates : reserved[d] \in Nat /\ total[d] \in Nat
  BY DEF Base, TypeOK
<1> QED BY <1>1, <1>2 DEF ReservedCoversLocks, NoOverbooking

\* On PostgreSQL the counter that holdInventory and applyInventoryInsideTransaction
\* check covers every unit an InventoryLock row claims.
THEOREM LocksCovered ==
  ASSUME ~ScalarMax
  PROVE  Spec => []ReservedCoversLocks
<1>1. Init => Base /\ Ledger
  BY InitBase, InitLedger
<1>2. Base /\ Ledger /\ [Next]_vars => (Base /\ Ledger)'
  BY NextBase, NextLedger
<1>3. Base /\ Ledger => ReservedCoversLocks
  BY LockedIsCounted
<1> QED BY <1>1, <1>2, <1>3, PTL DEF Spec

\* On PostgreSQL no night is sold twice: its lock rows claim at most its total.
THEOREM NeverOverbooked ==
  ASSUME ~ScalarMax
  PROVE  Spec => []NoOverbooking
<1>1. Init => Base /\ Ledger
  BY InitBase, InitLedger
<1>2. Base /\ Ledger /\ [Next]_vars => (Base /\ Ledger)'
  BY NextBase, NextLedger
<1>3. Base /\ Ledger => NoOverbooking
  BY LockedIsCounted
<1> QED BY <1>1, <1>2, <1>3, PTL DEF Spec
=============================================================================
