----------------------------- MODULE HoldBooking -----------------------------
(***************************************************************************)
(* Stock of one sellable variant: holds, bookings made from holds,         *)
(* cancellations and channel-manager (OTA) booking revisions, all writing  *)
(* the DailyInventory and InventoryLock tables of one PostgreSQL database. *)
(*                                                                         *)
(* A worker is a server process serving one request.  Every action is one  *)
(* statement of its READ COMMITTED transaction (or the last statement and  *)
(* the commit).  A transaction's writes become visible at its commit; a    *)
(* DailyInventory row it has updated stays row-locked until then, which is *)
(* what req[w].wrote records.  The row's new value is therefore a function *)
(* of the committed value, and is computed at the commit.                  *)
(***************************************************************************)
EXTENDS Integers, FiniteSets

CONSTANTS
  Workers,      \* server processes
  Dates,        \* the nights of the variant that have a DailyInventory row
  Holds,        \* deterministic hold ids: one per session and selection
  Nights,       \* Nights[h]: the nights hold id h stands for
  Rooms,        \* Rooms[h]: the quantity hold id h stands for
  OtaBookings,  \* bookings imported from the channel manager
  Revisions,    \* revisions the channel manager may deliver, in any order
  BookingOf,    \* BookingOf[r]: the imported booking revision r is about
  At,           \* At[r]: the revision's insertedAt
  Wants,        \* Wants[r][d]: rooms the revision wants on night d
  Cancels,      \* Cancels[r]: the revision's status is "cancelled"
  Capacities,   \* totals an operator may set for a night
  Blocks,       \* how many active external calendar events a night may have
  ScalarMax,    \* does the database have the two-argument max() releaseHold uses
  Crashes,      \* may a worker die in the middle of a request
  NoHold, NoRevision, NoDate

ASSUME DataAssumption ==
  /\ Dates \subseteq Nat /\ IsFiniteSet(Dates) /\ NoDate \notin Dates
  /\ IsFiniteSet(Holds) /\ NoHold \notin Holds
  /\ Nights \in [Holds -> (SUBSET Dates) \ {{}}]
  /\ Rooms \in [Holds -> Nat \ {0}]
  /\ IsFiniteSet(OtaBookings) /\ Holds \cap OtaBookings = {}
  /\ NoRevision \notin Revisions
  /\ BookingOf \in [Revisions -> OtaBookings]
  /\ At \in [Revisions -> Nat]
  /\ Wants \in [Revisions -> [Dates -> Nat]]
  /\ Cancels \in [Revisions -> BOOLEAN]
  /\ Capacities \subseteq Nat /\ Blocks \subseteq Nat /\ 0 \in Blocks
  /\ ScalarMax \in BOOLEAN /\ Crashes \in BOOLEAN

VARIABLES
  total,     \* DailyInventory.totalInventory
  reserved,  \* DailyInventory.reservedCount
  ext,       \* active ProviderExternalCalendarEvent rows covering the night
  holdRows,  \* primary keys of the Hold table
  lock,      \* the InventoryLock rows of a hold: none, bookingId null, bookingId set
  expired,   \* holds whose locks' expiresAt has passed
  bookings,  \* how many Booking rows were created from a hold
  status,    \* Booking.status of the booking made from a hold
  ota,       \* InventoryLock rows of an imported booking, by night
  otaRev,    \* Booking.externalRevisionId of an imported booking
  req        \* what each worker is doing

vars == <<total, reserved, ext, holdRows, lock, expired, bookings, status,
          ota, otaRev, req>>

Ops == {"idle", "hold", "release", "confirm", "cancel", "revision"}
Steps == {"idle", "insert", "check", "update", "decrement", "consume",
          "mark", "drop", "rows"}

Request == [op : Ops, step : Steps, hold : Holds \cup {NoHold},
            rev : Revisions \cup {NoRevision},
            todo : SUBSET Dates,           \* nights still to be written
            next : Dates \cup {NoDate},    \* the night the next UPDATE is for
            wrote : SUBSET Dates]          \* rows this transaction has locked

Idle == [op |-> "idle", step |-> "idle", hold |-> NoHold, rev |-> NoRevision,
         todo |-> {}, next |-> NoDate, wrote |-> {}]

TypeOK ==
  /\ total \in [Dates -> Nat]
  /\ reserved \in [Dates -> Nat]
  /\ ext \in [Dates -> Blocks]
  /\ holdRows \subseteq Holds
  /\ lock \in [Holds -> {"none", "held", "booked"}]
  /\ expired \subseteq Holds
  /\ bookings \in [Holds -> Nat]
  /\ status \in [Holds -> {"none", "confirmed", "cancelled"}]
  /\ ota \in [OtaBookings -> [Dates -> Nat]]
  /\ otaRev \in [OtaBookings -> Revisions \cup {NoRevision}]
  /\ req \in [Workers -> Request]

Init ==
  /\ total \in [Dates -> Capacities]
  /\ reserved = [d \in Dates |-> 0]
  /\ ext = [d \in Dates |-> 0]
  /\ holdRows = {}
  /\ lock = [h \in Holds |-> "none"]
  /\ expired = {}
  /\ bookings = [h \in Holds |-> 0]
  /\ status = [h \in Holds |-> "none"]
  /\ ota = [x \in OtaBookings |-> [d \in Dates |-> 0]]
  /\ otaRev = [x \in OtaBookings |-> NoRevision]
  /\ req = [w \in Workers |-> Idle]

-----------------------------------------------------------------------------
(***************************************************************************)
(* Units of stock.  Every unit taken from a night is a pair <<owner, i>>,  *)
(* so that a sum of quantities is the cardinality of a set.                *)
(***************************************************************************)
Stock(owner, n) == {owner} \X (1 .. n)

HoldStock(hs, d) == UNION {Stock(h, Rooms[h]) : h \in {g \in hs : d \in Nights[g]}}

OtaStock(d) == UNION {Stock(x, ota[x][d]) : x \in OtaBookings}

\* The holds whose lock rows holdInventory counts as heldUnits or bookedUnits.
Counted == {h \in Holds : lock[h] = "booked" \/ (lock[h] = "held" /\ h \notin expired)}

CountedUnits(d) == Cardinality(HoldStock(Counted, d) \cup OtaStock(d))

-----------------------------------------------------------------------------
(* Transactions. *)

\* Mutant: writers do not wait for each other's rows.
RowNeverLocked(d) == TRUE

\* No open transaction has locked the DailyInventory row of night d.
RowFree(d) == \A w \in Workers : d \notin req[w].wrote

Serve(w, r) == req' = [req EXCEPT ![w] = r]

\* The request ends: the response is sent, or the transaction is rolled back.
Finish(w) == Serve(w, Idle)

\* The rest of the rows to write, in whatever order the query returned them.
Advance(w, d) ==
  LET rest == req[w].todo \ {d} IN
  \E n \in (IF rest = {} THEN {NoDate} ELSE rest) :
    Serve(w, [req[w] EXCEPT !.todo = rest, !.next = n, !.wrote = @ \cup {d}])

inventoryVars == <<total, reserved, ext>>
otaVars == <<ota, otaRev>>
bookingVars == <<bookings, status>>

-----------------------------------------------------------------------------
(* POST /api/inventory/hold: createInventoryHold, then holdInventory. *)

\* findActiveHold returned nothing; an active hold would be returned as it is.
FindActiveHold(w, h) ==
  /\ req[w].op = "idle"
  /\ ~(lock[h] = "held" /\ h \notin expired)
  /\ Serve(w, [Idle EXCEPT !.op = "hold", !.step = "insert", !.hold = h])
  /\ UNCHANGED <<inventoryVars, holdRows, lock, expired, bookingVars, otaVars>>

\* Another transaction inserted the same primary key and is still open.
KeyPending(w, h) ==
  \E v \in Workers \ {w} : req[v].hold = h /\ req[v].step \in {"check", "update"}

\* Mutant: the Hold row is inserted whether or not the id was used before.
InsertAnyHold(w) ==
  LET h == req[w].hold IN
  /\ req[w].step = "insert"
  /\ ~KeyPending(w, h)
  /\ Serve(w, [req[w] EXCEPT !.step = "check", !.todo = Nights[h]])
  /\ UNCHANGED <<inventoryVars, holdRows, lock, expired, bookingVars, otaVars>>

\* Mutant: a unique_violation is retried as if it were a lock timeout.
InsertHoldAgain(w) ==
  LET h == req[w].hold IN
  /\ req[w].step = "insert"
  /\ h \notin holdRows
  /\ ~KeyPending(w, h)
  /\ Serve(w, [req[w] EXCEPT !.step = "check", !.todo = Nights[h]])
  /\ UNCHANGED <<inventoryVars, holdRows, lock, expired, bookingVars, otaVars>>

InsertHold(w) ==
  LET h == req[w].hold IN
  /\ req[w].step = "insert"
  /\ ~KeyPending(w, h)
  /\ IF h \in holdRows
       THEN Finish(w)     \* unique_violation, rethrown
       ELSE Serve(w, [req[w] EXCEPT !.step = "check", !.todo = Nights[h]])
  /\ UNCHANGED <<inventoryVars, holdRows, lock, expired, bookingVars, otaVars>>

\* The SELECTs for one night: they only refuse, nothing is locked yet.
Sellable(d, q) ==
  /\ CountedUnits(d) + ext[d] + q <= total[d]
  /\ reserved[d] + q <= total[d]

\* Mutant: the nights are visited in any order.
CheckAnyNight(w) ==
  /\ req[w].step = "check"
  /\ \E d \in req[w].todo :
       IF Sellable(d, Rooms[req[w].hold])
         THEN Serve(w, [req[w] EXCEPT !.step = "update", !.next = d])
         ELSE Finish(w)
  /\ UNCHANGED <<inventoryVars, holdRows, lock, expired, bookingVars, otaVars>>

CheckNight(w) ==
  /\ req[w].step = "check"
  /\ \E d \in req[w].todo :
       /\ \A e \in req[w].todo : d <= e
       /\ IF Sellable(d, Rooms[req[w].hold])
            THEN Serve(w, [req[w] EXCEPT !.step = "update", !.next = d])
            ELSE Finish(w)
  /\ UNCHANGED <<inventoryVars, holdRows, lock, expired, bookingVars, otaVars>>

\* The WHERE clause of the guarded increment, re-evaluated on the locked row.
Increments(d, q) == reserved[d] + q + ext[d] <= total[d]

UpdateNight(w) ==
  LET d == req[w].next IN
  /\ req[w].step = "update"
  /\ RowFree(d)
  /\ IF Increments(d, Rooms[req[w].hold])
       THEN Serve(w, [req[w] EXCEPT !.step = "check", !.todo = @ \ {d},
                                    !.next = NoDate, !.wrote = @ \cup {d}])
       ELSE Finish(w)
  /\ UNCHANGED <<inventoryVars, holdRows, lock, expired, bookingVars, otaVars>>

CommitHold(w) ==
  LET h == req[w].hold IN
  /\ req[w].step = "check"
  /\ req[w].todo = {}
  /\ holdRows' = holdRows \cup {h}
  /\ lock' = [lock EXCEPT ![h] = "held"]
  /\ reserved' = [d \in Dates |->
                    IF d \in req[w].wrote THEN reserved[d] + Rooms[h] ELSE reserved[d]]
  /\ Finish(w)
  /\ UNCHANGED <<total, ext, expired, bookingVars, otaVars>>

\* expiresAt passes.  A hold id is granted once, so it never becomes unexpired.
Expire(h) ==
  /\ lock[h] = "held"
  /\ h \notin expired
  /\ expired' = expired \cup {h}
  /\ UNCHANGED <<inventoryVars, holdRows, lock, bookingVars, otaVars, req>>

-----------------------------------------------------------------------------
(* releaseHold, called by the guest's release and by the expired-hold sweep. *)

\* The SELECT of the rows without a booking; none means released = false.
ReadHoldLocks(w, h) ==
  /\ req[w].op = "idle"
  /\ lock[h] = "held"
  /\ \E n \in Nights[h] :
       Serve(w, [Idle EXCEPT !.op = "release", !.step = "decrement", !.hold = h,
                             !.todo = Nights[h], !.next = n])
  /\ UNCHANGED <<inventoryVars, holdRows, lock, expired, bookingVars, otaVars>>

\* SET reservedCount = max(0, reservedCount - quantity): without a scalar max the
\* statement does not parse and the transaction is rolled back.
DecrementNight(w) ==
  /\ req[w].step = "decrement"
  /\ req[w].todo # {}
  /\ \/ ~ScalarMax /\ Finish(w)
     \/ ScalarMax /\ RowFree(req[w].next) /\ Advance(w, req[w].next)
  /\ UNCHANGED <<inventoryVars, holdRows, lock, expired, bookingVars, otaVars>>

\* Mutant: the DELETE does not ask again for bookingId IS NULL.
AfterDeleteAll(h) == "none"

\* The rows that still have no booking when the DELETE reaches them.
AfterDelete(h) == IF lock[h] = "held" THEN "none" ELSE lock[h]

\* Mutant: without the floor at zero.
DecreasedBelowZero(n, q) == n - q

Decreased(n, q) == IF n >= q THEN n - q ELSE 0

DeleteHoldLocks(w) ==
  LET h == req[w].hold IN
  /\ req[w].step = "decrement"
  /\ req[w].todo = {}
  /\ lock' = [lock EXCEPT ![h] = AfterDelete(h)]
  /\ reserved' = [d \in Dates |->
                    IF d \in req[w].wrote THEN Decreased(reserved[d], Rooms[h])
                                          ELSE reserved[d]]
  /\ Finish(w)
  /\ UNCHANGED <<total, ext, holdRows, expired, bookingVars, otaVars>>

-----------------------------------------------------------------------------
(* POST /api/booking/confirm: createBookingFromHold. *)

\* The rows are read: none, linked to a booking or expired ends the request.
ReadHold(w, h) ==
  /\ req[w].op = "idle"
  /\ lock[h] = "held"
  /\ h \notin expired
  /\ Serve(w, [Idle EXCEPT !.op = "confirm", !.step = "consume", !.hold = h])
  /\ UNCHANGED <<inventoryVars, holdRows, lock, expired, bookingVars, otaVars>>

\* Mutants: the linked rows are not counted; only a row already linked is refused.
ConsumesAlways(h) == TRUE
ConsumesUnlinked(h) == lock[h] # "booked"

\* The UPDATE links as many rows as were read; otherwise everything is rolled back.
Consumes(h) == lock[h] = "held"

ConsumeHold(w) ==
  LET h == req[w].hold IN
  /\ req[w].step = "consume"
  /\ IF Consumes(h)
       THEN /\ lock' = [lock EXCEPT ![h] = "booked"]
            /\ bookings' = [bookings EXCEPT ![h] = @ + 1]
            /\ status' = [status EXCEPT ![h] = "confirmed"]
       ELSE UNCHANGED <<lock, bookings, status>>
  /\ Finish(w)
  /\ UNCHANGED <<inventoryVars, holdRows, expired, otaVars>>

-----------------------------------------------------------------------------
(* POST /api/booking/cancel: two statements, each its own transaction. *)

LoadBooking(w, h) ==
  /\ req[w].op = "idle"
  /\ bookings[h] > 0
  /\ Serve(w, [Idle EXCEPT !.op = "cancel", !.step = "mark", !.hold = h])
  /\ UNCHANGED <<inventoryVars, holdRows, lock, expired, bookingVars, otaVars>>

MarkCancelled(w) ==
  /\ req[w].step = "mark"
  /\ status' = [status EXCEPT ![req[w].hold] = "cancelled"]
  /\ Serve(w, [req[w] EXCEPT !.step = "drop"])
  /\ UNCHANGED <<inventoryVars, holdRows, lock, expired, bookings, otaVars>>

\* DELETE FROM InventoryLock WHERE bookingId = ...; reservedCount is left as it is.
DropBookingLocks(w) ==
  LET h == req[w].hold IN
  /\ req[w].step = "drop"
  /\ lock' = [lock EXCEPT ![h] = IF @ = "booked" THEN "none" ELSE @]
  /\ Finish(w)
  /\ UNCHANGED <<inventoryVars, holdRows, expired, bookingVars, otaVars>>

-----------------------------------------------------------------------------
(* persistBookingRevision: one imported revision, applied or ignored. *)

\* Mutant: no advisory lock.
NoRevisionPending(w, x) == FALSE

\* Another transaction holds the advisory lock of the external booking.
RevisionPending(w, x) ==
  \E v \in Workers \ {w} : req[v].op = "revision" /\ BookingOf[req[v].rev] = x

\* Mutant: only the revision applied last is recognised.
StaleOnlySame(r) == otaRev[BookingOf[r]] = r

\* A revision already applied, or older than the one applied, changes nothing.
Stale(r) ==
  LET last == otaRev[BookingOf[r]] IN
  last # NoRevision /\ (last = r \/ At[last] > At[r])

\* A cancelled revision wants nothing.
Desired(r, d) == IF Cancels[r] THEN 0 ELSE Wants[r][d]

TouchedNights(r) ==
  {d \in Dates : ota[BookingOf[r]][d] > 0 \/ Desired(r, d) > 0}

BeginRevision(w, r) ==
  /\ req[w].op = "idle"
  /\ ~RevisionPending(w, BookingOf[r])
  /\ ~Stale(r)
  /\ Cancels[r] => otaRev[BookingOf[r]] # NoRevision
  /\ \E n \in (IF TouchedNights(r) = {} THEN {NoDate} ELSE TouchedNights(r)) :
       Serve(w, [Idle EXCEPT !.op = "revision", !.step = "rows", !.rev = r,
                             !.todo = TouchedNights(r), !.next = n])
  /\ UNCHANGED <<inventoryVars, holdRows, lock, expired, bookingVars, otaVars>>

\* Mutant: only the lower bound of nextReserved is checked.
FitsBelow(r, d) == reserved[d] + Desired(r, d) >= ota[BookingOf[r]][d]

\* delta = desired - old, so nextReserved = reserved + desired - old.
Fits(r, d) ==
  LET old == ota[BookingOf[r]][d] IN
  /\ reserved[d] + Desired(r, d) >= old
  /\ reserved[d] + Desired(r, d) + ext[d] <= total[d] + old

\* SELECT ... FOR UPDATE, the capacity check and the UPDATE of one row.
ReserveRow(w) ==
  LET d == req[w].next IN
  /\ req[w].step = "rows"
  /\ req[w].todo # {}
  /\ RowFree(d)
  /\ IF Fits(req[w].rev, d) THEN Advance(w, d) ELSE Finish(w)
  /\ UNCHANGED <<inventoryVars, holdRows, lock, expired, bookingVars, otaVars>>

CommitRevision(w) ==
  LET r == req[w].rev
      x == BookingOf[r] IN
  /\ req[w].step = "rows"
  /\ req[w].todo = {}
  /\ reserved' = [d \in Dates |->
                    IF d \in req[w].wrote
                      THEN (reserved[d] + Desired(r, d)) - ota[x][d] ELSE reserved[d]]
  /\ ota' = [ota EXCEPT ![x] = [d \in Dates |-> Desired(r, d)]]
  /\ otaRev' = [otaRev EXCEPT ![x] = r]
  /\ Finish(w)
  /\ UNCHANGED <<total, ext, holdRows, lock, expired, bookingVars>>

-----------------------------------------------------------------------------
(* Operators and calendars. *)

\* upsertOperational: the DailyInventory CHECK refuses a total below reservedCount.
SetCapacity(d, n) ==
  /\ RowFree(d)
  /\ reserved[d] <= n
  /\ total' = [total EXCEPT ![d] = n]
  /\ UNCHANGED <<reserved, ext, holdRows, lock, expired, bookingVars, otaVars, req>>

\* External calendar events are stored without looking at the stock.
SyncCalendar(d, n) ==
  /\ ext' = [ext EXCEPT ![d] = n]
  /\ UNCHANGED <<total, reserved, holdRows, lock, expired, bookingVars, otaVars, req>>

-----------------------------------------------------------------------------
(* The database and the machines. *)

\* v waits for the row w has locked.
WaitsFor(v, w) == req[v].step \in {"update", "decrement", "rows"}
                  /\ req[v].todo # {} /\ req[v].next \in req[w].wrote

Deadlocked(S) == S # {} /\ \A v \in S : \E w \in S \ {v} : WaitsFor(v, w)

\* PostgreSQL aborts one transaction of a cycle.
DeadlockVictim(w) ==
  /\ \E S \in SUBSET Workers : w \in S /\ Deadlocked(S)
  /\ Finish(w)
  /\ UNCHANGED <<inventoryVars, holdRows, lock, expired, bookingVars, otaVars>>

\* The process or its connection dies: an open transaction is rolled back.
Crash(w) ==
  /\ Crashes
  /\ req[w].op # "idle"
  /\ Finish(w)
  /\ UNCHANGED <<inventoryVars, holdRows, lock, expired, bookingVars, otaVars>>

-----------------------------------------------------------------------------
\* A new request.
Begin(w) ==
  \/ \E h \in Holds : \/ FindActiveHold(w, h) \/ ReadHoldLocks(w, h)
                      \/ ReadHold(w, h) \/ LoadBooking(w, h)
  \/ \E r \in Revisions : BeginRevision(w, r)

\* The next statement of the request being served.
Step(w) ==
  \/ InsertHold(w) \/ CheckNight(w) \/ UpdateNight(w) \/ CommitHold(w)
  \/ DecrementNight(w) \/ DeleteHoldLocks(w)
  \/ ConsumeHold(w)
  \/ MarkCancelled(w) \/ DropBookingLocks(w)
  \/ ReserveRow(w) \/ CommitRevision(w)

Environment ==
  \/ \E h \in Holds : Expire(h)
  \/ \E d \in Dates : (\E n \in Capacities : SetCapacity(d, n))
                   \/ (\E n \in Blocks : SyncCalendar(d, n))

Next ==
  \/ \E w \in Workers : Begin(w) \/ Step(w) \/ DeadlockVictim(w) \/ Crash(w)
  \/ Environment

Spec == Init /\ [][Next]_vars

(***************************************************************************)
(* PostgreSQL queues the waiters of a row, a key or an advisory lock, so a *)
(* worker whose wait ends again and again is served: strong fairness of    *)
(* its next statement.  It breaks every deadlock.  No request is promised  *)
(* to arrive, and no clock, operator or calendar promised to move.         *)
(***************************************************************************)
Fairness ==
  /\ \A w \in Workers : SF_vars(Step(w))
  /\ WF_vars(\E w \in Workers : DeadlockVictim(w))

FairSpec == Spec /\ Fairness
-----------------------------------------------------------------------------
(* Properties. *)

\* The units of night d that some InventoryLock row stands for, expired or not.
LockedStock(d) ==
  HoldStock({h \in Holds : lock[h] # "none"}, d) \cup OtaStock(d)

\* The stock is never sold twice: the lock rows of a night never claim more units
\* than the night has, whatever holds, releases, confirmations, cancellations,
\* imported revisions and operators interleave (the guarded UPDATE of holdInventory,
\* the FOR UPDATE of applyInventoryInsideTransaction).
NoOverbooking == \A d \in Dates : Cardinality(LockedStock(d)) <= total[d]

\* The counter the guarded UPDATE trusts covers every unit a lock row claims, so a
\* sale it allows never competes with a sale it does not know of.
ReservedCoversLocks == \A d \in Dates : Cardinality(LockedStock(d)) <= reserved[d]

\* The DailyInventory CHECK constraint holds at every commit, although a row is
\* checked when its UPDATE runs and committed statements later.
DailyInventoryCheck == \A d \in Dates : reserved[d] <= total[d]

\* On PostgreSQL reservedCount is exactly the units of every hold ever granted and
\* of the imported bookings' current locks: no transaction loses or doubles a unit.
ReservedLedger ==
  ~ScalarMax => \A d \in Dates :
    reserved[d] = Cardinality(HoldStock(holdRows, d) \cup OtaStock(d))

\* Two confirmations of a hold, on any two processes, never both make a booking
\* (createBookingFromHold counts the rows its UPDATE links).
OneBookingPerHold == \A h \in Holds : bookings[h] <= 1

\* A booking that is not cancelled keeps its stock, even when a release of its hold
\* read the locks before the confirmation committed; and stock is only linked to a
\* booking that exists.
BookingKeepsStock == \A h \in Holds :
  /\ status[h] = "confirmed" => lock[h] = "booked"
  /\ lock[h] = "booked" => status[h] # "none"

\* A cancelled booking is never confirmed again by a confirmation that read the
\* hold before the booking was made and cancelled.
CancelledIsFinal ==
  [][\A h \in Holds : status[h] = "cancelled" => status'[h] = "cancelled"]_vars

\* A hold that was granted and whose locks are gone (released or cancelled) never
\* gets them back: its primary key stays, and a late confirmation finds no rows.
NoResurrection ==
  [][\A h \in Holds : h \in holdRows /\ lock[h] = "none" => lock'[h] = "none"]_vars

\* An imported booking never goes back to an older revision, in whatever order and
\* on however many processes its revisions are applied.
RevisionsAdvance ==
  [][\A x \in OtaBookings : otaRev[x] # NoRevision =>
       /\ otaRev'[x] # NoRevision
       /\ At[otaRev'[x]] >= At[otaRev[x]]]_vars

\* Holds lock the nights of a stay in calendar order (datesInRange), so holds alone
\* never deadlock, however their stays overlap.
HoldsNeverDeadlock ==
  \A S \in SUBSET {w \in Workers : req[w].op = "hold"} : ~Deadlocked(S)

\* Every request ends, whatever rows, keys and locks it has to wait for.
RequestsEnd == \A w \in Workers : req[w].op # "idle" ~> req[w].op = "idle"

-----------------------------------------------------------------------------
(* What the repository says and the program does not do. *)

\* cancel.ts: "Once cancelled it must no longer contribute to availability".  When
\* no request is being served, the counter holds no unit that no lock row claims.
CancelledReturnsStock ==
  (\A w \in Workers : req[w].op = "idle") =>
    \A d \in Dates : reserved[d] <= Cardinality(LockedStock(d))

\* inventory-hold.test.ts: "release hold decrements reservedCount and deletes locks".
ReleaseDeletesLocks ==
  \A h \in Holds : (\E w \in Workers : req[w].op = "release" /\ req[w].hold = h)
                      ~> lock[h] # "held"
=============================================================================
