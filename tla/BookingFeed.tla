----------------------------- MODULE BookingFeed -----------------------------
(***************************************************************************)
(* The booking revision feed of one channel-manager connection.  The       *)
(* channel delivers every revision it was not told to forget; a run reads  *)
(* them, persists each one in a transaction, recomputes the availability   *)
(* of the nights it touched, acknowledges it and closes its incident.      *)
(* Runs overlap, fail between any two of these steps, and are repeated.    *)
(*                                                                         *)
(* The transaction of persistBookingRevision is one action here; its       *)
(* statements and locks are those of HoldBooking.                          *)
(***************************************************************************)
EXTENDS Integers, FiniteSets

CONSTANTS
  Workers,     \* runs of the feed that may overlap
  Bookings,    \* bookings of the channel manager
  Revisions,   \* their revisions
  BookingOf,   \* BookingOf[r]: the booking revision r is about
  At,          \* At[r]: the revision's insertedAt, the order of the feed
  CheckIn, CheckOut,  \* the stay of a revision, CheckOut[r] excluded
  Cancels,     \* Cancels[r]: the revision's status is "cancelled"
  Nights,      \* the nights of the variant
  AckOutcomes, \* what an acknowledgement may end in
  MaxDeaths,   \* bound: how many runs may die
  NoRevision

ASSUME FeedAssumption ==
  /\ IsFiniteSet(Bookings) /\ NoRevision \notin Revisions
  /\ BookingOf \in [Revisions -> Bookings]
  /\ At \in [Revisions -> Nat]
  /\ Nights \subseteq Nat
  /\ CheckIn \in [Revisions -> Nat] /\ CheckOut \in [Revisions -> Nat]
  /\ \A r \in Revisions : CheckIn[r] .. (CheckOut[r] - 1) \subseteq Nights
  /\ Cancels \in [Revisions -> BOOLEAN]
  /\ AckOutcomes \subseteq {"accepted", "unanswered", "refused", "rejected"}
  /\ MaxDeaths \in Nat

VARIABLES
  published,  \* revisions the channel manager has
  acked,      \* revisions it no longer delivers
  stored,     \* Booking.externalRevisionId
  locks,      \* nights of the booking's InventoryLock rows
  lines,      \* nights of its BookingLineItem rows
  shown,      \* EffectiveAvailability.bookedUnits of a night
  incidents,  \* revisions with an open incident
  left,       \* history: nights whose availability was left stale in a known way
  run,        \* what each run is doing
  deaths      \* runs that have died

vars == <<published, acked, stored, locks, lines, shown, incidents, left, run, deaths>>

RunSteps == {"idle", "persist", "read", "write", "ack", "resolve"}

Run == [step : RunSteps, batch : SUBSET Revisions, rev : Revisions \cup {NoRevision},
        affected : SUBSET Nights, seen : [Nights -> 0 .. Cardinality(Bookings)]]

Idle == [step |-> "idle", batch |-> {}, rev |-> NoRevision, affected |-> {},
         seen |-> [n \in Nights |-> 0]]

TypeOK ==
  /\ published \subseteq Revisions
  /\ acked \subseteq Revisions
  /\ stored \in [Bookings -> Revisions \cup {NoRevision}]
  /\ locks \in [Bookings -> SUBSET Nights]
  /\ lines \in [Bookings -> SUBSET Nights]
  /\ shown \in [Nights -> 0 .. Cardinality(Bookings)]
  /\ incidents \subseteq Revisions
  /\ left \subseteq Nights
  /\ run \in [Workers -> Run]
  /\ deaths \in 0 .. MaxDeaths

Init ==
  /\ published = {}
  /\ acked = {}
  /\ stored = [b \in Bookings |-> NoRevision]
  /\ locks = [b \in Bookings |-> {}]
  /\ lines = [b \in Bookings |-> {}]
  /\ shown = [n \in Nights |-> 0]
  /\ incidents = {}
  /\ left = {}
  /\ run = [w \in Workers |-> Idle]
  /\ deaths = 0

channelVars == <<published, acked>>
bookingVars == <<stored, locks, lines>>
nightVars == <<shown, left>>

Booked(n) == Cardinality({b \in Bookings : n \in locks[b]})

\* recomputeAffectedAvailability merges the nights of a variant into one range.
Hull(S) == {n \in Nights : (\E a \in S : a <= n) /\ (\E b \in S : n <= b)}

-----------------------------------------------------------------------------
(* The channel manager: revisions are inserted one after the other. *)

Publish(r) ==
  /\ r \notin published
  /\ \A q \in Revisions : At[q] < At[r] => q \in published
  /\ published' = published \cup {r}
  /\ UNCHANGED <<acked, bookingVars, nightVars, incidents, run, deaths>>

-----------------------------------------------------------------------------
(* runProviderBookingRevisionFeed. *)

Serve(w, x) == run' = [run EXCEPT ![w] = x] /\ UNCHANGED deaths

Doing(w, step) == run[w].step = step

\* The whole feed is read, oldest first.
Fetch(w) ==
  /\ Doing(w, "idle")
  /\ published \ acked # {}
  /\ Serve(w, [Idle EXCEPT !.step = "persist", !.batch = published \ acked])
  /\ UNCHANGED <<channelVars, bookingVars, nightVars, incidents>>

Oldest(S) == {r \in S : \A q \in S : At[r] <= At[q]}

\* The loop goes on with the revisions after r.
Continue(w, r) ==
  LET rest == run[w].batch \ {r} IN
  Serve(w, IF rest = {} THEN Idle ELSE [Idle EXCEPT !.step = "persist", !.batch = rest])

\* Mutant: any failure ends the run.
RefuseAll(w) ==
  /\ Doing(w, "persist")
  /\ \E r \in Oldest(run[w].batch) : incidents' = incidents \cup {r} /\ Serve(w, Idle)
  /\ UNCHANGED <<channelVars, bookingVars, nightVars>>

\* No mapping, no compatible inventory, bad data, or the transaction failed: the
\* revision is reported and stays in the feed.
Refuse(w) ==
  /\ Doing(w, "persist")
  /\ \E r \in Oldest(run[w].batch) : incidents' = incidents \cup {r} /\ Continue(w, r)
  /\ UNCHANGED <<channelVars, bookingVars, nightVars>>

\* Mutants: an older revision is not recognised; the nights the booking leaves are not
\* touched.
NeverOlder(r) == FALSE

Stay(r) == IF Cancels[r] THEN {} ELSE CheckIn[r] .. (CheckOut[r] - 1)

\* The booking shows a revision inserted later.
Older(r) == LET s == stored[BookingOf[r]] IN s # NoRevision /\ At[s] > At[r]

TouchedNew(r) == Stay(r)

\* The nights of the old locks and of the new ones.
Touched(r) == locks[BookingOf[r]] \cup Stay(r)

\* After the transaction; without a night to recompute, the acknowledgement is next.
Persisted(w, r, S) ==
  Serve(w, [run[w] EXCEPT !.step = IF S = {} THEN "ack" ELSE "read", !.rev = r,
                          !.affected = S])

\* The revision the booking shows is delivered again: the nights of its line items.
PersistSame(w, r) ==
  /\ stored[BookingOf[r]] = r
  /\ Persisted(w, r, lines[BookingOf[r]])
  /\ UNCHANGED bookingVars

PersistOlder(w, r) ==
  /\ stored[BookingOf[r]] # r
  /\ Older(r)
  /\ Persisted(w, r, {})
  /\ UNCHANGED bookingVars

\* A cancellation drops the locks and keeps the line items.
PersistNew(w, r) ==
  LET b == BookingOf[r] IN
  /\ stored[b] # r
  /\ ~Older(r)
  /\ Cancels[r] => stored[b] # NoRevision
  /\ Persisted(w, r, Touched(r))
  /\ stored' = [stored EXCEPT ![b] = r]
  /\ locks' = [locks EXCEPT ![b] = Stay(r)]
  /\ lines' = [lines EXCEPT ![b] = IF Cancels[r] THEN @ ELSE Stay(r)]

Persist(w) ==
  /\ Doing(w, "persist")
  /\ \E r \in Oldest(run[w].batch) :
       PersistSame(w, r) \/ PersistOlder(w, r) \/ PersistNew(w, r)
  /\ UNCHANGED <<channelVars, nightVars, incidents>>

\* The rows of recomputeEffectiveAvailabilityRange are read, then written.
ReadNights(w) ==
  LET range == Hull(run[w].affected) IN
  /\ Doing(w, "read")
  /\ Serve(w, [run[w] EXCEPT !.step = "write",
                 !.seen = [n \in Nights |-> IF n \in range THEN Booked(n) ELSE 0]])
  /\ UNCHANGED <<channelVars, bookingVars, nightVars, incidents>>

WriteNights(w) ==
  LET range == Hull(run[w].affected) IN
  /\ Doing(w, "write")
  /\ shown' = [n \in Nights |-> IF n \in range THEN run[w].seen[n] ELSE shown[n]]
  /\ left' = (left \ range) \cup {n \in range : run[w].seen[n] # Booked(n)}
  /\ Serve(w, [Idle EXCEPT !.step = "ack", !.batch = run[w].batch, !.rev = run[w].rev])
  /\ UNCHANGED <<channelVars, bookingVars, incidents>>

\* The nights another delivery of the revision will not recompute.
CutOff(w) ==
  IF run[w].step \in {"read", "write"}
    THEN run[w].affected \ lines[BookingOf[run[w].rev]] ELSE {}

\* The recomputation throws: the revision is reported and stays in the feed.
RecomputeFails(w) ==
  /\ Doing(w, "read") \/ Doing(w, "write")
  /\ incidents' = incidents \cup {run[w].rev}
  /\ left' = left \cup CutOff(w)
  /\ Continue(w, run[w].rev)
  /\ UNCHANGED <<channelVars, bookingVars, shown>>

\* Mutant: the answer to the acknowledgement is not looked at.
AcknowledgeUnchecked(w, outcome) ==
  /\ Doing(w, "ack")
  /\ acked' = IF outcome \in {"accepted", "unanswered"} THEN acked \cup {run[w].rev} ELSE acked
  /\ Serve(w, [run[w] EXCEPT !.step = "resolve"])
  /\ UNCHANGED <<published, bookingVars, nightVars, incidents>>

\* The channel accepts it, or does and its answer is lost, or a retryable error aborts
\* the run, or it is rejected and the run goes on.
Acknowledge(w, outcome) ==
  LET r == run[w].rev IN
  /\ Doing(w, "ack")
  /\ acked' = IF outcome \in {"accepted", "unanswered"} THEN acked \cup {r} ELSE acked
  /\ \/ /\ outcome = "accepted"
        /\ Serve(w, [run[w] EXCEPT !.step = "resolve"])
        /\ UNCHANGED incidents
     \/ /\ outcome \in {"unanswered", "refused"}
        /\ Serve(w, Idle)
        /\ incidents' = incidents \cup {r}
     \/ /\ outcome = "rejected"
        /\ Continue(w, r)
        /\ incidents' = incidents \cup {r}
  /\ UNCHANGED <<published, bookingVars, nightVars>>

\* resolveProviderIntegrationIncidentsForEntity, whose errors are ignored.
Resolve(w) ==
  /\ Doing(w, "resolve")
  /\ incidents' \in {incidents, incidents \ {run[w].rev}}
  /\ Continue(w, run[w].rev)
  /\ UNCHANGED <<channelVars, bookingVars, nightVars>>

\* The run dies, or recording an incident fails.
Crash(w) ==
  /\ deaths < MaxDeaths
  /\ ~Doing(w, "idle")
  /\ left' = left \cup CutOff(w)
  /\ run' = [run EXCEPT ![w] = Idle]
  /\ deaths' = deaths + 1
  /\ UNCHANGED <<channelVars, bookingVars, shown, incidents>>

-----------------------------------------------------------------------------
Work(w) ==
  \/ Fetch(w) \/ Refuse(w) \/ Persist(w) \/ ReadNights(w) \/ WriteNights(w)
  \/ RecomputeFails(w) \/ (\E o \in AckOutcomes : Acknowledge(w, o)) \/ Resolve(w)

Next ==
  \/ \E r \in Revisions : Publish(r)
  \/ \E w \in Workers : Work(w) \/ Crash(w)

Spec == Init /\ [][Next]_vars

(***************************************************************************)
(* A feed job is queued every minute and retried, so a run that is not     *)
(* dead goes on and another one follows it; an acknowledgement that is     *)
(* asked for again and again is accepted in the end.  Nothing promises     *)
(* that a revision can be persisted.                                       *)
(***************************************************************************)
Fairness ==
  \A w \in Workers : WF_vars(Work(w)) /\ SF_vars(Acknowledge(w, "accepted"))

FairSpec == Spec /\ Fairness

-----------------------------------------------------------------------------
(* Properties. *)

Import == INSTANCE BookingImport WITH
  Bookings <- Bookings, Revisions <- Revisions, BookingOf <- BookingOf, At <- At,
  Cancels <- Cancels, NoRevision <- NoRevision, stored <- stored, acked <- acked

\* The feed keeps the promise of BookingImport: whatever runs overlap and wherever they
\* die, a booking never goes back to an older revision, and the channel is told to
\* forget a revision only when the booking shows it or a later one (the acknowledgement
\* comes after the commit of persistBookingRevision).
ImplementsImport == Import!Spec

\* A night whose bookedUnits are wrong is being recomputed, belongs to a booking whose
\* revision will be delivered again, or was left so in one of two known ways: a run died
\* or failed between the commit of a move and the recomputation of the nights it left,
\* or wrote what it had read before another run's commit.
NoNightForgotten == \A n \in Nights : shown[n] # Booked(n) =>
  \/ n \in left
  \/ \E w \in Workers : run[w].step = "read" /\ n \in run[w].affected
  \/ \E w \in Workers : /\ run[w].step = "write" /\ n \in run[w].affected
                        /\ run[w].seen[n] = Booked(n)
  \/ \E b \in Bookings : stored[b] \notin acked \cup {NoRevision} /\ n \in lines[b]

\* An incident about a revision is closed only when the channel has been told to forget
\* the revision: until then the operator can see that it needs attention.
ResolvedOnlyAcked ==
  [][\A r \in Revisions : r \in incidents /\ r \notin incidents' => r \in acked]_vars

\* Every revision the channel publishes is acknowledged or reported, even behind one
\* that cannot be persisted or whose acknowledgement fails for a while.
EveryRevisionAnswered ==
  \A r \in Revisions : r \in published ~> r \in acked \cup incidents

-----------------------------------------------------------------------------
(* What the repository says and the program does not do. *)

\* provider-integration-operations-runbook.md: "Effective availability is recomputed
\* after commit".  When the feed is empty and no run is going on, every night shows the
\* units that are booked.
AvailabilityFollows ==
  (\A w \in Workers : run[w].step = "idle") /\ published \subseteq acked =>
    \A n \in Nights : shown[n] = Booked(n)
=============================================================================
