-------------------------- MODULE BookingFeedProofs --------------------------
(***************************************************************************)
(* Proofs about BookingFeed, for every set of runs, bookings, revisions    *)
(* and nights that satisfies FeedAssumption: the feed implements           *)
(* BookingImport, no incident is closed before its revision is             *)
(* acknowledged, and, if no revision follows a cancellation, no night      *)
(* whose availability is wrong is forgotten.                               *)
(*                                                                         *)
(* None follows from TypeOK: an acknowledgement looks at nothing but the   *)
(* record of the run that sends it.  Inv says what that record has         *)
(* established: after the transaction of a revision the booking shows it   *)
(* or a later one, and goes on doing so whatever other runs commit, since  *)
(* a commit never goes back.                                               *)
(***************************************************************************)
EXTENDS BookingFeed, FiniteSetTheorems, TLAPS

\* In a table s of stored revisions, the booking of r shows r or a later revision.
CoveredBy(s, r) ==
  /\ s[BookingOf[r]] # NoRevision
  /\ At[s[BookingOf[r]]] >= At[r]

\* What the record x of a run has established, for the tables s and a.
Ready(x, s, a) ==
  /\ x.step \in {"read", "write", "ack", "resolve"} =>
       x.rev \in Revisions /\ CoveredBy(s, x.rev)
  /\ x.step = "resolve" => x.rev \in a

Inv == TypeOK /\ \A w \in Workers : Ready(run[w], stored, acked)

-----------------------------------------------------------------------------
LEMMA BookedBound ==
  ASSUME TypeOK, NEW n \in Nights
  PROVE  Booked(n) \in 0 .. Cardinality(Bookings)
<1> DEFINE S == {b \in Bookings : n \in locks[b]}
<1>1. S \subseteq Bookings /\ IsFiniteSet(Bookings)
  BY FeedAssumption
<1>2. Cardinality(S) \in Nat /\ Cardinality(Bookings) \in Nat
      /\ Cardinality(S) <= Cardinality(Bookings)
  BY <1>1, FS_Subset, FS_CardinalityType
<1> QED BY <1>2 DEF Booked

LEMMA IdleIsRun == Idle \in Run
<1>1. Cardinality(Bookings) \in Nat
  BY FeedAssumption, FS_CardinalityType
<1> QED BY <1>1 DEF Idle, Run, RunSteps

\* The record of the run that goes on after revision r establishes nothing.
LEMMA ContinueRecord ==
  ASSUME TypeOK, NEW w \in Workers, NEW r, Continue(w, r)
  PROVE  /\ \E x \in Run : /\ run' = [run EXCEPT ![w] = x]
                           /\ x.step \in {"idle", "persist"}
         /\ deaths' = deaths
<1> DEFINE rest == run[w].batch \ {r}
           y == [Idle EXCEPT !.step = "persist", !.batch = rest]
<1>1. rest \in SUBSET Revisions
  BY DEF TypeOK, Run
<1>2. y \in Run /\ y.step = "persist"
  BY <1>1, IdleIsRun DEF Idle, Run, RunSteps
<1>3. Idle.step = "idle"
  BY DEF Idle
<1>4. CASE rest = {}
  <2>1. run' = [run EXCEPT ![w] = Idle] /\ deaths' = deaths
    BY <1>4 DEF Continue, Serve
  <2> QED BY <2>1, <1>3, IdleIsRun
<1>5. CASE rest # {}
  <2>1. run' = [run EXCEPT ![w] = y] /\ deaths' = deaths
    BY <1>5 DEF Continue, Serve
  <2> QED BY <2>1, <1>2
<1> QED BY <1>4, <1>5

\* A step of one run that goes back on nothing keeps what the others established.
LEMMA RunsKept ==
  ASSUME Inv, NEW w \in Workers, NEW x \in Run, run' = [run EXCEPT ![w] = x],
         \A r \in Revisions : CoveredBy(stored, r) => CoveredBy(stored', r),
         acked \subseteq acked', Ready(x, stored', acked')
  PROVE  /\ run' \in [Workers -> Run]
         /\ \A v \in Workers : Ready(run'[v], stored', acked')
<1>1. run \in [Workers -> Run]
  BY DEF Inv, TypeOK
<1>2. ASSUME NEW v \in Workers PROVE Ready(run'[v], stored', acked')
  <2>1. CASE v = w
    BY <2>1, <1>1
  <2>2. CASE v # w
    <3>1. run'[v] = run[v] /\ Ready(run[v], stored, acked)
      BY <2>2, <1>1 DEF Inv
    <3> QED BY <3>1 DEF Ready
  <2> QED BY <2>1, <2>2
<1> QED BY <1>1, <1>2

-----------------------------------------------------------------------------
(* Each action keeps Inv. *)

\* A step of one run that writes no booking keeps Inv.
LEMMA StepInv ==
  ASSUME Inv, NEW w \in Workers, NEW x \in Run, run' = [run EXCEPT ![w] = x],
         Ready(x, stored, acked'),
         UNCHANGED <<published, bookingVars>>,
         acked \subseteq acked', acked' \subseteq Revisions,
         shown' \in [Nights -> 0 .. Cardinality(Bookings)],
         incidents' \subseteq Revisions, left' \subseteq Nights,
         deaths' \in 0 .. MaxDeaths
  PROVE  Inv'
<1>1. stored' = stored /\ locks' = locks /\ lines' = lines /\ published' = published
  BY DEF bookingVars
<1>2. run' \in [Workers -> Run] /\ \A v \in Workers : Ready(run'[v], stored', acked')
  BY <1>1, RunsKept
<1>3. TypeOK'
  BY <1>1, <1>2 DEF Inv, TypeOK
<1> QED BY <1>2, <1>3 DEF Inv

\* The same for a step after which the run goes on with other revisions.
LEMMA GoesOnInv ==
  ASSUME Inv, NEW w \in Workers, NEW r, Continue(w, r),
         UNCHANGED <<published, bookingVars, shown>>,
         acked \subseteq acked', acked' \subseteq Revisions,
         incidents' \subseteq Revisions, left' \subseteq Nights
  PROVE  Inv'
<1>1. PICK x \in Run : run' = [run EXCEPT ![w] = x] /\ x.step \in {"idle", "persist"}
  BY ContinueRecord DEF Inv
<1>2. deaths' = deaths
  BY ContinueRecord DEF Inv
<1>3. Ready(x, stored, acked')
  BY <1>1 DEF Ready
<1>4. shown' \in [Nights -> 0 .. Cardinality(Bookings)] /\ deaths' \in 0 .. MaxDeaths
  BY <1>2 DEF Inv, TypeOK
<1>5. UNCHANGED <<published, bookingVars>>
  OBVIOUS
<1> QED BY <1>1, <1>3, <1>4, <1>5, StepInv

LEMMA FetchInv == ASSUME Inv, NEW w \in Workers, Fetch(w) PROVE Inv'
<1> DEFINE x == [Idle EXCEPT !.step = "persist", !.batch = published \ acked]
<1>1. x \in Run /\ x.step = "persist"
  BY IdleIsRun DEF Inv, TypeOK, Idle, Run, RunSteps
<1>2. run' = [run EXCEPT ![w] = x] /\ deaths' = deaths
      /\ UNCHANGED <<channelVars, bookingVars, nightVars, incidents>>
  BY DEF Fetch, Serve
<1>3. Ready(x, stored, acked')
  BY <1>1 DEF Ready
<1> HIDE DEF x
<1> QED BY <1>1, <1>2, <1>3, StepInv DEF Inv, TypeOK, channelVars, nightVars

LEMMA RefuseInv == ASSUME Inv, NEW w \in Workers, Refuse(w) PROVE Inv'
<1>1. PICK r \in Oldest(run[w].batch) : incidents' = incidents \cup {r} /\ Continue(w, r)
  BY DEF Refuse
<1>2. r \in Revisions
  BY DEF Oldest, Inv, TypeOK, Run
<1>3. UNCHANGED <<channelVars, bookingVars, nightVars>>
  BY DEF Refuse
<1> QED BY <1>1, <1>2, <1>3, GoesOnInv DEF Inv, TypeOK, channelVars, nightVars

LEMMA HullIsNights == ASSUME NEW S PROVE Hull(S) \subseteq Nights
BY DEF Hull

LEMMA StayIsNights == ASSUME NEW r \in Revisions PROVE Stay(r) \subseteq Nights
BY FeedAssumption DEF Stay

\* The record of a run that has committed revision r.
LEMMA PersistedRecord ==
  ASSUME TypeOK, NEW w \in Workers, NEW r \in Revisions, NEW S \in SUBSET Nights,
         Persisted(w, r, S)
  PROVE  /\ \E x \in Run : /\ run' = [run EXCEPT ![w] = x]
                           /\ x.step \in {"ack", "read"} /\ x.rev = r
         /\ deaths' = deaths
<1> DEFINE x == [run[w] EXCEPT !.step = IF S = {} THEN "ack" ELSE "read", !.rev = r,
                               !.affected = S]
<1>1. run[w] \in Run
  BY DEF TypeOK
<1>2. x \in Run /\ x.step \in {"ack", "read"} /\ x.rev = r
  BY <1>1 DEF Run, RunSteps
<1>3. run' = [run EXCEPT ![w] = x] /\ deaths' = deaths
  BY DEF Persisted, Serve
<1> QED BY <1>2, <1>3

\* A revision that is applied takes no booking back.
LEMMA NeverBack ==
  ASSUME Inv, NEW w \in Workers, NEW r \in Revisions, PersistNew(w, r),
         NEW q \in Revisions, CoveredBy(stored, q)
  PROVE  CoveredBy(stored', q)
<1> DEFINE b == BookingOf[r]
<1>1. b \in Bookings /\ BookingOf[q] \in Bookings /\ At[r] \in Nat /\ At[q] \in Nat
  BY FeedAssumption
<1>2. stored' = [stored EXCEPT ![b] = r] /\ r # NoRevision
  BY FeedAssumption DEF PersistNew
<1>3. CASE BookingOf[q] = b
  <2>1. At[stored[b]] \in Nat /\ At[stored[b]] >= At[q]
    BY <1>1, <1>3, FeedAssumption DEF CoveredBy, Inv, TypeOK
  <2>2. ~(At[stored[b]] > At[r])
    BY <1>3 DEF PersistNew, Older, CoveredBy
  <2>3. stored'[b] = r /\ At[r] >= At[q]
    BY <1>1, <1>2, <2>1, <2>2 DEF Inv, TypeOK
  <2> QED BY <1>2, <1>3, <2>3 DEF CoveredBy
<1>4. CASE BookingOf[q] # b
  <2>1. stored'[BookingOf[q]] = stored[BookingOf[q]]
    BY <1>1, <1>2, <1>4 DEF Inv, TypeOK
  <2> QED BY <2>1 DEF CoveredBy
<1> QED BY <1>3, <1>4

LEMMA PersistInv == ASSUME Inv, NEW w \in Workers, Persist(w) PROVE Inv'
<1>1. PICK r \in Oldest(run[w].batch) :
        PersistSame(w, r) \/ PersistOlder(w, r) \/ PersistNew(w, r)
  BY DEF Persist
<1>2. r \in Revisions /\ BookingOf[r] \in Bookings
  BY FeedAssumption DEF Oldest, Inv, TypeOK, Run
<1>3. UNCHANGED <<channelVars, nightVars, incidents>>
  BY DEF Persist
<1>4. TypeOK
  BY DEF Inv
<1>5. CASE PersistSame(w, r)
  <2>1. lines[BookingOf[r]] \in SUBSET Nights /\ Persisted(w, r, lines[BookingOf[r]])
    BY <1>2, <1>5 DEF PersistSame, Inv, TypeOK
  <2>2. PICK x \in Run : /\ run' = [run EXCEPT ![w] = x]
                         /\ x.step \in {"ack", "read"} /\ x.rev = r
    BY <1>2, <1>4, <2>1, PersistedRecord
  <2>3. deaths' = deaths
    BY <1>2, <1>4, <2>1, PersistedRecord
  <2>4. CoveredBy(stored, r)
    BY <1>2, <1>5, FeedAssumption DEF PersistSame, CoveredBy
  <2>5. Ready(x, stored, acked') /\ UNCHANGED bookingVars
    BY <1>2, <1>5, <2>2, <2>4 DEF Ready, PersistSame
  <2> QED BY <1>3, <2>2, <2>3, <2>5, StepInv DEF Inv, TypeOK, channelVars, nightVars
<1>6. CASE PersistOlder(w, r)
  <2>1. Persisted(w, r, {})
    BY <1>6 DEF PersistOlder
  <2>2. PICK x \in Run : /\ run' = [run EXCEPT ![w] = x]
                         /\ x.step \in {"ack", "read"} /\ x.rev = r
    BY <1>2, <1>4, <2>1, PersistedRecord
  <2>3. deaths' = deaths
    BY <1>2, <1>4, <2>1, PersistedRecord
  <2>4. CoveredBy(stored, r)
    <3>1. stored[BookingOf[r]] \in Revisions
      BY <1>2, <1>6 DEF PersistOlder, Older, Inv, TypeOK
    <3> QED BY <1>2, <1>6, <3>1, FeedAssumption DEF PersistOlder, Older, CoveredBy
  <2>5. Ready(x, stored, acked') /\ UNCHANGED bookingVars
    BY <1>2, <1>6, <2>2, <2>4 DEF Ready, PersistOlder
  <2> QED BY <1>3, <2>2, <2>3, <2>5, StepInv DEF Inv, TypeOK, channelVars, nightVars
<1>7. CASE PersistNew(w, r)
  <2> DEFINE b == BookingOf[r]
  <2>1. Touched(r) \in SUBSET Nights /\ Persisted(w, r, Touched(r))
    BY <1>2, <1>7, StayIsNights DEF PersistNew, Touched, Inv, TypeOK
  <2>2. PICK x \in Run : /\ run' = [run EXCEPT ![w] = x]
                         /\ x.step \in {"ack", "read"} /\ x.rev = r
    BY <1>2, <1>4, <2>1, PersistedRecord
  <2>3. deaths' = deaths
    BY <1>2, <1>4, <2>1, PersistedRecord
  <2>4. /\ stored' = [stored EXCEPT ![b] = r]
        /\ locks' = [locks EXCEPT ![b] = Stay(r)]
        /\ lines' = [lines EXCEPT ![b] = IF Cancels[r] THEN lines[b] ELSE Stay(r)]
    BY <1>7 DEF PersistNew
  <2>5. /\ stored' \in [Bookings -> Revisions \cup {NoRevision}]
        /\ locks' \in [Bookings -> SUBSET Nights]
        /\ lines' \in [Bookings -> SUBSET Nights]
    BY <1>2, <2>4, StayIsNights DEF Inv, TypeOK
  <2>6. stored'[b] = r /\ r # NoRevision /\ At[r] \in Nat
    BY <1>2, <2>4, FeedAssumption DEF Inv, TypeOK
  <2>7. CoveredBy(stored', r)
    BY <2>6 DEF CoveredBy
  <2>8. \A q \in Revisions : CoveredBy(stored, q) => CoveredBy(stored', q)
    BY <1>2, <1>7, NeverBack
  <2>9. Ready(x, stored', acked')
    BY <1>2, <2>2, <2>7 DEF Ready
  <2>10. acked \subseteq acked'
    BY <1>3 DEF channelVars
  <2>11. run' \in [Workers -> Run] /\ \A v \in Workers : Ready(run'[v], stored', acked')
    BY <2>2, <2>8, <2>9, <2>10, RunsKept
  <2>12. TypeOK'
    BY <1>3, <2>3, <2>5, <2>11 DEF Inv, TypeOK, channelVars, nightVars
  <2> QED BY <2>11, <2>12 DEF Inv
<1> QED BY <1>1, <1>5, <1>6, <1>7

LEMMA ReadNightsInv == ASSUME Inv, NEW w \in Workers, ReadNights(w) PROVE Inv'
<1> DEFINE range == Hull(run[w].affected)
           s == [n \in Nights |-> IF n \in range THEN Booked(n) ELSE 0]
           x == [run[w] EXCEPT !.step = "write", !.seen = s]
<1>1. run[w] \in Run /\ run[w].step = "read" /\ Ready(run[w], stored, acked)
  BY DEF Inv, TypeOK, ReadNights, Doing
<1>2. run' = [run EXCEPT ![w] = x] /\ deaths' = deaths
      /\ UNCHANGED <<channelVars, bookingVars, nightVars, incidents>>
  BY DEF ReadNights, Serve
<1>3. s \in [Nights -> 0 .. Cardinality(Bookings)]
  <2>1. Cardinality(Bookings) \in Nat
    BY FeedAssumption, FS_CardinalityType
  <2> QED BY <2>1, BookedBound DEF Inv
<1> HIDE DEF s
<1>4. x \in Run /\ x.step = "write" /\ x.rev = run[w].rev
  BY <1>1, <1>3 DEF Run, RunSteps
<1> HIDE DEF x
<1>5. Ready(x, stored, acked')
  BY <1>1, <1>4 DEF Ready
<1> QED BY <1>2, <1>4, <1>5, StepInv DEF Inv, TypeOK, channelVars, nightVars

LEMMA WriteNightsInv == ASSUME Inv, NEW w \in Workers, WriteNights(w) PROVE Inv'
<1> DEFINE range == Hull(run[w].affected)
           x == [Idle EXCEPT !.step = "ack", !.batch = run[w].batch, !.rev = run[w].rev]
<1>1. run[w] \in Run /\ run[w].step = "write" /\ Ready(run[w], stored, acked)
  BY DEF Inv, TypeOK, WriteNights, Doing
<1>2. run' = [run EXCEPT ![w] = x] /\ deaths' = deaths
      /\ UNCHANGED <<channelVars, bookingVars, incidents>>
  BY DEF WriteNights, Serve
<1>3. run[w].batch \in SUBSET Revisions /\ run[w].rev \in Revisions
      /\ run[w].seen \in [Nights -> 0 .. Cardinality(Bookings)]
  BY <1>1 DEF Run, Ready
<1>4. x \in Run /\ x.step = "ack" /\ x.rev = run[w].rev
  BY <1>3, IdleIsRun DEF Idle, Run, RunSteps
<1> HIDE DEF x
<1>5. Ready(x, stored, acked')
  BY <1>1, <1>4 DEF Ready
<1>6. shown' \in [Nights -> 0 .. Cardinality(Bookings)]
  BY <1>3 DEF WriteNights, Inv, TypeOK
<1>7. left' \subseteq Nights
  BY HullIsNights DEF WriteNights, Inv, TypeOK
<1> QED BY <1>2, <1>4, <1>5, <1>6, <1>7, StepInv DEF Inv, TypeOK, channelVars

LEMMA CutOffIsNights == ASSUME TypeOK, NEW w \in Workers PROVE CutOff(w) \subseteq Nights
BY DEF CutOff, TypeOK, Run

LEMMA RecomputeFailsInv == ASSUME Inv, NEW w \in Workers, RecomputeFails(w) PROVE Inv'
<1>1. run[w].rev \in Revisions
  BY DEF Inv, TypeOK, Ready, RecomputeFails, Doing
<1>2. Continue(w, run[w].rev) /\ UNCHANGED <<channelVars, bookingVars, shown>>
  BY DEF RecomputeFails
<1>3. incidents' \subseteq Revisions /\ left' \subseteq Nights
  BY <1>1, CutOffIsNights DEF RecomputeFails, Inv, TypeOK
<1> QED BY <1>2, <1>3, GoesOnInv DEF Inv, TypeOK, channelVars

\* An acknowledgement is sent for a revision the booking shows, or one older than that.
LEMMA AcknowledgeInv ==
  ASSUME Inv, NEW w \in Workers, NEW o \in AckOutcomes, Acknowledge(w, o)
  PROVE  Inv'
<1> DEFINE r == run[w].rev
           x == [run[w] EXCEPT !.step = "resolve"]
<1>1. run[w] \in Run /\ run[w].step = "ack" /\ r \in Revisions /\ CoveredBy(stored, r)
  BY DEF Inv, TypeOK, Ready, Acknowledge, Doing
<1>2. acked \subseteq acked' /\ acked' \subseteq Revisions
  BY <1>1 DEF Acknowledge, Inv, TypeOK
<1>3. UNCHANGED <<published, bookingVars, nightVars>>
  BY DEF Acknowledge
<1>4. CASE o = "accepted"
  <2>1. run' = [run EXCEPT ![w] = x] /\ deaths' = deaths /\ incidents' = incidents
        /\ r \in acked'
    BY <1>4 DEF Acknowledge, Serve
  <2>2. x \in Run /\ x.step = "resolve" /\ x.rev = r
    BY <1>1 DEF Run, RunSteps
  <2>3. Ready(x, stored, acked')
    BY <1>1, <2>1, <2>2 DEF Ready
  <2> HIDE DEF x
  <2> QED BY <1>2, <1>3, <2>1, <2>2, <2>3, StepInv DEF Inv, TypeOK, nightVars
<1>5. CASE o \in {"unanswered", "refused"}
  <2>1. run' = [run EXCEPT ![w] = Idle] /\ deaths' = deaths /\ incidents' = incidents \cup {r}
    BY <1>5 DEF Acknowledge, Serve
  <2>2. Ready(Idle, stored, acked')
    BY DEF Ready, Idle
  <2>3. shown' = shown /\ left' = left
    BY <1>3 DEF nightVars
  <2>4. UNCHANGED <<published, bookingVars>>
    BY <1>3
  <2>5. incidents' \subseteq Revisions
    BY <1>1, <2>1 DEF Inv, TypeOK
  <2> QED BY <1>2, <2>1, <2>2, <2>3, <2>4, <2>5, IdleIsRun, StepInv DEF Inv, TypeOK
<1>6. CASE o = "rejected"
  <2>1. Continue(w, r) /\ incidents' = incidents \cup {r}
    BY <1>6 DEF Acknowledge
  <2> QED BY <1>1, <1>2, <1>3, <2>1, GoesOnInv DEF Inv, TypeOK, nightVars
<1> QED BY <1>4, <1>5, <1>6 DEF Acknowledge

LEMMA ResolveInv == ASSUME Inv, NEW w \in Workers, Resolve(w) PROVE Inv'
<1>1. Continue(w, run[w].rev) /\ UNCHANGED <<channelVars, bookingVars, nightVars>>
  BY DEF Resolve
<1>2. incidents' \subseteq Revisions
  BY DEF Resolve, Inv, TypeOK
<1> QED BY <1>1, <1>2, GoesOnInv DEF Inv, TypeOK, channelVars, nightVars

LEMMA CrashInv == ASSUME Inv, NEW w \in Workers, Crash(w) PROVE Inv'
<1>1. Ready(Idle, stored, acked')
  BY DEF Ready, Idle
<1>2. left' \subseteq Nights
  BY CutOffIsNights DEF Crash, Inv, TypeOK
<1>3. deaths' \in 0 .. MaxDeaths
  <2>1. deaths \in Nat /\ deaths < MaxDeaths /\ MaxDeaths \in Nat /\ deaths' = deaths + 1
    BY FeedAssumption DEF Crash, Inv, TypeOK
  <2> QED BY <2>1
<1>4. run' = [run EXCEPT ![w] = Idle]
      /\ UNCHANGED <<channelVars, bookingVars, shown, incidents>>
  BY DEF Crash
<1> QED BY <1>1, <1>2, <1>3, <1>4, IdleIsRun, StepInv DEF Inv, TypeOK, channelVars

LEMMA PublishInv == ASSUME Inv, NEW r \in Revisions, Publish(r) PROVE Inv'
BY DEF Publish, Inv, TypeOK, bookingVars, nightVars

-----------------------------------------------------------------------------
LEMMA InitInv == Init => Inv
<1> SUFFICES ASSUME Init PROVE Inv
  OBVIOUS
<1>1. Cardinality(Bookings) \in Nat
  BY FeedAssumption, FS_CardinalityType
<1>2. TypeOK
  BY <1>1, IdleIsRun, FeedAssumption DEF Init, TypeOK
<1>3. \A w \in Workers : Ready(run[w], stored, acked)
  BY DEF Init, Idle, Ready
<1> QED BY <1>2, <1>3 DEF Inv

LEMMA NextInv == Inv /\ [Next]_vars => Inv'
<1> SUFFICES ASSUME Inv, [Next]_vars PROVE Inv'
  OBVIOUS
<1>1. ASSUME NEW r \in Revisions, Publish(r) PROVE Inv'
  BY <1>1, PublishInv
<1>2. ASSUME NEW w \in Workers, Work(w) PROVE Inv'
  BY <1>2, FetchInv, RefuseInv, PersistInv, ReadNightsInv, WriteNightsInv,
     RecomputeFailsInv, AcknowledgeInv, ResolveInv DEF Work
<1>3. ASSUME NEW w \in Workers, Crash(w) PROVE Inv'
  BY <1>3, CrashInv
<1>4. CASE UNCHANGED vars
  BY <1>4 DEF vars, Inv, TypeOK
<1> QED BY <1>1, <1>2, <1>3, <1>4 DEF Next

\* Inv is an invariant of the feed: after the transaction of a revision, and until the
\* run goes on, the booking shows it or a later one, whatever other runs commit.
THEOREM FeedInvariant == Spec => []Inv
<1> QED BY InitInv, NextInv, PTL DEF Spec

\* Every variable keeps its type, for any runs, bookings, revisions and nights.
THEOREM TypeCorrect == Spec => []TypeOK
<1>1. Inv => TypeOK
  BY DEF Inv
<1> QED BY <1>1, FeedInvariant, PTL

-----------------------------------------------------------------------------
(* The feed implements BookingImport. *)

LEMMA NextImport == Inv /\ [Next]_vars => [Import!Next]_(Import!vars)
<1> SUFFICES ASSUME Inv, Next PROVE Import!Next \/ UNCHANGED Import!vars
  BY DEF vars, Import!vars
<1>1. ASSUME NEW r \in Revisions, Publish(r) PROVE UNCHANGED Import!vars
  BY <1>1 DEF Publish, bookingVars, Import!vars
<1>2. ASSUME NEW w \in Workers,
             \/ Fetch(w) \/ Refuse(w) \/ ReadNights(w) \/ WriteNights(w)
             \/ RecomputeFails(w) \/ Resolve(w) \/ Crash(w)
      PROVE  UNCHANGED Import!vars
  BY <1>2 DEF Fetch, Refuse, ReadNights, WriteNights, RecomputeFails, Resolve, Crash,
              channelVars, bookingVars, Import!vars
<1>3. ASSUME NEW w \in Workers, Persist(w) PROVE Import!Next \/ UNCHANGED Import!vars
  <2>1. PICK r \in Oldest(run[w].batch) :
          PersistSame(w, r) \/ PersistOlder(w, r) \/ PersistNew(w, r)
    BY <1>3 DEF Persist
  <2>2. r \in Revisions /\ BookingOf[r] \in Bookings
    BY FeedAssumption DEF Oldest, Inv, TypeOK, Run
  <2>3. acked' = acked
    BY <1>3 DEF Persist, channelVars
  <2>4. CASE PersistSame(w, r) \/ PersistOlder(w, r)
    BY <2>3, <2>4 DEF PersistSame, PersistOlder, bookingVars, Import!vars
  <2>5. CASE PersistNew(w, r)
    <3>1. stored[BookingOf[r]] # NoRevision => At[r] >= At[stored[BookingOf[r]]]
      <4> SUFFICES ASSUME stored[BookingOf[r]] # NoRevision
                   PROVE  At[r] >= At[stored[BookingOf[r]]]
        OBVIOUS
      <4>1. At[r] \in Nat /\ At[stored[BookingOf[r]]] \in Nat
        BY <2>2, FeedAssumption DEF Inv, TypeOK
      <4>2. ~(At[stored[BookingOf[r]]] > At[r])
        BY <2>5 DEF PersistNew, Older
      <4> QED BY <4>1, <4>2
    <3>2. stored[BookingOf[r]] = NoRevision => ~Cancels[r]
      BY <2>5 DEF PersistNew
    <3>3. stored' = [stored EXCEPT ![BookingOf[r]] = r]
      BY <2>5 DEF PersistNew
    <3>4. Import!Show(r)
      BY <2>3, <3>1, <3>2, <3>3 DEF Import!Show
    <3> QED BY <2>2, <3>4 DEF Import!Next
  <2> QED BY <2>1, <2>4, <2>5
<1>4. ASSUME NEW w \in Workers, NEW o \in AckOutcomes, Acknowledge(w, o)
      PROVE  Import!Next \/ UNCHANGED Import!vars
  <2> DEFINE r == run[w].rev
  <2>1. r \in Revisions /\ CoveredBy(stored, r)
    BY <1>4 DEF Inv, Ready, Acknowledge, Doing
  <2>2. stored' = stored
    BY <1>4 DEF Acknowledge, bookingVars
  <2>3. CASE acked' = acked
    BY <2>2, <2>3 DEF Import!vars
  <2>4. CASE acked' = acked \cup {r}
    <3>1. Import!Acknowledge(r)
      BY <2>1, <2>2, <2>4 DEF Import!Acknowledge, Import!Covers, CoveredBy
    <3> QED BY <2>1, <3>1 DEF Import!Next
  <2>5. acked' = acked \/ acked' = acked \cup {r}
    BY <1>4 DEF Acknowledge
  <2> QED BY <2>3, <2>4, <2>5
<1> QED BY <1>1, <1>2, <1>3, <1>4 DEF Next, Work

\* The feed implements BookingImport for any number of overlapping and dying runs: a
\* booking never goes back to an older revision, and the channel forgets a revision only
\* when the booking shows it or a later one.
THEOREM ImportImplemented == Spec => ImplementsImport
<1>1. Init => Import!Init
  BY DEF Init, Import!Init
<1> QED BY <1>1, NextImport, FeedInvariant, PTL DEF Spec, ImplementsImport, Import!Spec

-----------------------------------------------------------------------------
LEMMA NextResolves ==
  Inv /\ [Next]_vars =>
    [\A r \in Revisions : r \in incidents /\ r \notin incidents' => r \in acked]_vars
<1> SUFFICES ASSUME Inv, Next, NEW r \in Revisions, r \in incidents, r \notin incidents'
             PROVE  r \in acked
  OBVIOUS
<1>1. ASSUME NEW q \in Revisions, Publish(q) PROVE FALSE
  BY <1>1 DEF Publish
<1>2. ASSUME NEW w \in Workers,
             \/ Fetch(w) \/ Refuse(w) \/ Persist(w) \/ ReadNights(w) \/ WriteNights(w)
             \/ RecomputeFails(w) \/ Crash(w)
      PROVE  FALSE
  BY <1>2 DEF Fetch, Refuse, Persist, ReadNights, WriteNights, RecomputeFails, Crash
<1>3. ASSUME NEW w \in Workers, NEW o \in AckOutcomes, Acknowledge(w, o) PROVE FALSE
  BY <1>3 DEF Acknowledge
<1>4. ASSUME NEW w \in Workers, Resolve(w) PROVE r \in acked
  <2>1. run[w].step = "resolve" /\ r = run[w].rev
    BY <1>4 DEF Resolve, Doing
  <2> QED BY <2>1 DEF Inv, Ready
<1> QED BY <1>1, <1>2, <1>3, <1>4 DEF Next, Work

\* An incident about a revision is closed only when the channel has been told to forget
\* the revision, whatever runs overlap.
THEOREM IncidentsKept == Spec => ResolvedOnlyAcked
<1> QED BY FeedInvariant, NextResolves, PTL DEF Spec, ResolvedOnlyAcked

-----------------------------------------------------------------------------
(* Nights that are not recomputed.  Booked counts the locks; another delivery of a     *)
(* revision recomputes the nights of its line items.                                  *)

\* No two revisions of a booking are of the same instant, and none follows a cancellation.
Chronological ==
  \A q, r \in Revisions : BookingOf[q] = BookingOf[r] =>
      /\ At[q] = At[r] => q = r
      /\ Cancels[q] => At[r] <= At[q]

\* The line items of a booking are its locks, until it is cancelled.
RowsAgree ==
  \A b \in Bookings :
    /\ stored[b] = NoRevision => lines[b] = {} /\ locks[b] = {}
    /\ stored[b] # NoRevision => /\ BookingOf[stored[b]] = b
                                 /\ Cancels[stored[b]] \/ lines[b] = locks[b]

AckedShown == \A r \in acked : CoveredBy(stored, r)

Recomputing(w) == run[w].step \in {"read", "write"}

\* A run that recomputes the revision a booking shows recomputes all its line items.
RangesFit ==
  \A w \in Workers : LET r == run[w].rev IN
    Recomputing(w) /\ stored[BookingOf[r]] = r => lines[BookingOf[r]] \subseteq run[w].affected

\* The revision a booking shows is acknowledged, or is about to be: its nights have been
\* recomputed.  Otherwise it will be delivered again.
Told(b) == \/ stored[b] \in acked
           \/ \E w \in Workers : run[w].step = "ack" /\ run[w].rev = stored[b]
Due(b) == stored[b] # NoRevision /\ ~Told(b)

\* The run is about to correct the night, which no redelivery of its revision would.
MendsAs(x, n) ==
  /\ x.step \in {"read", "write"} /\ n \in x.affected \ lines[BookingOf[x.rev]]
  /\ x.step = "write" => x.seen[n] = Booked(n)

Mends(w, n) == MendsAs(run[w], n)

Accounted(n) ==
  shown[n] # Booked(n) =>
    \/ n \in left
    \/ \E w \in Workers : Mends(w, n)
    \/ \E b \in Bookings : Due(b) /\ n \in lines[b]

NightsInv == /\ Inv /\ RowsAgree /\ AckedShown /\ RangesFit
             /\ \A n \in Nights : Accounted(n)

\* A revision that is applied has not been acknowledged, nor is any run about to.
LEMMA AppliedIsDue ==
  ASSUME Chronological, NightsInv, NEW r \in Revisions,
         stored[BookingOf[r]] # r, ~Older(r)
  PROVE  /\ ~CoveredBy(stored, r) /\ r \notin acked
         /\ \A w \in Workers :
              run[w].rev = r => run[w].step \notin {"read", "write", "ack", "resolve"}
         /\ stored[BookingOf[r]] # NoRevision => ~Cancels[stored[BookingOf[r]]]
<1> DEFINE s == stored[BookingOf[r]]
<1>0. BookingOf[r] \in Bookings /\ At[r] \in Nat
  BY FeedAssumption
<1>1. s # NoRevision => s \in Revisions /\ At[s] \in Nat /\ BookingOf[s] = BookingOf[r]
  BY <1>0, FeedAssumption DEF NightsInv, Inv, TypeOK, RowsAgree
<1>2. s # NoRevision => ~(At[s] > At[r]) /\ s # r
  BY DEF Older
<1> HIDE DEF s
<1>3. s # NoRevision => At[s] # At[r]
  BY <1>1, <1>2 DEF Chronological
<1>4. s # NoRevision => At[s] < At[r]
  BY <1>0, <1>1, <1>2, <1>3
<1>5. ~CoveredBy(stored, r)
  BY <1>0, <1>1, <1>4 DEF CoveredBy, s
<1>6. s # NoRevision => ~Cancels[s]
  BY <1>0, <1>1, <1>4 DEF Chronological
<1> QED BY <1>5, <1>6 DEF NightsInv, AckedShown, Inv, Ready, s

LEMMA InHull == ASSUME NEW S, NEW n \in Nights, n \in S PROVE n \in Hull(S)
<1>1. n <= n
  BY FeedAssumption
<1> QED BY <1>1 DEF Hull

\* Only the run itself changes its record.
LEMMA OneRun ==
  ASSUME TypeOK, NEW w \in Workers, NEW x, run' = [run EXCEPT ![w] = x]
  PROVE  run'[w] = x /\ \A v \in Workers \ {w} : run'[v] = run[v]
BY DEF TypeOK

SameBookings == stored' = stored /\ locks' = locks /\ lines' = lines /\ shown' = shown

\* A step that changes no booking and shows no night keeps what is known, if its run was
\* not recomputing a night that nobody else will, and is told of no revision.
LEMMA QuietStep ==
  ASSUME NightsInv, Inv', NEW w \in Workers, \A v \in Workers \ {w} : run'[v] = run[v],
         SameBookings, left \subseteq left',
         \A n \in Nights : Mends(w, n) => MendsAs(run'[w], n) \/ n \in left',
         \A r \in acked' : r \in acked \/ (run[w].step = "ack" /\ r = run[w].rev),
         run'[w].step = "ack" =>
            \/ run[w].step = "ack" /\ run'[w].rev = run[w].rev
            \/ \A b \in Bookings : stored[b] = run'[w].rev => lines[b] = {},
         run'[w].step \in {"read", "write"} =>
            LET r == run'[w].rev IN
            stored[BookingOf[r]] = r => lines[BookingOf[r]] \subseteq run'[w].affected
  PROVE  NightsInv'
<1>1. stored' = stored /\ locks' = locks /\ lines' = lines /\ shown' = shown
  BY DEF SameBookings
<1>2. RowsAgree'
  BY <1>1 DEF NightsInv, RowsAgree
<1>3. AckedShown'
  <2>1. ASSUME run[w].step = "ack" PROVE CoveredBy(stored, run[w].rev)
    BY <2>1 DEF NightsInv, Inv, Ready
  <2> QED BY <1>1, <2>1 DEF NightsInv, AckedShown, CoveredBy
<1>4. RangesFit'
  BY <1>1 DEF NightsInv, RangesFit, Recomputing
<1>5. \A n \in Nights : Booked(n)' = Booked(n)
  BY <1>1 DEF Booked
<1>6. ASSUME NEW b \in Bookings, Due(b), lines[b] # {} PROVE Due(b)'
  <2>1. stored[b] \notin acked'
    BY <1>6 DEF Due, Told
  <2>2. \A v \in Workers : ~(run'[v].step = "ack" /\ run'[v].rev = stored[b])
    BY <1>6 DEF Due, Told
  <2> QED BY <1>1, <1>6, <2>1, <2>2 DEF Due, Told
<1>7. ASSUME NEW n \in Nights, NEW v \in Workers \ {w}, Mends(v, n) PROVE Mends(v, n)'
  BY <1>1, <1>5, <1>7 DEF Mends, MendsAs, Recomputing
<1>8. ASSUME NEW n \in Nights PROVE Accounted(n)'
  <2>1. SUFFICES ASSUME shown[n] # Booked(n)
                 PROVE  (\/ n \in left
                         \/ \E v \in Workers : Mends(v, n)
                         \/ \E b \in Bookings : Due(b) /\ n \in lines[b])'
    BY <1>1, <1>5 DEF Accounted
  <2>2. CASE n \in left
    BY <2>2
  <2>3. ASSUME NEW v \in Workers, Mends(v, n) PROVE n \in left' \/ Mends(v, n)'
    <3>1. MendsAs(run'[v], n) => Mends(v, n)'
      BY <1>1, <1>5 DEF Mends, MendsAs
    <3> QED BY <1>7, <2>3, <3>1
  <2>4. ASSUME NEW b \in Bookings, Due(b), n \in lines[b] PROVE (Due(b) /\ n \in lines[b])'
    BY <1>1, <1>6, <2>4
  <2> QED BY <2>1, <2>2, <2>3, <2>4 DEF NightsInv, Accounted
<1> QED BY <1>2, <1>3, <1>4, <1>8 DEF NightsInv

LEMMA FetchNights == ASSUME NightsInv, NEW w \in Workers, Fetch(w) PROVE NightsInv'
<1> DEFINE x == [Idle EXCEPT !.step = "persist", !.batch = published \ acked]
<1>1. run' = [run EXCEPT ![w] = x] /\ run[w].step = "idle"
  BY DEF Fetch, Serve, Doing
<1>2. x.step = "persist"
  BY DEF Idle
<1> HIDE DEF x
<1>3. run'[w] = x /\ \A v \in Workers \ {w} : run'[v] = run[v]
  BY <1>1, OneRun DEF NightsInv, Inv
<1>4. \A n \in Nights : ~Mends(w, n)
  BY <1>1 DEF Mends, MendsAs, Recomputing
<1>5. Inv'
  BY FetchInv DEF NightsInv
<1>6. SameBookings /\ left' = left /\ acked' = acked
  BY DEF Fetch, channelVars, nightVars, bookingVars, SameBookings
<1>7. run'[w].step \notin {"read", "write", "ack"}
  BY <1>2, <1>3
<1> QED BY <1>3, <1>4, <1>5, <1>6, <1>7, QuietStep

\* A run that goes on with other revisions, after r or after it has failed.
LEMMA LeavesNights ==
  ASSUME NightsInv, Inv', NEW w \in Workers, NEW x, run' = [run EXCEPT ![w] = x],
         x.step \in {"idle", "persist", "resolve"}, SameBookings,
         left' = left \cup CutOff(w) \/ (left' = left /\ run[w].step \notin {"read", "write"}),
         \A r \in acked' : r \in acked \/ (run[w].step = "ack" /\ r = run[w].rev)
  PROVE  NightsInv'
<1>1. run'[w] = x /\ \A v \in Workers \ {w} : run'[v] = run[v]
  BY OneRun DEF NightsInv, Inv
<1>2. \A n \in Nights : Mends(w, n) => n \in left'
  BY DEF Mends, MendsAs, Recomputing, CutOff
<1>3. run'[w].step \notin {"read", "write", "ack"}
  BY <1>1
<1>4. left \subseteq left'
  OBVIOUS
<1> QED BY <1>1, <1>2, <1>3, <1>4, QuietStep

LEMMA RefuseNights == ASSUME NightsInv, NEW w \in Workers, Refuse(w) PROVE NightsInv'
<1>1. PICK r : Continue(w, r)
  BY DEF Refuse
<1>2. PICK x \in Run : run' = [run EXCEPT ![w] = x] /\ x.step \in {"idle", "persist"}
  BY <1>1, ContinueRecord DEF NightsInv, Inv
<1>3. Inv'
  BY RefuseInv DEF NightsInv
<1>4. SameBookings /\ left' = left /\ acked' = acked /\ run[w].step = "persist"
  BY DEF Refuse, Doing, channelVars, bookingVars, nightVars, SameBookings
<1> QED BY <1>2, <1>3, <1>4, LeavesNights

LEMMA RecomputeFailsNights ==
  ASSUME NightsInv, NEW w \in Workers, RecomputeFails(w) PROVE NightsInv'
<1>1. PICK x \in Run : run' = [run EXCEPT ![w] = x] /\ x.step \in {"idle", "persist"}
  BY ContinueRecord DEF RecomputeFails, NightsInv, Inv
<1>2. Inv'
  BY RecomputeFailsInv DEF NightsInv
<1>3. SameBookings /\ left' = left \cup CutOff(w) /\ acked' = acked
  BY DEF RecomputeFails, channelVars, bookingVars, SameBookings
<1> QED BY <1>1, <1>2, <1>3, LeavesNights

LEMMA CrashNights == ASSUME NightsInv, NEW w \in Workers, Crash(w) PROVE NightsInv'
<1>1. Idle.step = "idle"
  BY DEF Idle
<1>2. Inv'
  BY CrashInv DEF NightsInv
<1>3. SameBookings /\ left' = left \cup CutOff(w) /\ acked' = acked
  BY DEF Crash, channelVars, bookingVars, SameBookings
<1>4. run' = [run EXCEPT ![w] = Idle]
  BY DEF Crash
<1> QED BY <1>1, <1>2, <1>3, <1>4, LeavesNights

LEMMA ResolveNights == ASSUME NightsInv, NEW w \in Workers, Resolve(w) PROVE NightsInv'
<1>1. PICK x \in Run : run' = [run EXCEPT ![w] = x] /\ x.step \in {"idle", "persist"}
  BY ContinueRecord DEF Resolve, NightsInv, Inv
<1>2. Inv'
  BY ResolveInv DEF NightsInv
<1>3. SameBookings /\ left' = left /\ acked' = acked /\ run[w].step = "resolve"
  BY DEF Resolve, Doing, channelVars, bookingVars, nightVars, SameBookings
<1> QED BY <1>1, <1>2, <1>3, LeavesNights

LEMMA AcknowledgeNights ==
  ASSUME NightsInv, NEW w \in Workers, NEW o \in AckOutcomes, Acknowledge(w, o)
  PROVE  NightsInv'
<1>1. Inv'
  BY AcknowledgeInv DEF NightsInv
<1>2. /\ run[w].step = "ack" /\ left' = left /\ SameBookings
      /\ \A r \in acked' : r \in acked \/ r = run[w].rev
  BY DEF Acknowledge, Doing, bookingVars, nightVars, SameBookings
<1>3. \E x : run' = [run EXCEPT ![w] = x] /\ x.step \in {"idle", "persist", "resolve"}
  <2>1. CASE Serve(w, [run[w] EXCEPT !.step = "resolve"])
    <3>1. [run[w] EXCEPT !.step = "resolve"].step = "resolve"
      BY DEF NightsInv, Inv, TypeOK, Run
    <3> QED BY <2>1, <3>1 DEF Serve
  <2>2. CASE Serve(w, Idle)
    <3>1. Idle.step = "idle"
      BY DEF Idle
    <3> QED BY <2>2, <3>1 DEF Serve
  <2>3. CASE Continue(w, run[w].rev)
    BY <2>3, ContinueRecord DEF NightsInv, Inv
  <2> QED BY <2>1, <2>2, <2>3 DEF Acknowledge
<1> QED BY <1>1, <1>2, <1>3, LeavesNights

LEMMA ReadNightsNights == ASSUME NightsInv, NEW w \in Workers, ReadNights(w) PROVE NightsInv'
<1> DEFINE range == Hull(run[w].affected)
           s == [n \in Nights |-> IF n \in range THEN Booked(n) ELSE 0]
           x == [run[w] EXCEPT !.step = "write", !.seen = s]
<1>1. run[w] \in Run /\ run[w].step = "read"
  BY DEF NightsInv, Inv, TypeOK, ReadNights, Doing
<1>2. run' = [run EXCEPT ![w] = x]
  BY DEF ReadNights, Serve
<1>3. ASSUME NEW n \in run[w].affected PROVE n \in Nights /\ s[n] = Booked(n)
  <2>1. n \in Nights
    BY <1>1 DEF Run
  <2>2. n \in range
    BY <2>1, InHull
  <2> QED BY <2>1, <2>2
<1> HIDE DEF s
<1>4. x.step = "write" /\ x.rev = run[w].rev /\ x.affected = run[w].affected /\ x.seen = s
  BY <1>1 DEF Run
<1> HIDE DEF x
<1>5. run'[w] = x /\ \A v \in Workers \ {w} : run'[v] = run[v]
  BY <1>2, OneRun DEF NightsInv, Inv
<1>6. SameBookings /\ left' = left /\ acked' = acked
  BY DEF ReadNights, channelVars, bookingVars, nightVars, SameBookings
<1>7. ASSUME NEW n \in Nights, Mends(w, n) PROVE MendsAs(run'[w], n)
  BY <1>3, <1>4, <1>5, <1>6, <1>7 DEF Mends, MendsAs, Recomputing, Booked, SameBookings
<1>8. LET r == x.rev IN stored[BookingOf[r]] = r => lines[BookingOf[r]] \subseteq x.affected
  BY <1>1, <1>4 DEF NightsInv, RangesFit, Recomputing
<1>9. Inv'
  BY ReadNightsInv DEF NightsInv
<1>10. /\ \A r \in acked' : r \in acked
       /\ run'[w].step # "ack"
       /\ LET r == run'[w].rev IN
          stored[BookingOf[r]] = r => lines[BookingOf[r]] \subseteq run'[w].affected
       /\ left \subseteq left'
  BY <1>4, <1>5, <1>6, <1>8
<1> QED BY <1>5, <1>6, <1>7, <1>9, <1>10, QuietStep

LEMMA WriteNightsNights == ASSUME NightsInv, NEW w \in Workers, WriteNights(w) PROVE NightsInv'
<1> DEFINE range == Hull(run[w].affected)
           x == [Idle EXCEPT !.step = "ack", !.batch = run[w].batch, !.rev = run[w].rev]
<1>1. run[w] \in Run /\ run[w].step = "write" /\ run[w].rev \in Revisions
  BY DEF NightsInv, Inv, TypeOK, Ready, WriteNights, Doing
<1>2. run' = [run EXCEPT ![w] = x]
  BY DEF WriteNights, Serve
<1>3. x.step = "ack" /\ x.rev = run[w].rev
  BY DEF Idle
<1>4. run[w].affected \subseteq range
  BY <1>1, InHull DEF Run
<1> HIDE DEF x, range
<1>5. run'[w] = x /\ \A v \in Workers \ {w} : run'[v] = run[v]
  BY <1>2, OneRun DEF NightsInv, Inv
<1>6. acked' = acked /\ stored' = stored /\ locks' = locks /\ lines' = lines
  BY DEF WriteNights, channelVars, bookingVars
<1>7. \A n \in Nights : Booked(n)' = Booked(n)
  BY <1>6 DEF Booked
<1>8. Inv'
  BY WriteNightsInv DEF NightsInv
<1>9. RowsAgree' /\ AckedShown'
  BY <1>6 DEF NightsInv, RowsAgree, AckedShown, CoveredBy
<1>10. RangesFit'
  BY <1>3, <1>5, <1>6 DEF NightsInv, RangesFit, Recomputing
<1>11. ASSUME NEW n \in Nights PROVE Accounted(n)'
  <2>1. CASE n \in range
    <3>1. shown'[n] = run[w].seen[n] /\ (run[w].seen[n] # Booked(n) => n \in left')
      BY <2>1 DEF WriteNights, range
    <3> QED BY <1>7, <3>1 DEF Accounted
  <2>2. CASE n \notin range
    <3>1. shown'[n] = shown[n] /\ (n \in left => n \in left')
      BY <2>2 DEF WriteNights, range
    <3>2. ~Mends(w, n)
      BY <1>4, <2>2 DEF Mends, MendsAs
    <3>3. \A v \in Workers \ {w} : Mends(v, n) => Mends(v, n)'
      BY <1>5, <1>6, <1>7 DEF Mends, MendsAs, Recomputing
    <3>4. ASSUME NEW b \in Bookings, Due(b), n \in lines[b] PROVE Due(b)'
      <4>1. run[w].rev # stored[b]
        BY <1>1, <1>4, <2>2, <3>4 DEF NightsInv, RangesFit, RowsAgree, Recomputing, Due
      <4> QED BY <1>3, <1>5, <1>6, <3>4, <4>1 DEF Due, Told
    <3> QED BY <1>6, <1>7, <3>1, <3>2, <3>3, <3>4 DEF NightsInv, Accounted
  <2> QED BY <2>1, <2>2
<1> QED BY <1>8, <1>9, <1>10, <1>11 DEF NightsInv

\* What the record of a run says after a transaction.
LEMMA PersistedRun ==
  ASSUME TypeOK, NEW w \in Workers, NEW r, NEW S, Persisted(w, r, S)
  PROVE  /\ run'[w].rev = r /\ run'[w].affected = S
         /\ run'[w].step = IF S = {} THEN "ack" ELSE "read"
         /\ \A v \in Workers \ {w} : run'[v] = run[v]
<1> DEFINE x == [run[w] EXCEPT !.step = IF S = {} THEN "ack" ELSE "read", !.rev = r,
                               !.affected = S]
<1>1. run[w] \in Run /\ run' = [run EXCEPT ![w] = x]
  BY DEF TypeOK, Persisted, Serve
<1>2. x.rev = r /\ x.affected = S /\ x.step = IF S = {} THEN "ack" ELSE "read"
  BY <1>1 DEF Run
<1> HIDE DEF x
<1> QED BY <1>1, <1>2, OneRun

\* A transaction that writes nothing is about a revision whose nights the booking shows,
\* or about one it does not.
LEMMA PersistKeptNights ==
  ASSUME NightsInv, Inv', NEW w \in Workers, NEW r \in Revisions, Doing(w, "persist"),
         PersistSame(w, r) \/ PersistOlder(w, r),
         UNCHANGED <<channelVars, nightVars>>
  PROVE  NightsInv'
<1> DEFINE b == BookingOf[r]
           S == IF stored[b] = r THEN lines[b] ELSE {}
<1>1. Persisted(w, r, S)
  BY DEF PersistSame, PersistOlder
<1>2. /\ run'[w].rev = r /\ run'[w].affected = S
      /\ run'[w].step = IF S = {} THEN "ack" ELSE "read"
      /\ \A v \in Workers \ {w} : run'[v] = run[v]
  BY <1>1, PersistedRun DEF NightsInv, Inv
<1>3. ASSUME S = {}, NEW c \in Bookings, stored[c] = r PROVE lines[c] = {}
  BY <1>3, FeedAssumption DEF NightsInv, RowsAgree
<1>4. SameBookings /\ left' = left /\ acked' = acked
  BY DEF PersistSame, PersistOlder, SameBookings, bookingVars, nightVars, channelVars
<1>5. run'[w].step = "ack" =>
        \/ (run[w].step = "ack" /\ run'[w].rev = run[w].rev)
        \/ \A c \in Bookings : stored[c] = run'[w].rev => lines[c] = {}
  BY <1>2, <1>3
<1>6. run'[w].step \in {"read", "write"} =>
        LET q == run'[w].rev IN
        stored[BookingOf[q]] = q => lines[BookingOf[q]] \subseteq run'[w].affected
  BY <1>2
<1>7. \A n \in Nights : ~Mends(w, n)
  BY DEF Doing, Mends, MendsAs
<1> QED BY <1>2, <1>4, <1>5, <1>6, <1>7, QuietStep

\* A revision that is applied leaves the nights of the old locks and of the new to its
\* own run, or to its next delivery; no other night changes.
LEMMA PersistNewNights ==
  ASSUME Chronological, NightsInv, Inv', NEW w \in Workers, NEW r \in Revisions,
         Doing(w, "persist"), PersistNew(w, r), UNCHANGED <<channelVars, nightVars>>
  PROVE  NightsInv'
<1> DEFINE b == BookingOf[r]
<1>1. TypeOK /\ b \in Bookings /\ r # NoRevision
  BY FeedAssumption DEF NightsInv, Inv
<1>2. /\ ~CoveredBy(stored, r) /\ r \notin acked
      /\ \A v \in Workers :
           run[v].rev = r => run[v].step \notin {"read", "write", "ack", "resolve"}
      /\ stored[b] # NoRevision => ~Cancels[stored[b]]
  BY AppliedIsDue DEF PersistNew
<1>3. /\ run'[w].rev = r /\ run'[w].affected = Touched(r)
      /\ run'[w].step = IF Touched(r) = {} THEN "ack" ELSE "read"
      /\ \A v \in Workers \ {w} : run'[v] = run[v]
  BY <1>1, PersistedRun DEF PersistNew
<1>4. /\ stored'[b] = r /\ locks'[b] = Stay(r)
      /\ lines'[b] = IF Cancels[r] THEN lines[b] ELSE Stay(r)
      /\ \A c \in Bookings \ {b} :
           stored'[c] = stored[c] /\ locks'[c] = locks[c] /\ lines'[c] = lines[c]
  BY <1>1 DEF PersistNew, TypeOK
<1>5. acked' = acked /\ shown' = shown /\ left' = left
  BY DEF channelVars, nightVars
<1>6. lines[b] = locks[b]
  BY <1>1, <1>2 DEF NightsInv, RowsAgree
<1>7. lines[b] \subseteq Touched(r) /\ lines'[b] \subseteq Touched(r)
  BY <1>4, <1>6 DEF Touched
<1>8. RowsAgree'
  <2>1. Cancels[r] \/ lines'[b] = locks'[b]
    BY <1>4
  <2> QED BY <1>1, <1>4, <2>1 DEF NightsInv, RowsAgree
<1>9. AckedShown'
  <2>1. ASSUME NEW q \in acked PROVE CoveredBy(stored', q)
    <3>1. q \in Revisions /\ CoveredBy(stored, q)
      BY <1>1 DEF TypeOK, NightsInv, AckedShown
    <3> QED BY <3>1, NeverBack DEF NightsInv
  <2> QED BY <1>5, <2>1 DEF AckedShown, CoveredBy
<1>10. RangesFit'
  <2> SUFFICES ASSUME NEW v \in Workers, run'[v].step \in {"read", "write"},
                      stored'[BookingOf[run'[v].rev]] = run'[v].rev
               PROVE  lines'[BookingOf[run'[v].rev]] \subseteq run'[v].affected
    BY DEF RangesFit, Recomputing
  <2>1. CASE v = w
    BY <1>3, <1>7, <2>1
  <2>2. CASE v # w
    <3>1. run'[v] = run[v] /\ run[v].rev # r /\ run[v].rev \in Revisions
      BY <1>2, <1>3, <2>2 DEF NightsInv, Inv, Ready
    <3>2. BookingOf[run[v].rev] \in Bookings \ {b}
      BY <1>4, <3>1, FeedAssumption
    <3> QED BY <1>4, <3>1, <3>2 DEF NightsInv, RangesFit, Recomputing
  <2> QED BY <2>1, <2>2
<1>11. ASSUME NEW n \in Nights PROVE Accounted(n)'
  <2>1. CASE n \in Touched(r) /\ n \in lines'[b]
    <3>1. run'[w].step = "read"
      BY <1>3, <2>1
    <3>2. \A v \in Workers : ~(run'[v].step = "ack" /\ run'[v].rev = r)
      BY <1>2, <1>3, <3>1
    <3>3. Due(b)'
      BY <1>1, <1>2, <1>4, <1>5, <3>2 DEF Due, Told
    <3> QED BY <1>1, <2>1, <3>3 DEF Accounted
  <2>2. CASE n \in Touched(r) /\ n \notin lines'[b]
    <3>1. run'[w].step = "read"
      BY <1>3, <2>2
    <3>2. Mends(w, n)'
      BY <1>3, <2>2, <3>1 DEF Mends, MendsAs
    <3> QED BY <3>2 DEF Accounted
  <2>3. CASE n \notin Touched(r)
    <3>1. Booked(n)' = Booked(n)
      <4>1. \A c \in Bookings : n \in locks'[c] <=> n \in locks[c]
        BY <1>4, <2>3 DEF Touched
      <4> QED BY <4>1 DEF Booked
    <3>2. ASSUME NEW v \in Workers, Mends(v, n) PROVE Mends(v, n)'
      <4>1. v # w /\ run'[v] = run[v] /\ run[v].rev \in Revisions
        BY <1>3, <3>2 DEF Doing, Mends, MendsAs, NightsInv, Inv, Ready
      <4>2. n \notin lines'[BookingOf[run[v].rev]]
        BY <1>4, <1>7, <2>3, <3>2, <4>1, FeedAssumption DEF Mends, MendsAs
      <4> QED BY <3>1, <3>2, <4>1, <4>2 DEF Mends, MendsAs
    <3>3. ASSUME NEW c \in Bookings, Due(c), n \in lines[c] PROVE (Due(c) /\ n \in lines[c])'
      <4>1. c # b /\ stored[c] # r
        BY <1>7, <2>3, <3>3, <1>1 DEF NightsInv, RowsAgree
      <4>2. \A v \in Workers : ~(run'[v].step = "ack" /\ run'[v].rev = stored[c])
        BY <1>3, <3>3, <4>1 DEF Due, Told
      <4> QED BY <1>4, <1>5, <3>3, <4>1, <4>2 DEF Due, Told
    <3> QED BY <1>5, <3>1, <3>2, <3>3 DEF NightsInv, Accounted
  <2> QED BY <2>1, <2>2, <2>3
<1> QED BY <1>8, <1>9, <1>10, <1>11 DEF NightsInv

LEMMA PersistNights ==
  ASSUME Chronological, NightsInv, NEW w \in Workers, Persist(w) PROVE NightsInv'
<1>1. PICK r \in Oldest(run[w].batch) :
        PersistSame(w, r) \/ PersistOlder(w, r) \/ PersistNew(w, r)
  BY DEF Persist
<1>2. r \in Revisions
  BY DEF Oldest, NightsInv, Inv, TypeOK, Run
<1>3. Inv'
  BY PersistInv DEF NightsInv
<1>4. Doing(w, "persist") /\ UNCHANGED <<channelVars, nightVars>>
  BY DEF Persist
<1> QED BY <1>1, <1>2, <1>3, <1>4, PersistKeptNights, PersistNewNights

-----------------------------------------------------------------------------
LEMMA InitNights == Init => NightsInv
<1> SUFFICES ASSUME Init PROVE NightsInv
  OBVIOUS
<1>1. Inv
  BY InitInv
<1>2. RowsAgree /\ AckedShown
  BY DEF Init, RowsAgree, AckedShown
<1>3. RangesFit
  BY DEF Init, Idle, RangesFit, Recomputing
<1>4. \A n \in Nights : Accounted(n)
  <2>1. \A n \in Nights : Booked(n) = 0
    <3>1. \A n \in Nights : {b \in Bookings : n \in locks[b]} = {}
      BY DEF Init
    <3> QED BY <3>1, FS_EmptySet DEF Booked
  <2> QED BY <2>1 DEF Init, Accounted
<1> QED BY <1>1, <1>2, <1>3, <1>4 DEF NightsInv

\* A step that changes no run, no booking and no night.
LEMMA SameNights ==
  ASSUME NightsInv, Inv', UNCHANGED <<acked, bookingVars, nightVars, run>> PROVE NightsInv'
<1>1. /\ acked' = acked /\ stored' = stored /\ locks' = locks /\ lines' = lines
      /\ shown' = shown /\ left' = left /\ run' = run
  BY DEF bookingVars, nightVars
<1>2. RowsAgree' /\ AckedShown' /\ RangesFit'
  BY <1>1 DEF NightsInv, RowsAgree, AckedShown, CoveredBy, RangesFit, Recomputing
<1>3. \A n \in Nights : Accounted(n)'
  BY <1>1 DEF NightsInv, Accounted, Booked, Mends, MendsAs, Due, Told
<1> QED BY <1>2, <1>3 DEF NightsInv

LEMMA NextNights == Chronological /\ NightsInv /\ [Next]_vars => NightsInv'
<1> SUFFICES ASSUME Chronological, NightsInv, [Next]_vars PROVE NightsInv'
  OBVIOUS
<1>1. Inv'
  BY NextInv DEF NightsInv
<1>2. ASSUME NEW r \in Revisions, Publish(r) PROVE NightsInv'
  BY <1>1, <1>2, SameNights DEF Publish
<1>3. ASSUME NEW w \in Workers, Work(w) PROVE NightsInv'
  BY <1>3, FetchNights, RefuseNights, PersistNights, ReadNightsNights, WriteNightsNights,
     RecomputeFailsNights, AcknowledgeNights, ResolveNights DEF Work
<1>4. ASSUME NEW w \in Workers, Crash(w) PROVE NightsInv'
  BY <1>4, CrashNights
<1>5. CASE UNCHANGED vars
  BY <1>1, <1>5, SameNights DEF vars, bookingVars, nightVars
<1> QED BY <1>2, <1>3, <1>4, <1>5 DEF Next

LEMMA NightsRemembered == NightsInv => NoNightForgotten
<1> SUFFICES ASSUME NightsInv, NEW n \in Nights, shown[n] # Booked(n), n \notin left
             PROVE  \/ \E w \in Workers : run[w].step = "read" /\ n \in run[w].affected
                    \/ \E w \in Workers : /\ run[w].step = "write" /\ n \in run[w].affected
                                          /\ run[w].seen[n] = Booked(n)
                    \/ \E b \in Bookings :
                         stored[b] \notin acked \cup {NoRevision} /\ n \in lines[b]
  BY DEF NoNightForgotten
<1>1. CASE \E w \in Workers : Mends(w, n)
  BY <1>1 DEF Mends, MendsAs
<1>2. CASE \E b \in Bookings : Due(b) /\ n \in lines[b]
  BY <1>2 DEF Due, Told
<1> QED BY <1>1, <1>2 DEF NightsInv, Accounted

\* A night whose availability is wrong is accounted for, whatever runs overlap and
\* wherever they die, if the channel dates the revisions of a booking one after the other
\* and none follows the cancellation.
THEOREM NightsAreRemembered ==
  ASSUME Chronological PROVE Spec => []NoNightForgotten
<1>1. Init => NightsInv
  BY InitNights
<1>2. NightsInv /\ [Next]_vars => NightsInv'
  BY NextNights
<1>3. NightsInv => NoNightForgotten
  BY NightsRemembered
<1> QED BY <1>1, <1>2, <1>3, PTL DEF Spec
=============================================================================
