-------------------------- MODULE ExternalCalendars --------------------------
(* The import of external calendars (iCal feeds): the queue of synchronization   *)
(* jobs, the scheduler that fills it and executes it, the requests that create,  *)
(* synchronize by hand and revoke a feed, and the ledger of runs and incidents.  *)
(*                                                                              *)
(* A synchronization is a sequence of statements, each a commit of its own: what *)
(* it does is kept in the slot of its job.  The content of a feed is a version;  *)
(* its etag is the version too.  The aggregate state of the connection, which    *)
(* no synchronization reads, is left out.                                       *)
EXTENDS Integers, FiniteSets

CONSTANTS Feeds,
          Slots,         \* rows of ProviderIntegrationSyncJob; a settled one is reused
          NoSlot,
          NightOf,       \* the night each version of a feed blocks
          MaxAttempts,   \* maxAttempts of a job
          MaxDeaths      \* bound: processes that die at work

Versions == DOMAIN NightOf
NoVersion == 0

ConstantsOK == /\ NoSlot \notin Slots
               /\ 1 \in DOMAIN NightOf /\ DOMAIN NightOf \subseteq Nat \ {0}
               /\ \A v \in DOMAIN NightOf : NightOf[v] \in Nat
               /\ MaxAttempts \in Nat \ {0}
               /\ MaxDeaths \in Nat

VARIABLES remote,      \* the version each feed's server publishes
          feed,        \* [status, etag, events, nights, due, ticket, incident]: nights
                       \* are those blocked in the effective availability, due that
                       \* nextSyncAt has come, ticket the job keyed by this nextSyncAt
          job,         \* [feed, status, direct, attempts, run] of each slot
          work,        \* [at, etag, got, previous] of the synchronization of each slot,
                       \* a field kept while a later statement needs it
          disturbed,   \* feeds of which two synchronizations overlapped, one died or
                       \* was overtaken by the revocation, or a recomputation failed
          deaths

vars == <<remote, feed, job, work, disturbed, deaths>>

Absent == [status |-> "absent", etag |-> NoVersion, events |-> NoVersion, nights |-> {},
           due |-> FALSE, ticket |-> NoSlot, incident |-> FALSE]
Free == [feed |-> "none", status |-> "free", direct |-> FALSE, attempts |-> 0, run |-> "none"]
Resting == [at |-> "rest", etag |-> NoVersion, got |-> NoVersion, previous |-> NoVersion]

Init == /\ remote = [f \in Feeds |-> 1]
        /\ feed = [f \in Feeds |-> Absent]
        /\ job = [s \in Slots |-> Free]
        /\ work = [s \in Slots |-> Resting]
        /\ disturbed = {}
        /\ deaths = 0

-----------------------------------------------------------------------------
Imported(f) == feed[f].status \notin {"absent", "revoked"}
Settled(s) == job[s].status \in {"free", "succeeded", "failed"}
Live(s) == work[s].at \notin {"rest", "dead"}
LiveOf(f) == {s \in Slots : Live(s) /\ job[s].feed = f}

Nights(v) == IF v = NoVersion THEN {} ELSE {NightOf[v]}
Between(S) == {n \in {NightOf[v] : v \in Versions} :
                  \E a, b \in S : a <= n /\ n <= b}

Go(s, place) == work' = [work EXCEPT ![s].at = place]
Rest(s, place) == work' = [work EXCEPT ![s] = [Resting EXCEPT !.at = place]]

Publish(f) == /\ remote[f] + 1 \in Versions
              /\ remote' = [remote EXCEPT ![f] = @ + 1]
              /\ UNCHANGED <<feed, job, work, disturbed, deaths>>

(* Inserting the job; the scheduler's key names the nextSyncAt it is due for.    *)
Queue(s, f) == job' = [job EXCEPT ![s] = [Free EXCEPT !.feed = f, !.status = "queued"]]

EnqueueDue(s, f) == /\ Settled(s)
                    /\ Imported(f) /\ feed[f].due
                    /\ feed[f].ticket = NoSlot
                    /\ Queue(s, f)
                    /\ feed' = [feed EXCEPT ![f].ticket = s]
                    /\ UNCHANGED <<remote, work, disturbed, deaths>>

EnqueueManual(s, f) == /\ Settled(s)
                       /\ Imported(f)
                       /\ Queue(s, f)
                       /\ UNCHANGED <<remote, feed, work, disturbed, deaths>>

(* Reading the feed and starting the run: a job executed again finds the run it  *)
(* has, whatever became of it.                                                  *)
Started(s, f) ==
    /\ work' = [work EXCEPT ![s] = [Resting EXCEPT !.at = "fetch", !.etag = feed[f].etag]]
    /\ disturbed' = IF LiveOf(f) \ {s} = {} THEN disturbed ELSE disturbed \cup {f}

(* createProviderExternalCalendar synchronizes the new feed itself, without a    *)
(* job: its slot stands for the request.                                        *)
Create(s, f) == /\ feed[f].status = "absent"
                /\ job[s].status = "free"
                /\ feed' = [feed EXCEPT ![f].status = "pending", ![f].due = TRUE]
                /\ job' = [job EXCEPT ![s] =
                      [Free EXCEPT !.feed = f, !.status = "running", !.direct = TRUE, !.run = "running"]]
                /\ Started(s, f)
                /\ UNCHANGED <<remote, deaths>>

Claim(s) == /\ job[s].status = "queued"
            /\ job' = [job EXCEPT ![s].status = "running"]
            /\ Go(s, "begin")
            /\ UNCHANGED <<remote, feed, disturbed, deaths>>

Begin(s) ==
    LET f == job[s].feed IN
    /\ work[s].at = "begin"
    /\ \/ /\ Imported(f)
          /\ job' = [job EXCEPT ![s].run = IF @ = "none" THEN "running" ELSE @]
          /\ Started(s, f)
       \/ /\ ~Imported(f)
          /\ Go(s, "failed")
          /\ UNCHANGED <<job, disturbed>>
    /\ UNCHANGED <<remote, feed, deaths>>

-----------------------------------------------------------------------------
FetchFails(s) == /\ work[s].at = "fetch"
                 /\ Rest(s, "catch")
                 /\ UNCHANGED <<remote, feed, job, disturbed, deaths>>

(* 304 when the server still publishes the version of the etag. *)
Fetch(s) == LET f == job[s].feed IN
            /\ work[s].at = "fetch"
            /\ IF work[s].etag = remote[f] THEN Go(s, "unmodified")
               ELSE work' = [work EXCEPT ![s] = [Resting EXCEPT !.at = "previous", !.got = remote[f]]]
            /\ UNCHANGED <<remote, feed, job, disturbed, deaths>>

(* What a synchronization that went well writes in the row of the feed, by id:   *)
(* a new nextSyncAt is not due, and no job is keyed by it.                      *)
\* Mutant: as if the key of the scheduler's job did not name the due date.
RefreshedSameKey(f, etag) == [feed[f] EXCEPT !.status = "active", !.etag = etag, !.due = FALSE]
Refreshed(f, etag) == [feed[f] EXCEPT !.status = "active", !.etag = etag,
                                      !.due = FALSE, !.ticket = NoSlot]

Unmodified(s) == LET f == job[s].feed IN
                 /\ work[s].at = "unmodified"
                 /\ feed' = [feed EXCEPT ![f] = Refreshed(f, work[s].etag)]
                 /\ Rest(s, "finishRun")
                 /\ UNCHANGED <<remote, job, disturbed, deaths>>

ReadPrevious(s) == /\ work[s].at = "previous"
                   /\ work' = [work EXCEPT ![s].at = "import",
                                           ![s].previous = feed[job[s].feed].events]
                   /\ UNCHANGED <<remote, feed, job, disturbed, deaths>>

(* The transaction that replaces the events and stores the etag. *)
Import(s) == LET f == job[s].feed IN
             /\ work[s].at = "import"
             /\ feed' = [feed EXCEPT ![f] = [Refreshed(f, work[s].got) EXCEPT !.events = work[s].got]]
             /\ Go(s, "recompute")
             /\ UNCHANGED <<remote, job, disturbed, deaths>>

(* recomputeCalendarRange: the nights from the first to the last of the events   *)
(* seen before and now, computed from the events of the moment.                 *)
\* Mutant: as if nights were blocked and never freed.
RecomputedBlocking(f, S) == feed[f].nights \cup (Nights(feed[f].events) \cap Between(S))
Recomputed(f, S) == (feed[f].nights \ Between(S)) \cup (Nights(feed[f].events) \cap Between(S))

Recompute(s) ==
    LET f == job[s].feed IN
    /\ work[s].at = "recompute"
    /\ \/ /\ feed' = [feed EXCEPT ![f].nights =
                         Recomputed(f, Nights(work[s].previous) \cup Nights(work[s].got))]
          /\ Rest(s, "finishRun")
          /\ UNCHANGED disturbed
       \/ /\ Rest(s, "catch")
          /\ disturbed' = disturbed \cup {f}
          /\ UNCHANGED feed
    /\ UNCHANGED <<remote, job, deaths>>

Catch(s) == /\ work[s].at = "catch"
            /\ feed' = [feed EXCEPT ![job[s].feed].status = "error"]
            /\ Go(s, "failRun")
            /\ UNCHANGED <<remote, job, disturbed, deaths>>

(* finishProviderIntegrationSyncRun leaves a run that is over as it is. *)
Outcome(s) == IF work[s].at = "finishRun" THEN "succeeded" ELSE "failed"
FinishRun(s) == /\ work[s].at \in {"finishRun", "failRun"}
                /\ job' = [job EXCEPT ![s].run = IF @ = "running" THEN Outcome(s) ELSE @]
                /\ Go(s, IF work[s].at = "finishRun" THEN "resolve" ELSE "record")
                /\ UNCHANGED <<remote, feed, disturbed, deaths>>

Incident(s) == /\ work[s].at \in {"resolve", "record"}
               /\ feed' = [feed EXCEPT ![job[s].feed].incident = (work[s].at = "record")]
               /\ Go(s, IF work[s].at = "resolve" THEN "succeeded" ELSE "failed")
               /\ UNCHANGED <<remote, job, disturbed, deaths>>

-----------------------------------------------------------------------------
Succeed(s) == /\ work[s].at = "succeeded"
              /\ job' = [job EXCEPT ![s] = IF @.direct THEN Free
                                           ELSE [@ EXCEPT !.status = "succeeded"]]
              /\ Go(s, "rest")
              /\ UNCHANGED <<remote, feed, disturbed, deaths>>

(* markProviderSyncJobFailed, and the new nextSyncAt of the feed. *)
Retried(s) == LET attempts == job[s].attempts + 1 IN
              [job[s] EXCEPT !.attempts = attempts,
                             !.status = IF attempts >= MaxAttempts THEN "failed" ELSE "queued"]
Fail(s) == LET f == job[s].feed IN
           /\ work[s].at = "failed"
           /\ \/ /\ job[s].direct
                 /\ job' = [job EXCEPT ![s] = Free]
                 /\ UNCHANGED feed
              \/ /\ ~job[s].direct
                 /\ job' = [job EXCEPT ![s] = Retried(s)]
                 /\ feed' = [feed EXCEPT ![f].due = FALSE, ![f].ticket = NoSlot]
           /\ Go(s, "rest")
           /\ UNCHANGED <<remote, disturbed, deaths>>

(* The process dies: nothing takes the lease of the job back. *)
Die(s) == /\ Live(s)
          /\ deaths < MaxDeaths
          /\ deaths' = deaths + 1
          /\ disturbed' = disturbed \cup {job[s].feed}
          /\ Rest(s, "dead")
          /\ UNCHANGED <<remote, feed, job>>

(* revokeProviderExternalCalendar, one step: it ends with the recomputation of   *)
(* the events it has put out of force.                                          *)
Revoke(f) == /\ Imported(f)
             /\ feed' = [feed EXCEPT ![f].status = "revoked", ![f].events = NoVersion,
                                     ![f].nights = @ \ Between(Nights(feed[f].events))]
             /\ disturbed' = IF LiveOf(f) = {} THEN disturbed ELSE disturbed \cup {f}
             /\ UNCHANGED <<remote, job, work, deaths>>

(* nextSyncAt comes: a day, or the backoff, is longer than a synchronization.    *)
DueAgain(f) == /\ Imported(f)
               /\ ~feed[f].due
               /\ LiveOf(f) = {}
               /\ feed' = [feed EXCEPT ![f].due = TRUE]
               /\ UNCHANGED <<remote, job, work, disturbed, deaths>>

Work(s) == \/ Begin(s) \/ Fetch(s) \/ Unmodified(s) \/ ReadPrevious(s) \/ Import(s)
           \/ Recompute(s) \/ Catch(s) \/ FinishRun(s) \/ Incident(s)
           \/ Succeed(s) \/ Fail(s)

Next == \/ \E s \in Slots : Claim(s) \/ Work(s) \/ FetchFails(s) \/ Die(s)
        \/ \E s \in Slots, f \in Feeds : EnqueueDue(s, f) \/ EnqueueManual(s, f) \/ Create(s, f)
        \/ \E f \in Feeds : Publish(f) \/ Revoke(f) \/ DueAgain(f)

Spec == Init /\ [][Next]_vars

(* The scheduler is invoked again and again, a live synchronization goes on, and  *)
(* the server answers some of the fetches.                                      *)
GoOn(s) == Work(s) \/ FetchFails(s)
Enqueue(f) == \E s \in Slots : EnqueueDue(s, f)
Answered(f) == \E s \in Slots : job[s].feed = f /\ Fetch(s)
Fairness == /\ \A s \in Slots : WF_vars(Claim(s)) /\ WF_vars(GoOn(s))
            /\ \A f \in Feeds : SF_vars(DueAgain(f)) /\ SF_vars(Enqueue(f)) /\ SF_vars(Answered(f))
FairSpec == Spec /\ Fairness

-----------------------------------------------------------------------------
TypeOK == /\ remote \in [Feeds -> Versions]
          /\ feed \in [Feeds -> [status : {"absent", "pending", "active", "error", "revoked"},
                                 etag : Versions \cup {NoVersion},
                                 events : Versions \cup {NoVersion},
                                 nights : SUBSET {NightOf[v] : v \in Versions},
                                 due : BOOLEAN, ticket : Slots \cup {NoSlot}, incident : BOOLEAN]]
          /\ job \in [Slots -> [feed : Feeds \cup {"none"},
                                status : {"free", "queued", "running", "succeeded", "failed"},
                                direct : BOOLEAN, attempts : 0 .. MaxAttempts,
                                run : {"none", "running", "succeeded", "failed"}]]
          /\ \A s \in Slots : Live(s) => job[s].status = "running"

AtRest(f) == f \notin disturbed /\ LiveOf(f) = {}

(* When no synchronization of a feed ran into another, what is blocked is what     *)
(* the last import says, the etag is the one of those events, a revoked feed      *)
(* blocks nothing, and an incident is open exactly while the last synchronization *)
(* failed.                                                                      *)
NightsFollowFeed ==
    \A f \in Feeds : AtRest(f) => /\ feed[f].nights = Nights(feed[f].events)
                                  /\ feed[f].status = "revoked" => feed[f].nights = {}
                                  /\ Imported(f) => feed[f].events = feed[f].etag
                                  /\ Imported(f) =>
                                        (feed[f].incident <=> feed[f].status = "error")

(* The ledger of runs says that a job succeeded at its first attempt; a job       *)
(* executed again is given the run it has, and its success may go unrecorded.     *)
RunTellsResult ==
    \A s \in Slots : job[s].status = "succeeded" =>
                         job[s].run = "succeeded" \/ job[s].attempts > 0

FeedSound == NightsFollowFeed /\ RunTellsResult

(* A feed is brought up to date again and again, unless it is revoked, or the     *)
(* job of its due date is held by a process that died (no other one is queued     *)
(* then), or overlapping synchronizations left it the etag of the content that    *)
(* is published with the events of an older one: it is told 304 from then on.     *)
Stranded(f) == feed[f].ticket # NoSlot /\ work[feed[f].ticket].at = "dead"
Pinned(f) == feed[f].etag = remote[f] /\ feed[f].events # remote[f]
KeptUp(f) == ~Imported(f) \/ feed[f].events = remote[f] \/ Stranded(f) \/ Pinned(f)
FeedsKeepUp == \A f \in Feeds : []<>KeptUp(f)
=============================================================================
