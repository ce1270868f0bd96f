# Verification of Fastt

Fastt is a server-rendered online travel agency: providers publish lodging and
tours, guests hold and book nights, and channel managers (Channex) exchange
availability and bookings with it. It is a modular monolith of TypeScript
(Astro) on one PostgreSQL database, run as serverless functions: any number of
processes serve requests, cron endpoints start workers that may overlap, and a
process may be stopped between any two statements. Nothing but the database is
shared, so what can go wrong is the order of statements of different processes,
and what is left behind by one that stops.

This directory holds TLA+ modules of the parts where that matters, the TLC
configurations that check them on small instances, and TLAPS proofs of their
most important properties for every value of the constants.
Paths below are relative to `src/src` of the repository unless they start with
`db` or `docs`.

## The system

| part | state | operations | hard behaviour | modelled in |
| --- | --- | --- | --- | --- |
| Inventory holds (`InventoryHoldRepository`, `createInventoryHold`, `releaseExpiredHolds`) | `Hold`, `InventoryLock`, `DailyInventory.reservedCount` | hold, find active hold, release, sweep | statements of READ COMMITTED transactions interleave; row locks; unique keys | `HoldBooking` |
| Bookings from holds (`BookingFromHoldRepository`) | `Booking`, `InventoryLock.bookingId` | confirm | confirmation against release, expiry and another confirmation | `HoldBooking` |
| Cancellation (`pages/api/booking/cancel.ts`) | `Booking.status`, locks | cancel | two transactions; a late confirmation | `HoldBooking`, `Cancellations` |
| Refunds, vouchers, tour check-in (`pages/api/booking`, `lib/refund-reconciliation`, `lib/booking-vouchers`) | quotes, ledger, voucher, `Booking` | quote, record, void, check in, mark a no-show | no transaction: a call may end between any two statements | `Cancellations` |
| Operational inventory (`DailyInventoryRepository`, `applyInventoryMutation`) | `DailyInventory.totalInventory` | change a total; mutate, recompute, enqueue | totals change while they are sold; a failure after the commit | `HoldBooking`, `ChannelSync` |
| Booking revisions (`channel-manager-booking-revisions`) | imported `Booking`, `BookingLineItem`, locks, incidents | feed run: fetch, persist, recompute, acknowledge, resolve | duplicated and reordered deliveries, lost answers, overlapping runs, deaths | `HoldBooking` (the transaction), `BookingFeed` (the run) |
| Effective availability (`recomputeEffectiveAvailabilityRange`) | `EffectiveAvailability` | recompute a range | read and write apart; stale overwrites | `BookingFeed` (partly) |
| ARI delta queue and worker (`channel-manager-incremental-queue`, `provider-sync-job-queue`, `channel-manager-incremental-ari`) | `ProviderIntegrationSyncJob`, connection status | enqueue and coalesce, claim, snapshot, push, mark, retry | enqueue against claim, retries, eligibility read early | `ChannelSync` |
| Scheduler, full sync, pause and resume (`provider-integration-scheduler`, `channel-manager-initial-ari`, `provider-integrations`) | connection status, `syncEnabled`, jobs | invoke, recover, pause, resume, flush | overlapping invocations, check-then-insert | `ChannelSync` (partly) |
| Connections with a channel manager (`provider-integrations`) | connection row, credential in the vault | connect, test, synchronize, activate, revoke, choose the primary | a remote call between a read and a write by id | `Connections` |
| External calendars (`provider-external-calendars`) | feeds, external events and blocks, jobs, runs, incidents | create, enqueue, claim, import, recompute, retry, revoke | two imports of one feed; a revocation meanwhile; the etag stored before the recomputation | `ExternalCalendars`, events also in `HoldBooking` |
| Integration runs and incidents | runs, incidents | start, finish, record, resolve | check-then-insert by idempotency key | with the calendars and the booking feed |
| Pricing bulk jobs (`pricing-bulk-job-queue`, `-worker`, `PricingBulkJobRepository`) | job and item rows, lease, checkpoints | enqueue, claim, process, settle, finalize, recover, retry, cancel | leases lost by runs that go on, deaths between effect and checkpoint | `PricingBulkJobs` |
| Pricing rules and effective prices | rules, `EffectivePricing` | create, update, recompute | grouped effects after many writes | as effects of `PricingBulkJobs` |
| Sensitive commands (`lib/commands`) | `CommandIdempotency` | reserve, replay, reclaim, lock, complete, fail, clean up | leases that run out under a live call; completion by id only | `SensitiveCommand`, `CommandOnce` |
| Document processing (`lib/documents`) | jobs, inspections | backlog, requeue, claim, analyse, retry, give up | verdict and job written without the lease | `DocumentProcessing` |
| Provider documents (`provider-documents`) | documents, replacements | submit, replace, review | two replacements of one document reviewed at once | `ProviderDocuments` |
| Casework (`modules/casework`, `lib/casework`) | cases, decisions, approvals, requests for information | open, assign, propose, approve, apply, ask, answer, reconcile | dual control on versioned cases that change under the reviewers | `Casework` |
| Payment accounts (`provider-payment-accounts`) and tax configuration | accounts, challenges, financial profile | create, open and confirm a micro-deposit, review, choose the primary, recompute the profile | a bank asked between two transactions; snapshots of another table | `PaymentAccounts`, `Casework` |
| Shared cache (`lib/cache`) | process memory, Redis | read through, invalidate | a read that outlives an invalidation | `SharedCache` |
| Agreements, policies, taxes and fees | versions, assignments | draft, publish, ratify | versions under a row lock | not modelled |
| Onboarding sessions, departures, rollout | sessions, counters | save, complete, program | one-row locks | not modelled |
| Search, restrictions, house rules, catalog, identity | derived views and edited rows | resolve, edit | no protocol of their own | not modelled |
| User interface, document-analysis service, schema and scripts | none | present, analyse, migrate | none | not modelled |

How they interact: a request or a feed run changes `DailyInventory` and
`InventoryLock` in a transaction; `applyInventoryMutation` (or the feed run
itself) then recomputes `EffectiveAvailability` and enqueues an ARI job; the
scheduler's invocations claim the jobs and push the nights to the channel,
whose bookings come back through the feed. A pricing bulk job writes rules,
recomputes prices and enqueues an ARI job in the same way, and a calendar import
blocks nights in the same table. Reviews of a provider's documents, tax
configuration and accounts are sensitive commands; they open and decide
compliance cases, and the documents they are about pass the inspection of the
document worker. `PROJECT.json` lists the hazards of each part at the line where
they bite, with the properties that would catch them.

## Modules

| module | role |
| --- | --- |
| `HoldBooking` | the stock of one variant, one action per statement |
| `ChannelSync` | outbound synchronization of one connection |
| `Connections` | the connections of a provider and their credentials |
| `BookingImport` | abstract: what the import of bookings promises |
| `BookingFeed` | the feed run, shown to implement `BookingImport` |
| `ExternalCalendars` | the import of calendar feeds |
| `PricingBulkJobs` | one bulk job, its worker runs and its operator |
| `CommandOnce` | abstract: what an idempotency key promises |
| `SensitiveCommand` | the calls of one key, shown to implement `CommandOnce` when atomic |
| `DocumentProcessing` | the worker that inspects documents |
| `ProviderDocuments` | submission, replacement and review of documents |
| `Casework` | compliance cases about one source |
| `PaymentAccounts` | bank accounts of a provider and the financial profile |
| `Cancellations` | refund, voucher and check-in around a cancellation |
| `SharedCache` | one key of the cache |
| `...Proofs` | theorems of `HoldBooking`, `ChannelSync`, `BookingFeed`, `PricingBulkJobs`, `SensitiveCommand`, `Cancellations` |
| `ProviderProofs` | theorems of `Casework`, `ProviderDocuments`, `Connections`, `ExternalCalendars`, `PaymentAccounts`, `DocumentProcessing` |
| `MCOverlapProofs` | the same theorems for the parts `MCOverlap` puts side by side |
| `MC...` | small instances; `MCOverlap` and `MCBackground` put several parts side by side |

A *history variable* (`lost`, `left`, `raced`, `disturbed`, `behind`, `overtaken`,
`late`, `lapsed`) never enables or disables a step. It records that the code took
a path on which it gives a guarantee up, so that the properties can demand the
guarantee on all other paths; each of these paths is listed under "Gaps".

### HoldBooking

A worker is a process serving one request; `req[w]` is the request's local
state, and every action is one statement of its transaction, or the last one
with the commit. Writes become visible at the commit, rows stay locked from
their UPDATE to the commit (`wrote`), so a row's new value is a function of the
committed one and is computed at the commit.

| actions | code |
| --- | --- |
| `FindActiveHold`, `InsertHold`, `CheckNight`, `UpdateNight`, `CommitHold` | `createInventoryHold`, then `holdInventory`: Hold row, SELECTs, guarded UPDATE per night, locks |
| `ReadHoldLocks`, `DecrementNight`, `DeleteHoldLocks` | `releaseHold`, also called by the sweep |
| `ReadHold`, `ConsumeHold` | `createBookingFromHold`: the linked rows are counted |
| `LoadBooking`, `MarkCancelled`, `DropBookingLocks` | `POST /api/booking/cancel` |
| `BeginRevision`, `ReserveRow`, `CommitRevision` | `persistBookingRevision` under its advisory lock |
| `SetCapacity`, `SyncCalendar`, `Expire` | `upsertOperational`, calendar events, the clock |
| `DeadlockVictim`, `Crash` | PostgreSQL and the process |

`ScalarMax` says whether the database has the two-argument `max()` that
`releaseHold` calls. PostgreSQL has not, so the release ends with an error
(finding `release_locks`); the protocol of the release is checked on a database
that has it (`hold_booking`), so that it is known what the stock would do.

### ChannelSync

The availability of a night is a version number: `truth[n]` counts committed
changes, `remote[n]` is what the channel shows. A change goes through
`Change`, `SelectConnection` (the connection must be eligible), `UpsertSlot`
(merge into the queued job of the next minute, or spill once); an invocation
through `StartInvocation`, `ReadCandidates`, `LockCandidates` (three rounds),
and for each job `Snapshot`, `Push`, `RecordRun`, `MarkSucceeded` or
`MarkFailed`. Operators ask for a full sync (`CheckRecovery`,
`InsertRecovery`), pause, resume and flush. `lost` is a history variable: the
changes the code gives up at a place one can name (a connection that is not
eligible, a death, a rejected push, retries that ran out, a pause).

### BookingFeed and BookingImport

A run reads the revisions the channel has not been told to forget and takes
them oldest first: `Persist` (the whole transaction, whose statements are those
of `HoldBooking`), `ReadNights` and `WriteNights` (the recomputation),
`Acknowledge`, `Resolve`. It may refuse a revision, fail in the recomputation,
lose the answer to an acknowledgement or die. `left` is a history variable: the
nights the code leaves stale in a way one can name. `BookingImport` is the
promise: a booking never goes back to an older revision, and the channel
forgets a revision only when the booking shows it or a later one.

### PricingBulkJobs

One `create_pricing_rule` job with its items. `job` and `item` are the rows,
`run[w]` what a worker run has read; `job.by` is the lease, and `Gone` the lease
of a run that has died. A run claims the job, claims a batch of items, creates
rules (`CreateRule` is idempotent under the item's key), marks outcomes, counts
the items and settles the job in two statements, then runs three effects with a
checkpoint after each. `Overtake` takes the lease of a run that goes on,
`Recover` that of a dead one. `RetryFailed`, `RetryFinalization` and
`CancelQueued` are the operator's, whose requests are assumed not to overlap.

### SensitiveCommand and CommandOnce

The calls that carry one idempotency key, one action per statement of
`executeSensitiveCommand`: `Find`, `Insert` (which the unique key decides),
`Reclaim`, then for an atomic command `Lock`, `Commit` (effect, audit and replay
in one transaction), for any other `Execute`, `Complete` or `Fail`. `Expire` lets
a lease or the retention of an answer run out, `CleanupSelect` and
`CleanupDelete` are the script, `Die` ends a process. `CommandOnce` is the
promise: while the key is remembered one call takes effect and everyone who is
answered is given its response. Atomic commands implement it; plain ones do not
once a lease has run out, which is why the module keeps both (`Atomic`), and
`ReservationHolds` says what is left of the promise for either.

### DocumentProcessing

`inspection` and `job` are the two rows of a document; `worker[w]` is a run:
`StartAfter` adds missing rows (the backlog), requeues what waited for
a configuration and takes back leases of ten minutes; `ListDue` reads the due
jobs; `Claim` takes one by compare-and-set on its status, whatever its attempts are
by then; then the verdict and the job are written by two statements that carry no
lease. A job that found no gateway waits for one, whatever the structure of its file
says. `late` names documents whose
lease was taken from a run still at work. What the structure check and the
analysis gateway find is chosen freely.

### ProviderDocuments

`Submit` reads the document to be replaced, `Register` inserts the new one and
supersedes the old one, unless that one is kept until the review. `Begin` takes
the snapshot of a review, `Decide` writes it under REPEATABLE READ (a review
fails when a row it locks has changed since), `Inspect` is the interface of
`DocumentProcessing`. `raced`: two replacements were being reviewed at the same
moment.

### Casework

A command is one step, guarded by the version of the case that its page showed
(`page`): `Open`, `Assign`, `Propose`, `Approve` and `RejectApproval` (by somebody
else), `PublishRequest`, `Respond`. `Submit` and `SynchronizeSubmitted` are the
provider's request, which may stop in between (`SubmitCrash`); `LegacyReview` is
the older review of the same source; `Cron` reads, synchronizes and resolves
cases in separate steps.

### ExternalCalendars

`remote[f]` is the version of the feed on its server, `feed[f]` the row with the
etag, the imported events and the nights they block, `job[s]` a row of the queue
and `work[s]` the synchronization that executes it. `Create`, `EnqueueDue`,
`EnqueueManual` and `Revoke` are requests and the scheduler; `Claim`, `Work` (fetch,
import, recompute, finish, settle) and `FetchFails` a synchronization that may
die and be executed again; `Publish` and `DueAgain` the environment.

### PaymentAccounts

A challenge is reserved in a transaction, the bank is asked, and the answer is
settled in another: `ReserveOpen`, `AskOpen`, `SettleOpen` and `ReserveConfirm`,
`AskConfirm`, `SettleConfirm`. `Review` and `SelectPrimary` decide accounts and write
the financial profile derived from them. The provider's `SaveTax` commits the tax
configuration, and a second transaction recomputes the profile (`SeeTax` takes its
snapshot, `Refresh` writes); `ReviewTax` writes both in the one transaction whose
snapshot `StartTaxReview` took. Transactions are REPEATABLE READ: they fail on a row
that was changed since their snapshot, see an old row of a table they only read, and
do not see a row inserted since (`behind`). `opened` and `decided` are what the bank
has been asked. That a challenge expires after seven days is left out.

### Cancellations

The endpoints run statements of their own: `StartCancel` and `RequestQuote` find
or insert the quote of their key, `Cancel` records the ledger entry, cancels the
booking and voids the voucher in separate steps, `CheckIn` redeems the voucher and
then writes the booking, `StartNoShow` and `MarkNoShow` read and then write.
`disturbed`: a cancellation died before its end, or a check-in that had seen the
booking confirmed ended after the cancellation.

### SharedCache

`readThrough` and the two levels of `persistentCache` for one key: a miss asks
the shared store (`Miss`, `Read`), calculates and stores the answer in memory and,
later, in the store (`Arrive`); a command writes the data and then deletes the key
(`Write`, `DeleteShared`, `ClearMemory`). `ExpireMemory` and `ExpireShared` are the
times to live.

### Connections

`row` and `vault` are the connection and its credential; `call[p]` is a request
or a job with what it has read: it connects (row, then vault), tests,
synchronizes or activates (`ReadCredential`, the remote call, `Tested`, `Synced`,
`Activated`; a token that is due is refreshed first), revokes, or chooses the
primary connection. `accepted` are the secrets the remote system has accepted.
`overtaken`: a connection was written by a call during which another had written
it.

## Runs

| run | question | instance |
| --- | --- | --- |
| `hold_booking` | do holds, confirmations, releases and cancellations by three processes keep the stock? | two stays of one and two rooms on the same two nights, totals 1 or 3, one calendar block, crashes; a database on which the release runs |
| `hold_revisions` | do imported revisions and a hold keep the stock, advance and end? | an import, a move and a cancellation, the last two of the same instant; fair, no crash |
| `sync_queue` | is a change ever forgotten between the queue and the push? | two nights, two changes of one and one of the other, three minutes, one invocation at a time, four outcomes of a push, one death, pauses, a flush in the last minute |
| `booking_feed` | does the feed keep `BookingImport`, answer every revision, and forget no night? | two overlapping runs; import on night 1, move to night 3, cancellation; four answers of the channel; one death |
| `pricing_jobs` | do leases, settlement, finalization, retry and cancellation of a job fit together? | two items, one per batch, two overlapping runs, two setbacks, one retry |
| `overlap` | what may requests that overlap do to each other? | twelve scenes of nine parts, below |
| `background_jobs` | do the background jobs make progress? | four scenes, below |
| `cancel_stock` | (finding) does a cancellation return its stock? | no: `reservedCount` keeps it |
| `release_locks` | (finding) does a release delete its locks? | no: the statement fails on PostgreSQL |
| `transient_deltas` | (finding) do transient failures lose deltas? | yes: the connection is not eligible meanwhile |
| `feed_recompute` | (finding) does availability follow a modification? | not after one failed recomputation |
| `pricing_effects` | (finding) do the effects follow every rule? | not for rules created by a retry of a partial job |

`MCOverlap` and `MCBackground` check parts that share no state side by side:
Init chooses a `scene`, which never changes, and each variable stands for one of
the part on stage. The state space is the sum of those of the parts.

| scene of `overlap` | instance | property |
| --- | --- | --- |
| sync | two invocations, a recovery full sync, partial and rate-limited pushes, a flush | `DisjointClaims` |
| command, plain | three calls of a key, two with the same request id, one with another payload; atomic or not | `ImplementsPromise`, `ReservationHolds` |
| papers | three documents, two people | `ReplacedNotInForce` |
| cases | two people, two cases, two decisions, two submissions | `OneOpenDecision`, `CasesAdvance` |
| payments, deposits | two accounts with one attempt each; one account with two | `AccountsSound` |
| calendars | one feed whose two versions block different nights, two jobs with two attempts, one death | `FeedSound` |
| refunds | two people with quotes of their own | `CancellationAccounted` |
| vault, primary | one connection and two secrets; two connections and none | `ConnectionSound` |
| inspection | one document, two overlapping runs, two attempts, one death, one lease that runs out under a live run | `JobTellsInspection` |

| scene of `background_jobs` | instance | property |
| --- | --- | --- |
| inspection | as in `overlap` | `JobsSettle` |
| calendars | one feed that changes once, two jobs at a time | `FeedsKeepUp` |
| cases | one reviewer, three cases, two submissions, the cron job | `PendingGetsCase` |
| cache | two processes, two versions of the data | `CacheCatchesUp` |

Why the bounds are enough. Two nights are the fewest on which transactions lock
rows in different orders; stays of different sizes on totals of one and three
make one, both or none of them fit; three processes let a third act between the
two that race. Changes of two nights reach the merge and the hull of a range,
a third of them the spill. The move of the feed instance skips a night, so
the hull of what it touched differs from the nights it touched. Two items in
batches of one make a job end partial and be claimed twice; two setbacks let a
run die and another lose its lease in one behaviour. In the scenes two actors
race for one row and a third row or call is there when the race needs a bystander:
two replacements of one document need three documents, a reclaimed reservation
that meets its former owner and a conflicting payload needs three calls. Each
property has a mutant of the code (a dropped guard, an off-by-one, a missing
filter) that violates it on the same instance.

Bounds by name: `Capacities`, `Blocks` (HoldBooking); `MaxMinute`, `MaxVersion`,
`MaxDeaths`, `FullSyncs`, `Flushes` (ChannelSync: the clock, changes per night,
deaths, ids of full syncs, minutes in which the operator may flush; a change
starts only when two minutes are left, so that the end of the clock loses
nothing); `MaxDeaths` (BookingFeed, ExternalCalendars); `MaxSetbacks`,
`MaxRetries` (PricingBulkJobs); `MaxDeaths`, `MaxLapses` (DocumentProcessing);
`MaxCases`, `MaxDecisions`, `MaxRevision` (Casework); `MaxVersion` (SharedCache);
`MaxSecrets` (Connections). `MaxAttempts`, `MaxFinal`, `ProviderLimit`, `Cooldown`,
`EnqueueDelay` and `BatchSize` are smaller values of constants of the code.
`CHECK_DEADLOCK` is off because every system may come to rest: no more
requests, changes, revisions or jobs.

Symmetry is used only in runs without liveness, and only over processes or people.

## Fairness

* `HoldBooking`: strong fairness of a process's next statement, because
  PostgreSQL queues the waiters of a row, a key or an advisory lock; weak
  fairness of breaking a deadlock. No request has to arrive. `RequestsEnd` is
  checked without crashes, which end a request at once.
* `ChannelSync`: weak fairness of the scheduler, of each job being run and of a
  change being enqueued, and of the clock. No push has to be accepted and no
  operator has to act.
* `BookingFeed`: weak fairness of each run and strong fairness of an accepted
  acknowledgement, because a revision that is not acknowledged is delivered and
  acknowledged again by each later run. Feed jobs are assumed to keep being
  queued, which the scheduler does only while the last status of the connection
  is eligible. Nothing says a revision can ever be persisted.
* `PricingBulkJobs`: weak fairness of each run and of the recovery with which
  each run starts. No step has to succeed. Deaths are bounded: the recovery does
  not count an attempt of the job, so a job whose every run dies is taken back
  for ever, and `JobEnds` would not hold.
* `DocumentProcessing`: a live run goes on (weak); of the runs that start again
  and again some start when the lease of a dead one is over, and some list a job
  whose backoff is over (strong: runs of other sorts come between). No analysis
  has to succeed.
* `ExternalCalendars`: the scheduler claims and a live synchronization goes on
  (weak); a feed is due again and again, the scheduler meets it when it is, and
  the server answers some of the fetches (strong). A feed whose job died while
  running is exempt (`Stranded`): nothing takes it back.
* `Casework`: the reconciliation is started again and again and some of its runs
  do not die between their steps (strong). No person has to act.
* `SharedCache`: requests that have begun end, and so do the times to live (weak).
  Nothing has to be read or written.

In `MCBackground` a fairness condition is on a disjunction over the scenes; as the
scene never changes, it asks the same as one condition per scene.

## Gaps

The findings are contradictions between the code and what the repository says of
it. The following behaviours are reachable in the models, contradict no document,
and are the reason for the exemptions in the properties.

* A change is dropped without a trace when the job it should merge into and the
  spill are both taken; it takes flushes ahead of the minute (`Flushes = {0}`
  violates `NoChangeLost`).
* A running sync job whose worker has died is never taken back
  (`provider-sync-job-queue.ts:69`), in `ChannelSync` and `ExternalCalendars`.
* Two operators can start two full syncs (`channel-manager-initial-ari.ts:880`).
* The nights a feed left are not recomputed again after a recomputation failed:
  the etag is stored before (`disturbed` of `ExternalCalendars`).
* A test or a refresh that began before a revocation writes the connection after
  it: it is an error or connected, not revoked, and a refreshed credential is live
  again (`overtaken`). Testing a revoked connection alone makes its status error.
* Two replacements of one document, reviewed at the same moment, are both
  verified when the replaced document is no longer in force (`raced`).
* A check-in that overlaps a cancellation leaves a redeemed voucher, and a
  cancellation that dies its ledger entry (`disturbed` of `Cancellations`); the
  expiry of a quote is not looked at.
* A profile can be written for a tax status that has just changed, the
  recomputation after a save can be lost, and a review of the tax leaves a first
  profile as it is that was made while it ran (`behind`).
* A completion by id lets a plain command whose lease was reclaimed replace the
  answer of the other one.
* An executed command that dies keeps its key in progress until the lease is
  over.

## What is proved

The theorems hold for every number of processes, holds, nights, revisions,
bookings, jobs' items and runs, calls, keys, documents, cases, feeds, accounts and
connections, from the named assumptions of the modules alone; where a theorem needs
more, its statement says so.

`HoldBookingProofs`. The counter `reservedCount` is compared with a set of
units: every unit taken from a night is a pair of its owner and a number, so a
sum of quantities is a cardinality, and adding a hold adds a disjoint finite
set. The argument has two layers.

1. `Base`, inductive by itself for either database: types; what an open request
   has read and locked at its step, including that every row it has written
   still keeps what its guard promised; that two open requests never have
   locked the same row, primary key or advisory lock; that a lock belongs to a
   granted hold and a booked lock to a booking; and the CHECK constraint. It is
   needed because the interesting facts are about commits, whose effect was
   fixed by statements before them, while other requests went on. It gives
   `TypeCorrect`, `ConfirmedOnce`, `BookingStockKept`, `CheckConstraintHolds`
   and the action properties `CancelledForGood` and `GrantedOnce`.
2. `Ledger`: `reservedCount` is exactly the units of all holds ever granted and
   of the imported bookings' locks. `LedgerExact`, `LocksCovered` and
   `NeverOverbooked` follow; they are stated for a database without the scalar
   `max()` (PostgreSQL), because a release on one that has it may give back a
   unit that a booking keeps.

Two more results rest on `Base`. A request locks its nights in order, so a waiting
one waits for a later night than any it has locked; were every member of a set of
requests waiting for another one, the one that waits for the last night would have no
one to wait for (`NoDeadlockOfHolds`; the nights are finitely many). And the advisory
lock of a booking keeps the revision being applied from becoming older than the
stored one before the commit (`BookingsOnlyAdvance`).

`ChannelSyncProofs`. `Inv` is the types, what each process and each row keeps to
by itself (`Kept`: a queued or running job has an attempt left, an invocation that
still claims runs nothing), and `DisjointClaims`. It is inductive for any number of
overlapping invocations, because a claim looks at its candidates again when it locks
them, and gives `TypeCorrect` and `ClaimsAreDisjoint`. `ChangesAreKept`, that no
change is forgotten (`NoChangeLost`), is proved under three hypotheses (`Orderly`):
one invocation at a time, a change enqueued within a minute, and no flush before the
last minute. Each is needed: with overlapping invocations, a slow enqueuer or an early
flush both slots a change tries may be taken, and it is dropped without a trace (the first of
the "Gaps", hazard at `channel-manager-incremental-queue.ts:186`). The instance of
`sync_queue` satisfies them. Then a slot is run only once its minute has come, while
a change names a minute that has not passed, so the second slot it tries is always
free (`TwoSlotsAreEnough`); and a night the channel does not show is being enqueued,
queued, or in a push that read it after the change (`Coalesced`).

`BookingFeedProofs`. The inductive invariant relates the step of each run to
the booking: between its transaction and its acknowledgement the booking shows
that revision or a later one, whatever other runs commit, and a run that closes
an incident has had its acknowledgement accepted. From it every step of the
feed is a step of `BookingImport` or leaves it unchanged (`ImportImplemented`),
and an incident is closed only for an acknowledged revision (`IncidentsKept`).

`NightsInv` adds why a night that shows too much or too little will be recomputed
(`Accounted`): the booking that holds it shows a revision that has not been
acknowledged, so the revision comes again and its recomputation covers the booking's
line items; or a run is recomputing it that has not read it, or has read what is still
so; or it is in `left`. It needs that line items and locks name the same nights until a
cancellation (`RowsAgree`) and that the run that recomputes the stored revision covers
all of them (`RangesFit`). `NightsAreRemembered`, that no night is forgotten
(`NoNightForgotten`), is proved for a channel that is `Chronological`: of one booking
no revision follows a cancellation and no two are of the same instant. The instance of
`booking_feed` satisfies it. The first half is needed: a
cancellation whose recomputation failed is delivered again and recomputes the line
items, but a revision that revives the booking meanwhile replaces them, and the
nights it does not name stay stale (TLC finds the violation when such a revision is
added to the instance). The second is what the proof takes to know that an older
delivery changes nothing; TLC found no violation without it.

`PricingBulkJobsProofs`. A run whose lease was taken back goes on with what it has
read, so no property of the job is inductive by itself. The invariant has three
parts: what a run has read is within its bounds, lease or no lease (`RunInv`); what
the holder of the lease has read is still so, in particular its counts are those of
the items, its items are running and an effect it is about to checkpoint has reached
all of them (`HolderInv`); and the row agrees with the items, the rules and the
effects, whoever holds it (`JobInv`). Statements of other runs preserve the second
part because they compare the lease token or only add rules and effects. The
retry needs a lemma about cardinalities: a row that satisfies the CHECK
`progress_balance` with its failed items counted has no item queued or running.
The six safety properties of the run `pricing_jobs` follow (`TypeCorrect`,
`CountersKept`, `EffectsComeLast`, `EffectsComplete`, `CancelledIdle` and the action
property `SuccessKept`).

`SensitiveCommandProofs`. A row is named by the id it was inserted with
(`inserted`), so that a row that was deleted and inserted again is another one.
The inductive invariant says that the row is the last one inserted, that a call
that holds its id has its payload, that a remembered response is that of a
committed execution, that two calls are at work under one id only after its lease
has run out, and for atomic commands that an effect that bears the id of the row
is the one the row remembers, while a call that has not committed has none. It
gives `ReservationsHold` (for either kind of command), `OneEffect` (one effect per
row of an atomic command) and `PromiseKept`: with the call remembered by the row
as `done`, every step is one of `CommandOnce` or leaves it unchanged. The assumption `Atomic` is needed only for
the last two.

`CancellationsProofs`. A call goes on from what it has read; the inductive
invariant says what is still true of it by then: the quote of a call that is about
to cancel is in the ledger, a call that is about to redeem belongs to a guest who
has arrived, and while the voucher of a cancelled booking is not void some call is
on its way to make it so, unless `disturbed`. `AccountedFor` follows.

`ProviderProofs`. Six parts, one inductive invariant each. In none of them is the
property inductive, because calls go on from what they have read.

* `CaseInv` (`OneDecisionAtATime`, `CasesOnlyAdvance`): a decision to be approved is
  the only one of its case, and that case is open or in review. Closing a case is
  refused while there is one, by the people's commands and by both reconciliations.
* `PaperInv` (`ReplacedOutOfForce`): a document about to be registered is nobody
  else's; a replaced document was in force when its replacement was registered and
  stays in force or superseded; and what a decision has read and will not notice any
  more (`Noticed`): the replaced document was superseded by then, or a sibling
  verified since is recorded in `raced`.
* `VaultInv` (`ConnectionsKeepCredentials`): a call that nobody has overtaken still
  knows its connection (`Untouched`): it is not revoked, and the secret it has read
  is still in the vault or one the other side has accepted. So what it writes by id
  agrees with the vault.
* `CalendarInv` (`FeedsAreFollowed`): of a feed that is not `disturbed` one
  synchronization at most is between its first and its last statement, and at each
  of them it is known which of the nights, the events and the etag have been moved to
  the new version (`AtWork`); the run it keeps says what it did (`RunFollows`).
* `MoneyInv` (`AccountsAreSound`): the tokens minted for an account are its counted
  attempts and the one being confirmed; the bank has judged all of the former and
  nothing beyond; a call confirms with the guess its token was minted for, and a token
  an undecided account has given up was a wrong guess. Without the last two the bank
  could have accepted a guess the account has counted as a failure.
* `InspectionInv` (`JobsTellInspections`): of a document that is not `late` one run at
  most is at work, and its job is being processed; the verdict that run has written is
  the one its result asks for, so the statement that follows makes the job agree.

`MCOverlapProofs`. `MCOverlap` instantiates the modules of proofs, so that their
lemmas, with the scenes' constants put in, are at hand; `PartsAssumption` says that
these constants satisfy the assumptions of the parts. The invariant is that the
part on stage keeps its own; every property of the run `overlap` follows, the
refinement of `CommandOnce` and the action property `CasesAdvance` included.

## What is only model-checked

* Liveness: `RequestsEnd`, `DeliveredOrReported`, `EveryRevisionAnswered`,
  `JobEnds`, `JobsSettle`, `FeedsKeepUp`, `PendingGetsCase`, `CacheCatchesUp` and
  the temporal finding. Fairness is out of the prover's reach.
* `NoNightForgotten` of a channel whose revisions of one booking may be of the same
  instant; of one that revives cancelled bookings it does not hold.
* The promise of `CommandOnce` for a plain command, which is not claimed.

Every safety property and every action property of the passing runs is a theorem.

## Abstractions

* Snapshots, prices, guests, taxes, texts and the taxonomy of errors are left
  out: no property tells them apart. Room and rate mapping, bad data and missing
  inventory of a revision are one refusal; so are the reasons for which a review,
  a proposal or a request is refused for what it says.
* One variant (`HoldBooking`, `BookingFeed`), one connection and the
  availability domain (`ChannelSync`), one job (`PricingBulkJobs`), one key
  (`SensitiveCommand`, `SharedCache`), one provider (`ProviderDocuments`,
  `PaymentAccounts`, `Connections`), one source of a case (`Casework`), one booking
  (`Cancellations`). The tables are keyed by these, and no transaction of these
  parts depends on another's rows, except that a revision may touch several
  variants: to the row locks these are more nights.
* Every revision has an `insertedAt`; the code takes the current time for one
  that has none.
* A lease, a retention, a token or a time to live that has expired is a step of
  the environment, not a clock.
* A transaction under REPEATABLE READ that only writes rows it has read is one
  step, and fails when one of them has changed since its snapshot.
* A statement of `PricingBulkJobs` is one step. Under READ COMMITTED an outcome
  written by a run without its lease may wait for a recovery that has not committed,
  and then checks its item again but not the lease, which it has read before: it may
  mark an item that the recovery has counted. This overlap is left out, so
  `CountersMatchItems` says nothing of it.
* The version of a case is only compared with the one a page showed, so the model
  keeps whether the page is up to date.

## Not modelled

* Inside modelled parts: manual retries of sync jobs, the rates domain,
  certification accounts, connections of generic vendors, the queue of several
  bulk jobs, overlapping requests of one operator, tour slots and numbered rooms,
  the payout rail, the operator's views and manual resolutions of incidents, the
  outbox of casework events, handoffs and exceptions of refunds. They are loops
  over what is modelled, or records that one person moves along.
* Agreements, policies, taxes and fees, onboarding sessions, departures and the
  rollout counters: each operation is one transaction that locks the one row it
  writes, or is decided by a unique index.
* Search, restrictions, house rules, catalog and identity: derived views and
  single-row edits, no protocol of their own.
* The user interface, the document-analysis service, the schema and the scripts.
  Pages, components and tests are the larger part of the repository by far; they
  present and edit the rows the modelled parts keep, and have no state of their own
  that outlives a request.

## Plan

1. Effective availability as a module of its own, which the booking feed, the
   calendars and the inventory mutations compose: a night shows the last
   committed stock, or somebody still has to recompute it.
2. Drafts, publication and ratification of agreements and policies; onboarding
   sessions.
