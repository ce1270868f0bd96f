----------------------------- MODULE ChannelSync -----------------------------
(***************************************************************************)
(* Outbound synchronization of one channel-manager connection: inventory   *)
(* changes become jobs of the ProviderIntegrationSyncJob table, coalesced  *)
(* by minute; invocations of the scheduler claim jobs, read the state of   *)
(* the nights and push it to the channel.                                  *)
(*                                                                         *)
(* The state of a night is a version: truth[n] counts the committed        *)
(* changes of its availability, remote[n] is the version the channel       *)
(* shows.  A change still owes a push until remote catches up.             *)
(***************************************************************************)
EXTENDS Integers, FiniteSets

CONSTANTS
  Nights,         \* nights of the mapped variant
  Mutators,       \* server processes that change the inventory
  Invocations,    \* runs of the scheduler that may overlap (cron, "sync now")
  Operators,      \* processes serving the recovery controls
  FullSyncs,      \* job ids available to recovery full syncs (random UUIDs)
  ProviderLimit,  \* jobs one claim statement takes from a provider
  MaxAttempts,    \* maxAttempts of the jobs
  Outcomes,       \* what a push may end in
  Cooldown,       \* minutes between two recovery full syncs
  EnqueueDelay,   \* minutes that may pass while a change is being enqueued
  Pauses,         \* may the operator pause and resume the connection
  Flushes,        \* the minutes at which the operator may ask to send what is queued
  MaxDeaths,      \* bound: how many processes may die
  MaxMinute,      \* bound: the minutes of the run
  MaxVersion,     \* bound: changes of each night
  NoNight

ASSUME SyncAssumption ==
  /\ Nights \subseteq Nat /\ IsFiniteSet(Nights) /\ NoNight \notin Nights
  /\ ProviderLimit \in Nat \ {0} /\ MaxAttempts \in Nat \ {0}
  /\ Outcomes \subseteq {"succeeded", "unanswered", "partial", "transient", "permanent", "limited"}
  /\ Cooldown \in Nat /\ EnqueueDelay \in Nat \ {0}
  /\ Pauses \in BOOLEAN /\ Flushes \subseteq Nat
  /\ MaxMinute \in Nat /\ MaxVersion \in [Nights -> Nat] /\ MaxDeaths \in Nat
  /\ FullSyncs \cap (1 .. MaxMinute) = {}

VARIABLES
  now,           \* the current minute
  truth,         \* version of a night's availability in the database
  remote,        \* version the channel shows
  conn,          \* lastSyncStatus, status and syncEnabled of the connection
  job,           \* ProviderIntegrationSyncJob rows
  mut,           \* changes between their commit and their enqueueing
  inv,           \* what each scheduler invocation is doing
  task,          \* the jobs each invocation is running
  asked,         \* operators between their checks and the insert of a full sync
  recoveries,    \* minutes at which a recovery run was started
  lost,          \* history: changes the code gives up in a way it records
  deaths         \* processes that have died

vars == <<now, truth, remote, conn, job, mut, inv, task, asked, recoveries, lost,
          deaths>>

\* A change of minute m is queued under the key of minute m + 1, or m + 2.
Minutes == 1 .. MaxMinute
Jobs == Minutes \cup FullSyncs

SyncStatuses == {"initial_ari_succeeded", "initial_ari_partial", "initial_ari_failed",
  "incremental_ari_succeeded", "incremental_ari_partial", "incremental_ari_failed"}

JobStatuses == {"none", "queued", "running", "succeeded", "failed"}
Finished == {"succeeded", "failed"}

NoTask == [step |-> "none", snap |-> [n \in Nights |-> 0]]
TaskSteps == {"none", "start", "push", "succeeded", "partial", "transient", "permanent",
              "done", "retry", "stop"}

TypeOK ==
  /\ now \in 0 .. MaxMinute
  /\ truth \in [Nights -> Nat]
  /\ remote \in [Nights -> Nat]
  /\ conn \in [sync : SyncStatuses, healthy : BOOLEAN, enabled : BOOLEAN]
  /\ job \in [Jobs -> [status : JobStatuses, nights : SUBSET Nights, runAfter : 0 .. MaxMinute,
                       attempts : 0 .. MaxAttempts]]
  /\ mut \in [Mutators -> [step : {"idle", "select", "insert", "spill"},
                           night : Nights \cup {NoNight}, version : Nat,
                           minute : 0 .. MaxMinute]]
  /\ inv \in [Invocations -> [step : {"idle", "read", "lock", "run"}, at : 0 .. MaxMinute,
                              round : 0 .. 3, due : SUBSET Jobs]]
  /\ task \in [Invocations -> [Jobs -> [step : TaskSteps, snap : [Nights -> Nat]]]]
  /\ asked \subseteq Operators
  /\ recoveries \subseteq 0 .. MaxMinute
  /\ lost \subseteq Nights \X Nat
  /\ deaths \in 0 .. MaxDeaths

IdleMutator == [step |-> "idle", night |-> NoNight, version |-> 0, minute |-> 0]
IdleInvocation == [step |-> "idle", at |-> 0, round |-> 0, due |-> {}]

\* The initial full sync has succeeded.
Init ==
  /\ now = 0
  /\ truth = [n \in Nights |-> 0]
  /\ remote = [n \in Nights |-> 0]
  /\ conn = [sync |-> "initial_ari_succeeded", healthy |-> TRUE, enabled |-> TRUE]
  /\ job = [j \in Jobs |-> [status |-> "none", nights |-> {}, runAfter |-> 0, attempts |-> 0]]
  /\ mut = [p \in Mutators |-> IdleMutator]
  /\ inv = [i \in Invocations |-> IdleInvocation]
  /\ task = [i \in Invocations |-> [j \in Jobs |-> NoTask]]
  /\ asked = {}
  /\ recoveries = {}
  /\ lost = {}
  /\ deaths = 0

mutatorVars == <<truth, mut>>
schedulerVars == <<remote, inv, task>>
operatorVars == <<asked, recoveries>>

-----------------------------------------------------------------------------
(* A change: recompute, then enqueueProviderIncrementalAriChange. *)

\* The change is committed; enough minutes are left to queue it.
Change(p, n) ==
  /\ mut[p].step = "idle"
  /\ truth[n] < MaxVersion[n]
  /\ now + 2 <= MaxMinute
  /\ truth' = [truth EXCEPT ![n] = @ + 1]
  /\ mut' = [mut EXCEPT ![p] = [step |-> "select", night |-> n, version |-> truth[n] + 1,
                                minute |-> 0]]
  /\ UNCHANGED <<now, conn, job, schedulerVars, operatorVars, lost, deaths>>

Eligible ==
  /\ conn.sync \in {"initial_ari_succeeded", "incremental_ari_succeeded",
                    "incremental_ari_partial"}
  /\ conn.enabled

\* The SELECT of the connections, then nextMinute(new Date()).
SelectConnection(p) ==
  /\ mut[p].step = "select"
  /\ IF Eligible
       THEN /\ mut' = [mut EXCEPT ![p].step = "insert", ![p].minute = now + 1]
            /\ UNCHANGED lost
       ELSE /\ mut' = [mut EXCEPT ![p] = IdleMutator]
            /\ lost' = lost \cup {<<mut[p].night, mut[p].version>>}
  /\ UNCHANGED <<now, truth, conn, job, schedulerVars, operatorVars, deaths>>

\* The range of a merged payload: LEAST of the starts to GREATEST of the ends.
Hull(S) == {n \in Nights : (\E a \in S : a <= n) /\ (\E b \in S : n <= b)}

\* The WHERE clause of ON CONFLICT DO UPDATE.
Merges(s) == job[s].status = "queued"

\* Mutant: the payload of the new change replaces the queued one.
ReplaceRow(s, n) ==
  [job EXCEPT ![s] = [@ EXCEPT !.status = "queued", !.nights = {n}, !.runAfter = s]]

QueueRow(s, n) ==
  IF job[s].status = "none"
    THEN [job EXCEPT ![s] = [status |-> "queued", nights |-> {n}, runAfter |-> s,
                             attempts |-> 0]]
    ELSE [job EXCEPT ![s].nights = Hull(@ \cup {n})]

\* INSERT ... ON CONFLICT; no row returned means trying the next minute, once.
UpsertSlot(p) ==
  LET s == IF mut[p].step = "spill" THEN mut[p].minute + 1 ELSE mut[p].minute IN
  /\ mut[p].step \in {"insert", "spill"}
  /\ IF job[s].status = "none" \/ Merges(s)
       THEN job' = QueueRow(s, mut[p].night) /\ mut' = [mut EXCEPT ![p] = IdleMutator]
       ELSE /\ mut' = [mut EXCEPT ![p] = IF @.step = "insert" THEN [@ EXCEPT !.step = "spill"]
                                                              ELSE IdleMutator]
            /\ UNCHANGED job
  /\ UNCHANGED <<now, truth, conn, schedulerVars, operatorVars, lost, deaths>>

\* The process dies, or the soft enqueue logs a database error.
MutatorDies(p) ==
  /\ deaths < MaxDeaths
  /\ mut[p].step # "idle"
  /\ mut' = [mut EXCEPT ![p] = IdleMutator]
  /\ lost' = lost \cup {<<mut[p].night, mut[p].version>>}
  /\ UNCHANGED <<now, truth, conn, job, schedulerVars, operatorVars>>
  /\ deaths' = deaths + 1

-----------------------------------------------------------------------------
(* claimQueuedProviderSyncJobs: one statement, run up to three times. *)

Due(t) == {j \in Jobs : job[j].status = "queued" /\ job[j].runAfter <= t}

\* ORDER BY priority, runAfter: full syncs go first.
Before(j, k) ==
  \/ j \in FullSyncs /\ k \notin FullSyncs
  \/ (j \in FullSyncs <=> k \in FullSyncs) /\ job[j].runAfter < job[k].runAfter

\* The first jobs of the provider in the statement's snapshot.
Candidates(t) ==
  {S \in SUBSET Due(t) :
     /\ Cardinality(S) <= ProviderLimit
     /\ S = Due(t) \/ Cardinality(S) = ProviderLimit
     /\ \A j \in S, k \in Due(t) \ S : ~Before(k, j)}

\* A run of the scheduler starts: its clock is read once.  One that would find
\* nothing due does nothing and is left out.
StartInvocation(i) ==
  /\ inv[i].step = "idle"
  /\ Due(now) # {}
  /\ inv' = [inv EXCEPT ![i] = [IdleInvocation EXCEPT !.step = "read", !.at = now]]
  /\ UNCHANGED <<now, mutatorVars, conn, job, remote, task, operatorVars, lost, deaths>>

ReadCandidates(i) ==
  /\ inv[i].step = "read"
  /\ \E S \in Candidates(inv[i].at) :
       inv' = [inv EXCEPT ![i] = [@ EXCEPT !.step = "lock", !.due = S]]
  /\ UNCHANGED <<now, mutatorVars, conn, job, remote, task, operatorVars, lost, deaths>>

\* Mutant: the UPDATE does not look at the status again.
AllCandidates(i) == inv[i].due

\* FOR UPDATE SKIP LOCKED leaves out rows another claim has taken.
StillQueued(i) == {j \in inv[i].due : job[j].status = "queued"}

LockCandidates(i) ==
  LET S == StillQueued(i)
      last == inv[i].round = 2 \/ (S = {} /\ inv[i].round > 0) IN
  /\ inv[i].step = "lock"
  /\ job' = [j \in Jobs |-> IF j \in S THEN [job[j] EXCEPT !.status = "running"] ELSE job[j]]
  /\ task' = [task EXCEPT ![i] =
                [j \in Jobs |-> IF j \in S THEN [NoTask EXCEPT !.step = "start"] ELSE @[j]]]
  /\ inv' = [inv EXCEPT ![i] = [inv[i] EXCEPT !.step = IF last THEN "run" ELSE "read",
                                                  !.round = @ + 1, !.due = {}]]
  /\ UNCHANGED <<now, mutatorVars, conn, remote, operatorVars, lost, deaths>>

-----------------------------------------------------------------------------
(* The jobs of an invocation, run concurrently. *)

At(i, j, step) == inv[i].step = "run" /\ task[i][j].step = step

Goto(i, j, step) == task' = [task EXCEPT ![i][j].step = step]

\* enforceDomainRateLimit: too many runs in the last minute.
RateLimited(i, j) ==
  /\ "limited" \in Outcomes
  /\ j \in Minutes
  /\ At(i, j, "start")
  /\ Goto(i, j, "retry")
  /\ UNCHANGED <<now, mutatorVars, conn, job, remote, inv, operatorVars, lost, deaths>>

\* buildAvailability: recompute and read the nights of the payload.  A full sync of
\* a paused connection is refused (mode production).
Snapshot(i, j) ==
  /\ At(i, j, "start")
  /\ IF j \in FullSyncs /\ ~conn.enabled
       THEN Goto(i, j, "permanent")
       ELSE task' = [task EXCEPT ![i][j] =
              [step |-> "push",
               snap |-> [n \in Nights |-> IF n \in job[j].nights THEN truth[n] ELSE 0]]]
  /\ recoveries' = IF j \in FullSyncs THEN recoveries \cup {now} ELSE recoveries
  /\ UNCHANGED <<now, mutatorVars, conn, job, remote, inv, asked, lost, deaths>>

\* pushAvailability: the channel accepts everything (and its answer may be lost),
\* accepts only some nights, or accepts nothing.
Push(i, j, outcome) ==
  \E accepted \in CASE outcome \in {"succeeded", "unanswered"} -> {job[j].nights}
                    [] outcome = "partial" -> (SUBSET job[j].nights) \ {job[j].nights}
                    [] OTHER -> {{}} :
    /\ At(i, j, "push")
    /\ remote' = [n \in Nights |-> IF n \in accepted THEN task[i][j].snap[n] ELSE remote[n]]
    /\ task' = [task EXCEPT ![i][j] =
                  [NoTask EXCEPT !.step = IF outcome = "unanswered" THEN "transient" ELSE outcome]]
    /\ lost' = IF outcome = "partial"
                 THEN lost \cup {<<n, truth[n]>> : n \in job[j].nights \ accepted} ELSE lost
    /\ UNCHANGED <<now, mutatorVars, conn, job, inv, operatorVars, deaths>>

\* The run's outcome is written to the connection.
ConnectionAfter(j, step) ==
  LET kind == IF j \in FullSyncs THEN "initial" ELSE "incremental" IN
  [conn EXCEPT !.healthy = (step = "succeeded"),
     !.sync = CASE kind = "initial" /\ step = "succeeded" -> "initial_ari_succeeded"
                [] kind = "initial" /\ step = "partial" -> "initial_ari_partial"
                [] kind = "initial" -> "initial_ari_failed"
                [] step = "succeeded" -> "incremental_ari_succeeded"
                [] step = "partial" -> "incremental_ari_partial"
                [] OTHER -> "incremental_ari_failed"]

RecordRun(i, j) ==
  \E step \in {"succeeded", "partial", "transient", "permanent"} :
    /\ At(i, j, step)
    /\ conn' = ConnectionAfter(j, step)
    /\ Goto(i, j, CASE step = "transient" -> "retry" [] step = "permanent" -> "stop"
                    [] OTHER -> "done")
    /\ UNCHANGED <<now, mutatorVars, job, remote, inv, operatorVars, lost, deaths>>

MarkSucceeded(i, j) ==
  /\ At(i, j, "done")
  /\ job' = [job EXCEPT ![j].status = "succeeded"]
  /\ task' = [task EXCEPT ![i][j] = NoTask]
  /\ UNCHANGED <<now, mutatorVars, conn, remote, inv, operatorVars, lost, deaths>>

\* Mutant: a backoff without a cap.
RequeueLate(j) ==
  [job[j] EXCEPT !.status = "queued", !.attempts = @ + 1, !.runAfter = now + MaxMinute]

\* An error that is not retryable sets maxAttempts to this attempt.
IsTerminal(i, j) == task[i][j].step = "stop" \/ job[j].attempts + 1 >= MaxAttempts

\* The backoff is at least a minute; the bound of the clock caps it.
Requeue(j) ==
  [job[j] EXCEPT !.status = "queued", !.attempts = @ + 1,
                 !.runAfter = IF now < MaxMinute THEN now + 1 ELSE now]

MarkFailed(i, j) ==
  /\ At(i, j, "retry") \/ At(i, j, "stop")
  /\ IF IsTerminal(i, j)
       THEN /\ job' = [job EXCEPT ![j] = [job[j] EXCEPT !.status = "failed", !.attempts = @ + 1]]
            /\ lost' = lost \cup {<<n, truth[n]>> : n \in job[j].nights}
       ELSE job' = [job EXCEPT ![j] = Requeue(j)] /\ UNCHANGED lost
  /\ task' = [task EXCEPT ![i][j] = NoTask]
  /\ UNCHANGED <<now, mutatorVars, conn, remote, inv, operatorVars, deaths>>

Running(i) == {j \in Jobs : task[i][j].step # "none"}

EndInvocation(i) ==
  /\ inv[i].step = "run"
  /\ Running(i) = {}
  /\ inv' = [inv EXCEPT ![i] = IdleInvocation]
  /\ UNCHANGED <<now, mutatorVars, conn, job, remote, task, operatorVars, lost, deaths>>

\* The process dies or is timed out.  Nothing ever takes back a running job.
InvocationDies(i) ==
  /\ deaths < MaxDeaths
  /\ inv[i].step # "idle"
  /\ inv' = [inv EXCEPT ![i] = IdleInvocation]
  /\ task' = [task EXCEPT ![i] = [j \in Jobs |-> NoTask]]
  /\ lost' = lost \cup {<<n, truth[n]>> : n \in UNION {job[j].nights : j \in Running(i)}}
  /\ UNCHANGED <<now, mutatorVars, conn, job, remote, operatorVars>>
  /\ deaths' = deaths + 1

-----------------------------------------------------------------------------
(* Operators. *)

CooldownOver == \A t \in recoveries : t + Cooldown < now

\* enqueueProviderRecoveryFullSync: an active full sync is returned as it is.
CheckRecovery(o) ==
  /\ o \notin asked
  /\ \A j \in FullSyncs : job[j].status \notin {"queued", "running"}
  /\ CooldownOver
  /\ asked' = asked \cup {o}
  /\ UNCHANGED <<now, mutatorVars, conn, job, schedulerVars, recoveries, lost, deaths>>

InsertRecovery(o, j) ==
  /\ o \in asked
  /\ job[j].status = "none"
  /\ job' = [job EXCEPT ![j] = [status |-> "queued", nights |-> Nights, runAfter |-> now,
                                attempts |-> 0]]
  /\ asked' = asked \ {o}
  /\ UNCHANGED <<now, mutatorVars, conn, schedulerVars, recoveries, lost, deaths>>

\* A recovery is not one of channelManagerQueuedOperations.
Dropped == {j \in Minutes : job[j].status = "queued"}

\* setProviderChannelManagerSyncEnabled(false): the queued jobs are deleted.
Pause ==
  /\ Pauses
  /\ conn.enabled
  /\ conn' = [conn EXCEPT !.enabled = FALSE]
  /\ job' = [j \in Jobs |-> IF j \in Dropped
                              THEN [status |-> "none", nights |-> {}, runAfter |-> 0, attempts |-> 0]
                              ELSE job[j]]
  /\ lost' = lost \cup {<<n, truth[n]>> : n \in UNION {job[j].nights : j \in Dropped}}
  /\ UNCHANGED <<now, mutatorVars, schedulerVars, operatorVars, deaths>>

Resume ==
  /\ Pauses
  /\ ~conn.enabled
  /\ conn.healthy
  /\ conn' = [conn EXCEPT !.enabled = TRUE]
  /\ UNCHANGED <<now, mutatorVars, job, schedulerVars, operatorVars, lost, deaths>>

\* flushProviderChannelManagerIncrementalJobs: what is queued is due now.
Flush ==
  /\ now \in Flushes
  /\ conn.healthy /\ conn.enabled
  /\ job' = [j \in Jobs |-> IF j \in Minutes /\ job[j].status = "queued"
                              THEN [job[j] EXCEPT !.runAfter = now] ELSE job[j]]
  /\ UNCHANGED <<now, mutatorVars, conn, schedulerVars, operatorVars, lost, deaths>>

\* A minute passes; a change is enqueued within EnqueueDelay minutes, and before
\* the bound of the clock.
Tick ==
  /\ now < MaxMinute
  /\ \A p \in Mutators :
       /\ mut[p].step \in {"insert", "spill"} => now < (mut[p].minute - 1) + EnqueueDelay
       /\ mut[p].step = "select" => now + 3 <= MaxMinute
  /\ now' = now + 1
  /\ UNCHANGED <<mutatorVars, conn, job, schedulerVars, operatorVars, lost, deaths>>

-----------------------------------------------------------------------------
Enqueue(p) == SelectConnection(p) \/ UpsertSlot(p)

RunJob(i, j) ==
  \/ Snapshot(i, j)
  \/ \E o \in Outcomes \ {"limited"} : Push(i, j, o)
  \/ RecordRun(i, j) \/ MarkSucceeded(i, j) \/ MarkFailed(i, j)

Invocation(i) ==
  \/ StartInvocation(i) \/ ReadCandidates(i) \/ LockCandidates(i) \/ EndInvocation(i)
  \/ \E j \in Jobs : RunJob(i, j)

Next ==
  \/ \E p \in Mutators : (\E n \in Nights : Change(p, n)) \/ Enqueue(p) \/ MutatorDies(p)
  \/ \E i \in Invocations : \/ Invocation(i) \/ InvocationDies(i)
                            \/ \E j \in Jobs : RateLimited(i, j)
  \/ \E o \in Operators : CheckRecovery(o) \/ \E j \in FullSyncs : InsertRecovery(o, j)
  \/ Pause \/ Resume \/ Flush \/ Tick

Spec == Init /\ [][Next]_vars

(***************************************************************************)
(* The cron keeps invoking the scheduler, a process that is serving a      *)
(* change or running a job goes on, and time passes.  No push is promised  *)
(* to be accepted and no operator to act.                                  *)
(***************************************************************************)
Fairness ==
  /\ \A p \in Mutators : WF_vars(Enqueue(p))
  /\ \A i \in Invocations :
       /\ WF_vars(StartInvocation(i) \/ ReadCandidates(i) \/ LockCandidates(i)
                 \/ EndInvocation(i))
       /\ \A j \in Jobs : WF_vars(RunJob(i, j))
  /\ WF_vars(Tick)

FairSpec == Spec /\ Fairness

-----------------------------------------------------------------------------
(* Properties. *)

\* Something will still push night n: a change being enqueued, a queued job, or a job
\* whose push has yet to read the night or has read its latest version.
Covered(n) ==
  \/ \E p \in Mutators : mut[p].night = n
  \/ \E j \in Jobs : n \in job[j].nights /\ job[j].status = "queued"
  \/ \E i \in Invocations : \E j \in Running(i) :
       /\ n \in job[j].nights
       /\ task[i][j].step = "push" => task[i][j].snap[n] = truth[n]
       /\ task[i][j].step \notin {"succeeded", "partial", "done"}

\* No change is forgotten: while the channel shows an old version of a night, either
\* something will push it or the code gave the change up in a way it records (the
\* connection was not eligible, a process died, a push was rejected, retries ran out,
\* the queue was dropped by a pause).  The coalescing by minute, the merge into queued
\* rows only and the spill to the next minute lose nothing (enqueueProviderIncremental-
\* AriChange against claimQueuedProviderSyncJobs), if invocations do not overlap.
NoChangeLost == \A n \in Nights :
  remote[n] # truth[n] => Covered(n) \/ <<n, truth[n]>> \in lost

\* Two overlapping invocations never run the same job, and a job being run is leased,
\* although the candidates are read before they are locked (FOR UPDATE SKIP LOCKED).
DisjointClaims ==
  /\ \A i, k \in Invocations : i # k => Running(i) \cap Running(k) = {}
  /\ \A i \in Invocations : \A j \in Running(i) : job[j].status = "running"

\* In the end the channel shows the last change of every night, or the code has
\* recorded that it gave that change up.
DeliveredOrReported ==
  <>[](\A n \in Nights : remote[n] = truth[n] \/ <<n, truth[n]>> \in lost)

-----------------------------------------------------------------------------
(* What the repository says and the program does not do. *)

\* channel-manager-incremental-ari.test.ts: "backs off transient Channex failures
\* without delaying normal deltas": when every failure is transient, no change is
\* given up.
TransientFailuresLoseNothing == lost = {}
=============================================================================
