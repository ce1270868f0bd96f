--------------------------- MODULE PricingBulkJobs ---------------------------
(***************************************************************************)
(* One bulk job that creates the same pricing rule on many rate plans (its *)
(* items): leased by worker runs that may overlap, die or lose the lease,  *)
(* then finalized by three commercial effects in order (prices are         *)
(* materialized, caches invalidated, an ARI push enqueued), retried and    *)
(* cancelled by the operator.                                              *)
(*                                                                         *)
(* A statement that checks the lease token is one action.  runAfter only   *)
(* delays a claim and is left out.                                         *)
(***************************************************************************)
EXTENDS Integers, FiniteSets

CONSTANTS
  Items,         \* the job's items, one rate plan each
  Workers,       \* runs of runPricingBulkJobWorker that may overlap
  BatchSize,     \* items a run claims
  MaxAttempts,   \* maxAttempts of the job
  MaxFinal,      \* finalizationMaxAttempts of the job
  MaxSetbacks,   \* bound: runs that die, are overtaken or run out of time
  MaxRetries,    \* bound: retries the operator asks for
  Nobody, Gone   \* no lease; the lease of a run that has died

ASSUME JobAssumption ==
  /\ IsFiniteSet(Items) /\ Items # {}
  /\ {BatchSize, MaxAttempts, MaxFinal} \subseteq Nat \ {0}
  /\ MaxSetbacks \in Nat /\ MaxRetries \in Nat
  /\ Nobody # Gone /\ {Nobody, Gone} \cap Workers = {}

VARIABLES
  job,       \* the PricingBulkOperationJob row
  item,      \* the PricingBulkOperationItem rows
  rules,     \* items whose pricing rule has been created
  effects,   \* items each commercial effect has reached
  run,       \* what each worker run is doing
  late,      \* history: items that succeeded after the job's effects were done
  setbacks, retries

vars == <<job, item, rules, effects, run, late, setbacks, retries>>

\* 1 materializes prices, 2 invalidates caches, 3 enqueues the ARI push.
Stages == 1 .. 3

ItemStatuses == {"queued", "running", "succeeded", "failed", "cancelled"}
Tally == [ItemStatuses -> 0 .. Cardinality(Items)]

JobStatuses == {"queued", "running", "finalizing", "requires_attention",
                "succeeded", "partial", "failed", "cancelled"}
Ended == JobStatuses \ {"queued", "running", "finalizing"}

RunSteps == {"idle", "claimed", "items", "settle", "ready", "effect", "checkpoint",
             "complete"}

\* attempts, fin and done are what the claim returned.
Run == [step : RunSteps, attempts : 0 .. MaxAttempts, fin : 0 .. MaxFinal,
        done : 0 .. 3, todo : SUBSET Items, deferred : BOOLEAN, tally : Tally,
        impacts : SUBSET Items]

\* No attempt of a claimed or queued job is its last: a job out of attempts has ended.
TypeOK ==
  /\ job \in [status : JobStatuses, attempts : 0 .. MaxAttempts - 1, fin : 0 .. MaxFinal,
              by : Workers \cup {Nobody, Gone}, started : BOOLEAN, done : 0 .. 3,
              tally : Tally]
  /\ item \in [Items -> [status : ItemStatuses, attempts : Nat]]
  /\ rules \subseteq Items
  /\ effects \in [Stages -> SUBSET Items]
  /\ run \in [Workers -> Run]
  /\ late \subseteq Items
  /\ setbacks \in 0 .. MaxSetbacks
  /\ retries \in 0 .. MaxRetries

\* countsForJob
CountsOf(rows) == [s \in ItemStatuses |-> Cardinality({i \in Items : rows[i].status = s})]

With(status) == {i \in Items : item[i].status = status}

Idle == [step |-> "idle", attempts |-> 0, fin |-> 0, done |-> 0, todo |-> {},
         deferred |-> FALSE, tally |-> [s \in ItemStatuses |-> 0], impacts |-> {}]

\* enqueue: the job and its items are inserted together.
Init ==
  /\ item = [i \in Items |-> [status |-> "queued", attempts |-> 0]]
  /\ job = [status |-> "queued", attempts |-> 0, fin |-> 0, by |-> Nobody,
            started |-> FALSE, done |-> 0, tally |-> CountsOf(item)]
  /\ rules = {}
  /\ effects = [k \in Stages |-> {}]
  /\ run = [w \in Workers |-> Idle]
  /\ late = {}
  /\ setbacks = 0
  /\ retries = 0

budgetVars == <<setbacks, retries>>
ruleVars == <<rules, effects>>

-----------------------------------------------------------------------------
(* The lease. *)

Leased(w, status) == job.status = status /\ job.by = w

Goto(w, step) == run' = [run EXCEPT ![w].step = step]

EndRun(w) == run' = [run EXCEPT ![w] = Idle]

\* claimQueuedPricingBulkJobs
Claim(w) ==
  /\ run[w].step = "idle"
  /\ job.by = Nobody
  /\ \/ job.status = "queued" /\ job.attempts < MaxAttempts
     \/ job.status = "finalizing" /\ job.fin < MaxFinal
  /\ job' = [job EXCEPT !.status = IF @ = "queued" THEN "running" ELSE @,
                        !.by = w, !.started = TRUE]
  /\ run' = [run EXCEPT ![w] =
       [Idle EXCEPT !.step = IF job.status = "queued" THEN "claimed" ELSE "ready",
                    !.attempts = job.attempts, !.fin = job.fin, !.done = job.done]]
  /\ UNCHANGED <<item, ruleVars, late, budgetVars>>

\* The run has no time left: before it starts, before the finalization or an effect.
Release(w) ==
  /\ setbacks < MaxSetbacks
  /\ run[w].step \in {"claimed", "ready", "effect"}
  /\ job' = IF job.by = w
              THEN [job EXCEPT !.status = IF @ = "running" THEN "queued" ELSE @, !.by = Nobody]
              ELSE job
  /\ EndRun(w)
  /\ setbacks' = setbacks + 1
  /\ UNCHANGED <<item, ruleVars, late, retries>>

\* A claim the lease was lost of ends the run at its next refresh.
LeaseLost(w) ==
  /\ run[w].step \in {"claimed", "ready"}
  /\ job.by # w
  /\ EndRun(w)
  /\ UNCHANGED <<job, item, ruleVars, late, budgetVars>>

-----------------------------------------------------------------------------
(* The items. *)

\* claimPricingBulkJobItems, after the lease is refreshed.
ClaimItems(w) ==
  /\ run[w].step = "claimed"
  /\ Leased(w, "running")
  /\ \E S \in SUBSET With("queued") :
       /\ Cardinality(S) <= BatchSize
       /\ S = With("queued") \/ Cardinality(S) = BatchSize
       /\ item' = [i \in Items |-> IF i \in S
                     THEN [status |-> "running", attempts |-> item[i].attempts + 1]
                     ELSE item[i]]
       /\ run' = [run EXCEPT ![w].step = "items", ![w].todo = S]
  /\ UNCHANGED <<job, ruleVars, late, budgetVars>>

\* createRule: a rule created before under the item's idempotencyKey is returned.
CreateRule(w, i) ==
  /\ run[w].step = "items"
  /\ i \in run[w].todo \ rules
  /\ rules' = rules \cup {i}
  /\ UNCHANGED <<job, item, effects, run, late, budgetVars>>

MarkSucceeded(w, i) ==
  /\ run[w].step = "items"
  /\ i \in run[w].todo \cap rules
  /\ IF Leased(w, "running")
       THEN /\ item' = [item EXCEPT ![i].status = "succeeded"]
            /\ late' = IF job.done > 0 THEN late \cup {i} ELSE late
       ELSE UNCHANGED <<item, late>>
  /\ run' = [run EXCEPT ![w].todo = @ \ {i}]
  /\ UNCHANGED <<job, ruleVars, budgetVars>>

\* Mutant: the attempts of the job are not looked at.
RetriesItemOnly(w, i) == item[i].attempts < MaxAttempts

\* An item is retried while both it and its job have attempts left.
Retries(w, i) == item[i].attempts < MaxAttempts /\ run[w].attempts + 1 < MaxAttempts

\* The preview, the rule or the write of its outcome fails, for good or for now.
MarkFailed(w, i, retryable) ==
  LET again == retryable /\ Retries(w, i) IN
  /\ run[w].step = "items"
  /\ i \in run[w].todo
  /\ item' = IF Leased(w, "running")
               THEN [item EXCEPT ![i].status = IF again THEN "queued" ELSE "failed"] ELSE item
  /\ run' = [run EXCEPT ![w].todo = @ \ {i}, ![w].deferred = @ \/ again]
  /\ UNCHANGED <<job, ruleVars, late, budgetVars>>

\* settlePricingBulkJobItems counts the items in one statement...
CountItems(w) ==
  /\ run[w].step = "items"
  /\ run[w].todo = {}
  /\ run' = [run EXCEPT ![w].step = "settle", ![w].tally = CountsOf(item)]
  /\ UNCHANGED <<job, item, ruleVars, late, budgetVars>>

\* Mutant: queued items do not keep the job from its finalization.
NoneRunning(tally) == tally["running"] = 0

AllSettled(tally) == tally["queued"] = 0 /\ tally["running"] = 0

\* ...and settles the job in another.  Its branch for items left queued by a job out
\* of attempts is not reached: an item is only retried when an attempt is left.
Settle(w) ==
  LET settled == AllSettled(run[w].tally) IN
  /\ run[w].step = "settle"
  /\ job' = IF ~Leased(w, "running") THEN job
            ELSE [job EXCEPT !.status = IF settled THEN "finalizing" ELSE "queued",
                             !.by = IF settled THEN w ELSE Nobody,
                             !.attempts = run[w].attempts + (IF run[w].deferred THEN 1 ELSE 0),
                             !.tally = run[w].tally]
  /\ run' = [run EXCEPT ![w] = IF settled THEN [Idle EXCEPT !.step = "ready", !.fin = run[w].fin,
                                                            !.done = run[w].done] ELSE Idle]
  /\ UNCHANGED <<item, ruleVars, late, budgetVars>>

-----------------------------------------------------------------------------
(* The finalization: finalizeDeferredImpacts. *)

\* listPricingBulkJobImpacts, after the lease is refreshed.
ListImpacts(w) ==
  LET found == With("succeeded") IN
  /\ run[w].step = "ready"
  /\ Leased(w, "finalizing")
  /\ run' = [run EXCEPT ![w].impacts = found,
               ![w].step = IF found = {} \/ run[w].done = 3 THEN "complete" ELSE "effect"]
  /\ UNCHANGED <<job, item, ruleVars, late, budgetVars>>

\* The effect after the last checkpoint.  Nothing checks the lease here.
Effect(w) ==
  /\ run[w].step = "effect"
  /\ effects' = [effects EXCEPT ![run[w].done + 1] = @ \cup run[w].impacts]
  /\ Goto(w, "checkpoint")
  /\ UNCHANGED <<job, item, rules, late, budgetVars>>

\* Mutant: one effect done counts as all done.
AllDone(k) == 3

Checkpointed(k) == k + 1

Checkpoint(w) ==
  LET k == Checkpointed(run[w].done) IN
  /\ run[w].step = "checkpoint"
  /\ Leased(w, "finalizing")
  /\ job' = [job EXCEPT !.done = k]
  /\ run' = [run EXCEPT ![w].done = k, ![w].step = IF k = 3 THEN "complete" ELSE "effect"]
  /\ UNCHANGED <<item, ruleVars, late, budgetVars>>

Outcome(tally) ==
  IF tally["failed"] = 0 THEN "succeeded"
  ELSE IF tally["succeeded"] + tally["cancelled"] > 0 THEN "partial" ELSE "failed"

\* completePricingBulkJobFinalization
Complete(w) ==
  /\ run[w].step = "complete"
  /\ job' = IF Leased(w, "finalizing")
              THEN [job EXCEPT !.status = Outcome(CountsOf(item)), !.by = Nobody,
                               !.tally = CountsOf(item)]
              ELSE job
  /\ EndRun(w)
  /\ UNCHANGED <<item, ruleVars, late, budgetVars>>

\* Mutant: a failed finalization is not counted.
DeferredUncounted(fin) == [job EXCEPT !.by = Nobody]

\* The finalization is tried again later, or waits for the operator.
Deferred(fin) ==
  [job EXCEPT !.fin = fin + 1, !.by = Nobody,
              !.status = IF fin + 1 >= MaxFinal THEN "requires_attention" ELSE "finalizing"]

\* A step of the finalization fails; materialization may have reached some items.
DeferFinalization(w) ==
  /\ run[w].step \in {"effect", "checkpoint", "complete"}
  /\ \E S \in SUBSET run[w].impacts :
       effects' = IF run[w].step = "effect" /\ run[w].done = 0
                    THEN [effects EXCEPT ![1] = @ \cup S] ELSE effects
  /\ job' = IF Leased(w, "finalizing") THEN Deferred(run[w].fin) ELSE job
  /\ EndRun(w)
  /\ UNCHANGED <<item, rules, late, budgetVars>>

-----------------------------------------------------------------------------
(* Runs that die or are too slow. *)

Crash(w) ==
  /\ setbacks < MaxSetbacks
  /\ run[w].step # "idle"
  /\ EndRun(w)
  /\ job' = [job EXCEPT !.by = IF @ = w THEN Gone ELSE @]
  /\ setbacks' = setbacks + 1
  /\ UNCHANGED <<item, ruleVars, late, retries>>

\* Mutant: items that have come to an end are taken back as well.
BegunRows == Items \ With("queued")

RunningRows == With("running")

\* recoverExpiredPricingBulkJobLeases, at the start of some run.  The attempts of the
\* job are compared with the maximum and stay as they are.
TakeBack ==
  LET exhausted == job.attempts + 1 >= MaxAttempts IN
  IF job.status = "finalizing"
    THEN job' = Deferred(job.fin) /\ UNCHANGED item
    ELSE /\ item' = [i \in Items |->
                       IF i \notin RunningRows THEN item[i]
                       ELSE [status |-> IF exhausted THEN "failed" ELSE "queued",
                             attempts |-> job.attempts + 1]]
         /\ job' = [job EXCEPT !.status = IF exhausted THEN "failed" ELSE "queued",
                               !.by = Nobody, !.tally = CountsOf(item')]

Recover ==
  /\ job.by = Gone
  /\ TakeBack
  /\ UNCHANGED <<ruleVars, run, late, budgetVars>>

\* The lease of a run that is still going on has expired.
Overtake ==
  /\ setbacks < MaxSetbacks
  /\ job.by \in Workers
  /\ TakeBack
  /\ setbacks' = setbacks + 1
  /\ UNCHANGED <<ruleVars, run, late, retries>>

-----------------------------------------------------------------------------
(* The operator, whose requests do not overlap. *)

RetryFinalization ==
  /\ retries < MaxRetries
  /\ job.status = "requires_attention"
  /\ job' = [job EXCEPT !.status = "finalizing", !.fin = 0, !.by = Nobody]
  /\ retries' = retries + 1
  /\ UNCHANGED <<item, ruleVars, run, late, setbacks>>

\* Mutant: the CHECK constraint is not there.
Unbalanced(failed) == TRUE

\* The CHECK constraint progress_balance on the row the retry writes.
Balanced(failed) ==
  failed + job.tally["succeeded"] + job.tally["cancelled"] = Cardinality(Items)

\* retryFailed.  The effects' checkpoints and the finalization attempts stay.
RetryFailed ==
  LET failed == Cardinality(With("failed")) IN
  /\ retries < MaxRetries
  /\ job.status \in {"failed", "partial"}
  /\ failed > 0
  /\ Balanced(failed)
  /\ item' = [i \in Items |-> IF i \in With("failed")
                                THEN [item[i] EXCEPT !.status = "queued"] ELSE item[i]]
  /\ job' = [job EXCEPT !.status = "queued", !.attempts = 0, !.by = Nobody,
               !.tally = [@ EXCEPT !["queued"] = failed, !["running"] = 0, !["failed"] = 0]]
  /\ retries' = retries + 1
  /\ UNCHANGED <<ruleVars, run, late, setbacks>>

\* Mutant: a job that is queued again may be cancelled.
QueuedNow == job.status = "queued"

NotStarted ==
  /\ job.status = "queued" /\ job.attempts = 0 /\ ~job.started
  /\ With("queued") = Items

CancelQueued ==
  /\ NotStarted
  /\ item' = [i \in Items |-> [item[i] EXCEPT !.status = "cancelled"]]
  /\ job' = [job EXCEPT !.status = "cancelled", !.tally = CountsOf(item')]
  /\ UNCHANGED <<ruleVars, run, late, budgetVars>>

-----------------------------------------------------------------------------
ProcessItem(w, i) ==
  CreateRule(w, i) \/ MarkSucceeded(w, i) \/ \E r \in BOOLEAN : MarkFailed(w, i, r)

Work(w) ==
  \/ Claim(w) \/ LeaseLost(w) \/ ClaimItems(w) \/ (\E i \in Items : ProcessItem(w, i))
  \/ CountItems(w) \/ Settle(w)
  \/ ListImpacts(w) \/ Effect(w) \/ Checkpoint(w) \/ Complete(w) \/ DeferFinalization(w)

Next ==
  \/ \E w \in Workers : Work(w) \/ Release(w) \/ Crash(w)
  \/ Recover \/ Overtake
  \/ RetryFinalization \/ RetryFailed \/ CancelQueued

Spec == Init /\ [][Next]_vars

(***************************************************************************)
(* The cron keeps starting runs, each of which recovers expired leases and *)
(* then works; a run that is not dead goes on.  No step is promised to     *)
(* succeed, and no operator to act.                                        *)
(***************************************************************************)
Fairness == WF_vars(Recover) /\ \A w \in Workers : WF_vars(Work(w))

FairSpec == Spec /\ Fairness

-----------------------------------------------------------------------------
(* Properties. *)

\* The progress shown to the operator is the truth whenever no run holds the job,
\* although it is counted and written in two statements and by several runs.
CountersMatchItems == job.by = Nobody => job.tally = CountsOf(item)

\* An item that has succeeded never runs, fails or is queued again, whatever runs have
\* lost the lease and go on (every item write compares the lease token).
SucceededStays ==
  [][\A i \in Items : item[i].status = "succeeded" => item'[i].status = "succeeded"]_vars

\* The finalization starts when the last item has: no rule is still to be written when
\* the prices are materialized.
SettledBeforeEffects ==
  job.status = "finalizing" => With("queued") \cup With("running") = {}

\* When the job has ended well, each of its effects has reached every item that
\* succeeded before the effects were done, in however many runs and whichever of them
\* died between an effect and its checkpoint.
EffectsReach ==
  job.status \in {"succeeded", "partial"} =>
    \A i \in With("succeeded") \ late : \A k \in Stages : i \in effects[k]

\* A cancelled job has created no rule and will create none.
CancelledRunsNothing ==
  job.status = "cancelled" =>
    rules = {} /\ \A w \in Workers : run[w].step \notin {"claimed", "items"}

\* A job always ends, or waits for the operator with the reason written down.
JobEnds == job.status \notin Ended ~> job.status \in Ended

-----------------------------------------------------------------------------
(* What the repository says and the program does not do. *)

\* 2026-10-09_pricing_bulk_effect_finalization.sql: "A bulk pricing write is complete
\* only after its grouped commercial effects are durable".
EffectsFollowRules ==
  job.status \in {"succeeded", "partial"} =>
    \A i \in With("succeeded") : \A k \in Stages : i \in effects[k]
=============================================================================
