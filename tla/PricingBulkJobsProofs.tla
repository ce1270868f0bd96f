------------------------- MODULE PricingBulkJobsProofs -------------------------
(* Proofs about PricingBulkJobs, for every set of items and of worker runs, every   *)
(* batch size and every number of attempts, setbacks and retries.  A run goes on    *)
(* with what it has read when its lease has been taken back, so the invariant says  *)
(* what is true of the job and its items while a run still holds the lease          *)
(* (HolderInv), and what is true whoever holds it (JobInv).                         *)
EXTENDS PricingBulkJobs, FiniteSetTheorems, TLAPS

Writing == {"claimed", "items", "settle"}
Finalizing == {"ready", "effect", "checkpoint", "complete"}

\* What a run has read is within its bounds, lease or no lease.
RunOK(r, started) ==
  /\ r.attempts < MaxAttempts
  /\ r.deferred => r.attempts + 1 < MaxAttempts
  /\ r.fin < MaxFinal
  /\ r.step \in {"effect", "checkpoint"} => r.done < 3
  /\ r.step # "idle" => started

RunInv == \A w \in Workers : RunOK(run[w], job.started)

\* What the holder of the lease has read is still so.
HolderOK(w) ==
  job.by = w =>
    /\ \/ run[w].step \in Writing /\ job.status = "running"
       \/ run[w].step \in Finalizing /\ job.status = "finalizing"
    /\ run[w].done = job.done
    /\ run[w].step = "claimed" => job.tally = CountsOf(item)
    /\ run[w].step = "items" => run[w].todo \subseteq With("running")
    /\ run[w].step = "settle" => run[w].tally = CountsOf(item)
    /\ run[w].step \in {"effect", "checkpoint", "complete"} =>
         run[w].impacts = With("succeeded")
    /\ run[w].step = "checkpoint" => run[w].impacts \subseteq effects[run[w].done + 1]
    /\ run[w].step = "complete" => run[w].impacts = {} \/ run[w].done = 3

HolderInv == \A w \in Workers : HolderOK(w)

\* The row of the job agrees with its items, its rules and the effects it has had.
JobInv ==
  /\ job.by # Nobody => job.status \in {"running", "finalizing"}
  /\ job.status # "requires_attention" => job.fin < MaxFinal
  /\ rules # {} => job.started
  /\ job.status = "cancelled" => ~job.started
  /\ job.by = Nobody \/ job.status = "finalizing" => job.tally = CountsOf(item)
  /\ SettledBeforeEffects
  /\ job.status = "requires_attention" => With("queued") \cup With("running") = {}
  /\ \A k \in Stages : k <= job.done => With("succeeded") \ late \subseteq effects[k]
  /\ EffectsReach

Inv == TypeOK /\ RunInv /\ HolderInv /\ JobInv

JobType == [status : JobStatuses, attempts : 0 .. MaxAttempts - 1, fin : 0 .. MaxFinal,
            by : Workers \cup {Nobody, Gone}, started : BOOLEAN, done : 0 .. 3,
            tally : Tally]
ItemType == [status : ItemStatuses, attempts : Nat]

-----------------------------------------------------------------------------
(* Counting. *)

\* The number of items with each status is a tally.
LEMMA CountsType == ASSUME NEW rows PROVE CountsOf(rows) \in Tally
<1>1. ASSUME NEW s \in ItemStatuses
      PROVE  Cardinality({i \in Items : rows[i].status = s}) \in 0 .. Cardinality(Items)
  <2>1. {i \in Items : rows[i].status = s} \in SUBSET Items
    OBVIOUS
  <2>2. Cardinality({i \in Items : rows[i].status = s}) \in Nat
    BY <2>1, FS_Subset, FS_CardinalityType, JobAssumption
  <2>3. Cardinality({i \in Items : rows[i].status = s}) <= Cardinality(Items)
    BY <2>1, FS_Subset, JobAssumption
  <2>4. Cardinality(Items) \in Nat
    BY FS_CardinalityType, JobAssumption
  <2> QED BY <2>2, <2>3, <2>4
<1> QED BY <1>1 DEF CountsOf, Tally

\* A tally counts the items of the rows it was taken from.
LEMMA CountsWith == \A s \in ItemStatuses : CountsOf(item)[s] = Cardinality(With(s))
BY DEF CountsOf, With

\* AllSettled of a fresh tally is that no item is queued or running.
LEMMA SettledMeansNone ==
  ASSUME AllSettled(CountsOf(item))
  PROVE  With("queued") \cup With("running") = {}
<1>1. IsFiniteSet(With("queued")) /\ IsFiniteSet(With("running"))
  <2>1. With("queued") \in SUBSET Items /\ With("running") \in SUBSET Items
    BY DEF With
  <2> QED BY <2>1, FS_Subset, JobAssumption
<1>2. Cardinality(With("queued")) = 0 /\ Cardinality(With("running")) = 0
  BY CountsWith DEF AllSettled, ItemStatuses
<1> QED BY <1>1, <1>2, FS_EmptySet

\* The CHECK constraint progress_balance leaves no item queued or running.
LEMMA BalanceMeansNone ==
  ASSUME job.tally = CountsOf(item), Balanced(Cardinality(With("failed")))
  PROVE  With("queued") = {} /\ With("running") = {}
<1> DEFINE F == With("failed")
           S == With("succeeded")
           C == With("cancelled")
<1>1. F \in SUBSET Items /\ S \in SUBSET Items /\ C \in SUBSET Items
  BY DEF With
<1>2. IsFiniteSet(F) /\ IsFiniteSet(S) /\ IsFiniteSet(C) /\ IsFiniteSet(Items)
  BY <1>1, FS_Subset, JobAssumption
<1>3. F \cap S = {} /\ (F \cup S) \cap C = {}
  BY DEF With
<1> HIDE DEF F, S, C
<1>4. IsFiniteSet(F \cup S) /\ Cardinality(F \cup S) = Cardinality(F) + Cardinality(S)
  <2>1. Cardinality(F) \in Nat /\ Cardinality(S) \in Nat
    BY <1>2, FS_CardinalityType
  <2>2. Cardinality(F \cap S) = 0
    BY <1>3, FS_EmptySet
  <2>3. /\ IsFiniteSet(F \cup S)
        /\ Cardinality(F \cup S) = Cardinality(F) + Cardinality(S) - Cardinality(F \cap S)
    BY <1>2, FS_Union
  <2> QED BY <2>1, <2>2, <2>3
<1>5. /\ IsFiniteSet((F \cup S) \cup C)
      /\ Cardinality((F \cup S) \cup C) = Cardinality(F) + Cardinality(S) + Cardinality(C)
  <2>1. /\ Cardinality(F) \in Nat /\ Cardinality(S) \in Nat /\ Cardinality(C) \in Nat
    BY <1>2, FS_CardinalityType
  <2>2. Cardinality((F \cup S) \cap C) = 0
    BY <1>3, FS_EmptySet
  <2>3. /\ IsFiniteSet((F \cup S) \cup C)
        /\ Cardinality((F \cup S) \cup C)
             = Cardinality(F \cup S) + Cardinality(C) - Cardinality((F \cup S) \cap C)
    BY <1>2, <1>4, FS_Union
  <2> QED BY <1>4, <2>1, <2>2, <2>3
<1>6. Cardinality(F) + Cardinality(S) + Cardinality(C) = Cardinality(Items)
  <2>1. job.tally["succeeded"] = Cardinality(S) /\ job.tally["cancelled"] = Cardinality(C)
    BY CountsWith DEF ItemStatuses, S, C
  <2> QED BY <2>1 DEF Balanced, F
<1>7. (F \cup S) \cup C = Items
  <2>1. (F \cup S) \cup C \in SUBSET Items
    BY <1>1
  <2> QED BY <1>2, <1>5, <1>6, <2>1, FS_Subset
<1> QED BY <1>7 DEF With, F, S, C

-----------------------------------------------------------------------------
(* Types. *)

LEMMA Maxima == /\ MaxAttempts \in Nat /\ MaxAttempts > 0
                /\ MaxFinal \in Nat /\ MaxFinal > 0
                /\ MaxSetbacks \in Nat /\ MaxRetries \in Nat
BY JobAssumption

\* What a run may read or be about to do keeps its record one of a run.
LEMMA RunUpdate ==
  ASSUME NEW r \in Run
  PROVE  /\ \A step \in RunSteps : [r EXCEPT !.step = step] \in Run
         /\ \A S \in SUBSET Items : [r EXCEPT !.todo = S] \in Run /\ [r EXCEPT !.impacts = S] \in Run
         /\ \A tally \in Tally : [r EXCEPT !.tally = tally] \in Run
         /\ \A deferred \in BOOLEAN : [r EXCEPT !.deferred = deferred] \in Run
BY DEF Run

LEMMA IdleType == Idle \in Run
<1>1. Cardinality(Items) \in Nat
  BY FS_CardinalityType, JobAssumption
<1>2. [s \in ItemStatuses |-> 0] \in Tally
  BY <1>1 DEF Tally
<1> QED BY <1>2, Maxima DEF Idle, Run, RunSteps

LEMMA TypeInit == ASSUME Init PROVE TypeOK
<1>1. CountsOf(item) \in Tally
  BY CountsType
<1> QED BY <1>1, IdleType, Maxima DEF Init, TypeOK, JobStatuses, ItemStatuses, Stages

\* The row that a finalization, which fails or is taken back, leaves.
LEMMA DeferredType ==
  ASSUME job \in JobType, NEW fin \in 0 .. MaxFinal, fin < MaxFinal
  PROVE  Deferred(fin) \in JobType
<1>1. fin + 1 \in 0 .. MaxFinal
  BY Maxima
<1> DEFINE status == IF fin + 1 >= MaxFinal THEN "requires_attention" ELSE "finalizing"
<1>2. status \in JobStatuses
  BY DEF JobStatuses
<1>3. Deferred(fin) = [job EXCEPT !.fin = fin + 1, !.by = Nobody, !.status = status]
  BY DEF Deferred
<1> HIDE DEF status
<1> QED BY <1>1, <1>2, <1>3 DEF JobType

\* What the recovery of a lease leaves.
LEMMA TakeBackType ==
  ASSUME job \in JobType, item \in [Items -> ItemType], TakeBack,
         job.status = "finalizing" => job.fin < MaxFinal
  PROVE  job' \in JobType /\ item' \in [Items -> ItemType]
<1>1. CASE job.status = "finalizing"
  BY <1>1, DeferredType DEF TakeBack, JobType
<1>2. CASE job.status # "finalizing"
  <2> DEFINE exhausted == job.attempts + 1 >= MaxAttempts
  <2>1. item' = [i \in Items |->
                   IF i \notin RunningRows THEN item[i]
                   ELSE [status |-> IF exhausted THEN "failed" ELSE "queued",
                         attempts |-> job.attempts + 1]]
    BY <1>2 DEF TakeBack
  <2>2. item' \in [Items -> ItemType]
    <3>1. job.attempts + 1 \in Nat
      BY Maxima DEF JobType
    <3> QED BY <2>1, <3>1 DEF ItemType, ItemStatuses
  <2>3. job' = [job EXCEPT !.status = IF exhausted THEN "failed" ELSE "queued",
                           !.by = Nobody, !.tally = CountsOf(item')]
    BY <1>2 DEF TakeBack
  <2>4. CountsOf(item') \in Tally
    BY CountsType
  <2>5. job' \in JobType
    BY <2>3, <2>4 DEF JobType, JobStatuses
  <2> QED BY <2>2, <2>5
<1> QED BY <1>1, <1>2

LEMMA TypeStep == ASSUME TypeOK, RunInv, HolderInv, JobInv, [Next]_vars PROVE TypeOK'
<1> USE DEF ruleVars, budgetVars
<1> SUFFICES ASSUME job \in JobType, item \in [Items -> ItemType], rules \subseteq Items,
                    effects \in [Stages -> SUBSET Items], run \in [Workers -> Run],
                    late \subseteq Items, setbacks \in 0 .. MaxSetbacks,
                    retries \in 0 .. MaxRetries
             PROVE  /\ job' \in JobType /\ item' \in [Items -> ItemType]
                    /\ rules' \subseteq Items /\ effects' \in [Stages -> SUBSET Items]
                    /\ run' \in [Workers -> Run] /\ late' \subseteq Items
                    /\ setbacks' \in 0 .. MaxSetbacks /\ retries' \in 0 .. MaxRetries
  BY DEF TypeOK, JobType, ItemType
<1>1. ASSUME NEW w \in Workers, Claim(w) PROVE
        /\ job' \in JobType /\ run' \in [Workers -> Run]
        /\ UNCHANGED <<item, rules, effects, late, setbacks, retries>>
  <2>1. job' \in JobType
    BY <1>1 DEF Claim, JobType, JobStatuses
  <2>2. run' \in [Workers -> Run]
    <3> DEFINE claimed == [Idle EXCEPT !.step = IF job.status = "queued" THEN "claimed" ELSE "ready",
                                       !.attempts = job.attempts, !.fin = job.fin,
                                       !.done = job.done]
    <3>1. claimed \in Run
      <4>1. job.attempts \in 0 .. MaxAttempts /\ job.fin \in 0 .. MaxFinal /\ job.done \in 0 .. 3
        BY Maxima DEF JobType
      <4> QED BY <4>1, IdleType DEF Run, RunSteps
    <3>2. run' = [run EXCEPT ![w] = claimed]
      BY <1>1 DEF Claim
    <3> QED BY <3>1, <3>2
  <2> QED BY <1>1, <2>1, <2>2 DEF Claim
<1>2. ASSUME NEW w \in Workers, Release(w) PROVE
        /\ job' \in JobType /\ run' \in [Workers -> Run] /\ setbacks' \in 0 .. MaxSetbacks
        /\ UNCHANGED <<item, rules, effects, late, retries>>
  <2>1. job' \in JobType
    BY <1>2 DEF Release, JobType, JobStatuses
  <2> QED BY <1>2, <2>1, IdleType, Maxima DEF Release, EndRun
<1>3. ASSUME NEW w \in Workers, LeaseLost(w) PROVE
        /\ run' \in [Workers -> Run]
        /\ UNCHANGED <<job, item, rules, effects, late, setbacks, retries>>
  BY <1>3, IdleType DEF LeaseLost, EndRun
<1>4. ASSUME NEW w \in Workers, ClaimItems(w) PROVE
        /\ item' \in [Items -> ItemType] /\ run' \in [Workers -> Run]
        /\ UNCHANGED <<job, rules, effects, late, setbacks, retries>>
  <2>1. PICK S \in SUBSET With("queued") :
          /\ item' = [i \in Items |-> IF i \in S
                        THEN [status |-> "running", attempts |-> item[i].attempts + 1]
                        ELSE item[i]]
          /\ run' = [run EXCEPT ![w].step = "items", ![w].todo = S]
    BY <1>4 DEF ClaimItems
  <2>2. item' \in [Items -> ItemType]
    BY <2>1 DEF ItemType, ItemStatuses
  <2>3. S \subseteq Items
    BY DEF With
  <2>4. run' \in [Workers -> Run]
    <3> DEFINE next == [[run[w] EXCEPT !.step = "items"] EXCEPT !.todo = S]
    <3>1. next \in Run
      BY <2>3, RunUpdate DEF RunSteps
    <3>2. run' = [run EXCEPT ![w] = next]
      BY <2>1
    <3> QED BY <3>1, <3>2
  <2> QED BY <1>4, <2>2, <2>4 DEF ClaimItems
<1>5. ASSUME NEW w \in Workers, NEW i \in Items, ProcessItem(w, i) PROVE
        /\ item' \in [Items -> ItemType] /\ run' \in [Workers -> Run]
        /\ rules' \subseteq Items /\ late' \subseteq Items
        /\ UNCHANGED <<job, effects, setbacks, retries>>
  <2>1. CASE CreateRule(w, i)
    BY <2>1 DEF CreateRule
  <2>2. CASE MarkSucceeded(w, i)
    <3>1. item' \in [Items -> ItemType]
      BY <2>2 DEF MarkSucceeded, ItemType, ItemStatuses
    <3>2. run' = [run EXCEPT ![w] = [run[w] EXCEPT !.todo = run[w].todo \ {i}]]
      BY <2>2 DEF MarkSucceeded
    <3>3. run[w].todo \ {i} \in SUBSET Items
      BY DEF Run
    <3>4. run' \in [Workers -> Run]
      BY <3>2, <3>3, RunUpdate
    <3> QED BY <2>2, <3>1, <3>4 DEF MarkSucceeded
  <2>3. CASE \E r \in BOOLEAN : MarkFailed(w, i, r)
    <3>1. PICK r \in BOOLEAN : MarkFailed(w, i, r)
      BY <2>3
    <3> DEFINE again == r /\ Retries(w, i)
               left == [run[w] EXCEPT !.todo = run[w].todo \ {i}]
               next == [left EXCEPT !.deferred = left.deferred \/ again]
    <3>2. item' \in [Items -> ItemType]
      BY <3>1 DEF MarkFailed, ItemType, ItemStatuses
    <3>3. run[w].todo \ {i} \in SUBSET Items
      BY DEF Run
    <3>4. left \in Run
      BY <3>3, RunUpdate
    <3>5. left.deferred \/ again \in BOOLEAN
      BY <3>4 DEF Run, Retries
    <3>6. next \in Run
      BY <3>4, <3>5, RunUpdate
    <3>7. run' = [run EXCEPT ![w] = next]
      BY <3>1 DEF MarkFailed
    <3>8. run' \in [Workers -> Run]
      BY <3>6, <3>7
    <3> QED BY <3>1, <3>2, <3>8 DEF MarkFailed
  <2> QED BY <1>5, <2>1, <2>2, <2>3 DEF ProcessItem
<1>6. ASSUME NEW w \in Workers, CountItems(w) PROVE
        /\ run' \in [Workers -> Run]
        /\ UNCHANGED <<job, item, rules, effects, late, setbacks, retries>>
  <2>1. CountsOf(item) \in Tally
    BY CountsType
  <2> DEFINE next == [[run[w] EXCEPT !.step = "settle"] EXCEPT !.tally = CountsOf(item)]
  <2>2. next \in Run
    BY <2>1, RunUpdate DEF RunSteps
  <2>3. run' = [run EXCEPT ![w] = next]
    BY <1>6 DEF CountItems
  <2>4. run' \in [Workers -> Run]
    BY <2>2, <2>3
  <2> QED BY <1>6, <2>4 DEF CountItems
<1>7. ASSUME NEW w \in Workers, Settle(w) PROVE
        /\ job' \in JobType /\ run' \in [Workers -> Run]
        /\ UNCHANGED <<item, rules, effects, late, setbacks, retries>>
  <2>1. run[w] \in Run
    OBVIOUS
  <2>2. run[w].attempts + (IF run[w].deferred THEN 1 ELSE 0) \in 0 .. MaxAttempts - 1
    BY <2>1, Maxima DEF RunInv, RunOK, Run
  <2>3. job' \in JobType
    BY <1>7, <2>1, <2>2 DEF Settle, JobType, JobStatuses, Run
  <2>4. run' \in [Workers -> Run]
    BY <1>7, <2>1, IdleType DEF Settle, Run, RunSteps, Idle
  <2> QED BY <1>7, <2>3, <2>4 DEF Settle
<1>8. ASSUME NEW w \in Workers, ListImpacts(w) PROVE
        /\ run' \in [Workers -> Run]
        /\ UNCHANGED <<job, item, rules, effects, late, setbacks, retries>>
  <2>1. With("succeeded") \subseteq Items
    BY DEF With
  <2> DEFINE step == IF With("succeeded") = {} \/ run[w].done = 3 THEN "complete" ELSE "effect"
             next == [[run[w] EXCEPT !.impacts = With("succeeded")] EXCEPT !.step = step]
  <2>2. step \in RunSteps
    BY DEF RunSteps
  <2>3. next \in Run
    BY <2>1, <2>2, RunUpdate
  <2>4. run' = [run EXCEPT ![w] = next]
    BY <1>8 DEF ListImpacts
  <2>5. run' \in [Workers -> Run]
    BY <2>3, <2>4
  <2> QED BY <1>8, <2>5 DEF ListImpacts
<1>9. ASSUME NEW w \in Workers, Effect(w) PROVE
        /\ effects' \in [Stages -> SUBSET Items] /\ run' \in [Workers -> Run]
        /\ UNCHANGED <<job, item, rules, late, setbacks, retries>>
  BY <1>9, ZenonT(30) DEF Effect, Goto, Run, RunSteps
<1>10. ASSUME NEW w \in Workers, Checkpoint(w) PROVE
        /\ job' \in JobType /\ run' \in [Workers -> Run]
        /\ UNCHANGED <<item, rules, effects, late, setbacks, retries>>
  <2>1. run[w].done + 1 \in 0 .. 3
    BY <1>10 DEF Checkpoint, RunInv, RunOK, Run
  <2> QED BY <1>10, <2>1 DEF Checkpoint, Checkpointed, JobType, Run, RunSteps
<1>11. ASSUME NEW w \in Workers, Complete(w) PROVE
        /\ job' \in JobType /\ run' \in [Workers -> Run]
        /\ UNCHANGED <<item, rules, effects, late, setbacks, retries>>
  <2>1. CountsOf(item) \in Tally
    BY CountsType
  <2>2. Outcome(CountsOf(item)) \in JobStatuses
    BY DEF Outcome, JobStatuses
  <2> HIDE DEF JobStatuses
  <2>3. job' \in JobType
    BY <1>11, <2>1, <2>2 DEF Complete, JobType
  <2> QED BY <1>11, <2>3, IdleType DEF Complete, EndRun
<1>12. ASSUME NEW w \in Workers, DeferFinalization(w) PROVE
        /\ job' \in JobType /\ run' \in [Workers -> Run]
        /\ effects' \in [Stages -> SUBSET Items]
        /\ UNCHANGED <<item, rules, late, setbacks, retries>>
  <2>1. run[w].fin \in 0 .. MaxFinal /\ run[w].fin < MaxFinal /\ run[w].impacts \subseteq Items
    BY DEF RunInv, RunOK, Run
  <2>2. Deferred(run[w].fin) \in JobType
    BY <2>1, DeferredType
  <2>3. effects' \in [Stages -> SUBSET Items]
    BY <1>12, <2>1 DEF DeferFinalization, Stages
  <2> QED BY <1>12, <2>2, <2>3, IdleType DEF DeferFinalization, EndRun
<1>13. ASSUME NEW w \in Workers, Crash(w) PROVE
        /\ job' \in JobType /\ run' \in [Workers -> Run] /\ setbacks' \in 0 .. MaxSetbacks
        /\ UNCHANGED <<item, rules, effects, late, retries>>
  BY <1>13, IdleType, Maxima DEF Crash, EndRun, JobType
<1>14. ASSUME Recover \/ Overtake PROVE
        /\ job' \in JobType /\ item' \in [Items -> ItemType] /\ setbacks' \in 0 .. MaxSetbacks
        /\ UNCHANGED <<rules, effects, run, late, retries>>
  <2>1. TakeBack
    BY <1>14 DEF Recover, Overtake
  <2>2. job' \in JobType /\ item' \in [Items -> ItemType]
    BY <2>1, TakeBackType DEF JobInv
  <2> QED BY <1>14, <2>2, Maxima DEF Recover, Overtake
<1>15. ASSUME RetryFinalization PROVE
        /\ job' \in JobType /\ retries' \in 0 .. MaxRetries
        /\ UNCHANGED <<item, rules, effects, run, late, setbacks>>
  <2>1. job' = [job EXCEPT !.status = "finalizing", !.fin = 0, !.by = Nobody]
    BY <1>15 DEF RetryFinalization
  <2>2. job' \in JobType
    <3>1. 0 \in 0 .. MaxFinal
      BY Maxima
    <3> QED BY <2>1, <3>1 DEF JobType, JobStatuses
  <2>3. retries + 1 \in 0 .. MaxRetries
    BY <1>15, Maxima DEF RetryFinalization
  <2> QED BY <1>15, <2>2, <2>3 DEF RetryFinalization
<1>16. ASSUME RetryFailed PROVE
        /\ job' \in JobType /\ item' \in [Items -> ItemType] /\ retries' \in 0 .. MaxRetries
        /\ UNCHANGED <<rules, effects, run, late, setbacks>>
  <2> DEFINE failed == Cardinality(With("failed"))
  <2>1. CountsOf(item)["failed"] = failed /\ CountsOf(item) \in Tally
    BY CountsWith, CountsType DEF ItemStatuses
  <2>2. failed \in 0 .. Cardinality(Items) /\ Cardinality(Items) \in Nat
    BY <2>1, FS_CardinalityType, JobAssumption DEF Tally, ItemStatuses
  <2> HIDE DEF failed
  <2>3. [job.tally EXCEPT !["queued"] = failed, !["running"] = 0, !["failed"] = 0] \in Tally
    <3>1. job.tally \in Tally
      BY DEF JobType
    <3>2. 0 \in 0 .. Cardinality(Items)
      BY <2>2
    <3> QED BY <2>2, <3>1, <3>2 DEF Tally
  <2>4. job' = [job EXCEPT !.status = "queued", !.attempts = 0, !.by = Nobody,
                  !.tally = [@ EXCEPT !["queued"] = failed, !["running"] = 0, !["failed"] = 0]]
    BY <1>16 DEF RetryFailed, failed
  <2>5. job' \in JobType
    <3> DEFINE tally == [job.tally EXCEPT !["queued"] = failed, !["running"] = 0, !["failed"] = 0]
    <3> HIDE DEF tally
    <3>1. tally \in Tally /\ 0 \in 0 .. MaxAttempts - 1
      BY <2>3, Maxima DEF tally
    <3>2. job' = [job EXCEPT !.status = "queued", !.attempts = 0, !.by = Nobody, !.tally = tally]
      BY <2>4 DEF tally
    <3> QED BY <3>1, <3>2 DEF JobType, JobStatuses
  <2>6. item' \in [Items -> ItemType]
    BY <1>16 DEF RetryFailed, ItemType, ItemStatuses
  <2> QED BY <1>16, <2>5, <2>6, Maxima DEF RetryFailed
<1>17. ASSUME CancelQueued PROVE
        /\ job' \in JobType /\ item' \in [Items -> ItemType]
        /\ UNCHANGED <<rules, effects, run, late, setbacks, retries>>
  <2>1. CountsOf(item') \in Tally
    BY CountsType
  <2>2. item' \in [Items -> ItemType]
    BY <1>17 DEF CancelQueued, ItemType, ItemStatuses
  <2>3. job' \in JobType
    BY <1>17, <2>1 DEF CancelQueued, JobType, JobStatuses
  <2> QED BY <1>17, <2>2, <2>3 DEF CancelQueued
<1>18. CASE UNCHANGED vars
  BY <1>18 DEF vars
<1> QED
  BY <1>1, <1>2, <1>3, <1>4, <1>5, <1>6, <1>7, <1>8, <1>9, <1>10, <1>11, <1>12, <1>13, <1>14,
     <1>15, <1>16, <1>17, <1>18 DEF Next, Work

-----------------------------------------------------------------------------
(* The invariant. *)

LEMMA IdleOK == ASSUME NEW started \in BOOLEAN PROVE RunOK(Idle, started)
BY Maxima DEF Idle, RunOK

\* A step of one run that keeps its record in bounds.
LEMMA RunFrame ==
  ASSUME TypeOK, RunInv, NEW w \in Workers, NEW r, run' = [run EXCEPT ![w] = r],
         RunOK(r, job.started'), job.started => job.started'
  PROVE  RunInv'
BY DEF TypeOK, RunInv, RunOK

LEMMA RunStep == ASSUME TypeOK, RunInv, HolderInv, JobInv, TypeOK', [Next]_vars PROVE RunInv'
<1>1. ASSUME NEW w \in Workers, run' = [run EXCEPT ![w] = Idle], job.started' = job.started
      PROVE  RunInv'
  <2>1. job.started' \in BOOLEAN
    BY DEF TypeOK
  <2> QED BY <1>1, <2>1, IdleOK, RunFrame
<1>2. ASSUME run' = run, job.started => job.started' PROVE RunInv'
  BY <1>2 DEF TypeOK, RunInv, RunOK
<1> USE DEF RunOK, TypeOK, Run
<1>3. ASSUME NEW w \in Workers, Claim(w) PROVE RunInv'
  <2> DEFINE claimed == [Idle EXCEPT !.step = IF job.status = "queued" THEN "claimed" ELSE "ready",
                                     !.attempts = job.attempts, !.fin = job.fin,
                                     !.done = job.done]
  <2>1. run' = [run EXCEPT ![w] = claimed] /\ job.started'
    BY <1>3 DEF Claim
  <2>2. /\ claimed.attempts = job.attempts /\ claimed.fin = job.fin /\ ~claimed.deferred
        /\ claimed.step \in {"claimed", "ready"}
    BY DEF Idle
  <2>3. job.attempts < MaxAttempts /\ job.fin < MaxFinal
    BY <1>3, Maxima DEF Claim, JobInv
  <2> HIDE DEF claimed
  <2>4. RunOK(claimed, job.started')
    BY <2>1, <2>2, <2>3
  <2> QED BY <2>1, <2>4, RunFrame
<1>4. ASSUME NEW w \in Workers, Release(w) PROVE RunInv'
  BY <1>1, <1>4 DEF Release, EndRun
<1>5. ASSUME NEW w \in Workers, LeaseLost(w) PROVE RunInv'
  BY <1>1, <1>5 DEF LeaseLost, EndRun
<1>6. ASSUME NEW w \in Workers, ClaimItems(w) PROVE RunInv'
  BY <1>6 DEF ClaimItems, RunInv
<1>7. ASSUME NEW w \in Workers, NEW i \in Items, CreateRule(w, i) PROVE RunInv'
  BY <1>2, <1>7 DEF CreateRule
<1>8. ASSUME NEW w \in Workers, NEW i \in Items, MarkSucceeded(w, i) PROVE RunInv'
  BY <1>8 DEF MarkSucceeded, RunInv
<1>9. ASSUME NEW w \in Workers, NEW i \in Items, NEW t \in BOOLEAN, MarkFailed(w, i, t)
      PROVE  RunInv'
  <2> DEFINE again == t /\ Retries(w, i)
             left == [run[w] EXCEPT !.todo = run[w].todo \ {i}]
             r == [left EXCEPT !.deferred = left.deferred \/ again]
  <2>1. run' = [run EXCEPT ![w] = r] /\ job' = job
    BY <1>9 DEF MarkFailed
  <2>2. /\ r.attempts = run[w].attempts /\ r.fin = run[w].fin /\ r.step = run[w].step
        /\ r.done = run[w].done /\ (r.deferred => run[w].deferred \/ Retries(w, i))
    OBVIOUS
  <2> HIDE DEF r
  <2>3. RunOK(r, job.started)
    BY <2>2 DEF RunInv, Retries
  <2> QED BY <2>1, <2>3, RunFrame
<1>10. ASSUME NEW w \in Workers, CountItems(w) PROVE RunInv'
  BY <1>10 DEF CountItems, RunInv
<1>11. ASSUME NEW w \in Workers, Settle(w) PROVE RunInv'
  <2> DEFINE ready == [Idle EXCEPT !.step = "ready", !.fin = run[w].fin, !.done = run[w].done]
  <2>1. job.started' = job.started
    BY <1>11 DEF Settle
  <2>2. CASE AllSettled(run[w].tally)
    <3>1. run' = [run EXCEPT ![w] = ready]
      BY <1>11, <2>2 DEF Settle
    <3>2. ready.attempts = 0 /\ ~ready.deferred /\ ready.fin = run[w].fin /\ ready.step = "ready"
      BY DEF Idle
    <3> HIDE DEF ready
    <3>3. job.started
      BY <1>11 DEF Settle, RunInv
    <3>4. RunOK(ready, job.started')
      BY <2>1, <3>2, <3>3, Maxima DEF RunInv
    <3> QED BY <2>1, <3>1, <3>4, RunFrame
  <2>3. CASE ~AllSettled(run[w].tally)
    BY <1>1, <1>11, <2>1, <2>3 DEF Settle
  <2> QED BY <2>2, <2>3
<1>12. ASSUME NEW w \in Workers, ListImpacts(w) PROVE RunInv'
  <2> DEFINE step == IF With("succeeded") = {} \/ run[w].done = 3 THEN "complete" ELSE "effect"
             r == [[run[w] EXCEPT !.impacts = With("succeeded")] EXCEPT !.step = step]
  <2>1. run' = [run EXCEPT ![w] = r] /\ job' = job
    BY <1>12 DEF ListImpacts
  <2>2. /\ r.attempts = run[w].attempts /\ r.fin = run[w].fin /\ r.deferred = run[w].deferred
        /\ r.done = run[w].done /\ (r.step = "effect" => run[w].done # 3)
        /\ r.step \in {"effect", "complete"}
    OBVIOUS
  <2> HIDE DEF r
  <2>3. run[w].done \in 0 .. 3 /\ job.started
    BY <1>12 DEF ListImpacts, RunInv
  <2>4. RunOK(r, job.started)
    BY <2>2, <2>3 DEF RunInv
  <2> QED BY <2>1, <2>4, RunFrame
<1>13. ASSUME NEW w \in Workers, Effect(w) PROVE RunInv'
  BY <1>13 DEF Effect, Goto, RunInv
<1>14. ASSUME NEW w \in Workers, Checkpoint(w) PROVE RunInv'
  <2> DEFINE k == run[w].done + 1
             step == IF k = 3 THEN "complete" ELSE "effect"
             r == [[run[w] EXCEPT !.done = k] EXCEPT !.step = step]
  <2>1. run' = [run EXCEPT ![w] = r] /\ job.started' = job.started
    BY <1>14 DEF Checkpoint, Checkpointed
  <2>2. /\ r.attempts = run[w].attempts /\ r.fin = run[w].fin /\ r.deferred = run[w].deferred
        /\ r.done = k /\ (r.step = "effect" => k # 3) /\ r.step \in {"effect", "complete"}
    OBVIOUS
  <2>3. run[w].done < 3 /\ run[w].done \in 0 .. 3 /\ job.started
    BY <1>14 DEF Checkpoint, RunInv
  <2> HIDE DEF r
  <2>4. RunOK(r, job.started)
    BY <2>2, <2>3 DEF RunInv
  <2> QED BY <2>1, <2>4, RunFrame
<1>15. ASSUME NEW w \in Workers, Complete(w) PROVE RunInv'
  BY <1>1, <1>15 DEF Complete, EndRun
<1>16. ASSUME NEW w \in Workers, DeferFinalization(w) PROVE RunInv'
  BY <1>1, <1>16 DEF DeferFinalization, EndRun, Deferred
<1>17. ASSUME NEW w \in Workers, Crash(w) PROVE RunInv'
  BY <1>1, <1>17 DEF Crash, EndRun
<1>18. ASSUME Recover \/ Overtake PROVE RunInv'
  BY <1>2, <1>18 DEF Recover, Overtake, TakeBack, Deferred
<1>19. ASSUME RetryFinalization \/ RetryFailed \/ CancelQueued PROVE RunInv'
  BY <1>2, <1>19 DEF RetryFinalization, RetryFailed, CancelQueued
<1>20. CASE UNCHANGED vars
  BY <1>2, <1>20 DEF vars
<1> QED
  BY <1>3, <1>4, <1>5, <1>6, <1>7, <1>8, <1>9, <1>10, <1>11, <1>12, <1>13, <1>14, <1>15,
     <1>16, <1>17, <1>18, <1>19, <1>20 DEF Next, Work, ProcessItem

\* Another run's step leaves alone what a holder relies on.
LEMMA HolderFrame ==
  ASSUME NEW v \in Workers, HolderOK(v), run[v]' = run[v], item' = item,
         job.by' = v => UNCHANGED <<job.by, job.status, job.done, job.tally>>,
         run[v].done + 1 \in Stages => effects[run[v].done + 1] \subseteq effects[run[v].done + 1]',
         run[v].step = "checkpoint" => run[v].done + 1 \in Stages
  PROVE  HolderOK(v)'
<1>1. CountsOf(item)' = CountsOf(item) /\ With("running")' = With("running")
      /\ With("succeeded")' = With("succeeded")
  BY DEF CountsOf, With
<1> QED BY <1>1 DEF HolderOK

LEMMA HolderStep == ASSUME TypeOK, RunInv, HolderInv, JobInv, TypeOK', [Next]_vars PROVE HolderInv'
<1> USE DEF TypeOK
<1>1. ASSUME NEW v \in Workers, run[v]' = run[v], item' = item, job' = job,
             \A k \in Stages : effects[k] \subseteq effects'[k]
      PROVE  HolderOK(v)'
  <2>1. run[v].step = "checkpoint" => run[v].done + 1 \in Stages
    BY DEF RunInv, RunOK, Run, Stages
  <2> QED BY <1>1, <2>1, HolderFrame DEF HolderInv
<1>2. ASSUME NEW v \in Workers, job.by' # v PROVE HolderOK(v)'
  BY <1>2 DEF HolderOK
<1>3. ASSUME job.by' = Nobody PROVE HolderInv'
  BY <1>2, <1>3, JobAssumption DEF HolderInv
<1>4. ASSUME NEW w \in Workers, \A v \in Workers \ {w} : run[v]' = run[v], HolderOK(w)',
             \/ /\ item' = item /\ \A k \in Stages : effects[k] \subseteq effects'[k]
                /\ job' = job \/ job.by' \in {w, Nobody, Gone}
             \/ job.by' = w
      PROVE  HolderInv'
  <2>1. ASSUME NEW v \in Workers \ {w} PROVE HolderOK(v)'
    <3>1. CASE job.by' \in {w, Nobody, Gone}
      BY <1>2, <3>1, JobAssumption
    <3>2. CASE job.by' \notin {w, Nobody, Gone}
      BY <1>1, <1>4, <3>2
    <3> QED BY <3>1, <3>2
  <2> QED BY <1>4, <2>1 DEF HolderInv
<1>6. ASSUME NEW w \in Workers, Claim(w) PROVE HolderInv'
  <2> DEFINE claimed == [Idle EXCEPT !.step = IF job.status = "queued" THEN "claimed" ELSE "ready",
                                     !.attempts = job.attempts, !.fin = job.fin,
                                     !.done = job.done]
  <2>1. run' = [run EXCEPT ![w] = claimed] /\ item' = item
    BY <1>6 DEF Claim
  <2>2. /\ claimed.done = job.done
        /\ claimed.step = IF job.status = "queued" THEN "claimed" ELSE "ready"
    BY DEF Idle
  <2> HIDE DEF claimed
  <2>3. /\ job.by' = w /\ job.done' = job.done /\ job.tally' = job.tally
        /\ job.status' = IF job.status = "queued" THEN "running" ELSE job.status
        /\ job.status \in {"queued", "finalizing"}
    BY <1>6 DEF Claim
  <2>4. job.tally = CountsOf(item)
    BY <1>6 DEF Claim, JobInv
  <2>5. CountsOf(item)' = CountsOf(item)
    BY <2>1 DEF CountsOf
  <2>6. HolderOK(w)'
    BY <2>1, <2>2, <2>3, <2>4, <2>5 DEF HolderOK, Writing, Finalizing
  <2> QED BY <1>4, <2>1, <2>3, <2>6
<1>7. ASSUME NEW w \in Workers, Release(w) \/ Crash(w) PROVE HolderInv'
  <2>1. job.by' # w
    BY <1>7, JobAssumption DEF Release, Crash
  <2>2. HolderOK(w)'
    BY <1>2, <2>1
  <2>3. item' = item /\ effects' = effects /\ \A v \in Workers \ {w} : run[v]' = run[v]
    BY <1>7 DEF Release, Crash, EndRun, ruleVars
  <2>4. job' = job \/ job.by' \in {Nobody, Gone}
    <3>1. CASE job.by = w
      BY <1>7, <3>1 DEF Release, Crash
    <3>2. CASE job.by # w
      <4>1. [job EXCEPT !.by = job.by] = job
        OBVIOUS
      <4> QED BY <1>7, <3>2, <4>1 DEF Release, Crash
    <3> QED BY <3>1, <3>2
  <2> QED BY <1>4, <2>2, <2>3, <2>4
<1>8. ASSUME NEW w \in Workers, LeaseLost(w) PROVE HolderInv'
  <2>1. HolderOK(w)'
    BY <1>2, <1>8 DEF LeaseLost
  <2> QED BY <1>4, <1>8, <2>1 DEF LeaseLost, EndRun, ruleVars
<1>9. ASSUME NEW w \in Workers, ClaimItems(w) PROVE HolderInv'
  <2>1. PICK S \in SUBSET With("queued") :
          /\ item' = [i \in Items |-> IF i \in S
                        THEN [status |-> "running", attempts |-> item[i].attempts + 1]
                        ELSE item[i]]
          /\ run' = [run EXCEPT ![w].step = "items", ![w].todo = S]
    BY <1>9 DEF ClaimItems
  <2>2. S \subseteq With("running")'
    BY <2>1 DEF With
  <2>3. job' = job /\ job.by = w /\ job.status = "running"
    BY <1>9 DEF ClaimItems, Leased
  <2>4. /\ run[w].step' = "items" /\ run[w].todo' = S /\ run[w].done' = run[w].done
        /\ \A v \in Workers \ {w} : run[v]' = run[v]
    BY <2>1 DEF Run
  <2>5. HolderOK(w)'
    BY <2>2, <2>3, <2>4 DEF HolderInv, HolderOK, Writing
  <2> QED BY <1>4, <2>3, <2>4, <2>5
<1>10. ASSUME NEW w \in Workers, NEW i \in Items, CreateRule(w, i) PROVE HolderInv'
  BY <1>1, <1>10 DEF CreateRule, HolderInv
<1>11. ASSUME NEW w \in Workers, NEW i \in Items, NEW status,
              \A v \in Workers \ {w} : run[v]' = run[v], job' = job, effects' = effects,
              run[w].step' = run[w].step, run[w].done' = run[w].done,
              run[w].todo' = run[w].todo \ {i}, run[w].step = "items",
              item' = IF Leased(w, "running") THEN [item EXCEPT ![i].status = status] ELSE item
       PROVE  HolderInv'
  <2>1. CASE job.by = w
    <3>1. Leased(w, "running") /\ run[w].todo \subseteq With("running")
      BY <1>11, <2>1 DEF HolderInv, HolderOK, Leased, Finalizing
    <3>2. run[w].todo' \subseteq With("running")'
      BY <1>11, <3>1 DEF With
    <3>3. HolderOK(w)'
      BY <1>11, <2>1, <3>1, <3>2 DEF HolderInv, HolderOK, Leased, Writing
    <3> QED BY <1>4, <1>11, <2>1, <3>3
  <2>2. CASE job.by # w
    <3>1. HolderOK(w)' /\ item' = item
      BY <1>2, <1>11, <2>2 DEF Leased
    <3> QED BY <1>4, <1>11, <3>1
  <2> QED BY <2>1, <2>2
<1>12. ASSUME NEW w \in Workers, NEW i \in Items, MarkSucceeded(w, i) PROVE HolderInv'
  <2>1. item' = IF Leased(w, "running") THEN [item EXCEPT ![i].status = "succeeded"] ELSE item
    BY <1>12 DEF MarkSucceeded
  <2>2. /\ run[w].step' = run[w].step /\ run[w].done' = run[w].done
        /\ run[w].todo' = run[w].todo \ {i}
        /\ \A v \in Workers \ {w} : run[v]' = run[v]
    BY <1>12 DEF MarkSucceeded, Run
  <2> QED BY <1>11, <1>12, <2>1, <2>2 DEF MarkSucceeded, ruleVars
<1>13. ASSUME NEW w \in Workers, NEW i \in Items, NEW t \in BOOLEAN, MarkFailed(w, i, t)
       PROVE  HolderInv'
  <2> DEFINE again == t /\ Retries(w, i)
             status == IF again THEN "queued" ELSE "failed"
  <2>1. item' = IF Leased(w, "running") THEN [item EXCEPT ![i].status = status] ELSE item
    BY <1>13 DEF MarkFailed
  <2>2. /\ run[w].step' = run[w].step /\ run[w].done' = run[w].done
        /\ run[w].todo' = run[w].todo \ {i}
        /\ \A v \in Workers \ {w} : run[v]' = run[v]
    BY <1>13 DEF MarkFailed, Run
  <2>3. job' = job /\ effects' = effects /\ run[w].step = "items"
    BY <1>13 DEF MarkFailed, ruleVars
  <2> HIDE DEF status
  <2> QED BY <1>11, <2>1, <2>2, <2>3
<1>14. ASSUME NEW w \in Workers, CountItems(w) PROVE HolderInv'
  <2>1. /\ run[w].step' = "settle" /\ run[w].tally' = CountsOf(item) /\ run[w].done' = run[w].done
        /\ \A v \in Workers \ {w} : run[v]' = run[v]
    BY <1>14 DEF CountItems, Run
  <2>2. job' = job /\ item' = item /\ effects' = effects
    BY <1>14 DEF CountItems, ruleVars
  <2>3. CountsOf(item)' = CountsOf(item)
    BY <2>2 DEF CountsOf
  <2>4. HolderOK(w)'
    BY <1>14, <2>1, <2>2, <2>3 DEF CountItems, HolderInv, HolderOK, Writing, Finalizing
  <2> QED BY <1>4, <2>1, <2>2, <2>4
<1>15. ASSUME NEW w \in Workers, Settle(w) PROVE HolderInv'
  <2>1. item' = item /\ effects' = effects /\ \A v \in Workers \ {w} : run[v]' = run[v]
    BY <1>15 DEF Settle, ruleVars
  <2>2. CASE job.by = w
    <3>1. Leased(w, "running") /\ run[w].done = job.done
      BY <1>15, <2>2 DEF Settle, HolderInv, HolderOK, Leased, Finalizing
    <3>2. CASE AllSettled(run[w].tally)
      <4>1. job.status' = "finalizing" /\ job.by' = w /\ job.done' = job.done
        BY <1>15, <3>1, <3>2 DEF Settle
      <4>2. run[w]' = [Idle EXCEPT !.step = "ready", !.fin = run[w].fin, !.done = run[w].done]
        BY <1>15, <3>2 DEF Settle
      <4>3. run[w].step' = "ready" /\ run[w].done' = run[w].done
        BY <4>2 DEF Idle
      <4>4. HolderOK(w)'
        BY <3>1, <4>1, <4>3 DEF HolderOK, Finalizing
      <4> QED BY <1>4, <2>1, <4>1, <4>4
    <3>3. CASE ~AllSettled(run[w].tally)
      BY <1>3, <1>15, <3>1, <3>3 DEF Settle
    <3> QED BY <3>2, <3>3
  <2>3. CASE job.by # w
    <3>1. job' = job
      BY <1>15, <2>3 DEF Settle, Leased
    <3>2. HolderOK(w)'
      BY <1>2, <2>3, <3>1
    <3> QED BY <1>4, <2>1, <3>1, <3>2
  <2> QED BY <2>2, <2>3
<1>16. ASSUME NEW w \in Workers, ListImpacts(w) PROVE HolderInv'
  <2>1. /\ run[w].impacts' = With("succeeded") /\ run[w].done' = run[w].done
        /\ run[w].step' = IF With("succeeded") = {} \/ run[w].done = 3 THEN "complete" ELSE "effect"
        /\ \A v \in Workers \ {w} : run[v]' = run[v]
    BY <1>16 DEF ListImpacts, Run
  <2>2. /\ job' = job /\ item' = item /\ effects' = effects
        /\ job.by = w /\ job.status = "finalizing"
    BY <1>16 DEF ListImpacts, Leased, ruleVars
  <2>3. With("succeeded")' = With("succeeded")
    BY <2>2 DEF With
  <2>4. HolderOK(w)'
    BY <2>1, <2>2, <2>3 DEF HolderInv, HolderOK, Finalizing
  <2> QED BY <1>4, <2>1, <2>2, <2>4
<1>17. ASSUME NEW w \in Workers, Effect(w) PROVE HolderInv'
  <2>1. /\ run[w].step' = "checkpoint" /\ run[w].done' = run[w].done
        /\ run[w].impacts' = run[w].impacts /\ \A v \in Workers \ {w} : run[v]' = run[v]
    BY <1>17 DEF Effect, Goto, Run
  <2>2. /\ job' = job /\ item' = item
        /\ effects' = [effects EXCEPT ![run[w].done + 1] = @ \cup run[w].impacts]
    BY <1>17 DEF Effect
  <2>3. \A k \in Stages : effects[k] \subseteq effects'[k]
    BY <2>2
  <2>4. run[w].done + 1 \in Stages
    BY <1>17 DEF Effect, RunInv, RunOK, Run, Stages
  <2>5. run[w].impacts \subseteq effects'[run[w].done + 1]
    BY <2>2, <2>4
  <2>6. With("succeeded")' = With("succeeded")
    BY <2>2 DEF With
  <2>7. HolderOK(w)'
    BY <1>17, <2>1, <2>2, <2>5, <2>6 DEF Effect, HolderInv, HolderOK, Writing, Finalizing
  <2> QED BY <1>4, <2>1, <2>2, <2>3, <2>7
<1>18. ASSUME NEW w \in Workers, Checkpoint(w) PROVE HolderInv'
  <2>1. /\ run[w].done' = run[w].done + 1 /\ run[w].impacts' = run[w].impacts
        /\ run[w].step' = IF run[w].done + 1 = 3 THEN "complete" ELSE "effect"
        /\ \A v \in Workers \ {w} : run[v]' = run[v]
    BY <1>18 DEF Checkpoint, Checkpointed, Run
  <2>2. /\ item' = item /\ effects' = effects /\ job.by = w /\ job.by' = w
        /\ job.status' = "finalizing" /\ job.done' = run[w].done + 1
    BY <1>18 DEF Checkpoint, Checkpointed, Leased, ruleVars
  <2>3. With("succeeded")' = With("succeeded")
    BY <2>2 DEF With
  <2>4. run[w].impacts = With("succeeded")
    BY <1>18, <2>2 DEF Checkpoint, HolderInv, HolderOK
  <2>5. HolderOK(w)'
    BY <2>1, <2>2, <2>3, <2>4 DEF HolderOK, Finalizing
  <2> QED BY <1>4, <2>1, <2>2, <2>5
<1>19. ASSUME NEW w \in Workers, Complete(w) \/ DeferFinalization(w) PROVE HolderInv'
  <2>1. CASE job.by = w
    <3>1. Leased(w, "finalizing")
      BY <1>19, <2>1 DEF Complete, DeferFinalization, HolderInv, HolderOK, Leased, Writing
    <3> QED BY <1>3, <1>19, <3>1 DEF Complete, DeferFinalization, Deferred
  <2>2. CASE job.by # w
    <3>1. job' = job /\ item' = item /\ \A v \in Workers \ {w} : run[v]' = run[v]
      BY <1>19, <2>2 DEF Complete, DeferFinalization, Leased, EndRun
    <3>2. \A k \in Stages : effects[k] \subseteq effects'[k]
      BY <1>19 DEF Complete, DeferFinalization, ruleVars
    <3>3. HolderOK(w)'
      BY <1>2, <2>2, <3>1
    <3> QED BY <1>4, <3>1, <3>2, <3>3
  <2> QED BY <2>1, <2>2
<1>20. ASSUME Recover \/ Overtake PROVE HolderInv'
  BY <1>3, <1>20 DEF Recover, Overtake, TakeBack, Deferred
<1>21. ASSUME RetryFinalization \/ RetryFailed \/ CancelQueued PROVE HolderInv'
  BY <1>3, <1>21 DEF RetryFinalization, RetryFailed, CancelQueued, NotStarted, JobInv
<1>22. CASE UNCHANGED vars
  BY <1>1, <1>22 DEF vars, HolderInv
<1> QED
  BY <1>6, <1>7, <1>8, <1>9, <1>10, <1>12, <1>13, <1>14, <1>15, <1>16, <1>17, <1>18, <1>19,
     <1>20, <1>21, <1>22 DEF Next, Work, ProcessItem

\* A step that writes neither the job nor its items.
LEMMA JobFrame ==
  ASSUME JobInv, job' = job, item' = item, late \subseteq late',
         rules' # {} => job.started, \A k \in Stages : effects[k] \subseteq effects'[k]
  PROVE  JobInv'
<1>1. CountsOf(item)' = CountsOf(item) /\ With("running")' = With("running")
      /\ With("succeeded")' = With("succeeded") /\ With("queued")' = With("queued")
  BY DEF CountsOf, With
<1> QED BY <1>1 DEF JobInv, SettledBeforeEffects, EffectsReach

LEMMA JobStep ==
  ASSUME TypeOK, RunInv, HolderInv, JobInv, TypeOK', [Next]_vars PROVE JobInv'
<1> USE DEF TypeOK
<1>1. ASSUME item' = item PROVE /\ CountsOf(item)' = CountsOf(item)
                                /\ With("queued")' = With("queued")
                                /\ With("running")' = With("running")
                                /\ With("succeeded")' = With("succeeded")
  BY <1>1 DEF CountsOf, With
<1>2. ASSUME NEW w \in Workers, Claim(w) PROVE JobInv'
  <2>1. /\ item' = item /\ rules' = rules /\ effects' = effects /\ late' = late
        /\ job.by' = w /\ job.started' = TRUE /\ job.done' = job.done /\ job.fin' = job.fin
        /\ job.tally' = job.tally
        /\ \/ job.status = "queued" /\ job.status' = "running"
           \/ job.status = "finalizing" /\ job.status' = "finalizing"
    BY <1>2 DEF Claim, ruleVars
  <2> QED BY <1>1, <2>1, JobAssumption DEF JobInv, SettledBeforeEffects, EffectsReach
<1>3. ASSUME NEW w \in Workers, Release(w) PROVE JobInv'
  <2>1. item' = item /\ rules' = rules /\ effects' = effects /\ late' = late
    BY <1>3 DEF Release, ruleVars
  <2>2. CASE job.by = w
    <3>1. /\ job.by' = Nobody /\ UNCHANGED <<job.started, job.done, job.fin, job.tally>>
          /\ \/ job.status = "running" /\ job.status' = "queued"
             \/ job.status = "finalizing" /\ job.status' = "finalizing"
      BY <1>3, <2>2, JobAssumption DEF Release, JobInv
    <3>2. job.tally = CountsOf(item)
      BY <1>3, <2>2 DEF Release, HolderInv, HolderOK, JobInv, Finalizing, Writing
    <3> QED BY <1>1, <2>1, <3>1, <3>2 DEF JobInv, SettledBeforeEffects, EffectsReach
  <2>3. CASE job.by # w
    BY <1>3, <2>1, <2>3, JobFrame DEF Release, JobInv
  <2> QED BY <2>2, <2>3
<1>4. ASSUME NEW w \in Workers, LeaseLost(w) \/ CountItems(w) \/ ListImpacts(w) PROVE JobInv'
  BY <1>4, JobFrame DEF LeaseLost, CountItems, ListImpacts, ruleVars, JobInv
<1>5. ASSUME NEW w \in Workers, NEW i \in Items, CreateRule(w, i) PROVE JobInv'
  BY <1>5, JobFrame DEF CreateRule, RunInv, RunOK
<1>6. ASSUME NEW w \in Workers, Effect(w) PROVE JobInv'
  <2>1. \A k \in Stages : effects[k] \subseteq effects'[k]
    BY <1>6 DEF Effect
  <2> QED BY <1>6, <2>1, JobFrame DEF Effect, JobInv
<1>7. ASSUME job' = job, job.status = "running", job.by # Nobody, rules' = rules,
             effects' = effects, late \subseteq late',
             job.done > 0 => With("succeeded")' \ late' \subseteq With("succeeded") \ late
      PROVE  JobInv'
  <2>1. ASSUME NEW k \in Stages, k <= job.done PROVE With("succeeded")' \ late' \subseteq effects[k]
    BY <1>7, <2>1 DEF JobInv, Stages
  <2> QED BY <1>7, <2>1 DEF JobInv, SettledBeforeEffects, EffectsReach
<1>8. ASSUME NEW w \in Workers, ClaimItems(w) PROVE JobInv'
  <2>1. With("succeeded")' \subseteq With("succeeded")
    BY <1>8 DEF ClaimItems, With
  <2> QED BY <1>7, <1>8, <2>1, JobAssumption DEF ClaimItems, Leased, ruleVars
<1>9. ASSUME NEW w \in Workers, NEW i \in Items, MarkSucceeded(w, i) PROVE JobInv'
  <2>1. CASE Leased(w, "running")
    <3>1. With("succeeded")' \subseteq With("succeeded") \cup {i}
      BY <1>9, <2>1 DEF MarkSucceeded, With
    <3>2. late' = IF job.done > 0 THEN late \cup {i} ELSE late
      BY <1>9, <2>1 DEF MarkSucceeded
    <3> QED BY <1>7, <1>9, <2>1, <3>1, <3>2, JobAssumption DEF MarkSucceeded, Leased, ruleVars
  <2>2. CASE ~Leased(w, "running")
    BY <1>9, <2>2, JobFrame DEF MarkSucceeded, ruleVars, JobInv
  <2> QED BY <2>1, <2>2
<1>10. ASSUME NEW w \in Workers, NEW i \in Items, NEW t \in BOOLEAN, MarkFailed(w, i, t)
       PROVE  JobInv'
  <2>1. CASE Leased(w, "running")
    <3>1. With("succeeded")' \subseteq With("succeeded")
      BY <1>10, <2>1 DEF MarkFailed, With
    <3> QED BY <1>7, <1>10, <2>1, <3>1, JobAssumption DEF MarkFailed, Leased, ruleVars
  <2>2. CASE ~Leased(w, "running")
    BY <1>10, <2>2, JobFrame DEF MarkFailed, ruleVars, JobInv
  <2> QED BY <2>1, <2>2
<1>11. ASSUME NEW w \in Workers, Settle(w) PROVE JobInv'
  <2>1. item' = item /\ rules' = rules /\ effects' = effects /\ late' = late
    BY <1>11 DEF Settle, ruleVars
  <2>2. CASE Leased(w, "running")
    <3>1. run[w].tally = CountsOf(item)
      BY <1>11, <2>2 DEF Settle, Leased, HolderInv, HolderOK
    <3>2. /\ job.tally' = CountsOf(item) /\ UNCHANGED <<job.started, job.done, job.fin>>
          /\ \/ AllSettled(CountsOf(item)) /\ job.status' = "finalizing" /\ job.by' = w
             \/ job.status' = "queued" /\ job.by' = Nobody
      BY <1>11, <2>2, <3>1 DEF Settle
    <3>3. job.status' = "finalizing" => With("queued") \cup With("running") = {}
      BY <3>2, SettledMeansNone
    <3> QED BY <1>1, <2>1, <2>2, <3>2, <3>3 DEF JobInv, SettledBeforeEffects, EffectsReach, Leased
  <2>3. CASE ~Leased(w, "running")
    BY <1>11, <2>1, <2>3, JobFrame DEF Settle, JobInv
  <2> QED BY <2>2, <2>3
<1>12. ASSUME NEW w \in Workers, Checkpoint(w) PROVE JobInv'
  <2>1. /\ item' = item /\ rules' = rules /\ effects' = effects /\ late' = late
        /\ job.done' = run[w].done + 1 /\ job.by = w /\ job.status = "finalizing"
        /\ UNCHANGED <<job.by, job.status, job.started, job.fin, job.tally>>
    BY <1>12 DEF Checkpoint, Checkpointed, Leased, ruleVars
  <2>2. /\ run[w].done = job.done /\ With("succeeded") \subseteq effects[run[w].done + 1]
    BY <1>12, <2>1 DEF Checkpoint, HolderInv, HolderOK
  <2>3. ASSUME NEW k \in Stages, k <= job.done' PROVE With("succeeded") \ late \subseteq effects[k]
    BY <2>1, <2>2, <2>3 DEF JobInv, Stages
  <2> QED BY <1>1, <2>1, <2>3 DEF JobInv, SettledBeforeEffects, EffectsReach
<1>13. ASSUME NEW w \in Workers, Complete(w) PROVE JobInv'
  <2>1. item' = item /\ rules' = rules /\ effects' = effects /\ late' = late
    BY <1>13 DEF Complete, ruleVars
  <2>2. CASE Leased(w, "finalizing")
    <3>1. /\ job.tally' = CountsOf(item) /\ job.by' = Nobody
          /\ job.status' \in {"succeeded", "partial", "failed"}
          /\ UNCHANGED <<job.started, job.done, job.fin>>
      BY <1>13, <2>2 DEF Complete, Outcome
    <3>2. With("succeeded") = {} \/ job.done = 3
      BY <1>13, <2>2 DEF Complete, Leased, HolderInv, HolderOK
    <3>3. \A k \in Stages : With("succeeded") \ late \subseteq effects[k]
      BY <3>2 DEF JobInv, Stages
    <3> QED BY <1>1, <2>1, <2>2, <3>1, <3>3 DEF JobInv, SettledBeforeEffects, EffectsReach, Leased
  <2>3. CASE ~Leased(w, "finalizing")
    BY <1>13, <2>1, <2>3, JobFrame DEF Complete, JobInv
  <2> QED BY <2>2, <2>3
<1>14. ASSUME NEW fin \in 0 .. MaxFinal, job.status = "finalizing", job' = Deferred(fin),
              fin < MaxFinal, item' = item, rules' = rules, late' = late,
              \A k \in Stages : effects[k] \subseteq effects'[k]
       PROVE  JobInv'
  <2>1. /\ job.by' = Nobody /\ job.fin' = fin + 1 /\ UNCHANGED <<job.started, job.done, job.tally>>
        /\ job.status' = IF fin + 1 >= MaxFinal THEN "requires_attention" ELSE "finalizing"
    BY <1>14 DEF Deferred
  <2>2. job.status' # "requires_attention" => job.fin' < MaxFinal
    BY <2>1, Maxima
  <2> QED BY <1>1, <1>14, <2>1, <2>2 DEF JobInv, SettledBeforeEffects, EffectsReach
<1>15. ASSUME NEW w \in Workers, DeferFinalization(w) PROVE JobInv'
  <2>1. /\ item' = item /\ rules' = rules /\ late' = late
        /\ \A k \in Stages : effects[k] \subseteq effects'[k]
    BY <1>15 DEF DeferFinalization
  <2>2. CASE Leased(w, "finalizing")
    <3>1. run[w].fin \in 0 .. MaxFinal /\ run[w].fin < MaxFinal
      BY DEF RunInv, RunOK, Run
    <3> QED BY <1>14, <1>15, <2>1, <2>2, <3>1 DEF DeferFinalization, Leased
  <2>3. CASE ~Leased(w, "finalizing")
    BY <1>15, <2>1, <2>3, JobFrame DEF DeferFinalization, JobInv
  <2> QED BY <2>2, <2>3
<1>16. ASSUME NEW w \in Workers, Crash(w) PROVE JobInv'
  <2>1. /\ item' = item /\ rules' = rules /\ effects' = effects /\ late' = late
        /\ job.by' = IF job.by = w THEN Gone ELSE job.by
        /\ UNCHANGED <<job.status, job.started, job.done, job.fin, job.tally>>
    BY <1>16 DEF Crash, ruleVars
  <2> QED BY <1>1, <2>1, JobAssumption DEF JobInv, SettledBeforeEffects, EffectsReach
<1>17. ASSUME Recover \/ Overtake PROVE JobInv'
  <2>1. /\ TakeBack /\ job.by # Nobody
        /\ rules' = rules /\ effects' = effects /\ late' = late
    BY <1>17, JobAssumption DEF Recover, Overtake, ruleVars
  <2>2. CASE job.status = "finalizing"
    BY <1>14, <2>1, <2>2 DEF TakeBack, JobInv
  <2>3. CASE job.status = "running"
    <3>1. With("succeeded")' \subseteq With("succeeded")
      BY <2>1, <2>3 DEF TakeBack, RunningRows, With
    <3>2. /\ job.status' \in {"queued", "failed"} /\ job.by' = Nobody
          /\ job.tally' = CountsOf(item') /\ UNCHANGED <<job.started, job.done, job.fin>>
      BY <2>1, <2>3, ZenonT(30) DEF TakeBack
    <3> QED BY <2>1, <2>3, <3>1, <3>2 DEF JobInv, SettledBeforeEffects, EffectsReach
  <2> QED BY <2>1, <2>2, <2>3 DEF JobInv
<1>18. ASSUME RetryFinalization PROVE JobInv'
  <2>1. /\ item' = item /\ rules' = rules /\ effects' = effects /\ late' = late
        /\ job.status = "requires_attention" /\ job.status' = "finalizing"
        /\ job.by' = Nobody /\ job.fin' = 0 /\ UNCHANGED <<job.started, job.done, job.tally>>
    BY <1>18 DEF RetryFinalization, ruleVars
  <2> QED BY <1>1, <2>1, Maxima DEF JobInv, SettledBeforeEffects, EffectsReach
<1>19. ASSUME RetryFailed PROVE JobInv'
  <2>1. job.tally = CountsOf(item) /\ job.status \in {"failed", "partial"}
    BY <1>19 DEF RetryFailed, JobInv
  <2>2. With("queued") = {} /\ With("running") = {}
    BY <1>19, <2>1, BalanceMeansNone DEF RetryFailed
  <2>3. item' = [i \in Items |-> IF i \in With("failed") THEN [item[i] EXCEPT !.status = "queued"]
                                 ELSE item[i]]
    BY <1>19 DEF RetryFailed
  <2>4. /\ With("queued")' = With("failed") /\ With("failed")' = {} /\ With("running")' = {}
        /\ With("succeeded")' = With("succeeded") /\ With("cancelled")' = With("cancelled")
    BY <2>2, <2>3 DEF With
  <2>5. job.tally' = CountsOf(item')
    <3>1. job.tally' = [job.tally EXCEPT !["queued"] = Cardinality(With("failed")),
                                         !["running"] = 0, !["failed"] = 0]
      BY <1>19 DEF RetryFailed
    <3>2. \A s \in ItemStatuses : CountsOf(item')[s] = Cardinality(With(s)')
      BY DEF CountsOf, With
    <3>3. ASSUME NEW s \in ItemStatuses PROVE job.tally'[s] = CountsOf(item')[s]
      <4>1. job.tally'[s] = IF s = "queued" THEN Cardinality(With("failed"))
                            ELSE IF s \in {"running", "failed"} THEN 0 ELSE Cardinality(With(s))
        BY <2>1, <3>1, CountsWith DEF Tally, ItemStatuses
      <4>2. Cardinality({}) = 0
        BY FS_EmptySet
      <4> QED BY <2>4, <3>2, <4>1, <4>2 DEF ItemStatuses
    <3>4. CountsOf(item') \in Tally
      BY CountsType
    <3> QED BY <3>3, <3>4 DEF Tally
  <2>6. /\ job.status' = "queued" /\ job.by' = Nobody /\ UNCHANGED <<job.started, job.done, job.fin>>
        /\ rules' = rules /\ effects' = effects /\ late' = late
    BY <1>19 DEF RetryFailed, ruleVars
  <2> QED BY <2>1, <2>4, <2>5, <2>6 DEF JobInv, SettledBeforeEffects, EffectsReach
<1>20. ASSUME CancelQueued PROVE JobInv'
  <2>1. With("succeeded")' = {}
    BY <1>20 DEF CancelQueued, With
  <2>2. /\ job.status = "queued" /\ ~job.started
        /\ job.status' = "cancelled" /\ job.tally' = CountsOf(item')
        /\ UNCHANGED <<job.started, job.done, job.fin, job.by>>
        /\ rules' = rules /\ effects' = effects /\ late' = late
    BY <1>20 DEF CancelQueued, NotStarted, ruleVars
  <2> QED BY <2>1, <2>2 DEF JobInv, SettledBeforeEffects, EffectsReach
<1>21. CASE UNCHANGED vars
  BY <1>21, JobFrame DEF vars, JobInv
<1> QED
  BY <1>2, <1>3, <1>4, <1>5, <1>6, <1>8, <1>9, <1>10, <1>11, <1>12, <1>13, <1>15, <1>16,
     <1>17, <1>18, <1>19, <1>20, <1>21 DEF Next, Work, ProcessItem

-----------------------------------------------------------------------------
(* The theorems. *)

\* The inductive invariant: what the holder of the lease has read still holds, and the
\* row of the job agrees with its items, rules and effects (PricingBulkJobRepository).
THEOREM JobInvariant == Spec => []Inv
<1>1. Init => Inv
  <2> SUFFICES ASSUME Init PROVE Inv
    OBVIOUS
  <2>1. TypeOK
    BY TypeInit
  <2>2. RunInv
    <3>1. \A w \in Workers : run[w] = Idle /\ job.started = FALSE
      BY DEF Init
    <3> QED BY <3>1, IdleOK DEF RunInv
  <2>3. HolderInv
    BY JobAssumption DEF Init, HolderInv, HolderOK
  <2>4. JobInv
    <3>1. /\ job.status = "queued" /\ job.by = Nobody /\ job.fin = 0 /\ job.done = 0
          /\ job.tally = CountsOf(item) /\ rules = {}
      BY DEF Init
    <3> QED BY <3>1, Maxima DEF JobInv, SettledBeforeEffects, EffectsReach, Stages
  <2> QED BY <2>1, <2>2, <2>3, <2>4 DEF Inv
<1>2. Inv /\ [Next]_vars => Inv'
  <2> SUFFICES ASSUME Inv, [Next]_vars PROVE Inv'
    OBVIOUS
  <2>1. TypeOK'
    BY TypeStep DEF Inv
  <2>2. RunInv' /\ HolderInv' /\ JobInv'
    BY <2>1, RunStep, HolderStep, JobStep DEF Inv
  <2> QED BY <2>1, <2>2 DEF Inv
<1> QED BY <1>1, <1>2, PTL DEF Spec

\* The rows, the leases and what runs have read are of their types; in particular no
\* attempt of a job that goes on is its last (maxAttempts, finalizationMaxAttempts).
THEOREM TypeCorrect == Spec => []TypeOK
<1>1. Inv => TypeOK
  BY DEF Inv
<1> QED BY <1>1, JobInvariant, PTL

\* The counters of the job are those of its items whenever no run holds it, although
\* settlePricingBulkJobItems counts in one statement and writes in another.
THEOREM CountersKept == Spec => []CountersMatchItems
<1>1. Inv => CountersMatchItems
  BY DEF Inv, JobInv, CountersMatchItems
<1> QED BY <1>1, JobInvariant, PTL

\* No item is queued or running when the effects begin (settlePricingBulkJobItems).
THEOREM EffectsComeLast == Spec => []SettledBeforeEffects
<1>1. Inv => SettledBeforeEffects
  BY DEF Inv, JobInv
<1> QED BY <1>1, JobInvariant, PTL

\* A job that has ended well has had its effects on every item that succeeded before
\* they were done (finalizeDeferredImpacts and its checkpoints).
THEOREM EffectsComplete == Spec => []EffectsReach
<1>1. Inv => EffectsReach
  BY DEF Inv, JobInv
<1> QED BY <1>1, JobInvariant, PTL

\* A job cancelled by cancelQueued has no rule and no run at work on it.
THEOREM CancelledIdle == Spec => []CancelledRunsNothing
<1>1. Inv => CancelledRunsNothing
  <2> SUFFICES ASSUME Inv, job.status = "cancelled" PROVE rules = {} /\ \A w \in Workers :
                                                       run[w].step \notin {"claimed", "items"}
    BY DEF CancelledRunsNothing
  <2> QED BY DEF Inv, JobInv, RunInv, RunOK
<1> QED BY <1>1, JobInvariant, PTL

\* An item that has succeeded stays so, whatever runs without a lease go on to write
\* (the lease token in the statements of pricing-bulk-job-queue).
THEOREM SuccessKept == Spec => SucceededStays
<1>1. ASSUME Inv, [Next]_vars
      PROVE  [\A i \in Items : item[i].status = "succeeded" => item'[i].status = "succeeded"]_vars
  <2> SUFFICES ASSUME NEW j \in Items, item[j].status = "succeeded"
               PROVE  item'[j].status = "succeeded"
    OBVIOUS
  <2> DEFINE Kept == item'[j].status = "succeeded"
  <2>1. item \in [Items -> [status : ItemStatuses, attempts : Nat]]
    BY <1>1 DEF Inv, TypeOK
  <2>2. \A i \in Items, status \in ItemStatuses :
          /\ item' = [item EXCEPT ![i].status = status]
          /\ i # j \/ status = "succeeded"
          => Kept
    BY <2>1
  <2>3. ASSUME item' = item PROVE Kept
    BY <2>3
  <2>4. ASSUME NEW w \in Workers, ClaimItems(w) PROVE Kept
    BY <2>4 DEF ClaimItems, With
  <2>5. ASSUME NEW w \in Workers, NEW i \in Items, MarkSucceeded(w, i) PROVE Kept
    <3>1. \/ item' = item
          \/ item' = [item EXCEPT ![i].status = "succeeded"]
      BY <2>5 DEF MarkSucceeded
    <3> QED BY <2>2, <2>3, <3>1 DEF ItemStatuses
  <2>6. ASSUME NEW w \in Workers, NEW i \in Items, NEW t \in BOOLEAN, MarkFailed(w, i, t)
        PROVE  Kept
    <3>1. CASE Leased(w, "running")
      <4>1. i \in run[w].todo /\ run[w].step = "items"
        BY <2>6 DEF MarkFailed
      <4>2. HolderOK(w) /\ job.by = w /\ job.status = "running"
        BY <1>1, <3>1 DEF Inv, HolderInv, Leased
      <4>3. i \in With("running")
        BY <4>1, <4>2 DEF HolderOK, Writing, Finalizing
      <4>4. i # j
        BY <4>3 DEF With
      <4>5. PICK status \in {"queued", "failed"} : item' = [item EXCEPT ![i].status = status]
        BY <2>6, <3>1 DEF MarkFailed
      <4> QED BY <2>2, <4>4, <4>5 DEF ItemStatuses
    <3>2. CASE ~Leased(w, "running")
      BY <2>3, <2>6, <3>2 DEF MarkFailed
    <3> QED BY <3>1, <3>2
  <2>7. ASSUME TakeBack PROVE Kept
    BY <2>1, <2>7 DEF TakeBack, RunningRows, With
  <2>8. ASSUME RetryFailed PROVE Kept
    BY <2>1, <2>8 DEF RetryFailed, With
  <2>9. ASSUME CancelQueued PROVE Kept
    BY <2>1, <2>9 DEF CancelQueued, NotStarted, With
  <2>10. ASSUME NEW w \in Workers, Work(w) PROVE Kept
    <3>1. ASSUME \/ Claim(w) \/ LeaseLost(w) \/ CountItems(w) \/ Settle(w)
                 \/ ListImpacts(w) \/ Effect(w) \/ Checkpoint(w) \/ Complete(w)
                 \/ DeferFinalization(w)
          PROVE  item' = item
      BY <3>1 DEF Claim, LeaseLost, CountItems, Settle, ListImpacts, Effect, Checkpoint,
                  Complete, DeferFinalization
    <3>2. ASSUME NEW i \in Items, CreateRule(w, i) PROVE item' = item
      BY <3>2 DEF CreateRule
    <3>3. ASSUME NEW i \in Items, ProcessItem(w, i) PROVE Kept
      BY <2>3, <2>5, <2>6, <3>2, <3>3 DEF ProcessItem
    <3> HIDE DEF Kept
    <3> QED BY <2>3, <2>4, <2>10, <3>1, <3>3 DEF Work
  <2>11. ASSUME NEW w \in Workers, Release(w) \/ Crash(w) PROVE item' = item
    BY <2>11 DEF Release, Crash
  <2>12. ASSUME RetryFinalization \/ UNCHANGED vars PROVE item' = item
    BY <2>12 DEF RetryFinalization, vars
  <2>13. Recover \/ Overtake => TakeBack
    BY DEF Recover, Overtake
  <2> HIDE DEF Kept
  <2>14. Kept
    BY <1>1, <2>3, <2>7, <2>8, <2>9, <2>10, <2>11, <2>12, <2>13 DEF Next
  <2> QED BY <2>14 DEF Kept
<1>2. Inv /\ [Next]_vars =>
        [\A i \in Items : item[i].status = "succeeded" => item'[i].status = "succeeded"]_vars
  BY <1>1
<1> QED BY <1>2, JobInvariant, PTL DEF Spec, SucceededStays
=============================================================================
