--------------------------- MODULE ChannelSyncProofs ---------------------------
(* Proofs about ChannelSync, for every set of nights, processes and full syncs,    *)
(* every limit and every number of minutes, changes and deaths: an invocation     *)
(* claims jobs nobody else runs, and, when invocations do not overlap and no flush *)
(* comes early, the coalescing of changes by minute forgets none.                 *)
EXTENDS ChannelSync, TLAPS

ConnRow == [sync : SyncStatuses, healthy : BOOLEAN, enabled : BOOLEAN]
JobRow == [status : JobStatuses, nights : SUBSET Nights, runAfter : 0 .. MaxMinute,
           attempts : 0 .. MaxAttempts]
MutRow == [step : {"idle", "select", "insert", "spill"}, night : Nights \cup {NoNight},
           version : Nat, minute : 0 .. MaxMinute]
InvRow == [step : {"idle", "read", "lock", "run"}, at : 0 .. MaxMinute, round : 0 .. 3,
           due : SUBSET Jobs]
TaskRow == [step : TaskSteps, snap : [Nights -> Nat]]

\* What each process and each row keeps to, whatever the others do.
MutatorKept(p) ==
  /\ mut[p].step = "idle" <=> mut[p].night = NoNight
  /\ mut[p].step = "select" => now + 2 <= MaxMinute
  /\ mut[p].step \in {"insert", "spill"} => mut[p].minute \in 1 .. MaxMinute - 1

InvocationKept(i) ==
  /\ inv[i].step \in {"read", "lock"} => inv[i].round <= 2
  /\ inv[i].step # "run" => \A j \in Jobs : task[i][j].step \in {"none", "start"}

RowKept(j) == job[j].status \in {"queued", "running"} => job[j].attempts < MaxAttempts

Kept ==
  /\ \A p \in Mutators : MutatorKept(p)
  /\ \A i \in Invocations : InvocationKept(i)
  /\ \A j \in Jobs : RowKept(j)

Inv == TypeOK /\ Kept /\ DisjointClaims

-----------------------------------------------------------------------------
(* Types. *)

LEMMA Limits ==
  /\ MaxMinute \in Nat /\ MaxAttempts \in Nat /\ MaxAttempts > 0 /\ MaxDeaths \in Nat
  /\ Nights \subseteq Nat /\ NoNight \notin Nights /\ EnqueueDelay \in Nat
BY SyncAssumption

LEMMA Rows ==
  TypeOK <=>
    /\ now \in 0 .. MaxMinute /\ truth \in [Nights -> Nat] /\ remote \in [Nights -> Nat]
    /\ conn \in ConnRow /\ job \in [Jobs -> JobRow] /\ mut \in [Mutators -> MutRow]
    /\ inv \in [Invocations -> InvRow] /\ task \in [Invocations -> [Jobs -> TaskRow]]
    /\ asked \subseteq Operators /\ recoveries \subseteq 0 .. MaxMinute
    /\ lost \subseteq Nights \X Nat /\ deaths \in 0 .. MaxDeaths
BY DEF TypeOK, ConnRow, JobRow, MutRow, InvRow, TaskRow

LEMMA EmptyRows ==
  /\ IdleMutator \in MutRow /\ IdleInvocation \in InvRow /\ NoTask \in TaskRow
  /\ \A j \in Jobs, k \in Invocations : NoTask.step = "none"
  /\ IdleMutator.step = "idle" /\ IdleMutator.night = NoNight
  /\ IdleInvocation.step = "idle" /\ IdleInvocation.due = {} /\ IdleInvocation.at = 0
BY Limits DEF IdleMutator, IdleInvocation, NoTask, MutRow, InvRow, TaskRow, TaskSteps

\* One task of one invocation changes.
LEMMA TaskWritten ==
  ASSUME task \in [Invocations -> [Jobs -> TaskRow]], NEW i \in Invocations, NEW j \in Jobs,
         NEW t \in TaskRow, task' = [task EXCEPT ![i][j] = t]
  PROVE  /\ task' \in [Invocations -> [Jobs -> TaskRow]]
         /\ task'[i][j] = t
         /\ \A k \in Invocations, l \in Jobs : k # i \/ l # j => task'[k][l] = task[k][l]
OBVIOUS

LEMMA TaskMoved ==
  ASSUME task \in [Invocations -> [Jobs -> TaskRow]], NEW i \in Invocations, NEW j \in Jobs,
         NEW step \in TaskSteps, Goto(i, j, step)
  PROVE  /\ task' \in [Invocations -> [Jobs -> TaskRow]]
         /\ task'[i][j].step = step /\ task'[i][j].snap = task[i][j].snap
         /\ \A k \in Invocations, l \in Jobs : k # i \/ l # j => task'[k][l] = task[k][l]
<1> DEFINE t == [task[i][j] EXCEPT !.step = step]
<1>1. t \in TaskRow /\ t.step = step /\ t.snap = task[i][j].snap
  <2>1. task[i][j] \in TaskRow
    OBVIOUS
  <2> QED BY <2>1 DEF TaskRow
<1>2. task' = [task EXCEPT ![i][j] = t]
  BY DEF Goto
<1> HIDE DEF t
<1> QED BY <1>1, <1>2, TaskWritten

LEMMA RowQueued ==
  ASSUME job \in [Jobs -> JobRow], NEW s \in Minutes, NEW n \in Nights
  PROVE  /\ QueueRow(s, n) \in [Jobs -> JobRow]
         /\ \A j \in Jobs \ {s} : QueueRow(s, n)[j] = job[j]
         /\ n \in QueueRow(s, n)[s].nights
         /\ job[s].status # "none" => /\ job[s].nights \subseteq QueueRow(s, n)[s].nights
                                      /\ QueueRow(s, n)[s].status = job[s].status
                                      /\ QueueRow(s, n)[s].runAfter = job[s].runAfter
                                      /\ QueueRow(s, n)[s].attempts = job[s].attempts
         /\ job[s].status = "none" => /\ QueueRow(s, n)[s].status = "queued"
                                      /\ QueueRow(s, n)[s].runAfter = s
                                      /\ QueueRow(s, n)[s].attempts = 0
<1>1. s \in Jobs /\ s \in 0 .. MaxMinute
  BY Limits DEF Jobs, Minutes
<1>2. CASE job[s].status = "none"
  <2> DEFINE r == [status |-> "queued", nights |-> {n}, runAfter |-> s, attempts |-> 0]
  <2>1. r \in JobRow
    BY <1>1, Limits DEF JobRow, JobStatuses
  <2>2. QueueRow(s, n) = [job EXCEPT ![s] = r]
    BY <1>2 DEF QueueRow
  <2> QED BY <1>1, <1>2, <2>1, <2>2
<1>3. CASE job[s].status # "none"
  <2> DEFINE r == [job[s] EXCEPT !.nights = Hull(job[s].nights \cup {n})]
  <2>1. job[s] \in JobRow
    BY <1>1
  <2>2. Hull(job[s].nights \cup {n}) \subseteq Nights
    BY DEF Hull
  <2>3. job[s].nights \cup {n} \subseteq Hull(job[s].nights \cup {n})
    <3> SUFFICES ASSUME NEW m \in job[s].nights \cup {n} PROVE m \in Hull(job[s].nights \cup {n})
      OBVIOUS
    <3>1. m \in Nights
      BY <2>1 DEF JobRow
    <3>2. m <= m
      BY <3>1, Limits
    <3> QED BY <3>1, <3>2 DEF Hull
  <2>4. /\ r \in JobRow /\ r.status = job[s].status /\ r.runAfter = job[s].runAfter
        /\ r.attempts = job[s].attempts /\ n \in r.nights /\ job[s].nights \subseteq r.nights
    BY <2>1, <2>2, <2>3 DEF JobRow
  <2>5. QueueRow(s, n) = [job EXCEPT ![s] = r]
    BY <1>3 DEF QueueRow
  <2> HIDE DEF r
  <2> QED BY <1>1, <1>3, <2>4, <2>5
<1> QED BY <1>2, <1>3

LEMMA TypeStep == ASSUME Inv, [Next]_vars PROVE TypeOK'
<1> USE DEF mutatorVars, schedulerVars, operatorVars
<1> SUFFICES ASSUME now \in 0 .. MaxMinute, truth \in [Nights -> Nat], remote \in [Nights -> Nat],
                    conn \in ConnRow, job \in [Jobs -> JobRow], mut \in [Mutators -> MutRow],
                    inv \in [Invocations -> InvRow], task \in [Invocations -> [Jobs -> TaskRow]],
                    asked \subseteq Operators, recoveries \subseteq 0 .. MaxMinute,
                    lost \subseteq Nights \X Nat, deaths \in 0 .. MaxDeaths
             PROVE  /\ now' \in 0 .. MaxMinute /\ truth' \in [Nights -> Nat]
                    /\ remote' \in [Nights -> Nat] /\ conn' \in ConnRow
                    /\ job' \in [Jobs -> JobRow] /\ mut' \in [Mutators -> MutRow]
                    /\ inv' \in [Invocations -> InvRow]
                    /\ task' \in [Invocations -> [Jobs -> TaskRow]]
                    /\ asked' \subseteq Operators /\ recoveries' \subseteq 0 .. MaxMinute
                    /\ lost' \subseteq Nights \X Nat /\ deaths' \in 0 .. MaxDeaths
  BY DEF Inv, TypeOK, ConnRow, JobRow, MutRow, InvRow, TaskRow
<1>a. \A j \in Jobs : job[j].nights \subseteq Nights
  BY DEF JobRow
<1>b. \A S : S \subseteq Nights => {<<n, truth[n]>> : n \in S} \subseteq Nights \X Nat
  OBVIOUS
<1>c. \A S : S \subseteq Jobs => UNION {job[j].nights : j \in S} \subseteq Nights
  BY <1>a
<1>1. ASSUME NEW p \in Mutators, NEW n \in Nights, Change(p, n)
      PROVE  /\ truth' \in [Nights -> Nat] /\ mut' \in [Mutators -> MutRow]
             /\ UNCHANGED <<now, remote, conn, job, inv, task, asked, recoveries, lost, deaths>>
  <2>1. [step |-> "select", night |-> n, version |-> truth[n] + 1, minute |-> 0] \in MutRow
    BY Limits DEF MutRow
  <2> QED BY <1>1, <2>1 DEF Change
<1>2. ASSUME NEW p \in Mutators, SelectConnection(p)
      PROVE  /\ mut' \in [Mutators -> MutRow] /\ lost' \subseteq Nights \X Nat
             /\ UNCHANGED <<now, truth, remote, conn, job, inv, task, asked, recoveries, deaths>>
  <2>1. /\ mut[p].step # "idle" /\ mut[p].night \in Nights /\ now + 2 <= MaxMinute
        /\ mut[p].version \in Nat
    BY <1>2 DEF SelectConnection, Inv, Kept, MutatorKept, MutRow
  <2> DEFINE r == [mut[p] EXCEPT !.step = "insert", !.minute = now + 1]
  <2>2. r \in MutRow
    <3>1. mut[p] \in MutRow /\ now + 1 \in 0 .. MaxMinute
      BY <2>1, Limits
    <3> QED BY <3>1 DEF MutRow
  <2>3. mut' = [mut EXCEPT ![p] = r] \/ mut' = [mut EXCEPT ![p] = IdleMutator]
    BY <1>2 DEF SelectConnection
  <2>4. mut' \in [Mutators -> MutRow]
    <3> HIDE DEF r
    <3> QED BY <2>2, <2>3, EmptyRows
  <2>5. lost' = lost \/ lost' = lost \cup {<<mut[p].night, mut[p].version>>}
    BY <1>2 DEF SelectConnection
  <2> QED BY <1>2, <2>1, <2>4, <2>5 DEF SelectConnection
<1>3. ASSUME NEW p \in Mutators, UpsertSlot(p)
      PROVE  /\ mut' \in [Mutators -> MutRow] /\ job' \in [Jobs -> JobRow]
             /\ UNCHANGED <<now, truth, remote, conn, inv, task, asked, recoveries, lost, deaths>>
  <2> DEFINE s == IF mut[p].step = "spill" THEN mut[p].minute + 1 ELSE mut[p].minute
  <2>1. s \in Minutes /\ mut[p].night \in Nights
    BY <1>3, Limits DEF UpsertSlot, Inv, Kept, MutatorKept, Minutes, MutRow
  <2>2. mut' \in [Mutators -> MutRow]
    <3>1. [mut[p] EXCEPT !.step = "spill"] \in MutRow
      BY DEF MutRow
    <3> QED BY <1>3, <3>1, EmptyRows DEF UpsertSlot
  <2>3. job' = QueueRow(s, mut[p].night) \/ job' = job
    BY <1>3 DEF UpsertSlot
  <2>4. QueueRow(s, mut[p].night) \in [Jobs -> JobRow]
    BY <2>1, RowQueued
  <2> HIDE DEF s
  <2> QED BY <1>3, <2>2, <2>3, <2>4 DEF UpsertSlot
<1>4. ASSUME NEW p \in Mutators, MutatorDies(p)
      PROVE  /\ mut' \in [Mutators -> MutRow] /\ lost' \subseteq Nights \X Nat
             /\ deaths' \in 0 .. MaxDeaths
             /\ UNCHANGED <<now, truth, remote, conn, job, inv, task, asked, recoveries>>
  <2>1. mut[p].night \in Nights /\ mut[p].version \in Nat
    BY <1>4 DEF MutatorDies, Inv, Kept, MutatorKept, MutRow
  <2>2. deaths + 1 \in 0 .. MaxDeaths
    BY <1>4, Limits DEF MutatorDies
  <2> QED BY <1>4, <2>1, <2>2, EmptyRows DEF MutatorDies
<1>5. ASSUME NEW i \in Invocations, StartInvocation(i) \/ ReadCandidates(i) \/ EndInvocation(i)
      PROVE  /\ inv' \in [Invocations -> InvRow]
             /\ UNCHANGED <<now, truth, remote, conn, job, mut, task, asked, recoveries, lost, deaths>>
  <2>1. [IdleInvocation EXCEPT !.step = "read", !.at = now] \in InvRow
    BY EmptyRows DEF InvRow
  <2>2. \A S \in SUBSET Jobs : [inv[i] EXCEPT !.step = "lock", !.due = S] \in InvRow
    BY DEF InvRow
  <2>3. \A t : Candidates(t) \subseteq SUBSET Jobs
    BY DEF Candidates, Due
  <2>4. \/ inv' = [inv EXCEPT ![i] = [IdleInvocation EXCEPT !.step = "read", !.at = now]]
        \/ \E S \in SUBSET Jobs : inv' = [inv EXCEPT ![i] = [inv[i] EXCEPT !.step = "lock", !.due = S]]
        \/ inv' = [inv EXCEPT ![i] = IdleInvocation]
    BY <1>5, <2>3, ZenonT(30) DEF StartInvocation, ReadCandidates, EndInvocation
  <2> QED BY <1>5, <2>1, <2>2, <2>4, EmptyRows DEF StartInvocation, ReadCandidates, EndInvocation
<1>6. ASSUME NEW i \in Invocations, LockCandidates(i)
      PROVE  /\ inv' \in [Invocations -> InvRow] /\ job' \in [Jobs -> JobRow]
             /\ task' \in [Invocations -> [Jobs -> TaskRow]]
             /\ UNCHANGED <<now, truth, remote, conn, mut, asked, recoveries, lost, deaths>>
  <2>1. inv[i] \in InvRow /\ inv[i].round + 1 \in 0 .. 3
    BY <1>6 DEF LockCandidates, Inv, Kept, InvocationKept, InvRow
  <2> DEFINE row(step) == [inv[i] EXCEPT !.step = step, !.round = inv[i].round + 1, !.due = {}]
  <2>2. row("run") \in InvRow /\ row("read") \in InvRow
    BY <2>1 DEF InvRow
  <2>3. inv' = [inv EXCEPT ![i] = row("run")] \/ inv' = [inv EXCEPT ![i] = row("read")]
    <3>1. \A step : [inv[i] EXCEPT !.step = step, !.round = @ + 1, !.due = {}] = row(step)
      BY <2>1 DEF InvRow
    <3>2. PICK step \in {"run", "read"} :
            inv' = [inv EXCEPT ![i] = [inv[i] EXCEPT !.step = step, !.round = @ + 1, !.due = {}]]
      BY <1>6 DEF LockCandidates
    <3> QED BY <3>1, <3>2
  <2>7. inv' \in [Invocations -> InvRow]
    <3> HIDE DEF row
    <3> QED BY <2>2, <2>3
  <2>4. \A j \in Jobs : [job[j] EXCEPT !.status = "running"] \in JobRow
    BY DEF JobRow, JobStatuses
  <2>5. [NoTask EXCEPT !.step = "start"] \in TaskRow
    BY EmptyRows DEF TaskRow, TaskSteps
  <2>6. job' \in [Jobs -> JobRow] /\ task' \in [Invocations -> [Jobs -> TaskRow]]
    BY <1>6, <2>4, <2>5 DEF LockCandidates
  <2> QED BY <1>6, <2>7, <2>6 DEF LockCandidates
<1>7. ASSUME NEW i \in Invocations, NEW j \in Jobs, RateLimited(i, j)
      PROVE  /\ task' \in [Invocations -> [Jobs -> TaskRow]]
             /\ UNCHANGED <<now, truth, remote, conn, job, mut, inv, asked, recoveries, lost, deaths>>
  <2>1. "retry" \in TaskSteps
    BY DEF TaskSteps
  <2> QED BY <1>7, <2>1, TaskMoved DEF RateLimited
<1>8. ASSUME NEW i \in Invocations, NEW j \in Jobs, Snapshot(i, j)
      PROVE  /\ task' \in [Invocations -> [Jobs -> TaskRow]] /\ recoveries' \subseteq 0 .. MaxMinute
             /\ UNCHANGED <<now, truth, remote, conn, job, mut, inv, asked, lost, deaths>>
  <2> DEFINE t == [step |-> "push",
                   snap |-> [n \in Nights |-> IF n \in job[j].nights THEN truth[n] ELSE 0]]
  <2>1. "permanent" \in TaskSteps /\ t \in TaskRow
    BY DEF TaskSteps, TaskRow
  <2>2. Goto(i, j, "permanent") \/ task' = [task EXCEPT ![i][j] = t]
    BY <1>8 DEF Snapshot
  <2>3. task' \in [Invocations -> [Jobs -> TaskRow]]
    <3> HIDE DEF t
    <3> QED BY <2>1, <2>2, TaskMoved, TaskWritten
  <2> QED BY <1>8, <2>3 DEF Snapshot
<1>9. ASSUME NEW i \in Invocations, NEW j \in Jobs, NEW o \in Outcomes \ {"limited"}, Push(i, j, o)
      PROVE  /\ task' \in [Invocations -> [Jobs -> TaskRow]] /\ remote' \in [Nights -> Nat]
             /\ lost' \subseteq Nights \X Nat
             /\ UNCHANGED <<now, truth, conn, job, mut, inv, asked, recoveries, deaths>>
  <2> DEFINE t == [NoTask EXCEPT !.step = IF o = "unanswered" THEN "transient" ELSE o]
  <2>1. t \in TaskRow
    BY EmptyRows, SyncAssumption DEF TaskRow, TaskSteps
  <2>2. task' = [task EXCEPT ![i][j] = t]
    BY <1>9 DEF Push
  <2>3. task' \in [Invocations -> [Jobs -> TaskRow]]
    <3> HIDE DEF t
    <3> QED BY <2>1, <2>2, TaskWritten
  <2>4. \A n \in Nights : task[i][j].snap[n] \in Nat
    BY DEF TaskRow
  <2>5. remote' \in [Nights -> Nat]
    BY <1>9, <2>4 DEF Push
  <2>6. lost' \subseteq Nights \X Nat
    <3>1. PICK accepted : lost' = IF o = "partial"
                 THEN lost \cup {<<n, truth[n]>> : n \in job[j].nights \ accepted} ELSE lost
      BY <1>9 DEF Push
    <3>2. {<<n, truth[n]>> : n \in job[j].nights \ accepted} \subseteq Nights \X Nat
      BY <1>a
    <3> QED BY <3>1, <3>2
  <2> QED BY <1>9, <2>3, <2>5, <2>6 DEF Push
<1>10. ASSUME NEW i \in Invocations, NEW j \in Jobs, RecordRun(i, j)
       PROVE  /\ task' \in [Invocations -> [Jobs -> TaskRow]] /\ conn' \in ConnRow
              /\ UNCHANGED <<now, truth, remote, job, mut, inv, asked, recoveries, lost, deaths>>
  <2>1. \A step : ConnectionAfter(j, step) \in ConnRow
    BY DEF ConnectionAfter, ConnRow, SyncStatuses
  <2>2. \E step \in {"retry", "stop", "done"} : Goto(i, j, step)
    BY <1>10 DEF RecordRun
  <2>3. task' \in [Invocations -> [Jobs -> TaskRow]]
    BY <2>2, TaskMoved DEF TaskSteps
  <2> QED BY <1>10, <2>1, <2>3 DEF RecordRun
<1>11. ASSUME NEW i \in Invocations, NEW j \in Jobs, MarkSucceeded(i, j)
       PROVE  /\ task' \in [Invocations -> [Jobs -> TaskRow]] /\ job' \in [Jobs -> JobRow]
              /\ UNCHANGED <<now, truth, remote, conn, mut, inv, asked, recoveries, lost, deaths>>
  <2>1. job' = [job EXCEPT ![j] = [job[j] EXCEPT !.status = "succeeded"]]
    BY <1>11 DEF MarkSucceeded
  <2>2. [job[j] EXCEPT !.status = "succeeded"] \in JobRow
    BY DEF JobRow, JobStatuses
  <2> QED BY <1>11, <2>1, <2>2, EmptyRows, TaskWritten DEF MarkSucceeded
<1>12. ASSUME NEW i \in Invocations, NEW j \in Jobs, MarkFailed(i, j)
       PROVE  /\ task' \in [Invocations -> [Jobs -> TaskRow]] /\ job' \in [Jobs -> JobRow]
              /\ lost' \subseteq Nights \X Nat
              /\ UNCHANGED <<now, truth, remote, conn, mut, inv, asked, recoveries, deaths>>
  <2>1. job[j].attempts < MaxAttempts /\ job[j] \in JobRow
    BY <1>12 DEF MarkFailed, At, Inv, Kept, RowKept, DisjointClaims, Running
  <2>2. job[j].attempts + 1 \in 0 .. MaxAttempts
    BY <2>1, Limits DEF JobRow
  <2> DEFINE failed == [job[j] EXCEPT !.status = "failed", !.attempts = job[j].attempts + 1]
  <2>3. failed \in JobRow
    BY <2>1, <2>2 DEF JobRow, JobStatuses
  <2>4. Requeue(j) \in JobRow
    <3> DEFINE after == IF now < MaxMinute THEN now + 1 ELSE now
    <3>1. after \in 0 .. MaxMinute
      BY Limits
    <3> HIDE DEF after
    <3>2. [job[j] EXCEPT !.status = "queued", !.attempts = job[j].attempts + 1, !.runAfter = after]
            \in JobRow
      BY <2>1, <2>2, <3>1 DEF JobRow, JobStatuses
    <3> QED BY <3>2 DEF Requeue, after
  <2>5. \/ job' = [job EXCEPT ![j] = failed]
        \/ job' = [job EXCEPT ![j] = Requeue(j)]
    <3>1. CASE IsTerminal(i, j)
      <4>1. [job[j] EXCEPT !.status = "failed", !.attempts = @ + 1] = failed
        BY <2>1 DEF JobRow
      <4>2. job' = [job EXCEPT ![j] = [job[j] EXCEPT !.status = "failed", !.attempts = @ + 1]]
        BY <1>12, <3>1 DEF MarkFailed
      <4> QED BY <4>1, <4>2
    <3>2. CASE ~IsTerminal(i, j)
      BY <1>12, <3>2 DEF MarkFailed
    <3> QED BY <3>1, <3>2
  <2>6. job' \in [Jobs -> JobRow]
    <3> HIDE DEF failed
    <3> QED BY <2>3, <2>4, <2>5
  <2>7. lost' \subseteq Nights \X Nat
    BY <1>12, <1>a DEF MarkFailed
  <2> QED BY <1>12, <2>6, <2>7, EmptyRows, TaskWritten DEF MarkFailed
<1>13. ASSUME NEW i \in Invocations, InvocationDies(i)
       PROVE  /\ inv' \in [Invocations -> InvRow] /\ task' \in [Invocations -> [Jobs -> TaskRow]]
              /\ lost' \subseteq Nights \X Nat /\ deaths' \in 0 .. MaxDeaths
              /\ UNCHANGED <<now, truth, remote, conn, job, mut, asked, recoveries>>
  <2>1. Running(i) \subseteq Jobs
    BY DEF Running
  <2>2. lost' \subseteq Nights \X Nat
    BY <1>13, <1>b, <1>c, <2>1 DEF InvocationDies
  <2>3. deaths + 1 \in 0 .. MaxDeaths
    BY <1>13, Limits DEF InvocationDies
  <2> QED BY <1>13, <2>2, <2>3, EmptyRows DEF InvocationDies
<1>14. ASSUME NEW o \in Operators, CheckRecovery(o)
       PROVE  /\ asked' \subseteq Operators
              /\ UNCHANGED <<now, truth, remote, conn, job, mut, inv, task, recoveries, lost, deaths>>
  BY <1>14 DEF CheckRecovery
<1>15. ASSUME NEW o \in Operators, NEW j \in FullSyncs, InsertRecovery(o, j)
       PROVE  /\ asked' \subseteq Operators /\ job' \in [Jobs -> JobRow]
              /\ UNCHANGED <<now, truth, remote, conn, mut, inv, task, recoveries, lost, deaths>>
  <2>1. [status |-> "queued", nights |-> Nights, runAfter |-> now, attempts |-> 0] \in JobRow
    BY Limits DEF JobRow, JobStatuses
  <2> QED BY <1>15, <2>1 DEF InsertRecovery
<1>16. ASSUME Pause
       PROVE  /\ job' \in [Jobs -> JobRow] /\ conn' \in ConnRow /\ lost' \subseteq Nights \X Nat
              /\ UNCHANGED <<now, truth, remote, mut, inv, task, asked, recoveries, deaths>>
  <2>1. [status |-> "none", nights |-> {}, runAfter |-> 0, attempts |-> 0] \in JobRow
    BY Limits DEF JobRow, JobStatuses
  <2>2. Dropped \subseteq Jobs
    BY DEF Dropped, Jobs
  <2>3. lost' \subseteq Nights \X Nat
    BY <1>16, <1>b, <1>c, <2>2 DEF Pause
  <2>4. conn' \in ConnRow
    BY <1>16 DEF Pause, ConnRow
  <2> QED BY <1>16, <2>1, <2>3, <2>4 DEF Pause
<1>17. ASSUME Resume
       PROVE  /\ conn' \in ConnRow
              /\ UNCHANGED <<now, truth, remote, job, mut, inv, task, asked, recoveries, lost, deaths>>
  BY <1>17 DEF Resume, ConnRow
<1>18. ASSUME Flush
       PROVE  /\ job' \in [Jobs -> JobRow]
              /\ UNCHANGED <<now, truth, remote, conn, mut, inv, task, asked, recoveries, lost, deaths>>
  <2>1. \A j \in Jobs : [job[j] EXCEPT !.runAfter = now] \in JobRow
    BY DEF JobRow
  <2> QED BY <1>18, <2>1 DEF Flush
<1>19. ASSUME Tick
       PROVE  /\ now' \in 0 .. MaxMinute
              /\ UNCHANGED <<truth, remote, conn, job, mut, inv, task, asked, recoveries, lost, deaths>>
  BY <1>19, Limits DEF Tick
<1>20. CASE UNCHANGED vars
  BY <1>20 DEF vars
<1>21. ASSUME NEW i \in Invocations, Invocation(i)
       PROVE  /\ inv' \in [Invocations -> InvRow] /\ job' \in [Jobs -> JobRow]
              /\ task' \in [Invocations -> [Jobs -> TaskRow]] /\ remote' \in [Nights -> Nat]
              /\ conn' \in ConnRow /\ lost' \subseteq Nights \X Nat
              /\ recoveries' \subseteq 0 .. MaxMinute
              /\ UNCHANGED <<now, truth, mut, asked, deaths>>
  <2>1. ASSUME NEW j \in Jobs, RunJob(i, j)
        PROVE  /\ job' \in [Jobs -> JobRow] /\ inv' = inv
               /\ task' \in [Invocations -> [Jobs -> TaskRow]] /\ remote' \in [Nights -> Nat]
               /\ conn' \in ConnRow /\ lost' \subseteq Nights \X Nat
               /\ recoveries' \subseteq 0 .. MaxMinute
               /\ UNCHANGED <<now, truth, mut, asked, deaths>>
    BY <1>8, <1>9, <1>10, <1>11, <1>12, <2>1 DEF RunJob
  <2> QED BY <1>5, <1>6, <1>21, <2>1 DEF Invocation
<1> QED
  BY <1>1, <1>2, <1>3, <1>4, <1>7, <1>13, <1>14, <1>15, <1>16, <1>17, <1>18, <1>19, <1>20, <1>21
  DEF Next, Enqueue

-----------------------------------------------------------------------------
(* What an invocation does to one of its jobs. *)

\* The job still has to be pushed, or to be given up or queued again.
Owing == {"start", "push", "transient", "permanent", "retry", "stop"}

\* The run of job j goes on: what it sends it has just read, and while its nights are
\* owed they stay so until the channel takes them or the rejection is recorded.
GoesOn(i, j) ==
  /\ job'[j] = job[j]
  /\ task'[i][j].step # "none"
  /\ \A n \in job[j].nights :
       /\ task'[i][j].step = "push" => task'[i][j].snap[n] = truth[n]
       /\ task[i][j].step \in Owing =>
            \/ task'[i][j].step \in Owing
            \/ <<n, truth[n]>> \in lost'
            \/ task[i][j].step = "push" /\ remote'[n] = task[i][j].snap[n]
  /\ \A n \in Nights :
       \/ remote'[n] = remote[n]
       \/ /\ task[i][j].step = "push" /\ n \in job[j].nights
          /\ remote'[n] = task[i][j].snap[n]

\* The run of job j is over.
IsOver(i, j) ==
  /\ task'[i][j].step = "none"
  /\ remote' = remote
  /\ job'[j].nights = job[j].nights
  /\ \/ job'[j].status = "succeeded" /\ task[i][j].step \notin Owing
     \/ job'[j].status = "failed" /\ \A n \in job[j].nights : <<n, truth[n]>> \in lost'
     \/ job'[j].status = "queued" /\ job'[j].attempts < MaxAttempts /\ job'[j].runAfter >= now

LEMMA RunEffect ==
  ASSUME Inv, NEW i \in Invocations, NEW j \in Jobs, RunJob(i, j) \/ RateLimited(i, j)
  PROVE  /\ inv[i].step = "run" /\ task[i][j].step # "none" /\ job[j].status = "running"
         /\ \A k \in Invocations, l \in Jobs : k # i \/ l # j => task'[k][l] = task[k][l]
         /\ \A l \in Jobs \ {j} : job'[l] = job[l]
         /\ UNCHANGED <<now, truth, mut, inv>>
         /\ lost \subseteq lost'
         /\ GoesOn(i, j) \/ IsOver(i, j)
<1> USE DEF mutatorVars, schedulerVars, operatorVars
<1>t. /\ task \in [Invocations -> [Jobs -> TaskRow]] /\ job \in [Jobs -> JobRow]
      /\ truth \in [Nights -> Nat] /\ remote \in [Nights -> Nat] /\ now \in Nat
  BY Rows, Limits DEF Inv
<1>r. job[j].nights \subseteq Nights /\ job[j] \in JobRow /\ job[j].attempts \in Nat
  BY <1>t, Limits DEF JobRow
<1>c. task[i][j].step # "none" => job[j].status = "running"
  BY DEF Inv, DisjointClaims, Running
<1>1. CASE RateLimited(i, j)
  <2>1. inv[i].step = "run" /\ task[i][j].step = "start"
    BY <1>1 DEF RateLimited, At
  <2>2. Goto(i, j, "retry") /\ "retry" \in TaskSteps
    BY <1>1 DEF RateLimited, TaskSteps
  <2>3. UNCHANGED <<now, truth, mut, inv, job, remote, lost>>
    BY <1>1 DEF RateLimited
  <2> QED BY <1>t, <1>c, <2>1, <2>2, <2>3, TaskMoved DEF GoesOn, Owing
<1>2. CASE Snapshot(i, j)
  <2> DEFINE t == [step |-> "push",
                   snap |-> [n \in Nights |-> IF n \in job[j].nights THEN truth[n] ELSE 0]]
  <2>1. inv[i].step = "run" /\ task[i][j].step = "start"
    BY <1>2 DEF Snapshot, At
  <2>2. UNCHANGED <<now, truth, mut, inv, job, remote, lost>>
    BY <1>2 DEF Snapshot
  <2>3. CASE Goto(i, j, "permanent")
    <3>1. "permanent" \in TaskSteps
      BY DEF TaskSteps
    <3> QED BY <1>t, <1>c, <2>1, <2>2, <2>3, <3>1, TaskMoved DEF GoesOn, Owing
  <2>4. CASE task' = [task EXCEPT ![i][j] = t]
    <3>1. t \in TaskRow /\ t.step = "push" /\ \A n \in job[j].nights : t.snap[n] = truth[n]
      BY <1>t, <1>r DEF TaskRow, TaskSteps
    <3> HIDE DEF t
    <3> QED BY <1>t, <1>c, <2>1, <2>2, <2>4, <3>1, TaskWritten DEF GoesOn, Owing
  <2> QED BY <1>2, <2>3, <2>4 DEF Snapshot
<1>3. ASSUME NEW o \in Outcomes \ {"limited"}, Push(i, j, o)
      PROVE  /\ inv[i].step = "run" /\ task[i][j].step # "none" /\ job' = job
             /\ \A k \in Invocations, l \in Jobs : k # i \/ l # j => task'[k][l] = task[k][l]
             /\ UNCHANGED <<now, truth, mut, inv>> /\ lost \subseteq lost' /\ GoesOn(i, j)
  <2> DEFINE t == [NoTask EXCEPT !.step = IF o = "unanswered" THEN "transient" ELSE o]
  <2>1. inv[i].step = "run" /\ task[i][j].step = "push" /\ UNCHANGED <<now, truth, mut, inv, job>>
    BY <1>3 DEF Push, At
  <2>2. PICK accepted \in CASE o \in {"succeeded", "unanswered"} -> {job[j].nights}
                    [] o = "partial" -> (SUBSET job[j].nights) \ {job[j].nights}
                    [] OTHER -> {{}} :
          /\ remote' = [n \in Nights |-> IF n \in accepted THEN task[i][j].snap[n] ELSE remote[n]]
          /\ task' = [task EXCEPT ![i][j] = t]
          /\ lost' = IF o = "partial"
                       THEN lost \cup {<<n, truth[n]>> : n \in job[j].nights \ accepted} ELSE lost
    BY <1>3 DEF Push
  <2>3. o \in {"succeeded", "unanswered", "partial", "transient", "permanent"}
    BY SyncAssumption
  <2>4. accepted \subseteq job[j].nights /\ (o = "succeeded" => accepted = job[j].nights)
    BY <2>2, <2>3
  <2>5. /\ t \in TaskRow /\ t.step # "none" /\ t.step # "push"
        /\ o \notin {"succeeded", "partial"} => t.step \in Owing
    BY <2>3, EmptyRows DEF TaskRow, TaskSteps, Owing
  <2>6. /\ task'[i][j] = t
        /\ \A k \in Invocations, l \in Jobs : k # i \/ l # j => task'[k][l] = task[k][l]
    <3> HIDE DEF t
    <3> QED BY <1>t, <2>2, <2>5, TaskWritten
  <2>7. \A n \in job[j].nights : n \notin accepted => t.step \in Owing \/ <<n, truth[n]>> \in lost'
    BY <2>2, <2>3, <2>4, <2>5
  <2>8. lost \subseteq lost'
    BY <2>2
  <2>9. \A n \in Nights : remote'[n] = IF n \in accepted THEN task[i][j].snap[n] ELSE remote[n]
    BY <2>2
  <2> HIDE DEF t
  <2>10. GoesOn(i, j)
    BY <1>r, <2>1, <2>4, <2>5, <2>6, <2>7, <2>9 DEF GoesOn
  <2> QED BY <2>1, <2>6, <2>8, <2>10
<1>4. CASE RecordRun(i, j)
  <2>1. PICK step \in {"succeeded", "partial", "transient", "permanent"} :
          /\ At(i, j, step)
          /\ Goto(i, j, CASE step = "transient" -> "retry" [] step = "permanent" -> "stop"
                    [] OTHER -> "done")
          /\ UNCHANGED <<now, truth, mut, inv, job, remote, lost>>
    BY <1>4 DEF RecordRun
  <2> DEFINE after == CASE step = "transient" -> "retry" [] step = "permanent" -> "stop"
                    [] OTHER -> "done"
  <2>2. after \in TaskSteps /\ after # "none" /\ after # "push" /\ (step \in Owing => after \in Owing)
    BY <2>1 DEF TaskSteps, Owing
  <2>3. Goto(i, j, after)
    BY <2>1
  <2> HIDE DEF after
  <2>4. /\ task'[i][j].step = after
        /\ \A k \in Invocations, l \in Jobs : k # i \/ l # j => task'[k][l] = task[k][l]
    BY <1>t, <2>2, <2>3, TaskMoved
  <2>5. inv[i].step = "run" /\ task[i][j].step = step /\ step # "none"
    BY <2>1 DEF At
  <2>6. GoesOn(i, j)
    BY <2>1, <2>2, <2>4, <2>5 DEF GoesOn
  <2> QED BY <1>c, <2>1, <2>4, <2>5, <2>6
<1>5. CASE MarkSucceeded(i, j)
  <2>1. inv[i].step = "run" /\ task[i][j].step = "done" /\ UNCHANGED <<now, truth, mut, inv, remote, lost>>
    BY <1>5 DEF MarkSucceeded, At
  <2> DEFINE r == [job[j] EXCEPT !.status = "succeeded"]
  <2>2. job' = [job EXCEPT ![j] = r] /\ r.status = "succeeded" /\ r.nights = job[j].nights
    BY <1>5, <1>r DEF MarkSucceeded, JobRow
  <2>3. task' = [task EXCEPT ![i][j] = NoTask]
    BY <1>5 DEF MarkSucceeded
  <2> HIDE DEF r
  <2>4. job'[j] = r /\ \A l \in Jobs \ {j} : job'[l] = job[l]
    BY <1>t, <2>2
  <2>5. IsOver(i, j) /\ \A k \in Invocations, l \in Jobs : k # i \/ l # j => task'[k][l] = task[k][l]
    BY <1>t, <2>1, <2>2, <2>3, <2>4, TaskWritten, EmptyRows DEF IsOver, Owing
  <2> QED BY <1>c, <2>1, <2>4, <2>5
<1>6. CASE MarkFailed(i, j)
  <2>1. /\ inv[i].step = "run" /\ task[i][j].step \in {"retry", "stop"}
        /\ UNCHANGED <<now, truth, mut, inv, remote>> /\ task' = [task EXCEPT ![i][j] = NoTask]
    BY <1>6 DEF MarkFailed, At
  <2>2. CASE IsTerminal(i, j)
    <3> DEFINE r == [job[j] EXCEPT !.status = "failed", !.attempts = @ + 1]
    <3>1. job' = [job EXCEPT ![j] = r] /\ r.status = "failed" /\ r.nights = job[j].nights
      BY <1>6, <1>r, <2>2 DEF MarkFailed, JobRow
    <3>2. lost' = lost \cup {<<n, truth[n]>> : n \in job[j].nights}
      BY <1>6, <2>2 DEF MarkFailed
    <3> HIDE DEF r
    <3>3. job'[j] = r /\ \A l \in Jobs \ {j} : job'[l] = job[l]
      BY <1>t, <3>1
    <3>4. IsOver(i, j) /\ \A k \in Invocations, l \in Jobs : k # i \/ l # j => task'[k][l] = task[k][l]
      BY <1>t, <2>1, <3>1, <3>2, <3>3, TaskWritten, EmptyRows DEF IsOver
    <3> QED BY <1>c, <2>1, <3>2, <3>3, <3>4
  <2>3. CASE ~IsTerminal(i, j)
    <3>1. job' = [job EXCEPT ![j] = Requeue(j)] /\ lost' = lost
      BY <1>6, <2>3 DEF MarkFailed
    <3>2. /\ Requeue(j).status = "queued" /\ Requeue(j).nights = job[j].nights
          /\ Requeue(j).attempts = job[j].attempts + 1 /\ Requeue(j).runAfter >= now
      BY <1>r, <1>t DEF Requeue, JobRow
    <3>3. Requeue(j).attempts < MaxAttempts
      BY <1>r, <2>3, <3>2, Limits DEF IsTerminal
    <3>4. job'[j] = Requeue(j) /\ \A l \in Jobs \ {j} : job'[l] = job[l]
      BY <1>t, <3>1
    <3>5. IsOver(i, j) /\ \A k \in Invocations, l \in Jobs : k # i \/ l # j => task'[k][l] = task[k][l]
      BY <1>t, <2>1, <3>2, <3>3, <3>4, TaskWritten, EmptyRows DEF IsOver
    <3> QED BY <1>c, <2>1, <3>1, <3>4, <3>5
  <2> QED BY <2>2, <2>3
<1> QED BY <1>c, <1>1, <1>2, <1>3, <1>4, <1>5, <1>6 DEF RunJob

-----------------------------------------------------------------------------
(* Claims. *)

\* What a claim does: the rows of its candidates that are still queued.
LEMMA LockEffect ==
  ASSUME Inv, NEW i \in Invocations, LockCandidates(i)
  PROVE  /\ inv[i].step = "lock" /\ UNCHANGED <<now, truth, remote, mut, lost>>
         /\ inv[i].round <= 2 /\ (inv[i].round = 2 => inv'[i].step = "run")
         /\ inv'[i].round = inv[i].round + 1 /\ inv'[i].step \in {"read", "run"}
         /\ inv'[i].due = {} /\ inv'[i].at = inv[i].at
         /\ \A k \in Invocations \ {i} : inv'[k] = inv[k]
         /\ StillQueued(i) \subseteq inv[i].due /\ inv[i].due \subseteq Jobs
         /\ \A j \in StillQueued(i) :
              /\ job[j].status = "queued" /\ job'[j].status = "running"
              /\ job'[j].nights = job[j].nights /\ job'[j].attempts = job[j].attempts
              /\ task'[i][j].step = "start"
         /\ \A j \in Jobs \ StillQueued(i) : job'[j] = job[j] /\ task'[i][j] = task[i][j]
         /\ \A k \in Invocations \ {i}, j \in Jobs : task'[k][j] = task[k][j]
<1> USE DEF mutatorVars, schedulerVars, operatorVars
<1>1. /\ inv \in [Invocations -> InvRow] /\ job \in [Jobs -> JobRow]
      /\ task \in [Invocations -> [Jobs -> TaskRow]]
  BY Rows DEF Inv
<1>2. inv[i].step = "lock" /\ inv[i].round \in 0 .. 2 /\ inv[i] \in InvRow /\ inv[i].due \subseteq Jobs
  BY <1>1 DEF LockCandidates, Inv, Kept, InvocationKept, InvRow
<1>3. /\ StillQueued(i) \subseteq inv[i].due
      /\ \A j \in StillQueued(i) : job[j].status = "queued"
  BY DEF StillQueued
<1>4. /\ \A j \in StillQueued(i) : job'[j] = [job[j] EXCEPT !.status = "running"]
      /\ \A j \in Jobs \ StillQueued(i) : job'[j] = job[j]
  BY <1>2, <1>3 DEF LockCandidates
<1>5. task' = [task EXCEPT ![i] = [j \in Jobs |->
                 IF j \in StillQueued(i) THEN [NoTask EXCEPT !.step = "start"] ELSE task[i][j]]]
  BY DEF LockCandidates
<1>6. [NoTask EXCEPT !.step = "start"].step = "start"
  BY DEF NoTask
<1>7. PICK step \in {"read", "run"} :
         /\ inv' = [inv EXCEPT ![i] = [inv[i] EXCEPT !.step = step, !.round = @ + 1, !.due = {}]]
         /\ inv[i].round = 2 => step = "run"
  BY DEF LockCandidates
<1> DEFINE r == [inv[i] EXCEPT !.step = step, !.round = @ + 1, !.due = {}]
<1>8. r.step = step /\ r.round = inv[i].round + 1 /\ r.due = {} /\ r.at = inv[i].at
  BY <1>2 DEF InvRow
<1>9. inv'[i] = r /\ \A k \in Invocations \ {i} : inv'[k] = inv[k]
  <2> HIDE DEF r
  <2>1. inv' = [inv EXCEPT ![i] = r]
    BY <1>7 DEF r
  <2> QED BY <1>1, <2>1
<1>10. \A j \in StillQueued(i) :
          /\ job'[j].status = "running" /\ job'[j].nights = job[j].nights
          /\ job'[j].attempts = job[j].attempts
  <2> TAKE j \in StillQueued(i)
  <2>1. job[j] \in JobRow
    BY <1>1, <1>2, <1>3
  <2> QED BY <1>4, <2>1 DEF JobRow
<1>11. /\ \A j \in StillQueued(i) : task'[i][j].step = "start"
       /\ \A j \in Jobs \ StillQueued(i) : task'[i][j] = task[i][j]
       /\ \A k \in Invocations \ {i}, j \in Jobs : task'[k][j] = task[k][j]
  BY <1>1, <1>2, <1>3, <1>5, <1>6
<1>12. UNCHANGED <<now, truth, remote, mut, lost>>
  BY DEF LockCandidates
<1> HIDE DEF r
<1> QED BY <1>2, <1>3, <1>4, <1>7, <1>8, <1>9, <1>10, <1>11, <1>12

\* The rows of a claim in progress stay as they are, or lose tasks.
LEMMA ClaimsFrame ==
  ASSUME DisjointClaims,
         \A i \in Invocations, j \in Jobs :
            task'[i][j].step # "none" => task[i][j].step # "none" /\ job'[j].status = "running"
  PROVE  DisjointClaims'
BY DEF DisjointClaims, Running

\* The other steps leave running jobs running and start none.
LEMMA OtherClaims ==
  ASSUME Inv, Next, NEW j \in Jobs, job[j].status = "running",
         ~\E i \in Invocations, k \in Jobs : RunJob(i, k) \/ RateLimited(i, k)
  PROVE  job'[j] = job[j]
<1> USE DEF mutatorVars, schedulerVars, operatorVars
<1>t. job \in [Jobs -> JobRow] /\ mut \in [Mutators -> MutRow]
  BY Rows DEF Inv
<1>1. ASSUME NEW p \in Mutators, NEW n \in Nights, Change(p, n) PROVE job' = job
  BY <1>1 DEF Change
<1>2. ASSUME NEW p \in Mutators, SelectConnection(p) \/ MutatorDies(p) PROVE job' = job
  BY <1>2 DEF SelectConnection, MutatorDies
<1>3. ASSUME NEW p \in Mutators, UpsertSlot(p) PROVE job'[j] = job[j]
  <2> DEFINE s == IF mut[p].step = "spill" THEN mut[p].minute + 1 ELSE mut[p].minute
  <2>1. s \in Minutes /\ mut[p].night \in Nights
    BY <1>t, <1>3, Limits DEF UpsertSlot, Inv, Kept, MutatorKept, Minutes, MutRow
  <2>2. job' = job \/ (job[s].status # "running" /\ job' = QueueRow(s, mut[p].night))
    <3>1. CASE job[s].status = "none" \/ Merges(s)
      BY <1>3, <3>1 DEF UpsertSlot, Merges
    <3>2. CASE ~(job[s].status = "none" \/ Merges(s))
      BY <1>3, <3>2 DEF UpsertSlot
    <3> QED BY <3>1, <3>2
  <2> HIDE DEF s
  <2> QED BY <1>t, <2>1, <2>2, RowQueued
<1>4. ASSUME NEW i \in Invocations,
             StartInvocation(i) \/ ReadCandidates(i) \/ EndInvocation(i) \/ InvocationDies(i)
      PROVE  job' = job
  BY <1>4 DEF StartInvocation, ReadCandidates, EndInvocation, InvocationDies
<1>5. ASSUME NEW i \in Invocations, LockCandidates(i) PROVE job'[j] = job[j]
  BY <1>5, LockEffect
<1>6. ASSUME NEW o \in Operators, CheckRecovery(o) PROVE job' = job
  BY <1>6 DEF CheckRecovery
<1>7. ASSUME NEW o \in Operators, NEW f \in FullSyncs, InsertRecovery(o, f) PROVE job'[j] = job[j]
  BY <1>7, <1>t DEF InsertRecovery
<1>8. CASE Pause
  BY <1>8 DEF Pause, Dropped
<1>9. CASE Flush
  BY <1>9 DEF Flush
<1>10. CASE Resume \/ Tick
  BY <1>10 DEF Resume, Tick
<1> QED
  BY <1>1, <1>2, <1>3, <1>4, <1>5, <1>6, <1>7, <1>8, <1>9, <1>10
  DEF Next, Enqueue, Invocation

LEMMA ClaimsStep == ASSUME Inv, [Next]_vars PROVE DisjointClaims'
<1> USE DEF mutatorVars, schedulerVars, operatorVars
<1>c. DisjointClaims /\ task \in [Invocations -> [Jobs -> TaskRow]]
  BY Rows DEF Inv
<1>d. /\ \A i, k \in Invocations : i # k => \A j \in Jobs : task[i][j].step = "none" \/ task[k][j].step = "none"
      /\ \A i \in Invocations, j \in Jobs : task[i][j].step # "none" => job[j].status = "running"
  BY <1>c DEF DisjointClaims, Running
<1>1. ASSUME NEW i \in Invocations, NEW j \in Jobs, RunJob(i, j) \/ RateLimited(i, j)
      PROVE  DisjointClaims'
  <2>1. /\ task[i][j].step # "none" /\ job[j].status = "running"
        /\ \A k \in Invocations, l \in Jobs : k # i \/ l # j => task'[k][l] = task[k][l]
        /\ \A l \in Jobs \ {j} : job'[l] = job[l]
        /\ job'[j] = job[j] \/ task'[i][j].step = "none"
    BY <1>1, RunEffect DEF GoesOn, IsOver
  <2> QED BY <1>c, <1>d, <2>1, ClaimsFrame
<1>2. ASSUME NEW i \in Invocations, LockCandidates(i) PROVE DisjointClaims'
  <2>1. /\ \A j \in StillQueued(i) :
              /\ job[j].status = "queued" /\ job'[j].status = "running"
        /\ \A j \in Jobs \ StillQueued(i) : job'[j] = job[j] /\ task'[i][j] = task[i][j]
        /\ \A k \in Invocations \ {i}, j \in Jobs : task'[k][j] = task[k][j]
    BY <1>2, LockEffect DEF Inv
  <2>2. \A k \in Invocations, j \in Jobs : task'[k][j].step # "none" => job'[j].status = "running"
    BY <1>d, <2>1
  <2>3. \A k, m \in Invocations : k # m =>
           \A j \in Jobs : task'[k][j].step = "none" \/ task'[m][j].step = "none"
    <3> TAKE k, m \in Invocations
    <3> HAVE k # m
    <3> TAKE j \in Jobs
    <3>1. CASE j \in StillQueued(i)
      <4>1. \A l \in Invocations \ {i} : task'[l][j].step = "none"
        BY <1>d, <2>1, <3>1
      <4> QED BY <4>1
    <3>2. CASE j \notin StillQueued(i)
      <4>1. task'[k][j] = task[k][j] /\ task'[m][j] = task[m][j]
        BY <2>1, <3>2
      <4> QED BY <1>d, <4>1
    <3> QED BY <3>1, <3>2
  <2> QED BY <2>2, <2>3 DEF DisjointClaims, Running
<1>3. ASSUME Next, ~\E i \in Invocations, k \in Jobs : RunJob(i, k) \/ RateLimited(i, k),
             ~\E i \in Invocations : LockCandidates(i)
      PROVE  DisjointClaims'
  <2>1. \/ task' = task
        \/ \E i \in Invocations : task' = [task EXCEPT ![i] = [j \in Jobs |-> NoTask]]
    BY <1>3 DEF Next, Enqueue, Invocation, Change, SelectConnection, UpsertSlot, MutatorDies,
      StartInvocation, ReadCandidates, EndInvocation, InvocationDies, CheckRecovery,
      InsertRecovery, Pause, Resume, Flush, Tick
  <2>2. \A i \in Invocations, j \in Jobs : task'[i][j].step # "none" => task[i][j].step # "none"
    BY <1>c, <2>1, EmptyRows
  <2>3. \A j \in Jobs : job[j].status = "running" => job'[j] = job[j]
    BY <1>3, OtherClaims
  <2> QED BY <1>c, <1>d, <2>2, <2>3, ClaimsFrame
<1>4. CASE UNCHANGED vars
  BY <1>4, <1>c DEF vars, DisjointClaims, Running
<1> QED BY <1>1, <1>2, <1>3, <1>4

-----------------------------------------------------------------------------
(* What each process keeps to. *)

LEMMA ChangeEffect ==
  ASSUME Inv, NEW p \in Mutators, NEW n \in Nights, Change(p, n)
  PROVE  /\ mut[p].step = "idle" /\ now + 2 <= MaxMinute
         /\ UNCHANGED <<now, remote, job, inv, task, lost>>
         /\ mut'[p].step = "select" /\ mut'[p].night = n /\ mut'[p].version = truth'[n]
         /\ \A q \in Mutators \ {p} : mut'[q] = mut[q]
         /\ \A m \in Nights \ {n} : truth'[m] = truth[m]
<1>1. mut \in [Mutators -> MutRow] /\ truth \in [Nights -> Nat]
  BY Rows DEF Inv
<1> DEFINE r == [step |-> "select", night |-> n, version |-> truth[n] + 1, minute |-> 0]
<1>2. mut' = [mut EXCEPT ![p] = r] /\ truth' = [truth EXCEPT ![n] = truth[n] + 1]
  BY DEF Change
<1>3. r.step = "select" /\ r.night = n /\ r.version = truth[n] + 1
  OBVIOUS
<1> HIDE DEF r
<1>4. /\ mut'[p] = r /\ \A q \in Mutators \ {p} : mut'[q] = mut[q]
      /\ truth'[n] = truth[n] + 1 /\ \A m \in Nights \ {n} : truth'[m] = truth[m]
  BY <1>1, <1>2
<1> QED BY <1>3, <1>4 DEF Change, schedulerVars

LEMMA SelectEffect ==
  ASSUME Inv, NEW p \in Mutators, SelectConnection(p)
  PROVE  /\ mut[p].step = "select" /\ UNCHANGED <<now, truth, remote, job, inv, task>>
         /\ \A q \in Mutators \ {p} : mut'[q] = mut[q]
         /\ \/ /\ mut'[p].step = "insert" /\ mut'[p].minute = now + 1
               /\ mut'[p].night = mut[p].night /\ mut'[p].version = mut[p].version
               /\ lost' = lost
            \/ /\ mut'[p] = IdleMutator
               /\ lost' = lost \cup {<<mut[p].night, mut[p].version>>}
<1>1. mut \in [Mutators -> MutRow] /\ mut[p] \in MutRow
  BY Rows DEF Inv
<1> DEFINE r == [mut[p] EXCEPT !.step = "insert", !.minute = now + 1]
<1>2. \/ mut' = [mut EXCEPT ![p] = r] /\ lost' = lost
      \/ mut' = [mut EXCEPT ![p] = IdleMutator] /\ lost' = lost \cup {<<mut[p].night, mut[p].version>>}
  BY DEF SelectConnection
<1>3. /\ r.step = "insert" /\ r.minute = now + 1 /\ r.night = mut[p].night
      /\ r.version = mut[p].version
  BY <1>1 DEF MutRow
<1> HIDE DEF r
<1>4. UNCHANGED <<now, truth, remote, job, inv, task>> /\ mut[p].step = "select"
  BY DEF SelectConnection, schedulerVars
<1> QED BY <1>1, <1>2, <1>3, <1>4

\* The slot of a change: the minute after it, or the next one.
Slot(p) == IF mut[p].step = "spill" THEN mut[p].minute + 1 ELSE mut[p].minute

LEMMA UpsertEffect ==
  ASSUME Inv, NEW p \in Mutators, UpsertSlot(p)
  PROVE  /\ Slot(p) \in Minutes /\ mut[p].night \in Nights /\ mut[p].step \in {"insert", "spill"}
         /\ UNCHANGED <<now, truth, remote, inv, task, lost>>
         /\ \A q \in Mutators \ {p} : mut'[q] = mut[q]
         /\ \/ /\ job[Slot(p)].status \in {"none", "queued"} /\ mut'[p] = IdleMutator
               /\ job' = QueueRow(Slot(p), mut[p].night)
            \/ /\ job[Slot(p)].status \notin {"none", "queued"} /\ job' = job
               /\ mut[p].step = "spill" /\ mut'[p] = IdleMutator
            \/ /\ job[Slot(p)].status \notin {"none", "queued"} /\ job' = job
               /\ mut[p].step = "insert" /\ mut'[p].step = "spill"
               /\ mut'[p].night = mut[p].night /\ mut'[p].version = mut[p].version
               /\ mut'[p].minute = mut[p].minute
<1>1. mut \in [Mutators -> MutRow] /\ mut[p] \in MutRow /\ MutatorKept(p)
  BY Rows DEF Inv, Kept
<1>2. mut[p].step \in {"insert", "spill"} /\ UNCHANGED <<now, truth, remote, inv, task, lost>>
  BY DEF UpsertSlot, schedulerVars
<1>3. Slot(p) \in Minutes /\ mut[p].night \in Nights
  BY <1>1, <1>2, Limits DEF Slot, MutatorKept, Minutes, MutRow
<1>4. CASE job[Slot(p)].status = "none" \/ Merges(Slot(p))
  <2>1. job' = QueueRow(Slot(p), mut[p].night) /\ mut' = [mut EXCEPT ![p] = IdleMutator]
    BY <1>4 DEF UpsertSlot, Slot
  <2> QED BY <1>1, <1>2, <1>3, <1>4, <2>1 DEF Merges
<1>5. CASE ~(job[Slot(p)].status = "none" \/ Merges(Slot(p)))
  <2> DEFINE r == [mut[p] EXCEPT !.step = "spill"]
  <2>1. job' = job /\ mut' = [mut EXCEPT ![p] = IF mut[p].step = "insert" THEN r ELSE IdleMutator]
    BY <1>5 DEF UpsertSlot, Slot
  <2>2. /\ r.step = "spill" /\ r.night = mut[p].night /\ r.version = mut[p].version
        /\ r.minute = mut[p].minute
    BY <1>1 DEF MutRow
  <2> HIDE DEF r
  <2> QED BY <1>1, <1>2, <1>3, <1>5, <2>1, <2>2 DEF Merges
<1> QED BY <1>4, <1>5

LEMMA MutatorsStep == ASSUME Inv, [Next]_vars PROVE \A p \in Mutators : MutatorKept(p)'
<1> USE DEF mutatorVars, schedulerVars, operatorVars
<1>t. /\ \A p \in Mutators : MutatorKept(p) /\ mut[p].minute \in 0 .. MaxMinute
      /\ mut \in [Mutators -> MutRow] /\ now \in 0 .. MaxMinute
  BY Rows DEF Inv, Kept, MutRow
<1>i. IdleMutator.step = "idle" /\ IdleMutator.night = NoNight
  BY EmptyRows
<1>1. ASSUME NEW p \in Mutators, NEW n \in Nights, Change(p, n)
      PROVE  \A q \in Mutators : MutatorKept(q)'
  <2>1. MutatorKept(p)'
    BY <1>1, ChangeEffect, Limits DEF MutatorKept
  <2>2. \A q \in Mutators \ {p} : MutatorKept(q)'
    BY <1>1, <1>t, ChangeEffect DEF MutatorKept
  <2> QED BY <2>1, <2>2
<1>2. ASSUME NEW p \in Mutators, SelectConnection(p) PROVE \A q \in Mutators : MutatorKept(q)'
  <2>1. MutatorKept(p)'
    BY <1>2, <1>t, <1>i, SelectEffect, Limits DEF MutatorKept
  <2>2. \A q \in Mutators \ {p} : MutatorKept(q)'
    BY <1>2, <1>t, SelectEffect DEF MutatorKept
  <2> QED BY <2>1, <2>2
<1>3. ASSUME NEW p \in Mutators, UpsertSlot(p) PROVE \A q \in Mutators : MutatorKept(q)'
  <2>1. MutatorKept(p)'
    BY <1>3, <1>t, <1>i, UpsertEffect, Limits DEF MutatorKept
  <2>2. \A q \in Mutators \ {p} : MutatorKept(q)'
    BY <1>3, <1>t, UpsertEffect DEF MutatorKept
  <2> QED BY <2>1, <2>2
<1>4. ASSUME NEW p \in Mutators, MutatorDies(p) PROVE \A q \in Mutators : MutatorKept(q)'
  <2>1. mut' = [mut EXCEPT ![p] = IdleMutator] /\ now' = now
    BY <1>4 DEF MutatorDies
  <2> QED BY <1>t, <1>i, <2>1 DEF MutatorKept
<1>5. CASE Tick
  <2>1. /\ now' = now + 1 /\ mut' = mut
        /\ \A p \in Mutators : mut[p].step = "select" => now + 3 <= MaxMinute
    BY <1>5 DEF Tick
  <2> QED BY <1>t, <2>1, Limits DEF MutatorKept
<1>6. ASSUME NEW i \in Invocations, NEW j \in Jobs, RunJob(i, j) \/ RateLimited(i, j)
      PROVE  UNCHANGED <<now, mut>>
  BY <1>6, RunEffect
<1>7. ASSUME NEW i \in Invocations, StartInvocation(i) \/ ReadCandidates(i) \/ LockCandidates(i)
                                    \/ EndInvocation(i) \/ InvocationDies(i)
      PROVE  UNCHANGED <<now, mut>>
  BY <1>7 DEF StartInvocation, ReadCandidates, LockCandidates, EndInvocation, InvocationDies
<1>8. ASSUME NEW o \in Operators, CheckRecovery(o) \/ \E j \in FullSyncs : InsertRecovery(o, j)
      PROVE  UNCHANGED <<now, mut>>
  BY <1>8 DEF CheckRecovery, InsertRecovery
<1>9. CASE Pause \/ Resume \/ Flush \/ UNCHANGED vars
  <2>1. UNCHANGED <<now, mut>>
    BY <1>9 DEF Pause, Resume, Flush, vars
  <2> QED BY <1>t, <2>1 DEF MutatorKept
<1>10. ASSUME UNCHANGED <<now, mut>> PROVE \A q \in Mutators : MutatorKept(q)'
  BY <1>t, <1>10 DEF MutatorKept
<1> QED
  BY <1>1, <1>2, <1>3, <1>4, <1>5, <1>6, <1>7, <1>8, <1>9, <1>10 DEF Next, Enqueue, Invocation

\* The steps of an invocation that touch no row.
LEMMA StartEffect ==
  ASSUME Inv, NEW i \in Invocations, StartInvocation(i)
  PROVE  /\ inv[i].step = "idle" /\ inv'[i].step = "read" /\ inv'[i].at = now
         /\ inv'[i].round = 0 /\ inv'[i].due = {}
         /\ \A k \in Invocations \ {i} : inv'[k] = inv[k]
         /\ UNCHANGED <<now, truth, remote, job, mut, task, lost>>
BY Rows DEF Inv, StartInvocation, IdleInvocation, mutatorVars

LEMMA ReadEffect ==
  ASSUME Inv, NEW i \in Invocations, ReadCandidates(i)
  PROVE  /\ inv[i].step = "read" /\ inv'[i].step = "lock" /\ inv'[i].at = inv[i].at
         /\ inv'[i].round = inv[i].round /\ inv'[i].due \subseteq Due(inv[i].at)
         /\ \A k \in Invocations \ {i} : inv'[k] = inv[k]
         /\ UNCHANGED <<now, truth, remote, job, mut, task, lost>>
<1>1. inv \in [Invocations -> InvRow] /\ inv[i] \in InvRow
  BY Rows DEF Inv
<1>2. PICK S \in Candidates(inv[i].at) :
         inv' = [inv EXCEPT ![i] = [inv[i] EXCEPT !.step = "lock", !.due = S]]
  BY DEF ReadCandidates
<1>3. S \subseteq Due(inv[i].at)
  BY DEF Candidates
<1> DEFINE r == [inv[i] EXCEPT !.step = "lock", !.due = S]
<1>4. r.step = "lock" /\ r.at = inv[i].at /\ r.round = inv[i].round /\ r.due = S
  BY <1>1 DEF InvRow
<1>5. inv'[i] = r /\ \A k \in Invocations \ {i} : inv'[k] = inv[k]
  <2> HIDE DEF r
  <2>1. inv' = [inv EXCEPT ![i] = r]
    BY <1>2 DEF r
  <2> QED BY <1>1, <2>1
<1> HIDE DEF r
<1> QED BY <1>3, <1>4, <1>5 DEF ReadCandidates, mutatorVars

LEMMA EndEffect ==
  ASSUME Inv, NEW i \in Invocations, EndInvocation(i)
  PROVE  /\ inv[i].step = "run" /\ inv'[i] = IdleInvocation
         /\ \A j \in Jobs : task[i][j].step = "none"
         /\ \A k \in Invocations \ {i} : inv'[k] = inv[k]
         /\ UNCHANGED <<now, truth, remote, job, mut, task, lost>>
BY Rows DEF Inv, EndInvocation, Running, mutatorVars

LEMMA DeathEffect ==
  ASSUME Inv, NEW i \in Invocations, InvocationDies(i)
  PROVE  /\ inv'[i] = IdleInvocation
         /\ \A j \in Jobs : task'[i][j] = NoTask
         /\ \A k \in Invocations \ {i} : inv'[k] = inv[k] /\ task'[k] = task[k]
         /\ \A j \in Jobs : task[i][j].step # "none" =>
               \A n \in job[j].nights : <<n, truth[n]>> \in lost'
         /\ lost \subseteq lost'
         /\ UNCHANGED <<now, truth, remote, job, mut>>
BY Rows DEF Inv, InvocationDies, Running, mutatorVars

LEMMA InvocationsStep == ASSUME Inv, [Next]_vars PROVE \A i \in Invocations : InvocationKept(i)'
<1>t. \A i \in Invocations : InvocationKept(i)
  BY DEF Inv, Kept
<1>i. IdleInvocation.step = "idle" /\ NoTask.step = "none"
  BY DEF IdleInvocation, NoTask
<1>1. ASSUME NEW i \in Invocations, StartInvocation(i)
      PROVE  \A k \in Invocations : InvocationKept(k)'
  BY <1>t, <1>1, StartEffect DEF InvocationKept
<1>2. ASSUME NEW i \in Invocations, ReadCandidates(i)
      PROVE  \A k \in Invocations : InvocationKept(k)'
  BY <1>t, <1>2, ReadEffect DEF InvocationKept
<1>3. ASSUME NEW i \in Invocations, LockCandidates(i)
      PROVE  \A k \in Invocations : InvocationKept(k)'
  <2>1. inv[i].round \in 0 .. 3
    BY Rows DEF Inv, InvRow
  <2>2. InvocationKept(i)'
    BY <1>t, <1>3, <2>1, LockEffect DEF InvocationKept
  <2>3. \A k \in Invocations \ {i} : InvocationKept(k)'
    BY <1>t, <1>3, LockEffect DEF InvocationKept
  <2> QED BY <2>2, <2>3
<1>4. ASSUME NEW i \in Invocations, EndInvocation(i)
      PROVE  \A k \in Invocations : InvocationKept(k)'
  BY <1>t, <1>i, <1>4, EndEffect DEF InvocationKept
<1>5. ASSUME NEW i \in Invocations, InvocationDies(i)
      PROVE  \A k \in Invocations : InvocationKept(k)'
  <2>1. InvocationKept(i)'
    BY <1>i, <1>5, DeathEffect DEF InvocationKept
  <2>2. \A k \in Invocations \ {i} : InvocationKept(k)'
    BY <1>t, <1>5, DeathEffect DEF InvocationKept
  <2> QED BY <2>1, <2>2
<1>6. ASSUME NEW i \in Invocations, NEW j \in Jobs, RunJob(i, j) \/ RateLimited(i, j)
      PROVE  \A k \in Invocations : InvocationKept(k)'
  <2>1. /\ inv[i].step = "run" /\ inv' = inv
        /\ \A k \in Invocations, l \in Jobs : k # i \/ l # j => task'[k][l] = task[k][l]
    BY <1>6, RunEffect
  <2> QED BY <1>t, <2>1 DEF InvocationKept
<1>7. ASSUME NEW p \in Mutators, (\E n \in Nights : Change(p, n)) \/ Enqueue(p) \/ MutatorDies(p)
      PROVE  UNCHANGED <<inv, task>>
  BY <1>7 DEF Change, Enqueue, SelectConnection, UpsertSlot, MutatorDies, schedulerVars
<1>8. ASSUME NEW o \in Operators, CheckRecovery(o) \/ \E j \in FullSyncs : InsertRecovery(o, j)
      PROVE  UNCHANGED <<inv, task>>
  BY <1>8 DEF CheckRecovery, InsertRecovery, schedulerVars
<1>9. CASE Pause \/ Resume \/ Flush \/ Tick \/ UNCHANGED vars
  <2>1. UNCHANGED <<inv, task>>
    BY <1>9 DEF Pause, Resume, Flush, Tick, vars, schedulerVars
  <2> QED BY <1>t, <2>1 DEF InvocationKept
<1>10. ASSUME UNCHANGED <<inv, task>> PROVE \A k \in Invocations : InvocationKept(k)'
  BY <1>t, <1>10 DEF InvocationKept
<1> QED
  BY <1>1, <1>2, <1>3, <1>4, <1>5, <1>6, <1>7, <1>8, <1>9, <1>10 DEF Next, Invocation

\* What a pause does to the rows: the queued minutes are dropped.
LEMMA PauseEffect ==
  ASSUME Inv, Pause
  PROVE  /\ \A j \in Dropped : /\ j \in Minutes /\ job[j].status = "queued" /\ job'[j].status = "none"
                               /\ \A n \in job[j].nights : <<n, truth[n]>> \in lost'
         /\ \A j \in Jobs \ Dropped : job'[j] = job[j]
         /\ Dropped \subseteq Jobs /\ lost \subseteq lost'
         /\ UNCHANGED <<now, truth, remote, mut, inv, task>>
BY DEF Pause, Dropped, Jobs, mutatorVars, schedulerVars

LEMMA FlushEffect ==
  ASSUME Inv, Flush, NEW j \in Jobs
  PROVE  /\ job'[j].status = job[j].status /\ job'[j].nights = job[j].nights
         /\ job'[j].attempts = job[j].attempts
         /\ job'[j] # job[j] => now \in Flushes /\ job'[j].runAfter = now
<1>1. job[j] \in JobRow
  BY Rows DEF Inv
<1>2. now \in Flushes /\ (job'[j] = job[j] \/ job'[j] = [job[j] EXCEPT !.runAfter = now])
  BY DEF Flush
<1> QED BY <1>1, <1>2 DEF JobRow

LEMMA InsertEffect ==
  ASSUME Inv, NEW o \in Operators, NEW f \in FullSyncs, InsertRecovery(o, f)
  PROVE  /\ job[f].status = "none" /\ job'[f].status = "queued" /\ job'[f].nights = Nights
         /\ job'[f].attempts = 0 /\ job'[f].runAfter = now
         /\ \A j \in Jobs \ {f} : job'[j] = job[j]
         /\ UNCHANGED <<now, truth, remote, mut, inv, task, lost>>
<1>1. job \in [Jobs -> JobRow] /\ f \in Jobs
  BY Rows DEF Inv, Jobs
<1> QED BY <1>1 DEF InsertRecovery, mutatorVars, schedulerVars

LEMMA RowsStep == ASSUME Inv, [Next]_vars PROVE \A j \in Jobs : RowKept(j)'
<1>t. \A j \in Jobs : RowKept(j)
  BY DEF Inv, Kept
<1>1. ASSUME NEW p \in Mutators, UpsertSlot(p) PROVE \A j \in Jobs : RowKept(j)'
  <2>1. PICK s \in Minutes, n \in Nights : job' = job \/ job' = QueueRow(s, n)
    BY <1>1, UpsertEffect
  <2>2. job \in [Jobs -> JobRow]
    BY Rows DEF Inv
  <2>3. CASE job' = job
    BY <1>t, <2>3 DEF RowKept
  <2>4. CASE job' = QueueRow(s, n)
    <3>1. RowKept(s)'
      BY <1>t, <2>2, <2>4, RowQueued, Limits DEF RowKept, Jobs
    <3>2. \A j \in Jobs \ {s} : job'[j] = job[j]
      BY <2>2, <2>4, RowQueued
    <3> QED BY <1>t, <3>1, <3>2 DEF RowKept
  <2> QED BY <2>1, <2>3, <2>4
<1>2. ASSUME NEW i \in Invocations, LockCandidates(i) PROVE \A j \in Jobs : RowKept(j)'
  BY <1>t, <1>2, LockEffect DEF RowKept
<1>3. ASSUME NEW i \in Invocations, NEW k \in Jobs, RunJob(i, k) \/ RateLimited(i, k)
      PROVE  \A j \in Jobs : RowKept(j)'
  BY <1>t, <1>3, RunEffect DEF RowKept, GoesOn, IsOver
<1>4. ASSUME NEW o \in Operators, NEW f \in FullSyncs, InsertRecovery(o, f)
      PROVE  \A j \in Jobs : RowKept(j)'
  BY <1>t, <1>4, InsertEffect, Limits DEF RowKept
<1>5. CASE Pause
  BY <1>t, <1>5, PauseEffect DEF RowKept
<1>6. CASE Flush
  BY <1>t, <1>6, FlushEffect DEF RowKept
<1>7. CASE job' = job
  BY <1>t, <1>7 DEF RowKept
<1>8. ASSUME NEW p \in Mutators, (\E n \in Nights : Change(p, n)) \/ SelectConnection(p) \/ MutatorDies(p)
      PROVE  job' = job
  BY <1>8 DEF Change, SelectConnection, MutatorDies
<1>9. ASSUME NEW i \in Invocations,
             StartInvocation(i) \/ ReadCandidates(i) \/ EndInvocation(i) \/ InvocationDies(i)
      PROVE  job' = job
  BY <1>9 DEF StartInvocation, ReadCandidates, EndInvocation, InvocationDies
<1>10. ASSUME (\E o \in Operators : CheckRecovery(o)) \/ Resume \/ Tick \/ UNCHANGED vars
       PROVE  job' = job
  BY <1>10 DEF CheckRecovery, Resume, Tick, vars
<1> QED
  BY <1>1, <1>2, <1>3, <1>4, <1>5, <1>6, <1>7, <1>8, <1>9, <1>10 DEF Next, Enqueue, Invocation

LEMMA Start == ASSUME Init PROVE Inv
<1>1. TypeOK
  BY Limits DEF Init, TypeOK, SyncStatuses, JobStatuses, IdleMutator, IdleInvocation, NoTask, TaskSteps
<1>2. Kept
  BY DEF Init, Kept, MutatorKept, InvocationKept, RowKept, IdleMutator, IdleInvocation, NoTask
<1>3. DisjointClaims
  BY DEF Init, DisjointClaims, Running, NoTask
<1> QED BY <1>1, <1>2, <1>3 DEF Inv

LEMMA Step == ASSUME Inv, [Next]_vars PROVE Inv'
BY TypeStep, ClaimsStep, MutatorsStep, InvocationsStep, RowsStep DEF Inv, Kept

-----------------------------------------------------------------------------
(* Coalescing by minute: invocations do not overlap, a change is queued before the *)
(* minute it names has passed, and no flush makes a slot due before its minute.    *)

Orderly ==
  /\ \A i, k \in Invocations : i = k
  /\ EnqueueDelay = 1
  /\ \A t \in Flushes : t >= MaxMinute

\* A slot is run only once its minute has come, and a change names a minute to come: the
\* minute after the one it names is therefore open.
MutatorEarly(p) == mut[p].step \in {"insert", "spill"} => now <= mut[p].minute
InvocationDue(i) == inv[i].at <= now /\ \A j \in inv[i].due \cap Minutes : j <= now
SlotDue(j) ==
  /\ job[j].status \in {"running", "succeeded", "failed"} => j <= now
  /\ job[j].status = "queued" => j <= job[j].runAfter

Slots ==
  /\ \A p \in Mutators : MutatorEarly(p)
  /\ \A i \in Invocations : InvocationDue(i)
  /\ \A j \in Minutes : SlotDue(j)

LEMMA SlotsStep == ASSUME Orderly, Inv, Slots, [Next]_vars PROVE Slots'
<1> USE DEF mutatorVars, schedulerVars, operatorVars
<1>t. /\ now \in 0 .. MaxMinute /\ MaxMinute \in Nat /\ Minutes \subseteq Jobs
      /\ Minutes \subseteq 1 .. MaxMinute /\ job \in [Jobs -> JobRow]
      /\ \A p \in Mutators : mut[p].minute \in 0 .. MaxMinute
      /\ \A i \in Invocations : inv[i].at \in 0 .. MaxMinute
      /\ \A j \in Jobs : job[j].runAfter \in 0 .. MaxMinute /\ job[j].status \in JobStatuses
  BY Rows, Limits DEF Inv, Jobs, Minutes, JobRow, InvRow, MutRow
<1>s. /\ \A p \in Mutators : MutatorEarly(p)
      /\ \A i \in Invocations : InvocationDue(i)
      /\ \A j \in Minutes : SlotDue(j)
  BY DEF Slots
<1>i. IdleMutator.step = "idle" /\ IdleInvocation.at = 0 /\ IdleInvocation.due = {}
  BY DEF IdleMutator, IdleInvocation
<1>m. ASSUME now' = now, mut' = mut PROVE \A p \in Mutators : MutatorEarly(p)'
  BY <1>s, <1>m DEF MutatorEarly
<1>n. ASSUME now' = now, inv' = inv PROVE \A i \in Invocations : InvocationDue(i)'
  BY <1>s, <1>n DEF InvocationDue
<1>j. ASSUME now' = now, job' = job PROVE \A j \in Minutes : SlotDue(j)'
  BY <1>s, <1>j DEF SlotDue
<1>1. ASSUME NEW p \in Mutators, NEW n \in Nights, Change(p, n) PROVE Slots'
  <2>1. \A q \in Mutators : MutatorEarly(q)'
    BY <1>1, <1>s, ChangeEffect DEF MutatorEarly
  <2> QED BY <1>1, <1>n, <1>j, <2>1, ChangeEffect DEF Slots
<1>2. ASSUME NEW p \in Mutators, SelectConnection(p) PROVE Slots'
  <2>1. \A q \in Mutators : MutatorEarly(q)'
    BY <1>2, <1>s, <1>t, <1>i, SelectEffect DEF MutatorEarly
  <2> QED BY <1>2, <1>n, <1>j, <2>1, SelectEffect DEF Slots
<1>3. ASSUME NEW p \in Mutators, UpsertSlot(p) PROVE Slots'
  <2>1. \A q \in Mutators : MutatorEarly(q)'
    BY <1>3, <1>s, <1>t, <1>i, UpsertEffect DEF MutatorEarly
  <2>2. ASSUME NEW s \in Minutes, NEW n \in Nights, job[s].status \in {"none", "queued"},
               job' = QueueRow(s, n), now' = now
        PROVE  \A j \in Minutes : SlotDue(j)'
    <3>1. \A j \in Minutes \ {s} : SlotDue(j)'
      BY <1>s, <1>t, <2>2, RowQueued DEF SlotDue
    <3>2. SlotDue(s)'
      BY <1>s, <1>t, <2>2, RowQueued DEF SlotDue
    <3> QED BY <3>1, <3>2
  <2>3. \A j \in Minutes : SlotDue(j)'
    BY <1>3, <1>j, <2>2, UpsertEffect
  <2> QED BY <1>3, <1>n, <2>1, <2>3, UpsertEffect DEF Slots
<1>4. ASSUME NEW p \in Mutators, MutatorDies(p) PROVE Slots'
  <2>1. mut' = [mut EXCEPT ![p] = IdleMutator] /\ UNCHANGED <<now, inv, job>>
    BY <1>4 DEF MutatorDies
  <2>2. mut \in [Mutators -> MutRow]
    BY Rows DEF Inv
  <2>3. \A q \in Mutators : MutatorEarly(q)'
    BY <1>s, <1>i, <2>1, <2>2 DEF MutatorEarly
  <2> QED BY <1>n, <1>j, <2>1, <2>3 DEF Slots
<1>5. ASSUME NEW i \in Invocations, StartInvocation(i) PROVE Slots'
  <2>1. \A k \in Invocations : InvocationDue(k)'
    BY <1>5, <1>s, <1>t, StartEffect DEF InvocationDue
  <2> QED BY <1>5, <1>m, <1>j, <2>1, StartEffect DEF Slots
<1>6. ASSUME NEW i \in Invocations, ReadCandidates(i) PROVE Slots'
  <2>1. \A j \in Due(inv[i].at) \cap Minutes : j <= now
    BY <1>s, <1>t DEF Due, SlotDue, InvocationDue
  <2>2. \A k \in Invocations : InvocationDue(k)'
    BY <1>6, <1>s, <2>1, ReadEffect DEF InvocationDue
  <2> QED BY <1>6, <1>m, <1>j, <2>2, ReadEffect DEF Slots
<1>7. ASSUME NEW i \in Invocations, LockCandidates(i) PROVE Slots'
  <2>1. \A k \in Invocations : InvocationDue(k)'
    BY <1>7, <1>s, LockEffect DEF InvocationDue
  <2>2. \A j \in Minutes : SlotDue(j)'
    BY <1>7, <1>s, <1>t, LockEffect DEF InvocationDue, SlotDue
  <2> QED BY <1>7, <1>m, <2>1, <2>2, LockEffect DEF Slots
<1>8. ASSUME NEW i \in Invocations, EndInvocation(i) \/ InvocationDies(i) PROVE Slots'
  <2>1. /\ UNCHANGED <<now, job, mut>> /\ inv'[i] = IdleInvocation
        /\ \A k \in Invocations \ {i} : inv'[k] = inv[k]
    BY <1>8, EndEffect, DeathEffect
  <2>2. \A k \in Invocations : InvocationDue(k)'
    BY <1>s, <1>t, <1>i, <2>1 DEF InvocationDue
  <2> QED BY <1>m, <1>j, <2>1, <2>2 DEF Slots
<1>9. ASSUME NEW i \in Invocations, NEW k \in Jobs, RunJob(i, k) \/ RateLimited(i, k) PROVE Slots'
  <2>1. \A j \in Minutes : SlotDue(j)'
    <3>1. /\ now' = now /\ job[k].status = "running" /\ \A l \in Jobs \ {k} : job'[l] = job[l]
          /\ \/ job'[k] = job[k]
             \/ job'[k].status \in {"succeeded", "failed"}
             \/ job'[k].status = "queued" /\ job'[k].runAfter >= now
      BY <1>9, RunEffect DEF GoesOn, IsOver
    <3>2. job' \in [Jobs -> JobRow]
      BY TypeStep, Rows DEF TypeOK, JobRow
    <3>3. k \in Minutes => SlotDue(k)'
      <4>1. k \in Minutes => k <= now /\ k \in Nat /\ now \in Nat /\ job'[k].runAfter \in Nat
        BY <1>s, <1>t, <3>1, <3>2 DEF SlotDue, JobRow
      <4> QED BY <1>s, <3>1, <4>1 DEF SlotDue
    <3>4. \A j \in Minutes \ {k} : SlotDue(j)'
      BY <1>s, <1>t, <3>1 DEF SlotDue
    <3> QED BY <3>3, <3>4
  <2> QED BY <1>9, <1>m, <1>n, <2>1, RunEffect DEF Slots
<1>10. ASSUME NEW o \in Operators, NEW f \in FullSyncs, InsertRecovery(o, f) PROVE Slots'
  <2>1. f \notin Minutes
    BY SyncAssumption DEF Minutes
  <2>2. \A j \in Minutes : SlotDue(j)'
    BY <1>10, <1>s, <1>t, <2>1, InsertEffect DEF SlotDue
  <2> QED BY <1>10, <1>m, <1>n, <2>2, InsertEffect DEF Slots
<1>11. CASE Pause
  <2>1. \A j \in Minutes : SlotDue(j)'
    BY <1>11, <1>s, <1>t, PauseEffect DEF SlotDue
  <2> QED BY <1>11, <1>m, <1>n, <2>1, PauseEffect DEF Slots
<1>12. CASE Flush
  <2>1. UNCHANGED <<now, mut, inv>>
    BY <1>12 DEF Flush
  <2>2. ASSUME NEW j \in Minutes PROVE SlotDue(j)'
    <3>1. job'[j] # job[j] => now >= MaxMinute /\ job'[j].runAfter = now
      BY <1>12, <1>t, FlushEffect DEF Orderly
    <3>2. job'[j].status = job[j].status /\ j <= MaxMinute
      BY <1>12, <1>t, FlushEffect
    <3> QED BY <1>s, <1>t, <2>1, <3>1, <3>2 DEF SlotDue
  <2> QED BY <1>m, <1>n, <2>1, <2>2 DEF Slots
<1>13. CASE Tick
  <2>1. /\ now' = now + 1 /\ UNCHANGED <<mut, inv, job>>
        /\ \A p \in Mutators : mut[p].step \in {"insert", "spill"} =>
              now < (mut[p].minute - 1) + EnqueueDelay
    BY <1>13 DEF Tick
  <2>2. \A p \in Mutators : MutatorEarly(p)'
    BY <1>t, <2>1 DEF Orderly, MutatorEarly
  <2>3. \A i \in Invocations : InvocationDue(i)'
    <3> TAKE i \in Invocations
    <3>1. inv[i].at <= now' /\ inv'[i] = inv[i]
      BY <1>s, <1>t, <2>1 DEF InvocationDue
    <3>2. ASSUME NEW j \in inv[i].due \cap Minutes PROVE j <= now'
      <4>1. j <= now
        BY <1>s DEF InvocationDue
      <4>2. j \in 1 .. MaxMinute /\ now \in 0 .. MaxMinute
        BY <1>t DEF Minutes
      <4> QED BY <2>1, <4>1, <4>2, Limits
    <3> QED BY <3>1, <3>2 DEF InvocationDue
  <2>4. \A j \in Minutes : SlotDue(j)'
    BY <1>s, <1>t, <2>1 DEF SlotDue
  <2> QED BY <2>2, <2>3, <2>4 DEF Slots
<1>14. ASSUME UNCHANGED <<now, mut, inv, job>> PROVE Slots'
  BY <1>14, <1>m, <1>n, <1>j DEF Slots
<1>15. ASSUME NEW o \in Operators, CheckRecovery(o) PROVE Slots'
  BY <1>14, <1>15 DEF CheckRecovery
<1>16. CASE Resume \/ UNCHANGED vars
  BY <1>14, <1>16 DEF Resume, vars
<1> QED
  BY <1>1, <1>2, <1>3, <1>4, <1>5, <1>6, <1>7, <1>8, <1>9, <1>10, <1>11, <1>12, <1>13, <1>15, <1>16
  DEF Next, Enqueue, Invocation

-----------------------------------------------------------------------------
(* No change is forgotten. *)

\* Where the latest version of a night is: given up, with the process that will queue
\* it, in a queued job, or read by every run that is sending the night and, unless the
\* channel has it, in one that has yet to send it or to report.
GivenUp(n) == <<n, truth[n]>> \in lost
Pending(n) == \E p \in Mutators : mut[p].night = n /\ mut[p].version = truth[n]
Queued(n) == \E j \in Jobs : n \in job[j].nights /\ job[j].status = "queued"
InFlight(n) == \E i \in Invocations, j \in Jobs : n \in job[j].nights /\ task[i][j].step \in Owing
FreshReads(n) == \A i \in Invocations, j \in Jobs :
  n \in job[j].nights /\ task[i][j].step = "push" => task[i][j].snap[n] = truth[n]
UpToDate(n) == FreshReads(n) /\ (remote[n] = truth[n] \/ InFlight(n))

Owed(n) == GivenUp(n) \/ Pending(n) \/ Queued(n) \/ UpToDate(n)

LEMMA OwedCovers ==
  ASSUME Inv, \A n \in Nights : Owed(n)
  PROVE  NoChangeLost
<1> SUFFICES ASSUME NEW n \in Nights, remote[n] # truth[n] PROVE Covered(n) \/ <<n, truth[n]>> \in lost
  BY DEF NoChangeLost
<1>1. CASE GivenUp(n) \/ Pending(n) \/ Queued(n)
  BY <1>1 DEF GivenUp, Pending, Queued, Covered
<1>2. CASE UpToDate(n)
  <2>1. PICK i \in Invocations, j \in Jobs : n \in job[j].nights /\ task[i][j].step \in Owing
    BY <1>2 DEF UpToDate, InFlight
  <2>2. task[i][j].step = "push" => task[i][j].snap[n] = truth[n]
    BY <1>2, <2>1 DEF UpToDate, FreshReads
  <2>3. j \in Running(i) /\ task[i][j].step \notin {"succeeded", "partial", "done"}
    BY <2>1 DEF Running, Owing
  <2> QED BY <2>1, <2>2, <2>3 DEF Covered
<1> QED BY <1>1, <1>2 DEF Owed

\* What a step leaves alone stays owed where it was.
LEMMA OwedFrame ==
  ASSUME NEW n \in Nights, Owed(n), UNCHANGED <<truth, remote, task>>, lost \subseteq lost',
         Pending(n) => Owed(n)', Queued(n) => Owed(n)',
         \A j \in Jobs : (\E i \in Invocations : task[i][j].step # "none") =>
                            job'[j].nights = job[j].nights
  PROVE  Owed(n)'
<1>1. GivenUp(n) => GivenUp(n)'
  BY DEF GivenUp
<1>2. ASSUME UpToDate(n) PROVE UpToDate(n)'
  <2>1. FreshReads(n)'
    BY <1>2 DEF UpToDate, FreshReads
  <2>2. InFlight(n) => InFlight(n)'
    BY DEF InFlight, Owing
  <2> QED BY <1>2, <2>1, <2>2 DEF UpToDate
<1> QED BY <1>1, <1>2 DEF Owed

LEMMA QueuedStays ==
  ASSUME NEW n \in Nights,
         \A j \in Jobs : job[j].status = "queued" =>
            job'[j].status = "queued" /\ job[j].nights \subseteq job'[j].nights
  PROVE  Queued(n) => Queued(n)'
BY DEF Queued

LEMMA EnqueueOwed ==
  ASSUME Orderly, Inv, Slots, NEW p \in Mutators, NEW n \in Nights, Owed(n),
         (\E m \in Nights : Change(p, m)) \/ Enqueue(p) \/ MutatorDies(p)
  PROVE  Owed(n)'
<1> USE DEF mutatorVars, schedulerVars, operatorVars
<1>t. /\ job \in [Jobs -> JobRow] /\ mut \in [Mutators -> MutRow] /\ now \in 0 .. MaxMinute
      /\ MaxMinute \in Nat /\ NoNight \notin Nights /\ mut[p].minute \in 0 .. MaxMinute
  BY Rows, Limits DEF Inv, MutRow
<1>k. MutatorKept(p)
  BY DEF Inv, Kept
<1>i. IdleMutator.night = NoNight
  BY EmptyRows
<1>1. ASSUME NEW m \in Nights, Change(p, m) PROVE Owed(n)'
  <2>1. CASE n = m
    BY <1>1, <2>1, ChangeEffect DEF Owed, Pending
  <2>2. CASE n # m
    <3>1. /\ truth'[n] = truth[n] /\ UNCHANGED <<remote, job, task, lost>>
          /\ mut[p].night # n /\ \A q \in Mutators \ {p} : mut'[q] = mut[q]
      BY <1>1, <2>2, <1>t, <1>k, ChangeEffect DEF MutatorKept
    <3>2. (GivenUp(n) => GivenUp(n)') /\ (Pending(n) => Pending(n)') /\ (Queued(n) => Queued(n)')
      BY <3>1 DEF GivenUp, Pending, Queued
    <3>3. UpToDate(n) => UpToDate(n)'
      BY <3>1 DEF UpToDate, FreshReads, InFlight
    <3> QED BY <3>2, <3>3 DEF Owed
  <2> QED BY <2>1, <2>2
<1>2. ASSUME SelectConnection(p) PROVE Owed(n)'
  <2>1. UNCHANGED <<truth, remote, job, task>> /\ lost \subseteq lost'
    BY <1>2, SelectEffect
  <2>2. Pending(n) => Owed(n)'
    <3> SUFFICES ASSUME NEW q \in Mutators, mut[q].night = n, mut[q].version = truth[n]
                 PROVE  Pending(n)' \/ GivenUp(n)'
      BY DEF Pending, Owed
    <3> QED BY <1>2, <2>1, SelectEffect DEF Pending, GivenUp
  <2>3. Queued(n) => Queued(n)'
    BY <2>1 DEF Queued
  <2> QED BY <2>1, <2>2, <2>3, OwedFrame DEF Owed
<1>3. ASSUME MutatorDies(p) PROVE Owed(n)'
  <2>1. /\ UNCHANGED <<truth, remote, job, task>> /\ mut' = [mut EXCEPT ![p] = IdleMutator]
        /\ lost' = lost \cup {<<mut[p].night, mut[p].version>>}
    BY <1>3 DEF MutatorDies
  <2>2. Pending(n) => Owed(n)'
    <3> SUFFICES ASSUME NEW q \in Mutators, mut[q].night = n, mut[q].version = truth[n]
                 PROVE  Pending(n)' \/ GivenUp(n)'
      BY DEF Pending, Owed
    <3> QED BY <1>t, <2>1 DEF Pending, GivenUp
  <2>3. Queued(n) => Queued(n)'
    BY <2>1 DEF Queued
  <2> QED BY <2>1, <2>2, <2>3, OwedFrame DEF Owed
<1>4. ASSUME UpsertSlot(p) PROVE Owed(n)'
  <2>1. /\ Slot(p) \in Minutes /\ mut[p].night \in Nights /\ UNCHANGED <<truth, remote, task, lost>>
        /\ mut[p].step \in {"insert", "spill"}
        /\ \A q \in Mutators \ {p} : mut'[q] = mut[q]
    BY <1>4, UpsertEffect
  <2>2. ASSUME NEW s \in Minutes, NEW m \in Nights, s = Slot(p), m = mut[p].night,
               job[s].status \in {"none", "queued"}, job' = QueueRow(s, m)
        PROVE  Owed(n)'
    <3>1. s \in Jobs
      BY DEF Jobs
    <3>2. /\ \A j \in Jobs \ {s} : job'[j] = job[j]
          /\ m \in job'[s].nights /\ job'[s].status = "queued"
          /\ job[s].status = "queued" => job[s].nights \subseteq job'[s].nights
      BY <1>t, <2>2, RowQueued
    <3>3. Queued(n) => Queued(n)'
      BY <3>1, <3>2, QueuedStays
    <3>4. Pending(n) => Owed(n)'
      <4> SUFFICES ASSUME NEW q \in Mutators, mut[q].night = n, mut[q].version = truth[n]
                   PROVE  Pending(n)' \/ Queued(n)'
        BY DEF Pending, Owed
      <4>1. CASE q = p
        BY <2>2, <3>1, <3>2, <4>1 DEF Queued
      <4>2. CASE q # p
        BY <2>1, <4>2 DEF Pending
      <4> QED BY <4>1, <4>2
    <3>5. \A j \in Jobs : (\E i \in Invocations : task[i][j].step # "none") => j # s
      BY <2>2 DEF Inv, DisjointClaims, Running
    <3> QED BY <2>1, <3>2, <3>3, <3>4, <3>5, OwedFrame DEF Owed
  <2>3. ASSUME job[Slot(p)].status \notin {"none", "queued"} PROVE mut[p].step = "insert"
    <3>1. /\ Slot(p) \in 1 .. MaxMinute /\ job[Slot(p)].status \in JobStatuses
          /\ SlotDue(Slot(p)) /\ MutatorEarly(p)
      BY <1>t, <2>1 DEF Slots, Minutes, Jobs, JobRow
    <3>2. Slot(p) <= now /\ now <= mut[p].minute
      BY <2>1, <2>3, <3>1 DEF SlotDue, MutatorEarly, JobStatuses
    <3> QED BY <1>t, <2>1, <3>1, <3>2 DEF Slot
  <2>4. CASE job' = job /\ mut'[p].night = mut[p].night /\ mut'[p].version = mut[p].version
    <3>1. (Pending(n) => Pending(n)') /\ (Queued(n) => Queued(n)')
      BY <2>1, <2>4 DEF Pending, Queued
    <3> QED BY <2>1, <2>4, <3>1, OwedFrame DEF Owed
  <2> QED BY <1>4, <2>1, <2>2, <2>3, <2>4, UpsertEffect
<1> QED BY <1>1, <1>2, <1>3, <1>4 DEF Enqueue

LEMMA LockOwed ==
  ASSUME Orderly, Inv, NEW i \in Invocations, NEW n \in Nights, Owed(n), LockCandidates(i)
  PROVE  Owed(n)'
<1>1. /\ UNCHANGED <<truth, remote, mut, lost>> /\ StillQueued(i) \subseteq Jobs
      /\ \A j \in StillQueued(i) : /\ job[j].status = "queued" /\ job'[j].nights = job[j].nights
                                   /\ task'[i][j].step = "start"
      /\ \A j \in Jobs \ StillQueued(i) : job'[j] = job[j] /\ task'[i][j] = task[i][j]
  BY LockEffect
<1>2. \A j \in Jobs : job'[j].nights = job[j].nights
  BY <1>1
\* The invocation that claims is the only one and has read nothing yet.
<1>3. \A k \in Invocations, j \in Jobs : k = i /\ task[k][j].step \in {"none", "start"}
  <2>1. inv[i].step = "lock" /\ InvocationKept(i) /\ \A k \in Invocations : k = i
    BY LockEffect DEF Orderly, Inv, Kept
  <2> QED BY <2>1 DEF InvocationKept
<1>4. FreshReads(n)'
  <2>1. \A j \in Jobs : task'[i][j].step # "push"
    BY <1>1, <1>3
  <2> QED BY <1>3, <2>1 DEF FreshReads
<1>5. CASE GivenUp(n)
  BY <1>1, <1>5 DEF GivenUp, Owed
<1>6. CASE Pending(n)
  BY <1>1, <1>6 DEF Pending, Owed
<1>7. CASE Queued(n)
  <2>1. PICK j \in Jobs : n \in job[j].nights /\ job[j].status = "queued"
    BY <1>7 DEF Queued
  <2>2. CASE j \in StillQueued(i)
    BY <1>1, <1>4, <2>1, <2>2 DEF InFlight, Owing, UpToDate, Owed
  <2>3. CASE j \notin StillQueued(i)
    BY <1>1, <2>1, <2>3 DEF Queued, Owed
  <2> QED BY <2>2, <2>3
<1>8. CASE UpToDate(n)
  <2>1. InFlight(n) => InFlight(n)'
    <3> SUFFICES ASSUME NEW k \in Invocations, NEW j \in Jobs, n \in job[j].nights,
                        task[k][j].step \in Owing
                 PROVE  InFlight(n)'
      BY DEF InFlight
    <3>1. k = i /\ task'[k][j].step \in Owing
      BY <1>1, <1>3 DEF Owing
    <3> QED BY <1>2, <3>1 DEF InFlight
  <2> QED BY <1>1, <1>4, <1>8, <2>1 DEF UpToDate, Owed
<1> QED BY <1>5, <1>6, <1>7, <1>8 DEF Owed

LEMMA RunOwed ==
  ASSUME Inv, NEW i \in Invocations, NEW j \in Jobs, NEW n \in Nights, Owed(n),
         RunJob(i, j) \/ RateLimited(i, j)
  PROVE  Owed(n)'
<1>1. /\ task[i][j].step # "none" /\ job[j].status = "running"
      /\ \A k \in Invocations, l \in Jobs : k # i \/ l # j => task'[k][l] = task[k][l]
      /\ \A l \in Jobs \ {j} : job'[l] = job[l]
      /\ UNCHANGED <<truth, mut>> /\ lost \subseteq lost'
      /\ GoesOn(i, j) \/ IsOver(i, j)
  BY RunEffect
<1>2. \A l \in Jobs : job'[l].nights = job[l].nights
  BY <1>1 DEF GoesOn, IsOver
<1>3. CASE GivenUp(n) \/ Pending(n)
  BY <1>1, <1>3 DEF GivenUp, Pending, Owed
<1>4. CASE Queued(n)
  BY <1>1, <1>4 DEF Queued, Owed
<1>5. CASE UpToDate(n) /\ n \notin job[j].nights
  <2>1. FreshReads(n)'
    BY <1>1, <1>2, <1>5 DEF UpToDate, FreshReads
  <2>2. InFlight(n) => InFlight(n)'
    BY <1>1, <1>2, <1>5 DEF InFlight
  <2>3. remote'[n] = remote[n]
    BY <1>1, <1>5 DEF GoesOn, IsOver
  <2> QED BY <1>1, <1>5, <2>1, <2>2, <2>3 DEF UpToDate, Owed
<1>6. CASE UpToDate(n) /\ n \in job[j].nights /\ GoesOn(i, j)
  <2>1. FreshReads(n)'
    <3> SUFFICES ASSUME NEW k \in Invocations, NEW l \in Jobs, n \in job'[l].nights,
                        task'[k][l].step = "push"
                 PROVE  task'[k][l].snap[n] = truth'[n]
      BY DEF FreshReads
    <3>1. CASE k = i /\ l = j
      BY <1>1, <1>6, <3>1 DEF GoesOn
    <3>2. CASE k # i \/ l # j
      BY <1>1, <1>2, <1>6, <3>2 DEF UpToDate, FreshReads
    <3> QED BY <3>1, <3>2
  <2>2. remote[n] = truth[n] => remote'[n] = truth[n]
    BY <1>6 DEF UpToDate, FreshReads, GoesOn
  <2>3. InFlight(n) => InFlight(n)' \/ GivenUp(n)' \/ remote'[n] = truth[n]
    <3> SUFFICES ASSUME NEW k \in Invocations, NEW l \in Jobs, n \in job[l].nights,
                        task[k][l].step \in Owing
                 PROVE  InFlight(n)' \/ GivenUp(n)' \/ remote'[n] = truth[n]
      BY DEF InFlight
    <3>1. CASE k = i /\ l = j
      BY <1>1, <1>2, <1>6, <3>1 DEF GoesOn, InFlight, GivenUp, UpToDate, FreshReads
    <3>2. CASE k # i \/ l # j
      BY <1>1, <1>2, <3>2 DEF InFlight
    <3> QED BY <3>1, <3>2
  <2> QED BY <1>1, <1>6, <2>1, <2>2, <2>3 DEF UpToDate, Owed
<1>7. CASE UpToDate(n) /\ n \in job[j].nights /\ IsOver(i, j)
  <2>1. CASE job'[j].status = "succeeded" /\ task[i][j].step \notin Owing
    <3>1. FreshReads(n)'
      BY <1>1, <1>2, <1>7 DEF UpToDate, FreshReads, IsOver
    <3>2. InFlight(n) => InFlight(n)'
      BY <1>1, <1>2, <2>1 DEF InFlight
    <3> QED BY <1>1, <1>7, <3>1, <3>2 DEF UpToDate, Owed, IsOver
  <2>2. CASE job'[j].status = "failed" /\ \A m \in job[j].nights : <<m, truth[m]>> \in lost'
    BY <1>1, <1>7, <2>2 DEF GivenUp, Owed
  <2>3. CASE job'[j].status = "queued"
    BY <1>2, <1>7, <2>3 DEF Queued, Owed
  <2> QED BY <1>7, <2>1, <2>2, <2>3 DEF IsOver
<1> QED BY <1>1, <1>3, <1>4, <1>5, <1>6, <1>7 DEF Owed

LEMMA OtherOwed ==
  ASSUME Inv, [Next]_vars, NEW n \in Nights, Owed(n),
         ~\E p \in Mutators : (\E m \in Nights : Change(p, m)) \/ Enqueue(p) \/ MutatorDies(p),
         ~\E i \in Invocations : LockCandidates(i),
         ~\E i \in Invocations, j \in Jobs : RunJob(i, j) \/ RateLimited(i, j)
  PROVE  Owed(n)'
<1> USE DEF mutatorVars, schedulerVars, operatorVars
<1>1. ASSUME UNCHANGED <<truth, remote, job, mut, task, lost>> PROVE Owed(n)'
  BY <1>1 DEF Owed, GivenUp, Pending, Queued, UpToDate, FreshReads, InFlight
<1>2. ASSUME NEW i \in Invocations, StartInvocation(i) \/ ReadCandidates(i) \/ EndInvocation(i)
      PROVE  Owed(n)'
  BY <1>1, <1>2 DEF StartInvocation, ReadCandidates, EndInvocation
<1>3. ASSUME NEW i \in Invocations, InvocationDies(i) PROVE Owed(n)'
  <2>1. /\ \A j \in Jobs : task'[i][j].step = "none"
        /\ \A k \in Invocations \ {i} : task'[k] = task[k]
        /\ \A j \in Jobs : task[i][j].step # "none" =>
               \A m \in job[j].nights : <<m, truth[m]>> \in lost'
        /\ lost \subseteq lost' /\ UNCHANGED <<truth, remote, job, mut>>
    BY <1>3, DeathEffect, EmptyRows
  <2>2. CASE GivenUp(n) \/ Pending(n) \/ Queued(n)
    BY <2>1, <2>2 DEF GivenUp, Pending, Queued, Owed
  <2>3. CASE UpToDate(n)
    <3>1. FreshReads(n)'
      BY <2>1, <2>3 DEF UpToDate, FreshReads
    <3>2. InFlight(n) => InFlight(n)' \/ GivenUp(n)'
      BY <2>1 DEF InFlight, GivenUp, Owing
    <3> QED BY <2>1, <2>3, <3>1, <3>2 DEF UpToDate, Owed
  <2> QED BY <2>2, <2>3 DEF Owed
<1>4. ASSUME NEW o \in Operators, CheckRecovery(o) PROVE Owed(n)'
  BY <1>1, <1>4 DEF CheckRecovery
<1>5. ASSUME NEW o \in Operators, NEW f \in FullSyncs, InsertRecovery(o, f) PROVE Owed(n)'
  <2>1. /\ f \in Jobs /\ UNCHANGED <<truth, remote, mut, task, lost>> /\ job[f].status = "none"
        /\ \A j \in Jobs \ {f} : job'[j] = job[j]
    BY <1>5, InsertEffect DEF Jobs
  <2>2. Queued(n) => Queued(n)'
    BY <2>1 DEF Queued
  <2>3. \A j \in Jobs : (\E i \in Invocations : task[i][j].step # "none") => j # f
    BY <2>1 DEF Inv, DisjointClaims, Running
  <2>4. Pending(n) => Pending(n)'
    BY <2>1 DEF Pending
  <2> QED BY <2>1, <2>2, <2>3, <2>4, OwedFrame DEF Owed
<1>6. CASE Pause
  <2>1. /\ \A j \in Dropped : /\ job[j].status = "queued" /\ job'[j].status = "none"
                              /\ \A m \in job[j].nights : <<m, truth[m]>> \in lost'
        /\ \A j \in Jobs \ Dropped : job'[j] = job[j]
        /\ lost \subseteq lost' /\ UNCHANGED <<truth, remote, mut, task>>
    BY <1>6, PauseEffect
  <2>2. Queued(n) => Queued(n)' \/ GivenUp(n)'
    BY <2>1 DEF Queued, GivenUp
  <2>3. \A j \in Jobs : (\E i \in Invocations : task[i][j].step # "none") => j \notin Dropped
    BY <2>1 DEF Inv, DisjointClaims, Running
  <2>4. Pending(n) => Pending(n)'
    BY <2>1 DEF Pending
  <2> QED BY <2>1, <2>2, <2>3, <2>4, OwedFrame DEF Owed
<1>7. CASE Flush
  <2>1. UNCHANGED <<truth, remote, mut, task, lost>>
    BY <1>7 DEF Flush
  <2>2. \A j \in Jobs : job'[j].status = job[j].status /\ job'[j].nights = job[j].nights
    BY <1>7, FlushEffect
  <2>3. (Queued(n) => Queued(n)') /\ (Pending(n) => Pending(n)')
    BY <2>1, <2>2 DEF Queued, Pending
  <2> QED BY <2>1, <2>2, <2>3, OwedFrame DEF Owed
<1>8. CASE Resume \/ Tick \/ UNCHANGED vars
  BY <1>1, <1>8 DEF Resume, Tick, vars
<1> QED BY <1>2, <1>3, <1>4, <1>5, <1>6, <1>7, <1>8 DEF Next, Invocation

\* With orderly invocations, the slots and the owed changes are part of the invariant.
Coalesced == Inv /\ Slots /\ \A n \in Nights : Owed(n)

LEMMA OrderlyStart == ASSUME Orderly, Init PROVE Coalesced
<1>1. Inv
  BY Start
<1>2. Slots
  BY DEF Init, Slots, MutatorEarly, InvocationDue, SlotDue, IdleMutator, IdleInvocation, Jobs
<1>3. \A n \in Nights : Owed(n)
  BY DEF Init, Owed, UpToDate, FreshReads, NoTask
<1> QED BY <1>1, <1>2, <1>3 DEF Coalesced

LEMMA OrderlyStep == ASSUME Orderly, Coalesced, [Next]_vars PROVE Coalesced'
<1>1. Inv' /\ Slots'
  BY Step, SlotsStep DEF Coalesced
<1>2. ASSUME NEW n \in Nights PROVE Owed(n)'
  BY EnqueueOwed, LockOwed, RunOwed, OtherOwed DEF Coalesced
<1> QED BY <1>1, <1>2 DEF Coalesced

-----------------------------------------------------------------------------
(* The theorems. *)

\* Every variable of the synchronization keeps its type: in particular a retry never
\* takes an attempt beyond maxAttempts (failProviderSyncJob), nor a claim round beyond
\* the third (claimQueuedProviderSyncJobs).
THEOREM TypeCorrect == Spec => []TypeOK
<1>1. Inv => TypeOK
  BY DEF Inv
<1> QED BY Start, Step, <1>1, PTL DEF Spec

\* Whatever invocations of the scheduler overlap, no two run the same job and a job that
\* is run is leased: the candidates a claim has read are looked at again when it locks
\* them (FOR UPDATE SKIP LOCKED), and nothing takes a running row away.
THEOREM ClaimsAreDisjoint == Spec => []DisjointClaims
<1>1. Inv => DisjointClaims
  BY DEF Inv
<1> QED BY Start, Step, <1>1, PTL DEF Spec

\* While invocations do not overlap, changes are queued within their minute and no flush
\* comes before the last minute, no committed change of a night is forgotten: it is being
\* enqueued, queued, being sent, shown by the channel, or recorded as given up
\* (enqueueProviderIncrementalAriChange against claimQueuedProviderSyncJobs).
THEOREM ChangesAreKept == ASSUME Orderly PROVE Spec => []NoChangeLost
<1>1. Init => Coalesced
  BY OrderlyStart
<1>2. Coalesced /\ [Next]_vars => Coalesced'
  BY OrderlyStep
<1>3. Coalesced => NoChangeLost
  BY OwedCovers DEF Coalesced
<1> QED BY <1>1, <1>2, <1>3, PTL DEF Spec

\* The minute a change names, or the next one, is open when it is queued: under the same
\* conditions the upsert never falls off the end of its two tries (the loop of
\* enqueueProviderIncrementalAriChange), in particular without recording it.
SpillFindsRoom == [][\A p \in Mutators :
  UpsertSlot(p) /\ mut[p].step = "spill" =>
    \E j \in Jobs : mut[p].night \in job'[j].nights /\ job'[j].status = "queued"]_vars

\* SpillFindsRoom holds: a slot is only run once its minute has come, and the second slot
\* a change tries is of a later minute than the present one.
THEOREM TwoSlotsAreEnough == ASSUME Orderly PROVE Spec => SpillFindsRoom
<1>1. ASSUME Coalesced, NEW p \in Mutators, UpsertSlot(p), mut[p].step = "spill"
      PROVE  \E j \in Jobs : mut[p].night \in job'[j].nights /\ job'[j].status = "queued"
  <2>1. /\ job \in [Jobs -> JobRow] /\ now \in 0 .. MaxMinute /\ MaxMinute \in Nat
        /\ mut[p].minute \in 0 .. MaxMinute
    <3>1. Inv
      BY <1>1 DEF Coalesced
    <3> QED BY <3>1, Rows, Limits DEF Inv, MutRow
  <2>2. Slot(p) \in Minutes /\ mut[p].night \in Nights /\ Slot(p) \in Jobs
    BY <1>1, UpsertEffect DEF Coalesced, Jobs
  <2>3. job[Slot(p)].status \in {"none", "queued"}
    <3>1. SlotDue(Slot(p)) /\ MutatorEarly(p) /\ job[Slot(p)].status \in JobStatuses
      BY <1>1, <2>1, <2>2 DEF Coalesced, Slots, JobRow
    <3>2. Slot(p) > now
      BY <1>1, <2>1, <3>1 DEF MutatorEarly, Slot
    <3>3. Slot(p) \in 1 .. MaxMinute
      BY <2>2 DEF Minutes
    <3> QED BY <2>1, <3>1, <3>2, <3>3 DEF SlotDue, JobStatuses
  <2>4. job' = QueueRow(Slot(p), mut[p].night)
    BY <1>1, <2>3, UpsertEffect DEF Coalesced
  <2>5. PICK s \in Minutes : s = Slot(p)
    BY <2>2
  <2>6. mut[p].night \in job'[s].nights /\ job'[s].status = "queued"
    BY <2>1, <2>2, <2>3, <2>4, <2>5, RowQueued
  <2> QED BY <2>2, <2>5, <2>6
<1>2. Coalesced /\ [Next]_vars => [\A p \in Mutators :
        UpsertSlot(p) /\ mut[p].step = "spill" =>
          \E j \in Jobs : mut[p].night \in job'[j].nights /\ job'[j].status = "queued"]_vars
  BY <1>1
<1> QED BY <1>2, OrderlyStart, OrderlyStep, PTL DEF Spec, SpillFindsRoom
=============================================================================
