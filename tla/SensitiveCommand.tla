--------------------------- MODULE SensitiveCommand ---------------------------
(* executeSensitiveCommand and the reservation of an idempotency key: calls     *)
(* that carry the same key, each a request of its own process, and the script   *)
(* that cleans old reservations up.                                             *)
(*                                                                              *)
(* An atomic command commits its effect, its audit row and its replay response  *)
(* in one transaction that first locks the reservation; any other command      *)
(* commits each of them on its own.  Time is abstract: a lease, or the time a    *)
(* response is kept, may run out at any moment.                                 *)
EXTENDS Integers, FiniteSets

CONSTANTS Requests,    \* the calls that carry the key
          NoRequest,   \* not a request
          Body(_),     \* the payload and the actor of a call
          RequestId(_),\* x-request-id: what the lease is recognised by
          Atomic       \* whether the command is run with atomic: true

ConstantsOK == /\ NoRequest \notin Requests
               /\ (Requests \cup {NoRequest}) \cap {"conflict", "in_progress", "denied", "failed"} = {}
               /\ Atomic \in BOOLEAN

VARIABLES row,         \* the row of CommandIdempotency for the key, or NoRow
          inserted,    \* how many rows the key has had: the id of the last one
          at,          \* per call, the statement it is about to run
          held,        \* per call, the id of the row it read or reserved
          answer,      \* per call, what its caller was told
          effects,     \* the executions committed: <<row id, call>>
          lapsed,      \* ids of the rows whose lease ran out while started
          cleaning     \* the id the cleanup has selected, or 0

vars == <<row, inserted, at, held, answer, effects, lapsed, cleaning>>

NoRow == [id |-> 0, status |-> "none", body |-> NoRequest, requestId |-> NoRequest,
          response |-> NoRequest, expired |-> FALSE]

Refusals == {"conflict", "in_progress", "denied", "failed"}
Open == {"select", "insert", "reclaim", "begin", "inside", "complete", "failing"}

Init == /\ row = NoRow
        /\ inserted = 0
        /\ at = [r \in Requests |-> "select"]
        /\ held = [r \in Requests |-> 0]
        /\ answer = [r \in Requests |-> NoRequest]
        /\ effects = {}
        /\ lapsed = {}
        /\ cleaning = 0

-----------------------------------------------------------------------------
Exists == row # NoRow
Mine(r) == Exists /\ row.id = held[r]

(* The row is locked by the transaction of an atomic command. *)
Locked == \E q \in Requests : at[q] = "inside"

Go(r, place) == at' = [at EXCEPT ![r] = place]

Finish(r, told) == /\ Go(r, "ended")
                   /\ answer' = [answer EXCEPT ![r] = told]

Started(r, id) == [id |-> id, status |-> "started", body |-> Body(r),
                   requestId |-> RequestId(r), response |-> NoRequest, expired |-> FALSE]

Succeeded(r) == [row EXCEPT !.status = "succeeded", !.response = r, !.expired = FALSE]

-----------------------------------------------------------------------------
(* The attempt is recorded and the caller is not authorised. *)
Deny(r) == /\ at[r] = "select"
           /\ Finish(r, "denied")
           /\ UNCHANGED <<row, inserted, held, effects, lapsed, cleaning>>

\* Mutant: as if a reservation could be taken over before its lease has run out.
ReclaimableEarly == row.status \in {"failed", "started"}
Reclaimable == row.status = "failed" \/ (row.status = "started" /\ row.expired)

(* reserveCommandIdempotency reads the row of the key. *)
FindNothing(r) == /\ ~Exists
                  /\ Go(r, "insert")
                  /\ UNCHANGED <<held, answer>>

FindConflict(r) == /\ Exists /\ row.body # Body(r)
                   /\ Finish(r, "conflict")
                   /\ UNCHANGED held

FindResponse(r) == /\ Exists /\ row.body = Body(r) /\ row.status = "succeeded"
                   /\ Finish(r, row.response)
                   /\ UNCHANGED held

FindInProgress(r) == /\ Exists /\ row.body = Body(r)
                     /\ row.status = "started" /\ ~row.expired
                     /\ Finish(r, "in_progress")
                     /\ UNCHANGED held

FindReclaimable(r) == /\ Exists /\ row.body = Body(r) /\ Reclaimable
                      /\ Go(r, "reclaim")
                      /\ held' = [held EXCEPT ![r] = row.id]
                      /\ UNCHANGED answer

Find(r) == /\ at[r] = "select"
           /\ \/ FindNothing(r)
              \/ FindConflict(r)
              \/ FindResponse(r)
              \/ FindInProgress(r)
              \/ FindReclaimable(r)
           /\ UNCHANGED <<row, inserted, effects, lapsed, cleaning>>

(* The conditional update that takes a failed or lapsed reservation over. *)
Reclaim(r) == /\ at[r] = "reclaim"
              /\ ~Locked
              /\ \/ /\ Mine(r) /\ Reclaimable
                    /\ row' = [Started(r, row.id) EXCEPT !.body = row.body]
                    /\ Go(r, "begin")
                    /\ UNCHANGED answer
                 \/ /\ ~(Mine(r) /\ Reclaimable)
                    /\ Finish(r, "in_progress")
                    /\ UNCHANGED row
              /\ UNCHANGED <<inserted, held, effects, lapsed, cleaning>>

(* The insert; the loser of a race for the unique key starts again. *)
Insert(r) == /\ at[r] = "insert"
             /\ \/ /\ ~Exists
                   /\ row' = Started(r, inserted + 1)
                   /\ inserted' = inserted + 1
                   /\ held' = [held EXCEPT ![r] = inserted + 1]
                   /\ Go(r, "begin")
                \/ /\ Exists
                   /\ Go(r, "select")
                   /\ UNCHANGED <<row, inserted, held>>
             /\ UNCHANGED <<answer, effects, lapsed, cleaning>>

-----------------------------------------------------------------------------
\* Mutant: as if the lock only asked that the reservation still exists.
HoldsRow(r) == Mine(r)
HoldsLease(r) == Mine(r) /\ row.status = "started" /\ row.requestId = RequestId(r)

(* Atomic: the transaction begins by locking the reservation it still holds. *)
Lock(r) == /\ Atomic /\ at[r] = "begin"
           /\ ~Locked
           /\ HoldsLease(r)
           /\ Go(r, "inside")
           /\ UNCHANGED <<row, inserted, held, answer, effects, lapsed, cleaning>>

(* idempotency_lease_changed is not followed by a mark of failure; a            *)
(* serialization error of the same statement is.                                *)
LockRefused(r) == /\ Atomic /\ at[r] = "begin"
                  /\ ~Locked
                  /\ ~HoldsLease(r)
                  /\ \/ Finish(r, "failed")
                     \/ Go(r, "failing") /\ UNCHANGED answer
                  /\ UNCHANGED <<row, inserted, held, effects, lapsed, cleaning>>

(* The effect and the response commit together; the answer of the database to   *)
(* the commit may be lost.                                                      *)
Commit(r) == /\ at[r] = "inside"
             /\ row' = Succeeded(r)
             /\ effects' = effects \cup {<<held[r], r>>}
             /\ \/ Finish(r, r)
                \/ Go(r, "failing") /\ UNCHANGED answer
             /\ UNCHANGED <<inserted, held, lapsed, cleaning>>

(* execute() throws: the transaction is rolled back. *)
Abort(r) == /\ at[r] = "inside"
            /\ Go(r, "failing")
            /\ UNCHANGED <<row, inserted, held, answer, effects, lapsed, cleaning>>

(* Not atomic: execute() commits its effect, and may throw before or after.     *)
Execute(r) == /\ ~Atomic /\ at[r] = "begin"
              /\ \/ Go(r, "complete") /\ effects' = effects \cup {<<held[r], r>>}
                 \/ Go(r, "failing") /\ effects' \in {effects, effects \cup {<<held[r], r>>}}
              /\ UNCHANGED <<row, inserted, held, answer, lapsed, cleaning>>

(* completeCommandIdempotency, by id only. *)
Complete(r) == /\ at[r] = "complete"
               /\ \/ /\ row' = IF Mine(r) THEN Succeeded(r) ELSE row
                     /\ Finish(r, r)
                  \/ /\ Go(r, "failing")
                     /\ UNCHANGED <<row, answer>>
               /\ UNCHANGED <<inserted, held, effects, lapsed, cleaning>>

(* failCommandIdempotency; an error of its own is swallowed. *)
Fail(r) == /\ at[r] = "failing"
           /\ ~Locked
           /\ \/ /\ Mine(r) /\ row.status = "started"
                 /\ Atomic => row.requestId = RequestId(r)
                 /\ row' = [row EXCEPT !.status = "failed"]
              \/ UNCHANGED row
           /\ Finish(r, "failed")
           /\ UNCHANGED <<inserted, held, effects, lapsed, cleaning>>

-----------------------------------------------------------------------------
(* The process of a call dies; a transaction it had open is rolled back. *)
Die(r) == /\ at[r] \in Open
          /\ Go(r, "dead")
          /\ UNCHANGED <<row, inserted, held, answer, effects, lapsed, cleaning>>

(* expiresAt passes. *)
Expire == /\ Exists /\ ~row.expired
          /\ row' = [row EXCEPT !.expired = TRUE]
          /\ lapsed' = IF row.status = "started" THEN lapsed \cup {row.id} ELSE lapsed
          /\ UNCHANGED <<inserted, at, held, answer, effects, cleaning>>

(* cleanupExpiredCommandIdempotency: a select, then a delete of those ids. *)
CleanupSelect == /\ cleaning = 0
                 /\ Exists /\ row.expired /\ row.status \in {"succeeded", "failed"}
                 /\ cleaning' = row.id
                 /\ UNCHANGED <<row, inserted, at, held, answer, effects, lapsed>>

CleanupDelete == /\ cleaning # 0
                 /\ ~Locked
                 /\ row' = IF row.id = cleaning THEN NoRow ELSE row
                 /\ cleaning' = 0
                 /\ UNCHANGED <<inserted, at, held, answer, effects, lapsed>>

Step(r) == \/ Deny(r) \/ Find(r) \/ Reclaim(r) \/ Insert(r)
           \/ Lock(r) \/ LockRefused(r) \/ Commit(r) \/ Abort(r)
           \/ Execute(r) \/ Complete(r) \/ Fail(r)

Next == \/ \E r \in Requests : Step(r) \/ Die(r)
        \/ Expire
        \/ CleanupSelect
        \/ CleanupDelete

Spec == Init /\ [][Next]_vars

-----------------------------------------------------------------------------
RowType == [id : 1 .. inserted, status : {"started", "succeeded", "failed"},
            body : {Body(r) : r \in Requests}, requestId : {RequestId(r) : r \in Requests},
            response : Requests \cup {NoRequest}, expired : BOOLEAN]

TypeOK == /\ inserted \in Nat
          /\ row \in RowType \cup {NoRow}
          /\ at \in [Requests -> Open \cup {"ended", "dead"}]
          /\ held \in [Requests -> 0 .. inserted]
          /\ answer \in [Requests -> Requests \cup {NoRequest} \cup Refusals]
          /\ effects \subseteq (1 .. inserted) \X Requests
          /\ lapsed \subseteq 1 .. inserted
          /\ cleaning \in 0 .. inserted

(* While a reservation lives, an atomic command takes effect at most once,      *)
(* whatever leases lapse, are reclaimed, are marked failed or die half-way.     *)
EffectOnce == \A e, f \in effects : e[1] = f[1] => e = f

(* Atomic or not: a caller that is told the response of a command is told that of *)
(* an execution that was committed, and that had its own payload and actor; and  *)
(* two calls execute the command of one reservation at the same time only after  *)
(* its lease has run out.                                                       *)
AnsweredWithEffect ==
    \A r, q \in Requests : answer[r] = q => /\ \E e \in effects : e[2] = q
                                            /\ Body(q) = Body(r)
ExclusiveUnlessLapsed ==
    \A r, q \in Requests :
        (r # q /\ held[r] = held[q] /\ {at[r], at[q]} \subseteq {"begin", "inside", "complete"})
            => held[r] \in lapsed
ReservationHolds == AnsweredWithEffect /\ ExclusiveUnlessLapsed

(* The promise: while a key is remembered one execution of it takes effect.     *)
Done == IF row.status = "succeeded" THEN row.response ELSE NoRequest
Effects == {e[2] : e \in effects}
Responses == [r \in Requests |-> IF answer[r] \in Requests THEN answer[r] ELSE NoRequest]
Promise == INSTANCE CommandOnce WITH
    done <- Done, effects <- Effects, response <- Responses
ImplementsPromise == Promise!Spec
=============================================================================
