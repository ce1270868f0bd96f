------------------------ MODULE SensitiveCommandProofs ------------------------
(* Proofs about SensitiveCommand, for every set of calls with one idempotency     *)
(* key.  The calls know the reservation by its id, and the row may be another     *)
(* one, or somebody else's, by the time they write to it.  RowInv says what the   *)
(* row still means to the calls that hold its id, LeaseInv who may be executing,  *)
(* and AtomicInv what the lock of an atomic command adds.                       *)
EXTENDS SensitiveCommand, TLAPS

\* The calls that have the reservation and have not ended.
Active == {"begin", "inside", "complete", "failing"}

\* The row is the last one inserted; a call that holds its id has its payload; a
\* response is that of a committed execution with the payload of the row; the lock of
\* the row is held by one transaction, which holds the lease.
RowInv ==
  /\ Exists => row.id = inserted
  /\ \A r \in Requests : Mine(r) => row.body = Body(r)
  /\ row.status = "succeeded" => /\ row.response \in Requests
                                 /\ \E e \in effects : e[2] = row.response
                                 /\ Body(row.response) = row.body
  /\ \A r \in Requests : at[r] = "complete" => ~Atomic /\ <<held[r], r>> \in effects
  /\ \A r \in Requests : at[r] = "inside" => Atomic /\ HoldsLease(r)
  /\ \A r, q \in Requests : at[r] = "inside" /\ at[q] = "inside" => r = q
  /\ \A r \in Requests : at[r] \in Open => answer[r] = NoRequest
  /\ \A r \in Requests : at[r] \in Active => held[r] # 0

\* A reservation whose lease has not run out is held by one call that is executing, and
\* by none once it is marked failed.
LeaseInv ==
  /\ \A r, q \in Requests :
        r # q /\ held[r] = held[q] /\ at[r] \in Active /\ at[q] \in Active => held[r] \in lapsed
  /\ \A r \in Requests :
        Mine(r) /\ at[r] \in Active /\ row.status = "failed" => row.id \in lapsed
  /\ Exists /\ row.status = "started" /\ row.expired => row.id \in lapsed

\* An execution committed under the id of the row is the one the row remembers, and the
\* calls that have committed one do not begin another.
AtomicInv ==
  /\ \A e \in effects : Exists /\ e[1] = row.id => row.status = "succeeded" /\ row.response = e[2]
  /\ \A r \in Requests : at[r] \in {"select", "insert", "reclaim", "begin", "inside"} =>
                            \A e \in effects : e[2] # r

Inv == TypeOK /\ RowInv /\ AnsweredWithEffect /\ LeaseInv /\ (Atomic => AtomicInv /\ EffectOnce)

-----------------------------------------------------------------------------
LEMMA RowShape ==
  ASSUME TypeOK
  PROVE  /\ Exists => row \in RowType
         /\ ~Exists => row.id = 0 /\ row.status = "none"
BY DEF TypeOK, Exists, NoRow

LEMMA Reserved ==
  ASSUME TypeOK, NEW r \in Requests, NEW n \in Nat, inserted' = n,
         NEW id \in 1 .. n
  PROVE  Started(r, id) \in RowType'
BY DEF Started, RowType

\* What completing the reservation does to its row.
LEMMA Completed ==
  ASSUME TypeOK, NEW r \in Requests, Exists, row' = Succeeded(r)
  PROVE  /\ row \in RowType
         /\ row' \in [id : {row.id}, status : {"succeeded"}, body : {row.body},
                       requestId : {row.requestId}, response : {r}, expired : {FALSE}]
         /\ Exists'
<1>1. row \in RowType
  BY RowShape
<1>2. row' \in [id : {row.id}, status : {"succeeded"}, body : {row.body},
                requestId : {row.requestId}, response : {r}, expired : {FALSE}]
  BY <1>1 DEF RowType, Succeeded
<1>3. row.id # 0
  BY <1>1 DEF RowType, TypeOK
<1>4. row'.id = row.id
  BY <1>2
<1>5. row' # NoRow
  BY <1>3, <1>4 DEF NoRow
<1> QED BY <1>1, <1>2, <1>5 DEF Exists

LEMMA TypeInit == ASSUME ConstantsOK, Init PROVE TypeOK
BY DEF Init, TypeOK, Open

LEMMA TypeStep == ASSUME ConstantsOK, TypeOK, RowInv, [Next]_vars PROVE TypeOK'
<1> USE DEF TypeOK, Open
<1>1. ASSUME NEW r \in Requests, Deny(r) PROVE TypeOK'
  BY <1>1, RowShape DEF Deny, Go, Finish, RowType, Refusals, Started, Succeeded, Mine, Exists
<1>2. ASSUME NEW r \in Requests, Find(r) PROVE TypeOK'
  BY <1>2, RowShape DEF Find, FindNothing, FindConflict, FindResponse, FindInProgress, FindReclaimable, Go, Finish, RowType, Refusals, Started, Succeeded, Mine, Exists
<1>3. ASSUME NEW r \in Requests, Reclaim(r) PROVE TypeOK'
  <2>1. CASE Mine(r) /\ Reclaimable
    <3>1. row \in RowType /\ row' = [Started(r, row.id) EXCEPT !.body = row.body]
      BY <1>3, <2>1, RowShape DEF Reclaim, Mine
    <3>2. row' \in RowType'
      BY <1>3, <3>1 DEF RowType, Started, Reclaim
    <3> QED BY <1>3, <2>1, <3>2 DEF Reclaim, Go, Finish
  <2>2. CASE ~(Mine(r) /\ Reclaimable)
    BY <1>3, <2>2 DEF Reclaim, Go, Finish, RowType, Refusals
  <2> QED BY <2>1, <2>2
<1>4. ASSUME NEW r \in Requests, Insert(r) PROVE TypeOK'
  <2>1. CASE ~Exists
    <3>1. row' \in RowType'
      BY <1>4, <2>1, Reserved DEF Insert
    <3> QED BY <1>4, <2>1, <3>1 DEF Insert, Go
  <2>2. CASE Exists
    BY <1>4, <2>2 DEF Insert, Go, RowType
  <2> QED BY <2>1, <2>2
<1>5. ASSUME NEW r \in Requests, Lock(r) PROVE TypeOK'
  BY <1>5, RowShape DEF Lock, Go, Finish, RowType, Refusals, Started, Succeeded, Mine, Exists
<1>6. ASSUME NEW r \in Requests, LockRefused(r) PROVE TypeOK'
  BY <1>6, RowShape DEF LockRefused, Go, Finish, RowType, Refusals, Started, Succeeded, Mine, Exists
<1>7. ASSUME NEW r \in Requests, Commit(r) PROVE TypeOK'
  <2>1. at[r] = "inside" /\ held[r] \in 1 .. inserted /\ Exists
    BY <1>7 DEF Commit, RowInv, Active, HoldsLease, Mine
  <2>2. row' \in RowType'
    BY <1>7, <2>1, Completed DEF Commit, RowType
  <2> QED BY <1>7, <2>1, <2>2 DEF Commit, Go, Finish
<1>8. ASSUME NEW r \in Requests, Abort(r) PROVE TypeOK'
  BY <1>8, RowShape DEF Abort, Go, Finish, RowType, Refusals, Started, Succeeded, Mine, Exists
<1>9. ASSUME NEW r \in Requests, Execute(r) PROVE TypeOK'
  <2>1. held[r] \in 1 .. inserted
    BY <1>9 DEF Execute, RowInv, Active
  <2> QED BY <1>9, <2>1 DEF Execute, Go, RowType
<1>10. ASSUME NEW r \in Requests, Complete(r) PROVE TypeOK'
  <2>1. row' \in RowType' \cup {NoRow}
    <3>1. CASE row' = row
      BY <1>10, <3>1 DEF Complete, RowType
    <3>2. CASE Exists /\ row' = Succeeded(r)
      BY <1>10, <3>2, Completed DEF Complete, RowType
    <3> QED BY <1>10, <3>1, <3>2 DEF Complete, Mine
  <2> QED BY <1>10, <2>1 DEF Complete, Go, Finish
<1>11. ASSUME NEW r \in Requests, Fail(r) PROVE TypeOK'
  BY <1>11, RowShape DEF Fail, Go, Finish, RowType, Refusals, Started, Succeeded, Mine, Exists
<1>12. ASSUME NEW r \in Requests, Die(r) PROVE TypeOK'
  BY <1>12, RowShape DEF Die, Go, Finish, RowType, Refusals, Started, Succeeded, Mine, Exists
<1>13. ASSUME Expire PROVE TypeOK'
  BY <1>13, RowShape DEF Expire, RowType
<1>14. ASSUME CleanupSelect PROVE TypeOK'
  BY <1>14, RowShape DEF CleanupSelect, RowType
<1>15. ASSUME CleanupDelete PROVE TypeOK'
  BY <1>15 DEF CleanupDelete, RowType
<1>16. ASSUME UNCHANGED vars PROVE TypeOK'
  BY <1>16 DEF vars, RowType
<1> QED BY <1>1, <1>2, <1>3, <1>4, <1>5, <1>6, <1>7, <1>8, <1>9, <1>10, <1>11, <1>12, <1>13, <1>14, <1>15, <1>16 DEF Next, Step

LEMMA RowStep == ASSUME ConstantsOK, TypeOK, TypeOK', RowInv, [Next]_vars PROVE RowInv'
<1> USE DEF TypeOK, Open, Active, Exists, Mine, RowInv, HoldsLease
<1>1. ASSUME NEW r \in Requests, Deny(r) PROVE RowInv'
  BY <1>1, RowShape DEF Deny, Go, Finish, RowType
<1>2. ASSUME NEW r \in Requests, Find(r) PROVE RowInv'
  BY <1>2, RowShape DEF Find, FindNothing, FindConflict, FindResponse, FindInProgress, FindReclaimable, Go, Finish, Reclaimable, RowType
<1>3. ASSUME NEW r \in Requests, Reclaim(r) PROVE RowInv'
  BY <1>3, RowShape DEF Reclaim, Go, Finish, Started, Reclaimable, Locked, RowType
<1>4. ASSUME NEW r \in Requests, Insert(r) PROVE RowInv'
  BY <1>4, RowShape DEF Insert, Go, Finish, Started, RowType
<1>5. ASSUME NEW r \in Requests, Lock(r) PROVE RowInv'
  BY <1>5, RowShape DEF Lock, Go, Finish, Locked, RowType
<1>6. ASSUME NEW r \in Requests, LockRefused(r) PROVE RowInv'
  BY <1>6, RowShape DEF LockRefused, Go, Finish, RowType
<1>7. ASSUME NEW r \in Requests, Commit(r) PROVE RowInv'
  <2>1. Exists /\ Mine(r) /\ row' = Succeeded(r) /\ at[r] = "inside" /\ row.body = Body(r)
    BY <1>7 DEF Commit
  <2>2. /\ row'.id = row.id /\ row'.status = "succeeded" /\ row'.body = row.body
        /\ row'.response = r /\ Exists'
    BY <2>1, Completed
  <2>3. <<held[r], r>> \in effects'
    BY <1>7 DEF Commit
  <2>4. (\E e \in effects' : e[2] = r)
    BY <2>3
  <2> QED BY <1>7, <2>1, <2>2, <2>4 DEF Commit, Go, Finish
<1>8. ASSUME NEW r \in Requests, Abort(r) PROVE RowInv'
  BY <1>8, RowShape DEF Abort, Go, Finish, RowType
<1>9. ASSUME NEW r \in Requests, Execute(r) PROVE RowInv'
  BY <1>9, RowShape DEF Execute, Go, Finish, RowType
<1>10. ASSUME NEW r \in Requests, Complete(r) PROVE RowInv'
  <2>1. CASE row' = row
    BY <1>10, <2>1 DEF Complete, Go, Finish
  <2>2. CASE Mine(r) /\ row' = Succeeded(r)
    <3>1. /\ row'.id = row.id /\ row'.status = "succeeded" /\ row'.body = row.body
          /\ row'.response = r /\ Exists'
      BY <2>2, Completed
    <3>2. at[r] = "complete" /\ <<held[r], r>> \in effects /\ ~Atomic
      BY <1>10 DEF Complete
    <3>3. (\E e \in effects : e[2] = r)
      BY <3>2
    <3> QED BY <1>10, <2>2, <3>1, <3>2, <3>3 DEF Complete, Go, Finish
  <2> QED BY <1>10, <2>1, <2>2 DEF Complete
<1>11. ASSUME NEW r \in Requests, Fail(r) PROVE RowInv'
  BY <1>11, RowShape DEF Fail, Go, Finish, Locked, RowType
<1>12. ASSUME NEW r \in Requests, Die(r) PROVE RowInv'
  BY <1>12, RowShape DEF Die, Go, Finish, RowType
<1>13. ASSUME Expire PROVE RowInv'
  <2>1. /\ row \in RowType /\ Exists'
        /\ row' \in [id : {row.id}, status : {row.status}, body : {row.body},
                      requestId : {row.requestId}, response : {row.response}, expired : {TRUE}]
    <3>1. row \in RowType /\ row' = [row EXCEPT !.expired = TRUE]
      BY <1>13, RowShape DEF Expire
    <3> QED BY <3>1 DEF RowType, NoRow
  <2> QED BY <1>13, <2>1 DEF Expire
<1>14. ASSUME CleanupSelect PROVE RowInv'
  BY <1>14 DEF CleanupSelect
<1>15. ASSUME CleanupDelete PROVE RowInv'
  BY <1>15, RowShape DEF CleanupDelete, Locked, NoRow
<1>16. ASSUME UNCHANGED vars PROVE RowInv'
  BY <1>16 DEF vars
<1> QED BY <1>1, <1>2, <1>3, <1>4, <1>5, <1>6, <1>7, <1>8, <1>9, <1>10, <1>11, <1>12, <1>13, <1>14, <1>15, <1>16 DEF Next, Step

LEMMA AnswerStep == ASSUME ConstantsOK, TypeOK, RowInv, AnsweredWithEffect, [Next]_vars PROVE AnsweredWithEffect'
<1> USE DEF TypeOK, Open, Exists, Mine, RowInv, AnsweredWithEffect, Refusals, ConstantsOK, HoldsLease
<1>1. ASSUME NEW r \in Requests, Deny(r) PROVE AnsweredWithEffect'
  BY <1>1, RowShape DEF Deny, Go, Finish, RowType
<1>2. ASSUME NEW r \in Requests, Find(r) PROVE AnsweredWithEffect'
  BY <1>2, RowShape DEF Find, FindNothing, FindConflict, FindResponse, FindInProgress, FindReclaimable, Go, Finish, Reclaimable, RowType
<1>3. ASSUME NEW r \in Requests, Reclaim(r) PROVE AnsweredWithEffect'
  BY <1>3, RowShape DEF Reclaim, Go, Finish, Started, Reclaimable, Locked, RowType
<1>4. ASSUME NEW r \in Requests, Insert(r) PROVE AnsweredWithEffect'
  BY <1>4, RowShape DEF Insert, Go, Finish, Started, RowType
<1>5. ASSUME NEW r \in Requests, Lock(r) PROVE AnsweredWithEffect'
  BY <1>5, RowShape DEF Lock, Go, Finish, Locked, RowType
<1>6. ASSUME NEW r \in Requests, LockRefused(r) PROVE AnsweredWithEffect'
  BY <1>6, RowShape DEF LockRefused, Go, Finish, RowType
<1>7. ASSUME NEW r \in Requests, Commit(r) PROVE AnsweredWithEffect'
  <2>1. <<held[r], r>> \in effects' /\ effects \subseteq effects'
    BY <1>7 DEF Commit
  <2>2. \E e \in effects' : e[2] = r
    BY <2>1
  <2> QED BY <1>7, <2>1, <2>2 DEF Commit, Go, Finish
<1>8. ASSUME NEW r \in Requests, Abort(r) PROVE AnsweredWithEffect'
  BY <1>8, RowShape DEF Abort, Go, Finish, RowType
<1>9. ASSUME NEW r \in Requests, Execute(r) PROVE AnsweredWithEffect'
  BY <1>9, RowShape DEF Execute, Go, Finish, RowType
<1>10. ASSUME NEW r \in Requests, Complete(r) PROVE AnsweredWithEffect'
  <2>1. <<held[r], r>> \in effects
    BY <1>10 DEF Complete
  <2>2. \E e \in effects : e[2] = r
    BY <2>1
  <2> QED BY <1>10, <2>2 DEF Complete, Go, Finish
<1>11. ASSUME NEW r \in Requests, Fail(r) PROVE AnsweredWithEffect'
  BY <1>11, RowShape DEF Fail, Go, Finish, Locked, RowType
<1>12. ASSUME NEW r \in Requests, Die(r) PROVE AnsweredWithEffect'
  BY <1>12, RowShape DEF Die, Go, Finish, RowType
<1>13. ASSUME Expire PROVE AnsweredWithEffect'
  BY <1>13, RowShape DEF Expire, RowType
<1>14. ASSUME CleanupSelect PROVE AnsweredWithEffect'
  BY <1>14 DEF CleanupSelect
<1>15. ASSUME CleanupDelete PROVE AnsweredWithEffect'
  BY <1>15, RowShape DEF CleanupDelete, Locked, NoRow
<1>16. ASSUME UNCHANGED vars PROVE AnsweredWithEffect'
  BY <1>16 DEF vars
<1> QED BY <1>1, <1>2, <1>3, <1>4, <1>5, <1>6, <1>7, <1>8, <1>9, <1>10, <1>11, <1>12, <1>13, <1>14, <1>15, <1>16 DEF Next, Step

LEMMA LeaseStep == ASSUME ConstantsOK, TypeOK, RowInv, LeaseInv, [Next]_vars PROVE LeaseInv'
<1> USE DEF TypeOK, Open, Exists, Mine, RowInv, LeaseInv, Active, HoldsLease
<1>1. ASSUME NEW r \in Requests, Deny(r) PROVE LeaseInv'
  BY <1>1, RowShape DEF Deny, Go, Finish, RowType
<1>2. ASSUME NEW r \in Requests, Find(r) PROVE LeaseInv'
  BY <1>2, RowShape DEF Find, FindNothing, FindConflict, FindResponse, FindInProgress, FindReclaimable, Go, Finish, Reclaimable, RowType
<1>3. ASSUME NEW r \in Requests, Reclaim(r) PROVE LeaseInv'
  BY <1>3, RowShape DEF Reclaim, Go, Finish, Started, Reclaimable, Locked, RowType
<1>4. ASSUME NEW r \in Requests, Insert(r) PROVE LeaseInv'
  BY <1>4, RowShape DEF Insert, Go, Finish, Started, RowType
<1>5. ASSUME NEW r \in Requests, Lock(r) PROVE LeaseInv'
  BY <1>5, RowShape DEF Lock, Go, Finish, Locked, RowType
<1>6. ASSUME NEW r \in Requests, LockRefused(r) PROVE LeaseInv'
  BY <1>6, RowShape DEF LockRefused, Go, Finish, RowType
<1>7. ASSUME NEW r \in Requests, Commit(r) PROVE LeaseInv'
  BY <1>7, RowShape DEF Commit, Go, Finish, Succeeded, RowType
<1>8. ASSUME NEW r \in Requests, Abort(r) PROVE LeaseInv'
  BY <1>8, RowShape DEF Abort, Go, Finish, RowType
<1>9. ASSUME NEW r \in Requests, Execute(r) PROVE LeaseInv'
  BY <1>9, RowShape DEF Execute, Go, Finish, RowType
<1>10. ASSUME NEW r \in Requests, Complete(r) PROVE LeaseInv'
  <2>1. CASE row' = row
    BY <1>10, <2>1 DEF Complete, Go, Finish
  <2>2. CASE Mine(r) /\ row' = Succeeded(r)
    <3>1. /\ row'.id = row.id /\ row'.status = "succeeded" /\ row'.body = row.body
          /\ row'.response = r /\ Exists'
      BY <2>2, Completed
    <3> QED BY <1>10, <2>2, <3>1 DEF Complete, Go, Finish
  <2> QED BY <1>10, <2>1, <2>2 DEF Complete
<1>11. ASSUME NEW r \in Requests, Fail(r) PROVE LeaseInv'
  BY <1>11, RowShape DEF Fail, Go, Finish, Locked, RowType
<1>12. ASSUME NEW r \in Requests, Die(r) PROVE LeaseInv'
  BY <1>12, RowShape DEF Die, Go, Finish, RowType
<1>13. ASSUME Expire PROVE LeaseInv'
  BY <1>13, RowShape DEF Expire, RowType
<1>14. ASSUME CleanupSelect PROVE LeaseInv'
  BY <1>14 DEF CleanupSelect
<1>15. ASSUME CleanupDelete PROVE LeaseInv'
  BY <1>15, RowShape DEF CleanupDelete, Locked, NoRow
<1>16. ASSUME UNCHANGED vars PROVE LeaseInv'
  BY <1>16 DEF vars
<1> QED BY <1>1, <1>2, <1>3, <1>4, <1>5, <1>6, <1>7, <1>8, <1>9, <1>10, <1>11, <1>12, <1>13, <1>14, <1>15, <1>16 DEF Next, Step

LEMMA AtomicStep == ASSUME ConstantsOK, TypeOK, RowInv, AtomicInv, EffectOnce, Atomic, [Next]_vars PROVE AtomicInv' /\ EffectOnce'
<1> USE DEF TypeOK, Open, Exists, Mine, RowInv, AtomicInv, EffectOnce, HoldsLease
<1>1. ASSUME NEW r \in Requests, Deny(r) PROVE AtomicInv' /\ EffectOnce'
  BY <1>1, RowShape DEF Deny, Go, Finish, RowType
<1>2. ASSUME NEW r \in Requests, Find(r) PROVE AtomicInv' /\ EffectOnce'
  BY <1>2, RowShape DEF Find, FindNothing, FindConflict, FindResponse, FindInProgress, FindReclaimable, Go, Finish, Reclaimable, RowType
<1>3. ASSUME NEW r \in Requests, Reclaim(r) PROVE AtomicInv' /\ EffectOnce'
  BY <1>3, RowShape DEF Reclaim, Go, Finish, Started, Reclaimable, Locked, RowType
<1>4. ASSUME NEW r \in Requests, Insert(r) PROVE AtomicInv' /\ EffectOnce'
  BY <1>4, RowShape DEF Insert, Go, Finish, Started, RowType
<1>5. ASSUME NEW r \in Requests, Lock(r) PROVE AtomicInv' /\ EffectOnce'
  BY <1>5, RowShape DEF Lock, Go, Finish, Locked, RowType
<1>6. ASSUME NEW r \in Requests, LockRefused(r) PROVE AtomicInv' /\ EffectOnce'
  BY <1>6, RowShape DEF LockRefused, Go, Finish, RowType
<1>7. ASSUME NEW r \in Requests, Commit(r) PROVE AtomicInv' /\ EffectOnce'
  BY <1>7, RowShape DEF Commit, Go, Finish, Succeeded, RowType
<1>8. ASSUME NEW r \in Requests, Abort(r) PROVE AtomicInv' /\ EffectOnce'
  BY <1>8, RowShape DEF Abort, Go, Finish, RowType
<1>9. ASSUME NEW r \in Requests, Execute(r) PROVE AtomicInv' /\ EffectOnce'
  BY <1>9, RowShape DEF Execute, Go, Finish, RowType
<1>10. ASSUME NEW r \in Requests, Complete(r) PROVE AtomicInv' /\ EffectOnce'
  BY <1>10, RowShape DEF Complete, Go, Finish, Succeeded, RowType
<1>11. ASSUME NEW r \in Requests, Fail(r) PROVE AtomicInv' /\ EffectOnce'
  BY <1>11, RowShape DEF Fail, Go, Finish, Locked, RowType
<1>12. ASSUME NEW r \in Requests, Die(r) PROVE AtomicInv' /\ EffectOnce'
  BY <1>12, RowShape DEF Die, Go, Finish, RowType
<1>13. ASSUME Expire PROVE AtomicInv' /\ EffectOnce'
  BY <1>13, RowShape DEF Expire, RowType
<1>14. ASSUME CleanupSelect PROVE AtomicInv' /\ EffectOnce'
  BY <1>14 DEF CleanupSelect
<1>15. ASSUME CleanupDelete PROVE AtomicInv' /\ EffectOnce'
  BY <1>15, RowShape DEF CleanupDelete, Locked, NoRow
<1>16. ASSUME UNCHANGED vars PROVE AtomicInv' /\ EffectOnce'
  BY <1>16 DEF vars
<1> QED BY <1>1, <1>2, <1>3, <1>4, <1>5, <1>6, <1>7, <1>8, <1>9, <1>10, <1>11, <1>12, <1>13, <1>14, <1>15, <1>16 DEF Next, Step

LEMMA Start == ASSUME ConstantsOK, Init PROVE Inv
<1>1. TypeOK
  BY TypeInit
<1>2. ~Exists /\ row.status = "none"
  BY DEF Init, Exists, NoRow
<1> QED BY <1>1, <1>2 DEF Init, Inv, RowInv, AnsweredWithEffect, LeaseInv, AtomicInv, EffectOnce,
                          Mine, HoldsLease, Active, Open, ConstantsOK

LEMMA Preserved == ASSUME ConstantsOK, Inv, [Next]_vars PROVE Inv'
BY TypeStep, RowStep, AnswerStep, LeaseStep, AtomicStep DEF Inv

LEMMA Holds == ASSUME Inv PROVE ReservationHolds
BY DEF Inv, LeaseInv, ReservationHolds, ExclusiveUnlessLapsed, Active

\* The invariant: of every call and every row, for atomic commands and others.
THEOREM CommandInvariant == ASSUME ConstantsOK PROVE Spec => []Inv
BY Start, Preserved, PTL DEF Spec

\* Every variable keeps its type.
THEOREM TypeCorrect == ASSUME ConstantsOK PROVE Spec => []TypeOK
<1>1. Inv => TypeOK
  BY DEF Inv
<1> QED BY <1>1, CommandInvariant, PTL

\* While a reservation lives an atomic command takes effect at most once, whatever leases
\* lapse or are reclaimed (lockCommandIdempotency in the transaction of the effect).
THEOREM OneEffect == ASSUME ConstantsOK, Atomic PROVE Spec => []EffectOnce
<1>1. Inv => EffectOnce
  BY DEF Inv
<1> QED BY <1>1, CommandInvariant, PTL

\* Atomic or not, callers are told of executions that were committed, and two calls
\* execute under one reservation only after its lease has run out.
THEOREM ReservationsHold == ASSUME ConstantsOK PROVE Spec => []ReservationHolds
BY Holds, CommandInvariant, PTL

-----------------------------------------------------------------------------
(* The refinement of CommandOnce.  A commit is Take, an answer found in the row is *)
(* Replay, and the deletion of a succeeded row is Forget; nothing else changes     *)
(* what is remembered, done or told.                                            *)
LEMMA Refused ==
  ASSUME ConstantsOK, TypeOK, RowInv, NEW r \in Requests, at[r] \in Open,
         NEW told \in Refusals, Finish(r, told)
  PROVE  Responses' = Responses
<1>1. answer[r] = NoRequest /\ told \notin Requests
  BY DEF RowInv, ConstantsOK, Refusals
<1>2. answer' = [answer EXCEPT ![r] = told]
  BY DEF Finish
<1>3. \A q \in Requests : (IF answer'[q] \in Requests THEN answer'[q] ELSE NoRequest)
                          = (IF answer[q] \in Requests THEN answer[q] ELSE NoRequest)
  BY <1>1, <1>2 DEF TypeOK
<1> QED BY <1>3 DEF Responses

LEMMA Replied ==
  ASSUME ConstantsOK, TypeOK, RowInv, NEW r \in Requests, at[r] \in Open,
         NEW q \in Requests, Finish(r, q)
  PROVE  Responses[r] = NoRequest /\ Responses' = [Responses EXCEPT ![r] = q]
<1>1. answer[r] = NoRequest /\ answer' = [answer EXCEPT ![r] = q]
  BY DEF RowInv, Finish
<1>2. \A p \in Requests : (IF answer'[p] \in Requests THEN answer'[p] ELSE NoRequest)
                   = (IF p = r THEN q ELSE IF answer[p] \in Requests THEN answer[p] ELSE NoRequest)
  BY <1>1 DEF TypeOK
<1>3. Responses' = [p \in Requests |-> IF p = r THEN q ELSE Responses[p]]
  BY <1>2 DEF Responses
<1>4. Responses[r] = NoRequest
  BY <1>1 DEF Responses
<1>5. Responses = [p \in Requests |-> Responses[p]]
  BY DEF Responses
<1> QED BY <1>3, <1>4, <1>5

\* A step that remembers, does and tells nothing new.
Silent == Done' = Done /\ Effects' = Effects /\ Responses' = Responses

LEMMA RefinementStep ==
  ASSUME ConstantsOK, Atomic, Inv, [Next]_vars
  PROVE  Promise!Next \/ UNCHANGED Promise!vars
<1> USE DEF Inv
<1>1. ASSUME NEW r \in Requests,
             \/ Deny(r) \/ LockRefused(r)
             \/ (Find(r) /\ FindConflict(r)) \/ (Find(r) /\ FindInProgress(r))
      PROVE  Silent
  <2>1. UNCHANGED <<row, effects>>
    BY <1>1 DEF Deny, Find, LockRefused
  <2>2. UNCHANGED answer \/ (at[r] \in Open /\ \E told \in Refusals : Finish(r, told))
    BY <1>1 DEF Deny, Find, FindConflict, FindInProgress, LockRefused, Open, Refusals
  <2> QED BY <2>1, <2>2, Refused DEF Silent, Done, Effects, Responses
<1>2. ASSUME NEW r \in Requests,
             \/ Lock(r) \/ Abort(r) \/ Die(r)
             \/ (Find(r) /\ FindNothing(r)) \/ (Find(r) /\ FindReclaimable(r))
      PROVE  Silent
  BY <1>2 DEF FindNothing, FindReclaimable, Find, Lock, Abort, Die, Silent, Done, Effects, Responses
<1>3. ASSUME NEW r \in Requests, FindResponse(r), Find(r) PROVE Promise!Replay(r)
  <2>1. at[r] \in Open /\ Finish(r, row.response) /\ UNCHANGED <<row, effects>>
    BY <1>3 DEF FindResponse, Find, Open
  <2>2. row.response \in Requests /\ Done = row.response
    BY <1>3 DEF FindResponse, RowInv, Done
  <2>3. Responses[r] = NoRequest /\ Responses' = [Responses EXCEPT ![r] = row.response]
    BY <2>1, <2>2, Replied
  <2> QED BY <2>1, <2>2, <2>3 DEF Promise!Replay, ConstantsOK, Done, Effects
<1>4. ASSUME NEW r \in Requests, Reclaim(r) PROVE Silent
  <2>1. Done' = Done
    <3>1. CASE row' = row
      BY <3>1 DEF Done
    <3>2. CASE Mine(r) /\ Reclaimable /\ row' = [Started(r, row.id) EXCEPT !.body = row.body]
      BY <3>2 DEF Done, Reclaimable, Started
    <3> QED BY <1>4, <3>1, <3>2 DEF Reclaim
  <2>2. UNCHANGED answer \/ (at[r] \in Open /\ Finish(r, "in_progress"))
    BY <1>4 DEF Reclaim, Open
  <2>3. Effects' = Effects
    BY <1>4 DEF Reclaim, Effects
  <2> QED BY <2>1, <2>2, <2>3, Refused DEF Silent, Responses, Refusals
<1>5. ASSUME NEW r \in Requests, Insert(r) PROVE Silent
  <2>1. CASE Exists
    BY <1>5, <2>1 DEF Insert, Silent, Done, Effects, Responses
  <2>2. CASE ~Exists
    <3>1. row' = Started(r, inserted + 1) /\ UNCHANGED <<answer, effects>>
      BY <1>5, <2>2 DEF Insert
    <3>2. Done = NoRequest /\ Done' = NoRequest
      BY <3>1, <2>2, RowShape DEF Done, Started
    <3> QED BY <3>1, <3>2 DEF Silent, Effects, Responses
  <2> QED BY <2>1, <2>2
<1>6. ASSUME NEW r \in Requests, Commit(r) PROVE Promise!Take(r)
  <2>1. at[r] = "inside" /\ at[r] \in Open /\ Mine(r) /\ Exists /\ row.status = "started"
    BY <1>6 DEF Commit, RowInv, HoldsLease, Mine, Open
  <2>2. row'.status = "succeeded" /\ row'.response = r
    BY <1>6, <2>1, Completed DEF Commit
  <2>3. Done = NoRequest /\ Done' = r
    BY <2>1, <2>2 DEF Done
  <2>4. r \notin Effects
    BY <2>1 DEF AtomicInv, Effects
  <2>5. Effects' = Effects \cup {r}
    <3>1. effects' = effects \cup {<<held[r], r>>}
      BY <1>6 DEF Commit
    <3>2. <<held[r], r>>[2] = r
      OBVIOUS
    <3>3. \A q : q \in Effects' <=> q \in Effects \/ q = r
      BY <3>1, <3>2 DEF Effects
    <3> QED BY <3>3
  <2>6. Responses' \in {Responses, [Responses EXCEPT ![r] = r]}
    <3>1. CASE Finish(r, r)
      BY <2>1, <3>1, Replied
    <3>2. CASE UNCHANGED answer
      BY <3>2 DEF Responses
    <3> QED BY <1>6, <3>1, <3>2 DEF Commit
  <2> QED BY <2>3, <2>4, <2>5, <2>6 DEF Promise!Take
<1>7. ASSUME NEW r \in Requests, Fail(r) PROVE Silent
  <2>1. Done' = Done
    <3>1. CASE row' = row
      BY <3>1 DEF Done
    <3>2. CASE row.status = "started" /\ Mine(r) /\ row' = [row EXCEPT !.status = "failed"]
      <4>1. row \in RowType
        BY <3>2, RowShape DEF Mine
      <4>2. row'.status = "failed"
        BY <3>2, <4>1 DEF RowType
      <4> QED BY <3>2, <4>2 DEF Done
    <3> QED BY <1>7, <3>1, <3>2 DEF Fail
  <2>2. at[r] \in Open /\ Finish(r, "failed") /\ Effects' = Effects
    BY <1>7 DEF Fail, Open, Effects
  <2> QED BY <2>1, <2>2, Refused DEF Silent, Refusals
<1>8. ASSUME NEW r \in Requests, Execute(r) \/ Complete(r) PROVE FALSE
  BY <1>8 DEF Execute, Complete, RowInv
<1>9. ASSUME Expire PROVE Silent
  <2>1. row \in RowType /\ row' = [row EXCEPT !.expired = TRUE]
    BY <1>9, RowShape DEF Expire
  <2>2. row'.status = row.status /\ row'.response = row.response
    BY <2>1 DEF RowType
  <2> QED BY <1>9, <2>2 DEF Expire, Silent, Done, Effects, Responses
<1>10. ASSUME CleanupSelect PROVE Silent
  BY <1>10 DEF CleanupSelect, Silent, Done, Effects, Responses
<1>11. ASSUME CleanupDelete PROVE Promise!Forget \/ Silent
  <2>1. UNCHANGED <<answer, effects>>
    BY <1>11 DEF CleanupDelete
  <2>2. Done' \in {Done, NoRequest}
    BY <1>11 DEF CleanupDelete, Done, NoRow
  <2> QED BY <2>1, <2>2 DEF Promise!Forget, Silent, Effects, Responses
<1>12. CASE UNCHANGED vars
  BY <1>12 DEF vars, Silent, Done, Effects, Responses, Promise!vars
<1>13. Silent => UNCHANGED Promise!vars
  BY DEF Silent, Promise!vars
<1> QED
  <2>1. ASSUME NEW r \in Requests, Step(r) \/ Die(r)
        PROVE  Silent \/ Promise!Take(r) \/ Promise!Replay(r)
    <3>1. CASE Find(r)
      <4>1. FindNothing(r) \/ FindConflict(r) \/ FindResponse(r) \/ FindInProgress(r)
            \/ FindReclaimable(r)
        BY <3>1 DEF Find
      <4> QED BY <3>1, <4>1, <1>1, <1>2, <1>3
    <3>2. CASE Deny(r) \/ LockRefused(r)
      BY <3>2, <1>1
    <3>3. CASE Lock(r) \/ Abort(r) \/ Die(r)
      BY <3>3, <1>2
    <3>4. CASE Reclaim(r) \/ Insert(r) \/ Fail(r)
      BY <3>4, <1>4, <1>5, <1>7
    <3>5. CASE Commit(r) \/ Execute(r) \/ Complete(r)
      BY <3>5, <1>6, <1>8
    <3> QED BY <2>1, <3>1, <3>2, <3>3, <3>4, <3>5 DEF Step
  <2>2. CASE Next
    BY <2>1, <2>2, <1>9, <1>10, <1>11, <1>13 DEF Next, Promise!Next
  <2> QED BY <2>2, <1>12, <1>13

LEMMA RefinementStart ==
  ASSUME ConstantsOK, Init
  PROVE  Done = NoRequest /\ Effects = {} /\ Responses = [r \in Requests |-> NoRequest]
BY DEF Init, Done, NoRow, Effects, Responses, ConstantsOK

\* An atomic command implements CommandOnce: while the key is remembered one call takes
\* effect, and everyone who is answered is given the response of that one.
THEOREM PromiseKept == ASSUME ConstantsOK, Atomic PROVE Spec => ImplementsPromise
<1>1. Init => Promise!Init
  BY RefinementStart DEF Promise!Init
<1> QED BY <1>1, RefinementStep, CommandInvariant, PTL
        DEF Spec, ImplementsPromise, Promise!Spec
=============================================================================
