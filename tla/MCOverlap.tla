------------------------------ MODULE MCOverlap ------------------------------
(* Requests and invocations that overlap, in nine parts of the system that share   *)
(* no state.  TLC explores them side by side: scene says which part is on stage,  *)
(* and v1, v2, ... are the variables of that part.  The two scenes of            *)
(* SensitiveCommand are its two kinds of command; those of PaymentAccounts are two  *)
(* accounts with one attempt each, and one with two; those of Connections are one  *)
(* connection with its credentials, and two without.                            *)
EXTENDS Integers, FiniteSets, TLC

CONSTANTS p1, p2,          \* people, processes, invocations and jobs
          d1, d2, d3, q1, q2, q3, f1, o1, m1, Nil

VARIABLES scene, v1, v2, v3, v4, v5, v6, v7, v8, v9, v10, v11, v12
vars == <<scene, v1, v2, v3, v4, v5, v6, v7, v8, v9, v10, v11, v12>>

(* Two invocations of the scheduler, a recovery full sync and a flush. *)
Sync == INSTANCE ChannelSyncProofs WITH
    Nights <- {1}, Mutators <- {m1}, Invocations <- {p1, p2}, Operators <- {o1},
    FullSyncs <- {f1}, ProviderLimit <- 2, MaxAttempts <- 2,
    Outcomes <- {"succeeded", "partial", "limited"}, Cooldown <- 1, EnqueueDelay <- 1,
    Pauses <- FALSE, Flushes <- {1}, MaxDeaths <- 0, MaxMinute <- 2, MaxVersion <- <<1>>,
    NoNight <- Nil,
    now <- v1, truth <- v2, remote <- v3, conn <- v4, job <- v5, mut <- v6, inv <- v7,
    task <- v8, asked <- v9, recoveries <- v10, lost <- v11, deaths <- v12

(* Three calls: two carry the same x-request-id, and one another payload. *)
Body(r) == IF r = q3 THEN "other" ELSE "same"
RequestId(r) == IF r = q2 THEN "second" ELSE "first"
Command == INSTANCE SensitiveCommandProofs WITH
    Requests <- {q1, q2, q3}, NoRequest <- Nil, Atomic <- TRUE,
    row <- v1, inserted <- v2, at <- v3, held <- v4, answer <- v5, effects <- v6,
    lapsed <- v7, cleaning <- v8
Plain == INSTANCE SensitiveCommandProofs WITH
    Requests <- {q1, q2, q3}, NoRequest <- Nil, Atomic <- FALSE,
    row <- v1, inserted <- v2, at <- v3, held <- v4, answer <- v5, effects <- v6,
    lapsed <- v7, cleaning <- v8

(* Three documents; two cases; two accounts with an attempt each; two jobs of a feed, *)
(* which may overlap, die and be executed a second time; a connection and its        *)
(* credentials; the inspection of a document.                                     *)
Provider == INSTANCE ProviderProofs WITH
    Documents <- {d1, d2, d3}, Actors <- {p1, p2}, NoDocument <- Nil,
    status <- v1, replaces <- v2, clear <- v3, act <- v4, raced <- v5,
    Users <- {p1, p2}, NoUser <- Nil, MaxCases <- 2, MaxDecisions <- 2, MaxRevision <- 2,
    source <- v1, case <- v2, decision <- v3, published <- v4, responded <- v5,
    page <- v6, provider <- v7, cron <- v8,
    Accounts <- {1, 2}, NoAccount <- 0, Calls <- {p1, p2}, MaxAttempts <- 1,
    account <- v1, opened <- v2, decided <- v3, tax <- v4, profile <- v5, request <- v6,
    behind <- v7,
    Feeds <- {f1}, Slots <- {p1, p2}, NoSlot <- Nil, NightOf <- <<1, 2>>, MaxTries <- 2,
    MaxDeaths <- 1,
    remote <- v1, feed <- v2, job <- v3, work <- v4, disturbed <- v5, deaths <- v6,
    Connections <- {d1}, NoConnection <- Nil, MaxSecrets <- 2,
    row <- v1, vault <- v2, issued <- v3, accepted <- v4, call <- v5, overtaken <- v6,
    Files <- {d1}, Workers <- {p1, p2}, MaxLapses <- 1,
    inspection <- v1, task <- v2, worker <- v3, late <- v4, died <- v5, lapses <- v6

(* One account with two attempts, and two connections without credentials. *)
Other == INSTANCE ProviderProofs WITH
    Documents <- {d1, d2, d3}, Actors <- {p1, p2}, NoDocument <- Nil,
    status <- v1, replaces <- v2, clear <- v3, act <- v4, raced <- v5,
    Users <- {p1, p2}, NoUser <- Nil, MaxCases <- 2, MaxDecisions <- 2, MaxRevision <- 2,
    source <- v1, case <- v2, decision <- v3, published <- v4, responded <- v5,
    page <- v6, provider <- v7, cron <- v8,
    Accounts <- {1}, NoAccount <- 0, Calls <- {p1, p2}, MaxAttempts <- 2,
    account <- v1, opened <- v2, decided <- v3, tax <- v4, profile <- v5, request <- v6,
    behind <- v7,
    Feeds <- {f1}, Slots <- {p1, p2}, NoSlot <- Nil, NightOf <- <<1, 2>>, MaxTries <- 2,
    MaxDeaths <- 1,
    remote <- v1, feed <- v2, job <- v3, work <- v4, disturbed <- v5, deaths <- v6,
    Connections <- {d1, d2}, NoConnection <- Nil, MaxSecrets <- 0,
    row <- v1, vault <- v2, issued <- v3, accepted <- v4, call <- v5, overtaken <- v6,
    Files <- {d1}, Workers <- {p1, p2}, MaxLapses <- 1,
    inspection <- v1, task <- v2, worker <- v3, late <- v4, died <- v5, lapses <- v6

(* Two people, who may cancel with quotes of their own. *)
Refunds == INSTANCE CancellationsProofs WITH
    Calls <- {p1, p2}, Keys <- {q1, q2}, NoKey <- Nil,
    quote <- v1, ledger <- v2, booking <- v3, voucher <- v4, call <- v5, disturbed <- v6

ASSUME PartsAssumption == /\ Sync!SyncAssumption /\ Command!ConstantsOK /\ Plain!ConstantsOK /\ Provider!Papers!ConstantsOK
                          /\ Provider!Cases!ConstantsOK /\ Provider!Money!ConstantsOK /\ Other!Money!ConstantsOK
                          /\ Provider!Calendars!ConstantsOK /\ Refunds!ConstantsOK
                          /\ Provider!Vault!ConstantsOK /\ Other!Vault!ConstantsOK
                          /\ Provider!Inspector!ConstantsOK

Off4 == v9 = 0 /\ v10 = 0 /\ v11 = 0 /\ v12 = 0
Off5 == v8 = 0 /\ Off4
Off6 == v7 = 0 /\ Off5
Off7 == v6 = 0 /\ Off6
Still4 == UNCHANGED <<v9, v10, v11, v12>>
Still5 == UNCHANGED v8 /\ Still4
Still6 == UNCHANGED v7 /\ Still5
Still7 == UNCHANGED v6 /\ Still6

Init == \/ scene = "sync" /\ Sync!Init
        \/ scene = "command" /\ Command!Init /\ Off4
        \/ scene = "plain" /\ Plain!Init /\ Off4
        \/ scene = "papers" /\ Provider!Papers!Init /\ Off7
        \/ scene = "cases" /\ Provider!Cases!Init /\ Off4
        \/ scene = "payments" /\ Provider!Money!Init /\ Off5
        \/ scene = "deposits" /\ Other!Money!Init /\ Off5
        \/ scene = "calendars" /\ Provider!Calendars!Init /\ Off6
        \/ scene = "refunds" /\ Refunds!Init /\ Off6
        \/ scene = "vault" /\ Provider!Vault!Init /\ Off6
        \/ scene = "primary" /\ Other!Vault!Init /\ Off6
        \/ scene = "inspection" /\ Provider!Inspector!Init /\ Off6

Next == /\ \/ scene = "sync" /\ Sync!Next
           \/ scene = "command" /\ Command!Next /\ Still4
           \/ scene = "plain" /\ Plain!Next /\ Still4
           \/ scene = "papers" /\ Provider!Papers!Next /\ Still7
           \/ scene = "cases" /\ Provider!Cases!Next /\ Still4
           \/ scene = "payments" /\ Provider!Money!Next /\ Still5
           \/ scene = "deposits" /\ Other!Money!Next /\ Still5
           \/ scene = "calendars" /\ Provider!Calendars!Next /\ Still6
           \/ scene = "refunds" /\ Refunds!Next /\ Still6
           \/ scene = "vault" /\ Provider!Vault!Next /\ Still6
           \/ scene = "primary" /\ Other!Vault!Next /\ Still6
           \/ scene = "inspection" /\ Provider!Inspector!Next /\ Still6
        /\ UNCHANGED scene

Spec == Init /\ [][Next]_vars

Interchangeable == Permutations({p1, p2})

-----------------------------------------------------------------------------
(* The type invariant of every part. *)
TypeOK == /\ scene = "sync" => Sync!TypeOK
          /\ scene = "command" => Command!TypeOK
          /\ scene = "plain" => Plain!TypeOK
          /\ scene = "papers" => Provider!Papers!TypeOK
          /\ scene = "cases" => Provider!Cases!TypeOK
          /\ scene = "payments" => Provider!Money!TypeOK
          /\ scene = "deposits" => Other!Money!TypeOK
          /\ scene = "calendars" => Provider!Calendars!TypeOK
          /\ scene = "refunds" => Refunds!TypeOK
          /\ scene = "vault" => Provider!Vault!TypeOK
          /\ scene = "primary" => Other!Vault!TypeOK
          /\ scene = "inspection" => Provider!Inspector!TypeOK

(* Overlapping invocations of the scheduler run no job twice (ChannelSync). *)
DisjointClaims == scene = "sync" => Sync!DisjointClaims

(* An atomic command implements the promise of CommandOnce; what callers are told  *)
(* is sound, atomic or not (SensitiveCommand).                                  *)
Once == INSTANCE CommandOnce WITH
    Requests <- {q1, q2, q3}, NoRequest <- Nil,
    done <- IF scene = "command" THEN Command!Done ELSE Nil,
    effects <- IF scene = "command" THEN Command!Effects ELSE {},
    response <- IF scene = "command" THEN Command!Responses ELSE [r \in {q1, q2, q3} |-> Nil]
ImplementsPromise == Once!Spec
ReservationHolds == scene \in {"command", "plain"} => Command!ReservationHolds

(* A document and its replacement are not both in force, nor are two replacements, *)
(* but for reviews of the same moment (ProviderDocuments).                       *)
ReplacedNotInForce == scene = "papers" => Provider!Papers!ReplacedNotInForce

(* One decision of a case at a time, carried out on its evidence (Casework). *)
OneOpenDecision == scene = "cases" => Provider!Cases!OneOpenDecision
CasesAdvance == [][scene = "cases" => Provider!Cases!Advance]_vars

(* The bank is asked as often as it may be, and the profile follows (PaymentAccounts). *)
AccountsSound == /\ scene = "payments" => Provider!Money!AccountsSound
                 /\ scene = "deposits" => Other!Money!AccountsSound

(* What is blocked and recorded follows the feed (ExternalCalendars). *)
FeedSound == scene = "calendars" => Provider!Calendars!FeedSound

(* A cancelled booking has its ledger entry and no valid voucher (Cancellations). *)
CancellationAccounted == scene = "refunds" => Refunds!CancellationAccounted

(* A connected connection has an accepted credential, a revoked one none (Connections). *)
ConnectionSound == /\ scene = "vault" => Provider!Vault!ConnectionSound
                   /\ scene = "primary" => Other!Vault!ConnectionSound

(* The verdict of an inspection and its job agree (DocumentProcessing). *)
JobTellsInspection == scene = "inspection" => Provider!Inspector!JobTellsInspection
=============================================================================
