----------------------------- MODULE MCBackground -----------------------------
(* What has to make progress: the inspection of documents, the import of external *)
(* calendars, the reconciliation of compliance cases and the cache of the pages. *)
(* They share no state: scene says which one is on stage, and v1, v2, ... are its *)
(* variables.                                                                   *)
EXTENDS Integers, FiniteSets

CONSTANTS w1, w2, s1, s2, d1, f1, Nil

VARIABLES scene, v1, v2, v3, v4, v5, v6, v7, v8
vars == <<scene, v1, v2, v3, v4, v5, v6, v7, v8>>

(* Two runs that overlap, one of which dies, and a lease that runs out. *)
Inspection == INSTANCE DocumentProcessing WITH
    Documents <- {d1}, Workers <- {w1, w2}, MaxAttempts <- 2, MaxDeaths <- 1, MaxLapses <- 1,
    inspection <- v1, job <- v2, worker <- v3, late <- v4, deaths <- v5, lapses <- v6

(* A feed that changes once, and two jobs of it at a time; in MCOverlap they are     *)
(* executed again, and die.                                                     *)
Calendars == INSTANCE ExternalCalendars WITH
    Feeds <- {f1}, Slots <- {s1, s2}, NoSlot <- Nil, NightOf <- <<1, 2>>, MaxAttempts <- 1,
    MaxDeaths <- 0,
    remote <- v1, feed <- v2, job <- v3, work <- v4, disturbed <- v5, deaths <- v6

(* One reviewer, so that nobody approves; the runs of MCOverlap have two. *)
Cases == INSTANCE Casework WITH
    Users <- {w1}, NoUser <- Nil, MaxCases <- 3, MaxDecisions <- 1, MaxRevision <- 2,
    source <- v1, case <- v2, decision <- v3, published <- v4, responded <- v5,
    page <- v6, provider <- v7, cron <- v8

(* One process writes the data while both read it. *)
Cache == INSTANCE SharedCache WITH
    Processes <- {w1, w2}, MaxVersion <- 2,
    data <- v1, store <- v2, memory <- v3, reader <- v4, sending <- v5, writer <- v6

ASSUME BackgroundAssumption ==
    Inspection!ConstantsOK /\ Calendars!ConstantsOK /\ Cases!ConstantsOK /\ Cache!ConstantsOK

Off == v7 = 0 /\ v8 = 0
Still == UNCHANGED <<v7, v8>>

Init == \/ scene = "inspection" /\ Inspection!Init /\ Off
        \/ scene = "calendars" /\ Calendars!Init /\ Off
        \/ scene = "cases" /\ Cases!Init
        \/ scene = "cache" /\ Cache!Init /\ Off

Next == /\ \/ scene = "inspection" /\ Inspection!Next /\ Still
           \/ scene = "calendars" /\ Calendars!Next /\ Still
           \/ scene = "cases" /\ Cases!Next
           \/ scene = "cache" /\ Cache!Next /\ Still
        /\ UNCHANGED scene

(* The fairness of each part while it is on stage.  As scene never changes, one    *)
(* condition on a disjunction asks the same as one for the action of each scene,  *)
(* and TLC's search grows with the number of conditions.                        *)
Inspecting(A) == scene = "inspection" /\ A /\ Still /\ UNCHANGED scene
Importing(A) == scene = "calendars" /\ A /\ Still /\ UNCHANGED scene
Reconciling(A) == scene = "cases" /\ A /\ UNCHANGED scene
Caching(A) == scene = "cache" /\ A /\ Still /\ UNCHANGED scene

FairSpec ==
    /\ Init /\ [][Next]_vars
    /\ WF_vars(\/ Inspecting(Inspection!Work(w1))
               \/ Importing(Calendars!Claim(s1))
               \/ Reconciling(Cases!Cron)
               \/ Caching(Cache!Read(w1)))
    /\ WF_vars(\/ Inspecting(Inspection!Work(w2))
               \/ Importing(Calendars!Claim(s2))
               \/ Caching(Cache!Read(w2)))
    /\ WF_vars(Importing(Calendars!GoOn(s1)) \/ Caching(Cache!Arrive(w1)))
    /\ WF_vars(Importing(Calendars!GoOn(s2)) \/ Caching(Cache!Arrive(w2)))
    /\ SF_vars(\/ Inspecting(Inspection!StartRecovering)
               \/ Importing(Calendars!Answered(f1))
               \/ Reconciling(Cases!CronSynchronize)
               \/ Caching(Cache!ExpireMemory(w1)))
    /\ SF_vars(\/ Inspecting(Inspection!ListAllDue)
               \/ Importing(Calendars!DueAgain(f1))
               \/ Reconciling(Cases!CronRead)
               \/ Caching(Cache!ExpireMemory(w2)))
    /\ SF_vars(\/ Importing(Calendars!Enqueue(f1))
               \/ Reconciling(Cases!CronResolve)
               \/ Caching(Cache!ExpireShared))

-----------------------------------------------------------------------------
(* The job of an inspection settles (DocumentProcessing). *)
JobsSettle == []<>(scene = "inspection" => Inspection!JobSettled(d1))

(* A feed keeps up with its server (ExternalCalendars). *)
FeedsKeepUp == []<>(scene = "calendars" => Calendars!KeptUp(f1))

(* A pending submission gets a case (Casework). *)
PendingGetsCase == []<>(scene = "cases" => Cases!PendingHasCase)

(* An outdated value leaves the cache for good (SharedCache). *)
CacheCatchesUp == <>[](scene = "cache" => Cache!TypeOK /\ Cache!Current)
=============================================================================
