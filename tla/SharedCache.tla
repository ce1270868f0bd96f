------------------------------ MODULE SharedCache ------------------------------
(* One key of the cache that the pages read through: a shared store (Redis) with a *)
(* time to live, a copy in the memory of each process, and calculations that read  *)
(* the database.  A write to the database deletes the key afterwards, in the store *)
(* and in the memory of its own process only; what other processes keep, and what  *)
(* is being calculated or sent meanwhile, is left to the times to live.          *)
EXTENDS Integers

CONSTANTS Processes,
          MaxVersion   \* bound: versions of the data

ConstantsOK == MaxVersion \in Nat \ {0}

Versions == 1 .. MaxVersion
Nothing == 0           \* no entry, or no answer

VARIABLES data,      \* the version in the database
          store,     \* the version in the shared store
          memory,    \* the version in the memory of each process
          reader,    \* per process: [at, got] of a request that reads the key
          sending,   \* per process: the values on their way to the store
          writer     \* per process: what a request that writes the data does next

vars == <<data, store, memory, reader, sending, writer>>

Cached == Versions \cup {Nothing}
Resting == [at |-> "rest", got |-> Nothing]

Init == /\ data = 1
        /\ store = Nothing
        /\ memory = [p \in Processes |-> Nothing]
        /\ reader = [p \in Processes |-> Resting]
        /\ sending = [p \in Processes |-> {}]
        /\ writer = [p \in Processes |-> "idle"]

Reading(p, at, got) == reader' = [reader EXCEPT ![p] = [at |-> at, got |-> got]]

-----------------------------------------------------------------------------
(* readThrough.  Requests of a process that miss together share one calculation:  *)
(* a request that finds one under way waits for it.                              *)
Miss(p) == /\ reader[p].at = "rest"
           /\ memory[p] = Nothing
           /\ Reading(p, "ask", Nothing)
           /\ UNCHANGED <<data, store, memory, sending, writer>>

\* persistentCache.get: the store answers, or fails and counts as empty.
AskStore(p) == /\ reader[p].at = "ask"
               /\ \E v \in {store, Nothing} :
                     IF v = Nothing THEN Reading(p, "fetch", Nothing) ELSE Reading(p, "keep", v)
               /\ UNCHANGED <<data, store, memory, sending, writer>>

\* Mutant: as if a hit renewed the entry of the store.
KeepRenewing(p) == /\ reader[p].at = "keep"
                   /\ memory' = [memory EXCEPT ![p] = reader[p].got]
                   /\ store' = reader[p].got
                   /\ Reading(p, "rest", Nothing)
                   /\ UNCHANGED <<data, sending, writer>>

Keep(p) == /\ reader[p].at = "keep"
           /\ memory' = [memory EXCEPT ![p] = reader[p].got]
           /\ Reading(p, "rest", Nothing)
           /\ UNCHANGED <<data, store, sending, writer>>

\* The fetcher; a value that is null, or an error, is not cached.
Fetch(p) == /\ reader[p].at = "fetch"
            /\ \/ Reading(p, "set", data)
               \/ Reading(p, "rest", Nothing)
            /\ UNCHANGED <<data, store, memory, sending, writer>>

\* persistentCache.set, which nobody waits for.
Set(p) == /\ reader[p].at = "set"
          /\ memory' = [memory EXCEPT ![p] = reader[p].got]
          /\ sending' = [sending EXCEPT ![p] = @ \cup {reader[p].got}]
          /\ Reading(p, "rest", Nothing)
          /\ UNCHANGED <<data, store, writer>>

Arrive(p) == /\ \E v \in sending[p] : /\ \/ store' = v
                                         \/ UNCHANGED store
                                      /\ sending' = [sending EXCEPT ![p] = @ \ {v}]
             /\ UNCHANGED <<data, memory, reader, writer>>

-----------------------------------------------------------------------------
(* A command commits its change and then deletes the key: delByPrefix. *)
Write(p) == /\ writer[p] = "idle"
            /\ data < MaxVersion
            /\ data' = data + 1
            /\ writer' = [writer EXCEPT ![p] = "delete"]
            /\ UNCHANGED <<store, memory, reader, sending>>

\* A store that fails keeps the entry, and the memory is cleared all the same.
DeleteShared(p) == /\ writer[p] = "delete"
                   /\ \/ store' = Nothing
                      \/ UNCHANGED store
                   /\ writer' = [writer EXCEPT ![p] = "clear"]
                   /\ UNCHANGED <<data, memory, reader, sending>>

ClearMemory(p) == /\ writer[p] = "clear"
                  /\ memory' = [memory EXCEPT ![p] = Nothing]
                  /\ writer' = [writer EXCEPT ![p] = "idle"]
                  /\ UNCHANGED <<data, store, reader, sending>>

(* The times to live, and the death of a process with all that it keeps. *)
ExpireShared == /\ store # Nothing
                /\ store' = Nothing
                /\ UNCHANGED <<data, memory, reader, sending, writer>>

ExpireMemory(p) == /\ memory[p] # Nothing
                   /\ memory' = [memory EXCEPT ![p] = Nothing]
                   /\ UNCHANGED <<data, store, reader, sending, writer>>

Die(p) == /\ writer' = [writer EXCEPT ![p] = "idle"]
          /\ memory' = [memory EXCEPT ![p] = Nothing]
          /\ reader' = [reader EXCEPT ![p] = Resting]
          /\ sending' = [sending EXCEPT ![p] = {}]
          /\ UNCHANGED <<data, store>>

-----------------------------------------------------------------------------
Read(p) == AskStore(p) \/ Keep(p) \/ Fetch(p) \/ Set(p)

Next == \/ \E p \in Processes : \/ Miss(p) \/ Read(p) \/ Arrive(p)
                                \/ Write(p) \/ DeleteShared(p) \/ ClearMemory(p)
                                \/ ExpireMemory(p) \/ Die(p)
        \/ ExpireShared

Spec == Init /\ [][Next]_vars

(* Requests that have begun come to an end, and so do the times to live; nothing   *)
(* has to be read or written.  An entry is only set by a calculation that began   *)
(* when it was missing, so no entry is renewed for ever.                         *)
Fairness == /\ WF_vars(ExpireShared)
            /\ \A p \in Processes : /\ WF_vars(ExpireMemory(p))
                                    /\ WF_vars(Read(p)) /\ WF_vars(Arrive(p))
FairSpec == Spec /\ Fairness

-----------------------------------------------------------------------------
TypeOK == /\ data \in Versions
          /\ store \in Cached
          /\ memory \in [Processes -> Cached]
          /\ reader \in [Processes -> [at : {"rest", "ask", "keep", "fetch", "set"}, got : Cached]]
          /\ sending \in [Processes -> SUBSET Versions]
          /\ writer \in [Processes -> {"idle", "delete", "clear"}]

(* When the data changes no more, the value of before vanishes from the store and  *)
(* from every memory and does not come back from one to the other, although a     *)
(* calculation begun before the last change may set it after the key was deleted. *)
Current == /\ store \in {data, Nothing}
           /\ \A p \in Processes : memory[p] \in {data, Nothing}
CacheCatchesUp == <>[]Current
=============================================================================
