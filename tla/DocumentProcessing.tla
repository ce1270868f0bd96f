-------------------------- MODULE DocumentProcessing --------------------------
(* The technical inspection of provider documents: one inspection and one job   *)
(* per document, and runs of the worker script that take queued jobs, analyse   *)
(* the file, and write the verdict and then the job in two statements that       *)
(* carry no lease.  A lease may run out at any moment: nothing renews it.       *)
EXTENDS Integers, FiniteSets

CONSTANTS Documents,
          Workers,       \* the runs of the script that may overlap
          MaxAttempts,   \* MAX_ATTEMPTS
          MaxDeaths,     \* bound: runs that die
          MaxLapses      \* bound: leases that run out under a live run

Nothing == "none"      \* the document of a run that has none

ConstantsOK == /\ MaxAttempts \in Nat \ {0}
               /\ {MaxDeaths, MaxLapses} \subseteq Nat
               /\ Nothing \notin Documents

VARIABLES inspection,  \* [state, verdict] of each document
          job,         \* [status, attempts, unconfigured] of each document's job
          worker,      \* [at, external, list, doc, result] of each run; list: the
                       \* attempts it listed; external: it may call the gateway
          late,        \* documents whose lease was taken from a run still at work
          deaths, lapses

vars == <<inspection, job, worker, late, deaths, lapses>>
bounds == <<deaths, lapses>>

NotListed == MaxAttempts + 1
EmptyList == [d \in Documents |-> NotListed]

Resting == [at |-> "rest", external |-> FALSE, list |-> EmptyList, doc |-> Nothing,
            result |-> Nothing]

(* The rows inserted with a document; a document of old may lack them. *)
Queued == [status |-> "queued", attempts |-> 0, unconfigured |-> FALSE]
Unseen == [state |-> "queued", verdict |-> "pending"]
NoJob == [Queued EXCEPT !.status = "absent"]
NoInspection == [Unseen EXCEPT !.state = "absent"]

Init == /\ \E old \in SUBSET Documents :
              /\ inspection = [d \in Documents |-> IF d \in old THEN NoInspection ELSE Unseen]
              /\ job = [d \in Documents |-> IF d \in old THEN NoJob ELSE Queued]
        /\ worker = [w \in Workers |-> Resting]
        /\ late = {}
        /\ deaths = 0 /\ lapses = 0

-----------------------------------------------------------------------------
AtWorkOn(d) == {w \in Workers : worker[w].doc = d}
LeaseHeld(d) == job[d].status = "processing"
Claimable(d) == job[d].status \in {"queued", "retry"}

(* What the analysis of a file may end with.  "suspicious" is a structural or    *)
(* tamper finding, "unscreened" a structural one with no gateway to ask,         *)
(* "transient" any error worth retrying, a partial answer of the gateway         *)
(* included, "unreadable" a permanent source error.                             *)
Results(external) ==
    {"unreadable", "transient"}
        \cup (IF external THEN {"clean", "infected", "suspicious"}
              ELSE {"unconfigured", "unscreened"})

(* The start of a run completes the backlog, queues again the jobs blocked for   *)
(* want of a gateway when there is one and the run may call it, and resets the   *)
(* leases that have run out.                                                    *)
Backlog(d) == IF job[d].status = "absent" THEN Queued ELSE job[d]

Requeued(d, external) ==
    IF external /\ job[d].status = "blocked" /\ job[d].unconfigured
    THEN [job[d] EXCEPT !.status = "queued", !.unconfigured = FALSE]
    ELSE Backlog(d)

StartAfter(w, external, lapsed) ==
    /\ worker[w].at = "rest"
    /\ LET live == {d \in lapsed : AtWorkOn(d) # {}} IN
          /\ lapses + Cardinality(live) <= MaxLapses
          /\ lapses' = lapses + Cardinality(live)
          /\ late' = late \cup live
    /\ inspection' = [d \in Documents |->
                         IF inspection[d].state = "absent" THEN Unseen ELSE inspection[d]]
    /\ job' = [d \in Documents |->
                  IF d \in lapsed THEN [job[d] EXCEPT !.status = "retry"]
                  ELSE Requeued(d, external)]
    /\ worker' = [worker EXCEPT ![w].at = "list", ![w].external = external]
    /\ UNCHANGED deaths

Start(w) == \E external \in BOOLEAN, lapsed \in SUBSET {d \in Documents : LeaseHeld(d)} :
                StartAfter(w, external, lapsed)

(* The list of a run: the jobs that are due, each with its attempts. *)
ListDue(w, due) ==
    /\ worker[w].at = "list"
    /\ worker' = [worker EXCEPT ![w] =
          IF due = {} THEN Resting
          ELSE [@ EXCEPT !.at = "next",
                         !.list = [d \in Documents |->
                                     IF d \in due THEN job[d].attempts ELSE NotListed]]]
    /\ UNCHANGED <<inspection, job, late, bounds>>

List(w) == \E due \in SUBSET {d \in Documents : Claimable(d)} : ListDue(w, due)

Listed(w) == {d \in Documents : worker[w].list[d] # NotListed}

Rest(w) == /\ worker[w].at = "next" /\ Listed(w) = {}
           /\ worker' = [worker EXCEPT ![w] = Resting]
           /\ UNCHANGED <<inspection, job, late, bounds>>

(* processJob's claim, by status: a job no longer claimable is skipped. *)
Skip(w, d) == /\ worker[w].at = "next" /\ d \in Listed(w) /\ ~Claimable(d)
              /\ worker' = [worker EXCEPT ![w].list[d] = NotListed]
              /\ UNCHANGED <<inspection, job, late, bounds>>

Claim(w, d) == /\ worker[w].at = "next" /\ d \in Listed(w) /\ Claimable(d)
               /\ job' = [job EXCEPT ![d].status = "processing"]
               /\ worker' = [worker EXCEPT ![w].at = "claimed", ![w].doc = d]
               /\ UNCHANGED <<inspection, late, bounds>>

(* The inspection is marked as running in a second statement. *)
MarkRunning(w) == /\ worker[w].at = "claimed"
                  /\ inspection' = [inspection EXCEPT ![worker[w].doc].state = "processing"]
                  /\ worker' = [worker EXCEPT ![w].at = "analyse"]
                  /\ UNCHANGED <<job, late, bounds>>

(* The file is read and the gateway answers. *)
Analyse(w) == /\ worker[w].at = "analyse"
              /\ \E result \in Results(worker[w].external) :
                    worker' = [worker EXCEPT ![w].at = "verdict", ![w].result = result]
              /\ UNCHANGED <<inspection, job, late, bounds>>

-----------------------------------------------------------------------------
(* The attempts counted from the list; those beyond the maximum, which jobs      *)
(* blocked for want of a gateway reach, are not told apart.                     *)
Attempts(w) == LET listed == worker[w].list[worker[w].doc] IN
               IF listed = MaxAttempts THEN MaxAttempts ELSE listed + 1
\* Mutant: an off-by-one in the comparison with the maximum.
DeadBeyond(w) == Attempts(w) > MaxAttempts
Dead(w) == Attempts(w) >= MaxAttempts

Verdict(w) ==
    LET old == inspection[worker[w].doc].verdict IN
    CASE worker[w].result = "clean" -> [state |-> "completed", verdict |-> "clean"]
      [] worker[w].result \in {"infected", "suspicious"} ->
            [state |-> "blocked", verdict |-> worker[w].result]
      [] worker[w].result \in {"unreadable", "unscreened"} ->
            [state |-> "blocked", verdict |-> "unavailable"]
      [] worker[w].result = "unconfigured" ->
            [state |-> "awaiting_configuration", verdict |-> "unavailable"]
      [] worker[w].result = "transient" ->
            [state |-> IF Dead(w) THEN "failed" ELSE "queued", verdict |-> old]

WriteVerdict(w) == /\ worker[w].at = "verdict"
                   /\ inspection' = [inspection EXCEPT ![worker[w].doc] = Verdict(w)]
                   /\ worker' = [worker EXCEPT ![w].at = "job"]
                   /\ UNCHANGED <<job, late, bounds>>

\* Mutant: as if the attempt under way were counted twice for the job.
JobStatusEarly(w) ==
    CASE worker[w].result = "clean" -> "completed"
      [] worker[w].result = "transient" ->
            IF Attempts(w) + 1 >= MaxAttempts THEN "dead_letter" ELSE "retry"
      [] OTHER -> "blocked"
JobStatus(w) ==
    CASE worker[w].result = "clean" -> "completed"
      [] worker[w].result = "transient" -> IF Dead(w) THEN "dead_letter" ELSE "retry"
      [] OTHER -> "blocked"

(* The job, by id: no statement asks whether the lease is still held.  Without a  *)
(* gateway the error is that there is none, whatever the file's structure says.  *)
WriteJob(w) ==
    /\ worker[w].at = "job"
    /\ job' = [job EXCEPT ![worker[w].doc] =
                  [status |-> JobStatus(w), attempts |-> Attempts(w),
                   unconfigured |-> worker[w].result \in {"unconfigured", "unscreened"}]]
    /\ worker' = [worker EXCEPT ![w].at = "next", ![w].doc = Nothing, ![w].result = Nothing,
                                ![w].list[worker[w].doc] = NotListed]
    /\ UNCHANGED <<inspection, late, bounds>>

-----------------------------------------------------------------------------
Die(w) == /\ worker[w].at # "rest"
          /\ deaths < MaxDeaths
          /\ deaths' = deaths + 1
          /\ worker' = [worker EXCEPT ![w] = Resting]
          /\ UNCHANGED <<inspection, job, late, lapses>>

Work(w) == \/ List(w) \/ Rest(w) \/ MarkRunning(w) \/ Analyse(w)
           \/ WriteVerdict(w) \/ WriteJob(w)
           \/ \E d \in Documents : Skip(w, d) \/ Claim(w, d)

Next == \/ \E w \in Workers : Start(w) \/ Work(w) \/ Die(w)

Spec == Init /\ [][Next]_vars

(* Runs follow one another and a live run goes on.  Time passes: some later run  *)
(* starts when the ten minutes of a lease nobody works under are over, and some  *)
(* later run lists a job whose backoff is over.                                 *)
StartRecovering == \E w \in Workers, external \in BOOLEAN :
                      StartAfter(w, external, {d \in Documents : LeaseHeld(d) /\ AtWorkOn(d) = {}})
ListAllDue == \E w \in Workers : ListDue(w, {d \in Documents : Claimable(d)})
Fairness == /\ \A w \in Workers : WF_vars(Work(w))
            /\ SF_vars(StartRecovering) /\ SF_vars(ListAllDue)
FairSpec == Spec /\ Fairness

-----------------------------------------------------------------------------
States == {"absent", "queued", "processing", "completed", "blocked", "awaiting_configuration", "failed"}
Statuses == {"absent", "queued", "processing", "retry", "completed", "blocked", "dead_letter"}
Settled == {"completed", "blocked", "dead_letter"}

TypeOK == /\ inspection \in [Documents -> [state : States,
                 verdict : {"pending", "clean", "infected", "suspicious", "unavailable"}]]
          /\ job \in [Documents -> [status : Statuses, attempts : 0 .. MaxAttempts,
                                    unconfigured : BOOLEAN]]
          /\ \A w \in Workers :
                /\ worker[w].at \in {"rest", "list", "next", "claimed", "analyse", "verdict", "job"}
                /\ worker[w].list \in [Documents -> 0 .. NotListed]
                /\ worker[w].doc \in Documents \cup {Nothing}
                /\ worker[w].result \in Results(TRUE) \cup Results(FALSE) \cup {Nothing}
          /\ late \subseteq Documents

(* documentInspectionGate: what is needed before a document is shown or verified. *)
CanReveal(d) == inspection[d].state = "completed" /\ inspection[d].verdict = "clean"

(* Unless a lease ran out under a live run, one run works on a document at a time, *)
(* and a job that is over says what the inspection says, although they are        *)
(* written one after the other and a run may die between the two: a completed job *)
(* has a document that can be shown, a dead letter one whose inspection failed.   *)
JobTellsInspection ==
    \A d \in Documents \ late :
        /\ Cardinality(AtWorkOn(d)) <= 1
        /\ job[d].status = "completed" => CanReveal(d)
        /\ job[d].status = "dead_letter" => inspection[d].state = "failed"
        /\ job[d].status = "blocked" =>
              inspection[d].state \in {"blocked", "awaiting_configuration"}

(* Every job comes to an end again and again: runs that die are replaced, and    *)
(* errors that persist become dead letters even when the runs that overlap       *)
(* write back attempts counted from an old list.                                *)
JobSettled(d) == job[d].status \in Settled
JobsSettle == \A d \in Documents : []<>JobSettled(d)
=============================================================================
