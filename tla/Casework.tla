------------------------------- MODULE Casework -------------------------------
(* Compliance cases about one source a provider submits (its tax configuration): *)
(* the decisions people propose, approve and apply from pages that may be out of *)
(* date, the requests for information, the legacy review of the same source, and *)
(* the reconciliation job.                                                      *)
(*                                                                              *)
(* A command is one step: it runs in one REPEATABLE READ transaction that writes *)
(* the row of the case under a compare-and-set of its version, and the source    *)
(* when it decides it, so a command that read what another one changed fails.    *)
(* A version is only ever compared for equality with the one a page showed: the  *)
(* model forgets a page once the version has been raised, its commands being     *)
(* refused from then on.                                                        *)
EXTENDS Integers, FiniteSets

CONSTANTS Users, NoUser,     \* internal users
          MaxCases, MaxDecisions, MaxRevision  \* bounds: cases, decisions, submissions

ConstantsOK == /\ NoUser \notin Users
               /\ {MaxCases, MaxDecisions, MaxRevision} \subseteq Nat \ {0}

Cases == 1 .. MaxCases
Decisions == 1 .. MaxDecisions
NoCase == 0

VARIABLES source,     \* [status, revision] of the tax configuration
          case,       \* [status, tier, assigned] of each case
          decision,   \* [case, status, kind, by, revision] of each decision
          published, responded,  \* the requests for information so far
          page,       \* per user, the page it acts from: the case it shows, while
                      \* its version is current, and whether its evidence is
          provider,   \* what the provider's request does next
          cron        \* [at, listed, case] of the reconciliation

vars == <<source, case, decision, published, responded, page, provider, cron>>

ActiveStatuses == {"open", "in_review", "waiting_information"}
OpenDecisionStatuses == {"proposed", "pending_approval", "approved", "applying", "failed"}

NoRow == [status |-> "none", tier |-> "standard", assigned |-> FALSE]
NoDecision == [case |-> NoCase, status |-> "none", kind |-> "none", by |-> NoUser, revision |-> 0]
NoPage == [case |-> NoCase, evidence |-> FALSE]
CronIdle == [at |-> "idle", listed |-> FALSE, case |-> NoCase]

Init == /\ source = [status |-> "not_configured", revision |-> 0]
        /\ case = [c \in Cases |-> NoRow]
        /\ decision = [d \in Decisions |-> NoDecision]
        /\ published = {} /\ responded = {}
        /\ page = [u \in Users |-> NoPage]
        /\ provider = "idle"
        /\ cron = CronIdle

-----------------------------------------------------------------------------
Active == {c \in Cases : case[c].status \in ActiveStatuses}
OpenDecisions(c) == {d \in Decisions : decision[d].case = c
                                         /\ decision[d].status \in OpenDecisionStatuses}

NextCase == {c \in Cases : case[c].status = "none" /\ \A b \in 1 .. c - 1 : case[b].status # "none"}
NextDecision == {d \in Decisions : decision[d].status = "none"
                                      /\ \A e \in 1 .. d - 1 : decision[e].status # "none"}

(* synchronizeComplianceCase: the unique index allows one active case.  The risk *)
(* tier is 'standard'; the data of a deployment may say 'high'.                 *)
Opened(tier) == [status |-> "open", tier |-> tier, assigned |-> FALSE]
\* Mutant: as if the unique index did not leave resolved cases out.
SynchronizeOnce == IF \E c \in Cases : case[c].status # "none" THEN UNCHANGED case
                   ELSE \E c \in NextCase : case' = [case EXCEPT ![c] = Opened("standard")]
Synchronize == IF Active # {} THEN UNCHANGED case
               ELSE \E c \in NextCase, tier \in {"standard", "high"} :
                       case' = [case EXCEPT ![c] = Opened(tier)]

(* A command on a case raises its version: what was read of it is out of date. *)
Move(c, status) == case' = [case EXCEPT ![c].status = status]
OutdatePages(c) == page' = [u \in Users |-> IF page[u].case = c THEN NoPage ELSE page[u]]
Outdate(c) == /\ OutdatePages(c)
              /\ cron' = IF cron.case = c THEN [cron EXCEPT !.case = NoCase] ELSE cron

Change(c, status) == Move(c, status) /\ Outdate(c)

OutdateEvidence == page' = [u \in Users |-> [page[u] EXCEPT !.evidence = FALSE]]

PageHolds(u, c) == c # NoCase /\ page[u].case = c

-----------------------------------------------------------------------------
(* The provider saves its configuration, and then the case is synchronized. *)
Submit == /\ provider = "idle"
          /\ source.revision < MaxRevision
          /\ source' = [status |-> "pending", revision |-> source.revision + 1]
          /\ provider' = "synchronize"
          /\ OutdateEvidence
          /\ UNCHANGED <<case, decision, published, responded, cron>>

SynchronizeSubmitted == /\ provider = "synchronize"
                        /\ Synchronize
                        /\ provider' = "idle"
                        /\ UNCHANGED <<source, decision, published, responded, page, cron>>

SubmitCrash == /\ provider = "synchronize"
               /\ provider' = "idle"
               /\ UNCHANGED <<source, case, decision, published, responded, page, cron>>

(* A user opens the page of a case. *)
Open(u, c) == /\ c \in Active
              /\ page' = [page EXCEPT ![u] = [case |-> c, evidence |-> TRUE]]
              /\ UNCHANGED <<source, case, decision, published, responded, provider, cron>>

Assign(u, c) == /\ PageHolds(u, c)
                /\ case[c].status \in ActiveStatuses /\ ~case[c].assigned
                /\ case' = [case EXCEPT ![c].assigned = TRUE,
                               ![c].status = IF @ = "waiting_information" THEN @ ELSE "in_review"]
                /\ Outdate(c)
                /\ UNCHANGED <<source, decision, published, responded, provider>>

-----------------------------------------------------------------------------
Outcome(kind) == IF kind = "approved" THEN "verified" ELSE "requires_attention"

(* applyCaseDecision: the source is decided and the case resolved, or the case    *)
(* waits for information.                                                       *)
Apply(c, kind) ==
    IF kind = "request_information"
    THEN Change(c, "waiting_information") /\ UNCHANGED source
    ELSE Change(c, "resolved") /\ source' = [source EXCEPT !.status = Outcome(kind)]

(* propose-decision: the evidence of the page must be the evidence of now; a      *)
(* decision without second control is applied in the same command.              *)
Propose(u, c, d, kind) ==
    /\ PageHolds(u, c) /\ page[u].evidence
    /\ case[c].status \in {"open", "in_review"}
    /\ OpenDecisions(c) = {}
    /\ d \in NextDecision
    /\ decision' = [decision EXCEPT ![d] =
           [case |-> c, kind |-> kind, by |-> u, revision |-> source.revision,
            status |-> IF case[c].tier = "high" THEN "pending_approval" ELSE "applied"]]
    /\ IF case[c].tier = "high"
       THEN Change(c, "in_review") /\ UNCHANGED source
       ELSE Apply(c, kind)
    /\ UNCHANGED <<published, responded, provider>>

\* Mutant: as if the evidence were not compared again.
OnAnyEvidence(d) == decision[d].revision \in 1 .. MaxRevision
OnItsEvidence(d) == decision[d].revision = source.revision

(* approve: by someone else, on the evidence the proposal was made from. *)
Approve(u, d) ==
    LET c == decision[d].case IN
    /\ decision[d].status = "pending_approval"
    /\ PageHolds(u, c)
    /\ decision[d].by # u
    /\ OnItsEvidence(d)
    /\ decision' = [decision EXCEPT ![d].status = "applied"]
    /\ Apply(c, decision[d].kind)
    /\ UNCHANGED <<published, responded, provider>>

RejectApproval(u, d) ==
    LET c == decision[d].case IN
    /\ decision[d].status = "pending_approval"
    /\ PageHolds(u, c)
    /\ decision[d].by # u
    /\ decision' = [decision EXCEPT ![d].status = "rejected"]
    /\ Change(c, "in_review")
    /\ UNCHANGED <<source, published, responded, provider>>

RequestApplied(d) == decision[d].kind = "request_information" /\ decision[d].status = "applied"

PublishRequest(u, d) ==
    LET c == decision[d].case IN
    /\ RequestApplied(d) /\ d \notin published
    /\ PageHolds(u, c)
    /\ case[c].status = "waiting_information"
    /\ Change(c, "waiting_information")
    /\ published' = published \cup {d}
    /\ UNCHANGED <<source, decision, responded, provider>>

Respond(d) ==
    LET c == decision[d].case IN
    /\ RequestApplied(d) /\ d \in published \ responded
    /\ case[c].status = "waiting_information"
    /\ Change(c, "in_review")
    /\ responded' = responded \cup {d}
    /\ UNCHANGED <<source, decision, published, provider>>

(* The legacy review decides the source from no page of a case: it opens one if   *)
(* there is none, refuses when the case is being decided elsewhere, and resolves *)
(* it, unless it only sends the source back to 'pending'.  The source it wrote is *)
(* new evidence.                                                                *)
LegacyAllowed(c) == /\ OpenDecisions(c) = {}
                    /\ case[c].status # "waiting_information"
                    /\ case[c].tier = "standard"

LegacyReview(verdict) ==
    /\ source.revision > 0
    /\ \A c \in Active : LegacyAllowed(c)
    /\ IF verdict = "pending"
       THEN Synchronize /\ OutdateEvidence /\ UNCHANGED cron
       ELSE \/ \E c \in Active : Change(c, "resolved")
            \/ /\ Active = {}
               /\ \E c \in NextCase :
                     case' = [case EXCEPT ![c] = [Opened("standard") EXCEPT !.status = "resolved"]]
               /\ UNCHANGED <<page, cron>>
    /\ source' = [source EXCEPT !.status = verdict]
    /\ UNCHANGED <<decision, published, responded, provider>>

-----------------------------------------------------------------------------
(* reconcileComplianceCases: the pending sources are listed, their cases opened,  *)
(* then each active case whose source was not listed is read, and resolved in a  *)
(* transaction of its own.                                                      *)
CronList == /\ cron.at = "idle"
            /\ cron' = [cron EXCEPT !.at = "synchronize", !.listed = (source.status = "pending")]
            /\ UNCHANGED <<source, case, decision, published, responded, page, provider>>

CronSynchronize == /\ cron.at = "synchronize"
                   /\ IF cron.listed
                      THEN Synchronize /\ cron' = CronIdle
                      ELSE /\ UNCHANGED case
                           /\ cron' = [cron EXCEPT !.at = "read"]
                   /\ UNCHANGED <<source, decision, published, responded, page, provider>>

CronRead == /\ cron.at = "read"
            /\ \/ \E c \in Active : cron' = [cron EXCEPT !.at = "resolve", !.case = c]
               \/ Active = {} /\ cron' = CronIdle
            /\ UNCHANGED <<source, case, decision, published, responded, page, provider>>

\* Mutant: as if the reconciliation did not look for decisions.
CronMayResolveDecided(c) == c # NoCase /\ case[c].status \in ActiveStatuses \ {"waiting_information"}
CronMayResolve(c) == /\ c # NoCase
                     /\ case[c].status \in ActiveStatuses \ {"waiting_information"}
                     /\ OpenDecisions(c) = {}

CronResolve == LET c == cron.case IN
               /\ cron.at = "resolve"
               /\ IF CronMayResolve(c)
                  THEN Move(c, "resolved") /\ OutdatePages(c)
                  ELSE UNCHANGED <<case, page>>
               /\ cron' = CronIdle
               /\ UNCHANGED <<source, decision, published, responded, provider>>

CronCrash == /\ cron.at # "idle"
             /\ cron' = CronIdle
             /\ UNCHANGED <<source, case, decision, published, responded, page, provider>>

Cron == CronList \/ CronSynchronize \/ CronRead \/ CronResolve

-----------------------------------------------------------------------------
Kinds == {"approved", "requires_attention", "request_information"}

Next == \/ Submit \/ SynchronizeSubmitted \/ SubmitCrash
        \/ \E u \in Users, c \in Cases : Open(u, c) \/ Assign(u, c)
        \/ \E u \in Users, c \in Cases, d \in Decisions, kind \in Kinds : Propose(u, c, d, kind)
        \/ \E u \in Users, d \in Decisions :
              Approve(u, d) \/ RejectApproval(u, d) \/ PublishRequest(u, d)
        \/ \E d \in Decisions : Respond(d)
        \/ \E verdict \in {"verified", "requires_attention", "pending"} : LegacyReview(verdict)
        \/ Cron \/ CronCrash

Spec == Init /\ [][Next]_vars

(* The reconciliation runs again and again, and not every run of it dies. *)
Fairness == WF_vars(Cron) /\ SF_vars(CronSynchronize) /\ SF_vars(CronRead) /\ SF_vars(CronResolve)
FairSpec == Spec /\ Fairness

-----------------------------------------------------------------------------
TypeOK == /\ source \in [status : {"not_configured", "pending", "verified", "requires_attention"},
                         revision : 0 .. MaxRevision]
          /\ case \in [Cases -> [status : ActiveStatuses \cup {"none", "resolved"},
                                 tier : {"standard", "high"}, assigned : BOOLEAN]]
          /\ decision \in [Decisions -> [case : Cases \cup {NoCase},
                 status : {"none", "pending_approval", "applied", "rejected"},
                 kind : Kinds \cup {"none"}, by : Users \cup {NoUser},
                 revision : 0 .. MaxRevision]]
          /\ published \subseteq Decisions /\ responded \subseteq published
          /\ \A u \in Users : page[u].case \in Cases \cup {NoCase}
          /\ provider \in {"idle", "synchronize"}
          /\ cron.at \in {"idle", "synchronize", "read", "resolve"}

(* A case has one decision to be settled at a time, and none once it is closed,  *)
(* whoever closes it: a decision, the legacy review or the reconciliation.      *)
OneOpenDecision ==
    \A c \in Cases : /\ Cardinality(OpenDecisions(c)) <= 1
                     /\ case[c].status \in {"none", "resolved"} => OpenDecisions(c) = {}

(* A decision about the source is carried out on the submission it was made on,   *)
(* a case that waits for the provider goes on by its answer to a request that was *)
(* published, and a closed case is never taken up again: though pages, approvals, *)
(* resubmissions and the reconciliation interleave.                              *)
DecidedOnItsEvidence(d) ==
    (decision[d].status # "applied" /\ decision'[d].status = "applied"
        /\ decision'[d].kind # "request_information")
      => /\ decision'[d].revision = source.revision
         /\ source' = [source EXCEPT !.status = Outcome(decision'[d].kind)]
WaitingEndsByAnswer(c) ==
    (case[c].status = "waiting_information" /\ case'[c].status # "waiting_information")
      => \E d \in published : decision[d].case = c /\ responded' = responded \cup {d}
ClosedStays(c) == case[c].status = "resolved" => case'[c] = case[c]
Advance == /\ \A d \in Decisions : DecidedOnItsEvidence(d)
           /\ \A c \in Cases : WaitingEndsByAnswer(c) /\ ClosedStays(c)
CasesAdvance == [][Advance]_vars

(* A submission that stays pending gets a case, even when the request that saved  *)
(* it dies or the reconciliation closes a case for the submission before it.     *)
PendingHasCase == source.status = "pending" => Active # {} \/ NextCase = {}
PendingGetsCase == []<>PendingHasCase
=============================================================================
