---------------------------- MODULE ProviderProofs ----------------------------
(* Proofs about six parts of the provider's side that share no state: casework,     *)
(* documents, connections, external calendars, payment accounts and the inspection  *)
(* of documents.  Each has an inductive invariant (CaseInv, PaperInv, VaultInv,      *)
(* CalendarInv, MoneyInv, InspectionInv), which every step preserves, and a lemma    *)
(* that says it implies the safety property of the part.                          *)
EXTENDS Integers, FiniteSets, FiniteSetTheorems, TLAPS

CONSTANTS Users, NoUser, MaxCases, MaxDecisions, MaxRevision
VARIABLES source, case, decision, published, responded, page, provider, cron
Cases == INSTANCE Casework

CONSTANTS Documents, Actors, NoDocument
VARIABLES status, replaces, clear, act, raced
Papers == INSTANCE ProviderDocuments

CONSTANTS Connections, NoConnection, Calls, MaxSecrets
VARIABLES row, vault, issued, accepted, call, overtaken
Vault == INSTANCE Connections

CONSTANTS Feeds, Slots, NoSlot, NightOf, MaxTries, MaxDeaths
VARIABLES remote, feed, job, work, disturbed, deaths
Calendars == INSTANCE ExternalCalendars WITH MaxAttempts <- MaxTries

CONSTANTS Accounts, NoAccount, MaxAttempts
VARIABLES account, opened, decided, tax, profile, request, behind
Money == INSTANCE PaymentAccounts WITH call <- request

CONSTANTS Files, Workers, MaxLapses
VARIABLES inspection, task, worker, late, died, lapses
Inspector == INSTANCE DocumentProcessing WITH
  Documents <- Files, MaxAttempts <- MaxTries, job <- task, deaths <- died

-----------------------------------------------------------------------------
(* Casework. *)

CaseRow == [status : Cases!ActiveStatuses \cup {"none", "resolved"},
            tier : {"standard", "high"}, assigned : BOOLEAN]
DecisionRow == [case : Cases!Cases \cup {Cases!NoCase},
                status : {"none", "pending_approval", "applied", "rejected"},
                kind : Cases!Kinds \cup {"none"}, by : Users \cup {NoUser},
                revision : 0 .. MaxRevision]
PageRow == [case : Cases!Cases \cup {Cases!NoCase}, evidence : BOOLEAN]
CronRow == [at : {"idle", "synchronize", "read", "resolve"}, listed : BOOLEAN,
            case : Cases!Cases \cup {Cases!NoCase}]
SourceRow == [status : {"not_configured", "pending", "verified", "requires_attention"},
              revision : 0 .. MaxRevision]

CaseTypes ==
  /\ source \in SourceRow /\ case \in [Cases!Cases -> CaseRow]
  /\ decision \in [Cases!Decisions -> DecisionRow]
  /\ published \subseteq Cases!Decisions /\ responded \subseteq published
  /\ page \in [Users -> PageRow] /\ provider \in {"idle", "synchronize"} /\ cron \in CronRow

\* A decision to be approved is the only one of its case, which is being reviewed.
UnderReview ==
  /\ \A d \in Cases!Decisions : decision[d].status = "pending_approval" =>
        decision[d].case \in Cases!Cases /\ case[decision[d].case].status \in {"open", "in_review"}
  /\ \A d, e \in Cases!Decisions :
        /\ decision[d].status = "pending_approval" /\ decision[e].status = "pending_approval"
        /\ decision[d].case = decision[e].case
        => d = e

CaseInv == CaseTypes /\ UnderReview

LEMMA CaseTypesOK == ASSUME CaseTypes PROVE Cases!TypeOK
BY DEF CaseTypes, Cases!TypeOK, SourceRow, CaseRow, DecisionRow, PageRow, CronRow

LEMMA CaseStart == ASSUME Cases!ConstantsOK, Cases!Init PROVE CaseInv
BY DEF Cases!ConstantsOK, Cases!Init, CaseInv, CaseTypes, UnderReview, SourceRow, CaseRow,
  DecisionRow, PageRow, CronRow, Cases!NoRow, Cases!NoDecision, Cases!NoPage, Cases!CronIdle,
  Cases!NoCase, Cases!Kinds, Cases!ActiveStatuses

\* The open decisions of a case are those that wait for approval.
LEMMA OpenIsPending ==
  ASSUME CaseTypes, NEW c \in Cases!Cases
  PROVE  Cases!OpenDecisions(c) =
           {d \in Cases!Decisions : decision[d].case = c /\ decision[d].status = "pending_approval"}
<1>1. \A d \in Cases!Decisions : decision[d].status \in {"none", "pending_approval", "applied", "rejected"}
  BY DEF CaseTypes, DecisionRow
<1> QED BY <1>1 DEF Cases!OpenDecisions, Cases!OpenDecisionStatuses

LEMMA CaseSound == ASSUME CaseInv PROVE Cases!OneOpenDecision
<1> SUFFICES ASSUME NEW c \in Cases!Cases
             PROVE  /\ Cases!Cardinality(Cases!OpenDecisions(c)) <= 1
                    /\ case[c].status \in {"none", "resolved"} => Cases!OpenDecisions(c) = {}
  BY DEF Cases!OneOpenDecision
<1> DEFINE S == Cases!OpenDecisions(c)
<1>1. \A d, e \in S : d = e
  BY OpenIsPending DEF CaseInv, UnderReview
<1>2. S = {} \/ \E d : S = {d}
  BY <1>1
<1>3. Cases!Cardinality(S) = Cardinality(S)
  BY DEF Cases!Cardinality, Cardinality
<1>4. Cardinality(S) <= 1
  <2> HIDE DEF S
  <2>1. CASE S = {}
    BY <2>1, FS_EmptySet
  <2>2. ASSUME NEW d, S = {d} PROVE Cardinality(S) = 1
    BY <2>2, FS_Singleton
  <2> QED BY <1>2, <2>1, <2>2
<1>5. case[c].status \in {"none", "resolved"} => S = {}
  BY OpenIsPending DEF CaseInv, UnderReview
<1> QED BY <1>3, <1>4, <1>5

CaseStatuses == Cases!ActiveStatuses \cup {"none", "resolved"}

LEMMA MovedType ==
  ASSUME CaseTypes, NEW c \in Cases!Cases, NEW s \in CaseStatuses, Cases!Move(c, s)
  PROVE  case' \in [Cases!Cases -> CaseRow]
<1>1. [case[c] EXCEPT !.status = s] \in CaseRow
  BY DEF CaseTypes, CaseRow, CaseStatuses
<1> QED BY <1>1 DEF Cases!Move, CaseTypes

LEMMA PagesType ==
  ASSUME CaseTypes, NEW c, Cases!OutdatePages(c)
  PROVE  page' \in [Users -> PageRow]
<1>1. Cases!NoPage \in PageRow
  BY DEF Cases!NoPage, Cases!NoCase, PageRow
<1> QED BY <1>1 DEF Cases!OutdatePages, CaseTypes

LEMMA OutdatedType ==
  ASSUME CaseTypes, NEW c, Cases!Outdate(c)
  PROVE  page' \in [Users -> PageRow] /\ cron' \in CronRow
<1>1. [cron EXCEPT !.case = Cases!NoCase] \in CronRow
  BY DEF CaseTypes, CronRow
<1> QED BY <1>1, PagesType DEF Cases!Outdate, CaseTypes

LEMMA EvidenceType ==
  ASSUME CaseTypes, Cases!OutdateEvidence
  PROVE  page' \in [Users -> PageRow]
<1>1. ASSUME NEW u \in Users PROVE [page[u] EXCEPT !.evidence = FALSE] \in PageRow
  BY DEF CaseTypes, PageRow
<1> QED BY <1>1 DEF Cases!OutdateEvidence

LEMMA SynchronizedType ==
  ASSUME CaseTypes, Cases!Synchronize
  PROVE  case' \in [Cases!Cases -> CaseRow]
<1>1. \A tier \in {"standard", "high"} : Cases!Opened(tier) \in CaseRow
  BY DEF CaseRow, Cases!Opened, Cases!ActiveStatuses
<1> QED BY <1>1 DEF Cases!Synchronize, CaseTypes, Cases!NextCase

LEMMA DecisionRows ==
  ASSUME CaseTypes, NEW d \in Cases!Decisions, NEW s \in {"applied", "rejected"}
  PROVE  [decision EXCEPT ![d].status = s] \in [Cases!Decisions -> DecisionRow]
<1>1. [decision[d] EXCEPT !.status = s] \in DecisionRow
  BY DEF CaseTypes, DecisionRow
<1> QED BY <1>1 DEF CaseTypes

LEMMA AppliedType ==
  ASSUME CaseTypes, NEW c \in Cases!Cases, NEW kind, Cases!Apply(c, kind)
  PROVE  /\ case' \in [Cases!Cases -> CaseRow]
         /\ page' \in [Users -> PageRow] /\ cron' \in CronRow
         /\ source' \in SourceRow
<1>1. {"waiting_information", "resolved"} \subseteq CaseStatuses
  BY DEF CaseStatuses, Cases!ActiveStatuses
<1>2. [source EXCEPT !.status = Cases!Outcome(kind)] \in SourceRow
  BY DEF CaseTypes, SourceRow, Cases!Outcome
<1> QED BY <1>1, <1>2, MovedType, OutdatedType DEF Cases!Apply, Cases!Change, CaseTypes

LEMMA CaseTypeStep == ASSUME Cases!ConstantsOK, CaseInv, [Cases!Next]_(Cases!vars) PROVE CaseTypes'
<1> USE DEF CaseInv, CaseTypes
<1>1. CASE Cases!Submit
  <2>1. [status |-> "pending", revision |-> source.revision + 1] \in SourceRow
    BY <1>1 DEF Cases!Submit, SourceRow, Cases!ConstantsOK
  <2> QED BY <1>1, <2>1, EvidenceType DEF Cases!Submit
<1>2. CASE Cases!SynchronizeSubmitted
  BY <1>2, SynchronizedType DEF Cases!SynchronizeSubmitted
<1>3. CASE Cases!SubmitCrash
  BY <1>3 DEF Cases!SubmitCrash
<1>4. ASSUME NEW u \in Users, NEW c \in Cases!Cases, Cases!Open(u, c) PROVE CaseTypes'
  BY <1>4 DEF Cases!Open, PageRow
<1>5. ASSUME NEW u \in Users, NEW c \in Cases!Cases, Cases!Assign(u, c) PROVE CaseTypes'
  <2>1. \E s \in Cases!ActiveStatuses : case'[c] = [case[c] EXCEPT !.assigned = TRUE, !.status = s]
    BY <1>5 DEF Cases!Assign, Cases!ActiveStatuses
  <2>2. case'[c] \in CaseRow
    BY <2>1 DEF CaseRow
  <2> QED BY <1>5, <2>2, OutdatedType DEF Cases!Assign
<1>6. ASSUME NEW u \in Users, NEW c \in Cases!Cases, NEW d \in Cases!Decisions,
             NEW kind \in Cases!Kinds, Cases!Propose(u, c, d, kind) PROVE CaseTypes'
  <2>1. [case |-> c, kind |-> kind, by |-> u, revision |-> source.revision,
         status |-> IF case[c].tier = "high" THEN "pending_approval" ELSE "applied"] \in DecisionRow
    BY DEF DecisionRow, SourceRow
  <2>2. case' \in [Cases!Cases -> CaseRow] /\ page' \in [Users -> PageRow] /\ cron' \in CronRow
        /\ source' \in SourceRow
    BY <1>6, MovedType, OutdatedType, AppliedType
       DEF Cases!Propose, Cases!Change, CaseStatuses, Cases!ActiveStatuses
  <2> QED BY <1>6, <2>1, <2>2 DEF Cases!Propose
<1>7. ASSUME NEW u \in Users, NEW d \in Cases!Decisions, Cases!Approve(u, d) PROVE CaseTypes'
  <2>1. decision[d].case \in Cases!Cases
    BY <1>7 DEF Cases!Approve, UnderReview
  <2> QED BY <1>7, <2>1, DecisionRows, AppliedType DEF Cases!Approve
<1>8. ASSUME NEW u \in Users, NEW d \in Cases!Decisions, Cases!RejectApproval(u, d) PROVE CaseTypes'
  <2>1. decision[d].case \in Cases!Cases
    BY <1>8 DEF Cases!RejectApproval, UnderReview
  <2> QED BY <1>8, <2>1, DecisionRows, MovedType, OutdatedType
          DEF Cases!RejectApproval, Cases!Change, CaseStatuses, Cases!ActiveStatuses
<1>9. ASSUME NEW u \in Users, NEW d \in Cases!Decisions, Cases!PublishRequest(u, d) PROVE CaseTypes'
  <2>1. decision[d].case \in Cases!Cases
    BY <1>9 DEF Cases!PublishRequest, Cases!PageHolds, DecisionRow
  <2> QED BY <1>9, <2>1, MovedType, OutdatedType
          DEF Cases!PublishRequest, Cases!Change, CaseStatuses, Cases!ActiveStatuses
<1>10. ASSUME NEW d \in Cases!Decisions, Cases!Respond(d) PROVE CaseTypes'
  <2> DEFINE c == decision[d].case
  <2>1. CASE c \in Cases!Cases
    BY <1>10, <2>1, MovedType, OutdatedType
       DEF Cases!Respond, Cases!Change, CaseStatuses, Cases!ActiveStatuses
  <2>2. CASE c \notin Cases!Cases
    BY <1>10, <2>2, OutdatedType DEF Cases!Respond, Cases!Change, Cases!Move
  <2> QED BY <2>1, <2>2
<1>11. ASSUME NEW verdict \in {"verified", "requires_attention", "pending"},
              Cases!LegacyReview(verdict) PROVE CaseTypes'
  <2>1. source' \in SourceRow
    BY <1>11 DEF Cases!LegacyReview, SourceRow
  <2>2. case' \in [Cases!Cases -> CaseRow]
    <3>1. [Cases!Opened("standard") EXCEPT !.status = "resolved"] \in CaseRow
      BY DEF Cases!Opened, CaseRow
    <3> QED BY <1>11, <3>1, SynchronizedType, MovedType
            DEF Cases!LegacyReview, Cases!Change, CaseStatuses, Cases!NextCase, Cases!Active
  <2>3. page' \in [Users -> PageRow] /\ cron' \in CronRow
    BY <1>11, EvidenceType, OutdatedType DEF Cases!LegacyReview, Cases!Change
  <2> QED BY <1>11, <2>1, <2>2, <2>3 DEF Cases!LegacyReview
<1>12. CASE Cases!CronList
  <2>1. cron' \in CronRow
    BY <1>12 DEF Cases!CronList, CronRow
  <2> QED BY <1>12, <2>1 DEF Cases!CronList
<1>13. CASE Cases!CronSynchronize
  <2>1. Cases!CronIdle \in CronRow /\ [cron EXCEPT !.at = "read"] \in CronRow
    BY DEF CronRow, Cases!CronIdle, Cases!NoCase
  <2> QED BY <1>13, <2>1, SynchronizedType DEF Cases!CronSynchronize
<1>14. CASE Cases!CronRead
  <2>1. Cases!CronIdle \in CronRow
    BY DEF CronRow, Cases!CronIdle, Cases!NoCase
  <2>2. ASSUME NEW c \in Cases!Cases PROVE [cron EXCEPT !.at = "resolve", !.case = c] \in CronRow
    BY DEF CronRow
  <2> QED BY <1>14, <2>1, <2>2 DEF Cases!CronRead, Cases!Active
<1>15. CASE Cases!CronResolve
  <2>1. cron' \in CronRow
    BY <1>15 DEF Cases!CronResolve, CronRow, Cases!CronIdle, Cases!NoCase
  <2>2. Cases!CronMayResolve(cron.case) => cron.case \in Cases!Cases
    BY DEF Cases!CronMayResolve, CronRow
  <2> QED BY <1>15, <2>1, <2>2, MovedType, PagesType DEF Cases!CronResolve, CaseStatuses
<1>16. CASE Cases!CronCrash
  <2>1. cron' \in CronRow
    BY <1>16 DEF Cases!CronCrash, CronRow, Cases!CronIdle, Cases!NoCase
  <2> QED BY <1>16, <2>1 DEF Cases!CronCrash
<1>17. CASE UNCHANGED Cases!vars
  BY <1>17 DEF Cases!vars
<1> QED BY <1>1, <1>2, <1>3, <1>4, <1>5, <1>6, <1>7, <1>8, <1>9, <1>10, <1>11, <1>12, <1>13, <1>14, <1>15, <1>16, <1>17
       DEF Cases!Next, Cases!Cron

LEMMA CaseReviewStep == ASSUME Cases!ConstantsOK, CaseTypes, CaseTypes', UnderReview, [Cases!Next]_(Cases!vars) PROVE UnderReview'
<1> USE DEF UnderReview, CaseTypes, CaseRow, DecisionRow
<1>1. ASSUME Cases!Submit PROVE UnderReview'
  BY <1>1 DEF Cases!Submit, Cases!OutdateEvidence
<1>2. ASSUME Cases!SynchronizeSubmitted PROVE UnderReview'
  BY <1>2 DEF Cases!SynchronizeSubmitted, Cases!Synchronize, Cases!Opened, Cases!NextCase
<1>3. ASSUME Cases!SubmitCrash PROVE UnderReview'
  BY <1>3 DEF Cases!SubmitCrash
<1>4. ASSUME NEW u \in Users, NEW c \in Cases!Cases, Cases!Open(u, c) PROVE UnderReview'
  BY <1>4 DEF Cases!Open
<1>5. ASSUME NEW u \in Users, NEW c \in Cases!Cases, Cases!Assign(u, c) PROVE UnderReview'
  BY <1>5 DEF Cases!Assign, Cases!Outdate, Cases!OutdatePages
<1>6. ASSUME NEW u \in Users, NEW c \in Cases!Cases, NEW d \in Cases!Decisions,
             NEW kind \in Cases!Kinds, Cases!Propose(u, c, d, kind) PROVE UnderReview'
  BY <1>6, OpenIsPending DEF Cases!Propose, Cases!PageHolds, Cases!Apply, Cases!Change, Cases!Move, Cases!Outdate, Cases!OutdatePages, Cases!Outcome, Cases!NextDecision
<1>7. ASSUME NEW u \in Users, NEW d \in Cases!Decisions, Cases!Approve(u, d) PROVE UnderReview'
  BY <1>7 DEF Cases!Approve, Cases!PageHolds, Cases!Apply, Cases!Change, Cases!Move, Cases!Outdate, Cases!OutdatePages, Cases!Outcome
<1>8. ASSUME NEW u \in Users, NEW d \in Cases!Decisions, Cases!RejectApproval(u, d) PROVE UnderReview'
  BY <1>8 DEF Cases!RejectApproval, Cases!Change, Cases!Move, Cases!Outdate, Cases!OutdatePages
<1>9. ASSUME NEW u \in Users, NEW d \in Cases!Decisions, Cases!PublishRequest(u, d) PROVE UnderReview'
  BY <1>9 DEF Cases!PublishRequest, Cases!Change, Cases!Move, Cases!Outdate, Cases!OutdatePages
<1>10. ASSUME NEW d \in Cases!Decisions, Cases!Respond(d) PROVE UnderReview'
  BY <1>10 DEF Cases!Respond, Cases!Change, Cases!Move, Cases!Outdate, Cases!OutdatePages
<1>11. ASSUME NEW verdict \in {"verified", "requires_attention", "pending"}, Cases!LegacyReview(verdict) PROVE UnderReview'
  BY <1>11, OpenIsPending DEF Cases!LegacyReview, Cases!Synchronize, Cases!Opened, Cases!NextCase, Cases!OutdateEvidence, Cases!Change, Cases!Move, Cases!Outdate, Cases!OutdatePages, Cases!LegacyAllowed, Cases!Active
<1>12. ASSUME Cases!CronList PROVE UnderReview'
  BY <1>12 DEF Cases!CronList
<1>13. ASSUME Cases!CronSynchronize PROVE UnderReview'
  BY <1>13 DEF Cases!CronSynchronize, Cases!Synchronize, Cases!Opened, Cases!NextCase
<1>14. ASSUME Cases!CronRead PROVE UnderReview'
  <2>1. UNCHANGED <<case, decision>>
    BY <1>14 DEF Cases!CronRead
  <2> QED BY <2>1
<1>15. ASSUME Cases!CronResolve PROVE UnderReview'
  BY <1>15, OpenIsPending DEF Cases!CronResolve, Cases!Move, Cases!OutdatePages, Cases!CronMayResolve
<1>16. ASSUME Cases!CronCrash PROVE UnderReview'
  BY <1>16, OpenIsPending DEF Cases!CronCrash
<1>17. CASE UNCHANGED Cases!vars
  BY <1>17 DEF Cases!vars
<1> QED BY <1>1, <1>2, <1>3, <1>4, <1>5, <1>6, <1>7, <1>8, <1>9, <1>10, <1>11, <1>12, <1>13, <1>14, <1>15, <1>16, <1>17
       DEF Cases!Next, Cases!Cron

LEMMA CaseAdvance == ASSUME Cases!ConstantsOK, CaseInv, Cases!Next PROVE Cases!Advance
<1> USE DEF CaseInv, UnderReview, CaseTypes, CaseRow, DecisionRow, Cases!ActiveStatuses,
        Cases!Advance, Cases!DecidedOnItsEvidence, Cases!WaitingEndsByAnswer, Cases!ClosedStays
<1>1. ASSUME Cases!Submit PROVE Cases!Advance
  BY <1>1 DEF Cases!Submit
<1>2. ASSUME Cases!SynchronizeSubmitted PROVE Cases!Advance
  BY <1>2 DEF Cases!SynchronizeSubmitted, Cases!Synchronize, Cases!Opened, Cases!NextCase
<1>3. ASSUME Cases!SubmitCrash PROVE Cases!Advance
  BY <1>3 DEF Cases!SubmitCrash
<1>4. ASSUME NEW u \in Users, NEW c \in Cases!Cases, Cases!Open(u, c) PROVE Cases!Advance
  BY <1>4 DEF Cases!Open
<1>5. ASSUME NEW u \in Users, NEW c \in Cases!Cases, Cases!Assign(u, c) PROVE Cases!Advance
  BY <1>5 DEF Cases!Assign
<1>6. ASSUME NEW u \in Users, NEW c \in Cases!Cases, NEW d \in Cases!Decisions,
             NEW kind \in Cases!Kinds, Cases!Propose(u, c, d, kind) PROVE Cases!Advance
  BY <1>6 DEF Cases!Propose, Cases!Apply, Cases!Change, Cases!Move
<1>7. ASSUME NEW u \in Users, NEW d \in Cases!Decisions, Cases!Approve(u, d) PROVE Cases!Advance
  BY <1>7 DEF Cases!Approve, Cases!OnItsEvidence, Cases!Apply, Cases!Change, Cases!Move
<1>8. ASSUME NEW u \in Users, NEW d \in Cases!Decisions, Cases!RejectApproval(u, d) PROVE Cases!Advance
  BY <1>8 DEF Cases!RejectApproval, Cases!Change, Cases!Move
<1>9. ASSUME NEW u \in Users, NEW d \in Cases!Decisions, Cases!PublishRequest(u, d) PROVE Cases!Advance
  BY <1>9 DEF Cases!PublishRequest, Cases!Change, Cases!Move
<1>10. ASSUME NEW d \in Cases!Decisions, Cases!Respond(d) PROVE Cases!Advance
  BY <1>10 DEF Cases!Respond, Cases!Change, Cases!Move
<1>11. ASSUME NEW verdict \in {"verified", "requires_attention", "pending"}, Cases!LegacyReview(verdict) PROVE Cases!Advance
  BY <1>11 DEF Cases!LegacyReview, Cases!Synchronize, Cases!Opened, Cases!NextCase, Cases!Change, Cases!Move, Cases!LegacyAllowed, Cases!Active
<1>12. ASSUME Cases!CronList PROVE Cases!Advance
  BY <1>12 DEF Cases!CronList
<1>13. ASSUME Cases!CronSynchronize PROVE Cases!Advance
  BY <1>13 DEF Cases!CronSynchronize, Cases!Synchronize, Cases!Opened, Cases!NextCase
<1>14. ASSUME Cases!CronRead PROVE Cases!Advance
  BY <1>14 DEF Cases!CronRead
<1>15. ASSUME Cases!CronResolve PROVE Cases!Advance
  BY <1>15 DEF Cases!CronResolve, Cases!Move, Cases!CronMayResolve
<1>16. ASSUME Cases!CronCrash PROVE Cases!Advance
  BY <1>16 DEF Cases!CronCrash
<1> QED BY <1>1, <1>2, <1>3, <1>4, <1>5, <1>6, <1>7, <1>8, <1>9, <1>10, <1>11, <1>12, <1>13, <1>14, <1>15, <1>16
       DEF Cases!Next, Cases!Cron

LEMMA CaseStep == ASSUME Cases!ConstantsOK, CaseInv, [Cases!Next]_(Cases!vars) PROVE CaseInv'
BY CaseTypeStep, CaseReviewStep DEF CaseInv

\* A case has one decision to be settled at a time, and none once it is closed, whoever
\* closes it (case-commands.ts, compliance-casework.ts).
THEOREM OneDecisionAtATime == ASSUME Cases!ConstantsOK PROVE Cases!Spec => []Cases!OneOpenDecision
<1>1. Cases!Init => CaseInv
  BY CaseStart
<1>2. CaseInv /\ [Cases!Next]_(Cases!vars) => CaseInv'
  BY CaseStep
<1>3. CaseInv => Cases!OneOpenDecision
  BY CaseSound
<1> QED BY <1>1, <1>2, <1>3, PTL DEF Cases!Spec

\* A decision is carried out on the submission it was made on, a case that waits for the
\* provider goes on by its answer, and a closed case is never taken up again
\* (case-commands.ts, information-requests.ts).
THEOREM CasesOnlyAdvance == ASSUME Cases!ConstantsOK PROVE Cases!Spec => [][Cases!Advance]_(Cases!vars)
<1>1. Cases!Init => CaseInv
  BY CaseStart
<1>2. CaseInv /\ [Cases!Next]_(Cases!vars) => CaseInv'
  BY CaseStep
<1>3. CaseInv /\ [Cases!Next]_(Cases!vars) => [Cases!Advance]_(Cases!vars)
  BY CaseAdvance
<1> QED BY <1>1, <1>2, <1>3, PTL DEF Cases!Spec

-----------------------------------------------------------------------------
(* Documents. *)

Kept == {"verified", "superseded"}
Reviewing == {"review", "decide"}
Replaced(a) == replaces[act[a].doc]

\* A document is registered once; the one it replaces is in force or superseded by then.
Registering == \A a \in Actors : act[a].at = "register" =>
    /\ act[a].doc \in Documents /\ status[act[a].doc] = "none"
    /\ act[a].target # NoDocument => status[act[a].target] # "none"
    /\ act[a].target # NoDocument /\ act[a].keep => status[act[a].target] \in Kept
RegisteredOnce == \A a, b \in Actors :
    act[a].at = "register" /\ act[b].at = "register" /\ act[a].doc = act[b].doc => a = b
Reviewed == \A a \in Actors : act[a].at \in Reviewing =>
    act[a].doc \in Documents /\ status[act[a].doc] # "none" /\ act[a].verdict # "none"
KeptReplaced == \A d \in Documents : replaces[d] # NoDocument =>
    replaces[d] # d /\ status[d] # "none" /\ status[replaces[d]] \in Kept
Registered == Registering /\ RegisteredOnce /\ Reviewed /\ KeptReplaced

\* What a decision has read and will not notice any more: the replaced document was
\* superseded, or a sibling verified since then is known to the history.
Noticed ==
  \A a \in Actors : act[a].at = "decide" /\ Replaced(a) # NoDocument =>
      /\ Replaced(a) \notin act[a].snapshot => status[Replaced(a)] = "superseded"
      /\ ~act[a].stale =>
            \A e \in Papers!Siblings(act[a].doc) :
                status[e] = "verified" /\ e \notin act[a].snapshot => Replaced(a) \in raced

\* At most one of a document, and of its replacements, is in force.
InForce ==
  \A d \in Documents : status[d] = "verified" /\ replaces[d] # NoDocument =>
      /\ status[replaces[d]] = "superseded"
      /\ replaces[d] \notin raced => \A e \in Papers!Siblings(d) : status[e] # "verified"

PaperInv == Papers!TypeOK /\ Registered /\ Noticed /\ InForce

LEMMA PaperStart == ASSUME Papers!ConstantsOK, Papers!Init PROVE PaperInv
BY DEF Papers!ConstantsOK, Papers!Init, PaperInv, Papers!TypeOK, Papers!Statuses, Papers!Idle,
  Registered, Registering, RegisteredOnce, Reviewed, KeptReplaced, Noticed, InForce, Reviewing

LEMMA PaperSound == ASSUME PaperInv PROVE Papers!ReplacedNotInForce
BY DEF PaperInv, InForce, Papers!ReplacedNotInForce, Papers!With

ActRow == [at : {"idle", "register", "review", "decide"},
           doc : Documents \cup {NoDocument}, target : Documents \cup {NoDocument},
           keep : BOOLEAN, verdict : {"none", "verified", "rejected"},
           snapshot : SUBSET Documents, stale : BOOLEAN]

LEMMA CommitType ==
  ASSUME Papers!TypeOK, NEW a \in Actors, NEW t, Papers!Commit(a, t)
  PROVE  act' \in [Actors -> ActRow]
<1>1. act \in [Actors -> ActRow]
  BY DEF Papers!TypeOK, ActRow
<1>2. Papers!Idle \in ActRow
  BY DEF Papers!Idle, ActRow
<1>3. ASSUME NEW b \in Actors PROVE [act[b] EXCEPT !.stale = @ \/ Papers!Deciding(b, t)] \in ActRow
  BY <1>1 DEF ActRow
<1> QED BY <1>2, <1>3 DEF Papers!Commit

LEMMA PaperTypeStep == ASSUME Papers!ConstantsOK, PaperInv, [Papers!Next]_(Papers!vars) PROVE Papers!TypeOK'
<1> USE DEF PaperInv, Papers!TypeOK, Papers!Statuses
<1>1. ASSUME NEW a \in Actors, Papers!Register(a) PROVE Papers!TypeOK'
  <2>1. act[a].doc \in Documents /\ act[a].target \in Documents \cup {NoDocument}
    BY <1>1 DEF Papers!Register, Registered, Registering
  <2>2. status' \in [Documents -> Papers!Statuses]
    BY <1>1 DEF Papers!Register
  <2>3. replaces' \in [Documents -> Documents \cup {NoDocument}]
    BY <1>1, <2>1 DEF Papers!Register
  <2>4. act' \in [Actors -> ActRow]
    BY <1>1, CommitType DEF Papers!Register
  <2> QED BY <1>1, <2>2, <2>3, <2>4 DEF Papers!Register, ActRow
<1>2. ASSUME NEW a \in Actors, Papers!GiveUp(a) PROVE Papers!TypeOK'
  BY <1>2 DEF Papers!GiveUp, Papers!Idle
<1>3. ASSUME NEW a \in Actors, Papers!Begin(a) PROVE Papers!TypeOK'
  <2>1. [act[a] EXCEPT !.at = "decide", !.snapshot = Papers!With("verified")] \in ActRow
    BY DEF ActRow, Papers!With
  <2>2. act' \in [Actors -> ActRow]
    BY <1>3, <2>1 DEF Papers!Begin, ActRow
  <2> QED BY <1>3, <2>2 DEF Papers!Begin, ActRow
<1>4. ASSUME NEW a \in Actors, Papers!Decide(a) PROVE Papers!TypeOK'
  <2>1. act[a].verdict \in Papers!Statuses /\ act[a].doc \in Documents /\ replaces[act[a].doc] \in Documents \cup {NoDocument}
    BY <1>4 DEF Papers!Decide, Registered, Registering, RegisteredOnce, Reviewed, KeptReplaced, Reviewing
  <2>2. status' \in [Documents -> Papers!Statuses]
    BY <1>4, <2>1 DEF Papers!Decide
  <2>3. act' \in [Actors -> ActRow]
    BY <1>4, CommitType DEF Papers!Decide
  <2>4. raced' \subseteq Documents
    BY <1>4, <2>1 DEF Papers!Decide, Papers!Deciding
  <2> QED BY <1>4, <2>2, <2>3, <2>4 DEF Papers!Decide, ActRow
<1>5. ASSUME NEW a \in Actors, NEW d \in Documents, NEW t \in Documents \cup {NoDocument},
             Papers!Submit(a, d, t) PROVE Papers!TypeOK'
  BY <1>5 DEF Papers!Submit, Papers!Idle
<1>6. ASSUME NEW a \in Actors, NEW d \in Documents, NEW verdict \in {"verified", "rejected"},
             Papers!Review(a, d, verdict) PROVE Papers!TypeOK'
  BY <1>6 DEF Papers!Review, Papers!Idle
<1>7. ASSUME NEW d \in Documents, Papers!Inspect(d) PROVE Papers!TypeOK'
  BY <1>7 DEF Papers!Inspect
<1>8. CASE UNCHANGED Papers!vars
  BY <1>8 DEF Papers!vars
<1> QED BY <1>1, <1>2, <1>3, <1>4, <1>5, <1>6, <1>7, <1>8 DEF Papers!Next

LEMMA BeginEffect ==
  ASSUME Papers!TypeOK, NEW a \in Actors, Papers!Begin(a)
  PROVE  /\ act[a].at = "review" /\ act'[a].at = "decide"
         /\ act'[a].doc = act[a].doc /\ act'[a].verdict = act[a].verdict
         /\ act'[a].snapshot = Papers!With("verified")
         /\ \A b \in Actors \ {a} : act'[b] = act[b]
         /\ UNCHANGED <<status, replaces, clear, raced>>
BY DEF Papers!Begin, Papers!TypeOK

LEMMA SubmitEffect ==
  ASSUME Papers!TypeOK, NEW a \in Actors, NEW d \in Documents, NEW t \in Documents \cup {NoDocument},
         Papers!Submit(a, d, t)
  PROVE  /\ act'[a].at = "register" /\ act'[a].doc = d /\ act'[a].target = t
         /\ act'[a].keep <=> (t = NoDocument \/ status[t] = "verified")
         /\ \A b \in Actors \ {a} : act'[b] = act[b]
         /\ UNCHANGED <<status, replaces, clear, raced>>
BY DEF Papers!Submit, Papers!TypeOK, Papers!Idle

\* What the others at work keep, and notice, when somebody commits a change of t.
LEMMA CommitEffect ==
  ASSUME Papers!TypeOK, NEW a \in Actors, NEW t, Papers!Commit(a, t)
  PROVE  /\ act'[a].at = "idle"
         /\ \A b \in Actors \ {a} :
               /\ act'[b].at = act[b].at /\ act'[b].doc = act[b].doc
               /\ act'[b].target = act[b].target /\ act'[b].keep = act[b].keep
               /\ act'[b].verdict = act[b].verdict /\ act'[b].snapshot = act[b].snapshot
               /\ act[b].stale \/ Papers!Deciding(b, t) => act'[b].stale
BY DEF Papers!Commit, Papers!TypeOK, Papers!Idle

LEMMA VerdictEffect ==
  ASSUME Papers!TypeOK, Papers!ConstantsOK, Registered, NEW a \in Actors, Papers!Decide(a),
         NEW d, d = act[a].doc
  PROVE  /\ d \in Documents /\ replaces' = replaces
         /\ \A e \in Documents : /\ status'[e] = "none" <=> status[e] = "none"
                                 /\ status[e] \in Kept => status'[e] \in {status[e], "superseded"}
                                 /\ status'[e] = "verified" => status[e] = "verified" \/ e = d
<1>1. d \in Documents /\ act[a].verdict # "none" /\ status[d] = "pending" /\ replaces' = replaces
  BY DEF Papers!Decide, Registered, Reviewed, Reviewing
<1>2. ASSUME NEW e \in Documents, e # d
      PROVE  \/ status'[e] = status[e]
             \/ status'[e] = "superseded" /\ e = replaces[d]
  BY <1>2 DEF Papers!Decide
<1>3. status'[d] = act[a].verdict
  BY <1>1 DEF Papers!Decide
<1>4. replaces[d] # NoDocument => status[replaces[d]] \in Kept
  BY <1>1 DEF Registered, KeptReplaced
<1>5. NoDocument \notin Documents
  BY DEF Papers!ConstantsOK
<1> QED BY <1>1, <1>2, <1>3, <1>4, <1>5 DEF Kept

LEMMA PaperRegisteredStep ==
  ASSUME Papers!ConstantsOK, PaperInv, Papers!TypeOK', [Papers!Next]_(Papers!vars)
  PROVE  Registered'
<1> USE DEF PaperInv, Papers!TypeOK, Papers!Statuses, Papers!ConstantsOK, Registered, Registering, RegisteredOnce, Reviewed, KeptReplaced, Reviewing, Kept
<1>1. ASSUME NEW a \in Actors, Papers!Register(a) PROVE Registered'
  BY <1>1 DEF Papers!Register, Papers!Commit, Papers!Idle
<1>2. ASSUME NEW a \in Actors, Papers!GiveUp(a) PROVE Registered'
  BY <1>2 DEF Papers!GiveUp, Papers!Idle
<1>3. ASSUME NEW a \in Actors, Papers!Begin(a) PROVE Registered'
  <2> USE <1>3, BeginEffect
  <2>3. Registering'
    OBVIOUS
  <2>4. RegisteredOnce'
    OBVIOUS
  <2>5. Reviewed'
    OBVIOUS
  <2>6. KeptReplaced'
    OBVIOUS
  <2> QED BY <2>3, <2>4, <2>5, <2>6
<1>4. ASSUME NEW a \in Actors, Papers!Decide(a) PROVE Registered'
  <2> DEFINE d == act[a].doc
             u == IF act[a].verdict = "verified" /\ replaces[d] \in act[a].snapshot
                  THEN replaces[d] ELSE NoDocument
  <2>1. Papers!Commit(a, u)
    BY <1>4 DEF Papers!Decide
  <2> USE <2>1, CommitEffect, <1>4, VerdictEffect
  <2> HIDE DEF u
  <2>2. Registering'
    OBVIOUS
  <2>3. RegisteredOnce'
    OBVIOUS
  <2>4. Reviewed'
    OBVIOUS
  <2>5. KeptReplaced'
    OBVIOUS
  <2> QED BY <2>2, <2>3, <2>4, <2>5
<1>5. ASSUME NEW a \in Actors, NEW d \in Documents, NEW t \in Documents \cup {NoDocument},
             Papers!Submit(a, d, t) PROVE Registered'
  <2>1. status[d] = "none" /\ (t # NoDocument => status[t] \notin {"none", "superseded"})
    BY <1>5 DEF Papers!Submit, Papers!Stored
  <2>2. \A b \in Actors : act[b].at = "register" => act[b].doc # d
    BY <1>5 DEF Papers!Submit, Papers!BeingSubmitted
  <2> USE <1>5, <2>1, <2>2, SubmitEffect
  <2>3. Registering'
    <3>1. \A b \in Actors \ {a} : act'[b].at = "register" => act[b].doc # d /\ act'[b].doc = act[b].doc
      OBVIOUS
    <3> QED BY <3>1, SMTT(30)
  <2>4. RegisteredOnce'
    OBVIOUS
  <2>5. Reviewed'
    OBVIOUS
  <2>6. KeptReplaced'
    OBVIOUS
  <2> QED BY <2>3, <2>4, <2>5, <2>6
<1>6. ASSUME NEW a \in Actors, NEW d \in Documents, NEW verdict \in {"verified", "rejected"},
             Papers!Review(a, d, verdict) PROVE Registered'
  BY <1>6 DEF Papers!Review, Papers!Idle
<1>7. ASSUME NEW d \in Documents, Papers!Inspect(d) PROVE Registered'
  BY <1>7 DEF Papers!Inspect
<1>8. CASE UNCHANGED Papers!vars
  BY <1>8 DEF Papers!vars
<1> QED BY <1>1, <1>2, <1>3, <1>4, <1>5, <1>6, <1>7, <1>8 DEF Papers!Next

LEMMA PaperNoticedStep ==
  ASSUME Papers!ConstantsOK, PaperInv, Papers!TypeOK', [Papers!Next]_(Papers!vars)
  PROVE  Noticed'
<1> USE DEF PaperInv, Papers!TypeOK, Papers!Statuses, Papers!ConstantsOK, Registered, Registering, RegisteredOnce, Reviewed, KeptReplaced, Reviewing, Kept, Noticed, Replaced, Papers!Siblings
<1>1. ASSUME NEW a \in Actors, Papers!Register(a) PROVE Noticed'
  <2> DEFINE d == act[a].doc
  <2>1. d \in Documents /\ status[d] = "none" /\ status'[d] = "pending"
    BY <1>1 DEF Papers!Register
  <2>2. \A e \in Documents \ {d} : /\ replaces'[e] = replaces[e]
                                   /\ status'[e] \in {status[e], "superseded"}
    BY <1>1 DEF Papers!Register
  <2>3. \A b \in Actors : act'[b].at = "decide" =>
           /\ b # a /\ act[b].at = "decide" /\ act[b].doc # d /\ act'[b].doc = act[b].doc
           /\ act'[b].snapshot = act[b].snapshot /\ (act[b].stale => act'[b].stale)
    <3>1. \A b \in Actors \ {a} : /\ act'[b].at = act[b].at /\ act'[b].doc = act[b].doc
                                  /\ act'[b].snapshot = act[b].snapshot
                                  /\ act[b].stale => act'[b].stale
      BY <1>1 DEF Papers!Register, Papers!Commit
    <3>2. act'[a].at = "idle"
      BY <1>1 DEF Papers!Register, Papers!Commit, Papers!Idle
    <3> QED BY <3>1, <3>2, <2>1
  <2>4. raced' = raced
    BY <1>1 DEF Papers!Register
  <2> HIDE DEF d
  <2> QED BY <2>1, <2>2, <2>3, <2>4, SMTT(30)
<1>2. ASSUME NEW a \in Actors, Papers!GiveUp(a) PROVE Noticed'
  BY <1>2 DEF Papers!GiveUp, Papers!Idle
<1>3. ASSUME NEW a \in Actors, Papers!Begin(a) PROVE Noticed'
  BY <1>3, BeginEffect DEF Papers!With
<1>4. ASSUME NEW a \in Actors, Papers!Decide(a) PROVE Noticed'
  <2> DEFINE d == act[a].doc
             t == replaces[d]
             supersedes == act[a].verdict = "verified" /\ t \in act[a].snapshot
  <2>1. Papers!Commit(a, IF supersedes THEN t ELSE NoDocument)
    BY <1>4 DEF Papers!Decide
  <2>2. raced \subseteq raced' /\ status'[d] = act[a].verdict
    BY <1>4 DEF Papers!Decide
  <2>3. ASSUME NEW b \in Actors \ {a}, Papers!Deciding(b, t), act[a].verdict = "verified", ~supersedes
        PROVE  t \in raced'
    BY <1>4, <2>3 DEF Papers!Decide
  <2> SUFFICES ASSUME NEW b \in Actors, (act[b].at = "decide" /\ Replaced(b) # NoDocument)'
               PROVE  (/\ Replaced(b) \notin act[b].snapshot => status[Replaced(b)] = "superseded"
                       /\ ~act[b].stale =>
                            \A e \in Papers!Siblings(act[b].doc) :
                               status[e] = "verified" /\ e \notin act[b].snapshot
                                  => Replaced(b) \in raced)'
    OBVIOUS
  <2> DEFINE f == act[b].doc
             R == replaces[f]
  <2>4. /\ b # a /\ act[b].at = "decide" /\ act'[b].doc = f /\ act'[b].snapshot = act[b].snapshot
        /\ act[b].stale => act'[b].stale
        /\ supersedes /\ Papers!Deciding(b, t) => act'[b].stale
    BY <2>1, CommitEffect
  <2>5. /\ d \in Documents /\ replaces' = replaces
        /\ \A e \in Documents : /\ status[e] \in Kept => status'[e] \in {status[e], "superseded"}
                                /\ status'[e] = "verified" => status[e] = "verified" \/ e = d
    BY <1>4, VerdictEffect
  <2>6. f \in Documents /\ R \in Documents /\ status[R] \in Kept
    BY <2>4, <2>5
  <2>7. R \notin act'[b].snapshot => status'[R] = "superseded"
    BY <2>4, <2>5, <2>6
  <2>8. ASSUME ~act'[b].stale, NEW e \in Documents \ {f}, replaces[e] = R,
               status'[e] = "verified", e \notin act[b].snapshot
        PROVE  R \in raced'
    <3>1. CASE status[e] = "verified"
      BY <2>2, <2>4, <2>6, <2>8, <3>1
    <3>2. CASE status[e] # "verified"
      <4>1. e = d /\ t = R /\ act[a].verdict = "verified"
        BY <2>2, <2>5, <2>8, <3>2
      <4>2. Papers!Deciding(b, t)
        BY <2>4, <2>5, <4>1 DEF Papers!Deciding
      <4> QED BY <2>3, <2>4, <2>8, <4>1, <4>2
    <3> QED BY <3>1, <3>2
  <2> QED BY <2>4, <2>5, <2>7, <2>8
<1>5. ASSUME NEW a \in Actors, NEW d \in Documents, NEW t \in Documents \cup {NoDocument},
             Papers!Submit(a, d, t) PROVE Noticed'
  BY <1>5 DEF Papers!Submit, Papers!Idle, Papers!Stored, Papers!BeingSubmitted
<1>6. ASSUME NEW a \in Actors, NEW d \in Documents, NEW verdict \in {"verified", "rejected"},
             Papers!Review(a, d, verdict) PROVE Noticed'
  BY <1>6 DEF Papers!Review, Papers!Idle
<1>7. ASSUME NEW d \in Documents, Papers!Inspect(d) PROVE Noticed'
  BY <1>7 DEF Papers!Inspect
<1>8. CASE UNCHANGED Papers!vars
  BY <1>8 DEF Papers!vars
<1> QED BY <1>1, <1>2, <1>3, <1>4, <1>5, <1>6, <1>7, <1>8 DEF Papers!Next

LEMMA PaperForceStep ==
  ASSUME Papers!ConstantsOK, PaperInv, Papers!TypeOK', [Papers!Next]_(Papers!vars)
  PROVE  InForce'
<1> USE DEF PaperInv, Papers!TypeOK, Papers!Statuses, Papers!ConstantsOK, Registered, Registering, RegisteredOnce, Reviewed, KeptReplaced, Reviewing, Kept, Noticed, Replaced, Papers!Siblings, InForce
<1>1. ASSUME NEW a \in Actors, Papers!Register(a) PROVE InForce'
  BY <1>1 DEF Papers!Register, Papers!Commit, Papers!Idle
<1>2. ASSUME NEW a \in Actors, Papers!GiveUp(a) PROVE InForce'
  BY <1>2 DEF Papers!GiveUp, Papers!Idle
<1>3. ASSUME NEW a \in Actors, Papers!Begin(a) PROVE InForce'
  BY <1>3, BeginEffect
<1>4. ASSUME NEW a \in Actors, Papers!Decide(a) PROVE InForce'
  BY <1>4 DEF Papers!Decide, Papers!Permitted, Papers!Commit, Papers!Deciding, Papers!Idle
<1>5. ASSUME NEW a \in Actors, NEW d \in Documents, NEW t \in Documents \cup {NoDocument},
             Papers!Submit(a, d, t) PROVE InForce'
  BY <1>5 DEF Papers!Submit, Papers!Idle, Papers!Stored, Papers!BeingSubmitted
<1>6. ASSUME NEW a \in Actors, NEW d \in Documents, NEW verdict \in {"verified", "rejected"},
             Papers!Review(a, d, verdict) PROVE InForce'
  BY <1>6 DEF Papers!Review, Papers!Idle
<1>7. ASSUME NEW d \in Documents, Papers!Inspect(d) PROVE InForce'
  BY <1>7 DEF Papers!Inspect
<1>8. CASE UNCHANGED Papers!vars
  BY <1>8 DEF Papers!vars
<1> QED BY <1>1, <1>2, <1>3, <1>4, <1>5, <1>6, <1>7, <1>8 DEF Papers!Next

LEMMA PaperStep == ASSUME Papers!ConstantsOK, PaperInv, [Papers!Next]_(Papers!vars) PROVE PaperInv'
<1>1. Papers!TypeOK'
  BY PaperTypeStep
<1> QED BY <1>1, PaperRegisteredStep, PaperNoticedStep, PaperForceStep DEF PaperInv

\* A document and the one that replaces it are not both in force, nor are two replacements
\* of it, but for reviews of the same moment (provider-documents.ts).
THEOREM ReplacedOutOfForce == ASSUME Papers!ConstantsOK PROVE Papers!Spec => []Papers!ReplacedNotInForce
<1>1. Papers!Init => PaperInv
  BY PaperStart
<1>2. PaperInv /\ [Papers!Next]_(Papers!vars) => PaperInv'
  BY PaperStep
<1>3. PaperInv => Papers!ReplacedNotInForce
  BY PaperSound
<1> QED BY <1>1, <1>2, <1>3, PTL DEF Papers!Spec

-----------------------------------------------------------------------------
(* Connections. *)

CallRow == [kind : Vault!Kinds \cup {"none"},
            at : {"idle", "row", "vault", "write", "credential", "refresh", "ask"},
            of : Connections \cup {NoConnection}, secret : Vault!Secrets \cup {Vault!NoSecret},
            attention : BOOLEAN, keeps : BOOLEAN, first : BOOLEAN,
            heirs : SUBSET Connections, stale : BOOLEAN]

\* What a call is about to do follows from its kind.
Stages ==
  \A p \in Calls :
    /\ call[p].kind = "none" <=> call[p].at = "idle"
    /\ call[p].at # "idle" => call[p].of \in Connections
    /\ call[p].kind = "connect" <=> call[p].at \in {"row", "vault"}
    /\ call[p].kind \in {"revoke", "primary"} <=> call[p].at = "write"
    /\ call[p].kind \in Vault!Uses <=> call[p].at \in {"credential", "refresh", "ask"}

\* What a call that nobody has overtaken still knows of its connection.
Unmoved(p) == LET c == call[p].of IN
  /\ call[p].at = "vault" => row[c].status \notin {"connected", "revoked"}
  /\ call[p].kind = "primary" => row[c].status # "revoked"
  /\ call[p].at = "refresh" => vault[c].live
  /\ call[p].at = "ask" /\ call[p].secret # Vault!NoSecret =>
        vault[c].live /\ (vault[c].secret = call[p].secret \/ vault[c].secret \in accepted)

OnePrimary == \A c, d \in Connections : row[c].isPrimary /\ row[d].isPrimary => c = d

Settled ==
  \A c \in Connections \ overtaken :
    /\ row[c].status = "connected" => vault[c].live /\ vault[c].secret \in accepted
    /\ row[c].status = "revoked" => ~vault[c].live /\ ~row[c].isPrimary

Untouched == \A p \in Calls : call[p].at # "idle" /\ ~call[p].stale => Unmoved(p)
VaultInv == Vault!TypeOK /\ Stages /\ Untouched /\ OnePrimary /\ Settled

LEMMA VaultStart == ASSUME Vault!ConstantsOK, Vault!Init PROVE VaultInv
BY DEF Vault!ConstantsOK, Vault!Init, Vault!NoRow, Vault!NoCredential, Vault!Idle, VaultInv,
  Vault!TypeOK, Vault!Statuses, Vault!Kinds, Vault!Secrets, Vault!NoSecret, Stages, Vault!Uses,
  Untouched, OnePrimary, Settled

LEMMA Overtaken ==
  ASSUME Vault!TypeOK, NEW p \in Calls, NEW c, NEW kinds, NEW next, Vault!Overtake(p, c, kinds, next)
  PROVE  /\ call'[p] = next
         /\ \A q \in Calls \ {p} :
               /\ call'[q].kind = call[q].kind /\ call'[q].at = call[q].at
               /\ call'[q].of = call[q].of /\ call'[q].secret = call[q].secret
               /\ call[q].stale => call'[q].stale
               /\ call[q].of = c /\ call[q].kind \in kinds => call'[q].stale
BY DEF Vault!Overtake, Vault!TypeOK

LEMMA WentOn ==
  ASSUME Vault!TypeOK, NEW p \in Calls, NEW at, NEW secret, Vault!GoOn(p, at, secret)
  PROVE  /\ call'[p].at = at /\ call'[p].secret = secret /\ call'[p].kind = call[p].kind
         /\ call'[p].of = call[p].of /\ call'[p].stale = call[p].stale
         /\ \A q \in Calls \ {p} : call'[q] = call[q]
BY DEF Vault!GoOn, Vault!TypeOK

LEMMA VaultSound == ASSUME VaultInv PROVE Vault!ConnectionSound
<1> DEFINE S == Vault!Primaries
<1>1. S = {} \/ \E d : S = {d}
  BY DEF VaultInv, OnePrimary, Vault!Primaries
<1>2. Vault!Cardinality(S) = Cardinality(S)
  BY DEF Vault!Cardinality, Cardinality
<1>3. Cardinality(S) <= 1
  <2> HIDE DEF S
  <2>1. CASE S = {}
    BY <2>1, FS_EmptySet
  <2>2. ASSUME NEW d, S = {d} PROVE Cardinality(S) = 1
    BY <2>2, FS_Singleton
  <2> QED BY <1>1, <2>1, <2>2
<1> QED BY <1>2, <1>3 DEF VaultInv, Settled, Vault!ConnectionSound, Vault!Live

ConnectionRow == [status : Vault!Statuses, isPrimary : BOOLEAN, attention : BOOLEAN]
CredentialRow == [secret : Vault!Secrets \cup {Vault!NoSecret}, oauth : BOOLEAN, live : BOOLEAN]

LEMMA Rows ==
  ASSUME Vault!TypeOK
  PROVE  /\ row \in [Connections -> ConnectionRow] /\ vault \in [Connections -> CredentialRow]
         /\ call \in [Calls -> CallRow] /\ Vault!Idle \in CallRow
         /\ issued \in 0 .. MaxSecrets
BY DEF Vault!TypeOK, ConnectionRow, CredentialRow, CallRow, Vault!Idle

LEMMA OvertakeType ==
  ASSUME Vault!TypeOK, NEW p \in Calls, NEW c, NEW kinds, NEW next \in CallRow,
         Vault!Overtake(p, c, kinds, next)
  PROVE  call' \in [Calls -> CallRow]
<1>1. ASSUME NEW q \in Calls PROVE [call[q] EXCEPT !.stale = TRUE] \in CallRow
  BY Rows DEF CallRow
<1> QED BY <1>1, Rows DEF Vault!Overtake

LEMMA StoreType ==
  ASSUME Vault!ConstantsOK, Vault!TypeOK, NEW c \in Connections, NEW oauth \in BOOLEAN, Vault!Store(c, oauth)
  PROVE  /\ vault' \in [Connections -> CredentialRow] /\ issued' \in 0 .. MaxSecrets
         /\ issued + 1 \in Vault!Secrets
<1>1. issued + 1 \in Vault!Secrets
  BY DEF Vault!Store, Vault!Secrets, Vault!TypeOK, Vault!ConstantsOK
<1>2. [secret |-> issued + 1, oauth |-> oauth, live |-> TRUE] \in CredentialRow
  BY <1>1 DEF CredentialRow
<1> QED BY <1>1, <1>2, Rows DEF Vault!Store, Vault!ConstantsOK, Vault!Secrets

LEMMA GoOnType ==
  ASSUME Vault!TypeOK, NEW p \in Calls, NEW at \in {"ask", "refresh"},
         NEW secret \in Vault!Secrets \cup {Vault!NoSecret}, Vault!GoOn(p, at, secret)
  PROVE  call' \in [Calls -> CallRow]
<1>1. [call[p] EXCEPT !.at = at, !.secret = secret] \in CallRow
  BY Rows DEF CallRow
<1> QED BY <1>1, Rows DEF Vault!GoOn

LEMMA OutcomeType ==
  ASSUME Vault!TypeOK, NEW p \in Calls, call[p].of \in Connections,
         NEW s \in Vault!Statuses, NEW attention \in BOOLEAN, Vault!Outcome(p, s, attention)
  PROVE  /\ row' \in [Connections -> ConnectionRow] /\ call' \in [Calls -> CallRow]
         /\ overtaken' \subseteq Connections
<1> DEFINE c == call[p].of
<1>1. [row[c] EXCEPT !.status = s, !.attention = attention] \in ConnectionRow
  BY Rows DEF ConnectionRow
<1>2. row' \in [Connections -> ConnectionRow]
  BY <1>1, Rows DEF Vault!Outcome
<1>3. overtaken' \subseteq Connections
  BY DEF Vault!Outcome, Vault!Written, Vault!TypeOK
<1> QED BY <1>2, <1>3, Rows, OvertakeType DEF Vault!Outcome

LEMMA VaultTypes ==
  ASSUME row' \in [Connections -> ConnectionRow], vault' \in [Connections -> CredentialRow],
         call' \in [Calls -> CallRow], issued' \in 0 .. MaxSecrets,
         accepted' \subseteq Vault!Secrets, overtaken' \subseteq Connections
  PROVE  Vault!TypeOK'
BY DEF Vault!TypeOK, ConnectionRow, CredentialRow, CallRow

LEMMA VaultTypeStep ==
  ASSUME Vault!ConstantsOK, VaultInv, [Vault!Next]_(Vault!vars)
  PROVE  Vault!TypeOK'
<1> USE VaultTypes, Rows DEF VaultInv
<1>0. accepted \subseteq Vault!Secrets /\ overtaken \subseteq Connections
  BY DEF Vault!TypeOK
<1>1. ASSUME NEW p \in Calls, NEW c \in Connections, Vault!StartConnecting(p, c) PROVE Vault!TypeOK'
  <2>1. call' \in [Calls -> CallRow]
    BY <1>1, ZenonT(30) DEF Vault!StartConnecting, CallRow, Vault!Idle, Vault!Kinds, Vault!Live, ConnectionRow, CredentialRow
  <2> QED BY <1>0, <1>1, <2>1 DEF Vault!StartConnecting
<1>2. ASSUME NEW p \in Calls, NEW c \in Connections, Vault!StartRevoking(p, c) PROVE Vault!TypeOK'
  <2>1. call' \in [Calls -> CallRow]
    BY <1>2 DEF Vault!StartRevoking, CallRow, Vault!Idle, Vault!Kinds, Vault!Existing
  <2> QED BY <1>0, <1>2, <2>1 DEF Vault!StartRevoking
<1>3. ASSUME NEW p \in Calls, NEW c \in Connections, Vault!StartPrimary(p, c) PROVE Vault!TypeOK'
  <2>1. call' \in [Calls -> CallRow]
    BY <1>3 DEF Vault!StartPrimary, CallRow, Vault!Idle, Vault!Kinds
  <2> QED BY <1>0, <1>3, <2>1 DEF Vault!StartPrimary
<1>4. ASSUME NEW p \in Calls, NEW c \in Connections, NEW kind \in Vault!Uses,
             Vault!StartUsing(p, c, kind) PROVE Vault!TypeOK'
  <2>1. call' \in [Calls -> CallRow]
    BY <1>4 DEF Vault!StartUsing, CallRow, Vault!Idle, Vault!Kinds, Vault!Uses, ConnectionRow
  <2> QED BY <1>0, <1>4, <2>1 DEF Vault!StartUsing
<1>5. ASSUME NEW p \in Calls, Vault!ConnectRow(p) PROVE Vault!TypeOK'
  <2> DEFINE c == call[p].of
  <2>1. c \in Connections /\ UNCHANGED <<vault, issued, accepted>>
    BY <1>5 DEF Vault!ConnectRow, Stages
  <2>2. [call[p] EXCEPT !.at = "vault"] \in CallRow
    BY DEF CallRow
  <2>3. call' \in [Calls -> CallRow]
    BY <1>5, <2>2, OvertakeType DEF Vault!ConnectRow
  <2>4. row' \in [Connections -> ConnectionRow]
    <3>1. \A s \in {"pending", "requires_attention"} :
             [status |-> s, isPrimary |-> row[c].isPrimary \/ call[p].first,
              attention |-> call[p].attention] \in ConnectionRow
      BY <2>1 DEF ConnectionRow, CallRow, Vault!Statuses
    <3> QED BY <1>5, <2>1, <3>1 DEF Vault!ConnectRow
  <2>5. overtaken' \subseteq Connections
    BY <1>0, <1>5, <2>1 DEF Vault!ConnectRow, Vault!Written
  <2> QED BY <1>0, <2>1, <2>3, <2>4, <2>5
<1>6. ASSUME NEW p \in Calls, Vault!ConnectVault(p) PROVE Vault!TypeOK'
  <2>1. call[p].of \in Connections
    BY <1>6 DEF Vault!ConnectVault, Stages
  <2> QED BY <1>0, <1>6, <2>1, OvertakeType, StoreType DEF Vault!ConnectVault, Vault!Written
<1>7. ASSUME NEW p \in Calls, Vault!Revoke(p) PROVE Vault!TypeOK'
  <2> DEFINE c == call[p].of
  <2>1. c \in Connections /\ UNCHANGED <<issued, accepted>>
    BY <1>7 DEF Vault!Revoke, Stages
  <2>2. [vault[c] EXCEPT !.live = FALSE] \in CredentialRow
    BY <2>1 DEF CredentialRow
  <2>3. vault' \in [Connections -> CredentialRow]
    BY <1>7, <2>1, <2>2 DEF Vault!Revoke
  <2>4. /\ [row[c] EXCEPT !.status = "revoked", !.isPrimary = FALSE] \in ConnectionRow
        /\ \A d \in Connections : [row[d] EXCEPT !.isPrimary = TRUE] \in ConnectionRow
    BY <2>1 DEF ConnectionRow, Vault!Statuses
  <2>5. row' \in [Connections -> ConnectionRow]
    BY <1>7, <2>1, <2>4 DEF Vault!Revoke
  <2>6. call' \in [Calls -> CallRow]
    BY <1>7, OvertakeType DEF Vault!Revoke
  <2>7. overtaken' \subseteq Connections
    BY <1>0, <1>7, <2>1 DEF Vault!Revoke, Vault!Revoked
  <2> QED BY <1>0, <2>1, <2>3, <2>5, <2>6, <2>7
<1>8. ASSUME NEW p \in Calls, Vault!SetPrimary(p) PROVE Vault!TypeOK'
  <2>1. call[p].of \in Connections
    BY <1>8 DEF Vault!SetPrimary, Stages
  <2>2. \A d \in Connections : [row[d] EXCEPT !.isPrimary = (d = call[p].of)] \in ConnectionRow
    BY DEF ConnectionRow
  <2>3. row' \in [Connections -> ConnectionRow]
    BY <1>8, <2>2 DEF Vault!SetPrimary
  <2> QED BY <1>0, <1>8, <2>1, <2>3 DEF Vault!SetPrimary, Vault!Written
<1>9. ASSUME NEW p \in Calls, Vault!ReadCredential(p) PROVE Vault!TypeOK'
  <2>1. vault[call[p].of].secret \in Vault!Secrets \cup {Vault!NoSecret}
    BY <1>9 DEF Vault!ReadCredential, Stages, CredentialRow
  <2>2. call' \in [Calls -> CallRow]
    BY <1>9, <2>1, GoOnType DEF Vault!ReadCredential
  <2> QED BY <1>0, <1>9, <2>2 DEF Vault!ReadCredential
<1>10. ASSUME NEW p \in Calls, Vault!Refresh(p) PROVE Vault!TypeOK'
  <2>1. call[p].of \in Connections /\ UNCHANGED row
    BY <1>10 DEF Vault!Refresh, Stages
  <2>2. CASE /\ Vault!Store(call[p].of, TRUE) /\ accepted' = accepted \cup {issued + 1}
             /\ Vault!GoOn(p, "ask", issued + 1) /\ Vault!Written(p, call[p].of)
    BY <1>0, <2>1, <2>2, StoreType, GoOnType DEF Vault!Written
  <2>3. CASE Vault!GoOn(p, "ask", Vault!NoSecret) /\ UNCHANGED <<vault, issued, accepted, overtaken>>
    BY <1>0, <2>1, <2>3, GoOnType
  <2> QED BY <1>10, <2>2, <2>3 DEF Vault!Refresh
<1>11. ASSUME NEW p \in Calls, Vault!Tested(p) PROVE Vault!TypeOK'
  <2>1. call[p].of \in Connections /\ UNCHANGED <<vault, issued>> /\ call[p] \in CallRow
    BY <1>11 DEF Vault!Tested, Stages
  <2>2. accepted' \subseteq Vault!Secrets
    BY <1>0, <1>11, <2>1, ZenonT(30) DEF Vault!Tested, Vault!Accepted, CallRow
  <2>3. row' \in [Connections -> ConnectionRow] /\ call' \in [Calls -> CallRow] /\ overtaken' \subseteq Connections
    <3>1. {"requires_attention", "connected", "error"} \subseteq Vault!Statuses /\ call[p].attention \in BOOLEAN
      BY <2>1 DEF Vault!Statuses, CallRow
    <3> QED BY <1>11, <2>1, <3>1, OutcomeType DEF Vault!Tested
  <2> QED BY <2>1, <2>2, <2>3
<1>12. ASSUME NEW p \in Calls, Vault!Synced(p) PROVE Vault!TypeOK'
  <2>1. call[p].of \in Connections /\ UNCHANGED <<vault, issued>> /\ call[p] \in CallRow
    BY <1>12 DEF Vault!Synced, Stages
  <2>2. accepted' \subseteq Vault!Secrets
    BY <1>0, <1>12, <2>1 DEF Vault!Synced, Vault!Accepted, CallRow
  <2>3. row' \in [Connections -> ConnectionRow] /\ call' \in [Calls -> CallRow] /\ overtaken' \subseteq Connections
    BY <1>12, <2>1, OutcomeType DEF Vault!Synced, Vault!Statuses
  <2> QED BY <2>1, <2>2, <2>3
<1>13. ASSUME NEW p \in Calls, Vault!Activated(p) PROVE Vault!TypeOK'
  <2>1. call[p].of \in Connections /\ UNCHANGED <<vault, issued>> /\ call[p] \in CallRow
    BY <1>13 DEF Vault!Activated, Stages
  <2>2. accepted' \subseteq Vault!Secrets
    BY <1>0, <1>13, <2>1 DEF Vault!Activated, Vault!Accepted, CallRow
  <2>3. row' \in [Connections -> ConnectionRow] /\ call' \in [Calls -> CallRow] /\ overtaken' \subseteq Connections
    BY <1>13, <2>1, OutcomeType DEF Vault!Activated, Vault!Statuses
  <2> QED BY <2>1, <2>2, <2>3
<1>14. ASSUME NEW p \in Calls, Vault!Stop(p) PROVE Vault!TypeOK'
  BY <1>0, <1>14 DEF Vault!Stop
<1>15. CASE UNCHANGED Vault!vars
  BY <1>15 DEF Vault!TypeOK, Vault!vars
<1> QED BY <1>1, <1>2, <1>3, <1>4, <1>5, <1>6, <1>7, <1>8, <1>9, <1>10, <1>11, <1>12, <1>13, <1>14, <1>15 DEF Vault!Next

\* A revocation is rolled back, or it marks c revoked and one of the heirs primary.
RolledBack(p) == /\ call' = [call EXCEPT ![p] = Vault!Idle]
                 /\ UNCHANGED <<row, vault, issued, accepted, overtaken>>
Withdrawn(p, c) ==
  /\ Vault!Overtake(p, c, Vault!Kinds, Vault!Idle)
  /\ row'[c].status = "revoked" /\ ~row'[c].isPrimary
  /\ vault'[c].live = FALSE
  /\ \A d \in Connections \ {c} : row'[d].status = row[d].status /\ vault'[d] = vault[d]
  /\ UNCHANGED <<issued, accepted>>
Inherited(c, heir) ==
  /\ \A d \in Connections \ {c, heir} : row'[d].isPrimary => heir = NoConnection /\ row[d].isPrimary
  /\ overtaken' = (overtaken \ {c}) \cup ({heir} \cap Vault!Revoked)

LEMMA RevokeEffect ==
  ASSUME Vault!ConstantsOK, Vault!TypeOK, NEW p \in Calls, Vault!Revoke(p), call[p].of \in Connections
  PROVE  \/ RolledBack(p)
         \/ /\ Withdrawn(p, call[p].of)
            /\ \E heir \in Connections \cup {NoConnection} : Inherited(call[p].of, heir)
<1> DEFINE c == call[p].of  heirs == call[p].heirs
<1>1. PICK heir \in IF heirs = {} THEN {NoConnection} ELSE heirs :
          IF heir # NoConnection /\ Vault!Primaries \ {c, heir} # {}
          THEN /\ call' = [call EXCEPT ![p] = Vault!Idle]
               /\ UNCHANGED <<row, vault, overtaken>>
          ELSE /\ row' = [d \in Connections |->
                             IF d = c THEN [row[c] EXCEPT !.status = "revoked",
                                                          !.isPrimary = FALSE]
                             ELSE IF d = heir THEN [row[d] EXCEPT !.isPrimary = TRUE]
                             ELSE row[d]]
               /\ vault' = [vault EXCEPT ![c].live = FALSE]
               /\ Vault!Overtake(p, c, Vault!Kinds, Vault!Idle)
               /\ overtaken' = (overtaken \ {c}) \cup ({heir} \cap Vault!Revoked)
  BY DEF Vault!Revoke
<1>2. UNCHANGED <<issued, accepted>>
  BY DEF Vault!Revoke
<1>3. CASE heir # NoConnection /\ Vault!Primaries \ {c, heir} # {}
  BY <1>1, <1>2, <1>3 DEF RolledBack
<1>4. CASE ~(heir # NoConnection /\ Vault!Primaries \ {c, heir} # {})
  <2>1. /\ row'[c].status = "revoked" /\ ~row'[c].isPrimary
        /\ \A d \in Connections \ {c} : row'[d].status = row[d].status
        /\ \A d \in Connections \ {c, heir} : row'[d].isPrimary => row[d].isPrimary
    <3>1. row' = [d \in Connections |->
                     IF d = c THEN [row[c] EXCEPT !.status = "revoked", !.isPrimary = FALSE]
                     ELSE IF d = heir THEN [row[d] EXCEPT !.isPrimary = TRUE] ELSE row[d]]
      BY <1>1, <1>4
    <3>2. row'[c].status = "revoked" /\ ~row'[c].isPrimary
      BY <3>1 DEF Vault!TypeOK
    <3>3. \A d \in Connections \ {c} : row'[d].status = row[d].status
      BY <3>1 DEF Vault!TypeOK
    <3>4. \A d \in Connections \ {c, heir} : row'[d] = row[d]
      BY <3>1
    <3> QED BY <3>2, <3>3, <3>4
  <2>2. vault'[c].live = FALSE /\ \A d \in Connections \ {c} : vault'[d] = vault[d]
    BY <1>1, <1>4 DEF Vault!TypeOK
  <2>3. ASSUME NEW d \in Connections \ {c, heir}, row'[d].isPrimary
        PROVE  heir = NoConnection /\ row[d].isPrimary
    <3>1. row[d].isPrimary
      BY <2>1, <2>3
    <3>2. d \in Vault!Primaries \ {c, heir}
      BY <3>1 DEF Vault!Primaries
    <3> QED BY <3>1, <3>2, <1>4
  <2>4. Vault!Overtake(p, c, Vault!Kinds, Vault!Idle) /\ overtaken' = (overtaken \ {c}) \cup ({heir} \cap Vault!Revoked)
    BY <1>1, <1>4
  <2>5. heir \in Connections \cup {NoConnection}
    BY <1>1 DEF Vault!TypeOK
  <2>6. Withdrawn(p, c)
    BY <1>2, <2>1, <2>2, <2>4 DEF Withdrawn
  <2>7. Inherited(c, heir)
    BY <2>3, <2>4 DEF Inherited
  <2> QED BY <2>5, <2>6, <2>7
<1> QED BY <1>3, <1>4

LEMMA VaultStagesStep ==
  ASSUME Vault!ConstantsOK, VaultInv, Vault!TypeOK', [Vault!Next]_(Vault!vars)
  PROVE  Stages'
<1> USE DEF VaultInv, Vault!ConstantsOK, Vault!TypeOK, Stages, Vault!Kinds, Vault!Uses, Vault!Idle
<1>1. ASSUME NEW p \in Calls, NEW c \in Connections, Vault!StartConnecting(p, c) PROVE Stages'
  <2>1. /\ call'[p].kind = "connect" /\ call'[p].at = "row" /\ call'[p].of = c
        /\ \A q \in Calls \ {p} : call'[q] = call[q]
    BY <1>1 DEF Vault!StartConnecting
  <2> QED BY <2>1
<1>2. ASSUME NEW p \in Calls, NEW c \in Connections, Vault!StartRevoking(p, c) PROVE Stages'
  <2>1. /\ call'[p].kind = "revoke" /\ call'[p].at = "write" /\ call'[p].of = c
        /\ \A q \in Calls \ {p} : call'[q] = call[q]
    BY <1>2 DEF Vault!StartRevoking
  <2> QED BY <2>1
<1>3. ASSUME NEW p \in Calls, NEW c \in Connections, Vault!StartPrimary(p, c) PROVE Stages'
  BY <1>3 DEF Vault!StartPrimary
<1>4. ASSUME NEW p \in Calls, NEW c \in Connections, NEW kind \in Vault!Uses,
             Vault!StartUsing(p, c, kind) PROVE Stages'
  BY <1>4 DEF Vault!StartUsing, Vault!Existing, Vault!Uses
<1>5. ASSUME NEW p \in Calls, Vault!ConnectRow(p) PROVE Stages'
  BY <1>5, Overtaken, SMTT(30) DEF Vault!ConnectRow, Vault!Written
<1>6. ASSUME NEW p \in Calls, Vault!ConnectVault(p) PROVE Stages'
  BY <1>6, Overtaken, SMTT(30) DEF Vault!ConnectVault, Vault!Store, Vault!Written
<1>7. ASSUME NEW p \in Calls, Vault!Revoke(p) PROVE Stages'
  BY <1>7, Overtaken, SMTT(30) DEF Vault!Revoke
<1>8. ASSUME NEW p \in Calls, Vault!SetPrimary(p) PROVE Stages'
  BY <1>8 DEF Vault!SetPrimary, Vault!Written
<1>9. ASSUME NEW p \in Calls, Vault!ReadCredential(p) PROVE Stages'
  BY <1>9, WentOn, SMTT(30) DEF Vault!ReadCredential, Vault!Live
<1>10. ASSUME NEW p \in Calls, Vault!Refresh(p) PROVE Stages'
  BY <1>10, WentOn, SMTT(30) DEF Vault!Refresh, Vault!Store, Vault!Written
<1>11. ASSUME NEW p \in Calls, Vault!Tested(p) PROVE Stages'
  BY <1>11, Overtaken, SMTT(30) DEF Vault!Tested, Vault!Outcome, Vault!Accepted, Vault!Written
<1>12. ASSUME NEW p \in Calls, Vault!Synced(p) PROVE Stages'
  BY <1>12, Overtaken, SMTT(30) DEF Vault!Synced, Vault!Outcome, Vault!Accepted, Vault!Written
<1>13. ASSUME NEW p \in Calls, Vault!Activated(p) PROVE Stages'
  BY <1>13, Overtaken, SMTT(30) DEF Vault!Activated, Vault!Outcome, Vault!Accepted, Vault!Written
<1>14. ASSUME NEW p \in Calls, Vault!Stop(p) PROVE Stages'
  BY <1>14 DEF Vault!Stop
<1>15. CASE UNCHANGED Vault!vars
  BY <1>15 DEF Vault!vars
<1> QED BY <1>1, <1>2, <1>3, <1>4, <1>5, <1>6, <1>7, <1>8, <1>9, <1>10, <1>11, <1>12, <1>13, <1>14, <1>15 DEF Vault!Next

LEMMA VaultCallsStep ==
  ASSUME Vault!ConstantsOK, VaultInv, Vault!TypeOK', [Vault!Next]_(Vault!vars)
  PROVE  Untouched'
<1> USE DEF VaultInv, Vault!ConstantsOK, Vault!TypeOK, Stages, Vault!Kinds, Vault!Uses, Vault!Idle, Untouched, Unmoved
<1>1. ASSUME NEW p \in Calls, NEW c \in Connections, Vault!StartConnecting(p, c) PROVE Untouched'
  <2>1. /\ call'[p].kind = "connect" /\ call'[p].at = "row"
        /\ \A q \in Calls \ {p} : call'[q] = call[q]
        /\ UNCHANGED <<row, vault, accepted>>
    BY <1>1 DEF Vault!StartConnecting
  <2> QED BY <2>1
<1>2. ASSUME NEW p \in Calls, NEW c \in Connections, Vault!StartRevoking(p, c) PROVE Untouched'
  BY <1>2 DEF Vault!StartRevoking, Vault!Existing, Vault!Revoked
<1>3. ASSUME NEW p \in Calls, NEW c \in Connections, Vault!StartPrimary(p, c) PROVE Untouched'
  BY <1>3 DEF Vault!StartPrimary
<1>4. ASSUME NEW p \in Calls, NEW c \in Connections, NEW kind \in Vault!Uses,
             Vault!StartUsing(p, c, kind) PROVE Untouched'
  BY <1>4 DEF Vault!StartUsing, Vault!Existing, Vault!Uses
<1>5. ASSUME NEW p \in Calls, Vault!ConnectRow(p) PROVE Untouched'
  <2> DEFINE c == call[p].of
  <2>1. call[p].at = "row" /\ c \in Connections /\ UNCHANGED <<vault, issued, accepted>>
    BY <1>5 DEF Vault!ConnectRow
  <2>2. CASE call' = [call EXCEPT ![p] = Vault!Idle] /\ UNCHANGED row
    BY <2>1, <2>2
  <2>3. ASSUME NEW s \in {"pending", "requires_attention"}, row'[c].status = s,
               \A d \in Connections \ {c} : row'[d] = row[d],
               Vault!Overtake(p, c, Vault!Kinds, [call[p] EXCEPT !.at = "vault"])
               \/ Vault!Overtake(p, c, Vault!Kinds, Vault!Idle)
        PROVE  Untouched'
    <3> SUFFICES ASSUME NEW q \in Calls, call'[q].at # "idle", ~call'[q].stale PROVE Unmoved(q)'
      OBVIOUS
    <3>1. CASE q = p
      BY <2>1, <2>3, <3>1, Overtaken, SMTT(30)
    <3>2. CASE q # p
      <4>1. /\ call[q].at # "idle" /\ ~call[q].stale /\ call[q].of # c
            /\ call'[q].at = call[q].at /\ call'[q].kind = call[q].kind /\ call'[q].of = call[q].of
            /\ call'[q].secret = call[q].secret
        BY <2>3, <3>2, Overtaken
      <4> QED BY <2>1, <2>3, <4>1
    <3> QED BY <3>1, <3>2
  <2>4. \/ call' = [call EXCEPT ![p] = Vault!Idle] /\ UNCHANGED row
        \/ \E s \in {"pending", "requires_attention"} :
              /\ row'[c].status = s
              /\ \A d \in Connections \ {c} : row'[d] = row[d]
              /\ \/ Vault!Overtake(p, c, Vault!Kinds, [call[p] EXCEPT !.at = "vault"])
                 \/ Vault!Overtake(p, c, Vault!Kinds, Vault!Idle)
    BY <1>5, <2>1 DEF Vault!ConnectRow
  <2> QED BY <2>2, <2>3, <2>4
<1>6. ASSUME NEW p \in Calls, Vault!ConnectVault(p) PROVE Untouched'
  BY <1>6, Overtaken DEF Vault!ConnectVault, Vault!Store, Vault!Written
<1>7. ASSUME NEW p \in Calls, Vault!Revoke(p) PROVE Untouched'
  <2>1. call[p].of \in Connections
    BY <1>7 DEF Vault!Revoke, Stages
  <2>2. CASE RolledBack(p)
    BY <2>2 DEF RolledBack
  <2>3. ASSUME NEW q \in Calls, Withdrawn(p, call[p].of), call'[q].at # "idle", ~call'[q].stale
        PROVE  Unmoved(q)'
    <3>1. /\ q # p /\ call[q].at # "idle" /\ ~call[q].stale
          /\ call'[q].at = call[q].at /\ call'[q].kind = call[q].kind /\ call'[q].of = call[q].of
          /\ call'[q].secret = call[q].secret
      BY <2>3, Overtaken DEF Withdrawn
    <3>2. call[q].of \in Connections \ {call[p].of}
      BY <2>3, <3>1, Overtaken DEF Withdrawn
    <3> QED BY <2>3, <3>1, <3>2 DEF Withdrawn
  <2> QED BY <1>7, <2>1, <2>2, <2>3, RevokeEffect
<1>8. ASSUME NEW p \in Calls, Vault!SetPrimary(p) PROVE Untouched'
  BY <1>8 DEF Vault!SetPrimary, Vault!Written
<1>9. ASSUME NEW p \in Calls, Vault!ReadCredential(p) PROVE Untouched'
  BY <1>9, WentOn DEF Vault!ReadCredential, Vault!Live
<1>10. ASSUME NEW p \in Calls, Vault!Refresh(p) PROVE Untouched'
  <2> DEFINE c == call[p].of
  <2>1. call[p].at = "refresh" /\ c \in Connections /\ UNCHANGED row
    BY <1>10 DEF Vault!Refresh
  <2>2. CASE Vault!GoOn(p, "ask", Vault!NoSecret) /\ UNCHANGED <<vault, accepted>>
    BY <2>1, <2>2, WentOn
  <2>3. CASE Vault!GoOn(p, "ask", issued + 1) /\ Vault!Store(c, TRUE) /\ accepted' = accepted \cup {issued + 1}
    <3>1. /\ vault'[c].live /\ vault'[c].secret = issued + 1
          /\ \A d \in Connections \ {c} : vault'[d] = vault[d]
      BY <2>1, <2>3 DEF Vault!Store
    <3> SUFFICES ASSUME NEW q \in Calls, call'[q].at # "idle", ~call'[q].stale PROVE Unmoved(q)'
      OBVIOUS
    <3>2. CASE q = p
      <4>1. call'[p].at = "ask" /\ call'[p].secret = issued + 1 /\ call'[p].of = c /\ call'[p].kind = call[p].kind
        BY <2>3, WentOn
      <4> QED BY <2>1, <3>1, <3>2, <4>1
    <3>3. CASE q # p
      <4>1. call'[q] = call[q]
        BY <2>3, <3>3, WentOn
      <4>2. CASE call[q].of = c
        BY <2>1, <2>3, <3>1, <4>1, <4>2
      <4>3. CASE call[q].of # c
        BY <2>1, <2>3, <3>1, <4>1, <4>3
      <4> QED BY <4>2, <4>3
    <3> QED BY <3>2, <3>3
  <2> QED BY <1>10, <2>2, <2>3 DEF Vault!Refresh
<1>11. ASSUME NEW p \in Calls, Vault!Tested(p) PROVE Untouched'
  BY <1>11, Overtaken DEF Vault!Tested, Vault!Outcome, Vault!Accepted, Vault!Written
<1>12. ASSUME NEW p \in Calls, Vault!Synced(p) PROVE Untouched'
  BY <1>12, Overtaken DEF Vault!Synced, Vault!Outcome, Vault!Accepted, Vault!Written
<1>13. ASSUME NEW p \in Calls, Vault!Activated(p) PROVE Untouched'
  BY <1>13, Overtaken DEF Vault!Activated, Vault!Outcome, Vault!Accepted, Vault!Written
<1>14. ASSUME NEW p \in Calls, Vault!Stop(p) PROVE Untouched'
  BY <1>14 DEF Vault!Stop
<1>15. CASE UNCHANGED Vault!vars
  BY <1>15 DEF Vault!vars
<1> HIDE DEF VaultInv, Vault!TypeOK, Stages, Untouched, Unmoved, Vault!Idle
<1> QED BY <1>1, <1>2, <1>3, <1>4, <1>5, <1>6, <1>7, <1>8, <1>9, <1>10, <1>11, <1>12, <1>13, <1>14, <1>15 DEF Vault!Next

\* What a call reports of its remote call leaves the primary connection alone.
LEMMA OutcomeKeepsPrimary ==
  ASSUME Vault!TypeOK, OnePrimary, NEW p, NEW result, NEW attention,
         Vault!Outcome(p, result, attention)
  PROVE  OnePrimary'
<1>1. \A c \in Connections : row'[c].isPrimary = row[c].isPrimary
  BY DEF Vault!Outcome, Vault!TypeOK
<1> QED BY <1>1 DEF OnePrimary

LEMMA VaultPrimaryStep ==
  ASSUME Vault!ConstantsOK, VaultInv, Vault!TypeOK', [Vault!Next]_(Vault!vars)
  PROVE  OnePrimary'
<1> USE DEF VaultInv, Vault!ConstantsOK, Vault!TypeOK, OnePrimary, Vault!Primaries
<1>1. ASSUME NEW p \in Calls, NEW c \in Connections, Vault!StartConnecting(p, c) PROVE OnePrimary'
  BY <1>1 DEF Vault!StartConnecting, Vault!Existing, Vault!Live
<1>2. ASSUME NEW p \in Calls, NEW c \in Connections, Vault!StartRevoking(p, c) PROVE OnePrimary'
  BY <1>2 DEF Vault!StartRevoking, Vault!Existing, Vault!Revoked
<1>3. ASSUME NEW p \in Calls, NEW c \in Connections, Vault!StartPrimary(p, c) PROVE OnePrimary'
  BY <1>3 DEF Vault!StartPrimary
<1>4. ASSUME NEW p \in Calls, NEW c \in Connections, NEW kind \in Vault!Uses,
             Vault!StartUsing(p, c, kind) PROVE OnePrimary'
  BY <1>4 DEF Vault!StartUsing, Vault!Existing, Vault!Uses
<1>5. ASSUME NEW p \in Calls, Vault!ConnectRow(p) PROVE OnePrimary'
  BY <1>5, Overtaken DEF Vault!ConnectRow, Vault!Written
<1>6. ASSUME NEW p \in Calls, Vault!ConnectVault(p) PROVE OnePrimary'
  BY <1>6, Overtaken DEF Vault!ConnectVault, Vault!Store, Vault!Written
<1>7. ASSUME NEW p \in Calls, Vault!Revoke(p) PROVE OnePrimary'
  <2>1. call[p].of \in Connections
    BY <1>7 DEF Vault!Revoke, Stages
  <2>2. CASE RolledBack(p)
    BY <2>2 DEF RolledBack
  <2>3. ASSUME Withdrawn(p, call[p].of), NEW heir \in Connections \cup {NoConnection},
               Inherited(call[p].of, heir), NEW c \in Connections, NEW d \in Connections,
               row'[c].isPrimary, row'[d].isPrimary
        PROVE  c = d
    <3>1. c # call[p].of /\ d # call[p].of
      BY <2>3 DEF Withdrawn
    <3>2. CASE heir = NoConnection
      <4>1. c # heir /\ d # heir
        BY <3>2
      <4> QED BY <2>3, <3>1, <4>1 DEF Inherited
    <3>3. CASE heir # NoConnection
      BY <2>3, <3>1, <3>3 DEF Inherited
    <3> QED BY <3>2, <3>3
  <2> QED BY <1>7, <2>1, <2>2, <2>3, RevokeEffect
<1>8. ASSUME NEW p \in Calls, Vault!SetPrimary(p) PROVE OnePrimary'
  BY <1>8 DEF Vault!SetPrimary, Vault!Written
<1>9. ASSUME NEW p \in Calls, Vault!ReadCredential(p) PROVE OnePrimary'
  BY <1>9, WentOn DEF Vault!ReadCredential, Vault!Live
<1>10. ASSUME NEW p \in Calls, Vault!Refresh(p) PROVE OnePrimary'
  BY <1>10, WentOn DEF Vault!Refresh, Vault!Store, Vault!Written
<1>11. ASSUME NEW p \in Calls, Vault!Tested(p) PROVE OnePrimary'
  BY <1>11, OutcomeKeepsPrimary DEF Vault!Tested
<1>12. ASSUME NEW p \in Calls, Vault!Synced(p) PROVE OnePrimary'
  BY <1>12, OutcomeKeepsPrimary DEF Vault!Synced
<1>13. ASSUME NEW p \in Calls, Vault!Activated(p) PROVE OnePrimary'
  BY <1>13, OutcomeKeepsPrimary DEF Vault!Activated
<1>14. ASSUME NEW p \in Calls, Vault!Stop(p) PROVE OnePrimary'
  BY <1>14 DEF Vault!Stop
<1>15. CASE UNCHANGED Vault!vars
  BY <1>15 DEF Vault!vars
<1> QED BY <1>1, <1>2, <1>3, <1>4, <1>5, <1>6, <1>7, <1>8, <1>9, <1>10, <1>11, <1>12, <1>13, <1>14, <1>15 DEF Vault!Next

LEMMA VaultSettledStep ==
  ASSUME Vault!ConstantsOK, VaultInv, Vault!TypeOK', [Vault!Next]_(Vault!vars)
  PROVE  Settled'
<1> USE DEF VaultInv, Vault!ConstantsOK, Vault!TypeOK, Stages, Vault!Uses, Untouched, Unmoved, Settled
<1>1. ASSUME NEW p \in Calls, NEW c \in Connections, Vault!StartConnecting(p, c) PROVE Settled'
  BY <1>1 DEF Vault!StartConnecting, Vault!Existing, Vault!Live
<1>2. ASSUME NEW p \in Calls, NEW c \in Connections, Vault!StartRevoking(p, c) PROVE Settled'
  BY <1>2 DEF Vault!StartRevoking, Vault!Existing, Vault!Revoked
<1>3. ASSUME NEW p \in Calls, NEW c \in Connections, Vault!StartPrimary(p, c) PROVE Settled'
  BY <1>3 DEF Vault!StartPrimary
<1>4. ASSUME NEW p \in Calls, NEW c \in Connections, NEW kind \in Vault!Uses,
             Vault!StartUsing(p, c, kind) PROVE Settled'
  BY <1>4 DEF Vault!StartUsing, Vault!Existing, Vault!Uses
<1>5. ASSUME NEW p \in Calls, Vault!ConnectRow(p) PROVE Settled'
  BY <1>5, Overtaken DEF Vault!ConnectRow, Vault!Written
<1>6. ASSUME NEW p \in Calls, Vault!ConnectVault(p) PROVE Settled'
  BY <1>6, Overtaken DEF Vault!ConnectVault, Vault!Store, Vault!Written
<1>7. ASSUME NEW p \in Calls, Vault!Revoke(p) PROVE Settled'
  <2>1. call[p].of \in Connections
    BY <1>7 DEF Vault!Revoke, Stages
  <2>2. CASE RolledBack(p)
    BY <2>2 DEF RolledBack
  <2>3. ASSUME Withdrawn(p, call[p].of), NEW heir \in Connections \cup {NoConnection},
               Inherited(call[p].of, heir)
        PROVE  Settled'
    <3> SUFFICES ASSUME NEW c \in Connections, c \notin overtaken'
                 PROVE  /\ row'[c].status = "connected" => vault'[c].live /\ vault'[c].secret \in accepted'
                        /\ row'[c].status = "revoked" => ~vault'[c].live /\ ~row'[c].isPrimary
      OBVIOUS
    <3>1. CASE c = call[p].of
      BY <2>3, <3>1 DEF Withdrawn
    <3>2. CASE c # call[p].of
      <4>1. /\ c \notin overtaken /\ row'[c].status = row[c].status
            /\ vault'[c] = vault[c] /\ accepted' = accepted
        BY <2>3, <3>2 DEF Withdrawn, Inherited
      <4>2. row[c].status = "revoked" => c # heir
        BY <2>3, <3>2 DEF Inherited, Vault!Revoked
      <4>3. row[c].status = "revoked" => ~row'[c].isPrimary
        BY <2>3, <3>2, <4>1, <4>2 DEF Inherited
      <4> QED BY <4>1, <4>3
    <3> QED BY <3>1, <3>2
  <2> QED BY <1>7, <2>1, <2>2, <2>3, RevokeEffect
<1>8. ASSUME NEW p \in Calls, Vault!SetPrimary(p) PROVE Settled'
  BY <1>8 DEF Vault!SetPrimary, Vault!Written
<1>9. ASSUME NEW p \in Calls, Vault!ReadCredential(p) PROVE Settled'
  BY <1>9, WentOn DEF Vault!ReadCredential, Vault!Live
<1>10. ASSUME NEW p \in Calls, Vault!Refresh(p) PROVE Settled'
  BY <1>10, WentOn DEF Vault!Refresh, Vault!Store, Vault!Written
<1>11. ASSUME NEW p \in Calls, Vault!Tested(p) PROVE Settled'
  BY <1>11, Overtaken DEF Vault!Tested, Vault!Outcome, Vault!Accepted, Vault!Written
<1>12. ASSUME NEW p \in Calls, Vault!Synced(p) PROVE Settled'
  BY <1>12, Overtaken DEF Vault!Synced, Vault!Outcome, Vault!Accepted, Vault!Written
<1>13. ASSUME NEW p \in Calls, Vault!Activated(p) PROVE Settled'
  BY <1>13, Overtaken DEF Vault!Activated, Vault!Outcome, Vault!Accepted, Vault!Written
<1>14. ASSUME NEW p \in Calls, Vault!Stop(p) PROVE Settled'
  BY <1>14 DEF Vault!Stop
<1>15. CASE UNCHANGED Vault!vars
  BY <1>15 DEF Vault!vars
<1> QED BY <1>1, <1>2, <1>3, <1>4, <1>5, <1>6, <1>7, <1>8, <1>9, <1>10, <1>11, <1>12, <1>13, <1>14, <1>15 DEF Vault!Next

LEMMA VaultStep == ASSUME Vault!ConstantsOK, VaultInv, [Vault!Next]_(Vault!vars) PROVE VaultInv'
<1>1. Vault!TypeOK'
  BY VaultTypeStep
<1> QED BY <1>1, VaultStagesStep, VaultCallsStep, VaultPrimaryStep, VaultSettledStep DEF VaultInv

\* Of connections no call has overtaken, a connected one has a credential the other side
\* accepted and a revoked one none; one connection at most is primary (provider-integrations.ts).
THEOREM ConnectionsKeepCredentials == ASSUME Vault!ConstantsOK PROVE Vault!Spec => []Vault!ConnectionSound
<1>1. Vault!Init => VaultInv
  BY VaultStart
<1>2. VaultInv /\ [Vault!Next]_(Vault!vars) => VaultInv'
  BY VaultStep
<1>3. VaultInv => Vault!ConnectionSound
  BY VaultSound
<1> QED BY <1>1, <1>2, <1>3, PTL DEF Vault!Spec

-----------------------------------------------------------------------------
(* External calendars. *)

Engaged == {"fetch", "unmodified", "previous", "import", "recompute", "catch",
            "finishRun", "failRun", "resolve", "record"}
EngagedOf(f) == {s \in Slots : work[s].at \in Engaged /\ job[s].feed = f}

Version == Calendars!Versions \cup {Calendars!NoVersion}
FeedRow == [status : {"absent", "pending", "active", "error", "revoked"}, etag : Version,
            events : Version, nights : SUBSET {NightOf[v] : v \in Calendars!Versions},
            due : BOOLEAN, ticket : Slots \cup {NoSlot}, incident : BOOLEAN]
JobRow == [feed : Feeds \cup {"none"}, status : {"free", "queued", "running", "succeeded", "failed"},
           direct : BOOLEAN, attempts : 0 .. MaxTries,
           run : {"none", "running", "succeeded", "failed"}]
WorkRow == [at : Engaged \cup {"rest", "begin", "succeeded", "failed", "dead"},
            etag : Version, got : Version, previous : Version]
CalendarTypes == /\ remote \in [Feeds -> Calendars!Versions]
                 /\ feed \in [Feeds -> FeedRow] /\ job \in [Slots -> JobRow]
                 /\ work \in [Slots -> WorkRow]

\* A job that waits or runs is of a feed and has attempts left; one at work runs.
Queued == \A s \in Slots :
    /\ job[s].status \in {"queued", "running"} => job[s].feed \in Feeds /\ job[s].attempts < MaxTries
    /\ work[s].at \notin {"rest", "dead"} => job[s].status = "running"

\* What is true of the feed while a synchronization that nothing disturbs is at a statement.
InStep(f) == feed[f].nights = Calendars!Nights(feed[f].events) /\ feed[f].events = feed[f].etag
AtWork(s) == LET f == job[s].feed  at == work[s].at IN
    /\ feed[f].status \notin {"absent", "revoked"}
    /\ at # "recompute" => InStep(f)
    /\ at \in {"fetch", "unmodified"} => work[s].etag = feed[f].etag
    /\ at = "import" => work[s].previous = feed[f].events
    /\ at = "recompute" => /\ feed[f].nights = Calendars!Nights(work[s].previous)
                           /\ feed[f].events = work[s].got /\ feed[f].etag = work[s].got
    /\ at \in {"recompute", "finishRun", "resolve"} => feed[f].status = "active"
    /\ at \in {"failRun", "record"} => feed[f].status = "error"
Quiet(f) ==
    /\ feed[f].nights = Calendars!Nights(feed[f].events)
    /\ feed[f].status = "revoked" => feed[f].nights = {}
    /\ feed[f].status # "revoked" =>
          feed[f].events = feed[f].etag /\ (feed[f].incident <=> feed[f].status = "error")
FeedFollows(f) == f \notin disturbed =>
    /\ \A s \in EngagedOf(f) : AtWork(s) /\ EngagedOf(f) = {s}
    /\ EngagedOf(f) = {} => Quiet(f)

\* What the ledger of runs says of a job at its first attempt.
RunFollows(s) == job[s].attempts = 0 =>
    /\ job[s].status = "queued" \/ work[s].at = "begin" => job[s].run = "none"
    /\ work[s].at \in Engaged \ {"resolve", "record"} => job[s].run = "running"
    /\ work[s].at \in {"resolve", "succeeded"} \/ job[s].status = "succeeded" => job[s].run = "succeeded"

FeedsFollow == \A f \in Feeds : FeedFollows(f)
RunsFollow == \A s \in Slots : RunFollows(s)

CalendarInv == /\ CalendarTypes /\ Queued
               /\ FeedsFollow
               /\ RunsFollow

LEMMA CalendarTypesOK == ASSUME CalendarTypes, Queued PROVE Calendars!TypeOK
BY DEF CalendarTypes, Queued, Calendars!TypeOK, Calendars!Live, FeedRow, JobRow, Version

LEMMA CalendarSound == ASSUME CalendarInv PROVE Calendars!FeedSound
<1>1. Calendars!NightsFollowFeed
  <2> SUFFICES ASSUME NEW f \in Feeds, f \notin disturbed, Calendars!LiveOf(f) = {} PROVE Quiet(f)
    BY DEF Quiet, Calendars!NightsFollowFeed, Calendars!AtRest, Calendars!Imported
  <2>1. EngagedOf(f) = {}
    BY DEF EngagedOf, Engaged, Calendars!LiveOf, Calendars!Live
  <2> QED BY <2>1 DEF CalendarInv, FeedsFollow, FeedFollows
<1>2. Calendars!RunTellsResult
  BY DEF CalendarInv, RunsFollow, RunFollows, CalendarTypes, JobRow, Calendars!RunTellsResult
<1> QED BY <1>1, <1>2 DEF Calendars!FeedSound

LEMMA CalendarStart == ASSUME Calendars!ConstantsOK, Calendars!Init PROVE CalendarInv
BY DEF Calendars!ConstantsOK, Calendars!Init, Calendars!Absent, Calendars!Free, Calendars!Resting,
  Calendars!NoVersion, Calendars!Nights, Calendars!Versions, CalendarInv, CalendarTypes, Queued,
  FeedsFollow, FeedFollows, EngagedOf, Engaged, Quiet, RunsFollow, RunFollows, FeedRow, JobRow, WorkRow, Version


LEMMA BeginTaken ==
  ASSUME CalendarTypes, NEW s \in Slots, Calendars!Begin(s)
  PROVE  LET f == job[s].feed IN
         /\ work[s].at = "begin"
         /\ \A r \in Slots \ {s} : work'[r] = work[r] /\ job'[r] = job[r]
         /\ job'[s].feed = f /\ job'[s].status = job[s].status /\ job'[s].attempts = job[s].attempts
         /\ UNCHANGED <<remote, feed, deaths>>
         /\ \/ /\ Calendars!Imported(f)
               /\ job'[s].run = IF job[s].run = "none" THEN "running" ELSE job[s].run
               /\ work'[s].at = "fetch" /\ work'[s].etag = feed[f].etag
               /\ disturbed' = IF Calendars!LiveOf(f) \ {s} = {} THEN disturbed ELSE disturbed \cup {f}
            \/ /\ ~Calendars!Imported(f)
               /\ work'[s].at = "failed" /\ UNCHANGED <<job, disturbed>>
<1> DEFINE f == job[s].feed
<1>1. work[s].at = "begin" /\ UNCHANGED <<remote, feed, deaths>>
  BY DEF Calendars!Begin
<1>2. CASE /\ Calendars!Imported(f)
           /\ job' = [job EXCEPT ![s].run = IF @ = "none" THEN "running" ELSE @]
           /\ Calendars!Started(s, f)
  BY <1>1, <1>2 DEF Calendars!Started, Calendars!Resting, CalendarTypes, JobRow
<1>3. CASE ~Calendars!Imported(f) /\ Calendars!Go(s, "failed") /\ UNCHANGED <<job, disturbed>>
  BY <1>1, <1>3 DEF Calendars!Go, CalendarTypes, WorkRow
<1> QED BY <1>2, <1>3 DEF Calendars!Begin

LEMMA Fetched ==
  ASSUME CalendarTypes, NEW s \in Slots, Calendars!Fetch(s)
  PROVE  /\ work[s].at = "fetch"
         /\ \/ /\ work'[s].at = "unmodified" /\ work'[s].etag = work[s].etag
            \/ /\ work'[s].at = "previous"
         /\ \A r \in Slots \ {s} : work'[r] = work[r]
         /\ UNCHANGED <<remote, feed, job, disturbed, deaths>>
<1>1. CASE Calendars!Go(s, "unmodified")
  BY <1>1 DEF Calendars!Fetch, Calendars!Go, CalendarTypes, WorkRow
<1>2. CASE work' = [work EXCEPT ![s] = [Calendars!Resting EXCEPT !.at = "previous", !.got = remote[job[s].feed]]]
  BY <1>2 DEF Calendars!Fetch, Calendars!Resting, CalendarTypes
<1> QED BY <1>1, <1>2 DEF Calendars!Fetch

LEMMA Failed ==
  ASSUME Calendars!ConstantsOK, CalendarTypes, NEW s \in Slots, Calendars!Fail(s)
  PROVE  /\ work[s].at = "failed" /\ work'[s].at = "rest"
         /\ \A r \in Slots \ {s} : work'[r] = work[r] /\ job'[r] = job[r]
         /\ \/ job'[s] = Calendars!Free /\ UNCHANGED feed
            \/ /\ job'[s].feed = job[s].feed /\ job'[s].attempts = job[s].attempts + 1
               /\ job[s].attempts + 1 # 0
               /\ \/ job'[s].status = "failed"
                  \/ job'[s].status = "queued" /\ job[s].attempts + 1 < MaxTries
               /\ feed' = [feed EXCEPT ![job[s].feed].due = FALSE, ![job[s].feed].ticket = NoSlot]
         /\ UNCHANGED <<remote, disturbed, deaths>>
<1>1. /\ work[s].at = "failed" /\ work'[s].at = "rest" /\ UNCHANGED <<remote, disturbed, deaths>>
      /\ \A r \in Slots \ {s} : work'[r] = work[r]
  BY DEF Calendars!Fail, Calendars!Go, CalendarTypes, WorkRow
<1>2. CASE job' = [job EXCEPT ![s] = Calendars!Free] /\ UNCHANGED feed
  BY <1>1, <1>2 DEF CalendarTypes
<1>3. CASE /\ job' = [job EXCEPT ![s] = Calendars!Retried(s)]
           /\ feed' = [feed EXCEPT ![job[s].feed].due = FALSE, ![job[s].feed].ticket = NoSlot]
  <2>1. /\ Calendars!Retried(s).feed = job[s].feed /\ Calendars!Retried(s).attempts = job[s].attempts + 1
        /\ Calendars!Retried(s).status = IF job[s].attempts + 1 >= MaxTries THEN "failed" ELSE "queued"
    BY DEF Calendars!Retried, CalendarTypes, JobRow
  <2>2. job[s].attempts \in Nat /\ MaxTries \in Int
    BY DEF CalendarTypes, JobRow, Calendars!ConstantsOK
  <2>3. job'[s] = Calendars!Retried(s) /\ \A r \in Slots \ {s} : job'[r] = job[r]
    BY <1>3 DEF CalendarTypes
  <2>4. \/ job'[s].status = "failed"
        \/ job'[s].status = "queued" /\ job[s].attempts + 1 < MaxTries
    BY <2>1, <2>2, <2>3
  <2> QED BY <1>1, <1>3, <2>1, <2>2, <2>3, <2>4
<1> QED BY <1>2, <1>3 DEF Calendars!Fail

Place == Engaged \cup {"rest", "begin", "succeeded", "failed", "dead"}

\* What each statement writes in a row is a row.
LEMMA WorkTypes ==
  ASSUME CalendarTypes, NEW s \in Slots
  PROVE  /\ \A place \in Place : Calendars!Go(s, place) => work' \in [Slots -> WorkRow]
         /\ \A place \in Place : Calendars!Rest(s, place) => work' \in [Slots -> WorkRow]
<1>1. ASSUME NEW place \in Place PROVE [work[s] EXCEPT !.at = place] \in WorkRow
  BY DEF CalendarTypes, WorkRow, Place
<1>2. ASSUME NEW place \in Place PROVE [Calendars!Resting EXCEPT !.at = place] \in WorkRow
  BY DEF WorkRow, Place, Calendars!Resting, Version, Calendars!NoVersion
<1> QED BY <1>1, <1>2 DEF Calendars!Go, Calendars!Rest, CalendarTypes

LEMMA FeedTypes ==
  ASSUME CalendarTypes, NEW f \in Feeds
  PROVE  /\ \A e \in Version : /\ Calendars!Refreshed(f, e) \in FeedRow
                               /\ [Calendars!Refreshed(f, e) EXCEPT !.events = e] \in FeedRow
         /\ \A t \in Slots \cup {NoSlot} : [feed[f] EXCEPT !.ticket = t] \in FeedRow
         /\ [feed[f] EXCEPT !.status = "error"] \in FeedRow
         /\ [feed[f] EXCEPT !.due = TRUE] \in FeedRow
         /\ [feed[f] EXCEPT !.due = FALSE, !.ticket = NoSlot] \in FeedRow
         /\ [feed[f] EXCEPT !.status = "pending", !.due = TRUE] \in FeedRow
         /\ \A b \in BOOLEAN : [feed[f] EXCEPT !.incident = b] \in FeedRow
<1>1. feed[f] \in FeedRow
  BY DEF CalendarTypes
<1> QED BY <1>1 DEF FeedRow, Calendars!Refreshed

LEMMA JobTypes ==
  ASSUME Calendars!ConstantsOK, CalendarTypes, NEW s \in Slots
  PROVE  /\ \A t \in {"running", "succeeded"} : [job[s] EXCEPT !.status = t] \in JobRow
         /\ \A r \in {"none", "running", "succeeded", "failed"} : [job[s] EXCEPT !.run = r] \in JobRow
         /\ \A f \in Feeds : /\ [Calendars!Free EXCEPT !.feed = f, !.status = "queued"] \in JobRow
                             /\ [Calendars!Free EXCEPT !.feed = f, !.status = "running", !.direct = TRUE,
                                                      !.run = "running"] \in JobRow
         /\ Calendars!Free \in JobRow
         /\ job[s].attempts < MaxTries => Calendars!Retried(s) \in JobRow
<1>1. job[s] \in JobRow
  BY DEF CalendarTypes
<1>2. Calendars!Free \in JobRow
  BY DEF JobRow, Calendars!Free, Calendars!ConstantsOK
<1>3. ASSUME job[s].attempts < MaxTries PROVE Calendars!Retried(s) \in JobRow
  <2>1. job[s].attempts + 1 \in 0 .. MaxTries
    BY <1>1, <1>3 DEF JobRow, Calendars!ConstantsOK
  <2> QED BY <1>1, <2>1 DEF JobRow, Calendars!Retried
<1>4. ASSUME NEW f \in Feeds
      PROVE  /\ [Calendars!Free EXCEPT !.feed = f, !.status = "queued"] \in JobRow
             /\ [Calendars!Free EXCEPT !.feed = f, !.status = "running", !.direct = TRUE,
                                      !.run = "running"] \in JobRow
  BY <1>2 DEF JobRow
<1>5. /\ \A t \in {"running", "succeeded"} : [job[s] EXCEPT !.status = t] \in JobRow
      /\ \A r \in {"none", "running", "succeeded", "failed"} : [job[s] EXCEPT !.run = r] \in JobRow
  BY <1>1 DEF JobRow
<1> QED BY <1>2, <1>3, <1>4, <1>5

LEMMA StartedType ==
  ASSUME CalendarTypes, NEW s \in Slots, NEW f \in Feeds, Calendars!Started(s, f)
  PROVE  work' \in [Slots -> WorkRow]
<1>1. [Calendars!Resting EXCEPT !.at = "fetch", !.etag = feed[f].etag] \in WorkRow
  BY DEF CalendarTypes, FeedRow, WorkRow, Calendars!Resting, Version, Calendars!NoVersion, Engaged
<1> QED BY <1>1 DEF Calendars!Started, CalendarTypes

LEMMA CalendarTypeStep ==
  ASSUME Calendars!ConstantsOK, CalendarInv, [Calendars!Next]_(Calendars!vars)
  PROVE  CalendarTypes'
<1> USE DEF CalendarInv, CalendarTypes
<1>1. ASSUME NEW s \in Slots, Calendars!Claim(s) PROVE CalendarTypes'
  BY <1>1, JobTypes, WorkTypes DEF Calendars!Claim, Place
<1>2. ASSUME NEW s \in Slots, Calendars!Begin(s) PROVE CalendarTypes'
  <2>1. work' \in [Slots -> WorkRow]
    <3>1. CASE Calendars!Imported(job[s].feed) /\ Calendars!Started(s, job[s].feed)
      <4>1. job[s].feed \in Feeds
        BY <1>2 DEF Calendars!Begin, Queued
      <4> QED BY <3>1, <4>1, StartedType
    <3>2. CASE Calendars!Go(s, "failed")
      BY <3>2, WorkTypes DEF Place
    <3> QED BY <1>2, <3>1, <3>2 DEF Calendars!Begin
  <2>2. [job[s] EXCEPT !.run = IF @ = "none" THEN "running" ELSE @] \in JobRow
    <3>1. job[s] \in JobRow
      OBVIOUS
    <3> QED BY <3>1 DEF JobRow
  <2>3. job' \in [Slots -> JobRow]
    BY <1>2, <2>2 DEF Calendars!Begin
  <2> QED BY <1>2, <2>1, <2>3 DEF Calendars!Begin
<1>3. ASSUME NEW s \in Slots, Calendars!Fetch(s) PROVE CalendarTypes'
  <2>1. job[s].feed \in Feeds
    BY <1>3 DEF Calendars!Fetch, Queued
  <2>2. [Calendars!Resting EXCEPT !.at = "previous", !.got = remote[job[s].feed]] \in WorkRow
    BY <2>1 DEF WorkRow, Calendars!Resting, Version, Calendars!NoVersion, Engaged
  <2> QED BY <1>3, <2>2, WorkTypes DEF Calendars!Fetch, Place, Engaged
<1>4. ASSUME NEW s \in Slots, Calendars!Unmodified(s) PROVE CalendarTypes'
  <2>1. job[s].feed \in Feeds /\ work[s].etag \in Version
    BY <1>4 DEF Calendars!Unmodified, Queued, WorkRow
  <2> QED BY <1>4, <2>1, FeedTypes, WorkTypes DEF Calendars!Unmodified, Place, Engaged
<1>5. ASSUME NEW s \in Slots, Calendars!ReadPrevious(s) PROVE CalendarTypes'
  <2>1. job[s].feed \in Feeds
    BY <1>5 DEF Calendars!ReadPrevious, Queued
  <2>2. feed[job[s].feed].events \in Version
    BY <2>1 DEF FeedRow
  <2>3. [work[s] EXCEPT !.at = "import", !.previous = feed[job[s].feed].events] \in WorkRow
    BY <2>2 DEF WorkRow, Engaged
  <2> QED BY <1>5, <2>3 DEF Calendars!ReadPrevious
<1>6. ASSUME NEW s \in Slots, Calendars!Import(s) PROVE CalendarTypes'
  <2>1. job[s].feed \in Feeds /\ work[s].got \in Version
    BY <1>6 DEF Calendars!Import, Queued, WorkRow
  <2> QED BY <1>6, <2>1, FeedTypes, WorkTypes DEF Calendars!Import, Place, Engaged
<1>7. ASSUME NEW s \in Slots, Calendars!Recompute(s) PROVE CalendarTypes'
  <2>1. job[s].feed \in Feeds
    BY <1>7 DEF Calendars!Recompute, Queued
  <2> DEFINE S == Calendars!Nights(work[s].previous) \cup Calendars!Nights(work[s].got)
  <2>2. Calendars!Recomputed(job[s].feed, S) \in SUBSET {NightOf[v] : v \in Calendars!Versions}
    <3> HIDE DEF S
    <3>1. feed[job[s].feed].nights \in SUBSET {NightOf[v] : v \in Calendars!Versions}
      BY <2>1 DEF FeedRow
    <3> QED BY <3>1 DEF Calendars!Recomputed, Calendars!Between
  <2>3. [feed[job[s].feed] EXCEPT !.nights = Calendars!Recomputed(job[s].feed, S)] \in FeedRow
    <3> HIDE DEF S
    <3> QED BY <2>1, <2>2 DEF FeedRow
  <2>4. feed' \in [Feeds -> FeedRow]
    BY <1>7, <2>1, <2>3 DEF Calendars!Recompute
  <2>5. work' \in [Slots -> WorkRow]
    BY <1>7, WorkTypes DEF Calendars!Recompute, Place, Engaged
  <2> QED BY <1>7, <2>4, <2>5 DEF Calendars!Recompute
<1>8. ASSUME NEW s \in Slots, Calendars!Catch(s) PROVE CalendarTypes'
  <2>1. job[s].feed \in Feeds
    BY <1>8 DEF Calendars!Catch, Queued
  <2> QED BY <1>8, <2>1, FeedTypes, WorkTypes DEF Calendars!Catch, Place, Engaged
<1>9. ASSUME NEW s \in Slots, Calendars!FinishRun(s) PROVE CalendarTypes'
  <2>1. [job[s] EXCEPT !.run = IF @ = "running" THEN Calendars!Outcome(s) ELSE @] \in JobRow
    <3>1. job[s] \in JobRow
      OBVIOUS
    <3> QED BY <3>1 DEF JobRow, Calendars!Outcome
  <2> QED BY <1>9, <2>1, WorkTypes DEF Calendars!FinishRun, Place, Engaged
<1>10. ASSUME NEW s \in Slots, Calendars!Incident(s) PROVE CalendarTypes'
  <2>1. job[s].feed \in Feeds
    BY <1>10 DEF Calendars!Incident, Queued
  <2> QED BY <1>10, <2>1, FeedTypes, WorkTypes DEF Calendars!Incident, Place
<1>11. ASSUME NEW s \in Slots, Calendars!Succeed(s) PROVE CalendarTypes'
  BY <1>11, JobTypes, WorkTypes DEF Calendars!Succeed, Place
<1>12. ASSUME NEW s \in Slots, Calendars!Fail(s) PROVE CalendarTypes'
  <2>1. job[s].feed \in Feeds /\ job[s].attempts < MaxTries
    BY <1>12 DEF Calendars!Fail, Queued
  <2>2. job' \in [Slots -> JobRow]
    BY <1>12, <2>1, JobTypes, ZenonT(30) DEF Calendars!Fail
  <2>3. feed' \in [Feeds -> FeedRow]
    <3>1. [feed[job[s].feed] EXCEPT !.due = FALSE, !.ticket = NoSlot] \in FeedRow
      BY <2>1, FeedTypes
    <3>2. CASE feed' = [feed EXCEPT ![job[s].feed].due = FALSE, ![job[s].feed].ticket = NoSlot]
      <4>1. feed' = [feed EXCEPT ![job[s].feed] = [feed[job[s].feed] EXCEPT !.due = FALSE, !.ticket = NoSlot]]
        BY <2>1, <3>2
      <4> QED BY <2>1, <3>1, <4>1
    <3> QED BY <1>12, <3>2 DEF Calendars!Fail
  <2>4. work' \in [Slots -> WorkRow]
    BY <1>12, WorkTypes DEF Calendars!Fail, Place
  <2> QED BY <1>12, <2>2, <2>3, <2>4 DEF Calendars!Fail
<1>13. ASSUME NEW s \in Slots, Calendars!FetchFails(s) PROVE CalendarTypes'
  BY <1>13, WorkTypes DEF Calendars!FetchFails, Place, Engaged
<1>14. ASSUME NEW s \in Slots, Calendars!Die(s) PROVE CalendarTypes'
  BY <1>14, WorkTypes DEF Calendars!Die, Place
<1>15. ASSUME NEW s \in Slots, NEW f \in Feeds, Calendars!EnqueueDue(s, f) PROVE CalendarTypes'
  BY <1>15, JobTypes, FeedTypes DEF Calendars!EnqueueDue, Calendars!Queue
<1>16. ASSUME NEW s \in Slots, NEW f \in Feeds, Calendars!EnqueueManual(s, f) PROVE CalendarTypes'
  BY <1>16, JobTypes DEF Calendars!EnqueueManual, Calendars!Queue
<1>17. ASSUME NEW s \in Slots, NEW f \in Feeds, Calendars!Create(s, f) PROVE CalendarTypes'
  BY <1>17, JobTypes, FeedTypes, StartedType DEF Calendars!Create
<1>18. ASSUME NEW f \in Feeds, Calendars!Publish(f) PROVE CalendarTypes'
  BY <1>18 DEF Calendars!Publish
<1>19. ASSUME NEW f \in Feeds, Calendars!Revoke(f) PROVE CalendarTypes'
  <2>1. [feed[f] EXCEPT !.status = "revoked", !.events = Calendars!NoVersion,
                        !.nights = @ \ Calendars!Between(Calendars!Nights(feed[f].events))] \in FeedRow
    BY DEF FeedRow, Version
  <2> QED BY <1>19, <2>1 DEF Calendars!Revoke
<1>20. ASSUME NEW f \in Feeds, Calendars!DueAgain(f) PROVE CalendarTypes'
  BY <1>20, FeedTypes DEF Calendars!DueAgain
<1>21. CASE UNCHANGED Calendars!vars
  BY <1>21 DEF Calendars!vars
<1> QED BY <1>1, <1>2, <1>3, <1>4, <1>5, <1>6, <1>7, <1>8, <1>9, <1>10, <1>11, <1>12, <1>13, <1>14, <1>15, <1>16, <1>17, <1>18, <1>19, <1>20, <1>21
       DEF Calendars!Next, Calendars!Work

LEMMA QueuedStep ==
  ASSUME Calendars!ConstantsOK, CalendarInv, CalendarTypes', [Calendars!Next]_(Calendars!vars)
  PROVE  Queued'
<1> USE DEF CalendarInv, Calendars!ConstantsOK, CalendarTypes, JobRow, WorkRow, Queued
<1>1. ASSUME NEW s \in Slots, Calendars!Claim(s) PROVE Queued'
  BY <1>1 DEF Calendars!Claim, Calendars!Go
<1>2. ASSUME NEW s \in Slots, Calendars!Begin(s) PROVE Queued'
  BY <1>2, BeginTaken
<1>3. ASSUME NEW s \in Slots, Calendars!Fetch(s) PROVE Queued'
  BY <1>3, Fetched
<1>4. ASSUME NEW s \in Slots, Calendars!Unmodified(s) PROVE Queued'
  BY <1>4 DEF Calendars!Unmodified, Calendars!Refreshed, Calendars!Rest, Calendars!Resting
<1>5. ASSUME NEW s \in Slots, Calendars!ReadPrevious(s) PROVE Queued'
  BY <1>5 DEF Calendars!ReadPrevious
<1>6. ASSUME NEW s \in Slots, Calendars!Import(s) PROVE Queued'
  BY <1>6 DEF Calendars!Import, Calendars!Go, Calendars!Refreshed
<1>7. ASSUME NEW s \in Slots, Calendars!Recompute(s) PROVE Queued'
  BY <1>7 DEF Calendars!Recompute, Calendars!Recomputed, Calendars!Between, Calendars!Nights, Calendars!Rest, Calendars!Resting
<1>8. ASSUME NEW s \in Slots, Calendars!Catch(s) PROVE Queued'
  BY <1>8 DEF Calendars!Catch, Calendars!Go
<1>9. ASSUME NEW s \in Slots, Calendars!FinishRun(s) PROVE Queued'
  BY <1>9 DEF Calendars!FinishRun, Calendars!Go, Calendars!Outcome
<1>10. ASSUME NEW s \in Slots, Calendars!Incident(s) PROVE Queued'
  BY <1>10 DEF Calendars!Incident, Calendars!Go
<1>11. ASSUME NEW s \in Slots, Calendars!Succeed(s) PROVE Queued'
  BY <1>11 DEF Calendars!Succeed, Calendars!Go, Calendars!Free
<1>12. ASSUME NEW s \in Slots, Calendars!Fail(s) PROVE Queued'
  <2>1. /\ work'[s].at = "rest" /\ job[s].status = "running"
        /\ \A r \in Slots \ {s} : work'[r] = work[r] /\ job'[r] = job[r]
    BY <1>12, Failed
  <2>2. CASE job'[s] = Calendars!Free
    BY <2>1, <2>2, SMTT(30) DEF Calendars!Free
  <2>3. CASE /\ job'[s].feed = job[s].feed /\ job'[s].attempts = job[s].attempts + 1
             /\ job[s].attempts + 1 # 0
             /\ \/ job'[s].status = "failed"
                \/ job'[s].status = "queued" /\ job[s].attempts + 1 < MaxTries
    BY <2>1, <2>3
  <2> QED BY <1>12, <2>2, <2>3, Failed
<1>13. ASSUME NEW s \in Slots, Calendars!FetchFails(s) PROVE Queued'
  BY <1>13 DEF Calendars!FetchFails, Calendars!Rest, Calendars!Resting
<1>14. ASSUME NEW s \in Slots, Calendars!Die(s) PROVE Queued'
  BY <1>14 DEF Calendars!Die, Calendars!Rest, Calendars!Resting, Calendars!Live
<1>15. ASSUME NEW s \in Slots, NEW f \in Feeds, Calendars!EnqueueDue(s, f) PROVE Queued'
  BY <1>15 DEF Calendars!EnqueueDue, Calendars!Queue, Calendars!Free, Calendars!Settled, Calendars!Imported
<1>16. ASSUME NEW s \in Slots, NEW f \in Feeds, Calendars!EnqueueManual(s, f) PROVE Queued'
  BY <1>16 DEF Calendars!EnqueueManual, Calendars!Queue, Calendars!Free, Calendars!Settled, Calendars!Imported
<1>17. ASSUME NEW s \in Slots, NEW f \in Feeds, Calendars!Create(s, f) PROVE Queued'
  BY <1>17 DEF Calendars!Create, Calendars!Free, Calendars!Started, Calendars!Resting, Calendars!LiveOf, Calendars!Live
<1>18. ASSUME NEW f \in Feeds, Calendars!Publish(f) PROVE Queued'
  BY <1>18 DEF Calendars!Publish
<1>19. ASSUME NEW f \in Feeds, Calendars!Revoke(f) PROVE Queued'
  BY <1>19 DEF Calendars!Revoke, Calendars!Imported, Calendars!LiveOf, Calendars!Live, Calendars!Between, Calendars!Nights
<1>20. ASSUME NEW f \in Feeds, Calendars!DueAgain(f) PROVE Queued'
  BY <1>20 DEF Calendars!DueAgain, Calendars!Imported
<1>21. CASE UNCHANGED Calendars!vars
  BY <1>21 DEF Calendars!vars
<1> QED BY <1>1, <1>2, <1>3, <1>4, <1>5, <1>6, <1>7, <1>8, <1>9, <1>10, <1>11, <1>12, <1>13, <1>14, <1>15, <1>16, <1>17, <1>18, <1>19, <1>20, <1>21 DEF Calendars!Next, Calendars!Work

LEMMA RunStep ==
  ASSUME Calendars!ConstantsOK, CalendarInv, CalendarTypes', [Calendars!Next]_(Calendars!vars)
  PROVE  RunsFollow'
<1> USE DEF CalendarInv, Calendars!ConstantsOK, CalendarTypes, JobRow, WorkRow, Queued, RunsFollow, RunFollows, Engaged
<1>1. ASSUME NEW s \in Slots, Calendars!Claim(s) PROVE RunsFollow'
  BY <1>1 DEF Calendars!Claim, Calendars!Go
<1>2. ASSUME NEW s \in Slots, Calendars!Begin(s) PROVE RunsFollow'
  BY <1>2, BeginTaken
<1>3. ASSUME NEW s \in Slots, Calendars!Fetch(s) PROVE RunsFollow'
  BY <1>3, Fetched
<1>4. ASSUME NEW s \in Slots, Calendars!Unmodified(s) PROVE RunsFollow'
  BY <1>4 DEF Calendars!Unmodified, Calendars!Refreshed, Calendars!Rest, Calendars!Resting
<1>5. ASSUME NEW s \in Slots, Calendars!ReadPrevious(s) PROVE RunsFollow'
  BY <1>5 DEF Calendars!ReadPrevious
<1>6. ASSUME NEW s \in Slots, Calendars!Import(s) PROVE RunsFollow'
  BY <1>6 DEF Calendars!Import, Calendars!Go, Calendars!Refreshed
<1>7. ASSUME NEW s \in Slots, Calendars!Recompute(s) PROVE RunsFollow'
  BY <1>7 DEF Calendars!Recompute, Calendars!Recomputed, Calendars!Between, Calendars!Nights, Calendars!Rest, Calendars!Resting
<1>8. ASSUME NEW s \in Slots, Calendars!Catch(s) PROVE RunsFollow'
  BY <1>8 DEF Calendars!Catch, Calendars!Go
<1>9. ASSUME NEW s \in Slots, Calendars!FinishRun(s) PROVE RunsFollow'
  BY <1>9 DEF Calendars!FinishRun, Calendars!Go, Calendars!Outcome
<1>10. ASSUME NEW s \in Slots, Calendars!Incident(s) PROVE RunsFollow'
  BY <1>10 DEF Calendars!Incident, Calendars!Go
<1>11. ASSUME NEW s \in Slots, Calendars!Succeed(s) PROVE RunsFollow'
  BY <1>11 DEF Calendars!Succeed, Calendars!Go, Calendars!Free
<1>12. ASSUME NEW s \in Slots, Calendars!Fail(s) PROVE RunsFollow'
  <2>1. /\ work'[s].at = "rest" /\ job[s].status = "running"
        /\ \A r \in Slots \ {s} : work'[r] = work[r] /\ job'[r] = job[r]
    BY <1>12, Failed
  <2>2. CASE job'[s] = Calendars!Free
    BY <2>1, <2>2 DEF Calendars!Free
  <2>3. CASE /\ job'[s].feed = job[s].feed /\ job'[s].attempts = job[s].attempts + 1
             /\ job[s].attempts + 1 # 0
             /\ \/ job'[s].status = "failed"
                \/ job'[s].status = "queued" /\ job[s].attempts + 1 < MaxTries
    BY <2>1, <2>3
  <2> QED BY <1>12, <2>2, <2>3, Failed
<1>13. ASSUME NEW s \in Slots, Calendars!FetchFails(s) PROVE RunsFollow'
  BY <1>13 DEF Calendars!FetchFails, Calendars!Rest, Calendars!Resting
<1>14. ASSUME NEW s \in Slots, Calendars!Die(s) PROVE RunsFollow'
  BY <1>14 DEF Calendars!Die, Calendars!Rest, Calendars!Resting, Calendars!Live
<1>15. ASSUME NEW s \in Slots, NEW f \in Feeds, Calendars!EnqueueDue(s, f) PROVE RunsFollow'
  BY <1>15 DEF Calendars!EnqueueDue, Calendars!Queue, Calendars!Free, Calendars!Settled, Calendars!Imported
<1>16. ASSUME NEW s \in Slots, NEW f \in Feeds, Calendars!EnqueueManual(s, f) PROVE RunsFollow'
  BY <1>16 DEF Calendars!EnqueueManual, Calendars!Queue, Calendars!Free, Calendars!Settled, Calendars!Imported
<1>17. ASSUME NEW s \in Slots, NEW f \in Feeds, Calendars!Create(s, f) PROVE RunsFollow'
  BY <1>17 DEF Calendars!Create, Calendars!Free, Calendars!Started, Calendars!Resting, Calendars!LiveOf, Calendars!Live
<1>18. ASSUME NEW f \in Feeds, Calendars!Publish(f) PROVE RunsFollow'
  BY <1>18 DEF Calendars!Publish
<1>19. ASSUME NEW f \in Feeds, Calendars!Revoke(f) PROVE RunsFollow'
  BY <1>19 DEF Calendars!Revoke, Calendars!Imported, Calendars!LiveOf, Calendars!Live, Calendars!Between, Calendars!Nights
<1>20. ASSUME NEW f \in Feeds, Calendars!DueAgain(f) PROVE RunsFollow'
  BY <1>20 DEF Calendars!DueAgain, Calendars!Imported
<1>21. CASE UNCHANGED Calendars!vars
  BY <1>21 DEF Calendars!vars
<1> QED BY <1>1, <1>2, <1>3, <1>4, <1>5, <1>6, <1>7, <1>8, <1>9, <1>10, <1>11, <1>12, <1>13, <1>14, <1>15, <1>16, <1>17, <1>18, <1>19, <1>20, <1>21 DEF Calendars!Next, Calendars!Work

\* A step that touches no synchronization at work.
LEMMA Unengaged ==
  ASSUME FeedsFollow, disturbed \subseteq disturbed',
         \A s \in Slots : \/ work'[s] = work[s] /\ job'[s].feed = job[s].feed
                          \/ work[s].at \notin Engaged /\ work'[s].at \notin Engaged,
         \A f \in Feeds : /\ feed'[f].status = feed[f].status /\ feed'[f].nights = feed[f].nights
                          /\ feed'[f].events = feed[f].events /\ feed'[f].etag = feed[f].etag
                          /\ feed'[f].incident = feed[f].incident
  PROVE  FeedsFollow'
<1> SUFFICES ASSUME NEW f \in Feeds, f \notin disturbed'
             PROVE  /\ \A s \in EngagedOf(f)' : AtWork(s)' /\ EngagedOf(f)' = {s}
                    /\ EngagedOf(f)' = {} => Quiet(f)'
  BY DEF FeedsFollow, FeedFollows
<1>1. EngagedOf(f)' = EngagedOf(f)
  BY DEF EngagedOf
<1>2. ASSUME NEW s \in EngagedOf(f) PROVE AtWork(s)' /\ EngagedOf(f) = {s}
  <2>1. AtWork(s) /\ EngagedOf(f) = {s} /\ job[s].feed = f
    BY DEF FeedsFollow, FeedFollows, EngagedOf
  <2>2. work'[s] = work[s] /\ job'[s].feed = f
    BY <1>2 DEF EngagedOf
  <2>3. /\ feed'[f].status = feed[f].status /\ feed'[f].nights = feed[f].nights
        /\ feed'[f].events = feed[f].events /\ feed'[f].etag = feed[f].etag
    OBVIOUS
  <2> QED BY <2>1, <2>2, <2>3 DEF AtWork, InStep, Calendars!Nights, Calendars!NoVersion
<1>3. EngagedOf(f) = {} => Quiet(f)'
  <2>1. EngagedOf(f) = {} => Quiet(f)
    BY DEF FeedsFollow, FeedFollows
  <2>2. /\ feed'[f].status = feed[f].status /\ feed'[f].nights = feed[f].nights
        /\ feed'[f].events = feed[f].events /\ feed'[f].etag = feed[f].etag
        /\ feed'[f].incident = feed[f].incident
    OBVIOUS
  <2> QED BY <2>1, <2>2 DEF Quiet, Calendars!Nights, Calendars!NoVersion
<1> QED BY <1>1, <1>2, <1>3

\* A step of the synchronization of s.
SlotStep(s) == /\ \A r \in Slots \ {s} : work'[r] = work[r]
               /\ \A r \in Slots : job'[r].feed = job[r].feed
               /\ \A f \in Feeds \ {job[s].feed} : feed'[f] = feed[f]
               /\ disturbed \subseteq disturbed'

LEMMA OtherFeeds ==
  ASSUME FeedsFollow, NEW s \in Slots, SlotStep(s), NEW f \in Feeds, f # job[s].feed
  PROVE  FeedFollows(f)'
<1> SUFFICES ASSUME f \notin disturbed'
             PROVE  /\ \A r \in EngagedOf(f)' : AtWork(r)' /\ EngagedOf(f)' = {r}
                    /\ EngagedOf(f)' = {} => Quiet(f)'
  BY DEF FeedFollows
<1>1. EngagedOf(f)' = EngagedOf(f)
  BY DEF EngagedOf, SlotStep
<1>2. ASSUME NEW r \in EngagedOf(f) PROVE AtWork(r)' /\ EngagedOf(f) = {r}
  <2>1. AtWork(r) /\ EngagedOf(f) = {r} /\ job[r].feed = f
    BY DEF FeedsFollow, FeedFollows, EngagedOf, SlotStep
  <2>2. work'[r] = work[r] /\ job'[r].feed = f /\ feed'[f] = feed[f]
    BY <1>2 DEF EngagedOf, SlotStep
  <2> QED BY <2>1, <2>2 DEF AtWork, InStep, Calendars!Nights, Calendars!NoVersion
<1>3. EngagedOf(f) = {} => Quiet(f)'
  BY DEF FeedsFollow, FeedFollows, Quiet, Calendars!Nights, Calendars!NoVersion, SlotStep
<1> QED BY <1>1, <1>2, <1>3

LEMMA Advances ==
  ASSUME FeedsFollow, NEW s \in Slots, SlotStep(s), work[s].at \in Engaged,
         NEW f \in Feeds, job[s].feed = f,
         AtWork(s) /\ f \notin disturbed' => work'[s].at \in Engaged /\ AtWork(s)'
  PROVE  FeedsFollow'
<1>1. ASSUME f \notin disturbed' PROVE FeedFollows(f)'
  <2>1. s \in EngagedOf(f) /\ AtWork(s) /\ EngagedOf(f) = {s}
    BY <1>1 DEF EngagedOf, FeedsFollow, FeedFollows, SlotStep
  <2>2. work'[s].at \in Engaged /\ AtWork(s)'
    BY <1>1, <2>1
  <2>3. EngagedOf(f)' = {s}
    BY <2>1, <2>2 DEF EngagedOf, SlotStep
  <2> QED BY <2>2, <2>3 DEF FeedFollows
<1>2. FeedFollows(f)'
  BY <1>1 DEF FeedFollows
<1> QED BY <1>2, OtherFeeds DEF FeedsFollow

LEMMA Ends ==
  ASSUME FeedsFollow, NEW s \in Slots, SlotStep(s), work[s].at \in Engaged,
         NEW f \in Feeds, job[s].feed = f,
         work'[s].at \notin Engaged, AtWork(s) /\ f \notin disturbed' => Quiet(f)'
  PROVE  FeedsFollow'
<1>1. ASSUME f \notin disturbed' PROVE FeedFollows(f)'
  <2>1. s \in EngagedOf(f) /\ AtWork(s) /\ EngagedOf(f) = {s}
    BY <1>1 DEF EngagedOf, FeedsFollow, FeedFollows, SlotStep
  <2>2. Quiet(f)'
    BY <1>1, <2>1
  <2>3. EngagedOf(f)' = {}
    BY <2>1 DEF EngagedOf, SlotStep
  <2> QED BY <2>2, <2>3 DEF FeedFollows
<1>2. FeedFollows(f)'
  BY <1>1 DEF FeedFollows
<1> QED BY <1>2, OtherFeeds DEF FeedsFollow

\* What the statements of a synchronization have in common.
LEMMA Statement ==
  ASSUME Calendars!ConstantsOK, CalendarInv, NEW s \in Slots, work[s].at \in Engaged
  PROVE  job[s].feed \in Feeds /\ job[s].status = "running" /\ feed[job[s].feed] \in FeedRow
         /\ work[s] \in WorkRow
BY DEF CalendarInv, CalendarTypes, Queued, Engaged

LEMMA FollowStep ==
  ASSUME Calendars!ConstantsOK, CalendarInv, CalendarTypes', [Calendars!Next]_(Calendars!vars)
  PROVE  FeedsFollow'
<1> USE DEF CalendarInv
<1>0. /\ feed \in [Feeds -> FeedRow] /\ job \in [Slots -> JobRow] /\ work \in [Slots -> WorkRow]
      /\ \A s \in Slots : work[s].at \notin {"rest", "dead"} => job[s].status = "running"
  BY DEF CalendarTypes, Queued
<1>1. ASSUME NEW s \in Slots, Calendars!Claim(s) PROVE FeedsFollow'
  <2>1. work[s].at \notin Engaged /\ work'[s].at \notin Engaged
    BY <1>0, <1>1 DEF Calendars!Claim, Calendars!Go, Engaged, WorkRow
  <2>2. \A r \in Slots \ {s} : work'[r] = work[r] /\ job'[r].feed = job[r].feed
    BY <1>0, <1>1 DEF Calendars!Claim, Calendars!Go
  <2> QED BY <1>1, <2>1, <2>2, Unengaged DEF Calendars!Claim
<1>2. ASSUME NEW s \in Slots, Calendars!Begin(s) PROVE FeedsFollow'
  <2> DEFINE d == job[s].feed
  <2>1. PICK f \in Feeds : job[s].feed = f
    BY <1>0, <1>2, BeginTaken DEF Queued
  <2>2. /\ work[s].at = "begin"
        /\ \A r \in Slots \ {s} : work'[r] = work[r] /\ job'[r] = job[r]
        /\ job'[s].feed = f /\ UNCHANGED feed
    BY <1>2, <2>1, BeginTaken
  <2>3. CASE work'[s].at = "failed" /\ UNCHANGED <<job, disturbed>>
    BY <2>2, <2>3, Unengaged DEF Engaged
  <2>4. CASE /\ Calendars!Imported(f) /\ work'[s].at = "fetch" /\ work'[s].etag = feed[f].etag
             /\ disturbed' = IF Calendars!LiveOf(f) \ {s} = {} THEN disturbed ELSE disturbed \cup {f}
    <3>1. SlotStep(s)
      BY <2>1, <2>2, <2>4 DEF SlotStep
    <3>2. ASSUME f \notin disturbed' PROVE FeedFollows(f)'
      <4>1. f \notin disturbed /\ Calendars!LiveOf(f) \ {s} = {}
        BY <2>4, <3>2
      <4>2. EngagedOf(f) = {}
        BY <2>2, <4>1 DEF EngagedOf, Engaged, Calendars!LiveOf, Calendars!Live
      <4>3. EngagedOf(f)' = {s}
        BY <2>2, <2>4, <4>2 DEF EngagedOf, Engaged
      <4>4. Quiet(f) /\ feed[f].status \notin {"absent", "revoked"}
        BY <2>4, <4>1, <4>2 DEF FeedsFollow, FeedFollows, Calendars!Imported
      <4>5. AtWork(s)'
        BY <2>2, <2>4, <4>4 DEF AtWork, InStep, Quiet
      <4> QED BY <4>3, <4>5 DEF FeedFollows
    <3>3. FeedFollows(f)'
      BY <3>2 DEF FeedFollows
    <3> QED BY <2>1, <3>1, <3>3, OtherFeeds DEF FeedsFollow
  <2> QED BY <1>2, <2>1, <2>3, <2>4, BeginTaken
<1>3. ASSUME NEW s \in Slots, Calendars!Fetch(s) PROVE FeedsFollow'
  <2>1. work[s].at \in Engaged /\ work'[s].at \in Engaged /\ SlotStep(s)
    BY <1>3, Fetched DEF SlotStep, Engaged
  <2>2. PICK f \in Feeds : job[s].feed = f
    BY <2>1, Statement
  <2>3. AtWork(s) => AtWork(s)'
    BY <1>3, Fetched DEF AtWork, InStep
  <2> QED BY <2>1, <2>2, <2>3, Advances
<1>4. ASSUME NEW s \in Slots, Calendars!Unmodified(s) PROVE FeedsFollow'
  <2>1. /\ work[s].at = "unmodified" /\ work'[s].at = "finishRun"
        /\ \A r \in Slots \ {s} : work'[r] = work[r]
        /\ UNCHANGED <<job, disturbed>>
    BY <1>0, <1>4 DEF Calendars!Unmodified, Calendars!Rest, Calendars!Resting
  <2>2. PICK f \in Feeds : job[s].feed = f
    BY <2>1, Statement DEF Engaged
  <2>3. /\ feed'[f].status = "active" /\ feed'[f].etag = work[s].etag
        /\ feed'[f].events = feed[f].events /\ feed'[f].nights = feed[f].nights
        /\ \A g \in Feeds \ {f} : feed'[g] = feed[g]
    BY <1>0, <1>4, <2>2 DEF Calendars!Unmodified, Calendars!Refreshed, FeedRow
  <2>4. work[s].at \in Engaged /\ work'[s].at \in Engaged /\ SlotStep(s)
    BY <2>1, <2>2, <2>3 DEF SlotStep, Engaged
  <2>5. AtWork(s) => AtWork(s)'
    BY <2>1, <2>2, <2>3 DEF AtWork, InStep
  <2> QED BY <2>2, <2>4, <2>5, Advances
<1>5. ASSUME NEW s \in Slots, Calendars!ReadPrevious(s) PROVE FeedsFollow'
  <2>1. /\ work[s].at = "previous" /\ work'[s].at = "import"
        /\ work'[s].previous = feed[job[s].feed].events
        /\ \A r \in Slots \ {s} : work'[r] = work[r]
        /\ UNCHANGED <<feed, job, disturbed>>
    BY <1>0, <1>5 DEF Calendars!ReadPrevious, WorkRow
  <2>2. PICK f \in Feeds : job[s].feed = f
    BY <2>1, Statement DEF Engaged
  <2>4. work[s].at \in Engaged /\ work'[s].at \in Engaged /\ SlotStep(s)
    BY <2>1, <2>2 DEF SlotStep, Engaged
  <2>5. AtWork(s) => AtWork(s)'
    BY <2>1, <2>2 DEF AtWork, InStep
  <2> QED BY <2>2, <2>4, <2>5, Advances
<1>6. ASSUME NEW s \in Slots, Calendars!Import(s) PROVE FeedsFollow'
  <2>1. /\ work[s].at = "import" /\ work'[s].at = "recompute"
        /\ work'[s].got = work[s].got /\ work'[s].previous = work[s].previous
        /\ \A r \in Slots \ {s} : work'[r] = work[r]
        /\ UNCHANGED <<job, disturbed>>
    BY <1>0, <1>6 DEF Calendars!Import, Calendars!Go, WorkRow
  <2>2. PICK f \in Feeds : job[s].feed = f
    BY <2>1, Statement DEF Engaged
  <2>3. /\ feed'[f].status = "active" /\ feed'[f].etag = work[s].got
        /\ feed'[f].events = work[s].got /\ feed'[f].nights = feed[f].nights
        /\ \A g \in Feeds \ {f} : feed'[g] = feed[g]
    <3>1. feed' = [feed EXCEPT ![f] = [Calendars!Refreshed(f, work[s].got) EXCEPT !.events = work[s].got]]
      BY <1>6, <2>2 DEF Calendars!Import
    <3>2. /\ Calendars!Refreshed(f, work[s].got) \in
                [status : {"active"}, etag : {work[s].got}, events : Version, nights : {feed[f].nights},
                 due : BOOLEAN, ticket : Slots \cup {NoSlot}, incident : BOOLEAN]
      BY <1>0 DEF Calendars!Refreshed, FeedRow
    <3> HIDE DEF Calendars!Refreshed
    <3> QED BY <1>0, <3>1, <3>2
  <2>4. work[s].at \in Engaged /\ work'[s].at \in Engaged /\ SlotStep(s)
    BY <2>1, <2>2, <2>3 DEF SlotStep, Engaged
  <2>5. AtWork(s) => AtWork(s)'
    BY <2>1, <2>2, <2>3 DEF AtWork, InStep
  <2> QED BY <2>2, <2>4, <2>5, Advances
<1>7. ASSUME NEW s \in Slots, Calendars!Recompute(s) PROVE FeedsFollow'
  <2>1. /\ work[s].at = "recompute" /\ work'[s].at \in {"finishRun", "catch"}
        /\ \A r \in Slots \ {s} : work'[r] = work[r]
        /\ UNCHANGED job
    BY <1>0, <1>7 DEF Calendars!Recompute, Calendars!Rest, Calendars!Resting
  <2>2. PICK f \in Feeds : job[s].feed = f
    BY <2>1, Statement DEF Engaged
  <2> DEFINE S == Calendars!Nights(work[s].previous) \cup Calendars!Nights(work[s].got)
  <2>3. CASE /\ feed' = [feed EXCEPT ![f].nights = Calendars!Recomputed(f, S)]
             /\ Calendars!Rest(s, "finishRun") /\ UNCHANGED disturbed
    <3>1. work'[s].at = "finishRun"
      BY <1>0, <2>3 DEF Calendars!Rest, Calendars!Resting
    <3>2. /\ feed'[f].status = feed[f].status /\ feed'[f].etag = feed[f].etag
          /\ feed'[f].events = feed[f].events /\ feed'[f].nights = Calendars!Recomputed(f, S)
          /\ \A g \in Feeds \ {f} : feed'[g] = feed[g]
      BY <1>0, <2>3 DEF FeedRow
    <3>3. ASSUME AtWork(s) PROVE Calendars!Recomputed(f, S) = Calendars!Nights(feed[f].events)
      <4>1. /\ feed[f].nights = Calendars!Nights(work[s].previous)
            /\ feed[f].events = work[s].got
        BY <2>1, <2>2, <3>3 DEF AtWork
      <4>2. work[s].previous \in Version /\ work[s].got \in Version
        BY <1>0 DEF WorkRow
      <4>3. S \subseteq Calendars!Between(S)
        BY <4>2 DEF Calendars!Between, Calendars!Nights, Version, Calendars!ConstantsOK, Calendars!Versions
      <4> HIDE DEF S
      <4>4. Calendars!Nights(work[s].previous) \subseteq S /\ Calendars!Nights(work[s].got) \subseteq S
        BY DEF S
      <4> QED BY <4>1, <4>3, <4>4 DEF Calendars!Recomputed
    <3>4. work[s].at \in Engaged /\ work'[s].at \in Engaged /\ SlotStep(s)
      BY <2>1, <2>2, <2>3, <3>2 DEF SlotStep, Engaged
    <3>5. AtWork(s) => AtWork(s)'
      <4> HIDE DEF S
      <4> QED BY <2>1, <2>2, <3>1, <3>2, <3>3 DEF AtWork, InStep
    <3> QED BY <2>2, <3>4, <3>5, Advances
  <2>4. CASE disturbed' = disturbed \cup {f} /\ UNCHANGED feed
    <3>1. work[s].at \in Engaged /\ work'[s].at \in Engaged /\ SlotStep(s)
      BY <2>1, <2>2, <2>4 DEF SlotStep, Engaged
    <3> QED BY <2>2, <2>4, <3>1, Advances
  <2> QED BY <1>7, <2>2, <2>3, <2>4 DEF Calendars!Recompute
<1>8. ASSUME NEW s \in Slots, Calendars!Catch(s) PROVE FeedsFollow'
  <2>1. /\ work[s].at = "catch" /\ work'[s].at = "failRun"
        /\ \A r \in Slots \ {s} : work'[r] = work[r]
        /\ UNCHANGED <<job, disturbed>>
    BY <1>0, <1>8 DEF Calendars!Catch, Calendars!Go, WorkRow
  <2>2. PICK f \in Feeds : job[s].feed = f
    BY <2>1, Statement DEF Engaged
  <2>3. /\ feed'[f].status = "error" /\ feed'[f].etag = feed[f].etag
        /\ feed'[f].events = feed[f].events /\ feed'[f].nights = feed[f].nights
        /\ \A g \in Feeds \ {f} : feed'[g] = feed[g]
    BY <1>0, <1>8, <2>2 DEF Calendars!Catch, FeedRow
  <2>4. work[s].at \in Engaged /\ work'[s].at \in Engaged /\ SlotStep(s)
    BY <2>1, <2>2, <2>3 DEF SlotStep, Engaged
  <2>5. AtWork(s) => AtWork(s)'
    BY <2>1, <2>2, <2>3 DEF AtWork, InStep
  <2> QED BY <2>2, <2>4, <2>5, Advances
<1>9. ASSUME NEW s \in Slots, Calendars!FinishRun(s) PROVE FeedsFollow'
  <2>1. /\ \/ work[s].at = "finishRun" /\ work'[s].at = "resolve"
           \/ work[s].at = "failRun" /\ work'[s].at = "record"
        /\ \A r \in Slots \ {s} : work'[r] = work[r]
        /\ UNCHANGED <<feed, disturbed>>
    BY <1>0, <1>9 DEF Calendars!FinishRun, Calendars!Go, WorkRow
  <2>2. PICK f \in Feeds : job[s].feed = f
    BY <2>1, Statement DEF Engaged
  <2>3. \A r \in Slots : job'[r].feed = job[r].feed
    BY <1>0, <1>9 DEF Calendars!FinishRun, JobRow
  <2>4. work[s].at \in Engaged /\ work'[s].at \in Engaged /\ SlotStep(s)
    BY <2>1, <2>2, <2>3 DEF SlotStep, Engaged
  <2>5. AtWork(s) => AtWork(s)'
    BY <2>1, <2>2, <2>3 DEF AtWork, InStep
  <2> QED BY <2>2, <2>4, <2>5, Advances
<1>10. ASSUME NEW s \in Slots, Calendars!Incident(s) PROVE FeedsFollow'
  <2>1. /\ work[s].at \in {"resolve", "record"} /\ work'[s].at \in {"succeeded", "failed"}
        /\ \A r \in Slots \ {s} : work'[r] = work[r]
        /\ UNCHANGED <<job, disturbed>>
    BY <1>0, <1>10 DEF Calendars!Incident, Calendars!Go, WorkRow
  <2>2. PICK f \in Feeds : job[s].feed = f
    BY <2>1, Statement DEF Engaged
  <2>3. /\ feed'[f].status = feed[f].status /\ feed'[f].etag = feed[f].etag
        /\ feed'[f].events = feed[f].events /\ feed'[f].nights = feed[f].nights
        /\ feed'[f].incident <=> work[s].at = "record"
        /\ \A g \in Feeds \ {f} : feed'[g] = feed[g]
    BY <1>0, <1>10, <2>2 DEF Calendars!Incident, FeedRow
  <2>4. work[s].at \in Engaged /\ work'[s].at \notin Engaged /\ SlotStep(s)
    BY <2>1, <2>2, <2>3 DEF SlotStep, Engaged
  <2>5. AtWork(s) => Quiet(f)'
    BY <2>1, <2>2, <2>3 DEF AtWork, InStep, Quiet
  <2> QED BY <2>2, <2>4, <2>5, Ends
<1>11. ASSUME NEW s \in Slots, Calendars!Succeed(s) PROVE FeedsFollow'
  <2>1. work[s].at \notin Engaged /\ work'[s].at \notin Engaged
    BY <1>0, <1>11 DEF Calendars!Succeed, Calendars!Go, Engaged, WorkRow
  <2>2. \A r \in Slots \ {s} : work'[r] = work[r] /\ job'[r].feed = job[r].feed
    BY <1>0, <1>11 DEF Calendars!Succeed, Calendars!Go
  <2> QED BY <1>11, <2>1, <2>2, Unengaged DEF Calendars!Succeed
<1>12. ASSUME NEW s \in Slots, Calendars!Fail(s) PROVE FeedsFollow'
  <2>1. work[s].at \notin Engaged /\ work'[s].at \notin Engaged
    BY <1>12, Failed DEF Engaged
  <2>2. \A r \in Slots \ {s} : work'[r] = work[r] /\ job'[r].feed = job[r].feed
    BY <1>12, Failed
  <2>3. \A f \in Feeds : /\ feed'[f].status = feed[f].status /\ feed'[f].nights = feed[f].nights
                         /\ feed'[f].events = feed[f].events /\ feed'[f].etag = feed[f].etag
                         /\ feed'[f].incident = feed[f].incident
    <3>1. CASE UNCHANGED feed
      BY <3>1
    <3>2. CASE feed' = [feed EXCEPT ![job[s].feed].due = FALSE, ![job[s].feed].ticket = NoSlot]
      BY <1>0, <3>2 DEF FeedRow
    <3> QED BY <1>12, <3>1, <3>2, Failed
  <2> QED BY <1>12, <2>1, <2>2, <2>3, Unengaged DEF Calendars!Fail
<1>13. ASSUME NEW s \in Slots, Calendars!FetchFails(s) PROVE FeedsFollow'
  <2>1. /\ work[s].at = "fetch" /\ work'[s].at = "catch"
        /\ \A r \in Slots \ {s} : work'[r] = work[r]
        /\ UNCHANGED <<feed, job, disturbed>>
    BY <1>0, <1>13 DEF Calendars!FetchFails, Calendars!Rest, Calendars!Resting
  <2>2. PICK f \in Feeds : job[s].feed = f
    BY <2>1, Statement DEF Engaged
  <2>4. work[s].at \in Engaged /\ work'[s].at \in Engaged /\ SlotStep(s)
    BY <2>1, <2>2 DEF SlotStep, Engaged
  <2>5. AtWork(s) => AtWork(s)'
    BY <2>1, <2>2 DEF AtWork, InStep
  <2> QED BY <2>2, <2>4, <2>5, Advances
<1>14. ASSUME NEW s \in Slots, Calendars!Die(s) PROVE FeedsFollow'
  <2>1. /\ work'[s].at = "dead" /\ disturbed' = disturbed \cup {job[s].feed}
        /\ \A r \in Slots \ {s} : work'[r] = work[r]
        /\ UNCHANGED <<feed, job>>
    BY <1>0, <1>14 DEF Calendars!Die, Calendars!Rest, Calendars!Resting
  <2>2. PICK f \in Feeds : job[s].feed = f
    BY <1>0, <1>14 DEF Calendars!Die, Calendars!Live, Queued
  <2>3. SlotStep(s)
    BY <2>1, <2>2 DEF SlotStep
  <2>4. FeedFollows(f)'
    BY <2>1, <2>2 DEF FeedFollows
  <2> QED BY <2>2, <2>3, <2>4, OtherFeeds DEF FeedsFollow
<1>15. ASSUME NEW s \in Slots, NEW f \in Feeds, Calendars!EnqueueDue(s, f) PROVE FeedsFollow'
  <2>1. work[s].at \notin Engaged /\ UNCHANGED <<work, disturbed>>
    BY <1>0, <1>15 DEF Calendars!EnqueueDue, Calendars!Settled, Engaged
  <2>2. \A r \in Slots \ {s} : job'[r].feed = job[r].feed
    BY <1>0, <1>15 DEF Calendars!EnqueueDue, Calendars!Queue
  <2>3. \A g \in Feeds : /\ feed'[g].status = feed[g].status /\ feed'[g].nights = feed[g].nights
                         /\ feed'[g].events = feed[g].events /\ feed'[g].etag = feed[g].etag
                         /\ feed'[g].incident = feed[g].incident
    BY <1>0, <1>15 DEF Calendars!EnqueueDue, FeedRow
  <2> QED BY <2>1, <2>2, <2>3, Unengaged
<1>16. ASSUME NEW s \in Slots, NEW f \in Feeds, Calendars!EnqueueManual(s, f) PROVE FeedsFollow'
  <2>1. work[s].at \notin Engaged /\ UNCHANGED <<feed, work, disturbed>>
    BY <1>0, <1>16 DEF Calendars!EnqueueManual, Calendars!Settled, Engaged
  <2>2. \A r \in Slots \ {s} : job'[r].feed = job[r].feed
    BY <1>0, <1>16 DEF Calendars!EnqueueManual, Calendars!Queue
  <2> QED BY <2>1, <2>2, Unengaged
<1>17. ASSUME NEW s \in Slots, NEW f \in Feeds, Calendars!Create(s, f) PROVE FeedsFollow'
  <2>1. /\ work[s].at \notin Engaged /\ work'[s].at = "fetch" /\ work'[s].etag = feed[f].etag
        /\ \A r \in Slots \ {s} : work'[r] = work[r]
        /\ disturbed' = IF Calendars!LiveOf(f) \ {s} = {} THEN disturbed ELSE disturbed \cup {f}
    BY <1>0, <1>17 DEF Calendars!Create, Calendars!Started, Calendars!Resting, Engaged
  <2>2. job'[s].feed = f /\ \A r \in Slots \ {s} : job'[r] = job[r]
    BY <1>0, <1>17 DEF Calendars!Create, Calendars!Free
  <2>3. /\ feed[f].status = "absent" /\ feed'[f].status = "pending"
        /\ feed'[f].nights = feed[f].nights
        /\ feed'[f].events = feed[f].events /\ feed'[f].etag = feed[f].etag
        /\ \A g \in Feeds \ {f} : feed'[g] = feed[g]
    BY <1>0, <1>17 DEF Calendars!Create, FeedRow
  <2>4. ASSUME f \notin disturbed' PROVE FeedFollows(f)'
    <3>1. f \notin disturbed /\ Calendars!LiveOf(f) \ {s} = {}
      BY <2>1, <2>4
    <3>2. EngagedOf(f) = {}
      BY <2>1, <3>1 DEF EngagedOf, Engaged, Calendars!LiveOf, Calendars!Live
    <3>3. EngagedOf(f)' = {s}
      BY <2>1, <2>2, <3>2 DEF EngagedOf, Engaged
    <3>4. Quiet(f)
      BY <3>1, <3>2 DEF FeedsFollow, FeedFollows
    <3>5. AtWork(s)'
      BY <2>1, <2>2, <2>3, <3>4 DEF AtWork, InStep, Quiet
    <3> QED BY <3>3, <3>5 DEF FeedFollows
  <2>5. ASSUME NEW g \in Feeds \ {f}, g \notin disturbed' PROVE FeedFollows(g)'
    <3>1. g \notin disturbed /\ EngagedOf(g)' = EngagedOf(g)
      BY <2>1, <2>2, <2>5 DEF EngagedOf
    <3>2. ASSUME NEW r \in EngagedOf(g) PROVE AtWork(r)' /\ EngagedOf(g) = {r}
      <4>1. /\ AtWork(r) /\ EngagedOf(g) = {r} /\ job[r].feed = g
            /\ work'[r] = work[r] /\ job'[r].feed = g /\ feed'[g] = feed[g]
        BY <2>1, <2>2, <2>3, <2>5, <3>1, <3>2 DEF FeedsFollow, FeedFollows, EngagedOf
      <4> QED BY <4>1 DEF AtWork, InStep, Calendars!Nights, Calendars!NoVersion
    <3>3. EngagedOf(g) = {} => Quiet(g)'
      BY <2>3, <3>1 DEF FeedsFollow, FeedFollows, Quiet, Calendars!Nights, Calendars!NoVersion
    <3> QED BY <3>1, <3>2, <3>3 DEF FeedFollows
  <2>6. FeedFollows(f)' /\ \A g \in Feeds \ {f} : FeedFollows(g)'
    BY <2>4, <2>5 DEF FeedFollows
  <2> QED BY <2>6 DEF FeedsFollow
<1>18. ASSUME NEW f \in Feeds, Calendars!Publish(f) PROVE FeedsFollow'
  BY <1>18, Unengaged DEF Calendars!Publish
<1>19. ASSUME NEW f \in Feeds, Calendars!Revoke(f) PROVE FeedsFollow'
  <2>1. /\ UNCHANGED <<job, work>>
        /\ disturbed' = IF Calendars!LiveOf(f) = {} THEN disturbed ELSE disturbed \cup {f}
    BY <1>19 DEF Calendars!Revoke
  <2>2. /\ feed'[f].status = "revoked" /\ feed'[f].events = Calendars!NoVersion
        /\ feed'[f].nights = feed[f].nights \ Calendars!Between(Calendars!Nights(feed[f].events))
        /\ \A g \in Feeds \ {f} : feed'[g] = feed[g]
    BY <1>0, <1>19 DEF Calendars!Revoke, FeedRow
  <2>3. ASSUME f \notin disturbed' PROVE FeedFollows(f)'
    <3>1. f \notin disturbed /\ EngagedOf(f) = {}
      BY <2>1, <2>3 DEF EngagedOf, Engaged, Calendars!LiveOf, Calendars!Live
    <3>2. Quiet(f)
      BY <3>1 DEF FeedsFollow, FeedFollows
    <3>3. Calendars!Nights(feed[f].events) \subseteq Calendars!Between(Calendars!Nights(feed[f].events))
      <4>1. feed[f].events \in Version
        BY <1>0 DEF FeedRow
      <4> QED BY <4>1 DEF Calendars!Between, Calendars!Nights, Version, Calendars!ConstantsOK, Calendars!Versions
    <3>4. feed'[f].nights = {}
      BY <2>2, <3>2, <3>3 DEF Quiet
    <3>5. Quiet(f)'
      BY <2>2, <3>4 DEF Quiet, Calendars!Nights
    <3>6. EngagedOf(f)' = {}
      BY <2>1, <3>1 DEF EngagedOf
    <3> QED BY <3>5, <3>6 DEF FeedFollows
  <2>4. ASSUME NEW g \in Feeds \ {f}, g \notin disturbed' PROVE FeedFollows(g)'
    <3>1. g \notin disturbed /\ EngagedOf(g)' = EngagedOf(g) /\ feed'[g] = feed[g]
      BY <2>1, <2>2, <2>4 DEF EngagedOf
    <3>2. ASSUME NEW r \in EngagedOf(g) PROVE AtWork(r)' /\ EngagedOf(g) = {r}
      <4>1. AtWork(r) /\ EngagedOf(g) = {r} /\ job[r].feed = g
        BY <3>1, <3>2 DEF FeedsFollow, FeedFollows, EngagedOf
      <4> QED BY <2>1, <3>1, <4>1 DEF AtWork, InStep, Calendars!Nights, Calendars!NoVersion
    <3>3. EngagedOf(g) = {} => Quiet(g)'
      BY <3>1 DEF FeedsFollow, FeedFollows, Quiet, Calendars!Nights, Calendars!NoVersion
    <3> QED BY <3>1, <3>2, <3>3 DEF FeedFollows
  <2>5. FeedFollows(f)' /\ \A g \in Feeds \ {f} : FeedFollows(g)'
    BY <2>3, <2>4 DEF FeedFollows
  <2> QED BY <2>5 DEF FeedsFollow
<1>20. ASSUME NEW f \in Feeds, Calendars!DueAgain(f) PROVE FeedsFollow'
  <2>1. \A g \in Feeds : /\ feed'[g].status = feed[g].status /\ feed'[g].nights = feed[g].nights
                         /\ feed'[g].events = feed[g].events /\ feed'[g].etag = feed[g].etag
                         /\ feed'[g].incident = feed[g].incident
    BY <1>0, <1>20 DEF Calendars!DueAgain, FeedRow
  <2> QED BY <1>20, <2>1, Unengaged DEF Calendars!DueAgain
<1>21. CASE UNCHANGED Calendars!vars
  BY <1>21, Unengaged DEF Calendars!vars
<1> QED BY <1>1, <1>2, <1>3, <1>4, <1>5, <1>6, <1>7, <1>8, <1>9, <1>10, <1>11, <1>12, <1>13, <1>14, <1>15, <1>16, <1>17, <1>18, <1>19, <1>20, <1>21
       DEF Calendars!Next, Calendars!Work

LEMMA CalendarStep == ASSUME Calendars!ConstantsOK, CalendarInv, [Calendars!Next]_(Calendars!vars) PROVE CalendarInv'
<1>1. CalendarTypes'
  BY CalendarTypeStep
<1> QED BY <1>1, QueuedStep, FollowStep, RunStep DEF CalendarInv

\* While no synchronization runs into another, what a calendar blocks, its etag and its
\* incident are those of its last import (provider-external-calendars.ts).
THEOREM FeedsAreFollowed == ASSUME Calendars!ConstantsOK PROVE Calendars!Spec => []Calendars!FeedSound
<1>1. Calendars!Init => CalendarInv
  BY CalendarStart
<1>2. CalendarInv /\ [Calendars!Next]_(Calendars!vars) => CalendarInv'
  BY CalendarStep
<1>3. CalendarInv => Calendars!FeedSound
  BY CalendarSound
<1> QED BY <1>1, <1>2, <1>3, PTL DEF Calendars!Spec

-----------------------------------------------------------------------------
(* Payment accounts. *)

AccountRow == [status : Money!Statuses, challenge : Money!Challenges, keys : 0 .. 1, minted : Nat,
               token : Nat, guess : {"none", "right", "wrong"}, attempts : Nat]
RequestRow == [at : {"idle", "open", "settleOpen", "confirm", "settleConfirm", "verified",
                     "requires_attention", "select", "refresh", "tax"},
               account : Accounts \cup {NoAccount}, key : Nat, guess : {"none", "right", "wrong"},
               got : {"none", "opened", "verified", "ok", "mismatch", "error"},
               tax : {"unseen", "verified", "pending"},
               changed : SUBSET (Accounts \cup {Money!ProfileRow, Money!TaxRow})]
MoneyTypes == /\ account \in [Accounts -> AccountRow] /\ request \in [Calls -> RequestRow]
              /\ opened \subseteq Accounts \X {1} /\ decided \subseteq Accounts \X Nat \X BOOLEAN
              /\ tax \in {"verified", "pending"}
              /\ profile \in [ready : BOOLEAN, primary : Accounts \cup {NoAccount}]
              /\ behind \in BOOLEAN

\* The attempts of an account are its tokens but for the one being confirmed.
RowFits(a) == LET r == account[a] IN
    /\ r.status = "none" => r = Money!NoRow
    /\ r.status = "pending" => r.challenge \in {"none", "initiating", "initiated"}
    /\ r.keys = IF r.challenge = "none" THEN 0 ELSE 1
    /\ r.token = 0 \/ r.token = r.attempts + 1
    /\ r.token # 0 => r.challenge # "none"
    /\ r.minted = IF r.token = 0 THEN r.attempts ELSE r.token
    /\ r.minted <= MaxAttempts
RowsFit == \A a \in Accounts : RowFits(a)

\* What the bank has judged of an account, an acceptance being the token of the moment.
JudgedFits(a) == LET r == account[a] IN
    /\ \A t \in Nat : <<a, t, TRUE>> \in decided =>
          /\ t \in 1 .. r.minted
          /\ t = r.token => r.guess = "right"
          /\ r.status = "pending" => t = r.token
    /\ \A t \in Nat : <<a, t, FALSE>> \in decided =>
          /\ t \in 1 .. r.minted
          /\ t = r.token => r.guess # "right"
    /\ \A t \in 1 .. r.attempts : <<a, t, TRUE>> \in decided \/ <<a, t, FALSE>> \in decided
JudgedOnce == \A a \in Accounts : JudgedFits(a)

\* A call that confirms carries the guess its token was made for, and a token that an
\* account which is still undecided has given up was a wrong guess.
CallFits(c) == LET k == request[c]  r == account[k.account] IN
    /\ k.at \notin {"idle", "refresh", "tax"} => k.account \in Accounts
    /\ k.at \in {"open", "settleOpen"} => k.key = 1
    /\ k.at \in {"confirm", "settleConfirm"} =>
          /\ k.key \in 1 .. r.minted /\ k.guess \in {"right", "wrong"}
          /\ k.key = r.token => k.guess = r.guess
          /\ r.status = "pending" /\ k.key # r.token => k.guess = "wrong"
    /\ k.at = "settleConfirm" =>
          /\ k.got \in {"ok", "mismatch", "error"}
          /\ k.got = "ok" => k.guess = "right" /\ <<k.account, k.key, TRUE>> \in decided
          /\ k.got = "mismatch" => k.guess = "wrong" /\ <<k.account, k.key, FALSE>> \in decided
CallsFit == \A c \in Calls : CallFits(c)

MoneyInv == MoneyTypes /\ RowsFit /\ JudgedOnce /\ CallsFit /\ Money!ProfileSound

LEMMA MoneyStart == ASSUME Money!ConstantsOK, Money!Init PROVE MoneyInv
<1> USE DEF Money!ConstantsOK, Money!Init, Money!NoRow, Money!Idle
<1>1. MoneyTypes
  <2>1. Money!NoRow \in AccountRow /\ Money!Idle \in RequestRow
    BY DEF AccountRow, RequestRow, Money!Statuses, Money!Challenges
  <2> QED BY <2>1 DEF MoneyTypes
<1>2. RowsFit /\ JudgedOnce /\ CallsFit
  BY DEF RowsFit, RowFits, JudgedOnce, JudgedFits, CallsFit, CallFits
<1>3. Money!ProfileSound
  BY DEF Money!ProfileSound, Money!With
<1> QED BY <1>1, <1>2, <1>3 DEF MoneyInv

LEMMA MoneyTypesOK == ASSUME Money!ConstantsOK, MoneyInv PROVE Money!TypeOK
<1> USE DEF MoneyInv, MoneyTypes
<1>1. account \in [Accounts -> [status : Money!Statuses, challenge : Money!Challenges, keys : 0 .. 1,
          minted : 0 .. MaxAttempts, token : 0 .. MaxAttempts,
          guess : {"none", "right", "wrong"}, attempts : 0 .. MaxAttempts]]
  <2> SUFFICES ASSUME NEW a \in Accounts
               PROVE  /\ account[a].minted \in 0 .. MaxAttempts /\ account[a].token \in 0 .. MaxAttempts
                      /\ account[a].attempts \in 0 .. MaxAttempts
    BY DEF AccountRow
  <2>1. account[a].minted \in Nat /\ account[a].token \in Nat /\ account[a].attempts \in Nat
    BY DEF AccountRow
  <2> QED BY <2>1 DEF RowsFit, RowFits, Money!ConstantsOK
<1>2. decided \subseteq Accounts \X (1 .. MaxAttempts) \X BOOLEAN
  <2>1. \A a \in Accounts : account[a].minted \in Nat /\ account[a].minted <= MaxAttempts
    BY DEF AccountRow, RowsFit, RowFits
  <2>2. \A a \in Accounts, t \in Nat :
           <<a, t, TRUE>> \in decided \/ <<a, t, FALSE>> \in decided => t \in 1 .. account[a].minted
    BY DEF JudgedOnce, JudgedFits
  <2>3. \A a \in Accounts : 1 .. account[a].minted \subseteq 1 .. MaxAttempts
    BY <2>1 DEF Money!ConstantsOK
  <2>4. ASSUME NEW d \in decided PROVE d \in Accounts \X (1 .. MaxAttempts) \X BOOLEAN
    <3>1. PICK a \in Accounts, t \in Nat, right \in BOOLEAN : d = <<a, t, right>>
      OBVIOUS
    <3>2. t \in 1 .. MaxAttempts
      <4>1. CASE right = TRUE
        BY <2>2, <2>3, <3>1, <4>1
      <4>2. CASE right = FALSE
        BY <2>2, <2>3, <3>1, <4>2
      <4> QED BY <4>1, <4>2
    <3> QED BY <3>1, <3>2
  <2> QED BY <2>4
<1>3. \A c \in Calls :
         /\ request[c].at \in {"idle", "open", "settleOpen", "confirm", "settleConfirm", "verified",
                               "requires_attention", "select", "refresh", "tax"}
         /\ request[c].account \in Accounts \cup {NoAccount}
  BY DEF RequestRow
<1> QED BY <1>1, <1>2, <1>3 DEF Money!TypeOK

LEMMA MoneySound == ASSUME Money!ConstantsOK, MoneyInv PROVE Money!AccountsSound
<1>1. Money!GuessesBounded
  <2> SUFFICES ASSUME NEW a \in Accounts
               PROVE  /\ Money!Cardinality(Money!JudgedOf(a)) <= MaxAttempts
                      /\ account[a].attempts <= Money!Cardinality(Money!JudgedOf(a))
    BY DEF Money!GuessesBounded
  <2> DEFINE S == Money!JudgedOf(a)
  <2>1. /\ account[a].attempts \in Nat /\ MaxAttempts \in Nat
        /\ account[a].attempts <= MaxAttempts /\ account[a].minted <= MaxAttempts
        /\ account[a].minted \in Nat
    BY DEF MoneyInv, MoneyTypes, AccountRow, RowsFit, RowFits, Money!ConstantsOK
  <2>2. S \subseteq 1 .. MaxAttempts
    <3>1. \A t \in S : <<a, t, TRUE>> \in decided \/ <<a, t, FALSE>> \in decided
      BY DEF Money!JudgedOf
    <3>2. \A t \in S : t \in Nat
      BY <2>1 DEF Money!JudgedOf
    <3> HIDE DEF S
    <3>3. \A t \in S : t \in 1 .. account[a].minted
      BY <3>1, <3>2 DEF MoneyInv, JudgedOnce, JudgedFits
    <3> QED BY <2>1, <3>3
  <2>3. 1 .. account[a].attempts \subseteq S
    <3>1. \A t \in 1 .. account[a].attempts : <<a, t, TRUE>> \in decided \/ <<a, t, FALSE>> \in decided
      BY DEF MoneyInv, JudgedOnce, JudgedFits
    <3>2. \A t \in 1 .. account[a].attempts : t \in 1 .. MaxAttempts + 1
      BY <2>1
    <3> QED BY <3>1, <3>2 DEF Money!JudgedOf
  <2>4. Money!Cardinality(S) = Cardinality(S)
    BY DEF Money!Cardinality, Cardinality
  <2> HIDE DEF S
  <2>5. /\ IsFiniteSet(1 .. MaxAttempts) /\ Cardinality(1 .. MaxAttempts) = MaxAttempts
        /\ Cardinality(1 .. account[a].attempts) = account[a].attempts
    <3>1. \A n \in Nat : IsFiniteSet(1 .. n) /\ Cardinality(1 .. n) = IF 1 > n THEN 0 ELSE n - 1 + 1
      BY FS_Interval
    <3>2. \A n \in Nat : (IF 1 > n THEN 0 ELSE n - 1 + 1) = n
      OBVIOUS
    <3> QED BY <2>1, <3>1, <3>2
  <2>6. IsFiniteSet(S) /\ Cardinality(S) <= MaxAttempts
    BY <2>2, <2>5, FS_Subset
  <2>7. account[a].attempts <= Cardinality(S)
    <3>1. Cardinality(1 .. account[a].attempts) <= Cardinality(S)
      BY <2>3, <2>6, FS_Subset
    <3> QED BY <2>5, <3>1
  <2> QED BY <2>4, <2>6, <2>7 DEF S
<1>2. Money!OneVerification
  <2> SUFFICES ASSUME NEW a \in Accounts
               PROVE  Money!Cardinality({k \in opened : k[1] = a}) <= 1
    BY DEF Money!OneVerification
  <2> DEFINE S == {k \in opened : k[1] = a}
  <2>1. S \subseteq {<<a, 1>>}
    BY DEF MoneyInv, MoneyTypes
  <2>2. Money!Cardinality(S) = Cardinality(S)
    BY DEF Money!Cardinality, Cardinality
  <2> HIDE DEF S
  <2>3. Cardinality(S) <= 1
    <3>1. IsFiniteSet({<<a, 1>>}) /\ Cardinality({<<a, 1>>}) = 1
      BY FS_Singleton
    <3>2. Cardinality(S) <= Cardinality({<<a, 1>>})
      BY <2>1, <3>1, FS_Subset
    <3> QED BY <3>1, <3>2
  <2> QED BY <2>2, <2>3 DEF S
<1>3. Money!AcceptanceRecoverable
  <2> SUFFICES ASSUME NEW a \in Accounts, NEW t \in 1 .. MaxAttempts, account[a].status = "pending",
                      <<a, t, TRUE>> \in decided
               PROVE  account[a].token = t /\ account[a].guess = "right"
    BY DEF Money!AcceptanceRecoverable, Money!Pending
  <2>1. t \in Nat
    BY DEF Money!ConstantsOK
  <2>2. JudgedFits(a)
    BY DEF MoneyInv, JudgedOnce
  <2> QED BY <2>1, <2>2 DEF JudgedFits
<1> QED BY <1>1, <1>2, <1>3 DEF MoneyInv, Money!AccountsSound

\* What a commit does to the calls of the others: it only ages their snapshots.
SameCall(k, l) == /\ k.at = l.at /\ k.account = l.account /\ k.key = l.key
                  /\ k.guess = l.guess /\ k.got = l.got
Others(c) == /\ request' \in [Calls -> RequestRow]
             /\ \A d \in Calls \ {c} : SameCall(request'[d], request[d])
AnyRow == Accounts \cup {Money!ProfileRow, Money!TaxRow}

LEMMA AgedType ==
  ASSUME MoneyTypes, NEW rows \in SUBSET AnyRow, NEW d \in Calls
  PROVE  Money!Aged(d, rows) \in RequestRow /\ SameCall(Money!Aged(d, rows), request[d])
<1>1. request[d] \in RequestRow
  BY DEF MoneyTypes
<1>2. [request[d] EXCEPT !.changed = @ \cup (rows \cap Money!Needs(d))] \in RequestRow
  BY <1>1 DEF RequestRow, AnyRow
<1>3. SameCall([request[d] EXCEPT !.changed = @ \cup (rows \cap Money!Needs(d))], request[d])
  BY <1>1 DEF SameCall, RequestRow
<1> QED BY <1>1, <1>2, <1>3 DEF Money!Aged, SameCall

LEMMA Touched ==
  ASSUME MoneyTypes, NEW rows \in SUBSET AnyRow, NEW c \in Calls, NEW next \in RequestRow,
         Money!Touching(c, rows, next)
  PROVE  Others(c) /\ request'[c] = next
BY AgedType DEF Money!Touching, Others

LEMMA Begun ==
  ASSUME MoneyTypes, NEW c \in Calls, NEW next \in RequestRow, Money!Begin(c, next)
  PROVE  Others(c) /\ SameCall(request'[c], next)
<1>1. [next EXCEPT !.tax = tax] \in RequestRow /\ SameCall([next EXCEPT !.tax = tax], next)
  BY DEF MoneyTypes, RequestRow, SameCall
<1> QED BY <1>1 DEF Money!Begin, MoneyTypes, Others, SameCall

LEMMA Called ==
  ASSUME MoneyTypes, NEW c \in Calls, NEW next \in RequestRow, request' = [request EXCEPT ![c] = next]
  PROVE  Others(c) /\ request'[c] = next
BY DEF MoneyTypes, Others, SameCall

LEMMA IdleType == Money!Idle \in RequestRow
BY DEF Money!Idle, RequestRow

LEMMA DecideEffect ==
  ASSUME MoneyTypes, NEW c \in Calls, request[c].account \in Accounts, NEW r \in AccountRow,
         Money!Decide(c, r)
  PROVE  /\ account' = [account EXCEPT ![request[c].account] = r]
         /\ Others(c) /\ request'[c] = Money!Idle
         /\ r.status = "pending" => UNCHANGED <<profile, behind>>
         /\ r.status # "pending" =>
               Money!WriteProfile(c, Money!With("verified") \cup
                                     (IF r.status = "verified" THEN {request[c].account} ELSE {}),
                                  IF r.status = "verified" THEN Money!Beneficiary(request[c].account)
                                  ELSE profile.primary)
<1>1. {request[c].account} \in SUBSET AnyRow /\ {request[c].account, Money!ProfileRow} \in SUBSET AnyRow
  BY DEF AnyRow
<1> QED BY <1>1, Touched, IdleType DEF Money!Decide

LEMMA SettledRow ==
  ASSUME NEW r \in AccountRow, NEW got \in {"ok", "mismatch", "error"}
  PROVE  LET next == Money!Settlement(r, got) IN
         /\ next \in AccountRow /\ (got = "error" => next = r)
         /\ next.keys = r.keys /\ next.minted = r.minted
         /\ got # "error" => /\ next.attempts = r.attempts + 1 /\ next.token = 0
                             /\ next.guess = "none"
         /\ got = "ok" => next.status = "verified" /\ next.challenge = "confirmed"
         /\ got = "mismatch" => \/ next.status = r.status /\ next.challenge = r.challenge
                                \/ next.status = "requires_attention" /\ next.challenge = "failed"
<1> DEFINE counted == [r EXCEPT !.attempts = @ + 1, !.token = 0, !.guess = "none"]
<1>1. /\ counted \in AccountRow /\ counted.status = r.status /\ counted.challenge = r.challenge
      /\ counted.keys = r.keys /\ counted.minted = r.minted /\ counted.attempts = r.attempts + 1
      /\ counted.token = 0 /\ counted.guess = "none"
  <2>1. r.attempts \in Nat /\ r.attempts + 1 \in Nat
    BY DEF AccountRow
  <2>2. counted \in [status : Money!Statuses, challenge : Money!Challenges, keys : 0 .. 1, minted : Nat,
                     token : {0}, guess : {"none"}, attempts : {r.attempts + 1}]
    BY DEF AccountRow
  <2>3. counted.status = r.status /\ counted.challenge = r.challenge
        /\ counted.keys = r.keys /\ counted.minted = r.minted
    BY DEF AccountRow
  <2> HIDE DEF counted
  <2> QED BY <2>1, <2>2, <2>3 DEF AccountRow
<1>2. /\ [counted EXCEPT !.status = "verified", !.challenge = "confirmed"] \in AccountRow
      /\ [counted EXCEPT !.status = "requires_attention", !.challenge = "failed"] \in AccountRow
  <2> HIDE DEF counted
  <2> QED BY <1>1 DEF AccountRow, Money!Statuses, Money!Challenges
<1>3. CASE got = "ok"
  <2>1. Money!Settlement(r, got) = [counted EXCEPT !.status = "verified", !.challenge = "confirmed"]
    BY <1>3 DEF Money!Settlement
  <2> HIDE DEF counted
  <2> QED BY <1>1, <1>2, <1>3, <2>1 DEF AccountRow
<1>4. CASE got = "error"
  <2>1. Money!Settlement(r, got) = r
    BY <1>4 DEF Money!Settlement
  <2> QED BY <1>4, <2>1
<1>5. CASE got = "mismatch"
  <2>1. \/ Money!Settlement(r, got) = counted
        \/ Money!Settlement(r, got) = [counted EXCEPT !.status = "requires_attention", !.challenge = "failed"]
    BY <1>5 DEF Money!Settlement
  <2> HIDE DEF counted
  <2> QED BY <1>1, <1>2, <1>5, <2>1 DEF AccountRow
<1> QED BY <1>3, <1>4, <1>5

LEMMA CreateEffect ==
  ASSUME MoneyTypes, NEW a \in Accounts, Money!Create(a)
  PROVE  /\ account[a].status = "none" /\ Money!With("pending") = {}
         /\ account'[a] = [Money!NoRow EXCEPT !.status = "pending"]
         /\ \A b \in Accounts \ {a} :
               \/ account'[b] = account[b]
               \/ account[b].status = "requires_attention"
                  /\ account'[b] = [account[b] EXCEPT !.status = "superseded"]
         /\ account' \in [Accounts -> AccountRow]
         /\ request' \in [Calls -> RequestRow] /\ \A d \in Calls : SameCall(request'[d], request[d])
<1>1. [Money!NoRow EXCEPT !.status = "pending"] \in AccountRow
  BY DEF AccountRow, Money!NoRow, Money!Statuses, Money!Challenges
<1>2. ASSUME NEW b \in Accounts PROVE [account[b] EXCEPT !.status = "superseded"] \in AccountRow
  BY DEF MoneyTypes, AccountRow, Money!Statuses
<1>3. {a} \cup Money!With("requires_attention") \in SUBSET AnyRow
  BY DEF AnyRow, Money!With
<1>4. request' = [d \in Calls |-> Money!Aged(d, {a} \cup Money!With("requires_attention"))]
  BY DEF Money!Create
<1>5. request' \in [Calls -> RequestRow] /\ \A d \in Calls : SameCall(request'[d], request[d])
  BY <1>3, <1>4, AgedType
<1> QED BY <1>1, <1>2, <1>5 DEF Money!Create, MoneyTypes

\* A row of which only the status and the challenge change, or nothing.
Judgeless(r, s) == s.minted = r.minted /\ s.token = r.token /\ s.guess = r.guess /\ s.attempts = r.attempts

LEMMA ReviewEffect ==
  ASSUME MoneyTypes, CallsFit, NEW c \in Calls, NEW verdict \in {"verified", "requires_attention"},
         Money!Review(c, verdict)
  PROVE  LET a == request[c].account  r == [account[a] EXCEPT !.status = verdict] IN
         /\ a \in Accounts /\ account[a].status = "pending"
         /\ r \in AccountRow /\ r.status = verdict /\ Judgeless(account[a], r)
         /\ r.keys = account[a].keys /\ r.challenge = account[a].challenge
         /\ Money!Decide(c, r) /\ UNCHANGED <<opened, decided, tax>>
<1>1. request[c].account \in Accounts
  BY DEF Money!Review, CallsFit, CallFits
<1>2. account[request[c].account] \in AccountRow
  BY <1>1 DEF MoneyTypes
<1> QED BY <1>1, <1>2 DEF Money!Review, Money!Pending, Money!bank, AccountRow, Money!Statuses, Judgeless

LEMMA ReserveOpenEffect ==
  ASSUME MoneyTypes, RowsFit, NEW c \in Calls, NEW a \in Accounts, Money!ReserveOpen(c, a)
  PROVE  /\ account[a].status = "pending" /\ account'[a].status = "pending"
         /\ \A b \in Accounts \ {a} : account'[b] = account[b]
         /\ account' \in [Accounts -> AccountRow] /\ Judgeless(account[a], account'[a])
         /\ account'[a].keys = 1 /\ account'[a].challenge = "initiating"
         /\ Others(c) /\ request'[c].at = "open" /\ request'[c].account = a /\ request'[c].key = 1
         /\ UNCHANGED <<opened, decided, tax, profile, behind>>
<1> DEFINE keys == IF account[a].challenge = "initiating" THEN account[a].keys ELSE account[a].keys + 1
           r == [account[a] EXCEPT !.challenge = "initiating", !.keys = keys]
           next == [Money!Idle EXCEPT !.at = "open", !.account = a, !.key = keys]
<1>1. account[a] \in AccountRow
  BY DEF MoneyTypes
<1>2. keys = 1
  <2>1. account[a].status = "pending" /\ account[a].challenge \notin {"initiated", "failed"}
    BY DEF Money!ReserveOpen, Money!Pending
  <2> QED BY <2>1 DEF RowsFit, RowFits
<1> HIDE DEF keys
<1>3. /\ r \in AccountRow /\ r.status = account[a].status /\ Judgeless(account[a], r)
      /\ r.keys = 1 /\ r.challenge = "initiating"
  <2>1. r \in [status : {account[a].status}, challenge : {"initiating"}, keys : {1},
               minted : {account[a].minted}, token : {account[a].token},
               guess : {account[a].guess}, attempts : {account[a].attempts}]
    BY <1>1, <1>2 DEF AccountRow
  <2> HIDE DEF r
  <2> QED BY <1>1, <2>1 DEF AccountRow, Money!Challenges, Judgeless
<1>4. next \in RequestRow /\ next.at = "open" /\ next.account = a /\ next.key = 1
  BY <1>2 DEF RequestRow, Money!Idle
<1>5. /\ account[a].status = "pending"
      /\ account' = [account EXCEPT ![a].challenge = "initiating", ![a].keys = keys]
      /\ Money!Touching(c, {a}, next) /\ UNCHANGED <<opened, decided, tax, profile, behind>>
  BY DEF keys, Money!ReserveOpen, Money!RequestKey, Money!Pending, Money!bank
<1>6. account' = [account EXCEPT ![a] = r]
  BY <1>5
<1> HIDE DEF r, next
<1>7. Others(c) /\ request'[c] = next
  <2>1. {a} \in SUBSET AnyRow
    BY DEF AnyRow
  <2> QED BY <1>4, <1>5, <2>1, Touched
<1>8. account'[a] = r /\ \A b \in Accounts \ {a} : account'[b] = account[b]
  BY <1>6 DEF MoneyTypes
<1>9. account' \in [Accounts -> AccountRow]
  BY <1>3, <1>6 DEF MoneyTypes
<1> QED BY <1>3, <1>4, <1>5, <1>7, <1>8, <1>9

LEMMA AskOpenEffect ==
  ASSUME MoneyTypes, NEW c \in Calls, Money!AskOpen(c)
  PROVE  /\ request[c].at = "open" /\ Others(c)
         /\ \/ request'[c] = Money!Idle
            \/ /\ request'[c].at = "settleOpen" /\ request'[c].account = request[c].account
               /\ request'[c].key = request[c].key
         /\ opened' \in {opened, opened \cup {<<request[c].account, request[c].key>>}}
         /\ UNCHANGED <<account, decided, tax, profile, behind>>
<1>1. ASSUME NEW got \in {"opened", "verified"},
             Money!Begin(c, [request[c] EXCEPT !.at = "settleOpen", !.got = got])
      PROVE  /\ Others(c) /\ request'[c].at = "settleOpen" /\ request'[c].account = request[c].account
             /\ request'[c].key = request[c].key
  <2>1. request[c] \in RequestRow
    BY DEF MoneyTypes
  <2> DEFINE next == [request[c] EXCEPT !.at = "settleOpen", !.got = got]
  <2>2. /\ next \in RequestRow /\ next.at = "settleOpen" /\ next.account = request[c].account
        /\ next.key = request[c].key /\ next.guess = request[c].guess /\ next.got = got
    BY <2>1 DEF RequestRow
  <2>3. Money!Begin(c, next)
    BY <1>1
  <2> HIDE DEF next
  <2>4. Others(c) /\ SameCall(request'[c], next)
    BY <2>2, <2>3, Begun
  <2> QED BY <2>2, <2>4 DEF SameCall
<1>2. request[c].at = "open" /\ UNCHANGED <<account, decided, tax, profile, behind>>
      /\ opened' \in {opened, opened \cup {<<request[c].account, request[c].key>>}}
  BY DEF Money!AskOpen
<1>3. CASE request' = [request EXCEPT ![c] = Money!Idle]
  BY <1>2, <1>3, Called, IdleType
<1> QED BY <1>1, <1>2, <1>3 DEF Money!AskOpen

LEMMA SettleOpenEffect ==
  ASSUME MoneyTypes, CallsFit, NEW c \in Calls, Money!SettleOpen(c)
  PROVE  LET a == request[c].account IN
         /\ a \in Accounts /\ account[a].status = "pending" /\ UNCHANGED <<opened, decided, tax>>
         /\ account[a].keys = 1
         /\ \/ /\ UNCHANGED <<account, profile, behind>>
               /\ Others(c) /\ request'[c] = Money!Idle
            \/ \E r \in AccountRow :
                  /\ Money!Decide(c, r) /\ Judgeless(account[a], r) /\ r.keys = 1
                  /\ \/ r.status = "verified" /\ r.challenge = "confirmed"
                     \/ r.status = "pending" /\ r.challenge = "initiated"
<1> DEFINE a == request[c].account
<1>1. a \in Accounts /\ request[c].key = 1
  BY DEF Money!SettleOpen, CallsFit, CallFits
<1>2. account[a] \in AccountRow
  BY <1>1 DEF MoneyTypes
<1>3. /\ [account[a] EXCEPT !.status = "verified", !.challenge = "confirmed"] \in AccountRow
      /\ [account[a] EXCEPT !.challenge = "initiated"] \in AccountRow
  BY <1>2 DEF AccountRow, Money!Statuses, Money!Challenges
<1>4. account[a].status = "pending" /\ account[a].keys = 1 /\ UNCHANGED <<opened, decided, tax>>
  BY <1>1 DEF Money!SettleOpen, Money!Pending, Money!bank
<1>5. CASE request' = [request EXCEPT ![c] = Money!Idle] /\ UNCHANGED <<account, profile, behind>>
  BY <1>1, <1>4, <1>5, Called, IdleType
<1>6. CASE Money!Decide(c, [account[a] EXCEPT !.status = "verified", !.challenge = "confirmed"])
  <2> DEFINE r == [account[a] EXCEPT !.status = "verified", !.challenge = "confirmed"]
  <2>1. Judgeless(account[a], r) /\ r.keys = 1 /\ r.status = "verified" /\ r.challenge = "confirmed"
    BY <1>2, <1>4 DEF AccountRow, Judgeless
  <2> HIDE DEF r
  <2> QED BY <1>1, <1>3, <1>4, <1>6, <2>1 DEF r
<1>7. CASE Money!Decide(c, [account[a] EXCEPT !.challenge = "initiated"])
  <2> DEFINE r == [account[a] EXCEPT !.challenge = "initiated"]
  <2>1. Judgeless(account[a], r) /\ r.keys = 1 /\ r.status = "pending" /\ r.challenge = "initiated"
    BY <1>2, <1>4 DEF AccountRow, Judgeless
  <2> HIDE DEF r
  <2> QED BY <1>1, <1>3, <1>4, <1>7, <2>1 DEF r
<1> QED BY <1>5, <1>6, <1>7 DEF Money!SettleOpen

LEMMA ReserveConfirmEffect ==
  ASSUME MoneyTypes, NEW c \in Calls, NEW a \in Accounts, NEW guess \in {"right", "wrong"},
         Money!ReserveConfirm(c, a, guess)
  PROVE  /\ account[a].status = "pending" /\ account[a].attempts < MaxAttempts
         /\ account[a].challenge = "initiated"
         /\ \/ account[a].token # 0 /\ account[a].guess = guess /\ UNCHANGED account
            \/ /\ account[a].token = 0
               /\ account'[a].minted = account[a].minted + 1
               /\ account'[a].token = account[a].minted + 1 /\ account'[a].guess = guess
               /\ account'[a].attempts = account[a].attempts /\ account'[a].keys = account[a].keys
               /\ account'[a].status = "pending" /\ account'[a].challenge = account[a].challenge
         /\ \A b \in Accounts \ {a} : account'[b] = account[b]
         /\ account' \in [Accounts -> AccountRow]
         /\ Others(c) /\ request'[c].at = "confirm" /\ request'[c].account = a
         /\ request'[c].guess = guess /\ request'[c].key = account'[a].token
         /\ UNCHANGED <<opened, decided, tax, profile, behind>>
<1> DEFINE r == account[a]
           fresh == [r EXCEPT !.minted = @ + 1, !.token = r.minted + 1, !.guess = guess]
           key == IF r.token # 0 THEN r.token ELSE fresh.token
           next == [Money!Idle EXCEPT !.at = "confirm", !.account = a, !.guess = guess, !.key = key]
<1>1. r \in AccountRow /\ r.minted \in Nat /\ r.minted + 1 \in Nat
  BY DEF MoneyTypes, AccountRow
<1>2. /\ fresh \in [status : {r.status}, challenge : {r.challenge}, keys : {r.keys},
                    minted : {r.minted + 1}, token : {r.minted + 1}, guess : {guess},
                    attempts : {r.attempts}]
  BY <1>1 DEF AccountRow
<1>3. fresh \in AccountRow
  <2> HIDE DEF fresh, r
  <2> QED BY <1>1, <1>2 DEF AccountRow
<1>4. /\ r.status = "pending" /\ r.challenge = "initiated" /\ r.attempts < MaxAttempts /\ (r.token # 0 => r.guess = guess)
      /\ account' = [account EXCEPT ![a] = IF r.token # 0 THEN r ELSE fresh]
      /\ Money!Touching(c, {a}, next)
      /\ UNCHANGED <<opened, decided, tax, profile, behind>>
  BY DEF Money!ReserveConfirm, Money!Pending, Money!bank
<1>5. key \in Nat
  <2> HIDE DEF fresh
  <2> QED BY <1>1, <1>2, <1>3 DEF AccountRow
<1>6. /\ account'[a] = IF r.token # 0 THEN r ELSE fresh
      /\ \A b \in Accounts \ {a} : account'[b] = account[b]
      /\ account' \in [Accounts -> AccountRow]
  <2> HIDE DEF fresh
  <2> QED BY <1>1, <1>3, <1>4 DEF MoneyTypes
<1>7. Others(c) /\ request'[c].at = "confirm" /\ request'[c].account = a
      /\ request'[c].guess = guess /\ request'[c].key = key
  <2> HIDE DEF key
  <2>1. /\ next \in RequestRow /\ next.at = "confirm" /\ next.account = a
        /\ next.guess = guess /\ next.key = key
    BY <1>5 DEF RequestRow, Money!Idle
  <2>2. {a} \in SUBSET AnyRow
    BY DEF AnyRow
  <2> HIDE DEF next
  <2> QED BY <1>4, <2>1, <2>2, Touched
<1>8. key = account'[a].token
  BY <1>6
<1> HIDE DEF fresh, key, next
<1>9. CASE r.token # 0
  <2>1. account' = account
    BY <1>4, <1>9 DEF MoneyTypes
  <2> QED BY <1>4, <1>6, <1>7, <1>8, <1>9, <2>1
<1>10. CASE r.token = 0
  <2>1. account'[a] = fresh
    BY <1>6, <1>10
  <2> QED BY <1>2, <1>4, <1>6, <1>7, <1>8, <1>10, <2>1
<1> QED BY <1>9, <1>10

LEMMA AskConfirmEffect ==
  ASSUME MoneyTypes, NEW c \in Calls, Money!AskConfirm(c)
  PROVE  LET k == request[c]  l == request'[c] IN
         /\ k.at = "confirm" /\ Others(c) /\ l.at = "settleConfirm" /\ l.account = k.account
         /\ l.key = k.key /\ l.guess = k.guess /\ l.got \in {"ok", "mismatch", "error"}
         /\ decided' \in {decided, Money!Judged(c)}
         /\ l.got = "ok" => k.guess = "right" /\ decided' = Money!Judged(c)
         /\ l.got = "mismatch" => k.guess # "right" /\ decided' = Money!Judged(c)
         /\ UNCHANGED <<account, opened, tax, profile, behind>>
<1>1. ASSUME NEW got \in {"ok", "mismatch", "error"},
             Money!Begin(c, [request[c] EXCEPT !.at = "settleConfirm", !.got = got])
      PROVE  /\ Others(c) /\ request'[c].at = "settleConfirm" /\ request'[c].account = request[c].account
             /\ request'[c].key = request[c].key /\ request'[c].guess = request[c].guess
             /\ request'[c].got = got
  <2>1. request[c] \in RequestRow
    BY DEF MoneyTypes
  <2> DEFINE next == [request[c] EXCEPT !.at = "settleConfirm", !.got = got]
  <2>2. /\ next \in RequestRow /\ next.at = "settleConfirm" /\ next.account = request[c].account
        /\ next.key = request[c].key /\ next.guess = request[c].guess /\ next.got = got
    BY <2>1 DEF RequestRow
  <2>3. Money!Begin(c, next)
    BY <1>1
  <2> HIDE DEF next
  <2>4. Others(c) /\ SameCall(request'[c], next)
    BY <2>2, <2>3, Begun
  <2> QED BY <2>2, <2>4 DEF SameCall
<1>2. CASE /\ decided' = Money!Judged(c)
           /\ Money!Begin(c, [request[c] EXCEPT !.at = "settleConfirm",
                              !.got = IF request[c].guess = "right" THEN "ok" ELSE "mismatch"])
  <2>1. CASE request[c].guess = "right"
    BY <1>1, <1>2, <2>1 DEF Money!AskConfirm
  <2>2. CASE request[c].guess # "right"
    BY <1>1, <1>2, <2>2 DEF Money!AskConfirm
  <2> QED BY <2>1, <2>2
<1>3. CASE /\ decided' \in {decided, Money!Judged(c)}
           /\ Money!Begin(c, [request[c] EXCEPT !.at = "settleConfirm", !.got = "error"])
  BY <1>1, <1>3 DEF Money!AskConfirm
<1> QED BY <1>2, <1>3 DEF Money!AskConfirm

LEMMA SettleConfirmEffect ==
  ASSUME MoneyTypes, CallsFit, NEW c \in Calls, Money!SettleConfirm(c)
  PROVE  LET k == request[c]  a == k.account  r == Money!Settlement(account[a], k.got) IN
         /\ a \in Accounts /\ account[a].status = "pending" /\ account[a].token = k.key
         /\ k.at = "settleConfirm" /\ k.got \in {"ok", "mismatch", "error"}
         /\ r \in AccountRow /\ Money!Decide(c, r) /\ UNCHANGED <<opened, decided, tax>>
<1>1. /\ request[c].account \in Accounts /\ request[c].got \in {"ok", "mismatch", "error"}
      /\ request[c].at = "settleConfirm"
  BY DEF Money!SettleConfirm, CallsFit, CallFits
<1>2. account[request[c].account] \in AccountRow
  BY <1>1 DEF MoneyTypes
<1> QED BY <1>1, <1>2, SettledRow DEF Money!SettleConfirm, Money!Pending, Money!bank

\* The actions that leave every row and the bank alone.
Calm(c) == \/ Money!SelectPrimary(c) \/ Money!SeeTax(c) \/ Money!Refresh(c) \/ Money!Abandon(c)
           \/ Money!SaveTax(c) \/ Money!StartTaxReview(c)
           \/ \E verdict \in {"verified", "pending"} : Money!ReviewTax(c, verdict)
           \/ \E a \in Accounts, what \in {"verified", "requires_attention", "select"} :
                 Money!Start(c, a, what)

LEMMA CalmEffect ==
  ASSUME MoneyTypes, NEW c \in Calls, Calm(c)
  PROVE  /\ UNCHANGED <<account, opened, decided>> /\ Others(c)
         /\ \/ request'[c].at \in {"idle", "refresh", "tax"}
            \/ /\ request'[c].at \in {"verified", "requires_attention", "select"}
               /\ request'[c].account \in Accounts
<1>0. Money!Idle \in RequestRow /\ Money!Idle.at = "idle"
  BY IdleType DEF Money!Idle
<1>1. ASSUME Money!SelectPrimary(c) PROVE UNCHANGED <<account, opened, decided>> /\ Others(c) /\ request'[c].at = "idle"
  <2>1. {Money!ProfileRow} \in SUBSET AnyRow
    BY DEF AnyRow
  <2> QED BY <1>0, <1>1, <2>1, Touched DEF Money!SelectPrimary, Money!bank
<1>2. ASSUME Money!SeeTax(c) PROVE UNCHANGED <<account, opened, decided>> /\ Others(c) /\ request'[c].at = "refresh"
  <2>1. request[c] \in RequestRow
    BY DEF MoneyTypes
  <2> QED BY <1>2, <2>1, Begun DEF Money!SeeTax, Money!bank, SameCall
<1>3. ASSUME Money!Refresh(c) PROVE UNCHANGED <<account, opened, decided>> /\ Others(c) /\ request'[c].at = "idle"
  <2>1. {} \in SUBSET AnyRow /\ {Money!ProfileRow} \in SUBSET AnyRow
    BY DEF AnyRow
  <2>2. CASE request' = [request EXCEPT ![c] = Money!Idle]
    BY <1>0, <1>3, <2>2, Called DEF Money!Refresh, Money!bank
  <2>3. CASE Money!Touching(c, IF profile.primary = NoAccount THEN {} ELSE {Money!ProfileRow}, Money!Idle)
    BY <1>0, <1>3, <2>1, <2>3, Touched DEF Money!Refresh, Money!bank
  <2> QED BY <1>3, <2>2, <2>3 DEF Money!Refresh
<1>4. ASSUME Money!Abandon(c) PROVE UNCHANGED <<account, opened, decided>> /\ Others(c) /\ request'[c].at = "idle"
  BY <1>0, <1>4, Called DEF Money!Abandon, Money!bank
<1>5. ASSUME Money!SaveTax(c)
      PROVE  UNCHANGED <<account, opened, decided>> /\ Others(c) /\ request'[c].at = "refresh"
  <2> DEFINE next == [Money!Idle EXCEPT !.at = "refresh"]
  <2>1. next \in RequestRow /\ next.at = "refresh"
    BY DEF Money!Idle, RequestRow
  <2>2. {Money!TaxRow} \in SUBSET AnyRow
    BY DEF AnyRow
  <2>3. Money!Touching(c, {Money!TaxRow}, next) /\ UNCHANGED <<account, opened, decided>>
    BY <1>5 DEF Money!SaveTax, Money!bank
  <2> HIDE DEF next
  <2> QED BY <2>1, <2>2, <2>3, Touched
<1>7. ASSUME Money!StartTaxReview(c)
      PROVE  UNCHANGED <<account, opened, decided>> /\ Others(c) /\ request'[c].at = "tax"
  <2> DEFINE next == [Money!Idle EXCEPT !.at = "tax", !.account = profile.primary]
  <2>1. next \in RequestRow /\ next.at = "tax"
    BY DEF Money!Idle, RequestRow, MoneyTypes
  <2>2. Money!Begin(c, next) /\ UNCHANGED <<account, opened, decided>>
    BY <1>7 DEF Money!StartTaxReview, Money!bank
  <2> HIDE DEF next
  <2> QED BY <2>1, <2>2, Begun DEF SameCall
<1>8. ASSUME NEW verdict \in {"verified", "pending"}, Money!ReviewTax(c, verdict)
      PROVE  UNCHANGED <<account, opened, decided>> /\ Others(c) /\ request'[c].at = "idle"
  <2> DEFINE rows == {Money!TaxRow} \cup (IF request[c].account = NoAccount THEN {} ELSE {Money!ProfileRow})
  <2>1. rows \in SUBSET AnyRow
    BY DEF AnyRow
  <2>2. Money!Touching(c, rows, Money!Idle) /\ UNCHANGED <<account, opened, decided>>
    BY <1>8 DEF Money!ReviewTax, Money!bank
  <2> HIDE DEF rows
  <2> QED BY <1>0, <2>1, <2>2, Touched
<1>6. ASSUME NEW a \in Accounts, NEW what \in {"verified", "requires_attention", "select"},
             Money!Start(c, a, what)
      PROVE  /\ UNCHANGED <<account, opened, decided>> /\ Others(c)
             /\ request'[c].at = what /\ request'[c].account = a
  <2> DEFINE next == [Money!Idle EXCEPT !.at = what, !.account = a]
  <2>1. next \in RequestRow /\ next.at = what /\ next.account = a
    BY DEF Money!Idle, RequestRow
  <2>2. Money!Begin(c, next) /\ UNCHANGED <<account, opened, decided>>
    BY <1>6 DEF Money!Start, Money!bank
  <2> HIDE DEF next
  <2> QED BY <2>1, <2>2, Begun DEF SameCall
<1> QED BY <1>1, <1>2, <1>3, <1>4, <1>5, <1>6, <1>7, <1>8 DEF Calm

LEMMA MoneyActions ==
  ASSUME [Money!Next]_(Money!vars)
  PROVE  \/ \E a \in Accounts : Money!Create(a)
         \/ \E c \in Calls :
               \/ Calm(c) \/ Money!AskOpen(c) \/ Money!SettleOpen(c)
               \/ Money!AskConfirm(c) \/ Money!SettleConfirm(c)
               \/ \E verdict \in {"verified", "requires_attention"} : Money!Review(c, verdict)
               \/ \E a \in Accounts : Money!ReserveOpen(c, a)
               \/ \E a \in Accounts, guess \in {"right", "wrong"} : Money!ReserveConfirm(c, a, guess)
         \/ UNCHANGED Money!vars
BY DEF Money!Next, Calm

LEMMA DecidedRow ==
  ASSUME MoneyTypes, NEW c \in Calls, request[c].account \in Accounts, NEW r \in AccountRow, Money!Decide(c, r)
  PROVE  /\ account'[request[c].account] = r /\ account' \in [Accounts -> AccountRow]
         /\ \A b \in Accounts \ {request[c].account} : account'[b] = account[b]
         /\ Others(c) /\ request'[c].at = "idle"
<1>1. Money!Idle.at = "idle"
  BY DEF Money!Idle
<1>2. /\ account' = [account EXCEPT ![request[c].account] = r]
      /\ Others(c) /\ request'[c] = Money!Idle
  BY DecideEffect
<1> QED BY <1>1, <1>2 DEF MoneyTypes

LEMMA RowsStep ==
  ASSUME Money!ConstantsOK, MoneyInv, [Money!Next]_(Money!vars)
  PROVE  RowsFit'
<1>0. MoneyTypes /\ RowsFit /\ CallsFit /\ MaxAttempts \in Nat
  BY DEF MoneyInv, Money!ConstantsOK
<1>a. \A a \in Accounts : account[a] \in AccountRow /\ RowFits(a)
  BY <1>0 DEF MoneyTypes, RowsFit
<1>b. ASSUME NEW a \in Accounts, account'[a] = account[a] PROVE RowFits(a)'
  BY <1>a, <1>b DEF RowFits
<1>c. ASSUME NEW a \in Accounts, account'[a] \in AccountRow, Judgeless(account[a], account'[a]),
             account'[a].keys = (IF account'[a].challenge = "none" THEN 0 ELSE 1),
             account'[a].status # "none", account'[a].token # 0 => account'[a].challenge # "none",
             account'[a].status = "pending" => account'[a].challenge \in {"none", "initiating", "initiated"}
      PROVE  RowFits(a)'
  BY <1>a, <1>c DEF RowFits, Judgeless
<1>1. ASSUME NEW a \in Accounts, Money!Create(a) PROVE RowsFit'
  <2>1. RowFits(a)'
    BY <1>0, <1>1, CreateEffect DEF RowFits, Money!NoRow
  <2>2. ASSUME NEW b \in Accounts \ {a}, account[b].status = "requires_attention",
               account'[b] = [account[b] EXCEPT !.status = "superseded"]
        PROVE  RowFits(b)'
    <3>1. /\ account'[b] \in AccountRow /\ Judgeless(account[b], account'[b])
          /\ account'[b].keys = account[b].keys /\ account'[b].challenge = account[b].challenge
          /\ account'[b].status = "superseded"
      BY <1>a, <2>2 DEF AccountRow, Judgeless, Money!Statuses
    <3> QED BY <1>a, <1>c, <3>1 DEF RowFits, Judgeless
  <2> QED BY <1>0, <1>1, <1>b, <2>1, <2>2, CreateEffect DEF RowsFit
<1>2. ASSUME NEW c \in Calls, Calm(c) PROVE RowsFit'
  BY <1>0, <1>2, <1>b, CalmEffect DEF RowsFit
<1>3. ASSUME NEW c \in Calls, Money!AskOpen(c) PROVE RowsFit'
  BY <1>0, <1>3, <1>b, AskOpenEffect DEF RowsFit
<1>4. ASSUME NEW c \in Calls, Money!SettleOpen(c) PROVE RowsFit'
  <2>a. PICK a \in Accounts : a = request[c].account
    BY <1>0, <1>4, SettleOpenEffect
  <2>1. CASE UNCHANGED account
    BY <2>1, <1>b DEF RowsFit
  <2>2. ASSUME NEW r \in AccountRow, Money!Decide(c, r), Judgeless(account[a], r), r.keys = 1,
               \/ r.status = "verified" /\ r.challenge = "confirmed"
               \/ r.status = "pending" /\ r.challenge = "initiated"
        PROVE  RowsFit'
    <3>2. account'[a] = r /\ \A b \in Accounts \ {a} : account'[b] = account[b]
      BY <1>0, <2>a, <2>2, DecidedRow
    <3>3. RowFits(a)'
      BY <1>c, <2>2, <3>2
    <3> QED BY <1>b, <3>2, <3>3 DEF RowsFit
  <2> QED BY <1>0, <1>4, <2>a, <2>1, <2>2, SettleOpenEffect
<1>5. ASSUME NEW c \in Calls, Money!AskConfirm(c) PROVE RowsFit'
  BY <1>0, <1>5, <1>b, AskConfirmEffect DEF RowsFit
<1>6. ASSUME NEW c \in Calls, Money!SettleConfirm(c) PROVE RowsFit'
  <2>a. PICK a \in Accounts : a = request[c].account
    BY <1>0, <1>6, SettleConfirmEffect
  <2> DEFINE r == Money!Settlement(account[a], request[c].got)
  <2>1. /\ r \in AccountRow /\ Money!Decide(c, r) /\ account[a].status = "pending"
        /\ request[c].got \in {"ok", "mismatch", "error"} /\ account[a].token = request[c].key
        /\ request[c].at = "settleConfirm"
    BY <1>0, <1>6, <2>a, SettleConfirmEffect
  <2>2. account'[a] = r /\ \A b \in Accounts \ {a} : account'[b] = account[b]
    BY <1>0, <2>a, <2>1, DecidedRow
  <2>3. RowFits(a)'
    <3>1. CASE request[c].got = "error"
      BY <1>a, <1>b, <2>1, <2>2, <3>1, SettledRow
    <3>2. CASE request[c].got # "error"
      <4>1. /\ r.keys = account[a].keys /\ r.minted = account[a].minted
            /\ r.attempts = account[a].attempts + 1 /\ r.token = 0
            /\ \/ r.status = "verified" /\ r.challenge = "confirmed"
               \/ r.status = "pending" /\ r.challenge = account[a].challenge
               \/ r.status = "requires_attention" /\ r.challenge = "failed"
        BY <1>a, <2>1, <3>2, SettledRow
      <4>2. account[a].token # 0
        <5>1. request[c].key \in 1 .. account[a].minted
          BY <1>0, <2>a, <2>1 DEF CallsFit, CallFits
        <5> QED BY <2>1, <5>1
      <4> HIDE DEF r
      <4> QED BY <1>0, <1>a, <2>1, <2>2, <4>1, <4>2 DEF RowFits, AccountRow
    <3> QED BY <3>1, <3>2
  <2> QED BY <1>b, <2>2, <2>3 DEF RowsFit
<1>7. ASSUME NEW c \in Calls, NEW verdict \in {"verified", "requires_attention"}, Money!Review(c, verdict)
      PROVE  RowsFit'
  <2>a. PICK a \in Accounts : a = request[c].account
    BY <1>0, <1>7, ReviewEffect
  <2> DEFINE r == [account[a] EXCEPT !.status = verdict]
  <2>1. /\ r \in AccountRow /\ Money!Decide(c, r) /\ r.status = verdict
        /\ Judgeless(account[a], r) /\ r.keys = account[a].keys /\ r.challenge = account[a].challenge
    BY <1>0, <1>7, <2>a, ReviewEffect, ZenonT(30)
  <2> HIDE DEF r
  <2>2. account'[a] = r /\ \A b \in Accounts \ {a} : account'[b] = account[b]
    BY <1>0, <2>a, <2>1, DecidedRow
  <2>3. RowFits(a)'
    <3>1. account[a].status = "pending"
      BY <1>0, <1>7, <2>a, ReviewEffect
    <3> QED BY <1>a, <1>c, <2>1, <2>2 DEF RowFits, Judgeless
  <2> QED BY <1>b, <2>2, <2>3 DEF RowsFit
<1>8. ASSUME NEW c \in Calls, NEW a \in Accounts, Money!ReserveOpen(c, a) PROVE RowsFit'
  <2>1. RowFits(a)'
    BY <1>0, <1>8, <1>c, ReserveOpenEffect
  <2> QED BY <1>0, <1>8, <1>b, <2>1, ReserveOpenEffect DEF RowsFit
<1>9. ASSUME NEW c \in Calls, NEW a \in Accounts, NEW guess \in {"right", "wrong"},
             Money!ReserveConfirm(c, a, guess)
      PROVE  RowsFit'
  <2>1. CASE UNCHANGED account
    BY <2>1, <1>b DEF RowsFit
  <2>2. CASE /\ account[a].token = 0
             /\ account'[a].minted = account[a].minted + 1
             /\ account'[a].token = account[a].minted + 1 /\ account'[a].guess = guess
             /\ account'[a].attempts = account[a].attempts /\ account'[a].keys = account[a].keys
             /\ account'[a].status = "pending" /\ account'[a].challenge = account[a].challenge
    <3>1. account[a].status = "pending" /\ account[a].attempts < MaxAttempts
          /\ account[a].challenge = "initiated"
          /\ \A b \in Accounts \ {a} : account'[b] = account[b]
      BY <1>0, <1>9, ReserveConfirmEffect
    <3>2. RowFits(a)'
      BY <1>0, <1>a, <2>2, <3>1 DEF RowFits, AccountRow
    <3> QED BY <1>b, <3>1, <3>2 DEF RowsFit
  <2> QED BY <1>0, <1>9, <2>1, <2>2, ReserveConfirmEffect
<1>10. CASE UNCHANGED Money!vars
  BY <1>10, <1>b DEF Money!vars, RowsFit
<1> QED BY <1>1, <1>2, <1>3, <1>4, <1>5, <1>6, <1>7, <1>8, <1>9, <1>10, MoneyActions

LEMMA JudgedStep ==
  ASSUME Money!ConstantsOK, MoneyInv, [Money!Next]_(Money!vars)
  PROVE  JudgedOnce'
<1>0. MoneyTypes /\ RowsFit /\ CallsFit /\ JudgedOnce
  BY DEF MoneyInv
<1>a. \A a \in Accounts : /\ account[a] \in AccountRow /\ RowFits(a) /\ JudgedFits(a)
                          /\ account[a].token \in Nat /\ account[a].minted \in Nat /\ account[a].attempts \in Nat
  BY <1>0 DEF MoneyTypes, RowsFit, JudgedOnce, AccountRow
<1>c. ASSUME NEW a \in Accounts, Judgeless(account[a], account'[a]), UNCHANGED decided,
             account'[a].status = "pending" => account[a].status = "pending"
      PROVE  JudgedFits(a)'
  BY <1>a, <1>c DEF JudgedFits, Judgeless
<1>b. ASSUME NEW a \in Accounts, account'[a] = account[a], UNCHANGED decided PROVE JudgedFits(a)'
  BY <1>b, <1>c DEF Judgeless
<1>1. ASSUME NEW a \in Accounts, Money!Create(a) PROVE JudgedOnce'
  <2>0. UNCHANGED decided
    BY <1>1 DEF Money!Create, Money!bank
  <2>1. JudgedFits(a)'
    <3>1. account[a] = Money!NoRow /\ account'[a] = [Money!NoRow EXCEPT !.status = "pending"]
      BY <1>0, <1>a, <1>1, CreateEffect DEF RowFits
    <3>2. \A t \in Nat : <<a, t, TRUE>> \notin decided /\ <<a, t, FALSE>> \notin decided
      <4>1. JudgedFits(a) /\ account[a].minted = 0
        BY <1>a, <3>1 DEF Money!NoRow
      <4>2. \A t \in Nat : t \notin 1 .. 0
        OBVIOUS
      <4> QED BY <4>1, <4>2 DEF JudgedFits
    <3>3. /\ account'[a].minted = 0 /\ account'[a].attempts = 0 /\ account'[a].token = 0
          /\ \A t \in 1 .. 0 : FALSE
      BY <3>1 DEF Money!NoRow
    <3> QED BY <2>0, <3>2, <3>3 DEF JudgedFits
  <2>2. ASSUME NEW b \in Accounts \ {a}, account[b].status = "requires_attention",
               account'[b] = [account[b] EXCEPT !.status = "superseded"]
        PROVE  JudgedFits(b)'
    <3>1. Judgeless(account[b], account'[b]) /\ account'[b].status = "superseded"
      BY <1>a, <2>2 DEF AccountRow, Judgeless
    <3> QED BY <1>c, <2>0, <3>1
  <2> QED BY <1>0, <1>1, <1>b, <2>0, <2>1, <2>2, CreateEffect DEF JudgedOnce
<1>2. ASSUME NEW c \in Calls, Calm(c) PROVE JudgedOnce'
  BY <1>0, <1>2, <1>b, CalmEffect DEF JudgedOnce
<1>3. ASSUME NEW c \in Calls, Money!AskOpen(c) PROVE JudgedOnce'
  BY <1>0, <1>3, <1>b, AskOpenEffect DEF JudgedOnce
<1>4. ASSUME NEW c \in Calls, Money!SettleOpen(c) PROVE JudgedOnce'
  <2>a. PICK a \in Accounts : a = request[c].account
    BY <1>0, <1>4, SettleOpenEffect
  <2>b. UNCHANGED decided /\ account[a].status = "pending"
    BY <1>0, <1>4, <2>a, SettleOpenEffect
  <2>1. CASE UNCHANGED account
    BY <2>1, <2>b, <1>b DEF JudgedOnce
  <2>2. ASSUME NEW r \in AccountRow, Money!Decide(c, r), Judgeless(account[a], r) PROVE JudgedOnce'
    <3>1. account'[a] = r /\ \A b \in Accounts \ {a} : account'[b] = account[b]
      BY <1>0, <2>a, <2>2, DecidedRow
    <3>2. JudgedFits(a)'
      BY <1>c, <2>b, <2>2, <3>1
    <3> QED BY <1>b, <2>b, <3>1, <3>2 DEF JudgedOnce
  <2> QED BY <1>0, <1>4, <2>a, <2>1, <2>2, SettleOpenEffect
<1>5. ASSUME NEW c \in Calls, Money!AskConfirm(c) PROVE JudgedOnce'
  <2>a. PICK a \in Accounts, key \in Nat :
           a = request[c].account /\ key = request[c].key /\ key \in 1 .. account[a].minted
    <3>1. request[c].at = "confirm" /\ CallFits(c) /\ request[c].key \in Nat
      BY <1>0, <1>5, AskConfirmEffect DEF CallsFit, MoneyTypes, RequestRow
    <3> QED BY <3>1 DEF CallFits
  <2>b. /\ request[c].guess \in {"right", "wrong"}
        /\ key = account[a].token => request[c].guess = account[a].guess
        /\ account[a].status = "pending" /\ key # account[a].token => request[c].guess = "wrong"
    BY <1>0, <1>5, <2>a, AskConfirmEffect DEF CallsFit, CallFits
  <2>1. UNCHANGED account
    BY <1>0, <1>5, AskConfirmEffect
  <2>2. CASE UNCHANGED decided
    BY <1>b, <2>1, <2>2 DEF JudgedOnce
  <2>3. CASE request[c].guess = "right" /\ decided' = decided \cup {<<a, key, TRUE>>}
    BY <1>a, <2>a, <2>b, <2>1, <2>3 DEF JudgedOnce, JudgedFits
  <2>4. CASE request[c].guess = "wrong" /\ decided' = decided \cup {<<a, key, FALSE>>}
    BY <1>a, <2>a, <2>b, <2>1, <2>4 DEF JudgedOnce, JudgedFits
  <2>5. decided' = decided \/ decided' = decided \cup {<<a, key, request[c].guess = "right">>}
    BY <1>0, <1>5, <2>a, AskConfirmEffect DEF Money!Judged
  <2>6. CASE request[c].guess = "right"
    <3>1. (request[c].guess = "right") = TRUE
      BY <2>6
    <3> QED BY <2>2, <2>3, <2>5, <2>6, <3>1
  <2>7. CASE request[c].guess = "wrong"
    <3>1. (request[c].guess = "right") = FALSE
      BY <2>7
    <3> QED BY <2>2, <2>4, <2>5, <2>7, <3>1
  <2> QED BY <2>b, <2>6, <2>7
<1>6. ASSUME NEW c \in Calls, Money!SettleConfirm(c) PROVE JudgedOnce'
  <2>a. PICK a \in Accounts, key \in Nat : a = request[c].account /\ key = request[c].key
    BY <1>0, <1>6, SettleConfirmEffect DEF MoneyTypes, RequestRow
  <2> DEFINE r == Money!Settlement(account[a], request[c].got)
  <2>1. /\ r \in AccountRow /\ Money!Decide(c, r) /\ account[a].status = "pending"
        /\ request[c].got \in {"ok", "mismatch", "error"} /\ account[a].token = key
        /\ request[c].at = "settleConfirm" /\ UNCHANGED decided
    BY <1>0, <1>6, <2>a, SettleConfirmEffect
  <2>2. account'[a] = r /\ \A b \in Accounts \ {a} : account'[b] = account[b]
    BY <1>0, <2>a, <2>1, DecidedRow
  <2>3. JudgedFits(a)'
    <3>1. CASE request[c].got = "error"
      BY <1>a, <1>b, <2>1, <2>2, <3>1, SettledRow
    <3>2. CASE request[c].got # "error"
      <4>1. /\ r.minted = account[a].minted
            /\ r.attempts = account[a].attempts + 1 /\ r.token = 0 /\ r.guess = "none"
            /\ request[c].got = "ok" => r.status = "verified"
        BY <1>a, <2>1, <3>2, SettledRow
      <4>2. /\ key \in 1 .. account[a].minted
            /\ request[c].got = "mismatch" => <<a, key, FALSE>> \in decided /\ account[a].guess = "wrong"
            /\ request[c].got = "ok" => <<a, key, TRUE>> \in decided
        BY <1>0, <2>a, <2>1 DEF CallsFit, CallFits
      <4>3. key = account[a].attempts + 1
        BY <1>a, <2>1, <4>2 DEF RowFits
      <4>4. \A t \in 1 .. account[a].attempts + 1 : <<a, t, TRUE>> \in decided \/ <<a, t, FALSE>> \in decided
        <5>1. \A t \in 1 .. account[a].attempts + 1 : t \in 1 .. account[a].attempts \/ t = key
          BY <1>a, <4>3
        <5>2. <<a, key, TRUE>> \in decided \/ <<a, key, FALSE>> \in decided
          BY <2>1, <3>2, <4>2
        <5> QED BY <1>a, <5>1, <5>2 DEF JudgedFits
      <4>5. r.status = "pending" => \A t \in Nat : <<a, t, TRUE>> \notin decided
        BY <1>a, <2>1, <3>2, <4>1, <4>2 DEF JudgedFits
      <4>6. \A t \in Nat : <<a, t, TRUE>> \in decided \/ <<a, t, FALSE>> \in decided => t \in 1 .. account[a].minted
        BY <1>a DEF JudgedFits
      <4> HIDE DEF r
      <4>7. \A t \in Nat : t \in 1 .. account[a].minted => t # 0
        OBVIOUS
      <4> QED BY <2>1, <2>2, <4>1, <4>4, <4>5, <4>6, <4>7 DEF JudgedFits
    <3> QED BY <3>1, <3>2
  <2> QED BY <1>b, <2>1, <2>2, <2>3 DEF JudgedOnce
<1>7. ASSUME NEW c \in Calls, NEW verdict \in {"verified", "requires_attention"}, Money!Review(c, verdict)
      PROVE  JudgedOnce'
  <2>a. PICK a \in Accounts : a = request[c].account
    BY <1>0, <1>7, ReviewEffect
  <2> DEFINE r == [account[a] EXCEPT !.status = verdict]
  <2>1. /\ r \in AccountRow /\ Money!Decide(c, r) /\ account[a].status = "pending"
        /\ Judgeless(account[a], r) /\ UNCHANGED decided
    BY <1>0, <1>7, <2>a, ReviewEffect
  <2> HIDE DEF r
  <2>2. account'[a] = r /\ \A b \in Accounts \ {a} : account'[b] = account[b]
    BY <1>0, <2>a, <2>1, DecidedRow
  <2>3. JudgedFits(a)'
    BY <1>c, <2>1, <2>2
  <2> QED BY <1>b, <2>1, <2>2, <2>3 DEF JudgedOnce
<1>8. ASSUME NEW c \in Calls, NEW a \in Accounts, Money!ReserveOpen(c, a) PROVE JudgedOnce'
  <2>1. JudgedFits(a)'
    BY <1>0, <1>8, <1>c, ReserveOpenEffect
  <2> QED BY <1>0, <1>8, <1>b, <2>1, ReserveOpenEffect DEF JudgedOnce
<1>9. ASSUME NEW c \in Calls, NEW a \in Accounts, NEW guess \in {"right", "wrong"},
             Money!ReserveConfirm(c, a, guess)
      PROVE  JudgedOnce'
  <2>0. UNCHANGED decided /\ account[a].status = "pending"
    BY <1>0, <1>9, ReserveConfirmEffect
  <2>1. CASE UNCHANGED account
    BY <2>0, <2>1, <1>b DEF JudgedOnce
  <2>2. CASE /\ account[a].token = 0
             /\ account'[a].minted = account[a].minted + 1
             /\ account'[a].token = account[a].minted + 1
             /\ account'[a].attempts = account[a].attempts /\ account'[a].status = "pending"
    <3>1. \A b \in Accounts \ {a} : account'[b] = account[b]
      BY <1>0, <1>9, ReserveConfirmEffect
    <3>2. JudgedFits(a)'
      <4>1. \A t \in Nat : t \in 1 .. account[a].minted =>
               t \in 1 .. account'[a].minted /\ t # account'[a].token /\ t # 0
        BY <1>a, <2>2
      <4>2. \A t \in Nat : /\ <<a, t, TRUE>> \notin decided
                           /\ <<a, t, FALSE>> \in decided => t \in 1 .. account[a].minted
        <5>1. JudgedFits(a)
          BY <1>a
        <5> QED BY <2>0, <2>2, <4>1, <5>1 DEF JudgedFits
      <4>3. \A t \in 1 .. account'[a].attempts : <<a, t, TRUE>> \in decided \/ <<a, t, FALSE>> \in decided
        BY <1>a, <2>2 DEF JudgedFits
      <4> QED BY <2>0, <4>1, <4>2, <4>3 DEF JudgedFits
    <3> QED BY <1>b, <2>0, <3>1, <3>2 DEF JudgedOnce
  <2> QED BY <1>0, <1>9, <2>1, <2>2, ReserveConfirmEffect
<1>10. CASE UNCHANGED Money!vars
  BY <1>10, <1>b DEF Money!vars, Money!bank, JudgedOnce
<1> QED BY <1>1, <1>2, <1>3, <1>4, <1>5, <1>6, <1>7, <1>8, <1>9, <1>10, MoneyActions

LEMMA CallsStep ==
  ASSUME Money!ConstantsOK, MoneyInv, MoneyTypes', [Money!Next]_(Money!vars)
  PROVE  CallsFit'
<1>0. MoneyTypes /\ RowsFit /\ CallsFit
  BY DEF MoneyInv
<1>a. \A a \in Accounts : /\ account[a] \in AccountRow /\ RowFits(a)
                          /\ account[a].token \in Nat /\ account[a].minted \in Nat /\ account[a].attempts \in Nat
  BY <1>0 DEF MoneyTypes, RowsFit, AccountRow
<1>b. \A d \in Calls : /\ CallFits(d) /\ request[d].key \in Nat
                       /\ request[d].at \in {"open", "settleOpen", "confirm", "settleConfirm"} =>
                             request[d].account \in Accounts
  BY <1>0 DEF CallsFit, CallFits, MoneyTypes, RequestRow
\* A call that is as it was fits, when its account is as judged as it was, or more so.
<1>c. ASSUME NEW d \in Calls, SameCall(request'[d], request[d]), decided \subseteq decided',
             \A a \in Accounts : Judgeless(account[a], account'[a])
                                 /\ (account'[a].status = "pending" => account[a].status = "pending")
      PROVE  CallFits(d)'
  <2>1. CallFits(d)
    BY <1>b
  <2>2. CASE request[d].at \in {"confirm", "settleConfirm"}
    <3> DEFINE a == request[d].account
    <3>1. /\ a \in Accounts /\ Judgeless(account[a], account'[a])
          /\ account'[a].status = "pending" => account[a].status = "pending"
      BY <1>b, <1>c, <2>2
    <3> QED BY <1>c, <2>1, <2>2, <3>1 DEF CallFits, SameCall, Judgeless
  <2>3. CASE request[d].at \notin {"confirm", "settleConfirm"}
    BY <1>c, <2>1, <2>3 DEF CallFits, SameCall
  <2> QED BY <2>2, <2>3
<1>d. ASSUME NEW d \in Calls, request'[d].at \in {"idle", "refresh", "tax"} PROVE CallFits(d)'
  BY <1>d DEF CallFits
<1>1. ASSUME NEW a \in Accounts, Money!Create(a) PROVE CallsFit'
  <2>0. UNCHANGED decided
    BY <1>1 DEF Money!Create, Money!bank
  <2>1. \A b \in Accounts \ {a} : /\ Judgeless(account[b], account'[b])
                                  /\ account'[b].status = "pending" => account[b].status = "pending"
    <3>1. ASSUME NEW b \in Accounts \ {a}, account'[b] = [account[b] EXCEPT !.status = "superseded"]
          PROVE  Judgeless(account[b], account'[b]) /\ account'[b].status = "superseded"
      BY <1>a, <3>1 DEF AccountRow, Judgeless
    <3> QED BY <1>0, <1>1, <3>1, CreateEffect, ZenonT(30) DEF Judgeless
  <2>2. account[a].minted = 0
    BY <1>0, <1>a, <1>1, CreateEffect DEF RowFits, Money!NoRow
  <2> SUFFICES ASSUME NEW d \in Calls PROVE CallFits(d)'
    BY DEF CallsFit
  <2>3. SameCall(request'[d], request[d])
    BY <1>0, <1>1, CreateEffect
  <2>4. CASE request[d].account # a
    <3>1. CallFits(d)
      BY <1>b
    <3>2. CASE request[d].at \in {"confirm", "settleConfirm"}
      <4>1. /\ Judgeless(account[request[d].account], account'[request[d].account])
            /\ account'[request[d].account].status = "pending" =>
                   account[request[d].account].status = "pending"
        BY <1>b, <2>1, <2>4, <3>2
      <4> QED BY <2>0, <2>3, <3>1, <3>2, <4>1 DEF CallFits, SameCall, Judgeless
    <3>3. CASE request[d].at \notin {"confirm", "settleConfirm"}
      BY <2>3, <3>1, <3>3 DEF CallFits, SameCall
    <3> QED BY <3>2, <3>3
  <2>5. CASE request[d].account = a
    <3>1. request[d].at \notin {"confirm", "settleConfirm"}
      <4>1. CallFits(d) /\ \A t \in Nat : t \notin 1 .. 0
        BY <1>b
      <4> QED BY <1>b, <2>2, <2>5, <4>1 DEF CallFits
    <3> QED BY <1>b, <2>3, <2>5, <3>1 DEF CallFits, SameCall
  <2> QED BY <2>4, <2>5
<1>2. ASSUME NEW c \in Calls, Calm(c) PROVE CallsFit'
  <2>1. /\ UNCHANGED <<account, opened, decided>> /\ Others(c)
        /\ \/ request'[c].at \in {"idle", "refresh", "tax"}
           \/ /\ request'[c].at \in {"verified", "requires_attention", "select"}
              /\ request'[c].account \in Accounts
    BY <1>0, <1>2, CalmEffect
  <2>2. CallFits(c)'
    BY <2>1 DEF CallFits
  <2> QED BY <1>c, <2>1, <2>2 DEF CallsFit, Others, Judgeless
<1>3. ASSUME NEW c \in Calls, Money!AskOpen(c) PROVE CallsFit'
  <2>1. UNCHANGED <<account, decided>> /\ Others(c)
    BY <1>0, <1>3, AskOpenEffect
  <2>2. CallFits(c)'
    <3>1. CASE request'[c] = Money!Idle
      BY <1>d, <3>1 DEF Money!Idle
    <3>2. CASE /\ request'[c].at = "settleOpen" /\ request'[c].account = request[c].account
               /\ request'[c].key = request[c].key
      <4>1. request[c].at = "open"
        BY <1>0, <1>3, AskOpenEffect
      <4> QED BY <1>b, <3>2, <4>1 DEF CallFits
    <3> QED BY <1>0, <1>3, <3>1, <3>2, AskOpenEffect
  <2> QED BY <1>c, <2>1, <2>2 DEF CallsFit, Others, Judgeless
<1>4. ASSUME NEW c \in Calls, Money!SettleOpen(c) PROVE CallsFit'
  <2>a. PICK a \in Accounts : a = request[c].account
    BY <1>0, <1>4, SettleOpenEffect
  <2>b. UNCHANGED decided /\ account[a].status = "pending"
    BY <1>0, <1>4, <2>a, SettleOpenEffect
  <2>1. CASE UNCHANGED account /\ Others(c) /\ request'[c] = Money!Idle
    <3>1. CallFits(c)'
      BY <1>d, <2>1 DEF Money!Idle
    <3> QED BY <1>c, <2>1, <2>b, <3>1 DEF CallsFit, Others, Judgeless
  <2>2. ASSUME NEW r \in AccountRow, Money!Decide(c, r), Judgeless(account[a], r) PROVE CallsFit'
    <3>1. /\ account'[a] = r /\ \A b \in Accounts \ {a} : account'[b] = account[b]
          /\ Others(c) /\ request'[c].at = "idle"
      BY <1>0, <2>a, <2>2, DecidedRow
    <3>2. CallFits(c)'
      BY <1>d, <3>1
    <3>3. \A b \in Accounts : /\ Judgeless(account[b], account'[b])
                              /\ account'[b].status = "pending" => account[b].status = "pending"
      BY <2>b, <2>2, <3>1 DEF Judgeless
    <3> QED BY <1>c, <2>b, <3>1, <3>2, <3>3 DEF CallsFit, Others
  <2> QED BY <1>0, <1>4, <2>a, <2>1, <2>2, SettleOpenEffect
<1>5. ASSUME NEW c \in Calls, Money!AskConfirm(c) PROVE CallsFit'
  <2>1. UNCHANGED account /\ Others(c) /\ decided \subseteq decided'
    BY <1>0, <1>5, AskConfirmEffect DEF Money!Judged
  <2>2. CallFits(c)'
    <3> DEFINE k == request[c]
               l == request'[c]
    <3>1. /\ k.at = "confirm" /\ l.at = "settleConfirm" /\ l.account = k.account
          /\ l.key = k.key /\ l.guess = k.guess /\ l.got \in {"ok", "mismatch", "error"}
          /\ l.got = "ok" => k.guess = "right" /\ <<k.account, k.key, k.guess = "right">> \in decided'
          /\ l.got = "mismatch" => k.guess # "right" /\ <<k.account, k.key, k.guess = "right">> \in decided'
      BY <1>0, <1>5, AskConfirmEffect DEF Money!Judged
    <3>2. /\ l.got = "ok" => <<k.account, k.key, TRUE>> \in decided'
          /\ l.got = "mismatch" => <<k.account, k.key, FALSE>> \in decided'
      <4>1. k.guess = "right" => (k.guess = "right") = TRUE
        OBVIOUS
      <4>2. k.guess # "right" => (k.guess = "right") = FALSE
        OBVIOUS
      <4> HIDE DEF k, l
      <4> QED BY <3>1, <4>1, <4>2
    <3> QED BY <1>b, <2>1, <3>1, <3>2 DEF CallFits
  <2> QED BY <1>c, <2>1, <2>2 DEF CallsFit, Others, Judgeless
<1>6. ASSUME NEW c \in Calls, Money!SettleConfirm(c) PROVE CallsFit'
  <2>a. PICK a \in Accounts, key \in Nat : a = request[c].account /\ key = request[c].key
    BY <1>0, <1>6, SettleConfirmEffect DEF MoneyTypes, RequestRow
  <2> DEFINE r == Money!Settlement(account[a], request[c].got)
  <2>1. /\ r \in AccountRow /\ Money!Decide(c, r) /\ account[a].status = "pending"
        /\ request[c].got \in {"ok", "mismatch", "error"} /\ account[a].token = key
        /\ request[c].at = "settleConfirm" /\ UNCHANGED decided
    BY <1>0, <1>6, <2>a, SettleConfirmEffect
  <2>2. /\ account'[a] = r /\ \A b \in Accounts \ {a} : account'[b] = account[b]
        /\ Others(c) /\ request'[c].at = "idle"
    BY <1>0, <2>a, <2>1, DecidedRow
  <2>3. CallFits(c)'
    BY <1>d, <2>2
  <2>4. CASE request[c].got = "error"
    <3>1. r = account[a]
      BY <1>a, <2>1, <2>4, SettledRow
    <3>2. \A b \in Accounts : Judgeless(account[b], account'[b]) /\ account'[b].status = account[b].status
      BY <2>2, <3>1 DEF Judgeless
    <3> QED BY <1>c, <2>1, <2>2, <2>3, <3>2 DEF CallsFit, Others
  <2>5. CASE request[c].got # "error"
    <3>1. /\ r.minted = account[a].minted /\ r.token = 0 /\ r.guess = "none"
          /\ request[c].got = "ok" => r.status = "verified"
      BY <1>a, <2>1, <2>5, SettledRow
    <3>2. /\ key \in 1 .. account[a].minted
          /\ request[c].got = "mismatch" => account[a].guess = "wrong"
      BY <1>b, <2>a, <2>1 DEF CallFits
    <3>3. r.status = "pending" => account[a].guess = "wrong"
      BY <2>1, <2>5, <3>1, <3>2
    <3> HIDE DEF r
    <3>4. ASSUME NEW d \in Calls \ {c} PROVE CallFits(d)'
      <4>1. SameCall(request'[d], request[d]) /\ CallFits(d)
        BY <1>b, <2>2 DEF Others
      <4>2. CASE request[d].account # a \/ request[d].at \notin {"confirm", "settleConfirm"}
        BY <1>b, <2>1, <2>2, <4>1, <4>2 DEF CallFits, SameCall
      <4>3. CASE request[d].account = a /\ request[d].at \in {"confirm", "settleConfirm"}
        <5>1. request[d].key \in 1 .. account[a].minted /\ request[d].key # 0
          BY <1>a, <4>1, <4>3 DEF CallFits
        <5> QED BY <2>1, <2>2, <3>1, <3>3, <4>1, <4>3, <5>1 DEF CallFits, SameCall
      <4> QED BY <4>2, <4>3
    <3> QED BY <2>3, <3>4 DEF CallsFit
  <2> QED BY <2>4, <2>5
<1>7. ASSUME NEW c \in Calls, NEW verdict \in {"verified", "requires_attention"}, Money!Review(c, verdict)
      PROVE  CallsFit'
  <2>a. PICK a \in Accounts : a = request[c].account
    BY <1>0, <1>7, ReviewEffect
  <2> DEFINE r == [account[a] EXCEPT !.status = verdict]
  <2>1. /\ r \in AccountRow /\ Money!Decide(c, r) /\ account[a].status = "pending"
        /\ Judgeless(account[a], r) /\ UNCHANGED decided
    BY <1>0, <1>7, <2>a, ReviewEffect
  <2> HIDE DEF r
  <2>2. /\ account'[a] = r /\ \A b \in Accounts \ {a} : account'[b] = account[b]
        /\ Others(c) /\ request'[c].at = "idle"
    BY <1>0, <2>a, <2>1, DecidedRow
  <2>3. CallFits(c)'
    BY <1>d, <2>2
  <2>4. \A b \in Accounts : /\ Judgeless(account[b], account'[b])
                            /\ account'[b].status = "pending" => account[b].status = "pending"
    BY <2>1, <2>2 DEF Judgeless
  <2> QED BY <1>c, <2>1, <2>2, <2>3, <2>4 DEF CallsFit, Others
<1>8. ASSUME NEW c \in Calls, NEW a \in Accounts, Money!ReserveOpen(c, a) PROVE CallsFit'
  <2>1. CallFits(c)'
    BY <1>0, <1>8, ReserveOpenEffect DEF CallFits
  <2>2. \A b \in Accounts : /\ Judgeless(account[b], account'[b])
                            /\ account'[b].status = "pending" => account[b].status = "pending"
    BY <1>0, <1>8, ReserveOpenEffect DEF Judgeless
  <2>3. UNCHANGED decided /\ Others(c)
    BY <1>0, <1>8, ReserveOpenEffect
  <2> QED BY <1>c, <2>1, <2>2, <2>3 DEF CallsFit, Others
<1>9. ASSUME NEW c \in Calls, NEW a \in Accounts, NEW guess \in {"right", "wrong"},
             Money!ReserveConfirm(c, a, guess)
      PROVE  CallsFit'
  <2>0. /\ UNCHANGED decided /\ account[a].status = "pending" /\ Others(c)
        /\ request'[c].at = "confirm" /\ request'[c].account = a
        /\ request'[c].guess = guess /\ request'[c].key = account'[a].token
    BY <1>0, <1>9, ReserveConfirmEffect
  <2>1. CASE account[a].token # 0 /\ account[a].guess = guess /\ UNCHANGED account
    <3>1. account[a].token \in 1 .. account[a].minted
      BY <1>a, <2>1 DEF RowFits
    <3>2. CallFits(c)'
      BY <2>0, <2>1, <3>1 DEF CallFits
    <3> QED BY <1>c, <2>0, <2>1, <3>2 DEF CallsFit, Others, Judgeless
  <2>2. CASE /\ account[a].token = 0
             /\ account'[a].minted = account[a].minted + 1
             /\ account'[a].token = account[a].minted + 1 /\ account'[a].guess = guess
    <3>1. \A b \in Accounts \ {a} : account'[b] = account[b]
      BY <1>0, <1>9, ReserveConfirmEffect
    <3>2. account'[a].token \in 1 .. account'[a].minted
      BY <1>a, <2>2
    <3>3. CallFits(c)'
      BY <2>0, <2>2, <3>2 DEF CallFits
    <3>4. ASSUME NEW d \in Calls \ {c} PROVE CallFits(d)'
      <4>1. SameCall(request'[d], request[d]) /\ CallFits(d)
        BY <1>b, <2>0 DEF Others
      <4>2. CASE request[d].account # a \/ request[d].at \notin {"confirm", "settleConfirm"}
        BY <1>b, <2>0, <3>1, <4>1, <4>2 DEF CallFits, SameCall
      <4>3. CASE request[d].account = a /\ request[d].at \in {"confirm", "settleConfirm"}
        <5>1. request[d].key \in 1 .. account[a].minted
          BY <4>1, <4>3 DEF CallFits
        <5>2. request[d].key # account[a].token /\ request[d].key # account'[a].token
              /\ request[d].key \in 1 .. account'[a].minted
          BY <1>a, <2>2, <5>1
        <5> QED BY <2>0, <2>2, <4>1, <4>3, <5>2 DEF CallFits, SameCall
      <4> QED BY <4>2, <4>3
    <3> QED BY <3>3, <3>4 DEF CallsFit
  <2> QED BY <1>0, <1>9, <2>1, <2>2, ReserveConfirmEffect
<1>10. CASE UNCHANGED Money!vars
  BY <1>10, <1>c DEF Money!vars, Money!bank, CallsFit, SameCall, Judgeless
<1> QED BY <1>1, <1>2, <1>3, <1>4, <1>5, <1>6, <1>7, <1>8, <1>9, <1>10, MoneyActions

LEMMA ProfileWritten ==
  ASSUME MoneyTypes, NEW c \in Calls, NEW verified, NEW primary \in Accounts \cup {NoAccount},
         Money!WriteProfile(c, verified, primary)
  PROVE  /\ profile' \in [ready : BOOLEAN, primary : Accounts \cup {NoAccount}] /\ behind' \in BOOLEAN
         /\ profile'.primary = primary
         /\ profile'.ready <=> verified # {} /\ request[c].tax = "verified"
         /\ ~behind' => request[c].tax = tax
<1>1. profile' = [ready |-> verified # {} /\ request[c].tax = "verified", primary |-> primary]
      /\ behind' = (behind \/ request[c].tax # tax)
  BY DEF Money!WriteProfile
<1>2. (verified # {} /\ request[c].tax = "verified") \in BOOLEAN
  OBVIOUS
<1>3. profile' \in [ready : BOOLEAN, primary : Accounts \cup {NoAccount}]
  <2> DEFINE b == verified # {} /\ request[c].tax = "verified"
  <2>1. b \in BOOLEAN /\ profile' = [ready |-> b, primary |-> primary]
    BY <1>1
  <2> HIDE DEF b
  <2> QED BY <2>1
<1>4. (behind \/ request[c].tax # tax) \in BOOLEAN
  OBVIOUS
<1> QED BY <1>1, <1>3, <1>4

LEMMA ReviewedTax ==
  ASSUME MoneyTypes, NEW c \in Calls, NEW verdict \in {"verified", "pending"}, Money!ReviewTax(c, verdict)
  PROVE  /\ profile'.ready \in BOOLEAN /\ profile'.primary = profile.primary
         /\ profile' = [profile EXCEPT !.ready = profile'.ready]
         /\ behind' \in BOOLEAN /\ tax' = verdict /\ request[c].at = "tax"
         /\ \/ behind' = TRUE /\ UNCHANGED profile
            \/ profile'.ready <=> Money!With("verified") # {} /\ verdict = "verified"
<1>1. profile \in [ready : BOOLEAN, primary : Accounts \cup {NoAccount}] /\ behind \in BOOLEAN
  BY DEF MoneyTypes
<1>2. tax' = verdict /\ request[c].at = "tax"
  BY DEF Money!ReviewTax
<1>3. CASE behind' = TRUE /\ UNCHANGED profile
  BY <1>1, <1>2, <1>3
<1>4. CASE /\ profile' = [profile EXCEPT !.ready = Money!With("verified") # {} /\ verdict = "verified"]
           /\ UNCHANGED behind
  <2> DEFINE b == Money!With("verified") # {} /\ verdict = "verified"
  <2>1. b \in BOOLEAN /\ profile' = [profile EXCEPT !.ready = b]
    BY <1>4
  <2>2. profile'.ready <=> b
    BY <1>1, <2>1
  <2> HIDE DEF b
  <2>3. profile'.ready = b /\ profile'.primary = profile.primary
    BY <1>1, <2>1
  <2>4. profile' = [profile EXCEPT !.ready = profile'.ready]
    BY <2>1, <2>3
  <2> QED BY <1>1, <1>2, <1>4, <2>1, <2>2, <2>3, <2>4 DEF b
<1> QED BY <1>3, <1>4 DEF Money!ReviewTax

LEMMA MoneyTypeStep ==
  ASSUME Money!ConstantsOK, MoneyInv, [Money!Next]_(Money!vars)
  PROVE  MoneyTypes'
<1>0. MoneyTypes /\ RowsFit /\ CallsFit
  BY DEF MoneyInv
<1>a. /\ account \in [Accounts -> AccountRow] /\ request \in [Calls -> RequestRow]
      /\ opened \subseteq Accounts \X {1} /\ decided \subseteq Accounts \X Nat \X BOOLEAN
      /\ tax \in {"verified", "pending"}
      /\ profile \in [ready : BOOLEAN, primary : Accounts \cup {NoAccount}]
      /\ behind \in BOOLEAN
  BY <1>0 DEF MoneyTypes
<1>b. ASSUME NEW c \in Calls, request[c].account \in Accounts, NEW r \in AccountRow, Money!Decide(c, r),
             UNCHANGED <<opened, decided, tax>>
      PROVE  MoneyTypes'
  <2>1. account' \in [Accounts -> AccountRow] /\ request' \in [Calls -> RequestRow]
    BY <1>0, <1>b, DecidedRow DEF Others
  <2>2. CASE r.status = "pending"
    <3>1. UNCHANGED <<profile, behind>>
      BY <1>0, <1>b, <2>2, DecideEffect
    <3> QED BY <1>a, <1>b, <2>1, <3>1 DEF MoneyTypes
  <2>3. CASE r.status # "pending"
    <3> DEFINE p == IF r.status = "verified" THEN Money!Beneficiary(request[c].account) ELSE profile.primary
    <3>1. p \in Accounts \cup {NoAccount}
      BY <1>a, <1>b DEF Money!Beneficiary
    <3>2. \E verified : Money!WriteProfile(c, verified, p)
      BY <1>0, <1>b, <2>3, DecideEffect
    <3> HIDE DEF p
    <3>3. profile' \in [ready : BOOLEAN, primary : Accounts \cup {NoAccount}] /\ behind' \in BOOLEAN
      BY <1>0, <3>1, <3>2, ProfileWritten
    <3> QED BY <1>a, <1>b, <2>1, <3>3 DEF MoneyTypes
  <2> QED BY <2>2, <2>3
<1>1. ASSUME NEW a \in Accounts, Money!Create(a) PROVE MoneyTypes'
  BY <1>0, <1>a, <1>1, CreateEffect DEF MoneyTypes, Money!Create, Money!bank
<1>2. ASSUME NEW c \in Calls, Calm(c) PROVE MoneyTypes'
  <2>1. UNCHANGED <<account, opened, decided>> /\ request' \in [Calls -> RequestRow]
    BY <1>0, <1>2, CalmEffect DEF Others
  <2>2. tax' \in {"verified", "pending"}
    BY <1>a, <1>2 DEF Calm, Money!SelectPrimary, Money!SeeTax, Money!Refresh, Money!Abandon,
      Money!SaveTax, Money!StartTaxReview, Money!ReviewTax, Money!Start
  <2>3. profile' \in [ready : BOOLEAN, primary : Accounts \cup {NoAccount}] /\ behind' \in BOOLEAN
    <3>1. CASE UNCHANGED <<profile, behind>>
      BY <1>a, <3>1
    <3>2. CASE Money!SelectPrimary(c)
      <4>1. request[c].account \in Accounts
        BY <1>0, <3>2 DEF Money!SelectPrimary, CallsFit, CallFits
      <4> QED BY <1>0, <3>2, <4>1, ProfileWritten DEF Money!SelectPrimary
    <3>3. CASE Money!Refresh(c)
      BY <1>0, <1>a, <3>3, ProfileWritten DEF Money!Refresh
    <3>4. CASE Money!Abandon(c)
      <4>1. (behind \/ request[c].at = "refresh") \in BOOLEAN
        OBVIOUS
      <4> QED BY <1>a, <3>4, <4>1 DEF Money!Abandon
    <3>5. ASSUME NEW verdict \in {"verified", "pending"}, Money!ReviewTax(c, verdict)
          PROVE  /\ profile' \in [ready : BOOLEAN, primary : Accounts \cup {NoAccount}]
                 /\ behind' \in BOOLEAN
      <4>1. /\ profile'.ready \in BOOLEAN /\ profile'.primary = profile.primary
            /\ profile' = [profile EXCEPT !.ready = profile'.ready] /\ behind' \in BOOLEAN
        BY <1>0, <3>5, ReviewedTax
      <4> QED BY <1>a, <4>1
    <3> QED BY <1>2, <3>1, <3>2, <3>3, <3>4, <3>5
            DEF Calm, Money!SeeTax, Money!SaveTax, Money!StartTaxReview, Money!Start
  <2> QED BY <1>a, <2>1, <2>2, <2>3 DEF MoneyTypes
<1>3. ASSUME NEW c \in Calls, Money!AskOpen(c) PROVE MoneyTypes'
  <2>1. request[c].at = "open"
    BY <1>0, <1>3, AskOpenEffect
  <2>2. request[c].account \in Accounts /\ request[c].key = 1
    BY <1>0, <2>1 DEF CallsFit, CallFits
  <2>3. opened' \subseteq Accounts \X {1}
    BY <1>0, <1>a, <1>3, <2>2, AskOpenEffect
  <2> QED BY <1>0, <1>a, <1>3, <2>3, AskOpenEffect DEF MoneyTypes, Others
<1>4. ASSUME NEW c \in Calls, Money!SettleOpen(c) PROVE MoneyTypes'
  <2>1. CASE UNCHANGED <<account, profile, behind>> /\ Others(c)
    BY <1>0, <1>a, <1>4, <2>1, SettleOpenEffect DEF MoneyTypes, Others
  <2> QED BY <1>0, <1>4, <1>b, <2>1, SettleOpenEffect
<1>5. ASSUME NEW c \in Calls, Money!AskConfirm(c) PROVE MoneyTypes'
  <2>1. request[c].at = "confirm"
    BY <1>0, <1>5, AskConfirmEffect
  <2>2. request[c].account \in Accounts /\ request[c].key \in Nat
    BY <1>0, <2>1 DEF CallsFit, CallFits, MoneyTypes, RequestRow
  <2>3. Money!Judged(c) \subseteq Accounts \X Nat \X BOOLEAN
    <3>1. (request[c].guess = "right") \in BOOLEAN
      OBVIOUS
    <3>2. <<request[c].account, request[c].key, request[c].guess = "right">> \in Accounts \X Nat \X BOOLEAN
      BY <2>2, <3>1
    <3> QED BY <1>a, <3>2 DEF Money!Judged
  <2>4. decided' \subseteq Accounts \X Nat \X BOOLEAN
    BY <1>0, <1>a, <1>5, <2>3, AskConfirmEffect
  <2> QED BY <1>0, <1>a, <1>5, <2>4, AskConfirmEffect DEF MoneyTypes, Others
<1>6. ASSUME NEW c \in Calls, Money!SettleConfirm(c) PROVE MoneyTypes'
  BY <1>0, <1>6, <1>b, SettleConfirmEffect
<1>7. ASSUME NEW c \in Calls, NEW verdict \in {"verified", "requires_attention"}, Money!Review(c, verdict)
      PROVE  MoneyTypes'
  BY <1>0, <1>7, <1>b, ReviewEffect
<1>8. ASSUME NEW c \in Calls, NEW a \in Accounts, Money!ReserveOpen(c, a) PROVE MoneyTypes'
  <2>1. /\ account' \in [Accounts -> AccountRow] /\ Others(c)
        /\ UNCHANGED <<opened, decided, tax, profile, behind>>
    BY <1>0, <1>8, ReserveOpenEffect
  <2> QED BY <1>a, <2>1 DEF MoneyTypes, Others
<1>9. ASSUME NEW c \in Calls, NEW a \in Accounts, NEW guess \in {"right", "wrong"},
             Money!ReserveConfirm(c, a, guess)
      PROVE  MoneyTypes'
  BY <1>0, <1>a, <1>9, ReserveConfirmEffect DEF MoneyTypes, Others
<1>10. CASE UNCHANGED Money!vars
  BY <1>0, <1>10 DEF Money!vars, Money!bank, MoneyTypes
<1> QED BY <1>1, <1>2, <1>3, <1>4, <1>5, <1>6, <1>7, <1>8, <1>9, <1>10, MoneyActions

\* The profile follows the accounts, whatever it says meanwhile of the ones that overlap.
LEMMA ProfileStep ==
  ASSUME Money!ConstantsOK, MoneyInv, MoneyTypes', [Money!Next]_(Money!vars)
  PROVE  Money!ProfileSound'
<1>0. MoneyTypes /\ RowsFit /\ CallsFit /\ Money!ProfileSound /\ NoAccount \notin Accounts
  BY DEF MoneyInv, Money!ConstantsOK
<1> DEFINE Verified == Money!With("verified")
           Refreshing == \E c \in Calls : request[c].at = "refresh"
           Beneficial == /\ profile.primary # NoAccount => profile.primary \in Verified
                         /\ profile.primary = NoAccount => Verified = {} /\ ~profile.ready
           Exact == ~behind /\ ~Refreshing => (profile.ready <=> tax = "verified" /\ Verified # {})
<1>a. Money!ProfileSound <=> Beneficial /\ Exact
  BY DEF Money!ProfileSound
<1>b. Money!ProfileSound' <=> Beneficial' /\ Exact'
  BY DEF Money!ProfileSound
<1>c. ASSUME UNCHANGED profile, Verified' = Verified, ~behind' => ~behind, UNCHANGED tax,
             ~behind' /\ ~Refreshing' => ~Refreshing
      PROVE  Money!ProfileSound'
  BY <1>0, <1>a, <1>b, <1>c
\* A transaction that writes the profile: what it has seen of the tax is what is.
<1>d. ASSUME NEW c \in Calls, NEW primary \in Accounts \cup {NoAccount}, UNCHANGED tax,
             NEW verified, Money!WriteProfile(c, verified, primary), verified = Verified',
             primary # NoAccount => primary \in Verified', primary = NoAccount => Verified' = {}
      PROVE  Money!ProfileSound'
  <2>1. /\ profile'.primary = primary
        /\ profile'.ready <=> Verified' # {} /\ request[c].tax = "verified"
        /\ ~behind' => request[c].tax = tax'
    BY <1>0, <1>d, ProfileWritten
  <2> HIDE DEF Verified, Refreshing
  <2> QED BY <1>b, <1>d, <2>1
<1>e. ASSUME UNCHANGED account PROVE Verified' = Verified
  BY <1>e DEF Money!With
<1>f. ASSUME NEW c \in Calls, Others(c), request[c].at # "refresh" PROVE ~Refreshing' => ~Refreshing
  BY <1>f DEF Others, SameCall
<1>g. ASSUME NEW c \in Calls, request[c].account \in Accounts, NEW r \in AccountRow, Money!Decide(c, r),
             account[request[c].account].status = "pending", request[c].at # "refresh", UNCHANGED tax
      PROVE  Money!ProfileSound'
  <2>a. PICK a \in Accounts : a = request[c].account
    BY <1>g
  <2>1. /\ account'[a] = r /\ \A b \in Accounts \ {a} : account'[b] = account[b]
        /\ Others(c)
    BY <1>0, <1>g, <2>a, DecidedRow
  <2>2. a \notin Verified
    BY <1>g, <2>a DEF Money!With
  <2>3. Verified' = Verified \cup (IF r.status = "verified" THEN {a} ELSE {})
    BY <2>1, <2>2 DEF Money!With
  <2> HIDE DEF Verified
  <2>4. CASE r.status = "pending"
    <3>1. UNCHANGED <<profile, behind>> /\ Verified' = Verified
      BY <1>0, <1>g, <2>3, <2>4, DecideEffect
    <3>2. ~Refreshing' => ~Refreshing
      BY <1>f, <1>g, <2>1
    <3> QED BY <1>c, <1>g, <3>1, <3>2
  <2>5. CASE r.status # "pending"
    <3>1. Money!WriteProfile(c, Verified \cup (IF r.status = "verified" THEN {a} ELSE {}),
              IF r.status = "verified" THEN Money!Beneficiary(a) ELSE profile.primary)
      BY <1>0, <1>g, <2>a, <2>5, DecideEffect DEF Verified
    <3>2. CASE r.status = "verified"
      <4>1. Money!Beneficiary(a) \in Verified' /\ Money!Beneficiary(a) # NoAccount
            /\ Money!Beneficiary(a) \in Accounts
        BY <1>0, <1>a, <2>3, <3>2 DEF Money!Beneficiary, MoneyTypes
      <4>2. Money!WriteProfile(c, Verified', Money!Beneficiary(a))
        BY <2>3, <3>1, <3>2
      <4> QED BY <1>d, <1>g, <4>1, <4>2
    <3>3. CASE r.status # "verified"
      <4>1. Verified' = Verified /\ Money!WriteProfile(c, Verified', profile.primary)
        BY <2>3, <3>1, <3>3
      <4>2. profile.primary \in Accounts \cup {NoAccount}
        BY <1>0 DEF MoneyTypes
      <4> QED BY <1>0, <1>a, <1>d, <1>g, <4>1, <4>2
    <3> QED BY <3>2, <3>3
  <2> QED BY <2>4, <2>5
<1>1. ASSUME NEW a \in Accounts, Money!Create(a) PROVE Money!ProfileSound'
  <2>1. /\ account[a].status = "none" /\ account'[a].status # "verified"
        /\ \A b \in Accounts \ {a} :
              \/ account'[b] = account[b]
              \/ account[b].status = "requires_attention" /\ account'[b].status = "superseded"
        /\ \A d \in Calls : SameCall(request'[d], request[d])
    <3>1. \A b \in Accounts : [account[b] EXCEPT !.status = "superseded"].status = "superseded"
      BY <1>0 DEF MoneyTypes, AccountRow
    <3>2. [Money!NoRow EXCEPT !.status = "pending"].status = "pending"
      BY DEF Money!NoRow
    <3>3. /\ account[a].status = "none" /\ account'[a] = [Money!NoRow EXCEPT !.status = "pending"]
          /\ \A d \in Calls : SameCall(request'[d], request[d])
      BY <1>0, <1>1, CreateEffect
    <3>4. ASSUME NEW b \in Accounts \ {a}
          PROVE  \/ account'[b] = account[b]
                 \/ account[b].status = "requires_attention"
                    /\ account'[b] = [account[b] EXCEPT !.status = "superseded"]
      BY <1>0, <1>1, CreateEffect
    <3>5. ASSUME NEW b \in Accounts \ {a}
          PROVE  \/ account'[b] = account[b]
                 \/ account[b].status = "requires_attention" /\ account'[b].status = "superseded"
      BY <3>1, <3>4
    <3> QED BY <3>2, <3>3, <3>5
  <2>2. Verified' = Verified
    BY <2>1 DEF Money!With
  <2>3. ~Refreshing' => ~Refreshing
    BY <2>1 DEF SameCall
  <2>4. UNCHANGED <<tax, profile, behind>>
    BY <1>1 DEF Money!Create
  <2> HIDE DEF Verified, Refreshing
  <2> QED BY <1>c, <2>2, <2>3, <2>4
<1>2. ASSUME NEW c \in Calls, Calm(c) PROVE Money!ProfileSound'
  <2>1. UNCHANGED account /\ Others(c)
    BY <1>0, <1>2, CalmEffect
  <2>2. Verified' = Verified
    BY <1>e, <2>1
  <2>3. CASE Money!SelectPrimary(c)
    <3>1. request[c].account \in Accounts /\ request[c].account \in Verified
      BY <1>0, <2>3 DEF Money!SelectPrimary, CallsFit, CallFits, Money!With
    <3>2. Money!WriteProfile(c, Verified, request[c].account) /\ UNCHANGED tax
      BY <2>3 DEF Money!SelectPrimary
    <3> QED BY <1>0, <1>d, <2>2, <3>1, <3>2
  <2>4. CASE Money!SeeTax(c)
    <3>1. UNCHANGED <<tax, profile, behind>>
      BY <2>4 DEF Money!SeeTax
    <3>2. ~Refreshing' => ~Refreshing
      <4>1. request[c] \in RequestRow /\ request[c].at = "refresh" /\ Money!Begin(c, request[c])
        BY <1>0, <2>4 DEF Money!SeeTax, MoneyTypes
      <4>2. request'[c].at = "refresh"
        BY <1>0, <4>1, Begun DEF SameCall
      <4> QED BY <4>2
    <3> HIDE DEF Verified, Refreshing
    <3> QED BY <1>c, <2>2, <3>1, <3>2
  <2>5. CASE Money!Refresh(c)
    <3>1. CASE behind' = TRUE /\ UNCHANGED profile
      <4> HIDE DEF Verified, Refreshing
      <4> QED BY <1>0, <1>c, <2>2, <2>5, <3>1 DEF Money!Refresh
    <3>2. CASE Money!WriteProfile(c, Verified, profile.primary)
      <4>1. profile.primary \in Accounts \cup {NoAccount} /\ UNCHANGED tax
        BY <1>0, <2>5 DEF MoneyTypes, Money!Refresh
      <4> HIDE DEF Verified, Refreshing
      <4> QED BY <1>0, <1>a, <1>d, <2>2, <3>2, <4>1
    <3> QED BY <2>5, <3>1, <3>2 DEF Money!Refresh
  <2>6. CASE Money!Abandon(c)
    <3>1. UNCHANGED <<tax, profile>> /\ behind' = (behind \/ request[c].at = "refresh")
      BY <2>6 DEF Money!Abandon
    <3>2. ~behind' /\ ~Refreshing' => ~Refreshing
      BY <1>f, <2>1, <3>1
    <3> HIDE DEF Verified, Refreshing
    <3> QED BY <1>c, <2>2, <3>1, <3>2
  <2>7. CASE Money!SaveTax(c)
    <3>1. UNCHANGED profile /\ request'[c].at = "refresh"
      BY <1>0, <2>7 DEF Money!SaveTax, Money!Touching, Money!Idle, MoneyTypes
    <3>2. Refreshing'
      BY <3>1
    <3> HIDE DEF Verified, Refreshing
    <3> QED BY <1>0, <1>a, <1>b, <2>2, <3>1, <3>2
  <2>8. ASSUME NEW a \in Accounts, NEW what \in {"verified", "requires_attention", "select"},
               Money!Start(c, a, what)
        PROVE  Money!ProfileSound'
    <3>1. UNCHANGED <<tax, profile, behind>> /\ request[c].at # "refresh"
      BY <2>8 DEF Money!Start
    <3>2. ~Refreshing' => ~Refreshing
      BY <1>f, <2>1, <3>1
    <3> HIDE DEF Verified, Refreshing
    <3> QED BY <1>c, <2>2, <3>1, <3>2
  <2>9. CASE Money!StartTaxReview(c)
    <3>1. UNCHANGED <<tax, profile, behind>> /\ request[c].at # "refresh"
      BY <2>9 DEF Money!StartTaxReview
    <3>2. ~Refreshing' => ~Refreshing
      BY <1>f, <2>1, <3>1
    <3> HIDE DEF Verified, Refreshing
    <3> QED BY <1>c, <2>2, <3>1, <3>2
  \* Both are written by one transaction; a profile it did not see is recorded.
  <2>10. ASSUME NEW verdict \in {"verified", "pending"}, Money!ReviewTax(c, verdict)
         PROVE  Money!ProfileSound'
    <3>1. /\ profile'.primary = profile.primary /\ tax' = verdict
          /\ \/ behind' = TRUE /\ UNCHANGED profile
             \/ profile'.ready <=> Verified # {} /\ verdict = "verified"
      BY <1>0, <2>10, ReviewedTax
    <3> HIDE DEF Verified, Refreshing
    <3>2. Beneficial'
      BY <1>0, <1>a, <2>2, <3>1
    <3>3. Exact'
      BY <2>2, <3>1
    <3> QED BY <1>b, <3>2, <3>3
  <2> QED BY <1>2, <2>3, <2>4, <2>5, <2>6, <2>7, <2>8, <2>9, <2>10 DEF Calm
<1>3. ASSUME NEW c \in Calls, Money!AskOpen(c) PROVE Money!ProfileSound'
  <2>1. UNCHANGED <<account, tax, profile, behind>> /\ request[c].at # "refresh" /\ Others(c)
    BY <1>0, <1>3, AskOpenEffect
  <2>2. Verified' = Verified /\ (~Refreshing' => ~Refreshing)
    BY <1>e, <1>f, <2>1
  <2> HIDE DEF Verified, Refreshing
  <2> QED BY <1>c, <2>1, <2>2
<1>4. ASSUME NEW c \in Calls, Money!SettleOpen(c) PROVE Money!ProfileSound'
  <2>1. request[c].at # "refresh"
    BY <1>4 DEF Money!SettleOpen
  <2>2. CASE UNCHANGED <<account, profile, behind>> /\ Others(c)
    <3>1. Verified' = Verified /\ (~Refreshing' => ~Refreshing) /\ UNCHANGED tax
      BY <1>0, <1>4, <1>e, <1>f, <2>1, <2>2, SettleOpenEffect
    <3> HIDE DEF Verified, Refreshing
    <3> QED BY <1>c, <2>2, <3>1
  <2> QED BY <1>0, <1>4, <1>g, <2>1, <2>2, SettleOpenEffect
<1>5. ASSUME NEW c \in Calls, Money!AskConfirm(c) PROVE Money!ProfileSound'
  <2>1. UNCHANGED <<account, tax, profile, behind>> /\ request[c].at # "refresh" /\ Others(c)
    BY <1>0, <1>5, AskConfirmEffect
  <2>2. Verified' = Verified /\ (~Refreshing' => ~Refreshing)
    BY <1>e, <1>f, <2>1
  <2> HIDE DEF Verified, Refreshing
  <2> QED BY <1>c, <2>1, <2>2
<1>6. ASSUME NEW c \in Calls, Money!SettleConfirm(c) PROVE Money!ProfileSound'
  BY <1>0, <1>6, <1>g, SettleConfirmEffect
<1>7. ASSUME NEW c \in Calls, NEW verdict \in {"verified", "requires_attention"}, Money!Review(c, verdict)
      PROVE  Money!ProfileSound'
  <2>1. request[c].at # "refresh"
    BY <1>7 DEF Money!Review
  <2> QED BY <1>0, <1>7, <1>g, <2>1, ReviewEffect
<1>8. ASSUME NEW c \in Calls, NEW a \in Accounts, Money!ReserveOpen(c, a) PROVE Money!ProfileSound'
  <2>1. /\ UNCHANGED <<tax, profile, behind>> /\ Others(c) /\ request[c].at # "refresh"
        /\ account[a].status = "pending" /\ account'[a].status = "pending"
        /\ \A b \in Accounts \ {a} : account'[b] = account[b]
    BY <1>0, <1>8, ReserveOpenEffect DEF Money!ReserveOpen
  <2>2. Verified' = Verified /\ (~Refreshing' => ~Refreshing)
    BY <1>f, <2>1 DEF Money!With
  <2> HIDE DEF Verified, Refreshing
  <2> QED BY <1>c, <2>1, <2>2
<1>9. ASSUME NEW c \in Calls, NEW a \in Accounts, NEW guess \in {"right", "wrong"},
             Money!ReserveConfirm(c, a, guess)
      PROVE  Money!ProfileSound'
  <2>1. /\ UNCHANGED <<tax, profile, behind>> /\ Others(c) /\ request[c].at # "refresh"
        /\ account[a].status = "pending" /\ account'[a].status = "pending"
        /\ \A b \in Accounts \ {a} : account'[b] = account[b]
    BY <1>0, <1>9, ReserveConfirmEffect DEF Money!ReserveConfirm
  <2>2. Verified' = Verified /\ (~Refreshing' => ~Refreshing)
    BY <1>f, <2>1 DEF Money!With
  <2> HIDE DEF Verified, Refreshing
  <2> QED BY <1>c, <2>1, <2>2
<1>10. CASE UNCHANGED Money!vars
  <2>1. UNCHANGED <<account, tax, profile, behind, request>>
    BY <1>10 DEF Money!vars
  <2>2. Verified' = Verified /\ (~Refreshing' => ~Refreshing)
    BY <1>e, <2>1
  <2> HIDE DEF Verified, Refreshing
  <2> QED BY <1>c, <2>1, <2>2
<1> QED BY <1>1, <1>2, <1>3, <1>4, <1>5, <1>6, <1>7, <1>8, <1>9, <1>10, MoneyActions

LEMMA MoneyStep == ASSUME Money!ConstantsOK, MoneyInv, [Money!Next]_(Money!vars) PROVE MoneyInv'
<1>1. MoneyTypes'
  BY MoneyTypeStep
<1> QED BY <1>1, RowsStep, JudgedStep, CallsStep, ProfileStep DEF MoneyInv

\* The bank judges at most MaxAttempts guesses and opens one verification of an account, an
\* acceptance whose answer was lost can be asked for again, and the financial profile follows
\* the verified accounts (provider-payment-accounts.ts).
THEOREM AccountsAreSound == ASSUME Money!ConstantsOK PROVE Money!Spec => []Money!AccountsSound
<1>1. Money!Init => MoneyInv
  BY MoneyStart
<1>2. MoneyInv /\ [Money!Next]_(Money!vars) => MoneyInv'
  BY MoneyStep
<1>3. MoneyInv => Money!AccountsSound
  BY MoneySound
<1> QED BY <1>1, <1>2, <1>3, PTL DEF Money!Spec

-----------------------------------------------------------------------------
(* The inspection of documents. *)

Working == {"claimed", "analyse", "verdict", "job"}
Found == Inspector!Results(TRUE) \cup Inspector!Results(FALSE)
InspectionRow == [state : Inspector!States,
                  verdict : {"pending", "clean", "infected", "suspicious", "unavailable"}]
TaskRow == [status : Inspector!Statuses, attempts : 0 .. MaxTries, unconfigured : BOOLEAN]
WorkerRow == [at : {"rest", "list", "next"} \cup Working, external : BOOLEAN,
              list : [Files -> 0 .. Inspector!NotListed],
              doc : Files \cup {Inspector!Nothing}, result : Found \cup {Inspector!Nothing}]

InspectionTypes ==
  /\ inspection \in [Files -> InspectionRow] /\ task \in [Files -> TaskRow]
  /\ worker \in [Workers -> WorkerRow] /\ late \subseteq Files

\* A run works on a document of its list; after the analysis it has a result.
Busy(x) ==
  /\ x.at \in Working => x.doc \in Files /\ x.list[x.doc] # Inspector!NotListed
  /\ x.at \notin Working => x.doc = Inspector!Nothing
  /\ x.at \in {"verdict", "job"} => x.result \in Found

RunsBusy == \A w \in Workers : Busy(worker[w])

\* Until its lease runs out under it, a run is alone with its document, whose job runs.
Alone ==
  \A w \in Workers : worker[w].doc \in Files \ late =>
    /\ task[worker[w].doc].status = "processing"
    /\ \A v \in Workers \ {w} : worker[v].doc # worker[w].doc

\* What a row of the inspection has to say once the status of the job is written.
Tells(outcome, seen) ==
  /\ outcome = "completed" => seen.state = "completed" /\ seen.verdict = "clean"
  /\ outcome = "dead_letter" => seen.state = "failed"
  /\ outcome = "blocked" => seen.state \in {"blocked", "awaiting_configuration"}

RowsTell == \A d \in Files \ late : Tells(task[d].status, inspection[d])

\* The verdict a run has written says what the job it is about to write will.
VerdictsTell ==
  \A w \in Workers : worker[w].at = "job" /\ worker[w].doc \notin late =>
    Tells(Inspector!JobStatus(w), inspection[worker[w].doc])

InspectionInv == InspectionTypes /\ RunsBusy /\ Alone /\ RowsTell /\ VerdictsTell

LEMMA InspectionTypesOK == ASSUME InspectionTypes PROVE Inspector!TypeOK
BY DEF InspectionTypes, Inspector!TypeOK, InspectionRow, TaskRow, WorkerRow, Working, Found

LEMMA InspectionSound == ASSUME InspectionInv PROVE Inspector!JobTellsInspection
<1> SUFFICES ASSUME NEW d \in Files \ late
             PROVE  /\ Inspector!Cardinality(Inspector!AtWorkOn(d)) <= 1
                    /\ task[d].status = "completed" => Inspector!CanReveal(d)
                    /\ task[d].status = "dead_letter" => inspection[d].state = "failed"
                    /\ task[d].status = "blocked" =>
                          inspection[d].state \in {"blocked", "awaiting_configuration"}
  BY DEF Inspector!JobTellsInspection
<1> DEFINE S == Inspector!AtWorkOn(d)
<1>1. ASSUME NEW w \in S PROVE S = {w}
  BY <1>1 DEF InspectionInv, Alone, Inspector!AtWorkOn
<1>2. Inspector!Cardinality(S) = Cardinality(S)
  BY DEF Inspector!Cardinality, Cardinality
<1>3. Cardinality(S) <= 1
  <2> HIDE DEF S
  <2>1. CASE S = {}
    BY <2>1, FS_EmptySet
  <2>2. ASSUME NEW w \in S PROVE Cardinality(S) = 1
    BY <1>1, FS_Singleton
  <2> QED BY <2>1, <2>2
<1> QED BY <1>2, <1>3 DEF InspectionInv, RowsTell, Tells, Inspector!CanReveal

LEMMA InspectionStart == ASSUME Inspector!ConstantsOK, Inspector!Init PROVE InspectionInv
<1>1. PICK old \in SUBSET Files :
        /\ inspection = [d \in Files |-> IF d \in old THEN Inspector!NoInspection ELSE Inspector!Unseen]
        /\ task = [d \in Files |-> IF d \in old THEN Inspector!NoJob ELSE Inspector!Queued]
  BY DEF Inspector!Init
<1>2. worker = [w \in Workers |-> Inspector!Resting] /\ late = {}
  BY DEF Inspector!Init
<1>3. Inspector!NotListed \in 0 .. Inspector!NotListed /\ 0 \in 0 .. MaxTries
  BY DEF Inspector!ConstantsOK, Inspector!NotListed
<1>4. Inspector!Resting \in WorkerRow
  BY <1>3 DEF Inspector!Resting, Inspector!EmptyList, WorkerRow
<1>5. InspectionTypes
  BY <1>1, <1>2, <1>3, <1>4 DEF InspectionTypes, InspectionRow, TaskRow, Inspector!NoInspection,
    Inspector!Unseen, Inspector!NoJob, Inspector!Queued, Inspector!States, Inspector!Statuses
<1>6. RunsBusy /\ Alone /\ VerdictsTell
  BY <1>2 DEF Inspector!ConstantsOK, RunsBusy, Busy, Alone, VerdictsTell, Inspector!Resting, Working
<1>7. RowsTell
  BY <1>1 DEF RowsTell, Tells, Inspector!NoJob, Inspector!Queued
<1> QED BY <1>5, <1>6, <1>7 DEF InspectionInv

-----------------------------------------------------------------------------
\* The start of a run changes its own record, jobs that are not at work or whose lease runs
\* out, and inspections without a row.
LEMMA Started ==
  ASSUME Inspector!ConstantsOK, InspectionInv, NEW w \in Workers, Inspector!Start(w)
  PROVE  /\ worker[w].at = "rest" /\ worker' = [worker EXCEPT ![w].at = "list", ![w].external = worker'[w].external]
         /\ worker'[w].external \in BOOLEAN
         /\ late \subseteq late' /\ late' \subseteq Files
         /\ \A d \in Files : \/ inspection'[d] = inspection[d]
                             \/ inspection[d].state = "absent" /\ inspection'[d] = Inspector!Unseen
         /\ inspection' \in [Files -> InspectionRow] /\ task' \in [Files -> TaskRow]
         /\ \A d \in Files : task'[d].status \in {task[d].status, "retry", "queued"}
         /\ \A d \in Files \ late' : Inspector!AtWorkOn(d) # {} /\ task[d].status = "processing" => task'[d] = task[d]
<1>1. PICK external \in BOOLEAN, lapsed \in SUBSET {d \in Files : Inspector!LeaseHeld(d)} :
        Inspector!StartAfter(w, external, lapsed)
  BY DEF Inspector!Start
<1>2. /\ worker[w].at = "rest" /\ worker' = [worker EXCEPT ![w].at = "list", ![w].external = external]
      /\ late' = late \cup {d \in lapsed : Inspector!AtWorkOn(d) # {}}
      /\ inspection' = [d \in Files |->
                          IF inspection[d].state = "absent" THEN Inspector!Unseen ELSE inspection[d]]
      /\ task' = [d \in Files |-> IF d \in lapsed THEN [task[d] EXCEPT !.status = "retry"]
                                  ELSE Inspector!Requeued(d, external)]
  BY <1>1 DEF Inspector!StartAfter
<1>3. worker'[w].external = external
  BY <1>2 DEF InspectionInv, InspectionTypes, WorkerRow
<1>4. inspection' \in [Files -> InspectionRow]
  BY <1>2 DEF InspectionInv, InspectionTypes, InspectionRow, Inspector!Unseen, Inspector!States
<1>5. ASSUME NEW d \in Files
      PROVE  /\ task'[d] \in TaskRow /\ task'[d].status \in {task[d].status, "retry", "queued"}
             /\ d \notin lapsed /\ task[d].status = "processing" => task'[d] = task[d]
  <2>1. task[d] \in TaskRow
    BY DEF InspectionInv, InspectionTypes
  <2>2. CASE d \in lapsed
    BY <1>2, <2>1, <2>2 DEF TaskRow, Inspector!Statuses
  <2>3. CASE d \notin lapsed /\ external /\ task[d].status = "blocked" /\ task[d].unconfigured
    BY <1>2, <2>1, <2>3 DEF TaskRow, Inspector!Statuses, Inspector!Requeued
  <2>4. CASE d \notin lapsed /\ ~(external /\ task[d].status = "blocked" /\ task[d].unconfigured)
    <3>1. task'[d] = IF task[d].status = "absent" THEN Inspector!Queued ELSE task[d]
      BY <1>2, <2>4 DEF Inspector!Requeued, Inspector!Backlog
    <3>2. Inspector!Queued \in TaskRow /\ Inspector!Queued.status = "queued"
      BY DEF Inspector!ConstantsOK, Inspector!Queued, TaskRow, Inspector!Statuses
    <3> QED BY <2>1, <3>1, <3>2
  <2> QED BY <2>2, <2>3, <2>4
<1>6. task' \in [Files -> TaskRow]
  BY <1>2, <1>5
<1>7. late' \subseteq Files
  BY <1>2 DEF InspectionInv, InspectionTypes
<1> QED BY <1>2, <1>3, <1>4, <1>5, <1>6, <1>7

\* The attempts of a job stay within the maximum, and its last statement names a status.
LEMMA Counted ==
  ASSUME Inspector!ConstantsOK, InspectionInv, NEW w \in Workers, worker[w].at \in Working
  PROVE  Inspector!Attempts(w) \in 0 .. MaxTries
<1>1. worker[w].list[worker[w].doc] \in 0 .. MaxTries + 1 /\ worker[w].list[worker[w].doc] # MaxTries + 1
  BY DEF InspectionInv, InspectionTypes, WorkerRow, RunsBusy, Busy, Inspector!NotListed
<1> QED BY <1>1 DEF Inspector!Attempts, Inspector!ConstantsOK

LEMMA VerdictRow ==
  ASSUME InspectionInv, NEW w \in Workers, worker[w].at \in {"verdict", "job"}
  PROVE  /\ Inspector!Verdict(w) \in InspectionRow
         /\ Tells(Inspector!JobStatus(w), Inspector!Verdict(w))
         /\ Inspector!JobStatus(w) \in Inspector!Statuses
<1> DEFINE old == inspection[worker[w].doc].verdict
<1>1. worker[w].doc \in Files /\ worker[w].result \in Found
  BY DEF InspectionInv, RunsBusy, Busy, Working
<1>2. old \in {"pending", "clean", "infected", "suspicious", "unavailable"}
  BY <1>1 DEF InspectionInv, InspectionTypes, InspectionRow
<1> HIDE DEF old
<1>3. worker[w].result \in {"suspicious", "unreadable", "transient", "clean", "infected",
                             "unconfigured", "unscreened"}
  BY <1>1 DEF Found, Inspector!Results
<1>4. CASE worker[w].result = "clean"
  BY <1>4 DEF Inspector!Verdict, Inspector!JobStatus, InspectionRow, Tells, Inspector!States, Inspector!Statuses
<1>5. CASE worker[w].result = "infected"
  BY <1>5 DEF Inspector!Verdict, Inspector!JobStatus, InspectionRow, Tells, Inspector!States, Inspector!Statuses
<1>6. CASE worker[w].result = "suspicious"
  BY <1>6 DEF Inspector!Verdict, Inspector!JobStatus, InspectionRow, Tells, Inspector!States, Inspector!Statuses
<1>7. CASE worker[w].result = "unreadable"
  BY <1>7 DEF Inspector!Verdict, Inspector!JobStatus, InspectionRow, Tells, Inspector!States, Inspector!Statuses
<1>8. CASE worker[w].result = "unconfigured"
  BY <1>8 DEF Inspector!Verdict, Inspector!JobStatus, InspectionRow, Tells, Inspector!States, Inspector!Statuses
<1>10. CASE worker[w].result = "unscreened"
  BY <1>10 DEF Inspector!Verdict, Inspector!JobStatus, InspectionRow, Tells, Inspector!States, Inspector!Statuses
<1>9. CASE worker[w].result = "transient"
  <2>1. Inspector!Verdict(w) = [state |-> IF Inspector!Dead(w) THEN "failed" ELSE "queued", verdict |-> old]
    BY <1>9 DEF Inspector!Verdict, old
  <2>2. Inspector!JobStatus(w) = IF Inspector!Dead(w) THEN "dead_letter" ELSE "retry"
    BY <1>9 DEF Inspector!JobStatus
  <2> QED BY <1>2, <2>1, <2>2 DEF InspectionRow, Tells, Inspector!States, Inspector!Statuses
<1> QED BY <1>3, <1>4, <1>5, <1>6, <1>7, <1>8, <1>9, <1>10

\* What a step of a run writes into its own record, and that it writes no other.
LEMMA WorkerStep ==
  ASSUME Inspector!ConstantsOK, InspectionInv, NEW w \in Workers,
         \/ Inspector!Work(w) \/ Inspector!Die(w)
  PROVE  /\ worker' \in [Workers -> WorkerRow] /\ Busy(worker'[w])
         /\ \A v \in Workers \ {w} : worker'[v] = worker[v]
         /\ late' = late
<1> DEFINE x == worker[w]
<1>1. /\ worker \in [Workers -> WorkerRow] /\ x \in WorkerRow /\ Busy(x)
      /\ Inspector!NotListed \in 0 .. Inspector!NotListed
  BY DEF InspectionInv, InspectionTypes, RunsBusy, Inspector!ConstantsOK, Inspector!NotListed
<1>2. Inspector!Resting \in WorkerRow /\ Busy(Inspector!Resting)
  BY <1>1 DEF Inspector!Resting, Inspector!EmptyList, WorkerRow, Busy, Working
<1>3. ASSUME NEW y \in WorkerRow, Busy(y), worker' = [worker EXCEPT ![w] = y], late' = late
      PROVE  /\ worker' \in [Workers -> WorkerRow] /\ Busy(worker'[w])
             /\ \A v \in Workers \ {w} : worker'[v] = worker[v]
             /\ late' = late
  BY <1>1, <1>3
<1>4. CASE Inspector!Die(w) \/ Inspector!Rest(w)
  BY <1>2, <1>3, <1>4 DEF Inspector!Die, Inspector!Rest
<1>5. CASE Inspector!List(w)
  <2>1. PICK due \in SUBSET {d \in Files : Inspector!Claimable(d)} : Inspector!ListDue(w, due)
    BY <1>5 DEF Inspector!List
  <2> DEFINE l == [d \in Files |-> IF d \in due THEN task[d].attempts ELSE Inspector!NotListed]
             y == [x EXCEPT !.at = "next", !.list = l]
  <2>2. l \in [Files -> 0 .. Inspector!NotListed]
    BY <1>1 DEF InspectionInv, InspectionTypes, TaskRow, Inspector!ConstantsOK, Inspector!NotListed
  <2> HIDE DEF l
  <2>3. y \in WorkerRow /\ Busy(y)
    BY <1>1, <2>1, <2>2 DEF WorkerRow, Busy, Working, Inspector!ListDue
  <2> HIDE DEF y
  <2>4. CASE due = {}
    BY <1>2, <1>3, <2>1, <2>4 DEF Inspector!ListDue
  <2>5. CASE due # {}
    <3>1. worker' = [worker EXCEPT ![w] = y] /\ late' = late
      BY <1>1, <2>1, <2>5 DEF Inspector!ListDue, y, l
    <3> QED BY <1>3, <2>3, <3>1
  <2> QED BY <2>4, <2>5
<1>6. CASE Inspector!MarkRunning(w)
  <2> DEFINE y == [x EXCEPT !.at = "analyse"]
  <2>1. y \in WorkerRow /\ Busy(y)
    BY <1>1, <1>6 DEF WorkerRow, Busy, Working, Inspector!MarkRunning
  <2> QED BY <1>3, <1>6, <2>1 DEF Inspector!MarkRunning
<1>7. CASE Inspector!Analyse(w)
  <2>1. PICK r \in Inspector!Results(x.external) :
          worker' = [worker EXCEPT ![w].at = "verdict", ![w].result = r]
    BY <1>7 DEF Inspector!Analyse
  <2> DEFINE y == [x EXCEPT !.at = "verdict", !.result = r]
  <2>2. r \in Found
    BY <1>1 DEF Found, WorkerRow
  <2>3. y \in WorkerRow /\ Busy(y)
    BY <1>1, <1>7, <2>2 DEF WorkerRow, Busy, Working, Inspector!Analyse
  <2> QED BY <1>1, <1>3, <1>7, <2>1, <2>3 DEF Inspector!Analyse
<1>8. CASE Inspector!WriteVerdict(w)
  <2> DEFINE y == [x EXCEPT !.at = "job"]
  <2>1. y \in WorkerRow /\ Busy(y)
    BY <1>1, <1>8 DEF WorkerRow, Busy, Working, Inspector!WriteVerdict
  <2> QED BY <1>3, <1>8, <2>1 DEF Inspector!WriteVerdict
<1>9. CASE Inspector!WriteJob(w)
  <2> DEFINE y == [x EXCEPT !.at = "next", !.doc = Inspector!Nothing, !.result = Inspector!Nothing,
                            !.list[x.doc] = Inspector!NotListed]
  <2>1. y \in WorkerRow /\ Busy(y)
    BY <1>1, <1>9 DEF WorkerRow, Busy, Working, Inspector!WriteJob
  <2>2. worker' = [worker EXCEPT ![w] = y] /\ late' = late
    BY <1>1, <1>9, ZenonT(30) DEF Inspector!WriteJob
  <2> QED BY <1>3, <2>1, <2>2
<1>10. ASSUME NEW d \in Files, Inspector!Skip(w, d)
       PROVE  /\ worker' \in [Workers -> WorkerRow] /\ Busy(worker'[w])
              /\ \A v \in Workers \ {w} : worker'[v] = worker[v]
              /\ late' = late
  <2> DEFINE y == [x EXCEPT !.list[d] = Inspector!NotListed]
  <2>1. y \in WorkerRow /\ Busy(y)
    BY <1>1, <1>10 DEF WorkerRow, Busy, Working, Inspector!Skip
  <2>2. worker' = [worker EXCEPT ![w] = y] /\ late' = late
    BY <1>1, <1>10 DEF Inspector!Skip
  <2> QED BY <1>3, <2>1, <2>2
<1>11. ASSUME NEW d \in Files, Inspector!Claim(w, d)
       PROVE  /\ worker' \in [Workers -> WorkerRow] /\ Busy(worker'[w])
              /\ \A v \in Workers \ {w} : worker'[v] = worker[v]
              /\ late' = late
  <2> DEFINE y == [x EXCEPT !.at = "claimed", !.doc = d]
  <2>1. y \in WorkerRow /\ Busy(y)
    BY <1>1, <1>11 DEF WorkerRow, Busy, Working, Inspector!Claim, Inspector!Listed
  <2>2. worker' = [worker EXCEPT ![w] = y] /\ late' = late
    BY <1>1, <1>11 DEF Inspector!Claim
  <2> QED BY <1>3, <2>1, <2>2
<1> QED BY <1>4, <1>5, <1>6, <1>7, <1>8, <1>9, <1>10, <1>11 DEF Inspector!Work

\* The job a run is about to write depends on its own record alone.
LEMMA SameStatus ==
  ASSUME NEW v \in Workers, worker'[v].list = worker[v].list, worker'[v].doc = worker[v].doc,
         worker'[v].result = worker[v].result
  PROVE  Inspector!JobStatus(v)' = Inspector!JobStatus(v)
BY DEF Inspector!JobStatus, Inspector!Dead, Inspector!Attempts

\* A step of a run that writes no row, and after which it may have left its document.
LEMMA QuietRun ==
  ASSUME Inspector!ConstantsOK, InspectionInv, NEW w \in Workers,
         Inspector!Work(w) \/ Inspector!Die(w), UNCHANGED <<inspection, task>>,
         worker'[w].at # "job", worker'[w].doc \in {worker[w].doc, Inspector!Nothing}
  PROVE  InspectionInv'
<1>1. /\ worker' \in [Workers -> WorkerRow] /\ Busy(worker'[w])
      /\ \A v \in Workers \ {w} : worker'[v] = worker[v]
      /\ late' = late
  BY WorkerStep
<1>2. InspectionTypes' /\ RunsBusy'
  BY <1>1 DEF InspectionInv, InspectionTypes, RunsBusy, Busy
<1>3. Alone'
  BY <1>1 DEF InspectionInv, Alone, Inspector!ConstantsOK
<1>4. RowsTell'
  BY <1>1 DEF InspectionInv, RowsTell, Tells
<1>5. VerdictsTell'
  BY <1>1, SameStatus DEF InspectionInv, VerdictsTell, Tells
<1> QED BY <1>2, <1>3, <1>4, <1>5 DEF InspectionInv

LEMMA MarkRunningStep ==
  ASSUME Inspector!ConstantsOK, InspectionInv, NEW w \in Workers, Inspector!MarkRunning(w)
  PROVE  InspectionInv'
<1> DEFINE d == worker[w].doc
<1>1. /\ worker' \in [Workers -> WorkerRow] /\ Busy(worker'[w])
      /\ \A v \in Workers \ {w} : worker'[v] = worker[v]
      /\ late' = late
  BY WorkerStep DEF Inspector!Work
<1>2. d \in Files /\ worker[w] \in WorkerRow
  BY DEF InspectionInv, InspectionTypes, RunsBusy, Busy, Working, Inspector!MarkRunning
<1>3. /\ worker'[w].at = "analyse" /\ worker'[w].doc = d /\ task' = task
      /\ inspection' = [inspection EXCEPT ![d].state = "processing"]
  BY <1>2 DEF InspectionInv, InspectionTypes, WorkerRow, Inspector!MarkRunning
<1>4. InspectionTypes' /\ RunsBusy'
  BY <1>1, <1>2, <1>3 DEF InspectionInv, InspectionTypes, InspectionRow, Inspector!States, RunsBusy, Busy
<1>5. Alone'
  BY <1>1, <1>3 DEF InspectionInv, Alone
<1>6. \A e \in Files \ {d} : inspection'[e] = inspection[e]
  BY <1>2, <1>3 DEF InspectionInv, InspectionTypes
<1>7. RowsTell'
  <2>1. d \notin late => task[d].status = "processing"
    BY <1>2 DEF InspectionInv, Alone
  <2> QED BY <1>1, <1>3, <1>6, <2>1 DEF InspectionInv, RowsTell, Tells
<1>8. VerdictsTell'
  <2>1. ASSUME NEW v \in Workers, worker'[v].at = "job", worker'[v].doc \notin late
        PROVE  /\ v # w /\ worker[v].doc \in Files \ {d} /\ worker'[v] = worker[v]
               /\ Inspector!JobStatus(v)' = Inspector!JobStatus(v)
    <3>1. v # w /\ worker'[v] = worker[v]
      BY <1>1, <1>3, <2>1
    <3>2. worker[v].doc \in Files
      BY <2>1, <3>1 DEF InspectionInv, RunsBusy, Busy, Working
    <3> QED BY <2>1, <3>1, <3>2, SameStatus DEF InspectionInv, Alone
  <2> QED BY <1>1, <1>6, <2>1 DEF InspectionInv, VerdictsTell, Tells
<1> QED BY <1>4, <1>5, <1>7, <1>8 DEF InspectionInv

LEMMA WriteVerdictStep ==
  ASSUME Inspector!ConstantsOK, InspectionInv, NEW w \in Workers, Inspector!WriteVerdict(w)
  PROVE  InspectionInv'
<1> DEFINE d == worker[w].doc
           y == Inspector!Verdict(w)
<1>1. /\ worker' \in [Workers -> WorkerRow] /\ Busy(worker'[w])
      /\ \A v \in Workers \ {w} : worker'[v] = worker[v]
      /\ late' = late
  BY WorkerStep DEF Inspector!Work
<1>2. d \in Files /\ worker[w] \in WorkerRow /\ worker[w].at = "verdict"
  BY DEF InspectionInv, InspectionTypes, RunsBusy, Busy, Working, Inspector!WriteVerdict
<1>3. /\ worker'[w] = [worker[w] EXCEPT !.at = "job"] /\ task' = task
      /\ inspection' = [inspection EXCEPT ![d] = y]
  BY <1>2 DEF InspectionInv, InspectionTypes, Inspector!WriteVerdict
<1>4. /\ worker'[w].list = worker[w].list /\ worker'[w].doc = d
      /\ worker'[w].result = worker[w].result /\ task' = task
  BY <1>2, <1>3 DEF WorkerRow
<1>5. y \in InspectionRow /\ Tells(Inspector!JobStatus(w), y)
  BY <1>2, VerdictRow
<1> HIDE DEF y
<1>6. InspectionTypes' /\ RunsBusy'
  BY <1>1, <1>2, <1>3, <1>5 DEF InspectionInv, InspectionTypes, RunsBusy, Busy
<1>7. Alone'
  BY <1>1, <1>4 DEF InspectionInv, Alone
<1>8. inspection'[d] = y /\ \A e \in Files \ {d} : inspection'[e] = inspection[e]
  BY <1>2, <1>3 DEF InspectionInv, InspectionTypes
<1>9. RowsTell'
  <2>1. d \notin late => task[d].status = "processing"
    BY <1>2 DEF InspectionInv, Alone
  <2> QED BY <1>1, <1>3, <1>8, <2>1 DEF InspectionInv, RowsTell, Tells
<1>10. VerdictsTell'
  <2> SUFFICES ASSUME NEW v \in Workers, worker'[v].at = "job", worker'[v].doc \notin late
               PROVE  Tells(Inspector!JobStatus(v)', inspection'[worker'[v].doc])
    BY <1>1 DEF VerdictsTell, Tells
  <2>1. CASE v = w
    BY <1>4, <1>5, <1>8, <2>1, SameStatus
  <2>2. CASE v # w
    <3>1. worker'[v] = worker[v] /\ Inspector!JobStatus(v)' = Inspector!JobStatus(v)
      BY <1>1, <2>2, SameStatus
    <3>2. worker[v].doc \in Files
      BY <3>1 DEF InspectionInv, RunsBusy, Busy, Working
    <3>3. worker[v].doc # d
      BY <2>2, <3>1, <3>2 DEF InspectionInv, Alone
    <3> QED BY <1>8, <3>1, <3>2, <3>3 DEF InspectionInv, VerdictsTell
  <2> QED BY <2>1, <2>2
<1> QED BY <1>6, <1>7, <1>9, <1>10 DEF InspectionInv

LEMMA WriteJobStep ==
  ASSUME Inspector!ConstantsOK, InspectionInv, NEW w \in Workers, Inspector!WriteJob(w)
  PROVE  InspectionInv'
<1> DEFINE d == worker[w].doc
           s == Inspector!JobStatus(w)
           y == [status |-> s, attempts |-> Inspector!Attempts(w),
                 unconfigured |-> worker[w].result \in {"unconfigured", "unscreened"}]
<1>1. /\ worker' \in [Workers -> WorkerRow] /\ Busy(worker'[w])
      /\ \A v \in Workers \ {w} : worker'[v] = worker[v]
      /\ late' = late
  BY WorkerStep DEF Inspector!Work
<1>2. d \in Files /\ worker[w] \in WorkerRow /\ worker[w].at = "job"
  BY DEF InspectionInv, InspectionTypes, RunsBusy, Busy, Working, Inspector!WriteJob
<1>3. /\ worker'[w].at = "next" /\ worker'[w].doc = Inspector!Nothing /\ inspection' = inspection
      /\ task' = [task EXCEPT ![d] = y]
  BY <1>2 DEF InspectionInv, InspectionTypes, WorkerRow, Inspector!WriteJob
<1>4. y \in TaskRow /\ y.status = s
  <2>1. s \in Inspector!Statuses /\ Inspector!Attempts(w) \in 0 .. MaxTries
    BY <1>2, Counted, VerdictRow DEF Working
  <2> QED BY <2>1 DEF TaskRow
<1>5. d \notin late => Tells(s, inspection[d])
  BY <1>2 DEF InspectionInv, VerdictsTell
<1> HIDE DEF s, y
<1>6. InspectionTypes' /\ RunsBusy'
  BY <1>1, <1>2, <1>3, <1>4 DEF InspectionInv, InspectionTypes, RunsBusy, Busy
<1>7. task'[d] = y /\ \A e \in Files \ {d} : task'[e] = task[e]
  BY <1>2, <1>3 DEF InspectionInv, InspectionTypes
<1>8. Alone'
  BY <1>1, <1>2, <1>3, <1>7 DEF InspectionInv, Alone, Inspector!ConstantsOK
<1>9. RowsTell'
  BY <1>1, <1>3, <1>4, <1>5, <1>7 DEF InspectionInv, RowsTell, Tells
<1>10. VerdictsTell'
  BY <1>1, <1>3, SameStatus DEF InspectionInv, VerdictsTell, Tells
<1> QED BY <1>6, <1>8, <1>9, <1>10 DEF InspectionInv

LEMMA ClaimStep ==
  ASSUME Inspector!ConstantsOK, InspectionInv, NEW w \in Workers, NEW d \in Files,
         Inspector!Claim(w, d)
  PROVE  InspectionInv'
<1>1. /\ worker' \in [Workers -> WorkerRow] /\ Busy(worker'[w])
      /\ \A v \in Workers \ {w} : worker'[v] = worker[v]
      /\ late' = late
  BY WorkerStep DEF Inspector!Work
<1>2. /\ worker'[w].at = "claimed" /\ worker'[w].doc = d /\ inspection' = inspection
      /\ task' = [task EXCEPT ![d].status = "processing"]
      /\ task[d].status \in {"queued", "retry"}
  BY DEF InspectionInv, InspectionTypes, WorkerRow, Inspector!Claim, Inspector!Claimable
<1>3. InspectionTypes' /\ RunsBusy'
  <2>1. task' \in [Files -> TaskRow]
    BY <1>2 DEF InspectionInv, InspectionTypes, TaskRow, Inspector!Statuses
  <2>2. RunsBusy'
    BY <1>1 DEF InspectionInv, RunsBusy, Busy
  <2> QED BY <1>1, <1>2, <2>1, <2>2 DEF InspectionInv, InspectionTypes
<1>4. task'[d].status = "processing" /\ \A e \in Files \ {d} : task'[e] = task[e]
  BY <1>2 DEF InspectionInv, InspectionTypes, TaskRow
<1>5. d \notin late => \A v \in Workers : worker[v].doc # d
  BY <1>2 DEF InspectionInv, Alone
<1>6. Alone'
  BY <1>1, <1>2, <1>4, <1>5 DEF InspectionInv, Alone
<1>7. RowsTell'
  BY <1>1, <1>2, <1>4 DEF InspectionInv, RowsTell, Tells
<1>8. VerdictsTell'
  BY <1>1, <1>2, SameStatus DEF InspectionInv, VerdictsTell, Tells
<1> QED BY <1>3, <1>6, <1>7, <1>8 DEF InspectionInv

LEMMA StartStep ==
  ASSUME Inspector!ConstantsOK, InspectionInv, NEW w \in Workers, Inspector!Start(w)
  PROVE  InspectionInv'
<1>1. /\ worker[w].at = "rest" /\ worker \in [Workers -> WorkerRow] /\ worker[w].doc = Inspector!Nothing
      /\ worker' = [worker EXCEPT ![w].at = "list", ![w].external = worker'[w].external]
      /\ worker'[w].external \in BOOLEAN
  BY Started DEF InspectionInv, InspectionTypes, RunsBusy, Busy, Working
<1>2. /\ worker'[w].at = "list" /\ worker'[w].doc = Inspector!Nothing
      /\ \A v \in Workers \ {w} : worker'[v] = worker[v]
      /\ worker' \in [Workers -> WorkerRow]
  BY <1>1 DEF WorkerRow
<1>3. InspectionTypes' /\ RunsBusy'
  BY <1>2, Started, ZenonT(30) DEF InspectionInv, InspectionTypes, RunsBusy, Busy, Working
<1>4. ASSUME NEW v \in Workers, worker'[v].doc \in Files \ late'
      PROVE  /\ v # w /\ worker'[v] = worker[v] /\ worker[v].doc \in Files \ late
             /\ task'[worker[v].doc] = task[worker[v].doc]
  <2>1. v # w /\ worker'[v] = worker[v] /\ worker[v].doc \in Files \ late
    BY <1>2, <1>4, Started DEF Inspector!ConstantsOK
  <2>2. Inspector!AtWorkOn(worker[v].doc) # {} /\ task[worker[v].doc].status = "processing"
    BY <2>1 DEF Inspector!AtWorkOn, InspectionInv, Alone
  <2> QED BY <1>4, <2>1, <2>2, Started
<1>5. Alone'
  <2> SUFFICES ASSUME NEW v \in Workers, worker'[v].doc \in Files \ late'
               PROVE  /\ task'[worker'[v].doc].status = "processing"
                      /\ \A u \in Workers \ {v} : worker'[u].doc # worker'[v].doc
    BY DEF Alone
  <2> QED BY <1>2, <1>4 DEF InspectionInv, Alone, Inspector!ConstantsOK
<1>6. ASSUME NEW d \in Files, NEW s, Tells(s, inspection[d]) PROVE Tells(s, inspection'[d])
  BY <1>6, Started DEF Tells
<1>7. RowsTell'
  <2> SUFFICES ASSUME NEW d \in Files \ late' PROVE Tells(task'[d].status, inspection'[d])
    BY DEF RowsTell, Tells
  <2>1. d \in Files \ late /\ Tells(task[d].status, inspection[d])
    BY Started DEF InspectionInv, RowsTell
  <2>2. Tells(task'[d].status, inspection[d])
    BY <2>1, Started DEF Tells
  <2> QED BY <1>6, <2>2
<1>8. VerdictsTell'
  <2> SUFFICES ASSUME NEW v \in Workers, worker'[v].at = "job", worker'[v].doc \notin late'
               PROVE  Tells(Inspector!JobStatus(v)', inspection'[worker'[v].doc])
    BY DEF VerdictsTell, Tells
  <2>1. worker'[v] = worker[v] /\ Inspector!JobStatus(v)' = Inspector!JobStatus(v)
    BY <1>2, SameStatus
  <2>2. worker[v].doc \in Files \ late
    BY <2>1, Started DEF InspectionInv, RunsBusy, Busy, Working
  <2>3. Tells(Inspector!JobStatus(v), inspection[worker[v].doc])
    BY <2>1, <2>2 DEF InspectionInv, VerdictsTell
  <2> QED BY <1>6, <2>1, <2>2, <2>3
<1> QED BY <1>3, <1>5, <1>7, <1>8 DEF InspectionInv

LEMMA InspectionStep ==
  ASSUME Inspector!ConstantsOK, InspectionInv, [Inspector!Next]_(Inspector!vars)
  PROVE  InspectionInv'
<1>1. ASSUME NEW w \in Workers, Inspector!Start(w) PROVE InspectionInv'
  BY <1>1, StartStep
<1>2. ASSUME NEW w \in Workers,
             \/ Inspector!List(w) \/ Inspector!Rest(w) \/ Inspector!Analyse(w) \/ Inspector!Die(w)
             \/ \E d \in Files : Inspector!Skip(w, d)
      PROVE  InspectionInv'
  <2>1. Inspector!Work(w) \/ Inspector!Die(w)
    BY <1>2 DEF Inspector!Work
  <2>2. UNCHANGED <<inspection, task>>
    BY <1>2 DEF Inspector!List, Inspector!ListDue, Inspector!Rest, Inspector!Analyse,
      Inspector!Die, Inspector!Skip
  <2>3. worker \in [Workers -> WorkerRow] /\ Busy(worker[w])
    BY DEF InspectionInv, InspectionTypes, RunsBusy
  <2>4. Inspector!Resting.at = "rest" /\ Inspector!Resting.doc = Inspector!Nothing
    BY DEF Inspector!Resting
  <2>5. CASE Inspector!List(w)
    <3>1. PICK due \in SUBSET {d \in Files : Inspector!Claimable(d)} : Inspector!ListDue(w, due)
      BY <2>5 DEF Inspector!List
    <3>2. CASE due = {}
      <4>1. worker'[w] = Inspector!Resting
        BY <2>3, <3>1, <3>2 DEF Inspector!ListDue
      <4> QED BY <2>1, <2>2, <2>4, <4>1, QuietRun
    <3>3. CASE due # {}
      <4>1. worker'[w].at = "next" /\ worker'[w].doc = worker[w].doc
        BY <2>3, <3>1, <3>3 DEF Inspector!ListDue, WorkerRow
      <4> QED BY <2>1, <2>2, <4>1, QuietRun
    <3> QED BY <3>2, <3>3
  <2>6. CASE Inspector!Rest(w) \/ Inspector!Die(w)
    <3>1. worker'[w] = Inspector!Resting
      BY <2>3, <2>6 DEF Inspector!Rest, Inspector!Die
    <3> QED BY <2>1, <2>2, <2>4, <3>1, QuietRun
  <2>7. CASE Inspector!Analyse(w)
    <3>1. worker'[w].at = "verdict" /\ worker'[w].doc = worker[w].doc
      BY <2>3, <2>7 DEF Inspector!Analyse, WorkerRow
    <3> QED BY <2>1, <2>2, <3>1, QuietRun
  <2>8. ASSUME NEW d \in Files, Inspector!Skip(w, d) PROVE InspectionInv'
    <3>1. worker'[w].at = "next" /\ worker'[w].doc = worker[w].doc
      BY <2>3, <2>8 DEF Inspector!Skip, WorkerRow
    <3> QED BY <2>1, <2>2, <3>1, QuietRun
  <2> QED BY <1>2, <2>5, <2>6, <2>7, <2>8
<1>3. ASSUME NEW w \in Workers,
             \/ Inspector!MarkRunning(w) \/ Inspector!WriteVerdict(w) \/ Inspector!WriteJob(w)
             \/ \E d \in Files : Inspector!Claim(w, d)
      PROVE  InspectionInv'
  BY <1>3, MarkRunningStep, WriteVerdictStep, WriteJobStep, ClaimStep
<1>4. CASE UNCHANGED Inspector!vars
  BY <1>4 DEF Inspector!vars, InspectionInv, InspectionTypes, RunsBusy, Busy, Alone, RowsTell,
    VerdictsTell, Tells, Inspector!JobStatus, Inspector!Dead, Inspector!Attempts
<1> QED BY <1>1, <1>2, <1>3, <1>4 DEF Inspector!Next, Inspector!Work

\* Unless a lease ran out under a live run, one run works on a document at a time and a job
\* that is over says what its inspection says, although the two rows are written one after
\* the other and runs die between them (provider-document-processing).
THEOREM JobsTellInspections ==
  ASSUME Inspector!ConstantsOK PROVE Inspector!Spec => []Inspector!JobTellsInspection
<1>1. Inspector!Init => InspectionInv
  BY InspectionStart
<1>2. InspectionInv /\ [Inspector!Next]_(Inspector!vars) => InspectionInv'
  BY InspectionStep
<1>3. InspectionInv => Inspector!JobTellsInspection
  BY InspectionSound
<1> QED BY <1>1, <1>2, <1>3, PTL DEF Inspector!Spec
=============================================================================
