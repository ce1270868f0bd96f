---------------------------- MODULE MCOverlapProofs ----------------------------
(* What the components' own proofs say of the parts TLC explores side by side: the  *)
(* invariant of a part is kept while its scene is on, by the lemmas proved in that  *)
(* part's module of proofs.                                                     *)
EXTENDS MCOverlap, TLAPS

SyncInv == scene = "sync" => Sync!Inv
CommandInv == scene = "command" => Command!Inv
PlainInv == scene = "plain" => Plain!Inv
PapersInv == scene = "papers" => Provider!PaperInv
CasesInv == scene = "cases" => Provider!CaseInv
PaymentsInv == scene = "payments" => Provider!MoneyInv
DepositsInv == scene = "deposits" => Other!MoneyInv
CalendarsInv == scene = "calendars" => Provider!CalendarInv
RefundsInv == scene = "refunds" => Refunds!Inv
VaultInv == scene = "vault" => Provider!VaultInv
PrimaryInv == scene = "primary" => Other!VaultInv
InspectionsInv == scene = "inspection" => Provider!InspectionInv

Inv == /\ SyncInv /\ CommandInv /\ PlainInv /\ PapersInv
       /\ CasesInv /\ PaymentsInv /\ DepositsInv /\ CalendarsInv
       /\ RefundsInv /\ VaultInv /\ PrimaryInv /\ InspectionsInv

LEMMA SyncStep == ASSUME SyncInv, [Next]_vars PROVE SyncInv'
<1>1. ASSUME scene = "sync", Sync!Next \/ UNCHANGED vars, Sync!Inv PROVE Sync!Inv'
  <2>1. [Sync!Next]_(Sync!vars)
    BY <1>1 DEF vars, Sync!vars
  <2> QED BY <1>1, <2>1, Sync!Step, PartsAssumption
<1> QED BY <1>1 DEF Next, vars, SyncInv

LEMMA CommandStep == ASSUME CommandInv, [Next]_vars PROVE CommandInv'
<1>1. ASSUME scene = "command", Command!Next \/ UNCHANGED vars, Command!Inv PROVE Command!Inv'
  <2>1. [Command!Next]_(Command!vars)
    BY <1>1 DEF vars, Command!vars
  <2> QED BY <1>1, <2>1, Command!Preserved, PartsAssumption
<1> QED BY <1>1 DEF Next, vars, CommandInv

LEMMA PlainStep == ASSUME PlainInv, [Next]_vars PROVE PlainInv'
<1>1. ASSUME scene = "plain", Plain!Next \/ UNCHANGED vars, Plain!Inv PROVE Plain!Inv'
  <2>1. [Plain!Next]_(Plain!vars)
    BY <1>1 DEF vars, Plain!vars
  <2> QED BY <1>1, <2>1, Plain!Preserved, PartsAssumption
<1> QED BY <1>1 DEF Next, vars, PlainInv

LEMMA PapersStep == ASSUME PapersInv, [Next]_vars PROVE PapersInv'
<1>1. ASSUME scene = "papers", Provider!Papers!Next \/ UNCHANGED vars, Provider!PaperInv PROVE Provider!PaperInv'
  <2>1. [Provider!Papers!Next]_(Provider!Papers!vars)
    BY <1>1 DEF vars, Provider!Papers!vars
  <2> QED BY <1>1, <2>1, Provider!PaperStep, PartsAssumption
<1> QED BY <1>1 DEF Next, vars, PapersInv

LEMMA CasesStep == ASSUME CasesInv, [Next]_vars PROVE CasesInv'
<1>1. ASSUME scene = "cases", Provider!Cases!Next \/ UNCHANGED vars, Provider!CaseInv PROVE Provider!CaseInv'
  <2>1. [Provider!Cases!Next]_(Provider!Cases!vars)
    BY <1>1 DEF vars, Provider!Cases!vars
  <2> QED BY <1>1, <2>1, Provider!CaseStep, PartsAssumption
<1> QED BY <1>1 DEF Next, vars, CasesInv

LEMMA PaymentsStep == ASSUME PaymentsInv, [Next]_vars PROVE PaymentsInv'
<1>1. ASSUME scene = "payments", Provider!Money!Next \/ UNCHANGED vars, Provider!MoneyInv PROVE Provider!MoneyInv'
  <2>1. [Provider!Money!Next]_(Provider!Money!vars)
    BY <1>1 DEF vars, Provider!Money!vars
  <2> QED BY <1>1, <2>1, Provider!MoneyStep, PartsAssumption
<1> QED BY <1>1 DEF Next, vars, PaymentsInv

LEMMA DepositsStep == ASSUME DepositsInv, [Next]_vars PROVE DepositsInv'
<1>1. ASSUME scene = "deposits", Other!Money!Next \/ UNCHANGED vars, Other!MoneyInv PROVE Other!MoneyInv'
  <2>1. [Other!Money!Next]_(Other!Money!vars)
    BY <1>1 DEF vars, Other!Money!vars
  <2> QED BY <1>1, <2>1, Other!MoneyStep, PartsAssumption
<1> QED BY <1>1 DEF Next, vars, DepositsInv

LEMMA CalendarsStep == ASSUME CalendarsInv, [Next]_vars PROVE CalendarsInv'
<1>1. ASSUME scene = "calendars", Provider!Calendars!Next \/ UNCHANGED vars, Provider!CalendarInv PROVE Provider!CalendarInv'
  <2>1. [Provider!Calendars!Next]_(Provider!Calendars!vars)
    BY <1>1 DEF vars, Provider!Calendars!vars
  <2> QED BY <1>1, <2>1, Provider!CalendarStep, PartsAssumption
<1> QED BY <1>1 DEF Next, vars, CalendarsInv

LEMMA RefundsStep == ASSUME RefundsInv, [Next]_vars PROVE RefundsInv'
<1>1. ASSUME scene = "refunds", Refunds!Next \/ UNCHANGED vars, Refunds!Inv PROVE Refunds!Inv'
  <2>1. [Refunds!Next]_(Refunds!vars)
    BY <1>1 DEF vars, Refunds!vars
  <2> QED BY <1>1, <2>1, Refunds!Step, PartsAssumption
<1> QED BY <1>1 DEF Next, vars, RefundsInv

LEMMA VaultStep == ASSUME VaultInv, [Next]_vars PROVE VaultInv'
<1>1. ASSUME scene = "vault", Provider!Vault!Next \/ UNCHANGED vars, Provider!VaultInv PROVE Provider!VaultInv'
  <2>1. [Provider!Vault!Next]_(Provider!Vault!vars)
    BY <1>1 DEF vars, Provider!Vault!vars
  <2> QED BY <1>1, <2>1, Provider!VaultStep, PartsAssumption
<1> QED BY <1>1 DEF Next, vars, VaultInv

LEMMA PrimaryStep == ASSUME PrimaryInv, [Next]_vars PROVE PrimaryInv'
<1>1. ASSUME scene = "primary", Other!Vault!Next \/ UNCHANGED vars, Other!VaultInv PROVE Other!VaultInv'
  <2>1. [Other!Vault!Next]_(Other!Vault!vars)
    BY <1>1 DEF vars, Other!Vault!vars
  <2> QED BY <1>1, <2>1, Other!VaultStep, PartsAssumption
<1> QED BY <1>1 DEF Next, vars, PrimaryInv

LEMMA InspectionsStep == ASSUME InspectionsInv, [Next]_vars PROVE InspectionsInv'
<1>1. ASSUME scene = "inspection", Provider!Inspector!Next \/ UNCHANGED vars, Provider!InspectionInv
      PROVE  Provider!InspectionInv'
  <2>1. [Provider!Inspector!Next]_(Provider!Inspector!vars)
    BY <1>1 DEF vars, Provider!Inspector!vars
  <2> QED BY <1>1, <2>1, Provider!InspectionStep, PartsAssumption
<1> QED BY <1>1 DEF Next, vars, InspectionsInv

LEMMA OverlapStart == ASSUME Init PROVE Inv
<1>1. SyncInv
  <2>1. scene = "sync" => Sync!Init
    BY DEF Init
  <2> QED BY <2>1, Sync!Start, PartsAssumption DEF SyncInv
<1>2. CommandInv
  <2>1. scene = "command" => Command!Init
    BY DEF Init
  <2> QED BY <2>1, Command!Start, PartsAssumption DEF CommandInv
<1>3. PlainInv
  <2>1. scene = "plain" => Plain!Init
    BY DEF Init
  <2> QED BY <2>1, Plain!Start, PartsAssumption DEF PlainInv
<1>4. PapersInv
  <2>1. scene = "papers" => Provider!Papers!Init
    BY DEF Init
  <2> QED BY <2>1, Provider!PaperStart, PartsAssumption DEF PapersInv
<1>5. CasesInv
  <2>1. scene = "cases" => Provider!Cases!Init
    BY DEF Init
  <2> QED BY <2>1, Provider!CaseStart, PartsAssumption DEF CasesInv
<1>6. PaymentsInv
  <2>1. scene = "payments" => Provider!Money!Init
    BY DEF Init
  <2> QED BY <2>1, Provider!MoneyStart, PartsAssumption DEF PaymentsInv
<1>7. DepositsInv
  <2>1. scene = "deposits" => Other!Money!Init
    BY DEF Init
  <2> QED BY <2>1, Other!MoneyStart, PartsAssumption DEF DepositsInv
<1>8. CalendarsInv
  <2>1. scene = "calendars" => Provider!Calendars!Init
    BY DEF Init
  <2> QED BY <2>1, Provider!CalendarStart, PartsAssumption DEF CalendarsInv
<1>9. RefundsInv
  <2>1. scene = "refunds" => Refunds!Init
    BY DEF Init
  <2> QED BY <2>1, Refunds!Start, PartsAssumption DEF RefundsInv
<1>10. VaultInv
  <2>1. scene = "vault" => Provider!Vault!Init
    BY DEF Init
  <2> QED BY <2>1, Provider!VaultStart, PartsAssumption DEF VaultInv
<1>11. PrimaryInv
  <2>1. scene = "primary" => Other!Vault!Init
    BY DEF Init
  <2> QED BY <2>1, Other!VaultStart, PartsAssumption DEF PrimaryInv
<1>12. InspectionsInv
  <2>1. scene = "inspection" => Provider!Inspector!Init
    BY DEF Init
  <2> QED BY <2>1, Provider!InspectionStart, PartsAssumption DEF InspectionsInv
<1> QED BY <1>1, <1>2, <1>3, <1>4, <1>5, <1>6, <1>7, <1>8, <1>9, <1>10, <1>11, <1>12 DEF Inv

LEMMA OverlapStep == ASSUME Inv, [Next]_vars PROVE Inv'
BY SyncStep, CommandStep, PlainStep, PapersStep, CasesStep, PaymentsStep, DepositsStep,
  CalendarsStep, RefundsStep, VaultStep, PrimaryStep, InspectionsStep DEF Inv

\* Whichever part is on stage keeps its inductive invariant.
THEOREM OverlapInvariant == Spec => []Inv
BY OverlapStart, OverlapStep, PTL DEF Spec

\* Every variable of every part keeps its type, among them the bounds of the attempts, of
\* the claim rounds, of the tokens and of the secrets.
THEOREM PartsAreTyped == Spec => []TypeOK
<1>1. Inv => TypeOK
  <2>0. SUFFICES ASSUME Inv PROVE TypeOK
    OBVIOUS
  <2>1. scene = "sync" => Sync!TypeOK
    BY <2>0 DEF Inv, SyncInv, Sync!Inv
  <2>2. scene = "command" => Command!TypeOK
    BY <2>0 DEF Inv, CommandInv, Command!Inv
  <2>3. scene = "plain" => Plain!TypeOK
    BY <2>0 DEF Inv, PlainInv, Plain!Inv
  <2>4. scene = "papers" => Provider!Papers!TypeOK
    BY <2>0 DEF Inv, PapersInv, Provider!PaperInv
  <2>5. scene = "cases" => Provider!Cases!TypeOK
    BY <2>0, Provider!CaseTypesOK DEF Inv, CasesInv, Provider!CaseInv
  <2>6. scene = "payments" => Provider!Money!TypeOK
    BY <2>0, Provider!MoneyTypesOK, PartsAssumption DEF Inv, PaymentsInv
  <2>7. scene = "deposits" => Other!Money!TypeOK
    BY <2>0, Other!MoneyTypesOK, PartsAssumption DEF Inv, DepositsInv
  <2>8. scene = "calendars" => Provider!Calendars!TypeOK
    BY <2>0, Provider!CalendarTypesOK DEF Inv, CalendarsInv, Provider!CalendarInv
  <2>9. scene = "refunds" => Refunds!TypeOK
    BY <2>0 DEF Inv, RefundsInv, Refunds!Inv
  <2>10. scene = "vault" => Provider!Vault!TypeOK
    BY <2>0 DEF Inv, VaultInv, Provider!VaultInv
  <2>11. scene = "primary" => Other!Vault!TypeOK
    BY <2>0 DEF Inv, PrimaryInv, Other!VaultInv
  <2>12. scene = "inspection" => Provider!Inspector!TypeOK
    BY <2>0, Provider!InspectionTypesOK DEF Inv, InspectionsInv, Provider!InspectionInv
  <2> QED BY <2>1, <2>2, <2>3, <2>4, <2>5, <2>6, <2>7, <2>8, <2>9, <2>10, <2>11, <2>12 DEF TypeOK
<1> QED BY <1>1, OverlapInvariant, PTL

\* Two invocations of the scheduler that overlap run no job twice.
THEOREM SyncClaimsAreDisjoint == Spec => []DisjointClaims
<1>1. Inv => DisjointClaims
  BY DEF Inv, SyncInv, DisjointClaims, Sync!Inv
<1> QED BY <1>1, OverlapInvariant, PTL

\* An answer to a sensitive command stands for an effect of that command, and one call at
\* a time holds a reservation that has not lapsed, whether or not the effect and its record
\* are one transaction (sensitive-command.ts).
THEOREM CommandsHold == Spec => []ReservationHolds
<1>1. Inv => ReservationHolds
  <2>1. Command!Inv => Command!ReservationHolds
    BY Command!Holds, PartsAssumption
  <2>2. Plain!Inv => Command!ReservationHolds
    BY Plain!Holds, PartsAssumption DEF Plain!ReservationHolds, Command!ReservationHolds,
      Plain!AnsweredWithEffect, Command!AnsweredWithEffect, Plain!ExclusiveUnlessLapsed, Command!ExclusiveUnlessLapsed
  <2> QED BY <2>1, <2>2 DEF Inv, CommandInv, PlainInv, ReservationHolds
<1> QED BY <1>1, OverlapInvariant, PTL

\* A cancelled booking has its ledger entry and no voucher that can be used, though two
\* people cancel it with quotes of their own.
THEOREM CancellationsAccounted == Spec => []CancellationAccounted
<1>1. Inv => CancellationAccounted
  BY Refunds!Accounted, PartsAssumption DEF Inv, RefundsInv, CancellationAccounted
<1> QED BY <1>1, OverlapInvariant, PTL

\* A document and its replacement are not both in force, nor are two replacements, but for
\* reviews of the same moment.
THEOREM ReplacedDocumentsOutOfForce == Spec => []ReplacedNotInForce
<1>1. Inv => ReplacedNotInForce
  BY Provider!PaperSound DEF Inv, PapersInv, ReplacedNotInForce
<1> QED BY <1>1, OverlapInvariant, PTL

\* A case has one decision to be settled at a time, and none once it is closed.
THEOREM CasesDecidedOnce == Spec => []OneOpenDecision
<1>1. Inv => OneOpenDecision
  BY Provider!CaseSound DEF Inv, CasesInv, OneOpenDecision
<1> QED BY <1>1, OverlapInvariant, PTL

\* The bank is given no more guesses than it may be, an acceptance whose answer was lost is
\* not lost, and the financial profile follows the accounts and the tax configuration.
THEOREM PaymentsSound == Spec => []AccountsSound
<1>1. Inv => AccountsSound
  BY Provider!MoneySound, Other!MoneySound, PartsAssumption DEF Inv, PaymentsInv, DepositsInv, AccountsSound
<1> QED BY <1>1, OverlapInvariant, PTL

\* What a calendar blocks and what the ledger of runs says follow the feed.
THEOREM FeedsSound == Spec => []FeedSound
<1>1. Inv => FeedSound
  BY Provider!CalendarSound DEF Inv, CalendarsInv, FeedSound
<1> QED BY <1>1, OverlapInvariant, PTL

\* A connected connection has an accepted credential, a revoked one none, and one at most
\* is primary.
THEOREM ConnectionsSound == Spec => []ConnectionSound
<1>1. Inv => ConnectionSound
  BY Provider!VaultSound, Other!VaultSound DEF Inv, VaultInv, PrimaryInv, ConnectionSound
<1> QED BY <1>1, OverlapInvariant, PTL

\* The job of an inspection that is over says what the inspection says, unless a lease ran
\* out under a live run.
THEOREM InspectionsAgree == Spec => []JobTellsInspection
<1>1. Inv => JobTellsInspection
  BY Provider!InspectionSound DEF Inv, InspectionsInv, JobTellsInspection
<1> QED BY <1>1, OverlapInvariant, PTL

\* A decision of a case is carried out on the evidence it was taken on, a case that waits
\* goes on by an answer, and a closed case stays closed.
THEOREM CasesMoveByDecisions == Spec => CasesAdvance
<1>1. Inv /\ [Next]_vars => [scene = "cases" => Provider!Cases!Advance]_vars
  <2>1. ASSUME Inv, Next, scene = "cases" PROVE Provider!Cases!Advance
    <3>1. Provider!Cases!Next /\ Provider!CaseInv
      BY <2>1 DEF Next, Inv, CasesInv
    <3> QED BY <3>1, Provider!CaseAdvance, PartsAssumption
  <2> QED BY <2>1
<1> QED BY <1>1, OverlapInvariant, PTL DEF Spec, CasesAdvance

\* An atomic command takes effect and answers as CommandOnce promises; the other scenes
\* leave the promise as it starts.
THEOREM CommandsKeepPromise == Spec => ImplementsPromise
<1>1. Init => Once!Init
  <2>1. ASSUME Init, scene = "command" PROVE Once!Init
    <3>1. Command!Init
      BY <2>1 DEF Init
    <3> QED BY <2>1, <3>1, Command!RefinementStart, PartsAssumption DEF Once!Init
  <2>2. ASSUME Init, scene # "command" PROVE Once!Init
    BY <2>2 DEF Once!Init
  <2> QED BY <2>1, <2>2
<1>2. Inv /\ [Next]_vars => Once!Next \/ UNCHANGED Once!vars
  <2>1. ASSUME Inv, [Next]_vars, scene = "command" PROVE Once!Next \/ UNCHANGED Once!vars
    <3>1. [Command!Next]_(Command!vars) /\ scene' = scene
      BY <2>1 DEF Next, vars, Command!vars
    <3>2. Command!Promise!Next \/ UNCHANGED Command!Promise!vars
      BY <2>1, <3>1, Command!RefinementStep, PartsAssumption DEF Inv, CommandInv
    <3> QED BY <2>1, <3>1, <3>2 DEF Once!Next, Once!vars, Command!Promise!Next, Command!Promise!vars,
      Once!Forget, Once!Take, Once!Replay, Command!Promise!Forget, Command!Promise!Take, Command!Promise!Replay
  <2>2. ASSUME [Next]_vars, scene # "command" PROVE UNCHANGED Once!vars
    <3>1. scene' = scene
      BY <2>2 DEF Next, vars
    <3> QED BY <2>2, <3>1 DEF Once!vars
  <2> QED BY <2>1, <2>2
<1> QED BY <1>1, <1>2, OverlapInvariant, PTL DEF Spec, ImplementsPromise, Once!Spec
=============================================================================
