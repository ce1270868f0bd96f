--------------------------- MODULE PaymentAccounts ---------------------------
(* The bank accounts a provider is paid to: their creation, the verification by  *)
(* small deposits, which asks a bank between two transactions, the manual review, *)
(* the choice of the primary account, and the financial profile that is ready    *)
(* when an account and the tax configuration are verified.                       *)
(*                                                                              *)
(* A transaction is REPEATABLE READ and first locks the provider: it sees the    *)
(* database of its snapshot, taken before that lock is granted, and fails on a    *)
(* row that was changed since.  Transactions that only read what they lock are   *)
(* one step; those that may write the profile take their snapshot when they begin, *)
(* with the answer of the bank or with the request.                             *)
(* A refusal by an open case (Casework) may end any call.                        *)
EXTENDS Integers, FiniteSets

CONSTANTS Accounts,      \* 1, 2, ... in the order in which they are created
          NoAccount,
          Calls,         \* requests that may overlap
          MaxAttempts    \* PAYOUT_MICRO_DEPOSIT_MAX_ATTEMPTS

ConstantsOK == /\ Accounts \subseteq Nat /\ NoAccount \notin Accounts
               /\ MaxAttempts \in Nat \ {0}

VARIABLES account,     \* [status, challenge, keys, minted, token, guess, attempts]:
                       \* keys and tokens made so far; token: the one being
                       \* confirmed, or 0; guess: its fingerprint
          opened,      \* the bank: verifications opened, <<account, key>>
          decided,     \* the bank: guesses it has judged, <<account, token, right>>
          tax,         \* is the tax configuration verified
          profile,     \* [ready, primary] of ProviderFinancialProfile
          call,        \* [at, account, key, guess, got, tax, changed] of each request;
                       \* tax and changed: what its snapshot saw, and what was
                       \* changed since
          behind       \* a profile was written for a tax status that had changed, a
                       \* recomputation was lost, or a review did not see a profile

vars == <<account, opened, decided, tax, profile, call, behind>>
bank == <<opened, decided>>

NoRow == [status |-> "none", challenge |-> "none", keys |-> 0, minted |-> 0, token |-> 0,
          guess |-> "none", attempts |-> 0]
Idle == [at |-> "idle", account |-> NoAccount, key |-> 0, guess |-> "none", got |-> "none",
         tax |-> "unseen", changed |-> {}]

\* The rows of the profile and of the tax configuration, among those of the accounts.
ProfileRow == -1
TaxRow == -2

Init == /\ account = [a \in Accounts |-> NoRow]
        /\ opened = {} /\ decided = {}
        /\ tax = "pending"
        /\ profile = [ready |-> FALSE, primary |-> NoAccount]
        /\ call = [c \in Calls |-> Idle]
        /\ behind = FALSE

-----------------------------------------------------------------------------
With(status) == {a \in Accounts : account[a].status = status}
Pending(a) == account[a].status = "pending"

(* A commit ages the snapshots of the other calls: the rows each of them will lock *)
(* or write.                                                                    *)
Needs(d) == {ProfileRow, IF call[d].at = "tax" THEN TaxRow ELSE call[d].account}
Aged(d, rows) == IF call[d].tax = "unseen" THEN call[d]
                 ELSE [call[d] EXCEPT !.changed = @ \cup (rows \cap Needs(d))]
Touching(c, rows, next) == call' = [d \in Calls |-> IF d = c THEN next ELSE Aged(d, rows)]

(* The first statement of a transaction of two steps. *)
Begin(c, next) == call' = [call EXCEPT ![c] = [next EXCEPT !.tax = tax]]

(* syncProviderFinancialProfile; "Verification of an additional account never      *)
(* silently replaces the selected beneficiary".                                 *)
WriteProfile(c, verified, primary) ==
    /\ profile' = [ready |-> verified # {} /\ call[c].tax = "verified", primary |-> primary]
    /\ behind' = (behind \/ call[c].tax # tax)
Beneficiary(a) == IF profile.primary = NoAccount THEN a ELSE profile.primary

-----------------------------------------------------------------------------
(* createProviderPaymentAccount; a unique index allows one pending account.      *)
Create(a) == /\ account[a].status = "none"
             /\ \A b \in Accounts : b < a => account[b].status # "none"
             /\ With("pending") = {}
             /\ account' = [b \in Accounts |->
                   IF b = a THEN [NoRow EXCEPT !.status = "pending"]
                   ELSE IF account[b].status = "requires_attention"
                        THEN [account[b] EXCEPT !.status = "superseded"]
                        ELSE account[b]]
             /\ call' = [d \in Calls |-> Aged(d, {a} \cup With("requires_attention"))]
             /\ UNCHANGED <<bank, tax, profile, behind>>

(* A transaction that decides account a, or only rewrites its row. *)
Decide(c, row) ==
    LET a == call[c].account IN
    /\ a \notin call[c].changed
    /\ account' = [account EXCEPT ![a] = row]
    /\ IF row.status = "pending"
       THEN Touching(c, {a}, Idle) /\ UNCHANGED <<profile, behind>>
       ELSE LET verified == With("verified") \cup (IF row.status = "verified" THEN {a} ELSE {}) IN
            /\ ProfileRow \notin call[c].changed
            /\ WriteProfile(c, verified, IF row.status = "verified" THEN Beneficiary(a)
                                         ELSE profile.primary)
            /\ Touching(c, {a, ProfileRow}, Idle)

(* reviewProviderPaymentAccount *)
Start(c, a, what) == /\ call[c].at = "idle"
                     /\ account[a].status = IF what = "select" THEN "verified" ELSE "pending"
                     /\ Begin(c, [Idle EXCEPT !.at = what, !.account = a])
                     /\ UNCHANGED <<account, bank, tax, profile, behind>>

Review(c, verdict) == LET a == call[c].account IN
                      /\ call[c].at = verdict
                      /\ Pending(a)
                      /\ Decide(c, [account[a] EXCEPT !.status = verdict])
                      /\ UNCHANGED <<bank, tax>>

(* selectPrimaryProviderPaymentAccount *)
SelectPrimary(c) == /\ call[c].at = "select"
                    /\ account[call[c].account].status = "verified"
                    /\ call[c].changed = {}
                    /\ WriteProfile(c, With("verified"), call[c].account)
                    /\ Touching(c, {ProfileRow}, Idle)
                    /\ UNCHANGED <<account, bank, tax>>

-----------------------------------------------------------------------------
\* Mutant: as if every request made a key of its own.
RequestKeyAnew(row) == row.keys + 1
RequestKey(row) == IF row.challenge = "initiating" THEN row.keys ELSE row.keys + 1

(* initiatePaymentAccountMicroDeposit: "Reserves one challenge before contacting  *)
(* the bank; retries reuse its external idempotency key."                       *)
ReserveOpen(c, a) ==
    LET keys == RequestKey(account[a]) IN
    /\ call[c].at = "idle"
    /\ Pending(a)
    /\ account[a].challenge \notin {"initiated", "failed"}
    /\ account' = [account EXCEPT ![a].challenge = "initiating", ![a].keys = keys]
    /\ Touching(c, {a}, [Idle EXCEPT !.at = "open", !.account = a, !.key = keys])
    /\ UNCHANGED <<bank, tax, profile, behind>>

(* The bank opens a verification once per key; its answer may be lost. *)
AskOpen(c) ==
    /\ call[c].at = "open"
    /\ \/ /\ opened' = opened \cup {<<call[c].account, call[c].key>>}
          /\ \E got \in {"opened", "verified"} :
                Begin(c, [call[c] EXCEPT !.at = "settleOpen", !.got = got])
       \/ /\ opened' \in {opened, opened \cup {<<call[c].account, call[c].key>>}}
          /\ call' = [call EXCEPT ![c] = Idle]
    /\ UNCHANGED <<account, decided, tax, profile, behind>>

SettleOpen(c) ==
    LET a == call[c].account  row == account[a] IN
    /\ call[c].at = "settleOpen"
    /\ Pending(a) /\ row.keys = call[c].key
    /\ IF row.challenge = "initiated"
       THEN call' = [call EXCEPT ![c] = Idle] /\ UNCHANGED <<account, profile, behind>>
       ELSE Decide(c, IF call[c].got = "verified"
                      THEN [row EXCEPT !.status = "verified", !.challenge = "confirmed"]
                      ELSE [row EXCEPT !.challenge = "initiated"])
    /\ UNCHANGED <<bank, tax>>

(* confirmPaymentAccountMicroDeposit reserves an attempt: a confirmation that is   *)
(* under way may only be taken up again, after a minute, with the same guess.    *)
ReserveConfirm(c, a, guess) ==
    LET row == account[a]
        fresh == [row EXCEPT !.minted = @ + 1, !.token = row.minted + 1, !.guess = guess] IN
    /\ call[c].at = "idle"
    /\ Pending(a) /\ row.challenge = "initiated"
    /\ row.token # 0 => row.guess = guess
    /\ row.attempts < MaxAttempts
    /\ account' = [account EXCEPT ![a] = IF row.token # 0 THEN row ELSE fresh]
    /\ Touching(c, {a}, [Idle EXCEPT !.at = "confirm", !.account = a, !.guess = guess,
                                     !.key = IF row.token # 0 THEN row.token ELSE fresh.token])
    /\ UNCHANGED <<bank, tax, profile, behind>>

(* The bank judges a token once, and gives the same answer again; an error may    *)
(* stand for an answer that was lost.                                           *)
Judged(c) == decided \cup {<<call[c].account, call[c].key, call[c].guess = "right">>}
AskConfirm(c) ==
    /\ call[c].at = "confirm"
    /\ \/ decided' = Judged(c)
          /\ Begin(c, [call[c] EXCEPT !.at = "settleConfirm",
                                      !.got = IF call[c].guess = "right" THEN "ok" ELSE "mismatch"])
       \/ /\ decided' \in {decided, Judged(c)}
          /\ Begin(c, [call[c] EXCEPT !.at = "settleConfirm", !.got = "error"])
    /\ UNCHANGED <<account, opened, tax, profile, behind>>

(* What the row becomes; an error gives the attempt back but not the token. *)
\* Mutant: as if an error of the bank ended the confirmation.
SettlementEnding(row, got) ==
    LET counted == [row EXCEPT !.attempts = @ + 1, !.token = 0, !.guess = "none"] IN
    CASE got = "ok" -> [counted EXCEPT !.status = "verified", !.challenge = "confirmed"]
      [] got = "error" -> [row EXCEPT !.token = 0, !.guess = "none"]
      [] got = "mismatch" /\ counted.attempts < MaxAttempts -> counted
      [] OTHER -> [counted EXCEPT !.status = "requires_attention", !.challenge = "failed"]
Settlement(row, got) ==
    LET counted == [row EXCEPT !.attempts = @ + 1, !.token = 0, !.guess = "none"] IN
    CASE got = "ok" -> [counted EXCEPT !.status = "verified", !.challenge = "confirmed"]
      [] got = "error" -> row
      [] got = "mismatch" /\ counted.attempts < MaxAttempts -> counted
      [] OTHER -> [counted EXCEPT !.status = "requires_attention", !.challenge = "failed"]

SettleConfirm(c) == LET a == call[c].account IN
                    /\ call[c].at = "settleConfirm"
                    /\ Pending(a) /\ account[a].token = call[c].key
                    /\ Decide(c, Settlement(account[a], call[c].got))
                    /\ UNCHANGED <<bank, tax>>

(* A call is refused, fails on a changed row, or dies. *)
Abandon(c) == /\ call[c].at # "idle"
              /\ call' = [call EXCEPT ![c] = Idle]
              /\ behind' = (behind \/ call[c].at = "refresh")
              /\ UNCHANGED <<account, bank, tax, profile>>

-----------------------------------------------------------------------------
(* upsertProviderTaxConfiguration: the provider's save is committed, and then a    *)
(* transaction of its own computes the profile again                             *)
(* (refreshProviderBankingReadiness); an account verified since the snapshot of   *)
(* that one has changed the profile too.                                        *)
SaveTax(c) == /\ call[c].at = "idle"
              /\ tax' = "pending"
              /\ Touching(c, {TaxRow}, [Idle EXCEPT !.at = "refresh"])
              /\ UNCHANGED <<account, bank, profile, behind>>

SeeTax(c) == /\ call[c].at = "refresh" /\ call[c].tax = "unseen"
             /\ Begin(c, call[c])
             /\ UNCHANGED <<account, bank, tax, profile, behind>>

Refresh(c) == /\ call[c].at = "refresh" /\ call[c].tax # "unseen"
              /\ IF ProfileRow \in call[c].changed
                 THEN /\ behind' = TRUE
                      /\ call' = [call EXCEPT ![c] = Idle]
                      /\ UNCHANGED profile
                 ELSE /\ WriteProfile(c, With("verified"), profile.primary)
                      /\ Touching(c, IF profile.primary = NoAccount THEN {} ELSE {ProfileRow}, Idle)
              /\ UNCHANGED <<account, bank, tax>>

(* reviewProviderTaxConfiguration, in the transaction of the command or decision   *)
(* it belongs to: the status and the profile are written together, from a         *)
(* snapshot taken before either (here account is its beneficiary).  It fails on a  *)
(* configuration saved, or a profile written, since then; a first profile, which   *)
(* its snapshot does not show, it leaves as it is.                               *)
StartTaxReview(c) == /\ call[c].at = "idle"
                     /\ Begin(c, [Idle EXCEPT !.at = "tax", !.account = profile.primary])
                     /\ UNCHANGED <<account, bank, tax, profile, behind>>

ReviewTax(c, verdict) ==
    LET seen == call[c].account IN
    /\ call[c].at = "tax"
    /\ TaxRow \notin call[c].changed
    /\ ProfileRow \in call[c].changed => seen = NoAccount
    /\ tax' = verdict
    /\ IF profile.primary = seen
       THEN /\ profile' = [profile EXCEPT !.ready = With("verified") # {} /\ verdict = "verified"]
            /\ UNCHANGED behind
       ELSE behind' = TRUE /\ UNCHANGED profile
    /\ Touching(c, {TaxRow} \cup (IF seen = NoAccount THEN {} ELSE {ProfileRow}), Idle)
    /\ UNCHANGED <<account, bank>>

Next == \/ \E a \in Accounts : Create(a)
        \/ \E c \in Calls :
              \/ SelectPrimary(c) \/ SaveTax(c) \/ SeeTax(c) \/ Refresh(c)
              \/ StartTaxReview(c) \/ Abandon(c)
              \/ AskOpen(c) \/ SettleOpen(c) \/ AskConfirm(c) \/ SettleConfirm(c)
              \/ \E verdict \in {"verified", "requires_attention"} : Review(c, verdict)
              \/ \E verdict \in {"verified", "pending"} : ReviewTax(c, verdict)
        \/ \E c \in Calls, a \in Accounts :
              \/ ReserveOpen(c, a)
              \/ \E guess \in {"right", "wrong"} : ReserveConfirm(c, a, guess)
              \/ \E what \in {"verified", "requires_attention", "select"} : Start(c, a, what)

Spec == Init /\ [][Next]_vars

-----------------------------------------------------------------------------
Statuses == {"none", "pending", "verified", "requires_attention", "superseded"}
Challenges == {"none", "initiating", "initiated", "confirmed", "failed"}

TypeOK == /\ account \in [Accounts -> [status : Statuses, challenge : Challenges, keys : 0 .. 1,
                 minted : 0 .. MaxAttempts, token : 0 .. MaxAttempts,
                 guess : {"none", "right", "wrong"}, attempts : 0 .. MaxAttempts]]
          /\ opened \subseteq Accounts \X {1}
          /\ decided \subseteq Accounts \X (1 .. MaxAttempts) \X BOOLEAN
          /\ tax \in {"verified", "pending"}
          /\ profile \in [ready : BOOLEAN, primary : Accounts \cup {NoAccount}]
          /\ \A c \in Calls :
                /\ call[c].at \in {"idle", "open", "settleOpen", "confirm", "settleConfirm", "verified",
                                "requires_attention", "select", "refresh", "tax"}
                /\ call[c].account \in Accounts \cup {NoAccount}
          /\ behind \in BOOLEAN

JudgedOf(a) == {t \in 1 .. MaxAttempts + 1 : \E right \in BOOLEAN : <<a, t, right>> \in decided}

(* The bank is never given more guesses about an account than it may have, though  *)
(* confirmations overlap, die between the bank and the settlement, and are taken   *)
(* up again; and an error of the bank counts for no attempt.                     *)
GuessesBounded == \A a \in Accounts : /\ Cardinality(JudgedOf(a)) <= MaxAttempts
                                      /\ account[a].attempts <= Cardinality(JudgedOf(a))

(* The bank opens one verification of an account, whatever is retried. *)
OneVerification == \A a \in Accounts : Cardinality({k \in opened : k[1] = a}) <= 1

(* An acceptance of the bank whose answer is lost is not lost: while the account   *)
(* is undecided it keeps the token and the guess, with which the same            *)
(* confirmation may be asked for again.  (The code lets that happen until the     *)
(* challenge expires, seven days after its reservation; the clock is not here.)   *)
AcceptanceRecoverable ==
    \A a \in Accounts, t \in 1 .. MaxAttempts :
        (Pending(a) /\ <<a, t, TRUE>> \in decided) => account[a].token = t /\ account[a].guess = "right"

(* The beneficiary is a verified account, and one verified account is enough for  *)
(* one; with no recomputation under way, lost or made from an old snapshot        *)
(* (behind), the profile is ready exactly when an account and the tax             *)
(* configuration are both verified.                                             *)
ProfileSound ==
    /\ profile.primary # NoAccount => profile.primary \in With("verified")
    /\ profile.primary = NoAccount => With("verified") = {} /\ ~profile.ready
    /\ (~behind /\ \A c \in Calls : call[c].at # "refresh")
          => (profile.ready <=> tax = "verified" /\ With("verified") # {})

AccountsSound == GuessesBounded /\ OneVerification /\ AcceptanceRecoverable /\ ProfileSound
=============================================================================
