------------------------------ MODULE Connections ------------------------------
(* The connections of a provider with the channel manager: a row with its status  *)
(* and one credential in the vault, written by requests and by jobs of the        *)
(* scheduler that ask the remote system between reading and writing, and that     *)
(* write by id only.  The vendor is one with an API of its own (Channex,          *)
(* Cloudbeds); the token of an OAuth credential may be due for a refresh whenever  *)
(* it is read.                                                                  *)
EXTENDS Integers, FiniteSets

CONSTANTS Connections, NoConnection,
          Calls,        \* requests and jobs under way
          MaxSecrets    \* bound: secrets ever put into the vault

ConstantsOK == MaxSecrets \in Nat /\ NoConnection \notin Connections

Secrets == 1 .. MaxSecrets
NoSecret == 0

VARIABLES row,        \* ProviderIntegrationConnection: [status, isPrimary, attention]
          vault,      \* ProviderIntegrationCredential: [secret, oauth, live]
          issued,     \* the secrets handed out so far
          accepted,   \* the secrets that the remote system has accepted
          call,       \* what each call does next, and what it has read
          overtaken   \* history: connections written by a call that another one overtook

vars == <<row, vault, issued, accepted, call, overtaken>>

Statuses == {"absent", "pending", "requires_attention", "connected", "error", "revoked"}
\* attention: lastSyncStatus is one of the partial or failed ARI results.
NoRow == [status |-> "absent", isPrimary |-> FALSE, attention |-> FALSE]
NoCredential == [secret |-> NoSecret, oauth |-> FALSE, live |-> FALSE]

(* What a call has read: secret is what it asks the remote system with, attention  *)
(* that of the row, keeps that the row needs attention (a test) or has a credential *)
(* (a connect), first that there was no connection, and heirs the connections that *)
(* may be primary after a revocation.  stale says that it has been overtaken.     *)
Idle == [kind |-> "none", at |-> "idle", of |-> NoConnection, secret |-> NoSecret,
         attention |-> FALSE, keeps |-> FALSE, first |-> FALSE, heirs |-> {}, stale |-> FALSE]

Init == /\ row = [c \in Connections |-> NoRow]
        /\ vault = [c \in Connections |-> NoCredential]
        /\ issued = 0
        /\ accepted = {}
        /\ call = [p \in Calls |-> Idle]
        /\ overtaken = {}

Existing == {c \in Connections : row[c].status # "absent"}
Revoked == {c \in Connections : row[c].status = "revoked"}
Primaries == {c \in Connections : row[c].isPrimary}
Live(c) == vault[c].live

(* The calls that p overtakes when it writes connection c: those that have read it *)
(* and have still to write.                                                     *)
Overtake(p, c, kinds, next) ==
    call' = [q \in Calls |->
                IF q = p THEN next
                ELSE IF call[q].of = c /\ call[q].kind \in kinds
                     THEN [call[q] EXCEPT !.stale = TRUE] ELSE call[q]]
Kinds == {"connect", "revoke", "primary", "test", "sync", "activate"}

(* A call that was overtaken writes all the same. *)
Written(p, c) == overtaken' = IF call[p].stale THEN overtaken \cup {c} ELSE overtaken

-----------------------------------------------------------------------------
(* connectProviderIntegration reads the rows, writes the row and then the vault. *)
StartConnecting(p, c) ==
    /\ call[p].at = "idle"
    /\ row[c].status = "absent" => \A q \in Calls : call[q].of # c
    /\ call' = [call EXCEPT ![p] = [Idle EXCEPT !.kind = "connect", !.at = "row", !.of = c,
                                                !.attention = row[c].attention,
                                                !.keeps = Live(c), !.first = Existing = {}]]
    /\ UNCHANGED <<row, vault, issued, accepted, overtaken>>

(* With a new secret or without; an endpoint is material as well, and the status  *)
(* never more than pending.  A second primary is refused by the unique index.     *)
ConnectRow(p) ==
    /\ call[p].kind = "connect" /\ call[p].at = "row"
    /\ \E secret \in BOOLEAN, endpoint \in BOOLEAN :
          LET c == call[p].of
              first == call[p].first
              status == IF secret \/ endpoint \/ call[p].keeps
                        THEN "pending" ELSE "requires_attention"
          IN /\ secret => issued < MaxSecrets
             /\ IF first /\ Primaries # {}
                THEN /\ call' = [call EXCEPT ![p] = Idle]
                     /\ UNCHANGED <<row, overtaken>>
                ELSE /\ row' = [row EXCEPT ![c] = [status |-> status,
                                                   isPrimary |-> row[c].isPrimary \/ first,
                                                   attention |-> call[p].attention]]
                     /\ Overtake(p, c, Kinds,
                                 IF secret THEN [call[p] EXCEPT !.at = "vault"] ELSE Idle)
                     /\ Written(p, c)
    /\ UNCHANGED <<vault, issued, accepted>>

(* upsertProviderIntegrationOAuthCredential, upsertProviderIntegrationOpaqueCredential *)
Store(c, oauth) == /\ issued < MaxSecrets
                   /\ issued' = issued + 1
                   /\ vault' = [vault EXCEPT ![c] = [secret |-> issued + 1, oauth |-> oauth,
                                                     live |-> TRUE]]

ConnectVault(p) ==
    /\ call[p].kind = "connect" /\ call[p].at = "vault"
    /\ \E oauth \in BOOLEAN : Store(call[p].of, oauth)
    /\ Overtake(p, call[p].of, Kinds, Idle)
    /\ Written(p, call[p].of)
    /\ UNCHANGED <<row, accepted>>

-----------------------------------------------------------------------------
(* revokeProviderIntegration picks the next primary from the rows it has read,    *)
(* and writes everything in one transaction.                                    *)
StartRevoking(p, c) ==
    /\ call[p].at = "idle"
    /\ c \in Existing
    /\ call' = [call EXCEPT ![p] = [Idle EXCEPT !.kind = "revoke", !.at = "write", !.of = c,
                                                !.heirs = IF row[c].isPrimary
                                                          THEN Existing \ ({c} \cup Revoked)
                                                          ELSE {}]]
    /\ UNCHANGED <<row, vault, issued, accepted, overtaken>>

Revoke(p) ==
    /\ call[p].kind = "revoke"
    /\ LET c == call[p].of
           heirs == call[p].heirs
       IN \E heir \in IF heirs = {} THEN {NoConnection} ELSE heirs :
          IF heir # NoConnection /\ Primaries \ {c, heir} # {}
          THEN /\ call' = [call EXCEPT ![p] = Idle]    \* unique index: rolled back
               /\ UNCHANGED <<row, vault, overtaken>>
          ELSE /\ row' = [d \in Connections |->
                             IF d = c THEN [row[c] EXCEPT !.status = "revoked",
                                                          !.isPrimary = FALSE]
                             ELSE IF d = heir THEN [row[d] EXCEPT !.isPrimary = TRUE]
                             ELSE row[d]]
               /\ vault' = [vault EXCEPT ![c].live = FALSE]
               /\ Overtake(p, c, Kinds, Idle)
               /\ overtaken' = (overtaken \ {c}) \cup ({heir} \cap Revoked)
    /\ UNCHANGED <<issued, accepted>>

(* setPrimaryProviderIntegrationConnection *)
StartPrimary(p, c) ==
    /\ call[p].at = "idle"
    /\ row[c].status \notin {"absent", "revoked"}
    /\ call' = [call EXCEPT ![p] = [Idle EXCEPT !.kind = "primary", !.at = "write", !.of = c]]
    /\ UNCHANGED <<row, vault, issued, accepted, overtaken>>

SetPrimary(p) ==
    /\ call[p].kind = "primary"
    /\ row' = [d \in Connections |-> [row[d] EXCEPT !.isPrimary = (d = call[p].of)]]
    /\ call' = [call EXCEPT ![p] = Idle]
    /\ Written(p, call[p].of)
    /\ UNCHANGED <<vault, issued, accepted>>

-----------------------------------------------------------------------------
(* A connection test (syncProviderIntegration), an ARI sync, the activation of     *)
(* production, or a mere reading of the remote catalog.  All but the test want a    *)
(* connection that is not revoked.                                              *)
StartUsing(p, c, kind) ==
    /\ call[p].at = "idle"
    /\ c \in Existing
    /\ kind = "test" \/ row[c].status # "revoked"
    /\ call' = [call EXCEPT ![p] = [Idle EXCEPT !.kind = kind, !.at = "credential", !.of = c,
                              !.attention = kind = "test" /\ row[c].attention,
                              !.keeps = kind = "test" /\ row[c].attention
                                        /\ row[c].status = "requires_attention"]]
    /\ UNCHANGED <<row, vault, issued, accepted, overtaken>>

Uses == {"test", "sync", "activate"}
GoOn(p, at, secret) == call' = [call EXCEPT ![p].at = at, ![p].secret = secret]

\* Mutant: as if revokedAt were not looked at.
ReadAnyCredential(p) ==
    /\ call[p].at = "credential"
    /\ LET c == call[p].of
       IN \/ GoOn(p, "ask", vault[c].secret)
          \/ vault[c].oauth /\ GoOn(p, "refresh", NoSecret)
    /\ UNCHANGED <<row, vault, issued, accepted, overtaken>>

(* ensureProviderIntegrationCredentialFresh: a credential that is revoked gives no  *)
(* secret, a token about to expire is renewed.                                   *)
ReadCredential(p) ==
    /\ call[p].at = "credential"
    /\ LET c == call[p].of
       IN \/ ~Live(c) /\ GoOn(p, "ask", NoSecret)
          \/ Live(c) /\ GoOn(p, "ask", vault[c].secret)
          \/ Live(c) /\ vault[c].oauth /\ GoOn(p, "refresh", NoSecret)
    /\ UNCHANGED <<row, vault, issued, accepted, overtaken>>

(* The OAuth server gives a new token, which goes to the vault, or refuses. *)
Refresh(p) ==
    /\ call[p].at = "refresh"
    /\ \/ /\ Store(call[p].of, TRUE)
          /\ accepted' = accepted \cup {issued + 1}
          /\ GoOn(p, "ask", issued + 1)
          /\ Written(p, call[p].of)
       \/ /\ GoOn(p, "ask", NoSecret)
          /\ UNCHANGED <<vault, issued, accepted, overtaken>>
    /\ UNCHANGED row

(* The remote system answers and the row is written by id. *)
Outcome(p, status, attention) ==
    LET c == call[p].of
    IN /\ row' = [row EXCEPT ![c].status = status, ![c].attention = attention]
       /\ Overtake(p, c, {"connect"}, Idle)
       /\ Written(p, c)

Accepted(p) == /\ call[p].secret # NoSecret
               /\ accepted' = accepted \cup {call[p].secret}

Tested(p) ==
    /\ call[p].kind = "test" /\ call[p].at = "ask"
    /\ \/ /\ Accepted(p)
          /\ Outcome(p, IF call[p].keeps THEN "requires_attention" ELSE "connected",
                     call[p].attention)
       \/ /\ Outcome(p, "error", FALSE)
          /\ UNCHANGED accepted
    /\ UNCHANGED <<vault, issued>>

\* A sync that is rate limited, or has no credential, writes nothing.
Synced(p) ==
    /\ call[p].kind = "sync" /\ call[p].at = "ask" /\ call[p].secret # NoSecret
    /\ \/ Accepted(p) /\ Outcome(p, "connected", FALSE)
       \/ Outcome(p, "requires_attention", TRUE) /\ UNCHANGED accepted
    /\ UNCHANGED <<vault, issued>>

Activated(p) ==
    /\ call[p].kind = "activate" /\ call[p].at = "ask"
    /\ Accepted(p)
    /\ Outcome(p, "connected", FALSE)
    /\ UNCHANGED <<vault, issued>>

(* A call that fails, or whose process dies, leaves what it has written. *)
Stop(p) == /\ call[p].at # "idle"
           /\ call' = [call EXCEPT ![p] = Idle]
           /\ UNCHANGED <<row, vault, issued, accepted, overtaken>>

-----------------------------------------------------------------------------
Next == \E p \in Calls :
           \/ \E c \in Connections : \/ StartConnecting(p, c) \/ StartRevoking(p, c)
                                     \/ StartPrimary(p, c)
                                     \/ \E kind \in Uses : StartUsing(p, c, kind)
           \/ ConnectRow(p) \/ ConnectVault(p) \/ Revoke(p) \/ SetPrimary(p)
           \/ ReadCredential(p) \/ Refresh(p)
           \/ Tested(p) \/ Synced(p) \/ Activated(p) \/ Stop(p)

Spec == Init /\ [][Next]_vars

-----------------------------------------------------------------------------
TypeOK == /\ row \in [Connections -> [status : Statuses, isPrimary : BOOLEAN,
                                      attention : BOOLEAN]]
          /\ vault \in [Connections -> [secret : Secrets \cup {NoSecret}, oauth : BOOLEAN,
                                        live : BOOLEAN]]
          /\ issued \in 0 .. MaxSecrets
          /\ accepted \subseteq Secrets
          /\ call \in [Calls -> [kind : Kinds \cup {"none"},
                                 at : {"idle", "row", "vault", "write", "credential",
                                       "refresh", "ask"},
                                 of : Connections \cup {NoConnection},
                                 secret : Secrets \cup {NoSecret}, attention : BOOLEAN,
                                 keeps : BOOLEAN, first : BOOLEAN,
                                 heirs : SUBSET Connections, stale : BOOLEAN]]
          /\ overtaken \subseteq Connections

(* Unless a call has written a connection over what another one did meanwhile: a   *)
(* connection is connected only with a live credential that the remote system has *)
(* accepted ("Credentials alone never mean connected"); a revoked one has no live *)
(* credential until it is connected again, whatever tests, syncs and refreshes    *)
(* come after, and is not the primary one; and no two are primary.               *)
ConnectionSound ==
    /\ Cardinality(Primaries) <= 1
    /\ \A c \in Connections \ overtaken :
          /\ row[c].status = "connected" => Live(c) /\ vault[c].secret \in accepted
          /\ row[c].status = "revoked" => ~Live(c) /\ ~row[c].isPrimary
=============================================================================
