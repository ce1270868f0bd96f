-------------------------- MODULE ProviderDocuments --------------------------
(* Documents a provider submits, some as replacements of earlier ones, and the   *)
(* internal reviews that verify or reject them, each in a transaction on a       *)
(* snapshot (REPEATABLE READ).  The inspection of a document is the interface    *)
(* of DocumentProcessing: clear is the set that documentInspectionGate lets      *)
(* through, and workers change it at any moment.                                *)
EXTENDS FiniteSets

CONSTANTS Documents,   \* ids, used or not
          Actors,      \* requests of the provider and of reviewers
          NoDocument

ConstantsOK == NoDocument \notin Documents

VARIABLES status,      \* of each document, "none" before it is registered
          replaces,    \* the document each one replaces, or NoDocument
          clear,       \* documents whose inspection lets them through
          act,         \* per actor: its step, its document and what it has read
          raced        \* documents out of force, two replacements of which were being
                       \* reviewed when one was verified

vars == <<status, replaces, clear, act, raced>>

Idle == [at |-> "idle", doc |-> NoDocument, target |-> NoDocument, keep |-> FALSE,
         verdict |-> "none", snapshot |-> {}, stale |-> FALSE]

Init == /\ status = [d \in Documents |-> "none"]
        /\ replaces = [d \in Documents |-> NoDocument]
        /\ clear = {}
        /\ act = [a \in Actors |-> Idle]
        /\ raced = {}

-----------------------------------------------------------------------------
With(s) == {d \in Documents : status[d] = s}
Stored(d) == status[d] # "none"
BeingSubmitted(d) == \E a \in Actors : act[a].at = "register" /\ act[a].doc = d
Deciding(a, t) == t # NoDocument /\ act[a].at = "decide" /\ replaces[act[a].doc] = t

\* The actor ends; reviews whose snapshot holds an older row of t can no longer lock it.
Commit(a, t) ==
    act' = [b \in Actors |-> IF b = a THEN Idle
                             ELSE [act[b] EXCEPT !.stale = @ \/ Deciding(b, t)]]

(* submitProviderDocument reads the document to be replaced, then uploads the    *)
(* file: whether the old one is kept until the review is decided here.          *)
Submit(a, d, t) ==
    /\ act[a].at = "idle"
    /\ ~Stored(d) /\ ~BeingSubmitted(d)
    /\ t # NoDocument => Stored(t) /\ status[t] # "superseded"
    /\ act' = [act EXCEPT ![a] = [Idle EXCEPT !.at = "register", !.doc = d, !.target = t,
                                    !.keep = (t = NoDocument \/ status[t] = "verified")]]
    /\ UNCHANGED <<status, replaces, clear, raced>>

(* The registration supersedes by id; it is retried until it is confirmed. *)
Register(a) ==
    LET d == act[a].doc  t == act[a].target IN
    /\ act[a].at = "register"
    /\ status' = [e \in Documents |->
                     IF e = d THEN "pending"
                     ELSE IF e = t /\ ~act[a].keep THEN "superseded" ELSE status[e]]
    /\ replaces' = [replaces EXCEPT ![d] = t]
    /\ Commit(a, IF act[a].keep THEN NoDocument ELSE t)
    /\ UNCHANGED <<clear, raced>>

GiveUp(a) == /\ act[a].at # "idle"
             /\ act' = [act EXCEPT ![a] = Idle]
             /\ UNCHANGED <<status, replaces, clear, raced>>

-----------------------------------------------------------------------------
(* reviewProviderDocument, before its transaction. *)
Review(a, d, verdict) ==
    /\ act[a].at = "idle"
    /\ status[d] = "pending"
    /\ verdict = "verified" => d \in clear
    /\ act' = [act EXCEPT ![a] = [Idle EXCEPT !.at = "review", !.doc = d, !.verdict = verdict]]
    /\ UNCHANGED <<status, replaces, clear, raced>>

(* The transaction takes its snapshot with its first statement. *)
Begin(a) == /\ act[a].at = "review"
            /\ act' = [act EXCEPT ![a].at = "decide", ![a].snapshot = With("verified")]
            /\ UNCHANGED <<status, replaces, clear, raced>>

Siblings(d) == {e \in Documents \ {d} : replaces[e] = replaces[d]}

(* The rest of it: the inspection is locked and the gate asked again; a document *)
(* that replaces another locks that one, which fails when its row was written     *)
(* after the snapshot, and looks for a verified sibling in the snapshot.          *)
\* Mutant: as if the transaction ran on READ COMMITTED and the check came before it.
PermittedUnserialized(a) == act[a].doc \in clear
Permitted(a) == LET d == act[a].doc IN
                /\ d \in clear
                /\ replaces[d] # NoDocument =>
                      ~act[a].stale /\ Siblings(d) \cap act[a].snapshot = {}

Decide(a) ==
    LET d == act[a].doc
        t == replaces[d]
        verifies == act[a].verdict = "verified"
        supersedes == verifies /\ t \in act[a].snapshot IN
    /\ act[a].at = "decide"
    /\ status[d] = "pending"
    /\ verifies => Permitted(a)
    /\ status' = [e \in Documents |-> IF e = d THEN act[a].verdict
                                      ELSE IF e = t /\ supersedes THEN "superseded" ELSE status[e]]
    /\ Commit(a, IF supersedes THEN t ELSE NoDocument)
    /\ raced' = IF /\ verifies /\ ~supersedes
                   /\ \E b \in Actors \ {a} : Deciding(b, t)
                THEN raced \cup {t} ELSE raced
    /\ UNCHANGED <<replaces, clear>>

(* DocumentProcessing writes a verdict. *)
Inspect(d) == /\ Stored(d)
              /\ clear' = IF d \in clear THEN clear \ {d} ELSE clear \cup {d}
              /\ \A a \in Actors : act[a].at # "decide" \/ act[a].doc # d
              /\ UNCHANGED <<status, replaces, act, raced>>

Next == \/ \E a \in Actors : Register(a) \/ GiveUp(a) \/ Begin(a) \/ Decide(a)
        \/ \E a \in Actors, d \in Documents, t \in Documents \cup {NoDocument} : Submit(a, d, t)
        \/ \E a \in Actors, d \in Documents, verdict \in {"verified", "rejected"} :
              Review(a, d, verdict)
        \/ \E d \in Documents : Inspect(d)

Spec == Init /\ [][Next]_vars

-----------------------------------------------------------------------------
Statuses == {"none", "pending", "verified", "rejected", "superseded"}

TypeOK == /\ status \in [Documents -> Statuses]
          /\ replaces \in [Documents -> Documents \cup {NoDocument}]
          /\ clear \subseteq Documents
          /\ act \in [Actors -> [at : {"idle", "register", "review", "decide"},
                                 doc : Documents \cup {NoDocument},
                                 target : Documents \cup {NoDocument}, keep : BOOLEAN,
                                 verdict : {"none", "verified", "rejected"},
                                 snapshot : SUBSET Documents, stale : BOOLEAN]]
         /\ raced \subseteq Documents

(* A document and its replacement are never both in force, nor are two            *)
(* replacements of one document, however submissions and reviews interleave: the  *)
(* reviews meet at the row of the replaced document when it is still in force.    *)
(* When it is not, nothing is written to that row, and two reviews of the same    *)
(* moment do not notice each other: those documents are in raced.                *)
ReplacedNotInForce ==
    \A d \in With("verified") : replaces[d] # NoDocument =>
        /\ status[replaces[d]] # "verified"
        /\ replaces[d] \in raced \/ Siblings(d) \cap With("verified") = {}
=============================================================================
