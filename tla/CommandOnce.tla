----------------------------- MODULE CommandOnce -----------------------------
(* What an atomic sensitive command promises to the callers that share an      *)
(* idempotency key: while the key is remembered one of them takes effect, and   *)
(* everyone who is answered is given the response of that one.                  *)
EXTENDS FiniteSets

CONSTANTS Requests,    \* the calls that carry the key
          NoRequest    \* not a request: nothing remembered, nothing answered

VARIABLES done,        \* the call remembered as executed, or NoRequest
          effects,     \* the calls whose effect was committed, at any time
          response     \* per call, the call whose response it was given

vars == <<done, effects, response>>

Init == /\ done = NoRequest
        /\ effects = {}
        /\ response = [r \in Requests |-> NoRequest]

(* A call takes effect; its caller may lose the answer. *)
Take(r) == /\ done = NoRequest
           /\ r \notin effects
           /\ done' = r
           /\ effects' = effects \cup {r}
           /\ response' \in {response, [response EXCEPT ![r] = r]}

(* A caller is given the remembered response. *)
Replay(r) == /\ done # NoRequest
             /\ response[r] = NoRequest
             /\ response' = [response EXCEPT ![r] = done]
             /\ UNCHANGED <<done, effects>>

(* The key is forgotten. *)
Forget == /\ done # NoRequest
          /\ done' = NoRequest
          /\ UNCHANGED <<effects, response>>

Next == Forget \/ \E r \in Requests : Take(r) \/ Replay(r)

Spec == Init /\ [][Next]_vars
=============================================================================
