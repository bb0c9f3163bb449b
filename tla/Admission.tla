----------------------------- MODULE Admission ------------------------------
(***************************************************************************)
(* What the control plane promises to the host pipeline, with no services, *)
(* calls or crashes: a request is judged once, only a request judged 1 is  *)
(* registered, the registration is for ever, and the answer a client reads *)
(* tells the truth about it.                                               *)
(*                                                                         *)
(*   "admitted"  the request is registered;                                *)
(*   "refused"   the request was judged 0 and will never be registered;    *)
(*   "unknown"   an error: the request may be registered, now or later.    *)
(*                                                                         *)
(* The third answer is the price of failing closed over a network: the     *)
(* 503 of the gate does not say that nothing was recorded.                 *)
(***************************************************************************)
CONSTANT Requests

VARIABLES
  judged,       \* [Requests -> {"no", "psi0", "psi1"}]
  registered,   \* the set of requests with a record in the ledger
  reply         \* [Requests -> Replies]

vars == <<judged, registered, reply>>

Replies == {"none", "admitted", "refused", "unknown"}

Init ==
  /\ judged = [r \in Requests |-> "no"]
  /\ registered = {}
  /\ reply = [r \in Requests |-> "none"]

Judge(r, psi) ==
  /\ judged[r] = "no"
  /\ reply[r] = "none"
  /\ judged' = [judged EXCEPT ![r] = psi]
  /\ UNCHANGED <<registered, reply>>

\* Registering does not wait for the answer: a record may arrive after the
\* client has been told "unknown".
Register(r) ==
  /\ judged[r] = "psi1"
  /\ registered' = registered \cup {r}
  /\ UNCHANGED <<judged, reply>>

Answer(r, a) ==
  /\ reply[r] = "none"
  /\ \/ a = "admitted" /\ r \in registered
     \/ a = "refused"  /\ judged[r] = "psi0"
  /\ reply' = [reply EXCEPT ![r] = a]
  /\ UNCHANGED <<judged, registered>>

\* A fault leaves any set of unanswered clients without a verdict at once.
Abandon(lost) ==
  /\ \A r \in lost : reply[r] = "none"
  /\ reply' = [r \in Requests |-> IF r \in lost THEN "unknown" ELSE reply[r]]
  /\ UNCHANGED <<judged, registered>>

Next ==
  \/ \E r \in Requests, psi \in {"psi0", "psi1"} : Judge(r, psi)
  \/ \E r \in Requests : Register(r)
  \/ \E r \in Requests, a \in {"admitted", "refused"} : Answer(r, a)
  \/ \E lost \in SUBSET Requests : Abandon(lost)

Spec == Init /\ [][Next]_vars

=============================================================================
