--------------------------- MODULE RequestRouting ---------------------------
(***************************************************************************)
(* What the proxy promises a client about the routing of one request, with *)
(* no clock, usage report or session: accounts are tried one at a time and *)
(* never twice, and the request is refused for lack of accounts only when  *)
(* each account was tried or was seen blocked while it was being chosen.   *)
(***************************************************************************)
CONSTANTS Accounts, Requests

VARIABLES
  phase,     \* per request: idle, choosing, upstream, refused
  attempts,  \* accounts the request was sent to
  blocked    \* accounts seen blocked during the current choice

vars == <<phase, attempts, blocked>>

Init ==
  /\ phase = [r \in Requests |-> "idle"]
  /\ attempts = [r \in Requests |-> {}]
  /\ blocked = [r \in Requests |-> {}]

\* Every step may show more accounts to be blocked to every request that chooses.
Sees(r, seen) ==
  IF phase'[r] \in {"choosing", "refused"} THEN seen \subseteq blocked'[r] ELSE blocked'[r] = {}

Others(r) ==
  \A q \in Requests \ {r} :
    /\ phase'[q] = phase[q] /\ attempts'[q] = attempts[q] /\ Sees(q, blocked[q])

Start(r) ==
  /\ phase[r] = "idle" /\ phase'[r] = "choosing"
  /\ attempts'[r] = attempts[r]
  /\ Sees(r, {}) /\ Others(r)

\* The chosen account is one the request has not been sent to.
Send(r) ==
  /\ phase[r] = "choosing" /\ phase'[r] = "upstream"
  /\ \E a \in Accounts \ attempts[r] : attempts'[r] = attempts[r] \cup {a}
  /\ Sees(r, {}) /\ Others(r)

\* A limit on that account: choose again.
Retry(r) ==
  /\ phase[r] = "upstream" /\ phase'[r] = "choosing"
  /\ attempts'[r] = attempts[r]
  /\ Sees(r, {}) /\ Others(r)

Refuse(r) ==
  /\ phase[r] = "choosing" /\ phase'[r] = "refused"
  /\ attempts'[r] = attempts[r]
  /\ Sees(r, blocked[r]) /\ Others(r)
  /\ Accounts \subseteq attempts[r] \cup blocked'[r]

\* Answered: after a refusal, by the upstream's reply or failure, or because no
\* login works.
Reply(r) ==
  /\ phase[r] \in {"choosing", "upstream", "refused"} /\ phase'[r] = "idle"
  /\ attempts'[r] = {}
  /\ Sees(r, {}) /\ Others(r)

Observe ==
  /\ UNCHANGED <<phase, attempts>>
  /\ \A r \in Requests : Sees(r, blocked[r])

Next == Observe \/ \E r \in Requests : Start(r) \/ Send(r) \/ Retry(r) \/ Refuse(r) \/ Reply(r)
Spec == Init /\ [][Next]_vars
=============================================================================
