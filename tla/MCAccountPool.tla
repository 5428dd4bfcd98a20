--------------------------- MODULE MCAccountPool ---------------------------
(* Small instances of AccountPool: two accounts, two requests. *)
EXTENDS AccountPool, TLC

CONSTANTS r1, r2

W(used, reset) == [used |-> used, resetAt |-> reset]
Report(limitReached, windows) == [limitReached |-> limitReached, windows |-> windows]

\* One client per session (a session is named after its client), and two clients
\* of one session.
OwnSession == [r \in {r1, r2} |-> r]
SharedSession == [r \in {r1, r2} |-> "session"]

Swap == Permutations({r1, r2})

\* A window used up, until past the clock or until within it.
FullReport == {Report(TRUE, <<W(100, 2)>>)}
EndingReport == {Report(TRUE, <<W(100, 1)>>)}
\* Header windows: one nearly used and one used up.
FullHeaders == {<<W(99, 2), W(100, 2)>>}
=============================================================================
