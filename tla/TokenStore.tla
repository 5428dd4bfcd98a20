----------------------------- MODULE TokenStore -----------------------------
(***************************************************************************)
(* What proxy/bin/proxy-auth.js promises of the managed bearer: one value, *)
(* set once, which every run that loads it is given.  A loss of power ends *)
(* all runs, and may forget a value.                                       *)
(***************************************************************************)
CONSTANTS Runs, Tokens, NoToken

VARIABLES value, answer

Init == value = NoToken /\ answer = [r \in Runs |-> NoToken]

Establish ==
  /\ value = NoToken
  /\ value' \in Tokens
  /\ UNCHANGED answer

Give(r) ==
  /\ value # NoToken
  /\ answer[r] = NoToken
  /\ answer' = [answer EXCEPT ![r] = value]
  /\ UNCHANGED value

LosePower ==
  /\ value' \in {value, NoToken}
  /\ answer' = [r \in Runs |-> NoToken]

Next == Establish \/ (\E r \in Runs : Give(r)) \/ LosePower
Spec == Init /\ [][Next]_<<value, answer>>
=============================================================================
