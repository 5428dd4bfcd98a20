---------------------------- MODULE MCProxyToken ----------------------------
(* Three runs of loadOrCreateProxyToken, one loss of power. *)
EXTENDS ProxyToken, TLC

CONSTANTS a, b, c
AnyOrder == Permutations({a, b, c})
=============================================================================
