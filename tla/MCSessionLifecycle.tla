-------------------------- MODULE MCSessionLifecycle --------------------------
(***************************************************************************)
(* TLC instances of SessionLifecycle.                                      *)
(***************************************************************************)
EXTENDS SessionLifecycle, TLC

CONSTANTS t1, t2, c1, c2

Clients == Permutations({c1, c2})

=============================================================================
