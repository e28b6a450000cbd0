-------------------------- MODULE MCValidationStore --------------------------
(* Model values for the constants of ValidationStore. *)
EXTENDS ValidationStore

CONSTANTS w1, w2, u1, u2, c1, n1, n2

OneEach == [u \in Uids |-> IF u = u1 THEN n1 ELSE n2]
=============================================================================
