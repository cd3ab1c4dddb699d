-------------------------- MODULE MCBridgeEvidence --------------------------
(* One request with two accounts, two calls and two billing requests of the  *)
(* Core; calls and billing requests are alike.                               *)
EXTENDS BridgeEvidence, TLC

CONSTANTS r1, a1, a2, k1, c1, c2, f1, f2, t1, t2

MCSymmetry == Permutations({a1, a2}) \cup Permutations({c1, c2})
              \cup Permutations({f1, f2})
=============================================================================
