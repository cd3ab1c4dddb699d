----------------------------- MODULE MCCoreQuota -----------------------------
(* A small instance of CoreQuota: one key of one user, two requests. *)
EXTENDS CoreQuota, TLC

CONSTANTS k1, u1, r1, r2

MCUserOf1 == k1 :> u1

\* Two requests on one key, of different amounts.
MCKeyOf2 == (r1 :> k1) @@ (r2 :> k1)
MCAmount2 == (r1 :> 1) @@ (r2 :> 2)
=============================================================================
