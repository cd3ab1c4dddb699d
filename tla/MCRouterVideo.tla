---------------------------- MODULE MCRouterVideo ----------------------------
(* A small instance of RouterVideo: two users who send one Idempotency-Key. *)
EXTENDS RouterVideo, TLC
CONSTANTS k1, k2, u1, u2, r1, r2, reconciler
MCUserOf == (k1 :> u1) @@ (k2 :> u2)
MCKeyOf == (r1 :> k1) @@ (r2 :> k2)
MCAmount == (r1 :> 1) @@ (r2 :> 1)
MCClientKey == (r1 :> "same") @@ (r2 :> "same")

\* A request of any kind and a video: the two are otherwise alike.
MCKinds == (r1 :> RequestKind) @@ (r2 :> {"video"})
=============================================================================
