---------------------------- MODULE MCVideoQueue ----------------------------
(* Small instances of VideoQueue. *)
EXTENDS VideoQueue, TLC

CONSTANTS k1, u1, r1, r2, a1, w1

\* One user and two jobs, alike in everything, that share one slot.
MCUserOf2 == k1 :> u1
MCKeyOf2 == (r1 :> k1) @@ (r2 :> k1)
MCAmount2 == (r1 :> 1) @@ (r2 :> 1)
MCSlots1 == a1 :> 1
MCRank1 == u1 :> 1
MCEligible2 == (r1 :> {a1}) @@ (r2 :> {a1})
MCJobs == Permutations({r1, r2})
=============================================================================
