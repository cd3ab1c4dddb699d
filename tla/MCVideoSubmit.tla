---------------------------- MODULE MCVideoSubmit ----------------------------
(* A small instance of VideoSubmit: one key, and two accounts with a slot each. *)
EXTENDS VideoSubmit, TLC

CONSTANTS k1, u1, r1, a1, a2, w1, http, s1, s2, c1

MCUserOf == k1 :> u1
MCSlots == (a1 :> 1) @@ (a2 :> 1)
MCAccounts == Permutations({a1, a2})
MCRank == u1 :> 1

\* One request, submitted twice.
MCKeyOf == r1 :> k1
MCAmount == r1 :> 1
MCEligible == r1 :> {a1, a2}
MCRetried == (s1 :> r1) @@ (s2 :> r1)
=============================================================================
