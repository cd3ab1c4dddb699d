--------------------------- MODULE MCBridgeBudget ---------------------------
(* Small instances of BridgeBudget. *)
EXTENDS BridgeBudget, TLC

CONSTANTS b1, b2, b3, q1, q2

\* A video with a replacement, and a text step that needs general credits.
MCRequestOf3 == (b1 :> q1) @@ (b2 :> q1) @@ (b3 :> q2)
MCHoldOf3 == (b1 :> 1) @@ (b2 :> 1) @@ (b3 :> 2)
MCRequestOf2 == (b1 :> q1) @@ (b3 :> q2)
MCHoldOf2 == (b1 :> 1) @@ (b3 :> 2)
MCSnapshots == {<<2, 1>>}
=============================================================================
