---------------------------- MODULE MCChatStream ----------------------------
(* Small instances of ChatStream: one key and one account with one slot. *)
EXTENDS ChatStream, TLC

CONSTANTS k1, u1, r1, r2, a1

MCUserOf == k1 :> u1
MCMaxConcurrency == a1 :> 1

\* One request, a stream.
MCKeyOf1 == r1 :> k1
MCAmount1 == r1 :> 1

\* A stream and a chat that is not streamed, one after the other in the slot.
MCKeyOf == (r1 :> k1) @@ (r2 :> k1)
MCAmount == (r1 :> 1) @@ (r2 :> 1)
=============================================================================
