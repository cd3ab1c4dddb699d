--------------------------- MODULE MCCreditReceipt ---------------------------
(* A small instance of CreditReceipt: two keys of one user. *)
EXTENDS CreditReceipt, TLC

CONSTANTS k1, k2, u1, r1, r2

MCUserOf == (k1 :> u1) @@ (k2 :> u1)

MCKeyOf == (r1 :> k1) @@ (r2 :> k1)

MCAmount == (r1 :> 1) @@ (r2 :> 1)

MCPayload(status, actual, credits) ==
    [status |-> status, actual |-> actual, credits |-> credits]

\* One in another unit, a final one within the quote, one above it.
MCPayloads ==
    {MCPayload("final", 1, FALSE), MCPayload("final", 1, TRUE), MCPayload("final", 2, TRUE)}

\* The two requests are alike.
MCSymmetry == Permutations(Requests)
=============================================================================
