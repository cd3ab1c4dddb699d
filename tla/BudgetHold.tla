----------------------------- MODULE BudgetHold -----------------------------
(***************************************************************************)
(* What the budget ledger promises, with no versions, rows or life cycles: *)
(* a request takes its amount from every account it is held on, all or     *)
(* none, and ends once - the whole amount given back to all of them, or    *)
(* one charge of at most the amount kept from all of them. Money appears   *)
(* in a wallet only by a deposit. How long a hold lasts is not promised.   *)
(***************************************************************************)
EXTENDS Integers

CONSTANTS Accounts, Requests, Amount

VARIABLES
    wallet,   \* [Accounts -> Int], what may still be taken
    hold,     \* [Requests -> {"free", "held", "returned", "charged"}]
    payers    \* [Requests -> SUBSET Accounts], the accounts a hold is on

vars == <<wallet, hold, payers>>

Init ==
    /\ wallet = [a \in Accounts |-> 0]
    /\ hold = [r \in Requests |-> "free"]
    /\ payers = [r \in Requests |-> {}]

Paid(accts, n) ==
    [a \in Accounts |-> IF a \in accts THEN wallet[a] + n ELSE wallet[a]]

Deposit(a) ==
    /\ wallet'[a] > wallet[a]
    /\ wallet' = [wallet EXCEPT ![a] = wallet'[a]]
    /\ UNCHANGED <<hold, payers>>

Take(r, accts) ==
    /\ hold[r] = "free"
    /\ accts # {}
    /\ \A a \in accts : wallet[a] >= Amount[r]
    /\ wallet' = Paid(accts, -Amount[r])
    /\ hold' = [hold EXCEPT ![r] = "held"]
    /\ payers' = [payers EXCEPT ![r] = accts]

GiveBack(r) ==
    /\ hold[r] = "held"
    /\ wallet' = Paid(payers[r], Amount[r])
    /\ hold' = [hold EXCEPT ![r] = "returned"]
    /\ UNCHANGED payers

Charge(r, n) ==
    /\ hold[r] = "held"
    /\ wallet' = Paid(payers[r], Amount[r] - n)
    /\ hold' = [hold EXCEPT ![r] = "charged"]
    /\ UNCHANGED payers

Next ==
    \/ \E a \in Accounts : Deposit(a)
    \/ \E r \in Requests :
        \/ \E accts \in SUBSET Accounts : Take(r, accts)
        \/ GiveBack(r)
        \/ \E n \in 0..Amount[r] : Charge(r, n)

Spec == Init /\ [][Next]_vars
=============================================================================
