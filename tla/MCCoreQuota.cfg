SPECIFICATION Spec
CONSTANTS
    k1 = k1  u1 = u1  r1 = r1  r2 = r2
    Keys = {k1}
    Users = {u1}
    UserOf <- MCUserOf1
    Requests = {r1, r2}
    KeyOf <- MCKeyOf2
    Amount <- MCAmount2
    Limits = {1, 2}
    MaxGranted = 3
CHECK_DEADLOCK FALSE
INVARIANTS NeverOverdrawn Conservation LedgerMatchesReservation
PROPERTIES AdmissionWithinLimit ImplementsBudgetHold
