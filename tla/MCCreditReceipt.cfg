SPECIFICATION CreditSpec
CONSTANTS
    k1 = k1  k2 = k2  u1 = u1  r1 = r1  r2 = r2
    Keys = {k1, k2}
    Users = {u1}
    UserOf <- MCUserOf
    Requests = {r1, r2}
    KeyOf <- MCKeyOf
    Amount <- MCAmount
    Limits = {2}
    MaxGranted = 2
    UpstreamTotal = 3
    Charges = {1, 2}
    Payloads <- MCPayloads
SYMMETRY MCSymmetry
CHECK_DEADLOCK FALSE
INVARIANTS SettledOrRecoverable DebtIsBlocked DoubtIsFlagged KeysCovered
PROPERTY FirstFinalDecides
