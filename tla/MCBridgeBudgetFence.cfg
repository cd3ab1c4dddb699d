SPECIFICATION FairSpec
CONSTANTS
    b1 = b1  b2 = b2  b3 = b3  q1 = q1  q2 = q2
    Budgets = {b1, b3}
    RequestOf <- MCRequestOf2
    Videos = {b1}
    HoldOf <- MCHoldOf2
    Credits = {1}
    Snapshots <- MCSnapshots
    MaxGeneration = 2
    MaxEpoch = 2
CHECK_DEADLOCK FALSE
PROPERTY FencedBriefly
