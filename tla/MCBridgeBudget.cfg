SPECIFICATION BudgetSpec
CONSTANTS
    b1 = b1  b2 = b2  b3 = b3  q1 = q1  q2 = q2
    Budgets = {b1, b2, b3}
    RequestOf <- MCRequestOf3
    Videos = {b1, b2}
    HoldOf <- MCHoldOf3
    Credits = {1}
    Snapshots <- MCSnapshots
    MaxGeneration = 2
    MaxEpoch = 1
CHECK_DEADLOCK FALSE
INVARIANTS SentOnce NoSendIsTrue SentKeepsHold OutboxTellsReceipts
