SPECIFICATION FairChatSpec
CONSTANTS
    k1 = k1  u1 = u1  r1 = r1  r2 = r2  a1 = a1
    Keys = {k1}
    Users = {u1}
    UserOf <- MCUserOf
    Requests = {r1}
    KeyOf <- MCKeyOf1
    Amount <- MCAmount1
    Limits = {1}
    MaxGranted = 1
    UpstreamAccounts = {a1}
    MaxConcurrency <- MCMaxConcurrency
    LeaseTtl = 2
    ReconcileTtl = 1
    MaxTime = 3
    Streams = {r1}
    CancelConfirms = TRUE
    StoreErrors = FALSE
    Crashes = TRUE
    Upkeep = TRUE
CHECK_DEADLOCK FALSE
INVARIANTS NoRefundForAcceptedWork NoAbandonedLease
PROPERTIES ImplementsLease ClosedStreamSettles
