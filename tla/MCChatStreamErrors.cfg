SPECIFICATION ChatSpec
CONSTANTS
    k1 = k1  u1 = u1  r1 = r1  r2 = r2  a1 = a1
    Keys = {k1}
    Users = {u1}
    UserOf <- MCUserOf
    Requests = {r1, r2}
    KeyOf <- MCKeyOf
    Amount <- MCAmount
    Limits = {1}
    MaxGranted = 1
    UpstreamAccounts = {a1}
    MaxConcurrency <- MCMaxConcurrency
    LeaseTtl = 1
    ReconcileTtl = 1
    MaxTime = 1
    Streams = {r1}
    CancelConfirms = TRUE
    StoreErrors = TRUE
    Crashes = FALSE
    Upkeep = FALSE
CHECK_DEADLOCK FALSE
INVARIANTS NoRefundForAcceptedWork LeaseAgreesWithHold
