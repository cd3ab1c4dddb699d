SPECIFICATION VideoSpec
CONSTANTS
    k1 = k1  u1 = u1  r1 = r1  r2 = r2  a1 = a1  w1 = w1
    Keys = {k1}
    Users = {u1}
    UserOf <- MCUserOf2
    Requests = {r1, r2}
    KeyOf <- MCKeyOf2
    Amount <- MCAmount2
    Limits = {1}
    MaxGranted = 2
    UpstreamAccounts = {a1}
    MaxConcurrency <- MCSlots1
    LeaseTtl = 2
    ReconcileTtl = 1
    MaxTime = 2
    Workers = {w1}
    UserRank <- MCRank1
    Eligible <- MCEligible2
SYMMETRY MCJobs
CHECK_DEADLOCK FALSE
INVARIANTS JobAgreesWithLease ClaimMatchesLease SlotsWithinLimit
