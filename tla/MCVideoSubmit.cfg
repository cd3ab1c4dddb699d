SPECIFICATION SubmitSpec
CONSTANTS
    k1 = k1  u1 = u1  r1 = r1  a1 = a1  a2 = a2  w1 = w1  http = http
    s1 = s1  s2 = s2  c1 = c1
    Keys = {k1}
    Users = {u1}
    UserOf <- MCUserOf
    Requests = {r1}
    KeyOf <- MCKeyOf
    Amount <- MCAmount
    Limits = {1}
    MaxGranted = 1
    UpstreamAccounts = {a1, a2}
    MaxConcurrency <- MCSlots
    LeaseTtl = 1
    ReconcileTtl = 1
    MaxTime = 2
    Workers = {w1, http}
    UserRank <- MCRank
    Eligible <- MCEligible
    Submissions = {s1, s2}
    RequestOf <- MCRetried
    Cancellations = {c1}
    QueueWorkers = {w1}
    HttpWorker = http
    MaxVideoJobs = 2
    MaxRestarts = 1
SYMMETRY MCAccounts
CHECK_DEADLOCK FALSE
INVARIANTS UnfinishedHasPayload UnfinishedHoldsPermit VideoSentOnce NoRefundForAcceptedVideo
PROPERTIES NoSecondAccount
