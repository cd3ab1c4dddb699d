SPECIFICATION FairRouterSpec
CONSTANTS
    k1 = k1  k2 = k2  u1 = u1  u2 = u2  r1 = r1  r2 = r2
    reconciler = reconciler
    Keys = {k1, k2}
    Users = {u1, u2}
    UserOf <- MCUserOf
    Requests = {r1, r2}
    KeyOf <- MCKeyOf
    Amount <- MCAmount
    Limits = {1}
    MaxGranted = 1
    Pollers = {reconciler}
    Reconciler = reconciler
    ClientKey <- MCClientKey
    Kinds <- MCKinds
    MaxCrashes = 1
CHECK_DEADLOCK FALSE
INVARIANTS JobsAreBacked NoRefundForTask SubmittedOnce
PROPERTIES  HopelessAreMarked
