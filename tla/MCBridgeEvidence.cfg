SPECIFICATION EvidenceSpec
CONSTANTS
  r1 = r1  a1 = a1  a2 = a2  k1 = k1  c1 = c1  c2 = c2  f1 = f1  f2 = f2
  t1 = t1  t2 = t2
  Requests = {r1}
  Accounts = {a1, a2}
  Keys = {k1}
  Calls = {c1, c2}
  Finalizers = {f1, f2}
  Tasks = {t1}
  MaxCharge = 2
  None = None
SYMMETRY MCSymmetry
INVARIANTS FinalIsBacked
PROPERTIES EvidenceHardens OnlyTasksDisagree
CHECK_DEADLOCK FALSE
