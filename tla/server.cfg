SPECIFICATION FairSpec
CONSTANTS
  r1 = r1
  r2 = r2
  r3 = r3
  u1 = u1
  u2 = u2
  t1 = t1
  t2 = t2
  Requests = {r1, r2, r3}
  Jobs <- MCJobs
  Admins <- MCAdmins
  TokensOf <- MCTokensOf
  PoolSize = 2
  MaxTries = 2
  LastVersion = 2
INVARIANTS TypeOK AccountChangesNeverDeadlock ServesWholeSchema
PROPERTIES ExitCutsNoTransaction RequestsEnd SignalEndsProcess
