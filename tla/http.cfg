SPECIFICATION Spec
CONSTANTS
  c1 = c1
  c2 = c2
  u1 = u1
  u2 = u2
  Connections = {c1, c2}
  Users = {u1, u2}
  SuperAdmins = {u1}
  Issues <- MCIssues
  Issued <- MCIssued
  Passwords <- MCPasswords
  TTL = 2
  Timeout = 1
  Horizon = 3
  MaxFaults = 2
INVARIANTS TypeOK LogTellsAnswer RefusalHadNoEffect AnswersRevealNothing ClientUnderstands  AcceptedPasswordHashes
PROPERTIES AdmissionBound
