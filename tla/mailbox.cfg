SPECIFICATION Spec
CONSTANTS
  u1 = u1
  u2 = u2
  m1 = m1
  m2 = m2
  a1 = a1
  a2 = a2
  r1 = r1
  r2 = r2
  Members = {u1, u2}
  Messages = {m1, m2}
  Attachments = {a1, a2}
  Requests = {r1, r2}
  Author <- FirstWrites
  Limits = {1, 2}
  FirstLimit = 2
  MaxRequests = 3
  MaxCrash = 1
  MaxFault = 1
SYMMETRY MailboxSymmetry
PROPERTIES StorageAccounted FilesHaveRows ItemsKept SentUnchanged
CHECK_DEADLOCK FALSE
