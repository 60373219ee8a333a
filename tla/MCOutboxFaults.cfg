SPECIFICATION FairSpec
CONSTANTS
  d1 = d1  u1 = u1  u2 = u2  x1 = x1  x2 = x2
  Drafts = {d1}
  Users = {u1}
  LocalUser = u1
  Owner <- LocalOwner
  Emails = {e1}
  Texts = {x1, x2}
  Text <- OneText
  Tokens = {t1}
  Reqs = {r1}
  Workers = {w1}
  ClientKeys = {}
  MaxRetries = 3
  MaxPerWindow = 1
  MaxVersion = 2
  MaxChanges = 1
  MaxFaults = 2
  MaxMoves = 1
INVARIANTS ApprovedVersion NoUnexplainedDuplicate OutcomeTruthful
PROPERTIES EverySendSettles
CHECK_DEADLOCK FALSE
