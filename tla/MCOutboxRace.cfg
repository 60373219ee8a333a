SPECIFICATION Spec
CONSTANTS
  d1 = d1  u1 = u1  u2 = u2  x1 = x1  x2 = x2
  Drafts = {d1}
  Users = {u1, u2}
  LocalUser = u1
  Owner <- RemoteOwner
  Emails = {e1}
  Texts = {x1, x2}
  Text <- OneText
  Tokens = {t1, t2}
  Reqs = {r1, r2}
  Workers = {w1}
  ClientKeys = {k1}
  MaxRetries = 2
  MaxPerWindow = 1
  MaxVersion = 2
  MaxChanges = 0
  MaxFaults = 1
  MaxMoves = 0
INVARIANTS TypeOK AuthorityInv ExclusiveAttempt
PROPERTIES ImplementsContract
CHECK_DEADLOCK FALSE
SYMMETRY Symmetry
