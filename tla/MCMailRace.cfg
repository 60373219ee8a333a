SPECIFICATION Spec
CONSTANTS
  m1 = m1  m2 = m2  y = y  z = z  o = o
  c1 = c1  c2 = c2  cy = cy  cz = cz  co = co  f = f
  Inbox = {m1}
  SentBox = {}
  Outs = {o}
  Raws = {c1, co}
  Raw <- Contents
  MsgId <- Headers
  Files = {f}
  Att <- Shared
  Number <- Position
  Oversize = {}
  Others = {}
  Ids = {i1, i2, i3, i4}
  Syncs = {s1, s2}
  Clients = {u1}
  Tokens = {}
  MaxPerSync = 0
  MaxFaults = 0
INVARIANTS ObjectsBackMail
SYMMETRY Symmetry
CHECK_DEADLOCK FALSE
