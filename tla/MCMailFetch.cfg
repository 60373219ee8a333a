SPECIFICATION FairSpec
CONSTANTS
  m1 = m1  m2 = m2  y = y  z = z  o = o
  c1 = c1  c2 = c2  cy = cy  cz = cz  co = co  f = f
  Inbox = {m1, m2}
  SentBox = {y, z}
  Outs = {}
  Raws = {c1, c2, cy, cz}
  Raw <- Contents
  MsgId <- Headers
  Files = {f}
  Att <- Shared
  Number <- Position
  Oversize = {m2}
  Others = {m2}
  Ids = {i1, i2, i3, i4}
  Syncs = {s1}
  Clients = {}
  Tokens = {t1}
  MaxPerSync = 1
  MaxFaults = 2
INVARIANTS CheckpointedWasKept DeletesApproved Pop3ReportTrue
PROPERTY EverythingFetched
CHECK_DEADLOCK FALSE
