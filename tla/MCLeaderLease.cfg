SPECIFICATION FairSpec
CONSTANTS
  Nodes = {n1, n2}
  Stranger = stranger
  Lease = 7
  Tick = 4
  Timeout = 2
INVARIANTS LeaseBacksLeader StepsDownInTime
PROPERTY Converges
