SPECIFICATION MCSpec
CONSTANTS
  A = A
  B = B
  C = C
  q1 = q1
  q2 = q2
  q3 = q3
  q4 = q4
  k1 = k1
  k2 = k2
  k3 = k3
  k4 = k4
  KeysOf <- Keys
  Host <- TwoHosts
  Home = A
  Quorum <- Quorums
  Operational = q1
  Recovery = q2
  NoRow = NoRow
  Lease = 1
  Margin = 1
  Window = 1
  MaxTime = 2
  MaxLength = 3
  MaxStatements = 1
INVARIANTS
  HistoriesReplay
  LeasesAgree
  BindingAdopted
PROPERTIES
  PinsHold
CHECK_DEADLOCK FALSE
