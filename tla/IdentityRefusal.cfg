SPECIFICATION Spec
CONSTANTS
  A = A
  B = B
  C = C
  q1 = q1
  q2 = q2
  q3 = q3
  q4 = q4
  k1 = k1
  k2 = k2
  k3 = k3
  k4 = k4
  KeysOf <- Keys
  Host <- ThreeHosts
  Home = A
  Quorum <- ThreeQuorums
  Operational = q1
  Recovery = q2
  NoRow = NoRow
  Lease = 1
  Margin = 1
  Window = 1
  MaxTime = 0
  MaxLength = 4
  MaxStatements = 1
INVARIANT RefusalIsFinal
CHECK_DEADLOCK FALSE
