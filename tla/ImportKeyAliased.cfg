\* Expected violation: two ready stages hide a current key of the host.
SPECIFICATION ImportSpec
CONSTANTS
  g1 = g1
  g2 = g2
  PersonId = {1, 2}
  Key = {g1, g2}
  Genesis <- MCGenesis
  Company = {A, B}
  Profile = {}
  Admission = {}
  Id = {}
  Published = {}
  NoRow = NoRow
SYMMETRY Symmetric
INVARIANT ActingKeysUnique
CHECK_DEADLOCK FALSE
