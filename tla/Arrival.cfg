\* Two companies arrive together: persons, keys, installations, contracts, IDs.
SPECIFICATION ImportSpec
CONSTANTS
  g1 = g1
  g2 = g2
  PersonId = {1, 2}
  Key = {g1, g2}
  Genesis <- MCGenesis
  Company = {A, B}
  Profile = {d}
  Admission = {a1, a2}
  Id = {i, p}
  Published = {p}
  NoRow = NoRow
SYMMETRY Symmetric
INVARIANT ReadyIdsHold
PROPERTY ReadySurvives
CHECK_DEADLOCK FALSE
