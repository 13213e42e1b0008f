\* Three hosts whose clocks differ: safety, refinement and progress in one
\* graph, so no symmetry, which TLC cannot use for liveness.  With a lifetime of
\* two and a drift of one, a readiness can be ahead of the source's clock and yet
\* be live, and a host ahead of the others sees it expire.
SPECIFICATION MCSpec
CONSTANTS
  Host = {h1, h2, h3}
  Home = h1
  MigrationId = {m1, m2}
  Write = {w1}
  Chunk = {c1}
  Lifetime = 2
  Skew = 1
  MaxGeneration = 2
  Horizon = 2
  Admitting = {h2}
  MaxDrift = 1
INVARIANTS SingleCustody CommittedMoveCanFinish CancelExcludesCommit
PROPERTIES ImplementsCustody MovesEnd
CHECK_DEADLOCK FALSE
