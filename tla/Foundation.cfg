CONSTANTS
    ann = ann  bob = bob  org = org  root = root  child = child  use = use
    r1 = r1  rec = rec  op1 = op1  op2 = op2  n1 = n1  n2 = n2  n3 = n3
    None = None  Imported = Imported
    Person = {ann, bob}
    Organization = org
    GrantId = {root, child}
    Operation = {use}
    Resource = {r1}
    RecordId = {rec}
    OperationId = {op1, op2}
    Nonce = {n1, n2, n3}
    Scenarios <- MCScenarios
    ChallengeLife = 3
    Reserve = 1
    MaxOutstanding = 1
    ApprovalLife = 3
    MaxTime = 3
    MaxHeads = 3
    MaxApprovals = 2
    PageSize = 1
    MaxRetained = 2
    ViewLife = 2
    MaxBatches = 1
    MaxPages = 2
SYMMETRY Nonces
SPECIFICATION FeedSpec
INVARIANTS SpentOnce CoveredAtCommit OutboxExplains GovernedByConsent FeedFollowsStore
PROPERTY RevocationBinds
CHECK_DEADLOCK FALSE
