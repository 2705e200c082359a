CONSTANTS
    a = a
    b = b
    x = x
    y = y
    r1 = r1
    Worker = {w1, w2}
    Run = {r1, r2}
    NoRun = NoRun
    Field = {a, b}
    Canonical = {}
    MaxVersion = 2
    Document = {x}
    FilesOf <- SameFiles
    Draft <- MCDraft
    Isolation = "transaction"
SPECIFICATION Spec
SYMMETRY Symmetry
CHECK_DEADLOCK FALSE
INVARIANTS
    TypeOK
    TransactionInvariant
    RowAgreesWithPayload
    PublishedFieldsApproved
    PublishedKeysCleared
    PublishedReviewsApproved
    PublishedOriginApproved
    RuleFieldsDefined
    ReviewAgreesWithProposal
PROPERTIES
    DecisionIsFinal
    ImplementsContract
