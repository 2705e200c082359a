CONSTANTS
    a = a
    b = b
    x = x
    y = y
    r1 = r1
    Worker = {w1, w2}
    Run = {r1}
    NoRun = NoRun
    Field = {a, b}
    Canonical = {}
    MaxVersion = 1
    Document = {x}
    FilesOf <- SameFiles
    Draft <- MCTwoFieldDraft
    Isolation = "statement"
SPECIFICATION Spec
SYMMETRY Symmetry
CHECK_DEADLOCK FALSE
INVARIANT PublishedFieldsApproved
