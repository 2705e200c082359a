CONSTANTS
    a = a
    b = b
    x = x
    y = y
    r1 = r1
    Worker = {w1, w2}
    Run = {r1, r2}
    NoRun = NoRun
    Field = {a, b}
    Canonical = {}
    MaxVersion = 1
    Document = {x, y}
    FilesOf <- FewerFiles
    Draft <- MCOneFieldDraft
    Isolation = "statement"
SPECIFICATION Spec
SYMMETRY RequestSymmetry
CHECK_DEADLOCK FALSE
INVARIANTS
    ApprovedIsArchived
    PublicLinksServed
