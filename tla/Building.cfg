\* Three versions of a policy, built from drafts that differ in one thing or
\* another.  There is no further run after the last version: it may stop there.
CONSTANTS
    ka = ka
    kb = kb
    kc = kc
    None = None
    Key = {ka, kb, kc}
    Draft <- MCDraft
    Corpus <- MCCorpus
    Canonical <- MCCanonical
    MaxVersion = 3
SPECIFICATION Spec
INVARIANTS
    TypeOK
    ReviewedIsUsed
    PublishedIsExplained
    SilentRunIsGrounded
    RebuildIsQuiet
    ChangesTellTheTruth
    ChangeCitesItsField
CHECK_DEADLOCK FALSE
