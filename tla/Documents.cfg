\* What the site answers, what OCR reads and what fails, in every combination.
CONSTANTS
    first = first
    second = second
    third = third
    tiny = tiny
    NoText = NoText
    NoContent = NoContent
    Short = {tiny}
    Name <- MCName
    Url <- MCUrl
    StemOf <- MCStemOf
    TypeOf <- MCTypeOf
    Text <- MCText
    Agree <- MCAgree
    Content <- MCContent
    Serves <- MCServes
    Listing <- MCListing
SPECIFICATION FairSpec
INVARIANTS
    TypeOK
    NothingDropped
    SilenceMeansAgreement
    OneCopyPerUrl
    OcrIsLastResort
    BestRepresents
PROPERTIES
    ResultsStand
    AnalysisEnds
