\* Two runs are stored and a third may be discovered; two requests at a time.
CONSTANTS
    Review = {1, 2, 3, 4}
    RunOf <- MCRunOf
    Known = {"run1", "run2"}
    MaxRequests = 2
    None = None
SPECIFICATION Spec
INVARIANT NoticeOfClickedReview
CHECK_DEADLOCK FALSE
