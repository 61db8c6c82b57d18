CONSTANTS
    Lines <- MCLines
    Adapters = {"openai", "google"}
    Capacity = 2
    MaxCalls = 3
SPECIFICATION FairPathSpec
INVARIANTS
    PathTypeOK
    InOrderNoDuplicates
    EndsWithDone
    AlignedIsLossless
    BodyOnce
PROPERTY StreamEnds
CHECK_DEADLOCK FALSE
