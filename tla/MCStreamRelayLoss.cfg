CONSTANTS
    Lines <- MCLines
    Adapters = {"openai"}
    Capacity = 2
    MaxCalls = 0
SPECIFICATION PathSpec
INVARIANT EveryEventRelayed
CHECK_DEADLOCK FALSE
