CONSTANTS
    two = two
    Lines <- MCLines
    Tools <- MCTools
    NoId = NoId
    NoTool = NoTool
    One = One
    Capacity = 1
    MaxLines = 3
SPECIFICATION FairMcpSpec
INVARIANTS
    McpTypeOK
    AnswersInOrder
PROPERTY EveryLineAnswered
CHECK_DEADLOCK FALSE
