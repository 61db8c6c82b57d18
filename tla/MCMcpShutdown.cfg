CONSTANTS
    two = two
    Lines <- MCLines
    Tools <- MCTools
    NoId = NoId
    NoTool = NoTool
    One = One
    Capacity = 1
    MaxLines = 1
SPECIFICATION FairMcpSpec
PROPERTY ShutsDownAtEof
CHECK_DEADLOCK FALSE
