CONSTANTS
    good = good
    better = better
    badUrl = badUrl
    Specs <- MCSpecs
    ValidSpecs <- MCValidSpecs
    None = None
    MaxCreates = 2
    MaxEdits = 2
    MaxRestarts = 1
    MaxLost = 1
SPECIFICATION FairControllerSpec
INVARIANTS
    ControllerTypeOK
    ReadyMeansValid
    NoForgottenGateway
PROPERTIES
    StatusConverges
    WritesStop
CHECK_DEADLOCK FALSE
