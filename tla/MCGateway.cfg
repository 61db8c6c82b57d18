CONSTANTS
    Launches <- MCLaunches
    Addresses <- MCAddresses
    Fixed = Fixed
    DefaultMetrics = DefaultMetrics
    other = other
    busy = busy
    Configs <- MCConfigs
    Requests <- MCRequests
    Absent = Absent
    Unset = Unset
    Unreadable = Unreadable
    Word = 8
SPECIFICATION FairGatewaySpec
INVARIANTS
    GatewayTypeOK
    ServesAsValidated
    ServedProviderAgrees
    RequestSurvives
    StatusIsHonest
PROPERTY EveryRequestAnswered
CHECK_DEADLOCK FALSE
