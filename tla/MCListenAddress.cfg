CONSTANTS
    Launches <- MCLaunches
    Addresses <- MCAddresses
    Fixed = Fixed
    DefaultMetrics = DefaultMetrics
    other = other
    busy = busy
    Configs <- MCConfigs
    Requests <- MCRequests
    Absent = Absent
    Unset = Unset
    Unreadable = Unreadable
    Word = 8
SPECIFICATION GatewaySpec
INVARIANT ListensWhereTold
CHECK_DEADLOCK FALSE
