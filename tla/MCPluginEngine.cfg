CONSTANTS
    masker = masker
    tracer = tracer
    limiter = limiter
    s1 = s1
    s2 = s2
    v1 = v1
    v2 = v2
    Names <- MCNames
    Versions = {v1, v2}
    Loaders = {l1}
    Callers = {c1, c2}
    Looping = {}
    Shard <- TwoShards
    None = None
    PageSize = 16
    Wrap32 = 256
    Wrap64 = 65536
    Image <- MCImage
    ConfigLength <- MCConfigLength
    RequestLength = 20
    Directory <- MCDirectory
    MaxLoads = 2
SPECIFICATION FairEngineSpec
INVARIANTS
    EngineTypeOK
    NoForeignConfig
    ReportIsTrue
    StringsIntact
PROPERTIES
    RunningStaysLoaded
    NoneSkipped
    CallsReturn
CHECK_DEADLOCK FALSE
