SPECIFICATION AskedSpec
CONSTANTS
    Request = {q1, q2}
    Host = {h1}
    NoHost = NoHost
    Global = Global
    globalConcurrency = 2
    hostConcurrency = 2
    failureThreshold = 2
    OPEN_FOR = 2
    MaxLegs = 0
PROPERTIES
    HalfOpensLater
