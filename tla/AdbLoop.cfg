\* One tablet that may be unplugged and plugged in again, one fault.
SPECIFICATION LoopSpec
CONSTANTS
    Callers = {c1}
    Adb = Adb
    Owner = Owner
    Devices = {d1}
    NoDevice = NoDevice
    Tokens = {t1, t2, t3}
    NoToken = NoToken
    Recycle = TRUE
    MaxAttempts = 2
    MaxFaults = 2
    MaxReplugs = 2
    ConcurrentStop = FALSE
CHECK_DEADLOCK FALSE

    
PROPERTIES
    LinkRecovers
    ShutDownCompletes
