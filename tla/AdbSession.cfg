\* Two transport threads, two tablets, Stop overlapping an attempt.
SPECIFICATION Spec
CONSTANTS
    Callers = {c1, c2}
    Adb = Adb
    Owner = Owner
    Devices = {d1, d2}
    NoDevice = NoDevice
    Tokens = {t1, t2, t3, t4, t5}
    NoToken = NoToken
    Recycle = FALSE
    MaxAttempts = 2
    MaxFaults = 2
    MaxReplugs = 1
    ConcurrentStop = TRUE
SYMMETRY Symmetry
CHECK_DEADLOCK FALSE
INVARIANTS
    TypeOK
    TokenDiscipline
    LaunchAuthenticates
PROPERTIES
    RevokedForGood
    ImplementsLink
