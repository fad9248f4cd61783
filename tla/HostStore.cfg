SPECIFICATION Spec
CONSTANTS
    Window = Window
    Accept = Accept
    Savers = {Window, Accept}
    Monitors = {m1, m2}
    NoFile = NoFile
    Torn = Torn
    Emptied = Emptied
    MaxChanges = 2
    FileLines = 1
    Kept = 2
    MaxLines = 4
    MaxCrashes = 2
    MaxIncidents = 1
INVARIANTS
    TypeOK
    SettingsAgree
    CrashCountRight
    LogKept
CHECK_DEADLOCK FALSE
