CONSTANTS
    Systems = {"macos", "windows"}
    MaxUpdates = 1
    MaxUser = 0
    MaxFaults = 1
SPECIFICATION HostSpec
PROPERTIES
    HostFollowsBackend
CHECK_DEADLOCK FALSE
