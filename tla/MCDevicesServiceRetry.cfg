CONSTANTS
    galaxy = galaxy
    avd = avd
    iphone = iphone
    None = None
    Callers = {c1, c2}
    Devices = {galaxy, avd, iphone}
    PlatformOf <- MCPlatformOf
    Emulators = {avd}
    Requests <- MCRequests
    IsDarwin = FALSE
    EmulatorFlag = FALSE
    MaxCalls = 3
    MaxChanges = 1
SPECIFICATION FairSpec
INVARIANTS ChosenAsAsked
CHECK_DEADLOCK FALSE
