\* The detection interval and one more caller, two devices, two statuses; inits may reject.
CONSTANTS
    Ids = {d1, d2}
    Statuses = {device, offline}
    NoDevice = NoDevice
    Callers = {interval, command}
    Interval = interval
    Runs = {r1, r2}
    InitMayReject = TRUE
    MaxChanges = 2
SPECIFICATION FairSpec
INVARIANTS Consistent EntryAccountedFor GhostOnlyByLateInit
