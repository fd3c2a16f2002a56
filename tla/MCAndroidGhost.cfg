\* The interval and one more caller, one device: is a detached device always reported lost?
CONSTANTS
    Ids = {d1}
    Statuses = {device}
    NoDevice = NoDevice
    Callers = {interval, command}
    Interval = interval
    Runs = {r1, r2}
    InitMayReject = FALSE
    MaxChanges = 2
SPECIFICATION FairSpec
PROPERTIES DetachedIsLost
