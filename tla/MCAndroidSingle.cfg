\* The detection interval alone, and no init rejects: checks do not overlap.
CONSTANTS
    Ids = {d1, d2}
    Statuses = {device, offline}
    NoDevice = NoDevice
    Callers = {interval}
    Interval = interval
    Runs = {r1}
    InitMayReject = FALSE
    MaxChanges = 3
SPECIFICATION FairSpec
INVARIANTS ReportedIsTracked
PROPERTIES RegistryFollowsAdb
