CONSTANTS
    android = android
    ios = ios
    shared = shared
    native = native
    Files = {shared, native}
    Platforms = {android, ios}
    Data <- MCData
    Takes <- MCTakes
    Contents = {v1, v2}
    Missing = Missing
    Unknown = Unknown
    MaxEdits = 3
    MaxFailures = 1
SPECIFICATION FairSpec
INVARIANTS HashesFollowDisk OutOfDateIsPending BatchHasAFuture
PROPERTIES BatchedIsSent
