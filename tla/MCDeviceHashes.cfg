CONSTANTS
    Device1 = Device1
    Device2 = Device2
    App = App
    Services <- TwoServices
    Files = {x}
    Folders = {}
    NoHashes = NoHashes
    ChunkSize = 2
    FileCalls = {c1, c2, c3}
    MaxVersions = 2
    MaxReinstalls = 0
SPECIFICATION HashesSpec
INVARIANT NullWithoutHashFile
CHECK_DEADLOCK FALSE
