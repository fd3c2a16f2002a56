CONSTANTS
    AppA = AppA
    AppB = AppB
    WebViewApp = WebViewApp
    DebugApp = DebugApp
    Device = Device
    Avds = {A, B}
    Genies = {G}
    Simulators = {S}
    AvdIds = {p}
    GenyIds = {g}
    NoImage = NoImage
    NoId = NoId
    Starters = {s1}
    MaxChanges = 3
    Apps = {AppA, AppB}
    LogCalls = {1, 2, 3}
    MaxLaunches = 2
    MaxLogcats = 2
    Targets = {WebViewApp, DebugApp}
    SocketKind <- KindOfApp
    EndsWith <- EndsWithFirst
    Ports = {p1, p2}
    NoPort = NoPort
    ForwardCalls = {1, 2}
    MaxProcesses = 2
    Services <- OneService
    Files = {x, y}
    Folders = {d}
    NoHashes = NoHashes
    ChunkSize = 2
    FileCalls = {1, 2}
    MaxVersions = 2
    MaxReinstalls = 1
    Phones = {iPhone}
    Sims = {sim}
    IosCalls = {1, 2, 3}
    NoPhone = NoPhone
    MaxObjects = 2
    MaxSimLogs = 2
SPECIFICATION DeviceToolsSpec
INVARIANTS
    StartedHasRun
    OneLogProcess
    PortsLeadToTheirApp
    AnsweredFilesArrived
    CopyIsTheHashFile
    ListensWhileAttached
CHECK_DEADLOCK FALSE
