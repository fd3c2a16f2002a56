CONSTANTS
    Words <- MCWords
    Lower <- MCLower
    EmptyWord = ""
    Help = "help"
    Required <- MCRequired
    CommandOf <- MCCommandOf
    DynamicNames = {"cmd"}
    GeneratedNames = {"cmd"}
    HookFiles <- MCHookFiles
    MaxWords = 3
    Exceptions = {e1}
    FeatureKeys <- MCFeatureKeys
    ExceptionKeys <- MCExceptionKeys
    MaxInterrupts = 1
    Requests = {r1}
    NoProxy = NoProxy
    Logins <- MCLogins
    Urls <- MCUrls
    Empty = ""
    Calls = {c1, c2}
    Packages = {core, plugin}
    Core = core
    InRegistry = {plugin}
    Transpiles = {t1, t2}
    Projects = {"app", "app2"}
    Inside <- MCInside
    NoCompiler = NoCompiler
    CliCompiler = CliCompiler
    Files <- MCFiles
    PlatformNames = {"ios", "android"}
    Configurations = {"debug", "release"}
    InLowerCase <- MCInLowerCase
    Binary <- MCBinary
    RuleLists <- MCRuleLists
    DirLists <- MCDirLists
    PatternLists <- MCPatternLists
    MaxFiles = 3
    OnNpm <- MCOnNpm
    SiteCount = 2
    CountToShow = 2
    NoPlugins = NoPlugins
    MaxPage = 5
SPECIFICATION MCSpec
INVARIANTS CommandLineTypeOK HooksSurround HooksRunOnce RunsAsTyped ConsentRespected MonitorsAreStopped
    RequestsAreAnswered ReferencesFollowPackages RunsAFitCompiler FilesAreTheTargets SentFollowsTheRules ShownInOrder
CHECK_DEADLOCK FALSE
