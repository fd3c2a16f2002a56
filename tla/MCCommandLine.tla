--------------------------- MODULE MCCommandLine ---------------------------
(***************************************************************************)
(* The command line of a CLI with a few commands of each kind, the         *)
(* analytics of one of its runs, and what its commands use: the HTTP       *)
(* client and its proxy, npm, the search for plugins, the TypeScript       *)
(* compiler and the project's files.  They share no state: focus names the *)
(* one that a behaviour is about, the others stay as they began.           *)
(***************************************************************************)
EXTENDS Commands, Analytics, HttpClient, Npm, TypeScript, ProjectFiles, Plugins

\* The files of a project at once: as many as have one name on the device.
CONSTANT MaxFiles

VARIABLE focus

commandLineVars == <<commandsVars, analyticsVars, httpVars, npmVars, typeScriptVars, filesVars, pluginsVars>>

\* A component that a behaviour is not about begins in one state only.
MCInit ==
    /\ focus \in {"commands", "analytics", "http", "npm", "typescript", "files", "plugins"}
    /\ CommandsInit /\ (focus # "commands" => noHooks)
    /\ AnalyticsInit
    /\ focus # "analytics" => todo["command"] = Do("checkConsent") /\ stored = [s \in Settings |-> "enabled"]
    /\ HttpInit /\ (focus # "http" => interactive)
    /\ NpmInit /\ (focus # "npm" => saved.types = {} /\ ~ settings.npm /\ ~ settings.cli)
    /\ TypeScriptInit /\ (focus # "typescript" => (\A p \in Projects : has[p] = "none") /\ ~ watch)
    /\ FilesInit /\ Cardinality(original) <= MaxFiles
    /\ PluginsInit /\ (focus # "plugins" => Len(toAsk) = 3)
    /\ focus # "files" => original = {} /\ rules = CHOOSE list \in RuleLists : TRUE
    /\ focus # "files" => target = [platform |-> "ios", configuration |-> "debug", excludedDirs |-> {}, excludedFiles |-> CHOOSE list \in PatternLists : TRUE]

MCNext ==
    /\ UNCHANGED focus
    /\ \/ focus = "commands" /\ CommandsNext /\ UNCHANGED <<analyticsVars, httpVars, npmVars, typeScriptVars, filesVars, pluginsVars>>
       \/ focus = "analytics" /\ AnalyticsNext /\ UNCHANGED <<commandsVars, httpVars, npmVars, typeScriptVars, filesVars, pluginsVars>>
       \/ focus = "http" /\ HttpNext /\ UNCHANGED <<commandsVars, analyticsVars, npmVars, typeScriptVars, filesVars, pluginsVars>>
       \/ focus = "npm" /\ NpmNext /\ UNCHANGED <<commandsVars, analyticsVars, httpVars, typeScriptVars, filesVars, pluginsVars>>
       \/ focus = "typescript" /\ TypeScriptNext /\ UNCHANGED <<commandsVars, analyticsVars, httpVars, npmVars, filesVars, pluginsVars>>
       \/ focus = "plugins" /\ PluginsNext /\ UNCHANGED <<commandsVars, analyticsVars, httpVars, npmVars, typeScriptVars, filesVars>>
       \/ focus = "files" /\ FilesNext /\ UNCHANGED <<commandsVars, analyticsVars, httpVars, npmVars, typeScriptVars, pluginsVars>>

MCSpec == MCInit /\ [][MCNext]_<<focus, commandLineVars>>

\* The components keep their types.
CommandLineTypeOK ==
    CommandsTypeOK /\ AnalyticsTypeOK /\ HttpTypeOK /\ NpmTypeOK /\ TypeScriptTypeOK /\ FilesTypeOK /\ PluginsTypeOK

MCLogins == [user : {"", "ann", "bob"}, password : {"", "pw"}]
MCUrls ==
    [valid : {TRUE}, port : {"none", "bad"}, user : {"", "ann"}, password : {"", "pw"}]
        \cup [valid : {FALSE}, port : {"none"}, user : {""}, password : {""}]

\* The paths of app2 and of the temporary directories begin with that of app; the
\* CLI is below app2.
MCInside == {<<p, p>> : p \in Projects} \cup {<<"app", "app2">>, <<"app2", CliCompiler>>}
                \cup {<<"app", t>> : t \in Transpiles}

In(dir, name) == [dir |-> dir, name |-> name]
MCFiles ==
    {In(<<"app">>, n) : n \in {<<"a", "js">>, <<"a", "iOS", "js">>, <<"a", "release", "js">>,
                               <<"a", "iOS", "js", "map">>, <<"b", "ios", "debug", "css">>} }
        \cup {In(<<"lib", "android", "x">>, <<"b", "css">>), In(<<"lib">>, <<"a", "js">>)}
MCInLowerCase ==
    [p \in {"app", "a", "b", "js", "map", "iOS", "ios", "android", "release", "debug", "css", "lib", "x"} |->
        IF p = "iOS" THEN "ios" ELSE p]
\* A rule takes everything out, the directory lib too, and the next one every a.js
\* and its map, under all their names, in.  The caller's pattern takes the map out.
MCRuleLists ==
    {<<[negated |-> FALSE, matches |-> MCFiles \cup {In(<<>>, <<"lib">>)}],
       [negated |-> TRUE, matches |-> {In(d, <<"a">> \o n) : d \in {<<"app">>, <<"lib">>},
                                                             n \in {<<"js">>, <<"iOS", "js">>, <<"js", "map">>}}]>>}
MCBinary == {In(<<"app">>, <<"b", "ios", "debug", "css">>), In(<<"app">>, <<"a", "release", "js">>)}
MCDirLists == {{}, {<<"lib">>}}
MCPatternLists == {{In(<<"app">>, <<"a", "js", "map">>)}}

MCOnNpm == <<"p1", "p2", "p3", "p4", "p5">>

MCFeatureKeys == <<"a">>
MCExceptionKeys == <<"a", "b">>

MCWords == {"build", "cloud", "list", "LIST", "add", "more", "deep", "install", "off", "own", "cmd", "help", "x", ""}
MCLower == [w \in MCWords |-> IF w = "LIST" THEN "list" ELSE w]

Build == <<El("build")>>
CloudList == <<El("cloud"), Star("list")>>
CloudAdd == <<El("cloud"), El("add")>>
CloudAddMore == <<El("cloud"), El("add"), El("more")>>
DeepMain == <<El("deep"), El("more"), Star("list")>>
CallsCloud == <<El("install")>>
Off == <<El("off")>>
Own == <<El("own")>>

MCRequired == <<Build, CloudList, CloudAdd, CloudAddMore, DeepMain, CallsCloud, Off, Own, <<El("help")>> >>

Needs(ws) == [mandatory |-> TRUE, accepts |-> ws]
Takes(ws) == [mandatory |-> FALSE, accepts |-> ws]

Plain == [kind |-> "plain", canExecute |-> FALSE, disabled |-> FALSE, params |-> <<>>,
          hooks |-> TRUE, analytics |-> TRUE, post |-> FALSE]

MCCommandOf ==
    [n \in {MCRequired[i] : i \in DOMAIN MCRequired} |->
        CASE n = Build -> [Plain EXCEPT !.params = <<Takes({"list"}), Needs({"x", "list", ""}), Takes({"x", "add"})>>, !.post = TRUE]
          [] n = CloudList -> [Plain EXCEPT !.params = <<Takes(MCWords)>>]
          [] n = CloudAdd -> [Plain EXCEPT !.params = <<Needs({"x", "more"}), Takes({"x"})>>]
          [] n = DeepMain -> [Plain EXCEPT !.params = <<Needs({"x"}), Needs({"x", "list"})>>]
          [] n = CloudAddMore -> [Plain EXCEPT !.kind = "calls"] @@ [callee |-> <<El("cloud")>>]
          [] n = CallsCloud -> [Plain EXCEPT !.kind = "calls", !.analytics = FALSE] @@ [callee |-> <<El("cloud")>>]
          [] n = Off -> [Plain EXCEPT !.disabled = TRUE]
          [] n = Own -> [Plain EXCEPT !.canExecute = TRUE, !.post = TRUE]
          [] n = <<El("help")>> -> [Plain EXCEPT !.canExecute = TRUE, !.hooks = FALSE]
          [] OTHER -> Plain]

MCHookFiles ==
    (<<"before", <<"build">>>> :> <<"script", "invalid", "script">>) @@
    (<<"before", <<"cloud", "list">>>> :> <<"inProcess">>) @@
    (<<"after", <<"cloud", "list">>>> :> <<"script">>) @@
    (<<"before", <<"cloud">>>> :> <<"script", "inProcess">>) @@
    (<<"after", <<"install">>>> :> <<"inProcess">>)
============================================================================
