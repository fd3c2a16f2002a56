--------------------------- MODULE PortForwarding ---------------------------
(***************************************************************************)
(* AndroidProcessService: it finds the processes and the debug sockets of  *)
(* applications on a device, and forwards free ports of the host to these  *)
(* sockets.  Applications start and die on their own; adb keeps the        *)
(* forwarded ports for all its clients.                                    *)
(***************************************************************************)
EXTENDS Naturals, FiniteSets

CONSTANTS
    Targets,        \* applications
    SocketKind,     \* application -> "webview" (old Cordova, named by process id), "devtools" (Cordova), "debug" (NativeScript)
    EndsWith,       \* <<name, end>>: names and process ids that end with another one
    Ports,          \* ports of the host
    NoPort,
    ForwardCalls,   \* calls of the service
    MaxProcesses    \* how many processes are started (bound)

ASSUME PortForwardingAssumption ==
    /\ SocketKind \in [Targets -> {"webview", "devtools", "debug"}]
    /\ NoPort \notin Ports /\ MaxProcesses \in Nat

VARIABLES
    process,        \* the process id of each application, or 0
    processes,      \* process ids given so far
    forwards,       \* adb forward --list: the socket each port leads to, {} or {socket}
    remembered,     \* _forwardedLocalPorts of the device
    attached,       \* the exit listener of the service is attached
    forwardCalls,
    given,          \* history: the calls that were given each free port
    removed,        \* history: the ports that the exit listener removed
    unforwarded     \* history: the calls whose "adb forward" failed with nobody told

portVars == <<process, processes, forwards, remembered, attached, forwardCalls, given, removed, unforwarded>>

----------------------------------------------------------------------------
(* What the regular expressions find *)

Socket(app, id) == [kind |-> SocketKind[app], name |-> IF SocketKind[app] = "webview" THEN id ELSE app]
Unix == {Socket(app, process[app]) : app \in {a \in Targets : process[a] # 0}}

Ends(name, end) == name = end \/ <<name, end>> \in EndsWith

\* getPortInformation: the first line whose socket ends with what is searched.
PortInformation(sockets, kind, search) == {s \in sockets : s.kind = kind /\ Ends(s.name, search)}
CordovaPort(sockets, app, id) ==
    LET own == PortInformation(sockets, "devtools", app)
    IN  IF own # {} THEN own ELSE PortInformation(sockets, "webview", id)
NativeScriptPort(sockets, app) == PortInformation(sockets, "debug", app)
AbstractPort(sockets, app, id, framework) ==
    CASE framework = "Cordova" -> CordovaPort(sockets, app, id)
      [] framework = "NativeScript" -> NativeScriptPort(sockets, app)
      [] framework = "any" -> LET cordova == CordovaPort(sockets, app, id)
                              IN  IF cordova # {} THEN cordova ELSE NativeScriptPort(sockets, app)

\* getProcessIds: the first line of ps whose name ends with the application's; 0 for
\* none, or when ps fails with nobody told.
ProcessIds(app) == {process[a] : a \in {a \in Targets : Ends(a, app)}} \cup {0}

\* Mutant of AlreadyMapped: a port that leads to any socket of the device will do.
AlreadyMappedAny(socket) == {p \in Ports : forwards[p] # {}}

\* getAlreadyMappedPort, by the whole name (localabstract:...) or by its end.
AlreadyMapped(socket) == {p \in Ports : socket \in forwards[p]}
AlreadyMappedEnd(socket) == {p \in Ports : \E s \in forwards[p] : s.kind = socket.kind /\ Ends(s.name, socket.name)}

----------------------------------------------------------------------------
(* The device and adb *)

ServiceUnchanged == UNCHANGED <<remembered, attached, forwardCalls, given, removed, unforwarded>>

AppStarts(app) ==
    /\ process[app] = 0 /\ processes < MaxProcesses
    /\ processes' = processes + 1 /\ process' = [process EXCEPT ![app] = processes + 1]
    /\ UNCHANGED forwards /\ ServiceUnchanged

AppEnds(app) ==
    /\ process[app] # 0
    /\ process' = [process EXCEPT ![app] = 0]
    /\ UNCHANGED <<processes, forwards>> /\ ServiceUnchanged

----------------------------------------------------------------------------
(* The calls *)

NoCall == [op |-> "none", apps |-> {}, framework |-> "any", at |-> "none", ids |-> <<>>, unix |-> {}, socket |-> {},
           port |-> NoPort, answer |-> <<>>]
Asked(c, place) == forwardCalls[c].at = place
Step(c, call) == forwardCalls' = [forwardCalls EXCEPT ![c] = call]
AdbOnlyRead == UNCHANGED <<process, processes, forwards, given, removed, unforwarded>>
OnlyAsks == AdbOnlyRead /\ UNCHANGED <<remembered, attached>>
Fails(c) == Step(c, [forwardCalls[c] EXCEPT !.at = "rejected"])

\* mapAbstractToTcpPort and forwardFreeTcpToAbstractPort attach the exit listener, once.
MapAbstractToTcpPort(c, app, framework) ==
    /\ Asked(c, "none")
    /\ Step(c, [NoCall EXCEPT !.op = "map", !.apps = {app}, !.framework = framework, !.at = "ps"])
    /\ attached' = TRUE /\ AdbOnlyRead /\ UNCHANGED remembered

ForwardFreeTcpToAbstractPort(c, app) ==
    /\ Asked(c, "none") /\ process[app] # 0
    /\ Step(c, [NoCall EXCEPT !.op = "forward", !.apps = {app}, !.socket = {Socket(app, process[app])}, !.at = "list"])
    /\ attached' = TRUE /\ AdbOnlyRead /\ UNCHANGED remembered

\* getMappedAbstractToTcpPorts reads the sockets before the processes; getDebuggableApps names them afterwards.
GetMapped(c, apps, framework) ==
    /\ Asked(c, "none")
    /\ Step(c, [NoCall EXCEPT !.op = "mapped", !.apps = apps, !.framework = framework, !.at = "unix"])
    /\ OnlyAsks

GetDebuggableApps(c) ==
    /\ Asked(c, "none")
    /\ Step(c, [NoCall EXCEPT !.op = "debuggable", !.at = "unix"])
    /\ OnlyAsks

\* ps
ReadProcesses(c) ==
    /\ Asked(c, "ps")
    /\ \E ids \in [forwardCalls[c].apps -> 0 .. MaxProcesses] :
          /\ \A app \in forwardCalls[c].apps : ids[app] \in ProcessIds(app)
          /\ IF forwardCalls[c].op = "map" /\ \E app \in forwardCalls[c].apps : ids[app] = 0
             THEN Fails(c)
             ELSE Step(c, [forwardCalls[c] EXCEPT !.ids = ids, !.at = IF forwardCalls[c].op = "map" THEN "unix" ELSE "list"])
    /\ OnlyAsks

\* cat /proc/net/unix, of which a failure that nobody is told leaves some lines or none
ReadSockets(c) ==
    /\ Asked(c, "unix")
    /\ \E unix \in SUBSET Unix :
       LET call == forwardCalls[c]
           found == UNION {AbstractPort(unix, app, call.ids[app], call.framework) : app \in call.apps}
       IN  \/ call.op = "map" /\ found = {} /\ Fails(c)
           \/ call.op = "map" /\ \E s \in found : Step(c, [call EXCEPT !.socket = {s}, !.at = "list"])
           \/ call.op = "mapped" /\ Step(c, [call EXCEPT !.unix = unix, !.at = "ps"])
           \/ call.op = "debuggable" /\ Step(c, [call EXCEPT !.unix = unix, !.at = "naming"])
    /\ OnlyAsks

\* The application of a socket: named in it, or that of the process with this id
\* by now, if it still lives (ps is read again for every line).
NameSocket(c, s) ==
    /\ Asked(c, "naming") /\ s \in forwardCalls[c].unix
    /\ LET call == forwardCalls[c]
           apps == IF s.kind = "webview" THEN {a \in Targets : process[a] = s.name} ELSE {s.name}
       IN  Step(c, [call EXCEPT !.unix = @ \ {s}, !.apps = @ \cup apps])
    /\ OnlyAsks

NamingEnds(c) ==
    /\ Asked(c, "naming") /\ forwardCalls[c].unix = {}
    /\ Step(c, [forwardCalls[c] EXCEPT !.at = "resolved"])
    /\ OnlyAsks

\* adb forward --list for all the applications asked about; an empty list is read again for each of them.
MappedPorts(call, app) ==
    LET sockets == IF call.ids[app] = 0 THEN {} ELSE AbstractPort(call.unix, app, call.ids[app], call.framework)
        ports == UNION {AlreadyMappedEnd(s) : s \in sockets}
    IN  IF ports = {} THEN {NoPort} ELSE ports

ReadForwards(c) ==
    /\ Asked(c, "list") /\ forwardCalls[c].op = "mapped"
    /\ LET call == forwardCalls[c]
       IN  IF \A p \in Ports : forwards[p] = {}
           THEN Step(c, [call EXCEPT !.at = "relist"])
           ELSE \E answer \in [call.apps -> Ports \cup {NoPort}] :
                   /\ \A app \in call.apps : answer[app] \in MappedPorts(call, app)
                   /\ Step(c, [call EXCEPT !.answer = answer, !.at = "resolved"])
    /\ OnlyAsks

ReadForwardsAgain(c) ==
    /\ Asked(c, "relist")
    /\ LET call == forwardCalls[c]
       IN  IF DOMAIN call.answer = call.apps
           THEN Step(c, [call EXCEPT !.at = "resolved"])
           ELSE \E app \in call.apps \ DOMAIN call.answer : \E p \in MappedPorts(call, app) :
                   Step(c, [call EXCEPT !.answer = [a \in DOMAIN @ \cup {app} |-> IF a = app THEN p ELSE @[a]]])
    /\ OnlyAsks

\* forwardPort: a port that leads to the socket already, or one that is free now when
\* none is seen (the list of adb may be cut short); getFreePort closes its server, and
\* may give the port to another call as well.
Forwarded(c, p) ==
    /\ Step(c, [forwardCalls[c] EXCEPT !.port = p, !.at = "resolved"])
    /\ remembered' = p

LookForMapping(c) ==
    /\ Asked(c, "list") /\ forwardCalls[c].op \in {"map", "forward"}
    /\ LET mapped == UNION {AlreadyMapped(s) : s \in forwardCalls[c].socket}
       IN  \/ \E p \in mapped : Forwarded(c, p)
           \/ Step(c, [forwardCalls[c] EXCEPT !.at = "free"]) /\ UNCHANGED remembered
    /\ AdbOnlyRead /\ UNCHANGED attached

GetFreePort(c, p) ==
    /\ Asked(c, "free") /\ forwards[p] = {}
    /\ Step(c, [forwardCalls[c] EXCEPT !.port = p, !.at = "adb"])
    /\ given' = [given EXCEPT ![p] = @ \cup {c}]
    /\ UNCHANGED <<process, processes, forwards, remembered, attached, removed, unforwarded>>

\* adb forward tcp:port socket: whatever the port led to before is replaced.  adb may
\* fail: a known message rejects the call, after any other the port is answered and
\* remembered although it leads nowhere.
ForwardPort(c) ==
    /\ Asked(c, "adb")
    /\ \/ /\ forwards' = [forwards EXCEPT ![forwardCalls[c].port] = forwardCalls[c].socket]
          /\ Forwarded(c, forwardCalls[c].port) /\ UNCHANGED unforwarded
       \/ Fails(c) /\ UNCHANGED <<forwards, remembered, unforwarded>>
       \/ /\ Forwarded(c, forwardCalls[c].port)
          /\ unforwarded' = unforwarded \cup {c} /\ UNCHANGED forwards
    /\ UNCHANGED <<process, processes, attached, given, removed>>

\* ProcessService runs its listeners on SIGINT, SIGTERM and exit: the port that is
\* remembered for the device is removed.
RemovePortOnExit ==
    /\ attached /\ remembered # NoPort
    /\ forwards' = [forwards EXCEPT ![remembered] = {}] /\ removed' = removed \cup {remembered}
    /\ UNCHANGED <<process, processes, remembered, attached, forwardCalls, given, unforwarded>>

----------------------------------------------------------------------------
PortsInit ==
    /\ process = [app \in Targets |-> 0] /\ processes = 0
    /\ forwards = [p \in Ports |-> {}] /\ remembered = NoPort /\ attached = FALSE
    /\ forwardCalls = [c \in ForwardCalls |-> NoCall] /\ given = [p \in Ports |-> {}] /\ removed = {} /\ unforwarded = {}

PortsNext ==
    \/ \E app \in Targets : AppStarts(app) \/ AppEnds(app)
    \/ \E c \in ForwardCalls :
          \/ \E app \in Targets, framework \in {"Cordova", "NativeScript", "any"} :
                MapAbstractToTcpPort(c, app, framework) \/ GetMapped(c, Targets, framework)
          \/ \E app \in Targets : ForwardFreeTcpToAbstractPort(c, app)
          \/ GetDebuggableApps(c)
          \/ ReadProcesses(c) \/ ReadSockets(c) \/ NamingEnds(c) \/ \E s \in forwardCalls[c].unix : NameSocket(c, s)
          \/ ReadForwards(c) \/ ReadForwardsAgain(c) \/ LookForMapping(c) \/ ForwardPort(c)
          \/ \E p \in Ports : GetFreePort(c, p)
    \/ RemovePortOnExit

PortsSpec == PortsInit /\ [][PortsNext]_portVars
----------------------------------------------------------------------------
(* What makes it correct *)

\* The state has its shape, and every port leads to one socket at most.
PortsTypeOK ==
    /\ process \in [Targets -> 0 .. MaxProcesses] /\ processes \in 0 .. MaxProcesses
    /\ \A p \in Ports : Cardinality(forwards[p]) <= 1 /\ given[p] \subseteq ForwardCalls
    /\ remembered \in Ports \cup {NoPort} /\ removed \subseteq Ports
    /\ remembered # NoPort => attached
    /\ \A c \in ForwardCalls : forwardCalls[c].apps \subseteq Targets /\ Cardinality(forwardCalls[c].socket) <= 1

\* A port that a call was answered with leads to the socket that this call asked
\* for, and goes on leading there whatever other calls do.  There are three
\* exceptions: the exit listener removed it; adb failed to forward it with nobody
\* told; getFreePort gave the same port to two calls, and then it leads to what one
\* of the others asked for, never to anything else.
PortsLeadToTheirApp ==
    \A c \in ForwardCalls : LET p == forwardCalls[c].port IN
        forwardCalls[c].at = "resolved" /\ p # NoPort =>
            \/ forwards[p] = forwardCalls[c].socket
            \/ p \in removed \/ c \in unforwarded
            \/ Cardinality(given[p]) > 1 /\ \E d \in given[p] \ {c} : forwards[p] = forwardCalls[d].socket
============================================================================
