---------------------------- MODULE MCDeviceTools ----------------------------
(* The tools that work on devices: emulators, logs, forwarded ports, files and
   iOS devices.  They share no state (discovery and start of emulators only the
   images of the AVD service), so each behaviour runs one of them, its focus. *)
EXTENDS Emulators, AndroidLogs, PortForwarding, DeviceFiles, IOSDevices, TLC

CONSTANTS AppA, AppB, WebViewApp, DebugApp, Device

VARIABLE focus

KindOfApp == WebViewApp :> "webview" @@ DebugApp :> "debug"
\* The second process id ends with the first, as 21 ends with 1.
EndsWithFirst == {<<2, 1>>}
OneService == {<<Device, AppA>>}
\* Calls are numbered and interchangeable: they begin in the order of their numbers
\* (as are the applications of the logs: the first call is about AppA).
InTurn(calls) == \A c \in DOMAIN calls : c # 1 /\ calls[c].at # "none" => calls[c - 1].at # "none"

\* Of the calls on phones, the last one opens a log.
OpensLog(call) == call.op \in {"none", "startApplication", "restartApplication", "openDeviceLogStream"}

DeviceToolsInit ==
    /\ focus \in {"start", "discovery", "logs", "ports", "transfers", "hashes", "phones", "simulators"}
    /\ EmulatorsInit /\ LogsInit /\ PortsInit /\ FilesInit /\ IOSInit
    /\ focus # "hashes" => \A s \in Services : hashFile[s] = NoHashes
    /\ focus # "transfers" => \A s \in Services : platform[s] = "Android"
    /\ focus # "phones" => hasApp = {}

\* The first transfer is of everything, in two chunks, the second of everything or of
\* one file, which may change.
OneFile == CHOOSE f \in Files : TRUE
TransferBeginsWith(c, items) == items = Items \/ (c # 1 /\ items = {OneFile})
NewTransfers == {c \in FileCalls : In(c, "none") /\ fileCalls'[c].at # "none"}

ProjectChanges == \E f \in Files : FileChanges(f)

DeviceToolsNext ==
    /\ UNCHANGED focus
    /\ focus \notin {"start", "discovery"} => UNCHANGED emulatorsVars
    /\ focus # "logs" => UNCHANGED logsVars
    /\ focus # "ports" => UNCHANGED portVars
    /\ focus \notin {"transfers", "hashes"} => UNCHANGED filesVars
    /\ focus \notin {"phones", "simulators"} => UNCHANGED iosVars
    /\ \/ focus = "start" /\ EmulatorsNext /\ UNCHANGED known /\ list'["discovery"] = list["discovery"]
       \/ focus = "discovery" /\ EmulatorsNext /\ UNCHANGED start
       \/ focus = "logs" /\ LogsNext /\ (logCalls'[1].at # "none" => logCalls'[1].app = AppA)
       \/ focus = "ports" /\ PortsNext
       \/ focus = "transfers" /\ (TransferNext \/ \E f \in Files : f = OneFile /\ FileChanges(f)) /\ \A c \in NewTransfers : TransferBeginsWith(c, fileCalls'[c].items)
       \/ focus = "hashes" /\ (HashNext \/ ProjectChanges \/ \E s \in Services : InstallApplication(s))
       \/ focus = "phones" /\ IOSNext /\ (\A c \in IosCalls : iosCalls'[c].sim = NoPhone) /\ OpensLog(iosCalls'[3])
       \/ focus = "simulators" /\ IOSNext /\ UNCHANGED objects /\ UNCHANGED lib
    /\ InTurn(logCalls') /\ InTurn(forwardCalls') /\ InTurn(fileCalls') /\ InTurn(iosCalls')

DeviceToolsSpec == DeviceToolsInit /\ [][DeviceToolsNext]_<<focus, emulatorsVars, logsVars, portVars, filesVars, iosVars>>

\* The states of all the tools have their shapes.
DeviceToolsTypeOK == EmulatorsTypeOK /\ LogsTypeOK /\ PortsTypeOK /\ FilesTypeOK /\ IOSTypeOK
==============================================================================
