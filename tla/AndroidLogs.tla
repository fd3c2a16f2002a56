---------------------------- MODULE AndroidLogs ----------------------------
(***************************************************************************)
(* The log of an Android device: calls of AndroidApplicationManager start, *)
(* stop and restart applications, LogcatHelper keeps one logcat process    *)
(* for the device, and DeviceLogProvider remembers the process id whose    *)
(* lines it lets through.  Applications die and logcat ends on their own.  *)
(***************************************************************************)
EXTENDS Naturals

CONSTANTS
    Apps,           \* applications
    LogCalls,       \* calls of the application manager and of AndroidDevice.openDeviceLogStream
    MaxLaunches,    \* how many processes of applications are launched (bound)
    MaxLogcats      \* how many logcat processes are spawned (bound)

ASSUME AndroidLogsAssumption == Apps # {} /\ MaxLaunches \in Nat /\ MaxLogcats \in Nat

VARIABLES
    pid,            \* the process id of each application on the device, or 0
    launches,       \* process ids given so far
    logcats,        \* logcat processes that live and have not been killed
    spawnedLogcats, \* logcat processes spawned so far
    logEntry,       \* mapDevicesLoggingData of the device: is there an entry, its process (0: null), keepSingleProcess
    filterPid,      \* applicationPid of the device's log options, or 0
    logCalls        \* the calls: operation, application, place, process id found

logsVars == <<pid, launches, logcats, spawnedLogcats, logEntry, filterPid, logCalls>>

NoEntry == [there |-> FALSE, process |-> 0, keep |-> FALSE]
NotCalled == [op |-> "none", app |-> CHOOSE app \in Apps : TRUE, at |-> "none", pid |-> 0]

LogOperations == {"start", "justLaunch", "stop", "restart", "stream"}
Places == {"none", "launch", "poll", "begin", "opening", "stop", "forceStop", "resolved", "rejected"}

CallAt(c, place) == logCalls[c].at = place
Go(c, place) == logCalls' = [logCalls EXCEPT ![c].at = place]
DeviceUnchanged == UNCHANGED <<pid, launches>>
HelperUnchanged == UNCHANGED <<logcats, spawnedLogcats, logEntry>>

----------------------------------------------------------------------------
(* What happens on its own *)

AppDies(app) ==
    /\ pid[app] # 0
    /\ pid' = [pid EXCEPT ![app] = 0]
    /\ UNCHANGED <<launches, filterPid, logCalls>> /\ HelperUnchanged

\* LogcatHelper.stop of an entry that has a process: kill it and forget it, unless it is kept.
StopEntry ==
    IF logEntry.there /\ ~logEntry.keep
    THEN logcats' = logcats \ {logEntry.process} /\ logEntry' = NoEntry
    ELSE UNCHANGED <<logcats, logEntry>>

\* logcat ends, say because the device was detached; the handler of "close" calls
\* stop, and the entry of a process that is kept stays although the process is gone.
LogcatEnds(n) ==
    /\ n \in logcats
    /\ logcats' = logcats \ {n}
    /\ logEntry' = IF logEntry.keep THEN logEntry ELSE NoEntry
    /\ DeviceUnchanged /\ UNCHANGED <<spawnedLogcats, filterPid, logCalls>>

----------------------------------------------------------------------------
(* The calls *)

\* setApplicationPidForDevice: the options of the device are made when there are none.
SetApplicationPid(id) == filterPid' = id

\* startApplication, stopApplication, restartApplication, openDeviceLogStream of a connected device.
CallApp(c, op, app) ==
    /\ CallAt(c, "none")
    /\ logCalls' = [logCalls EXCEPT ![c] =
          [op |-> op, app |-> app, pid |-> 0,
           at |-> CASE op \in {"start", "justLaunch"} -> "launch" [] op \in {"stop", "restart"} -> "stop" [] op = "stream" -> "begin"]]
    /\ DeviceUnchanged /\ HelperUnchanged /\ UNCHANGED filterPid

\* am start, or monkey: a process unless there is one already.  adb may fail, and
\* then mostly nobody is told: the call goes on without a process.
Launch(c) ==
    /\ CallAt(c, "launch")
    /\ LET app == logCalls[c].app
       IN  \/ /\ pid[app] = 0 /\ launches < MaxLaunches
              /\ launches' = launches + 1 /\ pid' = [pid EXCEPT ![app] = launches + 1]
              /\ Go(c, IF logCalls[c].op = "justLaunch" THEN "resolved" ELSE "poll")
           \/ /\ DeviceUnchanged
              /\ Go(c, IF logCalls[c].op = "justLaunch" THEN "resolved" ELSE "poll") \/ Go(c, "rejected")
    /\ HelperUnchanged /\ UNCHANGED filterPid

\* getAppProcessId: the process id, by which the lines are filtered from now on; or
\* none is seen for ten seconds (ps may fail as well), a dump of the log and an error.
PollPid(c) ==
    /\ CallAt(c, "poll")
    /\ LET found == pid[logCalls[c].app]
       IN  \/ /\ found # 0
              /\ SetApplicationPid(found)
              /\ logCalls' = [logCalls EXCEPT ![c].at = "begin", ![c].pid = found]
           \/ Go(c, "rejected") /\ UNCHANGED filterPid
    /\ DeviceUnchanged /\ HelperUnchanged

\* Mutant of BeginLogcat: the entry is made after the stream was awaited.
BeginUnmarked(c) ==
    /\ CallAt(c, "begin")
    /\ IF logEntry.there /\ logEntry.process # 0
       THEN Go(c, "resolved") /\ UNCHANGED logEntry
       ELSE Go(c, "opening") /\ logEntry' = [there |-> TRUE, process |-> 0, keep |-> logCalls[c].op = "stream"]
    /\ DeviceUnchanged /\ UNCHANGED <<logcats, spawnedLogcats, filterPid>>

\* LogcatHelper.start: nothing when there is an entry; otherwise the entry is made before the stream is awaited.
BeginLogcat(c) ==
    /\ CallAt(c, "begin")
    /\ IF logEntry.there
       THEN Go(c, "resolved") /\ UNCHANGED logEntry
       ELSE Go(c, "opening") /\ logEntry' = [there |-> TRUE, process |-> 0, keep |-> logCalls[c].op = "stream"]
    /\ DeviceUnchanged /\ UNCHANGED <<logcats, spawnedLogcats, filterPid>>

\* The stream is there: its process goes into the entry.
StreamOpens(c) ==
    /\ CallAt(c, "opening") /\ spawnedLogcats < MaxLogcats
    /\ spawnedLogcats' = spawnedLogcats + 1 /\ logcats' = logcats \cup {spawnedLogcats + 1}
    /\ logEntry' = [logEntry EXCEPT !.process = spawnedLogcats + 1]
    /\ Go(c, "resolved")
    /\ DeviceUnchanged /\ UNCHANGED filterPid

\* getDevice does not find the device any more: the entry stays as it is.
StreamFails(c) ==
    /\ CallAt(c, "opening")
    /\ Go(c, "rejected")
    /\ DeviceUnchanged /\ HelperUnchanged /\ UNCHANGED filterPid

\* LogcatHelper.stop throws when the entry has no process yet, and with it the
\* call; otherwise the lines of all processes pass again.
StopLog(c) ==
    /\ CallAt(c, "stop")
    /\ IF logEntry.there /\ ~logEntry.keep /\ logEntry.process = 0
       THEN Go(c, "rejected") /\ UNCHANGED <<logcats, logEntry, filterPid>>
       ELSE StopEntry /\ SetApplicationPid(0) /\ Go(c, "forceStop")
    /\ DeviceUnchanged /\ UNCHANGED spawnedLogcats

\* am force-stop; restartApplication goes on with startApplication, also when the
\* command failed with nobody told.
ForceStop(c) ==
    /\ CallAt(c, "forceStop")
    /\ \/ /\ pid' = [pid EXCEPT ![logCalls[c].app] = 0] \/ UNCHANGED pid
          /\ Go(c, IF logCalls[c].op = "restart" THEN "launch" ELSE "resolved")
       \/ /\ Go(c, "rejected") /\ UNCHANGED pid
    /\ HelperUnchanged /\ UNCHANGED <<launches, filterPid>>

----------------------------------------------------------------------------
LogsInit ==
    /\ pid = [app \in Apps |-> 0] /\ launches = 0
    /\ logcats = {} /\ spawnedLogcats = 0 /\ logEntry = NoEntry /\ filterPid = 0
    /\ logCalls = [c \in LogCalls |-> NotCalled]

LogsNext ==
    \/ \E app \in Apps : AppDies(app)
    \/ \E n \in logcats : LogcatEnds(n)
    \/ \E c \in LogCalls :
          \/ \E op \in LogOperations, app \in Apps : CallApp(c, op, app)
          \/ Launch(c) \/ PollPid(c) \/ BeginLogcat(c) \/ StreamOpens(c) \/ StreamFails(c)
          \/ StopLog(c) \/ ForceStop(c)

LogsSpec == LogsInit /\ [][LogsNext]_logsVars

----------------------------------------------------------------------------
(* What makes it correct *)

\* The state has its shape.
LogsTypeOK ==
    /\ pid \in [Apps -> Nat] /\ launches \in Nat
    /\ spawnedLogcats \in Nat /\ logcats \subseteq 1 .. spawnedLogcats
    /\ logEntry \in [there : BOOLEAN, process : Nat, keep : BOOLEAN]
    /\ filterPid \in Nat
    /\ logCalls \in [LogCalls -> [op : LogOperations \cup {"none"}, app : Apps, at : Places, pid : Nat]]

\* Whatever starts and stops overlap, every logcat process that LogcatHelper
\* spawned and did not kill is the one in the map: none runs on unnoticed.
OneLogProcess == \A n \in logcats : logEntry.there /\ logEntry.process = n
============================================================================
