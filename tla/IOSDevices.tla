----------------------------- MODULE IOSDevices -----------------------------
(***************************************************************************)
(* iOS devices and simulators: IOSDeviceOperations owns the native library *)
(* that finds devices and works on them, IOSDeviceDiscovery makes an object *)
(* of every device found, their application managers start, stop and       *)
(* restart applications, and the logs of devices and simulators are opened *)
(* on the way.  Devices come and go while calls go on with their objects.  *)
(***************************************************************************)
EXTENDS Naturals, Sequences, FiniteSets

CONSTANTS
    Phones, Sims,   \* devices and simulators
    IosCalls,       \* calls
    NoPhone,
    MaxObjects,     \* device objects made (bound)
    MaxSimLogs      \* log processes of simulators (bound)

ASSUME IOSDevicesAssumption == NoPhone \notin Phones \cup Sims /\ MaxObjects \in Nat /\ MaxSimLogs \in Nat

VARIABLES
    lib,            \* deviceLib: "none", "alive", or "disposed" for good
    shouldDispose,
    looking,        \* startLookingForDevices: "none", "waiting", "done"
    objects,        \* IOSDevice objects: phone, present in the discovery, stream opened, log handler, sockets ...
    lastStream,     \* @cache: the last result of openDeviceLogStream, and of startDeviceLog of the managers, of all objects
    streaming,      \* devices whose log the library was asked for
    infos,          \* applicationsLiveSyncInfos of each object: were there any
    hasApp,      \* devices that have the application
    iosCalls,
    simLogs         \* IOSSimulatorLogProvider: logging enabled, log processes that live, the one remembered, and their number

iosVars == <<lib, shouldDispose, looking, objects, lastStream, streaming, infos, hasApp, iosCalls, simLogs>>

Present(o) == objects[o].present
ObjectOf(p) == {o \in DOMAIN objects : objects[o].phone = p /\ Present(o)}
NewObject(p, reachable) ==
    [phone |-> p, present |-> TRUE, reachable |-> reachable, opened |-> FALSE, logged |-> FALSE,
     handler |-> "none", late |-> FALSE, socket |-> FALSE]

LibraryUnchanged == UNCHANGED <<lib, shouldDispose, looking>>
StreamsUnchanged == UNCHANGED <<lastStream, streaming>>
AppsUnchanged == UNCHANGED <<infos, hasApp>>

----------------------------------------------------------------------------
(* The library *)

\* The library finds a device: the discovery makes an object of it.
DeviceFound(p) ==
    /\ lib = "alive" /\ ObjectOf(p) = {} /\ Len(objects) < MaxObjects
    /\ \E reachable \in BOOLEAN : objects' = Append(objects, NewObject(p, reachable))
    /\ infos' = Append(infos, FALSE)
    /\ LibraryUnchanged /\ StreamsUnchanged /\ UNCHANGED <<hasApp, iosCalls, simLogs>>

\* Mutant of Detached: the handler is left where it is.
DetachedOnly(object) == [object EXCEPT !.present = FALSE]

\* onDeviceLost calls detach, which removes the log handler, if there is one.
Detached(object) == [object EXCEPT !.present = FALSE, !.handler = IF @ = "listening" THEN "removed" ELSE @]

DeviceLost(p) ==
    /\ lib = "alive"
    /\ \E o \in ObjectOf(p) : objects' = [objects EXCEPT ![o] = Detached(objects[o])]
    /\ LibraryUnchanged /\ StreamsUnchanged /\ AppsUnchanged /\ UNCHANGED <<iosCalls, simLogs>>

\* Three ticks of two seconds, or one after a device was found.
LookingEnds ==
    /\ looking = "waiting" /\ looking' = "done"
    /\ UNCHANGED <<lib, shouldDispose, objects, iosCalls, simLogs>> /\ StreamsUnchanged /\ AppsUnchanged

\* A log is opened (FALSE), the service of live sync without --watch is made (TRUE).
SetShouldDispose(should) ==
    /\ shouldDispose' = should
    /\ UNCHANGED <<lib, looking, objects, iosCalls, simLogs>> /\ StreamsUnchanged /\ AppsUnchanged

\* dispose at the end of a command.
Dispose ==
    /\ shouldDispose /\ lib = "alive" /\ lib' = "disposed" /\ streaming' = {}
    /\ UNCHANGED <<shouldDispose, looking, objects, lastStream, iosCalls, simLogs>> /\ AppsUnchanged

\* The exit listeners: dispose whatever was said; the last socket of every object is destroyed.
DisposeOnExit ==
    /\ lib # "none" /\ shouldDispose' = TRUE
    /\ lib' = "disposed" /\ streaming' = {}
    /\ objects' = [o \in DOMAIN objects |-> [objects[o] EXCEPT !.socket = FALSE]]
    /\ UNCHANGED <<looking, lastStream, iosCalls, simLogs>> /\ AppsUnchanged

----------------------------------------------------------------------------
(* The calls: each is a list of steps on an object.  A step of the library is
   requested and answered; "log" is done by the object itself. *)

LibrarySteps == {"apps", "install", "uninstall", "upload", "read", "delete", "start", "stop", "notify", "connect"}
Tolerated == {"uninstall", "delete"}   \* whose error handler only warns

Program(op) ==
    CASE op = "startApplication" -> <<"apps", "log", "start">>
      [] op = "startJustLaunch" -> <<"apps", "start">>
      [] op = "stopApplication" -> <<"stop">>
      [] op = "restartApplication" -> <<"log", "stop", "start">>
      [] op = "openDeviceLogStream" -> <<"stream">>
      [] op = "connectToPort" -> <<"connect">>
      [] op = "isLiveSyncSupported" -> <<"apps">>
      [] op \in {"install", "uninstall", "upload", "read", "delete"} -> <<op>>   \* read: list, read or download

IosOperations == {"startApplication", "startJustLaunch", "stopApplication", "restartApplication", "openDeviceLogStream",
               "connectToPort", "isLiveSyncSupported", "install", "uninstall", "upload", "read", "delete"}

NotYet == [op |-> "none", o |-> 0, sim |-> NoPhone, todo |-> <<>>, at |-> "none", retried |-> FALSE]
AtStep(c, place) == iosCalls[c].at = place
Next1(c) == Head(iosCalls[c].todo)
Put(c, call) == iosCalls' = [iosCalls EXCEPT ![c] = call]

\* A step succeeds: the next one, or the answer.
Advance(c) ==
    LET rest == Tail(iosCalls[c].todo)
    IN  Put(c, [iosCalls[c] EXCEPT !.todo = rest,
                !.at = IF rest # <<>> THEN "step" ELSE IF Next1(c) = "notify" THEN "rejected" ELSE "resolved"])

\* A step fails: stopApplication tries once more, restartApplication posts a
\* notification before it throws, the others throw.
FailStep(c) ==
    LET call == iosCalls[c]
    IN  CASE Next1(c) = "stop" /\ ~call.retried -> Put(c, [call EXCEPT !.retried = TRUE, !.at = "step"])
          [] call.op = "restartApplication" /\ Next1(c) # "notify" /\ (Next1(c) = "stop" => call.retried) ->
                Put(c, [call EXCEPT !.todo = <<"notify">>, !.at = "step"])
          [] OTHER -> Put(c, [call EXCEPT !.at = "rejected"])

\* startLookingForDevices: one looks, all later calls are given its promise.
StartLookingForDevices(c, immediate) ==
    /\ AtStep(c, "none")
    /\ lib' = (IF looking = "none" THEN "alive" ELSE lib)
    /\ looking' = (IF looking # "none" THEN looking ELSE IF immediate THEN "done" ELSE "waiting")
    /\ Put(c, [iosCalls[c] EXCEPT !.op = "look", !.at = "looking"])
    /\ UNCHANGED <<shouldDispose, objects, simLogs>> /\ StreamsUnchanged /\ AppsUnchanged

Looked(c) ==
    /\ AtStep(c, "looking") /\ looking = "done"
    /\ Put(c, [iosCalls[c] EXCEPT !.at = "resolved"])
    /\ LibraryUnchanged /\ StreamsUnchanged /\ AppsUnchanged /\ UNCHANGED <<objects, simLogs>>

\* isLiveSyncSupported asks the device only while the object knows no applications.
Operate(c, op, o) ==
    /\ AtStep(c, "none")
    /\ LET todo == IF op = "isLiveSyncSupported" /\ infos[o] THEN <<>> ELSE Program(op)
       IN  Put(c, [NotYet EXCEPT !.op = op, !.o = o, !.todo = todo, !.at = IF todo = <<>> THEN "resolved" ELSE "step"])
    /\ LibraryUnchanged /\ StreamsUnchanged /\ AppsUnchanged /\ UNCHANGED <<objects, simLogs>>

\* A step of the library: one that is disposed is null, and the step throws.
Request(c) ==
    /\ AtStep(c, "step") /\ Next1(c) \in LibrarySteps
    /\ IF lib = "alive" THEN Put(c, [iosCalls[c] EXCEPT !.at = "pending"]) ELSE FailStep(c)
    /\ LibraryUnchanged /\ StreamsUnchanged /\ AppsUnchanged /\ UNCHANGED <<objects, simLogs>>

\* getMultipleResults: the answer of the device, or its error for the error handler.
Answered(c) ==
    /\ AtStep(c, "pending") /\ lib = "alive"
    /\ LET call == iosCalls[c]
           o == call.o
           phone == objects[o].phone
           ok == /\ (IF call.op = "startApplication" \/ call.op = "startJustLaunch"
                     THEN IF Next1(c) = "apps" /\ phone \notin hasApp THEN FailStep(c) ELSE Advance(c)
                     ELSE Advance(c))
                 /\ infos' = [infos EXCEPT ![o] = IF Next1(c) = "apps" THEN phone \in hasApp ELSE @]
                 /\ hasApp' = CASE Next1(c) = "install" -> hasApp \cup {phone}
                                   [] Next1(c) = "uninstall" -> hasApp \ {phone}
                                   [] OTHER -> hasApp
                 /\ objects' = [objects EXCEPT ![o].socket = IF Next1(c) = "connect" THEN TRUE ELSE @]
           error == /\ IF Next1(c) \in Tolerated THEN Advance(c) ELSE FailStep(c)
                    /\ AppsUnchanged /\ UNCHANGED objects
       IN  ok \/ error
    /\ LibraryUnchanged /\ StreamsUnchanged /\ UNCHANGED simLogs

\* openDeviceLogStream runs once for an object: the handler is added, and the
\* library asked for the log; a second call is given the result of whichever
\* object opened last.  startDeviceLog of the manager does the same once more.
OpenLog(c) ==
    /\ AtStep(c, "step") /\ Next1(c) \in {"log", "stream"}
    /\ LET o == iosCalls[c].o
           object == objects[o]
           cachedHere == Next1(c) = "log" /\ object.logged
           opens == ~cachedHere /\ ~object.opened
           listens == opens /\ object.reachable
           device == IF ~opens THEN lastStream.device ELSE IF listens /\ lib # "alive" THEN "rejected" ELSE "resolved"
           result == IF cachedHere THEN lastStream.manager ELSE device
       IN  /\ objects' = [objects EXCEPT ![o] = [object EXCEPT
                  !.opened = @ \/ opens, !.logged = @ \/ Next1(c) = "log",
                  !.handler = IF listens THEN "listening" ELSE @, !.late = @ \/ (listens /\ ~object.present)]]
           /\ lastStream' = [device |-> device, manager |-> IF Next1(c) = "log" THEN result ELSE lastStream.manager]
           /\ streaming' = IF listens /\ lib = "alive" THEN streaming \cup {object.phone} ELSE streaming
           /\ shouldDispose' = (shouldDispose /\ ~listens)
           /\ IF result = "resolved" THEN Advance(c) ELSE FailStep(c)
    /\ AppsUnchanged /\ UNCHANGED <<lib, looking, simLogs>>

----------------------------------------------------------------------------
(* Simulators *)

SimOnly == LibraryUnchanged /\ StreamsUnchanged /\ AppsUnchanged /\ UNCHANGED objects

\* startApplication of a simulator, then startLogProcess (by openDeviceLogStream, once for the
\* object); startNewMutedLogProcess.
StartOnSimulator(c, s, muted) ==
    /\ AtStep(c, "none")
    /\ Put(c, [NotYet EXCEPT !.op = IF muted THEN "muted" ELSE "startOnSimulator", !.sim = s, !.at = "simLog"])
    /\ UNCHANGED simLogs /\ SimOnly

\* Whether logging is enabled is seen before the process is awaited, and set after;
\* a stream that was opened before gives the promise of that time.
StartLogProcess(c) ==
    /\ AtStep(c, "simLog")
    /\ LET s == iosCalls[c].sim
           muted == iosCalls[c].op = "muted"
       IN  /\ IF ~muted /\ (simLogs[s].enabled \/ simLogs[s].opened)
              THEN \E answer \in {"resolved", "rejected"} :
                      (answer = "rejected" => simLogs[s].opened) /\ Put(c, [iosCalls[c] EXCEPT !.at = answer])
              ELSE Put(c, [iosCalls[c] EXCEPT !.at = "simProcess"])
           /\ simLogs' = [simLogs EXCEPT ![s].enabled = @ /\ ~muted, ![s].opened = @ \/ ~muted]
    /\ SimOnly

LogProcessStarts(c) ==
    /\ AtStep(c, "simProcess")
    /\ LET s == iosCalls[c].sim
           n == simLogs[s].number + 1
       IN  \/ /\ n <= MaxSimLogs
              /\ simLogs' = [simLogs EXCEPT ![s] = [simLogs[s] EXCEPT !.enabled = iosCalls[c].op # "muted", !.live = @ \cup {n},
                                                             !.process = n, !.number = n]]
              /\ Put(c, [iosCalls[c] EXCEPT !.at = "resolved"])
           \/ Put(c, [iosCalls[c] EXCEPT !.at = "rejected"]) /\ UNCHANGED simLogs
    /\ SimOnly

\* A log process closes: whichever it is, logging is not enabled any more.
LogProcessEnds(s, n) ==
    /\ n \in simLogs[s].live
    /\ simLogs' = [simLogs EXCEPT ![s].live = @ \ {n}, ![s].enabled = FALSE]
    /\ UNCHANGED iosCalls /\ SimOnly

\* dispose kills the process that is remembered, unless the log command forbids it.
DisposeSimulatorLog(s) == simLogs[s].process # 0 /\ LogProcessEnds(s, simLogs[s].process)

----------------------------------------------------------------------------
IOSInit ==
    /\ lib = "none" /\ shouldDispose = TRUE /\ looking = "none"
    /\ objects = <<>> /\ lastStream = [device |-> "resolved", manager |-> "resolved"] /\ streaming = {}
    /\ infos = <<>> /\ hasApp \in SUBSET Phones
    /\ iosCalls = [c \in IosCalls |-> NotYet]
    /\ simLogs = [s \in Sims |-> [enabled |-> FALSE, opened |-> FALSE, live |-> {}, process |-> 0, number |-> 0]]

IOSNext ==
    \/ \E p \in Phones : DeviceFound(p) \/ DeviceLost(p)
    \/ LookingEnds \/ Dispose \/ DisposeOnExit \/ SetShouldDispose(TRUE)
    \/ \E c \in IosCalls :
          \/ \E immediate \in BOOLEAN : StartLookingForDevices(c, immediate)
          \/ \E op \in IosOperations, o \in DOMAIN objects : Operate(c, op, o)
          \/ Looked(c) \/ Request(c) \/ Answered(c) \/ OpenLog(c)
          \/ \E s \in Sims, muted \in BOOLEAN : StartOnSimulator(c, s, muted)
          \/ StartLogProcess(c) \/ LogProcessStarts(c)
    \/ \E s \in Sims : DisposeSimulatorLog(s) \/ \E n \in 1 .. MaxSimLogs : LogProcessEnds(s, n)

IOSSpec == IOSInit /\ [][IOSNext]_iosVars

----------------------------------------------------------------------------
(* What makes it correct *)

\* The state has its shape; there is one object for each device that is attached.
IOSTypeOK ==
    /\ lib \in {"none", "alive", "disposed"} /\ (lib = "none" <=> looking = "none")
    /\ Len(objects) <= MaxObjects /\ Len(infos) = Len(objects)
    /\ \A p \in Phones : Cardinality(ObjectOf(p)) <= 1
    /\ streaming \subseteq Phones /\ hasApp \subseteq Phones
    /\ \A c \in IosCalls : iosCalls[c].at \in {"none", "looking", "step", "pending", "simLog", "simProcess", "resolved", "rejected"}
    /\ \A s \in Sims : simLogs[s].live \subseteq 1 .. simLogs[s].number /\ simLogs[s].process = simLogs[s].number

\* The log of a device is told by the object of the device that is attached: one
\* that was lost does not listen any more, so that no line is told twice after the
\* device is found again; unless a call in flight opened the stream of an object
\* that was lost before.
ListensWhileAttached == \A o \in DOMAIN objects : objects[o].handler = "listening" => Present(o) \/ objects[o].late
============================================================================
