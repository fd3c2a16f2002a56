-------------------------- MODULE DeviceToolsProofs --------------------------
(***************************************************************************)
(* The tools that work on devices, for any devices, applications, calls    *)
(* and bounds: the logcat process of an Android device, iOS devices and    *)
(* their logs, emulators, forwarded ports and the files of applications.   *)
(***************************************************************************)
EXTENDS MCDeviceTools, SequenceTheorems, FiniteSetTheorems, TLAPS

-----------------------------------------------------------------------------
(***************************************************************************)
(* The log of an Android device.  No logcat process runs that LogcatHelper *)
(* has lost: the entry of the map is made before the stream is awaited, so *)
(* that at most one call awaits one, and stop throws while the entry has   *)
(* no process yet.                                                         *)
(***************************************************************************)

\* One call awaits the stream, and its entry has no process; so no logcat lives.
OneOpening ==
    \A c \in LogCalls : CallAt(c, "opening") =>
        /\ logEntry.there /\ logEntry.process = 0
        /\ \A d \in LogCalls : CallAt(d, "opening") => d = c

LogsIInv == LogsTypeOK /\ OneOpening /\ OneLogProcess

\* A call only changes its own place: Go and the actions that do not touch the helper.
LEMMA GoIsTyped ==
    ASSUME LogsTypeOK, NEW c \in LogCalls, NEW place \in Places, Go(c, place)
    PROVE  /\ logCalls' \in [LogCalls -> [op : LogOperations \cup {"none"}, app : Apps, at : Places, pid : Nat]]
           /\ logCalls'[c].at = place
           /\ \A d \in LogCalls \ {c} : logCalls'[d] = logCalls[d]
BY DEF LogsTypeOK, Go

\* The state has its shape to begin with and nothing is open.
LEMMA LogsInitIInv == LogsInit => LogsIInv
<1>1. (CHOOSE app \in Apps : TRUE) \in Apps
  BY AndroidLogsAssumption
<1> SUFFICES ASSUME LogsInit PROVE LogsIInv
  OBVIOUS
<1>2. NotCalled \in [op : LogOperations \cup {"none"}, app : Apps, at : Places, pid : Nat] /\ NotCalled.at = "none"
  BY <1>1 DEF NotCalled, Places
<1>3. NoEntry \in [there : BOOLEAN, process : Nat, keep : BOOLEAN]
  BY DEF NoEntry
<1>4. LogsTypeOK
  BY <1>2, <1>3 DEF LogsInit, LogsTypeOK
<1>5. OneOpening /\ OneLogProcess
  BY <1>2 DEF LogsInit, OneOpening, OneLogProcess, CallAt
<1> QED
  BY <1>4, <1>5 DEF LogsIInv

\* While a call awaits the stream, no logcat lives.
LEMMA NoneWhileOpening ==
    ASSUME LogsIInv, NEW c \in LogCalls, CallAt(c, "opening")
    PROVE  logcats = {}
BY DEF LogsIInv, LogsTypeOK, OneOpening, OneLogProcess

\* A step that leaves the helper alone and moves at most one call, not to "opening".
LEMMA ElsewhereKeepsIInv ==
    ASSUME LogsIInv, LogsTypeOK', HelperUnchanged,
           \A d \in LogCalls : logCalls'[d].at = "opening" => logCalls[d].at = "opening"
    PROVE  LogsIInv'
BY DEF LogsIInv, OneOpening, OneLogProcess, HelperUnchanged, CallAt

LEMMA LogsNextIInv == LogsIInv /\ [LogsNext]_logsVars => LogsIInv'
<1> SUFFICES ASSUME LogsIInv, [LogsNext]_logsVars PROVE LogsIInv'
  OBVIOUS
<1>t. LogsTypeOK
  BY DEF LogsIInv
<1>1. ASSUME NEW app \in Apps, AppDies(app) PROVE LogsIInv'
  <2>1. LogsTypeOK'
    BY <1>1, <1>t DEF AppDies, LogsTypeOK, HelperUnchanged
  <2> QED
    BY <1>1, <2>1, ElsewhereKeepsIInv DEF AppDies
<1>2. ASSUME NEW n \in logcats, LogcatEnds(n) PROVE LogsIInv'
  <2>1. LogsTypeOK'
    BY <1>2, <1>t DEF LogcatEnds, LogsTypeOK, NoEntry, DeviceUnchanged
  <2>2. logcats' = {} /\ \A c \in LogCalls : ~CallAt(c, "opening")
    BY <1>2, NoneWhileOpening DEF LogcatEnds, LogsIInv, OneLogProcess
  <2> QED
    BY <1>2, <2>1, <2>2 DEF LogcatEnds, LogsIInv, OneOpening, OneLogProcess, CallAt
<1>3. ASSUME NEW c \in LogCalls, NEW op \in LogOperations, NEW app \in Apps, CallApp(c, op, app) PROVE LogsIInv'
  <2>1. LogsTypeOK'
    BY <1>3, <1>t DEF CallApp, LogsTypeOK, LogOperations, Places, DeviceUnchanged, HelperUnchanged
  <2>2. \A d \in LogCalls : logCalls'[d].at = "opening" => logCalls[d].at = "opening"
    BY <1>3, <1>t DEF CallApp, LogsTypeOK, LogOperations
  <2> QED
    BY <1>3, <2>1, <2>2, ElsewhereKeepsIInv DEF CallApp
<1>4. ASSUME NEW c \in LogCalls, Launch(c) PROVE LogsIInv'
  <2>1. PICK place \in Places : Go(c, place) /\ place # "opening"
    BY <1>4 DEF Launch, Places
  <2>2. LogsTypeOK'
    BY <1>4, <1>t, <2>1, GoIsTyped DEF Launch, LogsTypeOK, DeviceUnchanged, HelperUnchanged
  <2> QED
    BY <1>4, <1>t, <2>1, <2>2, GoIsTyped, ElsewhereKeepsIInv DEF Launch
<1>5. ASSUME NEW c \in LogCalls, PollPid(c) PROVE LogsIInv'
  <2>1. pid[logCalls[c].app] \in Nat
    BY <1>t DEF LogsTypeOK
  <2>2. LogsTypeOK'
    BY <1>5, <1>t, <2>1 DEF PollPid, SetApplicationPid, Go, LogsTypeOK, Places, DeviceUnchanged, HelperUnchanged
  <2>3. \A d \in LogCalls : logCalls'[d].at = "opening" => logCalls[d].at = "opening"
    BY <1>5, <1>t DEF PollPid, Go, LogsTypeOK
  <2> QED
    BY <1>5, <2>2, <2>3, ElsewhereKeepsIInv DEF PollPid
<1>6. ASSUME NEW c \in LogCalls, BeginLogcat(c) PROVE LogsIInv'
  <2>1. CASE logEntry.there
    <3>1. Go(c, "resolved") /\ HelperUnchanged
      BY <1>6, <2>1 DEF BeginLogcat, HelperUnchanged
    <3>2. LogsTypeOK'
      BY <1>6, <1>t, <3>1, GoIsTyped DEF BeginLogcat, LogsTypeOK, DeviceUnchanged, HelperUnchanged, Places
    <3> QED
      BY <1>t, <3>1, <3>2, GoIsTyped, ElsewhereKeepsIInv DEF Places
  <2>2. CASE ~logEntry.there
    <3>1. /\ Go(c, "opening")
          /\ logEntry' = [there |-> TRUE, process |-> 0, keep |-> logCalls[c].op = "stream"]
          /\ UNCHANGED <<logcats, spawnedLogcats>>
      BY <1>6, <2>2 DEF BeginLogcat
    <3>2. LogsTypeOK'
      BY <1>6, <1>t, <3>1, GoIsTyped DEF BeginLogcat, LogsTypeOK, DeviceUnchanged, Places
    <3>3. logcats = {} /\ \A d \in LogCalls : ~CallAt(d, "opening")
      BY <2>2 DEF LogsIInv, OneOpening, OneLogProcess
    <3>4. \A d \in LogCalls : logCalls'[d].at = "opening" => d = c
      BY <1>t, <3>1, <3>3, GoIsTyped DEF CallAt, Places
    <3> QED
      BY <3>1, <3>2, <3>3, <3>4 DEF LogsIInv, OneOpening, OneLogProcess, CallAt
  <2> QED
    BY <2>1, <2>2
<1>7. ASSUME NEW c \in LogCalls, StreamOpens(c) PROVE LogsIInv'
  <2>2. logcats' = {spawnedLogcats + 1} /\ logEntry.there
    BY <1>7, NoneWhileOpening DEF StreamOpens, LogsIInv, OneOpening
  <2>e. logEntry' \in [there : BOOLEAN, process : Nat, keep : BOOLEAN]
    BY <1>7, <1>t DEF StreamOpens, LogsTypeOK
  <2>l. spawnedLogcats' \in Nat /\ logcats' \subseteq 1 .. spawnedLogcats'
    BY <1>7, <1>t, <2>2 DEF StreamOpens, LogsTypeOK
  <2>p. Go(c, "resolved") /\ "resolved" \in Places
    BY <1>7 DEF StreamOpens, Places
  <2>1. LogsTypeOK'
    BY <1>7, <1>t, <2>e, <2>l, <2>p, GoIsTyped DEF StreamOpens, LogsTypeOK, DeviceUnchanged
  <2>3. logEntry'.there /\ logEntry'.process = spawnedLogcats + 1
    BY <1>7, <1>t, <2>2 DEF StreamOpens, LogsTypeOK
  <2>4. \A d \in LogCalls : logCalls'[d].at # "opening"
    BY <1>7, <1>t, GoIsTyped DEF StreamOpens, LogsIInv, OneOpening, CallAt, Places
  <2> QED
    BY <2>1, <2>2, <2>3, <2>4 DEF LogsIInv, OneOpening, OneLogProcess, CallAt
<1>8. ASSUME NEW c \in LogCalls, StreamFails(c) PROVE LogsIInv'
  <2>1. LogsTypeOK'
    BY <1>8, <1>t, GoIsTyped DEF StreamFails, LogsTypeOK, DeviceUnchanged, HelperUnchanged, Places
  <2> QED
    BY <1>8, <1>t, <2>1, GoIsTyped, ElsewhereKeepsIInv DEF StreamFails, Places
<1>9. ASSUME NEW c \in LogCalls, StopLog(c) PROVE LogsIInv'
  <2>1. PICK place \in Places : Go(c, place) /\ place # "opening"
    BY <1>9 DEF StopLog, Places
  <2>n. NoEntry \in [there : BOOLEAN, process : Nat, keep : BOOLEAN]
    BY DEF NoEntry
  <2>d. spawnedLogcats' = spawnedLogcats /\ (StopEntry \/ UNCHANGED <<logcats, logEntry>>)
    BY <1>9 DEF StopLog
  <2>e. /\ logEntry' \in [there : BOOLEAN, process : Nat, keep : BOOLEAN]
        /\ logcats' \subseteq logcats
    BY <1>t, <2>d, <2>n DEF StopEntry, LogsTypeOK
  <2>f. filterPid' \in Nat /\ UNCHANGED <<pid, launches>>
    BY <1>9, <1>t DEF StopLog, SetApplicationPid, LogsTypeOK, DeviceUnchanged
  <2>2. LogsTypeOK'
    BY <1>t, <2>1, <2>d, <2>e, <2>f, GoIsTyped DEF LogsTypeOK
  <2>3. CASE logEntry.there /\ ~logEntry.keep /\ logEntry.process # 0
    <3>1. logcats' = {}
      BY <1>9, <2>3 DEF StopLog, StopEntry, LogsIInv, OneLogProcess
    <3>2. \A d \in LogCalls : ~CallAt(d, "opening")
      BY <2>3 DEF LogsIInv, OneOpening
    <3> QED
      BY <1>t, <2>1, <2>2, <3>1, <3>2, GoIsTyped DEF LogsIInv, OneOpening, OneLogProcess, CallAt
  <2>4. CASE ~(logEntry.there /\ ~logEntry.keep /\ logEntry.process # 0)
    <3>1. HelperUnchanged
      BY <1>9, <2>4 DEF StopLog, StopEntry, HelperUnchanged
    <3> QED
      BY <1>t, <2>1, <2>2, <3>1, GoIsTyped, ElsewhereKeepsIInv
  <2> QED
    BY <2>3, <2>4
<1>10. ASSUME NEW c \in LogCalls, ForceStop(c) PROVE LogsIInv'
  <2>1. PICK place \in Places : Go(c, place) /\ place # "opening"
    BY <1>10 DEF ForceStop, Places
  <2>2. LogsTypeOK'
    BY <1>10, <1>t, <2>1, GoIsTyped DEF ForceStop, LogsTypeOK, HelperUnchanged
  <2> QED
    BY <1>10, <1>t, <2>1, <2>2, GoIsTyped, ElsewhereKeepsIInv DEF ForceStop
<1>11. CASE UNCHANGED logsVars
  BY <1>11 DEF logsVars, LogsIInv, LogsTypeOK, OneOpening, OneLogProcess, CallAt
<1> QED
  BY <1>1, <1>2, <1>3, <1>4, <1>5, <1>6, <1>7, <1>8, <1>9, <1>10, <1>11 DEF LogsNext

\* The invariant of the log of a device holds in every state that can be reached.
THEOREM LogsInvariant == LogsSpec => []LogsIInv
<1>1. LogsInit => LogsIInv
  BY LogsInitIInv
<1>2. LogsIInv /\ [LogsNext]_logsVars => LogsIInv'
  BY LogsNextIInv
<1> QED
  BY <1>1, <1>2, PTL DEF LogsSpec

\* No logcat process that LogcatHelper spawned runs on unnoticed.
THEOREM LogsOneLogProcess == LogsSpec => []OneLogProcess
<1>1. LogsIInv => OneLogProcess
  BY DEF LogsIInv
<1> QED
  BY <1>1, LogsInvariant, PTL

\* The state of the log of a device has its shape.
THEOREM LogsTypeCorrect == LogsSpec => []LogsTypeOK
<1>1. LogsIInv => LogsTypeOK
  BY DEF LogsIInv
<1> QED
  BY <1>1, LogsInvariant, PTL

-----------------------------------------------------------------------------
(* iOS devices *)

ObjectSet ==
    [phone : Phones, present : BOOLEAN, reachable : BOOLEAN, opened : BOOLEAN, logged : BOOLEAN,
     handler : {"none", "listening", "removed"}, late : BOOLEAN, socket : BOOLEAN]

IosSteps == LibrarySteps \cup {"log", "stream"}
IosPlaces == {"none", "looking", "step", "pending", "simLog", "simProcess", "resolved", "rejected"}
IosCallSet ==
    [op : IosOperations \cup {"none", "look", "muted", "startOnSimulator"}, o : Nat, sim : Sims \cup {NoPhone},
     todo : Seq(IosSteps), at : IosPlaces, retried : BOOLEAN]

\* The objects of the devices that were found, one for each that is attached.
ObjectsOK ==
    /\ objects \in Seq(ObjectSet) /\ Len(objects) <= MaxObjects
    /\ \A o, p \in DOMAIN objects :
          Present(o) /\ Present(p) /\ objects[o].phone = objects[p].phone => o = p
    /\ infos \in Seq(BOOLEAN) /\ Len(infos) = Len(objects)

LibraryOK ==
    /\ lib \in {"none", "alive", "disposed"} /\ looking \in {"none", "waiting", "done"}
    /\ lib = "none" <=> looking = "none"
    /\ streaming \subseteq Phones /\ hasApp \subseteq Phones

\* A call that works on an object has one of those made, and has something left to do.
IosCallOK(call, made) ==
    /\ call \in IosCallSet
    /\ call.at \in {"step", "pending"} => call.o \in made /\ call.todo # <<>>
    /\ call.at \in {"simLog", "simProcess"} => call.sim \in Sims
IosCallsOK == DOMAIN iosCalls = IosCalls /\ \A c \in IosCalls : IosCallOK(iosCalls[c], DOMAIN objects)

SimLogSet == [enabled : BOOLEAN, opened : BOOLEAN, live : SUBSET Nat, process : Nat, number : Nat]
SimLogsOK ==
    /\ simLogs \in [Sims -> SimLogSet]
    /\ \A s \in Sims : simLogs[s].live \subseteq 1 .. simLogs[s].number /\ simLogs[s].process = simLogs[s].number

IOSInv == ObjectsOK /\ LibraryOK /\ IosCallsOK /\ SimLogsOK /\ ListensWhileAttached

\* The calls after one of them went on, and after an object was made.
LEMMA IosPut ==
    ASSUME IosCallsOK, NEW c \in IosCalls, NEW call, Put(c, call), IosCallOK(call, DOMAIN objects),
           DOMAIN objects' = DOMAIN objects
    PROVE  IosCallsOK'
BY DEF IosCallsOK, Put

\* A step succeeds or fails: the call goes on, or is answered.
LEMMA IosGoesOn ==
    ASSUME IosCallsOK, NEW c \in IosCalls, iosCalls[c].at \in {"step", "pending"},
           Advance(c) \/ FailStep(c), DOMAIN objects' = DOMAIN objects
    PROVE  IosCallsOK'
<1> DEFINE call == iosCalls[c]
<1>1. IosCallOK(call, DOMAIN objects)
  BY DEF IosCallsOK
<1>2. call.todo \in Seq(IosSteps) /\ call.todo # <<>>
  BY <1>1 DEF IosCallOK, IosCallSet
<1>3. Tail(call.todo) \in Seq(IosSteps)
  BY <1>2
<1>4. <<"notify">> \in Seq(IosSteps) /\ <<"notify">> # <<>>
  BY DEF IosSteps, LibrarySteps
<1>5. CASE Advance(c)
  <2> DEFINE rest == Tail(call.todo)
             next == [call EXCEPT !.todo = rest,
                        !.at = IF rest # <<>> THEN "step" ELSE IF Next1(c) = "notify" THEN "rejected" ELSE "resolved"]
  <2>1. IosCallOK(next, DOMAIN objects)
    BY <1>1, <1>3 DEF IosCallOK, IosCallSet, IosPlaces
  <2>2. Put(c, next)
    BY <1>5 DEF Advance
  <2> HIDE DEF next
  <2> QED
    BY <2>1, <2>2, IosPut
<1>6. CASE FailStep(c)
  <2> DEFINE again == [call EXCEPT !.retried = TRUE, !.at = "step"]
             notify == [call EXCEPT !.todo = <<"notify">>, !.at = "step"]
             reject == [call EXCEPT !.at = "rejected"]
  <2>1. /\ IosCallOK(again, DOMAIN objects) /\ IosCallOK(notify, DOMAIN objects)
        /\ IosCallOK(reject, DOMAIN objects)
    BY <1>1, <1>4 DEF IosCallOK, IosCallSet, IosPlaces
  <2>2. Put(c, again) \/ Put(c, notify) \/ Put(c, reject)
    BY <1>6 DEF FailStep
  <2> HIDE DEF again, notify, reject
  <2> QED
    BY <2>1, <2>2, IosPut
<1> QED
  BY <1>5, <1>6

\* One of the objects is changed, but not to listen where none is attached, nor
\* to be attached again, nor to be of another device.
LEMMA ObjectChanges ==
    ASSUME ObjectsOK, ListensWhileAttached, NEW o \in DOMAIN objects, NEW object \in ObjectSet,
           objects' = [objects EXCEPT ![o] = object],
           object.phone = objects[o].phone, object.present => Present(o),
           object.handler = "listening" => object.present \/ object.late,
           infos' \in Seq(BOOLEAN) /\ Len(infos') = Len(infos)
    PROVE  ObjectsOK' /\ ListensWhileAttached' /\ DOMAIN objects' = DOMAIN objects
<1>1. objects \in Seq(ObjectSet) /\ DOMAIN objects = 1 .. Len(objects) /\ Len(objects) \in Nat
  BY DEF ObjectsOK
<1>2. /\ objects' \in Seq(ObjectSet) /\ Len(objects') = Len(objects)
      /\ \A j \in 1 .. Len(objects) : objects'[j] = IF j = o THEN object ELSE objects[j]
  BY <1>1, ExceptSeq
<1>3. DOMAIN objects' = DOMAIN objects
  BY <1>1, <1>2
<1>4. \A j \in DOMAIN objects : objects'[j].phone = objects[j].phone /\ (objects'[j].present => Present(j))
  BY <1>1, <1>2 DEF Present
<1>5. \A j, p \in DOMAIN objects' :
         Present(j)' /\ Present(p)' /\ objects'[j].phone = objects'[p].phone => j = p
  BY <1>3, <1>4 DEF ObjectsOK, Present
<1>6. ObjectsOK'
  BY <1>2, <1>5 DEF ObjectsOK
<1>7. ListensWhileAttached'
  BY <1>1, <1>2, <1>3 DEF ListensWhileAttached, Present
<1> QED
  BY <1>3, <1>6, <1>7

\* Every step keeps the invariant of iOS devices.
LEMMA IOSStep ==
    ASSUME IOSInv, [IOSNext]_iosVars PROVE IOSInv'
<1> USE IOSDevicesAssumption
<1>a. ObjectsOK /\ LibraryOK /\ IosCallsOK /\ SimLogsOK /\ ListensWhileAttached
  BY DEF IOSInv
<1>b. UNCHANGED <<objects, infos>> => ObjectsOK' /\ ListensWhileAttached' /\ DOMAIN objects' = DOMAIN objects
  BY <1>a DEF ObjectsOK, ListensWhileAttached, Present
<1>c. UNCHANGED <<lib, looking, streaming, hasApp>> => LibraryOK'
  BY <1>a DEF LibraryOK
<1>d. UNCHANGED iosCalls /\ DOMAIN objects' = DOMAIN objects => IosCallsOK'
  BY <1>a DEF IosCallsOK
<1>e. UNCHANGED simLogs => SimLogsOK'
  BY <1>a DEF SimLogsOK
<1>f. /\ objects \in Seq(ObjectSet) /\ Len(objects) \in Nat /\ DOMAIN objects = 1 .. Len(objects)
      /\ \A o \in DOMAIN objects : objects[o] \in ObjectSet
      /\ infos \in Seq(BOOLEAN) /\ Len(infos) = Len(objects)
  BY <1>a DEF ObjectsOK
<1>g. \A c \in IosCalls : IosCallOK(iosCalls[c], DOMAIN objects)
  BY <1>a DEF IosCallsOK
<1>h. NotYet \in IosCallSet
  BY DEF NotYet, IosCallSet, IosPlaces
<1>1. ASSUME NEW p \in Phones, DeviceFound(p) PROVE IOSInv'
  <2>1. PICK reachable \in BOOLEAN : objects' = Append(objects, NewObject(p, reachable))
    BY <1>1 DEF DeviceFound
  <2> DEFINE new == NewObject(p, reachable)
  <2>2. new \in ObjectSet /\ new.phone = p /\ new.handler = "none"
    BY DEF NewObject, ObjectSet
  <2> HIDE DEF new
  <2>3. /\ objects' \in Seq(ObjectSet) /\ Len(objects') = Len(objects) + 1
        /\ \A j \in 1 .. Len(objects) : objects'[j] = objects[j]
        /\ objects'[Len(objects) + 1] = new
    BY <1>f, <2>1, <2>2, AppendProperties DEF new
  <2>4. DOMAIN objects' = 1 .. Len(objects) + 1 /\ Len(objects') <= MaxObjects
    BY <1>1, <1>f, <2>3 DEF DeviceFound
  <2>5. \A o \in DOMAIN objects : ~ (Present(o) /\ objects[o].phone = p)
    BY <1>1 DEF DeviceFound, ObjectOf
  <2>6. \A j, o \in DOMAIN objects' : Present(j)' /\ Present(o)' /\ objects'[j].phone = objects'[o].phone => j = o
    BY <1>a, <1>f, <2>2, <2>3, <2>4, <2>5 DEF ObjectsOK, Present
  <2>7. infos' \in Seq(BOOLEAN) /\ Len(infos') = Len(objects')
    BY <1>1, <1>f, <2>3 DEF DeviceFound
  <2>8. ObjectsOK'
    BY <2>3, <2>4, <2>6, <2>7 DEF ObjectsOK
  <2>9. ListensWhileAttached'
    BY <1>a, <1>f, <2>2, <2>3, <2>4 DEF ListensWhileAttached, Present
  <2>10. IosCallsOK'
    BY <1>1, <1>a, <1>f, <2>4 DEF IosCallsOK, IosCallOK, DeviceFound
  <2> QED
    BY <1>1, <1>c, <1>e, <2>8, <2>9, <2>10 DEF IOSInv, DeviceFound, LibraryUnchanged, StreamsUnchanged
<1>2. ASSUME NEW p \in Phones, DeviceLost(p) PROVE IOSInv'
  <2>1. PICK o \in DOMAIN objects : objects' = [objects EXCEPT ![o] = Detached(objects[o])]
    BY <1>2 DEF DeviceLost, ObjectOf
  <2>2. Detached(objects[o]) \in ObjectSet /\ ~Detached(objects[o]).present
        /\ Detached(objects[o]).phone = objects[o].phone /\ Detached(objects[o]).handler # "listening"
    BY <1>f DEF Detached, ObjectSet
  <2>3. ObjectsOK' /\ ListensWhileAttached' /\ DOMAIN objects' = DOMAIN objects
    BY <1>2, <1>a, <1>f, <2>1, <2>2, ObjectChanges DEF DeviceLost, AppsUnchanged
  <2> QED
    BY <1>2, <1>c, <1>d, <1>e, <2>3 DEF IOSInv, DeviceLost, LibraryUnchanged, StreamsUnchanged, AppsUnchanged
<1>3. CASE LookingEnds
  <2>1. LibraryOK'
    BY <1>3, <1>a DEF LibraryOK, LookingEnds, StreamsUnchanged, AppsUnchanged
  <2> QED
    BY <1>3, <1>b, <1>d, <1>e, <2>1 DEF IOSInv, LookingEnds, StreamsUnchanged, AppsUnchanged
<1>4. CASE Dispose
  <2>1. LibraryOK'
    BY <1>4, <1>a DEF LibraryOK, Dispose, AppsUnchanged
  <2> QED
    BY <1>4, <1>b, <1>d, <1>e, <2>1 DEF IOSInv, Dispose, AppsUnchanged
<1>5. CASE DisposeOnExit
  <2>1. objects' = [o \in DOMAIN objects |-> [objects[o] EXCEPT !.socket = FALSE]] /\ UNCHANGED infos
    BY <1>5 DEF DisposeOnExit, AppsUnchanged
  <2>2. DOMAIN objects' = 1 .. Len(objects)
    BY <1>f, <2>1
  <2>3. \A o \in DOMAIN objects : /\ objects'[o] \in ObjectSet /\ objects'[o].phone = objects[o].phone
                                  /\ objects'[o].present = objects[o].present /\ objects'[o].late = objects[o].late
                                  /\ objects'[o].handler = objects[o].handler
    BY <1>f, <2>1 DEF ObjectSet
  <2>4. objects' \in [1 .. Len(objects) -> ObjectSet]
    BY <1>f, <2>1, <2>3
  <2>5. objects' \in Seq(ObjectSet) /\ Len(objects') = Len(objects)
    BY <1>f, <2>2, <2>4, SeqDef
  <2>6. ObjectsOK' /\ ListensWhileAttached' /\ DOMAIN objects' = DOMAIN objects
    BY <1>a, <1>f, <2>1, <2>2, <2>3, <2>5 DEF ObjectsOK, ListensWhileAttached, Present
  <2>7. LibraryOK'
    BY <1>5, <1>a DEF LibraryOK, DisposeOnExit, AppsUnchanged
  <2> QED
    BY <1>5, <1>d, <1>e, <2>6, <2>7 DEF IOSInv, DisposeOnExit
<1>6. CASE SetShouldDispose(TRUE)
  BY <1>6, <1>b, <1>c, <1>d, <1>e DEF IOSInv, SetShouldDispose, StreamsUnchanged, AppsUnchanged
<1>7. ASSUME NEW c \in IosCalls, NEW immediate \in BOOLEAN, StartLookingForDevices(c, immediate) PROVE IOSInv'
  <2> DEFINE call == [iosCalls[c] EXCEPT !.op = "look", !.at = "looking"]
  <2>1. IosCallOK(call, DOMAIN objects) /\ Put(c, call)
    BY <1>7, <1>g DEF IosCallOK, IosCallSet, IosPlaces, StartLookingForDevices
  <2>2. LibraryOK'
    BY <1>7, <1>a DEF LibraryOK, StartLookingForDevices, StreamsUnchanged, AppsUnchanged
  <2>3. UNCHANGED <<objects, infos, simLogs>>
    BY <1>7 DEF StartLookingForDevices, AppsUnchanged
  <2> HIDE DEF call
  <2> QED
    BY <1>a, <1>b, <1>e, <2>1, <2>2, <2>3, IosPut DEF IOSInv
<1>8. ASSUME NEW c \in IosCalls, Looked(c) PROVE IOSInv'
  <2> DEFINE call == [iosCalls[c] EXCEPT !.at = "resolved"]
  <2>1. IosCallOK(call, DOMAIN objects) /\ Put(c, call)
    BY <1>8, <1>g DEF IosCallOK, IosCallSet, IosPlaces, Looked
  <2>2. UNCHANGED <<lib, looking, streaming, hasApp, objects, infos, simLogs>>
    BY <1>8 DEF Looked, LibraryUnchanged, StreamsUnchanged, AppsUnchanged
  <2> HIDE DEF call
  <2> QED
    BY <1>a, <1>b, <1>c, <1>e, <2>1, <2>2, IosPut DEF IOSInv
<1>9. ASSUME NEW c \in IosCalls, NEW op \in IosOperations, NEW o \in DOMAIN objects, Operate(c, op, o) PROVE IOSInv'
  <2>1. PICK todo \in {<<>>, Program(op)} :
           Put(c, [NotYet EXCEPT !.op = op, !.o = o, !.todo = todo, !.at = IF todo = <<>> THEN "resolved" ELSE "step"])
    BY <1>9 DEF Operate
  <2>2. Program(op) \in Seq(IosSteps)
    <3>1. \A a, b, d \in IosSteps : <<a>> \in Seq(IosSteps) /\ <<a, b>> \in Seq(IosSteps) /\ <<a, b, d>> \in Seq(IosSteps)
      OBVIOUS
    <3>2. {"apps", "install", "uninstall", "upload", "read", "delete", "start", "stop", "connect", "log", "stream"} \subseteq IosSteps
      BY DEF IosSteps, LibrarySteps
    <3> QED
      BY <1>9, <3>1, <3>2 DEF IosOperations, Program
  <2>3. todo \in Seq(IosSteps)
    <3>1. <<>> \in Seq(IosSteps)
      OBVIOUS
    <3> QED
      BY <2>1, <2>2, <3>1
  <2> DEFINE call == [NotYet EXCEPT !.op = op, !.o = o, !.todo = todo, !.at = IF todo = <<>> THEN "resolved" ELSE "step"]
  <2>4. IosCallOK(call, DOMAIN objects)
    <3> DEFINE place == IF todo = <<>> THEN "resolved" ELSE "step"
    <3>1. place \in IosPlaces /\ (place \in {"step", "pending"} => todo # <<>>) /\ place \notin {"simLog", "simProcess"}
      BY DEF IosPlaces
    <3>2. o \in Nat
      BY <1>f
    <3>3. call = [NotYet EXCEPT !.op = op, !.o = o, !.todo = todo, !.at = place]
      OBVIOUS
    <3> HIDE DEF place, call
    <3>4. call \in IosCallSet /\ call.at = place /\ call.o = o /\ call.todo = todo
      BY <1>9, <1>h, <2>3, <3>1, <3>2, <3>3 DEF IosCallSet
    <3> QED
      BY <1>9, <3>1, <3>4 DEF IosCallOK
  <2>5. Put(c, call)
    BY <2>1
  <2>6. UNCHANGED <<lib, looking, streaming, hasApp, objects, infos, simLogs>>
    BY <1>9 DEF Operate, LibraryUnchanged, StreamsUnchanged, AppsUnchanged
  <2> HIDE DEF call
  <2> QED
    BY <1>a, <1>b, <1>c, <1>e, <2>4, <2>5, <2>6, IosPut DEF IOSInv
<1>10. ASSUME NEW c \in IosCalls, Request(c) PROVE IOSInv'
  <2>1. UNCHANGED <<lib, looking, streaming, hasApp, objects, infos, simLogs>> /\ iosCalls[c].at = "step"
    BY <1>10 DEF Request, LibraryUnchanged, StreamsUnchanged, AppsUnchanged, AtStep
  <2>2. CASE Put(c, [iosCalls[c] EXCEPT !.at = "pending"])
    <3>1. IosCallOK([iosCalls[c] EXCEPT !.at = "pending"], DOMAIN objects)
      BY <1>g, <2>1 DEF IosCallOK, IosCallSet, IosPlaces
    <3> QED
      BY <1>a, <1>b, <1>c, <1>e, <2>1, <2>2, <3>1, IosPut DEF IOSInv
  <2>3. CASE FailStep(c)
    BY <1>a, <1>b, <1>c, <1>e, <2>1, <2>3, IosGoesOn DEF IOSInv
  <2> QED
    BY <1>10, <2>2, <2>3 DEF Request
<1>11. ASSUME NEW c \in IosCalls, Answered(c) PROVE IOSInv'
  <2> DEFINE o == iosCalls[c].o
             object == [objects[o] EXCEPT !.socket = IF Next1(c) = "connect" THEN TRUE ELSE @]
  <2>1. iosCalls[c].at = "pending" /\ o \in DOMAIN objects
    BY <1>11, <1>g DEF Answered, AtStep, IosCallOK
  <2>2. UNCHANGED <<lib, looking, streaming, simLogs>>
    BY <1>11 DEF Answered, LibraryUnchanged, StreamsUnchanged
  <2>3. Advance(c) \/ FailStep(c)
    BY <1>11 DEF Answered
  <2>4. /\ objects' = [objects EXCEPT ![o] = object] \/ UNCHANGED objects
        /\ UNCHANGED infos \/ \E info \in BOOLEAN : infos' = [infos EXCEPT ![o] = info]
        /\ hasApp' \in {hasApp, hasApp \cup {objects[o].phone}, hasApp \ {objects[o].phone}}
    <3>1. CASE UNCHANGED <<objects, infos, hasApp>>
      BY <3>1
    <3>2. CASE /\ infos' = [infos EXCEPT ![o] = IF Next1(c) = "apps" THEN objects[o].phone \in hasApp ELSE @]
               /\ hasApp' = CASE Next1(c) = "install" -> hasApp \cup {objects[o].phone}
                              [] Next1(c) = "uninstall" -> hasApp \ {objects[o].phone}
                              [] OTHER -> hasApp
               /\ objects' = [objects EXCEPT ![o].socket = IF Next1(c) = "connect" THEN TRUE ELSE @]
      <4>1. infos[o] \in BOOLEAN
        BY <1>f, <2>1
      <4>2. \E info \in BOOLEAN : infos' = [infos EXCEPT ![o] = info]
        <5>1. CASE Next1(c) # "apps"
          BY <3>2, <4>1, <5>1
        <5>2. CASE Next1(c) = "apps" /\ objects[o].phone \in hasApp
          <6>1. infos' = [infos EXCEPT ![o] = TRUE]
            BY <3>2, <5>2
          <6> QED
            BY <6>1
        <5>3. CASE Next1(c) = "apps" /\ objects[o].phone \notin hasApp
          <6>1. (objects[o].phone \in hasApp) = FALSE
            BY <5>3
          <6>2. infos' = [infos EXCEPT ![o] = objects[o].phone \in hasApp]
            BY <3>2, <5>3
          <6>3. infos' = [infos EXCEPT ![o] = FALSE]
            BY <6>1, <6>2
          <6> QED
            BY <6>3
        <5> QED
          BY <5>1, <5>2, <5>3
      <4>3. hasApp' \in {hasApp, hasApp \cup {objects[o].phone}, hasApp \ {objects[o].phone}}
        BY <3>2
      <4>4. objects' = [objects EXCEPT ![o] = object]
        BY <3>2
      <4> QED
        BY <4>2, <4>3, <4>4
    <3> QED
      BY <1>11, <3>1, <3>2 DEF Answered, AppsUnchanged
  <2>5. /\ object \in ObjectSet /\ object.phone = objects[o].phone /\ object.present = objects[o].present
        /\ object.handler = objects[o].handler /\ object.late = objects[o].late /\ objects[o].phone \in Phones
    BY <1>f, <2>1 DEF ObjectSet
  <2> HIDE DEF object, o
  <2>6. infos' \in Seq(BOOLEAN) /\ Len(infos') = Len(infos)
    BY <1>f, <2>1, <2>4, ExceptSeq
  <2>7. object.handler = "listening" => object.present \/ object.late
    BY <1>a, <2>1, <2>5 DEF ListensWhileAttached, Present
  <2>8. ObjectsOK' /\ ListensWhileAttached' /\ DOMAIN objects' = DOMAIN objects
    <3>1. CASE UNCHANGED objects
      BY <1>a, <1>f, <2>6, <3>1 DEF ObjectsOK, ListensWhileAttached, Present
    <3>2. CASE objects' = [objects EXCEPT ![o] = object]
      BY <1>a, <2>1, <2>5, <2>6, <2>7, <3>2, ObjectChanges DEF Present
    <3> QED
      BY <2>4, <3>1, <3>2
  <2>9. IosCallsOK'
    BY <1>a, <2>1, <2>3, <2>8, IosGoesOn
  <2>10. LibraryOK'
    BY <1>a, <2>2, <2>4, <2>5 DEF LibraryOK
  <2> QED
    BY <1>e, <2>2, <2>8, <2>9, <2>10 DEF IOSInv
<1>12. ASSUME NEW c \in IosCalls, OpenLog(c) PROVE IOSInv'
  <2> DEFINE o == iosCalls[c].o
             opens == ~(Next1(c) = "log" /\ objects[o].logged) /\ ~objects[o].opened
             listens == opens /\ objects[o].reachable
             object == [objects[o] EXCEPT
                  !.opened = @ \/ opens, !.logged = @ \/ Next1(c) = "log",
                  !.handler = IF listens THEN "listening" ELSE @, !.late = @ \/ (listens /\ ~objects[o].present)]
  <2>1. iosCalls[c].at = "step" /\ o \in DOMAIN objects
    BY <1>12, <1>g DEF OpenLog, AtStep, IosCallOK
  <2>2. /\ objects' = [objects EXCEPT ![o] = object]
        /\ streaming' = IF listens /\ lib = "alive" THEN streaming \cup {objects[o].phone} ELSE streaming
        /\ Advance(c) \/ FailStep(c)
        /\ UNCHANGED <<infos, hasApp, lib, looking, simLogs>>
    <3>1. objects' = [objects EXCEPT ![o] = object]
      BY <1>12 DEF OpenLog
    <3>2. streaming' = IF listens /\ lib = "alive" THEN streaming \cup {objects[o].phone} ELSE streaming
      BY <1>12 DEF OpenLog
    <3>3. Advance(c) \/ FailStep(c)
      BY <1>12 DEF OpenLog
    <3>4. UNCHANGED <<infos, hasApp, lib, looking, simLogs>>
      BY <1>12 DEF OpenLog, AppsUnchanged
    <3> HIDE DEF object, listens
    <3> QED
      BY <3>1, <3>2, <3>3, <3>4
  <2>3. objects[o] \in ObjectSet
    BY <1>f, <2>1
  <2>4. opens \in BOOLEAN /\ listens \in BOOLEAN /\ (Next1(c) = "log") \in BOOLEAN
    BY DEF ObjectSet
  <2>5. objects[o].handler = "listening" => objects[o].present \/ objects[o].late
    BY <1>a, <2>1 DEF ListensWhileAttached, Present
  <2>6. /\ object \in ObjectSet /\ object.phone = objects[o].phone /\ object.present = objects[o].present
        /\ objects[o].phone \in Phones
        /\ object.handler = "listening" => object.present \/ object.late
    <3> HIDE DEF opens, listens
    <3> QED
      BY <2>3, <2>4, <2>5 DEF ObjectSet
  <2>7. LibraryOK'
    BY <1>a, <2>2, <2>6 DEF LibraryOK
  <2> HIDE DEF object, o
  <2>8. ObjectsOK' /\ ListensWhileAttached' /\ DOMAIN objects' = DOMAIN objects
    BY <1>a, <1>f, <2>1, <2>2, <2>6, ObjectChanges DEF Present
  <2>9. IosCallsOK'
    BY <1>a, <2>1, <2>2, <2>8, IosGoesOn
  <2> QED
    BY <1>e, <2>2, <2>7, <2>8, <2>9 DEF IOSInv
<1>13. ASSUME NEW c \in IosCalls, NEW s \in Sims, NEW muted \in BOOLEAN, StartOnSimulator(c, s, muted) PROVE IOSInv'
  <2> DEFINE call == [NotYet EXCEPT !.op = IF muted THEN "muted" ELSE "startOnSimulator", !.sim = s, !.at = "simLog"]
  <2>1. IosCallOK(call, DOMAIN objects) /\ Put(c, call)
    BY <1>13, <1>h DEF IosCallOK, IosCallSet, IosPlaces, StartOnSimulator
  <2>2. UNCHANGED <<lib, looking, streaming, hasApp, objects, infos, simLogs>>
    BY <1>13 DEF StartOnSimulator, SimOnly, LibraryUnchanged, StreamsUnchanged, AppsUnchanged
  <2> HIDE DEF call
  <2> QED
    BY <1>a, <1>b, <1>c, <1>e, <2>1, <2>2, IosPut DEF IOSInv
<1>14. ASSUME NEW c \in IosCalls, StartLogProcess(c) PROVE IOSInv'
  <2>1. iosCalls[c].sim \in Sims /\ iosCalls[c].at = "simLog"
    BY <1>14, <1>g DEF StartLogProcess, AtStep, IosCallOK
  <2>2. UNCHANGED <<lib, looking, streaming, hasApp, objects, infos>>
    BY <1>14 DEF StartLogProcess, SimOnly, LibraryUnchanged, StreamsUnchanged, AppsUnchanged
  <2>3. PICK place \in {"resolved", "rejected", "simProcess"} : Put(c, [iosCalls[c] EXCEPT !.at = place])
    BY <1>14 DEF StartLogProcess
  <2>4. IosCallOK([iosCalls[c] EXCEPT !.at = place], DOMAIN objects)
    BY <1>g, <2>1 DEF IosCallOK, IosCallSet, IosPlaces
  <2>5. PICK muted \in BOOLEAN, s \in Sims : simLogs' = [simLogs EXCEPT ![s].enabled = @ /\ ~muted, ![s].opened = @ \/ ~muted]
    BY <1>14, <2>1 DEF StartLogProcess
  <2>6. SimLogsOK'
    BY <1>a, <2>5 DEF SimLogsOK, SimLogSet
  <2> QED
    BY <1>a, <1>b, <1>c, <2>2, <2>3, <2>4, <2>6, IosPut DEF IOSInv
<1>15. ASSUME NEW c \in IosCalls, LogProcessStarts(c) PROVE IOSInv'
  <2>1. iosCalls[c].sim \in Sims /\ iosCalls[c].at = "simProcess"
    BY <1>15, <1>g DEF LogProcessStarts, AtStep, IosCallOK
  <2>2. UNCHANGED <<lib, looking, streaming, hasApp, objects, infos>>
    BY <1>15 DEF LogProcessStarts, SimOnly, LibraryUnchanged, StreamsUnchanged, AppsUnchanged
  <2>3. PICK place \in {"resolved", "rejected"} : Put(c, [iosCalls[c] EXCEPT !.at = place])
    BY <1>15 DEF LogProcessStarts
  <2>4. IosCallOK([iosCalls[c] EXCEPT !.at = place], DOMAIN objects)
    BY <1>g, <2>1 DEF IosCallOK, IosCallSet, IosPlaces
  <2>5. SimLogsOK'
    <3>1. CASE UNCHANGED simLogs
      BY <1>e, <3>1
    <3>2. ASSUME NEW s \in Sims, NEW e \in BOOLEAN, NEW n \in Nat, n = simLogs[s].number + 1,
                 simLogs' = [simLogs EXCEPT ![s] = [simLogs[s] EXCEPT !.enabled = e, !.live = @ \cup {n}, !.process = n, !.number = n]]
          PROVE  SimLogsOK'
      <4> DEFINE new == [simLogs[s] EXCEPT !.enabled = e, !.live = @ \cup {n}, !.process = n, !.number = n]
      <4>1. simLogs' = [simLogs EXCEPT ![s] = new]
        BY <3>2
      <4>2. simLogs[s] \in SimLogSet /\ simLogs[s].live \subseteq 1 .. simLogs[s].number /\ simLogs[s].number \in Nat
        BY <1>a DEF SimLogsOK, SimLogSet
      <4>3. new \in SimLogSet /\ new.process = new.number /\ new.live = simLogs[s].live \cup {n} /\ new.number = n
        BY <4>2 DEF SimLogSet
      <4>4. new.live \subseteq 1 .. new.number
        BY <3>2, <4>2, <4>3
      <4> HIDE DEF new
      <4> QED
        BY <1>a, <4>1, <4>3, <4>4 DEF SimLogsOK
    <3>3. simLogs[iosCalls[c].sim].number + 1 \in Nat
      BY <1>a, <2>1 DEF SimLogsOK, SimLogSet
    <3> QED
      BY <1>15, <2>1, <3>1, <3>2, <3>3 DEF LogProcessStarts
  <2> QED
    BY <1>a, <1>b, <1>c, <2>2, <2>3, <2>4, <2>5, IosPut DEF IOSInv
<1>16. ASSUME NEW s \in Sims, NEW n, LogProcessEnds(s, n) PROVE IOSInv'
  <2>1. UNCHANGED <<lib, looking, streaming, hasApp, objects, infos, iosCalls>>
    BY <1>16 DEF LogProcessEnds, SimOnly, LibraryUnchanged, StreamsUnchanged, AppsUnchanged
  <2>2. SimLogsOK'
    BY <1>16, <1>a DEF SimLogsOK, SimLogSet, LogProcessEnds
  <2> QED
    BY <1>b, <1>c, <1>d, <2>1, <2>2 DEF IOSInv
<1>17. CASE UNCHANGED iosVars
  BY <1>17, <1>b, <1>c, <1>d, <1>e DEF iosVars, IOSInv
<1> QED
  BY <1>1, <1>2, <1>3, <1>4, <1>5, <1>6, <1>7, <1>8, <1>9, <1>10, <1>11, <1>12, <1>13, <1>14, <1>15, <1>16, <1>17
  DEF IOSNext, DisposeSimulatorLog

\* The invariant holds from the start.
LEMMA IOSStarts == IOSInit => IOSInv
<1> SUFFICES ASSUME IOSInit PROVE IOSInv
  OBVIOUS
<1>1. ObjectsOK /\ ListensWhileAttached
  BY IOSDevicesAssumption DEF IOSInit, ObjectsOK, ListensWhileAttached
<1>2. LibraryOK
  BY DEF IOSInit, LibraryOK
<1>3. IosCallsOK
  BY DEF IOSInit, IosCallsOK, IosCallOK, IosCallSet, IosPlaces, NotYet
<1>4. SimLogsOK
  BY DEF IOSInit, SimLogsOK, SimLogSet
<1> QED
  BY <1>1, <1>2, <1>3, <1>4 DEF IOSInv

\* The shape of the state, from the invariant: of the objects of one device, at
\* most one is attached.
LEMMA IOSInvShape == IOSInv => IOSTypeOK
<1> SUFFICES ASSUME IOSInv PROVE IOSTypeOK
  OBVIOUS
<1>1. ASSUME NEW p \in Phones PROVE Cardinality(ObjectOf(p)) <= 1
  <2>1. CASE ObjectOf(p) = {}
    BY <2>1, FS_EmptySet
  <2>2. CASE ObjectOf(p) # {}
    <3>1. PICK o \in ObjectOf(p) : TRUE
      BY <2>2
    <3>2. ObjectOf(p) = {o}
      BY <3>1 DEF IOSInv, ObjectsOK, ObjectOf
    <3> QED
      <4>1. Cardinality({o}) = 1
        BY FS_Singleton
      <4> QED
        BY <3>2, <4>1
  <2> QED
    BY <2>1, <2>2
<1>2. \A c \in IosCalls : iosCalls[c].at \in IosPlaces
  BY DEF IOSInv, IosCallsOK, IosCallOK, IosCallSet
<1> QED
  BY <1>1, <1>2 DEF IOSInv, IOSTypeOK, ObjectsOK, LibraryOK, SimLogsOK, IosPlaces

\* The objects, the library, the calls and the logs of simulators fit together.
THEOREM IOSInvariant == IOSSpec => []IOSInv
BY IOSStarts, IOSStep, PTL DEF IOSSpec

\* There is one object for each device that is attached, and the state keeps its shape.
THEOREM IOSTypeCorrect == IOSSpec => []IOSTypeOK
BY IOSInvariant, IOSInvShape, PTL

\* An object that was lost does not listen to the log any more, unless a call in
\* flight opened it after that.
THEOREM IOSListensWhileAttached == IOSSpec => []ListensWhileAttached
BY IOSInvariant, PTL DEF IOSInv
-----------------------------------------------------------------------------
(* Forwarded ports *)

UnixSockets ==
    {s \in [kind : {"webview", "devtools", "debug"}, name : Nat \cup Targets] :
        s.kind # "webview" => s.name \in Targets}

CallFields == {"op", "apps", "framework", "at", "ids", "unix", "socket", "port", "answer"}

AtMostOne(S) == S = {} \/ \E s : S = {s}
Two(S) == \E c, d \in S : c # d

AppsOK ==
    process \in [Targets -> 0 .. MaxProcesses] /\ processes \in 0 .. MaxProcesses

\* What adb and the service keep: each port leads to one socket at most.
AdbOK ==
    /\ DOMAIN forwards = Ports /\ \A p \in Ports : AtMostOne(forwards[p])
    /\ given \in [Ports -> SUBSET ForwardCalls] /\ \A p \in Ports : IsFiniteSet(given[p])
    /\ removed \subseteq Ports /\ remembered \in Ports \cup {NoPort}
    /\ attached \in BOOLEAN
    /\ remembered # NoPort => attached

\* A call that forwards a port knows the one socket it is for, and has attached
\* the exit listener.
ForwardCallOK(call, listening) ==
    /\ DOMAIN call = CallFields
    /\ call.apps \subseteq Targets /\ call.unix \subseteq UnixSockets
    /\ AtMostOne(call.socket) /\ call.port \in Ports \cup {NoPort}
    /\ call.op \in {"map", "forward"} => listening
    /\ call.op = "forward" => call.at \notin {"none", "ps", "unix"}
    /\ call.at \in {"free", "adb"} => call.op \in {"map", "forward"}
    /\ call.op \in {"map", "forward"} /\ call.at \in {"list", "free", "adb"} => call.socket # {}
    /\ call.at = "adb" => call.port \in Ports
    /\ call.port # NoPort => call.at \in {"adb", "resolved", "rejected"} /\ call.socket # {}
ForwardCallsOK ==
    DOMAIN forwardCalls = ForwardCalls /\ \A c \in ForwardCalls : ForwardCallOK(forwardCalls[c], attached)

\* A call that was given a free port is among those that were: nobody else has
\* forwarded it since, or there are two.  One that is answered has a port that leads
\* somewhere, and to its socket unless the port was given to two.
PortKept(c, call, leadsTo, givenTo, gone, failed) ==
    /\ call.at = "adb" => /\ c \in givenTo[call.port]
                          /\ leadsTo[call.port] = {} \/ Two(givenTo[call.port])
    /\ call.at = "resolved" /\ call.port # NoPort =>
          \/ call.port \in gone \/ c \in failed
          \/ leadsTo[call.port] # {} /\ (leadsTo[call.port] = call.socket \/ Two(givenTo[call.port]))
PortsKept == \A c \in ForwardCalls : PortKept(c, forwardCalls[c], forwards, given, removed, unforwarded)

\* A port leads to what an answered call asked for that had been given this port.
LeadsFor(p, leadsTo, givenTo, calls) ==
    leadsTo[p] # {} => \E d \in givenTo[p] \cap ForwardCalls : calls[d].at = "resolved" /\ leadsTo[p] = calls[d].socket
PortsLead == \A p \in Ports : LeadsFor(p, forwards, given, forwardCalls)

PortsInv == AppsOK /\ AdbOK /\ ForwardCallsOK /\ PortsKept /\ PortsLead

LEMMA TwoAreMore ==
    ASSUME NEW S, IsFiniteSet(S), Two(S) PROVE Cardinality(S) > 1
<1>1. PICK c, d \in S : c # d
  BY DEF Two
<1>2. IsFiniteSet({d}) /\ Cardinality({d}) = 1
  BY FS_Singleton
<1>3. Cardinality({d} \cup {c}) = 2
  BY <1>1, <1>2, FS_AddElement
<1>4. {d} \cup {c} \in SUBSET S
  BY <1>1
<1>5. 2 <= Cardinality(S) /\ Cardinality(S) \in Nat
  BY <1>3, <1>4, FS_Subset, FS_CardinalityType
<1> QED
  BY <1>5

LEMMA AtMostOneIsOne ==
    ASSUME NEW S, AtMostOne(S) PROVE Cardinality(S) <= 1
<1>1. CASE S = {}
  BY <1>1, FS_EmptySet
<1>2. ASSUME NEW s, S = {s} PROVE Cardinality(S) <= 1
  <2>1. Cardinality({s}) = 1
    BY FS_Singleton
  <2> QED
    BY <1>2, <2>1
<1> QED
  BY <1>1, <1>2 DEF AtMostOne

LEMMA UnixAreSockets == AppsOK => Unix \subseteq UnixSockets
<1> SUFFICES ASSUME AppsOK, NEW a \in Targets PROVE Socket(a, process[a]) \in UnixSockets
  BY DEF Unix
<1>1. process[a] \in Nat /\ SocketKind[a] \in {"webview", "devtools", "debug"}
  BY PortForwardingAssumption DEF AppsOK
<1> QED
  BY <1>1 DEF Socket, UnixSockets

\* A call is answered, and its port leads to its socket from now on; or the ports
\* lead where they did.
LEMMA PortsLeadOn ==
    ASSUME PortsLead, NEW c \in ForwardCalls, NEW call, DOMAIN forwardCalls = ForwardCalls,
           forwardCalls' = [forwardCalls EXCEPT ![c] = call], forwardCalls[c].at # "resolved", UNCHANGED given,
           NEW p \in Ports, c \in given[p], call.at = "resolved", forwards'[p] = call.socket,
           \A q \in Ports \ {p} : forwards'[q] = forwards[q]
    PROVE  PortsLead'
<1>1. ASSUME NEW q \in Ports \ {p}, forwards'[q] # {} PROVE LeadsFor(q, forwards', given', forwardCalls')
  <2>1. PICK d \in given[q] \cap ForwardCalls : forwardCalls[d].at = "resolved" /\ forwards[q] = forwardCalls[d].socket
    BY <1>1 DEF PortsLead, LeadsFor
  <2>2. forwardCalls'[d] = forwardCalls[d]
    BY <2>1
  <2> QED
    BY <2>1, <2>2 DEF LeadsFor
<1>2. LeadsFor(p, forwards', given', forwardCalls')
  BY DEF LeadsFor
<1> QED
  BY <1>1, <1>2 DEF PortsLead, LeadsFor
LEMMA PortsLeadStill ==
    ASSUME PortsLead, NEW c \in ForwardCalls, NEW call, DOMAIN forwardCalls = ForwardCalls,
           forwardCalls' = [forwardCalls EXCEPT ![c] = call], forwardCalls[c].at # "resolved",
           UNCHANGED <<given, forwards>>
    PROVE  PortsLead'
<1> SUFFICES ASSUME NEW p \in Ports, forwards[p] # {} PROVE LeadsFor(p, forwards, given, forwardCalls')
  BY DEF PortsLead, LeadsFor
<1>1. PICK d \in given[p] \cap ForwardCalls : forwardCalls[d].at = "resolved" /\ forwards[p] = forwardCalls[d].socket
  BY DEF PortsLead, LeadsFor
<1>2. forwardCalls'[d] = forwardCalls[d]
  BY <1>1
<1> QED
  BY <1>1, <1>2 DEF LeadsFor

\* A call goes on that leaves the ports alone.
LEMMA PortsStepOK ==
    ASSUME PortsInv, NEW c \in ForwardCalls, NEW call, Step(c, call),
           forwardCalls[c].at # "resolved", AdbOnlyRead, attached' \in BOOLEAN, attached => attached',
           remembered' \in Ports \cup {NoPort}, remembered' # NoPort => attached',
           ForwardCallOK(call, attached'), PortKept(c, call, forwards, given, removed, unforwarded)
    PROVE  PortsInv'
<1>1. AppsOK' /\ AdbOK'
  BY DEF PortsInv, AppsOK, AdbOK, AdbOnlyRead
<1>2. DOMAIN forwardCalls' = ForwardCalls /\ forwardCalls'[c] = call
      /\ \A d \in ForwardCalls \ {c} : forwardCalls'[d] = forwardCalls[d]
  BY DEF PortsInv, ForwardCallsOK, Step
<1>3. \A d \in ForwardCalls : ForwardCallOK(forwardCalls[d], attached')
  BY DEF PortsInv, ForwardCallsOK, ForwardCallOK
<1>4. ForwardCallsOK'
  BY <1>2, <1>3 DEF ForwardCallsOK
<1>5. PortsKept'
  BY <1>2 DEF PortsInv, PortsKept, AdbOnlyRead
<1>6. PortsLead'
  BY PortsLeadStill DEF PortsInv, ForwardCallsOK, Step, AdbOnlyRead
<1> QED
  BY <1>1, <1>4, <1>5, <1>6 DEF PortsInv

\* Every step keeps the ports.
LEMMA PortsStep ==
    ASSUME PortsInv, [PortsNext]_portVars PROVE PortsInv'
<1> USE PortForwardingAssumption
<1>a. AppsOK /\ AdbOK /\ ForwardCallsOK /\ PortsKept /\ PortsLead
  BY DEF PortsInv
<1>b. \A c \in ForwardCalls : ForwardCallOK(forwardCalls[c], attached)
  BY <1>a DEF ForwardCallsOK
<1>c. \A c \in ForwardCalls : PortKept(c, forwardCalls[c], forwards, given, removed, unforwarded)
  BY <1>a DEF PortsKept
<1>d. attached \in BOOLEAN /\ remembered \in Ports \cup {NoPort} /\ (remembered # NoPort => attached)
  BY <1>a DEF AdbOK
<1>e. Unix \subseteq UnixSockets
  BY <1>a, UnixAreSockets
<1>f. \A s : AtMostOne({s})
  BY DEF AtMostOne
<1>g. ASSUME NEW c \in ForwardCalls, NEW call, Step(c, call), OnlyAsks, forwardCalls[c].at # "resolved",
             ForwardCallOK(call, attached), call.at # "adb", call.at = "resolved" => call.port = NoPort
      PROVE  PortsInv'
  <2>1. PortKept(c, call, forwards, given, removed, unforwarded)
    BY <1>g DEF PortKept
  <2> QED
    BY <1>d, <1>g, <2>1, PortsStepOK DEF OnlyAsks
<1>h. ASSUME UNCHANGED <<forwards, remembered, attached, forwardCalls, given, removed, unforwarded>>
      PROVE  AdbOK' /\ ForwardCallsOK' /\ PortsKept' /\ PortsLead'
  BY <1>a, <1>h DEF AdbOK, ForwardCallsOK, PortsKept, PortsLead
<1>1. ASSUME NEW app \in Targets, AppStarts(app) \/ AppEnds(app) PROVE PortsInv'
  <2>1. AppsOK'
    BY <1>1, <1>a DEF AppsOK, AppStarts, AppEnds
  <2> QED
    BY <1>1, <1>h, <2>1 DEF PortsInv, AppStarts, AppEnds, ServiceUnchanged
<1>2. ASSUME NEW c \in ForwardCalls, NEW app \in Targets, NEW framework, MapAbstractToTcpPort(c, app, framework) PROVE PortsInv'
  <2> DEFINE call == [NoCall EXCEPT !.op = "map", !.apps = {app}, !.framework = framework, !.at = "ps"]
  <2>1. ForwardCallOK(call, TRUE) /\ call.at = "ps"
    BY DEF ForwardCallOK, NoCall, CallFields, AtMostOne
  <2>2. PortKept(c, call, forwards, given, removed, unforwarded)
    BY <2>1 DEF PortKept
  <2>3. Step(c, call) /\ AdbOnlyRead /\ attached' = TRUE /\ UNCHANGED remembered /\ forwardCalls[c].at = "none"
    BY <1>2 DEF MapAbstractToTcpPort, Asked
  <2> HIDE DEF call
  <2> QED
    BY <1>d, <2>1, <2>2, <2>3, PortsStepOK
<1>3. ASSUME NEW c \in ForwardCalls, NEW app \in Targets, ForwardFreeTcpToAbstractPort(c, app) PROVE PortsInv'
  <2> DEFINE call == [NoCall EXCEPT !.op = "forward", !.apps = {app}, !.socket = {Socket(app, process[app])}, !.at = "list"]
  <2>1. ForwardCallOK(call, TRUE) /\ call.at = "list"
    BY <1>f DEF ForwardCallOK, NoCall, CallFields
  <2>2. PortKept(c, call, forwards, given, removed, unforwarded)
    BY <2>1 DEF PortKept
  <2>3. Step(c, call) /\ AdbOnlyRead /\ attached' = TRUE /\ UNCHANGED remembered /\ forwardCalls[c].at = "none"
    BY <1>3 DEF ForwardFreeTcpToAbstractPort, Asked
  <2> HIDE DEF call
  <2> QED
    BY <1>d, <2>1, <2>2, <2>3, PortsStepOK
<1>4. ASSUME NEW c \in ForwardCalls, NEW framework, GetMapped(c, Targets, framework) PROVE PortsInv'
  <2> DEFINE call == [NoCall EXCEPT !.op = "mapped", !.apps = Targets, !.framework = framework, !.at = "unix"]
  <2>1. ForwardCallOK(call, attached) /\ call.at = "unix"
    BY DEF ForwardCallOK, NoCall, CallFields, AtMostOne
  <2>2. Step(c, call) /\ OnlyAsks /\ forwardCalls[c].at = "none"
    BY <1>4 DEF GetMapped, Asked
  <2> HIDE DEF call
  <2> QED
    BY <1>g, <2>1, <2>2
<1>5. ASSUME NEW c \in ForwardCalls, GetDebuggableApps(c) PROVE PortsInv'
  <2> DEFINE call == [NoCall EXCEPT !.op = "debuggable", !.at = "unix"]
  <2>1. ForwardCallOK(call, attached) /\ call.at = "unix"
    BY DEF ForwardCallOK, NoCall, CallFields, AtMostOne
  <2>2. Step(c, call) /\ OnlyAsks /\ forwardCalls[c].at = "none"
    BY <1>5 DEF GetDebuggableApps, Asked
  <2> HIDE DEF call
  <2> QED
    BY <1>g, <2>1, <2>2
<1>6. ASSUME NEW c \in ForwardCalls, ReadProcesses(c) PROVE PortsInv'
  <2>1. forwardCalls[c].at = "ps" /\ OnlyAsks
    BY <1>6 DEF ReadProcesses, Asked
  <2>2. CASE Fails(c)
    <3>1. ForwardCallOK([forwardCalls[c] EXCEPT !.at = "rejected"], attached)
      BY <1>b, <2>1 DEF ForwardCallOK, CallFields
    <3>2. [forwardCalls[c] EXCEPT !.at = "rejected"].at = "rejected"
      BY <1>b DEF ForwardCallOK, CallFields
    <3> QED
      BY <1>g, <2>1, <2>2, <3>1, <3>2 DEF Fails
  <2>3. ASSUME NEW ids,
               Step(c, [forwardCalls[c] EXCEPT !.ids = ids, !.at = IF forwardCalls[c].op = "map" THEN "unix" ELSE "list"])
        PROVE  PortsInv'
    <3> DEFINE place == IF forwardCalls[c].op = "map" THEN "unix" ELSE "list"
               call == [forwardCalls[c] EXCEPT !.ids = ids, !.at = place]
    <3>1. /\ place \in {"unix", "list"} /\ (forwardCalls[c].op = "map" => place = "unix")
          /\ forwardCalls[c].op # "forward"
      BY <1>b, <2>1 DEF ForwardCallOK
    <3>2. Step(c, call)
      BY <2>3
    <3> HIDE DEF place
    <3>3. ForwardCallOK(call, attached) /\ call.at = place
      BY <1>b, <2>1, <3>1 DEF ForwardCallOK, CallFields
    <3> HIDE DEF call
    <3> QED
      BY <1>g, <2>1, <3>1, <3>2, <3>3
  <2> QED
    BY <1>6, <2>2, <2>3 DEF ReadProcesses
<1>7. ASSUME NEW c \in ForwardCalls, ReadSockets(c) PROVE PortsInv'
  <2>1. forwardCalls[c].at = "unix" /\ OnlyAsks
    BY <1>7 DEF ReadSockets, Asked
  <2>2. CASE Fails(c)
    <3>1. ForwardCallOK([forwardCalls[c] EXCEPT !.at = "rejected"], attached)
      BY <1>b, <2>1 DEF ForwardCallOK, CallFields
    <3>2. [forwardCalls[c] EXCEPT !.at = "rejected"].at = "rejected"
      BY <1>b DEF ForwardCallOK, CallFields
    <3> QED
      BY <1>g, <2>1, <2>2, <3>1, <3>2 DEF Fails
  <2>3. ASSUME NEW s, Step(c, [forwardCalls[c] EXCEPT !.socket = {s}, !.at = "list"]) PROVE PortsInv'
    <3> DEFINE call == [forwardCalls[c] EXCEPT !.socket = {s}, !.at = "list"]
    <3>1. ForwardCallOK(call, attached) /\ call.at = "list"
      BY <1>b, <1>f, <2>1 DEF ForwardCallOK, CallFields
    <3> HIDE DEF call
    <3> QED
      BY <1>g, <2>1, <2>3, <3>1 DEF call
  <2>4. ASSUME NEW place \in {"ps", "naming"}, forwardCalls[c].op \in {"mapped", "debuggable"},
               NEW unix \in SUBSET Unix,
               Step(c, [forwardCalls[c] EXCEPT !.unix = unix, !.at = place])
        PROVE  PortsInv'
    <3> DEFINE call == [forwardCalls[c] EXCEPT !.unix = unix, !.at = place]
    <3>1. ForwardCallOK(call, attached) /\ call.at = place
      BY <1>b, <1>e, <2>1, <2>4 DEF ForwardCallOK, CallFields
    <3> HIDE DEF call
    <3> QED
      BY <1>g, <2>1, <2>4, <3>1 DEF call
  <2> QED
    BY <1>7, <2>2, <2>3, <2>4 DEF ReadSockets
<1>8. ASSUME NEW c \in ForwardCalls, NEW s \in forwardCalls[c].unix, NameSocket(c, s) PROVE PortsInv'
  <2> DEFINE apps == IF s.kind = "webview" THEN {a \in Targets : process[a] = s.name} ELSE {s.name}
             call == [forwardCalls[c] EXCEPT !.unix = @ \ {s}, !.apps = @ \cup apps]
  <2>1. forwardCalls[c].at = "naming" /\ OnlyAsks /\ Step(c, call)
    BY <1>8 DEF NameSocket, Asked
  <2>2. s \in UnixSockets
    BY <1>b, <1>8 DEF ForwardCallOK
  <2>3. apps \subseteq Targets
    BY <2>2 DEF UnixSockets
  <2> HIDE DEF apps
  <2>4. ForwardCallOK(call, attached) /\ call.at = "naming"
    BY <1>b, <2>1, <2>3 DEF ForwardCallOK, CallFields
  <2> HIDE DEF call
  <2> QED
    BY <1>g, <2>1, <2>4
<1>9. ASSUME NEW c \in ForwardCalls, NEW place,
             \/ NamingEnds(c) /\ place = "naming"
             \/ ReadForwards(c) /\ place = "list"
             \/ ReadForwardsAgain(c) /\ place = "relist"
      PROVE  PortsInv'
  <2>1. /\ forwardCalls[c].at = place /\ OnlyAsks /\ place # "resolved"
        /\ place = "list" => forwardCalls[c].op = "mapped"
    BY <1>9 DEF NamingEnds, ReadForwards, ReadForwardsAgain, Asked
  <2>2. forwardCalls[c].port = NoPort /\ DOMAIN forwardCalls[c] = CallFields
    BY <1>9, <1>b, <2>1 DEF ForwardCallOK
  <2>3. ASSUME NEW call, Step(c, call), DOMAIN call = CallFields,
               call.at \in {"resolved", "relist"}, call.op = forwardCalls[c].op, call.apps = forwardCalls[c].apps,
               call.unix = forwardCalls[c].unix, call.socket = forwardCalls[c].socket, call.port = forwardCalls[c].port
        PROVE  PortsInv'
    <3>1. ForwardCallOK(call, attached)
      BY <1>b, <2>2, <2>3 DEF ForwardCallOK
    <3> QED
      BY <1>g, <2>1, <2>2, <2>3, <3>1
  <2>4. ASSUME Step(c, [forwardCalls[c] EXCEPT !.at = "resolved"]) PROVE PortsInv'
    BY <2>2, <2>3, <2>4 DEF CallFields
  <2>5. ASSUME Step(c, [forwardCalls[c] EXCEPT !.at = "relist"]) PROVE PortsInv'
    BY <2>2, <2>3, <2>5 DEF CallFields
  <2>6. ASSUME NEW answer, Step(c, [forwardCalls[c] EXCEPT !.answer = answer, !.at = "resolved"]) PROVE PortsInv'
    BY <2>2, <2>3, <2>6 DEF CallFields
  <2>7. ASSUME NEW answer, place = "relist", Step(c, [forwardCalls[c] EXCEPT !.answer = answer]) PROVE PortsInv'
    BY <2>1, <2>2, <2>3, <2>7 DEF CallFields
  <2> QED
    BY <1>9, <2>4, <2>5, <2>6, <2>7 DEF NamingEnds, ReadForwards, ReadForwardsAgain
<1>10. ASSUME NEW c \in ForwardCalls, LookForMapping(c) PROVE PortsInv'
  <2>1. /\ forwardCalls[c].at = "list" /\ forwardCalls[c].op \in {"map", "forward"}
        /\ AdbOnlyRead /\ UNCHANGED attached /\ attached
        /\ forwardCalls[c].socket # {} /\ AtMostOne(forwardCalls[c].socket) /\ DOMAIN forwardCalls[c] = CallFields
    BY <1>10, <1>b DEF LookForMapping, Asked, ForwardCallOK
  <2>2. ASSUME NEW s \in forwardCalls[c].socket, NEW p \in AlreadyMapped(s), Forwarded(c, p) PROVE PortsInv'
    <3> DEFINE call == [forwardCalls[c] EXCEPT !.port = p, !.at = "resolved"]
    <3>1. p \in Ports /\ forwards[p] = forwardCalls[c].socket
      <4>1. p \in Ports /\ s \in forwards[p]
        BY <2>2 DEF AlreadyMapped
      <4>2. AtMostOne(forwards[p])
        BY <1>a, <4>1 DEF AdbOK
      <4> QED
        BY <2>1, <2>2, <4>1, <4>2 DEF AtMostOne
    <3>2. ForwardCallOK(call, attached) /\ PortKept(c, call, forwards, given, removed, unforwarded)
      BY <1>b, <2>1, <3>1 DEF ForwardCallOK, CallFields, PortKept
    <3> HIDE DEF call
    <3> QED
      BY <1>d, <2>1, <2>2, <3>1, <3>2, PortsStepOK DEF Forwarded, call
  <2>3. ASSUME Step(c, [forwardCalls[c] EXCEPT !.at = "free"]), UNCHANGED remembered PROVE PortsInv'
    <3> DEFINE call == [forwardCalls[c] EXCEPT !.at = "free"]
    <3>1. ForwardCallOK(call, attached) /\ PortKept(c, call, forwards, given, removed, unforwarded)
      BY <1>b, <2>1 DEF ForwardCallOK, CallFields, PortKept
    <3> HIDE DEF call
    <3> QED
      BY <1>d, <2>1, <2>3, <3>1, PortsStepOK DEF call
  <2> QED
    BY <1>10, <2>2, <2>3 DEF LookForMapping
<1>11. ASSUME NEW c \in ForwardCalls, NEW p \in Ports, GetFreePort(c, p) PROVE PortsInv'
  <2> DEFINE call == [forwardCalls[c] EXCEPT !.port = p, !.at = "adb"]
  <2>1. /\ forwardCalls[c].at = "free" /\ forwards[p] = {} /\ given' = [given EXCEPT ![p] = @ \cup {c}]
        /\ forwardCalls' = [forwardCalls EXCEPT ![c] = call]
        /\ UNCHANGED <<process, processes, forwards, remembered, attached, removed, unforwarded>>
    BY <1>11 DEF GetFreePort, Asked, Step
  <2>2. given[p] \cup {c} \in SUBSET ForwardCalls /\ IsFiniteSet(given[p] \cup {c})
    BY <1>a, FS_AddElement DEF AdbOK
  <2>3. AppsOK' /\ AdbOK'
    BY <1>a, <2>1, <2>2 DEF AppsOK, AdbOK
  <2>4. c \in given'[p] /\ \A q \in Ports : given[q] \subseteq given'[q]
    BY <1>a, <2>1 DEF AdbOK
  <2>5. ForwardCallOK(call, attached) /\ PortKept(c, call, forwards, given', removed, unforwarded)
    BY <1>b, <2>1, <2>4 DEF ForwardCallOK, CallFields, PortKept
  <2>6. \A d \in ForwardCalls : PortKept(d, forwardCalls[d], forwards, given', removed, unforwarded)
    BY <1>b, <1>c, <2>4 DEF PortKept, Two, ForwardCallOK
  <2> HIDE DEF call
  <2>7. ForwardCallsOK' /\ PortsKept'
    BY <1>a, <1>b, <2>1, <2>5, <2>6 DEF ForwardCallsOK, PortsKept
  <2>8. PortsLead'
    <3> SUFFICES ASSUME NEW q \in Ports, forwards[q] # {} PROVE LeadsFor(q, forwards, given', forwardCalls')
      BY <2>1 DEF PortsLead, LeadsFor
    <3>1. PICK d \in given[q] \cap ForwardCalls : forwardCalls[d].at = "resolved" /\ forwards[q] = forwardCalls[d].socket
      BY <1>a DEF PortsLead, LeadsFor
    <3>2. forwardCalls'[d] = forwardCalls[d] /\ d \in given'[q]
      BY <1>a, <2>1, <2>4, <3>1 DEF ForwardCallsOK
    <3> QED
      BY <3>1, <3>2 DEF LeadsFor
  <2> QED
    BY <2>3, <2>7, <2>8 DEF PortsInv
<1>12. ASSUME NEW c \in ForwardCalls, ForwardPort(c) PROVE PortsInv'
  <2> DEFINE p == forwardCalls[c].port
             S == forwardCalls[c].socket
  <2>1. /\ forwardCalls[c].at = "adb" /\ p \in Ports /\ S # {} /\ AtMostOne(S) /\ attached
        /\ DOMAIN forwardCalls[c] = CallFields
        /\ UNCHANGED <<process, processes, attached, given, removed>>
    BY <1>12, <1>b DEF ForwardPort, Asked, ForwardCallOK
  <2>2. CASE Fails(c) /\ UNCHANGED <<forwards, remembered, unforwarded>>
    <3> DEFINE call == [forwardCalls[c] EXCEPT !.at = "rejected"]
    <3>1. ForwardCallOK(call, attached) /\ PortKept(c, call, forwards, given, removed, unforwarded)
      BY <1>b, <2>1 DEF ForwardCallOK, CallFields, PortKept
    <3>2. Step(c, call)
      BY <2>2 DEF Fails
    <3> HIDE DEF call
    <3> QED
      BY <1>d, <2>1, <2>2, <3>1, <3>2, PortsStepOK DEF AdbOnlyRead
  <2>3. CASE forwards' = [forwards EXCEPT ![p] = S] /\ Forwarded(c, p) /\ UNCHANGED unforwarded
    <3> DEFINE call == [forwardCalls[c] EXCEPT !.port = p, !.at = "resolved"]
    <3>1. forwardCalls' = [forwardCalls EXCEPT ![c] = call] /\ remembered' = p
      BY <2>3 DEF Forwarded, Step
    <3>2. forwards'[p] = S /\ \A q \in Ports \ {p} : forwards'[q] = forwards[q]
      BY <1>a, <2>1, <2>3 DEF AdbOK
    <3>3. AppsOK' /\ AdbOK'
      BY <1>a, <2>1, <2>3, <3>1 DEF AppsOK, AdbOK
    <3>4. ForwardCallOK(call, attached) /\ PortKept(c, call, forwards', given, removed, unforwarded)
      BY <1>b, <2>1, <3>2 DEF ForwardCallOK, CallFields, PortKept
    <3>5. c \in given[p] /\ (forwards[p] = {} \/ Two(given[p]))
      BY <1>c, <2>1 DEF PortKept
    <3>6. \A d \in ForwardCalls \ {c} : PortKept(d, forwardCalls[d], forwards', given, removed, unforwarded)
      <4> SUFFICES ASSUME NEW d \in ForwardCalls \ {c}, forwardCalls[d].port = p
                   PROVE  PortKept(d, forwardCalls[d], forwards', given, removed, unforwarded)
        BY <1>b, <1>c, <3>2 DEF PortKept, ForwardCallOK
      <4>1. CASE Two(given[p])
        BY <1>c, <2>1, <3>2, <4>1 DEF PortKept
      <4>2. CASE forwards[p] = {}
        BY <1>b, <1>c, <3>5, <4>2 DEF PortKept, ForwardCallOK, Two
      <4> QED
        BY <3>5, <4>1, <4>2
    <3>8. call.at = "resolved" /\ call.socket = S
      BY <2>1 DEF CallFields
    <3> HIDE DEF call, p, S
    <3>7. ForwardCallsOK' /\ PortsKept'
      BY <1>a, <1>b, <2>1, <2>3, <3>1, <3>4, <3>6 DEF ForwardCallsOK, PortsKept
    <3>9. PortsLead'
      BY <1>a, <2>1, <3>1, <3>2, <3>5, <3>8, PortsLeadOn DEF ForwardCallsOK
    <3> QED
      BY <3>3, <3>7, <3>9 DEF PortsInv
  <2>4. CASE Forwarded(c, p) /\ unforwarded' = unforwarded \cup {c} /\ UNCHANGED forwards
    <3> DEFINE call == [forwardCalls[c] EXCEPT !.port = p, !.at = "resolved"]
    <3>1. forwardCalls' = [forwardCalls EXCEPT ![c] = call] /\ remembered' = p
      BY <2>4 DEF Forwarded, Step
    <3>2. AppsOK' /\ AdbOK'
      BY <1>a, <2>1, <2>4, <3>1 DEF AppsOK, AdbOK
    <3>3. ForwardCallOK(call, attached) /\ PortKept(c, call, forwards, given, removed, unforwarded')
      BY <1>b, <2>1, <2>4 DEF ForwardCallOK, CallFields, PortKept
    <3>4. \A d \in ForwardCalls \ {c} : PortKept(d, forwardCalls[d], forwards, given, removed, unforwarded')
      BY <1>c, <2>4 DEF PortKept
    <3> HIDE DEF call, p, S
    <3>5. ForwardCallsOK' /\ PortsKept'
      BY <1>a, <1>b, <2>1, <2>4, <3>1, <3>3, <3>4 DEF ForwardCallsOK, PortsKept
    <3>6. PortsLead'
      BY <1>a, <2>1, <2>4, <3>1, PortsLeadStill DEF ForwardCallsOK
    <3> QED
      BY <3>2, <3>5, <3>6 DEF PortsInv
  <2> QED
    BY <1>12, <2>2, <2>3, <2>4 DEF ForwardPort
<1>13. CASE RemovePortOnExit
  <2>1. /\ remembered \in Ports /\ forwards' = [forwards EXCEPT ![remembered] = {}]
        /\ removed' = removed \cup {remembered}
        /\ UNCHANGED <<process, processes, remembered, attached, forwardCalls, given, unforwarded>>
    BY <1>13, <1>d DEF RemovePortOnExit
  <2>2. forwards'[remembered] = {} /\ \A q \in Ports \ {remembered} : forwards'[q] = forwards[q]
    BY <1>a, <2>1 DEF AdbOK
  <2>3. AppsOK' /\ AdbOK'
    BY <1>a, <2>1 DEF AppsOK, AdbOK, AtMostOne
  <2>4. \A d \in ForwardCalls : PortKept(d, forwardCalls[d], forwards', given, removed', unforwarded)
    BY <1>b, <1>c, <2>1, <2>2 DEF PortKept, ForwardCallOK
  <2>5. PortsLead'
    BY <1>a, <2>1, <2>2 DEF PortsLead, LeadsFor
  <2> QED
    BY <1>a, <2>1, <2>3, <2>4, <2>5 DEF PortsInv, ForwardCallsOK, PortsKept
<1>14. CASE UNCHANGED portVars
  BY <1>14, <1>a, <1>h DEF portVars, PortsInv, AppsOK
<1> QED
  BY <1>1, <1>2, <1>3, <1>4, <1>5, <1>6, <1>7, <1>8, <1>9, <1>10, <1>11, <1>12, <1>13, <1>14 DEF PortsNext

\* The invariant holds from the start.
LEMMA PortsStart == PortsInit => PortsInv
<1> SUFFICES ASSUME PortsInit PROVE PortsInv
  OBVIOUS
<1>1. AppsOK /\ AdbOK
  <2>1. AppsOK
    BY PortForwardingAssumption DEF PortsInit, AppsOK
  <2>2. IsFiniteSet({})
    BY FS_EmptySet
  <2>3. AdbOK
    BY <2>2 DEF PortsInit, AdbOK, AtMostOne
  <2> QED
    BY <2>1, <2>3
<1>2. ForwardCallsOK /\ PortsKept
  BY DEF PortsInit, ForwardCallsOK, PortsKept, ForwardCallOK, PortKept, NoCall, CallFields, AtMostOne
<1>3. PortsLead
  BY DEF PortsInit, PortsLead, LeadsFor
<1> QED
  BY <1>1, <1>2, <1>3 DEF PortsInv

\* What the invariant says of the ports.
LEMMA PortsInvLeads == PortsInv => PortsTypeOK /\ PortsLeadToTheirApp
<1> SUFFICES ASSUME PortsInv PROVE PortsTypeOK /\ PortsLeadToTheirApp
  OBVIOUS
<1>1. \A p \in Ports : Two(given[p]) => Cardinality(given[p]) > 1
  BY TwoAreMore DEF PortsInv, AdbOK
<1>2. PortsLeadToTheirApp
  <2> SUFFICES ASSUME NEW c \in ForwardCalls, NEW p, p = forwardCalls[c].port, p \in Ports,
                      forwardCalls[c].at = "resolved", p # NoPort, p \notin removed, c \notin unforwarded,
                      forwards[p] # forwardCalls[c].socket
               PROVE  Cardinality(given[p]) > 1 /\ \E d \in given[p] \ {c} : forwards[p] = forwardCalls[d].socket
    BY DEF PortsInv, PortsLeadToTheirApp, ForwardCallsOK, ForwardCallOK
  <2>1. forwards[p] # {} /\ Two(given[p])
    BY DEF PortsInv, PortsKept, PortKept
  <2>2. PICK d \in given[p] \cap ForwardCalls : forwards[p] = forwardCalls[d].socket
    BY <2>1 DEF PortsInv, PortsLead, LeadsFor
  <2> QED
    BY <1>1, <2>1, <2>2
<1>3. /\ \A p \in Ports : Cardinality(forwards[p]) <= 1
      /\ \A c \in ForwardCalls : Cardinality(forwardCalls[c].socket) <= 1
  BY AtMostOneIsOne DEF PortsInv, AdbOK, ForwardCallsOK, ForwardCallOK
<1> QED
  BY <1>2, <1>3 DEF PortsInv, AppsOK, AdbOK, ForwardCallsOK, ForwardCallOK, PortsTypeOK

\* What adb forwards, what the service remembers and what each call under way
\* was given fit together.
THEOREM PortsInvariant == PortsSpec => []PortsInv
BY PortsStart, PortsStep, PTL DEF PortsSpec

\* Every port leads to one socket at most, and the state keeps its shape.
THEOREM PortsTypeCorrect == PortsSpec => []PortsTypeOK
BY PortsInvariant, PortsInvLeads, PTL

\* A port that a call was answered with goes on leading to the socket it asked
\* for, unless the exit listener removed it, adb failed to forward it with nobody
\* told, or two calls were given it: then it leads to what another of them asked for.
THEOREM PortsKeepLeading == PortsSpec => []PortsLeadToTheirApp
BY PortsInvariant, PortsInvLeads, PTL

-----------------------------------------------------------------------------
(* Emulators *)

Marks == Ids \cup Simulators \cup {NoId}
ImageMaps == UNION {[D -> Marks] : D \in SUBSET Images}

LEMMA ImageMap ==
    ASSUME NEW f
    PROVE  f \in ImageMaps <=> f \in [DOMAIN f -> Marks] /\ DOMAIN f \subseteq Images
BY DEF ImageMaps

ListPlaces == {"none", "simulators", "adb", "avds", "asking", "naming", "done", "rejected", "available"}
ListSet == [at : ListPlaces, rows : SUBSET Ids, images : ImageMaps, asked : SUBSET Ids, errors : BOOLEAN]

\* A listing marks an Android image with an identifier under which it ran.
ListOK(l, history) ==
    /\ l \in ListSet
    /\ l.asked \subseteq l.rows
    /\ l.at # "asking" => l.asked = {}
    /\ \A i \in DOMAIN l.images \cap Android : l.images[i] # NoId => <<l.images[i], i>> \in history

StartPlaces == {"none", "choose", "options", "chosen", "wait", "sleep", "boot", "answered"}
StartAnswers == {"none", "rejected", "errors", "running", "simulator", "throws", "started"}
StartSet ==
    [at : StartPlaces, image : Images \cup {NoImage}, id : Marks, spawned : 0 .. 1, answer : StartAnswers]

\* A call starts one emulator before it waits for it, and awaits an identifier of its image.
StartOK(call, history) ==
    /\ call \in StartSet
    /\ call.at \in {"none", "choose", "options", "chosen"} => call.spawned = 0
    /\ call.at \in {"wait", "sleep", "boot"} => call.spawned = 1
    /\ call.at # "answered" => call.answer = "none"
    /\ call.at = "boot" \/ call.answer = "started" => call.spawned = 1 /\ <<call.id, call.image>> \in history

\* Only the listing that chooses an emulator has simulators.
Fits(call, l) ==
    /\ call.at # "choose" => DOMAIN l.images \subseteq Android
    /\ l.at = "simulators" => call.at = "choose"

WorldOK ==
    /\ installed \subseteq Images /\ booted \subseteq Ids \cup Simulators
    /\ runs \in [Ids -> Android \cup {NoImage}]
    /\ \A id \in AvdIds : runs[id] \in Avds \cup {NoImage}
    /\ \A id \in Ids : runs[id] # NoImage => <<id, runs[id]>> \in ran

\* An image that is remembered ran.
MemoryOK ==
    /\ imageOf \in [AvdIds -> Avds \cup {NoImage}]
    /\ \A id \in AvdIds : imageOf[id] # NoImage => <<id, imageOf[id]>> \in ran

ListsOK == list \in [Callers -> ListSet] /\ \A c \in Callers : ListOK(list[c], ran)
StartsOK ==
    /\ start \in [Starters -> StartSet]
    /\ \A s \in Starters : StartOK(start[s], ran) /\ Fits(start[s], list[s])
KnownOK == available = DOMAIN known /\ available \subseteq Images

EmulatorsInv == WorldOK /\ MemoryOK /\ ListsOK /\ StartsOK /\ KnownOK

\* What ran once stays in the history.
LEMMA HistoryGrows ==
    ASSUME NEW l, NEW call, NEW old, NEW new, old \subseteq new
    PROVE  /\ ListOK(l, old) => ListOK(l, new)
           /\ StartOK(call, old) => StartOK(call, new)
BY DEF ListOK, StartOK

\* The emulators' own steps.
LEMMA WorldStep ==
    ASSUME EmulatorsInv, ServicesUnchanged, ran \subseteq ran', WorldOK'
    PROVE  EmulatorsInv'
<1>1. MemoryOK' /\ KnownOK'
  BY DEF EmulatorsInv, MemoryOK, KnownOK, ServicesUnchanged
<1>2. ListsOK' /\ StartsOK'
  BY HistoryGrows DEF EmulatorsInv, ListsOK, StartsOK, ServicesUnchanged
<1> QED
  BY <1>1, <1>2 DEF EmulatorsInv

\* A step of a listing that begins with no simulator asked for.
LEMMA ListStep ==
    ASSUME EmulatorsInv, NEW c \in Callers, NEW l, SetList(c, l), ListUnchanged, MemoryOK',
           ListOK(l, ran), l.at # "simulators",
           DOMAIN l.images \subseteq DOMAIN list[c].images \cup Android \/ At(c, "simulators")
    PROVE  EmulatorsInv'
<1>1. WorldOK' /\ KnownOK'
  BY DEF EmulatorsInv, WorldOK, KnownOK, ListUnchanged, world
<1>2. ran' = ran /\ start' = start
  BY DEF ListUnchanged, world
<1>3. ListsOK'
  BY <1>2 DEF EmulatorsInv, ListsOK, ListOK, SetList
<1>4. ASSUME NEW s \in Starters
      PROVE  StartOK(start[s], ran) /\ Fits(start[s], list'[s])
  BY DEF EmulatorsInv, ListsOK, StartsOK, Fits, SetList, At
<1> QED
  BY <1>1, <1>2, <1>3, <1>4 DEF EmulatorsInv, StartsOK

\* A step of a call that starts an emulator leaves a listing that has just begun, or none.
LEMMA NewList ==
    ASSUME NEW place \in ListPlaces, NEW history
    PROVE  /\ ListOK([NoList EXCEPT !.at = place], history)
           /\ DOMAIN [NoList EXCEPT !.at = place].images = {}
           /\ [NoList EXCEPT !.at = place].at = place
           /\ NoList = [NoList EXCEPT !.at = "none"]
<1> DEFINE empty == <<>>
<1>1. empty \in Seq(Marks) /\ Len(empty) = 0 /\ DOMAIN empty = {}
  OBVIOUS
<1>2. empty \in [1 .. Len(empty) -> Marks]
  BY <1>1, LenProperties
<1>3. empty \in ImageMaps
  BY <1>1, <1>2, ImageMap
<1> HIDE DEF empty
<1>4. NoList = [at |-> "none", rows |-> {}, images |-> empty, asked |-> {}, errors |-> FALSE]
  BY DEF NoList, empty
<1>5. NoList \in ListSet /\ NoList.at = "none" /\ NoList.asked = {} /\ DOMAIN NoList.images = {}
  BY <1>1, <1>3, <1>4 DEF ListSet, ListPlaces
<1> HIDE DEF empty
<1> DEFINE new == [NoList EXCEPT !.at = place]
<1>6. new \in ListSet /\ new.at = place /\ new.asked = {} /\ DOMAIN new.images = {}
  BY <1>5 DEF ListSet
<1>7. NoList = [NoList EXCEPT !.at = "none"]
  BY <1>5 DEF ListSet
<1>8. ListOK(new, history)
  BY <1>6 DEF ListOK
<1> HIDE DEF new
<1> QED
  BY <1>6, <1>7, <1>8 DEF new

LEMMA StartStep ==
    ASSUME EmulatorsInv, StartUnchanged, NEW s \in Starters, NEW call, StartOK(call, ran),
           start' = [start EXCEPT ![s] = call],
           NEW place \in ListPlaces, place = "simulators" => call.at = "choose",
           SetList(s, [NoList EXCEPT !.at = place])
    PROVE  EmulatorsInv'
<1> DEFINE l == [NoList EXCEPT !.at = place]
<1>1. ListOK(l, ran) /\ DOMAIN l.images = {} /\ l.at = place
  BY NewList
<1>2. WorldOK' /\ MemoryOK' /\ KnownOK'
  BY DEF EmulatorsInv, WorldOK, MemoryOK, KnownOK, StartUnchanged, world
<1>3. ran' = ran /\ list' = [list EXCEPT ![s] = l]
  BY DEF StartUnchanged, world, SetList
<1> HIDE DEF l
<1>4. ListsOK'
  BY <1>1, <1>3 DEF EmulatorsInv, ListsOK, ListOK, Callers
<1>5. StartsOK'
  BY <1>1, <1>3 DEF EmulatorsInv, ListsOK, StartsOK, StartOK, Fits, Callers
<1> QED
  BY <1>2, <1>4, <1>5 DEF EmulatorsInv

\* A call that has not been answered is answered.
LEMMA StartAnswered ==
    ASSUME EmulatorsInv, StartUnchanged, NEW s \in Starters, NEW answer \in StartAnswers,
           answer = "started" => start[s].at = "boot", Answer(s, answer)
    PROVE  EmulatorsInv'
<1> DEFINE call == [start[s] EXCEPT !.at = "answered", !.answer = answer]
<1>1. StartOK(start[s], ran) /\ start \in [Starters -> StartSet]
  BY DEF EmulatorsInv, StartsOK
<1>2. StartOK(call, ran)
  BY <1>1 DEF StartOK, StartSet, StartPlaces
<1>3. start' = [start EXCEPT ![s] = call]
  BY <1>1 DEF Answer
<1>4. SetList(s, [NoList EXCEPT !.at = "none"])
  BY NewList DEF Answer, ListPlaces
<1> HIDE DEF call
<1> QED
  BY <1>2, <1>3, <1>4, StartStep DEF ListPlaces

\* The emulators start, boot and stop, and images come and go.
LEMMA WorldKeeps ==
    ASSUME EmulatorsInv,
           \/ \E image \in Android, id \in Ids : EmulatorStarts(image, id)
           \/ \E it \in Ids \cup Simulators : BootCompletes(it)
           \/ \E id \in Ids : EmulatorStops(id)
           \/ \E image \in Images : ImageComesOrGoes(image)
    PROVE  EmulatorsInv'
<1>0. WorldOK
  BY DEF EmulatorsInv
<1>1. ASSUME NEW image \in Android, NEW id \in Ids, EmulatorStarts(image, id)
      PROVE  EmulatorsInv'
  <2>1. image \in Avds => id \notin GenyIds
    BY <1>1, EmulatorsAssumption DEF EmulatorStarts, IdsFor
  <2>2. image \notin Avds => id \notin AvdIds
    BY <1>1, EmulatorsAssumption DEF EmulatorStarts, IdsFor
  <2>3. WorldOK'
    BY <1>0, <1>1, <2>2 DEF WorldOK, EmulatorStarts
  <2> QED
    BY <1>1, <2>3, WorldStep DEF EmulatorStarts
<1>2. ASSUME NEW it \in Ids \cup Simulators, BootCompletes(it)
      PROVE  EmulatorsInv'
  BY <1>0, <1>2, WorldStep DEF WorldOK, BootCompletes
<1>3. ASSUME NEW id \in Ids, EmulatorStops(id)
      PROVE  EmulatorsInv'
  BY <1>0, <1>3, WorldStep DEF WorldOK, EmulatorStops
<1>4. ASSUME NEW image \in Images, ImageComesOrGoes(image)
      PROVE  EmulatorsInv'
  BY <1>0, <1>4, WorldStep DEF WorldOK, ImageComesOrGoes
<1> QED
  BY <1>1, <1>2, <1>3, <1>4

\* What a listing is made of.
LEMMA ListShape ==
    ASSUME EmulatorsInv, NEW c \in Callers
    PROVE  /\ ListOK(list[c], ran) /\ list[c] \in ListSet
           /\ list[c].images \in [DOMAIN list[c].images -> Marks] /\ DOMAIN list[c].images \subseteq Images
<1>1. ListOK(list[c], ran)
  BY DEF EmulatorsInv, ListsOK
<1>2. list[c] \in ListSet
  BY <1>1 DEF ListOK
<1>3. list[c].images \in ImageMaps
  BY <1>2 DEF ListSet
<1> QED
  BY <1>1, <1>2, <1>3, ImageMap

\* Images that are found in addition to those of a listing.
LEMMA ImagesAdded ==
    ASSUME NEW f \in ImageMaps, NEW g \in ImageMaps
    PROVE  /\ Add(f, g) \in ImageMaps /\ DOMAIN Add(f, g) = DOMAIN f \cup DOMAIN g
           /\ \A i \in DOMAIN f : Add(f, g)[i] = f[i]
           /\ \A i \in DOMAIN g \ DOMAIN f : Add(f, g)[i] = g[i]
<1> DEFINE h == Add(f, g)
<1>1. h = [i \in DOMAIN f \cup DOMAIN g |-> IF i \in DOMAIN f THEN f[i] ELSE g[i]]
  BY DEF Add
<1>2. f \in [DOMAIN f -> Marks] /\ g \in [DOMAIN g -> Marks] /\ DOMAIN f \subseteq Images /\ DOMAIN g \subseteq Images
  BY ImageMap
<1> HIDE DEF h
<1>3. DOMAIN h = DOMAIN f \cup DOMAIN g
  BY <1>1
<1>4. h \in [DOMAIN h -> Marks] /\ DOMAIN h \subseteq Images
  BY <1>1, <1>2, <1>3
<1>5. h \in ImageMaps
  BY <1>4, ImageMap
<1>6. (\A i \in DOMAIN f : h[i] = f[i]) /\ (\A i \in DOMAIN g \ DOMAIN f : h[i] = g[i])
  BY <1>1
<1> QED
  BY <1>3, <1>5, <1>6 DEF h

\* A listing goes on, for the discovery or for a call that starts an emulator.
LEMMA ListingKeeps ==
    ASSUME EmulatorsInv, NEW c \in Callers,
           \/ ListSimulators(c) \/ ListDevices(c) \/ ListAvds(c) \/ ListVms(c) \/ NameGenies(c)
           \/ \E id \in AvdIds : ConsoleAnswers(c, id)
    PROVE  EmulatorsInv'
<1> DEFINE l == list[c]
<1>0. /\ ListOK(l, ran) /\ l \in ListSet
      /\ l.images \in [DOMAIN l.images -> Marks] /\ DOMAIN l.images \subseteq Images
      /\ l.images \in ImageMaps
  BY ListShape, ImageMap
<1>00. WorldOK /\ MemoryOK
  BY DEF EmulatorsInv
<1>a. ListUnchanged /\ UNCHANGED imageOf => MemoryOK'
  BY <1>00 DEF MemoryOK, ListUnchanged, world
<1>1. CASE ListSimulators(c)
  <2> DEFINE found == [i \in installed \cap Simulators |-> IF i \in booted THEN i ELSE NoId]
             more == [l EXCEPT !.images = found, !.at = "adb"]
             none == [l EXCEPT !.errors = TRUE, !.at = "adb"]
  <2>1. DOMAIN found = installed \cap Simulators /\ found \in [DOMAIN found -> Marks] /\ DOMAIN found \subseteq Images
    BY DEF Marks, Images
  <2>2. found \in ImageMaps
    BY <2>1, ImageMap
  <2>3. DOMAIN found \cap Android = {}
    BY <2>1, EmulatorsAssumption
  <2> HIDE DEF found
  <2>4. ListOK(more, ran) /\ more.at = "adb"
    BY <1>0, <1>1, <2>2, <2>3 DEF ListOK, ListSet, ListPlaces, ListSimulators, At
  <2>5. ListOK(none, ran) /\ none.at = "adb"
    BY <1>0, <1>1 DEF ListOK, ListSet, ListPlaces, ListSimulators, At
  <2>6. SetList(c, more) \/ SetList(c, none)
    BY <1>1 DEF ListSimulators, found
  <2> HIDE DEF more, none, l
  <2> QED
    BY <1>1, <1>a, <2>4, <2>5, <2>6, ListStep DEF ListSimulators
<1>2. CASE ListDevices(c)
  <2>1. PICK rows \in SUBSET Ids : SetList(c, [l EXCEPT !.rows = rows, !.at = "avds"])
    BY <1>2 DEF ListDevices
  <2> DEFINE new == [l EXCEPT !.rows = rows, !.at = "avds"]
  <2>2. ListOK(new, ran) /\ new.at = "avds" /\ new.images = l.images
    BY <1>0, <1>2 DEF ListOK, ListSet, ListPlaces, ListDevices, At
  <2> HIDE DEF new
  <2> QED
    BY <1>2, <1>a, <2>1, <2>2, ListStep DEF ListDevices, new
<1>3. CASE ListAvds(c)
  <2>1. PICK errors \in {l.errors, TRUE} :
            LET asked == l.rows \cap AvdIds
                found(i) == {id \in asked : imageOf[id] = i}
                avds == [i \in installed \cap Avds |-> IF found(i) = {} THEN NoId ELSE CHOOSE id \in found(i) : TRUE]
            IN  SetList(c, [l EXCEPT !.images = Add(@, avds), !.errors = errors, !.at = "asking",
                                     !.asked = {id \in asked : imageOf[id] = NoImage}])
    BY <1>3 DEF ListAvds
  <2> DEFINE rows == l.rows \cap AvdIds
             found(i) == {id \in rows : imageOf[id] = i}
             avds == [i \in installed \cap Avds |-> IF found(i) = {} THEN NoId ELSE CHOOSE id \in found(i) : TRUE]
             asked == {id \in rows : imageOf[id] = NoImage}
             images == Add(l.images, avds)
             new == [l EXCEPT !.images = images, !.errors = errors, !.at = "asking", !.asked = asked]
  <2>2. SetList(c, new)
    BY <2>1
  <2>3. DOMAIN avds = installed \cap Avds
    OBVIOUS
  <2>4. ASSUME NEW i \in DOMAIN avds, avds[i] # NoId
        PROVE  avds[i] \in AvdIds /\ <<avds[i], i>> \in ran
    <3>1. found(i) # {} /\ avds[i] \in found(i)
      BY <2>4
    <3>2. imageOf[avds[i]] = i /\ avds[i] \in AvdIds
      BY <3>1
    <3>3. i # NoImage
      BY <2>4, EmulatorsAssumption DEF Images, Android
    <3> QED
      BY <3>2, <3>3, <1>00 DEF MemoryOK
  <2>5. avds \in [DOMAIN avds -> Marks] /\ DOMAIN avds \subseteq Images
    BY <2>3, <2>4 DEF Marks, Ids, Images, Android
  <2>6. avds \in ImageMaps
    BY <2>5, ImageMap
  <2>7. asked \subseteq l.rows /\ asked \in SUBSET Ids
    BY DEF Ids
  <2>e. errors \in BOOLEAN
    BY <1>0 DEF ListSet
  <2> HIDE DEF avds, asked
  <2>a. /\ images \in ImageMaps /\ DOMAIN images = DOMAIN l.images \cup DOMAIN avds
        /\ \A i \in DOMAIN l.images : images[i] = l.images[i]
        /\ \A i \in DOMAIN avds \ DOMAIN l.images : images[i] = avds[i]
    BY <1>0, <2>6, ImagesAdded
  <2> HIDE DEF images
  <2>8. images \in ImageMaps /\ DOMAIN images \subseteq DOMAIN l.images \cup Android
    BY <2>3, <2>a DEF Android
  <2>9. \A i \in DOMAIN images \cap Android : images[i] # NoId => <<images[i], i>> \in ran
    BY <1>0, <2>4, <2>a DEF ListOK
  <2>10. ListOK(new, ran) /\ new.at = "asking" /\ new.images = images
    BY <1>0, <2>7, <2>8, <2>9, <2>e DEF ListOK, ListSet, ListPlaces
  <2> HIDE DEF new
  <2> QED
    BY <1>3, <1>a, <2>2, <2>8, <2>10, ListStep DEF ListAvds
<1>4. CASE ListVms(c)
  <2> DEFINE vms == Unmarked(installed \cap Genies)
             images == Add(l.images, vms)
             new == [l EXCEPT !.images = images, !.at = "naming"]
             none == [l EXCEPT !.errors = TRUE, !.at = "naming"]
  <2>1. DOMAIN vms = installed \cap Genies /\ (\A i \in DOMAIN vms : vms[i] = NoId) /\ vms \in [DOMAIN vms -> Marks]
    BY DEF Unmarked, Marks
  <2>2. vms \in ImageMaps
    BY <2>1, ImageMap DEF Images, Android
  <2> HIDE DEF vms
  <2>a. /\ images \in ImageMaps /\ DOMAIN images = DOMAIN l.images \cup DOMAIN vms
        /\ \A i \in DOMAIN l.images : images[i] = l.images[i]
        /\ \A i \in DOMAIN vms \ DOMAIN l.images : images[i] = vms[i]
    BY <1>0, <2>2, ImagesAdded
  <2> HIDE DEF images
  <2>3. images \in ImageMaps /\ DOMAIN images \subseteq DOMAIN l.images \cup Android
    BY <2>1, <2>a DEF Android
  <2>4. \A i \in DOMAIN images \cap Android : images[i] # NoId => <<images[i], i>> \in ran
    BY <1>0, <2>1, <2>a DEF ListOK
  <2>5. ListOK(new, ran) /\ new.at = "naming" /\ new.images = images
    BY <1>0, <1>4, <2>3, <2>4 DEF ListOK, ListSet, ListPlaces, ListVms
  <2>6. ListOK(none, ran) /\ none.at = "naming" /\ none.images = l.images
    BY <1>0, <1>4 DEF ListOK, ListSet, ListPlaces, ListVms
  <2>7. SetList(c, new) \/ SetList(c, none)
    BY <1>4 DEF ListVms, images, vms
  <2> HIDE DEF new, none
  <2> QED
    BY <1>4, <1>a, <2>3, <2>5, <2>6, <2>7, ListStep DEF ListVms
<1>5. CASE NameGenies(c)
  <2> DEFINE answering == {id \in l.rows \cap GenyIds : runs[id] # NoImage}
             RunsNow(i) == {id \in answering : runs[id] = i}
             images == [i \in DOMAIN l.images |-> IF RunsNow(i) = {} THEN l.images[i] ELSE CHOOSE id \in RunsNow(i) : TRUE]
             new == [l EXCEPT !.at = "done", !.images = images]
             none == [NoList EXCEPT !.at = "rejected"]
  <2>1. SetList(c, new) \/ SetList(c, none)
    BY <1>5 DEF NameGenies
  <2>2. ASSUME NEW i \in DOMAIN images, images[i] # l.images[i]
        PROVE  images[i] \in Ids /\ <<images[i], i>> \in ran
    <3>1. images[i] \in RunsNow(i)
      BY <2>2
    <3>2. images[i] \in Ids /\ runs[images[i]] # NoImage /\ runs[images[i]] = i
      BY <3>1 DEF Ids
    <3> QED
      BY <3>2, <1>00 DEF WorldOK
  <2>3. DOMAIN images = DOMAIN l.images
    OBVIOUS
  <2>4. images \in [DOMAIN images -> Marks] /\ DOMAIN images \subseteq Images
    BY <1>0, <2>2, <2>3 DEF Marks
  <2> HIDE DEF images
  <2>5. images \in ImageMaps
    BY <2>4, ImageMap
  <2>6. \A i \in DOMAIN images \cap Android : images[i] # NoId => <<images[i], i>> \in ran
    BY <1>0, <2>2, <2>3 DEF ListOK
  <2>7. ListOK(new, ran) /\ new.at = "done" /\ new.images = images
    BY <1>0, <1>5, <2>5, <2>6 DEF ListOK, ListSet, ListPlaces, NameGenies, At
  <2>8. ListOK(none, ran) /\ none.at = "rejected" /\ DOMAIN none.images = {}
    BY NewList DEF ListPlaces
  <2> HIDE DEF new, none
  <2> QED
    BY <1>5, <1>a, <2>1, <2>3, <2>7, <2>8, ListStep DEF NameGenies
<1>6. ASSUME NEW id \in AvdIds, ConsoleAnswers(c, id)
      PROVE  EmulatorsInv'
  <2> DEFINE marked == Mark(l.images, id, runs[id])
             new == [l EXCEPT !.asked = @ \ {id}, !.images = marked]
             none == [l EXCEPT !.asked = @ \ {id}]
  <2>0. l.at = "asking"
    BY <1>6 DEF ConsoleAnswers, At
  <2>1. ListOK(none, ran) /\ none.at = "asking" /\ none.images = l.images
    BY <1>0, <2>0 DEF ListOK, ListSet
  <2>2. CASE SetList(c, none) /\ UNCHANGED imageOf
    <3> HIDE DEF none
    <3> QED
      BY <1>6, <1>a, <2>1, <2>2, ListStep DEF ConsoleAnswers
  <2>3. CASE runs[id] # NoImage /\ imageOf' = [imageOf EXCEPT ![id] = runs[id]] /\ SetList(c, new)
    <3>1. runs[id] \in Avds /\ <<id, runs[id]>> \in ran /\ id \in Marks
      BY <2>3, <1>00 DEF WorldOK, Ids, Marks
    <3>2. MemoryOK'
      BY <3>1, <2>3, <1>6, <1>00 DEF MemoryOK, ConsoleAnswers, ListUnchanged, world
    <3>3. DOMAIN marked = DOMAIN l.images /\ marked \in [DOMAIN l.images -> Marks]
      BY <1>0, <3>1 DEF Mark
    <3>4. \A i \in DOMAIN marked \cap Android : marked[i] # NoId => <<marked[i], i>> \in ran
      BY <1>0, <3>1, <3>3 DEF Mark, ListOK
    <3>5. marked \in ImageMaps
      BY <1>0, <3>3, ImageMap
    <3> HIDE DEF marked
    <3>6. ListOK(new, ran) /\ new.at = "asking" /\ new.images = marked
      BY <1>0, <2>0, <3>4, <3>5 DEF ListOK, ListSet
    <3> HIDE DEF new
    <3> QED
      BY <1>6, <2>3, <3>2, <3>3, <3>6, ListStep DEF ConsoleAnswers
  <2> QED
    BY <1>6, <2>2, <2>3 DEF ConsoleAnswers
<1> QED
  BY <1>1, <1>2, <1>3, <1>4, <1>5, <1>6

\* The discoveries begin a listing and report what it found.
LEMMA DiscoveryKeeps ==
    ASSUME EmulatorsInv, DetectEmulators \/ ReportEmulators \/ CheckForAvailableSimulators
    PROVE  EmulatorsInv'
<1>1. "discovery" \in Callers /\ "discovery" \notin Starters
  BY EmulatorsAssumption DEF Callers
<1>2. WorldOK' /\ MemoryOK' /\ ran' = ran /\ start' = start
  BY DEF EmulatorsInv, WorldOK, MemoryOK, DetectEmulators, ReportEmulators, CheckForAvailableSimulators,
         DiscoveryUnchanged, world
<1>3. ASSUME NEW place \in ListPlaces, SetList("discovery", [NoList EXCEPT !.at = place]), KnownOK'
      PROVE  EmulatorsInv'
  <2> DEFINE l == [NoList EXCEPT !.at = place]
  <2>1. ListOK(l, ran) /\ list' = [list EXCEPT !["discovery"] = l]
    BY <1>3, NewList DEF SetList
  <2> HIDE DEF l
  <2>2. ListsOK'
    BY <1>1, <1>2, <2>1 DEF EmulatorsInv, ListsOK, ListOK
  <2>3. ASSUME NEW s \in Starters
        PROVE  list'[s] = list[s]
    BY <1>1, <2>1 DEF EmulatorsInv, ListsOK, Callers
  <2>4. StartsOK'
    BY <1>2, <2>3 DEF EmulatorsInv, StartsOK
  <2> QED
    BY <1>2, <1>3, <2>2, <2>4 DEF EmulatorsInv
<1>4. KnownOK
  BY DEF EmulatorsInv
<1>5. ASSUME NEW images, NEW lost, NEW found \in SUBSET Images, Report(images, lost, found)
      PROVE  KnownOK'
  BY <1>4, <1>5 DEF KnownOK, Report
<1>6. CASE DetectEmulators
  BY <1>3, <1>4, <1>6 DEF DetectEmulators, KnownOK, ListPlaces
<1>7. CASE ReportEmulators
  <2>1. DOMAIN list["discovery"].images \subseteq Images
    BY <1>1, ListShape
  <2>2. KnownOK'
    <3>1. CASE At("discovery", "done")
      <4> DEFINE images == list["discovery"].images
                 old == DOMAIN known \cap Android
      <4>1. Report(images, old \ DOMAIN images, DOMAIN images \ old)
        BY <1>7, <3>1 DEF ReportEmulators
      <4> HIDE DEF images, old
      <4>2. DOMAIN images \ old \in SUBSET Images
        BY <2>1 DEF images
      <4> QED
        BY <4>1, <4>2, <1>5
    <3>2. CASE ~At("discovery", "done")
      BY <1>4, <1>7, <3>2 DEF ReportEmulators, KnownOK
    <3> QED
      BY <3>1, <3>2
  <2> QED
    BY <1>3, <1>7, <2>2 DEF ReportEmulators, ListPlaces
<1>8. CASE CheckForAvailableSimulators
  <2>1. PICK simulators \in {{}, installed \cap Simulators} :
            Report([i \in simulators |-> IF i \in booted THEN i ELSE NoId], {}, simulators \ DOMAIN known)
    BY <1>8 DEF CheckForAvailableSimulators
  <2>2. simulators \ DOMAIN known \in SUBSET Images
    BY DEF Images
  <2> DEFINE images == [i \in simulators |-> IF i \in booted THEN i ELSE NoId]
  <2> HIDE DEF images
  <2>3. KnownOK'
    BY <2>1, <2>2, <1>5 DEF images
  <2>4. SetList("discovery", [NoList EXCEPT !.at = "none"])
    BY <1>8, NewList DEF CheckForAvailableSimulators, ListPlaces
  <2> QED
    BY <1>3, <2>3, <2>4 DEF ListPlaces
<1> QED
  BY <1>6, <1>7, <1>8

\* A call that starts an emulator goes on.
LEMMA StartKeeps ==
    ASSUME EmulatorsInv, NEW s \in Starters,
           \/ StartEmulator(s) \/ ListingRejects(s) \/ ChooseEmulator(s) \/ SpawnEmulator(s)
           \/ LookForEmulator(s) \/ SleepEnds(s) \/ WaitForBoot(s)
    PROVE  EmulatorsInv'
<1> DEFINE call == start[s]
           l == list[s]
<1>0. /\ start \in [Starters -> StartSet] /\ call \in StartSet
      /\ StartOK(call, ran) /\ Fits(call, l)
  BY DEF EmulatorsInv, StartsOK
<1>00. /\ ListOK(l, ran) /\ l \in ListSet
       /\ l.images \in [DOMAIN l.images -> Marks] /\ DOMAIN l.images \subseteq Images
  BY ListShape DEF Callers
<1>a. StartUnchanged
  BY DEF StartEmulator, ListingRejects, ChooseEmulator, SpawnEmulator, LookForEmulator, SleepEnds, WaitForBoot
<1>b. ASSUME NEW answer \in StartAnswers \ {"started"}, Answer(s, answer)
      PROVE  EmulatorsInv'
  BY <1>a, <1>b, StartAnswered
<1>c. ASSUME NEW next, NEW place \in ListPlaces, Continue(s, next, place), StartOK(next, ran),
             place = "simulators" => next.at = "choose"
      PROVE  EmulatorsInv'
  BY <1>a, <1>c, StartStep DEF Continue
<1>n. NotStarted \in StartSet /\ NotStarted.spawned = 0 /\ NotStarted.answer = "none"
  BY DEF NotStarted, StartSet, StartPlaces, StartAnswers, Marks
<1>1. CASE StartEmulator(s)
  <2>1. ASSUME NEW image \in Images, Continue(s, [NotStarted EXCEPT !.at = "choose", !.image = image], "simulators")
        PROVE  EmulatorsInv'
    <3> DEFINE next == [NotStarted EXCEPT !.at = "choose", !.image = image]
    <3>1. StartOK(next, ran) /\ next.at = "choose"
      BY <1>n DEF StartOK, StartSet, StartPlaces
    <3> HIDE DEF next
    <3> QED
      BY <3>1, <2>1, <1>c DEF ListPlaces, next
  <2>2. ASSUME NEW image \in Images \cup {NoImage}, Continue(s, [NotStarted EXCEPT !.at = "options", !.image = image], "adb")
        PROVE  EmulatorsInv'
    <3> DEFINE next == [NotStarted EXCEPT !.at = "options", !.image = image]
    <3>1. StartOK(next, ran)
      BY <1>n DEF StartOK, StartSet, StartPlaces
    <3> HIDE DEF next
    <3> QED
      BY <3>1, <2>2, <1>c DEF ListPlaces, next
  <2> QED
    BY <1>1, <2>1, <2>2 DEF StartEmulator
<1>2. CASE ListingRejects(s)
  BY <1>b, <1>2 DEF ListingRejects, StartAnswers
<1>3. CASE ChooseEmulator(s)
  <2>1. CASE Continue(s, [call EXCEPT !.at = "chosen"], "adb")
    <3> DEFINE next == [call EXCEPT !.at = "chosen"]
    <3>1. StartOK(next, ran)
      BY <1>0, <1>3 DEF StartOK, StartSet, StartPlaces, ChooseEmulator
    <3> HIDE DEF next
    <3> QED
      BY <3>1, <2>1, <1>c DEF ListPlaces, next
  <2>2. CASE \E answer \in {"errors", "running", "simulator"} : Answer(s, answer)
    BY <1>b, <2>2 DEF StartAnswers
  <2> QED
    BY <1>3, <2>1, <2>2 DEF ChooseEmulator
<1>4. CASE SpawnEmulator(s)
  <2>1. ASSUME NEW i \in Images \cup {NoImage}, Spawn(s, i)
        PROVE  EmulatorsInv'
    <3> DEFINE once == call.spawned + 1
               next == [call EXCEPT !.at = "wait", !.image = i, !.spawned = once]
    <3>1. call.spawned = 0 /\ call.answer = "none"
      BY <1>0, <1>4 DEF StartOK, SpawnEmulator
    <3>2. once = 1
      BY <3>1
    <3>3. Continue(s, next, "adb")
      BY <2>1 DEF Spawn
    <3> HIDE DEF once
    <3>a. once \in 0 .. 1
      BY <3>2
    <3>b. next \in StartSet
      BY <1>0, <3>a DEF StartSet, StartPlaces
    <3>c. next.at = "wait" /\ next.spawned = 1 /\ next.answer = "none"
      BY <1>0, <3>1, <3>2 DEF StartSet
    <3> HIDE DEF next
    <3>4. StartOK(next, ran)
      BY <3>b, <3>c DEF StartOK
    <3> HIDE DEF next
    <3> QED
      BY <3>3, <3>4, <1>c DEF ListPlaces
  <2>2. CASE Answer(s, "errors")
    BY <1>b, <2>2 DEF StartAnswers
  <2>3. call.image \in Images \cup {NoImage} /\ Listed(s) \subseteq Images
    BY <1>0, <1>00 DEF StartSet, Listed
  <2>4. Answer(s, "errors") \/ \E i \in Images \cup {NoImage} : Spawn(s, i)
    BY <1>4, <2>3 DEF SpawnEmulator
  <2> QED
    BY <2>1, <2>2, <2>4
<1>5. CASE LookForEmulator(s)
  <2> DEFINE boot == [call EXCEPT !.at = "boot", !.id = l.images[call.image]]
             sleep == [call EXCEPT !.at = "sleep", !.image = IF call.image \in Listed(s) THEN call.image ELSE NoImage]
  <2>1. CASE /\ call.image \in Listed(s) /\ l.images[call.image] # NoId
             /\ start' = [start EXCEPT ![s].at = "boot", ![s].id = l.images[call.image]]
             /\ SetList(s, NoList)
    <3>1. call.at = "wait"
      BY <1>5 DEF LookForEmulator
    <3>2. call.image \in DOMAIN l.images \cap Android
      BY <1>0, <2>1, <3>1 DEF Fits, Listed
    <3>3. <<l.images[call.image], call.image>> \in ran /\ l.images[call.image] \in Marks
      BY <1>00, <2>1, <3>2 DEF ListOK
    <3>4. StartOK(boot, ran)
      BY <1>0, <3>1, <3>3 DEF StartOK, StartSet, StartPlaces
    <3>5. start' = [start EXCEPT ![s] = boot]
      BY <1>0, <2>1
    <3>6. SetList(s, [NoList EXCEPT !.at = "none"])
      BY <2>1, NewList DEF ListPlaces
    <3> HIDE DEF boot
    <3> QED
      BY <1>a, <3>4, <3>5, <3>6, StartStep DEF ListPlaces
  <2>2. CASE /\ start' = [start EXCEPT ![s].at = "sleep", ![s].image = IF call.image \in Listed(s) THEN call.image ELSE NoImage]
             /\ SetList(s, NoList)
    <3>1. call.at = "wait"
      BY <1>5 DEF LookForEmulator
    <3>2. StartOK(sleep, ran)
      BY <1>0, <3>1 DEF StartOK, StartSet, StartPlaces
    <3>3. start' = [start EXCEPT ![s] = sleep]
      BY <1>0, <2>2
    <3>4. SetList(s, [NoList EXCEPT !.at = "none"])
      BY <2>2, NewList DEF ListPlaces
    <3> HIDE DEF sleep
    <3> QED
      BY <1>a, <3>2, <3>3, <3>4, StartStep DEF ListPlaces
  <2>3. CASE Answer(s, "throws")
    BY <1>b, <2>3 DEF StartAnswers
  <2> QED
    BY <1>5, <2>1, <2>2, <2>3 DEF LookForEmulator
<1>6. CASE SleepEnds(s)
  <2> DEFINE next == [call EXCEPT !.at = "wait"]
  <2>1. StartOK(next, ran)
    BY <1>0, <1>6 DEF StartOK, StartSet, StartPlaces, SleepEnds
  <2>2. Continue(s, next, "adb") \/ Answer(s, "errors")
    BY <1>6 DEF SleepEnds
  <2> HIDE DEF next
  <2> QED
    BY <2>1, <2>2, <1>b, <1>c DEF ListPlaces, StartAnswers
<1>7. CASE WaitForBoot(s)
  BY <1>7, <1>a, StartAnswered DEF WaitForBoot, StartAnswers
<1> QED
  BY <1>1, <1>2, <1>3, <1>4, <1>5, <1>6, <1>7

LEMMA EmulatorsStart == EmulatorsInit => EmulatorsInv
<1> SUFFICES ASSUME EmulatorsInit
             PROVE  EmulatorsInv
  OBVIOUS
<1>1. ListOK(NoList, ran) /\ NoList \in ListSet /\ DOMAIN NoList.images = {} /\ NoList.at = "none"
  BY NewList DEF ListOK, ListPlaces
<1>2. StartOK(NotStarted, ran)
  BY DEF NotStarted, StartOK, StartSet, StartPlaces, StartAnswers, Marks
<1>3. WorldOK /\ MemoryOK
  BY EmulatorsAssumption DEF EmulatorsInit, WorldOK, MemoryOK, Ids
<1>4. ListsOK
  BY <1>1 DEF EmulatorsInit, ListsOK
<1>5. ASSUME NEW s \in Starters
      PROVE  start[s] = NotStarted /\ list[s] = NoList
  BY DEF EmulatorsInit, Callers
<1>6. StartsOK
  BY <1>1, <1>2, <1>5 DEF EmulatorsInit, StartsOK, StartOK, Fits
<1>7. KnownOK
  BY DEF EmulatorsInit, KnownOK
<1> QED
  BY <1>3, <1>4, <1>6, <1>7 DEF EmulatorsInv

LEMMA EmulatorsStep == EmulatorsInv /\ [EmulatorsNext]_emulatorsVars => EmulatorsInv'
<1> SUFFICES ASSUME EmulatorsInv, [EmulatorsNext]_emulatorsVars
             PROVE  EmulatorsInv'
  OBVIOUS
<1>1. CASE UNCHANGED emulatorsVars
  BY <1>1 DEF emulatorsVars, world, EmulatorsInv, WorldOK, MemoryOK, ListsOK, ListOK, StartsOK, StartOK, Fits, KnownOK
<1> QED
  BY <1>1, WorldKeeps, ListingKeeps, DiscoveryKeeps, StartKeeps DEF EmulatorsNext

LEMMA EmulatorsInvHolds == EmulatorsInv => EmulatorsTypeOK /\ StartedHasRun
<1> SUFFICES ASSUME EmulatorsInv
             PROVE  EmulatorsTypeOK /\ StartedHasRun
  OBVIOUS
<1>1. \A c \in Callers : DOMAIN list[c].images \subseteq Images /\ list[c].rows \subseteq Ids /\ list[c].asked \subseteq list[c].rows
  BY ListShape DEF ListOK, ListSet
<1>2. \A s \in Starters : StartOK(start[s], ran)
  BY DEF EmulatorsInv, StartsOK
<1>3. EmulatorsTypeOK
  BY <1>1, <1>2 DEF EmulatorsInv, WorldOK, MemoryOK, KnownOK, EmulatorsTypeOK, StartOK, StartSet
<1>4. StartedHasRun
  BY <1>2 DEF StartOK, StartedHasRun
<1> QED
  BY <1>3, <1>4

\* The invariant of the emulators: what a listing, the memory of the AVD service
\* and a call that starts an emulator say of an identifier was true of it once.
THEOREM EmulatorsInvariant == EmulatorsSpec => []EmulatorsInv
BY EmulatorsStart, EmulatorsStep, PTL DEF EmulatorsSpec

\* Listings and starts have their shapes, and DevicesService has the images that the discoveries know.
THEOREM EmulatorsTypeCorrect == EmulatorsSpec => []EmulatorsTypeOK
BY EmulatorsInvariant, EmulatorsInvHolds, PTL

\* startEmulator that answers without errors has spawned its emulator once, and
\* awaited an identifier under which the image it was asked for ran, though images
\* are remembered for good and identifiers change hands.
THEOREM EmulatorsStartedHasRun == EmulatorsSpec => []StartedHasRun
BY EmulatorsInvariant, EmulatorsInvHolds, PTL

-----------------------------------------------------------------------------
(* The files of applications *)

FileOperations == {"none", "files", "directory", "pushDirectory", "iOS", "simulator", "get", "update", "remove", "write"}
FilePlaces ==
    {"none", "chunk", "chmod", "push", "upload", "look", "pull", "pulling", "generate", "write", "pushHashes", "arriving",
     "resolved", "rejected"}
FileCallSet ==
    [op : FileOperations, s : Services, at : FilePlaces, items : SUBSET Items, folders : SUBSET Items,
     inFlight : SUBSET Items, answer : SUBSET Items, since : [Files -> Nat], sent : [Files -> Nat], lost : SUBSET Items,
     hashes : Hashes \cup {NoHashes}, paths : Services \X Services]

\* A chunk, or everything, is under way while the items are pushed, or after one of
\* them failed.
FileCallShape(call) ==
    /\ call \in FileCallSet
    /\ call.op \in {"files", "directory"} => Cardinality(call.inFlight) <= ChunkSize
    /\ call.inFlight # {} => call.at \in {"chunk", "push", "upload", "rejected"} /\ call.op # "simulator"
    /\ call.at \in {"look", "pull", "pulling"} => call.op \in {"get", "update", "remove"}
    /\ call.at \in {"generate", "write"} => call.hashes \in Hashes
    /\ call.at = "chunk" => call.op \in {"files", "directory"}

\* The files that the call answers, or will answer, and that are not under way.
Settled(call) ==
    (CASE call.at = "push" -> Files
       [] call.at = "upload" -> call.items \cap Files
       [] OTHER -> call.answer \cap Files) \ call.inFlight

\* What a call has read is not older than the project was when it began.  The device
\* has what is settled, unless it was lost or overtaken or the application installed.
FileCallArrived(call, platforms, versions, files, late, installations) ==
    /\ \A f \in Files : /\ call.since[f] <= versions[f] /\ call.sent[f] <= versions[f]
                        /\ call.sent[f] # 0 => call.since[f] <= call.sent[f]
    /\ call.op = "simulator" => platforms[call.s] = "simulator"
    /\ call.at # "rejected" /\ platforms[call.s] # "simulator" /\ installations = 0 =>
          \A f \in Settled(call) : f \in call.lost \/ <<call.s, f>> \in late \/ files[call.s][f] >= call.since[f]

ProjectOK ==
    /\ platform \in [Services -> Androids \cup {"iOS", "simulator"}]
    /\ version \in [Files -> 1 .. MaxVersions]
    /\ onDevice \in [Services -> [Files -> Nat]]
    /\ \A s \in Services, f \in Files : onDevice[s][f] <= version[f]
    /\ reinstalls \in Nat

HashFilesOK ==
    /\ hashFile \in [Services -> Hashes \cup {NoHashes}] /\ localCopy \in [Services -> Hashes \cup {NoHashes}]
    /\ touched \subseteq {"local", "device"} \X Services /\ cached \in [{"local", "device"} -> Services]

FileCallsOK ==
    /\ fileCalls \in [FileCalls -> FileCallSet]
    /\ \A c \in FileCalls : /\ FileCallShape(fileCalls[c])
                            /\ FileCallArrived(fileCalls[c], platform, version, onDevice, overtaken, reinstalls)

\* As long as the getters of one service only were called, that service works on its
\* own files.  As long as no copy was written in between, no call pulls while another
\* pushes, what is on its way is what it will be compared with, and the copy is the
\* hash file unless a push is still to come.
OnlyTouched(s) == touched \subseteq {"local", "device"} \X {s}
Pulling == {"pull", "pulling"}
Pushing == {"pushHashes", "arriving"}
Afresh(s) == hashFile[s] = NoHashes /\ reinstalls > 0
MovesApart(s) ==
    /\ \A c \in FileCalls : fileCalls[c].at = "arriving" => fileCalls[c].hashes = localCopy[s]
    /\ \A c \in FileCalls : fileCalls[c].at = "pulling" => fileCalls[c].hashes \in {NoHashes, hashFile[s]} \/ Afresh(s)
    /\ \A c, d \in FileCalls : ~(fileCalls[c].at \in Pulling /\ fileCalls[d].at \in Pushing)
    /\ localCopy[s] # NoHashes /\ ~pushFailed =>
          hashFile[s] = localCopy[s] \/ Afresh(s) \/ \E c \in FileCalls : fileCalls[c].at \in Pushing
CopyOf(s) ==
    /\ \A t \in Services \ {s} : localCopy[t] = NoHashes
    /\ \A g \in {"local", "device"} : <<g, s>> \in touched => cached[g] = s
    /\ \A c \in FileCalls : fileCalls[c].at \in Moving => fileCalls[c].s = s /\ fileCalls[c].paths = <<s, s>>
    /\ \A c \in FileCalls : fileCalls[c].at \in Pushing => localCopy[s] # NoHashes
    /\ ~raced => MovesApart(s)
CopiesOK == \A s \in Services : OnlyTouched(s) => CopyOf(s)

FilesInv == ProjectOK /\ HashFilesOK /\ FileCallsOK /\ CopiesOK

LEMMA HashesAre ==
    ASSUME NEW h
    PROVE  h \in Hashes <=> h \in [DOMAIN h -> 1 .. MaxVersions] /\ DOMAIN h \subseteq Files
BY DEF Hashes

LEMMA NoneAreHashes == <<>> \in Hashes
<1> DEFINE empty == <<>>
<1>1. empty \in Seq(1 .. MaxVersions) /\ Len(empty) = 0 /\ DOMAIN empty = {}
  OBVIOUS
<1>2. empty \in [1 .. Len(empty) -> 1 .. MaxVersions]
  BY <1>1, LenProperties
<1>3. empty \in Hashes
  BY <1>1, <1>2, HashesAre
<1> QED
  BY <1>3

LEMMA FileConstants ==
    /\ ChunkSize \in Nat \ {0} /\ MaxVersions \in Nat \ {0}
    /\ \A items \in SUBSET Items : IsFiniteSet(items) /\ Cardinality(items) \in Nat
    /\ Cardinality({}) = 0
<1>1. IsFiniteSet(Items)
  BY DeviceFilesAssumption, FS_Union DEF Items
<1> QED
  BY <1>1, DeviceFilesAssumption, FS_Subset, FS_CardinalityType, FS_EmptySet

\* Versions get newer, and so do the files on devices unless a push overtakes
\* another one or an application is installed.
LEMMA ArrivedStays ==
    ASSUME NEW call \in FileCallSet, NEW p, NEW v \in [Files -> Nat], NEW w \in [Files -> Nat],
           NEW d \in [Services -> [Files -> Nat]], NEW e \in [Services -> [Files -> Nat]],
           NEW i \in Nat, NEW j \in Nat, i <= j, NEW o, NEW q, o \subseteq q,
           \A f \in Files : v[f] <= w[f],
           j = 0 => \A s \in Services, f \in Files : d[s][f] <= e[s][f] \/ <<s, f>> \in q,
           FileCallArrived(call, p, v, d, o, i)
    PROVE  FileCallArrived(call, p, w, e, q, j)
<1>1. call.s \in Services /\ call.since \in [Files -> Nat] /\ call.sent \in [Files -> Nat]
  BY DEF FileCallSet
<1>2. ASSUME NEW f \in Files
      PROVE  call.since[f] <= w[f] /\ call.sent[f] <= w[f] /\ (call.sent[f] # 0 => call.since[f] <= call.sent[f])
  BY <1>1 DEF FileCallArrived
<1>3. ASSUME call.at # "rejected", p[call.s] # "simulator", j = 0, NEW f \in Settled(call),
             f \notin call.lost, <<call.s, f>> \notin q
      PROVE  e[call.s][f] >= call.since[f]
  <2>1. i = 0 /\ f \in Files
    BY <1>3 DEF Settled
  <2>2. d[call.s][f] >= call.since[f]
    BY <1>3, <2>1 DEF FileCallArrived
  <2>3. d[call.s][f] <= e[call.s][f]
    BY <1>1, <1>3, <2>1
  <2>4. call.since[f] \in Nat /\ d[call.s][f] \in Nat /\ e[call.s][f] \in Nat
    BY <1>1, <2>1
  <2> QED
    BY <2>2, <2>3, <2>4
<1>4. call.op = "simulator" => p[call.s] = "simulator"
  BY DEF FileCallArrived
<1> QED
  BY <1>2, <1>3, <1>4 DEF FileCallArrived

\* A call goes on: what it settles was settled, or is lost.
LEMMA StillArrived ==
    ASSUME NEW old \in FileCallSet, NEW call \in FileCallSet, NEW p, NEW v \in [Files -> Nat], NEW d, NEW o, NEW i,
           FileCallArrived(old, p, v, d, o, i),
           call.op = old.op, call.s = old.s, call.since = old.since, call.at = "rejected" \/ old.at # "rejected",
           old.lost \subseteq call.lost, \A f \in Files : call.sent[f] \in {0, old.sent[f]},
           call.at = "rejected" \/ \A f \in Settled(call) : f \in Settled(old) \/ f \in call.lost
    PROVE  FileCallArrived(call, p, v, d, o, i)
<1>1. ASSUME NEW f \in Files
      PROVE  call.since[f] <= v[f] /\ call.sent[f] <= v[f] /\ (call.sent[f] # 0 => call.since[f] <= call.sent[f])
  <2>1. v[f] \in Nat /\ call.sent[f] \in {0, old.sent[f]} /\ call.since[f] = old.since[f]
    OBVIOUS
  <2> QED
    BY <2>1 DEF FileCallArrived
<1> QED
  BY <1>1 DEF FileCallArrived

\* A step of a transfer: the device gets files of the project that some push had read.
LEMMA TransferStep ==
    ASSUME FilesInv, TransferOnly, NEW c \in FileCalls, NEW call, Become(c, call), FileCallShape(call),
           FileCallArrived(call, platform, version, onDevice', overtaken', reinstalls),
           onDevice' \in [Services -> [Files -> Nat]], overtaken \subseteq overtaken',
           \A s \in Services, f \in Files :
              onDevice'[s][f] <= version[f] /\ (onDevice[s][f] <= onDevice'[s][f] \/ <<s, f>> \in overtaken'),
           fileCalls[c].at \notin Moving, call.at \notin Moving
    PROVE  FilesInv'
<1>0. ProjectOK /\ HashFilesOK /\ FileCallsOK /\ CopiesOK
  BY DEF FilesInv
<1>1. version \in [Files -> Nat] /\ reinstalls \in Nat
  BY <1>0, FileConstants DEF ProjectOK
<1>4. UNCHANGED <<platform, version, hashFile, localCopy, touched, cached, pushFailed, raced, reinstalls>>
  BY DEF TransferOnly, hashVars
<1>5. ProjectOK'
  BY <1>0, <1>4 DEF ProjectOK
<1>6. HashFilesOK'
  BY <1>0, <1>4 DEF HashFilesOK
<1>7. fileCalls' = [fileCalls EXCEPT ![c] = call]
  BY DEF Become
<1>8. ASSUME NEW d \in FileCalls
      PROVE  FileCallShape(fileCalls'[d]) /\ FileCallArrived(fileCalls'[d], platform, version, onDevice', overtaken', reinstalls)
  <2>1. CASE d = c
    BY <1>0, <1>7, <2>1 DEF FileCallsOK
  <2>2. CASE d # c
    <3>1. fileCalls'[d] = fileCalls[d] /\ fileCalls[d] \in FileCallSet
      BY <1>0, <1>7, <2>2 DEF FileCallsOK
    <3>2. FileCallArrived(fileCalls[d], platform, version, onDevice, overtaken, reinstalls) /\ FileCallShape(fileCalls[d])
      BY <1>0 DEF FileCallsOK
    <3>3. onDevice \in [Services -> [Files -> Nat]] /\ (\A f \in Files : version[f] <= version[f]) /\ reinstalls <= reinstalls
      BY <1>0, <1>1 DEF ProjectOK
    <3>4. FileCallArrived(fileCalls[d], platform, version, onDevice', overtaken', reinstalls)
      BY <1>1, <3>1, <3>2, <3>3, ArrivedStays
    <3> QED
      BY <3>1, <3>2, <3>4
  <2> QED
    BY <2>1, <2>2
<1>9. FileCallsOK'
  BY <1>0, <1>4, <1>7, <1>8 DEF FileCallsOK, FileCallShape
<1>10. ASSUME NEW s \in Services, OnlyTouched(s)'
       PROVE  CopyOf(s)'
  <2>1. CopyOf(s)
    BY <1>0, <1>4, <1>10 DEF CopiesOK, OnlyTouched
  <2>2. \A d \in FileCalls : fileCalls[d].at \in Moving \/ fileCalls'[d].at \in Moving => fileCalls'[d] = fileCalls[d]
    BY <1>0, <1>7 DEF FileCallsOK
  <2>3. Pulling \subseteq Moving /\ Pushing \subseteq Moving /\ "arriving" \in Moving /\ "pulling" \in Moving
    BY DEF Pulling, Pushing, Moving
  <2>4. MovesApart(s) => MovesApart(s)'
    BY <1>4, <2>2, <2>3 DEF MovesApart, Afresh
  <2> QED
    BY <1>4, <2>1, <2>2, <2>3, <2>4 DEF CopyOf
<1>11. CopiesOK'
  BY <1>10 DEF CopiesOK
<1> QED
  BY <1>5, <1>6, <1>9, <1>11 DEF FilesInv

\* A step of a hash service.
LEMMA HashStep ==
    ASSUME FilesInv, HashesOnly, NEW c \in FileCalls, NEW call, Become(c, call), FileCallShape(call),
           FileCallArrived(call, platform, version, onDevice, overtaken, reinstalls), HashFilesOK', CopiesOK'
    PROVE  FilesInv'
<1>0. ProjectOK /\ FileCallsOK
  BY DEF FilesInv
<1>1. ProjectOK'
  BY <1>0 DEF ProjectOK, HashesOnly
<1>2. fileCalls' = [fileCalls EXCEPT ![c] = call] /\ call \in FileCallSet
  BY DEF Become, FileCallShape
<1>3. FileCallsOK'
  BY <1>0, <1>2 DEF FileCallsOK, HashesOnly
<1> QED
  BY <1>1, <1>3 DEF FilesInv

\* A step that leaves the devices and the hashes alone.
LEMMA CallStep ==
    ASSUME FilesInv, TransferOnly, NothingArrives, NEW c \in FileCalls, NEW call, Become(c, call), FileCallShape(call),
           FileCallArrived(call, platform, version, onDevice, overtaken, reinstalls),
           fileCalls[c].at \notin Moving, call.at \notin Moving
    PROVE  FilesInv'
<1>1. UNCHANGED <<onDevice, overtaken>>
  BY DEF NothingArrives
<1>2. ProjectOK
  BY DEF FilesInv
<1>3. /\ onDevice' \in [Services -> [Files -> Nat]]
      /\ \A s \in Services, f \in Files : onDevice'[s][f] <= version[f] /\ onDevice[s][f] <= onDevice'[s][f]
  BY <1>1, <1>2 DEF ProjectOK
<1>4. FileCallArrived(call, platform, version, onDevice', overtaken', reinstalls)
  BY <1>1
<1> QED
  BY <1>1, <1>3, <1>4, TransferStep

\* The project changes, and applications are installed.
LEMMA ProjectStep ==
    ASSUME FilesInv, \/ \E f \in Files : FileChanges(f)
                     \/ \E s \in Services : InstallApplication(s)
    PROVE  FilesInv'
<1>0. ProjectOK /\ HashFilesOK /\ FileCallsOK /\ CopiesOK
  BY DEF FilesInv
<1>1. version \in [Files -> Nat] /\ reinstalls \in Nat /\ onDevice \in [Services -> [Files -> Nat]]
  BY <1>0, FileConstants DEF ProjectOK
<1>2. ASSUME NEW f \in Files, FileChanges(f)
      PROVE  FilesInv'
  <2>1. version' = [version EXCEPT ![f] = @ + 1] /\ version[f] < MaxVersions /\ version[f] \in 1 .. MaxVersions
    BY <1>0, <1>2 DEF FileChanges, ProjectOK
  <2>2. version[f] + 1 \in 1 .. MaxVersions
    BY <2>1, FileConstants
  <2>3. version' \in [Files -> 1 .. MaxVersions]
    BY <1>0, <2>1, <2>2 DEF ProjectOK
  <2>4. \A g \in Files : version[g] <= version'[g]
    BY <1>1, <2>1
  <2>5. UNCHANGED <<platform, onDevice, hashFile, localCopy, touched, cached, pushFailed, raced, fileCalls, reinstalls, overtaken>>
    BY <1>2 DEF FileChanges, hashVars
  <2>6. version' \in [Files -> Nat]
    BY <2>3, FileConstants
  <2>7. ASSUME NEW s \in Services, NEW g \in Files
        PROVE  onDevice[s][g] <= version'[g]
    <3>1. onDevice[s][g] \in Nat /\ version[g] \in Nat /\ version'[g] \in Nat /\ onDevice[s][g] <= version[g]
      BY <1>0, <1>1, <2>6 DEF ProjectOK
    <3> QED
      BY <3>1, <2>4
  <2>8. ProjectOK'
    BY <1>0, <2>3, <2>5, <2>7 DEF ProjectOK
  <2>9. HashFilesOK' /\ CopiesOK'
    BY <1>0, <2>5 DEF HashFilesOK, CopiesOK, CopyOf, OnlyTouched, MovesApart, Afresh
  <2>10. ASSUME NEW c \in FileCalls
         PROVE  FileCallArrived(fileCalls[c], platform, version', onDevice, overtaken, reinstalls)
    <3>1. fileCalls[c] \in FileCallSet /\ FileCallArrived(fileCalls[c], platform, version, onDevice, overtaken, reinstalls)
      BY <1>0 DEF FileCallsOK
    <3>2. \A s \in Services, g \in Files : onDevice[s][g] <= onDevice[s][g]
      BY <1>1
    <3> QED
      BY <1>1, <2>4, <2>6, <3>1, <3>2, ArrivedStays
  <2>11. FileCallsOK'
    BY <1>0, <2>5, <2>10 DEF FileCallsOK, FileCallShape
  <2> QED
    BY <2>8, <2>9, <2>11 DEF FilesInv
<1>3. ASSUME NEW s \in Services, InstallApplication(s)
      PROVE  FilesInv'
  <2>1. /\ UNCHANGED <<platform, version, localCopy, touched, cached, fileCalls, overtaken, pushFailed, raced>>
        /\ reinstalls' = reinstalls + 1
        /\ hashFile' = [hashFile EXCEPT ![s] = NoHashes]
        /\ onDevice' = [onDevice EXCEPT ![s] = [f \in Files |-> 0]]
    BY <1>3 DEF InstallApplication
  <2>2. reinstalls' \in Nat /\ reinstalls <= reinstalls' /\ reinstalls' > 0 /\ reinstalls' # 0
    BY <1>1, <2>1
  <2>3. onDevice' \in [Services -> [Files -> Nat]]
    BY <1>1, <2>1
  <2>4. \A t \in Services, f \in Files : onDevice'[t][f] <= version[f]
    BY <1>0, <1>1, <2>1 DEF ProjectOK
  <2>5. ProjectOK'
    BY <1>0, <2>1, <2>2, <2>3, <2>4 DEF ProjectOK
  <2>6. HashFilesOK'
    BY <1>0, <2>1 DEF HashFilesOK
  <2>7. \A t \in Services : hashFile'[t] \in {hashFile[t], NoHashes}
    BY <1>0, <2>1 DEF HashFilesOK
  <2>8. CopiesOK'
    <3> SUFFICES ASSUME NEW t \in Services, OnlyTouched(t)' PROVE CopyOf(t)'
      BY DEF CopiesOK
    <3>1. CopyOf(t)
      BY <1>0, <2>1 DEF CopiesOK, OnlyTouched
    <3>2. hashFile'[t] = hashFile[t] \/ Afresh(t)'
      BY <2>2, <2>7 DEF Afresh
    <3>3. Afresh(t) => Afresh(t)'
      BY <2>2, <2>7 DEF Afresh
    <3>4. MovesApart(t) => MovesApart(t)'
      BY <2>1, <3>2, <3>3 DEF MovesApart
    <3> QED
      BY <2>1, <3>1, <3>4 DEF CopyOf
  <2>9. ASSUME NEW c \in FileCalls
        PROVE  FileCallArrived(fileCalls[c], platform, version, onDevice', overtaken, reinstalls')
    <3>1. fileCalls[c] \in FileCallSet /\ FileCallArrived(fileCalls[c], platform, version, onDevice, overtaken, reinstalls)
      BY <1>0 DEF FileCallsOK
    <3>2. \A f \in Files : version[f] <= version[f]
      BY <1>1
    <3> QED
      BY <1>1, <2>2, <2>3, <3>1, <3>2, ArrivedStays
  <2>10. FileCallsOK'
    BY <1>0, <2>1, <2>9 DEF FileCallsOK, FileCallShape
  <2> QED
    BY <2>5, <2>6, <2>8, <2>10 DEF FilesInv
<1> QED
  BY <1>2, <1>3

\* What is known of the call that goes on.
LEMMA FileCallFacts ==
    ASSUME FilesInv, NEW c \in FileCalls
    PROVE  /\ fileCalls[c] \in FileCallSet /\ FileCallShape(fileCalls[c])
           /\ FileCallArrived(fileCalls[c], platform, version, onDevice, overtaken, reinstalls)
           /\ fileCalls[c].s \in Services /\ fileCalls[c].since \in [Files -> Nat] /\ fileCalls[c].sent \in [Files -> Nat]
           /\ onDevice \in [Services -> [Files -> Nat]] /\ version \in [Files -> Nat] /\ reinstalls \in Nat
           /\ \A s \in Services, f \in Files : onDevice[s][f] <= version[f]
           /\ \A f \in Files : version[f] <= version[f]
<1>1. ProjectOK /\ FileCallsOK
  BY DEF FilesInv
<1>2. fileCalls[c] \in FileCallSet /\ FileCallShape(fileCalls[c])
      /\ FileCallArrived(fileCalls[c], platform, version, onDevice, overtaken, reinstalls)
  BY <1>1 DEF FileCallsOK
<1>3. onDevice \in [Services -> [Files -> Nat]] /\ version \in [Files -> Nat] /\ reinstalls \in Nat
  BY <1>1, FileConstants DEF ProjectOK
<1>4. (\A s \in Services, f \in Files : onDevice[s][f] <= version[f]) /\ \A f \in Files : version[f] <= version[f]
  BY <1>1, <1>3 DEF ProjectOK
<1> QED
  BY <1>2, <1>3, <1>4 DEF FileCallSet

\* A call that leaves the devices and the hashes alone, and goes on as it was or is
\* rejected.
LEMMA CallGoesOn ==
    ASSUME FilesInv, TransferOnly, NothingArrives, NEW c \in FileCalls, NEW call, Become(c, call), FileCallShape(call),
           call.op = fileCalls[c].op, call.s = fileCalls[c].s, call.since = fileCalls[c].since,
           call.at = "rejected" \/ fileCalls[c].at # "rejected",
           fileCalls[c].lost \subseteq call.lost, \A f \in Files : call.sent[f] \in {0, fileCalls[c].sent[f]},
           call.at = "rejected" \/ \A f \in Settled(call) : f \in Settled(fileCalls[c]) \/ f \in call.lost,
           fileCalls[c].at \notin Moving, call.at \notin Moving
    PROVE  FilesInv'
<1>1. /\ fileCalls[c] \in FileCallSet /\ version \in [Files -> Nat]
      /\ FileCallArrived(fileCalls[c], platform, version, onDevice, overtaken, reinstalls)
  BY FileCallFacts
<1>2. call \in FileCallSet
  BY DEF FileCallShape
<1>3. FileCallArrived(call, platform, version, onDevice, overtaken, reinstalls)
  BY <1>1, <1>2, StillArrived
<1> QED
  BY <1>3, CallStep

\* Less is under way than before.
LEMMA FewerInFlight ==
    ASSUME NEW call, FileCallShape(call), NEW left \in SUBSET call.inFlight
    PROVE  /\ left \in SUBSET Items /\ call.inFlight \in SUBSET Items
           /\ call.op \in {"files", "directory"} => Cardinality(left) <= ChunkSize
<1>1. call.inFlight \in SUBSET Items
  BY DEF FileCallShape, FileCallSet
<1>2. IsFiniteSet(call.inFlight) /\ Cardinality(call.inFlight) \in Nat /\ Cardinality(left) \in Nat
  BY <1>1, FileConstants
<1>3. Cardinality(left) <= Cardinality(call.inFlight)
  BY <1>2, FS_Subset
<1> QED
  BY <1>1, <1>2, <1>3, FileConstants DEF FileCallShape

LEMMA IdleShape ==
    ASSUME NEW some \in Services
    PROVE  /\ Idle \in FileCallSet /\ Idle.op = "none" /\ Idle.inFlight = {} /\ Idle.answer = {}
           /\ Idle.since = [f \in Files |-> 0] /\ Idle.sent = [f \in Files |-> 0] /\ Idle.lost = {}
           /\ Idle.at = "none" /\ Idle.hashes = NoHashes
<1> DEFINE one == CHOOSE t \in Services : TRUE
           two == CHOOSE p \in Services \X Services : TRUE
<1>1. one \in Services
  BY Zenon
<1>2. \E p : p \in Services \X Services
  <2>1. <<some, some>> \in Services \X Services
    OBVIOUS
  <2> QED
    BY <2>1, Zenon
<1>3. two \in Services \X Services
  BY <1>2, Zenon
<1>4. [f \in Files |-> 0] \in [Files -> Nat]
  OBVIOUS
<1> HIDE DEF one, two
<1>5. Idle = [op |-> "none", s |-> one, at |-> "none", items |-> {}, folders |-> {}, inFlight |-> {}, answer |-> {},
              since |-> [f \in Files |-> 0], sent |-> [f \in Files |-> 0], lost |-> {},
              hashes |-> NoHashes, paths |-> two]
  BY DEF Idle, one, two
<1> QED
  BY <1>1, <1>3, <1>4, <1>5 DEF FileCallSet, FileOperations, FilePlaces

\* A transfer begins.
LEMMA TransferBegins ==
    ASSUME FilesInv, NEW c \in FileCalls, NEW s \in Services, NEW items \in SUBSET Items, NEW op \in Transfers(s),
           Transfer(c, s, op, items)
    PROVE  FilesInv'
<1> DEFINE place == CASE op \in {"files", "directory"} -> "chunk" [] op = "pushDirectory" -> "push" [] OTHER -> "upload"
           under == CASE op = "pushDirectory" -> Files [] op = "iOS" -> items \cap Files [] OTHER -> {}
           call == [Idle EXCEPT !.op = op, !.s = s, !.items = items, !.folders = items \cap Folders, !.since = version,
                                !.inFlight = under, !.at = place]
<1>1. platform \in [Services -> Androids \cup {"iOS", "simulator"}]
  BY DEF FilesInv, ProjectOK
<1>2. op \in {"files", "directory", "pushDirectory", "iOS", "simulator"} /\ (op = "simulator" => platform[s] = "simulator")
  BY <1>1 DEF Transfers, Androids
<1>3. version \in [Files -> Nat]
  BY FileCallFacts
<1>4. /\ Idle \in FileCallSet /\ Idle.inFlight = {} /\ Idle.answer = {} /\ Idle.sent = [f \in Files |-> 0]
      /\ Idle.lost = {}
  BY IdleShape
<1>5. /\ place \in {"chunk", "push", "upload"} /\ under \in SUBSET Items
      /\ op \in {"files", "directory"} => place = "chunk" /\ under = {}
      /\ op = "pushDirectory" => place = "push" /\ under = Files
      /\ op = "iOS" => place = "upload" /\ under = items \cap Files
      /\ op = "simulator" => place = "upload" /\ under = {}
  BY <1>2 DEF Items
<1>6. Become(c, call) /\ NothingArrives /\ TransferOnly /\ fileCalls[c].at = "none"
  BY DEF Transfer, In
<1> HIDE DEF place, under
<1>7. call \in FileCallSet /\ call.inFlight = under /\ call.answer = {} /\ call.at = place /\ call.since = version
      /\ call.op = op /\ call.s = s /\ call.sent = [f \in Files |-> 0] /\ call.lost = {} /\ call.items = items
  BY <1>2, <1>3, <1>4, <1>5 DEF FileCallSet, FileOperations, FilePlaces
<1> HIDE DEF call
<1>8. FileCallShape(call)
  BY <1>2, <1>5, <1>7, FileConstants DEF FileCallShape
<1>9. op # "simulator" => Settled(call) = {}
  BY <1>2, <1>5, <1>7 DEF Settled
<1>10. \A f \in Files : version[f] <= version[f] /\ 0 <= version[f]
  BY <1>3
<1>11. FileCallArrived(call, platform, version, onDevice, overtaken, reinstalls)
  BY <1>2, <1>7, <1>9, <1>10 DEF FileCallArrived
<1>12. fileCalls[c].at \notin Moving /\ call.at \notin Moving
  BY <1>5, <1>6, <1>7 DEF Moving
<1> QED
  BY <1>6, <1>8, <1>11, <1>12, CallStep

\* A transfer to an Android device goes on, chunk by chunk, and ends.
LEMMA TransferKeeps ==
    ASSUME FilesInv, NEW c \in FileCalls,
           NextChunk(c) \/ Chmod(c) \/ PushDirectory(c)
    PROVE  FilesInv'
<1> DEFINE call == fileCalls[c]
<1>0. call \in FileCallSet /\ FileCallShape(call)
  BY FileCallFacts
<1>a. /\ TransferOnly /\ NothingArrives /\ call.at \in {"chunk", "chmod", "push"}
      /\ call.at \notin Moving /\ call.at # "rejected"
  BY DEF NextChunk, Chunk, Chmod, PushDirectory, In, Moving
<1>z. Cardinality({}) <= ChunkSize
  BY FileConstants
\* The call is rejected, or goes on.
<1>b. ASSUME NEW next, Become(c, next), next \in FileCallSet, next.at \in {"chunk", "chmod", "resolved", "rejected"},
             next.op = call.op, next.s = call.s, next.since = call.since,
             call.lost \subseteq next.lost, \A f \in Files : next.sent[f] \in {0, call.sent[f]},
             next.at = "rejected" \/ \A f \in Settled(next) : f \in Settled(call) \/ f \in next.lost,
             next.inFlight # {} => next.at = "chunk", next.at = "chunk" => next.op \in {"files", "directory"},
             next.op \in {"files", "directory"} => Cardinality(next.inFlight) <= ChunkSize
      PROVE  FilesInv'
  <2>1. FileCallShape(next)
    BY <1>b DEF FileCallShape
  <2>2. next.at \notin Moving
    BY <1>b DEF Moving
  <2> QED
    BY <1>a, <1>b, <2>1, <2>2, CallGoesOn
<1>1. CASE NextChunk(c)
  <2>1. call.at = "chunk" /\ call.inFlight = {} /\ call.items \in SUBSET Items /\ call.answer \in SUBSET Items
    BY <1>0, <1>1 DEF NextChunk, Chunk, In, FileCallSet
  <2>2. CASE call.items = {}
    <3> DEFINE toChmod == IF call.op = "files" THEN call.folders ELSE call.answer
               place == IF toChmod = {} THEN "resolved" ELSE "chmod"
               next == [call EXCEPT !.at = place, !.items = {}, !.inFlight = {}]
    <3>1. Become(c, next) /\ place \in {"resolved", "chmod"}
      BY <1>1, <2>1, <2>2 DEF NextChunk, Chunk, Become3
    <3> HIDE DEF place
    <3>2. /\ next \in FileCallSet /\ next.at = place /\ next.inFlight = {} /\ next.op = call.op /\ next.s = call.s
          /\ next.since = call.since /\ next.lost = call.lost /\ next.sent = call.sent /\ next.answer = call.answer
      BY <1>0, <3>1 DEF FileCallSet, FilePlaces
    <3> HIDE DEF next
    <3>3. \A f \in Settled(next) : f \in Settled(call)
      BY <2>1, <3>1, <3>2 DEF Settled
    <3> QED
      BY <1>b, <1>z, <3>1, <3>2, <3>3
  <2>3. CASE call.items # {}
    <3>1. PICK chunk \in SUBSET call.items :
             /\ Cardinality(chunk) = IF Cardinality(call.items) < ChunkSize THEN Cardinality(call.items) ELSE ChunkSize
             /\ Become(c, [call EXCEPT !.items = @ \ chunk,
                           !.inFlight = @ \cup IF call.op = "files" THEN chunk \cap Files ELSE chunk,
                           !.answer = IF call.op = "files" THEN @ ELSE @ \cup chunk])
      BY <1>1, <2>3 DEF NextChunk, Chunk
    <3> DEFINE pushed == IF call.op = "files" THEN chunk \cap Files ELSE chunk
               answer == IF call.op = "files" THEN call.answer ELSE call.answer \cup chunk
               left == call.items \ chunk
               next == [call EXCEPT !.items = left, !.inFlight = pushed, !.answer = answer]
    <3>2. /\ chunk \in SUBSET Items /\ pushed \in SUBSET chunk /\ pushed \in SUBSET Items /\ answer \in SUBSET Items
          /\ left \in SUBSET Items /\ \A f \in answer \cap Files : f \in pushed \/ f \in call.answer
      BY <2>1
    <3>3. Become(c, next)
      BY <2>1, <3>1
    <3>4. Cardinality(pushed) <= ChunkSize
      <4>1. IsFiniteSet(chunk) /\ Cardinality(chunk) \in Nat /\ Cardinality(pushed) \in Nat /\ Cardinality(call.items) \in Nat
        BY <2>1, <3>2, FileConstants
      <4>2. Cardinality(pushed) <= Cardinality(chunk)
        BY <3>2, <4>1, FS_Subset
      <4> HIDE DEF pushed
      <4> QED
        BY <3>1, <4>1, <4>2, FileConstants
    <3> HIDE DEF pushed, answer, left
    <3>5. /\ next \in FileCallSet /\ next.at = "chunk" /\ next.inFlight = pushed /\ next.op = call.op /\ next.s = call.s
          /\ next.since = call.since /\ next.lost = call.lost /\ next.sent = call.sent /\ next.answer = answer
      BY <1>0, <2>1, <3>2 DEF FileCallSet
    <3> HIDE DEF next
    <3>6. \A f \in Settled(next) : f \in Settled(call)
      BY <2>1, <3>2, <3>5 DEF Settled
    <3>7. call.op \in {"files", "directory"}
      BY <1>0, <2>1 DEF FileCallShape
    <3> QED
      BY <1>b, <3>3, <3>4, <3>5, <3>6, <3>7
  <2> QED
    BY <2>2, <2>3
<1>2. CASE Chmod(c)
  <2>1. call.at = "chmod" /\ call.inFlight = {}
    BY <1>0, <1>2 DEF Chmod, In, FileCallShape
  <2> DEFINE done == [call EXCEPT !.at = "resolved", !.answer = call.answer]
             failed == [call EXCEPT !.at = "rejected", !.items = {}, !.inFlight = {}]
  <2>2. Become(c, done) \/ Become(c, failed)
    BY <1>2 DEF Chmod, Resolve, Become3
  <2>3. /\ done \in FileCallSet /\ done.at = "resolved" /\ done.inFlight = {} /\ done.op = call.op /\ done.s = call.s
        /\ done.since = call.since /\ done.lost = call.lost /\ done.sent = call.sent /\ done.answer = call.answer
    BY <1>0, <2>1 DEF FileCallSet, FilePlaces
  <2>4. /\ failed \in FileCallSet /\ failed.at = "rejected" /\ failed.inFlight = {} /\ failed.op = call.op /\ failed.s = call.s
        /\ failed.since = call.since /\ failed.lost = call.lost /\ failed.sent = call.sent
    BY <1>0 DEF FileCallSet, FilePlaces
  <2> HIDE DEF done, failed
  <2>5. \A f \in Settled(done) : f \in Settled(call)
    BY <2>1, <2>3 DEF Settled
  <2>6. CASE Become(c, done)
    BY <1>b, <1>z, <2>3, <2>5, <2>6
  <2>7. CASE Become(c, failed)
    BY <1>b, <1>z, <2>4, <2>7
  <2> QED
    BY <2>2, <2>6, <2>7
<1>3. CASE PushDirectory(c)
  <2>1. call.at = "push" /\ call.items \in SUBSET Items /\ call.inFlight \in SUBSET Items /\ call.lost \in SUBSET Items
    BY <1>0, <1>3 DEF PushDirectory, In, FileCallSet
  <2> DEFINE place == IF call.items = {} THEN "resolved" ELSE "chmod"
             none == [f \in Files |-> 0]
             lost == call.lost \cup call.inFlight
             done == [call EXCEPT !.at = place, !.answer = call.items, !.lost = lost, !.inFlight = {}, !.sent = none]
             failed == [call EXCEPT !.at = "rejected", !.inFlight = {}, !.sent = none]
  <2>2. Become(c, done) \/ Become(c, failed)
    BY <1>3 DEF PushDirectory
  <2>3. place \in {"resolved", "chmod"} /\ none \in [Files -> Nat] /\ (\A f \in Files : none[f] = 0) /\ lost \in SUBSET Items
    BY <2>1
  <2> HIDE DEF place, none
  <2>4. /\ done \in FileCallSet /\ done.at = place /\ done.inFlight = {} /\ done.op = call.op /\ done.s = call.s
        /\ done.since = call.since /\ done.lost = lost /\ done.sent = none /\ done.answer = call.items
    BY <1>0, <2>1, <2>3 DEF FileCallSet, FilePlaces
  <2>5. /\ failed \in FileCallSet /\ failed.at = "rejected" /\ failed.inFlight = {} /\ failed.op = call.op /\ failed.s = call.s
        /\ failed.since = call.since /\ failed.lost = call.lost /\ failed.sent = none
    BY <1>0, <2>3 DEF FileCallSet, FilePlaces
  <2> HIDE DEF done, failed
  <2>6. \A f \in Settled(done) : f \in Settled(call) \/ f \in lost
    BY <2>1, <2>3, <2>4 DEF Settled
  <2>7. CASE Become(c, done)
    BY <1>b, <1>z, <2>3, <2>4, <2>6, <2>7
  <2>8. CASE Become(c, failed)
    BY <1>b, <1>z, <2>3, <2>5, <2>8
  <2> QED
    BY <2>2, <2>7, <2>8
<1> QED
  BY <1>1, <1>2, <1>3

\* What is left of a call when an item is done.
LEMMA ItemDoneIs ==
    ASSUME NEW call, FileCallShape(call), NEW i \in call.inFlight
    PROVE  LET done == ItemDone(call, i)
           IN  /\ done \in FileCallSet /\ FileCallShape(done) /\ call.at \in {"chunk", "push", "upload", "rejected"}
               /\ done.inFlight = call.inFlight \ {i} /\ i \in Items
               /\ done.op = call.op /\ done.s = call.s /\ done.at = call.at /\ done.since = call.since
               /\ done.lost = call.lost /\ done.answer = call.answer /\ done.items = call.items
               /\ call.op # "simulator" /\ \A f \in Files : done.sent[f] \in {0, call.sent[f]}
<1> DEFINE left == call.inFlight \ {i}
           sent == [f \in Files |-> IF f = i THEN 0 ELSE call.sent[f]]
           done == [call EXCEPT !.inFlight = left, !.sent = sent]
<1>1. /\ left \in SUBSET Items /\ i \in Items /\ (call.op \in {"files", "directory"} => Cardinality(left) <= ChunkSize)
      /\ call.at \in {"chunk", "push", "upload", "rejected"} /\ call.op # "simulator"
  <2>1. left \in SUBSET call.inFlight
    OBVIOUS
  <2> QED
    BY <2>1, FewerInFlight DEF FileCallShape
<1>2. call \in FileCallSet /\ sent \in [Files -> Nat] /\ \A f \in Files : sent[f] \in {0, call.sent[f]}
  BY DEF FileCallShape, FileCallSet
<1>3. ItemDone(call, i) = done
  BY DEF ItemDone
<1> HIDE DEF left, sent
<1>4. /\ done \in FileCallSet /\ done.inFlight = left /\ done.op = call.op /\ done.s = call.s /\ done.at = call.at
      /\ done.since = call.since /\ done.lost = call.lost /\ done.answer = call.answer /\ done.items = call.items
      /\ done.sent = sent /\ done.hashes = call.hashes
  BY <1>1, <1>2 DEF FileCallSet
<1> HIDE DEF done
<1>5. FileCallShape(done)
  BY <1>1, <1>4 DEF FileCallShape
<1> QED
  BY <1>1, <1>2, <1>3, <1>4, <1>5 DEF left

\* A push reads a file, fails, or makes a directory.
LEMMA ItemKeeps ==
    ASSUME FilesInv, NEW c \in FileCalls, NEW i,
           (i \in Files /\ ReadFile(c, i)) \/ ItemFails(c, i) \/ DirectoryMade(c, i)
    PROVE  FilesInv'
<1> DEFINE call == fileCalls[c]
           done == ItemDone(call, i)
<1>0. /\ call \in FileCallSet /\ FileCallShape(call)
      /\ FileCallArrived(call, platform, version, onDevice, overtaken, reinstalls) /\ version \in [Files -> Nat]
      /\ \A f \in Files : version[f] <= version[f]
  BY FileCallFacts
<1>1. i \in call.inFlight /\ TransferOnly /\ NothingArrives
  BY DEF ReadFile, ItemFails, DirectoryMade
<1>2. /\ done \in FileCallSet /\ FileCallShape(done) /\ call.at \in {"chunk", "push", "upload", "rejected"}
      /\ done.inFlight = call.inFlight \ {i} /\ i \in Items
      /\ done.op = call.op /\ done.s = call.s /\ done.at = call.at /\ done.since = call.since
      /\ done.lost = call.lost /\ done.answer = call.answer /\ done.items = call.items
      /\ \A f \in Files : done.sent[f] \in {0, call.sent[f]}
  BY <1>0, <1>1, ItemDoneIs
<1> HIDE DEF done
<1>3. call.at \notin Moving /\ "rejected" \notin Moving
  BY <1>2 DEF Moving
<1>4. CASE i \in Files /\ ReadFile(c, i)
  <2> DEFINE sent == [call.sent EXCEPT ![i] = version[i]]
             next == [call EXCEPT !.sent = sent]
  <2>1. Become(c, next)
    BY <1>4 DEF ReadFile
  <2>2. sent \in [Files -> Nat] /\ \A f \in Files : sent[f] = (IF f = i THEN version[f] ELSE call.sent[f])
    BY <1>0, <1>4 DEF FileCallSet
  <2> HIDE DEF sent
  <2>3. /\ next \in FileCallSet /\ next.sent = sent /\ next.op = call.op /\ next.s = call.s /\ next.at = call.at
        /\ next.since = call.since /\ next.lost = call.lost /\ next.answer = call.answer /\ next.items = call.items
        /\ next.inFlight = call.inFlight /\ next.hashes = call.hashes
    BY <1>0, <2>2 DEF FileCallSet
  <2> HIDE DEF next
  <2>4. FileCallShape(next)
    BY <1>0, <2>3 DEF FileCallShape
  <2>5. Settled(next) = Settled(call)
    BY <2>3 DEF Settled
  <2>6. FileCallArrived(next, platform, version, onDevice, overtaken, reinstalls)
    BY <1>0, <2>2, <2>3, <2>5 DEF FileCallArrived
  <2> QED
    BY <1>1, <1>3, <2>1, <2>3, <2>4, <2>6, CallStep
<1>5. CASE ItemFails(c, i)
  <2> DEFINE failed == [done EXCEPT !.at = "rejected"]
             lost == done.lost \cup {i}
             answer == done.answer \cup {i}
             next == [done EXCEPT !.lost = lost, !.answer = answer]
  <2>1. Become(c, failed) \/ Become(c, next)
    BY <1>5 DEF ItemFails, done
  <2>2. lost \in SUBSET Items /\ answer \in SUBSET Items
    BY <1>2 DEF FileCallSet
  <2>3. /\ failed \in FileCallSet /\ failed.at = "rejected" /\ failed.op = call.op /\ failed.s = call.s /\ failed.since = call.since
        /\ failed.lost = call.lost /\ failed.sent = done.sent /\ failed.inFlight = done.inFlight
    BY <1>2 DEF FileCallSet, FilePlaces
  <2> HIDE DEF lost, answer
  <2>4. /\ next \in FileCallSet /\ next.at = call.at /\ next.op = call.op /\ next.s = call.s /\ next.since = call.since
        /\ next.lost = lost /\ next.answer = answer /\ next.sent = done.sent /\ next.inFlight = done.inFlight
        /\ next.items = call.items /\ next.hashes = done.hashes
    BY <1>2, <2>2 DEF FileCallSet
  <2> HIDE DEF failed, next
  <2>5. FileCallShape(failed) /\ FileCallShape(next)
    BY <1>2, <2>3, <2>4 DEF FileCallShape
  <2>6. \A f \in Settled(next) : f \in Settled(call) \/ f \in next.lost
    BY <1>2, <2>4 DEF Settled, lost, answer
  <2>7. call.lost \subseteq next.lost
    BY <1>2, <2>4 DEF lost
  <2>8. CASE Become(c, failed)
    BY <1>1, <1>2, <1>3, <2>3, <2>5, <2>8, CallGoesOn
  <2>9. CASE Become(c, next)
    BY <1>1, <1>2, <1>3, <2>4, <2>5, <2>6, <2>7, <2>9, CallGoesOn
  <2> QED
    BY <2>1, <2>8, <2>9
<1>6. CASE DirectoryMade(c, i)
  <2>1. Become(c, done) /\ i \notin Files
    BY <1>6, DeviceFilesAssumption DEF DirectoryMade, done
  <2>2. \A f \in Settled(done) : f \in Settled(call)
    BY <1>2, <2>1 DEF Settled
  <2> QED
    BY <1>1, <1>2, <1>3, <2>1, <2>2, CallGoesOn
<1> QED
  BY <1>4, <1>5, <1>6

\* A file arrives as its push has read it.
LEMMA ArrivalKeeps ==
    ASSUME FilesInv, NEW c \in FileCalls, NEW f \in Files, FileArrives(c, f)
    PROVE  FilesInv'
<1> DEFINE call == fileCalls[c]
           s == call.s
           done == ItemDone(call, f)
<1>0. /\ call \in FileCallSet /\ FileCallShape(call)
      /\ FileCallArrived(call, platform, version, onDevice, overtaken, reinstalls) /\ s \in Services
      /\ call.since \in [Files -> Nat] /\ call.sent \in [Files -> Nat]
      /\ onDevice \in [Services -> [Files -> Nat]] /\ version \in [Files -> Nat] /\ reinstalls \in Nat
      /\ \A t \in Services, g \in Files : onDevice[t][g] <= version[g]
      /\ \A g \in Files : version[g] <= version[g]
  BY FileCallFacts
<1>1. /\ f \in call.inFlight /\ call.sent[f] # 0 /\ TransferOnly
      /\ onDevice' = [onDevice EXCEPT ![s][f] = call.sent[f]]
      /\ overtaken' = IF call.sent[f] < onDevice[s][f] THEN overtaken \cup {<<s, f>>} ELSE overtaken
  BY DEF FileArrives
<1>2. /\ done \in FileCallSet /\ FileCallShape(done) /\ call.at \in {"chunk", "push", "upload", "rejected"}
      /\ done.inFlight = call.inFlight \ {f} /\ f \in Items
      /\ done.op = call.op /\ done.s = call.s /\ done.at = call.at /\ done.since = call.since
      /\ done.lost = call.lost /\ done.answer = call.answer /\ done.items = call.items
      /\ \A g \in Files : done.sent[g] \in {0, call.sent[g]}
  BY <1>0, <1>1, ItemDoneIs
<1>3. /\ Become(c, [done EXCEPT !.answer = @ \cup {f}]) \/ Become(c, done)
      \/ Become(c, [done EXCEPT !.at = "rejected"])
  BY DEF FileArrives
<1> HIDE DEF done
\* What the devices have: only this file changes.
<1>4. /\ onDevice' \in [Services -> [Files -> Nat]] /\ onDevice'[s][f] = call.sent[f]
      /\ \A t \in Services, g \in Files : ~(t = s /\ g = f) => onDevice'[t][g] = onDevice[t][g]
  BY <1>0, <1>1
<1>5. call.sent[f] <= version[f] /\ call.since[f] <= call.sent[f] /\ call.sent[f] \in Nat /\ onDevice[s][f] \in Nat
  BY <1>0, <1>1 DEF FileCallArrived
<1>6. overtaken \subseteq overtaken' /\ (call.sent[f] < onDevice[s][f] => <<s, f>> \in overtaken')
  BY <1>1
<1>7. ASSUME NEW t \in Services, NEW g \in Files
      PROVE  onDevice'[t][g] <= version[g] /\ (onDevice[t][g] <= onDevice'[t][g] \/ <<t, g>> \in overtaken')
  <2>1. CASE t = s /\ g = f
    BY <1>4, <1>5, <1>6, <2>1
  <2>2. CASE ~(t = s /\ g = f)
    BY <1>0, <1>4, <2>2
  <2> QED
    BY <2>1, <2>2
\* The call as it goes on.
<1>8. ASSUME NEW next, Become(c, next), next \in FileCallSet, next.at \in {call.at, "rejected"}, next.inFlight = done.inFlight,
             next.op = call.op, next.s = s, next.since = call.since, next.lost = call.lost, next.sent = done.sent,
             next.items = call.items, next.answer \in {call.answer, call.answer \cup {f}}, next.hashes = done.hashes
      PROVE  FilesInv'
  <2>1. FileCallShape(next)
    BY <1>2, <1>8 DEF FileCallShape
  <2>2. FileCallArrived(call, platform, version, onDevice', overtaken', reinstalls)
    <3>1. reinstalls <= reinstalls
      BY <1>0
    <3> QED
      BY <1>0, <1>4, <1>6, <1>7, <3>1, ArrivedStays
  <2>3. ASSUME NEW g \in Files
        PROVE  next.since[g] <= version[g] /\ next.sent[g] <= version[g] /\ (next.sent[g] # 0 => next.since[g] <= next.sent[g])
    <3>1. next.sent[g] \in {0, call.sent[g]} /\ next.since[g] = call.since[g] /\ version[g] \in Nat
      BY <1>0, <1>2, <1>8
    <3> QED
      BY <1>0, <3>1 DEF FileCallArrived
  <2>4. next.op = "simulator" => platform[next.s] = "simulator"
    BY <1>0, <1>8 DEF FileCallArrived
  <2>5. ASSUME next.at # "rejected", platform[s] # "simulator", reinstalls = 0, NEW g \in Settled(next)
        PROVE  g \in next.lost \/ <<s, g>> \in overtaken' \/ onDevice'[s][g] >= next.since[g]
    <3>1. CASE g = f
      BY <1>4, <1>5, <1>8, <3>1
    <3>2. CASE g # f
      <4>1. g \in Settled(call)
        BY <1>2, <1>8, <2>5, <3>2 DEF Settled
      <4> QED
        BY <1>8, <2>2, <2>5, <4>1 DEF FileCallArrived
    <3> QED
      BY <3>1, <3>2
  <2>6. FileCallArrived(next, platform, version, onDevice', overtaken', reinstalls)
    BY <1>8, <2>3, <2>4, <2>5 DEF FileCallArrived
  <2>7. call.at \notin Moving /\ next.at \notin Moving
    BY <1>2, <1>8 DEF Moving
  <2> QED
    BY <1>1, <1>4, <1>6, <1>7, <1>8, <2>1, <2>6, <2>7, TransferStep
<1>9. CASE Become(c, [done EXCEPT !.answer = @ \cup {f}])
  <2> DEFINE answer == done.answer \cup {f}
             next == [done EXCEPT !.answer = answer]
  <2>1. answer \in SUBSET Items
    BY <1>2 DEF FileCallSet
  <2>2. /\ next \in FileCallSet /\ next.at = call.at /\ next.inFlight = done.inFlight /\ next.op = call.op /\ next.s = s
        /\ next.since = call.since /\ next.lost = call.lost /\ next.sent = done.sent /\ next.items = call.items
        /\ next.answer = call.answer \cup {f} /\ next.hashes = done.hashes
    BY <1>2, <2>1 DEF FileCallSet
  <2> HIDE DEF answer
  <2> QED
    BY <1>8, <1>9, <2>2 DEF answer
<1>10. CASE Become(c, done)
  BY <1>2, <1>8, <1>10
<1>11. CASE Become(c, [done EXCEPT !.at = "rejected"])
  <2> DEFINE next == [done EXCEPT !.at = "rejected"]
  <2>1. /\ next \in FileCallSet /\ next.at = "rejected" /\ next.inFlight = done.inFlight /\ next.op = call.op /\ next.s = s
        /\ next.since = call.since /\ next.lost = call.lost /\ next.sent = done.sent /\ next.items = call.items
        /\ next.answer = call.answer /\ next.hashes = done.hashes
    BY <1>2 DEF FileCallSet, FilePlaces
  <2> HIDE DEF next
  <2> QED
    BY <1>8, <1>11, <2>1 DEF next
<1> QED
  BY <1>3, <1>9, <1>10, <1>11

LEMMA UploadFails ==
    ASSUME FilesInv, TransferOnly, NothingArrives, NEW c \in FileCalls, fileCalls[c].at = "upload",
           Become(c, [fileCalls[c] EXCEPT !.at = "rejected", !.inFlight = {}, !.sent = [f \in Files |-> 0]])
    PROVE  FilesInv'
<1> DEFINE call == fileCalls[c]
           none == [f \in Files |-> 0]
           failed == [call EXCEPT !.at = "rejected", !.inFlight = {}, !.sent = none]
<1>1. call \in FileCallSet /\ none \in [Files -> Nat] /\ \A f \in Files : none[f] = 0
  BY FileCallFacts
<1>2. Become(c, failed)
  OBVIOUS
<1> HIDE DEF none
<1>3. /\ failed \in FileCallSet /\ failed.at = "rejected" /\ failed.inFlight = {} /\ failed.op = call.op /\ failed.s = call.s
      /\ failed.since = call.since /\ failed.lost = call.lost /\ failed.sent = none
  BY <1>1 DEF FileCallSet, FilePlaces
<1> HIDE DEF failed
<1>4. FileCallShape(failed) /\ call.at \notin Moving /\ failed.at \notin Moving
  BY <1>3, FileConstants DEF FileCallShape, Moving
<1> QED
  BY <1>1, <1>2, <1>3, <1>4, CallGoesOn

\* Files are uploaded to an iOS device, or copied to a simulator.
LEMMA UploadKeeps ==
    ASSUME FilesInv, NEW c \in FileCalls, Upload(c) \/ Copy(c)
    PROVE  FilesInv'
<1> DEFINE call == fileCalls[c]
           s == call.s
<1>0. /\ call \in FileCallSet /\ FileCallShape(call)
      /\ FileCallArrived(call, platform, version, onDevice, overtaken, reinstalls) /\ s \in Services
      /\ onDevice \in [Services -> [Files -> Nat]] /\ version \in [Files -> Nat]
      /\ \A t \in Services, f \in Files : onDevice[t][f] <= version[f]
  BY FileCallFacts
<1>1. TransferOnly /\ call.at = "upload" /\ call.at \notin Moving /\ "resolved" \notin Moving /\ "rejected" \notin Moving
      /\ call.items \in SUBSET Items
  BY <1>0 DEF Upload, Copy, In, Moving, FileCallSet
<1>2. ASSUME NEW answer \in SUBSET Items
      PROVE  LET done == [call EXCEPT !.at = "resolved", !.answer = answer]
             IN  /\ done \in FileCallSet /\ done.at = "resolved" /\ done.answer = answer /\ done.inFlight = call.inFlight
                 /\ done.op = call.op /\ done.s = s /\ done.since = call.since /\ done.lost = call.lost /\ done.sent = call.sent
  BY <1>0, <1>2 DEF FileCallSet, FilePlaces
<1>3. CASE Upload(c) /\ call.inFlight = {}
  <2>1. ASSUME NEW answer \in SUBSET Items, answer \cap Files = call.items \cap Files, Resolve(c, answer), NothingArrives
        PROVE  FilesInv'
    <3> DEFINE done == [call EXCEPT !.at = "resolved", !.answer = answer]
    <3>1. /\ done \in FileCallSet /\ done.at = "resolved" /\ done.answer = answer /\ done.inFlight = {}
          /\ done.op = call.op /\ done.s = s /\ done.since = call.since /\ done.lost = call.lost /\ done.sent = call.sent
      BY <1>2, <1>3
    <3>2. Become(c, done)
      BY <2>1 DEF Resolve
    <3> HIDE DEF done
    <3>3. FileCallShape(done) /\ \A f \in Settled(done) : f \in Settled(call)
      BY <1>1, <1>3, <2>1, <3>1, FileConstants DEF FileCallShape, Settled
    <3> QED
      BY <1>1, <2>1, <3>1, <3>2, <3>3, CallGoesOn
  <2> DEFINE none == [f \in Files |-> 0]
             failed == [call EXCEPT !.at = "rejected", !.inFlight = {}, !.sent = none]
  <2>2. NothingArrives /\ (Resolve(c, call.items \cap Files) \/ Resolve(c, call.items) \/ Become(c, failed))
    BY <1>3 DEF Upload
  <2>3. CASE Become(c, failed)
    BY <1>1, <2>2, <2>3, UploadFails
  <2>4. (call.items \cap Files) \cap Files = call.items \cap Files /\ call.items \cap Files \in SUBSET Items
    BY <1>1
  <2> HIDE DEF failed
  <2> QED
    BY <1>1, <2>1, <2>2, <2>3, <2>4
<1>4. CASE Upload(c) /\ call.inFlight # {}
  <2>1. NothingArrives /\ Become(c, [call EXCEPT !.at = "rejected", !.inFlight = {}, !.sent = [f \in Files |-> 0]])
    BY <1>4 DEF Upload
  <2> QED
    BY <1>1, <2>1, UploadFails
<1>5. CASE Copy(c)
  <2>1. PICK some \in SUBSET (call.items \cap Files) :
           onDevice' = [onDevice EXCEPT ![s] = [f \in Files |-> IF f \in some THEN version[f] ELSE @[f]]]
    BY <1>5 DEF Copy
  <2>2. overtaken' = overtaken /\ Resolve(c, call.items) /\ call.op = "simulator"
    BY <1>5 DEF Copy
  <2> DEFINE new == [f \in Files |-> IF f \in some THEN version[f] ELSE onDevice[s][f]]
             done == [call EXCEPT !.at = "resolved", !.answer = call.items]
  <2>3. onDevice' = [onDevice EXCEPT ![s] = new] /\ new \in [Files -> Nat]
        /\ \A f \in Files : new[f] <= version[f] /\ onDevice[s][f] <= new[f]
    BY <1>0, <2>1
  <2> HIDE DEF new
  <2>4. /\ onDevice' \in [Services -> [Files -> Nat]]
        /\ \A t \in Services, f \in Files : onDevice'[t][f] <= version[f] /\ onDevice[t][f] <= onDevice'[t][f]
    BY <1>0, <2>3
  <2>5. /\ done \in FileCallSet /\ done.at = "resolved" /\ done.answer = call.items /\ done.inFlight = call.inFlight
        /\ done.op = call.op /\ done.s = s /\ done.since = call.since /\ done.lost = call.lost /\ done.sent = call.sent
    BY <1>1, <1>2
  <2>6. Become(c, done)
    BY <2>2 DEF Resolve
  <2> HIDE DEF done
  <2>7. call.inFlight = {}
    BY <1>0, <2>2 DEF FileCallShape
  <2>8. FileCallShape(done)
    BY <2>5, <2>7, FileConstants DEF FileCallShape
  <2>9. FileCallArrived(done, platform, version, onDevice', overtaken', reinstalls)
    BY <1>0, <2>2, <2>5 DEF FileCallArrived
  <2> QED
    BY <1>1, <2>2, <2>4, <2>5, <2>6, <2>8, <2>9, TransferStep
<1> QED
  BY <1>3, <1>4, <1>5

\* A call of a hash service begins, or computes the hash of a file.
LEMMA HashesGenerated ==
    ASSUME FilesInv, NEW c \in FileCalls,
           \/ \E s \in Services, op \in {"get", "update", "remove", "write"}, items \in SUBSET Files : HashCall(c, s, op, items)
           \/ \E f \in Files : GenerateHash(c, f)
    PROVE  FilesInv'
<1> DEFINE call == fileCalls[c]
<1>0. /\ call \in FileCallSet /\ FileCallShape(call)
      /\ FileCallArrived(call, platform, version, onDevice, overtaken, reinstalls) /\ version \in [Files -> Nat]
  BY FileCallFacts
<1>h. HashesOnly /\ UNCHANGED hashVars => TransferOnly /\ NothingArrives
  BY DEF HashesOnly, TransferOnly, NothingArrives
<1>v. version \in [Files -> 1 .. MaxVersions]
  BY DEF FilesInv, ProjectOK
<1>1. ASSUME NEW s \in Services, NEW op \in {"get", "update", "remove", "write"}, NEW items \in SUBSET Files,
             HashCall(c, s, op, items)
      PROVE  FilesInv'
  <2> DEFINE written == [f \in items |-> version[f]]
             hashes == IF op = "write" THEN written ELSE NoHashes
             place == IF op = "write" THEN "write" ELSE "look"
             next == [Idle EXCEPT !.op = op, !.s = s, !.items = items, !.hashes = hashes, !.at = place]
  <2>1. written \in Hashes
    <3>1. written \in [items -> 1 .. MaxVersions] /\ DOMAIN written = items
      BY <1>v
    <3> QED
      BY <3>1, HashesAre
  <2>2. Become(c, next) /\ call.at = "none" /\ HashesOnly /\ UNCHANGED hashVars
    BY <1>1 DEF HashCall, In
  <2> HIDE DEF written
  <2>3. hashes \in Hashes \cup {NoHashes} /\ (place = "write" => hashes \in Hashes)
        /\ place \in {"look", "write"} /\ (place = "look" => op # "write")
    BY <2>1
  <2> HIDE DEF hashes, place
  <2>4. items \in SUBSET Items
    BY DEF Items
  <2>5. next \in FileCallSet /\ next.at = place /\ next.op = op /\ next.hashes = hashes /\ next.inFlight = {}
        /\ next.answer = {} /\ next.since = [f \in Files |-> 0] /\ next.sent = [f \in Files |-> 0]
    BY <2>3, <2>4, IdleShape DEF FileCallSet, FileOperations, FilePlaces
  <2> HIDE DEF next
  <2>6. FileCallShape(next)
    BY <2>3, <2>5, FileConstants DEF FileCallShape
  <2>7. \A f \in Files : next.since[f] = 0 /\ next.sent[f] = 0 /\ 0 <= version[f] /\ 0 <= 0
    BY <1>0, <2>5
  <2>8. Settled(next) = {}
    BY <2>3, <2>5 DEF Settled
  <2>9. FileCallArrived(next, platform, version, onDevice, overtaken, reinstalls)
    BY <2>5, <2>7, <2>8 DEF FileCallArrived
  <2>10. call.at \notin Moving /\ next.at \notin Moving
    BY <2>2, <2>3, <2>5 DEF Moving
  <2> QED
    BY <1>h, <2>2, <2>6, <2>9, <2>10, CallStep
<1>2. ASSUME NEW f \in Files, GenerateHash(c, f)
      PROVE  FilesInv'
  <2> DEFINE more == [g \in DOMAIN call.hashes \cup {f} |-> IF g = f THEN version[f] ELSE call.hashes[g]]
             left == call.items \ {f}
             next == [call EXCEPT !.items = left, !.hashes = more]
  <2>1. call.hashes \in Hashes /\ call.at = "generate" /\ call.inFlight = {} /\ left \in SUBSET Items
    BY <1>0, <1>2 DEF GenerateHash, In, FileCallShape, FileCallSet
  <2>2. call.hashes \in [DOMAIN call.hashes -> 1 .. MaxVersions] /\ DOMAIN call.hashes \subseteq Files
    BY <2>1, HashesAre
  <2>3. more \in [DOMAIN call.hashes \cup {f} -> 1 .. MaxVersions] /\ DOMAIN more = DOMAIN call.hashes \cup {f}
    BY <1>v, <2>2
  <2>4. Become(c, next) /\ HashesOnly /\ UNCHANGED hashVars
    BY <1>2 DEF GenerateHash
  <2> HIDE DEF more, left
  <2>5. more \in Hashes
    BY <2>2, <2>3, HashesAre
  <2>6. next \in FileCallSet /\ next.at = "generate" /\ next.hashes = more /\ next.inFlight = {}
        /\ next.op = call.op /\ next.s = call.s /\ next.since = call.since /\ next.answer = call.answer
        /\ next.sent = call.sent /\ next.lost = call.lost
    BY <1>0, <2>1, <2>5 DEF FileCallSet
  <2> HIDE DEF next
  <2>7. FileCallShape(next)
    BY <2>5, <2>6, FileConstants DEF FileCallShape
  <2>8. Settled(next) = Settled(call)
    BY <2>1, <2>6 DEF Settled
  <2>9. call.at \notin Moving /\ next.at \notin Moving
    BY <2>1, <2>6 DEF Moving
  <2> QED
    BY <1>h, <2>1, <2>4, <2>6, <2>7, <2>8, <2>9, CallGoesOn
<1> QED
  BY <1>1, <1>2

\* What a call does with the hashes that it got.
LEMMA GotHashes ==
    ASSUME FilesInv, NEW c \in FileCalls, fileCalls[c].at \in {"look", "pulling"},
           NEW hashes \in Hashes \cup {NoHashes}, Got(c, hashes)
    PROVE  \E next : /\ Become(c, next) /\ FileCallShape(next) /\ next.at \in {"resolved", "generate", "write"}
                     /\ FileCallArrived(next, platform, version, onDevice, overtaken, reinstalls)
<1> DEFINE old == fileCalls[c]
           call == [old EXCEPT !.hashes = hashes]
           some == IF hashes = NoHashes THEN <<>> ELSE hashes
           fewer == [f \in DOMAIN hashes \ call.items |-> hashes[f]]
           answered == [call EXCEPT !.at = "resolved"]
           updated == [call EXCEPT !.at = "generate", !.hashes = some]
           pruned == [call EXCEPT !.at = "write", !.hashes = fewer]
<1>0. /\ old \in FileCallSet /\ FileCallShape(old) /\ version \in [Files -> Nat]
      /\ FileCallArrived(old, platform, version, onDevice, overtaken, reinstalls)
  BY FileCallFacts
<1>1. old.op \in {"get", "update", "remove"} /\ old.inFlight = {}
  BY <1>0 DEF FileCallShape
<1>2. call \in FileCallSet /\ call.op = old.op /\ call.s = old.s /\ call.since = old.since /\ call.answer = old.answer
      /\ call.inFlight = {} /\ call.sent = old.sent /\ call.lost = old.lost
  BY <1>0, <1>1 DEF FileCallSet
<1>3. Become(c, answered) \/ Become(c, updated) \/ (hashes # NoHashes /\ Become(c, pruned))
  BY <1>1, <1>2 DEF Got
<1>4. some \in Hashes
  BY NoneAreHashes
<1>5. ASSUME hashes # NoHashes
      PROVE  fewer \in Hashes
  <2>1. hashes \in [DOMAIN hashes -> 1 .. MaxVersions] /\ DOMAIN hashes \subseteq Files
    BY <1>5, HashesAre
  <2>2. fewer \in [DOMAIN fewer -> 1 .. MaxVersions] /\ DOMAIN fewer \subseteq Files
    BY <2>1
  <2> QED
    BY <2>2, HashesAre
<1> HIDE DEF call, some, fewer
<1>6. ASSUME NEW next, next \in FileCallSet, Become(c, next), next.at \in {"resolved", "generate", "write"}, next.inFlight = {},
             next.at # "resolved" => next.hashes \in Hashes,
             next.op = call.op, next.s = call.s, next.since = call.since, next.answer = call.answer,
             next.sent = call.sent, next.lost = call.lost
      PROVE  /\ Become(c, next) /\ FileCallShape(next) /\ next.at \in {"resolved", "generate", "write"}
             /\ FileCallArrived(next, platform, version, onDevice, overtaken, reinstalls)
  <2>1. FileCallShape(next)
    BY <1>6, FileConstants DEF FileCallShape
  <2>2. Settled(next) = Settled(old)
    BY <1>1, <1>2, <1>6 DEF Settled
  <2>3. FileCallArrived(next, platform, version, onDevice, overtaken, reinstalls)
    BY <1>0, <1>2, <1>6, <2>2, StillArrived
  <2> QED
    BY <1>6, <2>1, <2>3
<1>7. /\ answered \in FileCallSet /\ answered.at = "resolved" /\ answered.inFlight = {}
      /\ answered.op = call.op /\ answered.s = call.s /\ answered.since = call.since /\ answered.answer = call.answer
      /\ answered.sent = call.sent /\ answered.lost = call.lost
  BY <1>2 DEF FileCallSet, FilePlaces
<1>8. /\ updated \in FileCallSet /\ updated.at = "generate" /\ updated.inFlight = {} /\ updated.hashes \in Hashes
      /\ updated.op = call.op /\ updated.s = call.s /\ updated.since = call.since /\ updated.answer = call.answer
      /\ updated.sent = call.sent /\ updated.lost = call.lost
  BY <1>2, <1>4 DEF FileCallSet, FilePlaces
<1>9. ASSUME hashes # NoHashes
      PROVE  /\ pruned \in FileCallSet /\ pruned.at = "write" /\ pruned.inFlight = {} /\ pruned.hashes \in Hashes
             /\ pruned.op = call.op /\ pruned.s = call.s /\ pruned.since = call.since /\ pruned.answer = call.answer
             /\ pruned.sent = call.sent /\ pruned.lost = call.lost
  BY <1>2, <1>5, <1>9 DEF FileCallSet, FilePlaces
<1> HIDE DEF answered, updated, pruned
<1> QED
  BY <1>3, <1>6, <1>7, <1>8, <1>9

\* The getters return a service, and their own one as long as no other was asked.
LEMMA GettersKeep ==
    ASSUME FilesInv, NEW t \in Services, NEW getters \in SUBSET {"local", "device"}, CallGetters(getters, t)
    PROVE  /\ \A g \in {"local", "device"} : Getter(g, t) \in Services
           /\ touched' \subseteq {"local", "device"} \X Services /\ cached' \in [{"local", "device"} -> Services]
           /\ touched \subseteq touched' /\ \A g \in getters : <<g, t>> \in touched'
           /\ \A s \in Services : OnlyTouched(s)' =>
                 /\ OnlyTouched(s)
                 /\ \A g \in {"local", "device"} : <<g, s>> \in touched' => cached'[g] = s
                 /\ getters # {} => t = s /\ \A g \in {"local", "device"} : Getter(g, t) = s
<1>0. HashFilesOK /\ CopiesOK
  BY DEF FilesInv
<1>1. touched \subseteq {"local", "device"} \X Services /\ cached \in [{"local", "device"} -> Services]
  BY <1>0 DEF HashFilesOK
<1>2. touched' = touched \cup {<<g, t>> : g \in getters}
      /\ cached' = [g \in {"local", "device"} |-> IF g \in getters THEN Getter(g, t) ELSE cached[g]]
  BY DEF CallGetters
<1>3. \A g \in {"local", "device"} : Getter(g, t) \in Services
  BY <1>1 DEF Getter
<1>4. touched' \subseteq {"local", "device"} \X Services /\ cached' \in [{"local", "device"} -> Services]
  BY <1>1, <1>2, <1>3
<1>5. touched \subseteq touched' /\ \A g \in getters : <<g, t>> \in touched'
  BY <1>2
<1>6. ASSUME NEW s \in Services, OnlyTouched(s)'
      PROVE  /\ OnlyTouched(s)
             /\ \A g \in {"local", "device"} : <<g, s>> \in touched' => cached'[g] = s
             /\ getters # {} => t = s /\ \A g \in {"local", "device"} : Getter(g, t) = s
  <2>1. touched' \subseteq {"local", "device"} \X {s} /\ OnlyTouched(s)
    BY <1>5, <1>6 DEF OnlyTouched
  <2>2. \A g \in {"local", "device"} : <<g, s>> \in touched => cached[g] = s
    BY <1>0, <2>1 DEF CopiesOK, CopyOf
  <2>3. \A g \in getters : t = s
    BY <1>5, <2>1
  <2>4. t = s => \A g \in {"local", "device"} : Getter(g, t) = s
    BY <2>2 DEF Getter
  <2>5. ASSUME NEW g \in {"local", "device"}, <<g, s>> \in touched'
        PROVE  cached'[g] = s
    <3>1. CASE g \in getters
      BY <1>2, <2>3, <2>4, <3>1
    <3>2. CASE g \notin getters
      <4>1. <<g, s>> \in touched
        BY <1>2, <2>5, <3>2
      <4> QED
        BY <1>2, <2>2, <3>2, <4>1
    <3> QED
      BY <3>1, <3>2
  <2> QED
    BY <2>1, <2>3, <2>4, <2>5
<1> QED
  BY <1>3, <1>4, <1>5, <1>6

\* downloadHashFileFromDevice.
LEMMA LookKeeps ==
    ASSUME FilesInv, NEW c \in FileCalls, LookForCopy(c)
    PROVE  FilesInv'
<1> DEFINE call == fileCalls[c]
           t == call.s
           copy == Getter("local", t)
           paths == <<copy, Getter("device", t)>>
           pulls == [call EXCEPT !.at = "pull", !.paths = paths]
<1>0. /\ call \in FileCallSet /\ FileCallShape(call) /\ t \in Services /\ version \in [Files -> Nat]
      /\ FileCallArrived(call, platform, version, onDevice, overtaken, reinstalls)
  BY FileCallFacts
<1>00. HashFilesOK /\ FileCallsOK /\ CopiesOK
  BY DEF FilesInv
<1>1. HashesOnly /\ UNCHANGED <<hashFile, localCopy, pushFailed, raced>> /\ call.at = "look"
  BY DEF LookForCopy, In
<1>2. call.op \in {"get", "update", "remove"} /\ call.inFlight = {}
  BY <1>0, <1>1 DEF FileCallShape
<1>3. \/ CallGetters({"local"}, t) /\ Got(c, localCopy[copy])
      \/ CallGetters({"local", "device"}, t) /\ Become(c, pulls) /\ localCopy[copy] = NoHashes
  BY DEF LookForCopy
<1>4. PICK getters \in SUBSET {"local", "device"} : CallGetters(getters, t) /\ getters # {}
                                                    /\ \/ Got(c, localCopy[copy])
                                                       \/ Become(c, pulls) /\ localCopy[copy] = NoHashes
  BY <1>3
<1>5. /\ copy \in Services /\ Getter("device", t) \in Services
      /\ touched' \subseteq {"local", "device"} \X Services /\ cached' \in [{"local", "device"} -> Services]
      /\ \A s \in Services : OnlyTouched(s)' =>
            /\ OnlyTouched(s) /\ t = s /\ copy = s /\ Getter("device", t) = s
            /\ \A g \in {"local", "device"} : <<g, s>> \in touched' => cached'[g] = s
  BY <1>0, <1>4, GettersKeep
<1>6. HashFilesOK'
  BY <1>00, <1>1, <1>5 DEF HashFilesOK
<1> HIDE DEF copy
<1>7. pulls \in FileCallSet /\ pulls.at = "pull" /\ pulls.inFlight = {} /\ pulls.paths = <<copy, Getter("device", t)>>
      /\ pulls.op = call.op /\ pulls.s = call.s /\ pulls.since = call.since /\ pulls.answer = call.answer
      /\ pulls.sent = call.sent /\ pulls.lost = call.lost
  BY <1>0, <1>2, <1>5 DEF FileCallSet, FilePlaces
<1> HIDE DEF pulls
<1>8. PICK next : /\ Become(c, next) /\ FileCallShape(next)
                  /\ FileCallArrived(next, platform, version, onDevice, overtaken, reinstalls)
                  /\ next.at \in {"resolved", "generate", "write"} \/ (next = pulls /\ localCopy[copy] = NoHashes)
  <2>1. CASE Got(c, localCopy[copy])
    <3>1. localCopy[copy] \in Hashes \cup {NoHashes}
      BY <1>00, <1>5 DEF HashFilesOK
    <3> QED
      BY <1>1, <2>1, <3>1, GotHashes
  <2>2. CASE Become(c, pulls) /\ localCopy[copy] = NoHashes
    <3>1. FileCallShape(pulls)
      BY <1>2, <1>7, FileConstants DEF FileCallShape
    <3>2. Settled(pulls) = Settled(call)
      BY <1>1, <1>2, <1>7 DEF Settled
    <3>3. FileCallArrived(pulls, platform, version, onDevice, overtaken, reinstalls)
      BY <1>0, <1>1, <1>7, <3>2, StillArrived
    <3> QED
      BY <2>2, <3>1, <3>3
  <2> QED
    BY <1>4, <2>1, <2>2
<1>9. fileCalls' = [fileCalls EXCEPT ![c] = next]
  BY <1>8 DEF Become
<1>10. ASSUME NEW s \in Services, OnlyTouched(s)'
       PROVE  CopyOf(s)'
  <2>1. CopyOf(s) /\ t = s /\ copy = s /\ Getter("device", t) = s
    BY <1>00, <1>5, <1>10 DEF CopiesOK
  <2>2. \A d \in FileCalls \ {c} : fileCalls'[d] = fileCalls[d]
    BY <1>00, <1>9 DEF FileCallsOK
  <2>3. fileCalls'[c] = next /\ (next.at \in Moving => next = pulls /\ localCopy[s] = NoHashes)
    BY <1>00, <1>8, <1>9, <2>1 DEF FileCallsOK, Moving
  <2>4. pulls.s = s /\ pulls.paths = <<s, s>> /\ pulls.at = "pull" /\ fileCalls[c].at = "look"
    BY <1>1, <1>7, <2>1
  <2>5. \A d \in FileCalls : fileCalls'[d].at \in Moving => fileCalls'[d].s = s /\ fileCalls'[d].paths = <<s, s>>
    BY <2>1, <2>2, <2>3, <2>4 DEF CopyOf
  <2>6. \A g \in {"local", "device"} : <<g, s>> \in touched' => cached'[g] = s
    BY <1>5, <1>10
  <2>7. \A d \in FileCalls : fileCalls'[d].at \in Pushing \/ fileCalls[d].at \in Pushing => d # c /\ fileCalls'[d] = fileCalls[d]
    BY <2>2, <2>3, <2>4 DEF Pushing, Moving
  <2>8. \A d \in FileCalls : fileCalls'[d].at \in Pushing => localCopy[s] # NoHashes
    BY <2>1, <2>7 DEF CopyOf
  <2>9. ASSUME ~raced PROVE MovesApart(s)'
    <3>1. MovesApart(s)
      BY <2>1, <2>9 DEF CopyOf
    <3>2. fileCalls'[c].at \notin {"arriving", "pulling"}
      BY <2>3, <2>4 DEF Moving
    <3>3. \A d, e \in FileCalls : ~(fileCalls'[d].at \in Pulling /\ fileCalls'[e].at \in Pushing)
      <4> SUFFICES ASSUME NEW d \in FileCalls, NEW e \in FileCalls, fileCalls'[d].at \in Pulling, fileCalls'[e].at \in Pushing
                   PROVE  FALSE
        OBVIOUS
      <4>1. fileCalls[e].at \in Pushing /\ localCopy[s] # NoHashes
        BY <2>7, <2>8
      <4>2. d # c
        BY <2>3, <4>1 DEF Moving, Pulling
      <4> QED
        BY <2>2, <3>1, <4>1, <4>2 DEF MovesApart
    <3>4. UNCHANGED <<hashFile, localCopy, reinstalls, pushFailed>>
      BY <1>1 DEF HashesOnly
    <3>5. \A d \in FileCalls : fileCalls'[d].at = "arriving" => fileCalls'[d].hashes = localCopy[s]
      BY <2>2, <3>1, <3>2 DEF MovesApart
    <3>6. \A d \in FileCalls : fileCalls'[d].at = "pulling" => fileCalls'[d].hashes \in {NoHashes, hashFile[s]} \/ Afresh(s)
      BY <2>2, <3>1, <3>2 DEF MovesApart
    <3>7. localCopy[s] # NoHashes /\ ~pushFailed =>
             hashFile[s] = localCopy[s] \/ Afresh(s) \/ \E d \in FileCalls : fileCalls'[d].at \in Pushing
      BY <2>7, <3>1 DEF MovesApart
    <3> QED
      BY <3>3, <3>4, <3>5, <3>6, <3>7 DEF MovesApart, Afresh
  <2> QED
    BY <1>1, <2>1, <2>5, <2>6, <2>8, <2>9 DEF CopyOf
<1>11. CopiesOK'
  BY <1>10 DEF CopiesOK
<1> QED
  BY <1>1, <1>6, <1>8, <1>11, HashStep

\* adb pull: it reads the hash file, then it writes the copy.
LEMMA PullKeeps ==
    ASSUME FilesInv, NEW c \in FileCalls, ReadHashFile(c) \/ PullHashes(c)
    PROVE  FilesInv'
<1> DEFINE call == fileCalls[c]
           t == call.s
<1>0. /\ call \in FileCallSet /\ FileCallShape(call) /\ t \in Services /\ version \in [Files -> Nat]
      /\ FileCallArrived(call, platform, version, onDevice, overtaken, reinstalls)
  BY FileCallFacts
<1>00. HashFilesOK /\ FileCallsOK /\ CopiesOK
  BY DEF FilesInv
<1>2. call.paths[1] \in Services /\ call.paths[2] \in Services
  BY <1>0 DEF FileCallSet
<1>3. FileOf(t, call.paths[2]) \in Services /\ Getter("local", t) \in Services
  BY <1>0, <1>00, <1>2, DeviceFilesAssumption DEF FileOf, Getter, HashFilesOK
<1>a. CASE ReadHashFile(c)
  <2> DEFINE read == hashFile[FileOf(t, call.paths[2])]
             failed == [call EXCEPT !.at = "rejected", !.items = {}, !.inFlight = {}]
  <2>1. /\ HashesOnly /\ UNCHANGED <<hashFile, localCopy, touched, cached, pushFailed, raced>> /\ call.at = "pull"
        /\ \/ \E pulled \in {read, NoHashes} : Become(c, [call EXCEPT !.hashes = pulled, !.at = "pulling"])
           \/ Become(c, failed)
    BY <1>a DEF ReadHashFile, In, hashVars, Become3
  <2>2. read \in Hashes \cup {NoHashes} /\ call.inFlight = {}
    BY <1>0, <1>00, <1>3, <2>1 DEF HashFilesOK, FileCallShape
  <2>3. HashFilesOK'
    BY <1>00, <2>1 DEF HashFilesOK
  <2>4. PICK next : /\ Become(c, next) /\ FileCallShape(next) /\ FileCallArrived(next, platform, version, onDevice, overtaken, reinstalls)
                    /\ \/ next.at = "rejected"
                       \/ /\ next.at = "pulling" /\ next.hashes \in {read, NoHashes} /\ next.s = t /\ next.paths = call.paths
    <3>1. CASE Become(c, failed)
      <4>1. /\ failed \in FileCallSet /\ failed.at = "rejected" /\ failed.inFlight = {} /\ failed.op = call.op /\ failed.s = t
            /\ failed.since = call.since /\ failed.lost = call.lost /\ failed.sent = call.sent
        BY <1>0 DEF FileCallSet, FilePlaces
      <4> HIDE DEF failed
      <4>2. FileCallShape(failed) /\ FileCallArrived(failed, platform, version, onDevice, overtaken, reinstalls)
        BY <1>0, <4>1, StillArrived, FileConstants DEF FileCallShape
      <4> QED
        BY <3>1, <4>1, <4>2
    <3>2. ASSUME NEW pulled \in {read, NoHashes}, Become(c, [call EXCEPT !.hashes = pulled, !.at = "pulling"])
          PROVE  \E next : /\ Become(c, next) /\ FileCallShape(next)
                           /\ FileCallArrived(next, platform, version, onDevice, overtaken, reinstalls)
                           /\ next.at = "pulling" /\ next.hashes \in {read, NoHashes} /\ next.s = t /\ next.paths = call.paths
      <4> DEFINE next == [call EXCEPT !.hashes = pulled, !.at = "pulling"]
      <4>1. /\ next \in FileCallSet /\ next.at = "pulling" /\ next.inFlight = {} /\ next.op = call.op /\ next.s = t
            /\ next.since = call.since /\ next.lost = call.lost /\ next.sent = call.sent /\ next.hashes = pulled
            /\ next.paths = call.paths /\ next.answer = call.answer
        BY <1>0, <2>2, <3>2 DEF FileCallSet, FilePlaces
      <4> HIDE DEF next
      <4>2. Settled(next) = Settled(call)
        BY <2>1, <2>2, <4>1 DEF Settled
      <4>3. FileCallShape(next)
        BY <1>0, <2>1, <4>1, FileConstants DEF FileCallShape
      <4>4. FileCallArrived(next, platform, version, onDevice, overtaken, reinstalls)
        BY <1>0, <2>1, <4>1, <4>2, StillArrived
      <4> QED
        BY <3>2, <4>1, <4>3, <4>4 DEF next
    <3> QED
      BY <2>1, <3>1, <3>2
  <2>5. fileCalls' = [fileCalls EXCEPT ![c] = next]
    BY <2>4 DEF Become
  <2>6. ASSUME NEW s \in Services, OnlyTouched(s)'
        PROVE  CopyOf(s)'
    <3>1. CopyOf(s)
      BY <1>00, <2>1, <2>6 DEF CopiesOK, OnlyTouched
    <3>2. fileCalls'[c] = next /\ \A d \in FileCalls \ {c} : fileCalls'[d] = fileCalls[d]
      BY <1>00, <2>5 DEF FileCallsOK
    <3>3. t = s /\ call.paths = <<s, s>>
      BY <2>1, <3>1 DEF CopyOf, Moving
    <3>4. read = hashFile[s]
      BY <3>3, DeviceFilesAssumption DEF FileOf
    <3>5. next.at \notin Pushing /\ call.at \notin Pushing /\ call.at \in Pulling
      BY <2>1, <2>4 DEF Pushing, Pulling
    <3> HIDE DEF read
    <3>6. ASSUME ~raced PROVE MovesApart(s)'
      <4>1. MovesApart(s)
        BY <3>1, <3>6 DEF CopyOf
      <4>2. \A d \in FileCalls : fileCalls'[d].at = "arriving" => fileCalls'[d].hashes = localCopy[s]
        BY <2>4, <3>2, <4>1 DEF MovesApart
      <4>3. \A d \in FileCalls : fileCalls'[d].at = "pulling" => fileCalls'[d].hashes \in {NoHashes, hashFile[s]} \/ Afresh(s)
        BY <2>4, <3>2, <3>4, <4>1 DEF MovesApart
      <4>4. \A d, e \in FileCalls : ~(fileCalls'[d].at \in Pulling /\ fileCalls'[e].at \in Pushing)
        <5> SUFFICES ASSUME NEW d \in FileCalls, NEW e \in FileCalls, fileCalls'[e].at \in Pushing
                     PROVE  fileCalls'[d].at \notin Pulling
          OBVIOUS
        <5>1. fileCalls[e].at \in Pushing
          BY <3>2, <3>5
        <5> QED
          BY <3>5, <4>1, <5>1 DEF MovesApart
      <4>5. \A d \in FileCalls : fileCalls[d].at \in Pushing => fileCalls'[d].at \in Pushing
        BY <3>2, <3>5
      <4>6. UNCHANGED <<hashFile, localCopy, reinstalls, pushFailed>>
        BY <2>1 DEF HashesOnly
      <4>7. localCopy[s] # NoHashes /\ ~pushFailed =>
               hashFile[s] = localCopy[s] \/ Afresh(s) \/ \E d \in FileCalls : fileCalls'[d].at \in Pushing
        BY <4>1, <4>5 DEF MovesApart
      <4> QED
        BY <4>2, <4>3, <4>4, <4>6, <4>7 DEF MovesApart, Afresh
    <3>7. \A d \in FileCalls : fileCalls'[d].at \in Moving => fileCalls'[d].s = s /\ fileCalls'[d].paths = <<s, s>>
      BY <2>4, <3>1, <3>2, <3>3 DEF CopyOf, Moving
    <3>8. \A d \in FileCalls : fileCalls'[d].at \in Pushing => localCopy[s] # NoHashes
      BY <3>1, <3>2, <3>5 DEF CopyOf
    <3> QED
      BY <2>1, <3>1, <3>6, <3>7, <3>8 DEF CopyOf
  <2>7. CopiesOK'
    BY <2>6 DEF CopiesOK
  <2> QED
    BY <2>1, <2>3, <2>4, <2>7, HashStep
<1>b. CASE PullHashes(c)
  <2> DEFINE copies == IF call.hashes = NoHashes THEN localCopy ELSE [localCopy EXCEPT ![call.paths[1]] = call.hashes]
  <2>1. /\ HashesOnly /\ UNCHANGED <<hashFile, touched, cached, pushFailed, raced>> /\ call.at = "pulling"
        /\ localCopy' = copies /\ Got(c, copies[Getter("local", t)])
    BY <1>b DEF PullHashes, In
  <2>2. copies \in [Services -> Hashes \cup {NoHashes}]
    BY <1>0, <1>00, <1>2 DEF HashFilesOK, FileCallSet
  <2>3. \A s \in Services : copies[s] = localCopy[s] \/ (s = call.paths[1] /\ copies[s] = call.hashes /\ call.hashes # NoHashes)
    BY <1>00 DEF HashFilesOK
  <2>a. call.hashes = NoHashes => copies = localCopy
    OBVIOUS
  <2> HIDE DEF copies
  <2>4. HashFilesOK'
    BY <1>00, <2>1, <2>2 DEF HashFilesOK
  <2>5. PICK next : /\ Become(c, next) /\ FileCallShape(next) /\ next.at \in {"resolved", "generate", "write"}
                    /\ FileCallArrived(next, platform, version, onDevice, overtaken, reinstalls)
    BY <1>3, <2>1, <2>2, GotHashes
  <2>6. fileCalls' = [fileCalls EXCEPT ![c] = next]
    BY <2>5 DEF Become
  <2>7. ASSUME NEW s \in Services, OnlyTouched(s)'
        PROVE  CopyOf(s)'
    <3>1. CopyOf(s)
      BY <1>00, <2>1, <2>7 DEF CopiesOK, OnlyTouched
    <3>2. fileCalls'[c].at \notin Moving /\ \A d \in FileCalls \ {c} : fileCalls'[d] = fileCalls[d]
      BY <1>00, <2>5, <2>6 DEF FileCallsOK, Moving
    <3>3. call.paths = <<s, s>> /\ call.at \in Pulling /\ call.at \notin Pushing
      BY <2>1, <3>1 DEF CopyOf, Moving, Pulling, Pushing
    <3>4. \A u \in Services \ {s} : copies[u] = NoHashes
      BY <2>3, <3>1, <3>3 DEF CopyOf
    <3>5. copies[s] = localCopy[s] \/ (copies[s] = call.hashes /\ call.hashes # NoHashes)
      BY <2>3
    <3>6. \A d \in FileCalls : fileCalls'[d].at \in Moving => fileCalls'[d] = fileCalls[d]
      BY <3>2
    <3>7. Pulling \subseteq Moving /\ Pushing \subseteq Moving /\ "arriving" \in Pushing /\ "pulling" \in Pulling
      BY DEF Pulling, Pushing, Moving
    <3>8. ASSUME ~raced PROVE MovesApart(s)'
      <4>1. MovesApart(s)
        BY <3>1, <3>8 DEF CopyOf
      <4>2. \A d \in FileCalls : fileCalls[d].at \notin Pushing /\ fileCalls'[d].at \notin Pushing
        BY <3>3, <3>6, <3>7, <4>1 DEF MovesApart
      <4>3. \A d \in FileCalls : fileCalls'[d].at = "pulling" => fileCalls'[d].hashes \in {NoHashes, hashFile[s]} \/ Afresh(s)
        BY <3>6, <3>7, <4>1 DEF MovesApart
      <4>4. copies[s] # NoHashes /\ ~pushFailed => hashFile[s] = copies[s] \/ Afresh(s)
        BY <2>1, <3>5, <4>1, <4>2 DEF MovesApart
      <4>5. UNCHANGED <<hashFile, reinstalls, pushFailed>> /\ localCopy'[s] = copies[s]
        BY <2>1 DEF HashesOnly
      <4> QED
        BY <3>7, <4>2, <4>3, <4>4, <4>5 DEF MovesApart, Afresh
    <3>9. \A d \in FileCalls : fileCalls'[d].at \in Pushing => copies[s] # NoHashes
      BY <3>1, <3>5, <3>6, <3>7 DEF CopyOf
    <3> QED
      BY <2>1, <3>1, <3>4, <3>6, <3>8, <3>9 DEF CopyOf
  <2>8. CopiesOK'
    BY <2>7 DEF CopiesOK
  <2> QED
    BY <2>1, <2>4, <2>5, <2>8, HashStep
<1> QED
  BY <1>a, <1>b

\* uploadHashFileToDevice writes the copy.
LEMMA WriteKeeps ==
    ASSUME FilesInv, NEW c \in FileCalls, WriteHashes(c)
    PROVE  FilesInv'
<1> DEFINE call == fileCalls[c]
           t == call.s
           copy == Getter("local", t)
           paths == <<copy, Getter("device", t)>>
           next == [call EXCEPT !.at = "pushHashes", !.paths = paths]
<1>0. /\ call \in FileCallSet /\ FileCallShape(call) /\ t \in Services /\ version \in [Files -> Nat]
      /\ FileCallArrived(call, platform, version, onDevice, overtaken, reinstalls)
  BY FileCallFacts
<1>00. HashFilesOK /\ FileCallsOK /\ CopiesOK
  BY DEF FilesInv
<1>1. /\ HashesOnly /\ UNCHANGED <<hashFile, pushFailed>> /\ call.at \in {"write", "generate"}
      /\ CallGetters({"local", "device"}, t) /\ localCopy' = [localCopy EXCEPT ![copy] = call.hashes] /\ Become(c, next)
      /\ raced' = (raced \/ \E d \in FileCalls \ {c} : fileCalls[d].at \in Moving)
  BY DEF WriteHashes, CopyWritten, In
<1>2. call.hashes \in Hashes /\ call.inFlight = {} /\ call.hashes # NoHashes
  BY <1>0, <1>1, DeviceFilesAssumption DEF FileCallShape
<1>3. /\ copy \in Services /\ Getter("device", t) \in Services
      /\ touched' \subseteq {"local", "device"} \X Services /\ cached' \in [{"local", "device"} -> Services]
      /\ \A s \in Services : OnlyTouched(s)' =>
            /\ OnlyTouched(s) /\ t = s /\ copy = s /\ Getter("device", t) = s
            /\ \A g \in {"local", "device"} : <<g, s>> \in touched' => cached'[g] = s
  BY <1>0, <1>1, GettersKeep
<1> HIDE DEF copy
<1>4. next \in FileCallSet /\ next.at = "pushHashes" /\ next.inFlight = {} /\ next.paths = <<copy, Getter("device", t)>>
      /\ next.hashes = call.hashes /\ next.sent = call.sent /\ next.lost = call.lost
      /\ next.op = call.op /\ next.s = call.s /\ next.since = call.since /\ next.answer = call.answer
  BY <1>0, <1>2, <1>3 DEF FileCallSet, FilePlaces
<1> HIDE DEF next
<1>5. HashFilesOK'
  BY <1>00, <1>1, <1>2, <1>3 DEF HashFilesOK
<1>6. FileCallShape(next)
  BY <1>2, <1>4, FileConstants DEF FileCallShape
<1>7. FileCallArrived(next, platform, version, onDevice, overtaken, reinstalls)
  <2>1. Settled(next) = Settled(call)
    BY <1>1, <1>4, <1>2 DEF Settled
  <2> QED
    BY <1>0, <1>1, <1>4, <2>1, StillArrived
<1>8. fileCalls' = [fileCalls EXCEPT ![c] = next]
  BY <1>1 DEF Become
<1>9. ASSUME NEW s \in Services, OnlyTouched(s)'
      PROVE  CopyOf(s)'
  <2>1. CopyOf(s) /\ t = s /\ copy = s /\ Getter("device", t) = s
    BY <1>00, <1>3, <1>9 DEF CopiesOK
  <2>2. fileCalls'[c] = next /\ \A d \in FileCalls \ {c} : fileCalls'[d] = fileCalls[d]
    BY <1>00, <1>8 DEF FileCallsOK
  <2>3. next.s = s /\ next.paths = <<s, s>> /\ next.at \in Pushing /\ next.at \notin Pulling
    BY <1>4, <2>1 DEF Pushing, Pulling
  <2>4. \A d \in FileCalls : fileCalls'[d].at \in Moving => fileCalls'[d].s = s /\ fileCalls'[d].paths = <<s, s>>
    BY <2>1, <2>2, <2>3 DEF CopyOf
  <2>5. \A g \in {"local", "device"} : <<g, s>> \in touched' => cached'[g] = s
    BY <1>3, <1>9
  <2>6. localCopy'[s] # NoHashes /\ \A u \in Services \ {s} : localCopy'[u] = NoHashes
    BY <1>00, <1>1, <1>2, <2>1 DEF CopyOf, HashFilesOK
  <2>7. ASSUME ~raced' PROVE MovesApart(s)'
    <3>1. \A d \in FileCalls \ {c} : fileCalls'[d].at \notin Moving
      BY <1>1, <2>2, <2>7
    <3>2. \A d \in FileCalls : fileCalls'[d].at \notin Pulling /\ fileCalls'[d].at \notin {"arriving", "pulling"}
      BY <1>4, <2>2, <2>3, <3>1 DEF Moving, Pulling
    <3>3. \E d \in FileCalls : fileCalls'[d].at \in Pushing
      BY <2>2, <2>3
    <3> QED
      BY <3>2, <3>3 DEF MovesApart
  <2> QED
    BY <2>4, <2>5, <2>6, <2>7 DEF CopyOf
<1>10. CopiesOK'
  BY <1>9 DEF CopiesOK
<1> QED
  BY <1>1, <1>5, <1>6, <1>7, <1>10, HashStep

\* The push reads the copy, arrives, or fails.
LEMMA PushHashesKeeps ==
    ASSUME FilesInv, NEW c \in FileCalls, ReadCopy(c) \/ PushHashes(c) \/ PushFails(c)
    PROVE  FilesInv'
<1> DEFINE call == fileCalls[c]
           t == call.s
           file == FileOf(t, call.paths[2])
           copy == localCopy[call.paths[1]]
           onWay == [call EXCEPT !.hashes = copy, !.at = "arriving"]
           done == [call EXCEPT !.at = "resolved", !.items = {}, !.inFlight = {}]
           failed == [call EXCEPT !.at = "rejected", !.items = {}, !.inFlight = {}]
<1>0. /\ call \in FileCallSet /\ FileCallShape(call) /\ t \in Services /\ version \in [Files -> Nat]
      /\ FileCallArrived(call, platform, version, onDevice, overtaken, reinstalls)
  BY FileCallFacts
<1>00. HashFilesOK /\ FileCallsOK /\ CopiesOK
  BY DEF FilesInv
<1>1. /\ HashesOnly /\ UNCHANGED <<localCopy, touched, cached, raced>> /\ call.at \in Pushing
      /\ \/ call.at = "pushHashes" /\ Become(c, onWay) /\ UNCHANGED <<hashFile, pushFailed>>
         \/ /\ call.at = "arriving"
            /\ Become(c, done) \/ Become(c, failed)
            /\ hashFile' = [hashFile EXCEPT ![file] = call.hashes] /\ UNCHANGED pushFailed
         \/ /\ Become(c, done) \/ Become(c, failed)
            /\ pushFailed' = TRUE /\ UNCHANGED hashFile
  BY DEF ReadCopy, PushHashes, PushFails, In, Become3, Pushing, hashVars
<1>2. call.paths[1] \in Services /\ call.paths[2] \in Services /\ call.inFlight = {} /\ call.at # "rejected"
  BY <1>0, <1>1 DEF FileCallSet, FileCallShape, Pushing
<1>3. file \in Services /\ copy \in Hashes \cup {NoHashes}
  BY <1>0, <1>00, <1>2, DeviceFilesAssumption DEF FileOf, HashFilesOK
<1>4. HashFilesOK'
  BY <1>0, <1>00, <1>1, <1>3 DEF HashFilesOK, FileCallSet
<1> HIDE DEF copy, file
<1>5. /\ onWay \in FileCallSet /\ onWay.at = "arriving" /\ onWay.inFlight = {} /\ onWay.hashes = copy /\ onWay.paths = call.paths
      /\ onWay.op = call.op /\ onWay.s = call.s /\ onWay.since = call.since /\ onWay.answer = call.answer
      /\ onWay.sent = call.sent /\ onWay.lost = call.lost
  BY <1>0, <1>2, <1>3 DEF FileCallSet, FilePlaces
<1>6. /\ done \in FileCallSet /\ done.at = "resolved" /\ done.inFlight = {}
      /\ done.op = call.op /\ done.s = call.s /\ done.since = call.since /\ done.answer = call.answer
      /\ done.sent = call.sent /\ done.lost = call.lost
  BY <1>0 DEF FileCallSet, FilePlaces
<1>7. /\ failed \in FileCallSet /\ failed.at = "rejected" /\ failed.inFlight = {}
      /\ failed.op = call.op /\ failed.s = call.s /\ failed.since = call.since /\ failed.answer = call.answer
      /\ failed.sent = call.sent /\ failed.lost = call.lost
  BY <1>0 DEF FileCallSet, FilePlaces
<1> HIDE DEF onWay, done, failed
<1>8. PICK next \in {onWay, done, failed} :
         /\ Become(c, next)
         /\ \/ next = onWay /\ UNCHANGED <<hashFile, pushFailed>>
            \/ call.at = "arriving" /\ hashFile' = [hashFile EXCEPT ![file] = call.hashes]
            \/ pushFailed' = TRUE
  <2>1. CASE Become(c, onWay)
    BY <1>1, <2>1
  <2>2. CASE Become(c, done)
    BY <1>1, <1>5, <1>6, <2>2, <2>1
  <2>3. CASE Become(c, failed)
    BY <1>1, <2>3, <2>1
  <2> QED
    BY <1>1, <2>1, <2>2, <2>3
<1>9. FileCallShape(next) /\ FileCallArrived(next, platform, version, onDevice, overtaken, reinstalls)
  <2>1. next \in FileCallSet /\ next.inFlight = {} /\ next.at \in {"arriving", "resolved", "rejected"}
        /\ next.op = call.op /\ next.s = call.s /\ next.since = call.since /\ next.answer = call.answer
        /\ next.sent = call.sent /\ next.lost = call.lost
    BY <1>5, <1>6, <1>7
  <2>2. FileCallShape(next)
    BY <2>1, FileConstants DEF FileCallShape
  <2>3. Settled(next) = Settled(call)
    BY <1>1, <1>2, <2>1 DEF Settled, Pushing
  <2> QED
    BY <1>0, <1>2, <2>1, <2>2, <2>3, StillArrived
<1>10. fileCalls' = [fileCalls EXCEPT ![c] = next]
  BY <1>8 DEF Become
<1>11. ASSUME NEW s \in Services, OnlyTouched(s)'
       PROVE  CopyOf(s)'
  <2>1. CopyOf(s)
    BY <1>00, <1>1, <1>11 DEF CopiesOK, OnlyTouched
  <2>2. fileCalls'[c] = next /\ \A d \in FileCalls \ {c} : fileCalls'[d] = fileCalls[d]
    BY <1>00, <1>10 DEF FileCallsOK
  <2>3. t = s /\ call.paths = <<s, s>>
    BY <1>1, <2>1 DEF CopyOf, Moving, Pushing
  <2>4. file = s /\ copy = localCopy[s]
    <3>1. s = <<s[1], s[2]>>
      BY DeviceFilesAssumption
    <3>2. call.paths[2] = s /\ call.paths[1] = s
      BY <2>3
    <3>3. file = <<s[1], s[2]>>
      BY <2>3, <3>2 DEF FileOf, file
    <3> QED
      BY <3>1, <3>2, <3>3 DEF copy
  <2>5. /\ next = onWay \/ (next \in {done, failed} /\ next.at \notin Moving)
        /\ next.at \notin Pulling /\ next.at # "pulling" /\ call.at \notin Pulling
    BY <1>1, <1>5, <1>6, <1>7 DEF Moving, Pulling, Pushing
  <2>6. \A d \in FileCalls : fileCalls'[d].at \in Moving => fileCalls'[d].s = s /\ fileCalls'[d].paths = <<s, s>>
    BY <1>5, <2>1, <2>2, <2>3, <2>5 DEF CopyOf
  <2>7. localCopy[s] # NoHashes
    BY <1>1, <2>1 DEF CopyOf
  <2>8. ASSUME ~raced PROVE MovesApart(s)'
    <3>1. MovesApart(s)
      BY <2>1, <2>8 DEF CopyOf
    <3>2. \A d \in FileCalls : fileCalls'[d].at = "arriving" => fileCalls'[d].hashes = localCopy[s]
      BY <1>5, <1>6, <1>7, <2>2, <2>4, <2>5, <3>1 DEF MovesApart, Moving
    <3>3. \A d \in FileCalls : fileCalls[d].at \notin Pulling /\ fileCalls'[d].at \notin Pulling
      BY <1>1, <2>2, <2>5, <3>1 DEF MovesApart
    <3>4. \A d \in FileCalls : fileCalls'[d].at # "pulling"
      BY <3>3 DEF Pulling
    <3>5. ~pushFailed' => hashFile'[s] = localCopy[s] \/ \E d \in FileCalls : fileCalls'[d].at \in Pushing
      <4>1. CASE next = onWay
        BY <1>5, <2>2, <4>1 DEF Pushing
      <4>2. CASE call.at = "arriving" /\ hashFile' = [hashFile EXCEPT ![file] = call.hashes]
        BY <1>00, <2>4, <3>1, <4>2 DEF MovesApart, HashFilesOK
      <4>3. CASE pushFailed' = TRUE
        BY <4>3
      <4> QED
        BY <1>8, <4>1, <4>2, <4>3
    <3> QED
      BY <1>1, <3>2, <3>3, <3>4, <3>5 DEF MovesApart
  <2> QED
    BY <1>1, <2>1, <2>6, <2>7, <2>8 DEF CopyOf
<1>12. CopiesOK'
  BY <1>11 DEF CopiesOK
<1> QED
  BY <1>1, <1>4, <1>8, <1>9, <1>12, HashStep

LEMMA FilesStart == FilesInit => FilesInv
<1> SUFFICES ASSUME FilesInit
             PROVE  FilesInv
  OBVIOUS
<1>1. PICK some \in Services : cached = [g \in {"local", "device"} |-> some]
  BY DEF FilesInit
<1>2. /\ Idle \in FileCallSet /\ Idle.op = "none" /\ Idle.inFlight = {} /\ Idle.answer = {}
      /\ Idle.since = [f \in Files |-> 0] /\ Idle.at = "none" /\ Idle.sent = [f \in Files |-> 0]
  BY IdleShape
<1>3. version = [f \in Files |-> 1] /\ 1 \in 1 .. MaxVersions
  BY FileConstants DEF FilesInit
<1>4. ProjectOK
  BY <1>3 DEF FilesInit, ProjectOK
<1>5. [f \in Files |-> 1] \in Hashes
  <2> DEFINE ones == [f \in Files |-> 1]
  <2>1. ones \in [DOMAIN ones -> 1 .. MaxVersions] /\ DOMAIN ones \subseteq Files
    BY <1>3
  <2> HIDE DEF ones
  <2>2. ones \in Hashes
    BY <2>1, HashesAre
  <2> QED
    BY <2>2 DEF ones
<1>6. HashFilesOK
  BY <1>1, <1>5 DEF FilesInit, HashFilesOK
<1>7. FileCallShape(Idle) /\ FileCallArrived(Idle, platform, version, onDevice, overtaken, reinstalls)
  BY <1>2, <1>3, FileConstants DEF FileCallShape, FileCallArrived, Settled
<1>8. fileCalls = [c \in FileCalls |-> Idle]
  BY DEF FilesInit
<1>9. FileCallsOK
  BY <1>2, <1>7, <1>8 DEF FileCallsOK
<1>10. touched = {} /\ localCopy = [s \in Services |-> NoHashes]
  BY DEF FilesInit
<1>11. CopiesOK
  BY <1>2, <1>8, <1>10 DEF CopiesOK, CopyOf, MovesApart, Moving, Pushing, Pulling
<1> QED
  BY <1>4, <1>6, <1>9, <1>11 DEF FilesInv

LEMMA FilesStep == FilesInv /\ [FilesNext]_filesVars => FilesInv'
<1> SUFFICES ASSUME FilesInv, [FilesNext]_filesVars
             PROVE  FilesInv'
  OBVIOUS
<1>1. CASE UNCHANGED filesVars
  BY <1>1 DEF filesVars, FilesInv, ProjectOK, HashFilesOK, FileCallsOK, CopiesOK, CopyOf, OnlyTouched, MovesApart, Afresh
<1>2. CASE TransferNext
  BY <1>2, TransferBegins, TransferKeeps, ItemKeeps, ArrivalKeeps, UploadKeeps DEF TransferNext
<1>3. CASE HashNext
  BY <1>3, HashesGenerated, LookKeeps, PullKeeps, WriteKeeps, PushHashesKeeps DEF HashNext
<1> QED
  BY <1>1, <1>2, <1>3, ProjectStep DEF FilesNext

\* As long as the getters of the paths were called on one hash service only.
OneServiceTouched == \E s \in Services : OnlyTouched(s)

LEMMA FilesInvHolds == FilesInv => FilesTypeOK /\ AnsweredFilesArrived /\ (OneServiceTouched => CopyIsTheHashFile)
<1> SUFFICES ASSUME FilesInv
             PROVE  FilesTypeOK /\ AnsweredFilesArrived /\ (OneServiceTouched => CopyIsTheHashFile)
  OBVIOUS
<1>1. ProjectOK /\ HashFilesOK /\ FileCallsOK /\ CopiesOK
  BY DEF FilesInv
<1>2. \A c \in FileCalls : /\ FileCallShape(fileCalls[c])
                           /\ FileCallArrived(fileCalls[c], platform, version, onDevice, overtaken, reinstalls)
  BY <1>1 DEF FileCallsOK
<1>3. \A c \in FileCalls :
         /\ fileCalls[c].inFlight \subseteq Items
         /\ fileCalls[c].op \in {"files", "directory"} => Cardinality(fileCalls[c].inFlight) <= ChunkSize
  BY <1>2 DEF FileCallShape, FileCallSet
<1>4. version \in [Files -> Nat]
  BY FileConstants, <1>1 DEF ProjectOK
<1>5. ASSUME NEW s \in Services, NEW f \in Files
      PROVE  onDevice[s][f] \in 0 .. version[f]
  <2>1. onDevice[s][f] \in Nat /\ version[f] \in Nat /\ onDevice[s][f] <= version[f]
    BY <1>1, <1>4 DEF ProjectOK
  <2> QED
    BY <2>1
<1>6. FilesTypeOK
  BY <1>1, <1>3, <1>5 DEF FilesTypeOK, ProjectOK, HashFilesOK
<1>7. AnsweredFilesArrived
  <2> SUFFICES ASSUME NEW c \in FileCalls, fileCalls[c].at = "resolved", platform[fileCalls[c].s] # "simulator", reinstalls = 0,
                      NEW f \in fileCalls[c].answer \cap Files
               PROVE  \/ onDevice[fileCalls[c].s][f] >= fileCalls[c].since[f]
                      \/ f \in fileCalls[c].lost \/ <<fileCalls[c].s, f>> \in overtaken
    BY DEF AnsweredFilesArrived
  <2>1. fileCalls[c].inFlight = {}
    BY <1>2 DEF FileCallShape
  <2>2. f \in Settled(fileCalls[c])
    BY <2>1 DEF Settled
  <2> QED
    BY <1>2, <2>2 DEF FileCallArrived
<1>8. ASSUME NEW s \in Services, OnlyTouched(s)
      PROVE  CopyIsTheHashFile
  <2>1. CopyOf(s)
    BY <1>1, <1>8 DEF CopiesOK
  <2> QED
    BY <2>1 DEF CopyOf, CopyIsTheHashFile, MovesApart, Afresh, Pushing
<1> QED
  BY <1>6, <1>7, <1>8 DEF OneServiceTouched

\* The invariant of the files: versions on the devices follow those of the project,
\* what a call has settled is there unless its push was lost or overtaken, and the
\* copy of the only hash service in use is its hash file, or about to be, as long as
\* no copy was written while another call moved the file.
THEOREM FilesInvariant == FilesSpec => []FilesInv
BY FilesStart, FilesStep, PTL DEF FilesSpec

\* The state has its shape, a chunk is never longer than ChunkSize, and a device
\* never has a file in a version that the project has not had.
THEOREM FilesTypeCorrect == FilesSpec => []FilesTypeOK
BY FilesInvariant, FilesInvHolds, PTL

\* What a transfer to a device answers has arrived, as it was when the call began or
\* newer, unless the push of this file failed with nobody told, a push that had read
\* an older version came after it, or the application was installed.
THEOREM FilesAnsweredArrived == FilesSpec => []AnsweredFilesArrived
BY FilesInvariant, FilesInvHolds, PTL

\* When the calls of one hash service are over, its copy is the hash file of the
\* device, however they overlapped, unless a push failed, the application was
\* installed, or a copy was written while another call pulled or pushed.  With two
\* services it is not: @cache mixes up their paths.
THEOREM FilesCopyIsTheHashFile == FilesSpec => [](OneServiceTouched => CopyIsTheHashFile)
BY FilesInvariant, FilesInvHolds, PTL

-----------------------------------------------------------------------------
(* All of the tools *)

allVars == <<focus, emulatorsVars, logsVars, portVars, filesVars, iosVars>>

\* A step of the tools is a step of one of them.
LEMMA ToolsStep ==
    ASSUME [DeviceToolsNext]_allVars
    PROVE  /\ [EmulatorsNext]_emulatorsVars /\ [LogsNext]_logsVars /\ [PortsNext]_portVars
           /\ [FilesNext]_filesVars /\ [IOSNext]_iosVars
<1>1. CASE UNCHANGED allVars
  BY <1>1 DEF allVars
<1>2. CASE DeviceToolsNext
  <2>1. focus \notin {"start", "discovery"} => UNCHANGED emulatorsVars
    BY <1>2 DEF DeviceToolsNext
  <2>2. focus # "logs" => UNCHANGED logsVars
    BY <1>2 DEF DeviceToolsNext
  <2>3. focus # "ports" => UNCHANGED portVars
    BY <1>2 DEF DeviceToolsNext
  <2>4. focus \notin {"transfers", "hashes"} => UNCHANGED filesVars
    BY <1>2 DEF DeviceToolsNext
  <2>5. focus \notin {"phones", "simulators"} => UNCHANGED iosVars
    BY <1>2 DEF DeviceToolsNext
  <2>6. \/ focus \in {"start", "discovery"} /\ EmulatorsNext
        \/ focus = "logs" /\ LogsNext
        \/ focus = "ports" /\ PortsNext
        \/ focus \in {"transfers", "hashes"} /\ FilesNext
        \/ focus \in {"phones", "simulators"} /\ IOSNext
    BY <1>2 DEF DeviceToolsNext, FilesNext, ProjectChanges
  <2> QED
    BY <2>1, <2>2, <2>3, <2>4, <2>5, <2>6
<1> QED
  BY <1>1, <1>2

\* The tools together are each of them on its own, which the theorems above are about.
THEOREM ToolsAreEachTool == DeviceToolsSpec => EmulatorsSpec /\ LogsSpec /\ PortsSpec /\ FilesSpec /\ IOSSpec
<1>1. DeviceToolsInit => EmulatorsInit /\ LogsInit /\ PortsInit /\ FilesInit /\ IOSInit
  BY DEF DeviceToolsInit
<1> QED
  BY <1>1, ToolsStep, PTL DEF DeviceToolsSpec, EmulatorsSpec, LogsSpec, PortsSpec, FilesSpec, IOSSpec, allVars

\* The states of all the tools have their shapes.
THEOREM ToolsTypeCorrect == DeviceToolsSpec => []DeviceToolsTypeOK
<1>1. EmulatorsTypeOK /\ LogsTypeOK /\ PortsTypeOK /\ FilesTypeOK /\ IOSTypeOK => DeviceToolsTypeOK
  BY DEF DeviceToolsTypeOK
<1> QED
  BY <1>1, ToolsAreEachTool, EmulatorsTypeCorrect, LogsTypeCorrect, PortsTypeCorrect, FilesTypeCorrect, IOSTypeCorrect, PTL
=============================================================================
