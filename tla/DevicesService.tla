--------------------------- MODULE DevicesService ---------------------------
(***************************************************************************)
(* DevicesService: initialize and its single pending promise, the branches *)
(* of initializeCore, the detection interval, and execute.                 *)
(*                                                                         *)
(* The discoveries are modelled in AndroidDeviceDiscovery; here a          *)
(* detection that looks for some devices makes _devices agree with the     *)
(* attached ones among them, or changes nothing when it fails (its error   *)
(* is only traced).  A device is named by its identifier: indexes and      *)
(* display names are other ways to write it.  The code between two awaits  *)
(* is one action.  A rejected initialization clears the promise for each   *)
(* of its waiters before any of their callers runs again (the              *)
(* continuations are queued first), so its end is one action.              *)
(***************************************************************************)
EXTENDS Naturals, FiniteSets

CONSTANTS
    Callers,        \* concurrent callers of initialize
    Devices,        \* all devices, emulators among them
    PlatformOf,     \* the platform of each device
    Emulators,      \* the devices that are emulators or simulators
    Requests,       \* the options initialize may be called with
    IsDarwin,       \* $hostInfo.isDarwin
    EmulatorFlag,   \* $options.emulator
    None,           \* null, undefined, an option that is not given
    MaxCalls,       \* calls of initialize (bound)
    MaxChanges      \* changes of the attached devices (bound)

Platforms == {"android", "ios"}

Request == [platform : Platforms \cup {None}, device : Devices \cup {None},
            emulator : BOOLEAN, skipEmulatorStart : BOOLEAN,
            skipInferPlatform : BOOLEAN, skipInterval : BOOLEAN]

\* Where initializeCore awaits.
CoreAt == {"begin", "emulatorLook", "emulatorStart", "emulatorFind", "look", "firstTick"}

ASSUME ServiceAssumption ==
    /\ PlatformOf \in [Devices -> Platforms]
    /\ Emulators \subseteq Devices
    /\ Requests \subseteq Request
    /\ {IsDarwin, EmulatorFlag} \subseteq BOOLEAN
    /\ None \notin Devices \cup Platforms
    /\ None \notin BOOLEAN \cup [req : Requests, at : CoreAt]
    /\ {MaxCalls, MaxChanges} \subseteq Nat

VARIABLES
    attached,       \* what is plugged in or running (environment)
    changes,        \* (bound)
    registry,       \* _devices
    platform,       \* _platform
    device,         \* _device
    isInitialized,  \* _isInitialized
    promise,        \* _deviceInitializePromise
    core,           \* the initializeCore in flight
    pc,             \* what each caller knows of its initialize
    calls,          \* (bound)
    failed,         \* history: an initialize has failed
    granted,        \* history: the options of the initialize that succeeded
    interval,       \* deviceDetectionInterval: None, or the emulator option it was started with
    tick,           \* the execution of the interval in progress
    first,          \* isFirstExecution
    exec            \* the execute in flight

serviceVars == <<platform, device, isInitialized>>
callVars == <<promise, core, pc, failed, granted>>
intervalVars == <<interval, tick, first>>
vars == <<attached, changes, registry, serviceVars, callVars, calls, intervalVars, exec>>

\* todo, errors and done as in the loop; targets what the loop goes over; history: wanted
\* is what the options chose among the devices there when the call began.
NoExec == [todo |-> {}, targets |-> {}, errors |-> {}, done |-> {}, wanted |-> {}, state |-> "none"]

TypeOK ==
    /\ attached \subseteq Devices /\ registry \subseteq Devices
    /\ changes \in 0 .. MaxChanges /\ calls \in 0 .. MaxCalls
    /\ platform \in Platforms \cup {None}
    /\ device \in Devices \cup {None}
    /\ {isInitialized, failed, first} \subseteq BOOLEAN /\ interval \in BOOLEAN \cup {None}
    /\ promise \in {"none", "pending", "resolved"}
    /\ core \in [req : Requests, at : CoreAt] \cup {None}
    /\ core # None <=> promise = "pending"
    /\ granted \in Requests \cup {None}
    /\ pc \in [Callers -> {"idle", "waiting", "ok", "failed"}]
    /\ tick \in [state : {"none", "detecting", "updating"}, platform : Platforms \cup {None}]
    /\ exec \in [todo : SUBSET Devices, targets : SUBSET Devices, errors : SUBSET Devices,
                done : SUBSET Devices, wanted : SUBSET Devices,
                state : {"none", "running", "succeeded", "threw", "skipped", "refused"}]

Init ==
    /\ attached \in SUBSET (Devices \ Emulators)
    /\ changes = 0
    /\ registry = {}
    /\ platform = None
    /\ device = None
    /\ isInitialized = FALSE
    /\ promise = "none"
    /\ core = None
    /\ pc = [c \in Callers |-> "idle"]
    /\ calls = 0
    /\ failed = FALSE
    /\ granted = None
    /\ interval = None
    /\ tick = [state |-> "none", platform |-> None]
    /\ first = FALSE
    /\ exec = NoExec

-----------------------------------------------------------------------------
\* getDeviceLookingOptions and the guards of the discoveries: with a platform only
\* its discoveries look, and with the emulator option not those of real iOS devices.
LooksFor(p, emulator) ==
    {d \in Devices : \/ p = None
                     \/ PlatformOf[d] = p /\ ~(p = "ios" /\ emulator /\ d \notin Emulators)}

\* detectCurrentlyAttachedDevices: some of the discoveries may fail.
Detections(p, emulator) ==
    {(registry \ looked) \cup (attached \cap looked) :
        looked \in {{d \in LooksFor(p, emulator) : PlatformOf[d] \in answered} :
                       answered \in SUBSET Platforms}}

\* The platform option, or else the platform the service already has.
PlatformFor(r) == IF r.platform # None THEN r.platform ELSE platform

WaitersBecome(c) == [w \in Callers |-> IF pc[w] = "waiting" THEN c ELSE pc[w]]

\* initialize's catch: the promise is dropped so that a later call tries again.
Reject ==
    /\ promise' = "none"
    /\ core' = None
    /\ pc' = WaitersBecome("failed")
    /\ failed' = TRUE
    /\ UNCHANGED granted

\* Mutant of Resolve: the promise is dropped on success, too.
ResolveAndForget ==
    /\ isInitialized' = TRUE
    /\ promise' = "none"
    /\ core' = None
    /\ pc' = WaitersBecome("ok")
    /\ granted' = core.req
    /\ UNCHANGED failed

\* The last lines of initializeCore.  The resolved promise stays for later calls.
Resolve ==
    /\ isInitialized' = TRUE
    /\ promise' = "resolved"
    /\ core' = None
    /\ pc' = WaitersBecome("ok")
    /\ granted' = core.req
    /\ UNCHANGED failed

\* Emulation of iOS is refused elsewhere than on macOS.
CannotUseSimulator(p) == ~IsDarwin /\ p = "ios" /\ EmulatorFlag

ResolveFor(p) ==
    \/ ~CannotUseSimulator(p) /\ Resolve
    \/ CannotUseSimulator(p) /\ Reject /\ UNCHANGED isInitialized

\* Mutant of ConcludeDevice: the device is not compared with the platform.
ConcludeDeviceUnchecked(r, found) ==
    IF r.device \in found
    THEN /\ device' = r.device
         /\ UNCHANGED platform
         /\ ResolveFor(platform)
    ELSE Reject /\ UNCHANGED serviceVars

\* --device: the device is looked up in _devices, and kept in _device even when its
\* platform is not the one that was asked for.
ConcludeDevice(r, found) ==
    \/ /\ r.device \notin found
       /\ Reject
       /\ UNCHANGED serviceVars
    \/ /\ r.device \in found
       /\ device' = r.device
       /\ platform' = IF r.platform = None THEN PlatformOf[r.device] ELSE platform
       /\ IF PlatformOf[r.device] = platform'
          THEN ResolveFor(platform')
          ELSE Reject /\ UNCHANGED isInitialized

\* Neither platform nor device: the platform is that of all the devices found.
ConcludeInferred(found) ==
    LET platforms == {PlatformOf[d] : d \in found} IN
    /\ UNCHANGED device
    /\ \/ /\ Cardinality(platforms) = 1
          /\ platform' \in platforms
          /\ ResolveFor(platform')
       \/ /\ Cardinality(platforms) # 1
          /\ Reject
          /\ UNCHANGED <<platform, isInitialized>>

\* What initializeCore does once the devices are detected.
Conclude(r, found) ==
    \/ r.device # None /\ ConcludeDevice(r, found)
    \/ r.device = None /\ r.platform # None /\ UNCHANGED <<platform, device>> /\ ResolveFor(platform)
    \/ /\ r.device = None /\ r.platform = None /\ r.skipInferPlatform
       /\ UNCHANGED <<platform, device>>
       /\ ResolveFor(platform)
    \/ r.device = None /\ r.platform = None /\ ~r.skipInferPlatform /\ ConcludeInferred(found)

-----------------------------------------------------------------------------
\* startLookingForDevices with _platform set, or detectCurrentlyAttachedDevices itself.
AwaitDetection(r) ==
    /\ core' = [req |-> r, at |-> "look"]
    /\ UNCHANGED <<device, isInitialized, promise, pc, failed, granted, intervalVars>>

\* startLookingForDevices without a platform: the first call starts the interval and
\* waits for its first execution, a later one goes on with what is in _devices.
AwaitInterval(r, found) ==
    \/ /\ interval = None
       /\ interval' = r.emulator
       /\ first' = TRUE
       /\ core' = [req |-> r, at |-> "firstTick"]
       /\ UNCHANGED <<serviceVars, promise, pc, failed, granted, tick>>
    \/ /\ interval # None
       /\ Conclude(r, found)
       /\ UNCHANGED intervalVars

\* The branches of initializeCore up to their first await.
BeginLook(r, found) ==
    \/ r.platform # None /\ platform' = r.platform /\ AwaitDetection(r)
    \/ /\ r.platform = None
       /\ IF platform # None \/ (r.device = None /\ r.skipInferPlatform /\ r.skipInterval)
          THEN UNCHANGED platform /\ AwaitDetection(r)
          ELSE AwaitInterval(r, found)

\* _startEmulatorIfNecessary
NeedsEmulator(r, found) ==
    \/ r.device = None /\ found = {}
    \/ r.device # None /\ r.device \notin found
    \/ r.emulator /\ found # {} /\ found \cap Emulators = {}

-----------------------------------------------------------------------------
\* initialize joins the pending promise, or returns the resolved one ...
JoinInitialize(c) ==
    /\ pc[c] \in {"idle", "failed"}
    /\ calls < MaxCalls
    /\ calls' = calls + 1
    /\ promise # "none"
    /\ pc' = [pc EXCEPT ![c] = IF promise = "pending" THEN "waiting" ELSE "ok"]
    /\ UNCHANGED <<attached, changes, registry, serviceVars, promise, core, failed, granted,
                   intervalVars, exec>>

\* startEmulatorIfNecessary looks for devices first, unless it refuses its options.
MayStartEmulator(r) ==
    ~r.skipEmulatorStart /\ r.platform # None /\ ~(r.device # None /\ r.emulator)

\* ... or starts initializeCore, which sets _platform when it may start an emulator.
StartInitialize(c, r) ==
    /\ pc[c] \in {"idle", "failed"}
    /\ calls < MaxCalls
    /\ calls' = calls + 1
    /\ promise = "none"
    /\ pc' = [pc EXCEPT ![c] = "waiting"]
    /\ promise' = "pending"
    /\ core' = [req |-> r, at |-> IF MayStartEmulator(r) THEN "emulatorLook" ELSE "begin"]
    /\ platform' = IF MayStartEmulator(r) THEN r.platform ELSE platform
    /\ UNCHANGED <<attached, changes, registry, device, isInitialized, failed, granted, intervalVars, exec>>

\* startEmulatorIfNecessary has nothing to do, or refuses its options.
Begin ==
    /\ core # None
    /\ core.at = "begin"
    /\ LET r == core.req
           refused == ~r.skipEmulatorStart /\ r.device # None /\ r.emulator
       IN \/ refused /\ Reject /\ UNCHANGED <<serviceVars, intervalVars>>
          \/ ~refused /\ BeginLook(r, registry)
    /\ UNCHANGED <<attached, changes, registry, calls, exec>>

\* Its detection ends: start an emulator, go on, or give up on iOS elsewhere than on macOS.
EmulatorLook ==
    /\ core # None
    /\ core.at = "emulatorLook"
    /\ LET r == core.req
           hopeless == r.device = None /\ registry' = {} /\ ~IsDarwin /\ r.platform = "ios"
       IN /\ registry' \in Detections(r.platform, r.emulator)
          /\ \/ hopeless /\ Reject
             \/ /\ ~hopeless
                /\ core' = [core EXCEPT !.at = IF NeedsEmulator(r, registry')
                                               THEN "emulatorStart" ELSE "look"]
                /\ UNCHANGED <<promise, pc, failed, granted>>
    /\ UNCHANGED <<attached, changes, serviceVars, calls, intervalVars, exec>>

\* startEmulatorCore: the emulator service fails ...
EmulatorFailed ==
    /\ core # None
    /\ core.at = "emulatorStart"
    /\ Reject
    /\ UNCHANGED <<attached, changes, registry, serviceVars, calls, intervalVars, exec>>

\* ... or starts an emulator of the platform, ...
EmulatorStarted ==
    /\ core # None
    /\ core.at = "emulatorStart"
    /\ \E e \in Emulators :
          /\ PlatformOf[e] = core.req.platform
          /\ attached' = attached \cup {e}
    /\ core' = [core EXCEPT !.at = "emulatorFind"]
    /\ UNCHANGED <<changes, registry, serviceVars, promise, pc, failed, granted, calls, intervalVars, exec>>

\* ... which its discovery then looks for; its failure is a failure of initialize.
EmulatorFind ==
    /\ core # None
    /\ core.at = "emulatorFind"
    /\ LET p == core.req.platform
           looked == {d \in Devices : PlatformOf[d] = p /\ (p = "ios" => IsDarwin /\ d \in Emulators)}
       IN
       \/ /\ registry' = (registry \ looked) \cup (attached \cap looked)
          /\ core' = [core EXCEPT !.at = "look"]
          /\ UNCHANGED <<promise, pc, failed, granted>>
       \/ Reject /\ UNCHANGED registry
    /\ UNCHANGED <<attached, changes, serviceVars, calls, intervalVars, exec>>

\* The awaited detection ends, and initializeCore with it.
Look ==
    /\ core # None
    /\ core.at = "look"
    /\ registry' \in Detections(PlatformFor(core.req), core.req.emulator)
    /\ Conclude(core.req, registry')
    /\ UNCHANGED <<attached, changes, calls, intervalVars, exec>>

-----------------------------------------------------------------------------
\* The timer fires; isDeviceDetectionIntervalInProgress keeps executions apart.  The
\* platform to look for is read now.
TickStart ==
    /\ interval # None
    /\ tick.state = "none"
    /\ tick' = [state |-> "detecting", platform |-> platform]
    /\ UNCHANGED <<attached, changes, registry, serviceVars, callVars, calls, interval, first, exec>>

TickDetect ==
    /\ tick.state = "detecting"
    /\ registry' \in Detections(tick.platform, interval)
    /\ tick' = [tick EXCEPT !.state = "updating"]
    /\ UNCHANGED <<attached, changes, serviceVars, callVars, calls, interval, first, exec>>

\* Mutant of TickEnd: only isFirstExecution is cleared.
TickEndUnresolved ==
    /\ tick.state = "updating"
    /\ tick' = [state |-> "none", platform |-> None]
    /\ first' = FALSE
    /\ UNCHANGED <<attached, changes, registry, serviceVars, callVars, calls, interval, exec>>

\* After emulator images and applications are checked, the first execution resolves
\* the promise initializeCore waits for.
TickEnd ==
    /\ tick.state = "updating"
    /\ tick' = [state |-> "none", platform |-> None]
    /\ first' = FALSE
    /\ IF first /\ core # None
       THEN Conclude(core.req, registry) ELSE UNCHANGED <<serviceVars, callVars>>
    /\ UNCHANGED <<attached, changes, registry, calls, interval, exec>>

-----------------------------------------------------------------------------
\* filterDevicesByPlatform
FilteredDevices ==
    {d \in registry : /\ EmulatorFlag => d \in Emulators
                      /\ platform # None => PlatformOf[d] = platform}

\* hasDevices: whether --device has chosen one plays no part.
HasDevices == IF platform = None THEN registry # {} ELSE FilteredDevices # {}

OnlyiOSSimulatorRunning ==
    platform = "ios" /\ registry \cap Emulators # {} /\ registry \subseteq Emulators

\* execute narrows canExecute to iOS simulators.
OnSimulatorsOnly ==
    HasDevices /\ IsDarwin /\ platform = "ios" /\ EmulatorFlag /\ ~OnlyiOSSimulatorRunning

CanExecute(d) == OnSimulatorsOnly => PlatformOf[d] = "ios" /\ d \in Emulators

\* executeCore goes by _device, be it detached, or else by the devices of the options.
Targets == {d \in IF device # None THEN {device} ELSE FilteredDevices : CanExecute(d)}

\* What the options chose of the devices that are there.
Wanted == {d \in FilteredDevices : device # None => d = device}

\* execute runs its action on the devices of allowed, those of which canExecute holds.
\* With no device it still runs it on _device, or on none, ...
ExecuteStart(allowed, allowNoDevices) ==
    /\ isInitialized
    /\ exec.state # "running"
    /\ HasDevices \/ (~allowNoDevices /\ (IsDarwin \/ platform # "ios"))
    /\ exec' = [NoExec EXCEPT !.targets = Targets \cap allowed, !.todo = Targets \cap allowed,
                              !.wanted = Wanted \cap allowed, !.state = "running"]
    /\ UNCHANGED <<attached, changes, registry, serviceVars, callVars, calls, intervalVars>>

\* ... unless its caller allows no devices, when it only says so, or the platform is iOS
\* elsewhere than on macOS, when it fails.
ExecuteWithout(allowed, allowNoDevices) ==
    /\ isInitialized
    /\ exec.state # "running"
    /\ ~HasDevices
    /\ \/ allowNoDevices /\ exec' = [NoExec EXCEPT !.wanted = Wanted \cap allowed, !.state = "skipped"]
       \/ /\ ~allowNoDevices /\ ~IsDarwin /\ platform = "ios"
          /\ exec' = [NoExec EXCEPT !.wanted = Wanted \cap allowed, !.state = "refused"]
    /\ UNCHANGED <<attached, changes, registry, serviceVars, callVars, calls, intervalVars>>

\* Mutant of ExecuteOn: the first error ends the loop.
ExecuteOnOrStop(d) ==
    /\ exec.state = "running"
    /\ d \in exec.todo
    /\ \/ exec' = [exec EXCEPT !.todo = @ \ {d}, !.done = @ \cup {d}]
       \/ exec' = [exec EXCEPT !.todo = {}, !.errors = @ \cup {d}]
    /\ UNCHANGED <<attached, changes, registry, serviceVars, callVars, calls, intervalVars>>

\* The action ends on one device: its error is kept and the next device has its turn;
\* devices are taken in the order of their platforms.
ExecuteOn(d) ==
    /\ exec.state = "running"
    /\ d \in exec.todo
    /\ PlatformOf[d] = "ios" => \A e \in exec.todo : PlatformOf[e] = "ios"
    /\ \/ exec' = [exec EXCEPT !.todo = @ \ {d}, !.done = @ \cup {d}]
       \/ exec' = [exec EXCEPT !.todo = @ \ {d}, !.errors = @ \cup {d}]
    /\ UNCHANGED <<attached, changes, registry, serviceVars, callVars, calls, intervalVars>>

\* The results, or one error made of all of them.
ExecuteEnd ==
    /\ exec.state = "running"
    /\ exec.todo = {}
    /\ exec' = [exec EXCEPT !.state = IF exec.errors = {} THEN "succeeded" ELSE "threw"]
    /\ UNCHANGED <<attached, changes, registry, serviceVars, callVars, calls, intervalVars>>

\* A device is attached or detached.
DevicesChange ==
    /\ changes < MaxChanges
    /\ changes' = changes + 1
    /\ \E d \in Devices :
          attached' = IF d \in attached THEN attached \ {d} ELSE attached \cup {d}
    /\ UNCHANGED <<registry, serviceVars, callVars, calls, intervalVars, exec>>

Next ==
    \/ DevicesChange
    \/ \E c \in Callers : JoinInitialize(c) \/ \E r \in Requests : StartInitialize(c, r)
    \/ Begin \/ EmulatorLook \/ EmulatorFailed \/ EmulatorStarted \/ EmulatorFind
    \/ Look
    \/ TickStart \/ TickDetect \/ TickEnd
    \/ \E allowed \in SUBSET Devices, allowNoDevices \in BOOLEAN :
          ExecuteStart(allowed, allowNoDevices) \/ ExecuteWithout(allowed, allowNoDevices)
    \/ \E d \in Devices : ExecuteOn(d)
    \/ ExecuteEnd

Spec == Init /\ [][Next]_vars

\* The timer fires again and again, every awaited command ends, and so does what
\* initializeCore awaits.  Nobody has to call anything.
Fairness ==
    /\ WF_vars(TickStart) /\ WF_vars(TickDetect) /\ WF_vars(TickEnd)
    /\ WF_vars(Begin) /\ WF_vars(EmulatorLook) /\ WF_vars(Look)
    /\ WF_vars(EmulatorStarted \/ EmulatorFailed) /\ WF_vars(EmulatorFind)

FairSpec == Spec /\ Fairness

-----------------------------------------------------------------------------
\* Every initialize is answered in the end, whoever shares its promise: the interval
\* is waited for only by the call that started it, whose first execution answers it.
InitializeSettles ==
    \A c \in Callers : pc[c] = "waiting" ~> pc[c] \in {"ok", "failed"}

\* initialize does what a method with a shared promise promises: one initializeCore
\* runs at a time, all who wait for it are told the same, a failure lets the next call
\* start afresh and a success answers every later one.
Shared == INSTANCE SharedPromise WITH
    Bodies <- {"core"}, KeepsResult <- TRUE, phase <- promise,
    bodies <- IF core = None THEN {} ELSE {"core"},
    waiting <- {c \in Callers : pc[c] = "waiting"},
    told <- [c \in Callers |-> IF pc[c] \in {"ok", "failed"} THEN pc[c] ELSE "none"]

\* devices-service.ts:534-536 and 545: initialize implements SharedPromise.
InitializeIsShared == Shared!SharedSpec

\* The device and the platform of the service are those that the successful call of
\* initialize asked for, and they agree.  The comment of initialize ("we want to allow
\* calling `initlialize` again with other arguments", devices-service.ts:545) says so
\* of a call after a failed one, too ...
ChosenAsAsked ==
    isInitialized =>
        /\ device = granted.device
        /\ granted.platform # None => platform = granted.platform
        /\ device # None => platform = PlatformOf[device]

\* ... and the code keeps it to the first failure.
FirstChosenAsAsked == ~failed => ChosenAsAsked

\* An execute that has ended, with results, an error, or the word that there are no devices
\* (devices-service.ts:453-457), has had the turn of each device that was there and that the
\* options and canExecute choose, whichever of them fail; it ran on no other while there was
\* one (with none it may run on a _device that is gone); and it tells an error if and only if
\* one happened.
ExecuteCoversTargets ==
    exec.state \in {"succeeded", "threw", "skipped", "refused"} =>
        /\ exec.wanted \subseteq exec.done \cup exec.errors
        /\ exec.wanted # {} => exec.done \cup exec.errors = exec.wanted
        /\ exec.done \cap exec.errors = {}
        /\ exec.state = "threw" <=> exec.errors # {}
=============================================================================
