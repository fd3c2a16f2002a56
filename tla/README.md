# A formal model of mobile-cli-lib

`mobile-cli-lib` is the library under the Telerik command line tools: it finds
phones, tablets, emulators and simulators, runs actions on them, synchronises
files with them while they are edited, and supplies the plumbing of a command
line program (commands, hooks, settings, analytics, HTTP). Everything runs on
one event loop, so nothing is preempted, but almost everything awaits: adb
processes, device callbacks, timers, files. What is hard to get right here is
what happens between two awaits, and that is what these modules model.

Contents: [inventory](#inventory), [modules](#modules), [runs](#runs),
[fairness](#fairness), [proofs](#proofs), [findings](#findings),
[abstractions](#abstractions), [not modelled](#not-modelled), [plan](#plan).

## Inventory

The paths are relative to the repository.

| Component | State it keeps | Operations | What makes it correct |
|---|---|---|---|
| Device discovery, `mobile/mobile-core/device-discovery.ts` | `devices`, a dictionary by identifier | `addDevice`, `removeDevice`, events `deviceFound` and `deviceLost` | listeners that follow the events know exactly the devices in the dictionary |
| Android discovery, `android-device-discovery.ts` | `_devices`, `isStarted` | `startLookingForDevices`: start the adb server, list, compare, create, `init` | the list, the dictionary and adb agree; no entry is left half created; a detached device is told lost |
| iOS and emulator discoveries, `ios-device-discovery.ts`, `ios-simulator-discovery.ts`, `android-emulator-discovery.ts` | `cachedSimulators`, `availableSimulators`, known images; callbacks of ios-device-lib | the same, and the emulator images found and lost | found and lost alternate; an image that is deleted is told lost |
| Devices service, `devices-service.ts` | `_devices`, `_platform`, `_device`, `_isInitialized`, `_deviceInitializePromise`, the interval and its in-progress flag | `initialize` (9 branches), `startDeviceDetectionInterval`, `execute`, `startEmulatorIfNecessary` | callers that share an initialization are all answered; the choice is the one asked for and stands; `execute` covers its devices whichever fail |
| Application managers, `application-manager-base.ts` and one per platform | the last lists of applications, debuggable applications and their views; one shared promise | `checkForApplicationUpdates`, `isApplicationInstalled`, install, uninstall, start, stop | events add up to the lists; lists are applied in the order they were read |
| Live sync, `services/livesync-service-base.ts`, `services/livesync/sync-batch.ts` | `fileHashes`, a batch for each platform, their timers | the handler of a watcher event, `batchSync`, `syncFiles`, `syncRemovedFile` | no change is lost: what is not on the device is on its way there |
| Dispatcher, `dispatchers.ts`, `queue.ts` | the queue of actions | `run`, `dispatch` | actions run one at a time, in order |
| Android process service, `android-process-service.ts` | the last forwarded port of each device | `mapAbstractToTcpPort`, the processes and sockets of applications, removal at exit | a port leads to the application it was given for |
| Device logs, `logcat-helper.ts` and the filters, `device-log-provider*.ts` | one entry per device with its process; the process id whose lines pass | `start`, `stop`, `dump` | no logcat process runs unnoticed, whatever starts and stops overlap |
| iOS device operations, `ios-device-operations.ts`, `ios-device.ts` | the shared `deviceLib`, `shouldDispose`, the listener of each device | look for devices, install, files, sockets, log, `dispose` | a device that was lost does not listen any more |
| Emulators, `android-virtual-device-service.ts`, `android-emulator-services.ts`, `genymotion/`, `ios/simulator/` | identifiers of running images | list, start, identify, report images | a start that is answered is truthful, and starts one process |
| Device file systems, `android-device-file-system.ts`, `android-device-hash-service.ts`, and those of iOS | the file of hashes on the device, its local copy | transfer files and directories, delete files, update hashes | what a transfer answers has arrived; the copy is the file |
| User settings, `user-settings-service.ts`, `lockfile.ts` | the settings file, its lock file, a cached copy | get, save, remove | mutual exclusion of processes; a process that saves does not lose what it saved before; every call is answered and leaves no lock |
| Analytics, `analytics-service-base.ts` | two statuses, one monitor per key | `checkConsent`, `track`, `trackException`, `setStatus` | nothing is sent against the user's wish; every session that is started is stopped |
| Commands, hooks, injector, `commands-service.ts`, `hooks-service.ts`, `dispatchers.ts`, `yok.ts` | the stack of commands, hierarchical names | find the command a line means, check its arguments, execute it between its hooks | the command that was typed runs with the arguments that follow; hooks surround it, the inner names first |
| HTTP client and proxy, `http-client.ts`, `proxy-service.ts`, `commands/proxy/` | the cached proxy | `httpRequest`, `proxy set`, `proxy clear` | one answer for each request, the first there is, or its timer runs; only a good answer is piped |
| npm, `npm-service.ts` | the registry's address, the proxy; package.json and the references file of a project | `install`, `uninstall` | the references file names the definitions that are there |
| Plugins, `services/plugins/` | the pages of a source, the next page to print | search in three sources, print page by page or all | pages follow each other |
| TypeScript, `typescript-service.ts` | the compiler found last, the process that watches | `transpile` | what is run is there, and was new enough when it was accepted |
| Project files, `project-files-manager.ts`, `project-files-provider*.ts`, `path-filtering.ts` | the files on the disk, the ignore rules for files and directories | prepare the files of a platform and configuration, pair them with device paths | each file ends as the variant for the target, killed at any point but in the middle of a rewriting |
| Child processes, `child-process.ts` | none | `exec`, `spawnFromEvent` | (an operator for the others) |
| Cache decorator, `decorators.ts` | one result per method, one flag per instance | a decorated call | a call does not get another instance's result |

How they interact:

```
 commands ──> DevicesService.initialize ──> startLookingForDevices of each discovery
                    │        │                       ▲            │ addDevice/removeDevice
                    │        └─ interval (200 ms) ───┘            ▼ deviceFound/deviceLost
                    │                │            DevicesService._devices (emit is synchronous)
                    │                └──> applicationManager.checkForApplicationUpdates ──> events
                    └──> execute(action, canExecute) <── livesync syncCore <── dispatcher <── gaze
```

The interval and the commands share the discoveries and the application
managers without a lock, so most of the hazards are overlaps: two checks of one
discovery, two callers of one promise, a failed call whose state a later one
finds, an answer applied after a newer one. `PROJECT.json` lists them at their
lines.

## Modules

| Module | Models | State and actions |
|---|---|---|
| `DeviceDiscovery` | `DeviceDiscovery`, and `DevicesService.onDeviceFound/onDeviceLost` | `devices`, `registry` (`_devices` of the service). `AddDevice` and `RemoveDevices` change both: `emit` calls the listeners before it returns. |
| `AndroidDeviceDiscovery` | `AndroidDeviceDiscovery`, extends the above | `tracked` is its `_devices`; `pc` says which await each caller of `startLookingForDevices` is at; `inits` are the `device.init()` calls that have not settled, each with the check (`run`) that started it. One action for each stretch of code between two awaits. |
| `DevicesService` | `DevicesService` | The fields of the service under their names. `core` is the `initializeCore` in flight, `pc` what each caller of `initialize` was told; `tick` is the execution of the interval, `exec` the `execute` in flight. |
| `ApplicationManager` | `ApplicationManagerBase` with the Android answers | `checks` in flight; each of the three questions is a step where the device reads its state and a step where the answer is applied and its events raised. A question fails, or its list is cut short and nobody is told (`misled`). `heard` is a listener that adds up the events. |
| `LiveSync` | the watch of `LiveSyncServiceBase`, `SyncBatch`, `FutureDispatcher`, `Queue` | `actions` is the queue and `now` the action that runs; `batch`, `timer`, `dones` the batches and the two timers of 250 ms in a row; `disk` and `device` what is synchronised. |
| `UserSettings` | `UserSettingsServiceBase` and `LockFile` | `file` is the settings file (settings, missing, the text `null`, or truncated), `lock` the call that created the lock file, `data` what each process keeps, `pc` and `depth` where each call is and how many `executeActionWithLock` it has open. Processes run in parallel, the calls of one of them as its event loop lets them (`ThreadFree`). A write truncates and then fills. |
| `SharedPromise` | no code of its own: what `initialize` and `checkForApplicationUpdates` promise to callers that share one execution | `phase` of the promise, `bodies` in flight, who is `waiting`, what each was `told` |
| `AndroidLogs` | `AndroidApplicationManager` start, stop and restart, `LogcatHelper`, `DeviceLogProvider` | `logEntry` is the entry of the map; `logcats` the processes that run; `logCalls` the calls, one action for each stretch between two awaits. Applications die and logcat ends on their own. |
| `PortForwarding` | `AndroidProcessService`, the exit listener, `Net.getFreePort` | `forwards` is what adb keeps, `remembered` the port of `_forwardedLocalPorts`, `given` what `getFreePort` answered, `unforwarded` the calls whose `adb forward` failed unnoticed; applications start and die. |
| `DeviceFiles` | the file systems of Android, iOS and simulators, `AndroidDeviceHashService`, `@cache`, `executeActionByChunks` | versions of the files in the project and on each device, the hash file and its copy. Reading a file and its arrival are two steps, and so are the writing of the copy, its reading by adb and its arrival; `lost` and `pushFailed` are the pushes that failed unnoticed |
| `IOSDevices` | `IOSDeviceOperations`, `IOSDevice`, `IOSDeviceDiscovery`, the application managers and logs of iOS | one object for each time a phone is found; calls keep theirs while the phone goes and comes back |
| `Emulators` | `AndroidVirtualDeviceService`, `AndroidGenymotionService`, `IosEmulatorServices`, `AndroidEmulatorServices`, the two emulator discoveries, `DevicesService.startEmulator` | what runs under which identifier (`runs`), what the service believes (`imageOf`), the listings and starts in flight |
| `Commands` | `CommandDispatcher`, `CommandsService`, `HooksService`, the hierarchical commands of `Yok`, `Errors.beginCommand` | `frames`, one for each `executeCommandUnchecked` in flight, beside the service's own stack `commands`; `ran`, `opened` and `closed` are histories: the commands that ran, and the hook names of those that began and that ended |
| `Analytics` | `AnalyticsServiceBase`, the listener of uncaught exceptions, the exit listener | `todo[c]` is what each asynchronous caller still does, a segment for each stretch between awaits; `monitors` and `current` the sessions and the map of them; `sent` what was handed to a monitor, with what the user wanted; the version of node is a feature of its own |
| `HttpClient` | `HttpClient`, `ProxyService`, `ProxySetCommand`, `ProxyClearCommand`, two questions of `Prompter` | `request[r]`: which events are still to come and what the promise was answered; the errors of the streams that decompress and pipe are events without a listener |
| `ChildProcesses` | `ChildProcess.exec` and `spawnFromEvent` | operators: what each end of a process is answered with |
| `Npm` | `NpmService.install`, `uninstall` and the references file | `saved` is package.json, `present` node_modules, `npmCall[c]` the npm process a call awaits |
| `Plugins` | the plugin sources and `PrintPluginsService` | `plugins`, `loadedPages`, `nextPage` as in the code; `shown` is what was printed |
| `TypeScript` | `TypeScriptService.transpile` | `typeScriptModuleFilePath` and `watchProcess` as in the code; `has` says which projects have a compiler at the moment, old or new, and `found` which were accepted |
| `ProjectFiles` | `ProjectFilesManager`, `ProjectFilesProviderBase`, the ignore rules, device paths | `disk` maps each file to what is in it; `left` and `doing` are the loop of a preparation, which can be killed at each step, also between the truncation of a file and its new text (`cut`) |
| `...Proofs` | theorems: of `AndroidDeviceDiscovery`, `UserSettings`, `DevicesService`, `ApplicationManager`, `LiveSync` and `Commands` in a module each, of the device tools in `DeviceToolsProofs` and of the other components of the command line in `CommandLineProofs` | |
| `MC...` | small instances for TLC | |

The discovery and the service are composed at `_devices`: `DeviceDiscovery`
gives the registry to the discovery's module, and `DevicesService` takes a
detection as one step that makes the registry agree with the devices attached,
or leaves it when the detection fails (the code only traces its error).
`Npm` and `TypeScript` use the answers of `ChildProcesses`.

Two modules put independent components beside each other. `MCDeviceTools` has
`Emulators`, `AndroidLogs`, `PortForwarding`, `DeviceFiles` and `IOSDevices`;
`MCCommandLine` has `Commands`, `Analytics`, `HttpClient`, `Npm`, `Plugins`,
`TypeScript` and `ProjectFiles`. In the code these share no state, so a
product of their interleavings would show nothing that each alone does not: the
variable `focus` names the one that a behaviour is about and the others stay as
they began. The two uses of `Emulators` (the discovery that reports images and a
caller that starts one) are separate foci as well; they share only `imageOf`,
which the answers of both fill alike.

## Runs

| Run | Instance | What it shows |
|---|---|---|
| `discovery_overlap` | two devices, two statuses, the interval and one more caller, two checks with inits in flight, two changes of adb; inits may reject | the two dictionaries agree (`Consistent`); an entry is reported, being initialised, or failed (`EntryAccountedFor`); a reported device the discovery no longer knows comes from an init that ended after its entry was dropped, and from nothing else (`GhostOnlyByLateInit`) |
| `discovery_single` | the interval alone, inits that resolve, three changes | the reported devices are the initialised entries (`ReportedIsTracked`), and a device that stays attached ends up reported with its status (`RegistryFollowsAdb`) |
| `discovery_ghost` | one device, two callers | violation: a detached device that stays in the list for good |
| `devices_initialize` | an Android device, an emulator, an iPhone; two callers, seven kinds of options, three calls, one change | up to the first failure the choice is the one asked for (`FirstChosenAsAsked`), an `execute` covers its targets, and with nothing to run on it says so or returns, as it was told to (`ExecuteCoversTargets`), one body runs for all who wait and they are told alike (`InitializeIsShared`, a refinement of `SharedPromise`), every call is answered (`InitializeSettles`) |
| `devices_retry` | the same | violation: after a failed call, a successful one can keep the device of the failed one |
| `application_updates` | one application with one view of two contents, the interval and one asker, three changes; any question may fail, or answer a list that is cut short | events add up to the lists (`SubscribersAgree`), an asker's own check gives an answer that was true meanwhile, except for a no that rests on a list cut short (`FreshAnswers`), one check runs for all who wait (`CheckIsShared`, a refinement of `SharedPromise`), events catch up with the device when no more lists are cut short (`EventsCatchUp`) |
| `livesync_watch` | two platforms, two files (one excluded from the second platform), two contents, three edits, one failure | recorded hashes follow the disk (`HashesFollowDisk`); a device without the newest content is waiting for it, or the user was told, or the file went there and back (`OutOfDateIsPending`); a batch is never forgotten (`BatchHasAFuture`) and is sent (`BatchedIsSent`) |
| `settings_shared` | two processes with a call each, two settings of one value, one kill | calls never work on the file at once until one unlinks the lock file of another (`Exclusion`); the process that wrote last finds all it saved (`LastWriterPrevails`); no ended call leaves its lock file (`LockIsReleased`); the file is deleted only after a kill or a seizure (`DeletedOnlyAfterFailure`); every call is answered (`CallsEnd`) |
| `settings_seized` | the same | violation: a call that gave up waiting unlinks the lock file of the one that has it |
| `device_tools` | for each focus: two AVDs, a Genymotion machine and a simulator with one start and three changes; two applications with three calls about their logs; two forwardings of two ports; two calls on two files and a folder in chunks of two, with two versions and one reinstallation (of transfers, the first is of everything, the second of everything or of the file that changes); a phone that is found twice and a simulator with three calls | a start that is answered is truthful (`StartedHasRun`); no logcat process runs unnoticed (`OneLogProcess`); a port leads to the application it was given for, unless adb failed unnoticed (`PortsLeadToTheirApp`); what a transfer answers has arrived, unless its push failed unnoticed or an older one came in later (`AnsweredFilesArrived`); the copy of the hashes is the file on the device, unless a push failed or two calls raced (`CopyIsTheHashFile`); who was lost does not listen (`ListensWhileAttached`) |
| `hashes_shared` | the hash services of one application on two devices | violation: a service without a hash file answers the hashes of another |
| `command_line` | for each focus: every line of up to three of 14 words against commands of each kind with hooks that fail or warn; the analytics of a command with an exception, two keys and an interruption; a request with its proxy; two overlapping npm calls on two packages; the search and the printing of five plugins in pages of two; two transpilations of two projects whose compilers come, go and change; up to three of seven project files for two platforms and two configurations, killed at any step | the commands on the stack are those being executed and after hooks begin in the reverse order of the before hooks (`HooksSurround`), no hooks run twice for a command that is reached through its parent, nor for a line unless a command executes its own family again (`HooksRunOnce`), the command that was typed runs (`RunsAsTyped`), consent is respected (`ConsentRespected`), monitors are stopped (`MonitorsAreStopped`), a request is answered once and truthfully, or its timer runs (`RequestsAreAnswered`), references follow the packages (`ReferencesFollowPackages`), pages follow each other (`ShownInOrder`), what runs was there, and a compiler older than the default one only where one that had been accepted was replaced (`RunsAFitCompiler`), each file ends as the target's and what is lost on the way was cut short by a kill (`FilesAreTheTargets`), what is sent is what the rules and patterns leave, of files and of directories (`SentFollowsTheRules`) |

Bounds and why they are enough. Overlap needs two callers and two checks: a
third check in flight brings no new pair of steps, and `FreeRuns` only limits how
many inits wait at once. Two devices show that one does not disturb the other,
two statuses that a changed status is a new device. Two changes of adb are needed
to detach a device and attach it again, three edits to change a file, change it
back and delete it. Three calls of `initialize` are one that fails, one that
joins and one that tries again. The application manager's state for one
application does not read that of another, and three changes make an application
come, go and come back during one check; two contents of a view tell a changed
view from a new one. Two
processes are needed for a lock and two settings for a write that replaces what
another process saved; one value is enough, because what can go wrong is that a
setting is lost or comes back; one kill leaves a stale lock and a truncated file,
which the next call meets together. `MaxChanges`, `MaxCalls`, `MaxEdits`,
`MaxFailures`, `MaxCrashes`, and of the tools `MaxLaunches`, `MaxLogcats`,
`MaxProcesses`, `MaxVersions`, `MaxReinstalls`, `MaxObjects`, `MaxSimLogs`,
`MaxWords`, `MaxInterrupts`, `MaxFiles` and `MaxPage` are the only bounds on behaviours; they
are conjuncts of the guards of the environment or of a call, or of what a
behaviour of the instance begins with (`MaxFiles`).

In `device_tools` three calls about logs are a start, a stop that overlaps it and
a start that follows; calls are numbered and interchangeable, so they begin in
the order of their numbers (`InTurn`). Of the calls on a phone the last one opens
its log (`OpensLog`), because only that one can meet the object of a phone that
was lost. Two chunks are needed for a transfer of which a part was pushed when
another part failed, and a second transfer of one file for a push that comes in
after a newer one. In `command_line` three words are a name of three levels, or
one of two levels and an argument; one HTTP request is enough, because requests
share only the cached proxy. The files are a common file with a variant for a
platform and one for a configuration (which is not text), the source map of the
variant, a file with two tags, one below a directory that has the name of a platform,
and one that a rule puts back in a directory that the rule before takes out. Of these
a project has at most three, because what becomes of a file depends only on its
variants and on the file with the same name without tags.

Types are proved (see below) and not run again, except those of the command line,
which are also run (`CommandLineTypeOK`).

Deadlock is checked except in the runs of `DevicesService`, of the device tools and
of the command line, where nobody has to call anything, a process ends, and the
system really may stop; in `LiveSync` the action `Quiet`
stands for a watch that has nothing to do.

Each property is also run against a mutated definition, written as an operator
before it ("Mutant of ..."), that makes the mistake the property is there for.

## Fairness

* The interval fires for ever (`setInterval`), so `StartServer`/`SkipServer` of
  the interval, `TickStart` and `IntervalChecks` are weakly fair.
* Every awaited adb command ends; it may fail, told or not, and if it is asked again and again
  it succeeds again and again: strong fairness of the successful answers
  (`ServerStarted`, `GetDevices`, the questions of `ApplicationManager`). The code
  has no timeout of its own for them: a hung adb stops the detection, which is
  listed as a hazard.
* Every `init` settles, either way, and so does what `initializeCore` awaits.
* Timers of 250 ms run out, and `run` takes the next action as soon as the one
  before has settled: weak fairness of the dispatcher and of the timers. A
  transfer may fail or end, so no more than that is assumed of it.
* In `UserSettings` code that runs goes on (weak fairness of `Works`), and the
  event loop serves the retries of a waiting call however often another call of
  the process runs (strong fairness of `AsksForLock`). Which way its bounded
  number of retries ends, a lock or an error, is left open. No process is obliged
  to end or to be killed.

* `device_tools` and `command_line` check safety and assume no fairness.

No fairness is assumed of the environment (devices, edits) or of callers.

## Proofs

`AndroidDeviceDiscoveryProofs` proves, for any sets of identifiers, statuses,
callers and runs:

* `TypeCorrect`: `Spec => []TypeOK`.
* `DictionariesAgree`: `Spec => []Consistent`. Inductive relative to `TypeOK`. The
  second conjunct (one entry per identifier) needs that adb lists a device once
  (`AdbLists`) and that `Kept` entries are listed with their status
  (`KeptIsListed`), so new entries cannot meet an old one of the same identifier.
* `NoEntryForgotten`: `Spec => []EntryAccountedFor`, relative to the two above: a new
  entry has an init, an init that ends reports, one that rejects is recorded, and
  whatever removes a report removes the entry as well.
* `GhostsOnlyByLateInit`: `Spec => []GhostOnlyByLateInit`.
* `NoOverlapNoGhost`: if the interval is the only caller and inits do not reject
  (`OneCheckAtATime`), `Spec => []ReportedIsTracked`. Not inductive as it stands: a
  check could drop an entry whose init is in flight. The strengthening `OwnInits`
  says that inits belong to the check the caller waits for and to entries that
  are there, so no comparison happens while any is in flight.

`StepCases` splits a step into those that leave the lists and the inits alone
(`Elsewhere`), a comparison, the end of an init and its rejection; each invariant
is then shown for the last three. The assumptions are `DeviceAssumption` (the
mark of an absent entry is no device) and `AndroidAssumption` (the interval is a
caller, there is a run, the types of the switches).

`UserSettingsProofs` proves, for any sets of processes, calls, settings and values
and any number of kills, every safety property of `UserSettings`
(`SettingsTypeCorrect`, `ExclusionHolds`, `LastWriterHolds`, `LockReleased`,
`RemovalHolds`, `DeletionHolds`), from one inductive invariant `IInv`
(`SettingsInvariant`):

* `LockInv`, the lock: until a seizure, whoever works on the file or waits for the
  lock it holds is the creator of the lock file (`LockHeld`), from which
  `Exclusion` follows (`Alone`); a call that works in its second
  `executeActionWithLock` lost its lock before (`Depths`), which gives
  `RemovalNeedsSeizure`.
* `WriterInv`, the data: until a seizure, a process has all it saved in `data`
  except the value a save is just replacing (`OwnIsKnown`), and a call that writes
  finds the file as it truncated it (`Filling`). `LastWriterPrevails` alone is not
  inductive: that a later write keeps the earlier values is known only through
  the data.
* `TornIsWritten`: without kills and seizures a truncated file is being written,
  so no load can meet it, and `DeletedOnlyAfterFailure` follows.

The step is proved action by action in `LockStep`, then `WriterStep` and `TornStep`
use what `LockStep` gave. The assumption is `UserSettingsAssumption`: every call
has a process, and the marks (no lock, orphaned lock, no data, no file, the text
`null`, a truncated file) are told apart from settings and from each other.

`DevicesServiceProofs` proves, for any devices, platforms, options and callers, the
types, `FirstChosenAsAsked`, `ExecuteCoversTargets` and that `initialize` implements
`SharedPromise`. The inductive invariant `DevicesIInv` adds to the types: what is
known of the promise and its waiters (`SharingOK`: who waits, waits for a pending
promise, and the body is there exactly then), what is chosen at each place of
`initializeCore` before a failure (`ChoiceOK`), and the accounts of `execute`,
with those of one that had no device to run on (`ExecuteOK`). `FirstChosenAsAsked` is not inductive: that nothing was chosen when
a body begins is known only because no initialize has failed. The refinement is
the last part: each action is a `Wait`, a `Kept`, a `Settle`, or a stutter, under
the mapping of the module's instance of `SharedPromise`.

`ApplicationManagerProofs` proves the same for `checkForApplicationUpdates`
(`ManagerCheckIsShared`), and `SubscribersAgree` and `FreshAnswers`, from
`ManagerIInv`: the lists kept are what a listener has heard (`CachedOK`), a check in
flight is the one of the promise (`ChecksOK`), and what was read since a caller
asked was true since then, except that a list cut short may lack an application
that is there (`FreshOK`, `Supports`). `EventsGiveTheList` is the lemma the events
about views rest on: adding up those of one comparison turns the previous list
into the current one.

`LiveSyncProofs` proves the types and the three safety properties of the watch, for
any files, platforms, contents, edits and failures, from `LiveSyncInv`:

* `DiskInv`, what the hashes know. `HashesFollowDisk` is not inductive: what an event
  records is what it read, so it is needed that what is read or removed is not there
  otherwise on the disk unless a report of it waits (`NowFollowsDisk`), and that behind
  the report of a deletion of a file that is there again another report waits
  (`DeletionsFollowDisk`). Both rest on the order of the queue.
* `DevicesInv`, what the devices have. A hash that is recorded is the one of what the
  devices have, or the file is in the batch, or something newer went ahead
  (`RecordedIsOnTheWay`), and so it is for the files of a batch that were sent and are
  about to be taken out (`SentIsRecorded`); with `DiskInv` this gives
  `OutOfDateIsPending`.
* `BatchHasAFuture`, inductive with the types, which say how the queue, the batches, the
  timers and the place of the action that runs fit together.

`DeviceToolsProofs` proves the types and the safety property of each tool:

* Logs (`OneLogProcess`): inductive together with `OneOpening`, at most one call awaits a
  stream, and its entry has no process yet. Both hold because the entry is made before
  the stream is awaited and because `stop` throws while there is no process, which
  leaves the entry in place.
* iOS devices (`ListensWhileAttached`): the objects that were made are one for each
  time a phone was found, of which one at most is attached (`ObjectsOK`), and a call
  keeps working on one of them (`IosCallsOK`).
* Forwarded ports (`PortsLeadToTheirApp`): `PortsKept` says the same of a call that is
  not answered yet. It was given its port, so the port leads nowhere or was given twice,
  which only two calls that ask `getFreePort` before either forwards can bring about. A
  port that `adb forward` did not map, with nobody told, is answered all the same
  (`unforwarded`).
* Emulators (`StartedHasRun`): an image that the service remembers under an identifier,
  that a listing marks with one, or that a start awaits, ran under it (`MemoryOK`,
  `ListsOK`, `StartsOK`), because whatever adb or a console told was so at the time.
* Transfers (`AnsweredFilesArrived`): what a call has settled is on the device as it was
  when the call began, or newer, because adb reads a file after the call began
  (`FileCallArrived`), and what is there is replaced by something older only where a push
  that had read it before comes in (`overtaken`, in `ArrivedStays`).
* Hash files (`CopyIsTheHashFile`): proved while the getters of one service only were
  called (`OneServiceTouched`). As long as no call writes the copy while another pulls or
  pushes (`raced`), pulls and pushes do not overlap and each brings what it will be
  compared with (`MovesApart`). With two services `@cache` mixes up their paths, and
  `hashes_shared` shows that the property fails; the run of the property has one.

`ToolsAreEachTool` shows that a behaviour of the tools together, which is what TLC
checks, is a behaviour of each, so what is proved of one holds there; from it follows
`ToolsTypeCorrect`, the types of them all.

`CommandLineProofs` has the components of the command line but the commands
themselves; `CommandLineImplements` is the counterpart of `ToolsAreEachTool`, and
`CommandLineTypeCorrect` follows from it and from the types of each.

* npm (`ReferencesFollowPackages`): a call that ends without writing the file must
  have been rejected in `uninstall`, and nobody changes packages without a call under
  way.
* HTTP (`RequestsAreAnswered`): the stage of a request says which of its events are
  still to come and what its pipe holds (`StageOK`), `broken` for one whose stream failed
  unheard and `died` for one that ended the process; a timer that runs belongs to a
  request that is not answered. The proxy needs that a `proxy set` about to save has
  the password its user needs (`SettingOK`).
* TypeScript (`RunsAFitCompiler`): what is remembered was found new enough, was to be
  installed by a call, or is the CLI's, and what runs was there when it started; of
  these only a project's own can have become old since (`FitRun`).
* Plugins (`ShownInOrder`): what was shown is one stretch of the results (`Stretch`), and
  while more can be asked for it ends where the next page begins (`AskedForMore`).
* Analytics (`ConsentRespected`, `MonitorsAreStopped`): what each caller has still to do
  is in an order that only changes at its head (`CallsInOrder`), which is how a segment
  to come remembers what was known when it was written down (the version of node, which
  every session hands over, has a place of its own there); one caller loads the
  statuses (`OneInitializes`); what is known and what is in the file do not exceed what
  the user wants, but for a setting that was turned off, is not saved yet, and is not
  read again (`StatusesFollowWishes`); a session that is not stopped is the one of its
  key unless it was forgotten before it began (`MonitorsAreKept`).
* Project files (`FilesAreTheTargets`): `DiskIsDerived` (what is in a file is from it or
  from a variant of it), `LinksAreKept` (a map or script names itself or what it is to be
  called), `HandIsKept` and `TextIsKept` (how far the file in hand is, and what was read of
  it), `BytesAreKept` (a truncated file is in hand, or there is another copy, or a kill cut
  it: `cut`), `ExcludedRemain`, `NothingIsLost` (what the target has of a file is in it or in
  a variant, at every step) and `PassGoesOn` (every file with a tag is still in the list or
  in hand). The pass may take the files in any order.
* What is sent (`SentFollowsTheRules`): `FileMatched` is the loop over the ignore rules, a
  function of the number of rules seen (`FileMatchedIs`). After the last rule that
  matches nothing changes it any more, so that rule decides, however long the list
  (`LastRuleDecides`) of a path; a file is sent if neither it
  nor its directory is taken out.

`CommandsProofs` has the commands, for any table of commands, any hooks and lines of any
length. It comes in three layers.

* What is open (`CommandsHooksSurround`, `CommandsTypeCorrect`, from `CommandsIInv`): a command executes
  one other at most, so all frames but the innermost are inside their `execute`, and the
  numbers of commands on the stack, opened and closed follow from the number of frames
  and the place of the innermost (`Counted`). `HooksSurround` alone is not inductive:
  which hook name is closed next is known only from the one its frame holds.
* What the loops compute. A loop of the code is a recursive function of the number of
  rounds. That it exists (`LoopExists`) and what every round keeps (`RoundAfterRound`)
  is shown by taking the smallest round that contradicts it. `ValidFit` is the result
  about parameters: when the two loops of `validateCommandArguments` accept a line,
  some assignment sends each argument to a parameter of its own that accepts it, and
  leaves no mandatory one without. Its invariants say that what was assigned is
  injective and fits (`Sound`), and which parameters and arguments are done
  (`TakesMandatory`, `TakesAllowed`). About names, `BuildIs` and `BuiltMeant` say that
  `buildHierarchicalCommand` finds the longest command that the words begin with, or else
  the default one, which is what a line means (`Meant`, written without the loop). Empty
  words before the name of a subcommand count for nothing (`WithoutEmpty`, `FromFirst`),
  because the loop joins words only when there is something to join.
* What runs (`CommandsRunsAsTyped`, `CommandsHooksRunOnce`, from `MeaningIInv`). Neither is inductive: what
  ran says nothing of the frames that are about to run. `MeaningIInv` keeps that an open call
  past its validation was accepted (`Checked`; dynamic commands stay registered), that
  until something runs there are at most the frame of the first word and that of its
  subcommand (`FirstMeant`), that a line that asks for help executes nothing else
  (`HelpAlone`), and how the frames are related (`Families`): two of one family are a
  parent and the subcommand built for it, side by side, or a command that ran executes
  its own family. Of the first kind the parent has the hooks of the full name and the
  subcommand those of the first word alone (`HookName`), so they differ (`OpenedOnce`).

`HooksRunOnce` has an exception that the proof needs and the code has: with several
devices, `device log` executes the line `device` again (`device-log-stream.ts:22`). A
command that executes its own family may run its hooks twice (`CallsItsOwn`). The run of
`command_line` has such a command.

The assumptions are those named in the modules (`DeviceAssumption`, `AndroidAssumption`,
`ServiceAssumption`, `ManagerAssumption`, `UserSettingsAssumption`, `LiveSyncAssumption`,
`AndroidLogsAssumption`, `PortForwardingAssumption`, `EmulatorsAssumption`,
`DeviceFilesAssumption`, `IOSDevicesAssumption`, `CommandsAssumption`,
`AnalyticsAssumption`, `HttpAssumption`, `NpmAssumption`, `TypeScriptAssumption`,
`FilesAssumption`, `DirectoriesAssumption`, `PluginsAssumption`); TLC evaluates them in the runs. They type the
constants and keep marks such as `NoPort` apart from values. `FilesAssumption` also
says that the rules of a list are patterns with a sign, and `DirectoriesAssumption` that
no file is where a directory is. `CommandsAssumption` has what
`yok.ts` and the declarations of the commands fix: lower-case forms are their own, no name is
required twice, the first word of a required name is in lower case and no default, the
parent of a hierarchical command is made by `createHierarchicalCommand` and not
required by itself, default commands are required before other children of their
parent (`yok.ts` throws otherwise), and `help` is a command that executes no other.

Only model-checked:

* Liveness (`RegistryFollowsAdb`, `EventsCatchUp`, `InitializeSettles`, `BatchedIsSent`,
  `CallsEnd`): the proof system does not reach properties under fairness.
* That each violation is reached: a counterexample is an example, found by TLC.

Every safety property of the passing runs is a theorem. Two of them are proved
under a condition that is part of their statement: `ReportedIsTracked` when checks do
not overlap (`OneCheckAtATime`), and `CopyIsTheHashFile` when one hash service was used
(`OneServiceTouched`). The runs of these two meet the conditions.

## Findings

* **A device that is detached may never be reported lost** (`discovery_ghost`).
  `README.md:271` says `deviceLost` is raised when a device is detached. With two
  checks in flight the second can drop the entry of a device whose `init` the
  first still awaits; nothing is told then (`removeDevice` finds nothing), `init`
  ends, the device is reported, and no later check knows it. Two checks overlap
  whenever a command calls `initialize` or starts an emulator while the interval
  runs, and after an `initialize` that failed, because its interval goes on.
* **A failed initialize leaves its device or platform behind** (`devices_retry`).
  `devices-service.ts:545` promises that other arguments can be tried; only the
  promise is cleared.
* **The lock of a live process is taken away after ten seconds**
  (`settings_seized`). `lockfile.ts:14` calls a lock stale after three minutes; but
  `executeActionWithLock` (`user-settings-service.ts:51`) unlinks the lock file in
  `finally`, also when `lock()` gave up and the file is another call's. The
  likeliest way there is a `removeSetting`, which holds the lock for ten seconds
  while it waits for it (line 39), and fails, or saves because somebody who gave
  up took its lock away.

* **A hash service answers for another device** (`hashes_shared`).
  `getShasumsFromDevice` is to return null without a hash file on the device, but
  `@cache` (`decorators.ts:33`) keeps one result for all instances of the class: the
  getters of the second service return the paths of whichever called last, so it
  reads the local copy of the first.

Seen where nothing in the repository promises otherwise, and so no violations
but named in the properties or in the hazards:

* A file that is deleted while it is in a batch stays in it. Its transfer fails
  (`getFsStats` throws), the batch keeps its files, and the loop ends before the
  platforms after it: all of them are stuck until the file is created again.
* A file that changes between its hash and its transfer, and then back, leaves
  the middle version on the device: the last report finds its hash recorded
  (`ahead` in `OutOfDateIsPending`).
* A batch whose transfer failed is tried again only when another file changes.
* An adb command that fails with none of the known messages does not reject
  (`android-debug-bridge.ts:44`, `throwError: false`). What follows is an application
  told uninstalled that is there (`misled`), a port that leads nowhere (`unforwarded`), a
  file that is answered as transferred (`lost`), a hash file that is not there
  (`pushFailed`), a logcat or an application that did not start.
* A push that has read an older version may come in after a newer one (`overtaken`), and
  a call that writes the copy of the hashes while another pulls or pushes may leave
  the two different for good (`raced`).
* The version of node is sent with every session, so also with the answer to the
  question of consent when it is no, and with an exception while the user does not want
  features tracked (`analytics-service-base.ts:300`).
* A compiler that was remembered is run whatever its version is by then
  (`typescript-service.ts:142`).
* A preparation rewrites the only copy of a variant in place
  (`project-files-manager.ts:75`), so a kill there loses it (`cut`), and renames by
  reading and writing text (line 79), which alters what is not UTF-8.
* An error of the stream that decompresses a response or of the one it is piped into
  has no listener (`http-client.ts:118`): the request waits for its timer, if it has one,
  or the process ends. A response whose connection is cut is handed over as if it were whole.
* A rule that puts a file back does not where an earlier one takes out its directory
  (`file-system.ts:342`). A directory with a tag in
  its name is paired under the name without it, and what is below it under its own.
* An empty word after a command with subcommands is skipped (`yok.ts:178`), so
  `cloud "" list` runs `cloud list`.

## Abstractions

* A device is its identifier and status; indexes and display names are other ways
  to write an identifier. Which exception was thrown is not kept.
* In `DevicesService`, what ios-device-lib tells after the first start, and
  simulators, are folded into the detection step; `IOSDevices` and `Emulators` have
  them in full.
* The early return of `initialize` on `_isInitialized` is never taken, because the
  resolved promise stays; the model joins the promise as the code does.
* A rejected shared promise runs its waiters' continuations before any of their
  callers goes on, so its end is one action (`Reject`).
* `StartInitialize` and `Begin` are the two sides of the first await of
  `initialize`.
* In `LiveSync` a platform stands for the devices that `execute` covers; excluded
  and unmapped files are the constant `Takes`; a hash is the content. The
  watcher reports each change once and in order, and a rename as a deletion and
  a creation. The full sync before the watch is the initial state.
* In `UserSettings` a lock is stale only when its process is gone: everything a live
  call does with the lock takes less than three minutes. The lock file is created
  and unlinked in one step (the package `lockfile` is external). The chown of new
  directories under `sudo`, which is awaited, is left out, and so are loads of a
  file somebody edits by hand. What one write leaves over another (only after a
  seizure) is either whole or cannot be parsed.
* A transfer takes the files of a batch one by one; the code sends them in chunks,
  so a file of a failed chunk may still arrive after the failure.

* In `AndroidLogs` and `PortForwarding` what adb prints is what the device has at
  that moment, or lines of it; it is cut short at the end of a line. The regular
  expressions over its output are data. A process id is
  never used again while the model lasts.
* In `DeviceFiles` a version stands for a content and its hash. adb reads a file at one
  moment, so none arrives in part; the file of hashes is written and read whole.
* In `Commands` words are model values with their lower case; a hook is a script or a
  module of the process, valid or not, and what it prints is left out. `Fits` and
  `Meant` are written without the loops of the code, as the reference for
  what the algorithms accept and choose.
* In `Analytics` the settings service is a store that answers or fails; how it does is in
  `UserSettings`. `canDoRequest` always answers.
* In `HttpClient` bodies and headers are left out; of the encodings it matters whether
  there is one (`coded`). The branch of
  `httpRequest` for a redirect (`http-client.ts:170`) is never reached: a status of
  3xx has rejected the promise before.
* In `Npm` a process that fails may or may not have done its work; package.json and
  node_modules change in one step. In `TypeScript` a compiler is its place.
* In `ProjectFiles` the parts of a name between its dots are the data; the parts of a
  directory's path are treated alike, because the expression runs over the whole
  path. The patterns of an ignore rule are the set of paths they match. One level of
  directories stands for any depth. The optional filter of `getProjectFiles`
  (`project-files-manager.ts:14`) is left out: no caller gives one.
* In `Plugins` what is on npm does not change during a search.

## Not modelled

* Services that only run a process, hand a call on or format text have no state
  that interleaves: help, messages, completion, the micro templates, the logger,
  validators of names, host and OS information, the tables of adb's error messages.
* The AppBuilder adapter is an interface over the services above.
* The list of exit listeners (`process-service.ts:23`) drops a listener whose text and
  context are there already; `PortForwarding` and `Analytics` have one listener each.
* The cancellation service watches a file for its deletion; there is one caller.
* `Yok` beyond hierarchical commands: modules are required lazily, but in one
  stretch, without an await.
* WP8 only throws. The ini files of AVDs and the tables of VirtualBox are data.

## Plan

Done, in this order: the discoveries and their proofs; `DevicesService` and
`ApplicationManager` with their proofs and the refinement of `SharedPromise`;
`LiveSync`; `UserSettings` and its proofs; the device tools with the proof about
logs; the command line, analytics and what the commands use, with the proof about
npm; the proofs about `LiveSync`, the other device tools and the rest of the command
line; the loops over arguments, names and ignore rules, with what runs; adb commands that
fail unnoticed, streams nobody listens to, the moments in which a file is truncated,
compilers that are replaced, and excluded directories, each with the proofs they touch.

Left: the choice of devices in `getCanExecuteAction` of live sync and the installation in
`getSyncAction`, composed with `DeviceFiles`; the discovery of running simulators with
its cache; the serial executor as an abstract specification that the dispatcher
implements.
