----------------------- MODULE AndroidDeviceDiscovery -----------------------
(***************************************************************************)
(* AndroidDeviceDiscovery: every call of startLookingForDevices asks adb   *)
(* for the attached devices, compares the answer with the list _devices it *)
(* keeps, drops what is gone and creates what is new.  A new device is     *)
(* pushed to _devices at once and reported only after AndroidDevice.init   *)
(* has talked to it, so between the two anything can happen: the calls of  *)
(* startLookingForDevices come from the 200 ms interval of DevicesService  *)
(* and from its initialize and startEmulatorCore, and nothing keeps two of *)
(* them apart.                                                             *)
(*                                                                         *)
(* Each await is a place where other steps interleave; the code between    *)
(* two awaits is one action.                                               *)
(***************************************************************************)
EXTENDS DeviceDiscovery

CONSTANTS
    Callers,        \* the callers of startLookingForDevices
    Interval,       \* the one that calls it again and again
    Runs,           \* names of the checks whose inits may be in flight (bound)
    InitMayReject,  \* whether AndroidDevice.init may reject
    MaxChanges      \* how often the attached devices change (bound)

ASSUME AndroidAssumption ==
    /\ Interval \in Callers
    /\ Runs # {}
    /\ InitMayReject \in BOOLEAN
    /\ MaxChanges \in Nat

VARIABLES
    adb,        \* the devices adb would list now (environment)
    changes,    \* how often adb changed (bound)
    isStarted,  \* "adb start-server" was issued and did not fail
    tracked,    \* AndroidDeviceDiscovery._devices
    pc,         \* where each caller is
    listed,     \* the answer of adb.getDevices a caller holds
    run,        \* the check a caller waits for in Promise.all
    inits,      \* the calls of device.init() that have not settled
    outlived,   \* history: identifiers whose init ended after its entry left _devices
    rejected    \* history: identifiers one of whose inits rejected

vars == <<devices, registry, adb, changes, isStarted, tracked, pc, listed, run,
          inits, outlived, rejected>>

checkVars == <<tracked, inits, outlived, rejected, devices, registry>>

InitCall == [dev : Device, run : Runs]

Locations == {"idle", "starting", "listing", "checking", "initializing"}

\* adb lists a device once, with one status.
AdbLists == {l \in SUBSET Device : \A d, e \in l : d.id = e.id => d = e}

TrackedIds == {d.id : d \in tracked}

TypeOK ==
    /\ DiscoveryTypeOK
    /\ adb \in AdbLists
    /\ changes \in 0 .. MaxChanges
    /\ isStarted \in BOOLEAN
    /\ tracked \in SUBSET Device
    /\ pc \in [Callers -> Locations]
    /\ listed \in [Callers -> AdbLists]
    /\ run \in [Callers -> Runs]
    /\ inits \in SUBSET InitCall
    /\ outlived \in SUBSET Ids
    /\ rejected \in SUBSET Ids

Init ==
    /\ DiscoveryInit
    /\ adb \in AdbLists
    /\ changes = 0
    /\ isStarted = FALSE
    /\ tracked = {}
    /\ pc = [c \in Callers |-> "idle"]
    /\ listed = [c \in Callers |-> {}]
    /\ run = [c \in Callers |-> CHOOSE r \in Runs : TRUE]
    /\ inits = {}
    /\ outlived = {}
    /\ rejected = {}

-----------------------------------------------------------------------------
\* The environment: a device is attached, detached, or changes its status.
DevicesChange ==
    /\ changes < MaxChanges
    /\ adb' \in AdbLists \ {adb}
    /\ changes' = changes + 1
    /\ UNCHANGED <<isStarted, pc, listed, run, checkVars>>

\* A first call issues "adb start-server" and waits for it ...
StartServer(c) ==
    /\ pc[c] = "idle"
    /\ ~isStarted
    /\ isStarted' = TRUE
    /\ pc' = [pc EXCEPT ![c] = "starting"]
    /\ UNCHANGED <<adb, changes, listed, run, checkVars>>

\* ... and a call that finds isStarted set goes on, even while another waits.
SkipServer(c) ==
    /\ pc[c] = "idle"
    /\ isStarted
    /\ pc' = [pc EXCEPT ![c] = "listing"]
    /\ UNCHANGED <<adb, changes, isStarted, listed, run, checkVars>>

ServerStarted(c) ==
    /\ pc[c] = "starting"
    /\ pc' = [pc EXCEPT ![c] = "listing"]
    /\ UNCHANGED <<adb, changes, isStarted, listed, run, checkVars>>

\* The rejection leaves startLookingForDevices; the next call starts the server again.
ServerFailed(c) ==
    /\ pc[c] = "starting"
    /\ isStarted' = FALSE
    /\ pc' = [pc EXCEPT ![c] = "idle"]
    /\ UNCHANGED <<adb, changes, listed, run, checkVars>>

\* adb writes its list; the answer is read later, in CheckCurrentData.
GetDevices(c) ==
    /\ pc[c] = "listing"
    /\ listed' = [listed EXCEPT ![c] = adb]
    /\ pc' = [pc EXCEPT ![c] = "checking"]
    /\ UNCHANGED <<adb, changes, isStarted, run, checkVars>>

GetDevicesFailed(c) ==
    /\ pc[c] = "listing"
    /\ pc' = [pc EXCEPT ![c] = "idle"]
    /\ UNCHANGED <<adb, changes, isStarted, listed, run, checkVars>>

-----------------------------------------------------------------------------
\* Mutant of Gone: the status is not compared.
GoneById(current) == {d.id : d \in {t \in tracked : \A e \in current : e.id # t.id}}

\* The identifiers of the cached entries that are not listed with their status.
Gone(current) == {d.id : d \in tracked \ current}

\* Mutant of Kept: _devices is not pruned.
KeptUnpruned(current) == tracked

\* deleteAndRemoveDevice drops every entry of an identifier.
Kept(current) == {d \in tracked : d.id \notin Gone(current)}

FreeRuns == {r \in Runs : \A i \in inits : i.run # r}

\* checkCurrentData, up to its Promise.all: createAndAddDevice pushes the entry
\* and calls init for each new device before the first of them can settle.
CheckCurrentData(c) ==
    LET current == listed[c]
        new == current \ Kept(current)
    IN /\ pc[c] = "checking"
       /\ FreeRuns # {}
       /\ RemoveDevices(Gone(current))
       /\ tracked' = Kept(current) \cup new
       /\ run' = [run EXCEPT ![c] = CHOOSE r \in FreeRuns : TRUE]
       /\ inits' = inits \cup {[dev |-> d, run |-> run'[c]] : d \in new}
       /\ pc' = [pc EXCEPT ![c] = IF new = {} THEN "idle" ELSE "initializing"]
       /\ listed' = [listed EXCEPT ![c] = {}]
       /\ UNCHANGED <<adb, changes, isStarted, outlived, rejected>>

WaitsFor(c, i) == pc[c] = "initializing" /\ run[c] = i.run

\* Mutant of InitDone: a device is reported only while its check is waiting.
InitDoneIfAwaited(i) ==
    /\ i \in inits
    /\ inits' = inits \ {i}
    /\ IF \E c \in Callers : WaitsFor(c, i)
       THEN AddDevice(i.dev) ELSE UNCHANGED discoveryVars
    /\ pc' = [c \in Callers |-> IF WaitsFor(c, i) THEN "idle" ELSE pc[c]]
    /\ UNCHANGED <<adb, changes, isStarted, tracked, listed, run, rejected, outlived>>

\* device.init() resolves: the device is reported whatever became of its entry,
\* and the check ends with its last init.
InitDone(i) ==
    LET last == \A j \in inits : j.run = i.run => j = i IN
    /\ i \in inits
    /\ inits' = inits \ {i}
    /\ AddDevice(i.dev)
    /\ outlived' = IF i.dev \in tracked THEN outlived ELSE outlived \cup {i.dev.id}
    /\ pc' = [c \in Callers |-> IF WaitsFor(c, i) /\ last THEN "idle" ELSE pc[c]]
    /\ UNCHANGED <<adb, changes, isStarted, tracked, listed, run, rejected>>

\* device.init() rejects: Promise.all rejects at once, and the other inits of the
\* same check go on with nobody waiting for them.  The entry stays in _devices.
InitRejected(i) ==
    /\ InitMayReject
    /\ i \in inits
    /\ inits' = inits \ {i}
    /\ rejected' = rejected \cup {i.dev.id}
    /\ pc' = [c \in Callers |-> IF WaitsFor(c, i) THEN "idle" ELSE pc[c]]
    /\ UNCHANGED <<adb, changes, isStarted, tracked, listed, run, outlived, devices, registry>>

Next ==
    \/ DevicesChange
    \/ \E c \in Callers :
          \/ StartServer(c) \/ SkipServer(c) \/ ServerStarted(c) \/ ServerFailed(c)
          \/ GetDevices(c) \/ GetDevicesFailed(c) \/ CheckCurrentData(c)
    \/ \E i \in inits : InitDone(i) \/ InitRejected(i)

Spec == Init /\ [][Next]_vars

\* The interval fires for ever; adb answers again and again, though it may fail in
\* between; every init settles (each of its commands ends).  A call by anybody else
\* than the interval need not come, but one that was made goes on.
Fairness ==
    /\ WF_vars(StartServer(Interval) \/ SkipServer(Interval))
    /\ \A c \in Callers :
          /\ SF_vars(ServerStarted(c))
          /\ SF_vars(GetDevices(c))
          /\ SF_vars(CheckCurrentData(c))
    /\ \A i \in InitCall : WF_vars(InitDone(i) \/ InitRejected(i))

FairSpec == Spec /\ Fairness

-----------------------------------------------------------------------------
(* Properties of any number of overlapping calls.                          *)

\* The dictionary of the discovery and the one of DevicesService hold the same
\* devices, and _devices never has two entries of one device, whichever checks
\* overlap: every step that touches them runs between two awaits.
Consistent ==
    /\ registry = devices
    /\ \A d, e \in tracked : d.id = e.id => d = e

\* An entry of _devices is never forgotten half way: its device is reported, its
\* init has not settled, or an init of it rejected (and then the code never tries
\* again while adb lists the device with the same status).
EntryAccountedFor ==
    \A d \in tracked :
        \/ registry[d.id] # NoDevice
        \/ \E i \in inits : i.dev = d
        \/ d.id \in rejected

\* A reported device that _devices does not know can never be reported lost by a
\* later check.  That happens in one way only: an init ended after a second check
\* had dropped the entry it was started for.
GhostOnlyByLateInit ==
    \A id \in Ids :
        registry[id] # NoDevice /\ id \notin TrackedIds => id \in outlived

\* README.md:271 "deviceLost - Raised when a device is detached from the system":
\* a device that stays detached leaves the list of DevicesService for good.
DetachedIsLost ==
    \A id \in Ids :
        <>[](\A d \in adb : d.id # id) => <>[](registry[id] = NoDevice)

-----------------------------------------------------------------------------
(* Properties of calls that do not overlap: one caller, and no init that   *)
(* rejects and leaves others behind.                                       *)

\* Without overlap the reported devices are exactly the entries of _devices whose
\* init is over, with the status adb listed.
ReportedIsTracked ==
    \A d \in Device :
        registry[d.id] = d <=> d \in tracked /\ \A i \in inits : i.dev # d

\* Without overlap the registry converges to the devices that stay attached.
RegistryFollowsAdb ==
    \A d \in Device : <>[](d \in adb) => <>[](registry[d.id] = d)
=============================================================================
