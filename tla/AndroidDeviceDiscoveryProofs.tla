-------------------- MODULE AndroidDeviceDiscoveryProofs --------------------
(***************************************************************************)
(* What AndroidDeviceDiscovery guarantees for any number of devices,       *)
(* callers and checks in flight, and what it guarantees when no two checks *)
(* overlap.                                                                *)
(***************************************************************************)
EXTENDS AndroidDeviceDiscovery, TLAPS

\* A run whose inits are over may be given to the next check.
LEMMA FreeRunChosen ==
    ASSUME FreeRuns # {}
    PROVE  (CHOOSE r \in FreeRuns : TRUE) \in FreeRuns
  OBVIOUS

\* Dropping the entries of some identifiers keeps both dictionaries dictionaries.
LEMMA RemoveDevicesType ==
    ASSUME DiscoveryTypeOK, NEW ids, RemoveDevices(ids)
    PROVE  DiscoveryTypeOK'
  BY DEF DiscoveryTypeOK, RemoveDevices, OnDevicesLost, Dictionary

LEMMA AddDeviceType ==
    ASSUME DiscoveryTypeOK, NEW d \in Device, AddDevice(d)
    PROVE  DiscoveryTypeOK'
  BY DEF DiscoveryTypeOK, AddDevice, OnDeviceFound, Dictionary, Device

\* Every variable keeps its type, for any devices, callers and runs.
THEOREM TypeCorrect == Spec => []TypeOK
<1>1. Init => TypeOK
  <2> SUFFICES ASSUME Init PROVE TypeOK
    OBVIOUS
  <2>1. (CHOOSE r \in Runs : TRUE) \in Runs
    BY AndroidAssumption
  <2>2. DiscoveryTypeOK
    BY DEF Init, DiscoveryInit, DiscoveryTypeOK, Dictionary
  <2>3. run \in [Callers -> Runs]
    BY <2>1 DEF Init
  <2>4. {} \in AdbLists
    BY DEF AdbLists
  <2>5. pc \in [Callers -> Locations] /\ listed \in [Callers -> AdbLists]
    BY <2>4 DEF Init, Locations
  <2>6. adb \in AdbLists /\ isStarted \in BOOLEAN
    BY DEF Init
  <2>7. changes \in 0 .. MaxChanges
    BY AndroidAssumption DEF Init, AndroidAssumption
  <2>8. /\ tracked \in SUBSET Device /\ inits \in SUBSET InitCall
        /\ outlived \in SUBSET Ids /\ rejected \in SUBSET Ids
    BY DEF Init
  <2> QED
    BY <2>2, <2>3, <2>5, <2>6, <2>7, <2>8 DEF TypeOK
<1>2. TypeOK /\ [Next]_vars => TypeOK'
  <2> SUFFICES ASSUME TypeOK, [Next]_vars PROVE TypeOK'
    OBVIOUS
  <2> USE DEF TypeOK
  <2>1. CASE DevicesChange
    BY <2>1, AndroidAssumption DEF DevicesChange, checkVars, DiscoveryTypeOK
  <2>2. ASSUME NEW c \in Callers, StartServer(c) \/ SkipServer(c) \/ ServerStarted(c)
                                   \/ ServerFailed(c)
        PROVE TypeOK'
    BY <2>2 DEF StartServer, SkipServer, ServerStarted, ServerFailed, checkVars,
       DiscoveryTypeOK, Locations
  <2>3. ASSUME NEW c \in Callers, GetDevices(c) \/ GetDevicesFailed(c) PROVE TypeOK'
    BY <2>3 DEF GetDevices, GetDevicesFailed, checkVars, DiscoveryTypeOK, Locations
  <2>4. ASSUME NEW c \in Callers, CheckCurrentData(c) PROVE TypeOK'
    <3> DEFINE new == listed[c] \ Kept(listed[c])
    <3>1. DiscoveryTypeOK'
      BY <2>4, RemoveDevicesType DEF CheckCurrentData
    <3>2. listed[c] \in SUBSET Device /\ {} \in AdbLists /\ new \in SUBSET Device
      BY DEF AdbLists
    <3>3. run' \in [Callers -> Runs]
      BY <2>4, FreeRunChosen DEF CheckCurrentData, FreeRuns
    <3>4. inits' \in SUBSET InitCall
      <4>1. inits' = inits \cup {[dev |-> d, run |-> run'[c]] : d \in new}
        BY <2>4 DEF CheckCurrentData
      <4>2. \A d \in new : [dev |-> d, run |-> run'[c]] \in InitCall
        BY <3>2, <3>3 DEF InitCall
      <4> QED
        BY <4>1, <4>2
    <3>5. tracked' \in SUBSET Device /\ pc' \in [Callers -> Locations]
      BY <2>4, <3>2 DEF CheckCurrentData, Kept, Locations
    <3>6. listed' \in [Callers -> AdbLists]
      BY <2>4, <3>2 DEF CheckCurrentData
    <3> QED
      BY <2>4, <3>1, <3>3, <3>4, <3>5, <3>6 DEF CheckCurrentData
  <2>5. ASSUME NEW i \in inits, InitDone(i) PROVE TypeOK'
    <3>1. i.dev \in Device /\ i.dev.id \in Ids
      BY DEF InitCall, Device
    <3>2. DiscoveryTypeOK'
      BY <2>5, <3>1, AddDeviceType DEF InitDone
    <3> QED
      BY <2>5, <3>1, <3>2 DEF InitDone, Locations
  <2>6. ASSUME NEW i \in inits, InitRejected(i) PROVE TypeOK'
    <3>1. i.dev.id \in Ids
      BY DEF InitCall, Device
    <3> QED
      BY <2>6, <3>1 DEF InitRejected, DiscoveryTypeOK, Locations
  <2>7. CASE UNCHANGED vars
    BY <2>7 DEF vars, DiscoveryTypeOK
  <2> QED
    BY <2>1, <2>2, <2>3, <2>4, <2>5, <2>6, <2>7 DEF Next
<1> QED
  BY <1>1, <1>2, PTL DEF Spec

-----------------------------------------------------------------------------
\* Steps that leave the two dictionaries, the list and the inits alone, and every
\* caller that waits for inits where it is.
Elsewhere ==
    /\ UNCHANGED checkVars
    /\ \A c \in Callers :
          pc[c] = "initializing" => pc'[c] = "initializing" /\ run'[c] = run[c]

LEMMA QuietSteps ==
    ASSUME TypeOK,
           DevicesChange \/ UNCHANGED vars
           \/ \E c \in Callers : \/ StartServer(c) \/ SkipServer(c) \/ ServerStarted(c)
                                  \/ ServerFailed(c) \/ GetDevices(c) \/ GetDevicesFailed(c)
    PROVE  Elsewhere
<1>1. UNCHANGED checkVars
  BY DEF checkVars, vars, DevicesChange, StartServer, SkipServer, ServerStarted,
     ServerFailed, GetDevices, GetDevicesFailed
<1>2. ASSUME NEW c \in Callers, pc[c] = "initializing"
      PROVE  pc'[c] = "initializing" /\ run'[c] = run[c]
  BY <1>2 DEF TypeOK, vars, DevicesChange, StartServer, SkipServer, ServerStarted,
     ServerFailed, GetDevices, GetDevicesFailed
<1> QED
  BY <1>1, <1>2 DEF Elsewhere

\* A step is one of the quiet ones, the comparison of a check, or the end of an init.
LEMMA StepCases ==
    ASSUME TypeOK, [Next]_vars
    PROVE  \/ Elsewhere
           \/ \E c \in Callers : CheckCurrentData(c)
           \/ \E i \in inits : InitDone(i)
           \/ \E i \in inits : InitRejected(i)
  BY QuietSteps DEF Next

\* An entry that survives a check was listed by it, with its status.
LEMMA KeptIsListed ==
    ASSUME NEW current, NEW d \in Kept(current)
    PROVE  d \in tracked /\ d \in current
  BY DEF Kept, Gone

\* Both dictionaries agree and _devices has one entry per device, whichever checks
\* overlap: what is kept and what is pushed come from one answer of adb, which lists
\* a device once.
THEOREM DictionariesAgree == Spec => []Consistent
<1>1. Init => Consistent
  BY DEF Init, DiscoveryInit, Consistent
<1>2. TypeOK /\ Consistent /\ [Next]_vars => Consistent'
  <2> SUFFICES ASSUME TypeOK, Consistent, [Next]_vars PROVE Consistent'
    OBVIOUS
  <2>1. CASE Elsewhere
    BY <2>1 DEF Elsewhere, checkVars, Consistent
  <2>2. ASSUME NEW c \in Callers, CheckCurrentData(c) PROVE Consistent'
    <3> DEFINE current == listed[c]
    <3>1. registry' = devices'
      BY <2>2 DEF CheckCurrentData, RemoveDevices, OnDevicesLost, Consistent
    <3>2. \A d, e \in current : d.id = e.id => d = e
      BY DEF TypeOK, AdbLists
    <3>3. tracked' = Kept(current) \cup (current \ Kept(current))
      BY <2>2 DEF CheckCurrentData
    <3>4. tracked' \subseteq current
      BY <3>3, KeptIsListed
    <3> QED
      BY <3>1, <3>2, <3>4 DEF Consistent
  <2>3. ASSUME NEW i \in inits, InitDone(i) PROVE Consistent'
    BY <2>3 DEF InitDone, AddDevice, OnDeviceFound, Consistent
  <2>4. ASSUME NEW i \in inits, InitRejected(i) PROVE Consistent'
    BY <2>4 DEF InitRejected, Consistent
  <2> QED
    BY <2>1, <2>2, <2>3, <2>4, StepCases
<1> QED
  BY <1>1, <1>2, TypeCorrect, PTL DEF Spec

\* What removing the identifiers a check lost does to a lookup.
LEMMA RegistryAfterRemove ==
    ASSUME TypeOK, Consistent, NEW ids, RemoveDevices(ids), NEW id \in Ids
    PROVE  registry'[id] = IF id \in ids THEN NoDevice ELSE registry[id]
  BY DEF TypeOK, DiscoveryTypeOK, Dictionary, Consistent, RemoveDevices, OnDevicesLost

\* What reporting a device does to a lookup.
LEMMA RegistryAfterAdd ==
    ASSUME TypeOK, NEW d \in Device, AddDevice(d), NEW id \in Ids
    PROVE  registry'[id] = IF id = d.id THEN d ELSE registry[id]
  BY DEF TypeOK, DiscoveryTypeOK, Dictionary, AddDevice, OnDeviceFound

-----------------------------------------------------------------------------
\* An entry of _devices is reported, being initialised, or one whose init rejected:
\* a check that drops the report of an identifier drops its entry in the same step.
THEOREM NoEntryForgotten == Spec => []EntryAccountedFor
<1>1. Init => EntryAccountedFor
  BY DEF Init, EntryAccountedFor
<1>2. TypeOK /\ Consistent /\ EntryAccountedFor /\ [Next]_vars => EntryAccountedFor'
  <2> SUFFICES ASSUME TypeOK, Consistent, EntryAccountedFor, [Next]_vars,
                      NEW d \in tracked'
               PROVE  \/ registry'[d.id] # NoDevice
                      \/ \E i \in inits' : i.dev = d
                      \/ d.id \in rejected'
    BY DEF EntryAccountedFor
  <2>1. CASE Elsewhere
    BY <2>1 DEF Elsewhere, checkVars, EntryAccountedFor
  <2>2. ASSUME NEW c \in Callers, CheckCurrentData(c)
        PROVE  \/ registry'[d.id] # NoDevice
               \/ \E i \in inits' : i.dev = d
               \/ d.id \in rejected'
    <3> DEFINE current == listed[c]
               new == current \ Kept(current)
    <3>1. d \in Kept(current) \/ d \in new
      BY <2>2 DEF CheckCurrentData
    <3>2. CASE d \in new
      <4>1. inits' = inits \cup {[dev |-> e, run |-> run'[c]] : e \in new}
        BY <2>2 DEF CheckCurrentData
      <4>2. [dev |-> d, run |-> run'[c]] \in inits'
        BY <4>1, <3>2
      <4> QED
        BY <4>2
    <3>3. CASE d \in Kept(current)
      <4>1. d \in tracked /\ d.id \notin Gone(current) /\ d.id \in Ids
        BY <3>3 DEF Kept, TypeOK, Device
      <4>2. registry'[d.id] = registry[d.id]
        BY <2>2, <4>1, RegistryAfterRemove DEF CheckCurrentData
      <4>3. inits \subseteq inits' /\ rejected' = rejected
        BY <2>2 DEF CheckCurrentData
      <4> QED
        BY <4>1, <4>2, <4>3 DEF EntryAccountedFor
    <3> QED
      BY <3>1, <3>2, <3>3
  <2>3. ASSUME NEW i \in inits, InitDone(i)
        PROVE  \/ registry'[d.id] # NoDevice
               \/ \E j \in inits' : j.dev = d
               \/ d.id \in rejected'
    <3>1. i.dev \in Device /\ i.dev # NoDevice
      BY DeviceAssumption DEF TypeOK, InitCall, DeviceAssumption
    <3>2. d \in tracked /\ d.id \in Ids /\ rejected' = rejected /\ inits' = inits \ {i}
      BY <2>3 DEF InitDone, TypeOK, Device
    <3>3. registry'[d.id] = IF d.id = i.dev.id THEN i.dev ELSE registry[d.id]
      BY <2>3, <3>1, <3>2, RegistryAfterAdd DEF InitDone
    <3> QED
      BY <3>1, <3>2, <3>3 DEF EntryAccountedFor
  <2>4. ASSUME NEW i \in inits, InitRejected(i)
        PROVE  \/ registry'[d.id] # NoDevice
               \/ \E j \in inits' : j.dev = d
               \/ d.id \in rejected'
    BY <2>4 DEF InitRejected, EntryAccountedFor
  <2> QED
    BY <2>1, <2>2, <2>3, <2>4, StepCases
<1> QED
  BY <1>1, <1>2, TypeCorrect, DictionariesAgree, PTL DEF Spec

\* A reported device unknown to _devices got there by an init that outlived its entry,
\* and by nothing else.
THEOREM GhostsOnlyByLateInit == Spec => []GhostOnlyByLateInit
<1>1. Init => GhostOnlyByLateInit
  BY DEF Init, DiscoveryInit, GhostOnlyByLateInit
<1>2. TypeOK /\ Consistent /\ GhostOnlyByLateInit /\ [Next]_vars => GhostOnlyByLateInit'
  <2> SUFFICES ASSUME TypeOK, Consistent, GhostOnlyByLateInit, [Next]_vars,
                      NEW id \in Ids, registry'[id] # NoDevice, id \notin TrackedIds'
               PROVE  id \in outlived'
    BY DEF GhostOnlyByLateInit
  <2>1. CASE Elsewhere
    BY <2>1 DEF Elsewhere, checkVars, GhostOnlyByLateInit, TrackedIds
  <2>2. ASSUME NEW c \in Callers, CheckCurrentData(c) PROVE id \in outlived'
    <3> DEFINE current == listed[c]
    <3>1. registry'[id] = IF id \in Gone(current) THEN NoDevice ELSE registry[id]
      BY <2>2, RegistryAfterRemove DEF CheckCurrentData
    <3>2. Kept(current) \subseteq tracked' /\ outlived' = outlived
      BY <2>2 DEF CheckCurrentData
    <3>3. id \notin TrackedIds
      BY <3>1, <3>2 DEF TrackedIds, Kept
    <3> QED
      BY <3>1, <3>2, <3>3 DEF GhostOnlyByLateInit
  <2>3. ASSUME NEW i \in inits, InitDone(i) PROVE id \in outlived'
    <3>1. i.dev \in Device
      BY DEF TypeOK, InitCall
    <3>2. tracked' = tracked /\ TrackedIds' = TrackedIds
      BY <2>3 DEF InitDone, TrackedIds
    <3>3. registry'[id] = IF id = i.dev.id THEN i.dev ELSE registry[id]
      BY <2>3, <3>1, RegistryAfterAdd DEF InitDone
    <3>4. outlived' = IF i.dev \in tracked THEN outlived ELSE outlived \cup {i.dev.id}
      BY <2>3 DEF InitDone
    <3> QED
      BY <3>2, <3>3, <3>4 DEF GhostOnlyByLateInit, TrackedIds
  <2>4. ASSUME NEW i \in inits, InitRejected(i) PROVE id \in outlived'
    BY <2>4 DEF InitRejected, GhostOnlyByLateInit, TrackedIds
  <2> QED
    BY <2>1, <2>2, <2>3, <2>4, StepCases
<1> QED
  BY <1>1, <1>2, TypeCorrect, DictionariesAgree, PTL DEF Spec

-----------------------------------------------------------------------------
\* Checks that do not overlap: one caller, and no init rejects.
OneCheckAtATime == Callers = {Interval} /\ ~InitMayReject

\* The inits in flight belong to the check the caller waits for, and their entries
\* are still in _devices: ReportedIsTracked alone says nothing of a late init.
OwnInits ==
    /\ inits # {} => pc[Interval] = "initializing"
    /\ \A i \in inits : i.run = run[Interval] /\ i.dev \in tracked

\* What a check does when no init is in flight.
LEMMA CheckAlone ==
    ASSUME TypeOK, Consistent, OwnInits, ReportedIsTracked, CheckCurrentData(Interval)
    PROVE  OwnInits' /\ ReportedIsTracked'
<1> DEFINE current == listed[Interval]
           kept == Kept(current)
           new == current \ kept
<1>1. inits = {}
  BY DEF OwnInits, CheckCurrentData
<1>2. inits' = {[dev |-> d, run |-> run'[Interval]] : d \in new}
  BY <1>1 DEF CheckCurrentData
<1>3. tracked' = kept \cup new
  BY DEF CheckCurrentData
<1>4. OwnInits'
  <2>1. new # {} => pc'[Interval] = "initializing"
    BY AndroidAssumption DEF CheckCurrentData, TypeOK, AndroidAssumption
  <2> QED
    BY <1>2, <1>3, <2>1 DEF OwnInits
<1>5. ReportedIsTracked'
  <2> SUFFICES ASSUME NEW d \in Device
               PROVE  registry'[d.id] = d <=> d \in tracked' /\ \A i \in inits' : i.dev # d
    BY DEF ReportedIsTracked
  <2>1. d.id \in Ids /\ d # NoDevice
    BY DeviceAssumption DEF Device, DeviceAssumption
  <2>2. registry[d.id] = d <=> d \in tracked
    BY <1>1 DEF ReportedIsTracked
  <2>3. registry'[d.id] = IF d.id \in Gone(current) THEN NoDevice ELSE registry[d.id]
    BY <2>1, RegistryAfterRemove DEF CheckCurrentData
  <2>4. registry'[d.id] = d <=> d \in kept
    BY <2>1, <2>2, <2>3 DEF Kept
  <2>5. (\A i \in inits' : i.dev # d) <=> d \notin new
    <3>1. d \in new => [dev |-> d, run |-> run'[Interval]] \in inits'
      BY <1>2
    <3>2. \A i \in inits' : i.dev \in new
      BY <1>2
    <3> QED
      BY <3>1, <3>2
  <2> QED
    BY <1>3, <2>4, <2>5
<1> QED
  BY <1>4, <1>5

\* What the end of an init does when it belongs to the only check.
LEMMA InitDoneAlone ==
    ASSUME TypeOK, Consistent, OwnInits, ReportedIsTracked, NEW i \in inits, InitDone(i)
    PROVE  OwnInits' /\ ReportedIsTracked'
<1>1. i \in InitCall /\ i.dev \in Device /\ i.dev \in tracked
  BY DEF TypeOK, InitCall, OwnInits
<1>2. inits' = inits \ {i} /\ tracked' = tracked /\ run' = run
  BY DEF InitDone
<1>3. \A j \in inits : j.dev = i.dev => j = i
  BY DEF TypeOK, InitCall, OwnInits
<1>4. OwnInits'
  <2>1. inits' # {} => pc'[Interval] = "initializing"
    BY <1>2, AndroidAssumption DEF InitDone, OwnInits, TypeOK, AndroidAssumption
  <2> QED
    BY <1>2, <2>1 DEF OwnInits
<1>5. ReportedIsTracked'
  <2> SUFFICES ASSUME NEW d \in Device
               PROVE  registry'[d.id] = d <=> d \in tracked' /\ \A j \in inits' : j.dev # d
    BY DEF ReportedIsTracked
  <2>1. d.id \in Ids
    BY DEF Device
  <2>2. registry'[d.id] = IF d.id = i.dev.id THEN i.dev ELSE registry[d.id]
    BY <1>1, <2>1, RegistryAfterAdd DEF InitDone
  <2>3. registry[d.id] = d <=> d \in tracked /\ \A j \in inits : j.dev # d
    BY DEF ReportedIsTracked
  <2>4. CASE d = i.dev
    BY <1>1, <1>2, <1>3, <2>2, <2>4
  <2>5. CASE d # i.dev /\ d.id = i.dev.id
    BY <1>1, <1>2, <2>2, <2>5 DEF Consistent
  <2>6. CASE d # i.dev /\ d.id # i.dev.id
    BY <1>2, <2>2, <2>3, <2>6
  <2> QED
    BY <2>4, <2>5, <2>6
<1> QED
  BY <1>4, <1>5

\* If checks never overlap, DevicesService holds exactly the devices adb last listed,
\* except those whose init is not over: no ghost and no stale status is possible.
THEOREM NoOverlapNoGhost ==
    ASSUME OneCheckAtATime
    PROVE  Spec => []ReportedIsTracked
<1> DEFINE IInv == OwnInits /\ ReportedIsTracked
<1>1. Init => IInv
  BY DeviceAssumption DEF Init, DiscoveryInit, OwnInits, ReportedIsTracked, Device,
     DeviceAssumption
<1>2. TypeOK /\ Consistent /\ IInv /\ [Next]_vars => IInv'
  <2> SUFFICES ASSUME TypeOK, Consistent, IInv, [Next]_vars PROVE IInv'
    OBVIOUS
  <2>1. CASE \E c \in Callers : CheckCurrentData(c)
    BY <2>1, CheckAlone, OneCheckAtATime DEF OneCheckAtATime
  <2>2. CASE \E i \in inits : InitDone(i)
    BY <2>2, InitDoneAlone
  <2>3. CASE \E i \in inits : InitRejected(i)
    BY <2>3, OneCheckAtATime DEF OneCheckAtATime, InitRejected
  <2>4. CASE Elsewhere
    <3>1. /\ tracked' = tracked /\ inits' = inits /\ registry' = registry
      BY <2>4 DEF Elsewhere, checkVars
    <3>2. inits # {} => pc'[Interval] = "initializing" /\ run'[Interval] = run[Interval]
      BY <2>4, AndroidAssumption DEF Elsewhere, OwnInits, AndroidAssumption
    <3> QED
      BY <3>1, <3>2 DEF OwnInits, ReportedIsTracked
  <2> QED
    BY <2>1, <2>2, <2>3, <2>4, StepCases
<1> QED
  BY <1>1, <1>2, TypeCorrect, DictionariesAgree, PTL DEF Spec
=============================================================================
