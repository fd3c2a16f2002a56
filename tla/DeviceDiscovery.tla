-------------------------- MODULE DeviceDiscovery --------------------------
(***************************************************************************)
(* The base of every device discovery, and what DevicesService does when a *)
(* discovery reports a device.                                             *)
(*                                                                         *)
(* A discovery keeps a dictionary of the devices it has reported, and      *)
(* emits deviceFound and deviceLost.  DevicesService listens to both:      *)
(* EventEmitter.emit calls its listeners before it returns, so a change of *)
(* the dictionary and the change of DevicesService._devices that follows   *)
(* from it are one step.                                                   *)
(*                                                                         *)
(* A device object is its identifier and the status it was created with;   *)
(* the rest of deviceInfo is abstracted.                                   *)
(***************************************************************************)
EXTENDS Naturals, FiniteSets

CONSTANTS
    Ids,        \* device identifiers
    Statuses,   \* what adb or ios-sim may say of a device
    NoDevice    \* an absent entry of a dictionary

Device == [id : Ids, status : Statuses]

ASSUME DeviceAssumption == NoDevice \notin Device

VARIABLES
    devices,    \* DeviceDiscovery.devices
    registry    \* DevicesService._devices

discoveryVars == <<devices, registry>>

Dictionary == [Ids -> Device \cup {NoDevice}]

DiscoveryTypeOK ==
    /\ devices \in Dictionary
    /\ registry \in Dictionary

DiscoveryInit ==
    /\ devices = [id \in Ids |-> NoDevice]
    /\ registry = [id \in Ids |-> NoDevice]

\* DevicesService.onDeviceFound: an entry of the same identifier is replaced.
OnDeviceFound(d) == registry' = [registry EXCEPT ![d.id] = d]

\* DevicesService.onDeviceLost for each device of lost: the entry goes whatever
\* object it holds.
OnDevicesLost(lost) ==
    registry' = [id \in Ids |-> IF id \in lost THEN NoDevice ELSE registry[id]]

AddDevice(d) ==
    /\ devices' = [devices EXCEPT ![d.id] = d]
    /\ OnDeviceFound(d)

\* Mutant of RemoveDevices: deviceLost is not raised.
RemoveUnannounced(ids) ==
    /\ devices' = [id \in Ids |-> IF id \in ids THEN NoDevice ELSE devices[id]]
    /\ UNCHANGED registry

\* Mutant of RemoveDevices: deleteAndRemoveDevice forgets to call removeDevice.
RemoveForgotten(ids) == UNCHANGED discoveryVars

\* removeDevice for each identifier of ids, one after the other: an identifier
\* that was never reported is skipped, and nobody is told of it.
RemoveDevices(ids) ==
    LET lost == {id \in ids : devices[id] # NoDevice} IN
    /\ devices' = [id \in Ids |-> IF id \in lost THEN NoDevice ELSE devices[id]]
    /\ OnDevicesLost(lost)
=============================================================================
