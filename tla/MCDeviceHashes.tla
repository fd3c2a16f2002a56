--------------------------- MODULE MCDeviceHashes ---------------------------
(* The hash services of one application on two Android devices. *)
EXTENDS DeviceFiles

CONSTANTS Device1, Device2, App

TwoServices == {<<Device1, App>>, <<Device2, App>>}

HashesSpec == FilesInit /\ (\A s \in Services : platform[s] = "Android")
              /\ [][HashNext \/ \E f \in Files : FileChanges(f)]_filesVars
=============================================================================
