---------------------------- MODULE DeviceFiles ----------------------------
(***************************************************************************)
(* The files of an application on its devices: the file systems of Android *)
(* devices, iOS devices and simulators transfer the files of the project,  *)
(* and one AndroidDeviceHashService for each device and application keeps  *)
(* the file of their hashes there, with a copy in a local directory.       *)
(* Project files change at any time.                                       *)
(***************************************************************************)
EXTENDS Naturals, FiniteSets

CONSTANTS
    Services,       \* hash services: <<device, application>>
    Files, Folders, \* the project
    NoHashes,       \* no hash file, null
    ChunkSize,      \* DEFAULT_CHUNK_SIZE
    FileCalls,      \* calls of the file systems and the hash services
    MaxVersions,    \* versions of a file (bound)
    MaxReinstalls   \* installations of applications (bound)

Hashes == UNION {[some -> 1 .. MaxVersions] : some \in SUBSET Files}

ASSUME DeviceFilesAssumption ==
    /\ IsFiniteSet(Files) /\ IsFiniteSet(Folders) /\ Files \cap Folders = {} /\ ChunkSize \in Nat \ {0}
    /\ NoHashes \notin Hashes /\ MaxVersions \in Nat \ {0} /\ MaxReinstalls \in Nat
    /\ \A s, t \in Services : s = <<s[1], s[2]>> /\ <<s[1], t[2]>> \in Services

Androids == {"Android", "oldAndroid"}
Items == Files \cup Folders

VARIABLES
    platform,       \* of the device of each service: "Android", "oldAndroid" (before 9), "iOS", "simulator"
    version,        \* the version of each project file, which stands for its hash
    onDevice,       \* the version of each file that each device has for the application, or 0
    hashFile,       \* the hash file on each device for the application
    localCopy,      \* the copy in the temporary directory of each service
    touched,        \* the services whose getter hashFileLocalPath, or hashFileDevicePath, was called
    cached,         \* the result that @cache keeps of each getter, for all services: a service
    fileCalls,
    reinstalls,
    overtaken,      \* history: <<service, file>>: a push arrived that had read an older version than the device had
    pushFailed,     \* history: the hash file did not arrive, whether its push rejected or failed silently
    raced           \* history: a copy was written while another call was pulling or pushing

filesVars == <<platform, version, onDevice, hashFile, localCopy, touched, cached, fileCalls, reinstalls, overtaken,
               pushFailed, raced>>
hashVars == <<hashFile, localCopy, touched, cached, pushFailed, raced>>

----------------------------------------------------------------------------
(* What happens on its own *)

FileChanges(f) ==
    /\ version[f] < MaxVersions
    /\ version' = [version EXCEPT ![f] = @ + 1]
    /\ UNCHANGED <<platform, onDevice, hashVars, fileCalls, reinstalls, overtaken>>

\* installApplication of Android removes the application's directory, the hash file in it.
InstallApplication(s) ==
    /\ platform[s] \in Androids /\ reinstalls < MaxReinstalls /\ reinstalls' = reinstalls + 1
    /\ hashFile' = [hashFile EXCEPT ![s] = NoHashes]
    /\ onDevice' = [onDevice EXCEPT ![s] = [f \in Files |-> 0]]
    /\ UNCHANGED <<platform, version, localCopy, touched, cached, fileCalls, overtaken, pushFailed, raced>>

----------------------------------------------------------------------------
(* Transfers *)

Idle == [op |-> "none", s |-> CHOOSE s \in Services : TRUE, at |-> "none", items |-> {}, folders |-> {}, inFlight |-> {}, answer |-> {},
         since |-> [f \in Files |-> 0], sent |-> [f \in Files |-> 0], lost |-> {},
         hashes |-> NoHashes, paths |-> CHOOSE p \in Services \X Services : TRUE]
In(c, place) == fileCalls[c].at = place
Become(c, call) == fileCalls' = [fileCalls EXCEPT ![c] = call]
Become3(c, place, items, inFlight) ==
    Become(c, [fileCalls[c] EXCEPT !.at = place, !.items = items, !.inFlight = inFlight])
Resolve(c, answer) == Become(c, [fileCalls[c] EXCEPT !.at = "resolved", !.answer = answer])
TransferOnly == UNCHANGED <<platform, version, hashVars, reinstalls>>
NothingArrives == UNCHANGED <<onDevice, overtaken>>

\* transferFiles and transferDirectory of an Android device (which pushes the files
\* one by one since Android 9), and both of an iOS device and of a simulator.
Transfers(s) == CASE platform[s] = "Android" -> {"files", "directory"}
                  [] platform[s] = "oldAndroid" -> {"files", "pushDirectory"}
                  [] OTHER -> {platform[s]}

\* Before Android 9 the directory of the project is pushed by one command; an iOS
\* device is given all the files at once.
Transfer(c, s, op, items) ==
    /\ In(c, "none") /\ op \in Transfers(s)
    /\ Become(c, [Idle EXCEPT !.op = op, !.s = s, !.items = items, !.folders = items \cap Folders, !.since = version,
                  !.inFlight = CASE op = "pushDirectory" -> Files [] op = "iOS" -> items \cap Files [] OTHER -> {},
                  !.at = CASE op \in {"files", "directory"} -> "chunk" [] op = "pushDirectory" -> "push" [] OTHER -> "upload"])
    /\ NothingArrives /\ TransferOnly

\* executeActionByChunks: every item of a chunk is pushed at once.  transferDirectory
\* counts an item as transferred before it is pushed, and answers all of them;
\* transferFiles counts a file after its push, and leaves directories for chmod.
Chunk(c, await) ==
    /\ In(c, "chunk") /\ (await => fileCalls[c].inFlight = {})
    /\ LET call == fileCalls[c]
           toChmod == IF call.op = "files" THEN call.folders ELSE call.answer
       IN  IF call.items = {} THEN Become3(c, IF toChmod = {} THEN "resolved" ELSE "chmod", {}, call.inFlight)
           ELSE \E chunk \in SUBSET call.items :
                   /\ Cardinality(chunk) = IF Cardinality(call.items) < ChunkSize THEN Cardinality(call.items) ELSE ChunkSize
                   /\ Become(c, [call EXCEPT !.items = @ \ chunk,
                                 !.inFlight = @ \cup IF call.op = "files" THEN chunk \cap Files ELSE chunk,
                                 !.answer = IF call.op = "files" THEN @ ELSE @ \cup chunk])
    /\ NothingArrives /\ TransferOnly

\* Mutant of NextChunk: the pushes of a chunk are not awaited.
NextChunkAtOnce(c) == Chunk(c, FALSE)
NextChunk(c) == Chunk(c, TRUE)

\* adb push (after mkdir) reads a file as it is when it comes to it, and the file
\* arrives later.
ReadFile(c, f) ==
    /\ f \in fileCalls[c].inFlight /\ fileCalls[c].sent[f] = 0
    /\ Become(c, [fileCalls[c] EXCEPT !.sent[f] = version[f]])
    /\ NothingArrives /\ TransferOnly

\* An item of a chunk is done; the others go on, also when the call is rejected.
ItemDone(call, i) == [call EXCEPT !.inFlight = @ \ {i}, !.sent = [f \in Files |-> IF f = i THEN 0 ELSE @[f]]]

\* The chmod of its folder, which follows, may reject although the file has arrived.
FileArrives(c, f) ==
    /\ f \in fileCalls[c].inFlight /\ fileCalls[c].sent[f] # 0
    /\ LET call == fileCalls[c]
           done == ItemDone(call, f)
       IN  /\ onDevice' = [onDevice EXCEPT ![call.s][f] = call.sent[f]]
           /\ overtaken' = IF call.sent[f] < onDevice[call.s][f] THEN overtaken \cup {<<call.s, f>>} ELSE overtaken
           /\ \/ Become(c, IF call.op = "files" THEN [done EXCEPT !.answer = @ \cup {f}] ELSE done)
              \/ call.op \in {"files", "directory"} /\ Become(c, [done EXCEPT !.at = "rejected"])
    /\ TransferOnly

\* A failing adb command rejects the call when its message is a known one, and
\* otherwise nobody is told: the item counts as pushed.
ItemFails(c, i) ==
    /\ i \in fileCalls[c].inFlight /\ fileCalls[c].op \in {"files", "directory"}
    /\ LET done == ItemDone(fileCalls[c], i)
       IN  \/ Become(c, [done EXCEPT !.at = "rejected"])
           \/ Become(c, [done EXCEPT !.lost = @ \cup {i}, !.answer = @ \cup {i}])
    /\ NothingArrives /\ TransferOnly

\* transferFile makes a directory by mkdir.
DirectoryMade(c, i) ==
    /\ i \in fileCalls[c].inFlight \cap Folders
    /\ Become(c, ItemDone(fileCalls[c], i))
    /\ NothingArrives /\ TransferOnly

\* chmod of the directories, or of all the files by a script that is pushed first.
Chmod(c) ==
    /\ In(c, "chmod")
    /\ Resolve(c, fileCalls[c].answer) \/ Become3(c, "rejected", {}, {})
    /\ NothingArrives /\ TransferOnly

\* The command that pushes the directory ends, with all files there or after some of
\* them; in that case too it may be that nobody is told.
PushDirectory(c) ==
    /\ In(c, "push")
    /\ LET call == fileCalls[c]
       IN  \/ Become(c, [call EXCEPT !.at = IF call.items = {} THEN "resolved" ELSE "chmod", !.answer = call.items,
                                     !.lost = @ \cup call.inFlight, !.inFlight = {}, !.sent = [f \in Files |-> 0]])
           \/ Become(c, [call EXCEPT !.at = "rejected", !.inFlight = {}, !.sent = [f \in Files |-> 0]])
    /\ NothingArrives /\ TransferOnly

\* uploadFiles of an iOS device throws the device's error; transferFiles answers
\* the files, transferDirectory everything.
Upload(c) ==
    /\ In(c, "upload") /\ fileCalls[c].op = "iOS"
    /\ LET call == fileCalls[c]
       IN  \/ /\ call.inFlight = {}
              /\ Resolve(c, call.items \cap Files) \/ Resolve(c, call.items)
           \/ Become(c, [call EXCEPT !.at = "rejected", !.inFlight = {}, !.sent = [f \in Files |-> 0]])
    /\ NothingArrives /\ TransferOnly

\* cp to a simulator is synchronous and fails silently.
Copy(c) ==
    /\ In(c, "upload") /\ fileCalls[c].op = "simulator"
    /\ \E some \in SUBSET (fileCalls[c].items \cap Files) :
          onDevice' = [onDevice EXCEPT ![fileCalls[c].s] = [f \in Files |-> IF f \in some THEN version[f] ELSE @[f]]]
    /\ Resolve(c, fileCalls[c].items)
    /\ UNCHANGED overtaken /\ TransferOnly

----------------------------------------------------------------------------
(* Hashes.  A getter with @cache computes the result when it is called first on a   *)
(* service, and the last result computed is what it returns on all of them.         *)

Getter(getter, s) == IF <<getter, s>> \in touched THEN cached[getter] ELSE s
CallGetters(getters, s) ==
    /\ touched' = touched \cup {<<g, s>> : g \in getters}
    /\ cached' = [g \in {"local", "device"} |-> IF g \in getters THEN Getter(g, s) ELSE cached[g]]

HashesOnly == UNCHANGED <<platform, version, onDevice, reinstalls, overtaken>>
FileOf(s, path) == <<s[1], path[2]>>   \* the path names the application

\* getShasumsFromDevice, updateHashes, removeHashes and uploadHashFileToDevice.
HashCall(c, s, op, items) ==
    /\ In(c, "none") /\ platform[s] \in Androids /\ op \in {"get", "update", "remove", "write"}
    /\ Become(c, [Idle EXCEPT !.op = op, !.s = s, !.items = items,
                  !.hashes = IF op = "write" THEN [f \in items |-> version[f]] ELSE NoHashes,
                  !.at = IF op = "write" THEN "write" ELSE "look"])
    /\ HashesOnly /\ UNCHANGED hashVars

\* What is done with the hashes that were read: answered; new ones generated; or
\* some removed, if there are any.
Got(c, hashes) ==
    LET call == [fileCalls[c] EXCEPT !.hashes = hashes]
    IN  Become(c, CASE call.op = "get" -> [call EXCEPT !.at = "resolved"]
                    [] call.op = "update" -> [call EXCEPT !.at = "generate", !.hashes = IF hashes = NoHashes THEN <<>> ELSE hashes]
                    [] call.op = "remove" /\ hashes = NoHashes -> [call EXCEPT !.at = "resolved"]
                    [] call.op = "remove" /\ hashes # NoHashes ->
                          [call EXCEPT !.at = "write", !.hashes = [f \in DOMAIN hashes \ call.items |-> hashes[f]]])

\* downloadHashFileFromDevice trusts a copy that is there, whoever wrote it, and
\* pulls the file only while there is none.
LookForCopy(c) ==
    /\ In(c, "look")
    /\ LET s == fileCalls[c].s
           copy == Getter("local", s)
       IN  IF localCopy[copy] # NoHashes
           THEN CallGetters({"local"}, s) /\ Got(c, localCopy[copy])
           ELSE CallGetters({"local", "device"}, s) /\ Become(c, [fileCalls[c] EXCEPT !.at = "pull", !.paths = <<copy, Getter("device", s)>>])
    /\ HashesOnly /\ UNCHANGED <<hashFile, localCopy, pushFailed, raced>>

\* adb pull reads the file on the device, which may be missing; it may also fail,
\* with an error that rejects or with nobody told.
ReadHashFile(c) ==
    /\ In(c, "pull")
    /\ LET call == fileCalls[c]
       IN  \/ \E pulled \in {hashFile[FileOf(call.s, call.paths[2])], NoHashes} :
                 Become(c, [call EXCEPT !.hashes = pulled, !.at = "pulling"])
           \/ Become3(c, "rejected", {}, {})
    /\ HashesOnly /\ UNCHANGED hashVars

\* It then overwrites the copy, also one that was written meanwhile, and the copy is
\* read whether or not the file came.
PullHashes(c) ==
    /\ In(c, "pulling")
    /\ LET call == fileCalls[c]
           copies == IF call.hashes = NoHashes THEN localCopy ELSE [localCopy EXCEPT ![call.paths[1]] = call.hashes]
       IN  localCopy' = copies /\ Got(c, copies[Getter("local", call.s)])
    /\ HashesOnly /\ UNCHANGED <<hashFile, touched, cached, pushFailed, raced>>

\* generateHashesFromLocalToDevicePaths: the hash of each file as it is when it is read.
GenerateHash(c, f) ==
    /\ In(c, "generate") /\ f \in fileCalls[c].items
    /\ Become(c, [fileCalls[c] EXCEPT !.items = @ \ {f},
                  !.hashes = [g \in DOMAIN @ \cup {f} |-> IF g = f THEN version[f] ELSE @[g]]])
    /\ HashesOnly /\ UNCHANGED hashVars

\* uploadHashFileToDevice writes the copy, makes the directory on the device and
\* pushes the copy; pulls and pushes of other calls may be under way.
Moving == {"pull", "pulling", "pushHashes", "arriving"}
CopyWritten(c, place) ==
    /\ In(c, "write") \/ (In(c, "generate") /\ fileCalls[c].items = {})
    /\ LET s == fileCalls[c].s
           copy == Getter("local", s)
       IN  /\ CallGetters({"local", "device"}, s)
           /\ localCopy' = [localCopy EXCEPT ![copy] = fileCalls[c].hashes]
           /\ Become(c, [fileCalls[c] EXCEPT !.at = place, !.paths = <<copy, Getter("device", s)>>])
    /\ raced' = (raced \/ \E d \in FileCalls \ {c} : fileCalls[d].at \in Moving)
    /\ HashesOnly /\ UNCHANGED <<hashFile, pushFailed>>

\* Mutant of WriteHashes: there is nothing to push when no hash is left.
WriteUnlessEmpty(c) == CopyWritten(c, IF DOMAIN fileCalls[c].hashes = {} THEN "resolved" ELSE "pushHashes")
WriteHashes(c) == CopyWritten(c, "pushHashes")

\* adb push reads the copy as it is when it starts.
ReadCopy(c) ==
    /\ In(c, "pushHashes")
    /\ Become(c, [fileCalls[c] EXCEPT !.hashes = localCopy[fileCalls[c].paths[1]], !.at = "arriving"])
    /\ HashesOnly /\ UNCHANGED hashVars

\* What it has read arrives, after what another push has read meanwhile perhaps; the
\* chmod that follows may reject all the same.
PushHashes(c) ==
    /\ In(c, "arriving")
    /\ hashFile' = [hashFile EXCEPT ![FileOf(fileCalls[c].s, fileCalls[c].paths[2])] = fileCalls[c].hashes]
    /\ Become3(c, "resolved", {}, {}) \/ Become3(c, "rejected", {}, {})
    /\ HashesOnly /\ UNCHANGED <<localCopy, touched, cached, pushFailed, raced>>

\* mkdir or the push fails: the call is rejected, or resolved with nobody told.
PushFails(c) ==
    /\ In(c, "pushHashes") \/ In(c, "arriving")
    /\ Become3(c, "resolved", {}, {}) \/ Become3(c, "rejected", {}, {})
    /\ pushFailed' = TRUE
    /\ HashesOnly /\ UNCHANGED <<hashFile, localCopy, touched, cached, raced>>

----------------------------------------------------------------------------
\* The device may have the hash file of an earlier run.
FilesInit ==
    /\ platform \in [Services -> Androids \cup {"iOS", "simulator"}]
    /\ \A s, t \in Services : s[1] = t[1] => platform[s] = platform[t]
    /\ version = [f \in Files |-> 1]
    /\ onDevice = [s \in Services |-> [f \in Files |-> 0]]
    /\ hashFile \in [Services -> {NoHashes, [f \in Files |-> 1]}]
    /\ localCopy = [s \in Services |-> NoHashes]
    /\ touched = {} /\ \E s \in Services : cached = [g \in {"local", "device"} |-> s]
    /\ fileCalls = [c \in FileCalls |-> Idle]
    /\ reinstalls = 0 /\ overtaken = {} /\ pushFailed = FALSE /\ raced = FALSE

TransferNext ==
    \E c \in FileCalls :
        \/ \E s \in Services, items \in SUBSET Items : \E op \in Transfers(s) : Transfer(c, s, op, items)
        \/ NextChunk(c) \/ Chmod(c) \/ PushDirectory(c) \/ Upload(c) \/ Copy(c)
        \/ \E f \in Files : ReadFile(c, f) \/ FileArrives(c, f)
        \/ \E i \in Items : ItemFails(c, i) \/ DirectoryMade(c, i)

HashNext ==
    \E c \in FileCalls :
        \/ \E s \in Services, op \in {"get", "update", "remove", "write"}, items \in SUBSET Files : HashCall(c, s, op, items)
        \/ LookForCopy(c) \/ ReadHashFile(c) \/ PullHashes(c) \/ \E f \in Files : GenerateHash(c, f)
        \/ WriteHashes(c) \/ ReadCopy(c) \/ PushHashes(c) \/ PushFails(c)

FilesNext ==
    \/ \E f \in Files : FileChanges(f)
    \/ \E s \in Services : InstallApplication(s)
    \/ TransferNext \/ HashNext

FilesSpec == FilesInit /\ [][FilesNext]_filesVars

----------------------------------------------------------------------------
(* What makes it correct *)

\* The state has its shape; a device never has a file in a version that the project has not had.
FilesTypeOK ==
    /\ DOMAIN platform = Services /\ version \in [Files -> 1 .. MaxVersions]
    /\ \A s \in Services : /\ \A f \in Files : onDevice[s][f] \in 0 .. version[f]
                           /\ {hashFile[s], localCopy[s]} \subseteq Hashes \cup {NoHashes}
    /\ touched \subseteq {"local", "device"} \X Services /\ cached \in [{"local", "device"} -> Services]
    /\ \A c \in FileCalls : /\ fileCalls[c].inFlight \subseteq Items
                            /\ fileCalls[c].op \in {"files", "directory"} => Cardinality(fileCalls[c].inFlight) <= ChunkSize

\* What a transfer to a device answers has arrived: the device has each file of the
\* answer as it was when the call began, or newer, in whatever order the pushes of
\* its chunks read and arrive.  There are three exceptions: the push of this very
\* file failed with nobody told; a push that had read an older version, of another
\* call or of one that was rejected, arrived after it; the application was installed.
AnsweredFilesArrived ==
    \A c \in FileCalls : LET call == fileCalls[c] IN
        call.at = "resolved" /\ platform[call.s] # "simulator" /\ reinstalls = 0 =>
            \A f \in call.answer \cap Files :
                onDevice[call.s][f] >= call.since[f] \/ f \in call.lost \/ <<call.s, f>> \in overtaken

\* When no call is under way, the copy that all later calls trust is the hash file of
\* the device, in spite of files that change while they are hashed, of pulls that
\* fail and of calls that are rejected.  Excepted: a push failed, the application was
\* installed, or a call wrote the copy while another was pulling or pushing, after
\* which the two may differ for good.
CopyIsTheHashFile ==
    (\A c \in FileCalls : fileCalls[c].at \in {"none", "resolved", "rejected"}) /\ ~pushFailed /\ ~raced =>
        \A s \in Services : localCopy[s] # NoHashes => hashFile[s] = localCopy[s] \/ (hashFile[s] = NoHashes /\ reinstalls > 0)

\* Violated: getShasumsFromDevice "returns null" if the hash file does not exist on
\* the device.  Called while nothing else is under way, it returns the copy of
\* another service all the same, once that one has called the getter of its copy.
NullWithoutHashFile ==
    \A c \in FileCalls :
        /\ In(c, "look") /\ fileCalls[c].op = "get" /\ hashFile[fileCalls[c].s] = NoHashes /\ ~pushFailed
        /\ \A other \in FileCalls \ {c} : fileCalls[other].at \in {"none", "resolved", "rejected"}
        => localCopy[Getter("local", fileCalls[c].s)] = NoHashes
============================================================================
