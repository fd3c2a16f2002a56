---------------------------- MODULE UserSettings ----------------------------
(***************************************************************************)
(* UserSettingsServiceBase: the processes of the CLI share one settings    *)
(* file.  Each call takes a lock file, loads the settings unless its       *)
(* process has them already, and for a save writes all of them back; what  *)
(* the process keeps (userSettingsData) is never read again.  The lock is  *)
(* unlinked in a finally block, whatever happened before.                  *)
(*                                                                         *)
(* Processes run in parallel.  Inside one, a call that got an answer from  *)
(* lock() runs to its end without another call of the process: it awaits   *)
(* only what is settled, until removeSetting waits for the lock again.     *)
(* (Under sudo the first load also awaits a chown; that is left out.)      *)
(***************************************************************************)
EXTENDS Naturals

CONSTANTS
    Calls,      \* places for calls of the service that are in progress
    Procs,      \* processes
    ProcOf,     \* the process of a call
    Keys,       \* names of settings
    Values,     \* values of settings
    None,       \* no such setting, no lock file, no process
    Orphan,     \* the lock file of a process that is gone
    NoData,     \* userSettingsData is null
    Missing,    \* there is no settings file
    Null,       \* the file holds the text null
    Torn,       \* the file cannot be parsed: a write is not over
    MaxCrashes  \* how often a process is killed (bound)

ASSUME UserSettingsAssumption ==
    /\ ProcOf \in [Calls -> Procs]
    /\ None \notin Calls \cup Procs \cup Values
    /\ Orphan \notin Calls \cup {None}
    /\ {NoData, Missing, Null, Torn} \cap [Keys -> Values \cup {None}] = {}
    /\ Missing # Null /\ Missing # Torn /\ Null # Torn
    /\ MaxCrashes \in Nat

VARIABLES
    file,      \* the settings file
    lock,      \* the lock file: the call that created it
    opened,    \* calls that write to the file that is there now
    data,      \* userSettingsData of each process
    pc,        \* where a call is
    op,        \* what was called
    depth,     \* how many executeActionWithLock of the call are open
    crashes,   \* processes killed so far (bound)
    seized,    \* history: a call unlinked the lock file of another one
    lastWriter,\* history: the process that wrote the file last
    own        \* history: what a process wrote and did not remove since

disk == <<file, opened, lock>>
calls == <<pc, op, depth>>
history == <<seized, lastWriter, own>>
vars == <<disk, data, calls, crashes, history>>

Settings == [Keys -> Values \cup {None}]
Empty == [k \in Keys |-> None]

Operation == [kind : {"get", "remove"}, key : Keys]
             \cup [kind : {"save"}, key : Keys, value : Values]
NoOp == [kind |-> "none"]

InFile == {"load", "write", "fill"}

TypeOK ==
    /\ file \in Settings \cup {Missing, Null, Torn}
    /\ lock \in Calls \cup {None, Orphan}
    /\ opened \in SUBSET Calls
    /\ data \in [Procs -> Settings \cup {NoData}]
    /\ pc \in [Calls -> {"idle", "wait", "leave"} \cup InFile]
    /\ op \in [Calls -> Operation \cup {NoOp}]
    /\ depth \in [Calls -> 0 .. 2]
    /\ crashes \in 0 .. MaxCrashes
    /\ seized \in BOOLEAN
    /\ lastWriter \in Procs \cup {None}
    /\ own \in [Procs -> Settings]

Init ==
    /\ file \in {Missing, Empty}
    /\ lock = None
    /\ opened = {}
    /\ data = [p \in Procs |-> NoData]
    /\ pc = [c \in Calls |-> "idle"]
    /\ op = [c \in Calls |-> NoOp]
    /\ depth = [c \in Calls |-> 0]
    /\ crashes = 0
    /\ seized = FALSE
    /\ lastWriter = None
    /\ own = [p \in Procs |-> Empty]

----------------------------------------------------------------------------
(* Helpers *)

Data(c) == data[ProcOf[c]]

\* No other call of the process is between an answer of lock() and its end.
ThreadFree(c) ==
    \A d \in Calls \ {c} : ProcOf[d] = ProcOf[c] => pc[d] \notin InFile \cup {"leave"}

\* c is between lock() and unlock(), or waits for the lock it holds.
Holds(c) == pc[c] \in InFile \/ (pc[c] = "wait" /\ depth[c] = 2)

Goto(c, place) == pc' = [pc EXCEPT ![c] = place]

\* loadUserSettingsFile: what the process has, or what the file holds.
Loaded(c) ==
    IF Data(c) # NoData THEN Data(c)
    ELSE IF file \in Settings THEN file ELSE NoData

\* Mutant of FileAfterLoad: whatever holds no settings is deleted, not only what cannot be parsed.
FileAfterStrictLoad(c) ==
    IF Data(c) # NoData \/ file \in Settings THEN file
    ELSE IF file = Missing THEN Null ELSE Missing

\* What loading leaves of the file: a missing file is created with the text
\* null, one that cannot be parsed is deleted.
FileAfterLoad(c) ==
    IF Data(c) # NoData THEN file
    ELSE CASE file = Missing -> Null
           [] file = Torn    -> Missing
           [] OTHER          -> file

\* Who writes to a deleted file writes to nobody.
LoadFile(c) ==
    /\ file' = FileAfterLoad(c)
    /\ opened' = IF FileAfterLoad(c) = Missing THEN {} ELSE opened

Load(c) ==
    /\ LoadFile(c)
    /\ data' = [data EXCEPT ![ProcOf[c]] = Loaded(c)]

----------------------------------------------------------------------------
(* The steps of a call *)

Call(c) ==
    /\ pc[c] = "idle" /\ ThreadFree(c)
    /\ \E o \in Operation : op' = [op EXCEPT ![c] = o]
    /\ depth' = [depth EXCEPT ![c] = 1]
    /\ Goto(c, "wait")
    /\ UNCHANGED <<disk, data, crashes, history>>

\* lockfile.lock creates the file.
Lock(c) ==
    /\ pc[c] = "wait" /\ ThreadFree(c)
    /\ lock = None
    /\ lock' = c
    /\ Goto(c, "load")
    /\ UNCHANGED <<file, opened, data, op, depth, crashes, history>>

\* Mutant of LockStale: staleness is not looked at: a waiting call takes the lock of a live one.
LockAnyStale(c) ==
    /\ pc[c] = "wait" /\ ThreadFree(c)
    /\ lock # None
    /\ lock' = c
    /\ Goto(c, "load")
    /\ UNCHANGED <<file, opened, data, op, depth, crashes, history>>

\* The lock file is older than three minutes.  Nobody works or waits that
\* long: its process is gone.
LockStale(c) ==
    /\ pc[c] = "wait" /\ ThreadFree(c)
    /\ lock = Orphan
    /\ lock' = c
    /\ Goto(c, "load")
    /\ UNCHANGED <<file, opened, data, op, depth, crashes, history>>

\* Mutant of LockFails: lock() without a limit of retries.
LockNeverFails(c) ==
    /\ pc[c] = "wait" /\ ThreadFree(c)
    /\ lock # None /\ lock # c
    /\ Goto(c, "leave")
    /\ UNCHANGED <<disk, data, op, depth, crashes, history>>

\* The file was there at each of the hundred retries: lock() rejects, and the
\* finally block is next.
LockFails(c) ==
    /\ pc[c] = "wait" /\ ThreadFree(c)
    /\ lock # None
    /\ Goto(c, "leave")
    /\ UNCHANGED <<disk, data, op, depth, crashes, history>>

\* getSettingValue: load, and answer from what is loaded.
Get(c) ==
    /\ pc[c] = "load" /\ op[c].kind = "get"
    /\ Load(c)
    /\ Goto(c, "leave")
    /\ UNCHANGED <<lock, op, depth, crashes, history>>

\* saveSettings: load, before the new values are merged.  The saveSettings of
\* a removal comes here when it has the lock for the second time.
LoadToSave(c) ==
    /\ pc[c] = "load"
    /\ op[c].kind = "save" \/ depth[c] = 2
    /\ Load(c)
    /\ Goto(c, "write")
    /\ UNCHANGED <<lock, op, depth, crashes, history>>

\* removeSetting: load and delete the key, which throws when there are no
\* settings; then saveSettings asks for the lock this call holds.
Remove(c) ==
    /\ pc[c] = "load" /\ op[c].kind = "remove" /\ depth[c] = 1
    /\ LoadFile(c)
    /\ IF Loaded(c) = NoData
       THEN /\ Goto(c, "leave")
            /\ UNCHANGED <<data, depth, own>>
       ELSE /\ data' = [data EXCEPT ![ProcOf[c]] = [Loaded(c) EXCEPT ![op[c].key] = None]]
            /\ own' = [own EXCEPT ![ProcOf[c]][op[c].key] = None]
            /\ depth' = [depth EXCEPT ![c] = 2]
            /\ Goto(c, "wait")
    /\ UNCHANGED <<lock, op, crashes, seized, lastWriter>>

\* Mutant of Merged: only the new value is written.
MergedNewOnly(c) ==
    IF op[c].kind = "save" THEN [Empty EXCEPT ![op[c].key] = op[c].value] ELSE Empty

\* The settings the process will write: {} when it has none, with the new value.
Merged(c) ==
    LET known == IF Data(c) = NoData THEN Empty ELSE Data(c)
    IN  IF op[c].kind = "save" THEN [known EXCEPT ![op[c].key] = op[c].value] ELSE known

\* Merge, and open the file for writing: it is truncated.
Write(c) ==
    /\ pc[c] = "write"
    /\ data' = [data EXCEPT ![ProcOf[c]] = Merged(c)]
    /\ file' = Torn
    /\ opened' = opened \cup {c}
    /\ lastWriter' = None
    /\ Goto(c, "fill")
    /\ UNCHANGED <<lock, op, depth, crashes, seized, own>>

\* History: who wrote, and what it saved.  Nothing is recorded after a seizure.
Record(writer, saved) ==
    /\ lastWriter' = IF seized THEN None ELSE writer
    /\ own' = IF seized THEN own ELSE saved

\* The bytes reach the file that was opened, which may have been deleted since.
\* Over the bytes of another call they may leave a tail that cannot be parsed.
Fill(c) ==
    /\ pc[c] = "fill"
    /\ IF c \in opened
       THEN file' \in {Data(c)} \cup (IF file = Torn THEN {} ELSE {Torn})
       ELSE UNCHANGED file
    /\ opened' = opened \ {c}
    /\ Record(ProcOf[c], IF op[c].kind = "save"
                         THEN [own EXCEPT ![ProcOf[c]][op[c].key] = op[c].value] ELSE own)
    /\ Goto(c, "leave")
    /\ UNCHANGED <<lock, data, op, depth, crashes, seized>>

\* unlockSync unlinks the lock file, whoever created it.
Unlink(c) ==
    /\ lock' = None
    /\ seized' = (seized \/ lock \in Calls \ {c})
    /\ IF seized'
       THEN lastWriter' = None /\ own' = [p \in Procs |-> Empty]
       ELSE UNCHANGED <<lastWriter, own>>

\* Mutant of Unlock: unlock() after the action instead of in finally: not for a call that throws.
UnlockOnSuccess(c) ==
    /\ pc[c] = "leave"
    /\ IF op[c].kind = "remove" THEN UNCHANGED <<lock, history>> ELSE Unlink(c)
    /\ depth' = [depth EXCEPT ![c] = @ - 1]
    /\ IF depth[c] = 2
       THEN UNCHANGED <<pc, op>>
       ELSE /\ Goto(c, "idle")
            /\ op' = [op EXCEPT ![c] = NoOp]
    /\ UNCHANGED <<file, opened, data, crashes>>

\* The finally block of executeActionWithLock; a removal has two of them.
Unlock(c) ==
    /\ pc[c] = "leave"
    /\ Unlink(c)
    /\ depth' = [depth EXCEPT ![c] = @ - 1]
    /\ IF depth[c] = 2
       THEN UNCHANGED <<pc, op>>
       ELSE /\ Goto(c, "idle")
            /\ op' = [op EXCEPT ![c] = NoOp]
    /\ UNCHANGED <<file, opened, data, crashes>>

----------------------------------------------------------------------------
(* The life of a process; the next one starts without data *)

CallsOf(p) == {c \in Calls : ProcOf[c] = p}

Fresh(p) ==
    /\ data' = [data EXCEPT ![p] = NoData]
    /\ own' = [own EXCEPT ![p] = Empty]

\* The command is over.
Exit(p) ==
    /\ \A c \in CallsOf(p) : pc[c] = "idle"
    /\ Fresh(p)
    /\ UNCHANGED <<disk, calls, crashes, seized, lastWriter>>

\* The process is killed: its lock file and what it wrote so far stay.
Crash(p) ==
    /\ crashes < MaxCrashes
    /\ crashes' = crashes + 1
    /\ Fresh(p)
    /\ lock' = IF lock \in CallsOf(p) THEN Orphan ELSE lock
    /\ pc' = [c \in Calls |-> IF c \in CallsOf(p) THEN "idle" ELSE pc[c]]
    /\ op' = [c \in Calls |-> IF c \in CallsOf(p) THEN NoOp ELSE op[c]]
    /\ depth' = [c \in Calls |-> IF c \in CallsOf(p) THEN 0 ELSE depth[c]]
    /\ opened' = opened \ CallsOf(p)
    /\ UNCHANGED <<file, seized, lastWriter>>

AsksForLock(c) == Lock(c) \/ LockStale(c) \/ LockFails(c)
Works(c) == Get(c) \/ LoadToSave(c) \/ Remove(c) \/ Write(c) \/ Fill(c) \/ Unlock(c)

Next ==
    \/ \E c \in Calls : Call(c) \/ AsksForLock(c) \/ Works(c)
    \/ \E p \in Procs : Exit(p) \/ Crash(p)

Spec == Init /\ [][Next]_vars

\* Code that runs goes on running.  A waiting call is served by the event loop
\* again and again, whatever the other calls of its process do, and has a
\* bounded number of retries.
FairSpec ==
    /\ Spec
    /\ \A c \in Calls : WF_vars(Works(c)) /\ SF_vars(AsksForLock(c))

----------------------------------------------------------------------------
(* Properties *)

\* Two calls never work on the file at once, in whatever processes they are,
\* unless some call took the lock file of a live one away: killed processes and
\* stale locks do not break it (lockfile.ts, executeActionWithLock).
Exclusion ==
    ~seized => \A c, d \in Calls : pc[c] \in InFile /\ pc[d] \in InFile => c = d

\* Unless a lock was seized, the file holds all that the process which wrote it
\* last has saved, in this save and before, and did not remove: only what other
\* processes saved is overwritten (saveSettings writes userSettingsData whole).
LastWriterPrevails ==
    ~seized /\ lastWriter # None =>
        /\ file \in Settings
        /\ \A k \in Keys : own[lastWriter][k] # None => file[k] = own[lastWriter][k]

\* A lock file of a live process is the one of a call that is still between
\* its lock() and its unlock(), error or not (the finally block).
LockIsReleased == lock \in Calls => pc[lock] # "idle"

\* A removal gets to write the file only after its own lock was taken away by
\* somebody: removeSetting waits in saveSettings for the lock it holds.
RemovalNeedsSeizure ==
    \A c \in Calls : op[c].kind = "remove" /\ pc[c] \in {"write", "fill"} => seized

\* The file is deleted only when a process was killed while it wrote, or a lock
\* was seized: nobody finds it truncated otherwise (loadUserSettingsData).
DeletedOnlyAfterFailure ==
    [][file # Missing /\ file' = Missing => crashes > 0 \/ seized]_vars

\* Every call is answered, with its result or an error: the retries are bounded,
\* also those of a removal that waits for itself and those for the lock of a
\* process that is gone.
CallsEnd == \A c \in Calls : pc[c] # "idle" ~> pc[c] = "idle"

\* "In case lock is older than 3 minutes, consider it stale and try to get a
\* new lock" (lockfile.ts:14): until then the file of a live call is unlinked by
\* that call only.
LockKeptUntilStale ==
    [][\A c \in Calls : lock = c /\ lock' # c =>
           <<pc[c], depth[c]>>' # <<pc[c], depth[c]>>]_vars
=============================================================================
